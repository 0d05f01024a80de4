------------------------------ MODULE SimulatorProofs ------------------------------
(***************************************************************************)
(* The two invariants of SimulatorInvariant hold from the start and are    *)
(* kept by every step: IInv action by action, and then HistoryInv, which   *)
(* remembers the order and the times of what has happened, by what a step  *)
(* amounts to, told as its effect on the job records.                      *)
(***************************************************************************)
EXTENDS SimulatorInvariant, OperatorProofs, SequenceTheorems
LOCAL INSTANCE SequencesExt

--------------------------------------------------------------------------------
(* Data *)

\* The three kinds of payload are told apart by their type.
LEMMA PayloadKinds ==
    ASSUME NEW p \in Payload
    PROVE  /\ p.type \in {"JobArrival", "JobFinish", "SimEnd"}
           /\ p.type = "JobArrival" => p.job \in JobId /\ p = JobArrival(p.job)
           /\ p.type = "JobFinish" => p.job \in JobId /\ p.node \in NodeId
  BY DEF Payload, JobArrival, JobFinish, SimEnd

\* What a scheduled event carries.
LEMMA PayloadFields ==
    ASSUME NEW j \in JobId, NEW n \in NodeId
    PROVE  /\ JobArrival(j) \in Payload /\ JobFinish(j, n) \in Payload /\ SimEnd \in Payload
           /\ JobArrival(j).type = "JobArrival" /\ JobArrival(j).job = j
           /\ JobFinish(j, n).type = "JobFinish" /\ JobFinish(j, n).job = j
           /\ JobFinish(j, n).node = n
           /\ SimEnd.type = "SimEnd"
  BY DEF Payload, JobArrival, JobFinish, SimEnd

\* There are finitely many jobs and a job's record has the fields it should.
LEMMA JobFacts ==
    ASSUME workload \in Seq(JobSpec)
    PROVE  /\ JobId = 1 .. Len(workload) /\ Len(workload) \in Nat
           /\ IsFiniteSet(JobId)
           /\ \A j \in JobId :
                /\ Request(j) \in Resources
                /\ workload[j].duration \in Nat
                /\ workload[j].estimated_duration \in Nat
                /\ workload[j].submit_time \in Nat
<1>1. JobId = 1 .. Len(workload) /\ Len(workload) \in Nat
  BY DEF JobId
<1>2. IsFiniteSet(JobId)
  BY <1>1, FS_Interval
<1>3. \A j \in JobId : workload[j] \in JobSpec
  BY <1>1, ElementOfSeq
<1>. QED  BY <1>1, <1>2, <1>3 DEF JobSpec, Request

--------------------------------------------------------------------------------
(* The initial states *)

LEMMA InitInv == Init => IInv
<1>. SUFFICES ASSUME Init PROVE IInv
  OBVIOUS
<1>. USE DEF Init
<1>1. workload \in Seq(JobSpec)
  BY SimulatorAssumption
<1>2. ConfigInv
  BY DEF ConfigInv
<1>. DEFINE SeedOf(e, j) ==
        /\ e = [time |-> workload[j].submit_time, seq |-> j - 1, payload |-> JobArrival(j)]
        /\ e.time \in Nat /\ e.seq \in Nat /\ e.seq = j - 1 /\ e.payload = JobArrival(j)
        /\ e.payload.type = "JobArrival" /\ e.payload.job = j /\ e.payload \in Payload
<1>3. \A e \in heap : \E j \in JobId : SeedOf(e, j)
  <2>1. SUFFICES ASSUME NEW e \in heap
                 PROVE  \E j \in JobId : SeedOf(e, j)
    OBVIOUS
  <2>2. PICK j \in JobId :
          e = [time |-> workload[j].submit_time, seq |-> j - 1, payload |-> JobArrival(j)]
    BY DEF Seeds, JobId
  <2>3. j \in Nat \ {0} /\ workload[j].submit_time \in Nat
    BY <1>1, JobFacts
  <2>4. e.time = workload[j].submit_time /\ e.seq = j - 1 /\ e.payload = JobArrival(j)
    BY <2>2
  <2>5. JobArrival(j) \in Payload
    BY DEF Payload
  <2>6. JobArrival(j).type = "JobArrival" /\ JobArrival(j).job = j
    BY DEF JobArrival
  <2>7. SeedOf(e, j)
    BY <2>2, <2>3, <2>4, <2>5, <2>6
  <2>. HIDE DEF SeedOf
  <2>. QED  BY <2>7
<1>4. TypeOK
  <2>1. heap \subseteq [time : Nat, seq : Nat, payload : Payload]
    BY <1>3
  <2>2. free \in [NodeId -> Resources] /\ running_jobs \in [NodeId -> Nat]
    BY NodesAssumption DEF ClusterInit, Resources
  <2>3. last_checkin \in Nat /\ ticks \in [Dim -> Nat]
    BY DEF UtilizationInit
  <2>4. next_seq \in Nat
    BY <1>1, JobFacts
  <2>5. workload \in Seq(JobSpec) /\ scheduler \in Schedulers /\ policy \in QueuePolicies
    BY <1>1
  <2>. QED  BY <2>1, <2>2, <2>3, <2>4, <2>5 DEF TypeOK, JobState
<1>5. ClockInv
  BY <1>3 DEF ClockInv, ClockNeverBehind, UtilizationInit
<1>6. EventsAgree
  BY <1>3 DEF EventsAgree
<1>7. EventsDiffer
  <2>1. \A e \in heap : e.seq < next_seq
    BY <1>1, <1>3, JobFacts
  <2>2. ASSUME NEW e \in heap, NEW f \in heap,
               e.seq = f.seq \/ e.payload.job = f.payload.job
        PROVE  e = f
    BY <1>1, <1>3, <2>2, JobFacts
  <2>. QED  BY <2>1, <2>2 DEF EventsDiffer
<1>8. JobsAwaited
  <2>1. ASSUME NEW j \in JobId
        PROVE  \E e \in heap : e.payload.type = "JobArrival" /\ e.payload.job = j
    <3>. DEFINE e == [time |-> workload[j].submit_time, seq |-> j - 1,
                      payload |-> JobArrival(j)]
    <3>1. e \in heap
      BY DEF Seeds, JobId
    <3>2. e.payload.type = "JobArrival" /\ e.payload.job = j
      BY DEF JobArrival
    <3>. QED  BY <3>1, <3>2
  <2>. QED  BY <2>1 DEF JobsAwaited
<1>9. BacklogInv /\ RunningInv /\ RecordsInv /\ ControlInv
  BY DEF BacklogInv, RunningInv, RecordsInv, ControlInv
<1>10. Conservation
  <2>1. ASSUME NEW n \in NodeId
        PROVE  JobsOn(n) = {}
    BY DEF JobsOn
  <2>2. ASSUME NEW n \in NodeId, NEW d \in Dim
        PROVE  free[n][d] + HeldOn(n, d) = Capacity[d]
    <3>1. HeldOn(n, d) = 0
      BY <2>1, SumEmpty DEF HeldOn
    <3>2. free[n][d] = Capacity[d] /\ Capacity[d] \in Nat
      BY NodesAssumption DEF ClusterInit
    <3>. QED  BY <3>1, <3>2
  <2>3. ASSUME NEW n \in NodeId
        PROVE  running_jobs[n] = Cardinality(JobsOn(n))
    BY <2>1, FS_EmptySet DEF ClusterInit
  <2>. QED  BY <2>2, <2>3 DEF Conservation
<1>. QED  BY <1>2, <1>4, <1>5, <1>6, <1>7, <1>8, <1>9, <1>10 DEF IInv

--------------------------------------------------------------------------------
(* Consequences of the invariant *)

\* What job j asks of dimension d, as a function the sums can be compared on.
Demand(d) == [j \in JobId |-> Request(j)[d]]

\* Where nothing starts or finishes the books stay as they are.
LEMMA UntouchedConserves ==
    ASSUME Conservation, workload' = workload, free' = free, running_jobs' = running_jobs,
           running' = running, node' = node
    PROVE  Conservation'
<1>1. \A n : JobsOn(n)' = JobsOn(n)
  BY DEF JobsOn
<1>2. \A j : Request(j)' = Request(j)
  BY DEF Request
<1>3. \A n, d : HeldOn(n, d)' = HeldOn(n, d)
  BY <1>1, <1>2 DEF HeldOn
<1>. QED  BY <1>1, <1>3 DEF Conservation

\* The jobs of a node are finitely many jobs, and what they hold is a number.
LEMMA HeldFacts ==
    ASSUME TypeOK, NEW n \in NodeId, NEW d \in Dim
    PROVE  /\ IsFiniteSet(JobsOn(n)) /\ JobsOn(n) \subseteq JobId
           /\ \A j \in JobId : Demand(d)[j] = Request(j)[d] /\ Request(j)[d] \in Nat
           /\ HeldOn(n, d) = SumOver(JobsOn(n), Demand(d))
           /\ HeldOn(n, d) \in Nat
<1>1. IsFiniteSet(JobId) /\ \A j \in JobId : Request(j) \in Resources
  BY JobFacts DEF TypeOK
<1>2. JobsOn(n) \subseteq JobId
  BY DEF JobsOn, TypeOK
<1>3. IsFiniteSet(JobsOn(n))
  BY <1>1, <1>2, FS_Subset
<1>4. \A j \in JobId : Demand(d)[j] = Request(j)[d] /\ Request(j)[d] \in Nat
  BY <1>1 DEF Demand, Resources
<1>5. HeldOn(n, d) = SumOver(JobsOn(n), Demand(d))
  BY <1>2, <1>4, SumCongruence DEF HeldOn
<1>6. HeldOn(n, d) \in Nat
  BY <1>2, <1>3, <1>4, <1>5, SumType
<1>. QED  BY <1>2, <1>3, <1>4, <1>5, <1>6

\* No node has more free than its capacity.
LEMMA FreeIsLevel ==
    ASSUME TypeOK, Conservation
    PROVE  free \in [NodeId -> FreeLevel]
<1>1. ASSUME NEW n \in NodeId, NEW d \in Dim
      PROVE  free[n][d] <= Capacity[d]
  <2>1. HeldOn(n, d) \in Nat
    BY HeldFacts
  <2>2. free[n][d] \in Nat /\ free[n][d] + HeldOn(n, d) = Capacity[d]
    BY DEF Conservation, TypeOK, Resources
  <2>. QED  BY <2>1, <2>2
<1>. QED  BY <1>1 DEF FreeLevel, TypeOK

\* The cluster as a whole never uses less than nothing.
LEMMA UtilizedIsNat ==
    ASSUME TypeOK, Conservation
    PROVE  TotalUtilized \in [Dim -> Nat]
<1>1. ASSUME NEW d \in Dim
      PROVE  TotalCapacity[d] - TotalFree[d] \in Nat
  <2>. DEFINE total == [n \in NodeId |-> Capacity[d]]
              left  == [n \in NodeId |-> free[n][d]]
  <2>1. IsFiniteSet(NodeId)
    BY NodesAssumption, FS_Interval DEF NodeId
  <2>2. \A n \in NodeId : left[n] \in Nat /\ total[n] \in Nat /\ left[n] <= total[n]
    BY FreeIsLevel, NodesAssumption DEF FreeLevel, Resources
  <2>. HIDE DEF total, left
  <2>3. SumOver(NodeId, left) \in Nat /\ SumOver(NodeId, total) \in Nat
    BY <2>1, <2>2, SumType
  <2>4. SumOver(NodeId, left) <= SumOver(NodeId, total)
    BY <2>1, <2>2, SumLarger
  <2>5. TotalCapacity[d] = SumOver(NodeId, total) /\ TotalFree[d] = SumOver(NodeId, left)
    BY DEF TotalCapacity, TotalFree, total, left
  <2>. QED  BY <2>3, <2>4, <2>5
<1>. QED  BY <1>1 DEF TotalUtilized, Minus

\* A policy has a node for a job exactly if the job fits somewhere, and it is
\* a node the job fits on.
LEMMA PlacementOfJob ==
    ASSUME IInv, NEW j \in JobId
    PROVE  /\ \A n \in Placement(j) : n \in NodeId /\ CanFit(free[n], Request(j))
           /\ Placement(j) = {} <=> ~ FitsAnywhere(Request(j), free)
<1>1. Request(j) \in Resources
  BY JobFacts DEF IInv, TypeOK
<1>2. free \in [NodeId -> FreeLevel]
  BY FreeIsLevel DEF IInv
<1>3. scheduler \in SchedulerNames /\ pos \in Nat
  BY SimulatorAssumption DEF IInv, TypeOK
<1>4. /\ Placement(j) \subseteq Fitting(Request(j), free)
      /\ Placement(j) = {} <=> Fitting(Request(j), free) = {}
  BY <1>1, <1>2, <1>3, PlacementContract DEF Placement
<1>. QED  BY <1>4 DEF Fitting, FitsAnywhere

\* What a policy picks waits behind the head, and fits somewhere.
LEMMA PickOfBacklog ==
    ASSUME IInv, NEW j \in Pick
    PROVE  /\ j \in JobId
           /\ FitsAnywhere(Request(j), free)
           /\ \E i \in DOMAIN pending : i # 1 /\ pending[i] = j
<1>1. pending \in Seq(JobId) /\ policy \in QueuePolicyNames
  BY SimulatorAssumption DEF IInv, TypeOK
<1>2. Len(BacklogView) = Len(pending)
  BY <1>1 DEF BacklogView
<1>3. PICK i \in 2 .. Len(BacklogView) :
        j = BacklogView[i].id /\ FitsAnywhere(BacklogView[i].request, free)
  BY <1>1, BackfillContract DEF Pick
<1>4. i \in 2 .. Len(pending) /\ i \in DOMAIN pending /\ i # 1
  BY <1>1, <1>2, <1>3
<1>5. BacklogView[i].id = pending[i] /\ BacklogView[i].request = Request(pending[i])
  BY <1>1, <1>4 DEF BacklogView
<1>. QED  BY <1>1, <1>3, <1>4, <1>5, ElementOfSeq

--------------------------------------------------------------------------------
(* Resources: a start and a finish keep the books balanced *)

\* Starting a job on a node it fits on moves its request from what the node
\* has free to what its jobs hold.
LEMMA AllocateConserves ==
    ASSUME TypeOK, Conservation, NEW j \in JobId, j \notin running,
           NEW n \in NodeId, CanFit(free[n], Request(j)),
           Allocate(n, Request(j)),
           running' = running \cup {j}, node' = [node EXCEPT ![j] = n], workload' = workload
    PROVE  /\ Conservation'
           /\ free' \in [NodeId -> Resources]
           /\ running_jobs' \in [NodeId -> Nat]
           /\ \A m \in NodeId : \A d \in Dim : free'[m][d] <= free[m][d]
<1>1. \A d \in Dim : Request(j)[d] \in Nat /\ Request(j)[d] <= free[n][d]
  BY HeldFacts DEF CanFit
<1>2. \A m \in NodeId : \A d \in Dim : free[m][d] \in Nat
  BY DEF TypeOK, Resources
<1>3. /\ \A d \in Dim : free'[n][d] = free[n][d] - Request(j)[d]
      /\ \A m \in NodeId \ {n} : free'[m] = free[m]
      /\ DOMAIN free' = NodeId
      /\ free'[n] = Minus(free[n], Request(j))
  BY DEF Allocate, Minus, TypeOK
<1>4. free' \in [NodeId -> Resources]
  <2>1. free'[n] \in Resources
    BY <1>1, <1>2, <1>3 DEF Minus, Resources
  <2>2. free' = [free EXCEPT ![n] = free'[n]]
    BY <1>3 DEF Allocate
  <2>. QED  BY <2>1, <2>2 DEF TypeOK
<1>5. /\ running_jobs' \in [NodeId -> Nat]
      /\ running_jobs'[n] = running_jobs[n] + 1
      /\ \A m \in NodeId \ {n} : running_jobs'[m] = running_jobs[m]
  BY DEF Allocate, TypeOK
<1>6. /\ JobsOn(n)' = JobsOn(n) \cup {j} /\ j \notin JobsOn(n)
      /\ \A m \in NodeId \ {n} : JobsOn(m)' = JobsOn(m)
  BY DEF JobsOn, TypeOK
<1>7. \A m \in NodeId : JobsOn(m)' \subseteq JobId
  BY <1>6 DEF JobsOn, TypeOK
<1>8. \A d \in Dim : \A m \in NodeId : HeldOn(m, d)' = SumOver(JobsOn(m)', Demand(d))
  <2>1. ASSUME NEW d \in Dim, NEW m \in NodeId
        PROVE  HeldOn(m, d)' = SumOver(JobsOn(m)', Demand(d))
    <3>1. HeldOn(m, d)' = SumOver(JobsOn(m)', [k \in JobsOn(m)' |-> Request(k)[d]])
      BY DEF HeldOn, Request
    <3>2. \A k \in JobsOn(m)' : [i \in JobsOn(m)' |-> Request(i)[d]][k] = Demand(d)[k]
      BY <1>7, HeldFacts
    <3>. QED  BY <3>1, <3>2, SumCongruence
  <2>. QED  BY <2>1
<1>9. ASSUME NEW m \in NodeId, NEW d \in Dim
      PROVE  free'[m][d] + HeldOn(m, d)' = Capacity[d]
  <2>1. free[m][d] + HeldOn(m, d) = Capacity[d] /\ HeldOn(m, d) \in Nat
    BY HeldFacts DEF Conservation
  <2>2. CASE m # n
    BY <1>3, <1>6, <1>8, <2>1, <2>2, HeldFacts
  <2>3. CASE m = n
    <3>1. SumOver(JobsOn(n) \cup {j}, Demand(d)) =
            SumOver(JobsOn(n), Demand(d)) + Demand(d)[j]
      <4>1. /\ IsFiniteSet(JobsOn(n)) /\ j \notin JobsOn(n)
            /\ \A k \in JobsOn(n) \cup {j} : Demand(d)[k] \in Nat
        BY <1>6, HeldFacts
      <4>. QED  BY <4>1, SumAdd
    <3>2. HeldOn(n, d)' = HeldOn(n, d) + Request(j)[d]
      BY <1>6, <1>8, <3>1, HeldFacts
    <3>. QED  BY <1>1, <1>2, <1>3, <2>1, <2>3, <3>2
  <2>. QED  BY <2>2, <2>3
<1>10. ASSUME NEW m \in NodeId
       PROVE  running_jobs'[m] = Cardinality(JobsOn(m)')
  <2>1. running_jobs[m] = Cardinality(JobsOn(m)) /\ IsFiniteSet(JobsOn(m))
    BY HeldFacts DEF Conservation, Dim
  <2>2. Cardinality(JobsOn(n) \cup {j}) = Cardinality(JobsOn(n)) + 1
    BY <1>6, HeldFacts, FS_AddElement DEF Dim
  <2>. QED  BY <1>5, <1>6, <2>1, <2>2
<1>11. \A m \in NodeId : \A d \in Dim : free'[m][d] <= free[m][d]
  <2>1. \A d \in Dim : free'[n][d] <= free[n][d]
    BY <1>1, <1>2, <1>3
  <2>. QED  BY <1>2, <1>3, <2>1
<1>12. Conservation'
  BY <1>9, <1>10 DEF Conservation
<1>. QED  BY <1>4, <1>5, <1>11, <1>12

\* A finish moves it back.
LEMMA ReleaseConserves ==
    ASSUME TypeOK, Conservation, NEW j \in running, node[j] \in NodeId,
           Release(node[j], Request(j)),
           running' = running \ {j}, node' = node, workload' = workload
    PROVE  /\ Conservation'
           /\ free' \in [NodeId -> Resources]
           /\ running_jobs' \in [NodeId -> Nat]
<1>. DEFINE n == node[j]
<1>0. j \in JobId /\ n \in NodeId /\ j \in JobsOn(n)
  BY DEF JobsOn, TypeOK
<1>1. \A d \in Dim : Request(j)[d] \in Nat
  BY <1>0, HeldFacts
<1>2. \A m \in NodeId : \A d \in Dim : free[m][d] \in Nat
  BY DEF TypeOK, Resources
<1>3. /\ \A d \in Dim : free'[n][d] = free[n][d] + Request(j)[d]
      /\ \A m \in NodeId \ {n} : free'[m] = free[m]
      /\ free'[n] = Plus(free[n], Request(j))
      /\ free' = [free EXCEPT ![n] = Plus(free[n], Request(j))]
  BY <1>0 DEF Release, Plus, TypeOK
<1>4. free' \in [NodeId -> Resources]
  <2>1. Plus(free[n], Request(j)) \in Resources
    BY <1>0, <1>1, <1>2 DEF Plus, Resources
  <2>. QED  BY <1>0, <1>3, <2>1 DEF TypeOK
<1>5. /\ JobsOn(n)' = JobsOn(n) \ {j}
      /\ \A m \in NodeId \ {n} : JobsOn(m)' = JobsOn(m)
  BY <1>0 DEF JobsOn
<1>6. \A m \in NodeId : JobsOn(m)' \subseteq JobId
  BY <1>0, <1>5, HeldFacts DEF Dim
<1>7. \A d \in Dim : \A m \in NodeId : HeldOn(m, d)' = SumOver(JobsOn(m)', Demand(d))
  <2>1. ASSUME NEW d \in Dim, NEW m \in NodeId
        PROVE  HeldOn(m, d)' = SumOver(JobsOn(m)', Demand(d))
    <3>1. HeldOn(m, d)' = SumOver(JobsOn(m)', [k \in JobsOn(m)' |-> Request(k)[d]])
      BY DEF HeldOn, Request
    <3>2. \A k \in JobsOn(m)' : [i \in JobsOn(m)' |-> Request(i)[d]][k] = Demand(d)[k]
      BY <1>6, HeldFacts
    <3>. QED  BY <3>1, <3>2, SumCongruence
  <2>. QED  BY <2>1
<1>8. ASSUME NEW m \in NodeId, NEW d \in Dim
      PROVE  free'[m][d] + HeldOn(m, d)' = Capacity[d]
  <2>1. free[m][d] + HeldOn(m, d) = Capacity[d] /\ HeldOn(m, d) \in Nat
    BY HeldFacts DEF Conservation
  <2>2. CASE m # n
    BY <1>3, <1>5, <1>7, <2>1, <2>2, HeldFacts
  <2>3. CASE m = n
    <3>1. SumOver(JobsOn(n), Demand(d)) =
            SumOver(JobsOn(n) \ {j}, Demand(d)) + Demand(d)[j]
      BY <1>0, HeldFacts, SumRemove
    <3>2. HeldOn(n, d) = HeldOn(n, d)' + Request(j)[d]
      BY <1>0, <1>5, <1>7, <3>1, HeldFacts
    <3>3. HeldOn(n, d)' \in Nat
      <4>1. IsFiniteSet(JobsOn(n) \ {j}) /\ \A k \in JobsOn(n) \ {j} : Demand(d)[k] \in Nat
        BY <1>0, HeldFacts, FS_RemoveElement
      <4>2. SumOver(JobsOn(n) \ {j}, Demand(d)) \in Nat
        BY <4>1, SumType
      <4>. QED  BY <1>0, <1>5, <1>7, <4>2
    <3>. QED  BY <1>0, <1>1, <1>2, <1>3, <2>1, <2>3, <3>2, <3>3
  <2>. QED  BY <2>2, <2>3
<1>9. ASSUME NEW m \in NodeId
      PROVE  /\ running_jobs'[m] = Cardinality(JobsOn(m)')
             /\ running_jobs'[m] \in Nat
  <2>1. /\ running_jobs[m] = Cardinality(JobsOn(m)) /\ IsFiniteSet(JobsOn(m))
        /\ running_jobs[m] \in Nat
    BY HeldFacts DEF Conservation, Dim, TypeOK
  <2>2. CASE m # n
    BY <1>5, <2>1, <2>2 DEF Release, TypeOK
  <2>3. CASE m = n
    <3>1. /\ Cardinality(JobsOn(n) \ {j}) = Cardinality(JobsOn(n)) - 1
          /\ IsFiniteSet(JobsOn(n) \ {j})
      BY <1>0, <2>1, <2>3, FS_RemoveElement
    <3>2. running_jobs'[n] = running_jobs[n] - 1
      BY <1>0 DEF Release, TypeOK
    <3>3. Cardinality(JobsOn(n) \ {j}) \in Nat
      BY <3>1, FS_CardinalityType
    <3>. QED  BY <1>5, <2>1, <2>3, <3>1, <3>2, <3>3
  <2>. QED  BY <2>2, <2>3
<1>10. running_jobs' \in [NodeId -> Nat]
  BY <1>9 DEF Release, TypeOK
<1>11. Conservation'
  BY <1>8, <1>9 DEF Conservation
<1>. QED  BY <1>4, <1>10, <1>11

--------------------------------------------------------------------------------
(* The event handlers preserve the invariant *)

\* Taking an event off the queue moves the clock to it and past none.
LEMMA TakeMovesClock ==
    ASSUME IInv, NEW e \in heap, Take(e)
    PROVE  /\ pc = "run"
           /\ heap' = heap \ {e} /\ next_seq' = next_seq
           /\ now' = e.time /\ now' \in Nat /\ last_checkin' = now'
           /\ ticks' \in [Dim -> Nat]
           /\ \A f \in heap' : now' <= f.time
<1>1. \A f \in heap : f.time \in Nat /\ f.seq \in Nat
  BY DEF IInv, TypeOK
<1>2. /\ pc = "run" /\ heap' = heap \ {e} /\ next_seq' = next_seq /\ now' = e.time
      /\ last_checkin' = e.time
      /\ \A f \in heap \ {e} : EarliestFirst(f, e)
  BY DEF Take, Pop, Top, Advance
<1>3. \A f \in heap' : e.time <= f.time
  BY <1>1, <1>2 DEF EarliestFirst
<1>4. ticks' \in [Dim -> Nat]
  <2>1. TotalUtilized \in [Dim -> Nat]
    BY UtilizedIsNat DEF IInv
  <2>2. e.time - last_checkin \in Nat
    BY <1>1 DEF IInv, ClockInv, ClockNeverBehind, TypeOK
  <2>3. \A d \in Dim : ticks[d] + (e.time - last_checkin) * TotalUtilized[d] \in Nat
    <3>1. ASSUME NEW d \in Dim
          PROVE  ticks[d] + (e.time - last_checkin) * TotalUtilized[d] \in Nat
      <4>. DEFINE u == TotalUtilized[d]
                  k == e.time - last_checkin
      <4>1. u \in Nat /\ k \in Nat /\ ticks[d] \in Nat
        BY <2>1, <2>2 DEF IInv, TypeOK
      <4>. HIDE DEF u, k
      <4>2. k * u \in Nat
        BY <4>1
      <4>3. ticks[d] + k * u \in Nat
        BY <4>1, <4>2
      <4>. QED  BY <4>3 DEF u, k
    <3>. QED  BY <3>1
  <2>. QED  BY <2>3, Zenon DEF Take, Advance
<1>. QED  BY <1>1, <1>2, <1>3, <1>4

\* An arrival moves a job from the queue of events to the end of the backlog.
LEMMA OnArrivalPreserves ==
    ASSUME IInv, OnArrival
    PROVE  IInv'
<1>1. PICK e \in heap :
        /\ e.payload.type = "JobArrival"
        /\ Take(e)
        /\ pending' = Append(pending, e.payload.job)
        /\ pc' = "drain"
        /\ UNCHANGED <<config, jobs, machines, running, sim_end, backfilled, pos>>
  BY DEF OnArrival
<1>. DEFINE a == e.payload.job
<1>2. /\ heap' = heap \ {e} /\ next_seq' = next_seq
      /\ now' = e.time /\ now' \in Nat /\ last_checkin' = now'
      /\ ticks' \in [Dim -> Nat]
      /\ \A f \in heap' : now' <= f.time
  BY <1>1, TakeMovesClock
<1>3. /\ workload' = workload /\ scheduler' = scheduler /\ policy' = policy
      /\ state' = state /\ start_time' = start_time /\ finish_time' = finish_time
      /\ node' = node /\ free' = free /\ running_jobs' = running_jobs
      /\ running' = running /\ sim_end' = sim_end /\ backfilled' = backfilled /\ pos' = pos
  BY <1>1 DEF config, jobs, machines
<1>4. a \in JobId
  BY <1>1, PayloadKinds DEF IInv, TypeOK
<1>5. state[a] = "Queued" /\ \A i \in DOMAIN pending : pending[i] # a
  BY <1>1 DEF IInv, EventsAgree
<1>6. pending \in Seq(JobId) /\ DOMAIN pending = 1 .. Len(pending) /\ Len(pending) \in Nat
  BY DEF IInv, TypeOK
<1>7. /\ pending' \in Seq(JobId)
      /\ DOMAIN pending' = 1 .. Len(pending) + 1
      /\ \A i \in DOMAIN pending : i \in DOMAIN pending' /\ pending'[i] = pending[i]
      /\ pending'[Len(pending) + 1] = a
      /\ \A i \in DOMAIN pending' : i \in DOMAIN pending \/ i = Len(pending) + 1
  BY <1>1, <1>4, <1>6, AppendProperties
<1>8. TypeOK'
  <2>1. heap' \subseteq [time : Nat, seq : Nat, payload : Payload']
    BY <1>2, <1>3 DEF IInv, TypeOK, Payload, JobId, JobArrival, JobFinish
  <2>. QED  BY <1>1, <1>2, <1>3, <1>7, <2>1 DEF IInv, TypeOK, JobId
<1>9. ConfigInv' /\ ClockInv' /\ Conservation' /\ ControlInv' /\ RunningInv' /\ RecordsInv'
  <2>1. ConfigInv' /\ RunningInv' /\ RecordsInv'
    BY <1>3 DEF IInv, ConfigInv, RunningInv, RecordsInv, JobId
  <2>2. ClockInv'
    BY <1>2 DEF ClockInv, ClockNeverBehind
  <2>3. Conservation'
    BY <1>3, UntouchedConserves DEF IInv
  <2>4. ControlInv'
    BY <1>1 DEF ControlInv
  <2>. QED  BY <2>1, <2>2, <2>3, <2>4
<1>10. EventsDiffer'
  BY <1>2 DEF IInv, EventsDiffer
<1>11. EventsAgree'
  <2>1. ASSUME NEW f \in heap', f.payload.type = "JobArrival"
        PROVE  /\ state'[f.payload.job] = "Queued"
               /\ \A i \in DOMAIN pending' : pending'[i] # f.payload.job
    <3>1. f \in heap /\ f # e
      BY <1>2
    <3>2. f.payload.job # a
      BY <1>1, <2>1, <3>1 DEF IInv, EventsDiffer
    <3>. QED  BY <1>3, <1>7, <2>1, <3>1, <3>2 DEF IInv, EventsAgree
  <2>2. ASSUME NEW f \in heap', f.payload.type = "JobFinish"
        PROVE  /\ state'[f.payload.job] = "Running"
               /\ f.time = start_time'[f.payload.job] + workload'[f.payload.job].duration
               /\ f.payload.node = node'[f.payload.job]
    BY <1>2, <1>3, <2>2 DEF IInv, EventsAgree
  <2>3. \A f \in heap' : f.payload.type # "SimEnd"
    BY <1>1, <1>2 DEF IInv, EventsAgree
  <2>. QED  BY <2>1, <2>2, <2>3 DEF EventsAgree
<1>12. JobsAwaited'
  <2>1. ASSUME NEW j \in JobId, state[j] = "Queued"
        PROVE  \/ \E f \in heap' : f.payload.type = "JobArrival" /\ f.payload.job = j
               \/ \E i \in DOMAIN pending' : pending'[i] = j
    <3>1. CASE j = a
      BY <1>6, <1>7, <3>1
    <3>2. CASE j # a
      BY <1>2, <1>7, <2>1, <3>2 DEF IInv, JobsAwaited
    <3>. QED  BY <3>1, <3>2
  <2>2. ASSUME NEW j \in JobId, state[j] = "Running"
        PROVE  \E f \in heap' : f.payload.type = "JobFinish" /\ f.payload.job = j
    BY <1>1, <1>2, <2>2 DEF IInv, JobsAwaited
  <2>. QED  BY <1>3, <2>1, <2>2 DEF JobsAwaited, JobId
<1>13. BacklogInv'
  <2>1. \A i \in DOMAIN pending' : state'[pending'[i]] = "Queued"
    BY <1>3, <1>5, <1>7 DEF IInv, BacklogInv
  <2>2. \A i, k \in DOMAIN pending' : pending'[i] = pending'[k] => i = k
    BY <1>5, <1>7 DEF IInv, BacklogInv
  <2>. QED  BY <2>1, <2>2 DEF BacklogInv
<1>. QED  BY <1>8, <1>9, <1>10, <1>11, <1>12, <1>13 DEF IInv

\* A finish gives a job's resources back and takes it out of the running set.
LEMMA OnFinishPreserves ==
    ASSUME IInv, OnFinish
    PROVE  IInv'
<1>1. PICK e \in heap :
        /\ e.payload.type = "JobFinish"
        /\ Take(e)
        /\ Release(node[e.payload.job], Request(e.payload.job))
        /\ finish_time' = [finish_time EXCEPT ![e.payload.job] = e.time]
        /\ state' = [state EXCEPT ![e.payload.job] = "Done"]
        /\ running' = running \ {e.payload.job}
        /\ pc' = "drain"
        /\ UNCHANGED <<config, start_time, node, pending, sim_end, backfilled, pos>>
  BY DEF OnFinish
<1>. DEFINE a == e.payload.job
<1>2. /\ heap' = heap \ {e} /\ next_seq' = next_seq
      /\ now' = e.time /\ now' \in Nat /\ last_checkin' = now'
      /\ ticks' \in [Dim -> Nat]
      /\ \A f \in heap' : now' <= f.time
  BY <1>1, TakeMovesClock
<1>3. /\ workload' = workload /\ scheduler' = scheduler /\ policy' = policy
      /\ start_time' = start_time /\ node' = node /\ pending' = pending
      /\ sim_end' = sim_end /\ backfilled' = backfilled /\ pos' = pos
  BY <1>1 DEF config
<1>4. a \in JobId /\ state[a] = "Running" /\ a \in running /\ node[a] \in NodeId
  <2>1. a \in JobId
    BY <1>1, PayloadKinds DEF IInv, TypeOK
  <2>2. state[a] = "Running"
    BY <1>1 DEF IInv, EventsAgree
  <2>. QED  BY <2>1, <2>2 DEF IInv, RunningInv, RecordsInv
<1>5. /\ state'[a] = "Done" /\ finish_time'[a] = e.time
      /\ \A j \in JobId \ {a} : state'[j] = state[j] /\ finish_time'[j] = finish_time[j]
      /\ state' \in [JobId -> JobState]
      /\ finish_time' \in [JobId -> Nat \cup {kNever}]
  BY <1>1, <1>2, <1>4 DEF IInv, TypeOK, JobState
<1>6. Conservation' /\ free' \in [NodeId -> Resources] /\ running_jobs' \in [NodeId -> Nat]
  BY <1>1, <1>3, <1>4, ReleaseConserves DEF IInv
<1>7. TypeOK'
  <2>1. heap' \subseteq [time : Nat, seq : Nat, payload : Payload']
    BY <1>2, <1>3 DEF IInv, TypeOK, Payload, JobId, JobArrival, JobFinish
  <2>. QED  BY <1>1, <1>2, <1>3, <1>5, <1>6, <2>1 DEF IInv, TypeOK, JobId
<1>8. ConfigInv' /\ ClockInv' /\ ControlInv'
  BY <1>1, <1>2, <1>3 DEF IInv, ConfigInv, ClockInv, ClockNeverBehind, ControlInv
<1>9. RunningInv'
  <2>1. running' = {j \in JobId : state'[j] = "Running"}
    BY <1>1, <1>5 DEF IInv, RunningInv
  <2>. QED  BY <1>3, <2>1 DEF RunningInv, JobId
<1>10. RecordsInv'
  <2>1. ASSUME NEW j \in JobId
        PROVE  /\ state'[j] = "Queued" => start_time'[j] = kNever
               /\ state'[j] # "Queued" => start_time'[j] \in Nat /\ node'[j] \in NodeId
               /\ state'[j] # "Done" => finish_time'[j] = kNever
               /\ state'[j] = "Done" => finish_time'[j] \in Nat
    BY <1>2, <1>3, <1>4, <1>5 DEF IInv, RecordsInv
  <2>. QED  BY <1>3, <2>1 DEF RecordsInv, JobId
<1>11. EventsDiffer'
  BY <1>2 DEF IInv, EventsDiffer
<1>12. EventsAgree'
  <2>1. ASSUME NEW f \in heap', f.payload.type \in {"JobArrival", "JobFinish"}
        PROVE  f.payload.job \in JobId /\ f.payload.job # a
    <3>1. f \in heap /\ f # e
      BY <1>2
    <3>2. f.payload.job \in JobId
      BY <2>1, <3>1, PayloadKinds DEF IInv, TypeOK
    <3>3. f.payload.job # a
      BY <1>1, <1>4, <2>1, <3>1 DEF IInv, EventsDiffer, EventsAgree
    <3>. QED  BY <3>2, <3>3
  <2>2. ASSUME NEW f \in heap', f.payload.type = "JobArrival"
        PROVE  /\ state'[f.payload.job] = "Queued"
               /\ \A i \in DOMAIN pending' : pending'[i] # f.payload.job
    BY <1>2, <1>3, <1>5, <2>1, <2>2 DEF IInv, EventsAgree
  <2>3. ASSUME NEW f \in heap', f.payload.type = "JobFinish"
        PROVE  /\ state'[f.payload.job] = "Running"
               /\ f.time = start_time'[f.payload.job] + workload'[f.payload.job].duration
               /\ f.payload.node = node'[f.payload.job]
    BY <1>2, <1>3, <1>5, <2>1, <2>3 DEF IInv, EventsAgree
  <2>4. \A f \in heap' : f.payload.type # "SimEnd"
    BY <1>1, <1>2 DEF IInv, EventsAgree
  <2>. QED  BY <2>2, <2>3, <2>4 DEF EventsAgree
<1>13. JobsAwaited'
  <2>1. ASSUME NEW j \in JobId, state'[j] = "Queued"
        PROVE  \/ \E f \in heap' : f.payload.type = "JobArrival" /\ f.payload.job = j
               \/ \E i \in DOMAIN pending' : pending'[i] = j
    <3>1. state[j] = "Queued"
      BY <1>5, <2>1
    <3>. QED  BY <1>1, <1>2, <1>3, <3>1 DEF IInv, JobsAwaited
  <2>2. ASSUME NEW j \in JobId, state'[j] = "Running"
        PROVE  \E f \in heap' : f.payload.type = "JobFinish" /\ f.payload.job = j
    <3>1. state[j] = "Running" /\ j # a
      BY <1>5, <2>2
    <3>. QED  BY <1>1, <1>2, <3>1 DEF IInv, JobsAwaited
  <2>. QED  BY <1>3, <2>1, <2>2 DEF JobsAwaited, JobId
<1>14. BacklogInv'
  <2>1. ASSUME NEW i \in DOMAIN pending
        PROVE  state'[pending[i]] = "Queued"
    <3>1. pending[i] \in JobId /\ state[pending[i]] = "Queued"
      BY ElementOfSeq DEF IInv, TypeOK, BacklogInv
    <3>. QED  BY <1>4, <1>5, <3>1
  <2>. QED  BY <1>3, <2>1 DEF IInv, BacklogInv
<1>. QED  BY <1>6, <1>7, <1>8, <1>9, <1>10, <1>11, <1>12, <1>13, <1>14 DEF IInv

\* The last event finds every job finished or in a backlog that is stuck.
LEMMA OnSimEndPreserves ==
    ASSUME IInv, OnSimEnd
    PROVE  IInv'
<1>1. PICK e \in heap :
        /\ e.payload.type = "SimEnd"
        /\ Take(e)
        /\ sim_end' = e.time
        /\ pc' = "returned"
        /\ UNCHANGED <<config, jobs, machines, running, pending, backfilled, pos>>
  BY DEF OnSimEnd
<1>2. /\ pc = "run" /\ heap' = heap \ {e} /\ next_seq' = next_seq
      /\ now' = e.time /\ now' \in Nat /\ last_checkin' = now'
      /\ ticks' \in [Dim -> Nat]
  BY <1>1, TakeMovesClock
<1>3. /\ workload' = workload /\ scheduler' = scheduler /\ policy' = policy
      /\ state' = state /\ start_time' = start_time /\ finish_time' = finish_time
      /\ node' = node /\ free' = free /\ running_jobs' = running_jobs
      /\ running' = running /\ pending' = pending /\ backfilled' = backfilled /\ pos' = pos
  BY <1>1 DEF config, jobs, machines
<1>4. heap = {e} /\ heap' = {}
  BY <1>1, <1>2 DEF IInv, EventsAgree
<1>5. TypeOK'
  BY <1>1, <1>2, <1>3, <1>4 DEF IInv, TypeOK, JobId
<1>6. ConfigInv' /\ RunningInv' /\ RecordsInv' /\ BacklogInv'
  BY <1>3 DEF IInv, ConfigInv, RunningInv, RecordsInv, BacklogInv, JobId
<1>7. ClockInv' /\ EventsAgree' /\ EventsDiffer'
  BY <1>2, <1>4 DEF ClockInv, ClockNeverBehind, EventsAgree, EventsDiffer
<1>8. Conservation'
  BY <1>3, UntouchedConserves DEF IInv
<1>9. JobsAwaited'
  <2>1. ASSUME NEW j \in JobId
        PROVE  /\ state[j] = "Queued" => \E i \in DOMAIN pending : pending[i] = j
               /\ state[j] # "Running"
    BY <1>1, <1>4 DEF IInv, JobsAwaited
  <2>. QED  BY <1>3, <2>1 DEF JobsAwaited, JobId
<1>10. ControlInv'
  BY <1>1, <1>2, <1>3, <1>4 DEF IInv, ControlInv, FitsAnywhere, Request
<1>. QED  BY <1>5, <1>6, <1>7, <1>8, <1>9, <1>10 DEF IInv

\* An empty run ends as it began.
LEMMA LoopEndsPreserves ==
    ASSUME IInv, LoopEnds
    PROVE  IInv'
<1>1. /\ workload' = workload /\ scheduler' = scheduler /\ policy' = policy
      /\ state' = state /\ start_time' = start_time /\ finish_time' = finish_time
      /\ node' = node /\ free' = free /\ running_jobs' = running_jobs
      /\ running' = running /\ pending' = pending /\ backfilled' = backfilled /\ pos' = pos
      /\ heap' = heap /\ next_seq' = next_seq /\ last_checkin' = last_checkin
      /\ ticks' = ticks /\ now' = now /\ sim_end' = sim_end
      /\ pc = "run" /\ heap = {} /\ pc' = "returned"
  BY DEF LoopEnds, config, jobs, machines, queue, integral
<1>2. TypeOK' /\ ConfigInv' /\ ClockInv'
  BY <1>1 DEF IInv, TypeOK, JobId, ConfigInv, ClockInv, ClockNeverBehind
<1>3. EventsAgree' /\ EventsDiffer'
  BY <1>1 DEF EventsAgree, EventsDiffer
<1>4. RunningInv' /\ RecordsInv' /\ BacklogInv' /\ JobsAwaited'
  BY <1>1 DEF IInv, RunningInv, RecordsInv, BacklogInv, JobsAwaited, JobId
<1>5. Conservation'
  BY <1>1, UntouchedConserves DEF IInv
<1>6. ControlInv'
  BY <1>1 DEF IInv, ControlInv, FitsAnywhere, Request
<1>. QED  BY <1>2, <1>3, <1>4, <1>5, <1>6 DEF IInv

--------------------------------------------------------------------------------
(* drain() preserves the invariant *)

\* The backlog of the next state is this one without job j.
BacklogLoses(j) ==
    /\ pending' \in Seq(JobId)
    /\ \E i \in DOMAIN pending : pending[i] = j
    /\ \A k \in DOMAIN pending' :
        pending'[k] # j /\ \E i \in DOMAIN pending : pending'[k] = pending[i]
    /\ \A i \in DOMAIN pending :
        pending[i] # j => \E k \in DOMAIN pending' : pending'[k] = pending[i]
    /\ \A k, l \in DOMAIN pending' : pending'[k] = pending'[l] => k = l

\* Starting a waiting job on a node it fits on, whichever loop of drain()
\* does it.
LEMMA StartPreserves ==
    ASSUME IInv, NEW j \in JobId, NEW n \in NodeId, CanFit(free[n], Request(j)),
           StartOn(j, n), BacklogLoses(j), pc \in {"drain", "backfill"},
           UNCHANGED <<config, integral, now, sim_end, pc>>,
           pos' \in Nat, backfilled' \in Nat,
           pc = "backfill" => pending' # <<>> /\ Head(pending') = Head(pending)
                              /\ Head(pending) \in JobId /\ pending # <<>>
    PROVE  IInv'
<1>1. /\ Allocate(n, Request(j))
      /\ state' = [state EXCEPT ![j] = "Running"]
      /\ start_time' = [start_time EXCEPT ![j] = now]
      /\ node' = [node EXCEPT ![j] = n]
      /\ running' = running \cup {j}
      /\ finish_time' = finish_time
      /\ workload' = workload /\ scheduler' = scheduler /\ policy' = policy
      /\ last_checkin' = last_checkin /\ ticks' = ticks
      /\ now' = now /\ sim_end' = sim_end /\ pc' = pc
  BY DEF StartOn, config, integral
<1>. DEFINE new == [time |-> now + workload[j].duration, seq |-> next_seq,
                    payload |-> JobFinish(j, n)]
<1>2. heap' = heap \cup {new} /\ next_seq' = next_seq + 1
  BY DEF StartOn, Schedule
<1>3. /\ new.time = now + workload[j].duration /\ new.seq = next_seq
      /\ new.payload = JobFinish(j, n) /\ new.payload \in Payload
      /\ new.payload.type = "JobFinish" /\ new.payload.job = j /\ new.payload.node = n
      /\ new.time \in Nat /\ new.seq \in Nat /\ now <= new.time
      /\ new \in [time : Nat, seq : Nat, payload : Payload]
  <2>1. workload[j].duration \in Nat /\ now \in Nat /\ next_seq \in Nat
    BY JobFacts DEF IInv, TypeOK
  <2>2. JobFinish(j, n) \in Payload /\ JobFinish(j, n).type = "JobFinish"
        /\ JobFinish(j, n).job = j /\ JobFinish(j, n).node = n
    BY PayloadFields
  <2>. QED  BY <2>1, <2>2
<1>. HIDE DEF new
<1>4. state[j] = "Queued"
  BY DEF IInv, BacklogInv, BacklogLoses
<1>5. j \notin running
  BY <1>4 DEF IInv, RunningInv
<1>6. /\ Conservation' /\ free' \in [NodeId -> Resources]
      /\ running_jobs' \in [NodeId -> Nat]
      /\ \A m \in NodeId : \A d \in Dim : free'[m][d] <= free[m][d]
  BY <1>1, <1>5, AllocateConserves DEF IInv
<1>7. /\ state'[j] = "Running" /\ start_time'[j] = now /\ node'[j] = n
      /\ \A k \in JobId \ {j} :
            state'[k] = state[k] /\ start_time'[k] = start_time[k] /\ node'[k] = node[k]
      /\ state' \in [JobId -> JobState] /\ start_time' \in [JobId -> Nat \cup {kNever}]
      /\ node' \in [JobId -> Nat] /\ n \in Nat
  <2>1. /\ state \in [JobId -> JobState] /\ "Running" \in JobState
        /\ start_time \in [JobId -> Nat \cup {kNever}] /\ now \in Nat
        /\ node \in [JobId -> Nat] /\ n \in Nat
    BY NodesAssumption DEF IInv, TypeOK, JobState, NodeId
  <2>2. /\ state'[j] = "Running" /\ state' \in [JobId -> JobState]
        /\ \A k \in JobId \ {j} : state'[k] = state[k]
    BY <1>1, <2>1
  <2>3. /\ start_time'[j] = now /\ start_time' \in [JobId -> Nat \cup {kNever}]
        /\ \A k \in JobId \ {j} : start_time'[k] = start_time[k]
    BY <1>1, <2>1
  <2>4. /\ node'[j] = n /\ node' \in [JobId -> Nat]
        /\ \A k \in JobId \ {j} : node'[k] = node[k]
    BY <1>1, <2>1
  <2>. QED  BY <2>1, <2>2, <2>3, <2>4
<1>8. TypeOK'
  <2>1. heap' \subseteq [time : Nat, seq : Nat, payload : Payload']
    BY <1>1, <1>2, <1>3 DEF IInv, TypeOK, Payload, JobId, JobArrival, JobFinish
  <2>2. pending' \in Seq(JobId)
    BY DEF BacklogLoses
  <2>3. next_seq' \in Nat /\ running' \subseteq JobId
    BY <1>1, <1>2 DEF IInv, TypeOK
  <2>. QED  BY <1>1, <1>6, <1>7, <2>1, <2>2, <2>3 DEF IInv, TypeOK, JobId
<1>9. ConfigInv' /\ ClockInv'
  BY <1>1, <1>2, <1>3 DEF IInv, ConfigInv, ClockInv, ClockNeverBehind
<1>10. RunningInv'
  <2>1. running' = {k \in JobId : state'[k] = "Running"}
    BY <1>1, <1>7 DEF IInv, RunningInv
  <2>. QED  BY <1>1, <2>1 DEF RunningInv, JobId
<1>11. RecordsInv'
  <2>1. now \in Nat
    BY DEF IInv, TypeOK
  <2>2. ASSUME NEW k \in JobId
        PROVE  /\ state'[k] = "Queued" => start_time'[k] = kNever
               /\ state'[k] # "Queued" => start_time'[k] \in Nat /\ node'[k] \in NodeId
               /\ state'[k] # "Done" => finish_time'[k] = kNever
               /\ state'[k] = "Done" => finish_time'[k] \in Nat
    BY <1>1, <1>4, <1>7, <2>1 DEF IInv, RecordsInv
  <2>. QED  BY <1>1, <2>2 DEF RecordsInv, JobId
<1>12. \A f \in heap :
        /\ f.payload.type \in {"JobArrival", "JobFinish"}
        /\ f.payload.job \in JobId /\ f.payload.job # j
        /\ f.seq \in Nat
  <2>1. ASSUME NEW f \in heap
        PROVE  /\ f.payload.type \in {"JobArrival", "JobFinish"}
               /\ f.payload.job \in JobId /\ f.payload.job # j
               /\ f.seq \in Nat
    <3>1. f.payload \in Payload /\ f.seq \in Nat
      BY DEF IInv, TypeOK
    <3>2. f.payload.type # "SimEnd"
      BY DEF IInv, EventsAgree
    <3>3. f.payload.type \in {"JobArrival", "JobFinish"} /\ f.payload.job \in JobId
      BY <3>1, <3>2, PayloadKinds
    <3>4. f.payload.job # j
      BY <1>4, <3>3 DEF IInv, EventsAgree, BacklogLoses
    <3>. QED  BY <3>1, <3>3, <3>4
  <2>. QED  BY <2>1
<1>13. EventsDiffer'
  <2>1. \A f \in heap : f.seq < next_seq /\ f.seq \in Nat /\ next_seq \in Nat
    BY <1>12 DEF IInv, EventsDiffer, TypeOK
  <2>2. \A f \in heap' : f.seq < next_seq'
    BY <1>2, <1>3, <2>1
  <2>3. \A e, f \in heap' : e.seq = f.seq => e = f
    BY <1>2, <1>3, <2>1 DEF IInv, EventsDiffer
  <2>4. \A e, f \in heap' :
          e.payload.type # "SimEnd" /\ e.payload.type = f.payload.type
            /\ e.payload.job = f.payload.job => e = f
    BY <1>2, <1>3, <1>12 DEF IInv, EventsDiffer
  <2>. QED  BY <2>2, <2>3, <2>4 DEF EventsDiffer
<1>14. EventsAgree'
  <2>1. ASSUME NEW f \in heap', f.payload.type = "JobArrival"
        PROVE  /\ state'[f.payload.job] = "Queued"
               /\ \A k \in DOMAIN pending' : pending'[k] # f.payload.job
    <3>1. f \in heap
      BY <1>2, <1>3, <2>1
    <3>2. /\ state[f.payload.job] = "Queued"
          /\ \A i \in DOMAIN pending : pending[i] # f.payload.job
      BY <2>1, <3>1 DEF IInv, EventsAgree
    <3>. QED  BY <1>7, <1>12, <3>1, <3>2 DEF BacklogLoses
  <2>2. ASSUME NEW f \in heap', f.payload.type = "JobFinish"
        PROVE  /\ state'[f.payload.job] = "Running"
               /\ f.time = start_time'[f.payload.job] + workload'[f.payload.job].duration
               /\ f.payload.node = node'[f.payload.job]
    <3>1. CASE f = new
      BY <1>1, <1>3, <1>7, <3>1
    <3>2. CASE f \in heap
      BY <1>1, <1>7, <1>12, <2>2, <3>2 DEF IInv, EventsAgree
    <3>. QED  BY <1>2, <3>1, <3>2
  <2>3. \A f \in heap' : f.payload.type # "SimEnd"
    BY <1>2, <1>3, <1>12
  <2>. QED  BY <2>1, <2>2, <2>3 DEF EventsAgree
<1>15. JobsAwaited'
  <2>1. ASSUME NEW k \in JobId, state'[k] = "Queued"
        PROVE  \/ \E f \in heap' : f.payload.type = "JobArrival" /\ f.payload.job = k
               \/ \E i \in DOMAIN pending' : pending'[i] = k
    <3>1. k # j /\ state[k] = "Queued"
      BY <1>7, <2>1
    <3>2. \/ \E f \in heap : f.payload.type = "JobArrival" /\ f.payload.job = k
          \/ \E i \in DOMAIN pending : pending[i] = k
      BY <3>1 DEF IInv, JobsAwaited
    <3>. QED  BY <1>2, <3>1, <3>2 DEF BacklogLoses
  <2>2. ASSUME NEW k \in JobId, state'[k] = "Running"
        PROVE  \E f \in heap' : f.payload.type = "JobFinish" /\ f.payload.job = k
    <3>1. CASE k = j
      BY <1>2, <1>3, <3>1
    <3>2. CASE k # j
      <4>1. state[k] = "Running"
        BY <1>7, <2>2, <3>2
      <4>. QED  BY <1>2, <4>1 DEF IInv, JobsAwaited
    <3>. QED  BY <3>1, <3>2
  <2>. QED  BY <1>1, <2>1, <2>2 DEF JobsAwaited, JobId
<1>16. BacklogInv'
  <2>1. ASSUME NEW k \in DOMAIN pending'
        PROVE  state'[pending'[k]] = "Queued"
    <3>1. PICK i \in DOMAIN pending : pending'[k] = pending[i] /\ pending'[k] # j
      BY DEF BacklogLoses
    <3>2. pending[i] \in JobId /\ state[pending[i]] = "Queued"
      BY ElementOfSeq DEF IInv, TypeOK, BacklogInv
    <3>. QED  BY <1>7, <3>1, <3>2
  <2>2. \A k, l \in DOMAIN pending' : pending'[k] = pending'[l] => k = l
    BY DEF BacklogLoses
  <2>. QED  BY <2>1, <2>2 DEF BacklogInv
<1>17. ControlInv'
  <2>1. CASE pc = "drain"
    BY <1>1, <2>1 DEF ControlInv
  <2>2. CASE pc = "backfill"
    <3>1. ~ FitsAnywhere(Request(Head(pending)), free)
      BY <2>2 DEF IInv, ControlInv
    <3>2. \A d \in Dim : \A m \in NodeId :
            free'[m][d] \in Nat /\ free[m][d] \in Nat /\ Request(Head(pending))[d] \in Nat
      BY <1>6, <2>2, HeldFacts DEF IInv, TypeOK, Resources
    <3>3. ~ FitsAnywhere(Request(Head(pending)), free')
      <4>1. ASSUME NEW m \in NodeId
            PROVE  ~ CanFit(free'[m], Request(Head(pending)))
        <5>1. PICK d \in Dim : ~ (Request(Head(pending))[d] <= free[m][d])
          BY <3>1 DEF FitsAnywhere, CanFit
        <5>2. ~ (Request(Head(pending))[d] <= free'[m][d])
          BY <1>6, <3>2, <5>1
        <5>. QED  BY <5>2 DEF CanFit
      <4>. QED  BY <4>1 DEF FitsAnywhere
    <3>4. Request(Head(pending))' = Request(Head(pending))
      BY <1>1, <2>2 DEF Request
    <3>. QED  BY <1>1, <2>2, <3>3, <3>4 DEF ControlInv
  <2>. QED  BY <2>1, <2>2
<1>. QED  BY <1>6, <1>8, <1>9, <1>10, <1>11, <1>13, <1>14, <1>15, <1>16, <1>17 DEF IInv

\* Taking the first job off the backlog loses that job and no other.
LEMMA TailLoses ==
    ASSUME IInv, pending # <<>>, pending' = Tail(pending)
    PROVE  Head(pending) \in JobId /\ BacklogLoses(Head(pending))
<1>1. /\ pending \in Seq(JobId) /\ Len(pending) \in Nat \ {0}
      /\ DOMAIN pending = 1 .. Len(pending)
  BY EmptySeq DEF IInv, TypeOK
<1>2. /\ Head(pending) = pending[1] /\ 1 \in DOMAIN pending /\ pending[1] \in JobId
  BY <1>1, HeadTailProperties, ElementOfSeq
<1>3. /\ pending' \in Seq(JobId) /\ Len(pending') = Len(pending) - 1
      /\ \A k \in 1 .. Len(pending') : pending'[k] = pending[k + 1]
  BY <1>1, HeadTailProperties
<1>4. \A k \in DOMAIN pending' : k + 1 \in DOMAIN pending /\ pending'[k] = pending[k + 1]
  BY <1>1, <1>3
<1>5. \A i \in DOMAIN pending : i # 1 => i - 1 \in DOMAIN pending' /\ pending'[i - 1] = pending[i]
  BY <1>1, <1>3
<1>6. \A i, k \in DOMAIN pending : pending[i] = pending[k] => i = k
  BY DEF IInv, BacklogInv
<1>7. \A k \in DOMAIN pending' : pending'[k] # pending[1] /\ k \in Nat
  BY <1>1, <1>2, <1>3, <1>4, <1>6
<1>8. \A k, l \in DOMAIN pending' : pending'[k] = pending'[l] => k = l
  BY <1>4, <1>6, <1>7
<1>9. \A k \in DOMAIN pending' :
        pending'[k] # pending[1] /\ \E i \in DOMAIN pending : pending'[k] = pending[i]
  BY <1>4, <1>7
<1>10. \A i \in DOMAIN pending :
        pending[i] # pending[1] => \E k \in DOMAIN pending' : pending'[k] = pending[i]
  BY <1>5
<1>. QED  BY <1>2, <1>3, <1>8, <1>9, <1>10 DEF BacklogLoses

\* Erasing place i of a sequence: what is before i stays, what is behind it
\* moves up.
LEMMA RemoveAtElements ==
    ASSUME NEW S, NEW s \in Seq(S), NEW i \in 1 .. Len(s)
    PROVE  /\ RemoveAt(s, i) \in Seq(S)
           /\ Len(RemoveAt(s, i)) = Len(s) - 1
           /\ \A k \in 1 .. Len(s) - 1 :
                RemoveAt(s, i)[k] = IF k < i THEN s[k] ELSE s[k + 1]
<1>. DEFINE a == SubSeq(s, 1, i - 1)
            b == SubSeq(s, i + 1, Len(s))
<1>1. Len(s) \in Nat /\ i \in Nat /\ 1 <= i /\ i <= Len(s)
  OBVIOUS
<1>2. a \in Seq(S) /\ Len(a) = i - 1 /\ \A k \in 1 .. i - 1 : a[k] = s[k]
  <2>1. \A k \in 1 .. i - 1 : s[k] \in S
    BY <1>1, ElementOfSeq
  <2>. QED  BY <1>1, <2>1, SubSeqProperties
<1>3. b \in Seq(S) /\ Len(b) = Len(s) - i /\ \A k \in 1 .. Len(s) - i : b[k] = s[k + i]
  <2>1. \A k \in i + 1 .. Len(s) : s[k] \in S
    BY <1>1, ElementOfSeq
  <2>. QED  BY <1>1, <2>1, SubSeqProperties
<1>4. RemoveAt(s, i) = a \o b
  BY DEF RemoveAt
<1>. HIDE DEF a, b
<1>5. /\ a \o b \in Seq(S) /\ Len(a \o b) = Len(a) + Len(b)
      /\ \A k \in 1 .. Len(a) + Len(b) :
            (a \o b)[k] = IF k <= Len(a) THEN a[k] ELSE b[k - Len(a)]
  BY <1>2, <1>3, ConcatProperties
<1>6. Len(a) + Len(b) = Len(s) - 1
  BY <1>1, <1>2, <1>3
<1>7. ASSUME NEW k \in 1 .. Len(s) - 1
      PROVE  (a \o b)[k] = IF k < i THEN s[k] ELSE s[k + 1]
  <2>1. CASE k < i
    BY <1>1, <1>2, <1>5, <1>6, <2>1
  <2>2. CASE ~ (k < i)
    <3>1. k - Len(a) \in 1 .. Len(s) - i /\ k - Len(a) + i = k + 1 /\ ~ (k <= Len(a))
      BY <1>1, <1>2, <2>2
    <3>2. (a \o b)[k] = b[k - Len(a)]
      BY <1>5, <1>6, <3>1
    <3>. QED  BY <1>3, <2>2, <3>1, <3>2
  <2>. QED  BY <2>1, <2>2
<1>. QED  BY <1>4, <1>5, <1>6, <1>7

\* Taking the job at place i off the backlog loses that job and no other.
LEMMA RemoveLoses ==
    ASSUME IInv, NEW i \in DOMAIN pending, pending' = RemoveAt(pending, i)
    PROVE  /\ BacklogLoses(pending[i])
           /\ i # 1 => pending' # <<>> /\ Head(pending') = Head(pending)
<1>1. /\ pending \in Seq(JobId) /\ Len(pending) \in Nat /\ i \in 1 .. Len(pending)
      /\ DOMAIN pending = 1 .. Len(pending)
  BY DEF IInv, TypeOK
<1>2. /\ pending' \in Seq(JobId) /\ Len(pending') = Len(pending) - 1
      /\ \A k \in 1 .. Len(pending) - 1 :
            pending'[k] = IF k < i THEN pending[k] ELSE pending[k + 1]
  BY <1>1, RemoveAtElements
<1>3. DOMAIN pending' = 1 .. Len(pending) - 1
  BY <1>2
<1>4. \A h, k \in DOMAIN pending : pending[h] = pending[k] => h = k
  BY DEF IInv, BacklogInv
<1>. DEFINE From(k) == IF k < i THEN k ELSE k + 1
<1>5. \A k \in DOMAIN pending' :
        From(k) \in DOMAIN pending /\ From(k) # i /\ pending'[k] = pending[From(k)]
  BY <1>1, <1>2, <1>3
<1>6. \A k \in DOMAIN pending' :
        pending'[k] # pending[i] /\ \E h \in DOMAIN pending : pending'[k] = pending[h]
  <2>. HIDE DEF From
  <2>. QED  BY <1>4, <1>5
<1>7. \A h \in DOMAIN pending :
        pending[h] # pending[i] => \E k \in DOMAIN pending' : pending'[k] = pending[h]
  <2>1. ASSUME NEW h \in DOMAIN pending, h # i
        PROVE  \E k \in DOMAIN pending' : pending'[k] = pending[h]
    <3>1. CASE h < i
      BY <1>1, <1>2, <1>3, <3>1
    <3>2. CASE h > i
      <4>1. h - 1 \in 1 .. Len(pending) - 1 /\ ~ (h - 1 < i) /\ h - 1 + 1 = h
        BY <1>1, <3>2
      <4>2. pending'[h - 1] = pending[h]
        BY <1>2, <4>1
      <4>. QED  BY <1>3, <4>1, <4>2
    <3>. QED  BY <1>1, <2>1, <3>1, <3>2
  <2>. QED  BY <2>1
<1>8. \A k, l \in DOMAIN pending' : pending'[k] = pending'[l] => k = l
  <2>1. ASSUME NEW k \in DOMAIN pending', NEW l \in DOMAIN pending', pending'[k] = pending'[l]
        PROVE  From(k) = From(l)
    <3>. HIDE DEF From
    <3>. QED  BY <1>4, <1>5, <2>1
  <2>. QED  BY <1>1, <1>3, <2>1
<1>9. BacklogLoses(pending[i])
  BY <1>2, <1>6, <1>7, <1>8 DEF BacklogLoses
<1>10. ASSUME i # 1
       PROVE  pending' # <<>> /\ Head(pending') = Head(pending)
  <2>1. Len(pending') # 0 /\ 1 \in 1 .. Len(pending) - 1 /\ 1 < i
    BY <1>1, <1>2, <1>10
  <2>2. pending' # <<>> /\ Head(pending') = pending'[1]
    BY <1>2, <2>1, EmptySeq
  <2>3. Head(pending) = pending[1] /\ pending'[1] = pending[1]
    BY <1>1, <1>2, <2>1
  <2>. QED  BY <2>2, <2>3
<1>. QED  BY <1>9, <1>10

\* The first loop of drain(): the head of the backlog is started.
LEMMA StartHeadPreserves ==
    ASSUME IInv, StartHead
    PROVE  IInv'
<1>. DEFINE j == Head(pending)
<1>1. /\ pc = "drain" /\ pending # <<>> /\ Placement(j) # {} /\ TryPlace(j)
      /\ pending' = Tail(pending)
      /\ UNCHANGED <<config, integral, now, sim_end, backfilled, pc>>
  BY DEF StartHead
<1>2. j \in JobId /\ BacklogLoses(j)
  BY <1>1, TailLoses
<1>3. PICK n \in Placement(j) : StartOn(j, n)
  BY <1>1 DEF TryPlace
<1>4. n \in NodeId /\ CanFit(free[n], Request(j))
  BY <1>2, <1>3, PlacementOfJob
<1>5. pos' \in Nat /\ backfilled' \in Nat
  <2>1. \A m \in Placement(j) : m \in Nat
    BY <1>2, PlacementOfJob, NodesAssumption DEF NodeId
  <2>2. pos' = CursorAfter(scheduler, Placement(j), pos)
    BY <1>1 DEF TryPlace
  <2>3. backfilled' = backfilled /\ backfilled \in Nat /\ pos \in Nat
    BY <1>1 DEF IInv, TypeOK
  <2>. QED  BY <1>1, <2>1, <2>2, <2>3 DEF CursorAfter
<1>6. pc \in {"drain", "backfill"} /\ pc # "backfill"
  BY <1>1
<1>. HIDE DEF j
<1>. QED  BY <1>1, <1>2, <1>3, <1>4, <1>5, <1>6, StartPreserves

\* A job that goes around the head leaves its place in the backlog.
LEMMA BackfillTakesOut ==
    ASSUME BackfillJob
    PROVE  \E j \in Pick, p \in DOMAIN pending :
               /\ TryPlace(j)
               /\ pending[p] = j
               /\ pending' = SubSeq(pending, 1, p - 1) \o SubSeq(pending, p + 1, Len(pending))
  BY DEF BackfillJob, RemoveAt

\* The second loop of drain(): a job behind the head is started.
LEMMA BackfillJobPreserves ==
    ASSUME IInv, BackfillJob
    PROVE  IInv'
<1>1. PICK j \in Pick :
        /\ TryPlace(j)
        /\ \E i \in DOMAIN pending : pending[i] = j /\ pending' = RemoveAt(pending, i)
  BY DEF BackfillJob
<1>2. PICK i \in DOMAIN pending : pending[i] = j /\ pending' = RemoveAt(pending, i)
  BY <1>1
<1>3. /\ pc = "backfill" /\ backfilled' = backfilled + 1
      /\ UNCHANGED <<config, integral, now, sim_end, pc>>
  BY DEF BackfillJob
<1>4. /\ j \in JobId /\ FitsAnywhere(Request(j), free)
      /\ \E k \in DOMAIN pending : k # 1 /\ pending[k] = j
  BY PickOfBacklog
<1>5. i # 1
  BY <1>2, <1>4 DEF IInv, BacklogInv
<1>6. BacklogLoses(j) /\ pending' # <<>> /\ Head(pending') = Head(pending)
  BY <1>2, <1>5, RemoveLoses
<1>7. Placement(j) # {}
  BY <1>4, PlacementOfJob
<1>8. PICK n \in Placement(j) : StartOn(j, n)
  BY <1>1, <1>7 DEF TryPlace
<1>9. n \in NodeId /\ CanFit(free[n], Request(j))
  BY <1>4, <1>8, PlacementOfJob
<1>10. pos' \in Nat /\ backfilled' \in Nat
  <2>1. \A m \in Placement(j) : m \in Nat
    BY <1>4, PlacementOfJob, NodesAssumption DEF NodeId
  <2>2. pos' = CursorAfter(scheduler, Placement(j), pos)
    BY <1>1 DEF TryPlace
  <2>3. backfilled \in Nat /\ pos \in Nat
    BY DEF IInv, TypeOK
  <2>. QED  BY <1>3, <1>7, <2>1, <2>2, <2>3 DEF CursorAfter
<1>11. Head(pending) \in JobId /\ pending # <<>>
  <2>1. pending # <<>> /\ pending \in Seq(JobId)
    BY <1>3 DEF IInv, ControlInv, TypeOK
  <2>. QED  BY <2>1, HeadTailProperties
<1>12. pc \in {"drain", "backfill"}
  BY <1>3
<1>. QED  BY <1>3, <1>4, <1>6, <1>8, <1>9, <1>10, <1>11, <1>12, StartPreserves

\* No node has room for the head: nothing changes but the loop.
LEMMA BlockHeadPreserves ==
    ASSUME IInv, BlockHead
    PROVE  IInv'
<1>1. /\ pc = "drain" /\ pending # <<>> /\ Placement(Head(pending)) = {}
      /\ TryPlace(Head(pending)) /\ pc' = "backfill"
      /\ UNCHANGED <<config, integral, pending, now, sim_end, backfilled>>
  BY DEF BlockHead
<1>2. UNCHANGED <<machines, jobs, running, queue>> /\ pos' = pos
  BY <1>1 DEF TryPlace, CursorAfter
<1>3. /\ workload' = workload /\ scheduler' = scheduler /\ policy' = policy
      /\ state' = state /\ start_time' = start_time /\ finish_time' = finish_time
      /\ node' = node /\ free' = free /\ running_jobs' = running_jobs
      /\ running' = running /\ pending' = pending /\ backfilled' = backfilled /\ pos' = pos
      /\ heap' = heap /\ next_seq' = next_seq /\ last_checkin' = last_checkin
      /\ ticks' = ticks /\ now' = now /\ sim_end' = sim_end
  BY <1>1, <1>2 DEF config, jobs, machines, queue, integral
<1>4. \A e \in heap : e.payload.type # "SimEnd"
  BY <1>1 DEF IInv, EventsAgree
<1>5. TypeOK'
  <2>1. heap' \subseteq [time : Nat, seq : Nat, payload : Payload']
    BY <1>3 DEF IInv, TypeOK, Payload, JobId, JobArrival, JobFinish
  <2>. QED  BY <1>1, <1>3, <2>1 DEF IInv, TypeOK, JobId
<1>6. ConfigInv' /\ ClockInv' /\ EventsDiffer'
  BY <1>3 DEF IInv, ConfigInv, ClockInv, ClockNeverBehind, EventsDiffer
<1>7. EventsAgree'
  BY <1>3, <1>4 DEF IInv, EventsAgree
<1>8. RunningInv' /\ RecordsInv' /\ BacklogInv' /\ JobsAwaited'
  BY <1>3 DEF IInv, RunningInv, RecordsInv, BacklogInv, JobsAwaited, JobId
<1>9. Conservation'
  BY <1>3, UntouchedConserves DEF IInv
<1>10. ControlInv'
  <2>1. Head(pending) \in JobId
    BY <1>1, HeadTailProperties DEF IInv, TypeOK
  <2>2. ~ FitsAnywhere(Request(Head(pending)), free)
    BY <1>1, <2>1, PlacementOfJob
  <2>. QED  BY <1>1, <1>3, <2>2 DEF ControlInv, FitsAnywhere, Request
<1>. QED  BY <1>5, <1>6, <1>7, <1>8, <1>9, <1>10 DEF IInv

\* drain() returns, and an empty queue is given the end of the run.
LEMMA DrainReturnsPreserves ==
    ASSUME IInv, DrainReturns
    PROVE  IInv'
<1>1. /\ workload' = workload /\ scheduler' = scheduler /\ policy' = policy
      /\ state' = state /\ start_time' = start_time /\ finish_time' = finish_time
      /\ node' = node /\ free' = free /\ running_jobs' = running_jobs
      /\ running' = running /\ pending' = pending /\ backfilled' = backfilled /\ pos' = pos
      /\ last_checkin' = last_checkin
      /\ ticks' = ticks /\ now' = now /\ sim_end' = sim_end /\ pc' = "run"
      /\ pc = "backfill" \/ (pc = "drain" /\ pending = <<>>)
  BY DEF DrainReturns, config, jobs, machines, integral
<1>2. /\ heap # {} => heap' = heap /\ next_seq' = next_seq
      /\ heap = {} => /\ heap' = {[time |-> now, seq |-> next_seq, payload |-> SimEnd]}
                      /\ next_seq' = next_seq + 1
  BY DEF DrainReturns, queue, Schedule
<1>3. \A e \in heap : e.payload.type # "SimEnd"
  BY <1>1 DEF IInv, EventsAgree
<1>4. now \in Nat /\ next_seq \in Nat
  BY DEF IInv, TypeOK
<1>5. SimEnd.type = "SimEnd" /\ SimEnd \in Payload
  BY DEF SimEnd, Payload
<1>6. heap = {} => \A e \in heap' :
        /\ heap' = {e} /\ e.time = now /\ e.seq = next_seq /\ e.payload.type = "SimEnd"
        /\ e \in [time : Nat, seq : Nat, payload : Payload]
  BY <1>2, <1>4, <1>5
<1>7. TypeOK'
  <2>1. heap' \subseteq [time : Nat, seq : Nat, payload : Payload']
    BY <1>1, <1>2, <1>6 DEF IInv, TypeOK, Payload, JobId, JobArrival, JobFinish
  <2>2. next_seq' \in Nat
    BY <1>2, <1>4
  <2>. QED  BY <1>1, <2>1, <2>2 DEF IInv, TypeOK, JobId
<1>8. ConfigInv' /\ RunningInv' /\ RecordsInv' /\ BacklogInv'
  BY <1>1 DEF IInv, ConfigInv, RunningInv, RecordsInv, BacklogInv, JobId
<1>9. Conservation'
  BY <1>1, UntouchedConserves DEF IInv
<1>10. ControlInv'
  BY <1>1 DEF IInv, ControlInv, FitsAnywhere, Request
<1>11. CASE heap # {}
  <2>1. ClockInv' /\ EventsDiffer'
    BY <1>1, <1>2, <1>11 DEF IInv, ClockInv, ClockNeverBehind, EventsDiffer
  <2>2. EventsAgree'
    BY <1>1, <1>2, <1>3, <1>11 DEF IInv, EventsAgree
  <2>3. JobsAwaited'
    BY <1>1, <1>2, <1>11 DEF IInv, JobsAwaited, JobId
  <2>. QED  BY <1>7, <1>8, <1>9, <1>10, <2>1, <2>2, <2>3 DEF IInv
<1>12. CASE heap = {}
  <2>1. ClockInv'
    BY <1>1, <1>4, <1>6, <1>12 DEF IInv, ClockInv, ClockNeverBehind
  <2>2. EventsDiffer'
    <3>1. next_seq < next_seq' 
      BY <1>2, <1>4, <1>12
    <3>. QED  BY <1>6, <1>12, <3>1 DEF EventsDiffer
  <2>3. EventsAgree'
    BY <1>1, <1>6, <1>12 DEF EventsAgree
  <2>4. JobsAwaited'
    <3>1. \A j \in JobId : /\ state[j] = "Queued" => \E i \in DOMAIN pending : pending[i] = j
                           /\ state[j] # "Running"
      BY <1>12 DEF IInv, JobsAwaited
    <3>. QED  BY <1>1, <3>1 DEF JobsAwaited, JobId
  <2>. QED  BY <1>7, <1>8, <1>9, <1>10, <2>1, <2>2, <2>3, <2>4 DEF IInv
<1>. QED  BY <1>11, <1>12

\* A step that changes nothing.
LEMMA StutterPreserves ==
    ASSUME IInv, UNCHANGED vars
    PROVE  IInv'
<1>1. /\ workload' = workload /\ scheduler' = scheduler /\ policy' = policy
      /\ state' = state /\ start_time' = start_time /\ finish_time' = finish_time
      /\ node' = node /\ free' = free /\ running_jobs' = running_jobs
      /\ running' = running /\ pending' = pending /\ backfilled' = backfilled /\ pos' = pos
      /\ heap' = heap /\ next_seq' = next_seq /\ last_checkin' = last_checkin
      /\ ticks' = ticks /\ now' = now /\ sim_end' = sim_end /\ pc' = pc
  BY DEF vars, config, jobs, machines, queue, integral
<1>2. TypeOK' /\ ConfigInv' /\ ClockInv' /\ EventsAgree' /\ EventsDiffer'
  BY <1>1 DEF IInv, TypeOK, JobId, Payload, ConfigInv, ClockInv, ClockNeverBehind,
              EventsAgree, EventsDiffer
<1>3. RunningInv' /\ RecordsInv' /\ BacklogInv' /\ JobsAwaited'
  BY <1>1 DEF IInv, RunningInv, RecordsInv, BacklogInv, JobsAwaited, JobId
<1>4. Conservation'
  BY <1>1, UntouchedConserves DEF IInv
<1>5. ControlInv'
  BY <1>1 DEF IInv, ControlInv, FitsAnywhere, Request
<1>. QED  BY <1>2, <1>3, <1>4, <1>5 DEF IInv

\* Every step preserves the invariant.
LEMMA NextPreserves ==
    ASSUME IInv, [Next]_vars
    PROVE  IInv'
<1>1. CASE OnArrival
  BY <1>1, OnArrivalPreserves
<1>2. CASE OnFinish
  BY <1>2, OnFinishPreserves
<1>3. CASE OnSimEnd
  BY <1>3, OnSimEndPreserves
<1>4. CASE LoopEnds
  BY <1>4, LoopEndsPreserves
<1>5. CASE StartHead
  BY <1>5, StartHeadPreserves
<1>6. CASE BlockHead
  BY <1>6, BlockHeadPreserves
<1>7. CASE BackfillJob
  BY <1>7, BackfillJobPreserves
<1>8. CASE DrainReturns
  BY <1>8, DrainReturnsPreserves
<1>9. CASE Returned \/ UNCHANGED vars
  BY <1>9, StutterPreserves DEF Returned
<1>. QED  BY <1>1, <1>2, <1>3, <1>4, <1>5, <1>6, <1>7, <1>8, <1>9 DEF Next

--------------------------------------------------------------------------------
(* The effects of a step *)

\* The clock jumps to event e, which is due and leaves the queue.
Jumps(e) ==
    /\ pc = "run"
    /\ heap' = heap \ {e} /\ next_seq' = next_seq
    /\ \A f \in heap \ {e} : EarliestFirst(f, e)
    /\ \A f \in heap : e.time <= f.time
    /\ now' = e.time /\ e.time \in Nat /\ now <= e.time
    /\ last_checkin' = e.time
    /\ ticks' = [d \in Dim |-> ticks[d] + (e.time - last_checkin) * TotalUtilized[d]]
    /\ backfilled' = backfilled /\ pos' = pos /\ node' = node /\ start_time' = start_time

\* A job arrives.
ArrivalEffect(e) ==
    /\ e.payload.type = "JobArrival" /\ e.payload.job \in JobId
    /\ Jumps(e)
    /\ pending' = Append(pending, e.payload.job)
    /\ state' = state /\ finish_time' = finish_time /\ running' = running
    /\ free' = free /\ running_jobs' = running_jobs
    /\ sim_end' = sim_end /\ pc' = "drain"

\* A job is done.
FinishEffect(e) ==
    /\ e.payload.type = "JobFinish" /\ e.payload.job \in running
    /\ state[e.payload.job] = "Running" /\ node[e.payload.job] \in NodeId
    /\ e.time = start_time[e.payload.job] + workload[e.payload.job].duration
    /\ Jumps(e)
    /\ state' = [state EXCEPT ![e.payload.job] = "Done"]
    /\ finish_time' = [finish_time EXCEPT ![e.payload.job] = e.time]
    /\ running' = running \ {e.payload.job}
    /\ Release(node[e.payload.job], Request(e.payload.job))
    /\ pending' = pending /\ sim_end' = sim_end /\ pc' = "drain"

\* The run is over.
EndEffect(e) ==
    /\ e.payload.type = "SimEnd" /\ heap = {e} /\ e.time = now
    /\ Jumps(e)
    /\ state' = state /\ finish_time' = finish_time /\ running' = running
    /\ free' = free /\ running_jobs' = running_jobs /\ pending' = pending
    /\ sim_end' = now /\ pc' = "returned"

\* Job j starts on node n, as the head of the backlog or around it.
StartEffect(j, n) ==
    /\ pc \in {"drain", "backfill"} /\ pc' = pc /\ pending # <<>>
    /\ \/ /\ pc = "drain" /\ j = Head(pending) /\ pending' = Tail(pending)
          /\ backfilled' = backfilled
       \/ /\ pc = "backfill" /\ j \in Pick /\ backfilled' = backfilled + 1
          /\ pending' # <<>> /\ Head(pending') = Head(pending)
          /\ \E i \in DOMAIN pending :
                i # 1 /\ pending[i] = j /\ pending' = RemoveAt(pending, i)
    /\ BacklogLoses(j)
    /\ state[j] = "Queued" /\ j \notin running /\ CanFit(free[n], Request(j))
    /\ n \in Placement(j) /\ pos' = CursorAfter(scheduler, Placement(j), pos)
    /\ Allocate(n, Request(j))
    /\ state' = [state EXCEPT ![j] = "Running"]
    /\ start_time' = [start_time EXCEPT ![j] = now]
    /\ node' = [node EXCEPT ![j] = n]
    /\ running' = running \cup {j}
    /\ heap' = heap \cup {[time |-> now + workload[j].duration, seq |-> next_seq,
                           payload |-> JobFinish(j, n)]}
    /\ next_seq' = next_seq + 1
    /\ finish_time' = finish_time /\ now' = now /\ sim_end' = sim_end
    /\ last_checkin' = last_checkin /\ ticks' = ticks

\* Nothing happens to any job: control moves, and an empty queue may be
\* given the end of the run.
QuietEffect ==
    /\ state' = state /\ start_time' = start_time /\ finish_time' = finish_time
    /\ node' = node /\ running' = running /\ pending' = pending
    /\ free' = free /\ running_jobs' = running_jobs
    /\ now' = now /\ last_checkin' = last_checkin /\ ticks' = ticks
    /\ sim_end' = sim_end /\ backfilled' = backfilled /\ pos' = pos
    /\ \/ pc' = pc /\ heap' = heap /\ next_seq' = next_seq
       \/ pc = "run" /\ heap = {} /\ pc' = "returned" /\ heap' = heap /\ next_seq' = next_seq
       \/ /\ pc = "drain" /\ pending # <<>> /\ pc' = "backfill"
          /\ heap' = heap /\ next_seq' = next_seq
       \/ /\ pc = "backfill" \/ (pc = "drain" /\ pending = <<>>)
          /\ pc = "backfill" => Pick = {}
          /\ pc' = "run"
          /\ \/ heap # {} /\ heap' = heap /\ next_seq' = next_seq
             \/ /\ heap = {} /\ next_seq' = next_seq + 1
                /\ heap' = {[time |-> now, seq |-> next_seq, payload |-> SimEnd]}

Effect ==
    \/ \E e \in heap : ArrivalEffect(e) \/ FinishEffect(e) \/ EndEffect(e)
    \/ \E j \in JobId, n \in NodeId : StartEffect(j, n)
    \/ QuietEffect

\* Taking an event off the queue is a jump of the clock.
LEMMA TakeJumps ==
    ASSUME IInv, NEW e \in heap, Take(e),
           UNCHANGED <<backfilled, pos, node, start_time>>
    PROVE  Jumps(e)
<1>1. e.time \in Nat /\ now <= e.time /\ \A f \in heap : f.time \in Nat /\ f.seq \in Nat
  BY DEF IInv, TypeOK, ClockInv, ClockNeverBehind
<1>2. \A f \in heap \ {e} : EarliestFirst(f, e)
  BY DEF Take, Pop, Top
<1>3. \A f \in heap : e.time <= f.time
  BY <1>1, <1>2 DEF EarliestFirst
<1>. QED  BY <1>1, <1>2, <1>3 DEF Jumps, Take, Pop, Advance

\* Starting the head, and starting a job around it.
LEMMA StartEffects ==
    ASSUME IInv, StartHead \/ BackfillJob
    PROVE  \E j \in JobId, n \in NodeId : StartEffect(j, n)
<1>1. CASE StartHead
  <2>. DEFINE j == Head(pending)
  <2>1. /\ pc = "drain" /\ pending # <<>> /\ Placement(j) # {} /\ TryPlace(j)
        /\ pending' = Tail(pending)
        /\ UNCHANGED <<config, integral, now, sim_end, backfilled, pc>>
    BY <1>1 DEF StartHead
  <2>2. j \in JobId /\ BacklogLoses(j)
    BY <2>1, TailLoses
  <2>3. PICK n \in Placement(j) : StartOn(j, n)
    BY <2>1 DEF TryPlace
  <2>4. n \in NodeId /\ CanFit(free[n], Request(j))
    BY <2>2, <2>3, PlacementOfJob
  <2>5. state[j] = "Queued" /\ j \notin running
    BY <2>2 DEF IInv, BacklogInv, RunningInv, BacklogLoses
  <2>6. pos' = CursorAfter(scheduler, Placement(j), pos)
    BY <2>1 DEF TryPlace
  <2>. HIDE DEF j
  <2>7. StartEffect(j, n)
    BY <2>1, <2>2, <2>3, <2>4, <2>5, <2>6 DEF StartEffect, StartOn, Schedule, integral, j
  <2>. QED  BY <2>2, <2>4, <2>7
<1>2. CASE BackfillJob
  <2>1. PICK j \in Pick :
          /\ TryPlace(j)
          /\ \E i \in DOMAIN pending : pending[i] = j /\ pending' = RemoveAt(pending, i)
    BY <1>2 DEF BackfillJob
  <2>2. PICK i \in DOMAIN pending : pending[i] = j /\ pending' = RemoveAt(pending, i)
    BY <2>1
  <2>3. /\ pc = "backfill" /\ backfilled' = backfilled + 1
        /\ UNCHANGED <<config, integral, now, sim_end, pc>>
    BY <1>2 DEF BackfillJob
  <2>4. /\ j \in JobId /\ FitsAnywhere(Request(j), free)
        /\ \E k \in DOMAIN pending : k # 1 /\ pending[k] = j
    BY PickOfBacklog
  <2>5. i # 1
    BY <2>2, <2>4 DEF IInv, BacklogInv
  <2>6. BacklogLoses(j) /\ pending' # <<>> /\ Head(pending') = Head(pending)
    BY <2>2, <2>5, RemoveLoses
  <2>7. Placement(j) # {}
    BY <2>4, PlacementOfJob
  <2>8. PICK n \in Placement(j) : StartOn(j, n)
    BY <2>1, <2>7 DEF TryPlace
  <2>9. n \in NodeId /\ CanFit(free[n], Request(j))
    BY <2>4, <2>8, PlacementOfJob
  <2>10. state[j] = "Queued" /\ j \notin running
    BY <2>6 DEF IInv, BacklogInv, RunningInv, BacklogLoses
  <2>11. pos' = CursorAfter(scheduler, Placement(j), pos) /\ pending # <<>>
    BY <2>1, <2>3 DEF TryPlace, IInv, ControlInv
  <2>12. StartEffect(j, n)
    BY <2>2, <2>3, <2>5, <2>6, <2>8, <2>9, <2>10, <2>11
       DEF StartEffect, StartOn, Schedule, integral
  <2>. QED  BY <2>4, <2>9, <2>12
<1>. QED  BY <1>1, <1>2

\* Every step is one of these, and none changes what the run was given.
LEMMA StepEffect ==
    ASSUME IInv, [Next]_vars
    PROVE  /\ Effect
           /\ workload' = workload /\ scheduler' = scheduler /\ policy' = policy
<1>1. CASE OnArrival
  <2>1. PICK e \in heap :
          /\ e.payload.type = "JobArrival"
          /\ Take(e)
          /\ pending' = Append(pending, e.payload.job)
          /\ pc' = "drain"
          /\ UNCHANGED <<config, jobs, machines, running, sim_end, backfilled, pos>>
    BY <1>1 DEF OnArrival
  <2>2. e.payload.job \in JobId
    BY <2>1, PayloadKinds DEF IInv, TypeOK
  <2>3. Jumps(e)
    BY <2>1, TakeJumps DEF jobs
  <2>4. ArrivalEffect(e)
    BY <2>1, <2>2, <2>3 DEF ArrivalEffect, jobs, machines
  <2>. QED  BY <2>1, <2>4 DEF Effect, config
<1>2. CASE OnFinish
  <2>1. PICK e \in heap :
          /\ e.payload.type = "JobFinish"
          /\ Take(e)
          /\ Release(node[e.payload.job], Request(e.payload.job))
          /\ finish_time' = [finish_time EXCEPT ![e.payload.job] = e.time]
          /\ state' = [state EXCEPT ![e.payload.job] = "Done"]
          /\ running' = running \ {e.payload.job}
          /\ pc' = "drain"
          /\ UNCHANGED <<config, start_time, node, pending, sim_end, backfilled, pos>>
    BY <1>2 DEF OnFinish
  <2>2. e.payload.job \in JobId
    BY <2>1, PayloadKinds DEF IInv, TypeOK
  <2>3. /\ state[e.payload.job] = "Running"
        /\ e.time = start_time[e.payload.job] + workload[e.payload.job].duration
    BY <2>1 DEF IInv, EventsAgree
  <2>4. e.payload.job \in running /\ node[e.payload.job] \in NodeId
    BY <2>2, <2>3 DEF IInv, RunningInv, RecordsInv
  <2>5. Jumps(e)
    BY <2>1, TakeJumps
  <2>6. FinishEffect(e)
    BY <2>1, <2>3, <2>4, <2>5 DEF FinishEffect
  <2>. QED  BY <2>1, <2>6 DEF Effect, config
<1>3. CASE OnSimEnd
  <2>1. PICK e \in heap :
          /\ e.payload.type = "SimEnd"
          /\ Take(e)
          /\ sim_end' = e.time
          /\ pc' = "returned"
          /\ UNCHANGED <<config, jobs, machines, running, pending, backfilled, pos>>
    BY <1>3 DEF OnSimEnd
  <2>2. heap = {e} /\ e.time = now
    BY <2>1 DEF IInv, EventsAgree
  <2>3. Jumps(e)
    BY <2>1, TakeJumps DEF jobs
  <2>4. EndEffect(e)
    BY <2>1, <2>2, <2>3 DEF EndEffect, jobs, machines
  <2>. QED  BY <2>1, <2>4 DEF Effect, config
<1>4. CASE StartHead \/ BackfillJob
  <2>1. workload' = workload /\ scheduler' = scheduler /\ policy' = policy
    BY <1>4 DEF StartHead, BackfillJob, config
  <2>. QED  BY <1>4, <2>1, StartEffects DEF Effect
<1>5. CASE LoopEnds
  BY <1>5 DEF LoopEnds, Effect, QuietEffect, config, jobs, queue, machines, integral
<1>6. CASE BlockHead
  <2>1. /\ pc = "drain" /\ pending # <<>> /\ Placement(Head(pending)) = {}
        /\ TryPlace(Head(pending)) /\ pc' = "backfill"
        /\ UNCHANGED <<config, integral, pending, now, sim_end, backfilled>>
    BY <1>6 DEF BlockHead
  <2>2. UNCHANGED <<machines, jobs, running, queue>> /\ pos' = pos
    BY <2>1 DEF TryPlace, CursorAfter
  <2>. QED  BY <2>1, <2>2 DEF Effect, QuietEffect, config, jobs, queue, machines, integral
<1>7. CASE DrainReturns
  BY <1>7 DEF DrainReturns, Schedule, Effect, QuietEffect, config, jobs, queue, machines, integral
<1>8. CASE Returned \/ UNCHANGED vars
  BY <1>8 DEF Returned, vars, Effect, QuietEffect, config, jobs, queue, machines, integral
<1>. QED  BY <1>1, <1>2, <1>3, <1>4, <1>5, <1>6, <1>7, <1>8 DEF Next

--------------------------------------------------------------------------------
(* What a run remembers: HistoryInv *)

\* What is constant in a run, and the numbers of an order of arrival.
LEMMA ConfigFacts ==
    ASSUME IInv, workload' = workload
    PROVE  /\ JobId' = JobId /\ JobId \subseteq Nat /\ now \in Nat
           /\ \A j \in JobId : workload[j].submit_time \in Nat /\ workload[j].duration \in Nat
           /\ \A j, k \in JobId : ArrivesBefore(j, k)' <=> ArrivesBefore(j, k)
           /\ \A e \in heap : e.time \in Nat /\ e.seq \in Nat
<1>1. JobId' = JobId /\ \A j, k \in JobId : ArrivesBefore(j, k)' <=> ArrivesBefore(j, k)
  BY DEF JobId, ArrivesBefore
<1>2. \A e \in heap : e.time \in Nat /\ e.seq \in Nat
  BY DEF IInv, TypeOK
<1>3. JobId = 1 .. Len(workload) /\ Len(workload) \in Nat
  BY JobFacts DEF IInv, TypeOK
<1>4. JobId \subseteq Nat
  BY <1>3
<1>. QED  BY <1>1, <1>2, <1>4, JobFacts DEF IInv, TypeOK

LEMMA InitHistory == Init => HistoryInv
<1>. SUFFICES ASSUME Init PROVE HistoryInv
  OBVIOUS
<1>1. IInv
  BY InitInv
<1>2. \A j \in JobId : j \in Nat
  BY <1>1, JobFacts DEF IInv, TypeOK
<1>3. \A e \in heap : \E j \in JobId :
        /\ e = [time |-> workload[j].submit_time, seq |-> j - 1, payload |-> JobArrival(j)]
        /\ JobArrival(j).type = "JobArrival" /\ JobArrival(j).job = j
  BY DEF Init, Seeds, JobId, JobArrival
<1>4. \A j \in JobId : Awaited(j)
  BY <1>1 DEF Init, IInv, JobsAwaited, Awaited
<1>5. \A e \in heap :
        e.time = workload[e.payload.job].submit_time /\ e.seq + 1 = e.payload.job
  <2>. SUFFICES ASSUME NEW e \in heap
                PROVE  e.time = workload[e.payload.job].submit_time /\ e.seq + 1 = e.payload.job
    OBVIOUS
  <2>1. PICK j \in JobId :
          /\ e = [time |-> workload[j].submit_time, seq |-> j - 1, payload |-> JobArrival(j)]
          /\ JobArrival(j).job = j
    BY <1>3
  <2>2. e.payload.job = j /\ e.time = workload[j].submit_time /\ e.seq = j - 1
    BY <2>1
  <2>. QED  BY <1>2, <2>2
<1>6. OrderInv
  BY <1>4, <1>5 DEF Init, OrderInv
<1>7. TimesInv
  BY <1>4 DEF Init, TimesInv
<1>8. heap = {} => workload = <<>>
  <2>1. ASSUME heap = {} PROVE JobId = {}
    BY <1>4, <2>1 DEF Awaited
  <2>2. ASSUME heap = {} PROVE Len(workload) = 0
    <3>1. JobId = 1 .. Len(workload) /\ Len(workload) \in Nat
      BY <1>1, JobFacts DEF IInv, TypeOK
    <3>2. 1 .. Len(workload) = {}
      BY <2>1, <2>2, <3>1
    <3>. QED  BY <3>1, <3>2
  <2>. QED  BY <1>1, <2>2, EmptySeq DEF IInv, TypeOK
<1>9. EndInv
  BY <1>4, <1>8 DEF Init, EndInv
<1>. QED  BY <1>6, <1>7, <1>9 DEF HistoryInv

\* The arrival taken off the queue is the first of those awaited.
LEMMA ArrivalHistory ==
    ASSUME IInv, HistoryInv, NEW e \in heap, ArrivalEffect(e), workload' = workload
    PROVE  HistoryInv'
<1>. DEFINE a == e.payload.job
<1>1. /\ e.payload.type = "JobArrival" /\ a \in JobId /\ Jumps(e)
      /\ pending' = Append(pending, a) /\ state' = state /\ finish_time' = finish_time
      /\ start_time' = start_time /\ now' = e.time /\ heap' = heap \ {e}
      /\ pc' = "drain" /\ now <= e.time
  BY DEF ArrivalEffect, Jumps
<1>2. e.time = workload[a].submit_time /\ e.seq + 1 = a
  BY <1>1 DEF HistoryInv, OrderInv
<1>3. \A j : Awaited(j)' <=> Awaited(j) /\ j # a
  BY <1>1 DEF Awaited, IInv, EventsDiffer
<1>4. Awaited(a)
  BY <1>1 DEF Awaited
<1>5. ASSUME NEW k \in JobId, Awaited(k)'
      PROVE  ArrivesBefore(a, k)
  <2>1. PICK f \in heap \ {e} : f.payload.type = "JobArrival" /\ f.payload.job = k
    BY <1>1, <1>5 DEF Awaited
  <2>2. f.time = workload[k].submit_time /\ f.seq + 1 = k
    BY <2>1 DEF HistoryInv, OrderInv
  <2>3. f.time > e.time \/ (f.time = e.time /\ f.seq > e.seq)
    BY <1>1, <2>1 DEF Jumps, EarliestFirst
  <2>. QED  BY <1>1, <1>2, <2>2, <2>3, ConfigFacts DEF ArrivesBefore
<1>6. /\ pending \in Seq(JobId) /\ Len(pending) \in Nat
      /\ DOMAIN pending = 1 .. Len(pending) /\ DOMAIN pending' = 1 .. Len(pending) + 1
      /\ \A i \in DOMAIN pending : pending'[i] = pending[i] /\ pending[i] \in JobId
      /\ pending'[Len(pending) + 1] = a
  BY <1>1, AppendProperties, ElementOfSeq DEF IInv, TypeOK
<1>7. \A i \in DOMAIN pending : ~ Awaited(pending[i])
  BY DEF IInv, EventsAgree, Awaited
<1>8. \A i \in DOMAIN pending : ArrivesBefore(pending[i], a)
  BY <1>1, <1>4, <1>6, <1>7 DEF HistoryInv, OrderInv
<1>9. \A i, k \in DOMAIN pending' : i < k => ArrivesBefore(pending'[i], pending'[k])
  <2>1. SUFFICES ASSUME NEW i \in DOMAIN pending', NEW k \in DOMAIN pending', i < k
                 PROVE  ArrivesBefore(pending'[i], pending'[k])
    OBVIOUS
  <2>2. CASE k \in DOMAIN pending
    <3>1. i \in DOMAIN pending
      BY <1>6, <2>1, <2>2
    <3>. QED  BY <1>6, <2>1, <2>2, <3>1 DEF HistoryInv, OrderInv
  <2>3. CASE k = Len(pending) + 1
    <3>1. i \in DOMAIN pending
      BY <1>6, <2>1, <2>3
    <3>. QED  BY <1>6, <1>8, <2>3, <3>1
  <2>. QED  BY <1>6, <2>2, <2>3
<1>10. OrderInv'
  <2>1. \A f \in heap' : f.payload.type = "JobArrival" =>
            f.time = workload'[f.payload.job].submit_time /\ f.seq + 1 = f.payload.job
    BY <1>1 DEF HistoryInv, OrderInv
  <2>2. ASSUME NEW j \in JobId, NEW k \in JobId, Awaited(k)', ~ Awaited(j)'
        PROVE  ArrivesBefore(j, k)
    BY <1>3, <1>5, <2>2 DEF HistoryInv, OrderInv
  <2>3. \A i \in DOMAIN pending' : pending'[i] \in JobId
    BY <1>1, <1>6
  <2>4. \A j, k : ArrivesBefore(j, k)' <=> ArrivesBefore(j, k)
    BY DEF ArrivesBefore
  <2>. HIDE DEF a
  <2>. QED  BY <1>9, <2>1, <2>2, <2>4, ConfigFacts DEF OrderInv
<1>. HIDE DEF a
<1>11. TimesInv'
  <2>. SUFFICES ASSUME NEW j \in JobId
                PROVE  /\ ~ Awaited(j)' => workload[j].submit_time <= e.time
                       /\ state[j] # "Queued" =>
                            workload[j].submit_time <= start_time[j] /\ start_time[j] <= e.time
                       /\ state[j] = "Done" =>
                            /\ finish_time[j] = start_time[j] + workload[j].duration
                            /\ finish_time[j] <= e.time
    BY <1>1, ConfigFacts DEF TimesInv
  <2>1. /\ now \in Nat /\ e.time \in Nat /\ workload[j].submit_time \in Nat
        /\ state[j] # "Queued" => start_time[j] \in Nat
        /\ state[j] = "Done" => finish_time[j] \in Nat
    BY ConfigFacts DEF IInv, RecordsInv
  <2>2. /\ ~ Awaited(j) => workload[j].submit_time <= now
        /\ state[j] # "Queued" => workload[j].submit_time <= start_time[j] /\ start_time[j] <= now
        /\ state[j] = "Done" => finish_time[j] = start_time[j] + workload[j].duration
                                 /\ finish_time[j] <= now
    BY DEF HistoryInv, TimesInv
  <2>. QED  BY <1>1, <1>2, <1>3, <2>1, <2>2
<1>12. EndInv'
  BY <1>1, <1>2, ConfigFacts DEF EndInv
<1>. QED  BY <1>10, <1>11, <1>12 DEF HistoryInv

\* A finish and the end of the run await the same jobs as before.
LEMMA FinishHistory ==
    ASSUME IInv, HistoryInv, NEW e \in heap, FinishEffect(e), workload' = workload
    PROVE  HistoryInv'
<1>. DEFINE b == e.payload.job
<1>1. /\ e.payload.type = "JobFinish" /\ b \in JobId /\ state[b] = "Running"
      /\ e.time = start_time[b] + workload[b].duration
      /\ pending' = pending /\ heap' = heap \ {e} /\ start_time' = start_time
      /\ state' = [state EXCEPT ![b] = "Done"]
      /\ finish_time' = [finish_time EXCEPT ![b] = e.time]
      /\ now' = e.time /\ pc' = "drain" /\ now <= e.time /\ e.time \in Nat
  BY DEF FinishEffect, Jumps, IInv, RunningInv
<1>. HIDE DEF b
<1>2. \A j : Awaited(j)' <=> Awaited(j)
  BY <1>1 DEF Awaited
<1>3. /\ \A j \in JobId : state'[j] = IF j = b THEN "Done" ELSE state[j]
      /\ \A j \in JobId : finish_time'[j] = IF j = b THEN e.time ELSE finish_time[j]
  BY <1>1 DEF IInv, TypeOK
<1>4. OrderInv'
  <2>1. \A f \in heap' : f.payload.type = "JobArrival" =>
            f.time = workload[f.payload.job].submit_time /\ f.seq + 1 = f.payload.job
    BY <1>1 DEF HistoryInv, OrderInv
  <2>2. \A j, k \in JobId : Awaited(k)' /\ ~ Awaited(j)' => ArrivesBefore(j, k)
    BY <1>2 DEF HistoryInv, OrderInv
  <2>3. \A j, k : ArrivesBefore(j, k)' <=> ArrivesBefore(j, k)
    BY DEF ArrivesBefore
  <2>4. \A i, k \in DOMAIN pending' : i < k => ArrivesBefore(pending'[i], pending'[k])
    BY <1>1 DEF HistoryInv, OrderInv
  <2>. QED  BY <2>1, <2>2, <2>3, <2>4, ConfigFacts DEF OrderInv
<1>5. TimesInv'
  <2>. SUFFICES ASSUME NEW j \in JobId
                PROVE  /\ ~ Awaited(j)' => workload[j].submit_time <= e.time
                       /\ state'[j] # "Queued" =>
                            workload[j].submit_time <= start_time[j] /\ start_time[j] <= e.time
                       /\ state'[j] = "Done" =>
                            /\ finish_time'[j] = start_time[j] + workload[j].duration
                            /\ finish_time'[j] <= e.time
    BY <1>1, ConfigFacts DEF TimesInv
  <2>1. /\ now \in Nat /\ e.time \in Nat /\ workload[j].submit_time \in Nat
        /\ state[j] # "Queued" => start_time[j] \in Nat
        /\ state[j] = "Done" => finish_time[j] \in Nat
    BY ConfigFacts DEF IInv, RecordsInv
  <2>2. /\ ~ Awaited(j) => workload[j].submit_time <= now
        /\ state[j] # "Queued" => workload[j].submit_time <= start_time[j] /\ start_time[j] <= now
        /\ state[j] = "Done" => finish_time[j] = start_time[j] + workload[j].duration
                                 /\ finish_time[j] <= now
    BY DEF HistoryInv, TimesInv
  <2>. QED  BY <1>1, <1>2, <1>3, <2>1, <2>2
<1>6. EndInv'
  <2>1. state'[b] = "Done" /\ now' = finish_time'[b]
    BY <1>1, <1>3
  <2>. QED  BY <1>1, <2>1, ConfigFacts DEF EndInv
<1>. QED  BY <1>4, <1>5, <1>6 DEF HistoryInv

LEMMA EndHistory ==
    ASSUME IInv, HistoryInv, NEW e \in heap, EndEffect(e), workload' = workload
    PROVE  HistoryInv'
<1>1. /\ e.payload.type = "SimEnd" /\ heap' = heap \ {e} /\ heap = {e}
      /\ pending' = pending /\ start_time' = start_time /\ state' = state
      /\ finish_time' = finish_time /\ now' = now /\ sim_end' = now /\ pc' = "returned"
  BY DEF EndEffect, Jumps
<1>2. \A j : Awaited(j)' <=> Awaited(j)
  BY <1>1 DEF Awaited
<1>3. \A j, k : ArrivesBefore(j, k)' <=> ArrivesBefore(j, k)
  BY DEF ArrivesBefore
<1>4. OrderInv'
  BY <1>1, <1>2, <1>3, ConfigFacts DEF HistoryInv, OrderInv
<1>5. TimesInv'
  BY <1>1, <1>2, ConfigFacts DEF HistoryInv, TimesInv
<1>6. EndInv'
  <2>1. \/ \A j \in JobId : Awaited(j)
        \/ \E j \in JobId :
             \/ now = workload[j].submit_time
             \/ state[j] = "Done" /\ now = finish_time[j]
    BY DEF HistoryInv, EndInv
  <2>. QED  BY <1>1, <1>2, <2>1, ConfigFacts DEF EndInv
<1>. QED  BY <1>4, <1>5, <1>6 DEF HistoryInv

\* Starting a job leaves the rest of the backlog in its order.
LEMMA StartKeepsOrder ==
    ASSUME IInv, OrderInv, NEW j \in JobId, NEW n \in NodeId, StartEffect(j, n)
    PROVE  \A i, k \in DOMAIN pending' : i < k => ArrivesBefore(pending'[i], pending'[k])
<1>1. /\ pending \in Seq(JobId) /\ Len(pending) \in Nat \ {0} /\ pending # <<>>
      /\ DOMAIN pending = 1 .. Len(pending)
  BY EmptySeq DEF IInv, TypeOK, StartEffect
<1>2. \A i, k \in DOMAIN pending : i < k => ArrivesBefore(pending[i], pending[k])
  BY DEF OrderInv
<1>3. CASE pending' = Tail(pending)
  <2>1. /\ pending' \in Seq(JobId) /\ Len(pending') = Len(pending) - 1
        /\ \A k \in 1 .. Len(pending') : pending'[k] = pending[k + 1]
    BY <1>1, <1>3, HeadTailProperties
  <2>2. DOMAIN pending' = 1 .. Len(pending) - 1
    BY <2>1
  <2>. SUFFICES ASSUME NEW i \in DOMAIN pending', NEW k \in DOMAIN pending', i < k
                PROVE  ArrivesBefore(pending'[i], pending'[k])
    OBVIOUS
  <2>3. /\ i + 1 \in DOMAIN pending /\ k + 1 \in DOMAIN pending /\ i + 1 < k + 1
        /\ pending'[i] = pending[i + 1] /\ pending'[k] = pending[k + 1]
    BY <1>1, <2>1, <2>2
  <2>. QED  BY <1>2, <2>3
<1>4. ASSUME NEW p \in DOMAIN pending, pending' = RemoveAt(pending, p)
      PROVE  \A i, k \in DOMAIN pending' : i < k => ArrivesBefore(pending'[i], pending'[k])
  <2>1. /\ pending' \in Seq(JobId) /\ Len(pending') = Len(pending) - 1
        /\ \A k \in 1 .. Len(pending) - 1 :
              pending'[k] = IF k < p THEN pending[k] ELSE pending[k + 1]
    BY <1>1, <1>4, RemoveAtElements
  <2>2. DOMAIN pending' = 1 .. Len(pending) - 1 /\ p \in Nat
    BY <1>1, <2>1
  <2>. DEFINE From(k) == IF k < p THEN k ELSE k + 1
  <2>. SUFFICES ASSUME NEW i \in DOMAIN pending', NEW k \in DOMAIN pending', i < k
                PROVE  ArrivesBefore(pending'[i], pending'[k])
    OBVIOUS
  <2>3. /\ From(i) \in DOMAIN pending /\ From(k) \in DOMAIN pending /\ From(i) < From(k)
        /\ pending'[i] = pending[From(i)] /\ pending'[k] = pending[From(k)]
    BY <1>1, <2>1, <2>2
  <2>. HIDE DEF From
  <2>. QED  BY <1>2, <2>3
<1>. QED  BY <1>3, <1>4 DEF StartEffect

LEMMA StartHistory ==
    ASSUME IInv, HistoryInv, NEW j \in JobId, NEW n \in NodeId, StartEffect(j, n),
           workload' = workload
    PROVE  HistoryInv'
<1>. DEFINE new == [time |-> now + workload[j].duration, seq |-> next_seq,
                    payload |-> JobFinish(j, n)]
<1>1. /\ heap' = heap \cup {new} /\ start_time' = [start_time EXCEPT ![j] = now]
      /\ state' = [state EXCEPT ![j] = "Running"] /\ state[j] = "Queued"
      /\ finish_time' = finish_time /\ now' = now /\ sim_end' = sim_end
      /\ pc' = pc /\ pc \in {"drain", "backfill"}
      /\ \E i \in DOMAIN pending : pending[i] = j
  BY DEF StartEffect, BacklogLoses
<1>2. new.payload.type = "JobFinish"
  BY DEF JobFinish
<1>. HIDE DEF new
<1>3. \A k : Awaited(k)' <=> Awaited(k)
  BY <1>1, <1>2 DEF Awaited
<1>4. ~ Awaited(j)
  BY <1>1 DEF Awaited, IInv, EventsAgree
<1>5. /\ \A k \in JobId : state'[k] = IF k = j THEN "Running" ELSE state[k]
      /\ \A k \in JobId : start_time'[k] = IF k = j THEN now ELSE start_time[k]
  BY <1>1 DEF IInv, TypeOK
<1>6. OrderInv'
  <2>1. \A f \in heap' : f.payload.type = "JobArrival" =>
            f.time = workload[f.payload.job].submit_time /\ f.seq + 1 = f.payload.job
    BY <1>1, <1>2 DEF HistoryInv, OrderInv
  <2>2. \A i, k \in JobId : Awaited(k)' /\ ~ Awaited(i)' => ArrivesBefore(i, k)
    BY <1>3 DEF HistoryInv, OrderInv
  <2>3. \A i, k : ArrivesBefore(i, k)' <=> ArrivesBefore(i, k)
    BY DEF ArrivesBefore
  <2>4. \A i, k \in DOMAIN pending' : i < k => ArrivesBefore(pending'[i], pending'[k])
    BY StartKeepsOrder DEF HistoryInv
  <2>. QED  BY <2>1, <2>2, <2>3, <2>4, ConfigFacts DEF OrderInv
<1>7. TimesInv'
  <2>. SUFFICES ASSUME NEW k \in JobId
                PROVE  /\ ~ Awaited(k)' => workload[k].submit_time <= now
                       /\ state'[k] # "Queued" =>
                            workload[k].submit_time <= start_time'[k] /\ start_time'[k] <= now
                       /\ state'[k] = "Done" =>
                            /\ finish_time[k] = start_time'[k] + workload[k].duration
                            /\ finish_time[k] <= now
    BY <1>1, ConfigFacts DEF TimesInv
  <2>1. now \in Nat
    BY ConfigFacts
  <2>2. /\ ~ Awaited(k) => workload[k].submit_time <= now
        /\ state[k] # "Queued" => workload[k].submit_time <= start_time[k] /\ start_time[k] <= now
        /\ state[k] = "Done" => finish_time[k] = start_time[k] + workload[k].duration
                                 /\ finish_time[k] <= now
    BY DEF HistoryInv, TimesInv
  <2>. QED  BY <1>3, <1>4, <1>5, <2>1, <2>2
<1>8. EndInv'
  <2>1. CASE \A k \in JobId : Awaited(k)
    BY <1>1, <1>3, <2>1, ConfigFacts DEF EndInv
  <2>2. CASE \E k \in JobId :
               \/ now = workload[k].submit_time
               \/ state[k] = "Done" /\ now = finish_time[k]
    <3>1. \E k \in JobId :
               \/ now = workload[k].submit_time
               \/ state'[k] = "Done" /\ now = finish_time[k]
      BY <1>1, <1>5, <2>2
    <3>. QED  BY <1>1, <3>1, ConfigFacts DEF EndInv
  <2>. QED  BY <2>1, <2>2 DEF HistoryInv, EndInv
<1>. QED  BY <1>6, <1>7, <1>8 DEF HistoryInv

LEMMA QuietHistory ==
    ASSUME IInv, HistoryInv, QuietEffect, workload' = workload
    PROVE  HistoryInv'
<1>. DEFINE end == [time |-> now, seq |-> next_seq, payload |-> SimEnd]
<1>1. /\ pending' = pending /\ start_time' = start_time /\ state' = state
      /\ finish_time' = finish_time /\ now' = now /\ sim_end' = sim_end
      /\ heap' = heap \/ (heap = {} /\ heap' = {end})
  BY DEF QuietEffect
<1>0. end.payload.type = "SimEnd"
  BY DEF SimEnd
<1>. HIDE DEF end
<1>2. heap' = heap \/ (heap = {} /\ \A f \in heap' : f.payload.type = "SimEnd")
  BY <1>0, <1>1
<1>3. \A j : Awaited(j)' <=> Awaited(j)
  BY <1>2 DEF Awaited
<1>4. \A j, k : ArrivesBefore(j, k)' <=> ArrivesBefore(j, k)
  BY DEF ArrivesBefore
<1>5. OrderInv'
  <2>1. \A f \in heap' : f.payload.type = "JobArrival" =>
            f.time = workload[f.payload.job].submit_time /\ f.seq + 1 = f.payload.job
    BY <1>2 DEF HistoryInv, OrderInv
  <2>. QED  BY <1>1, <1>3, <1>4, <2>1, ConfigFacts DEF HistoryInv, OrderInv
<1>6. TimesInv'
  BY <1>1, <1>3, ConfigFacts DEF HistoryInv, TimesInv
<1>7. EndInv'
  <2>1. \/ \A j \in JobId : Awaited(j)
        \/ \E j \in JobId :
             \/ now = workload[j].submit_time
             \/ state[j] = "Done" /\ now = finish_time[j]
    BY DEF HistoryInv, EndInv
  <2>2. /\ pc = "run" /\ heap = {} => workload = <<>>
        /\ pc = "returned" /\ workload # <<>> => sim_end = now
    BY DEF HistoryInv, EndInv
  <2>3. pc' = "run" /\ heap' = {} => workload = <<>>
    BY <2>2 DEF QuietEffect
  <2>4. pc' = "returned" /\ workload # <<>> => sim_end = now
    BY <2>2 DEF QuietEffect
  <2>. QED  BY <1>1, <1>3, <2>1, <2>3, <2>4, ConfigFacts DEF EndInv
<1>. QED  BY <1>5, <1>6, <1>7 DEF HistoryInv

\* Every step remembers.
LEMMA HistoryPreserved ==
    ASSUME IInv, HistoryInv, [Next]_vars
    PROVE  HistoryInv'
<1>1. workload' = workload /\ Effect
  BY StepEffect
<1>. QED  BY <1>1, ArrivalHistory, FinishHistory, EndHistory, StartHistory, QuietHistory
          DEF Effect

================================================================================
