---------------------------- MODULE SimulatorTheorems ----------------------------
(***************************************************************************)
(* What holds of every run of the simulator: properties of                 *)
(* SimulatorProperties, proved for every cluster, set of workloads and     *)
(* choice of the two policies from the inductive invariant IInv and, where *)
(* they speak of the past, from HistoryInv; and that every run is one the  *)
(* abstract specification JobService allows, under the mapping of          *)
(* SimulatorRefinement.  Of ImplementsJobService this leaves the fairness  *)
(* to the model checker. In between, that a run is a function of its       *)
(* workload and policies, and how many steps it has at most. Then the      *)
(* promise of EASY backfilling: the reservation of a blocked head never    *)
(* recedes, and a head that was promised a tick has started by then. Last, *)
(* the promise of the event queue the runs are built on: TimedQueue        *)
(* implements Agenda.                                                      *)
(***************************************************************************)
EXTENDS SimulatorRefinement, Reservations, SimulatorProofs, TimedQueue

\* The inductive invariant holds throughout every run.
THEOREM Invariance == Spec => []IInv
<1>1. Init => IInv
  BY InitInv
<1>2. IInv /\ [Next]_vars => IInv'
  BY NextPreserves
<1>. QED  BY <1>1, <1>2, PTL DEF Spec

\* Every variable of the simulator keeps its type: in particular what a node
\* has free never goes below zero, and the utilization integral never
\* decreases below it either.
THEOREM TypeCorrect == Spec => []TypeOK
<1>1. IInv => TypeOK
  BY DEF IInv
<1>. QED  BY <1>1, Invariance, PTL

\* The resource accounting of cluster.hpp balances on every node, in both
\* dimensions, for as long as a run lasts.
THEOREM ResourcesConserved == Spec => []Conservation
<1>1. IInv => Conservation
  BY DEF IInv
<1>. QED  BY <1>1, Invariance, PTL

\* The assert of run(): the clock never goes back.
THEOREM ClockMonotone == Spec => []ClockNeverBehind
<1>1. IInv => ClockNeverBehind
  BY DEF IInv, ClockInv
<1>. QED  BY <1>1, Invariance, PTL

\* The two asserts of drain()'s second loop hold whichever placement policy
\* is combined with whichever queue policy.
THEOREM PickAlwaysPlaceable == Spec => []PickIsPlaceable
<1>1. ASSUME IInv PROVE PickIsPlaceable
  <2>1. ASSUME pc = "backfill", NEW j \in Pick
        PROVE  j # Head(pending) /\ Placement(j) # {}
    <3>1. /\ j \in JobId /\ FitsAnywhere(Request(j), free)
          /\ \E i \in DOMAIN pending : i # 1 /\ pending[i] = j
      BY <1>1, PickOfBacklog
    <3>2. Placement(j) # {}
      BY <1>1, <3>1, PlacementOfJob
    <3>3. pending # <<>> /\ pending \in Seq(JobId)
      BY <1>1, <2>1 DEF IInv, ControlInv, TypeOK
    <3>4. 1 \in DOMAIN pending /\ Head(pending) = pending[1]
      BY <3>3, EmptySeq
    <3>5. j # Head(pending)
      BY <1>1, <3>1, <3>4 DEF IInv, BacklogInv
    <3>. QED  BY <3>2, <3>5
  <2>. QED  BY <2>1 DEF PickIsPlaceable
<1>. QED  BY <1>1, Invariance, PTL

\* No job is lost, held twice or awaited twice.
THEOREM JobsAccountedFor == Spec => []JobAccounting
<1>1. ASSUME IInv PROVE JobAccounting
  <2>0. \A e \in heap : e.payload \in Payload
    BY <1>1 DEF IInv, TypeOK
  <2>1. ASSUME NEW j \in JobId, NEW e \in ArrivalsOf(j)
        PROVE  /\ state[j] = "Queued" /\ PlacesInBacklog(j) = {}
               /\ ArrivalsOf(j) = {e}
    <3>1. e \in heap /\ e.payload.type = "JobArrival" /\ e.payload.job = j
      BY DEF ArrivalsOf, JobArrival
    <3>2. \A f \in ArrivalsOf(j) :
            f \in heap /\ f.payload.type = "JobArrival" /\ f.payload.job = j
      BY DEF ArrivalsOf, JobArrival
    <3>3. ArrivalsOf(j) = {e}
      BY <1>1, <3>1, <3>2 DEF IInv, EventsDiffer
    <3>. QED  BY <1>1, <3>1, <3>3 DEF IInv, EventsAgree, PlacesInBacklog
  <2>2. ASSUME NEW j \in JobId, NEW i \in PlacesInBacklog(j)
        PROVE  /\ state[j] = "Queued" /\ ArrivalsOf(j) = {}
               /\ PlacesInBacklog(j) = {i}
    <3>1. state[j] = "Queued" /\ PlacesInBacklog(j) = {i}
      BY <1>1 DEF IInv, BacklogInv, PlacesInBacklog
    <3>. QED  BY <2>1, <3>1
  <2>3. ASSUME NEW j \in JobId, NEW e \in FinishesOf(j)
        PROVE  /\ state[j] = "Running" /\ FinishesOf(j) = {e}
               /\ e.time = start_time[j] + workload[j].duration /\ e.payload.node = node[j]
    BY <1>1 DEF IInv, EventsAgree, EventsDiffer, FinishesOf
  <2>4. ASSUME NEW j \in JobId, state[j] = "Queued"
        PROVE  /\ j \notin running /\ FinishesOf(j) = {}
               /\ Cardinality(ArrivalsOf(j)) + Cardinality(PlacesInBacklog(j)) = 1
    <3>1. j \notin running /\ FinishesOf(j) = {}
      BY <1>1, <2>3, <2>4 DEF IInv, RunningInv
    <3>2. CASE \E e \in heap : e.payload.type = "JobArrival" /\ e.payload.job = j
      <4>1. PICK e \in heap : e.payload.type = "JobArrival" /\ e.payload.job = j
        BY <3>2
      <4>2. e \in ArrivalsOf(j)
        BY <2>0, <4>1, PayloadKinds DEF ArrivalsOf
      <4>3. ArrivalsOf(j) = {e} /\ PlacesInBacklog(j) = {}
        BY <2>1, <4>2
      <4>4. Cardinality(ArrivalsOf(j)) = 1 /\ Cardinality(PlacesInBacklog(j)) = 0
        BY <4>3, FS_Singleton, FS_EmptySet
      <4>. QED  BY <3>1, <4>4
    <3>3. CASE \E i \in DOMAIN pending : pending[i] = j
      <4>1. PICK i \in PlacesInBacklog(j) : TRUE
        BY <3>3 DEF PlacesInBacklog
      <4>2. ArrivalsOf(j) = {} /\ PlacesInBacklog(j) = {i}
        BY <2>2, <4>1
      <4>3. Cardinality(ArrivalsOf(j)) = 0 /\ Cardinality(PlacesInBacklog(j)) = 1
        BY <4>2, FS_Singleton, FS_EmptySet
      <4>. QED  BY <3>1, <4>3
    <3>. QED  BY <1>1, <2>4, <3>2, <3>3 DEF IInv, JobsAwaited
  <2>5. ASSUME NEW j \in JobId, state[j] = "Running"
        PROVE  /\ j \in running /\ ArrivalsOf(j) = {} /\ PlacesInBacklog(j) = {}
               /\ \E e \in heap :
                    /\ FinishesOf(j) = {e}
                    /\ e.time = start_time[j] + workload[j].duration
                    /\ e.payload.node = node[j]
    <3>1. PICK e \in heap : e.payload.type = "JobFinish" /\ e.payload.job = j
      BY <1>1, <2>5 DEF IInv, JobsAwaited
    <3>2. e \in FinishesOf(j)
      BY <3>1 DEF FinishesOf
    <3>3. ArrivalsOf(j) = {} /\ PlacesInBacklog(j) = {} /\ j \in running
      BY <1>1, <2>1, <2>2, <2>5 DEF IInv, RunningInv
    <3>. QED  BY <2>3, <3>2, <3>3
  <2>6. ASSUME NEW j \in JobId, state[j] = "Done"
        PROVE  /\ j \notin running /\ ArrivalsOf(j) = {} /\ FinishesOf(j) = {}
               /\ PlacesInBacklog(j) = {}
    BY <1>1, <2>1, <2>2, <2>3, <2>6 DEF IInv, RunningInv
  <2>. QED  BY <2>4, <2>5, <2>6 DEF JobAccounting
<1>. QED  BY <1>1, Invariance, PTL

\* Where the invariant holds, a returned run is one that did every job, or one
\* whose head no empty node can hold.
LEMMA WedgedByHead ==
    ASSUME IInv
    PROVE  WedgedOnlyByUnsatisfiableHead
<1>1. SUFFICES ASSUME pc = "returned"
               PROVE  /\ running = {}
                      /\ pending = <<>> => \A j \in JobId : state[j] = "Done"
                      /\ pending # <<>> =>
                          ~ \E n \in NodeId : CanFit(Capacity, Request(Head(pending)))
  BY DEF WedgedOnlyByUnsatisfiableHead
<1>2. heap = {}
  BY <1>1 DEF IInv, ControlInv
<1>3. \A j \in JobId : state[j] # "Running"
  BY <1>2 DEF IInv, JobsAwaited
<1>4. running = {}
  BY <1>3 DEF IInv, RunningInv
<1>5. ASSUME pending = <<>>, NEW j \in JobId
      PROVE  state[j] = "Done"
  <2>1. state[j] # "Queued"
    BY <1>2, <1>5 DEF IInv, JobsAwaited
  <2>. QED  BY <1>3, <2>1 DEF IInv, TypeOK, JobState
<1>6. ASSUME NEW n \in NodeId, NEW d \in Dim
      PROVE  free[n][d] = Capacity[d]
  <2>1. JobsOn(n) = {}
    BY <1>4 DEF JobsOn
  <2>2. HeldOn(n, d) = 0
    BY <2>1, SumEmpty DEF HeldOn
  <2>3. free[n][d] + HeldOn(n, d) = Capacity[d] /\ free[n][d] \in Nat
    BY DEF IInv, Conservation, TypeOK, Resources
  <2>. QED  BY <2>2, <2>3
<1>7. ASSUME pending # <<>>, NEW n \in NodeId, CanFit(Capacity, Request(Head(pending)))
      PROVE  FALSE
  <2>1. CanFit(free[n], Request(Head(pending)))
    BY <1>6, <1>7 DEF CanFit
  <2>. QED  BY <1>1, <1>7, <2>1 DEF IInv, ControlInv, FitsAnywhere
<1>. QED  BY <1>4, <1>5, <1>7

\* A run ends with every job done, or with a backlog whose head no node could
\* hold even if it were empty: whatever runs before it, nothing else wedges.
THEOREM OnlyUnsatisfiableHeadsWedge == Spec => []WedgedOnlyByUnsatisfiableHead
<1>. QED  BY WedgedByHead, Invariance, PTL

\* No step rewrites what a job record already says, or takes a job back.
THEOREM RecordsKept == Spec => RecordsWrittenOnce
<1>1. ASSUME IInv, [Next]_vars PROVE [RecordsOnlyFilledIn]_vars
  <2>0. /\ kNever \notin Nat /\ state \in [JobId -> JobState]
        /\ start_time \in [JobId -> Nat \cup {kNever}] /\ node \in [JobId -> Nat]
        /\ finish_time \in [JobId -> Nat \cup {kNever}] /\ now \in Nat
    BY <1>1, NeverAssumption DEF IInv, TypeOK
  <2>1. ASSUME NEW j \in JobId, NEW n \in Placement(j), StartOn(j, n), state[j] = "Queued"
        PROVE  RecordsOnlyFilledIn
    <3>1. /\ state' = [state EXCEPT ![j] = "Running"]
          /\ start_time' = [start_time EXCEPT ![j] = now]
          /\ node' = [node EXCEPT ![j] = n]
          /\ finish_time' = finish_time
      BY <2>1 DEF StartOn
    <3>2. start_time[j] = kNever
      BY <1>1, <2>1 DEF IInv, RecordsInv
    <3>. QED  BY <2>0, <2>1, <3>1, <3>2 DEF RecordsOnlyFilledIn
  <2>2. ASSUME NEW j \in JobId, TryPlace(j), state[j] = "Queued"
        PROVE  RecordsOnlyFilledIn
    <3>1. CASE Placement(j) = {}
      BY <2>2, <3>1 DEF TryPlace, jobs, RecordsOnlyFilledIn
    <3>2. CASE Placement(j) # {}
      <4>1. PICK n \in Placement(j) : StartOn(j, n)
        BY <2>2, <3>2 DEF TryPlace
      <4>. QED  BY <2>1, <2>2, <4>1
    <3>. QED  BY <3>1, <3>2
  <2>3. ASSUME NEW i \in DOMAIN pending
        PROVE  pending[i] \in JobId /\ state[pending[i]] = "Queued"
    BY <1>1, ElementOfSeq DEF IInv, TypeOK, BacklogInv
  <2>4. CASE StartHead \/ BlockHead
    <3>1. pending # <<>> /\ TryPlace(Head(pending))
      BY <2>4 DEF StartHead, BlockHead
    <3>2. 1 \in DOMAIN pending /\ Head(pending) = pending[1]
      BY <1>1, <3>1, EmptySeq DEF IInv, TypeOK
    <3>3. Head(pending) \in JobId /\ state[Head(pending)] = "Queued"
      BY <2>3, <3>2
    <3>. QED  BY <2>2, <3>1, <3>3
  <2>5. CASE BackfillJob
    <3>1. PICK j \in Pick : TryPlace(j)
      BY <2>5 DEF BackfillJob
    <3>2. j \in JobId /\ state[j] = "Queued"
      BY <1>1, <2>3, PickOfBacklog
    <3>. QED  BY <2>2, <3>1, <3>2
  <2>6. CASE OnFinish
    <3>1. PICK e \in heap :
            /\ e.payload.type = "JobFinish"
            /\ state' = [state EXCEPT ![e.payload.job] = "Done"]
            /\ finish_time' = [finish_time EXCEPT ![e.payload.job] = e.time]
            /\ start_time' = start_time /\ node' = node
      BY <2>6 DEF OnFinish
    <3>2. state[e.payload.job] = "Running"
      BY <1>1, <3>1 DEF IInv, EventsAgree
    <3>3. e.payload.job \in JobId
      BY <1>1, <3>1, PayloadKinds DEF IInv, TypeOK
    <3>4. finish_time[e.payload.job] = kNever
      BY <1>1, <3>2, <3>3 DEF IInv, RecordsInv
    <3>. QED  BY <2>0, <3>1, <3>2, <3>3, <3>4 DEF RecordsOnlyFilledIn
  <2>7. CASE OnArrival \/ OnSimEnd \/ LoopEnds \/ DrainReturns
    <3>1. UNCHANGED jobs
      BY <2>7 DEF OnArrival, OnSimEnd, LoopEnds, DrainReturns
    <3>. QED  BY <3>1 DEF jobs, RecordsOnlyFilledIn
  <2>. QED  BY <1>1, <2>4, <2>5, <2>6, <2>7 DEF Next, Returned
<1>. QED  BY <1>1, Invariance, PTL DEF Spec, RecordsWrittenOnce

--------------------------------------------------------------------------------
(* What drain() leaves behind *)

\* The reservation of a job is a tick that will come, or none.
LEMMA ShadowIsTick ==
    ASSUME IInv, pending # <<>>
    PROVE  HeadShadow \in Nat \cup {kNever}
<1>. DEFINE times == RoomTimes(Request(Head(pending)), free, RunningView)
<1>1. \A r \in RunningView : r.estimated_finish \in Nat
  <2>1. ASSUME NEW j \in running
        PROVE  start_time[j] + workload[j].estimated_duration \in Nat
    <3>1. j \in JobId /\ state[j] = "Running"
      BY DEF IInv, RunningInv
    <3>2. start_time[j] \in Nat
      BY <3>1 DEF IInv, RecordsInv
    <3>3. workload[j].estimated_duration \in Nat
      BY <3>1, JobFacts DEF IInv, TypeOK
    <3>. QED  BY <3>2, <3>3
  <2>. QED  BY <2>1 DEF RunningView
<1>2. times \subseteq Nat
  BY <1>1 DEF RoomTimes
<1>3. now \in Nat
  BY DEF IInv, TypeOK
<1>4. ASSUME times # {}
      PROVE  (CHOOSE t \in times : \A u \in times : t <= u) \in Nat
  <2>. HIDE DEF times
  <2>1. \E t \in times : \A u \in times : t <= u
    BY <1>2, <1>4, LeastNat
  <2>. QED  BY <1>2, <2>1
<1>. QED  BY <1>3, <1>4 DEF HeadShadow, ShadowTime

\* A policy that picks nothing has no admissible job behind the head.
LEMMA NoPick ==
    ASSUME IInv, policy = "backfill", Pick = {}, HeadShadow # kNever, pending # <<>>,
           NEW i \in 2 .. Len(pending)
    PROVE  ~ Admissible(BacklogView[i], HeadShadow, free, now)
<1>1. Len(BacklogView) = Len(pending) /\ Len(pending) \in Nat /\ pending \in Seq(JobId)
  BY DEF BacklogView, IInv, TypeOK
<1>2. 1 \in 1 .. Len(pending) /\ Head(pending) = pending[1]
  BY <1>1, EmptySeq
<1>3. BacklogView[1].request = Request(Head(pending))
  BY <1>2 DEF BacklogView
<1>. DEFINE Admitted(k) == Admissible(BacklogView[k], HeadShadow, free, now)
            A == {k \in 2 .. Len(pending) : Admitted(k)}
<1>4. {BacklogView[h].id : h \in {k \in 2 .. Len(pending) :
            Admitted(k) /\ \A l \in 2 .. k - 1 : ~ Admitted(l)}} = {}
  <2>1. ShadowTime(BacklogView[1].request, free, RunningView, now) = HeadShadow
    BY <1>3 DEF HeadShadow
  <2>2. ~ (Len(BacklogView) < 2)
    BY <1>1
  <2>3. Pick = EasyBackfill(BacklogView, free, RunningView, now)
    BY DEF Pick, BackfillPick
  <2>. QED  BY <1>1, <2>1, <2>2, <2>3 DEF EasyBackfill
<1>. SUFFICES ASSUME Admitted(i) PROVE FALSE
  OBVIOUS
<1>5. PICK k \in A : \A l \in A : k <= l
  <2>1. A \subseteq Nat /\ A # {}
    OBVIOUS
  <2>. HIDE DEF A
  <2>. QED  BY <2>1, LeastNat
<1>6. k \in 2 .. Len(pending) /\ Admitted(k) /\ \A l \in 2 .. k - 1 : ~ Admitted(l)
  <2>. HIDE DEF Admitted
  <2>. QED  BY <1>1, <1>5
<1>. HIDE DEF Admitted
<1>. QED  BY <1>4, <1>6

\* Between events, a waiting job that could start is held back by nothing but
\* the reservation of the head: drain() never returns too early, even though
\* its second loop does not look at the head again.
THEOREM DrainIsComplete == Spec => []NothingStartableWaits
<1>1. Init => NothingStartableWaits
  BY DEF Init, NothingStartableWaits
<1>2. ASSUME IInv, NothingStartableWaits, [Next]_vars
      PROVE  NothingStartableWaits'
  <2>1. CASE OnArrival \/ OnFinish \/ OnSimEnd \/ LoopEnds \/ StartHead \/ BlockHead \/ BackfillJob
    <3>1. pc' # "run"
      BY <2>1 DEF OnArrival, OnFinish, OnSimEnd, LoopEnds, StartHead, BlockHead, BackfillJob
    <3>. QED  BY <3>1 DEF NothingStartableWaits
  <2>2. CASE DrainReturns
    <3>1. /\ workload' = workload /\ policy' = policy /\ free' = free /\ running' = running
          /\ pending' = pending /\ now' = now /\ node' = node /\ start_time' = start_time
          /\ (pc = "drain" /\ pending = <<>>) \/ (pc = "backfill" /\ Pick = {})
      BY <2>2 DEF DrainReturns, config, jobs, machines
    <3>2. ASSUME pending # <<>>
          PROVE  /\ ~ FitsAnywhere(Request(Head(pending)), free)
                 /\ policy = "backfill" =>
                     \A i \in 2 .. Len(pending) :
                         FitsAnywhere(Request(pending[i]), free) =>
                             \/ HeadShadow = kNever
                             \/ now + workload[pending[i]].estimated_duration > HeadShadow
      <4>1. pc = "backfill" /\ Pick = {}
        BY <3>1, <3>2
      <4>2. ~ FitsAnywhere(Request(Head(pending)), free)
        BY <1>2, <3>2, <4>1 DEF IInv, ControlInv
      <4>3. ASSUME policy = "backfill", NEW i \in 2 .. Len(pending), HeadShadow # kNever,
                   FitsAnywhere(Request(pending[i]), free)
            PROVE  now + workload[pending[i]].estimated_duration > HeadShadow
        <5>1. ~ Admissible(BacklogView[i], HeadShadow, free, now)
          BY <1>2, <3>2, <4>1, <4>3, NoPick
        <5>2. /\ pending \in Seq(JobId) /\ Len(pending) \in Nat
              /\ i \in 1 .. Len(pending) /\ pending[i] \in JobId
          BY <1>2, ElementOfSeq DEF IInv, TypeOK
        <5>3. /\ BacklogView[i].request = Request(pending[i])
              /\ BacklogView[i].estimated_duration = workload[pending[i]].estimated_duration
          BY <5>2 DEF BacklogView
        <5>4. ~ (now + workload[pending[i]].estimated_duration <= HeadShadow)
          BY <4>3, <5>1, <5>3 DEF Admissible
        <5>5. /\ HeadShadow \in Nat /\ now \in Nat
              /\ workload[pending[i]].estimated_duration \in Nat
          BY <1>2, <3>2, <4>3, <5>2, ShadowIsTick, JobFacts DEF IInv, TypeOK
        <5>. QED  BY <5>4, <5>5
      <4>. QED  BY <4>2, <4>3
    <3>3. HeadShadow' = HeadShadow
      BY <3>1 DEF HeadShadow, Request, RunningView
    <3>4. \A j : Request(j)' = Request(j)
      BY <3>1 DEF Request
    <3>. QED  BY <3>1, <3>2, <3>3, <3>4 DEF NothingStartableWaits, Request
  <2>3. CASE Returned \/ UNCHANGED vars
    <3>1. UNCHANGED vars
      BY <2>3 DEF Returned
    <3>2. /\ workload' = workload /\ policy' = policy /\ free' = free /\ running' = running
          /\ pending' = pending /\ now' = now /\ node' = node /\ start_time' = start_time
          /\ pc' = pc
      BY <3>1 DEF vars, config, jobs, machines
    <3>3. HeadShadow' = HeadShadow
      BY <3>2 DEF HeadShadow, Request, RunningView
    <3>. QED  BY <1>2, <3>2, <3>3 DEF NothingStartableWaits, Request
  <2>. QED  BY <1>2, <2>1, <2>2, <2>3 DEF Next
<1>. QED  BY <1>1, <1>2, Invariance, PTL DEF Spec

--------------------------------------------------------------------------------
(* What a run remembers *)

\* The order and the times of what has happened stay in the state, although
\* the event queue forgets an event as soon as it is handled.
THEOREM HistoryKept == Spec => []HistoryInv
<1>1. Init => HistoryInv
  BY InitHistory
<1>2. IInv /\ HistoryInv /\ [Next]_vars => HistoryInv'
  BY HistoryPreserved
<1>. QED  BY <1>1, <1>2, Invariance, PTL DEF Spec

\* The books are closed at the last arrival or finish and not at any other
\* tick, whatever else was in the queue.
THEOREM EndIsMakespan == Spec => []SimEndIsMakespan
<1>1. ASSUME IInv, HistoryInv PROVE SimEndIsMakespan
  <2>. DEFINE Moments == {workload[j].submit_time : j \in JobId}
                           \cup {finish_time[j] : j \in {k \in JobId : state[k] = "Done"}}
  <2>. SUFFICES ASSUME pc = "returned", workload # <<>>
                PROVE  sim_end \in Moments /\ \A t \in Moments : t <= sim_end
    BY DEF SimEndIsMakespan
  <2>1. heap = {} /\ sim_end = now
    BY <1>1 DEF IInv, ControlInv, HistoryInv, EndInv
  <2>2. \A j \in JobId : ~ Awaited(j)
    BY <2>1 DEF Awaited
  <2>3. JobId # {}
    <3>1. JobId = 1 .. Len(workload) /\ Len(workload) \in Nat
      BY <1>1, JobFacts DEF IInv, TypeOK
    <3>2. Len(workload) # 0
      BY <1>1, EmptySeq DEF IInv, TypeOK
    <3>. QED  BY <3>1, <3>2
  <2>4. sim_end \in Moments
    BY <1>1, <2>1, <2>2, <2>3 DEF HistoryInv, EndInv
  <2>5. ASSUME NEW t \in Moments PROVE t <= sim_end
    BY <1>1, <2>1, <2>2 DEF HistoryInv, TimesInv
  <2>. QED  BY <2>4, <2>5
<1>. QED  BY <1>1, Invariance, HistoryKept, PTL

\* The jobs that started at an earlier tick than one that arrived before.
Overtakers == {j \in JobId : \E i \in JobId : Overtakes(j, i)}

\* Starting the head of the backlog overtakes nobody, starting another job
\* makes at most that job an overtaker.
LEMMA StartOvertakes ==
    ASSUME IInv, HistoryInv, NEW j \in JobId, NEW n \in NodeId, StartEffect(j, n),
           workload' = workload
    PROVE  /\ Overtakers' \subseteq Overtakers \cup {j}
           /\ pending' = Tail(pending) /\ j = Head(pending) => Overtakers' \subseteq Overtakers
<1>1. /\ state[j] = "Queued" /\ now \in Nat
      /\ \A k \in JobId : state'[k] = IF k = j THEN "Running" ELSE state[k]
      /\ \A k \in JobId : start_time'[k] = IF k = j THEN now ELSE start_time[k]
      /\ pending # <<>> /\ \E i \in DOMAIN pending : pending[i] = j
  BY DEF StartEffect, BacklogLoses, IInv, TypeOK
<1>2. ASSUME NEW a \in JobId, NEW b \in JobId, Overtakes(a, b)', a # j
      PROVE  Overtakes(a, b)
  BY <1>1, <1>2 DEF Overtakes, ArrivesBefore
<1>3. Overtakers' \subseteq Overtakers \cup {j}
  BY <1>2, ConfigFacts DEF Overtakers
<1>4. ASSUME j = Head(pending), NEW b \in JobId, Overtakes(j, b)'
      PROVE  FALSE
  <2>1. /\ ArrivesBefore(b, j)
        /\ b # j
        /\ state[b] = "Queued" \/ now < start_time[b]
    BY <1>1, <1>4, ConfigFacts DEF Overtakes, ArrivesBefore
  <2>2. state[b] = "Queued"
    <3>1. state[b] # "Queued" => start_time[b] \in Nat /\ start_time[b] <= now
      BY DEF HistoryInv, TimesInv, IInv, RecordsInv
    <3>. QED  BY <1>1, <2>1, <3>1
  <2>3. ArrivesBefore(j, b)
    <3>1. CASE Awaited(b)
      <4>1. ~ Awaited(j)
        BY <1>1 DEF Awaited, IInv, EventsAgree
      <4>. QED  BY <3>1, <4>1 DEF HistoryInv, OrderInv
    <3>2. CASE \E i \in DOMAIN pending : pending[i] = b
      <4>1. PICK i \in DOMAIN pending : pending[i] = b
        BY <3>2
      <4>2. /\ pending \in Seq(JobId) /\ DOMAIN pending = 1 .. Len(pending)
            /\ Len(pending) \in Nat
        BY DEF IInv, TypeOK
      <4>3. 1 \in DOMAIN pending /\ Head(pending) = pending[1]
        BY <1>1, <4>2, EmptySeq
      <4>4. 1 < i
        BY <1>4, <2>1, <4>1, <4>2, <4>3
      <4>. QED  BY <1>4, <4>1, <4>3, <4>4 DEF HistoryInv, OrderInv
    <3>. QED  BY <2>2, <3>1, <3>2 DEF IInv, JobsAwaited, Awaited
  <2>. QED  BY <2>1, <2>3, ConfigFacts DEF ArrivesBefore
<1>. QED  BY <1>2, <1>3, <1>4, ConfigFacts DEF Overtakers

\* Nobody overtakes but a backfilled job, and each backfill counts at most
\* one; the fifo policy lets nobody overtake.
THEOREM OnlyBackfillingOvertakes == Spec => []OvertakingIsBackfilling
<1>0. ASSUME IInv
      PROVE  IsFiniteSet(Overtakers) /\ Cardinality(Overtakers) \in Nat /\ backfilled \in Nat
  <2>1. Overtakers \subseteq JobId /\ IsFiniteSet(JobId)
    BY <1>0, JobFacts DEF Overtakers, IInv, TypeOK
  <2>. QED  BY <1>0, <2>1, FS_Subset, FS_CardinalityType DEF IInv, TypeOK
<1>1. ASSUME Init PROVE OvertakingIsBackfilling
  <2>1. Overtakers = {}
    BY <1>1 DEF Init, Overtakers, Overtakes
  <2>2. Cardinality(Overtakers) = 0 /\ backfilled = 0
    BY <1>1, <2>1, FS_EmptySet DEF Init
  <2>3. Cardinality(Overtakers) <= backfilled
    BY <2>2
  <2>. QED  BY <2>2, <2>3 DEF OvertakingIsBackfilling, Overtakers
<1>2. ASSUME IInv, HistoryInv, OvertakingIsBackfilling, [Next]_vars
      PROVE  OvertakingIsBackfilling'
  <2>0. /\ workload' = workload /\ policy' = policy /\ Effect
        /\ IsFiniteSet(Overtakers) /\ Cardinality(Overtakers) \in Nat /\ backfilled \in Nat
        /\ Cardinality(Overtakers) <= backfilled /\ (policy = "fifo" => backfilled = 0)
        /\ IInv'
    BY <1>0, <1>2, StepEffect, NextPreserves DEF OvertakingIsBackfilling, Overtakers
  <2>1. SUFFICES /\ Cardinality(Overtakers') <= backfilled'
                 /\ policy = "fifo" => backfilled' = 0
    BY <2>0 DEF OvertakingIsBackfilling, Overtakers
  <2>2. CASE ~ \E j \in JobId, n \in NodeId : StartEffect(j, n)
    <3>1. start_time' = start_time /\ backfilled' = backfilled
      BY <2>0, <2>2 DEF Effect, ArrivalEffect, FinishEffect, EndEffect, QuietEffect, Jumps
    <3>2. \A j \in JobId : state'[j] = "Queued" <=> state[j] = "Queued"
      <4>0. state \in [JobId -> JobState]
        BY <1>2 DEF IInv, TypeOK
      <4>1. ASSUME NEW e \in heap, FinishEffect(e)
            PROVE  \A j \in JobId : state'[j] = "Queued" <=> state[j] = "Queued"
        BY <4>0, <4>1 DEF FinishEffect
      <4>2. ASSUME NEW e \in heap, ArrivalEffect(e) \/ EndEffect(e)
            PROVE  state' = state
        BY <4>2 DEF ArrivalEffect, EndEffect
      <4>3. QuietEffect => state' = state
        BY DEF QuietEffect
      <4>. QED  BY <2>0, <2>2, <4>1, <4>2, <4>3 DEF Effect
    <3>3. \A j, i \in JobId : Overtakes(j, i)' <=> Overtakes(j, i)
      BY <2>0, <3>1, <3>2 DEF Overtakes, ArrivesBefore
    <3>4. Overtakers' = Overtakers
      BY <1>2, <2>0, <3>3, ConfigFacts DEF Overtakers
    <3>. QED  BY <2>0, <3>1, <3>4
  <2>3. ASSUME NEW j \in JobId, NEW n \in NodeId, StartEffect(j, n)
        PROVE  /\ Cardinality(Overtakers') <= backfilled'
               /\ policy = "fifo" => backfilled' = 0
    <3>1. CASE pc = "drain"
      <4>1. backfilled' = backfilled /\ Overtakers' \subseteq Overtakers
        BY <1>2, <2>0, <2>3, <3>1, StartOvertakes DEF StartEffect
      <4>2. IsFiniteSet(Overtakers') /\ Cardinality(Overtakers') <= Cardinality(Overtakers)
        BY <2>0, <4>1, FS_Subset
      <4>3. Cardinality(Overtakers') \in Nat
        BY <4>2, FS_CardinalityType
      <4>. QED  BY <2>0, <4>1, <4>2, <4>3
    <3>2. CASE pc = "backfill"
      <4>1. backfilled' = backfilled + 1 /\ Pick # {}
        BY <2>3, <3>2 DEF StartEffect
      <4>2. policy # "fifo"
        BY <4>1 DEF Pick, BackfillPick
      <4>3. Overtakers' \subseteq Overtakers \cup {j}
        BY <1>2, <2>0, <2>3, StartOvertakes
      <4>4. /\ IsFiniteSet(Overtakers \cup {j})
            /\ Cardinality(Overtakers \cup {j}) <= Cardinality(Overtakers) + 1
            /\ Cardinality(Overtakers \cup {j}) \in Nat
        <5>1. IsFiniteSet(Overtakers \cup {j})
          BY <2>0, FS_AddElement
        <5>2. Cardinality(Overtakers \cup {j}) <= Cardinality(Overtakers) + 1
          BY <2>0, FS_AddElement
        <5>. QED  BY <5>1, <5>2, FS_CardinalityType
      <4>5. /\ IsFiniteSet(Overtakers') /\ Cardinality(Overtakers') \in Nat
            /\ Cardinality(Overtakers') <= Cardinality(Overtakers \cup {j})
        BY <4>3, <4>4, FS_Subset, FS_CardinalityType
      <4>. QED  BY <2>0, <4>1, <4>2, <4>4, <4>5
    <3>. QED  BY <2>3, <3>1, <3>2 DEF StartEffect
  <2>. QED  BY <2>2, <2>3
<1>. QED  BY <1>1, <1>2, Invariance, HistoryKept, PTL DEF Spec

--------------------------------------------------------------------------------
(* Nothing is left to chance *)

LEMMA AtMostOne ==
    ASSUME NEW S, \A x, y \in S : x = y
    PROVE  IsFiniteSet(S) /\ Cardinality(S) <= 1
<1>1. CASE S = {}
  BY <1>1, FS_EmptySet
<1>2. CASE S # {}
  <2>1. PICK x \in S : S = {x}
    BY <1>2
  <2>2. IsFiniteSet({x}) /\ Cardinality({x}) = 1
    BY FS_Singleton
  <2>3. Cardinality(S) = 1
    BY <2>1, <2>2
  <2>. QED  BY <2>1, <2>2, <2>3
<1>. QED  BY <1>1, <1>2

\* A queue that holds events has exactly one on top.
LEMMA OneTop ==
    ASSUME IInv, heap # {}
    PROVE  Cardinality({e \in heap : Top(e)}) = 1
<1>1. \A e \in heap : e.time \in Nat /\ e.seq \in Nat
  BY DEF IInv, TypeOK
<1>. DEFINE Due == {e.time : e \in heap}
<1>2. PICK t \in Due : \A u \in Due : t <= u
  <2>1. Due \subseteq Nat /\ Due # {}
    BY <1>1
  <2>. HIDE DEF Due
  <2>. QED  BY <2>1, LeastNat
<1>. DEFINE First == {e \in heap : e.time = t}
            Seqs == {e.seq : e \in First}
<1>3. PICK q \in Seqs : \A u \in Seqs : q <= u
  <2>1. Seqs \subseteq Nat /\ Seqs # {}
    BY <1>1, <1>2
  <2>. HIDE DEF Seqs
  <2>. QED  BY <2>1, LeastNat
<1>4. PICK e \in First : e.seq = q
  BY <1>3
<1>5. ASSUME NEW f \in heap \ {e}
      PROVE  EarliestFirst(f, e)
  <2>1. e \in heap /\ e.time = t /\ t <= f.time /\ e.seq # f.seq
    BY <1>2, <1>4, <1>5 DEF IInv, EventsDiffer
  <2>2. f.time = t => e.seq <= f.seq
    BY <1>3, <1>4
  <2>. QED  BY <1>1, <2>1, <2>2 DEF EarliestFirst
<1>6. ASSUME NEW f \in heap, Top(f)
      PROVE  f = e
  <2>1. SUFFICES ASSUME f # e PROVE FALSE
    OBVIOUS
  <2>2. EarliestFirst(f, e) /\ EarliestFirst(e, f)
    BY <1>4, <1>5, <1>6, <2>1 DEF Top
  <2>. QED  BY <1>1, <1>4, <2>2 DEF EarliestFirst
<1>7. {f \in heap : Top(f)} = {e}
  BY <1>4, <1>5, <1>6 DEF Top
<1>. QED  BY <1>7, FS_Singleton

\* The program draws nothing at random: every optional it is handed holds at
\* most one value, and the event queue has one top, so a run is fixed by its
\* workload and its policies.
THEOREM NothingLeftToChance == Spec => []Deterministic
<1>1. ASSUME IInv PROVE Deterministic
  <2>1. ASSUME NEW j
        PROVE  Cardinality(Placement(j)) <= 1
    <3>1. scheduler \in SchedulerNames /\ pos \in Nat
      BY <1>1, SimulatorAssumption DEF IInv, TypeOK
    <3>2. \A n, m \in Placement(j) : n = m
      BY <3>1, PlacementUnique DEF Placement
    <3>. QED  BY <3>2, AtMostOne
  <2>2. Cardinality(Pick) <= 1
    <3>1. policy \in QueuePolicyNames /\ Len(BacklogView) \in Nat
      BY <1>1, SimulatorAssumption DEF IInv, TypeOK, BacklogView
    <3>2. \A j, k \in Pick : j = k
      BY <3>1, BackfillUnique DEF Pick
    <3>. QED  BY <3>2, AtMostOne
  <2>. QED  BY <1>1, <2>1, <2>2, OneTop DEF Deterministic
<1>. QED  BY <1>1, Invariance, PTL

--------------------------------------------------------------------------------
(* A run is a function of its start.  What Deterministic says of a state   *)
(* is put together here to a relation between a moment of a run and the    *)
(* next one: the steps of Simulator between two kept states, with the one  *)
(* choice that each of them has.                                           *)

\* A state of the simulator, as a value that can be kept.
Moment ==
    [workload |-> workload, scheduler |-> scheduler, policy |-> policy,
     state |-> state, start_time |-> start_time, finish_time |-> finish_time, node |-> node,
     heap |-> heap, next_seq |-> next_seq, free |-> free, running_jobs |-> running_jobs,
     last_checkin |-> last_checkin, ticks |-> ticks, pending |-> pending, running |-> running,
     now |-> now, sim_end |-> sim_end, backfilled |-> backfilled, pos |-> pos, pc |-> pc]

\* The moment a simulator is built.
StartOf(w, names) ==
    [workload |-> w, scheduler |-> names[2], policy |-> names[1],
     state |-> [j \in DOMAIN w |-> "Queued"], start_time |-> [j \in DOMAIN w |-> kNever],
     finish_time |-> [j \in DOMAIN w |-> kNever], node |-> [j \in DOMAIN w |-> 0],
     heap |-> Seeds(w), next_seq |-> Len(w), free |-> [n \in NodeId |-> Capacity],
     running_jobs |-> [n \in NodeId |-> 0],
     last_checkin |-> 0, ticks |-> [d \in Dim |-> 0], pending |-> <<>>, running |-> {},
     now |-> 0, sim_end |-> kNever, backfilled |-> 0, pos |-> 0, pc |-> "run"]

\* The event on top of the queue.
TopOf(s) == CHOOSE e \in s.heap : \A other \in s.heap \ {e} : EarliestFirst(other, e)

Fields == {"workload", "scheduler", "policy", "state", "start_time", "finish_time", "node",
           "heap", "next_seq", "free", "running_jobs", "last_checkin", "ticks", "pending",
           "running", "now", "sim_end", "backfilled", "pos", "pc"}

\* Between s and t these fields do not change.
Same(s, t, fields) == \A x \in fields : t[x] = s[x]

\* The loop of run() takes the event on top.
TopTaken(s, t) ==
    LET e       == TopOf(s)
        idle(d) == SumOver(NodeId, [n \in NodeId |-> s.free[n][d]])
    IN  /\ s.pc = "run"
        /\ s.heap # {}
        /\ t.heap = s.heap \ {e}
        /\ t.now = e.time
        /\ t.last_checkin = e.time
        /\ t.ticks = [d \in Dim |->
               s.ticks[d] + (e.time - s.last_checkin) * (TotalCapacity[d] - idle(d))]
        /\ Same(s, t, {"workload", "scheduler", "policy", "start_time", "node", "next_seq",
                       "backfilled", "pos"})

Arrived(s, t) ==
    /\ TopTaken(s, t)
    /\ TopOf(s).payload.type = "JobArrival"
    /\ t.pending = Append(s.pending, TopOf(s).payload.job)
    /\ t.pc = "drain"
    /\ Same(s, t, {"state", "finish_time", "free", "running_jobs", "running", "sim_end"})

Finished(s, t) ==
    LET j == TopOf(s).payload.job
        n == s.node[j]
    IN  /\ TopTaken(s, t)
        /\ TopOf(s).payload.type = "JobFinish"
        /\ t.free = [s.free EXCEPT ![n] = Plus(@, s.workload[j].request)]
        /\ t.running_jobs = [s.running_jobs EXCEPT ![n] = @ - 1]
        /\ t.finish_time = [s.finish_time EXCEPT ![j] = t.now]
        /\ t.state = [s.state EXCEPT ![j] = "Done"]
        /\ t.running = s.running \ {j}
        /\ t.pc = "drain"
        /\ Same(s, t, {"pending", "sim_end"})

Closed(s, t) ==
    /\ TopTaken(s, t)
    /\ TopOf(s).payload.type = "SimEnd"
    /\ t.sim_end = t.now
    /\ t.pc = "returned"
    /\ Same(s, t, {"state", "finish_time", "free", "running_jobs", "running", "pending"})

LeftLoop(s, t) ==
    /\ s.pc = "run"
    /\ s.heap = {}
    /\ t.pc = "returned"
    /\ Same(s, t, Fields \ {"pc"})

\* Where the scheduler puts job j.
PlaceOf(s, j) == Place(s.scheduler, s.workload[j].request, s.free, s.pos)

\* try_place has found a node for job j.
Placed(s, t, j) ==
    LET n == CHOOSE n \in PlaceOf(s, j) : TRUE
    IN  /\ t.pos = CursorAfter(s.scheduler, PlaceOf(s, j), s.pos)
        /\ t.free = [s.free EXCEPT ![n] = Minus(@, s.workload[j].request)]
        /\ t.running_jobs = [s.running_jobs EXCEPT ![n] = @ + 1]
        /\ t.state = [s.state EXCEPT ![j] = "Running"]
        /\ t.start_time = [s.start_time EXCEPT ![j] = s.now]
        /\ t.node = [s.node EXCEPT ![j] = n]
        /\ t.running = s.running \cup {j}
        /\ t.heap = s.heap \cup {[time |-> s.now + s.workload[j].duration, seq |-> s.next_seq,
                                  payload |-> JobFinish(j, n)]}
        /\ t.next_seq = s.next_seq + 1
        /\ Same(s, t, {"workload", "scheduler", "policy", "finish_time", "last_checkin",
                       "ticks", "now", "sim_end"})

HeadStarted(s, t) ==
    /\ s.pc = "drain"
    /\ s.pending # <<>>
    /\ PlaceOf(s, Head(s.pending)) # {}
    /\ Placed(s, t, Head(s.pending))
    /\ t.pending = Tail(s.pending)
    /\ Same(s, t, {"backfilled", "pc"})

HeadBlocked(s, t) ==
    /\ s.pc = "drain"
    /\ s.pending # <<>>
    /\ PlaceOf(s, Head(s.pending)) = {}
    /\ t.pc = "backfill"
    /\ Same(s, t, Fields \ {"pc"})

\* What the queue policy picks.
PickOf(s) ==
    BackfillPick(
        s.policy,
        [x \in 1 .. Len(s.pending) |->
            [id |-> s.pending[x],
             request |-> s.workload[s.pending[x]].request,
             estimated_duration |-> s.workload[s.pending[x]].estimated_duration]],
        s.free,
        {[id |-> j, node |-> s.node[j], held |-> s.workload[j].request,
          estimated_finish |-> s.start_time[j] + s.workload[j].estimated_duration] :
            j \in s.running},
        s.now)

Backfilled(s, t) ==
    LET j == CHOOSE j \in PickOf(s) : TRUE
        x == CHOOSE x \in DOMAIN s.pending : s.pending[x] = j
    IN  /\ s.pc = "backfill"
        /\ PickOf(s) # {}
        /\ Placed(s, t, j)
        /\ t.pending = SubSeq(s.pending, 1, x - 1) \o SubSeq(s.pending, x + 1, Len(s.pending))
        /\ t.backfilled = s.backfilled + 1
        /\ t.pc = s.pc

\* drain() returns, and an empty queue is given its SimEnd.
Drained(s, t) ==
    /\ \/ s.pc = "drain" /\ s.pending = <<>>
       \/ s.pc = "backfill" /\ PickOf(s) = {}
    /\ t.heap = IF s.heap = {}
                THEN {[time |-> s.now, seq |-> s.next_seq, payload |-> SimEnd]}
                ELSE s.heap
    /\ t.next_seq = IF s.heap = {} THEN s.next_seq + 1 ELSE s.next_seq
    /\ t.pc = "run"
    /\ Same(s, t, Fields \ {"heap", "next_seq", "pc"})

\* A step of a run takes it from s to t.
Follows(s, t) ==
    /\ t = [x \in Fields |-> t[x]]
    /\ \/ Arrived(s, t) \/ Finished(s, t) \/ Closed(s, t) \/ LeftLoop(s, t)
       \/ HeadStarted(s, t) \/ HeadBlocked(s, t) \/ Backfilled(s, t) \/ Drained(s, t)

LEMMA MomentFields ==
    /\ Moment = [x \in Fields |-> Moment[x]]
    /\ Moment.workload = workload /\ Moment.scheduler = scheduler /\ Moment.policy = policy
    /\ Moment.state = state /\ Moment.start_time = start_time
    /\ Moment.finish_time = finish_time /\ Moment.node = node
    /\ Moment.heap = heap /\ Moment.next_seq = next_seq
    /\ Moment.free = free /\ Moment.running_jobs = running_jobs
    /\ Moment.last_checkin = last_checkin /\ Moment.ticks = ticks
    /\ Moment.pending = pending /\ Moment.running = running /\ Moment.now = now
    /\ Moment.sim_end = sim_end /\ Moment.backfilled = backfilled
    /\ Moment.pos = pos /\ Moment.pc = pc
  BY DEF Moment, Fields

LEMMA MomentFieldsPrimed ==
    /\ Moment' = [x \in Fields |-> Moment'[x]]
    /\ Moment'.workload = workload' /\ Moment'.scheduler = scheduler' /\ Moment'.policy = policy'
    /\ Moment'.state = state' /\ Moment'.start_time = start_time'
    /\ Moment'.finish_time = finish_time' /\ Moment'.node = node'
    /\ Moment'.heap = heap' /\ Moment'.next_seq = next_seq'
    /\ Moment'.free = free' /\ Moment'.running_jobs = running_jobs'
    /\ Moment'.last_checkin = last_checkin' /\ Moment'.ticks = ticks'
    /\ Moment'.pending = pending' /\ Moment'.running = running' /\ Moment'.now = now'
    /\ Moment'.sim_end = sim_end' /\ Moment'.backfilled = backfilled'
    /\ Moment'.pos = pos' /\ Moment'.pc = pc'
  BY DEF Moment, Fields

LEMMA TopTakenOnce ==
    ASSUME NEW s, NEW t, NEW u, TopTaken(s, t), TopTaken(s, u)
    PROVE  \A x \in {"heap", "now", "last_checkin", "ticks", "workload", "scheduler", "policy",
                     "start_time", "node", "next_seq", "backfilled", "pos"} : t[x] = u[x]
<1>1. t.heap = u.heap /\ t.now = u.now /\ t.last_checkin = u.last_checkin
  BY DEF TopTaken
<1>2. t.ticks = u.ticks
  BY Zenon DEF TopTaken
<1>3. \A x \in {"workload", "scheduler", "policy", "start_time", "node", "next_seq",
                "backfilled", "pos"} : t[x] = u[x]
  BY DEF TopTaken, Same
<1>. QED  BY <1>1, <1>2, <1>3

LEMMA PlacedOnce ==
    ASSUME NEW s, NEW t, NEW u, NEW j, Placed(s, t, j), Placed(s, u, j)
    PROVE  \A x \in {"pos", "free", "running_jobs", "state", "start_time", "node", "running",
                     "heap", "next_seq", "workload", "scheduler", "policy", "finish_time",
                     "last_checkin", "ticks", "now", "sim_end"} : t[x] = u[x]
<1>1. /\ t.pos = u.pos /\ t.free = u.free /\ t.running_jobs = u.running_jobs
      /\ t.state = u.state /\ t.start_time = u.start_time /\ t.node = u.node
      /\ t.running = u.running /\ t.heap = u.heap /\ t.next_seq = u.next_seq
  BY Zenon DEF Placed
<1>2. \A x \in {"workload", "scheduler", "policy", "finish_time", "last_checkin", "ticks",
                "now", "sim_end"} : t[x] = u[x]
  BY DEF Placed, Same
<1>. QED  BY <1>1, <1>2

\* No moment has two that follow.
LEMMA FollowsOnce ==
    ASSUME NEW s, NEW t, NEW u, Follows(s, t), Follows(s, u)
    PROVE  t = u
<1>1. t = [x \in Fields |-> t[x]] /\ u = [x \in Fields |-> u[x]]
  BY DEF Follows
<1>2. CASE Arrived(s, t)
  <2>1. Arrived(s, u)
    BY <1>2 DEF Follows, Arrived, Finished, Closed, LeftLoop, HeadStarted, HeadBlocked,
                Backfilled, Drained, TopTaken
  <2>2. \A x \in Fields : t[x] = u[x]
    BY <1>2, <2>1, TopTakenOnce DEF Arrived, Same, Fields
  <2>. QED  BY <1>1, <2>2
<1>3. CASE Finished(s, t)
  <2>1. Finished(s, u)
    BY <1>3 DEF Follows, Arrived, Finished, Closed, LeftLoop, HeadStarted, HeadBlocked,
                Backfilled, Drained, TopTaken
  <2>2. \A x \in Fields : t[x] = u[x]
    <3>0. TopTaken(s, t) /\ TopTaken(s, u)
      BY <1>3, <2>1 DEF Finished
    <3>1. \A x \in {"heap", "now", "last_checkin", "ticks", "workload", "scheduler", "policy",
                     "start_time", "node", "next_seq", "backfilled", "pos"} : t[x] = u[x]
      BY <3>0, TopTakenOnce
    <3>2. /\ t.free = u.free /\ t.running_jobs = u.running_jobs
          /\ t.finish_time = u.finish_time /\ t.state = u.state /\ t.running = u.running
          /\ t.pc = u.pc
      BY <1>3, <2>1, <3>1 DEF Finished
    <3>3. \A x \in {"pending", "sim_end"} : t[x] = u[x]
      BY <1>3, <2>1 DEF Finished, Same
    <3>. QED  BY <3>1, <3>2, <3>3 DEF Fields
  <2>. QED  BY <1>1, <2>2
<1>4. CASE Closed(s, t)
  <2>1. Closed(s, u)
    BY <1>4 DEF Follows, Arrived, Finished, Closed, LeftLoop, HeadStarted, HeadBlocked,
                Backfilled, Drained, TopTaken
  <2>2. \A x \in Fields : t[x] = u[x]
    BY <1>4, <2>1, TopTakenOnce DEF Closed, Same, Fields
  <2>. QED  BY <1>1, <2>2
<1>5. CASE LeftLoop(s, t)
  <2>1. LeftLoop(s, u)
    BY <1>5 DEF Follows, Arrived, Finished, Closed, LeftLoop, HeadStarted, HeadBlocked,
                Backfilled, Drained, TopTaken
  <2>2. \A x \in Fields : t[x] = u[x]
    BY <1>5, <2>1 DEF LeftLoop, Same, Fields
  <2>. QED  BY <1>1, <2>2
<1>6. CASE HeadStarted(s, t)
  <2>1. HeadStarted(s, u)
    BY <1>6 DEF Follows, Arrived, Finished, Closed, LeftLoop, HeadStarted, HeadBlocked,
                Backfilled, Drained, TopTaken
  <2>2. \A x \in Fields : t[x] = u[x]
    BY <1>6, <2>1, PlacedOnce DEF HeadStarted, Same, Fields
  <2>. QED  BY <1>1, <2>2
<1>7. CASE HeadBlocked(s, t)
  <2>1. HeadBlocked(s, u)
    BY <1>7 DEF Follows, Arrived, Finished, Closed, LeftLoop, HeadStarted, HeadBlocked,
                Backfilled, Drained, TopTaken
  <2>2. \A x \in Fields : t[x] = u[x]
    BY <1>7, <2>1 DEF HeadBlocked, Same, Fields
  <2>. QED  BY <1>1, <2>2
<1>8. CASE Backfilled(s, t)
  <2>1. Backfilled(s, u)
    BY <1>8 DEF Follows, Arrived, Finished, Closed, LeftLoop, HeadStarted, HeadBlocked,
                Backfilled, Drained, TopTaken
  <2>2. \A x \in Fields : t[x] = u[x]
    <3>. DEFINE j == CHOOSE j \in PickOf(s) : TRUE
    <3>0. Placed(s, t, j) /\ Placed(s, u, j)
      BY <1>8, <2>1 DEF Backfilled
    <3>. HIDE DEF j
    <3>1. \A x \in {"pos", "free", "running_jobs", "state", "start_time", "node", "running",
                     "heap", "next_seq", "workload", "scheduler", "policy", "finish_time",
                     "last_checkin", "ticks", "now", "sim_end"} : t[x] = u[x]
      BY <3>0, PlacedOnce
    <3>2. t.pending = u.pending /\ t.backfilled = u.backfilled /\ t.pc = u.pc
      BY <1>8, <2>1 DEF Backfilled
    <3>. QED  BY <3>1, <3>2 DEF Fields
  <2>. QED  BY <1>1, <2>2
<1>9. CASE Drained(s, t)
  <2>1. Drained(s, u)
    BY <1>9 DEF Follows, Arrived, Finished, Closed, LeftLoop, HeadStarted, HeadBlocked,
                Backfilled, Drained, TopTaken
  <2>2. \A x \in Fields : t[x] = u[x]
    BY <1>9, <2>1 DEF Drained, Same, Fields
  <2>. QED  BY <1>1, <2>2
<1>. QED  BY <1>2, <1>3, <1>4, <1>5, <1>6, <1>7, <1>8, <1>9 DEF Follows

--------------------------------------------------------------------------------
(* The steps of Simulator *)

LEMMA TakeIsTopTaken ==
    ASSUME IInv, NEW e \in heap, Take(e),
           UNCHANGED <<workload, scheduler, policy, start_time, node, backfilled, pos>>
    PROVE  TopOf(Moment) = e /\ TopTaken(Moment, Moment')
<1>1. \A f \in heap : f.time \in Nat /\ f.seq \in Nat
  BY DEF IInv, TypeOK
<1>2. TopOf(Moment) = e
  <2>1. \A other \in heap \ {e} : EarliestFirst(other, e)
    BY DEF Take, Pop, Top
  <2>2. ASSUME NEW f \in heap, \A other \in heap \ {f} : EarliestFirst(other, f)
        PROVE  f = e
    BY <1>1, <2>1, <2>2 DEF EarliestFirst
  <2>3. TopOf(Moment) = CHOOSE f \in heap : \A other \in heap \ {f} : EarliestFirst(other, f)
    BY MomentFields DEF TopOf
  <2>. QED  BY <2>1, <2>2, <2>3
<1>3. /\ heap' = heap \ {e} /\ now' = e.time /\ last_checkin' = e.time /\ pc = "run"
      /\ ticks' = [d \in Dim |-> ticks[d] + (e.time - last_checkin) * TotalUtilized[d]]
      /\ next_seq' = next_seq
  BY DEF Take, Pop, Advance
<1>4. ticks' = [d \in Dim |->
                  ticks[d] + (e.time - last_checkin)
                    * (TotalCapacity[d] - SumOver(NodeId, [n \in NodeId |-> free[n][d]]))]
  <2>1. \A d \in Dim :
          TotalUtilized[d] = TotalCapacity[d] - SumOver(NodeId, [n \in NodeId |-> free[n][d]])
    BY DEF TotalUtilized, TotalFree, Minus
  <2>. HIDE DEF TotalUtilized, TotalCapacity
  <2>. QED  BY <1>3, <2>1
<1>5. Same(Moment, Moment', {"workload", "scheduler", "policy", "start_time", "node",
                             "next_seq", "backfilled", "pos"})
  BY <1>3, MomentFields, MomentFieldsPrimed DEF Same
<1>6. /\ Moment.pc = "run" /\ Moment.heap # {}
      /\ Moment'.heap = Moment.heap \ {e}
      /\ Moment'.now = e.time /\ Moment'.last_checkin = e.time
  BY <1>3, MomentFields, MomentFieldsPrimed
<1>7. Moment'.ticks =
        [d \in Dim |->
           Moment.ticks[d] + (e.time - Moment.last_checkin)
             * (TotalCapacity[d] - SumOver(NodeId, [n \in NodeId |-> Moment.free[n][d]]))]
  <2>1. /\ Moment.ticks = ticks /\ Moment.last_checkin = last_checkin /\ Moment.free = free
        /\ Moment'.ticks = ticks'
    BY MomentFields, MomentFieldsPrimed
  <2>. QED  BY <1>4, <2>1, Zenon
<1>8. TopTaken(Moment, Moment')
  BY <1>2, <1>5, <1>6, <1>7, Zenon DEF TopTaken
<1>. QED  BY <1>2, <1>8

LEMMA ArrivalFollows ==
    ASSUME IInv, OnArrival
    PROVE  Follows(Moment, Moment')
<1>1. PICK e \in heap : /\ e.payload.type = "JobArrival"
                        /\ Take(e)
                        /\ pending' = Append(pending, e.payload.job)
                        /\ pc' = "drain"
                        /\ UNCHANGED <<config, jobs, machines, running, sim_end, backfilled, pos>>
  BY DEF OnArrival
<1>2. UNCHANGED <<workload, scheduler, policy, state, start_time, finish_time, node, free,
                  running_jobs, running, sim_end, backfilled, pos>>
  BY <1>1 DEF config, jobs, machines
<1>3. TopOf(Moment) = e /\ TopTaken(Moment, Moment')
  BY <1>1, <1>2, TakeIsTopTaken
<1>4. Same(Moment, Moment', {"state", "finish_time", "free", "running_jobs", "running",
                             "sim_end"})
  BY <1>2, MomentFields, MomentFieldsPrimed DEF Same
<1>5. Arrived(Moment, Moment')
  BY <1>1, <1>3, <1>4, MomentFields, MomentFieldsPrimed DEF Arrived
<1>. QED  BY <1>5, MomentFieldsPrimed DEF Follows

LEMMA FinishFollows ==
    ASSUME IInv, OnFinish
    PROVE  Follows(Moment, Moment')
<1>1. PICK e \in heap : /\ e.payload.type = "JobFinish"
                        /\ Take(e)
                        /\ Release(node[e.payload.job], Request(e.payload.job))
                        /\ finish_time' = [finish_time EXCEPT ![e.payload.job] = e.time]
                        /\ state' = [state EXCEPT ![e.payload.job] = "Done"]
                        /\ running' = running \ {e.payload.job}
                        /\ pc' = "drain"
                        /\ UNCHANGED <<config, start_time, node, pending, sim_end, backfilled, pos>>
  BY DEF OnFinish
<1>2. UNCHANGED <<workload, scheduler, policy, start_time, node, pending, sim_end, backfilled,
                  pos>>
  BY <1>1 DEF config
<1>3. TopOf(Moment) = e /\ TopTaken(Moment, Moment')
  BY <1>1, <1>2, TakeIsTopTaken
<1>4. Same(Moment, Moment', {"pending", "sim_end"})
  BY <1>2, MomentFields, MomentFieldsPrimed DEF Same
<1>5. now' = e.time
  BY <1>1 DEF Take
<1>6. Finished(Moment, Moment')
  BY <1>1, <1>3, <1>4, <1>5, MomentFields, MomentFieldsPrimed DEF Finished, Release, Request
<1>. QED  BY <1>6, MomentFieldsPrimed DEF Follows

LEMMA EndFollows ==
    ASSUME IInv, OnSimEnd
    PROVE  Follows(Moment, Moment')
<1>1. PICK e \in heap : /\ e.payload.type = "SimEnd"
                        /\ Take(e)
                        /\ sim_end' = e.time
                        /\ pc' = "returned"
                        /\ UNCHANGED <<config, jobs, machines, running, pending, backfilled, pos>>
  BY DEF OnSimEnd
<1>2. UNCHANGED <<workload, scheduler, policy, state, start_time, finish_time, node, free,
                  running_jobs, running, pending, backfilled, pos>>
  BY <1>1 DEF config, jobs, machines
<1>3. TopOf(Moment) = e /\ TopTaken(Moment, Moment')
  BY <1>1, <1>2, TakeIsTopTaken
<1>4. Same(Moment, Moment', {"state", "finish_time", "free", "running_jobs", "running",
                             "pending"})
  BY <1>2, MomentFields, MomentFieldsPrimed DEF Same
<1>5. now' = e.time
  BY <1>1 DEF Take
<1>6. Closed(Moment, Moment')
  BY <1>1, <1>3, <1>4, <1>5, MomentFields, MomentFieldsPrimed DEF Closed
<1>. QED  BY <1>6, MomentFieldsPrimed DEF Follows

LEMMA LoopEndsFollows ==
    ASSUME LoopEnds
    PROVE  Follows(Moment, Moment')
<1>1. Same(Moment, Moment', Fields \ {"pc"})
  BY MomentFields, MomentFieldsPrimed
     DEF LoopEnds, config, jobs, queue, machines, integral, Same, Fields
<1>2. LeftLoop(Moment, Moment')
  BY <1>1, MomentFields, MomentFieldsPrimed DEF LoopEnds, LeftLoop
<1>. QED  BY <1>2, MomentFieldsPrimed DEF Follows

\* The scheduler and the queue policy are asked as they are in Simulator.
LEMMA SameQuestions ==
    /\ \A j : PlaceOf(Moment, j) = Placement(j)
    /\ PickOf(Moment) = Pick
<1>1. \A j : PlaceOf(Moment, j) = Placement(j)
  BY MomentFields DEF PlaceOf, Placement, Request
<1>2. PickOf(Moment) = Pick
  BY MomentFields DEF PickOf, Pick, BacklogView, RunningView, Request
<1>. QED  BY <1>1, <1>2

\* try_place, when the scheduler finds a node.
LEMMA TryPlacePlaces ==
    ASSUME IInv, NEW j, Placement(j) # {}, TryPlace(j),
           UNCHANGED <<config, integral, now, sim_end>>
    PROVE  Placed(Moment, Moment', j)
<1>1. PICK n \in Placement(j) : StartOn(j, n)
  BY DEF TryPlace
<1>2. n = CHOOSE m \in Placement(j) : TRUE
  <2>1. scheduler \in SchedulerNames /\ pos \in Nat
    BY SimulatorAssumption DEF IInv, TypeOK
  <2>2. \A m \in Placement(j) : m = n
    BY <1>1, <2>1, PlacementUnique DEF Placement
  <2>. QED  BY <1>1, <2>2
<1>3. n = CHOOSE m \in PlaceOf(Moment, j) : TRUE
  BY <1>2, SameQuestions
<1>4. /\ free' = [free EXCEPT ![n] = Minus(@, Request(j))]
      /\ running_jobs' = [running_jobs EXCEPT ![n] = @ + 1]
      /\ state' = [state EXCEPT ![j] = "Running"]
      /\ start_time' = [start_time EXCEPT ![j] = now]
      /\ node' = [node EXCEPT ![j] = n]
      /\ running' = running \cup {j}
      /\ heap' = heap \cup {[time |-> now + workload[j].duration, seq |-> next_seq,
                             payload |-> JobFinish(j, n)]}
      /\ next_seq' = next_seq + 1
      /\ finish_time' = finish_time
  BY <1>1 DEF StartOn, Allocate, Schedule
<1>5. pos' = CursorAfter(scheduler, Placement(j), pos)
  BY DEF TryPlace
<1>6. Same(Moment, Moment', {"workload", "scheduler", "policy", "finish_time", "last_checkin",
                             "ticks", "now", "sim_end"})
  BY <1>4, MomentFields, MomentFieldsPrimed DEF Same, config, integral
<1>. QED  BY <1>3, <1>4, <1>5, <1>6, SameQuestions, MomentFields, MomentFieldsPrimed
          DEF Placed, Request

LEMMA StartHeadFollows ==
    ASSUME IInv, StartHead
    PROVE  Follows(Moment, Moment')
<1>1. Placed(Moment, Moment', Head(pending))
  BY TryPlacePlaces DEF StartHead
<1>2. Same(Moment, Moment', {"backfilled", "pc"})
  BY MomentFields, MomentFieldsPrimed DEF StartHead, Same
<1>3. HeadStarted(Moment, Moment')
  BY <1>1, <1>2, SameQuestions, MomentFields, MomentFieldsPrimed DEF StartHead, HeadStarted
<1>. QED  BY <1>3, MomentFieldsPrimed DEF Follows

\* A scan that finds nothing leaves the cursor, and so everything else.
LEMMA BlockHeadFollows ==
    ASSUME BlockHead
    PROVE  Follows(Moment, Moment')
<1>1. UNCHANGED <<config, machines, jobs, running, queue, integral, pending, now, sim_end,
                  backfilled, pos>>
  BY DEF BlockHead, TryPlace, CursorAfter
<1>2. Same(Moment, Moment', Fields \ {"pc"})
  BY <1>1, MomentFields, MomentFieldsPrimed
     DEF config, jobs, queue, machines, integral, Same, Fields
<1>3. HeadBlocked(Moment, Moment')
  BY <1>2, SameQuestions, MomentFields, MomentFieldsPrimed DEF BlockHead, HeadBlocked
<1>. QED  BY <1>3, MomentFieldsPrimed DEF Follows

LEMMA BackfillFollows ==
    ASSUME IInv, BackfillJob
    PROVE  Follows(Moment, Moment')
<1>1. PICK j \in Pick, p \in DOMAIN pending :
        /\ TryPlace(j)
        /\ pending[p] = j
        /\ pending' = SubSeq(pending, 1, p - 1) \o SubSeq(pending, p + 1, Len(pending))
  BY BackfillTakesOut
<1>2. pending[p] = j
  BY <1>1
<1>3. j = CHOOSE m \in PickOf(Moment) : TRUE
  <2>1. policy \in QueuePolicyNames /\ Len(BacklogView) \in Nat
    BY SimulatorAssumption DEF IInv, TypeOK, BacklogView
  <2>2. \A m \in Pick : m = j
    BY <1>1, <2>1, BackfillUnique DEF Pick
  <2>. QED  BY <1>1, <2>2, SameQuestions
<1>4. p = CHOOSE x \in DOMAIN pending : pending[x] = j
  BY <1>2 DEF IInv, BacklogInv
<1>5. Placement(j) # {}
  BY <1>1, PickOfBacklog, PlacementOfJob
<1>6. Placed(Moment, Moment', j)
  BY <1>1, <1>5, TryPlacePlaces DEF BackfillJob
<1>7. Backfilled(Moment, Moment')
  BY <1>1, <1>2, <1>3, <1>4, <1>6, SameQuestions, MomentFields, MomentFieldsPrimed
     DEF BackfillJob, Backfilled
<1>. QED  BY <1>7, MomentFieldsPrimed DEF Follows

LEMMA DrainReturnsFollows ==
    ASSUME DrainReturns
    PROVE  Follows(Moment, Moment')
<1>1. UNCHANGED <<config, jobs, machines, integral, pending, running, now, sim_end, backfilled,
                  pos>>
  BY DEF DrainReturns
<1>2. /\ heap' = IF heap = {} THEN {[time |-> now, seq |-> next_seq, payload |-> SimEnd]}
                 ELSE heap
      /\ next_seq' = IF heap = {} THEN next_seq + 1 ELSE next_seq
  BY DEF DrainReturns, Schedule, queue
<1>3. Same(Moment, Moment', Fields \ {"heap", "next_seq", "pc"})
  BY <1>1, MomentFields, MomentFieldsPrimed DEF config, jobs, machines, integral, Same, Fields
<1>4. Drained(Moment, Moment')
  BY <1>2, <1>3, SameQuestions, MomentFields, MomentFieldsPrimed DEF DrainReturns, Drained
<1>. QED  BY <1>4, MomentFieldsPrimed DEF Follows

\* Every step of a run that is not over goes to the one moment that follows.
LEMMA StepFollows ==
    ASSUME IInv, Next, pc # "returned"
    PROVE  Follows(Moment, Moment')
  BY ArrivalFollows, FinishFollows, EndFollows, LoopEndsFollows, StartHeadFollows,
     BlockHeadFollows, BackfillFollows, DrainReturnsFollows DEF Next, Returned

--------------------------------------------------------------------------------
(* Runs *)

\* A run from s gets to t: there is a list of moments, each of which follows
\* the one before.
GetsTo(s, t) ==
    \E m \in Nat : \E f :
        /\ f[0] = s
        /\ f[m] = t
        /\ \A x \in 1 .. m : f[x - 1].pc # "returned" /\ Follows(f[x - 1], f[x])

LEMMA GetsToStart ==
    ASSUME NEW s
    PROVE  GetsTo(s, s)
<1>. DEFINE f == [x \in {0} |-> s]
<1>1. f[0] = s /\ \A x \in 1 .. 0 : f[x - 1].pc # "returned" /\ Follows(f[x - 1], f[x])
  OBVIOUS
<1>. HIDE DEF f
<1>. QED  BY <1>1 DEF GetsTo

LEMMA GetsFurther ==
    ASSUME NEW s, NEW t, NEW u, GetsTo(s, t), t.pc # "returned", Follows(t, u)
    PROVE  GetsTo(s, u)
<1>1. PICK m \in Nat : \E f :
        /\ f[0] = s /\ f[m] = t
        /\ \A x \in 1 .. m : f[x - 1].pc # "returned" /\ Follows(f[x - 1], f[x])
  BY DEF GetsTo
<1>2. PICK f :
        /\ f[0] = s /\ f[m] = t
        /\ \A x \in 1 .. m : f[x - 1].pc # "returned" /\ Follows(f[x - 1], f[x])
  BY <1>1
<1>. DEFINE g == [x \in 0 .. m + 1 |-> IF x = m + 1 THEN u ELSE f[x]]
<1>3. g[0] = s /\ g[m + 1] = u /\ g[m] = t
  BY <1>2
<1>4. ASSUME NEW x \in 1 .. m + 1
      PROVE  g[x - 1].pc # "returned" /\ Follows(g[x - 1], g[x])
  <2>1. CASE x = m + 1
    <3>1. x - 1 = m
      BY <1>2, <2>1
    <3>. HIDE DEF g
    <3>. QED  BY <1>3, <2>1, <3>1
  <2>2. CASE x # m + 1
    <3>1. x \in 1 .. m /\ g[x] = f[x] /\ g[x - 1] = f[x - 1]
      BY <1>2, <2>2
    <3>. HIDE DEF g
    <3>. QED  BY <1>2, <3>1
  <2>. QED  BY <2>1, <2>2
<1>5. m + 1 \in Nat
  BY <1>2
<1>. HIDE DEF g
<1>. QED  BY <1>3, <1>4, <1>5 DEF GetsTo

\* Two runs from one start agree for as long as both go on, and so end alike.
LEMMA OneEnd ==
    ASSUME NEW s, NEW t, NEW u, GetsTo(s, t), GetsTo(s, u),
           t.pc = "returned", u.pc = "returned"
    PROVE  t = u
<1>1. PICK m \in Nat : \E f :
        /\ f[0] = s /\ f[m] = t
        /\ \A x \in 1 .. m : f[x - 1].pc # "returned" /\ Follows(f[x - 1], f[x])
  BY DEF GetsTo
<1>2. PICK f :
        /\ f[0] = s /\ f[m] = t
        /\ \A x \in 1 .. m : f[x - 1].pc # "returned" /\ Follows(f[x - 1], f[x])
  BY <1>1
<1>3. PICK n \in Nat : \E g :
        /\ g[0] = s /\ g[n] = u
        /\ \A x \in 1 .. n : g[x - 1].pc # "returned" /\ Follows(g[x - 1], g[x])
  BY DEF GetsTo
<1>4. PICK g :
        /\ g[0] = s /\ g[n] = u
        /\ \A x \in 1 .. n : g[x - 1].pc # "returned" /\ Follows(g[x - 1], g[x])
  BY <1>3
<1>. DEFINE Apart == {x \in Nat : x <= m /\ x <= n /\ f[x] # g[x]}
<1>5. Apart = {}
  <2>1. SUFFICES ASSUME Apart # {} PROVE FALSE
    OBVIOUS
  <2>2. PICK x \in Apart : \A y \in Apart : x <= y
    <3>1. Apart \subseteq Nat
      OBVIOUS
    <3>. HIDE DEF Apart
    <3>. QED  BY <2>1, <3>1, LeastNat
  <2>3. x \in 1 .. m /\ x \in 1 .. n /\ x - 1 \in Nat /\ x - 1 < x /\ f[x] # g[x]
    BY <1>2, <1>4, <2>2
  <2>4. f[x - 1] = g[x - 1]
    BY <1>2, <1>4, <2>2, <2>3
  <2>5. Follows(f[x - 1], f[x]) /\ Follows(f[x - 1], g[x])
    BY <1>2, <1>4, <2>3, <2>4
  <2>. QED  BY <2>3, <2>5, FollowsOnce
<1>6. ~ (m < n)
  <2>1. SUFFICES ASSUME m < n PROVE FALSE
    OBVIOUS
  <2>2. f[m] = g[m] /\ m + 1 \in 1 .. n /\ (m + 1) - 1 = m
    BY <1>2, <1>4, <1>5, <2>1
  <2>. QED  BY <1>2, <1>4, <2>2
<1>7. ~ (n < m)
  <2>1. SUFFICES ASSUME n < m PROVE FALSE
    OBVIOUS
  <2>2. f[n] = g[n] /\ n + 1 \in 1 .. m /\ (n + 1) - 1 = n
    BY <1>2, <1>4, <1>5, <2>1
  <2>. QED  BY <1>2, <1>4, <2>2
<1>8. m = n
  BY <1>2, <1>4, <1>6, <1>7
<1>9. f[m] = g[m]
  BY <1>2, <1>4, <1>5, <1>8
<1>. QED  BY <1>2, <1>4, <1>8, <1>9

\* A simulator is built at the start of a run.
LEMMA InitIsStart ==
    ASSUME Init
    PROVE  Moment = StartOf(workload, <<policy, scheduler>>)
  BY DEF Init, Moment, StartOf, ClusterInit, UtilizationInit, JobId

\* A run is at the moment its start gets to.
LEMMA RunsGetOn == Spec => [](IInv /\ GetsTo(StartOf(workload, <<policy, scheduler>>), Moment))
<1>1. Init => GetsTo(StartOf(workload, <<policy, scheduler>>), Moment)
  BY InitIsStart, GetsToStart
<1>2. ASSUME IInv, GetsTo(StartOf(workload, <<policy, scheduler>>), Moment), [Next]_vars
      PROVE  GetsTo(StartOf(workload, <<policy, scheduler>>), Moment)'
  <2>1. CASE Next /\ pc # "returned"
    <3>1. Follows(Moment, Moment') /\ Moment.pc # "returned"
      BY <1>2, <2>1, StepFollows, MomentFields
    <3>2. UNCHANGED config
      BY <2>1 DEF Next, OnArrival, OnFinish, OnSimEnd, LoopEnds, StartHead, BlockHead,
                  BackfillJob, DrainReturns, Returned
    <3>. QED  BY <1>2, <3>1, <3>2, GetsFurther DEF config
  <2>2. CASE UNCHANGED vars
    <3>1. Moment' = Moment /\ UNCHANGED config
      BY <2>2 DEF Moment, vars, config, jobs, queue, machines, integral
    <3>. QED  BY <1>2, <3>1 DEF config
  <2>3. CASE Next /\ pc = "returned"
    <3>1. IInv /\ heap = {}
      BY <1>2, <2>3 DEF IInv, ControlInv
    <3>2. UNCHANGED vars
      BY <2>3 DEF Next, OnArrival, OnFinish, OnSimEnd, LoopEnds, StartHead, BlockHead,
                  BackfillJob, DrainReturns, Returned, Take
    <3>. QED  BY <2>2, <3>2
  <2>. QED  BY <1>2, <2>1, <2>2, <2>3
<1>. QED  BY <1>1, <1>2, Invariance, PTL DEF Spec

\* Two runs of one workload under one pair of policies end alike, in
\* every field of the simulator (README, determinism): a moment that a
\* run from there may end at is the one this run has ended at.
THEOREM RunsRepeat ==
    Spec => [](pc = "returned" =>
                 \A s : /\ GetsTo(StartOf(workload, <<policy, scheduler>>), s)
                        /\ s.pc = "returned"
                        => s = Moment)
<1>1. GetsTo(StartOf(workload, <<policy, scheduler>>), Moment)
        => (pc = "returned" =>
              \A s : /\ GetsTo(StartOf(workload, <<policy, scheduler>>), s)
                     /\ s.pc = "returned"
                     => s = Moment)
  BY OneEnd, MomentFields
<1>. QED  BY <1>1, RunsGetOn, PTL

--------------------------------------------------------------------------------
(* The way to the end of a run *)

EventsOf(type) == {e \in heap : e.payload.type = type}

\* A bound on the steps to the end of the run.  Seven are for a job to
\* arrive, to block the backlog as its head, to be started, to finish, to let
\* drain() look at a new head after that, and to let it return twice.
StepsLeft ==
    7 * Cardinality(EventsOf("JobArrival")) + 4 * Len(pending)
      + 3 * Cardinality(EventsOf("JobFinish"))
      + [run |-> 1, drain |-> 3, backfill |-> 2, returned |-> 0][pc]

\* No step goes round in circles: neither loop of drain() looks again at a
\* job it has started, a blocked head is not tried again before the next
\* event, and what an event schedules is paid for by what it takes off the
\* queue.  So a run of n jobs returns after at most 7 * n + 1 steps.
EndDrawsNearer == [][StepsLeft' < StepsLeft]_vars

\* The queue holds finitely many events: numbers are handed out in order.
LEMMA HeapIsFinite ==
    ASSUME IInv
    PROVE  /\ IsFiniteSet(heap)
           /\ \A t : IsFiniteSet(EventsOf(t)) /\ Cardinality(EventsOf(t)) \in Nat
<1>1. next_seq \in Nat /\ \A e \in heap : e.seq \in 0 .. next_seq - 1
  BY DEF IInv, TypeOK, EventsDiffer
<1>. DEFINE number == [e \in heap |-> e.seq]
<1>2. \A e \in heap : number[e] = e.seq
  OBVIOUS
<1>3. \A e, f \in heap : number[e] = number[f] => e = f
  BY <1>2 DEF IInv, EventsDiffer
<1>4. IsFiniteSet(heap)
  <2>. HIDE DEF number
  <2>. QED  BY <1>1, <1>2, <1>3, NumberedIsFinite
<1>. QED  BY <1>4, FS_Subset, FS_CardinalityType DEF EventsOf

\* An event taken off the queue is one fewer of its type.
LEMMA TakeCounts ==
    ASSUME IInv, NEW e \in heap, Take(e), NEW t
    PROVE  Cardinality(EventsOf(t)') = IF e.payload.type = t
                                       THEN Cardinality(EventsOf(t)) - 1
                                       ELSE Cardinality(EventsOf(t))
<1>1. heap' = heap \ {e}
  BY DEF Take, Pop
<1>2. EventsOf(t)' = EventsOf(t) \ {e} /\ (e \in EventsOf(t) <=> e.payload.type = t)
  BY <1>1 DEF EventsOf
<1>. QED  BY <1>2, HeapIsFinite, FS_RemoveElement

\* An event scheduled is one more of its type.
LEMMA ScheduleCounts ==
    ASSUME IInv, NEW time, NEW payload, Schedule(time, payload), NEW t
    PROVE  Cardinality(EventsOf(t)') = IF payload.type = t
                                       THEN Cardinality(EventsOf(t)) + 1
                                       ELSE Cardinality(EventsOf(t))
<1>. DEFINE new == [time |-> time, seq |-> next_seq, payload |-> payload]
<1>1. heap' = heap \cup {new}
  BY DEF Schedule
<1>2. new \notin heap
  BY DEF IInv, TypeOK, EventsDiffer
<1>3. new.payload = payload
  OBVIOUS
<1>. HIDE DEF new
<1>4. CASE payload.type = t
  <2>1. EventsOf(t)' = EventsOf(t) \cup {new} /\ new \notin EventsOf(t)
    BY <1>1, <1>2, <1>3, <1>4 DEF EventsOf
  <2>. QED  BY <1>4, <2>1, HeapIsFinite, FS_AddElement
<1>5. CASE payload.type # t
  <2>1. EventsOf(t)' = EventsOf(t)
    BY <1>1, <1>3, <1>5 DEF EventsOf
  <2>. QED  BY <1>5, <2>1
<1>. QED  BY <1>4, <1>5

\* A job started is one finish more to wait for.
LEMMA StartCounts ==
    ASSUME IInv, NEW j, TryPlace(j), Placement(j) # {}
    PROVE  /\ Cardinality(EventsOf("JobArrival")') = Cardinality(EventsOf("JobArrival"))
           /\ Cardinality(EventsOf("JobFinish")') = Cardinality(EventsOf("JobFinish")) + 1
<1>1. PICK n \in Placement(j) : Schedule(now + workload[j].duration, JobFinish(j, n))
  BY DEF TryPlace, StartOn
<1>2. JobFinish(j, n).type = "JobFinish" /\ "JobFinish" # "JobArrival"
  BY DEF JobFinish
<1>. QED  BY <1>1, <1>2, ScheduleCounts

\* The steps of the event loop, each of which takes an event if there is one.
LEMMA LoopStepCounts ==
    ASSUME IInv, OnArrival \/ OnFinish \/ OnSimEnd \/ LoopEnds
    PROVE  StepsLeft' < StepsLeft
<1>. DEFINE A == Cardinality(EventsOf("JobArrival"))
            F == Cardinality(EventsOf("JobFinish"))
<1>1. A \in Nat /\ F \in Nat /\ Len(pending) \in Nat /\ pending \in Seq(JobId)
  BY HeapIsFinite DEF IInv, TypeOK
<1>2. CASE OnArrival
  <2>1. PICK e \in heap : /\ e.payload.type = "JobArrival" /\ Take(e)
                          /\ pending' = Append(pending, e.payload.job) /\ pc' = "drain"
    BY <1>2 DEF OnArrival
  <2>2. A' = A - 1 /\ F' = F
    BY <2>1, TakeCounts
  <2>3. Len(pending') = Len(pending) + 1 /\ pc = "run"
    BY <1>1, <2>1 DEF Take
  <2>. QED  BY <1>1, <2>1, <2>2, <2>3 DEF StepsLeft
<1>3. CASE OnFinish
  <2>1. PICK e \in heap : e.payload.type = "JobFinish" /\ Take(e)
    BY <1>3 DEF OnFinish
  <2>2. A' = A /\ F' = F - 1
    BY <2>1, TakeCounts
  <2>3. pending' = pending /\ pc = "run" /\ pc' = "drain"
    BY <1>3 DEF OnFinish, Take
  <2>. QED  BY <1>1, <2>2, <2>3 DEF StepsLeft
<1>4. CASE OnSimEnd
  <2>1. PICK e \in heap : e.payload.type = "SimEnd" /\ Take(e)
    BY <1>4 DEF OnSimEnd
  <2>2. A' = A /\ F' = F
    BY <2>1, TakeCounts
  <2>3. pending' = pending /\ pc = "run" /\ pc' = "returned"
    BY <1>4 DEF OnSimEnd, Take
  <2>. QED  BY <1>1, <2>2, <2>3 DEF StepsLeft
<1>5. CASE LoopEnds
  <2>1. heap' = heap /\ pending' = pending /\ pc = "run" /\ pc' = "returned"
    BY <1>5 DEF LoopEnds, queue
  <2>2. A' = A /\ F' = F
    BY <2>1 DEF EventsOf
  <2>. QED  BY <1>1, <2>1, <2>2 DEF StepsLeft
<1>. QED  BY <1>2, <1>3, <1>4, <1>5

\* The steps of drain(): a job leaves the backlog, or a loop is over.
LEMMA DrainStepCounts ==
    ASSUME IInv, StartHead \/ BlockHead \/ BackfillJob \/ DrainReturns
    PROVE  StepsLeft' < StepsLeft
<1>. DEFINE A == Cardinality(EventsOf("JobArrival"))
            F == Cardinality(EventsOf("JobFinish"))
<1>1. A \in Nat /\ F \in Nat /\ Len(pending) \in Nat /\ pending \in Seq(JobId)
  BY HeapIsFinite DEF IInv, TypeOK
<1>2. CASE StartHead
  <2>1. A' = A /\ F' = F + 1
    BY <1>2, StartCounts DEF StartHead
  <2>2. Len(pending') = Len(pending) - 1 /\ pc = "drain" /\ pc' = "drain"
    BY <1>1, <1>2 DEF StartHead
  <2>. QED  BY <1>1, <2>1, <2>2 DEF StepsLeft
<1>3. CASE BlockHead
  <2>1. heap' = heap /\ pending' = pending /\ pc = "drain" /\ pc' = "backfill"
    BY <1>3 DEF BlockHead, TryPlace, queue
  <2>2. A' = A /\ F' = F
    BY <2>1 DEF EventsOf
  <2>. QED  BY <1>1, <2>1, <2>2 DEF StepsLeft
<1>4. CASE BackfillJob
  <2>1. PICK j \in Pick, p \in DOMAIN pending :
            TryPlace(j) /\ pending[p] = j
              /\ pending' = SubSeq(pending, 1, p - 1) \o SubSeq(pending, p + 1, Len(pending))
    BY <1>4, BackfillTakesOut
  <2>2. Placement(j) # {}
    BY <2>1, PickOfBacklog, PlacementOfJob
  <2>3. A' = A /\ F' = F + 1
    BY <2>1, <2>2, StartCounts
  <2>4. Len(pending') = Len(pending) - 1
    <3>1. p \in 1 .. Len(pending)
      BY <1>1, <2>1
    <3>. DEFINE a == SubSeq(pending, 1, p - 1)
                b == SubSeq(pending, p + 1, Len(pending))
    <3>2. a \in Seq(JobId) /\ Len(a) = p - 1
      BY <1>1, <3>1
    <3>3. b \in Seq(JobId) /\ Len(b) = Len(pending) - p
      BY <1>1, <3>1
    <3>4. pending' = a \o b
      BY <2>1
    <3>. HIDE DEF a, b
    <3>5. Len(pending') = Len(a) + Len(b)
      BY <3>2, <3>3, <3>4, ConcatProperties
    <3>. QED  BY <1>1, <3>1, <3>2, <3>3, <3>5
  <2>5. pc = "backfill" /\ pc' = "backfill"
    BY <1>4 DEF BackfillJob
  <2>6. StepsLeft = 7 * A + 4 * Len(pending) + 3 * F + 2
    BY <1>1, <2>5 DEF StepsLeft
  <2>7. StepsLeft' = 7 * A' + 4 * Len(pending') + 3 * F' + 2
    BY <2>5 DEF StepsLeft
  <2>. HIDE DEF A, F
  <2>. QED  BY <1>1, <2>3, <2>4, <2>6, <2>7
<1>5. CASE DrainReturns
  <2>1. A' = A /\ F' = F
    <3>1. CASE heap = {}
      <4>1. Schedule(now, SimEnd)
        BY <1>5, <3>1 DEF DrainReturns
      <4>2. SimEnd.type = "SimEnd" /\ "SimEnd" # "JobArrival" /\ "SimEnd" # "JobFinish"
        BY DEF SimEnd
      <4>. QED  BY <4>1, <4>2, ScheduleCounts
    <3>2. CASE heap # {}
      <4>1. heap' = heap
        BY <1>5, <3>2 DEF DrainReturns, queue
      <4>. QED  BY <4>1 DEF EventsOf
    <3>. QED  BY <3>1, <3>2
  <2>2. pending' = pending /\ pc \in {"drain", "backfill"} /\ pc' = "run"
    BY <1>5 DEF DrainReturns
  <2>. QED  BY <1>1, <2>1, <2>2 DEF StepsLeft
<1>. QED  BY <1>2, <1>3, <1>4, <1>5

\* A run of n jobs has at most 7 * n + 1 steps: the number of steps left
\* starts there, is a natural number, and no step fails to lower it.
THEOREM RunsAreShort ==
    Spec => /\ StepsLeft = 7 * Len(workload) + 1
            /\ [](StepsLeft \in Nat)
            /\ EndDrawsNearer
<1>1. ASSUME Init PROVE StepsLeft = 7 * Len(workload) + 1
  <2>1. workload \in Seq(JobSpec) /\ Len(workload) \in Nat
    BY <1>1, SimulatorAssumption DEF Init
  <2>. DEFINE arrival ==
                [j \in 1 .. Len(workload) |->
                    [time |-> workload[j].submit_time, seq |-> j - 1, payload |-> JobArrival(j)]]
  <2>2. heap = {arrival[j] : j \in 1 .. Len(workload)}
    BY <1>1, <2>1 DEF Init, Seeds
  <2>3. \A j \in 1 .. Len(workload) : arrival[j].payload.type = "JobArrival" /\ arrival[j].seq = j - 1
    BY DEF JobArrival
  <2>. HIDE DEF arrival
  <2>4. EventsOf("JobFinish") = {} /\ EventsOf("JobArrival") = heap
    BY <2>2, <2>3 DEF EventsOf
  <2>5. \A i, k \in 1 .. Len(workload) : arrival[i] = arrival[k] => i = k
    BY <2>3
  <2>6. Cardinality(heap) = Len(workload)
    <3>1. /\ \A i \in 1 .. Len(workload) : arrival[i] \in heap
          /\ \A e \in heap : \E i \in 1 .. Len(workload) : arrival[i] = e
      BY <2>2
    <3>. QED  BY <2>1, <2>5, <3>1, CountByList
  <2>7. Cardinality(EventsOf("JobFinish")) = 0
    BY <2>4, FS_EmptySet
  <2>8. pending = <<>> /\ pc = "run"
    BY <1>1 DEF Init
  <2>. QED  BY <2>1, <2>4, <2>6, <2>7, <2>8 DEF StepsLeft
<1>2. ASSUME IInv PROVE StepsLeft \in Nat
  <2>1. pc \in {"run", "drain", "backfill", "returned"} /\ Len(pending) \in Nat
    BY <1>2 DEF IInv, TypeOK
  <2>. QED  BY <1>2, <2>1, HeapIsFinite DEF StepsLeft
<1>3. ASSUME IInv, [Next]_vars PROVE [StepsLeft' < StepsLeft]_vars
  BY <1>3, LoopStepCounts, DrainStepCounts DEF Next, Returned
<1>. QED  BY <1>1, <1>2, <1>3, Invariance, PTL DEF Spec, EndDrawsNearer

--------------------------------------------------------------------------------
(* What a run promises abstractly *)

\* Whether a job is still to arrive, said of its arrival events.
LEMMA ArrivalsAwaited ==
    ASSUME IInv, NEW j \in JobId
    PROVE  ArrivalsOf(j) # {} <=> Awaited(j)
<1>1. ASSUME NEW e \in heap
      PROVE  e.payload = JobArrival(j) <=> e.payload.type = "JobArrival" /\ e.payload.job = j
  <2>1. e.payload \in Payload
    BY DEF IInv, TypeOK
  <2>. QED  BY <2>1, PayloadKinds DEF JobArrival
<1>. QED  BY <1>1 DEF ArrivalsOf, Awaited

\* The record of a job and its arrival event say in which phase it is.
LEMMA PhaseFacts ==
    ASSUME IInv, NEW j \in JobId
    PROVE  /\ ArrivalsOf(j) # {} <=> Awaited(j)
           /\ PhaseOf(j) = "future"  <=> Awaited(j)
           /\ PhaseOf(j) = "waiting" <=> state[j] = "Queued" /\ ~ Awaited(j)
           /\ PhaseOf(j) = "running" <=> state[j] = "Running"
           /\ PhaseOf(j) = "done"    <=> state[j] = "Done"
           /\ PhaseOf(j) \in {"future", "waiting", "running", "done"}
<1>1. Awaited(j) => state[j] = "Queued"
  BY DEF Awaited, IInv, EventsAgree
<1>2. state[j] \in {"Queued", "Running", "Done"}
  BY DEF IInv, TypeOK, JobState
<1>. QED  BY <1>1, <1>2, ArrivalsAwaited DEF PhaseOf

\* The same of the next state.
LEMMA PhaseFactsPrimed ==
    IInv' =>
        (\A j \in JobId :
           /\ ArrivalsOf(j) # {} <=> Awaited(j)
           /\ PhaseOf(j) = "future"  <=> Awaited(j)
           /\ PhaseOf(j) = "waiting" <=> state[j] = "Queued" /\ ~ Awaited(j)
           /\ PhaseOf(j) = "running" <=> state[j] = "Running"
           /\ PhaseOf(j) = "done"    <=> state[j] = "Done"
           /\ PhaseOf(j) \in {"future", "waiting", "running", "done"})'
<1>1. IInv =>
        \A j \in JobId :
           /\ ArrivalsOf(j) # {} <=> Awaited(j)
           /\ PhaseOf(j) = "future"  <=> Awaited(j)
           /\ PhaseOf(j) = "waiting" <=> state[j] = "Queued" /\ ~ Awaited(j)
           /\ PhaseOf(j) = "running" <=> state[j] = "Running"
           /\ PhaseOf(j) = "done"    <=> state[j] = "Done"
           /\ PhaseOf(j) \in {"future", "waiting", "running", "done"}
  BY PhaseFacts
<1>. QED  BY <1>1, PTL

\* The jobs of the service, by phase.
LEMMA PhaseSets ==
    ASSUME IInv
    PROVE  /\ Service!Job = JobId
           /\ Service!In("future") = {j \in JobId : Awaited(j)}
           /\ Service!In("running") = running
<1>1. Service!Job = JobId
  BY DEF Service!Job, JobId
<1>2. \A p : Service!In(p) = {j \in JobId : PhaseOf(j) = p}
  BY <1>1 DEF Service!In
<1>3. Service!In("future") = {j \in JobId : Awaited(j)}
  BY <1>2, PhaseFacts
<1>4. Service!In("running") = {j \in JobId : state[j] = "Running"}
  BY <1>2, PhaseFacts
<1>. QED  BY <1>1, <1>3, <1>4 DEF IInv, RunningInv

\* The event at the top of the queue is the next thing certain to happen.
LEMMA TopIsNext ==
    ASSUME IInv, HistoryInv, NEW e \in heap, Jumps(e)
    PROVE  Service!NextIs(e.time)
<1>1. now <= e.time /\ \A f \in heap : e.time <= f.time
  BY DEF Jumps
<1>2. ASSUME NEW j \in JobId, Awaited(j)
      PROVE  e.time <= workload[j].submit_time
  <2>1. PICK f \in heap : f.payload.type = "JobArrival" /\ f.payload.job = j
    BY <1>2 DEF Awaited
  <2>. QED  BY <1>1, <2>1 DEF HistoryInv, OrderInv
<1>3. ASSUME NEW j \in running
      PROVE  e.time <= start_time[j] + workload[j].duration
  <2>1. j \in JobId /\ state[j] = "Running"
    BY DEF IInv, RunningInv
  <2>2. PICK f \in heap : f.payload.type = "JobFinish" /\ f.payload.job = j
    BY <2>1 DEF IInv, JobsAwaited
  <2>3. f.time = start_time[j] + workload[j].duration
    BY <2>2 DEF IInv, EventsAgree
  <2>. QED  BY <1>1, <2>3
<1>. QED  BY <1>1, <1>2, <1>3, PhaseSets DEF Service!NextIs, Service!Due

\* The service counts on the same nodes and adds up in the same way.
LEMMA SameCounting ==
    /\ Service!Dim = Dim /\ Service!NodeId = NodeId
    /\ \A S, amount : Service!SumOver(S, amount) = SumOver(S, amount)
<1>1. Service!Dim = Dim /\ Service!NodeId = NodeId
  BY DEF Service!Dim, Dim, Service!NodeId, NodeId
<1>2. ASSUME NEW S, NEW amount
      PROVE  Service!Units(S, amount) = Units(S, amount)
  BY DEF Service!Units, Units
<1>3. ASSUME NEW S, NEW amount
      PROVE  Service!SumOver(S, amount) = SumOver(S, amount)
  <2>1. Service!SumOver(S, amount) = Service!Cardinality(Units(S, amount))
    BY <1>2 DEF Service!SumOver
  <2>2. Service!Cardinality(Units(S, amount)) = SumOver(S, amount)
    BY SumWrittenOut, Zenon DEF Service!Cardinality
  <2>. QED  BY <2>1, <2>2
<1>. QED  BY <1>1, <1>3

\* A node with enough free has room beside the jobs that run on it.
LEMMA FitIsRoom ==
    ASSUME IInv, NEW j \in JobId, NEW n \in NodeId, CanFit(free[n], Request(j))
    PROVE  Service!Room(n, j)
<1>1. {k \in Service!In("running") : node[k] = n} = JobsOn(n)
  BY PhaseSets DEF JobsOn
<1>2. ASSUME NEW d \in Dim
      PROVE  SumOver(JobsOn(n), [k \in JobsOn(n) |-> workload[k].request[d]])
                + workload[j].request[d] <= Capacity[d]
  <2>1. HeldOn(n, d) = SumOver(JobsOn(n), [k \in JobsOn(n) |-> workload[k].request[d]])
    BY DEF HeldOn, Request
  <2>2. /\ free[n][d] + HeldOn(n, d) = Capacity[d] /\ Request(j)[d] <= free[n][d]
        /\ HeldOn(n, d) \in Nat /\ free[n][d] \in Nat /\ Request(j)[d] \in Nat
    BY HeldFacts DEF IInv, Conservation, CanFit, TypeOK, Resources
  <2>. QED  BY <2>1, <2>2 DEF Request
<1>. QED  BY <1>1, <1>2, SameCounting DEF Service!Room

--------------------------------------------------------------------------------

\* The initial states.
LEMMA InitImplements == Init => Service!Init
<1>. SUFFICES ASSUME Init PROVE Service!Init
  OBVIOUS
<1>1. IInv /\ Service!Job = JobId
  BY InitInv, PhaseSets
<1>2. \A j \in JobId : Awaited(j)
  BY <1>1 DEF Init, IInv, JobsAwaited, Awaited
<1>3. [j \in JobId |-> PhaseOf(j)] = [j \in JobId |-> "future"]
  BY <1>1, <1>2, PhaseFacts
<1>. QED  BY <1>1, <1>3 DEF Init, Service!Init

\* The phases after a step, by what the step does to the records and to the
\* arrivals still to come.
LEMMA PhasesAfter ==
    ASSUME IInv, IInv', JobId' = JobId, NEW j \in JobId, NEW p,
           PhaseOf(j)' = p,
           \A k \in JobId \ {j} : state'[k] = state[k] /\ (Awaited(k)' <=> Awaited(k))
    PROVE  [k \in JobId |-> PhaseOf(k)]' = [[k \in JobId |-> PhaseOf(k)] EXCEPT ![j] = p]
<1>1. ASSUME NEW k \in JobId \ {j}
      PROVE  PhaseOf(k)' = PhaseOf(k)
  <2>1. (ArrivalsOf(k) # {})' <=> ArrivalsOf(k) # {}
    BY <1>1, PhaseFacts, PhaseFactsPrimed
  <2>2. state'[k] = state[k]
    OBVIOUS
  <2>. QED  BY <2>1, <2>2 DEF PhaseOf
<1>. QED  BY <1>1

\* An arrival.
LEMMA ArrivalImplements ==
    ASSUME IInv, IInv', HistoryInv, NEW e \in heap, ArrivalEffect(e), workload' = workload
    PROVE  Service!Next
<1>. DEFINE a == e.payload.job
<1>1. /\ e.payload.type = "JobArrival" /\ a \in JobId /\ Jumps(e)
      /\ state' = state /\ finish_time' = finish_time /\ start_time' = start_time
      /\ node' = node /\ now' = e.time /\ heap' = heap \ {e}
      /\ pc = "run" /\ pc' = "drain"
  BY DEF ArrivalEffect, Jumps
<1>2. e.time = workload[a].submit_time
  BY <1>1 DEF HistoryInv, OrderInv
<1>3. \A j : Awaited(j)' <=> Awaited(j) /\ j # a
  BY <1>1 DEF Awaited, IInv, EventsDiffer
<1>4. Awaited(a) /\ state[a] = "Queued"
  BY <1>1 DEF Awaited, IInv, EventsAgree
<1>5. JobId' = JobId
  BY DEF JobId
<1>6. PhaseOf(a) = "future" /\ PhaseOf(a)' = "waiting"
  BY <1>1, <1>3, <1>4, <1>5, PhaseFacts, PhaseFactsPrimed
<1>7. [j \in JobId |-> PhaseOf(j)]' = [[j \in JobId |-> PhaseOf(j)] EXCEPT ![a] = "waiting"]
  BY <1>1, <1>3, <1>5, <1>6, PhasesAfter
<1>8. Service!NextIs(e.time)
  BY <1>1, TopIsNext
<1>9. Service!Arrive(a)
  BY <1>1, <1>2, <1>6, <1>7, <1>8 DEF Service!Arrive
<1>. QED  BY <1>1, <1>9, PhaseSets DEF Service!Next, Service!Step

\* A finish.
LEMMA FinishImplements ==
    ASSUME IInv, IInv', HistoryInv, NEW e \in heap, FinishEffect(e), workload' = workload
    PROVE  Service!Next
<1>. DEFINE b == e.payload.job
<1>1. /\ e.payload.type = "JobFinish" /\ b \in JobId /\ Jumps(e) /\ state[b] = "Running"
      /\ e.time = start_time[b] + workload[b].duration
      /\ state' = [state EXCEPT ![b] = "Done"]
      /\ finish_time' = [finish_time EXCEPT ![b] = e.time]
      /\ start_time' = start_time /\ node' = node /\ now' = e.time /\ heap' = heap \ {e}
      /\ pc = "run" /\ pc' = "drain"
  BY DEF FinishEffect, Jumps, IInv, RunningInv
<1>2. \A j : Awaited(j)' <=> Awaited(j)
  BY <1>1 DEF Awaited
<1>3. JobId' = JobId /\ state \in [JobId -> JobState]
  BY DEF JobId, IInv, TypeOK
<1>4. PhaseOf(b) = "running" /\ PhaseOf(b)' = "done"
  BY <1>1, <1>3, PhaseFacts, PhaseFactsPrimed
<1>5. [j \in JobId |-> PhaseOf(j)]' = [[j \in JobId |-> PhaseOf(j)] EXCEPT ![b] = "done"]
  BY <1>1, <1>2, <1>3, <1>4, PhasesAfter
<1>6. Service!NextIs(e.time)
  BY <1>1, TopIsNext
<1>7. Service!Finish(b)
  BY <1>1, <1>4, <1>5, <1>6 DEF Service!Finish, Service!Due
<1>. QED  BY <1>1, <1>7, PhaseSets DEF Service!Next, Service!Step

\* A start, of the head or around it.
LEMMA StartImplements ==
    ASSUME IInv, IInv', NEW j \in JobId, NEW n \in NodeId, StartEffect(j, n),
           workload' = workload
    PROVE  Service!Next
<1>1. /\ state[j] = "Queued" /\ CanFit(free[n], Request(j)) /\ BacklogLoses(j)
      /\ state' = [state EXCEPT ![j] = "Running"]
      /\ start_time' = [start_time EXCEPT ![j] = now] /\ node' = [node EXCEPT ![j] = n]
      /\ heap' = heap \cup {[time |-> now + workload[j].duration, seq |-> next_seq,
                             payload |-> JobFinish(j, n)]}
      /\ finish_time' = finish_time /\ now' = now /\ pc # "returned" /\ pc' = pc
  BY DEF StartEffect
<1>2. JobFinish(j, n).type = "JobFinish"
  BY DEF JobFinish
<1>3. \A k : Awaited(k)' <=> Awaited(k)
  BY <1>1, <1>2 DEF Awaited
<1>4. ~ Awaited(j)
  BY <1>1 DEF Awaited, BacklogLoses, IInv, EventsAgree
<1>5. JobId' = JobId /\ state \in [JobId -> JobState]
  BY DEF JobId, IInv, TypeOK
<1>6. PhaseOf(j) = "waiting" /\ PhaseOf(j)' = "running"
  BY <1>1, <1>4, <1>5, PhaseFacts, PhaseFactsPrimed
<1>7. [k \in JobId |-> PhaseOf(k)]' = [[k \in JobId |-> PhaseOf(k)] EXCEPT ![j] = "running"]
  BY <1>1, <1>3, <1>5, <1>6, PhasesAfter
<1>8. Service!Start(j, n)
  BY <1>1, <1>6, <1>7, FitIsRoom DEF Service!Start
<1>. QED  BY <1>1, <1>8, PhaseSets, SameCounting DEF Service!Next, Service!Step

\* With no event left, or the last one alone, nothing is to come or running.
LEMMA CloseImplements ==
    ASSUME IInv, pc = "run", \A e \in heap : e.payload.type = "SimEnd",
           pc' = "returned", \A e \in heap' : e.payload.type = "SimEnd",
           UNCHANGED <<workload, now, state, node, start_time, finish_time>>
    PROVE  Service!Next
<1>1. Service!In("future") = {} /\ Service!In("running") = {}
  <2>1. \A j : ~ Awaited(j)
    BY DEF Awaited
  <2>2. running = {}
    BY DEF IInv, RunningInv, JobsAwaited
  <2>. QED  BY <2>1, <2>2, PhaseSets
<1>2. ASSUME NEW j \in JobId
      PROVE  PhaseOf(j)' = PhaseOf(j)
  <2>1. ArrivalsOf(j) = {} /\ ArrivalsOf(j)' = {}
    BY DEF ArrivalsOf, JobArrival
  <2>. QED  BY <2>1 DEF PhaseOf
<1>3. [j \in JobId |-> PhaseOf(j)]' = [j \in JobId |-> PhaseOf(j)]
  BY <1>2 DEF JobId
<1>4. Service!Close
  BY <1>1, <1>3 DEF Service!Close
<1>. QED  BY <1>4 DEF Service!Next

\* Control moves, and no job does.
LEMMA QuietImplements ==
    ASSUME IInv, QuietEffect, workload' = workload
    PROVE  Service!Next \/ UNCHANGED Service!vars
<1>1. UNCHANGED <<workload, now, state, node, start_time, finish_time>>
  BY DEF QuietEffect
<1>2. CASE pc = "run" /\ heap = {} /\ pc' = "returned" /\ heap' = heap
  BY <1>1, <1>2, CloseImplements
<1>3. CASE /\ (pc = "returned") = (pc' = "returned")
           /\ heap' = heap \/ (heap = {} /\ heap' = {[time |-> now, seq |-> next_seq,
                                                    payload |-> SimEnd]})
  <2>1. ASSUME NEW j \in JobId
        PROVE  PhaseOf(j)' = PhaseOf(j)
    <3>1. ArrivalsOf(j)' = ArrivalsOf(j)
      BY <1>3 DEF ArrivalsOf, JobArrival, SimEnd
    <3>. QED  BY <1>1, <3>1 DEF PhaseOf
  <2>2. [j \in JobId |-> PhaseOf(j)]' = [j \in JobId |-> PhaseOf(j)]
    BY <1>1, <2>1 DEF JobId
  <2>. QED  BY <1>1, <1>3, <2>2 DEF Service!vars
<1>. QED  BY <1>2, <1>3 DEF QuietEffect

\* A step of the simulator is a step of the service, or none.
LEMMA StepImplements ==
    ASSUME IInv, IInv', HistoryInv, [Next]_vars
    PROVE  [Service!Next]_Service!vars
<1>1. Effect /\ workload' = workload
  BY StepEffect
<1>2. CASE \E e \in heap : ArrivalEffect(e)
  BY <1>1, <1>2, ArrivalImplements
<1>3. CASE \E e \in heap : FinishEffect(e)
  BY <1>1, <1>3, FinishImplements
<1>4. CASE \E e \in heap : EndEffect(e)
  <2>1. PICK e \in heap : EndEffect(e)
    BY <1>4
  <2>. QED  BY <1>1, <2>1, CloseImplements DEF EndEffect, Jumps
<1>5. CASE \E j \in JobId, n \in NodeId : StartEffect(j, n)
  BY <1>1, <1>5, StartImplements
<1>6. CASE QuietEffect
  BY <1>1, <1>6, QuietImplements
<1>. QED  BY <1>1, <1>2, <1>3, <1>4, <1>5, <1>6 DEF Effect

\* Whatever the simulator does to its job records and its clock, under every
\* policy and on every workload, JobService allows: jobs arrive and finish
\* exactly at their ticks, the clock skips no arrival and no finish, and a
\* job starts only where the running ones leave room.
THEOREM SimulatorImplementsService == Spec => Service!Init /\ [][Service!Next]_Service!vars
<1>1. Init => Service!Init
  BY InitImplements
<1>2. IInv /\ IInv' /\ HistoryInv /\ [Next]_vars => [Service!Next]_Service!vars
  BY StepImplements
<1>3. Init => IInv /\ HistoryInv
  BY InitInv, InitHistory
<1>4. IInv /\ HistoryInv /\ [Next]_vars => IInv' /\ HistoryInv'
  BY NextPreserves, HistoryPreserved
<1>. QED  BY <1>1, <1>2, <1>3, <1>4, PTL DEF Spec

--------------------------------------------------------------------------------
(* What the nodes will have free, by the estimates of the running jobs *)

\* What shadow_time is shown of a running job.
View(j) ==
    [id |-> j, node |-> node[j], held |-> Request(j),
     estimated_finish |-> start_time[j] + workload[j].estimated_duration]

\* The views of the jobs predicted to leave node n by tick t, and what they
\* hand back.
Leaving(n, t) == {r \in RunningView : r.node = n /\ r.estimated_finish <= t}

HeldIn(views, d) == SumOver(views, [r \in views |-> r.held[d]])

HandedBack(n, t, d) == HeldIn(Leaving(n, t), d)

\* Node n is predicted to have room for job j by tick t.
RoomBy(n, t, j) == \A d \in Dim : Request(j)[d] <= free[n][d] + HandedBack(n, t, d)

LEMMA RoomIsFit ==
    ASSUME NEW n, NEW t, NEW j
    PROVE  CanFit(FreeAt(n, t, free, RunningView), Request(j)) <=> RoomBy(n, t, j)
  BY DEF CanFit, FreeAt, RoomBy, HandedBack, HeldIn, Leaving

\* The views are finitely many, and no two are of one job.  A running job is
\* due no later than its estimate, and not before now.
LEMMA ViewFacts ==
    ASSUME IInv
    PROVE  /\ RunningView = {View(j) : j \in running}
           /\ IsFiniteSet(RunningView)
           /\ \A j, k : View(j) = View(k) => j = k
           /\ \A r \in RunningView :
                /\ r.node \in NodeId /\ r.held \in Resources /\ r.estimated_finish \in Nat
                /\ now <= r.estimated_finish
                /\ \E f \in heap : f.time <= r.estimated_finish
<1>1. RunningView = {View(j) : j \in running}
  BY DEF RunningView, View
<1>2. IsFiniteSet(RunningView)
  <2>1. IsFiniteSet(running)
    BY JobFacts, FS_Subset DEF IInv, TypeOK
  <2>. DEFINE view == [j \in running |-> View(j)]
  <2>2. IsFiniteSet({view[j] : j \in running})
    BY <2>1, FiniteImage
  <2>3. {view[j] : j \in running} = {View(j) : j \in running}
    OBVIOUS
  <2>. QED  BY <1>1, <2>2, <2>3
<1>3. \A j, k : View(j) = View(k) => j = k
  BY DEF View
<1>4. ASSUME NEW j \in running
      PROVE  LET r == View(j)
             IN  /\ r.node \in NodeId /\ r.held \in Resources /\ r.estimated_finish \in Nat
                 /\ now <= r.estimated_finish
                 /\ \E f \in heap : f.time <= r.estimated_finish
  <2>1. j \in JobId /\ state[j] = "Running"
    BY DEF IInv, RunningInv
  <2>2. start_time[j] \in Nat /\ node[j] \in NodeId
    BY <2>1 DEF IInv, RecordsInv
  <2>3. /\ workload[j].duration \in Nat /\ workload[j].estimated_duration \in Nat
        /\ Request(j) \in Resources
    BY <2>1, JobFacts DEF IInv, TypeOK
  <2>4. workload[j].duration <= workload[j].estimated_duration
    BY <2>1, SimulatorAssumption DEF IInv, ConfigInv, JobId
  <2>5. PICK f \in heap : f.payload.type = "JobFinish" /\ f.payload.job = j
    BY <2>1 DEF IInv, JobsAwaited
  <2>6. /\ f.time = start_time[j] + workload[j].duration
        /\ now <= f.time /\ now \in Nat
    BY <2>5 DEF IInv, EventsAgree, ClockInv, ClockNeverBehind, TypeOK
  <2>7. /\ now <= start_time[j] + workload[j].estimated_duration
        /\ f.time <= start_time[j] + workload[j].estimated_duration
    BY <2>2, <2>3, <2>4, <2>6
  <2>. QED  BY <2>2, <2>3, <2>7 DEF View
<1>. QED  BY <1>1, <1>2, <1>3, <1>4

\* What is handed back is a number.
LEMMA HandedBackIsNat ==
    ASSUME IInv, NEW n, NEW t, NEW d \in Dim
    PROVE  HandedBack(n, t, d) \in Nat /\ IsFiniteSet(Leaving(n, t))
<1>1. IsFiniteSet(Leaving(n, t))
  BY ViewFacts, FS_Subset DEF Leaving
<1>2. \A r \in Leaving(n, t) : r.held[d] \in Nat
  BY ViewFacts DEF Leaving, Resources
<1>. DEFINE L == Leaving(n, t)
            held == [r \in L |-> r.held[d]]
<1>3. \A r \in L : held[r] \in Nat
  BY <1>2
<1>4. SumOver(L, held) \in Nat
  <2>. HIDE DEF L, held
  <2>. QED  BY <1>1, <1>3, SumType DEF L
<1>. QED  BY <1>1, <1>4 DEF HandedBack, HeldIn

\* The same of the next state.
LEMMA HandedBackIsNatPrimed == IInv' => (\A n, t : \A d \in Dim : HandedBack(n, t, d) \in Nat)'
<1>1. IInv => \A n, t : \A d \in Dim : HandedBack(n, t, d) \in Nat
  BY HandedBackIsNat
<1>. QED  BY <1>1, PTL

\* Nobody leaving, nothing is handed back.
LEMMA NobodyLeaving ==
    ASSUME IInv, NEW n \in NodeId, NEW t, Leaving(n, t) = {}, NEW j \in JobId, RoomBy(n, t, j)
    PROVE  FitsAnywhere(Request(j), free)
<1>1. ASSUME NEW d \in Dim
      PROVE  Request(j)[d] <= free[n][d]
  <2>1. HandedBack(n, t, d) = 0
    BY SumEmpty DEF HandedBack, HeldIn
  <2>2. free[n][d] \in Nat
    BY DEF IInv, TypeOK, Resources
  <2>. QED  BY <2>1, <2>2 DEF RoomBy
<1>. QED  BY <1>1 DEF FitsAnywhere, CanFit

--------------------------------------------------------------------------------
(* The reservation of the head *)

\* A reservation is a tick at which some node is predicted to have room: the
\* predicted end of a running job.
LEMMA ReservationIsRoom ==
    ASSUME IInv, pending # <<>>, ~ FitsAnywhere(Request(Head(pending)), free),
           HeadShadow # kNever
    PROVE  \E r \in RunningView :
               HeadShadow = r.estimated_finish /\ RoomBy(r.node, HeadShadow, Head(pending))
<1>. DEFINE times == RoomTimes(Request(Head(pending)), free, RunningView)
<1>1. times # {} /\ HeadShadow = CHOOSE t \in times : \A u \in times : t <= u
  BY DEF HeadShadow, ShadowTime
<1>2. times \subseteq Nat
  BY ViewFacts DEF RoomTimes
<1>3. HeadShadow \in times
  <2>. HIDE DEF times
  <2>1. \E t \in times : \A u \in times : t <= u
    BY <1>1, <1>2, LeastNat
  <2>. QED  BY <1>1, <2>1
<1>4. PICK r \in RunningView :
        /\ r.estimated_finish = HeadShadow
        /\ CanFit(FreeAt(r.node, HeadShadow, free, RunningView), Request(Head(pending)))
  BY <1>3 DEF RoomTimes
<1>. QED  BY <1>4, RoomIsFit

\* The head's reservation is no later than any tick, from now on, by which
\* some node is predicted to have room for it.
LEMMA RoomIsReservation ==
    ASSUME IInv, pending # <<>>, NEW n \in NodeId, NEW t \in Nat, now <= t,
           RoomBy(n, t, Head(pending))
    PROVE  HeadShadow # kNever /\ HeadShadow <= t
<1>. DEFINE h == Head(pending)
            times == RoomTimes(Request(h), free, RunningView)
<1>0. h \in JobId /\ now \in Nat
  BY EmptySeq DEF IInv, TypeOK
<1>1. CASE FitsAnywhere(Request(h), free)
  BY <1>0, <1>1, NeverAssumption DEF HeadShadow, ShadowTime
<1>2. CASE ~ FitsAnywhere(Request(h), free)
  <2>. DEFINE Roomy == {u \in Nat : RoomBy(n, u, h)}
  <2>1. PICK u \in Roomy : \A v \in Roomy : u <= v
    <3>1. Roomy \subseteq Nat /\ Roomy # {}
      OBVIOUS
    <3>. HIDE DEF Roomy
    <3>. QED  BY <3>1, LeastNat
  <2>2. u \in Nat /\ RoomBy(n, u, h) /\ u <= t
    BY <2>1
  <2>3. \E r \in RunningView : r.node = n /\ r.estimated_finish = u
    <3>1. SUFFICES ASSUME \A r \in RunningView : r.node = n => r.estimated_finish # u
                   PROVE  FALSE
      OBVIOUS
    <3>2. Leaving(n, u) # {}
      BY <1>0, <1>2, <2>2, NobodyLeaving
    <3>3. u - 1 \in Nat
      BY <2>2, <3>1, <3>2, ViewFacts DEF Leaving
    <3>4. Leaving(n, u - 1) = Leaving(n, u)
      BY <2>2, <3>1, ViewFacts DEF Leaving
    <3>5. RoomBy(n, u - 1, h)
      BY <2>2, <3>4 DEF RoomBy, HandedBack
    <3>. QED  BY <2>1, <2>2, <3>3, <3>5
  <2>4. u \in times /\ times \subseteq Nat
    <3>1. CanFit(FreeAt(n, u, free, RunningView), Request(h))
      BY <2>2, RoomIsFit
    <3>. QED  BY <2>3, <3>1, ViewFacts DEF RoomTimes
  <2>5. HeadShadow = CHOOSE v \in times : \A w \in times : v <= w
    BY <1>2, <2>4 DEF HeadShadow, ShadowTime
  <2>6. HeadShadow \in Nat /\ HeadShadow <= u
    <3>. HIDE DEF times
    <3>1. \E v \in times : \A w \in times : v <= w
      BY <2>4, LeastNat
    <3>. QED  BY <2>4, <2>5, <3>1
  <2>. QED  BY <2>2, <2>6, NeverAssumption
<1>. QED  BY <1>1, <1>2

\* A reservation is never in the past.
LEMMA ReservationAhead ==
    ASSUME IInv, pending # <<>>, HeadShadow # kNever
    PROVE  HeadShadow \in Nat /\ now <= HeadShadow
<1>1. CASE FitsAnywhere(Request(Head(pending)), free)
  BY <1>1 DEF HeadShadow, ShadowTime, IInv, TypeOK
<1>2. CASE ~ FitsAnywhere(Request(Head(pending)), free)
  BY <1>2, ReservationIsRoom, ViewFacts
<1>. QED  BY <1>1, <1>2

\* The same of the next state.
LEMMA ReservationAheadPrimed ==
    IInv' => (pending # <<>> /\ HeadShadow # kNever => HeadShadow \in Nat /\ now <= HeadShadow)'
<1>1. IInv => (pending # <<>> /\ HeadShadow # kNever => HeadShadow \in Nat /\ now <= HeadShadow)
  BY ReservationAhead
<1>. QED  BY <1>1, PTL

--------------------------------------------------------------------------------
(* No step takes predicted room away *)

\* What one more job hands back.
LEMMA OneMoreLeaving ==
    ASSUME NEW L, IsFiniteSet(L), NEW x, x \notin L, NEW d,
           \A r \in L \cup {x} : r.held[d] \in Nat
    PROVE  HeldIn(L \cup {x}, d) = HeldIn(L, d) + x.held[d]
<1>. DEFINE held == [r \in L \cup {x} |-> r.held[d]]
<1>1. SumOver(L \cup {x}, held) = SumOver(L, held) + held[x]
  <2>1. \A r \in L \cup {x} : held[r] \in Nat
    OBVIOUS
  <2>. HIDE DEF held
  <2>. QED  BY <2>1, SumAdd
<1>2. SumOver(L, held) = SumOver(L, [r \in L |-> r.held[d]])
  BY SumCongruence
<1>. QED  BY <1>1, <1>2 DEF HeldIn

\* Nothing started and nothing finished.
LEMMA QuietKeepsRoom ==
    ASSUME UNCHANGED <<workload, running, node, start_time, free>>, NEW n, NEW t, NEW k
    PROVE  RoomBy(n, t, k)' <=> RoomBy(n, t, k)
  BY DEF RoomBy, HandedBack, HeldIn, Leaving, RunningView, Request

\* A job that starts and is predicted to be gone by tick t takes no room away
\* that is predicted for t.
LEMMA StartKeepsRoom ==
    ASSUME IInv, IInv', NEW j \in JobId, NEW m \in NodeId, StartEffect(j, m),
           workload' = workload, NEW n \in NodeId, NEW t \in Nat, NEW k \in JobId,
           now + workload[j].estimated_duration <= t, RoomBy(n, t, k)
    PROVE  RoomBy(n, t, k)'
<1>. DEFINE v == [id |-> j, node |-> m, held |-> Request(j),
                  estimated_finish |-> now + workload[j].estimated_duration]
<1>1. /\ j \notin running /\ running' = running \cup {j}
      /\ node' = [node EXCEPT ![j] = m] /\ start_time' = [start_time EXCEPT ![j] = now]
      /\ free' = [free EXCEPT ![m] = Minus(free[m], Request(j))]
  BY DEF StartEffect, Allocate
<1>2. /\ node \in [JobId -> Nat] /\ start_time \in [JobId -> Nat \cup {kNever}]
      /\ running \subseteq JobId /\ free \in [NodeId -> Resources]
      /\ Request(j) \in Resources
  BY JobFacts DEF IInv, TypeOK
<1>3. RunningView' = RunningView \cup {v} /\ v \notin RunningView
  <2>1. View(j)' = v
    BY <1>1, <1>2 DEF View, Request
  <2>2. \A i \in running : View(i)' = View(i)
    BY <1>1, <1>2 DEF View, Request
  <2>3. RunningView' = {View(i)' : i \in running'}
    BY DEF RunningView, View
  <2>4. \A r \in RunningView : r.id # j
    BY <1>1 DEF RunningView
  <2>. HIDE DEF v
  <2>5. RunningView' = RunningView \cup {v}
    BY <1>1, <2>1, <2>2, <2>3, ViewFacts
  <2>6. v \notin RunningView
    BY <2>4 DEF v
  <2>. QED  BY <2>5, <2>6
<1>4. v.node = m /\ v.estimated_finish <= t /\ v.held = Request(j)
  OBVIOUS
<1>. HIDE DEF v
<1>5. ASSUME NEW d \in Dim
      PROVE  free'[n][d] + HandedBack(n, t, d)' = free[n][d] + HandedBack(n, t, d)
  <2>1. HandedBack(n, t, d)' = HeldIn(Leaving(n, t)', d)
    BY DEF HandedBack, HeldIn
  <2>2. CASE n # m
    <3>1. Leaving(n, t)' = Leaving(n, t)
      BY <1>3, <1>4, <2>2 DEF Leaving
    <3>2. HandedBack(n, t, d)' = HandedBack(n, t, d)
      BY <2>1, <3>1 DEF HandedBack
    <3>. QED  BY <1>1, <2>2, <3>2
  <2>3. CASE n = m
    <3>1. Leaving(n, t)' = Leaving(n, t) \cup {v} /\ v \notin Leaving(n, t)
      BY <1>3, <1>4, <2>3 DEF Leaving
    <3>2. \A r \in Leaving(n, t) \cup {v} : r.held[d] \in Nat
      BY <1>2, <1>4, ViewFacts DEF Leaving, Resources
    <3>3. HandedBack(n, t, d)' = HandedBack(n, t, d) + Request(j)[d]
      <4>. DEFINE L == Leaving(n, t)
      <4>1. IsFiniteSet(L) /\ v \notin L
        BY <3>1, HandedBackIsNat
      <4>. HIDE DEF L
      <4>2. \A r \in L \cup {v} : r.held[d] \in Nat
        BY <3>2 DEF L
      <4>3. HeldIn(L \cup {v}, d) = HeldIn(L, d) + v.held[d]
        BY <4>1, <4>2, OneMoreLeaving
      <4>4. HandedBack(n, t, d)' = HeldIn(L \cup {v}, d) /\ HandedBack(n, t, d) = HeldIn(L, d)
        BY <2>1, <3>1 DEF HandedBack, L
      <4>. QED  BY <1>4, <4>3, <4>4
    <3>4. free'[n][d] = free[n][d] - Request(j)[d]
      BY <1>1, <1>2, <2>3 DEF Minus
    <3>5. free[n][d] \in Nat /\ Request(j)[d] \in Nat /\ HandedBack(n, t, d) \in Nat
      BY <1>2, HandedBackIsNat DEF Resources
    <3>. QED  BY <3>3, <3>4, <3>5
  <2>. QED  BY <2>2, <2>3
<1>6. Request(k)' = Request(k)
  BY DEF Request
<1>. QED  BY <1>5, <1>6 DEF RoomBy

\* A job that finishes hands back at least what it was predicted to.
LEMMA FinishKeepsRoom ==
    ASSUME IInv, IInv', NEW e \in heap, FinishEffect(e), workload' = workload,
           NEW n \in NodeId, NEW t \in Nat, NEW k \in JobId, RoomBy(n, t, k)
    PROVE  RoomBy(n, t, k)'
<1>. DEFINE b == e.payload.job
            v == View(b)
            m == node[b]
<1>1. /\ b \in running /\ running' = running \ {b} /\ m \in NodeId
      /\ node' = node /\ start_time' = start_time
      /\ free' = [free EXCEPT ![m] = Plus(free[m], Request(b))]
  BY DEF FinishEffect, Jumps, Release
<1>2. /\ running \subseteq JobId /\ free \in [NodeId -> Resources]
      /\ Request(b) \in Resources
  BY <1>1, JobFacts DEF IInv, TypeOK
<1>3. RunningView' = RunningView \ {v} /\ v \in RunningView
  <2>1. \A i : View(i)' = View(i)
    BY <1>1 DEF View, Request
  <2>2. RunningView' = {View(i)' : i \in running'}
    BY DEF RunningView, View
  <2>3. RunningView' = {View(i) : i \in running \ {b}}
    BY <1>1, <2>1, <2>2
  <2>. QED  BY <1>1, <2>3, ViewFacts
<1>4. v.node = m /\ v.held = Request(b)
  BY DEF View
<1>. HIDE DEF v, b
<1>5. ASSUME NEW d \in Dim
      PROVE  free[n][d] + HandedBack(n, t, d) <= free'[n][d] + HandedBack(n, t, d)'
  <2>1. HandedBack(n, t, d)' = HeldIn(Leaving(n, t)', d)
    BY DEF HandedBack, HeldIn
  <2>2. /\ free[n][d] \in Nat /\ Request(b)[d] \in Nat
        /\ HandedBack(n, t, d) \in Nat
    BY <1>2, HandedBackIsNat DEF Resources
  <2>3. free[n][d] <= free'[n][d] /\ free'[n][d] \in Nat
    BY <1>1, <1>2, <2>2 DEF Plus
  <2>4. CASE v \notin Leaving(n, t)
    <3>1. Leaving(n, t)' = Leaving(n, t)
      BY <1>3, <2>4 DEF Leaving
    <3>2. HandedBack(n, t, d)' = HandedBack(n, t, d)
      BY <2>1, <3>1 DEF HandedBack
    <3>. QED  BY <2>2, <2>3, <3>2
  <2>5. CASE v \in Leaving(n, t)
    <3>. DEFINE L == Leaving(n, t) \ {v}
    <3>1. Leaving(n, t)' = L /\ Leaving(n, t) = L \cup {v} /\ v \notin L /\ n = m
      BY <1>3, <1>4, <2>5 DEF Leaving
    <3>2. IsFiniteSet(L) /\ \A r \in L \cup {v} : r.held[d] \in Nat
      BY <3>1, ViewFacts, HandedBackIsNat, FS_Subset DEF Leaving, Resources
    <3>. HIDE DEF L
    <3>3. HandedBack(n, t, d) = HandedBack(n, t, d)' + Request(b)[d]
      <4>1. HeldIn(L \cup {v}, d) = HeldIn(L, d) + v.held[d]
        <5>1. v \notin L
          BY <3>1
        <5>2. IsFiniteSet(L)
          BY <3>2
        <5>3. \A r \in L \cup {v} : r.held[d] \in Nat
          BY <3>2
        <5>. QED  BY <5>1, <5>2, <5>3, OneMoreLeaving
      <4>2. HandedBack(n, t, d) = HeldIn(L \cup {v}, d)
        BY <3>1 DEF HandedBack
      <4>3. HandedBack(n, t, d)' = HeldIn(L, d)
        BY <2>1, <3>1
      <4>. QED  BY <1>4, <4>1, <4>2, <4>3
    <3>4. free'[n][d] = free[n][d] + Request(b)[d]
      BY <1>1, <1>2, <3>1 DEF Plus
    <3>5. HandedBack(n, t, d)' \in Nat
      <4>1. \A r \in L : [x \in L |-> x.held[d]][r] \in Nat
        BY <3>2
      <4>2. SumOver(L, [x \in L |-> x.held[d]]) \in Nat
        BY <3>2, <4>1, SumType
      <4>. QED  BY <2>1, <3>1, <4>2 DEF HeldIn
    <3>. QED  BY <2>2, <3>3, <3>4, <3>5
  <2>. QED  BY <2>4, <2>5
<1>6. \A d \in Dim : /\ free[n][d] + HandedBack(n, t, d) \in Nat
                     /\ free'[n][d] + HandedBack(n, t, d)' \in Nat
                     /\ Request(k)[d] \in Nat
  <2>1. \A d \in Dim : HandedBack(n, t, d) \in Nat /\ HandedBack(n, t, d)' \in Nat
    BY HandedBackIsNat, HandedBackIsNatPrimed
  <2>2. \A d \in Dim : free[n][d] \in Nat /\ free'[n][d] \in Nat
    BY <1>2 DEF IInv, TypeOK, Resources
  <2>3. \A d \in Dim : Request(k)[d] \in Nat
    BY JobFacts DEF IInv, TypeOK, Resources
  <2>. QED  BY <2>1, <2>2, <2>3
<1>7. Request(k)' = Request(k)
  BY DEF Request
<1>. QED  BY <1>5, <1>6, <1>7 DEF RoomBy

--------------------------------------------------------------------------------
(* The reservation never recedes *)

\* RoomIsReservation, of the next state.
LEMMA RoomIsReservationPrimed ==
    IInv' =>
        (pending # <<>> =>
            \A n \in NodeId, t \in Nat :
                now <= t /\ RoomBy(n, t, Head(pending)) => HeadShadow # kNever /\ HeadShadow <= t)'
<1>1. IInv =>
        (pending # <<>> =>
            \A n \in NodeId, t \in Nat :
                now <= t /\ RoomBy(n, t, Head(pending)) => HeadShadow # kNever /\ HeadShadow <= t)
  BY RoomIsReservation
<1>. QED  BY <1>1, PTL

\* What is backfilled is predicted to be gone when the reservation is due.
LEMMA PickAdmitted ==
    ASSUME IInv, pending # <<>>, NEW j \in Pick
    PROVE  HeadShadow # kNever /\ now + workload[j].estimated_duration <= HeadShadow
<1>1. pending \in Seq(JobId) /\ Len(pending) \in Nat /\ policy \in QueuePolicyNames
  BY SimulatorAssumption DEF IInv, TypeOK
<1>2. Len(BacklogView) = Len(pending) /\ Len(pending) # 0
  BY <1>1, EmptySeq DEF BacklogView
<1>3. BacklogView[1].request = Request(Head(pending))
  BY <1>1, <1>2 DEF BacklogView
<1>4. j \in EasyBackfill(BacklogView, free, RunningView, now)
  BY <1>1 DEF Pick, BackfillPick, QueuePolicyNames
<1>5. ShadowTime(BacklogView[1].request, free, RunningView, now) = HeadShadow
  BY <1>3 DEF HeadShadow
<1>6. /\ HeadShadow # kNever
      /\ \E i \in 2 .. Len(BacklogView) :
            j = BacklogView[i].id /\ Admissible(BacklogView[i], HeadShadow, free, now)
  BY <1>4, <1>5 DEF EasyBackfill
<1>7. PICK i \in 2 .. Len(pending) :
        j = BacklogView[i].id /\ Admissible(BacklogView[i], HeadShadow, free, now)
  BY <1>2, <1>6
<1>8. i \in 1 .. Len(pending)
  BY <1>1
<1>9. /\ BacklogView[i].id = pending[i]
      /\ BacklogView[i].estimated_duration = workload[pending[i]].estimated_duration
  BY <1>8 DEF BacklogView
<1>. QED  BY <1>6, <1>7, <1>9 DEF Admissible

\* While the head waits, no step moves its reservation to a later tick.
LEMMA NeverRecedes ==
    ASSUME IInv, IInv', [Next]_vars, pc \in {"run", "backfill"},
           pending # <<>>, pending' # <<>>, Head(pending') = Head(pending), HeadShadow # kNever
    PROVE  HeadShadow' # kNever /\ HeadShadow' <= HeadShadow
<1>1. PICK h \in JobId : h = Head(pending)
  BY EmptySeq DEF IInv, TypeOK
<1>2. ~ FitsAnywhere(Request(Head(pending)), free)
  BY DEF IInv, ControlInv
<1>3. PICK r \in RunningView :
        HeadShadow = r.estimated_finish /\ RoomBy(r.node, HeadShadow, Head(pending))
  BY <1>2, ReservationIsRoom
<1>4. PICK n \in NodeId, t \in Nat :
        /\ t = HeadShadow /\ RoomBy(n, t, h) /\ now <= t
        /\ \E f \in heap : f.time <= t
  BY <1>1, <1>3, ViewFacts
<1>5. workload' = workload /\ Effect
  BY StepEffect
<1>6. now' <= t /\ RoomBy(n, t, h)'
  <2>1. ASSUME NEW e \in heap, Jumps(e)
        PROVE  now' <= t
    <3>1. now' = e.time /\ \A f \in heap : e.time <= f.time
      BY <2>1 DEF Jumps
    <3>. QED  BY <1>4, <3>1, ConfigFacts, <1>5
  <2>2. CASE \E e \in heap : ArrivalEffect(e) \/ EndEffect(e)
    <3>1. PICK e \in heap : ArrivalEffect(e) \/ EndEffect(e)
      BY <2>2
    <3>2. Jumps(e) /\ UNCHANGED <<running, node, start_time, free>>
      BY <3>1 DEF ArrivalEffect, EndEffect, Jumps
    <3>. QED  BY <1>4, <1>5, <2>1, <3>2, QuietKeepsRoom
  <2>3. CASE \E e \in heap : FinishEffect(e)
    <3>1. PICK e \in heap : FinishEffect(e)
      BY <2>3
    <3>2. Jumps(e)
      BY <3>1 DEF FinishEffect
    <3>. QED  BY <1>4, <1>5, <2>1, <3>1, <3>2, FinishKeepsRoom
  <2>4. CASE \E j \in JobId, m \in NodeId : StartEffect(j, m)
    <3>1. PICK j \in JobId, m \in NodeId : StartEffect(j, m)
      BY <2>4
    <3>2. j \in Pick /\ now' = now
      BY <3>1 DEF StartEffect
    <3>3. now + workload[j].estimated_duration <= t
      BY <1>4, <3>2, PickAdmitted
    <3>. QED  BY <1>4, <1>5, <3>1, <3>2, <3>3, StartKeepsRoom
  <2>5. CASE QuietEffect
    <3>1. now' = now /\ UNCHANGED <<running, node, start_time, free>>
      BY <2>5 DEF QuietEffect
    <3>. QED  BY <1>4, <1>5, <3>1, QuietKeepsRoom
  <2>. QED  BY <1>5, <2>2, <2>3, <2>4, <2>5 DEF Effect
<1>7. RoomBy(n, t, Head(pending))'
  BY <1>1, <1>6 DEF RoomBy, HandedBack, HeldIn, Leaving
<1>. QED  BY <1>4, <1>6, <1>7, RoomIsReservationPrimed

\* The reservation of a blocked head never moves to a later tick, whatever is
\* backfilled around it, arrives behind it or finishes before its estimate.
THEOREM ReservationsStand == Spec => ReservationNeverRecedes
<1>1. IInv /\ IInv' /\ [Next]_vars =>
        [/\ pc \in {"run", "backfill"} /\ pending # <<>>
         /\ pending' # <<>> /\ Head(pending') = Head(pending)
         /\ HeadShadow # kNever
         => HeadShadow' # kNever /\ HeadShadow' <= HeadShadow]_vars
  BY NeverRecedes
<1>. QED  BY <1>1, Invariance, PTL DEF Spec, ReservationNeverRecedes

--------------------------------------------------------------------------------
(* The promise is kept *)

\* A promise is made to the head of the backlog alone.  While it waits its
\* reservation is no later than what it was promised; once it has started,
\* so is its start.
PromiseInv ==
    /\ promised \in [JobId -> Nat \cup {kNever}]
    /\ \A j \in JobId :
        promised[j] # kNever =>
            IF state[j] = "Queued"
            THEN /\ pending # <<>> /\ j = Head(pending)
                 /\ HeadShadow # kNever /\ HeadShadow <= promised[j]
            ELSE start_time[j] <= promised[j]

\* A step at which nobody is promised anything keeps what was promised.
LEMMA PromiseKept ==
    ASSUME IInv, IInv', PromiseInv, [Next]_vars, promised' = promised
    PROVE  PromiseInv'
<1>1. workload' = workload /\ JobId' = JobId /\ Effect
  BY StepEffect DEF JobId
<1>2. ASSUME NEW j \in JobId, promised[j] # kNever
      PROVE  IF state'[j] = "Queued"
             THEN /\ pending' # <<>> /\ j = Head(pending')
                  /\ HeadShadow' # kNever /\ HeadShadow' <= promised[j]
             ELSE start_time'[j] <= promised[j]
  <2>0. /\ state \in [JobId -> JobState] /\ start_time \in [JobId -> Nat \cup {kNever}]
        /\ pending \in Seq(JobId) /\ promised[j] \in Nat /\ now \in Nat
    BY <1>2 DEF IInv, TypeOK, PromiseInv
  <2>1. ASSUME state[j] = "Queued", state'[j] = "Queued", pc \in {"run", "backfill"},
               pending' # <<>>, Head(pending') = Head(pending)
        PROVE  /\ pending' # <<>> /\ j = Head(pending')
               /\ HeadShadow' # kNever /\ HeadShadow' <= promised[j]
    <3>1. /\ pending # <<>> /\ j = Head(pending)
          /\ HeadShadow # kNever /\ HeadShadow <= promised[j]
      BY <1>2, <2>1 DEF PromiseInv
    <3>2. HeadShadow' # kNever /\ HeadShadow' <= HeadShadow
      BY <2>1, <3>1, NeverRecedes
    <3>3. HeadShadow \in Nat
      BY <3>1, ReservationAhead
    <3>4. HeadShadow' \in Nat
      BY <2>1, <3>2, ReservationAheadPrimed
    <3>. QED  BY <2>0, <2>1, <3>1, <3>2, <3>3, <3>4
  <2>2. CASE \E e \in heap : ArrivalEffect(e) \/ FinishEffect(e) \/ EndEffect(e)
    <3>1. PICK e \in heap : ArrivalEffect(e) \/ FinishEffect(e) \/ EndEffect(e)
      BY <2>2
    <3>2. pc = "run" /\ start_time' = start_time
      BY <3>1 DEF ArrivalEffect, FinishEffect, EndEffect, Jumps
    <3>3. state'[j] = "Queued" <=> state[j] = "Queued"
      BY <2>0, <3>1 DEF ArrivalEffect, FinishEffect, EndEffect
    <3>4. ASSUME pending # <<>>
          PROVE  pending' # <<>> /\ Head(pending') = Head(pending)
      <4>1. CASE pending' = pending
        BY <3>4, <4>1
      <4>2. CASE ArrivalEffect(e)
        <5>1. pending' = Append(pending, e.payload.job) /\ e.payload.job \in JobId
          BY <4>2 DEF ArrivalEffect
        <5>. QED  BY <2>0, <3>4, <5>1
      <4>. QED  BY <3>1, <4>1, <4>2 DEF FinishEffect, EndEffect
    <3>. QED  BY <1>2, <2>1, <3>2, <3>3, <3>4 DEF PromiseInv
  <2>3. CASE \E k \in JobId, n \in NodeId : StartEffect(k, n)
    <3>1. PICK k \in JobId, n \in NodeId : StartEffect(k, n)
      BY <2>3
    <3>2. /\ state[k] = "Queued" /\ state' = [state EXCEPT ![k] = "Running"]
          /\ start_time' = [start_time EXCEPT ![k] = now]
      BY <3>1 DEF StartEffect
    <3>3. CASE j = k
      <4>1. /\ pending # <<>> /\ j = Head(pending)
            /\ HeadShadow # kNever /\ HeadShadow <= promised[j]
        BY <1>2, <3>2, <3>3 DEF PromiseInv
      <4>2. HeadShadow \in Nat /\ now <= HeadShadow
        BY <4>1, ReservationAhead
      <4>3. state'[j] = "Running" /\ start_time'[j] = now
        BY <2>0, <3>2, <3>3
      <4>. QED  BY <2>0, <4>1, <4>2, <4>3
    <3>4. CASE j # k /\ state[j] # "Queued"
      BY <1>2, <2>0, <3>2, <3>4 DEF PromiseInv
    <3>5. CASE j # k /\ state[j] = "Queued"
      <4>1. j = Head(pending)
        BY <1>2, <3>5 DEF PromiseInv
      <4>2. pc = "backfill" /\ pending' # <<>> /\ Head(pending') = Head(pending)
        BY <3>1, <3>5, <4>1 DEF StartEffect
      <4>3. state'[j] = "Queued"
        BY <2>0, <3>2, <3>5
      <4>. QED  BY <2>1, <3>5, <4>2, <4>3
    <3>. QED  BY <3>3, <3>4, <3>5
  <2>4. CASE QuietEffect
    <3>1. UNCHANGED <<state, start_time, pending, running, node, free, now>>
      BY <2>4 DEF QuietEffect
    <3>2. HeadShadow' = HeadShadow
      BY <1>1, <3>1 DEF HeadShadow, Request, RunningView
    <3>. QED  BY <1>2, <3>1, <3>2 DEF PromiseInv
  <2>. QED  BY <1>1, <2>2, <2>3, <2>4 DEF Effect
<1>. QED  BY <1>1, <1>2 DEF PromiseInv

\* A head that blocks is promised its reservation.
LEMMA PromiseMade ==
    ASSUME IInv, IInv', PromiseInv, [Next]_vars, pc = "drain", pc' = "backfill",
           promised' = [promised EXCEPT ![Head(pending)] = HeadShadow']
    PROVE  PromiseInv'
<1>1. workload' = workload /\ JobId' = JobId /\ Effect
  BY StepEffect DEF JobId
<1>2. QuietEffect /\ pending # <<>>
  BY <1>1 DEF Effect, ArrivalEffect, FinishEffect, EndEffect, Jumps, StartEffect, QuietEffect
<1>3. UNCHANGED <<state, start_time, pending, running, node, free, now>>
  BY <1>2 DEF QuietEffect
<1>4. HeadShadow' = HeadShadow
  BY <1>1, <1>3 DEF HeadShadow, Request, RunningView
<1>5. HeadShadow \in Nat \cup {kNever}
  BY <1>2, ShadowIsTick
<1>6. PICK h \in JobId : h = Head(pending) /\ state[h] = "Queued"
  <2>1. pending \in Seq(JobId) /\ 1 \in DOMAIN pending /\ Head(pending) = pending[1]
    BY <1>2, EmptySeq DEF IInv, TypeOK
  <2>. QED  BY <2>1, ElementOfSeq DEF IInv, BacklogInv
<1>7. promised' = [promised EXCEPT ![h] = HeadShadow]
  BY <1>4, <1>6
<1>8. promised' \in [JobId' -> Nat \cup {kNever}]
  BY <1>1, <1>5, <1>7 DEF PromiseInv
<1>9. ASSUME NEW j \in JobId, promised'[j] # kNever
      PROVE  IF state'[j] = "Queued"
             THEN /\ pending' # <<>> /\ j = Head(pending')
                  /\ HeadShadow' # kNever /\ HeadShadow' <= promised'[j]
             ELSE start_time'[j] <= promised'[j]
  <2>1. CASE j = h
    <3>1. promised'[j] = HeadShadow
      BY <1>7, <2>1 DEF PromiseInv
    <3>. QED  BY <1>2, <1>3, <1>4, <1>5, <1>6, <1>9, <2>1, <3>1
  <2>2. CASE j # h
    <3>1. promised'[j] = promised[j]
      BY <1>7, <2>2 DEF PromiseInv
    <3>. QED  BY <1>3, <1>4, <1>9, <3>1 DEF PromiseInv
  <2>. QED  BY <2>1, <2>2
<1>. QED  BY <1>1, <1>8, <1>9 DEF PromiseInv

\* Under backfilling as under fifo, a head starts no later than the tick that
\* was reserved for it when it first blocked the backlog.
THEOREM HeadsStartInTime == ReservedSpec => []ReservationHonoured
<1>1. ReservedInit => IInv /\ PromiseInv
  BY InitInv DEF ReservedInit, PromiseInv
<1>2. IInv /\ PromiseInv /\ [ReservedNext]_<<vars, promised>> => IInv' /\ PromiseInv'
  <2>. SUFFICES ASSUME IInv, PromiseInv, [ReservedNext]_<<vars, promised>>
                PROVE  IInv' /\ PromiseInv'
    OBVIOUS
  <2>1. [Next]_vars /\ (Remember \/ promised' = promised)
    BY DEF ReservedNext
  <2>2. IInv'
    BY <2>1, NextPreserves
  <2>3. CASE promised' = promised
    BY <2>1, <2>2, <2>3, PromiseKept
  <2>4. CASE /\ pc = "drain" /\ pc' = "backfill"
             /\ promised' = [promised EXCEPT ![Head(pending)] = HeadShadow']
    BY <2>1, <2>2, <2>4, PromiseMade
  <2>. QED  BY <2>1, <2>2, <2>3, <2>4 DEF Remember
<1>3. IInv /\ PromiseInv => ReservationHonoured
  <2>. SUFFICES ASSUME IInv, PromiseInv, NEW j \in JobId, promised[j] # kNever
                PROVE  IF state[j] = "Queued" THEN now <= promised[j]
                                              ELSE start_time[j] <= promised[j]
    BY DEF ReservationHonoured
  <2>1. CASE state[j] = "Queued"
    <3>1. pending # <<>> /\ HeadShadow # kNever /\ HeadShadow <= promised[j]
      BY <2>1 DEF PromiseInv
    <3>2. HeadShadow \in Nat /\ now <= HeadShadow /\ now \in Nat /\ promised[j] \in Nat
      BY <3>1, ReservationAhead DEF IInv, TypeOK, PromiseInv
    <3>. QED  BY <2>1, <3>1, <3>2
  <2>2. CASE state[j] # "Queued"
    BY <2>2 DEF PromiseInv
  <2>. QED  BY <2>1, <2>2
<1>. QED  BY <1>1, <1>2, <1>3, PTL DEF ReservedSpec

--------------------------------------------------------------------------------
(* The promise of the event queue, to any client *)

\* The heap holds finitely many events, no two with the same number and each
\* with one that has been given out.
HeapInv ==
    /\ IsFiniteSet(heap)
    /\ next_seq \in Nat
    /\ \A e \in heap : /\ e.time \in Times /\ e.payload \in Payloads
                       /\ e.seq \in Nat /\ e.seq < next_seq
    /\ \A e, other \in heap : e.seq = other.seq => e = other

\* The events of H that are popped before e, and the one with k before it.
InFront(H, e) == {other \in H : EarliestFirst(e, other)}
EventAt(H, k) == CHOOSE e \in H : Cardinality(InFront(H, e)) = k - 1

\* Events that compare: no two are equal for the comparator.
Ordered(H) ==
    /\ IsFiniteSet(H)
    /\ \A e \in H : e.time \in Nat /\ e.seq \in Nat
    /\ \A e, other \in H : e.seq = other.seq => e = other

\* In the order of the comparator every event has a place of its own, and
\* every place from the first to the last has its event.
LEMMA PlacesAreFilled ==
    ASSUME NEW H, Ordered(H)
    PROVE  /\ Cardinality(H) \in Nat
           /\ \A e \in H : /\ Cardinality(InFront(H, e)) \in 0 .. Cardinality(H) - 1
                           /\ EventAt(H, Cardinality(InFront(H, e)) + 1) = e
           /\ \A k \in 1 .. Cardinality(H) : /\ EventAt(H, k) \in H
                                             /\ Cardinality(InFront(H, EventAt(H, k))) = k - 1
<1>. DEFINE n == Cardinality(H)
            ahead == [e \in H |-> Cardinality(InFront(H, e))]
<1>1. IsFiniteSet(H) /\ n \in Nat
  BY FS_CardinalityType DEF Ordered
<1>2. \A e \in H : /\ InFront(H, e) \subseteq H /\ e \notin InFront(H, e)
                   /\ IsFiniteSet(InFront(H, e)) /\ Cardinality(InFront(H, e)) \in Nat
  <2>1. ASSUME NEW e \in H PROVE InFront(H, e) \subseteq H /\ e \notin InFront(H, e)
    BY DEF InFront, EarliestFirst, Ordered
  <2>. QED  BY <1>1, <2>1, FS_Subset, FS_CardinalityType
<1>3. ASSUME NEW e \in H PROVE ahead[e] \in 0 .. n - 1
  <2>1. Cardinality(InFront(H, e)) <= n
    BY <1>1, <1>2, FS_Subset
  <2>2. Cardinality(InFront(H, e)) # n
    <3>1. InFront(H, e) # H
      BY <1>2
    <3>. QED  BY <1>1, <1>2, <3>1, FS_Subset
  <2>. QED  BY <1>1, <1>2, <2>1, <2>2
<1>4. ASSUME NEW e \in H, NEW o \in H, EarliestFirst(e, o) PROVE ahead[o] < ahead[e]
  <2>1. InFront(H, o) \subseteq InFront(H, e)
    BY <1>4 DEF InFront, EarliestFirst, Ordered
  <2>2. o \in InFront(H, e) /\ o \notin InFront(H, o)
    BY <1>2, <1>4 DEF InFront
  <2>3. Cardinality(InFront(H, o)) <= Cardinality(InFront(H, e))
    BY <1>2, <2>1, FS_Subset
  <2>4. Cardinality(InFront(H, o)) # Cardinality(InFront(H, e))
    BY <1>2, <2>1, <2>2, FS_Subset
  <2>. QED  BY <1>2, <2>3, <2>4
<1>5. ASSUME NEW e \in H, NEW o \in H, ahead[e] = ahead[o] PROVE e = o
  <2>1. e.time \in Nat /\ o.time \in Nat /\ e.seq \in Nat /\ o.seq \in Nat
    BY DEF Ordered
  <2>2. e = o \/ EarliestFirst(e, o) \/ EarliestFirst(o, e)
    <3>1. e.seq # o.seq \/ e = o
      BY DEF Ordered
    <3>. QED  BY <2>1, <3>1 DEF EarliestFirst
  <2>3. ahead[e] \in Int /\ ahead[o] \in Int
    BY <1>3
  <2>. HIDE DEF ahead
  <2>. QED  BY <1>4, <1>5, <2>2, <2>3
<1>6. \A m \in 0 .. n - 1 : \E e \in H : ahead[e] = m
  <2>1. ahead \in [H -> 0 .. n - 1]
    BY <1>3
  <2>2. \A e, o \in H : ahead[e] = ahead[o] => e = o
    BY <1>5
  <2>. HIDE DEF ahead
  <2>. QED  BY <1>1, <2>1, <2>2, NumbersAllTaken
<1>7. ASSUME NEW k \in 1 .. n
      PROVE  EventAt(H, k) \in H /\ Cardinality(InFront(H, EventAt(H, k))) = k - 1
  <2>1. k - 1 \in 0 .. n - 1
    BY <1>1
  <2>2. PICK e \in H : ahead[e] = k - 1
    <3>. HIDE DEF ahead, n
    <3>. QED  BY <1>6, <2>1
  <2>3. Cardinality(InFront(H, e)) = k - 1
    BY <2>2
  <2>. QED  BY <2>3 DEF EventAt
<1>8. ASSUME NEW e \in H PROVE EventAt(H, ahead[e] + 1) = e
  <2>. DEFINE k == ahead[e] + 1
  <2>1. k \in 1 .. n /\ k - 1 = ahead[e]
    <3>. HIDE DEF ahead, n
    <3>. QED  BY <1>1, <1>3
  <2>. HIDE DEF k
  <2>2. EventAt(H, k) \in H /\ ahead[EventAt(H, k)] = ahead[e]
    BY <1>7, <2>1
  <2>. HIDE DEF ahead, n
  <2>3. EventAt(H, k) = e
    BY <1>5, <2>2
  <2>. QED  BY <2>3 DEF k
<1>. QED  BY <1>1, <1>3, <1>7, <1>8

LEMMA HeapIsOrdered == ASSUME HeapInv PROVE Ordered(heap)
  BY TimedQueueAssumption DEF HeapInv, Ordered

\* The agenda, entry by entry.
EntryOf(e) == [time |-> e.time, payload |-> e.payload]

LEMMA AgendaFacts ==
    ASSUME HeapInv
    PROVE  /\ AgendaOf = [k \in 1 .. Cardinality(heap) |-> EntryOf(EventAt(heap, k))]
           /\ AgendaOf \in Seq([time : Times, payload : Payloads])
           /\ Len(AgendaOf) = Cardinality(heap)
<1>1. AgendaOf = [k \in 1 .. Cardinality(heap) |-> EntryOf(EventAt(heap, k))]
  BY DEF AgendaOf, Ahead, EntryOf, EventAt, InFront
<1>2. Cardinality(heap) \in Nat /\ \A k \in 1 .. Cardinality(heap) : EventAt(heap, k) \in heap
  BY HeapIsOrdered, PlacesAreFilled
<1>3. \A k \in 1 .. Cardinality(heap) : EntryOf(EventAt(heap, k)) \in [time : Times, payload : Payloads]
  BY <1>2 DEF HeapInv, EntryOf
<1>4. AgendaOf \in Seq([time : Times, payload : Payloads]) /\ Len(AgendaOf) = Cardinality(heap)
  <2>. DEFINE n == Cardinality(heap)
              Entry == [time : Times, payload : Payloads]
              agenda == [k \in 1 .. n |-> EntryOf(EventAt(heap, k))]
  <2>1. agenda \in [1 .. n -> Entry] /\ n \in Nat
    BY <1>2, <1>3
  <2>. HIDE DEF n, Entry, agenda
  <2>2. agenda \in Seq(Entry) /\ Len(agenda) = n
    BY <2>1
  <2>. QED  BY <1>1, <2>2 DEF n, Entry, agenda
<1>. QED  BY <1>1, <1>4

\* Scheduling an event puts its entry behind those that are due no later: the
\* new event has the greatest number of all.
LEMMA ScheduleEnters ==
    ASSUME HeapInv, NEW time \in Times, NEW payload \in Payloads, Schedule(time, payload)
    PROVE  /\ HeapInv'
           /\ AgendaOf' = Promise!PutBehind(Cardinality({k \in DOMAIN AgendaOf : AgendaOf[k].time <= time}),
                                            [time |-> time, payload |-> payload])
<1>. DEFINE x == [time |-> time, seq |-> next_seq, payload |-> payload]
            n == Cardinality(heap)
            later == heap \cup {x}
            L == {e \in heap : e.time <= time}
            K == Cardinality(L)
<1>1. heap' = later /\ next_seq' = next_seq + 1
  BY DEF Schedule
<1>2. /\ IsFiniteSet(heap) /\ x \notin heap /\ next_seq \in Nat /\ time \in Nat
      /\ x.time = time /\ x.seq = next_seq /\ x.payload = payload
      /\ n \in Nat
  BY TimedQueueAssumption, FS_CardinalityType DEF HeapInv
<1>3. \A e \in heap : /\ e.time \in Nat /\ e.seq \in Nat /\ e.seq < next_seq /\ e.seq # next_seq
  <2>1. ASSUME NEW e \in heap
        PROVE  e.time \in Nat /\ e.seq \in Nat /\ e.seq < next_seq /\ e.seq # next_seq
    <3>1. e.time \in Nat /\ e.seq \in Nat /\ e.seq < next_seq
      BY TimedQueueAssumption DEF HeapInv
    <3>. QED  BY <1>2, <3>1
  <2>. QED  BY <2>1
<1>. HIDE DEF x
<1>4. HeapInv'
  <2>1. IsFiniteSet(later)
    BY <1>2, FS_AddElement
  <2>2. \A e \in later : /\ e.time \in Times /\ e.payload \in Payloads
                         /\ e.seq \in Nat /\ e.seq < next_seq + 1
    <3>1. ASSUME NEW e \in heap
          PROVE  /\ e.time \in Times /\ e.payload \in Payloads
                 /\ e.seq \in Nat /\ e.seq < next_seq + 1
      <4>1. e.time \in Times /\ e.payload \in Payloads /\ e.seq \in Nat /\ e.seq < next_seq
        BY DEF HeapInv
      <4>. QED  BY <1>2, <4>1
    <3>2. /\ x.time \in Times /\ x.payload \in Payloads
          /\ x.seq \in Nat /\ x.seq < next_seq + 1
      BY <1>2
    <3>. QED  BY <3>1, <3>2
  <2>3. \A e, other \in later : e.seq = other.seq => e = other
    BY <1>2, <1>3 DEF HeapInv
  <2>. HIDE DEF later
  <2>. QED  BY <1>1, <1>2, <2>1, <2>2, <2>3 DEF HeapInv
<1>5. Ordered(later) /\ Cardinality(later) = n + 1
  <2>1. Ordered(later)
    <3>1. Ordered(heap)'
      BY <1>4, HeapIsOrdered, PTL
    <3>. QED  BY <1>1, <3>1 DEF Ordered
  <2>. QED  BY <1>2, <2>1, FS_AddElement
<1>6. Ordered(heap)
  BY HeapIsOrdered
<1>7. InFront(later, x) = L
  BY <1>2, <1>3 DEF InFront, EarliestFirst
<1>8. IsFiniteSet(L) /\ K \in Nat /\ K <= n
  <2>1. L \subseteq heap
    OBVIOUS
  <2>. QED  BY <1>2, <2>1, FS_Subset, FS_CardinalityType
<1>9. \A e \in L : InFront(later, e) = InFront(heap, e)
  <2>1. ASSUME NEW e \in L PROVE ~ EarliestFirst(e, x)
    <3>1. e.time <= time /\ e.time \in Nat /\ e.seq \in Nat /\ e.seq < next_seq
      BY <1>3
    <3>. QED  BY <1>2, <3>1 DEF EarliestFirst
  <2>. QED  BY <2>1 DEF InFront
<1>10. ASSUME NEW e \in heap \ L
       PROVE  Cardinality(InFront(later, e)) = Cardinality(InFront(heap, e)) + 1
  <2>1. InFront(later, e) = InFront(heap, e) \cup {x} /\ x \notin InFront(heap, e)
    BY <1>2, <1>3 DEF InFront, EarliestFirst
  <2>2. IsFiniteSet(InFront(heap, e))
    <3>1. InFront(heap, e) \subseteq heap
      BY DEF InFront
    <3>. QED  BY <1>2, <3>1, FS_Subset
  <2>. QED  BY <2>1, <2>2, FS_AddElement
<1>11. ASSUME NEW e \in heap
       PROVE  e \in L <=> Cardinality(InFront(heap, e)) < K
  <2>1. IsFiniteSet(InFront(heap, e)) /\ Cardinality(InFront(heap, e)) \in Nat
    <3>1. InFront(heap, e) \subseteq heap
      BY DEF InFront
    <3>. QED  BY <1>2, <3>1, FS_Subset, FS_CardinalityType
  <2>2. CASE e \in L
    <3>1. InFront(heap, e) \subseteq L /\ e \notin InFront(heap, e)
      BY <1>2, <1>3, <2>2 DEF InFront, EarliestFirst
    <3>2. Cardinality(InFront(heap, e)) <= K
      BY <1>8, <3>1, FS_Subset
    <3>3. Cardinality(InFront(heap, e)) # K
      BY <1>8, <2>2, <3>1, FS_Subset
    <3>. QED  BY <1>8, <2>1, <2>2, <3>2, <3>3
  <2>3. CASE e \notin L
    <3>1. L \subseteq InFront(heap, e)
      BY <1>2, <1>3, <2>3 DEF InFront, EarliestFirst
    <3>2. K <= Cardinality(InFront(heap, e))
      BY <2>1, <3>1, FS_Subset
    <3>. HIDE DEF L
    <3>. QED  BY <1>8, <2>1, <2>3, <3>2
  <2>. QED  BY <2>2, <2>3
<1>12. \A k \in 1 .. n : EventAt(heap, k) \in heap /\ Cardinality(InFront(heap, EventAt(heap, k))) = k - 1
  BY <1>6, PlacesAreFilled
<1>13. /\ AgendaOf = [k \in 1 .. n |-> EntryOf(EventAt(heap, k))]
       /\ Len(AgendaOf) = n /\ DOMAIN AgendaOf = 1 .. n
  BY AgendaFacts
<1>14. Cardinality({k \in DOMAIN AgendaOf : AgendaOf[k].time <= time}) = K
  <2>1. ASSUME NEW k \in 1 .. n PROVE AgendaOf[k].time <= time <=> k <= K
    <3>1. AgendaOf[k].time = EventAt(heap, k).time
      BY <1>13 DEF EntryOf
    <3>2. AgendaOf[k].time <= time <=> EventAt(heap, k) \in L
      BY <1>12, <3>1
    <3>3. AgendaOf[k].time <= time <=> k - 1 < K
      <4>. HIDE DEF K, L
      <4>. QED  BY <1>11, <1>12, <3>2
    <3>. HIDE DEF K, n
    <3>. QED  BY <1>2, <1>8, <3>3
  <2>2. {k \in DOMAIN AgendaOf : AgendaOf[k].time <= time} = 1 .. K
    <3>1. {k \in DOMAIN AgendaOf : AgendaOf[k].time <= time} = {k \in 1 .. n : k <= K}
      BY <1>13, <2>1
    <3>2. {k \in 1 .. n : k <= K} = 1 .. K
      <4>. HIDE DEF K, n
      <4>. QED  BY <1>2, <1>8
    <3>. QED  BY <3>1, <3>2
  <2>3. Cardinality(1 .. K) = K
    <3>. HIDE DEF K
    <3>1. 1 \in Int /\ K \in Int /\ (1 > K => K = 0) /\ K - 1 + 1 = K
      BY <1>8
    <3>. QED  BY <3>1, FS_Interval
  <2>. QED  BY <2>2, <2>3
<1>15. AgendaOf' = [k \in 1 .. n + 1 |-> EntryOf(EventAt(later, k))]
  <2>1. AgendaOf' = [k \in 1 .. Cardinality(heap') |-> EntryOf(EventAt(heap', k))]
    BY DEF AgendaOf, Ahead, EntryOf, EventAt, InFront
  <2>. QED  BY <1>1, <1>5, <2>1
<1>16. ASSUME NEW k \in 1 .. n + 1
       PROVE  EntryOf(EventAt(later, k)) = IF k <= K THEN AgendaOf[k]
                                          ELSE IF k = K + 1 THEN EntryOf(x)
                                          ELSE AgendaOf[k - 1]
  <2>1. \A e \in later : EventAt(later, Cardinality(InFront(later, e)) + 1) = e
    BY <1>5, PlacesAreFilled
  <2>2. CASE k <= K
    <3>. DEFINE e == EventAt(heap, k)
    <3>1. k \in 1 .. n /\ k - 1 < K
      <4>. HIDE DEF K, n
      <4>. QED  BY <1>2, <1>8, <2>2
    <3>2. e \in L /\ Cardinality(InFront(heap, e)) = k - 1
      BY <1>11, <1>12, <3>1
    <3>3. Cardinality(InFront(later, e)) + 1 = k /\ e \in later
      <4>1. Cardinality(InFront(later, e)) = k - 1 /\ e \in later
        BY <1>9, <3>2
      <4>. QED  BY <1>2, <3>1, <4>1
    <3>4. EventAt(later, k) = e
      BY <2>1, <3>3
    <3>. QED  BY <1>13, <2>2, <3>1, <3>4
  <2>3. CASE k = K + 1
    <3>1. EventAt(later, k) = x
      <4>1. x \in later /\ Cardinality(InFront(later, x)) + 1 = k
        BY <1>7, <2>3
      <4>. QED  BY <2>1, <4>1
    <3>2. ~ (k <= K)
      <4>. HIDE DEF K
      <4>. QED  BY <1>8, <2>3
    <3>. QED  BY <2>3, <3>1, <3>2
  <2>4. CASE k > K + 1
    <3>. DEFINE e == EventAt(heap, k - 1)
    <3>1. k - 1 \in 1 .. n /\ ~ ((k - 1) - 1 < K) /\ ~ (k <= K) /\ k # K + 1
      <4>. HIDE DEF K, n
      <4>. QED  BY <1>2, <1>8, <2>4
    <3>2. e \in heap \ L /\ Cardinality(InFront(heap, e)) = (k - 1) - 1
      BY <1>11, <1>12, <3>1
    <3>3. Cardinality(InFront(later, e)) + 1 = k /\ e \in later
      <4>1. Cardinality(InFront(later, e)) = ((k - 1) - 1) + 1
        BY <1>10, <3>2
      <4>. QED  BY <1>2, <3>2, <4>1
    <3>4. EventAt(later, k) = e
      BY <2>1, <3>3
    <3>. QED  BY <1>13, <3>1, <3>4
  <2>. HIDE DEF K, n
  <2>. QED  BY <1>2, <1>8, <2>2, <2>3, <2>4
<1>17. EntryOf(x) = [time |-> time, payload |-> payload]
  BY <1>2 DEF EntryOf
<1>. HIDE DEF K, n, later
<1>18. AgendaOf' = [k \in 1 .. n + 1 |-> IF k <= K THEN AgendaOf[k]
                                        ELSE IF k = K + 1 THEN [time |-> time, payload |-> payload]
                                        ELSE AgendaOf[k - 1]]
  BY <1>15, <1>16, <1>17
<1>19. Promise!PutBehind(K, [time |-> time, payload |-> payload])
          = [k \in 1 .. n + 1 |-> IF k <= K THEN AgendaOf[k]
                                  ELSE IF k = K + 1 THEN [time |-> time, payload |-> payload]
                                  ELSE AgendaOf[k - 1]]
  BY <1>13 DEF Promise!PutBehind
<1>. QED  BY <1>4, <1>14, <1>18, <1>19


\* Popping the top takes the first entry off: nothing is in front of it, and
\* it is in front of everything else.
LEMMA PopServes ==
    ASSUME HeapInv, NEW top \in heap, Pop(top)
    PROVE  /\ HeapInv'
           /\ AgendaOf # <<>>
           /\ EntryOf(top) = Head(AgendaOf)
           /\ AgendaOf' = Tail(AgendaOf)
<1>. DEFINE n == Cardinality(heap)
            rest == heap \ {top}
<1>1. heap' = rest /\ next_seq' = next_seq /\ \A e \in rest : EarliestFirst(e, top)
  BY DEF Pop, Top
<1>2. IsFiniteSet(heap) /\ n \in Nat /\ Ordered(heap)
  BY HeapIsOrdered, FS_CardinalityType DEF HeapInv
<1>3. IsFiniteSet(rest) /\ Cardinality(rest) = n - 1 /\ n # 0
  BY <1>2, FS_RemoveElement, FS_EmptySet
<1>4. HeapInv'
  BY <1>1, <1>3 DEF HeapInv
<1>5. Ordered(rest)
  BY <1>2, <1>3 DEF Ordered
<1>6. InFront(heap, top) = {}
  <2>1. ASSUME NEW e \in heap, EarliestFirst(top, e) PROVE FALSE
    <3>1. e.time \in Nat /\ e.seq \in Nat /\ top.time \in Nat /\ top.seq \in Nat
      BY <1>2 DEF Ordered
    <3>2. e \in rest
      BY <2>1, <3>1 DEF EarliestFirst
    <3>3. EarliestFirst(e, top)
      BY <1>1, <3>2
    <3>. QED  BY <2>1, <3>1, <3>3 DEF EarliestFirst
  <2>. QED  BY <2>1 DEF InFront
<1>7. ASSUME NEW e \in rest
      PROVE  Cardinality(InFront(rest, e)) = Cardinality(InFront(heap, e)) - 1
  <2>1. InFront(rest, e) = InFront(heap, e) \ {top} /\ top \in InFront(heap, e)
    BY <1>1 DEF InFront
  <2>2. IsFiniteSet(InFront(heap, e))
    <3>1. InFront(heap, e) \subseteq heap
      BY DEF InFront
    <3>. QED  BY <1>2, <3>1, FS_Subset
  <2>. QED  BY <2>1, <2>2, FS_RemoveElement
<1>8. /\ \A e \in heap : EventAt(heap, Cardinality(InFront(heap, e)) + 1) = e
      /\ \A k \in 1 .. n : /\ EventAt(heap, k) \in heap
                           /\ Cardinality(InFront(heap, EventAt(heap, k))) = k - 1
  BY <1>2, PlacesAreFilled
<1>9. \A e \in rest : EventAt(rest, Cardinality(InFront(rest, e)) + 1) = e
  BY <1>5, PlacesAreFilled
<1>10. /\ AgendaOf = [k \in 1 .. n |-> EntryOf(EventAt(heap, k))]
       /\ AgendaOf \in Seq([time : Times, payload : Payloads])
       /\ Len(AgendaOf) = n
  BY AgendaFacts
<1>11. EventAt(heap, 1) = top
  <2>1. Cardinality(InFront(heap, top)) + 1 = 1
    BY <1>6, FS_EmptySet
  <2>. QED  BY <1>8, <2>1
<1>12. AgendaOf' = [k \in 1 .. n - 1 |-> EntryOf(EventAt(rest, k))]
  <2>1. AgendaOf' = [k \in 1 .. Cardinality(heap') |-> EntryOf(EventAt(heap', k))]
    BY DEF AgendaOf, Ahead, EntryOf, EventAt, InFront
  <2>. QED  BY <1>1, <1>3, <2>1
<1>13. ASSUME NEW k \in 1 .. n - 1
       PROVE  EventAt(rest, k) = EventAt(heap, k + 1)
  <2>. DEFINE e == EventAt(heap, k + 1)
  <2>1. k + 1 \in 1 .. n /\ (k + 1) - 1 # 0 /\ (k + 1) - 1 - 1 + 1 = k
    <3>. HIDE DEF n
    <3>. QED  BY <1>2
  <2>2. e \in heap /\ Cardinality(InFront(heap, e)) = (k + 1) - 1
    BY <1>8, <2>1
  <2>3. e \in rest
    BY <1>6, <2>1, <2>2, FS_EmptySet
  <2>4. Cardinality(InFront(rest, e)) + 1 = k
    BY <1>7, <2>1, <2>2, <2>3
  <2>. QED  BY <1>9, <2>3, <2>4
<1>. DEFINE agenda == AgendaOf
            Entry == [time : Times, payload : Payloads]
<1>14. agenda \in Seq(Entry) /\ Len(agenda) = n /\ \A k \in 1 .. n : agenda[k] = EntryOf(EventAt(heap, k))
  BY <1>10
<1>15. 1 \in 1 .. n /\ agenda[1] = EntryOf(top)
  <2>1. 1 \in 1 .. n
    <3>. HIDE DEF n
    <3>. QED  BY <1>2, <1>3
  <2>. QED  BY <1>11, <1>14, <2>1
<1>16. \A k \in 1 .. n - 1 : k + 1 \in 1 .. n /\ agenda[k + 1] = EntryOf(EventAt(rest, k))
  <2>1. \A k \in 1 .. n - 1 : k + 1 \in 1 .. n
    <3>. HIDE DEF n
    <3>. QED  BY <1>2
  <2>. QED  BY <1>13, <1>14, <2>1
<1>. HIDE DEF agenda, n, Entry, rest
<1>17. agenda # <<>> /\ Head(agenda) = EntryOf(top)
  BY <1>2, <1>3, <1>14, <1>15
<1>18. Tail(agenda) = [k \in 1 .. n - 1 |-> agenda[k + 1]]
  <2>1. Len(Tail(agenda)) = n - 1 /\ \A k \in 1 .. n - 1 : Tail(agenda)[k] = agenda[k + 1]
    BY <1>14, <1>17, HeadTailProperties
  <2>2. Tail(agenda) = [k \in 1 .. Len(Tail(agenda)) |-> Tail(agenda)[k]]
    <3>. DEFINE t == Tail(agenda)
    <3>1. t \in Seq(Entry)
      BY <1>14, <1>17, HeadTailProperties
    <3>. HIDE DEF t
    <3>2. t = [k \in 1 .. Len(t) |-> t[k]]
      BY <3>1
    <3>. QED  BY <3>2 DEF t
  <2>. QED  BY <2>1, <2>2
<1>19. Tail(agenda) = [k \in 1 .. n - 1 |-> EntryOf(EventAt(rest, k))]
  BY <1>16, <1>18
<1>. QED  BY <1>4, <1>12, <1>17, <1>19 DEF agenda

\* The agenda counts as the queue does.
LEMMA SameCardinality == \A S : Promise!Cardinality(S) = Cardinality(S)
  BY DEF Cardinality, Promise!Cardinality

\* The event queue of event_queue.hpp serves events by time and, within a tick,
\* in the order they were scheduled: every step of a client that schedules and
\* pops as it likes enters an entry in its place on the agenda or is served
\* the first one.
THEOREM QueueImplementsAgenda == ClientSpec => ImplementsAgenda
<1>1. ClientInit => HeapInv /\ Promise!Init
  <2>. SUFFICES ASSUME ClientInit PROVE HeapInv /\ Promise!Init
    OBVIOUS
  <2>1. heap = {} /\ next_seq = 0 /\ popped = Nothing
    BY DEF ClientInit, QueueInit
  <2>2. HeapInv
    BY <2>1, FS_EmptySet DEF HeapInv
  <2>3. AgendaOf = <<>>
    <3>1. Cardinality(heap) = 0
      BY <2>1, FS_EmptySet
    <3>. QED  BY <2>2, <3>1, AgendaFacts
  <2>. QED  BY <2>1, <2>2, <2>3 DEF Promise!Init
<1>2. HeapInv /\ [ClientNext]_<<heap, next_seq, popped>>
        => HeapInv' /\ [Promise!Next]_<<AgendaOf, popped>>
  <2>. SUFFICES ASSUME HeapInv, [ClientNext]_<<heap, next_seq, popped>>
                PROVE  HeapInv' /\ [Promise!Next]_<<AgendaOf, popped>>
    OBVIOUS
  <2>1. CASE UNCHANGED <<heap, next_seq, popped>>
    BY <2>1 DEF HeapInv, AgendaOf, Ahead
  <2>2. CASE ScheduleAny
    <3>1. PICK time \in Times, payload \in Payloads : Schedule(time, payload)
      BY <2>2 DEF ScheduleAny
    <3>2. popped' = popped
      BY <2>2 DEF ScheduleAny
    <3>3. /\ HeapInv'
          /\ AgendaOf' = Promise!PutBehind(Cardinality({k \in DOMAIN AgendaOf : AgendaOf[k].time <= time}),
                                           [time |-> time, payload |-> payload])
      BY <3>1, ScheduleEnters
    <3>4. Promise!Enter(time, payload)
      BY <3>2, <3>3, SameCardinality DEF Promise!Enter
    <3>. QED  BY <3>3, <3>4 DEF Promise!Next
  <2>3. CASE PopTop
    <3>1. PICK e \in heap : Pop(e) /\ popped' = [time |-> e.time, payload |-> e.payload]
      BY <2>3 DEF PopTop
    <3>2. /\ HeapInv' /\ AgendaOf # <<>> /\ EntryOf(e) = Head(AgendaOf)
          /\ AgendaOf' = Tail(AgendaOf)
      BY <3>1, PopServes
    <3>3. Promise!Serve
      BY <3>1, <3>2 DEF Promise!Serve, EntryOf
    <3>. QED  BY <3>2, <3>3 DEF Promise!Next
  <2>. QED  BY <2>1, <2>2, <2>3 DEF ClientNext
<1>. QED  BY <1>1, <1>2, PTL DEF ClientSpec, ImplementsAgenda, Promise!Spec

================================================================================
