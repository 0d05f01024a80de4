------------------------------ MODULE OutputProofs ------------------------------
(***************************************************************************)
(* Theorems about what a run puts out.  What is measured of it and         *)
(* reported: the utilization integral of Simulator, the report of module   *)
(* Report, and the order statistics in it, which module Percentiles reads  *)
(* back from a reordered sample.  And the file a traced run leaves: what   *)
(* its lines tell, and in which order.  A traced run is a run of the       *)
(* simulator, so the invariants of SimulatorProofs hold in it.             *)
(***************************************************************************)
EXTENDS Report, Percentiles, Trace, SimulatorTheorems

--------------------------------------------------------------------------------
(* The utilization integral *)

\* What job j has used of dimension d by the last advance of the integral.
Work(d) == [j \in JobId |-> IF state[j] = "Queued" THEN 0 ELSE Request(j)[d] * HeldFor(j)]

\* What job j is using of dimension d.
Load(d) == [j \in JobId |-> IF j \in running THEN Request(j)[d] ELSE 0]

\* How long a job has held its node is a number of ticks, and its work one of
\* units.
LEMMA WorkFacts ==
    ASSUME IInv, HistoryInv, NEW d \in Dim
    PROVE  /\ IsFiniteSet(JobId)
           /\ \A j \in JobId :
                /\ Request(j)[d] \in Nat
                /\ state[j] # "Queued" => HeldFor(j) \in Nat
                /\ Work(d)[j] \in Nat
                /\ Load(d)[j] \in Nat
<1>1. IsFiniteSet(JobId) /\ \A j \in JobId : Request(j)[d] \in Nat
  BY JobFacts DEF IInv, TypeOK, Resources
<1>2. ASSUME NEW j \in JobId, state[j] # "Queued"
      PROVE  HeldFor(j) \in Nat
  <2>1. /\ start_time[j] \in Nat /\ start_time[j] <= now
        /\ now \in Nat /\ last_checkin = now
    BY <1>2 DEF IInv, TypeOK, RecordsInv, ClockInv, HistoryInv, TimesInv
  <2>2. CASE state[j] = "Done"
    <3>1. /\ finish_time[j] = start_time[j] + workload[j].duration
          /\ workload[j].duration \in Nat
      BY <2>2, JobFacts DEF HistoryInv, TimesInv, IInv, TypeOK
    <3>. QED  BY <2>1, <2>2, <3>1 DEF HeldFor
  <2>3. CASE state[j] # "Done"
    BY <2>1, <2>3 DEF HeldFor
  <2>. QED  BY <2>2, <2>3
<1>3. \A j \in JobId : Work(d)[j] \in Nat
  BY <1>1, <1>2 DEF Work
<1>4. \A j \in JobId : Load(d)[j] \in Nat
  BY <1>1 DEF Load
<1>. QED  BY <1>1, <1>2, <1>3, <1>4

\* The sum of UtilizationExact, taken over all jobs.
LEMMA WorkOfAll ==
    ASSUME IInv, HistoryInv, NEW d \in Dim
    PROVE  LET Started == {j \in JobId : state[j] # "Queued"}
           IN  SumOver(Started, [j \in Started |-> Request(j)[d] * HeldFor(j)])
                    = SumOver(JobId, Work(d))
<1>. DEFINE Started == {j \in JobId : state[j] # "Queued"}
            part == [j \in Started |-> Request(j)[d] * HeldFor(j)]
<1>1. \A j \in Started : part[j] = Work(d)[j]
  BY DEF Work
<1>2. SumOver(Started, part) = SumOver(Started, Work(d))
  <2>. HIDE DEF Started, part
  <2>. QED  BY <1>1, SumCongruence
<1>3. Started \subseteq JobId /\ \A j \in JobId : j \notin Started => Work(d)[j] = 0
  BY DEF Work
<1>4. SumOver(JobId, Work(d)) = SumOver(Started, Work(d))
  <2>. HIDE DEF Started
  <2>. QED  BY <1>3, WorkFacts, SumRestrict
<1>. QED  BY <1>2, <1>4

\* What the cluster's totals say is in use is what the running jobs hold.
LEMMA UtilizedIsLoad ==
    ASSUME IInv, HistoryInv, NEW d \in Dim
    PROVE  TotalUtilized[d] = SumOver(JobId, Load(d))
<1>. DEFINE total == [n \in NodeId |-> Capacity[d]]
            left  == [n \in NodeId |-> free[n][d]]
            held  == [n \in NodeId |-> HeldOn(n, d)]
<1>1. IsFiniteSet(NodeId) /\ IsFiniteSet(running) /\ running \subseteq JobId
  <2>1. IsFiniteSet(NodeId)
    BY NodesAssumption, FS_Interval DEF NodeId
  <2>2. IsFiniteSet(JobId) /\ running \subseteq JobId
    BY WorkFacts DEF IInv, TypeOK
  <2>. QED  BY <2>1, <2>2, FS_Subset
<1>2. \A n \in NodeId : left[n] \in Nat /\ held[n] \in Nat /\ total[n] = left[n] + held[n]
  BY HeldFacts DEF IInv, Conservation, TypeOK, Resources
<1>3. SumOver(NodeId, total) = SumOver(NodeId, left) + SumOver(NodeId, held)
  <2>. HIDE DEF total, left, held
  <2>. QED  BY <1>1, <1>2, SumPlus
<1>4. SumOver(NodeId, left) \in Nat /\ SumOver(NodeId, held) \in Nat
  <2>. HIDE DEF left, held
  <2>. QED  BY <1>1, <1>2, SumType
<1>5. SumOver(NodeId, held) = SumOver(running, Demand(d))
  <2>1. (\A j \in running : node[j] \in NodeId) /\ (\A j \in running : Demand(d)[j] \in Nat)
    BY <1>1, WorkFacts DEF IInv, RunningInv, RecordsInv, Demand
  <2>. DEFINE content == [n \in NodeId |-> JobsOn(n)]
  <2>2. \A n \in NodeId : held[n] = SumOver(content[n], Demand(d))
    BY HeldFacts DEF IInv
  <2>3. \A n \in NodeId : content[n] = {j \in running : node[j] = n}
    BY DEF JobsOn
  <2>4. \A j \in running : node[j] \in NodeId
    BY <2>1
  <2>5. \A j \in running : Demand(d)[j] \in Nat
    BY <2>1
  <2>. HIDE DEF held, content
  <2>. QED  BY <1>1, <2>2, <2>3, <2>4, <2>5, SumPartition
<1>6. SumOver(running, Demand(d)) = SumOver(running, Load(d))
  <2>1. \A j \in running : Demand(d)[j] = Load(d)[j]
    BY <1>1 DEF Demand, Load
  <2>. QED  BY <2>1, SumCongruence
<1>7. SumOver(JobId, Load(d)) = SumOver(running, Load(d))
  <2>1. \A j \in JobId : Load(d)[j] \in Nat /\ (j \notin running => Load(d)[j] = 0)
    BY WorkFacts DEF Load
  <2>. QED  BY <1>1, <2>1, WorkFacts, SumRestrict
<1>8. TotalUtilized[d] = SumOver(NodeId, total) - SumOver(NodeId, left)
  BY DEF TotalUtilized, Minus, TotalCapacity, TotalFree
<1>. HIDE DEF total, left, held
<1>. QED  BY <1>3, <1>4, <1>5, <1>6, <1>7, <1>8

\* What the integral is credited with on a jump of the clock is what the
\* running jobs work while it jumps.
LEMMA JumpWorks ==
    ASSUME IInv, HistoryInv, IInv', HistoryInv', workload' = workload, NEW e \in heap,
           Jumps(e), ArrivalEffect(e) \/ FinishEffect(e) \/ EndEffect(e), NEW d \in Dim
    PROVE  SumOver(JobId, Work(d))' =
                SumOver(JobId, Work(d)) + (e.time - last_checkin) * TotalUtilized[d]
<1>. DEFINE dt == e.time - last_checkin
            more == [j \in JobId |-> dt * Load(d)[j]]
<1>1. /\ last_checkin = now /\ last_checkin' = e.time /\ now <= e.time
      /\ e.time \in Nat /\ now \in Nat /\ dt \in Nat /\ start_time' = start_time /\ JobId' = JobId
  BY ConfigFacts DEF Jumps, IInv, ClockInv
<1>2. \A j \in JobId : Work(d)[j] \in Nat /\ Load(d)[j] \in Nat /\ more[j] \in Nat
  <2>1. \A j \in JobId : Work(d)[j] \in Nat /\ Load(d)[j] \in Nat
    BY WorkFacts
  <2>. HIDE DEF dt
  <2>. QED  BY <1>1, <2>1
<1>3. ASSUME NEW j \in JobId
      PROVE  Work(d)'[j] = Work(d)[j] + more[j]
  <2>0. /\ Request(j)' = Request(j) /\ Request(j)[d] \in Nat
        /\ Work(d)'[j] = IF state'[j] = "Queued" THEN 0 ELSE Request(j)[d] * HeldFor(j)'
        /\ Work(d)[j] = IF state[j] = "Queued" THEN 0 ELSE Request(j)[d] * HeldFor(j)
        /\ more[j] = dt * (IF j \in running THEN Request(j)[d] ELSE 0)
    BY <1>1, WorkFacts DEF Work, Load, Request
  <2>1. CASE state[j] = "Running"
    <3>1. j \in running /\ start_time[j] \in Nat
      BY <2>1 DEF IInv, RunningInv, RecordsInv
    <3>2. /\ state'[j] # "Queued"
          /\ state'[j] = "Done" => finish_time'[j] = e.time
      BY <2>1 DEF ArrivalEffect, FinishEffect, EndEffect, IInv, TypeOK
    <3>3. HeldFor(j)' = e.time - start_time[j] /\ HeldFor(j) = now - start_time[j]
      BY <1>1, <2>1, <3>2 DEF HeldFor
    <3>4. HeldFor(j) \in Nat /\ HeldFor(j)' = HeldFor(j) + dt
      BY <1>1, <2>1, <3>1, <3>3, WorkFacts
    <3>5. Request(j)[d] * (HeldFor(j) + dt) = Request(j)[d] * HeldFor(j) + dt * Request(j)[d]
      <4>. HIDE DEF dt
      <4>. QED  BY <1>1, <2>0, <3>4
    <3>. QED  BY <2>0, <2>1, <3>1, <3>2, <3>4, <3>5
  <2>2. CASE state[j] # "Running"
    <3>1. j \notin running
      BY <2>2 DEF IInv, RunningInv
    <3>2. /\ state'[j] = state[j]
          /\ finish_time'[j] = finish_time[j]
      BY <2>2 DEF ArrivalEffect, FinishEffect, EndEffect, IInv, TypeOK, RunningInv
    <3>3. state[j] = "Done" => HeldFor(j)' = HeldFor(j)
      BY <1>1, <3>2 DEF HeldFor
    <3>4. state[j] \in {"Queued", "Done"}
      BY <2>2 DEF IInv, TypeOK, JobState
    <3>5. more[j] = 0
      <4>. HIDE DEF dt
      <4>. QED  BY <1>1, <2>0, <3>1
    <3>6. Work(d)[j] \in Nat
      BY <1>2
    <3>. QED  BY <2>0, <3>2, <3>3, <3>4, <3>5, <3>6
  <2>. QED  BY <2>1, <2>2
<1>4. IsFiniteSet(JobId)
  BY WorkFacts
<1>. HIDE DEF dt
<1>5. SumOver(JobId, Work(d)') = SumOver(JobId, Work(d)) + SumOver(JobId, more)
  <2>. HIDE DEF more
  <2>. QED  BY <1>2, <1>3, <1>4, SumPlus
<1>6. SumOver(JobId, more) = dt * SumOver(JobId, Load(d))
  <2>1. \A j \in JobId : Load(d)[j] \in Nat /\ more[j] = dt * Load(d)[j]
    BY <1>2
  <2>. HIDE DEF more
  <2>. QED  BY <1>1, <1>4, <2>1, SumScale
<1>7. SumOver(JobId, Work(d))' = SumOver(JobId, Work(d)')
  BY <1>1
<1>. QED  BY <1>5, <1>6, <1>7, UtilizedIsLoad DEF dt

\* The integral and the job records agree from the start, and keep to it.
LEMMA ExactKept ==
    /\ Init => UtilizationExact
    /\ IInv /\ HistoryInv /\ UtilizationExact /\ [Next]_vars => UtilizationExact'
<1>. DEFINE Exact == \A d \in Dim : ticks[d] = SumOver(JobId, Work(d))
<1>1. ASSUME IInv, HistoryInv PROVE UtilizationExact <=> Exact
  BY <1>1, WorkOfAll DEF UtilizationExact
<1>2. ASSUME Init PROVE Exact
  <2>1. IInv /\ HistoryInv
    BY <1>2, InitInv, InitHistory
  <2>2. ASSUME NEW d \in Dim
        PROVE  SumOver(JobId, Work(d)) = 0
    <3>1. \A j \in JobId : Work(d)[j] = 0 /\ j \notin {}
      BY <1>2 DEF Init, Work
    <3>2. SumOver(JobId, Work(d)) = SumOver({}, Work(d))
      BY <2>1, <3>1, WorkFacts, SumRestrict
    <3>. QED  BY <3>2, SumEmpty
  <2>. QED  BY <1>2, <2>2 DEF Init, UtilizationInit
<1>3. ASSUME IInv, HistoryInv, Exact, [Next]_vars PROVE Exact'
  <2>1. /\ IInv' /\ HistoryInv' /\ Effect
        /\ workload' = workload /\ JobId' = JobId
    BY <1>3, NextPreserves, HistoryPreserved, StepEffect, ConfigFacts
  <2>. SUFFICES ASSUME NEW d \in Dim
                PROVE  ticks'[d] = SumOver(JobId, Work(d)')
    BY <2>1
  <2>2. ASSUME NEW e \in heap, ArrivalEffect(e) \/ FinishEffect(e) \/ EndEffect(e)
        PROVE  ticks'[d] = SumOver(JobId, Work(d)')
    <3>1. Jumps(e)
      BY <2>2 DEF ArrivalEffect, FinishEffect, EndEffect
    <3>2. SumOver(JobId, Work(d)') =
                SumOver(JobId, Work(d)) + (e.time - last_checkin) * TotalUtilized[d]
      BY <1>3, <2>1, <2>2, <3>1, JumpWorks
    <3>3. ticks'[d] = ticks[d] + (e.time - last_checkin) * TotalUtilized[d]
      BY <3>1 DEF Jumps
    <3>. QED  BY <1>3, <3>2, <3>3
  <2>3. ASSUME NEW j \in JobId, NEW n \in NodeId, StartEffect(j, n)
        PROVE  ticks'[d] = SumOver(JobId, Work(d)')
    <3>1. /\ ticks' = ticks /\ finish_time' = finish_time /\ last_checkin' = last_checkin
          /\ \A k \in JobId : state'[k] = IF k = j THEN "Running" ELSE state[k]
          /\ \A k \in JobId : start_time'[k] = IF k = j THEN now ELSE start_time[k]
          /\ state[j] = "Queued" /\ last_checkin = now /\ now \in Nat
      BY <1>3, <2>3 DEF StartEffect, IInv, TypeOK, ClockInv
    <3>2. ASSUME NEW k \in JobId
          PROVE  Work(d)'[k] = Work(d)[k]
      <4>1. CASE k = j
        <5>1. HeldFor(j)' = 0 /\ state'[j] # "Queued"
          BY <3>1 DEF HeldFor
        <5>2. Request(j)'[d] * HeldFor(j)' = 0
          BY <1>3, <2>1, <5>1, WorkFacts DEF Request
        <5>. QED  BY <2>1, <3>1, <4>1, <5>1, <5>2 DEF Work
      <4>2. CASE k # j
        BY <2>1, <3>1, <4>2 DEF Work, HeldFor, Request
      <4>. QED  BY <4>1, <4>2
    <3>3. SumOver(JobId, Work(d)') = SumOver(JobId, Work(d))
      BY <3>2, SumCongruence
    <3>. QED  BY <1>3, <3>1, <3>3
  <2>4. ASSUME QuietEffect
        PROVE  ticks'[d] = SumOver(JobId, Work(d)')
    <3>1. Work(d)' = Work(d) /\ ticks' = ticks
      BY <2>1, <2>4 DEF QuietEffect, Work, HeldFor, Request
    <3>. QED  BY <1>3, <3>1
  <2>. QED  BY <2>1, <2>2, <2>3, <2>4 DEF Effect
<1>4. IInv /\ HistoryInv /\ UtilizationExact /\ [Next]_vars => UtilizationExact'
  <2>1. IInv /\ HistoryInv /\ [Next]_vars => IInv' /\ HistoryInv'
    BY NextPreserves, HistoryPreserved
  <2>2. (IInv /\ HistoryInv)' => (UtilizationExact' <=> Exact')
    BY <1>1, PTL
  <2>. QED  BY <1>1, <1>3, <2>1, <2>2
<1>5. Init => UtilizationExact
  BY <1>1, <1>2, InitInv, InitHistory
<1>. QED  BY <1>4, <1>5

\* The integral that is fed with cluster totals at every event is what the
\* job records say.
THEOREM IntegralExact == Spec => []UtilizationExact
<1>. QED  BY ExactKept, Invariance, HistoryKept, PTL DEF Spec

\* The cluster never uses more than it has.
LEMMA UtilizedAtMostAll ==
    ASSUME IInv, NEW d \in Dim
    PROVE  /\ TotalUtilized[d] \in Nat /\ TotalCapacity[d] \in Nat
           /\ TotalUtilized[d] <= TotalCapacity[d]
<1>. DEFINE total == [n \in NodeId |-> Capacity[d]]
            left  == [n \in NodeId |-> free[n][d]]
<1>1. IsFiniteSet(NodeId)
  BY NodesAssumption, FS_Interval DEF NodeId
<1>2. (\A n \in NodeId : left[n] \in Nat) /\ (\A n \in NodeId : total[n] \in Nat)
  BY NodesAssumption DEF IInv, TypeOK, Resources
<1>3. TotalCapacity[d] = SumOver(NodeId, total) /\ TotalFree[d] = SumOver(NodeId, left)
  BY DEF TotalCapacity, TotalFree
<1>. HIDE DEF total, left
<1>4. TotalCapacity[d] \in Nat /\ TotalFree[d] \in Nat
  BY <1>1, <1>2, <1>3, SumType
<1>5. TotalUtilized[d] \in Nat /\ TotalUtilized[d] = TotalCapacity[d] - TotalFree[d]
  BY UtilizedIsNat DEF IInv, TotalUtilized, Minus
<1>. QED  BY <1>4, <1>5

\* The integral never credits more than the whole cluster for the whole time.
THEOREM UtilizationAtMostOne == Spec => []UtilizationIsFraction
<1>1. ASSUME Init PROVE UtilizationIsFraction
  <2>1. IInv
    BY <1>1, InitInv
  <2>2. \A d \in Dim : TotalCapacity[d] \in Nat
    BY <2>1, UtilizedAtMostAll
  <2>3. \A d \in Dim : ticks[d] = 0 /\ last_checkin = 0
    BY <1>1 DEF Init, UtilizationInit
  <2>. QED  BY <2>2, <2>3 DEF UtilizationIsFraction
<1>2. ASSUME IInv, UtilizationIsFraction, [Next]_vars PROVE UtilizationIsFraction'
  <2>1. Effect /\ TotalCapacity' = TotalCapacity
    BY <1>2, StepEffect DEF TotalCapacity
  <2>. SUFFICES ASSUME NEW d \in Dim
                PROVE  ticks'[d] <= last_checkin' * TotalCapacity[d]
    BY <2>1 DEF UtilizationIsFraction
  <2>2. ticks[d] <= last_checkin * TotalCapacity[d]
    BY <1>2 DEF UtilizationIsFraction
  <2>3. CASE last_checkin' = last_checkin /\ ticks' = ticks
    BY <2>2, <2>3
  <2>4. ASSUME NEW e \in heap, Jumps(e)
        PROVE  ticks'[d] <= last_checkin' * TotalCapacity[d]
    <3>. DEFINE dt == e.time - last_checkin
                u  == TotalUtilized[d]
                c  == TotalCapacity[d]
                t  == last_checkin
    <3>1. dt \in Nat /\ t \in Nat /\ e.time = t + dt /\ ticks[d] \in Nat
      BY <1>2, <2>4 DEF Jumps, IInv, ClockInv, TypeOK
    <3>2. ticks'[d] = ticks[d] + dt * u /\ last_checkin' = e.time
      BY <2>4 DEF Jumps
    <3>3. u \in Nat /\ c \in Nat /\ u <= c
      BY <1>2, UtilizedAtMostAll
    <3>. HIDE DEF dt, u, c, t
    <3>4. dt * u <= dt * c
      BY <3>1, <3>3
    <3>5. (t + dt) * c = t * c + dt * c /\ t * c \in Nat /\ dt * c \in Nat /\ dt * u \in Nat
      BY <3>1, <3>3
    <3>6. ticks[d] <= t * c
      BY <2>2 DEF t, c
    <3>7. ticks'[d] <= (t + dt) * c
      BY <3>1, <3>2, <3>4, <3>5, <3>6
    <3>. QED  BY <3>1, <3>2, <3>7 DEF c
  <2>5. \/ last_checkin' = last_checkin /\ ticks' = ticks
        \/ \E e \in heap : Jumps(e)
    BY <2>1 DEF Effect, ArrivalEffect, FinishEffect, EndEffect, StartEffect, QuietEffect
  <2>. QED  BY <2>3, <2>4, <2>5
<1>. QED  BY <1>1, <1>2, Invariance, PTL DEF Spec

--------------------------------------------------------------------------------
(* The report of a finished run *)

\* When run() has returned, nothing is in the queue and no job is running, so
\* the jobs that are not done are those of the backlog.
LEMMA WhenReturned ==
    ASSUME IInv, pc = "returned"
    PROVE  /\ \A j \in JobId : state[j] \in {"Queued", "Done"} /\ ~ Awaited(j)
           /\ \A j \in JobId : state[j] = "Queued" <=> \E i \in DOMAIN pending : pending[i] = j
           /\ \A j \in JobId : start_time[j] # kNever <=> state[j] = "Done"
<1>1. heap = {}
  BY DEF IInv, ControlInv
<1>2. \A j \in JobId : state[j] \in {"Queued", "Done"} /\ ~ Awaited(j)
  BY <1>1 DEF IInv, JobsAwaited, TypeOK, JobState, Awaited
<1>3. \A j \in JobId : state[j] = "Queued" <=> \E i \in DOMAIN pending : pending[i] = j
  BY <1>1 DEF IInv, JobsAwaited, BacklogInv
<1>4. \A j \in JobId : start_time[j] # kNever <=> state[j] = "Done"
  BY <1>2, NeverAssumption DEF IInv, RecordsInv
<1>. QED  BY <1>2, <1>3, <1>4

\* Where the invariant holds, both samples leave out the jobs of the backlog.
LEMMA CensoredOfBacklog ==
    ASSUME IInv
    PROVE  CensoredAlike
<1>. DEFINE Done == {j \in JobId : state[j] = "Done"}
            Started == {j \in JobId : start_time[j] # kNever}
<1>. SUFFICES ASSUME Reports
              PROVE  /\ TurnaroundTimes.skipped = Len(pending)
                     /\ QueueWaitTimes.skipped = Len(pending)
  BY DEF CensoredAlike
<1>1. pc = "returned"
  BY DEF Reports
<1>2. Started = Done
  BY <1>1, WhenReturned
<1>3. /\ pending \in Seq(JobId) /\ Len(pending) \in Nat
      /\ DOMAIN pending = 1 .. Len(pending)
      /\ \A i \in DOMAIN pending : pending[i] \in JobId
  BY ElementOfSeq DEF IInv, TypeOK
<1>4. \A i \in DOMAIN pending : pending[i] \in JobId \ Done
  BY <1>1, <1>3, WhenReturned
<1>5. \A j \in JobId \ Done : \E i \in DOMAIN pending : pending[i] = j
  BY <1>1, WhenReturned
<1>6. \A i, k \in DOMAIN pending : pending[i] = pending[k] => i = k
  BY DEF IInv, BacklogInv
<1>. HIDE DEF Done
<1>7. Cardinality(JobId \ Done) = Len(pending)
  <2>. DEFINE Left == JobId \ Done
  <2>1. /\ \A i \in 1 .. Len(pending) : pending[i] \in Left
        /\ \A j \in Left : \E i \in 1 .. Len(pending) : pending[i] = j
        /\ \A i, k \in 1 .. Len(pending) : pending[i] = pending[k] => i = k
    BY <1>3, <1>4, <1>5, <1>6
  <2>. HIDE DEF Left
  <2>2. Cardinality(Left) = Len(pending)
    BY <1>3, <2>1, CountByList
  <2>. QED  BY <2>2 DEF Left
<1>. QED  BY <1>2, <1>7 DEF TurnaroundTimes, QueueWaitTimes, Done

\* Both samples leave out the same jobs, as many as the backlog holds.
THEOREM SamplesCensorAlike == Spec => []CensoredAlike
<1>. QED  BY CensoredOfBacklog, Invariance, PTL

\* Where the invariants hold, a run with nothing left has delivered what was
\* offered.
LEMMA DeliveredAtReturn ==
    ASSUME IInv, HistoryInv, UtilizationExact
    PROVE  OfferedIsDelivered
<1>. SUFFICES ASSUME Reports, pending = <<>>, NEW d \in Dim
              PROVE  ticks[d] = OfferedWork(d)
  BY DEF OfferedIsDelivered, MeanUtilization, OfferedLoad
<1>. DEFINE offered == [j \in JobId |-> workload[j].duration * Request(j)[d]]
<1>1. \A j \in JobId : state[j] = "Done"
  BY WhenReturned DEF Reports
<1>2. ticks[d] = SumOver(JobId, Work(d))
  BY WorkOfAll DEF UtilizationExact
<1>3. ASSUME NEW j \in JobId
      PROVE  Work(d)[j] = offered[j]
  <2>1. /\ finish_time[j] = start_time[j] + workload[j].duration
        /\ start_time[j] \in Nat /\ workload[j].duration \in Nat /\ Request(j)[d] \in Nat
    BY <1>1, ConfigFacts, JobFacts, WorkFacts
       DEF HistoryInv, TimesInv, IInv, RecordsInv, TypeOK
  <2>2. HeldFor(j) = workload[j].duration
    BY <1>1, <2>1 DEF HeldFor
  <2>3. Work(d)[j] = Request(j)[d] * workload[j].duration
    BY <1>1, <2>2 DEF Work
  <2>. QED  BY <2>1, <2>3
<1>4. SumOver(JobId, Work(d)) = SumOver(JobId, offered)
  <2>. HIDE DEF offered
  <2>. QED  BY <1>3, SumCongruence
<1>. QED  BY <1>2, <1>4 DEF OfferedWork

\* A run that finishes every job delivers the work its workload offered.
THEOREM WorkDelivered == Spec => []OfferedIsDelivered
<1>. QED  BY DeliveredAtReturn, Invariance, HistoryKept, IntegralExact, PTL

\* While every job comes at tick zero and those that are done took no time,
\* the clock has not moved.
InstantInv ==
    (/\ \A j \in JobId : workload[j].submit_time = 0
     /\ \A j \in JobId : state[j] = "Done" => workload[j].duration = 0) => now = 0

\* mean() finds its span empty after a run of that kind and no other.
THEOREM EmptySpanOnlyOfInstantRuns == Spec => []EmptySpanIsInstantRun
<1>1. Init => InstantInv
  BY DEF Init, InstantInv
<1>2. ASSUME IInv, HistoryInv, InstantInv, [Next]_vars PROVE InstantInv'
  <2>1. Effect /\ workload' = workload /\ JobId' = JobId /\ now \in Nat
    BY <1>2, StepEffect, ConfigFacts
  <2>2. ASSUME NEW e \in heap, ArrivalEffect(e) PROVE InstantInv'
    BY <1>2, <2>1, <2>2 DEF ArrivalEffect, Jumps, InstantInv, HistoryInv, OrderInv
  <2>3. ASSUME NEW e \in heap, FinishEffect(e) PROVE InstantInv'
    <3>. DEFINE b == e.payload.job
    <3>1. /\ b \in JobId /\ state' = [state EXCEPT ![b] = "Done"]
          /\ now' = start_time[b] + workload[b].duration /\ state[b] = "Running"
      BY <1>2, <2>3 DEF FinishEffect, Jumps, IInv, TypeOK
    <3>2. start_time[b] \in Nat /\ start_time[b] <= now
      BY <1>2, <3>1 DEF IInv, RecordsInv, HistoryInv, TimesInv
    <3>3. \A j \in JobId : state'[j] = IF j = b THEN "Done" ELSE state[j]
      BY <1>2, <3>1 DEF IInv, TypeOK
    <3>. HIDE DEF b
    <3>. QED  BY <1>2, <2>1, <3>1, <3>2, <3>3 DEF InstantInv
  <2>4. ASSUME NEW j \in JobId, NEW n \in NodeId, StartEffect(j, n) PROVE InstantInv'
    <3>1. \A k \in JobId : state'[k] = IF k = j THEN "Running" ELSE state[k]
      BY <1>2, <2>4 DEF StartEffect, IInv, TypeOK
    <3>2. now' = now /\ state[j] = "Queued"
      BY <2>4 DEF StartEffect
    <3>. QED  BY <1>2, <2>1, <3>1, <3>2 DEF InstantInv
  <2>5. ASSUME QuietEffect \/ \E e \in heap : EndEffect(e) PROVE InstantInv'
    <3>1. state' = state /\ now' = now
      BY <2>5 DEF QuietEffect, EndEffect, Jumps
    <3>. QED  BY <1>2, <2>1, <3>1 DEF InstantInv
  <2>. QED  BY <2>1, <2>2, <2>3, <2>4, <2>5 DEF Effect
<1>3. ASSUME IInv, HistoryInv, InstantInv PROVE EmptySpanIsInstantRun
  <2>. SUFFICES ASSUME Reports
                PROVE  sim_end = 0 <=>
                        /\ \A j \in JobId : workload[j].submit_time = 0
                        /\ \A j \in JobId : state[j] = "Done" => workload[j].duration = 0
    BY DEF EmptySpanIsInstantRun
  <2>1. sim_end = now /\ now \in Nat /\ \A j \in JobId : ~ Awaited(j)
    BY <1>3, WhenReturned DEF Reports, HistoryInv, EndInv, IInv, TypeOK
  <2>2. ASSUME NEW j \in JobId, now = 0
        PROVE  /\ workload[j].submit_time = 0
               /\ state[j] = "Done" => workload[j].duration = 0
    <3>1. workload[j].submit_time \in Nat /\ workload[j].duration \in Nat
      BY <1>3, JobFacts DEF IInv, TypeOK
    <3>2. /\ workload[j].submit_time <= now
          /\ state[j] = "Done" =>
                /\ finish_time[j] = start_time[j] + workload[j].duration
                /\ finish_time[j] <= now /\ start_time[j] \in Nat
      BY <1>3, <2>1 DEF HistoryInv, TimesInv, IInv, RecordsInv
    <3>. QED  BY <2>2, <3>1, <3>2
  <2>. QED  BY <1>3, <2>1, <2>2 DEF InstantInv
<1>. QED  BY <1>1, <1>2, <1>3, Invariance, HistoryKept, PTL DEF Spec

--------------------------------------------------------------------------------
(* Percentiles of the two samples *)

\* A bounded nonempty set of naturals has a greatest member.
LEMMA GreatestBelow ==
    ASSUME NEW T, T \subseteq Nat, T # {}, NEW b \in Nat, \A x \in T : x <= b
    PROVE  \E x \in T : \A y \in T : y <= x
<1>. DEFINE Gaps == {b - x : x \in T}
<1>1. PICK g \in Gaps : \A h \in Gaps : g <= h
  <2>1. \A x \in T : b - x \in Nat
    OBVIOUS
  <2>2. Gaps \subseteq Nat /\ Gaps # {}
    BY <2>1
  <2>. HIDE DEF Gaps
  <2>. QED  BY <2>2, LeastNat
<1>2. PICK x \in T : g = b - x
  BY <1>1
<1>3. ASSUME NEW y \in T PROVE y <= x
  <2>1. b - x <= b - y
    BY <1>1, <1>2
  <2>2. x \in Nat /\ y \in Nat
    OBVIOUS
  <2>. QED  BY <2>1, <2>2
<1>. QED  BY <1>3

\* How many of the times of sample f are at most u, and whether they are p
\* percent of them.
Within(f, u) == Cardinality({i \in DOMAIN f : f[i] <= u})
Covers(f, p, u) == 100 * Within(f, u) >= p * Cardinality(DOMAIN f)

LEMMA WithinFacts ==
    ASSUME NEW f, IsFiniteSet(DOMAIN f), NEW u
    PROVE  /\ IsFiniteSet({i \in DOMAIN f : f[i] <= u}) /\ Within(f, u) \in Nat
           /\ Cardinality(DOMAIN f) \in Nat /\ Within(f, u) <= Cardinality(DOMAIN f)
<1>1. {i \in DOMAIN f : f[i] <= u} \subseteq DOMAIN f
  OBVIOUS
<1>. QED  BY <1>1, FS_Subset, FS_CardinalityType DEF Within

\* A value that covers p percent of a sample, whether the sample has that
\* value or not, is at least the nearest rank of p percent, which exists.
LEMMA NearestRankLeast ==
    ASSUME NEW f, IsFiniteSet(DOMAIN f), DOMAIN f # {}, \A i \in DOMAIN f : f[i] \in Nat,
           NEW p \in 1 .. 100, NEW u \in Nat, Covers(f, p, u)
    PROVE  /\ NearestRank(f, p) \in Nat /\ Covers(f, p, NearestRank(f, p))
           /\ NearestRank(f, p) <= u
<1>. DEFINE V == {f[i] : i \in DOMAIN f}
            below == {v \in V : v <= u}
            C == {v \in V : Covers(f, p, v)}
<1>1. V \subseteq Nat /\ p \in Nat /\ 1 <= p
  OBVIOUS
<1>2. Cardinality(DOMAIN f) \in Nat \ {0} /\ Within(f, u) \in Nat
  BY WithinFacts, FS_EmptySet
<1>3. below # {}
  <2>1. Within(f, u) # 0
    <3>1. 0 < p * Cardinality(DOMAIN f)
      BY <1>1, <1>2
    <3>. QED  BY <1>1, <1>2, <3>1 DEF Covers
  <2>2. {i \in DOMAIN f : f[i] <= u} # {}
    BY <2>1, FS_EmptySet DEF Within
  <2>. QED  BY <2>2
<1>4. PICK w \in below : \A v \in below : v <= w
  <2>1. below \subseteq Nat /\ \A v \in below : v <= u
    BY <1>1
  <2>. HIDE DEF below
  <2>. QED  BY <1>3, <2>1, GreatestBelow
<1>5. {i \in DOMAIN f : f[i] <= w} = {i \in DOMAIN f : f[i] <= u}
  BY <1>1, <1>4
<1>6. w \in C
  BY <1>4, <1>5 DEF Covers, Within
<1>7. PICK v \in C : \A x \in C : v <= x
  <2>1. C \subseteq Nat /\ C # {}
    BY <1>1, <1>6
  <2>. HIDE DEF C
  <2>. QED  BY <2>1, LeastNat
<1>8. /\ v \in V /\ Covers(f, p, v)
      /\ \A i \in DOMAIN f : Covers(f, p, f[i]) => v <= f[i]
  BY <1>7
<1>9. NearestRank(f, p) = CHOOSE x \in V : /\ Covers(f, p, x)
                                          /\ \A i \in DOMAIN f : Covers(f, p, f[i]) => x <= f[i]
  BY DEF NearestRank, Covers, Within
<1>10. /\ NearestRank(f, p) \in V /\ Covers(f, p, NearestRank(f, p))
       /\ \A i \in DOMAIN f : Covers(f, p, f[i]) => NearestRank(f, p) <= f[i]
  <2>. HIDE DEF V
  <2>. QED  BY <1>8, <1>9
<1>11. NearestRank(f, p) <= w /\ w <= u /\ w \in Nat
  BY <1>1, <1>4, <1>6, <1>10
<1>. QED  BY <1>1, <1>10, <1>11

\* Some value covers the whole of a sample.
LEMMA SomeValueCovers ==
    ASSUME NEW f, IsFiniteSet(DOMAIN f), \A i \in DOMAIN f : f[i] \in Nat, NEW p \in 1 .. 100
    PROVE  \E u \in Nat : Covers(f, p, u)
<1>. DEFINE u == SumOver(DOMAIN f, f)
<1>1. u \in Nat
  BY SumType
<1>2. ASSUME NEW i \in DOMAIN f PROVE f[i] <= u
  <2>1. SumOver(DOMAIN f, f) = SumOver(DOMAIN f \ {i}, f) + f[i]
    BY SumRemove
  <2>2. SumOver(DOMAIN f \ {i}, f) \in Nat
    <3>1. IsFiniteSet(DOMAIN f \ {i}) /\ \A k \in DOMAIN f \ {i} : f[k] \in Nat
      BY FS_Subset
    <3>. QED  BY <3>1, SumType
  <2>. QED  BY <2>1, <2>2
<1>. HIDE DEF u
<1>3. {i \in DOMAIN f : f[i] <= u} = DOMAIN f
  BY <1>2
<1>4. Within(f, u) = Cardinality(DOMAIN f) /\ Cardinality(DOMAIN f) \in Nat
  BY <1>3, FS_CardinalityType DEF Within
<1>5. p * Cardinality(DOMAIN f) <= 100 * Cardinality(DOMAIN f)
  BY <1>4
<1>. QED  BY <1>1, <1>4, <1>5 DEF Covers

\* Times that are at most those of another sample, job by job, have nearest
\* ranks that are at most those of the other.
LEMMA NearestRankMonotone ==
    ASSUME NEW f, NEW g, IsFiniteSet(DOMAIN f), DOMAIN f # {}, DOMAIN g = DOMAIN f,
           \A i \in DOMAIN f : f[i] \in Nat /\ g[i] \in Nat /\ f[i] <= g[i],
           NEW p \in 1 .. 100
    PROVE  NearestRank(f, p) <= NearestRank(g, p)
<1>1. PICK u \in Nat : Covers(g, p, u)
  BY SomeValueCovers
<1>2. NearestRank(g, p) \in Nat /\ Covers(g, p, NearestRank(g, p))
  BY <1>1, NearestRankLeast
<1>. DEFINE v == NearestRank(g, p)
<1>. HIDE DEF v
<1>3. {i \in DOMAIN g : g[i] <= v} \subseteq {i \in DOMAIN f : f[i] <= v}
  BY <1>2 DEF v
<1>4. Within(g, v) <= Within(f, v)
  BY <1>3, WithinFacts, FS_Subset DEF Within
<1>5. /\ Within(g, v) \in Nat /\ Within(f, v) \in Nat
      /\ 100 * Within(g, v) >= p * Cardinality(DOMAIN f)
      /\ p * Cardinality(DOMAIN f) \in Nat
  <2>1. Within(g, v) \in Nat /\ Within(f, v) \in Nat /\ Cardinality(DOMAIN f) \in Nat
    BY WithinFacts
  <2>2. 100 * Within(g, v) >= p * Cardinality(DOMAIN f)
    BY <1>2 DEF Covers, v
  <2>. QED  BY <2>1, <2>2
<1>6. 100 * Within(f, v) >= p * Cardinality(DOMAIN f)
  BY <1>4, <1>5
<1>7. Covers(f, p, v)
  BY <1>6 DEF Covers
<1>8. NearestRank(f, p) <= v
  BY <1>2, <1>7, NearestRankLeast DEF v
<1>. QED  BY <1>8 DEF v

\* A reported percentile of the wait is at most that of the turnaround.
THEOREM PercentilesOrdered == Spec => []WaitWithinTurnaround
<1>1. ASSUME IInv, HistoryInv PROVE WaitWithinTurnaround
  <2>. DEFINE f == QueueWaitTimes.times
              g == TurnaroundTimes.times
              Done == {j \in JobId : state[j] = "Done"}
  <2>. SUFFICES ASSUME Reports, DOMAIN g # {}, NEW p \in {50, 95, 99}
                PROVE  NearestRank(f, p) <= NearestRank(g, p)
    BY DEF WaitWithinTurnaround
  <2>1. {j \in JobId : start_time[j] # kNever} = Done
    BY <1>1, WhenReturned DEF Reports
  <2>2. /\ f = [j \in Done |-> start_time[j] - workload[j].submit_time]
        /\ g = [j \in Done |-> finish_time[j] - workload[j].submit_time]
    BY <2>1 DEF QueueWaitTimes, TurnaroundTimes
  <2>3. ASSUME NEW j \in Done
        PROVE  f[j] \in Nat /\ g[j] \in Nat /\ f[j] <= g[j]
    <3>1. /\ workload[j].submit_time \in Nat /\ start_time[j] \in Nat
          /\ workload[j].duration \in Nat
          /\ workload[j].submit_time <= start_time[j]
          /\ finish_time[j] = start_time[j] + workload[j].duration
      BY <1>1, JobFacts DEF IInv, TypeOK, RecordsInv, HistoryInv, TimesInv
    <3>2. /\ f[j] = start_time[j] - workload[j].submit_time
          /\ g[j] = finish_time[j] - workload[j].submit_time
      BY <2>2
    <3>. QED  BY <3>1, <3>2
  <2>4. DOMAIN f = Done /\ DOMAIN g = Done
    BY <2>2
  <2>5. IsFiniteSet(Done)
    BY <1>1, JobFacts, FS_Subset DEF IInv, TypeOK
  <2>. HIDE DEF f, g, Done
  <2>6. p \in 1 .. 100
    OBVIOUS
  <2>. QED  BY <2>3, <2>4, <2>5, <2>6, NearestRankMonotone
<1>. QED  BY <1>1, Invariance, HistoryKept, PTL

--------------------------------------------------------------------------------
(* What percentiles() reads back *)

\* nth_element has put position r of f in place: nothing before it is greater,
\* and nothing after it less.
InPlace(f, r) ==
    \A i \in DOMAIN f : /\ i < r => f[i] <= f[r]
                        /\ i > r => f[r] <= f[i]

\* The values of f that are at most u, counted value by value.
LEMMA WithinByValue ==
    ASSUME NEW f, IsFiniteSet(DOMAIN f), NEW T, IsFiniteSet(T), T \subseteq Nat,
           \A i \in DOMAIN f : f[i] \in T, NEW u
    PROVE  Within(f, u) = SumOver({v \in T : v <= u}, [v \in T |-> Occurrences(f, v)])
<1>. DEFINE S == {i \in DOMAIN f : f[i] <= u}
            N == {v \in T : v <= u}
            one == [i \in DOMAIN f |-> 1]
            content == [v \in N |-> {i \in S : f[i] = v}]
            h == [v \in T |-> Occurrences(f, v)]
<1>1. IsFiniteSet(S) /\ IsFiniteSet(N)
  BY FS_Subset
<1>2. \A i \in S : f[i] \in N /\ one[i] \in Nat /\ one[i] = 1
  OBVIOUS
<1>3. \A v \in N : content[v] = {i \in S : f[i] = v}
  OBVIOUS
<1>4. ASSUME NEW v \in N PROVE h[v] = SumOver(content[v], one)
  <2>1. content[v] = {i \in DOMAIN f : f[i] = v} /\ content[v] \subseteq S
    OBVIOUS
  <2>2. IsFiniteSet(content[v]) /\ \A i \in content[v] : one[i] = 1
    BY <1>1, <1>2, <2>1, FS_Subset
  <2>3. SumOver(content[v], one) = Cardinality(content[v])
    <3>. HIDE DEF content, one
    <3>. QED  BY <2>2, SumOfOnes
  <2>. QED  BY <2>1, <2>3 DEF Occurrences
<1>5. SumOver(S, one) = Cardinality(S)
  <2>. HIDE DEF S, one
  <2>. QED  BY <1>1, <1>2, SumOfOnes
<1>6. SumOver(N, h) = SumOver(S, one)
  <2>1. \A i \in S : f[i] \in N
    BY <1>2
  <2>2. \A i \in S : one[i] \in Nat
    BY <1>2
  <2>. HIDE DEF S, N, one, content, h
  <2>. QED  BY <1>1, <1>3, <1>4, <2>1, <2>2, SumPartition
<1>. QED  BY <1>5, <1>6 DEF Within

\* A list of numbers has finitely many values.
LEMMA ValuesListed ==
    ASSUME NEW N \in Nat, NEW f \in [1 .. N -> Nat]
    PROVE  IsFiniteSet({f[k] : k \in 1 .. N}) /\ {f[k] : k \in 1 .. N} \subseteq Nat
<1>. DEFINE S == 1 .. N
            T == {f[k] : k \in S}
<1>1. IsFiniteSet(S)
  BY FS_Interval
<1>2. T \subseteq Nat
  OBVIOUS
<1>3. \A v \in T : \E k \in S : f[k] = v
  OBVIOUS
<1>4. IsFiniteSet(T)
  <2>. HIDE DEF S, T
  <2>. QED  BY <1>1, <1>3, FiniteValues
<1>. QED  BY <1>2, <1>4

\* Two arrangements of the same values have as many of them at most u.
LEMMA SameWithin ==
    ASSUME NEW N \in Nat, NEW f \in [1 .. N -> Nat], NEW g \in [1 .. N -> Nat],
           \A i \in 1 .. N : g[i] \in {f[k] : k \in 1 .. N},
           \A v \in {f[k] : k \in 1 .. N} : Occurrences(g, v) = Occurrences(f, v),
           NEW u
    PROVE  Within(g, u) = Within(f, u)
<1>. DEFINE T == {f[k] : k \in 1 .. N}
<1>1. IsFiniteSet(1 .. N) /\ DOMAIN f = 1 .. N /\ DOMAIN g = 1 .. N
  BY FS_Interval
<1>2. IsFiniteSet(T) /\ T \subseteq Nat
  BY ValuesListed
<1>3. (\A i \in 1 .. N : f[i] \in T) /\ (\A i \in 1 .. N : g[i] \in T)
  OBVIOUS
<1>. HIDE DEF T
<1>4. Within(f, u) = SumOver({v \in T : v <= u}, [v \in T |-> Occurrences(f, v)])
  BY <1>1, <1>2, <1>3, WithinByValue
<1>5. Within(g, u) = SumOver({v \in T : v <= u}, [v \in T |-> Occurrences(g, v)])
  BY <1>1, <1>2, <1>3, WithinByValue
<1>6. [v \in T |-> Occurrences(f, v)] = [v \in T |-> Occurrences(g, v)]
  BY DEF T
<1>. QED  BY <1>4, <1>5, <1>6

\* A call on what lies before a position r that is in place leaves no value
\* before r that is greater than the one at r: such a value would have come
\* from behind r, where nothing has moved.
LEMMA PrefixStaysBelow ==
    ASSUME NEW N \in Nat, NEW f \in [1 .. N -> Nat], NEW g \in [1 .. N -> Nat],
           \A i \in 1 .. N : g[i] \in {f[k] : k \in 1 .. N},
           \A v \in {f[k] : k \in 1 .. N} : Occurrences(g, v) = Occurrences(f, v),
           NEW r \in 1 .. N, InPlace(f, r),
           \A i \in 1 .. N : i >= r => g[i] = f[i],
           NEW x \in 1 .. N, x < r
    PROVE  g[x] <= f[r]
<1>. SUFFICES ASSUME ~ (g[x] <= f[r]) PROVE FALSE
  OBVIOUS
<1>. DEFINE v == g[x]
            F == {i \in 1 .. N : f[i] = v}
            G == {i \in 1 .. N : g[i] = v}
<1>1. f[r] \in Nat /\ v \in Nat /\ f[r] < v
  OBVIOUS
<1>2. ASSUME NEW i \in F PROVE i \in G
  <2>1. f[i] = v /\ i \in 1 .. N
    OBVIOUS
  <2>2. ~ (i < r)
    BY <1>1, <2>1 DEF InPlace
  <2>. QED  BY <2>1, <2>2
<1>3. x \in G /\ x \notin F
  <2>1. f[x] <= f[r]
    BY DEF InPlace
  <2>. QED  BY <1>1, <2>1
<1>4. Cardinality(G) = Cardinality(F)
  <2>1. v \in {f[k] : k \in 1 .. N}
    OBVIOUS
  <2>2. Occurrences(g, v) = Cardinality(G) /\ Occurrences(f, v) = Cardinality(F)
    BY DEF Occurrences
  <2>. QED  BY <2>1, <2>2
<1>5. IsFiniteSet(G)
  <2>1. IsFiniteSet(1 .. N) /\ G \subseteq 1 .. N
    BY FS_Interval
  <2>. HIDE DEF G
  <2>. QED  BY <2>1, FS_Subset
<1>6. F \subseteq G
  BY <1>2
<1>7. F = G
  <2>. HIDE DEF F, G
  <2>. QED  BY <1>4, <1>5, <1>6, FS_Subset
<1>. QED  BY <1>3, <1>7

\* Such a call puts nth in place, and what is in place from r on stays so.
LEMMA PrefixCall ==
    ASSUME NEW N \in Nat, NEW f \in [1 .. N -> Nat], NEW g \in [1 .. N -> Nat],
           \A i \in 1 .. N : g[i] \in {f[k] : k \in 1 .. N},
           \A v \in {f[k] : k \in 1 .. N} : Occurrences(g, v) = Occurrences(f, v),
           NEW r \in 1 .. N, InPlace(f, r),
           \A i \in 1 .. N : i >= r => g[i] = f[i],
           NEW nth \in 1 .. N, nth < r,
           \A i \in 1 .. r - 1 : /\ i < nth => g[i] <= g[nth]
                                 /\ i > nth => g[nth] <= g[i]
    PROVE  /\ InPlace(g, nth)
           /\ \A q \in 1 .. N : q >= r /\ InPlace(f, q) => InPlace(g, q)
<1>1. ASSUME NEW x \in 1 .. N, x < r PROVE g[x] <= f[r]
  BY <1>1, PrefixStaysBelow
<1>2. DOMAIN f = 1 .. N /\ DOMAIN g = 1 .. N /\ (\A i \in 1 .. N : f[i] \in Nat /\ g[i] \in Nat)
  OBVIOUS
<1>3. ASSUME NEW i \in 1 .. N
      PROVE  (i < nth => g[i] <= g[nth]) /\ (i > nth => g[nth] <= g[i])
  <2>1. CASE i < r
    <3>1. i \in 1 .. r - 1
      BY <2>1
    <3>. QED  BY <3>1
  <2>2. CASE ~ (i < r)
    <3>1. g[i] = f[i] /\ i > nth
      BY <2>2
    <3>2. f[r] <= f[i]
      BY <1>2, <2>2 DEF InPlace
    <3>3. g[nth] <= f[r]
      BY <1>1
    <3>4. f[r] \in Nat /\ f[i] \in Nat /\ g[nth] \in Nat
      BY <1>2
    <3>5. g[nth] <= g[i] /\ ~ (i < nth)
      BY <3>1, <3>2, <3>3, <3>4
    <3>. QED  BY <3>5
  <2>. QED  BY <2>1, <2>2
<1>4. ASSUME NEW q \in 1 .. N, q >= r, InPlace(f, q), NEW i \in 1 .. N
      PROVE  (i < q => g[i] <= g[q]) /\ (i > q => g[q] <= g[i])
  <2>1. g[q] = f[q] /\ f[r] <= f[q]
    <3>1. g[q] = f[q] /\ (q > r => f[r] <= f[q])
      BY <1>2, <1>4 DEF InPlace
    <3>2. q = r \/ q > r
      BY <1>4
    <3>3. f[r] \in Nat
      BY <1>2
    <3>. QED  BY <3>1, <3>2, <3>3
  <2>2. CASE i < r
    <3>1. g[i] <= f[r]
      BY <1>1, <2>2
    <3>2. i < q
      <4>1. i \in Int /\ q \in Int /\ r \in Int /\ r <= q
        BY <1>4
      <4>. QED  BY <2>2, <4>1
    <3>3. ~ (i > q)
      BY <3>2
    <3>4. f[r] \in Nat /\ f[q] \in Nat /\ g[i] \in Nat
      BY <1>2
    <3>. QED  BY <2>1, <3>1, <3>2, <3>3, <3>4
  <2>3. CASE ~ (i < r)
    <3>1. g[i] = f[i]
      BY <2>3
    <3>2. (i < q => f[i] <= f[q]) /\ (i > q => f[q] <= f[i])
      BY <1>2, <1>4 DEF InPlace
    <3>. QED  BY <2>1, <3>1, <3>2
  <2>. QED  BY <2>2, <2>3
<1>. QED  BY <1>2, <1>3, <1>4 DEF InPlace

\* The nearest rank of p percent of n values is the least number of them that
\* p percent do not exceed.
LEMMA RankFacts ==
    ASSUME NEW n \in Nat \ {0}, NEW p \in 1 .. 100
    PROVE  /\ PercentileRank(n, p) \in 1 .. n
           /\ n * p <= 100 * PercentileRank(n, p)
           /\ 100 * (PercentileRank(n, p) - 1) < n * p
<1>. DEFINE m == n * p
            r == (m + 99) \div 100
<1>1. m \in Nat /\ 1 <= m /\ m <= 100 * n
  <2>1. m = n * p /\ n * 1 <= n * p /\ n * p <= n * 100
    OBVIOUS
  <2>. QED  BY <2>1
<1>2. PercentileRank(n, p) = r
  BY DEF PercentileRank
<1>. HIDE DEF m
<1>3. r \in Nat /\ 100 * r <= m + 99 /\ m + 99 < 100 * r + 100
  BY <1>1
<1>4. 1 <= r /\ r <= n
  BY <1>1, <1>3
<1>5. m <= 100 * r /\ 100 * (r - 1) < m
  BY <1>1, <1>3
<1>. HIDE DEF r
<1>6. r \in 1 .. n
  BY <1>3, <1>4
<1>. QED  BY <1>2, <1>5, <1>6 DEF m

\* What is in place at the rank of p percent is the percentile.
LEMMA InPlaceIsNearestRank ==
    ASSUME NEW N \in Nat \ {0}, NEW f \in [1 .. N -> Nat], NEW g \in [1 .. N -> Nat],
           \A u \in Nat : Within(g, u) = Within(f, u),
           NEW p \in 1 .. 100, InPlace(g, PercentileRank(N, p))
    PROVE  g[PercentileRank(N, p)] = NearestRank(f, p)
<1>. DEFINE r == PercentileRank(N, p)
            w == g[r]
            v == NearestRank(f, p)
<1>1. r \in 1 .. N /\ N * p <= 100 * r /\ 100 * (r - 1) < N * p
  BY RankFacts
<1>2. DOMAIN f = 1 .. N /\ DOMAIN g = 1 .. N /\ Cardinality(1 .. N) = N /\ IsFiniteSet(1 .. N)
  BY FS_Interval
<1>. HIDE DEF r
<1>3. w \in Nat
  BY <1>1
<1>4. Covers(f, p, w)
  <2>1. 1 .. r \subseteq {i \in 1 .. N : g[i] <= w}
    BY <1>1, <1>2, <1>3 DEF InPlace, r
  <2>2. Cardinality(1 .. r) = r
    <3>1. 1 \in Int /\ r \in Int /\ 1 <= r
      BY <1>1
    <3>. QED  BY <3>1, FS_Interval
  <2>3. r <= Within(g, w) /\ Within(g, w) \in Nat
    <3>1. IsFiniteSet({i \in 1 .. N : g[i] <= w}) /\ Within(g, w) \in Nat
      BY <1>2, WithinFacts
    <3>2. Cardinality(1 .. r) <= Cardinality({i \in 1 .. N : g[i] <= w})
      BY <2>1, <3>1, FS_Subset
    <3>. QED  BY <1>2, <2>2, <3>1, <3>2 DEF Within
  <2>4. r <= Within(f, w) /\ Within(f, w) \in Nat
    BY <1>3, <2>3
  <2>5. N * p <= 100 * Within(f, w)
    BY <1>1, <2>4
  <2>. QED  BY <1>2, <2>5 DEF Covers
<1>5. v \in Nat /\ Covers(f, p, v) /\ v <= w
  <2>1. DOMAIN f # {} /\ \A i \in DOMAIN f : f[i] \in Nat
    <3>1. 1 \in 1 .. N
      OBVIOUS
    <3>. QED  BY <1>2, <3>1
  <2>. HIDE DEF w
  <2>. QED  BY <1>2, <1>3, <1>4, <2>1, NearestRankLeast
<1>6. ASSUME v < w PROVE FALSE
  <2>. HIDE DEF v
  <2>1. {i \in 1 .. N : g[i] <= v} \subseteq 1 .. r - 1
    <3>1. ASSUME NEW i \in 1 .. N, g[i] <= v PROVE i < r
      <4>1. g[i] \in Nat /\ ~ (w <= g[i])
        BY <1>3, <1>5, <1>6, <3>1
      <4>. QED  BY <1>1, <1>2, <4>1 DEF InPlace, r
    <3>. QED  BY <1>1, <3>1
  <2>2. Cardinality(1 .. r - 1) = r - 1 /\ IsFiniteSet(1 .. r - 1)
    <3>1. 1 \in Int /\ r - 1 \in Int /\ (1 > r - 1 => r - 1 = 0)
      BY <1>1
    <3>2. (r - 1) - 1 + 1 = r - 1
      BY <1>1
    <3>. QED  BY <3>1, <3>2, FS_Interval
  <2>3. Within(g, v) <= r - 1
    <3>1. Cardinality({i \in 1 .. N : g[i] <= v}) <= Cardinality(1 .. r - 1)
      BY <2>1, <2>2, FS_Subset
    <3>. QED  BY <1>2, <2>2, <3>1 DEF Within
  <2>4. Within(f, v) <= r - 1 /\ Within(f, v) \in Nat
    BY <1>2, <1>5, <2>3, WithinFacts
  <2>5. N * p <= 100 * Within(f, v)
    BY <1>2, <1>5 DEF Covers
  <2>. QED  BY <1>1, <2>4, <2>5
<1>7. v = w
  <2>. HIDE DEF v, w
  <2>. QED  BY <1>3, <1>5, <1>6
<1>. QED  BY <1>7 DEF r

\* What holds after each call: the vector is a rearrangement of the sample,
\* and what the calls so far have isolated is in place.
SampleInv ==
    /\ Size \in Nat \ {0}
    /\ sample \in [1 .. Size -> Nat]
    /\ values \in [1 .. Size -> Nat]
    /\ percent \in Percents
    /\ calls \in 0 .. 3
    /\ \A u \in Nat : Within(values, u) = Within(sample, u)
    /\ calls >= 1 => InPlace(values, Rank(3))
    /\ calls >= 2 => InPlace(values, Rank(2))
    /\ calls >= 3 => InPlace(values, Rank(1))

\* The three ranks are positions of the vector, in the order of their
\* percentages.
LEMMA RanksRise ==
    ASSUME Size \in Nat \ {0}, percent \in Percents
    PROVE  /\ \A x \in 1 .. 3 : percent[x] \in 1 .. 100 /\ Rank(x) \in 1 .. Size
           /\ Rank(1) <= Rank(2) /\ Rank(2) <= Rank(3)
<1>1. \A x \in 1 .. 3 : percent[x] \in Nat
  BY PercentilesAssumption
<1>2. 0 < percent[1] /\ percent[1] <= percent[2] /\ percent[2] <= percent[3] /\ percent[3] <= 100
  BY PercentilesAssumption
<1>3. /\ percent[1] \in 1 .. 100
      /\ percent[2] \in 1 .. 100
      /\ percent[3] \in 1 .. 100
  <2>1. percent[1] \in Nat /\ percent[2] \in Nat /\ percent[3] \in Nat
    BY <1>1
  <2>. QED  BY <1>2, <2>1
<1>4. ASSUME NEW p \in 1 .. 100, NEW q \in 1 .. 100, p <= q
      PROVE  PercentileRank(Size, p) <= PercentileRank(Size, q)
  <2>. DEFINE a == PercentileRank(Size, p)
              b == PercentileRank(Size, q)
              m == Size * p
              n == Size * q
  <2>1. a \in 1 .. Size /\ 100 * (a - 1) < m
    BY RankFacts
  <2>2. b \in 1 .. Size /\ n <= 100 * b
    BY RankFacts
  <2>3. m \in Nat /\ n \in Nat /\ m <= n
    BY <1>4
  <2>. HIDE DEF a, b, m, n
  <2>4. a <= b
    BY <2>1, <2>2, <2>3
  <2>. QED  BY <2>4 DEF a, b
<1>5. \A p \in 1 .. 100 : PercentileRank(Size, p) \in 1 .. Size
  BY RankFacts
<1>6. \A x \in 1 .. 3 : x = 1 \/ x = 2 \/ x = 3
  OBVIOUS
<1>. QED  BY <1>2, <1>3, <1>4, <1>5, <1>6 DEF Rank

\* What a call of nth_element leaves, when its range is not empty.
LEMMA NthElementFacts ==
    ASSUME SampleInv, NEW nth \in 1 .. Size, NEW last \in 0 .. Size,
           NthElement(nth, last), nth <= last
    PROVE  /\ values' \in [1 .. Size -> Nat] /\ Size' = Size
           /\ \A i \in 1 .. Size : values'[i] \in {values[k] : k \in 1 .. Size}
           /\ \A v \in {values[k] : k \in 1 .. Size} : Occurrences(values', v) = Occurrences(values, v)
           /\ \A i \in 1 .. Size : i > last => values'[i] = values[i]
           /\ \A i \in 1 .. last : /\ i < nth => values'[i] <= values'[nth]
                                   /\ i > nth => values'[nth] <= values'[i]
           /\ \A u \in Nat : Within(values', u) = Within(sample, u)
<1>1. DOMAIN values = 1 .. Size /\ Size \in Nat /\ values \in [1 .. Size -> Nat]
  BY DEF SampleInv
<1>2. ~ (nth > last)
  OBVIOUS
<1>3. /\ values' \in [1 .. Size -> {values[i] : i \in 1 .. Size}]
      /\ \A v \in {values[k] : k \in 1 .. Size} : Occurrences(values', v) = Occurrences(values, v)
      /\ \A i \in 1 .. Size : i > last => values'[i] = values[i]
      /\ \A i \in 1 .. last : /\ i < nth => values'[i] <= values'[nth]
                              /\ i > nth => values'[nth] <= values'[i]
  BY <1>1, <1>2 DEF NthElement
<1>4. values' \in [1 .. Size -> Nat]
  <2>1. {values[i] : i \in 1 .. Size} \subseteq Nat
    BY <1>1
  <2>. QED  BY <1>3, <2>1
<1>5. \A i \in 1 .. Size : values'[i] \in {values[k] : k \in 1 .. Size}
  BY <1>3
<1>6. Size' = Size
  <2>1. DOMAIN values' = DOMAIN values
    BY <1>1, <1>4
  <2>. QED  BY <2>1 DEF Size
<1>7. \A u \in Nat : Within(values', u) = Within(values, u)
  BY <1>1, <1>3, <1>4, <1>5, SameWithin
<1>8. \A u \in Nat : Within(values', u) = Within(sample, u)
  BY <1>7 DEF SampleInv
<1>. QED  BY <1>3, <1>4, <1>5, <1>6, <1>8

\* A later call, on what lies before r, puts nth in place and disturbs nothing
\* that is in place from r on, also when nothing lies before r from nth on.
LEMMA LaterCall ==
    ASSUME SampleInv, NEW nth \in 1 .. Size, NEW r \in 1 .. Size, nth <= r,
           InPlace(values, r), NthElement(nth, r - 1)
    PROVE  /\ values' \in [1 .. Size -> Nat] /\ Size' = Size
           /\ \A u \in Nat : Within(values', u) = Within(sample, u)
           /\ InPlace(values', nth)
           /\ \A q \in 1 .. Size : q >= r /\ InPlace(values, q) => InPlace(values', q)
<1>1. values \in [1 .. Size -> Nat] /\ Size \in Nat
  BY DEF SampleInv
<1>2. CASE nth = r
  <2>1. nth > r - 1
    BY <1>2
  <2>2. values' = values
    BY <2>1 DEF NthElement
  <2>3. Size' = Size
    BY <2>2 DEF Size
  <2>. QED  BY <1>1, <1>2, <2>2, <2>3 DEF SampleInv
<1>3. CASE nth < r
  <2>. DEFINE last == r - 1
  <2>1. last \in 0 .. Size /\ nth <= last /\ \A i \in 1 .. Size : i > last <=> i >= r
    BY <1>1, <1>3
  <2>2. NthElement(nth, last)
    OBVIOUS
  <2>. HIDE DEF last
  <2>3. /\ values' \in [1 .. Size -> Nat] /\ Size' = Size
        /\ \A i \in 1 .. Size : values'[i] \in {values[k] : k \in 1 .. Size}
        /\ \A v \in {values[k] : k \in 1 .. Size} : Occurrences(values', v) = Occurrences(values, v)
        /\ \A i \in 1 .. Size : i > last => values'[i] = values[i]
        /\ \A i \in 1 .. last : /\ i < nth => values'[i] <= values'[nth]
                                /\ i > nth => values'[nth] <= values'[i]
        /\ \A u \in Nat : Within(values', u) = Within(sample, u)
    BY <2>1, <2>2, NthElementFacts
  <2>4. \A i \in 1 .. Size : i >= r => values'[i] = values[i]
    BY <2>1, <2>3
  <2>5. \A i \in 1 .. r - 1 : /\ i < nth => values'[i] <= values'[nth]
                              /\ i > nth => values'[nth] <= values'[i]
    BY <2>3 DEF last
  <2>6. /\ InPlace(values', nth)
        /\ \A q \in 1 .. Size : q >= r /\ InPlace(values, q) => InPlace(values', q)
    BY <1>1, <1>3, <2>3, <2>4, <2>5, PrefixCall
  <2>. QED  BY <2>3, <2>6
<1>. QED  BY <1>2, <1>3

\* Whatever order each call of nth_element leaves its range in, the three
\* values percentiles() reads back after the third are the three percentiles
\* of the sample it was given, whatever its size and the percentages.
THEOREM ReadsNearestRanks == SampleSpec => []ReadsPercentiles
<1>1. SampleInit => SampleInv
  <2>. SUFFICES ASSUME SampleInit PROVE SampleInv
    OBVIOUS
  <2>1. PICK n \in 1 .. MaxSamples : sample \in [1 .. n -> Ticks]
    BY DEF SampleInit
  <2>2. n \in Nat \ {0} /\ Cardinality(1 .. n) = n
    <3>1. n \in Nat \ {0}
      BY PercentilesAssumption
    <3>. QED  BY <3>1, FS_Interval
  <2>3. Size = n
    BY <2>1, <2>2 DEF SampleInit, Size
  <2>4. sample \in [1 .. n -> Nat] /\ values = sample /\ percent \in Percents /\ calls = 0
    BY <2>1, PercentilesAssumption DEF SampleInit
  <2>. QED  BY <2>2, <2>3, <2>4 DEF SampleInv
<1>2. SampleInv /\ [SampleNext]_sampleVars => SampleInv'
  <2>. SUFFICES ASSUME SampleInv, [SampleNext]_sampleVars PROVE SampleInv'
    OBVIOUS
  <2>1. CASE UNCHANGED sampleVars
    BY <2>1 DEF SampleInv, sampleVars, Size, Rank, Within, InPlace
  <2>2. CASE SampleNext
    <3>1. /\ calls' = calls + 1 /\ sample' = sample /\ percent' = percent
          /\ IsolateP99 \/ IsolateP95 \/ IsolateP50
      BY <2>2 DEF SampleNext
    <3>2. /\ \A x \in 1 .. 3 : Rank(x) \in 1 .. Size
          /\ Rank(1) <= Rank(2) /\ Rank(2) <= Rank(3)
      BY RanksRise DEF SampleInv
    <3>3. Rank(1) \in 1 .. Size /\ Rank(2) \in 1 .. Size /\ Rank(3) \in 1 .. Size
      BY <3>2
    <3>4. ASSUME Size' = Size, values' \in [1 .. Size -> Nat], calls' \in 1 .. 3,
                 \A u \in Nat : Within(values', u) = Within(sample, u),
                 InPlace(values', Rank(3)),
                 calls' >= 2 => InPlace(values', Rank(2)),
                 calls' >= 3 => InPlace(values', Rank(1))
          PROVE  SampleInv'
      <4>1. Rank(1)' = Rank(1) /\ Rank(2)' = Rank(2) /\ Rank(3)' = Rank(3)
        BY <3>1, <3>4 DEF Rank
      <4>2. (\A u \in Nat : Within(values, u) = Within(sample, u))'
        BY <3>1, <3>4 DEF Within
      <4>3. InPlace(values, Rank(3))' /\ (calls' >= 2 => InPlace(values, Rank(2))')
            /\ (calls' >= 3 => InPlace(values, Rank(1))')
        BY <3>4, <4>1 DEF InPlace
      <4>. QED  BY <3>1, <3>4, <4>2, <4>3 DEF SampleInv
    <3>5. CASE IsolateP99
      <4>1. calls = 0 /\ NthElement(Rank(3), Size)
        BY <3>5 DEF IsolateP99
      <4>2. Size \in 0 .. Size /\ Rank(3) <= Size /\ Size \in Nat
        BY <3>3 DEF SampleInv
      <4>3. /\ values' \in [1 .. Size -> Nat] /\ Size' = Size
            /\ \A i \in 1 .. Size : /\ i < Rank(3) => values'[i] <= values'[Rank(3)]
                                    /\ i > Rank(3) => values'[Rank(3)] <= values'[i]
            /\ \A u \in Nat : Within(values', u) = Within(sample, u)
        BY <3>3, <4>1, <4>2, NthElementFacts
      <4>4. InPlace(values', Rank(3))
        BY <4>3 DEF InPlace
      <4>5. calls' = 1
        BY <3>1, <4>1
      <4>. QED  BY <3>4, <4>3, <4>4, <4>5
    <3>6. CASE IsolateP95
      <4>1. calls = 1 /\ NthElement(Rank(2), Rank(3) - 1) /\ InPlace(values, Rank(3))
        BY <3>6 DEF IsolateP95, SampleInv
      <4>2. /\ values' \in [1 .. Size -> Nat] /\ Size' = Size
            /\ \A u \in Nat : Within(values', u) = Within(sample, u)
            /\ InPlace(values', Rank(2))
            /\ \A q \in 1 .. Size : q >= Rank(3) /\ InPlace(values, q) => InPlace(values', q)
        BY <3>2, <3>3, <4>1, LaterCall
      <4>3. InPlace(values', Rank(3))
        BY <3>3, <4>1, <4>2
      <4>4. calls' = 2
        BY <3>1, <4>1
      <4>. QED  BY <3>4, <4>2, <4>3, <4>4
    <3>7. CASE IsolateP50
      <4>1. /\ calls = 2 /\ NthElement(Rank(1), Rank(2) - 1)
            /\ InPlace(values, Rank(2)) /\ InPlace(values, Rank(3))
        BY <3>7 DEF IsolateP50, SampleInv
      <4>2. /\ values' \in [1 .. Size -> Nat] /\ Size' = Size
            /\ \A u \in Nat : Within(values', u) = Within(sample, u)
            /\ InPlace(values', Rank(1))
            /\ \A q \in 1 .. Size : q >= Rank(2) /\ InPlace(values, q) => InPlace(values', q)
        BY <3>2, <3>3, <4>1, LaterCall
      <4>3. InPlace(values', Rank(3)) /\ InPlace(values', Rank(2))
        BY <3>2, <3>3, <4>1, <4>2
      <4>4. calls' = 3
        BY <3>1, <4>1
      <4>. QED  BY <3>4, <4>2, <4>3, <4>4
    <3>. QED  BY <3>1, <3>5, <3>6, <3>7
  <2>. QED  BY <2>1, <2>2
<1>3. SampleInv => ReadsPercentiles
  <2>. SUFFICES ASSUME SampleInv, calls = 3, NEW x \in 1 .. 3
                PROVE  values[Rank(x)] = NearestRank(sample, percent[x])
    BY DEF ReadsPercentiles
  <2>1. InPlace(values, Rank(x))
    <3>1. InPlace(values, Rank(1)) /\ InPlace(values, Rank(2)) /\ InPlace(values, Rank(3))
      BY DEF SampleInv
    <3>2. x = 1 \/ x = 2 \/ x = 3
      OBVIOUS
    <3>. QED  BY <3>1, <3>2
  <2>2. percent[x] \in 1 .. 100
    BY RanksRise DEF SampleInv
  <2>3. InPlace(values, PercentileRank(Size, percent[x]))
    BY <2>1 DEF Rank
  <2>4. /\ Size \in Nat \ {0} /\ sample \in [1 .. Size -> Nat] /\ values \in [1 .. Size -> Nat]
        /\ \A u \in Nat : Within(values, u) = Within(sample, u)
    BY DEF SampleInv
  <2>5. values[PercentileRank(Size, percent[x])] = NearestRank(sample, percent[x])
    BY <2>2, <2>3, <2>4, InPlaceIsNearestRank
  <2>. QED  BY <2>5 DEF Rank
<1>. QED  BY <1>1, <1>2, <1>3, PTL DEF SampleSpec

--------------------------------------------------------------------------------
(* What a step writes *)

\* The lines are a sequence, whatever a line is.
IsFile == \E S : lines \in Seq(S)

\* One line more.
Writes(x) == lines' = Append(lines, x)

LEMMA WritesFacts ==
    ASSUME IsFile, NEW x, Writes(x)
    PROVE  /\ IsFile' /\ Len(lines) \in Nat /\ Len(lines') = Len(lines) + 1
           /\ DOMAIN lines = 1 .. Len(lines) /\ DOMAIN lines' = 1 .. Len(lines) + 1
           /\ \A i \in DOMAIN lines : i \in Nat /\ i <= Len(lines) /\ lines'[i] = lines[i]
           /\ lines'[Len(lines) + 1] = x
           /\ \A ev, j : LinesAbout(ev, j)' = LinesAbout(ev, j) \cup
                             {i \in {Len(lines) + 1} : x.ev = ev /\ x.job = j}
           /\ Happenings' = Happenings \cup
                             {i \in {Len(lines) + 1} : x.ev \notin {"header", "job"}}
<1>1. PICK S : lines \in Seq(S)
  BY DEF IsFile
<1>2. lines \in Seq(S \cup {x}) /\ x \in S \cup {x}
  BY <1>1
<1>3. lines' \in Seq(S \cup {x})
  BY <1>2 DEF Writes
<1>4. /\ Len(lines) \in Nat /\ Len(lines') = Len(lines) + 1
      /\ DOMAIN lines = 1 .. Len(lines) /\ DOMAIN lines' = 1 .. Len(lines) + 1
      /\ \A i \in 1 .. Len(lines) : lines'[i] = lines[i]
      /\ lines'[Len(lines) + 1] = x
  BY <1>2, <1>3 DEF Writes
<1>5. \A i \in DOMAIN lines : i \in Nat /\ i <= Len(lines) /\ lines'[i] = lines[i]
  BY <1>4
<1>6. DOMAIN lines' = DOMAIN lines \cup {Len(lines) + 1}
  BY <1>4
<1>7. \A ev, j : LinesAbout(ev, j)' = LinesAbout(ev, j) \cup
                     {i \in {Len(lines) + 1} : x.ev = ev /\ x.job = j}
  BY <1>4, <1>5, <1>6 DEF LinesAbout
<1>8. Happenings' = Happenings \cup {i \in {Len(lines) + 1} : x.ev \notin {"header", "job"}}
  BY <1>4, <1>5, <1>6 DEF Happenings
<1>. QED  BY <1>3, <1>4, <1>5, <1>7, <1>8 DEF IsFile

\* A line is one more about its job, of its kind, and about nothing else.
LEMMA LineAdded ==
    ASSUME IsFile, NEW x, Writes(x), NEW ev, NEW j
    PROVE  /\ x.ev = ev /\ x.job = j => LinesAbout(ev, j)' = LinesAbout(ev, j) \cup {Len(lines) + 1}
           /\ ~ (x.ev = ev /\ x.job = j) => LinesAbout(ev, j)' = LinesAbout(ev, j)
           /\ \A i \in LinesAbout(ev, j) : /\ i \in DOMAIN lines /\ i \in Nat /\ i < Len(lines) + 1
                                          /\ lines'[i] = lines[i]
<1>1. LinesAbout(ev, j)' = LinesAbout(ev, j) \cup {i \in {Len(lines) + 1} : x.ev = ev /\ x.job = j}
  BY WritesFacts
<1>2. /\ Len(lines) \in Nat
      /\ \A i \in DOMAIN lines : i \in Nat /\ i <= Len(lines) /\ lines'[i] = lines[i]
  BY WritesFacts
<1>. QED  BY <1>1, <1>2 DEF LinesAbout

\* Every event is written when it is taken off the queue and every start when
\* it happens, and nothing else is written.
StartedLine(j, n) == [t |-> now, ev |-> "JobStart", job |-> j, node |-> n]

LEMMA StepWrites ==
    ASSUME IInv, [TracedNext]_traceVars
    PROVE  \/ \E e \in heap : (ArrivalEffect(e) \/ FinishEffect(e) \/ EndEffect(e))
                                /\ Writes(EventLine(e))
           \/ \E j \in JobId, n \in NodeId : StartEffect(j, n) /\ Writes(StartedLine(j, n))
           \/ QuietEffect /\ lines' = lines
<1>1. [Next]_vars
  BY DEF TracedNext, TraceEvent, TraceStart, TraceNothing, Next, traceVars
<1>2. Effect
  BY <1>1, StepEffect
<1>3. CASE TraceEvent
  <2>1. PICK e \in heap \ heap' : Writes(EventLine(e))
    BY <1>3 DEF TraceEvent, Writes
  <2>2. pc = "run"
    BY <1>3 DEF TraceEvent, OnArrival, OnFinish, OnSimEnd, Take
  <2>3. PICK f \in heap : ArrivalEffect(f) \/ FinishEffect(f) \/ EndEffect(f)
    BY <1>2, <2>1, <2>2 DEF Effect, StartEffect, QuietEffect
  <2>4. heap' = heap \ {f}
    BY <2>3 DEF ArrivalEffect, FinishEffect, EndEffect, Jumps
  <2>. QED  BY <2>1, <2>3, <2>4
<1>4. CASE TraceStart
  <2>1. PICK k \in running' \ running : Writes(StartLine(k))
    BY <1>4 DEF TraceStart, Writes
  <2>2. pc # "run"
    BY <1>4 DEF TraceStart, StartHead, BackfillJob
  <2>3. PICK j \in JobId, n \in NodeId : StartEffect(j, n)
    BY <1>2, <2>1, <2>2 DEF Effect, ArrivalEffect, FinishEffect, EndEffect, Jumps, QuietEffect
  <2>4. k = j /\ node' = [node EXCEPT ![j] = n]
    BY <2>1, <2>3 DEF StartEffect
  <2>5. StartLine(k) = StartedLine(j, n)
    BY <2>4 DEF StartLine, StartedLine, IInv, TypeOK
  <2>. QED  BY <2>1, <2>3, <2>5
<1>5. CASE TraceNothing \/ UNCHANGED traceVars
  <2>1. lines' = lines
    BY <1>5 DEF TraceNothing, traceVars
  <2>2. QuietEffect
    <3>1. CASE LoopEnds
      BY <1>2, <3>1 DEF LoopEnds, Effect, ArrivalEffect, FinishEffect, EndEffect, StartEffect, Jumps
    <3>2. CASE BlockHead
      <4>1. pc # "run" /\ running' = running
        BY <3>2 DEF BlockHead, TryPlace
      <4>. QED  BY <1>2, <4>1
                DEF Effect, ArrivalEffect, FinishEffect, EndEffect, StartEffect, Jumps
    <3>3. CASE DrainReturns
      <4>1. pc # "run" /\ running' = running
        BY <3>3 DEF DrainReturns
      <4>. QED  BY <1>2, <4>1
                DEF Effect, ArrivalEffect, FinishEffect, EndEffect, StartEffect, Jumps
    <3>4. CASE Returned \/ UNCHANGED vars
      <4>1. heap' = heap /\ running' = running
        BY <3>4 DEF Returned, vars, queue
      <4>. QED  BY <1>2, <4>1
                DEF Effect, ArrivalEffect, FinishEffect, EndEffect, StartEffect, Jumps
    <3>. QED  BY <1>5, <3>1, <3>2, <3>3, <3>4 DEF TraceNothing, traceVars
  <2>. QED  BY <2>1, <2>2
<1>. QED  BY <1>3, <1>4, <1>5 DEF TracedNext

--------------------------------------------------------------------------------
(* The trace tells every job's story once and in order *)

Told(ev, j) == LinesAbout(ev, j) # {}

\* The story of job j so far.
StoryOf(j) ==
    /\ \A ev \in {"JobArrival", "JobStart", "JobFinish"} :
        \A i, k \in LinesAbout(ev, j) : i = k
    /\ Told("JobArrival", j) <=> ~ Awaited(j)
    /\ Told("JobStart", j) <=> state[j] # "Queued"
    /\ Told("JobFinish", j) <=> state[j] = "Done"
    /\ \A i \in LinesAbout("JobArrival", j) : lines[i].t = workload[j].submit_time
    /\ \A i \in LinesAbout("JobStart", j) :
        /\ lines[i].t = start_time[j] /\ lines[i].node = node[j]
        /\ \A k \in LinesAbout("JobArrival", j) : k < i
    /\ \A i \in LinesAbout("JobFinish", j) :
        /\ lines[i].t = finish_time[j] /\ lines[i].node = node[j]
        /\ \A k \in LinesAbout("JobStart", j) : k < i

StoryInv == IsFile /\ \A j \in JobId : StoryOf(j)

\* A job whose record stays as it is, and of which nothing is written, keeps
\* its story.
LEMMA StoryKept ==
    ASSUME IsFile, NEW x, Writes(x), NEW j, StoryOf(j),
           ~ (x.ev \in {"JobArrival", "JobStart", "JobFinish"} /\ x.job = j),
           workload' = workload, Awaited(j)' <=> Awaited(j),
           state'[j] = state[j], start_time'[j] = start_time[j],
           finish_time'[j] = finish_time[j], node'[j] = node[j]
    PROVE  StoryOf(j)'
<1>1. \A ev \in {"JobArrival", "JobStart", "JobFinish"} :
        /\ LinesAbout(ev, j)' = LinesAbout(ev, j)
        /\ \A i \in LinesAbout(ev, j) : lines'[i] = lines[i]
  BY LineAdded
<1>3. /\ LinesAbout("JobArrival", j)' = LinesAbout("JobArrival", j)
      /\ LinesAbout("JobStart", j)' = LinesAbout("JobStart", j)
      /\ LinesAbout("JobFinish", j)' = LinesAbout("JobFinish", j)
  BY <1>1
<1>4. /\ Told("JobArrival", j)' <=> Told("JobArrival", j)
      /\ Told("JobStart", j)' <=> Told("JobStart", j)
      /\ Told("JobFinish", j)' <=> Told("JobFinish", j)
  BY <1>3 DEF Told
<1>. QED  BY <1>1, <1>3, <1>4 DEF StoryOf

\* An arrival is the first that is told of a job.
LEMMA ArrivalTold ==
    ASSUME IInv, HistoryInv, StoryInv, NEW e \in heap, ArrivalEffect(e), workload' = workload,
           Writes(EventLine(e))
    PROVE  StoryInv'
<1>. DEFINE a == e.payload.job
            x == EventLine(e)
<1>1. /\ e.payload.type = "JobArrival" /\ a \in JobId /\ heap' = heap \ {e}
      /\ state' = state /\ start_time' = start_time /\ finish_time' = finish_time /\ node' = node
  BY DEF ArrivalEffect, Jumps
<1>2. x = [t |-> e.time, seq |-> e.seq, ev |-> "JobArrival", job |-> a]
  BY <1>1 DEF EventLine
<1>3. x.ev = "JobArrival" /\ x.job = a /\ x.t = workload[a].submit_time
  BY <1>1, <1>2 DEF HistoryInv, OrderInv
<1>4. (\A j : Awaited(j)' <=> Awaited(j) /\ j # a) /\ Awaited(a) /\ state[a] = "Queued"
  BY <1>1 DEF Awaited, IInv, EventsDiffer, EventsAgree
<1>5. IsFile /\ IsFile' /\ JobId' = JobId
  BY WritesFacts DEF StoryInv, JobId
<1>6. Writes(x)
  OBVIOUS
<1>. HIDE DEF x
<1>7. ASSUME NEW j \in JobId
      PROVE  StoryOf(j)'
  <2>1. CASE j # a
    BY <1>1, <1>3, <1>4, <1>5, <1>6, <2>1, StoryKept DEF StoryInv
  <2>2. CASE j = a
    <3>1. /\ LinesAbout("JobArrival", a) = {} /\ LinesAbout("JobStart", a) = {}
          /\ LinesAbout("JobFinish", a) = {}
      BY <1>1, <1>4 DEF StoryInv, StoryOf, Told
    <3>2. /\ LinesAbout("JobArrival", j)' = {Len(lines) + 1} /\ LinesAbout("JobStart", j)' = {}
          /\ LinesAbout("JobFinish", j)' = {}
      BY <1>3, <1>5, <1>6, <2>2, <3>1, LineAdded
    <3>3. lines'[Len(lines) + 1] = x
      BY <1>5, <1>6, WritesFacts
    <3>. QED  BY <1>1, <1>3, <1>4, <2>2, <3>2, <3>3 DEF StoryOf, Told
  <2>. QED  BY <2>1, <2>2
<1>. QED  BY <1>5, <1>7 DEF StoryInv

\* A start comes after the arrival.
LEMMA StartTold ==
    ASSUME IInv, StoryInv, NEW s \in JobId, NEW n \in NodeId, StartEffect(s, n),
           workload' = workload, Writes(StartedLine(s, n))
    PROVE  StoryInv'
<1>. DEFINE x == StartedLine(s, n)
<1>1. /\ state[s] = "Queued" /\ state' = [state EXCEPT ![s] = "Running"] /\ BacklogLoses(s)
      /\ start_time' = [start_time EXCEPT ![s] = now] /\ node' = [node EXCEPT ![s] = n]
      /\ finish_time' = finish_time
      /\ heap' = heap \cup {[time |-> now + workload[s].duration, seq |-> next_seq,
                             payload |-> JobFinish(s, n)]}
  BY DEF StartEffect
<1>2. x.ev = "JobStart" /\ x.job = s /\ x.t = now /\ x.node = n
  BY DEF StartedLine
<1>3. JobFinish(s, n).type = "JobFinish"
  BY DEF JobFinish
<1>4. (\A j : Awaited(j)' <=> Awaited(j)) /\ ~ Awaited(s)
  BY <1>1, <1>3 DEF Awaited, BacklogLoses, IInv, EventsAgree
<1>5. /\ IsFile /\ IsFile' /\ JobId' = JobId /\ state \in [JobId -> JobState]
      /\ start_time \in [JobId -> Nat \cup {kNever}] /\ node \in [JobId -> Nat]
  BY WritesFacts DEF StoryInv, JobId, IInv, TypeOK
<1>6. Writes(x)
  OBVIOUS
<1>. HIDE DEF x
<1>7. ASSUME NEW j \in JobId
      PROVE  StoryOf(j)'
  <2>1. CASE j # s
    BY <1>1, <1>2, <1>4, <1>5, <1>6, <2>1, StoryKept DEF StoryInv
  <2>2. CASE j = s
    <3>1. /\ LinesAbout("JobStart", s) = {} /\ LinesAbout("JobFinish", s) = {}
          /\ LinesAbout("JobArrival", s) # {}
          /\ \A i, k \in LinesAbout("JobArrival", s) : i = k
          /\ \A i \in LinesAbout("JobArrival", s) : lines[i].t = workload[s].submit_time
      BY <1>1, <1>4 DEF StoryInv, StoryOf, Told
    <3>2. /\ LinesAbout("JobArrival", j)' = LinesAbout("JobArrival", s)
          /\ LinesAbout("JobStart", j)' = {Len(lines) + 1}
          /\ LinesAbout("JobFinish", j)' = {}
      BY <1>2, <1>5, <1>6, <2>2, <3>1, LineAdded
    <3>3. lines'[Len(lines) + 1] = x
      BY <1>5, <1>6, WritesFacts
    <3>4. \A i \in LinesAbout("JobArrival", s) : lines'[i] = lines[i] /\ i < Len(lines) + 1
      BY <1>5, <1>6, LineAdded
    <3>5. state'[j] = "Running" /\ start_time'[j] = now /\ node'[j] = n
      BY <1>1, <1>5, <2>2
    <3>. QED  BY <1>2, <1>4, <2>2, <3>1, <3>2, <3>3, <3>4, <3>5 DEF StoryOf, Told
  <2>. QED  BY <2>1, <2>2
<1>. QED  BY <1>5, <1>7 DEF StoryInv

\* A finish comes after the start, and ends the story.
LEMMA FinishTold ==
    ASSUME IInv, StoryInv, NEW e \in heap, FinishEffect(e), workload' = workload,
           Writes(EventLine(e))
    PROVE  StoryInv'
<1>. DEFINE b == e.payload.job
            x == EventLine(e)
<1>1. /\ e.payload.type = "JobFinish" /\ b \in JobId /\ heap' = heap \ {e}
      /\ state[b] = "Running" /\ state' = [state EXCEPT ![b] = "Done"]
      /\ finish_time' = [finish_time EXCEPT ![b] = e.time]
      /\ start_time' = start_time /\ node' = node
  BY DEF FinishEffect, Jumps, IInv, RunningInv
<1>2. x = [t |-> e.time, seq |-> e.seq, ev |-> "JobFinish", job |-> b, node |-> e.payload.node]
  BY <1>1 DEF EventLine
<1>3. x.ev = "JobFinish" /\ x.job = b /\ x.t = e.time /\ x.node = node[b]
  BY <1>1, <1>2 DEF IInv, EventsAgree
<1>4. \A j : Awaited(j)' <=> Awaited(j)
  BY <1>1 DEF Awaited
<1>5. /\ IsFile /\ IsFile' /\ JobId' = JobId /\ state \in [JobId -> JobState]
      /\ finish_time \in [JobId -> Nat \cup {kNever}]
  BY WritesFacts DEF StoryInv, JobId, IInv, TypeOK
<1>6. Writes(x)
  OBVIOUS
<1>. HIDE DEF x
<1>7. ASSUME NEW j \in JobId
      PROVE  StoryOf(j)'
  <2>1. CASE j # b
    BY <1>1, <1>3, <1>4, <1>5, <1>6, <2>1, StoryKept DEF StoryInv
  <2>2. CASE j = b
    <3>1. StoryOf(b) /\ LinesAbout("JobFinish", b) = {}
      BY <1>1 DEF StoryInv, StoryOf, Told
    <3>2. /\ LinesAbout("JobArrival", j)' = LinesAbout("JobArrival", b)
          /\ LinesAbout("JobStart", j)' = LinesAbout("JobStart", b)
          /\ LinesAbout("JobFinish", j)' = {Len(lines) + 1}
      BY <1>3, <1>5, <1>6, <2>2, <3>1, LineAdded
    <3>3. lines'[Len(lines) + 1] = x
      BY <1>5, <1>6, WritesFacts
    <3>4. \A ev : \A i \in LinesAbout(ev, b) : lines'[i] = lines[i] /\ i < Len(lines) + 1
      BY <1>5, <1>6, LineAdded
    <3>5. state'[j] = "Done" /\ finish_time'[j] = e.time
      BY <1>1, <1>5, <2>2
    <3>6. /\ Told("JobArrival", j)' <=> Told("JobArrival", b)
          /\ Told("JobStart", j)' <=> Told("JobStart", b)
          /\ Told("JobFinish", j)'
      BY <3>2 DEF Told
    <3>. QED  BY <1>1, <1>3, <1>4, <2>2, <3>1, <3>2, <3>3, <3>4, <3>5, <3>6 DEF StoryOf
  <2>. QED  BY <2>1, <2>2
<1>. QED  BY <1>5, <1>7 DEF StoryInv

\* The end of the run is about no job.
LEMMA EndTold ==
    ASSUME IInv, StoryInv, NEW e \in heap, EndEffect(e), workload' = workload,
           Writes(EventLine(e))
    PROVE  StoryInv'
<1>1. /\ e.payload.type = "SimEnd" /\ heap' = heap \ {e} /\ state' = state
      /\ start_time' = start_time /\ finish_time' = finish_time /\ node' = node
  BY DEF EndEffect, Jumps
<1>2. EventLine(e).ev = "SimEnd"
  BY <1>1 DEF EventLine
<1>3. \A j : Awaited(j)' <=> Awaited(j)
  BY <1>1 DEF Awaited
<1>4. IsFile /\ IsFile' /\ JobId' = JobId
  BY WritesFacts DEF StoryInv, JobId
<1>5. \A j \in JobId : StoryOf(j)'
  BY <1>1, <1>2, <1>3, <1>4, StoryKept DEF StoryInv
<1>. QED  BY <1>4, <1>5 DEF StoryInv

\* Where nothing happens to a job nothing is written.
LEMMA QuietTold ==
    ASSUME StoryInv, QuietEffect, workload' = workload, lines' = lines
    PROVE  StoryInv'
<1>1. /\ state' = state /\ start_time' = start_time /\ finish_time' = finish_time
      /\ node' = node /\ JobId' = JobId
  BY DEF QuietEffect, JobId
<1>2. \A j : Awaited(j)' <=> Awaited(j)
  BY DEF QuietEffect, Awaited, SimEnd
<1>3. \A ev, j : LinesAbout(ev, j)' = LinesAbout(ev, j)
  BY DEF LinesAbout
<1>4. \A ev, j : Told(ev, j)' <=> Told(ev, j)
  BY <1>3 DEF Told
<1>5. \A j \in JobId : StoryOf(j)'
  BY <1>1, <1>2, <1>3, <1>4 DEF StoryInv, StoryOf
<1>. QED  BY <1>1, <1>5 DEF StoryInv, IsFile

\* The file starts with what is known before the clock does.
LEMMA TraceStarts ==
    ASSUME TracedInit
    PROVE  /\ IsFile
           /\ \A i \in DOMAIN lines : lines[i].ev \in {"header", "job"}
<1>. DEFINE specs == [j \in JobId |-> JobSpecLine(j)]
            S == {Header} \cup {JobSpecLine(j) : j \in JobId}
<1>1. JobId = 1 .. Len(workload) /\ Len(workload) \in Nat
  BY InitInv, JobFacts DEF TracedInit, IInv, TypeOK
<1>2. specs \in Seq(S) /\ <<Header>> \in Seq(S)
  BY <1>1
<1>3. lines = <<Header>> \o specs
  BY DEF TracedInit
<1>4. lines \in Seq(S)
  <2>. HIDE DEF S, specs
  <2>. QED  BY <1>2, <1>3
<1>5. \A x \in S : x.ev \in {"header", "job"}
  BY DEF Header, JobSpecLine
<1>6. \A i \in DOMAIN lines : lines[i] \in S
  <2>. HIDE DEF S
  <2>. QED  BY <1>4
<1>. QED  BY <1>4, <1>5, <1>6 DEF IsFile

LEMMA InitTold ==
    ASSUME TracedInit
    PROVE  StoryInv
<1>1. IsFile /\ \A i \in DOMAIN lines : lines[i].ev \in {"header", "job"}
  BY TraceStarts
<1>2. ASSUME NEW j \in JobId
      PROVE  StoryOf(j)
  <2>1. /\ LinesAbout("JobArrival", j) = {} /\ LinesAbout("JobStart", j) = {}
        /\ LinesAbout("JobFinish", j) = {}
    BY <1>1 DEF LinesAbout
  <2>2. state[j] = "Queued"
    BY DEF TracedInit, Init
  <2>3. Awaited(j)
    <3>. DEFINE e == [time |-> workload[j].submit_time, seq |-> j - 1, payload |-> JobArrival(j)]
    <3>1. e \in heap
      BY DEF TracedInit, Init, Seeds, JobId
    <3>2. e.payload.type = "JobArrival" /\ e.payload.job = j
      BY DEF JobArrival
    <3>. QED  BY <3>1, <3>2 DEF Awaited
  <2>. QED  BY <2>1, <2>2, <2>3 DEF StoryOf, Told
<1>. QED  BY <1>1, <1>2 DEF StoryInv

\* A traced run is a run, with the invariants of one.
LEMMA TracedStep == [TracedNext]_traceVars => [Next]_vars
  BY DEF TracedNext, TraceEvent, TraceStart, TraceNothing, Next, traceVars

LEMMA TracedInvariance == TracedSpec => [](IInv /\ HistoryInv)
<1>1. TracedInit => IInv /\ HistoryInv
  BY InitInv, InitHistory DEF TracedInit
<1>2. IInv /\ HistoryInv /\ [TracedNext]_traceVars => (IInv /\ HistoryInv)'
  BY TracedStep, NextPreserves, HistoryPreserved
<1>. QED  BY <1>1, <1>2, PTL DEF TracedSpec

LEMMA StoriesTold == TracedSpec => []StoryInv
<1>1. TracedInit => StoryInv
  BY InitTold
<1>2. ASSUME IInv, HistoryInv, StoryInv, [TracedNext]_traceVars
      PROVE  StoryInv'
  <2>1. workload' = workload
    BY <1>2, TracedStep, StepEffect
  <2>. QED  BY <1>2, <2>1, StepWrites, ArrivalTold, StartTold, FinishTold, EndTold, QuietTold
<1>. QED  BY <1>1, <1>2, TracedInvariance, PTL DEF TracedSpec

\* The trace holds one line for every arrival, start and finish the job
\* records tell of, at the tick and on the node they tell, in the order of a
\* job's life, and none that they do not.
THEOREM TraceKeepsTheRecords == TracedSpec => []TraceTellsRecords
<1>1. ASSUME IInv, StoryInv
      PROVE  TraceTellsRecords
  <2>. SUFFICES ASSUME NEW j \in JobId
                PROVE  /\ Cardinality(LinesAbout("JobArrival", j)) =
                             IF ArrivalsOf(j) = {} THEN 1 ELSE 0
                       /\ Cardinality(LinesAbout("JobStart", j)) =
                             IF state[j] = "Queued" THEN 0 ELSE 1
                       /\ Cardinality(LinesAbout("JobFinish", j)) =
                             IF state[j] = "Done" THEN 1 ELSE 0
    BY <1>1 DEF TraceTellsRecords, StoryInv, StoryOf
  <2>1. StoryOf(j) /\ (ArrivalsOf(j) # {} <=> Awaited(j))
    BY <1>1, ArrivalsAwaited DEF StoryInv
  <2>2. ASSUME NEW ev \in {"JobArrival", "JobStart", "JobFinish"}
        PROVE  Cardinality(LinesAbout(ev, j)) = IF Told(ev, j) THEN 1 ELSE 0
    <3>1. CASE LinesAbout(ev, j) = {}
      BY <3>1, FS_EmptySet DEF Told
    <3>2. CASE LinesAbout(ev, j) # {}
      <4>0. \A i, k \in LinesAbout(ev, j) : i = k
        BY <2>1, <2>2 DEF StoryOf
      <4>1. PICK i : LinesAbout(ev, j) = {i}
        BY <3>2, <4>0
      <4>. QED  BY <3>2, <4>1, FS_Singleton DEF Told
    <3>. QED  BY <3>1, <3>2
  <2>3. /\ Told("JobArrival", j) <=> ArrivalsOf(j) = {}
        /\ Told("JobStart", j) <=> state[j] # "Queued"
        /\ Told("JobFinish", j) <=> state[j] = "Done"
    BY <2>1 DEF StoryOf
  <2>. QED  BY <2>2, <2>3
<1>. QED  BY <1>1, TracedInvariance, StoriesTold, PTL

--------------------------------------------------------------------------------
(* File order is time order *)

\* No line tells of a moment after now, and every event still due comes after
\* every event told.
LateInv ==
    \A i \in Happenings :
        /\ lines[i].t \in Nat /\ lines[i].t <= now
        /\ "seq" \in DOMAIN lines[i] =>
            /\ lines[i].seq \in Nat /\ lines[i].seq < next_seq
            /\ \A e \in heap : lines[i].t < e.time \/ lines[i].seq < e.seq

OrderedInv == LateInv /\ FileOrderIsTimeOrder

\* A line that tells of an event the queue lets out, or of what happens at
\* the tick the clock stands at, goes to the end of the file.
LEMMA OrderKept ==
    ASSUME IsFile, NEW x, Writes(x), LateInv', FileOrderIsTimeOrder,
           \A i \in Happenings :
             /\ lines[i].t <= x.t
             /\ "seq" \in DOMAIN lines[i] /\ "seq" \in DOMAIN x
                  => lines[i].seq < x.seq \/ lines[i].t < x.t
    PROVE  FileOrderIsTimeOrder'
<1>1. /\ Len(lines) \in Nat /\ lines'[Len(lines) + 1] = x
      /\ \A i \in DOMAIN lines : i \in Nat /\ i <= Len(lines) /\ lines'[i] = lines[i]
      /\ Happenings' \subseteq Happenings \cup {Len(lines) + 1}
  BY WritesFacts
<1>2. \A i \in Happenings : i \in DOMAIN lines
  BY DEF Happenings
<1>3. ASSUME NEW i \in Happenings', NEW k \in Happenings', i < k
      PROVE  /\ lines'[i].t <= lines'[k].t
             /\ "seq" \in DOMAIN lines'[i] /\ "seq" \in DOMAIN lines'[k]
                  => lines'[i].seq < lines'[k].seq \/ lines'[i].t < lines'[k].t
  <2>1. i \in Happenings
    BY <1>1, <1>2, <1>3
  <2>2. lines'[i] = lines[i]
    BY <1>1, <1>2, <2>1
  <2>3. CASE k \in Happenings
    <3>1. lines'[k] = lines[k]
      BY <1>1, <1>2, <2>3
    <3>. QED  BY <1>3, <2>1, <2>2, <2>3, <3>1 DEF FileOrderIsTimeOrder
  <2>4. CASE k = Len(lines) + 1
    <3>1. lines'[k] = x
      BY <1>1, <2>4
    <3>. QED  BY <2>1, <2>2, <3>1
  <2>. QED  BY <1>1, <2>3, <2>4
<1>. QED  BY <1>3 DEF FileOrderIsTimeOrder

\* The line of the event the clock jumps to.
LEMMA JumpOrdered ==
    ASSUME IInv, IsFile, OrderedInv, NEW e \in heap, Jumps(e), Writes(EventLine(e))
    PROVE  OrderedInv'
<1>. DEFINE x == EventLine(e)
<1>1. e.time \in Nat /\ e.seq \in Nat /\ e.payload \in Payload /\ e.seq < next_seq
  BY DEF IInv, TypeOK, EventsDiffer
<1>2. x.t = e.time /\ x.seq = e.seq
  BY <1>1, PayloadKinds DEF EventLine
<1>3. /\ heap' = heap \ {e} /\ next_seq' = next_seq /\ now' = e.time /\ now <= e.time
      /\ \A f \in heap \ {e} : EarliestFirst(f, e)
      /\ now \in Nat
      /\ \A f \in heap : f.time \in Nat /\ f.seq \in Nat
  BY DEF Jumps, IInv, TypeOK
<1>4. \A i \in Happenings :
        /\ lines[i].t \in Nat /\ lines[i].t <= x.t
        /\ "seq" \in DOMAIN lines[i] => lines[i].seq < x.seq \/ lines[i].t < x.t
  BY <1>1, <1>2, <1>3 DEF OrderedInv, LateInv
<1>5. \A f \in heap' : x.t < f.time \/ x.seq < f.seq
  BY <1>1, <1>2, <1>3 DEF EarliestFirst
<1>6. /\ \A i \in Happenings : i \in DOMAIN lines
      /\ \A i \in DOMAIN lines : lines'[i] = lines[i]
      /\ lines'[Len(lines) + 1] = x
      /\ Happenings' \subseteq Happenings \cup {Len(lines) + 1}
  BY WritesFacts DEF Happenings
<1>7. LateInv'
  <2>1. ASSUME NEW i \in Happenings'
        PROVE  /\ lines'[i].t \in Nat /\ lines'[i].t <= now'
               /\ "seq" \in DOMAIN lines'[i] =>
                   /\ lines'[i].seq \in Nat /\ lines'[i].seq < next_seq'
                   /\ \A f \in heap' : lines'[i].t < f.time \/ lines'[i].seq < f.seq
    <3>1. CASE i \in Happenings
      <4>1. lines'[i] = lines[i]
        BY <1>6, <3>1
      <4>. QED  BY <1>1, <1>2, <1>3, <1>4, <3>1, <4>1 DEF OrderedInv, LateInv
    <3>2. CASE i = Len(lines) + 1
      <4>1. lines'[i] = x
        BY <1>6, <3>2
      <4>. QED  BY <1>1, <1>2, <1>3, <1>5, <4>1
    <3>. QED  BY <1>6, <3>1, <3>2
  <2>. QED  BY <2>1 DEF LateInv
<1>8. FileOrderIsTimeOrder'
  <2>1. FileOrderIsTimeOrder /\ Writes(x)
    BY DEF OrderedInv
  <2>. HIDE DEF x
  <2>. QED  BY <1>4, <1>7, <2>1, OrderKept
<1>. QED  BY <1>7, <1>8 DEF OrderedInv

\* The line of a start.
LEMMA StartOrdered ==
    ASSUME IInv, IsFile, OrderedInv, NEW j \in JobId, NEW n, StartEffect(j, n),
           Writes(StartedLine(j, n))
    PROVE  OrderedInv'
<1>. DEFINE x == StartedLine(j, n)
            done == [time |-> now + workload[j].duration, seq |-> next_seq,
                     payload |-> JobFinish(j, n)]
<1>1. x.t = now /\ "seq" \notin DOMAIN x
  BY DEF StartedLine
<1>2. heap' = heap \cup {done} /\ next_seq' = next_seq + 1 /\ now' = now
  BY DEF StartEffect
<1>3. now \in Nat /\ next_seq \in Nat /\ done.time \in Nat /\ now <= done.time
  BY JobFacts DEF IInv, TypeOK
<1>4. done.seq = next_seq
  OBVIOUS
<1>5. /\ \A i \in Happenings : i \in DOMAIN lines
      /\ \A i \in DOMAIN lines : lines'[i] = lines[i]
      /\ lines'[Len(lines) + 1] = x
      /\ Happenings' \subseteq Happenings \cup {Len(lines) + 1}
  BY WritesFacts DEF Happenings
<1>. HIDE DEF x, done
<1>6. LateInv'
  <2>1. ASSUME NEW i \in Happenings'
        PROVE  /\ lines'[i].t \in Nat /\ lines'[i].t <= now'
               /\ "seq" \in DOMAIN lines'[i] =>
                   /\ lines'[i].seq \in Nat /\ lines'[i].seq < next_seq'
                   /\ \A f \in heap' : lines'[i].t < f.time \/ lines'[i].seq < f.seq
    <3>1. CASE i \in Happenings
      <4>1. lines'[i] = lines[i]
        BY <1>5, <3>1
      <4>. QED  BY <1>2, <1>3, <1>4, <3>1, <4>1 DEF OrderedInv, LateInv
    <3>2. CASE i = Len(lines) + 1
      <4>1. lines'[i] = x
        BY <1>5, <3>2
      <4>. QED  BY <1>1, <1>2, <1>3, <4>1
    <3>. QED  BY <1>5, <3>1, <3>2
  <2>. QED  BY <2>1 DEF LateInv
<1>7. FileOrderIsTimeOrder'
  <2>1. FileOrderIsTimeOrder /\ Writes(x)
    BY DEF OrderedInv, x
  <2>2. \A i \in Happenings : lines[i].t <= x.t
    BY <1>1 DEF OrderedInv, LateInv
  <2>. QED  BY <1>1, <1>6, <2>1, <2>2, OrderKept
<1>. QED  BY <1>6, <1>7 DEF OrderedInv

\* The end of a run is scheduled after all that has been told.
LEMMA QuietOrdered ==
    ASSUME IInv, OrderedInv, QuietEffect, lines' = lines
    PROVE  OrderedInv'
<1>1. Happenings' = Happenings /\ now' = now
  BY DEF Happenings, QuietEffect
<1>2. FileOrderIsTimeOrder'
  BY <1>1 DEF OrderedInv, FileOrderIsTimeOrder
<1>3. next_seq \in Nat /\ now \in Nat /\ (next_seq' = next_seq \/ next_seq' = next_seq + 1)
  BY DEF IInv, TypeOK, QuietEffect
<1>4. \A e \in heap' : e \in heap \/ (e.time = now /\ e.seq = next_seq)
  BY DEF QuietEffect
<1>5. LateInv'
  BY <1>1, <1>3, <1>4 DEF OrderedInv, LateInv
<1>. QED  BY <1>2, <1>5 DEF OrderedInv

\* File order, not the number of the event, is what orders the lines of a
\* tick; and it is the order in which the queue let the events out.
THEOREM FileOrderKept == TracedSpec => []FileOrderIsTimeOrder
<1>1. ASSUME TracedInit PROVE OrderedInv
  <2>1. Happenings = {}
    BY <1>1, TraceStarts DEF Happenings
  <2>. QED  BY <2>1 DEF OrderedInv, LateInv, FileOrderIsTimeOrder
<1>2. ASSUME IInv, StoryInv, OrderedInv, [TracedNext]_traceVars
      PROVE  OrderedInv'
  <2>1. IsFile
    BY <1>2 DEF StoryInv
  <2>. QED  BY <1>2, <2>1, StepWrites, JumpOrdered, StartOrdered, QuietOrdered
            DEF ArrivalEffect, FinishEffect, EndEffect
<1>3. OrderedInv => FileOrderIsTimeOrder
  BY DEF OrderedInv
<1>. QED  BY <1>1, <1>2, <1>3, TracedInvariance, StoriesTold, PTL DEF TracedSpec

--------------------------------------------------------------------------------
(* The trace can be replayed *)

\* The jobs node n carries after the first lines of the file, and what they
\* hold: the two operators of TraceReplays.
OnNode(n, upto) ==
    {j \in JobId :
        /\ \E i \in LinesAbout("JobStart", j) : i <= upto /\ lines[i].node = n
        /\ \A i \in LinesAbout("JobFinish", j) : i > upto}

Held(n, upto, d) == SumOver(OnNode(n, upto), [j \in OnNode(n, upto) |-> Request(j)[d]])

\* No prefix of the file puts more on a node than it has.
ReplayInv ==
    \A n \in NodeId, d \in Dim, upto \in Happenings : Held(n, upto, d) <= Capacity[d]

\* The whole file leaves on a node the jobs that run there.
LEMMA ReplayedNow ==
    ASSUME IInv, StoryInv, NEW n \in NodeId
    PROVE  OnNode(n, Len(lines)) = JobsOn(n)
<1>1. Len(lines) \in Nat /\ \A i \in DOMAIN lines : i \in Nat /\ i <= Len(lines)
  <2>1. PICK S : lines \in Seq(S)
    BY DEF StoryInv, IsFile
  <2>. QED  BY <2>1
<1>2. \A ev, j : \A i \in LinesAbout(ev, j) : i \in Nat /\ i <= Len(lines) /\ ~ (i > Len(lines))
  BY <1>1 DEF LinesAbout
<1>3. ASSUME NEW j \in JobId
      PROVE  j \in OnNode(n, Len(lines)) <=> j \in running /\ node[j] = n
  <2>1. /\ (LinesAbout("JobStart", j) # {} <=> state[j] # "Queued")
        /\ (LinesAbout("JobFinish", j) # {} <=> state[j] = "Done")
        /\ \A i \in LinesAbout("JobStart", j) : lines[i].node = node[j]
    BY DEF StoryInv, StoryOf, Told
  <2>2. j \in running <=> state[j] # "Queued" /\ state[j] # "Done"
    BY DEF IInv, TypeOK, JobState, RunningInv
  <2>3. j \in OnNode(n, Len(lines)) <=>
          /\ LinesAbout("JobStart", j) # {} /\ node[j] = n
          /\ LinesAbout("JobFinish", j) = {}
    BY <1>2, <2>1 DEF OnNode
  <2>. QED  BY <2>1, <2>2, <2>3
<1>4. running \subseteq JobId /\ OnNode(n, Len(lines)) \subseteq JobId
  BY DEF IInv, TypeOK, OnNode
<1>. QED  BY <1>3, <1>4 DEF JobsOn

\* So what the replay holds and what the simulator has free make up a node.
LEMMA ReplayBalances ==
    IInv /\ StoryInv =>
        \A n \in NodeId, d \in Dim :
            /\ Held(n, Len(lines), d) \in Nat
            /\ Held(n, Len(lines), d) + free[n][d] = Capacity[d]
            /\ Held(n, Len(lines), d) <= Capacity[d]
<1>. SUFFICES ASSUME IInv, StoryInv, NEW n \in NodeId, NEW d \in Dim
              PROVE  /\ Held(n, Len(lines), d) \in Nat
                     /\ Held(n, Len(lines), d) + free[n][d] = Capacity[d]
                     /\ Held(n, Len(lines), d) <= Capacity[d]
  OBVIOUS
<1>1. Held(n, Len(lines), d) = HeldOn(n, d)
  BY ReplayedNow DEF Held, HeldOn
<1>2. free[n][d] + HeldOn(n, d) = Capacity[d] /\ free[n][d] \in Nat
  BY DEF IInv, Conservation, TypeOK, Resources
<1>3. HeldOn(n, d) \in Nat
  BY HeldFacts DEF IInv
<1>. QED  BY <1>1, <1>2, <1>3

LEMMA ReplayBalancesPrimed ==
    (IInv /\ StoryInv)' =>
        (\A n \in NodeId, d \in Dim :
            /\ Held(n, Len(lines), d) \in Nat
            /\ Held(n, Len(lines), d) + free[n][d] = Capacity[d]
            /\ Held(n, Len(lines), d) <= Capacity[d])'
<1>1. IInv /\ StoryInv =>
        \A n \in NodeId, d \in Dim :
            /\ Held(n, Len(lines), d) \in Nat
            /\ Held(n, Len(lines), d) + free[n][d] = Capacity[d]
            /\ Held(n, Len(lines), d) <= Capacity[d]
  BY ReplayBalances
<1>. QED  BY <1>1, PTL

\* What is appended does not change what the lines before it come to.
LEMMA PrefixKept ==
    ASSUME IsFile, NEW x, Writes(x), workload' = workload, NEW n, NEW upto \in DOMAIN lines
    PROVE  OnNode(n, upto)' = OnNode(n, upto)
<1>1. Len(lines) \in Nat /\ upto \in Nat /\ upto <= Len(lines) /\ JobId' = JobId
  BY WritesFacts DEF JobId
<1>2. ASSUME NEW j
      PROVE  /\ (\E i \in LinesAbout("JobStart", j)' : i <= upto /\ lines'[i].node = n)
                  <=> \E i \in LinesAbout("JobStart", j) : i <= upto /\ lines[i].node = n
             /\ (\A i \in LinesAbout("JobFinish", j)' : i > upto)
                  <=> \A i \in LinesAbout("JobFinish", j) : i > upto
  <2>1. ASSUME NEW ev
        PROVE  /\ LinesAbout(ev, j) \subseteq LinesAbout(ev, j)'
               /\ LinesAbout(ev, j)' \subseteq LinesAbout(ev, j) \cup {Len(lines) + 1}
               /\ \A i \in LinesAbout(ev, j) : lines'[i] = lines[i]
    BY LineAdded
  <2>2. /\ LinesAbout("JobStart", j) \subseteq LinesAbout("JobStart", j)'
        /\ LinesAbout("JobStart", j)' \subseteq LinesAbout("JobStart", j) \cup {Len(lines) + 1}
        /\ \A i \in LinesAbout("JobStart", j) : lines'[i] = lines[i]
    BY <2>1
  <2>3. /\ LinesAbout("JobFinish", j) \subseteq LinesAbout("JobFinish", j)'
        /\ LinesAbout("JobFinish", j)' \subseteq LinesAbout("JobFinish", j) \cup {Len(lines) + 1}
    BY <2>1
  <2>4. ~ (Len(lines) + 1 <= upto) /\ Len(lines) + 1 > upto
    BY <1>1
  <2>. QED  BY <2>2, <2>3, <2>4
<1>. QED  BY <1>1, <1>2 DEF OnNode

\* Whoever replays the file, a line at a time, never puts more on a node than
\* it has, and comes out with the free resources the simulator has.
THEOREM TraceCanBeReplayed == TracedSpec => []TraceReplays
<1>1. ASSUME TracedInit PROVE ReplayInv
  <2>1. Happenings = {}
    BY <1>1, TraceStarts DEF Happenings
  <2>. QED  BY <2>1 DEF ReplayInv
<1>2. ASSUME IInv, StoryInv, ReplayInv, (IInv /\ StoryInv)', [TracedNext]_traceVars
      PROVE  ReplayInv'
  <2>1. IsFile /\ workload' = workload
    BY <1>2, TracedStep, StepEffect DEF StoryInv
  <2>2. ASSUME NEW x, Writes(x), NEW n \in NodeId, NEW d \in Dim, NEW upto \in Happenings'
        PROVE  Held(n, upto, d)' <= Capacity[d]
    <3>1. /\ Happenings' \subseteq Happenings \cup {Len(lines) + 1}
          /\ Len(lines') = Len(lines) + 1
      BY <2>1, <2>2, WritesFacts
    <3>2. CASE upto \in Happenings
      <4>1. upto \in DOMAIN lines
        BY <3>2 DEF Happenings
      <4>2. OnNode(n, upto)' = OnNode(n, upto)
        BY <2>1, <2>2, <4>1, PrefixKept
      <4>3. Held(n, upto, d)' = Held(n, upto, d)
        BY <2>1, <4>2 DEF Held, Request
      <4>. QED  BY <1>2, <3>2, <4>3 DEF ReplayInv
    <3>3. CASE upto = Len(lines')
      <4>1. Held(n, Len(lines), d)' <= Capacity[d]
        BY <1>2, ReplayBalancesPrimed
      <4>. QED  BY <3>3, <4>1
    <3>. QED  BY <3>1, <3>2, <3>3
  <2>3. CASE lines' = lines
    <3>1. Happenings' = Happenings /\ \A n, upto : OnNode(n, upto)' = OnNode(n, upto)
      BY <2>1, <2>3 DEF Happenings, OnNode, LinesAbout, JobId
    <3>2. \A n, upto, d : Held(n, upto, d)' = Held(n, upto, d)
      BY <2>1, <3>1 DEF Held, Request
    <3>. QED  BY <1>2, <3>1, <3>2 DEF ReplayInv
  <2>. QED  BY <1>2, <2>2, <2>3, StepWrites DEF ReplayInv
<1>3. ASSUME IInv, StoryInv, ReplayInv
      PROVE  TraceReplays
  <2>1. \A n \in NodeId, d \in Dim : Held(n, Len(lines), d) + free[n][d] = Capacity[d]
    BY <1>3, ReplayBalances
  <2>. QED  BY <1>3, <2>1 DEF TraceReplays, ReplayInv, Held, OnNode
<1>. QED  BY <1>1, <1>2, <1>3, TracedInvariance, StoriesTold, PTL DEF TracedSpec

================================================================================
