--------------------------- MODULE SimulatorProperties ---------------------------
(***************************************************************************)
(* What a run of the simulator promises, stated over the state of module   *)
(* Simulator.                                                              *)
(***************************************************************************)
EXTENDS Simulator

Payload ==
    {JobArrival(j) : j \in JobId}
      \cup {JobFinish(j, n) : j \in JobId, n \in NodeId}
      \cup {SimEnd}

\* Every variable holds a value its C++ type is meant to hold.
TypeOK ==
    /\ workload \in Seq(JobSpec)
    /\ scheduler \in Schedulers
    /\ policy \in QueuePolicies
    /\ state \in [JobId -> JobState]
    /\ start_time \in [JobId -> Nat \cup {kNever}]
    /\ finish_time \in [JobId -> Nat \cup {kNever}]
    /\ node \in [JobId -> Nat]
    /\ heap \subseteq [time : Nat, seq : Nat, payload : Payload]
    /\ next_seq \in Nat
    /\ free \in [NodeId -> Resources]
    /\ running_jobs \in [NodeId -> Nat]
    /\ last_checkin \in Nat
    /\ ticks \in [Dim -> Nat]
    /\ pending \in Seq(JobId)
    /\ running \subseteq JobId
    /\ now \in Nat
    /\ sim_end \in Nat \cup {kNever}
    /\ backfilled \in Nat
    /\ pos \in Nat
    /\ pc \in {"run", "drain", "backfill", "returned"}

--------------------------------------------------------------------------------
(* The event queue, the backlog and the running list agree with the jobs *)

ArrivalsOf(j) == {e \in heap : e.payload = JobArrival(j)}

FinishesOf(j) == {e \in heap : e.payload.type = "JobFinish" /\ e.payload.job = j}

PlacesInBacklog(j) == {i \in DOMAIN pending : pending[i] = j}

\* No job is ever lost or held twice: a queued job waits either for its one
\* arrival event or in one place of the backlog; a running job is in running_
\* and waits for exactly one finish event, due at start + duration on the
\* node the job record names; a finished job is in none of them.
JobAccounting ==
    \A j \in JobId :
        /\ state[j] = "Queued" =>
            /\ j \notin running
            /\ FinishesOf(j) = {}
            /\ Cardinality(ArrivalsOf(j)) + Cardinality(PlacesInBacklog(j)) = 1
        /\ state[j] = "Running" =>
            /\ j \in running
            /\ ArrivalsOf(j) = {}
            /\ PlacesInBacklog(j) = {}
            /\ \E e \in heap :
                /\ FinishesOf(j) = {e}
                /\ e.time = start_time[j] + workload[j].duration
                /\ e.payload.node = node[j]
        /\ state[j] = "Done" =>
            /\ j \notin running
            /\ ArrivalsOf(j) = {}
            /\ FinishesOf(j) = {}
            /\ PlacesInBacklog(j) = {}

\* The assert of run(): no event in the queue is earlier than the clock.
ClockNeverBehind == \A e \in heap : now <= e.time

\* The two asserts of drain()'s second loop: the policy never picks the head
\* it was asked to go around, and the scheduler has a node for what it picks.
\* The two interfaces decide "fits" separately (queue_policy.hpp).
PickIsPlaceable ==
    pc = "backfill" => \A j \in Pick : j # Head(pending) /\ Placement(j) # {}

\* Every optional of the program holds at most one value and the queue has
\* one top: nothing a run does is left to chance (README, determinism).
Deterministic ==
    /\ pc = "drain" /\ pending # <<>> => Cardinality(Placement(Head(pending))) <= 1
    /\ pc = "backfill" =>
        /\ Cardinality(Pick) <= 1
        /\ \A j \in Pick : Cardinality(Placement(j)) <= 1
    /\ heap # {} => Cardinality({e \in heap : Top(e)}) = 1

--------------------------------------------------------------------------------
(* Resources *)

\* The jobs a node carries.
JobsOn(n) == {j \in running : node[j] = n}

\* What they hold of one dimension.
HeldOn(n, d) == SumOver(JobsOn(n), [j \in JobsOn(n) |-> Request(j)[d]])

\* What the running jobs hold on a node and what it has free make up its
\* capacity, in both dimensions, and running_jobs counts them: no step of any
\* length of run leaks or invents a resource (cluster.hpp, release).
Conservation ==
    \A n \in NodeId :
        /\ \A d \in Dim : free[n][d] + HeldOn(n, d) = Capacity[d]
        /\ running_jobs[n] = Cardinality(JobsOn(n))

\* How long a started job has held its node by the last advance.
HeldFor(j) ==
    (IF state[j] = "Done" THEN finish_time[j] ELSE last_checkin) - start_time[j]

\* The utilization integral, fed with cluster totals at every event, is what
\* the job records say: each started job's request times the time it held it.
UtilizationExact ==
    LET Started == {j \in JobId : state[j] # "Queued"}
    IN  \A d \in Dim :
            ticks[d] = SumOver(Started, [j \in Started |-> Request(j)[d] * HeldFor(j)])

--------------------------------------------------------------------------------
(* Queueing *)

\* Between events the head of the backlog fits nowhere -- although the second
\* loop of drain() never looks at it again -- and under backfill any other
\* waiting job that does fit is held back by the head's reservation.
NothingStartableWaits ==
    pc = "run" /\ pending # <<>> =>
        /\ ~ FitsAnywhere(Request(Head(pending)), free)
        /\ policy = "backfill" =>
            \A i \in 2 .. Len(pending) :
                FitsAnywhere(Request(pending[i]), free) =>
                    \/ HeadShadow = kNever
                    \/ now + workload[pending[i]].estimated_duration > HeadShadow

\* Arrival order: by submit time, and by id among jobs of the same tick.
ArrivesBefore(i, j) ==
    \/ workload[i].submit_time < workload[j].submit_time
    \/ workload[i].submit_time = workload[j].submit_time /\ i < j

\* Job j started at an earlier tick than a job that arrived before it.
Overtakes(j, i) ==
    /\ ArrivesBefore(i, j)
    /\ state[j] # "Queued"
    /\ state[i] = "Queued" \/ start_time[j] < start_time[i]

\* Only a backfilled job starts before one that arrived earlier, each is
\* counted, and under fifo there is none (simulator.hpp, backfilled_count).
OvertakingIsBackfilling ==
    /\ Cardinality({j \in JobId : \E i \in JobId : Overtakes(j, i)}) <= backfilled
    /\ policy = "fifo" => backfilled = 0

\* When run() has returned, every job is done, or the queue is stuck behind a
\* head that no node could hold even if it were empty.
WedgedOnlyByUnsatisfiableHead ==
    pc = "returned" =>
        /\ running = {}
        /\ IF pending = <<>>
           THEN \A j \in JobId : state[j] = "Done"
           ELSE ~ \E n \in NodeId : CanFit(Capacity, Request(Head(pending)))

\* run() closes the books once, at the tick of the last thing that happened:
\* the last arrival or the last finish, whichever is later.
SimEndIsMakespan ==
    pc = "returned" /\ workload # <<>> =>
        LET Moments == {workload[j].submit_time : j \in JobId}
                         \cup {finish_time[j] : j \in {k \in JobId : state[k] = "Done"}}
        IN  sim_end \in Moments /\ \A t \in Moments : t <= sim_end

--------------------------------------------------------------------------------
(* What a step may never do *)

RecordsOnlyFilledIn ==
    \A j \in JobId :
        /\ start_time[j] # kNever => start_time'[j] = start_time[j] /\ node'[j] = node[j]
        /\ finish_time[j] # kNever => finish_time'[j] = finish_time[j]
        /\ state'[j] # state[j] =>
            <<state[j], state'[j]>> \in {<<"Queued", "Running">>, <<"Running", "Done">>}

\* A job record is written once: a start time, a node and a finish time never
\* change after they are set, and no job goes back to an earlier state.
RecordsWrittenOnce == [][RecordsOnlyFilledIn]_vars

\* The reservation of a blocked head never moves to a later tick, whatever is
\* backfilled around it, arrives behind it or finishes before its estimate.
ReservationNeverRecedes ==
    [][/\ pc \in {"run", "backfill"} /\ pending # <<>>
       /\ pending' # <<>> /\ Head(pending') = Head(pending)
       /\ HeadShadow # kNever
       => HeadShadow' # kNever /\ HeadShadow' <= HeadShadow]_vars

--------------------------------------------------------------------------------
(* What must happen *)

\* run() returns.
Terminates == <>(pc = "returned")

\* If an empty node can hold every job, every job is eventually done: a head
\* is never starved by what goes around it.
SatisfiableJobsFinish ==
    (NodeCount > 0 /\ \A j \in JobId : CanFit(Capacity, Request(j)))
        => <>[](\A j \in JobId : state[j] = "Done")

================================================================================
