-------------------------------- MODULE Simulator --------------------------------
(***************************************************************************)
(* class Simulator (engine/simulator.cpp): the event loop, the jobs, the   *)
(* backlog and the two-phase drain, composed with the event queue, the     *)
(* cluster, the placement policies, the queue policies and the utilization *)
(* integral.                                                               *)
(*                                                                         *)
(* The program is sequential and draws nothing at random once the workload *)
(* exists, so a behaviour is fixed by its first state: the workload and    *)
(* the two policies, which Init chooses.  pc is where control is:          *)
(*   "run"       at the head of the event loop                             *)
(*   "drain"     at the head of drain()'s first loop                       *)
(*   "backfill"  at the head of drain()'s second loop                      *)
(*   "returned"  run() has returned                                        *)
(***************************************************************************)
EXTENDS EventQueue, Cluster, Backfill, Utilization, FiniteSets
LOCAL INSTANCE SequencesExt

CONSTANTS
    Workloads,      \* the workloads a run may be given
    Schedulers,     \* the placement policies a run may be given
    QueuePolicies   \* the queue policies a run may be given

\* The fields of struct Job that are fixed before the clock starts.
JobSpec == [request : Resources, duration : Nat, estimated_duration : Nat, submit_time : Nat]

JobState == {"Queued", "Running", "Done"}

\* A workload is the vector of its jobs, so ids are dense (simulator.hpp); an
\* estimate is never below the duration (job.hpp); submit times may come in
\* any order.
ASSUME SimulatorAssumption ==
    /\ Workloads \subseteq Seq(JobSpec)
    /\ \A w \in Workloads : \A j \in DOMAIN w : w[j].duration <= w[j].estimated_duration
    /\ Schedulers \subseteq SchedulerNames
    /\ QueuePolicies \subseteq QueuePolicyNames

VARIABLES
    workload, scheduler, policy,            \* jobs_'s fixed part, scheduler_, queue_policy_
    state, start_time, finish_time, node,   \* jobs_'s changing part
    pending,                                \* pending_, in queue order
    running,                                \* running_; its order is not observable
    now, sim_end, backfilled,               \* now_, sim_end_, backfilled_
    pos,                                    \* the cursor of RoundRobinScheduler
    pc

\* A job's id is its index, from 1 here and from 0 in the code; only the
\* order of ids matters.
JobId == DOMAIN workload

config   == <<workload, scheduler, policy>>
jobs     == <<state, start_time, finish_time, node>>
queue    == <<heap, next_seq>>
machines == <<free, running_jobs>>
integral == <<last_checkin, ticks>>

vars == <<config, jobs, queue, machines, integral,
          pending, running, now, sim_end, backfilled, pos, pc>>

--------------------------------------------------------------------------------

JobArrival(j)   == [type |-> "JobArrival", job |-> j]
JobFinish(j, n) == [type |-> "JobFinish", job |-> j, node |-> n]
SimEnd          == [type |-> "SimEnd"]

\* A variant that misses the last job.
SeedsAllButLast(w) ==
    {[time |-> w[j].submit_time, seq |-> j - 1, payload |-> JobArrival(j)] :
        j \in 1 .. Len(w) - 1}

\* run() up to its event loop: one arrival per job, in id order.
Seeds(w) ==
    {[time |-> w[j].submit_time, seq |-> j - 1, payload |-> JobArrival(j)] : j \in DOMAIN w}

Init ==
    /\ workload \in Workloads
    /\ scheduler \in Schedulers
    /\ policy \in QueuePolicies
    /\ state = [j \in JobId |-> "Queued"]
    /\ start_time = [j \in JobId |-> kNever]
    /\ finish_time = [j \in JobId |-> kNever]
    /\ node = [j \in JobId |-> 0]
    /\ heap = Seeds(workload)
    /\ next_seq = Len(workload)
    /\ ClusterInit
    /\ UtilizationInit
    /\ pending = <<>>
    /\ running = {}
    /\ now = 0
    /\ sim_end = kNever
    /\ backfilled = 0
    /\ pos = 0
    /\ pc = "run"

--------------------------------------------------------------------------------
(* Placing a job *)

Request(j) == workload[j].request

\* scheduler_->place(job, nodes_span()).
Placement(j) == Place(scheduler, Request(j), free, pos)

\* The part of try_place after the scheduler has found node n.
StartOn(j, n) ==
    /\ Allocate(n, Request(j))
    /\ state' = [state EXCEPT ![j] = "Running"]
    /\ start_time' = [start_time EXCEPT ![j] = now]
    /\ node' = [node EXCEPT ![j] = n]
    /\ running' = running \cup {j}
    /\ Schedule(now + workload[j].duration, JobFinish(j, n))
    /\ UNCHANGED finish_time

\* try_place: it moves the cursor and, unless the scheduler finds no node,
\* starts the job.
TryPlace(j) ==
    /\ pos' = CursorAfter(scheduler, Placement(j), pos)
    /\ IF Placement(j) = {}
       THEN UNCHANGED <<machines, jobs, running, queue>>
       ELSE \E n \in Placement(j) : StartOn(j, n)

--------------------------------------------------------------------------------
(* What the queue policy is shown: rebuild_views *)

BacklogView ==
    [i \in 1 .. Len(pending) |->
        [id |-> pending[i],
         request |-> Request(pending[i]),
         estimated_duration |-> workload[pending[i]].estimated_duration]]

\* A variant that counts the estimate from now and not from the start.
RunningViewFromNow ==
    {[id |-> j, node |-> node[j], held |-> Request(j),
      estimated_finish |-> now + workload[j].estimated_duration] : j \in running}

RunningView ==
    {[id |-> j, node |-> node[j], held |-> Request(j),
      estimated_finish |-> start_time[j] + workload[j].estimated_duration] : j \in running}

\* The reservation of the job at the head of the backlog.
HeadShadow == ShadowTime(Request(Head(pending)), free, RunningView, now)

Pick == BackfillPick(policy, BacklogView, free, RunningView, now)

--------------------------------------------------------------------------------
(* The event loop *)

\* Taking event e off the queue: the clock jumps to it, and the interval
\* since the last event is credited before the handler changes anything.
Take(e) ==
    /\ pc = "run"
    /\ Pop(e)
    /\ now' = e.time
    /\ Advance(e.time, TotalUtilized)

\* on_arrival.
OnArrival ==
    \E e \in heap :
        /\ e.payload.type = "JobArrival"
        /\ Take(e)
        /\ pending' = Append(pending, e.payload.job)
        /\ pc' = "drain"
        /\ UNCHANGED <<config, jobs, machines, running, sim_end, backfilled, pos>>

\* on_finish.
OnFinish ==
    \E e \in heap :
        /\ e.payload.type = "JobFinish"
        /\ Take(e)
        /\ LET j == e.payload.job
           IN  /\ Release(node[j], Request(j))
               /\ finish_time' = [finish_time EXCEPT ![j] = e.time]
               /\ state' = [state EXCEPT ![j] = "Done"]
               /\ running' = running \ {j}
        /\ pc' = "drain"
        /\ UNCHANGED <<config, start_time, node, pending, sim_end, backfilled, pos>>

\* on_sim_end and the break out of the loop.  Its own advance() comes after
\* the loop's, to the same tick, and credits nothing.
OnSimEnd ==
    \E e \in heap :
        /\ e.payload.type = "SimEnd"
        /\ Take(e)
        /\ sim_end' = e.time
        /\ pc' = "returned"
        /\ UNCHANGED <<config, jobs, machines, running, pending, backfilled, pos>>

\* The loop's condition fails without a SimEnd: only when there was no job.
LoopEnds ==
    /\ pc = "run"
    /\ heap = {}
    /\ pc' = "returned"
    /\ UNCHANGED <<config, jobs, queue, machines, integral,
                   pending, running, now, sim_end, backfilled, pos>>

--------------------------------------------------------------------------------
(* drain *)

\* A variant that leaves the job it started at the head of the backlog.
StartHeadKeeps ==
    /\ pc = "drain"
    /\ pending # <<>>
    /\ Placement(Head(pending)) # {}
    /\ TryPlace(Head(pending))
    /\ UNCHANGED <<config, integral, now, sim_end, backfilled, pending, pc>>

\* First loop: the head of the backlog is placed.
StartHead ==
    /\ pc = "drain"
    /\ pending # <<>>
    /\ Placement(Head(pending)) # {}
    /\ TryPlace(Head(pending))
    /\ pending' = Tail(pending)
    /\ UNCHANGED <<config, integral, now, sim_end, backfilled, pc>>

\* First loop: no node has room for the head.
BlockHead ==
    /\ pc = "drain"
    /\ pending # <<>>
    /\ Placement(Head(pending)) = {}
    /\ TryPlace(Head(pending))
    /\ pc' = "backfill"
    /\ UNCHANGED <<config, integral, pending, now, sim_end, backfilled>>

\* Second loop: the job the policy picked is placed and leaves the backlog.
\* That it is not the head and finds a node are asserts of the code and
\* invariants here; a release build takes it off the backlog in any case.
BackfillJob ==
    /\ pc = "backfill"
    /\ \E j \in Pick :
        /\ TryPlace(j)
        /\ \E i \in DOMAIN pending :
            /\ pending[i] = j
            /\ \A k \in 1 .. i - 1 : pending[k] # j
            /\ pending' = RemoveAt(pending, i)
    /\ backfilled' = backfilled + 1
    /\ UNCHANGED <<config, integral, now, sim_end, pc>>

\* A variant that schedules the SimEnd while other events are waiting.
DrainReturnsEndsEarly ==
    /\ \/ pc = "drain" /\ pending = <<>>
       \/ pc = "backfill" /\ Pick = {}
    /\ Schedule(now, SimEnd)
    /\ pc' = "run"
    /\ UNCHANGED <<config, jobs, machines, integral,
                   pending, running, now, sim_end, backfilled, pos>>

\* A variant that goes through both loops for as long as there is a backlog.
DrainReturnsWhenEmpty ==
    /\ \/ pc = "drain" /\ pending = <<>>
       \/ pc = "backfill" /\ Pick = {}
    /\ IF pending = <<>> /\ heap = {} THEN Schedule(now, SimEnd) ELSE UNCHANGED queue
    /\ pc' = IF pending = <<>> THEN "run" ELSE "drain"
    /\ UNCHANGED <<config, jobs, machines, integral,
                   pending, running, now, sim_end, backfilled, pos>>

\* drain() returns; back in run(), an empty queue is given its SimEnd.
DrainReturns ==
    /\ \/ pc = "drain" /\ pending = <<>>
       \/ pc = "backfill" /\ Pick = {}
    /\ IF heap = {} THEN Schedule(now, SimEnd) ELSE UNCHANGED queue
    /\ pc' = "run"
    /\ UNCHANGED <<config, jobs, machines, integral,
                   pending, running, now, sim_end, backfilled, pos>>

--------------------------------------------------------------------------------

\* After run() nothing moves.
Returned == pc = "returned" /\ UNCHANGED vars

Next ==
    \/ OnArrival
    \/ OnFinish
    \/ OnSimEnd
    \/ LoopEnds
    \/ StartHead
    \/ BlockHead
    \/ BackfillJob
    \/ DrainReturns
    \/ Returned

\* One thread runs the loop and nothing it calls blocks.
Spec == Init /\ [][Next]_vars /\ WF_vars(Next)

================================================================================
