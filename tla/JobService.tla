-------------------------------- MODULE JobService --------------------------------
(***************************************************************************)
(* What a run promises the reader of its job records, without saying how:  *)
(* no event queue, no backlog, no counters, no policy.  Jobs arrive at     *)
(* their submit time, wait, start on a node that has room beside the jobs  *)
(* already there, hold it for exactly their duration, and are done.  Time  *)
(* moves to the next arrival or finish and skips none.  Which waiting job  *)
(* starts, when, and on which of the nodes with room, is left open.        *)
(***************************************************************************)
EXTENDS Nodes, Sums, Sequences

CONSTANTS
    Workloads,  \* the workloads a run may be given
    kNever      \* a tick that has not been set

VARIABLES
    workload,  \* the jobs, a sequence of specifications
    clock,     \* the current tick
    phase,     \* "future", "waiting", "running" or "done", by job
    where,     \* the node of a job that has started
    started,   \* the tick at which a job has started
    ended,     \* the tick at which a job is done
    closed     \* whether the run is over

vars == <<workload, clock, phase, where, started, ended, closed>>

Job == DOMAIN workload

In(p) == {j \in Job : phase[j] = p}

--------------------------------------------------------------------------------

\* When a running job is due.
Due(j) == started[j] + workload[j].duration

\* Nothing that is already certain to happen happens before t.
NextIs(t) ==
    /\ clock <= t
    /\ \A j \in In("future") : t <= workload[j].submit_time
    /\ \A j \in In("running") : t <= Due(j)

\* Node n has room for job j beside the jobs running there.
Room(n, j) ==
    LET There == {k \in In("running") : where[k] = n}
    IN  \A d \in Dim :
            SumOver(There, [k \in There |-> workload[k].request[d]]) + workload[j].request[d]
                <= Capacity[d]

Arrive(j) ==
    /\ phase[j] = "future"
    /\ NextIs(workload[j].submit_time)
    /\ clock' = workload[j].submit_time
    /\ phase' = [phase EXCEPT ![j] = "waiting"]
    /\ UNCHANGED <<workload, where, started, ended, closed>>

Start(j, n) ==
    /\ phase[j] = "waiting"
    /\ Room(n, j)
    /\ phase' = [phase EXCEPT ![j] = "running"]
    /\ where' = [where EXCEPT ![j] = n]
    /\ started' = [started EXCEPT ![j] = clock]
    /\ UNCHANGED <<workload, clock, ended, closed>>

Finish(j) ==
    /\ phase[j] = "running"
    /\ NextIs(Due(j))
    /\ clock' = Due(j)
    /\ phase' = [phase EXCEPT ![j] = "done"]
    /\ ended' = [ended EXCEPT ![j] = Due(j)]
    /\ UNCHANGED <<workload, where, started, closed>>

\* The run is over when nothing is certain to happen any more.  A job that
\* is still waiting then never runs.
Close ==
    /\ ~ closed
    /\ In("future") = {}
    /\ In("running") = {}
    /\ closed' = TRUE
    /\ UNCHANGED <<workload, clock, phase, where, started, ended>>

--------------------------------------------------------------------------------

\* Everything is still to come.
Init ==
    /\ workload \in Workloads
    /\ clock = 0
    /\ phase = [j \in Job |-> "future"]
    /\ where = [j \in Job |-> 0]
    /\ started = [j \in Job |-> kNever]
    /\ ended = [j \in Job |-> kNever]
    /\ closed = FALSE

Step(j) == ~ closed /\ (Arrive(j) \/ Finish(j) \/ \E n \in NodeId : Start(j, n))

Next == (\E j \in Job : Step(j)) \/ Close

Spec == Init /\ [][Next]_vars /\ WF_vars(Next)

================================================================================
