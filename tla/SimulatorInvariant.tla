--------------------------- MODULE SimulatorInvariant ---------------------------
(***************************************************************************)
(* The inductive invariant behind the theorems of SimulatorProofs, in      *)
(* named parts.  It says of the event queue, element by element, what the  *)
(* properties say by counting.                                             *)
(***************************************************************************)
EXTENDS SimulatorProperties

\* The configuration is one the simulator was built for.
ConfigInv == workload \in Workloads /\ scheduler \in Schedulers /\ policy \in QueuePolicies

\* The integral has reached the clock, and no event is behind it.
ClockInv ==
    /\ last_checkin = now
    /\ ClockNeverBehind

\* Every event agrees with the record of the job it is about, and the last
\* event of a run is alone in the queue.
EventsAgree ==
    \A e \in heap :
        /\ e.payload.type = "JobArrival" =>
            /\ state[e.payload.job] = "Queued"
            /\ \A i \in DOMAIN pending : pending[i] # e.payload.job
        /\ e.payload.type = "JobFinish" =>
            /\ state[e.payload.job] = "Running"
            /\ e.time = start_time[e.payload.job] + workload[e.payload.job].duration
            /\ e.payload.node = node[e.payload.job]
        /\ e.payload.type = "SimEnd" => heap = {e} /\ pc = "run" /\ now = e.time

\* No two events have one number, or are about one step of one job.
EventsDiffer ==
    /\ \A e \in heap : e.seq < next_seq
    /\ \A e, f \in heap : e.seq = f.seq => e = f
    /\ \A e, f \in heap :
        e.payload.type # "SimEnd" /\ e.payload.type = f.payload.type
            /\ e.payload.job = f.payload.job => e = f

\* A queued job is to arrive or in the backlog, and a running one is due.
JobsAwaited ==
    \A j \in JobId :
        /\ state[j] = "Queued" =>
            \/ \E e \in heap : e.payload.type = "JobArrival" /\ e.payload.job = j
            \/ \E i \in DOMAIN pending : pending[i] = j
        /\ state[j] = "Running" =>
            \E e \in heap : e.payload.type = "JobFinish" /\ e.payload.job = j

\* The backlog holds queued jobs, each once.
BacklogInv ==
    /\ \A i \in DOMAIN pending : state[pending[i]] = "Queued"
    /\ \A i, k \in DOMAIN pending : pending[i] = pending[k] => i = k

\* running_ is the set of running jobs.
RunningInv == running = {j \in JobId : state[j] = "Running"}

\* The times and the node of a record are set when its state says so.
RecordsInv ==
    \A j \in JobId :
        /\ state[j] = "Queued" => start_time[j] = kNever
        /\ state[j] # "Queued" => start_time[j] \in Nat /\ node[j] \in NodeId
        /\ state[j] # "Done" => finish_time[j] = kNever
        /\ state[j] = "Done" => finish_time[j] \in Nat

\* Outside the first loop of drain() the head of the backlog is blocked, and
\* run() returns with nothing left to happen.
ControlInv ==
    /\ pc = "backfill" => pending # <<>>
    /\ pc # "drain" /\ pending # <<>> => ~ FitsAnywhere(Request(Head(pending)), free)
    /\ pc = "returned" => heap = {}

IInv ==
    /\ TypeOK
    /\ ConfigInv
    /\ ClockInv
    /\ EventsAgree
    /\ EventsDiffer
    /\ JobsAwaited
    /\ BacklogInv
    /\ RunningInv
    /\ RecordsInv
    /\ ControlInv
    /\ Conservation

--------------------------------------------------------------------------------
(* What a run remembers of its past: the order of arrivals, and the times  *)
(* of what has happened.                                                   *)

\* Job j is still to arrive.
Awaited(j) == \E e \in heap : e.payload.type = "JobArrival" /\ e.payload.job = j

\* Jobs arrive, and stand in the backlog, in arrival order.
OrderInv ==
    /\ \A e \in heap : e.payload.type = "JobArrival" =>
        e.time = workload[e.payload.job].submit_time /\ e.seq + 1 = e.payload.job
    /\ \A j, k \in JobId : Awaited(k) /\ ~ Awaited(j) => ArrivesBefore(j, k)
    /\ \A i, k \in DOMAIN pending : i < k => ArrivesBefore(pending[i], pending[k])

\* What a record says has happened did so in this order, and not after now.
TimesInv ==
    \A j \in JobId :
        /\ ~ Awaited(j) => workload[j].submit_time <= now
        /\ state[j] # "Queued" => workload[j].submit_time <= start_time[j] /\ start_time[j] <= now
        /\ state[j] = "Done" =>
            /\ finish_time[j] = start_time[j] + workload[j].duration
            /\ finish_time[j] <= now

\* The clock stands at an arrival or a finish, unless nothing has happened
\* yet, and is where the books are closed.
EndInv ==
    /\ \/ \A j \in JobId : Awaited(j)
       \/ \E j \in JobId :
            \/ now = workload[j].submit_time
            \/ state[j] = "Done" /\ now = finish_time[j]
    /\ pc = "run" /\ heap = {} => workload = <<>>
    /\ pc = "returned" /\ workload # <<>> => sim_end = now

HistoryInv == OrderInv /\ TimesInv /\ EndInv

================================================================================
