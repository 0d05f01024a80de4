------------------------------- MODULE Reservations -------------------------------
(***************************************************************************)
(* Simulator with a memory of what every head was promised: the tick the   *)
(* queue policy reserved for it when it first blocked the backlog.  The    *)
(* program does not keep that tick, sched/backfill.hpp only speaks of it.  *)
(***************************************************************************)
EXTENDS SimulatorProperties

VARIABLE promised  \* by job: its shadow time when it first blocked, or kNever

ReservedInit ==
    /\ Init
    /\ promised = [j \in JobId |-> kNever]

\* A head is promised its shadow time when the first loop of drain() gives up
\* on it.
Remember ==
    promised' =
        IF pc = "drain" /\ pc' = "backfill" /\ promised[Head(pending)] = kNever
        THEN [promised EXCEPT ![Head(pending)] = HeadShadow']
        ELSE promised

ReservedNext == Next /\ Remember

ReservedSpec == ReservedInit /\ [][ReservedNext]_<<vars, promised>>

\* "The head starts no later than its reservation" (backfill.hpp): a job that
\* was promised a tick when it became the blocked head has started by then.
\* The promise rests on the estimates, the start on the true durations, and
\* every job that goes around the head may delay it.
ReservationHonoured ==
    \A j \in JobId :
        promised[j] # kNever =>
            IF state[j] = "Queued" THEN now <= promised[j] ELSE start_time[j] <= promised[j]

================================================================================
