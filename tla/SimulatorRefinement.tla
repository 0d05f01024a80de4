--------------------------- MODULE SimulatorRefinement ---------------------------
(***************************************************************************)
(* Simulator implements JobService: seen through its job records and its   *)
(* clock, a run does only what the abstract service allows.                *)
(***************************************************************************)
EXTENDS SimulatorProperties

\* A job is still to come as long as its arrival is in the event queue.
PhaseOf(j) ==
    CASE state[j] = "Running" -> "running"
      [] state[j] = "Done"    -> "done"
      [] state[j] = "Queued"  -> IF ArrivalsOf(j) # {} THEN "future" ELSE "waiting"

Service == INSTANCE JobService WITH
    clock   <- now,
    phase   <- [j \in JobId |-> PhaseOf(j)],
    where   <- node,
    started <- start_time,
    ended   <- finish_time,
    closed  <- pc = "returned"

\* Every run of the simulator, under every policy, is a run of the service:
\* the event queue delivers arrivals and finishes at their ticks and in their
\* order, the free counters admit a job only where the running jobs leave
\* room, and run() returns only when nothing is left to happen.
ImplementsJobService == Service!Spec

================================================================================
