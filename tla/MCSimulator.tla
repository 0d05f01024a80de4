------------------------------- MODULE MCSimulator -------------------------------
(***************************************************************************)
(* Simulator and its reservations on two small nodes, with every placement *)
(* policy and both queue policies, for what holds at every step of a run.  *)
(***************************************************************************)
EXTENDS Reservations, MCRuns

CONSTANT PromisedJobs  \* the number of jobs of a promised workload

\* Half a node with a perfect and with a padded estimate, short and long
\* fill-ins, and a whole node: heads block, others go around them, and jobs
\* end before their estimates while a reservation is due.
PromisedShapes == {Shape(2, 3, 2, 2), Shape(2, 1, 1, 3), Shape(1, 1, 1, 1),
                   Shape(1, 1, 3, 3), Shape(4, 4, 1, 2)}

\* The first three jobs come together, the others together or one by one.
PromisedWorkloads ==
    {[j \in 1 .. PromisedJobs |-> Submitted(shape[j], IF j <= 3 THEN 0 ELSE (j - 3) * gap)] :
        shape \in [1 .. PromisedJobs -> PromisedShapes], gap \in 0 .. 1}

RunWorkloads == MCWorkloads \cup PromisedWorkloads

================================================================================
