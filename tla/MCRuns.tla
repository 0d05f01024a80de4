---------------------------------- MODULE MCRuns ----------------------------------
(***************************************************************************)
(* The workloads of the instances in which TLC runs the simulator: every   *)
(* one of a few jobs drawn from a few shapes.                              *)
(***************************************************************************)
EXTENDS MCJobs, Naturals

CONSTANTS
    MaxJobs,  \* bound on the number of jobs
    Shapes    \* the jobs a workload is drawn from

\* Small, core-heavy, memory-heavy and whole-node jobs, one that over-claims,
\* one that takes no time, and one that no node can hold.
AllShapes == {Shape(1, 1, 1, 1), Shape(3, 1, 2, 4), Shape(1, 3, 2, 2),
              Shape(4, 4, 1, 2), Shape(2, 2, 0, 0), Shape(5, 1, 1, 1)}

\* Enough of them for a head to be blocked and a job to go around it.
FewShapes == {Shape(1, 1, 1, 1), Shape(3, 1, 2, 4), Shape(4, 4, 1, 2), Shape(5, 1, 1, 1)}

\* The same and a job that takes no time.
SomeShapes == FewShapes \cup {Shape(2, 2, 0, 0)}

\* Those that an empty node can hold, as the job profiles are.
HeldShapes == SomeShapes \ {Shape(5, 1, 1, 1)}

\* Up to MaxJobs jobs, submitted all at once or two now and the rest later.
MCWorkloads ==
    UNION {{[j \in 1 .. n |-> Submitted(shape[j], IF j <= 2 THEN 0 ELSE later)] :
                shape \in [1 .. n -> Shapes], later \in 0 .. 1} : n \in 0 .. MaxJobs}

================================================================================
