------------------------------ MODULE MCComparison ------------------------------
(***************************************************************************)
(* Comparison on two nodes, with two seeds and a generator that gives each *)
(* of them one of a few workloads.  Every job fits an empty node, as those *)
(* of the generator do.                                                    *)
(***************************************************************************)
EXTENDS Comparison, MCJobs

Small      == Shape(1, 1, 1, 1)
CoreHeavy  == Shape(3, 1, 2, 4)
MemHeavy   == Shape(1, 3, 2, 2)
WholeNode  == Shape(4, 4, 1, 2)
NoTime     == Shape(2, 2, 0, 0)

\* Workloads whose runs differ by policy: a head is blocked and passed, and
\* placing apart or together decides whether the whole-node job fits.
Blocked == <<Submitted(CoreHeavy, 0), Submitted(CoreHeavy, 0), Submitted(WholeNode, 0),
             Submitted(Small, 1)>>
Spread  == <<Submitted(Small, 0), Submitted(Small, 0), Submitted(WholeNode, 0),
             Submitted(Small, 1), Submitted(MemHeavy, 1)>>
Mixed   == <<Submitted(MemHeavy, 0), Submitted(CoreHeavy, 0), Submitted(MemHeavy, 1),
             Submitted(CoreHeavy, 1), Submitted(Small, 1)>>
Tied    == <<Submitted(NoTime, 0), Submitted(WholeNode, 0), Submitted(NoTime, 0),
             Submitted(CoreHeavy, 0)>>
Single  == <<Submitted(CoreHeavy, 1)>>

MCWorkloads == {Blocked, Spread, Mixed, Tied, Single}

MCGenerators == [0 .. 1 -> MCWorkloads]

================================================================================
