-------------------------------- MODULE Cluster --------------------------------
(***************************************************************************)
(* class Cluster (model/cluster.hpp): the resource accounting over the     *)
(* nodes.  It never sees a job; the simulator hands it a request.          *)
(***************************************************************************)
EXTENDS Nodes, Sums

VARIABLES
    free,         \* nodes_[n].free
    running_jobs  \* nodes_[n].running_jobs

\* The constructor: every node empty.
ClusterInit ==
    /\ free = [n \in NodeId |-> Capacity]
    /\ running_jobs = [n \in NodeId |-> 0]

\* Cluster::allocate.  The assert on can_fit is an obligation of the caller
\* (PickIsPlaceable in SimulatorProperties), not a guard: a release build deducts anyway.
Allocate(n, request) ==
    /\ free' = [free EXCEPT ![n] = Minus(@, request)]
    /\ running_jobs' = [running_jobs EXCEPT ![n] = @ + 1]

\* A variant that hands back the cores and forgets the memory.
ReleaseCoresOnly(n, request) ==
    /\ free' = [free EXCEPT ![n].cores = @ + request["cores"]]
    /\ running_jobs' = [running_jobs EXCEPT ![n] = @ - 1]

\* Cluster::release, with its three asserts as obligations of the caller.
Release(n, request) ==
    /\ free' = [free EXCEPT ![n] = Plus(@, request)]
    /\ running_jobs' = [running_jobs EXCEPT ![n] = @ - 1]

TotalCapacity == [d \in Dim |-> SumOver(NodeId, [n \in NodeId |-> Capacity[d]])]

TotalFree == [d \in Dim |-> SumOver(NodeId, [n \in NodeId |-> free[n][d]])]

\* Cluster::total_utilized, what the utilization integral is fed with.
TotalUtilized == Minus(TotalCapacity, TotalFree)

================================================================================
