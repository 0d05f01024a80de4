--------------------------------- MODULE Nodes ---------------------------------
(***************************************************************************)
(* The machines a run is simulated on: model/resources.hpp, model/node.hpp *)
(* and the construction of model/cluster.hpp.  Every node has the same     *)
(* capacity and an id that is its index in the cluster's vector.           *)
(***************************************************************************)
EXTENDS Naturals

CONSTANTS
    NodeCount,  \* number of nodes in the cluster
    Capacity    \* resources of one node, a bundle in Resources

\* The two dimensions of struct Resources.
Dim == {"cores", "memory_mb"}

\* The 32 and 64 bits of the two fields are not modelled: what a node has
\* free never exceeds its capacity (Conservation in SimulatorProperties).
Resources == [Dim -> Nat]

NodeId == 0 .. NodeCount - 1

\* A node has something of each dimension (kDefaultResources in
\* model/profiles.hpp), so a share of it is a fraction.
ASSUME NodesAssumption ==
    /\ NodeCount \in Nat
    /\ Capacity \in [Dim -> Nat \ {0}]

--------------------------------------------------------------------------------

Plus(a, b)  == [d \in Dim |-> a[d] + b[d]]
Minus(a, b) == [d \in Dim |-> a[d] - b[d]]

\* A variant that looks at the cores alone.
CanFitCores(free, request) == request["cores"] <= free["cores"]

\* Node::can_fit, and the file-local fits() of sched/backfill.cpp: every
\* dimension of the request fits in what is free.
CanFit(free, request) == \A d \in Dim : request[d] <= free[d]

================================================================================
