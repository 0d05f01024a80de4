-------------------------------- MODULE Placement --------------------------------
(***************************************************************************)
(* The four placement policies behind the Scheduler interface              *)
(* (sched/scheduler.hpp): which node a job is put on.                      *)
(*                                                                         *)
(* Each policy scans the nodes and returns an optional node.  An optional  *)
(* is the set of the value it holds: {n} for node n, {} for nullopt.  The  *)
(* scans are stated by what they select; PlacementLoops translates the     *)
(* loops themselves and is checked against these definitions.              *)
(***************************************************************************)
EXTENDS Nodes

\* scheduler_names() of sched/factory.cpp.
SchedulerNames == {"first_fit", "round_robin", "least_loaded", "resource_aware"}

\* The nodes a request could go to, given what is free on each.
Fitting(request, nodes) == {n \in NodeId : CanFit(nodes[n], request)}

--------------------------------------------------------------------------------
(* sched/dominant_share.hpp *)

\* DominantShare::operator<, on the fractions used / capacity.
ShareLess(a, b) == a.used * b.capacity < b.used * a.capacity

\* dominant_share: the larger of a node's two utilization fractions.
DominantShare(used) ==
    LET Share(d) == [used |-> used[d], capacity |-> Capacity[d]]
    IN  IF ShareLess(Share("cores"), Share("memory_mb"))
        THEN Share("memory_mb")
        ELSE Share("cores")

\* What a node would carry with `extra` on it.
UsedWith(extra, free) == Plus(Minus(Capacity, free), extra)

NoRequest == [d \in Dim |-> 0]

--------------------------------------------------------------------------------

\* The lowest id that fits.
FirstFit(request, nodes) ==
    {n \in Fitting(request, nodes) : \A m \in Fitting(request, nodes) : n <= m}

\* How many nodes the cursor passes before it looks at n: it moves first and
\* looks second, so the node it stands on is looked at last.
ScanIndex(pos, n) == (n + NodeCount - pos - 1) % NodeCount

\* A variant that stops one node short and never looks where it stands.
RoundRobinShort(request, nodes, pos) ==
    {n \in Fitting(request, nodes) \ {pos} :
        \A m \in Fitting(request, nodes) : ScanIndex(pos, n) <= ScanIndex(pos, m)}

\* The first node after the cursor that fits.
RoundRobin(request, nodes, pos) ==
    {n \in Fitting(request, nodes) :
        \A m \in Fitting(request, nodes) : ScanIndex(pos, n) <= ScanIndex(pos, m)}

\* A variant that leaves the tie between equal nodes unbroken.
LeastLoadedUnbroken(request, nodes) ==
    LET Load(n) == DominantShare(UsedWith(NoRequest, nodes[n]))
    IN  {n \in Fitting(request, nodes) :
            \A m \in Fitting(request, nodes) : ~ ShareLess(Load(m), Load(n))}

\* The least loaded node that fits, the lowest id among equals.  The load is
\* the dominant share of what is in use before the job is placed.
LeastLoaded(request, nodes) ==
    LET Load(n) == DominantShare(UsedWith(NoRequest, nodes[n]))
    IN  {n \in Fitting(request, nodes) :
            \A m \in Fitting(request, nodes) :
                ~ ShareLess(Load(m), Load(n)) /\ (m < n => ShareLess(Load(n), Load(m)))}

\* The node left fullest by the job, the lowest id among equals.
ResourceAware(request, nodes) ==
    LET Load(n) == DominantShare(UsedWith(request, nodes[n]))
    IN  {n \in Fitting(request, nodes) :
            \A m \in Fitting(request, nodes) :
                ~ ShareLess(Load(n), Load(m)) /\ (m < n => ShareLess(Load(m), Load(n)))}

\* Scheduler::place of the policy make_scheduler returns for a name.
Place(scheduler, request, nodes, pos) ==
    CASE scheduler = "first_fit"      -> FirstFit(request, nodes)
      [] scheduler = "round_robin"    -> RoundRobin(request, nodes, pos)
      [] scheduler = "least_loaded"   -> LeastLoaded(request, nodes)
      [] scheduler = "resource_aware" -> ResourceAware(request, nodes)

\* Where place() leaves RoundRobin's cursor.  A scan that finds nothing goes
\* once around and ends where it began; the other policies have no cursor.
CursorAfter(scheduler, placed, pos) ==
    IF scheduler = "round_robin" /\ placed # {} THEN CHOOSE n \in placed : TRUE ELSE pos

================================================================================
