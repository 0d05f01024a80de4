-------------------------------- MODULE ShadowLoop --------------------------------
(***************************************************************************)
(* The loops of shadow_time (sched/backfill.cpp), one iteration a step,    *)
(* against what ShadowTime says they compute.  One call is one behaviour;  *)
(* what it is called with is chosen in Init: any running jobs that fit     *)
(* together on their nodes, and a request.                                 *)
(***************************************************************************)
EXTENDS Backfill

CONSTANTS
    Requests,    \* the requests shadow_time is called with
    RunningSets  \* the sets of running jobs it is called with

\* What the jobs of S hold of node m.
HeldOn(S, m, d) ==
    LET There == {r \in S : r.node = m}
    IN  SumOver(There, [r \in There |-> r.held[d]])

\* A cluster has a node or more; each of the running jobs has an id of its own,
\* and together they take no more than the node they run on has.
ASSUME ShadowAssumption ==
    /\ NodeCount # 0
    /\ Requests \subseteq Resources
    /\ \A S \in RunningSets :
        /\ IsFiniteSet(S)
        /\ \A r \in S : /\ r.id \in Nat /\ r.node \in NodeId
                        /\ r.held \in Resources /\ r.estimated_finish \in Nat
        /\ \A r, q \in S : r.id = q.id => r = q
        /\ \A m \in NodeId : \A d \in Dim : HeldOn(S, m, d) <= Capacity[d]

VARIABLES
    request, running, nodes, now,  \* the arguments of the call
    n,        \* the node the outer loop is at
    on_node,  \* on_node, what is left of it, in sorted order
    spare,    \* free, the node's resources handed back so far
    best,     \* best
    pc        \* "node", "give_back" or "returned"

loopVars == <<request, running, nodes, now, n, on_node, spare, best, pc>>

call == <<request, running, nodes, now>>

\* What a node has free under the jobs in S.
FreeUnder(S, m) == [d \in Dim |-> Capacity[d] - HeldOn(S, m, d)]

Init ==
    /\ request \in Requests
    /\ running \in RunningSets
    /\ nodes = [m \in NodeId |-> FreeUnder(running, m)]
    /\ now = 0
    /\ n = 0
    /\ on_node = <<>>
    /\ spare = NoRequest
    /\ best = kNever
    /\ pc = "node"

--------------------------------------------------------------------------------

\* The order of the sort: estimated finish, then id.
EndsFirst(a, b) ==
    \/ a.estimated_finish < b.estimated_finish
    \/ a.estimated_finish = b.estimated_finish /\ a.id < b.id

\* A variant that keeps the order in which jobs were started.
SortedById(S) ==
    {s \in [1 .. Cardinality(S) -> S] : \A a, b \in DOMAIN s : a < b => s[a].id < s[b].id}

\* A variant that loses a job to an off-by-one in the sorted range.
SortedAllButOne(S) ==
    {s \in [1 .. Cardinality(S) - 1 -> S] : \A a, b \in DOMAIN s : a < b => EndsFirst(s[a], s[b])}

\* What std::sort may leave the jobs of S in: as many places as jobs, and none
\* out of order.
Sorted(S) ==
    {s \in [1 .. Cardinality(S) -> S] : \A a, b \in DOMAIN s : a < b => EndsFirst(s[a], s[b])}

\* std::min on ticks, kNever being the largest.
Earlier(t, u) == IF t = kNever \/ u < t THEN u ELSE t

\* The outer loop reaches a node: if it has room now, now is the answer.
EnterNode ==
    /\ pc = "node"
    /\ n < NodeCount
    /\ IF CanFit(nodes[n], request)
       THEN /\ best' = now
            /\ pc' = "returned"
            /\ UNCHANGED <<on_node, spare>>
       ELSE /\ on_node' \in Sorted({r \in running : r.node = n})
            /\ spare' = nodes[n]
            /\ pc' = "give_back"
            /\ UNCHANGED best
    /\ UNCHANGED <<call, n>>

\* The inner loop gives the node back what one job holds; the first time
\* there is room, the node is done with.
GiveBack ==
    /\ pc = "give_back"
    /\ on_node # <<>>
    /\ spare' = Plus(spare, Head(on_node).held)
    /\ IF CanFit(spare', request)
       THEN /\ best' = Earlier(best, Head(on_node).estimated_finish)
            /\ n' = n + 1
            /\ pc' = "node"
            /\ UNCHANGED on_node
       ELSE /\ on_node' = Tail(on_node)
            /\ UNCHANGED <<best, n, pc>>
    /\ UNCHANGED call

\* The inner loop ran out of jobs.
LeaveNode ==
    /\ pc = "give_back"
    /\ on_node = <<>>
    /\ n' = n + 1
    /\ pc' = "node"
    /\ UNCHANGED <<call, on_node, spare, best>>

\* The outer loop ran over all nodes.
LastNode ==
    /\ pc = "node"
    /\ n = NodeCount
    /\ pc' = "returned"
    /\ UNCHANGED <<call, n, on_node, spare, best>>

Next == EnterNode \/ GiveBack \/ LeaveNode \/ LastNode
          \/ (pc = "returned" /\ UNCHANGED loopVars)

Spec == Init /\ [][Next]_loopVars /\ WF_loopVars(Next)

--------------------------------------------------------------------------------

\* The sort-and-scan finds the earliest predicted end at which some node has
\* room, and jobs predicted to end on the same tick count as ended together,
\* whatever order the sort leaves them in.
LoopFindsShadowTime ==
    pc = "returned" => best = ShadowTime(request, nodes, running, now)

\* "kNever when no node could ever hold it even when empty" (backfill.hpp):
\* the refusal to backfill is exactly the case of an unsatisfiable head.
NeverMeansUnsatisfiable ==
    pc = "returned" => (best = kNever <=> ~ CanFit(Capacity, request))

================================================================================
