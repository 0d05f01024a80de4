------------------------------ MODULE PlacementLoops ------------------------------
(***************************************************************************)
(* The scans of the four Scheduler::place implementations, one iteration   *)
(* a step, against what module Placement says they select.  One call is    *)
(* one behaviour; what it is called with is chosen in Init.                *)
(***************************************************************************)
EXTENDS Placement

CONSTANTS
    Requests,   \* the requests place() is called with
    FreeLevels  \* what a node may have free at the call

\* Both are bundles, and a node never has more free than it was built with
\* (model/node.hpp; Conservation in SimulatorProperties).
ASSUME LoopsAssumption ==
    /\ Requests \subseteq Resources
    /\ \A level \in FreeLevels :
           level \in Resources /\ \A d \in Dim : level[d] <= Capacity[d]

VARIABLES
    scheduler, request, nodes,  \* the policy, and the arguments of the call
    start_pos,   \* start_pos, the cursor at the call
    pos,         \* pos, RoundRobin's cursor
    count,       \* nodes looked at so far
    best,        \* best, the optional that is returned
    best_share,  \* best_share
    pc           \* "scan" or "returned"

loopVars == <<scheduler, request, nodes, start_pos, pos, count, best, best_share, pc>>

call == <<scheduler, request, nodes, start_pos>>

Init ==
    /\ scheduler \in SchedulerNames
    /\ request \in Requests
    /\ nodes \in [NodeId -> FreeLevels]
    /\ start_pos \in IF scheduler = "round_robin" THEN NodeId \cup {0} ELSE {0}
    /\ pos = start_pos
    /\ count = 0
    /\ best = {}
    /\ best_share = [used |-> 0, capacity |-> 1]
    /\ pc = "scan"

--------------------------------------------------------------------------------

Scanning == pc = "scan" /\ count < NodeCount

\* A variant that gives up at the first node without room.
ScanFirstFitGivesUp ==
    /\ scheduler = "first_fit"
    /\ Scanning
    /\ best' = IF CanFit(nodes[count], request) THEN {count} ELSE {}
    /\ pc' = "returned"
    /\ count' = count + 1
    /\ UNCHANGED <<call, pos, best_share>>

\* first_fit: the first node with room is the answer.
ScanFirstFit ==
    /\ scheduler = "first_fit"
    /\ Scanning
    /\ IF CanFit(nodes[count], request)
       THEN best' = {count} /\ pc' = "returned"
       ELSE UNCHANGED <<best, pc>>
    /\ count' = count + 1
    /\ UNCHANGED <<call, pos, best_share>>

\* round_robin: the cursor moves, then looks; back where it began it gives up.
ScanRoundRobin ==
    /\ scheduler = "round_robin"
    /\ Scanning
    /\ count' = count + 1
    /\ pos' = (pos + 1) % NodeCount
    /\ IF CanFit(nodes[pos'], request)
       THEN best' = {pos'} /\ pc' = "returned"
       ELSE /\ pc' = IF pos' = start_pos THEN "returned" ELSE "scan"
            /\ UNCHANGED best
    /\ UNCHANGED <<call, best_share>>

\* A variant that lets the later of two equal nodes win.
BetterOrEqual(share) ==
    best = {} \/ IF scheduler = "least_loaded" THEN ~ ShareLess(best_share, share)
                                               ELSE ~ ShareLess(share, best_share)

\* Whether a score replaces the best one so far: least_loaded wants it lower,
\* resource_aware higher, and both leave an equal one alone.
Better(share) ==
    best = {} \/ IF scheduler = "least_loaded" THEN ShareLess(share, best_share)
                                               ELSE ShareLess(best_share, share)

\* least_loaded and resource_aware: every node with room is scored, without
\* and with the job on it.
ScanBest ==
    /\ scheduler \in {"least_loaded", "resource_aware"}
    /\ Scanning
    /\ count' = count + 1
    /\ LET extra == IF scheduler = "least_loaded" THEN NoRequest ELSE request
           share == DominantShare(UsedWith(extra, nodes[count]))
       IN  IF CanFit(nodes[count], request) /\ Better(share)
           THEN best' = {count} /\ best_share' = share
           ELSE UNCHANGED <<best, best_share>>
    /\ UNCHANGED <<call, pos, pc>>

\* The loop ran over all nodes.
ScanEnds ==
    /\ pc = "scan"
    /\ count = NodeCount
    /\ pc' = "returned"
    /\ UNCHANGED <<call, pos, count, best, best_share>>

Next == ScanFirstFit \/ ScanRoundRobin \/ ScanBest \/ ScanEnds
          \/ (pc = "returned" /\ UNCHANGED loopVars)

Spec == Init /\ [][Next]_loopVars /\ WF_loopVars(Next)

--------------------------------------------------------------------------------

\* Every loop returns the node, and leaves the cursor where, Placement says.
LoopsSelect ==
    pc = "returned" =>
        /\ best = Place(scheduler, request, nodes, start_pos)
        /\ pos = CursorAfter(scheduler, best, start_pos)

\* The contract every scheduler is tested for (scheduler_contract_test.cpp):
\* a node that is returned has room, and nullopt means no node has.
PlaceContract ==
    pc = "returned" =>
        IF best = {} THEN Fitting(request, nodes) = {}
        ELSE best \subseteq Fitting(request, nodes)

================================================================================
