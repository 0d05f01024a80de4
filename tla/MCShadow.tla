--------------------------------- MODULE MCShadow ---------------------------------
(***************************************************************************)
(* ShadowLoop on two nodes with up to three running jobs.                  *)
(***************************************************************************)
EXTENDS ShadowLoop

MCCapacity == [cores |-> 4, memory_mb |-> 3]

Holdings == {[cores |-> 1, memory_mb |-> 2], [cores |-> 2, memory_mb |-> 1],
             [cores |-> 3, memory_mb |-> 1]}

JobViews(id) ==
    [id : {id}, node : NodeId, held : Holdings, estimated_finish : 1 .. 3]

\* Jobs that fit together on their nodes.
Feasible(S) ==
    \A m \in NodeId : \A d \in Dim :
        LET There == {r \in S : r.node = m}
        IN  SumOver(There, [r \in There |-> r.held[d]]) <= MCCapacity[d]

MCRunningSets ==
    {S \in {{}} \cup {{a} : a \in JobViews(1)}
                \cup {{a, b} : a \in JobViews(1), b \in JobViews(2)}
                \cup {{a, b, c} : a \in JobViews(1), b \in JobViews(2), c \in JobViews(3)} :
        Feasible(S)}

MCRequests == {[cores |-> 4, memory_mb |-> 1], [cores |-> 2, memory_mb |-> 3],
               [cores |-> 3, memory_mb |-> 2], [cores |-> 1, memory_mb |-> 2],
               [cores |-> 5, memory_mb |-> 1]}

================================================================================
