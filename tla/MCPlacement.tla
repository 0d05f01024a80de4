------------------------------- MODULE MCPlacement -------------------------------
(***************************************************************************)
(* PlacementLoops on three nodes whose two dimensions have coprime sizes,  *)
(* so that shares can only be compared by cross multiplication.            *)
(***************************************************************************)
EXTENDS PlacementLoops

MCCapacity == [cores |-> 3, memory_mb |-> 2]

MCFreeLevels == [cores : 0 .. 3, memory_mb : 0 .. 2]

MCRequests == [cores : 0 .. 2, memory_mb : {0, 1}] \cup {[cores |-> 4, memory_mb |-> 1]}

================================================================================
