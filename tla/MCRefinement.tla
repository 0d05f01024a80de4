------------------------------ MODULE MCRefinement ------------------------------
(***************************************************************************)
(* Simulator on two small nodes, for the refinement and the liveness of a  *)
(* run.                                                                    *)
(***************************************************************************)
EXTENDS SimulatorRefinement, MCRuns

================================================================================
