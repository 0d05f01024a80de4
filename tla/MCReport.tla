-------------------------------- MODULE MCReport --------------------------------
(***************************************************************************)
(* Simulator on two small nodes, for what is reported of a run and what is *)
(* traced of it.                                                           *)
(***************************************************************************)
EXTENDS Report, Trace, MCRuns

================================================================================
