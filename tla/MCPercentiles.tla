------------------------------ MODULE MCPercentiles ------------------------------
(***************************************************************************)
(* Percentiles on every sample of a few values, with the percentages of    *)
(* the code, which coincide at the end of a small sample, and with others  *)
(* whose ranks are all different there.                                    *)
(***************************************************************************)
EXTENDS Percentiles

MCPercents == {<<50, 95, 99>>, <<30, 50, 90>>, <<20, 60, 80>>}

================================================================================
