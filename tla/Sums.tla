---------------------------------- MODULE Sums ----------------------------------
(***************************************************************************)
(* Sums over finite sets, counted as units: an amount a[x] contributes the *)
(* pairs <<x, 1>>, ..., <<x, a[x]>>, and the sum is how many pairs there   *)
(* are.  Folds say the same but are recursive, and recursion is out of the *)
(* proof system's reach.                                                   *)
(***************************************************************************)
EXTENDS Naturals, FiniteSets

Units(S, amount) == UNION {{x} \X (1 .. amount[x]) : x \in S}

SumOver(S, amount) == Cardinality(Units(S, amount))

================================================================================
