------------------------------- MODULE Totals -------------------------------
(***************************************************************************)
(* The total of a function into the naturals: what its values add up to,   *)
(* counted as the cardinality of a set that has f[x] elements for each x.  *)
(* Quantities of orders are added up with it.  Module TotalsProofs has     *)
(* what the proofs know of it.                                             *)
(***************************************************************************)
EXTENDS Integers, FiniteSets

Pieces(f) == UNION {{x} \X (1 .. f[x]) : x \in DOMAIN f}

Total(f) == Cardinality(Pieces(f))
=============================================================================
