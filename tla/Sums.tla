-------------------------------- MODULE Sums --------------------------------
(***************************************************************************)
(* SUM(amount) over a set of table rows, as SQL computes it.               *)
(*                                                                         *)
(* The sum of f over S is counted paisa by paisa: each x of S contributes  *)
(* the f[x] units <<x, 1>>, ..., <<x, f[x]>>, and the sum is how many      *)
(* units there are.  Counting makes the sum a cardinality, so the theorems *)
(* about finite sets apply to it for any number of rows.                   *)
(***************************************************************************)
EXTENDS Integers, FiniteSets

UnitsOf(f, x) == {x} \X (1 .. f[x])

Units(f, S) == UNION {UnitsOf(f, x) : x \in S}

SumOver(f, S) == Cardinality(Units(f, S))
=============================================================================
