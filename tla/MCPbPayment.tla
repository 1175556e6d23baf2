----------------------------- MODULE MCPbPayment ----------------------------
(* Small instances of PbPayment for TLC. *)
EXTENDS PbPayment, TLC

CONSTANTS c1, c2, c3, k1

SmallOpening == [others |-> 2, self |-> 3]

Symmetry == Permutations(Calls)
=============================================================================
