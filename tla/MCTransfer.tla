----------------------------- MODULE MCTransfer -----------------------------
(* Small instances of Transfer for TLC. *)
EXTENDS Transfer, TLC

CONSTANTS t1, t2, r1, r2, e1, e2, k1

SmallOpening == [a \in Accounts |-> IF a = "normal" THEN 3 ELSE 0]

Symmetry == Permutations(Transfers) \cup Permutations(Reversals)
                \cup Permutations(Endings)
=============================================================================
