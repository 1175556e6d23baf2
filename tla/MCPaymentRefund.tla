--------------------------- MODULE MCPaymentRefund --------------------------
(* Small instances of PaymentRefund for TLC. *)
EXTENDS PaymentRefund, TLC

CONSTANTS r1, r2, r3, h1, h2, k1

\* A payment that drew on both pools, and one that drew on one.
SplitPayment == [p \in Pools |-> IF p = "others" THEN 1 ELSE 2]
OnePoolPayment == [p \in Pools |-> IF p = "others" THEN 3 ELSE 0]

Symmetry == Permutations(Refunds) \cup Permutations(Resolvers)
=============================================================================
