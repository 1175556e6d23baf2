----------------------------- MODULE MCDeposit ------------------------------
(***************************************************************************)
(* Deposit on small instances.                                             *)
(***************************************************************************)
EXTENDS Deposit

CONSTANTS d1, w1, w2, e1, e2, k1
=============================================================================
