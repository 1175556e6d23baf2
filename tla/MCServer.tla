------------------------------ MODULE MCServer ------------------------------
(* Server.tla on a small instance.                                         *)
EXTENDS Server

CONSTANTS q1, q2, q3, m1, m2

ThreeRequests == {q1, q2, q3}
TwoPayments == {m1, m2}
=============================================================================
