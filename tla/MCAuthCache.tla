---------------------------- MODULE MCAuthCache -----------------------------
(* AuthCache.tla on a small instance.                                      *)
EXTENDS AuthCache, TLC

CONSTANTS c1, c2

TwoCalls == {c1, c2}
TwoKids == 1 .. 2

Symmetry == Permutations(TwoCalls)
=============================================================================
