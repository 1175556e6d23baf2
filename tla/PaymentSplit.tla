---------------------------- MODULE PaymentSplit ----------------------------
(***************************************************************************)
(* How a payment is divided between the two pools of a purpose-bound       *)
(* account (domain/pool.rs).  Others-contribution money is spent first.    *)
(*                                                                         *)
(* The amounts are u64.  PoolBalance::total adds the two pools with a      *)
(* plain `+`, which wraps in a release build, so the word size is a        *)
(* parameter: the theorems hold whether or not the sum wraps.              *)
(***************************************************************************)
EXTENDS Integers

CONSTANT Word      \* number of u64 values, 2^64 in the program

ASSUME WordAssumption == Word \in Nat \ {0}

Pools == {"others", "self"}

U64 == 0 .. (Word - 1)

\* What lookup_accounts tells the service: the posted money of each pool.
Balances == [Pools -> U64]

Nothing == [p \in Pools |-> 0]

\* PoolBalance::total, a wrapping u64 addition.
Total(b) == (b["others"] + b["self"]) % Word

\* PaymentSplit::calculate answers None exactly when this is false.
Covers(b, amount) == Total(b) >= amount

\* Mutant: self-contribution money is spent first.
SplitSelfFirst(b, amount) ==
    IF b["self"] >= amount
    THEN [Nothing EXCEPT !["self"] = amount]
    ELSE [p \in Pools |-> IF p = "self" THEN b["self"] ELSE amount - b["self"]]

\* Mutant: the self pool is charged what the others pool has paid, too.
SplitTwice(b, amount) ==
    IF b["others"] >= amount
    THEN [Nothing EXCEPT !["others"] = amount]
    ELSE [p \in Pools |-> IF p = "others" THEN b["others"] ELSE amount]

\* PaymentSplit::calculate when the balance covers the amount.
Split(b, amount) ==
    IF b["others"] >= amount
    THEN [Nothing EXCEPT !["others"] = amount]
    ELSE [p \in Pools |-> IF p = "others" THEN b["others"]
                                          ELSE amount - b["others"]]

-----------------------------------------------------------------------------
(* The reference: what a division of an amount over the pools has to be.   *)

IsDivision(take, b, amount) ==
    /\ take \in Balances
    /\ \A p \in Pools : take[p] <= b[p]
    /\ take["others"] + take["self"] = amount

\* Self-contribution money is touched only once the others pool is empty.
OthersFirst(take, b) == take["self"] > 0 => take["others"] = b["others"]
=============================================================================
