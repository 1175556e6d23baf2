---------------------------- MODULE RefundBudget ----------------------------
(***************************************************************************)
(* What the refunds of one payment promise: a refund takes its share of    *)
(* the pools in one step and only when all of it is still there, holds it  *)
(* while it is pending, and then either keeps it for good or gives all of  *)
(* it back.  No locks, rows, transfers or clocks.                          *)
(***************************************************************************)
EXTENDS Integers, Sums

CONSTANTS
    Refunds,    \* the refunds that may be asked for
    Pools,      \* the pools a payment takes money from
    Paid        \* what the payment took from each pool

VARIABLES
    state,      \* "none", "held", "settled" or "released"
    share       \* what each refund gives back to each pool

budget == <<state, share>>

\* What the refunds that are held or settled use up of a pool.
Used(p) ==
    SumOver([r \in Refunds |-> share[r][p]],
            {r \in Refunds : state[r] \in {"held", "settled"}})

Init ==
    /\ state = [r \in Refunds |-> "none"]
    /\ share = [r \in Refunds |-> [p \in Pools |-> 0]]

\* refund_payment, pending or at once.
Take(r) ==
    /\ state[r] = "none"
    /\ share' = [share EXCEPT ![r] = share'[r]]
    /\ share'[r] \in [Pools -> Nat]
    /\ \A p \in Pools : Used(p) + share'[r][p] <= Paid[p]
    /\ \E new \in {"held", "settled"} : state' = [state EXCEPT ![r] = new]

\* post_refund; void_refund or the timeout.
Settle(r) ==
    /\ state[r] = "held"
    /\ state' = [state EXCEPT ![r] = "settled"]
    /\ UNCHANGED share

Release(r) ==
    /\ state[r] = "held"
    /\ state' = [state EXCEPT ![r] = "released"]
    /\ UNCHANGED share

Next == \E r \in Refunds : Take(r) \/ Settle(r) \/ Release(r)

Spec == Init /\ [][Next]_budget
=============================================================================
