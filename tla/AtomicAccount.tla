---------------------------- MODULE AtomicAccount ---------------------------
(***************************************************************************)
(* What a purpose-bound account promises its payers: a request takes the   *)
(* amount it asked for in one step, all of it, out of money that is there  *)
(* and not reserved, and no second request with its key takes money too;   *)
(* or it takes nothing.  What is taken is booked, or leaks when the        *)
(* booking is lost.  No balance reads, retries, rows or transactions.      *)
(***************************************************************************)
EXTENDS Integers

CONSTANTS
    Calls,      \* the requests that may be made
    Pools,      \* the pools of the account, one of them "others"
    NoKey       \* the request carries no key

VARIABLES
    money,      \* what each pool holds
    held,       \* what is reserved of the others pool
    amount,     \* what each request asks for
    key,        \* its idempotency key
    outcome,    \* "idle", "open", "taken", "booked", "leaked", "unpaid" or "replayed"
    share       \* what each request has taken from each pool

account == <<money, held, amount, key, outcome, share>>

Init ==
    /\ money \in [Pools -> Nat] /\ held = 0
    /\ amount = [c \in Calls |-> 0] /\ key = [c \in Calls |-> NoKey]
    /\ outcome = [c \in Calls |-> "idle"]
    /\ share = [c \in Calls |-> [p \in Pools |-> 0]]

Becomes(c, from, to) ==
    outcome[c] = from /\ outcome' = [outcome EXCEPT ![c] = to]

\* The request arrives; a booked request with its key answers it.
Ask(c) ==
    /\ \/ Becomes(c, "idle", "open")
       \/ /\ Becomes(c, "idle", "replayed")
          /\ key'[c] # NoKey
          /\ \E d \in Calls \ {c} : outcome[d] = "booked" /\ key[d] = key'[c]
    /\ amount' = [amount EXCEPT ![c] = amount'[c]]
    /\ key' = [key EXCEPT ![c] = key'[c]]
    /\ UNCHANGED <<money, held, share>>

Free(p) == IF p = "others" THEN money[p] - held ELSE money[p]

\* Another request with the key of c has taken money and keeps it.
Duplicates(c) ==
    \E d \in Calls \ {c} :
        /\ outcome[d] \in {"taken", "booked"} /\ amount[d] > 0
        /\ key[d] = key[c] /\ key[c] # NoKey

Take(c) ==
    /\ Becomes(c, "open", "taken")
    /\ amount[c] > 0 => ~Duplicates(c)
    /\ share' = [share EXCEPT ![c] = share'[c]]
    /\ \A p \in Pools : 0 <= share'[c][p] /\ share'[c][p] <= Free(p)
    /\ share'[c]["others"] + share'[c]["self"] = amount[c]
    /\ money' = [p \in Pools |-> money[p] - share'[c][p]]
    /\ UNCHANGED <<held, amount, key>>

\* The request is refused, or its handler is gone before it took anything.
Refuse(c) ==
    /\ Becomes(c, "open", "unpaid")
    /\ UNCHANGED <<money, held, amount, key, share>>

Book(c) ==
    /\ Becomes(c, "taken", "booked") \/ Becomes(c, "taken", "leaked")
    /\ UNCHANGED <<money, held, amount, key, share>>

\* Deposits into a pool; a reservation of others money, and its end.
Credit(p) ==
    /\ money'[p] > money[p] /\ money' = [money EXCEPT ![p] = money'[p]]
    /\ UNCHANGED <<held, amount, key, outcome, share>>

Hold ==
    /\ held = 0 /\ 0 < held' /\ held' <= money["others"]
    /\ UNCHANGED <<money, amount, key, outcome, share>>

Unhold ==
    /\ held > 0 /\ held' = 0
    /\ \/ UNCHANGED money
       \/ money' = [money EXCEPT !["others"] = @ - held]
    /\ UNCHANGED <<amount, key, outcome, share>>

Next ==
    \/ \E c \in Calls : Ask(c) \/ Take(c) \/ Refuse(c) \/ Book(c)
    \/ \E p \in Pools : Credit(p)
    \/ Hold \/ Unhold

Spec == Init /\ [][Next]_account
=============================================================================
