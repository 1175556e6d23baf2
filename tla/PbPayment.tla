------------------------------ MODULE PbPayment -----------------------------
(***************************************************************************)
(* Payments and withdrawals of one purpose-bound account                   *)
(* (service/pb_payment_service.rs, service/pb_withdrawal_service.rs).      *)
(*                                                                         *)
(* Every request is a handler that talks in turn to PostgreSQL (the        *)
(* `transactions` table, which carries the idempotency key) and to         *)
(* TigerBeetle (which holds the money).  Each await on one of the two is   *)
(* a step, so requests interleave between any two of them.  A handler      *)
(* whose database transaction is lost after TigerBeetle has moved the      *)
(* money leaves an "orphaned" debit that no row accounts for.              *)
(***************************************************************************)
EXTENDS Integers, FiniteSets, PaymentSplit, Sums

CONSTANTS
    Calls,          \* requests, each served by a handler of its own
    Keys,           \* idempotency keys
    NoKey,          \* the request carries no key
    Amounts,        \* amounts a request may ask for
    Opening,        \* posted balance of each pool at the start
    MaxTries,       \* MAX_SPLIT_RETRIES
    Credits,        \* amounts other services may deposit
    MaxCredited,    \* bound: money other services deposit in one pool
    Reserve,        \* amount of a pending reversal on the others pool; 0: none
    MaxFaults       \* bound: database transactions lost

ASSUME PaymentAssumption ==
    /\ NoKey \notin Keys
    /\ Amounts \subseteq U64 /\ Credits \subseteq Nat \ {0}
    /\ Opening \in Balances
    /\ IsFiniteSet(Calls)
    /\ MaxTries \in Nat \ {0}
    /\ MaxCredited \in Nat /\ Reserve \in Nat /\ MaxFaults \in Nat
    /\ \A p \in Pools : Opening[p] + MaxCredited < Word

VARIABLES
    posted,     \* TigerBeetle: credits_posted - debits_posted of each pool
    held,       \* TigerBeetle: debits_pending of the others pool
    reserved,   \* history: a reversal has reserved money of the others pool
    external,   \* net money the rows of other services put into each pool
    active,     \* pb_accounts.status = 'active'
    call,       \* the handler of each request
    faults      \* database transactions lost so far

vars == <<posted, held, reserved, external, active, call, faults>>

Kinds == {"payment", "withdrawal"}

InTransaction == {"inserted", "moved"}
Working  == {"looked", "admitted", "split"} \cup InTransaction
Answered == {"done", "replayed", "inactive", "invalid_mcc", "insufficient",
             "duplicate", "exceeds"}
Gone     == {"lost", "orphaned"}

Request(pc, kind, amount, key, take) ==
    [pc |-> pc, kind |-> kind, amount |-> amount, key |-> key,
     attempt |-> 0, take |-> take]

Idle == Request("idle", "payment", 0, NoKey, Nothing)

\* The pools a handler writes a row for.  A withdrawal writes its one row
\* whatever the amount; a payment skips a leg that is zero.
RowPools(c) ==
    IF call[c].kind = "withdrawal" THEN {"self"}
    ELSE {p \in Pools : call[c].take[p] > 0}

\* The pool whose row carries the idempotency key: others if it has one.
KeyPool(c) == IF "others" \in RowPools(c) THEN "others" ELSE "self"

\* Mutant: a withdrawal does not pass its key on to the INSERT.
CarriesPayment(c, k) == /\ call[c].key = k /\ k # NoKey /\ RowPools(c) # {}
                        /\ call[c].kind = "payment"

\* The handler c holds, in committed or uncommitted rows, the key k.
Carries(c, k) == call[c].key = k /\ k # NoKey /\ RowPools(c) # {}

Committed(c) == call[c].pc = "done"

\* Mutant: the self account is created without the flag that bounds its debits.
CanDebitOthers(take) == take["others"] <= posted["others"] - held

\* TigerBeetle refuses a chain of debits unless every leg fits in what is
\* neither spent nor reserved.
CanDebit(take) ==
    /\ take["others"] <= posted["others"] - held
    /\ take["self"] <= posted["self"]

Step(c, from, to) ==
    /\ call[c].pc = from
    /\ call' = [call EXCEPT ![c].pc = to]

-----------------------------------------------------------------------------

Init ==
    /\ posted = Opening
    /\ held = 0 /\ reserved = FALSE
    /\ external = Nothing
    /\ active = TRUE
    /\ call = [c \in Calls |-> Idle]
    /\ faults = 0

\* The request arrives and its key is looked up.  A hit is answered from the
\* one row that carries the key, whichever service wrote it.
Receive(c) ==
    /\ call[c].pc = "idle"
    /\ \E kind \in Kinds, amount \in Amounts, key \in Keys \cup {NoKey} :
         LET hits == {d \in Calls : Committed(d) /\ Carries(d, key)}
             row(d) == [Nothing EXCEPT ![KeyPool(d)] = call[d].take[KeyPool(d)]]
         IN  \/ /\ hits = {}
                /\ call' = [call EXCEPT ![c] =
                              Request("looked", kind, amount, key, Nothing)]
             \/ \E d \in hits :
                  call' = [call EXCEPT ![c] =
                             Request("replayed", kind, amount, key, row(d))]
    /\ UNCHANGED <<posted, held, reserved, external, active, faults>>

\* Mutant: the account's status is not looked at.
AdmitFrozen(c) ==
    /\ \/ Step(c, "looked", "admitted")
       \/ call[c].kind = "payment" /\ Step(c, "looked", "invalid_mcc")
    /\ UNCHANGED <<posted, held, reserved, external, active, faults>>

\* get_account, then for a payment the merchant category check.  The category
\* is allowed or not by reference data, so it may refuse any payment.
Admit(c) ==
    /\ \/ active /\ Step(c, "looked", "admitted")
       \/ ~active /\ Step(c, "looked", "inactive")
       \/ /\ active /\ call[c].kind = "payment"
          /\ Step(c, "looked", "invalid_mcc")
    /\ UNCHANGED <<posted, held, reserved, external, active, faults>>

\* get_balance and the decision taken from it.  The balance is what is
\* posted: reservations (debits_pending) are not subtracted.
ReadBalance(c) ==
    LET r == call[c]
        enough == IF r.kind = "payment" THEN Covers(posted, r.amount)
                                        ELSE posted["self"] >= r.amount
        take == IF r.kind = "payment" THEN Split(posted, r.amount)
                                      ELSE [Nothing EXCEPT !["self"] = r.amount]
    IN  /\ r.pc = "admitted"
        /\ call' = [call EXCEPT ![c] =
                      IF enough THEN [r EXCEPT !.pc = "split", !.take = take]
                                ELSE [r EXCEPT !.pc = "insufficient"]]
        /\ UNCHANGED <<posted, held, reserved, external, active, faults>>

\* Mutant: the table has no unique index on the key.
InsertRowsUnindexed(c) ==
    /\ Step(c, "split", "inserted")
    /\ UNCHANGED <<posted, held, reserved, external, active, faults>>

\* BEGIN and the INSERTs.  The unique index on the key makes the insert wait
\* for an open transaction that holds the same key, and fails it once a
\* committed row does.
InsertRows(c) ==
    /\ call[c].pc = "split"
    /\ ~\E d \in Calls \ {c} : /\ call[d].pc \in InTransaction
                               /\ Carries(c, call[c].key) /\ Carries(d, call[c].key)
    /\ IF \E d \in Calls : Committed(d) /\ Carries(c, call[c].key)
                                        /\ Carries(d, call[c].key)
       THEN Step(c, "split", "duplicate")
       ELSE Step(c, "split", "inserted")
    /\ UNCHANGED <<posted, held, reserved, external, active, faults>>

\* Mutant: the second leg of the chain is not sent.
MoveFirstLeg(c) ==
    /\ CanDebit(call[c].take)
    /\ Step(c, "inserted", "moved")
    /\ posted' = [posted EXCEPT !["others"] = @ - call[c].take["others"]]
    /\ UNCHANGED <<held, reserved, external, active, faults>>

\* create_transfer / create_linked_transfers succeeds.
MoveMoney(c) ==
    /\ CanDebit(call[c].take)
    /\ Step(c, "inserted", "moved")
    /\ posted' = [p \in Pools |-> posted[p] - call[c].take[p]]
    /\ UNCHANGED <<held, reserved, external, active, faults>>

\* Mutant: the retry reuses the balance it has already read.
RejectedStale(c) ==
    /\ call[c].pc = "inserted" /\ ~CanDebit(call[c].take)
    /\ LET tries == call[c].attempt + 1
           again == call[c].kind = "payment" /\ tries < MaxTries
       IN  call' = [call EXCEPT ![c].attempt = tries,
                                ![c].pc = IF again THEN "split" ELSE "exceeds"]
    /\ UNCHANGED <<posted, held, reserved, external, active, faults>>

\* Mutant: the transaction of a rejected debit is committed, not rolled back.
RejectedCommits(c) ==
    /\ ~CanDebit(call[c].take)
    /\ Step(c, "inserted", "done")
    /\ UNCHANGED <<posted, held, reserved, external, active, faults>>

\* Mutant: the retry loop has no bound.
RejectedForever(c) ==
    /\ ~CanDebit(call[c].take)
    /\ Step(c, "inserted", "admitted")
    /\ UNCHANGED <<posted, held, reserved, external, active, faults>>

\* TigerBeetle answers ExceedsBalance: the rows are rolled back.  A payment
\* starts over from a fresh balance until its tries are used up, a
\* withdrawal answers at once.
Rejected(c) ==
    /\ call[c].pc = "inserted"
    /\ ~CanDebit(call[c].take)
    /\ LET tries == call[c].attempt + 1
           again == call[c].kind = "payment" /\ tries < MaxTries
       IN  call' = [call EXCEPT ![c].attempt = tries,
                                ![c].pc = IF again THEN "admitted" ELSE "exceeds"]
    /\ UNCHANGED <<posted, held, reserved, external, active, faults>>

Commit(c) ==
    /\ Step(c, "moved", "done")
    /\ UNCHANGED <<posted, held, reserved, external, active, faults>>

\* The process dies, or the database connection does: PostgreSQL rolls the
\* transaction back, TigerBeetle keeps what it has done.
Fail(c) ==
    /\ call[c].pc \in Working
    /\ faults < MaxFaults
    /\ faults' = faults + 1
    /\ call' = [call EXCEPT
                  ![c].pc = IF call[c].pc = "moved" THEN "orphaned" ELSE "lost"]
    /\ UNCHANGED <<posted, held, reserved, external, active>>

-----------------------------------------------------------------------------
(* What the other services and the operators do to the same account.       *)

\* A settled deposit, transfer or refund credits a pool.
Credit(p) ==
    /\ \E amount \in Credits :
         /\ external[p] + amount <= MaxCredited
         /\ posted' = [posted EXCEPT ![p] = @ + amount]
         /\ external' = [external EXCEPT ![p] = @ + amount]
    /\ UNCHANGED <<held, reserved, active, call, faults>>

\* A pending transfer reversal reserves money of the others pool.
Hold ==
    /\ Reserve > 0 /\ held = 0 /\ Reserve <= posted["others"]
    /\ held' = Reserve /\ reserved' = TRUE
    /\ UNCHANGED <<posted, external, active, call, faults>>

\* The reservation is voided, or posted and the money leaves.
Unhold ==
    /\ held > 0
    /\ held' = 0
    /\ \/ UNCHANGED <<posted, external>>
       \/ /\ posted' = [posted EXCEPT !["others"] = @ - held]
          /\ external' = [external EXCEPT !["others"] = @ - held]
    /\ UNCHANGED <<reserved, active, call, faults>>

SetStatus ==
    /\ active' = ~active
    /\ UNCHANGED <<posted, held, reserved, external, call, faults>>

Handle(c) == \/ Receive(c) \/ Admit(c) \/ ReadBalance(c) \/ InsertRows(c)
             \/ MoveMoney(c) \/ Rejected(c) \/ Commit(c)

\* The steps a handler takes on its own once the request has arrived.
Proceed(c) == call[c].pc # "idle" /\ Handle(c)

Next ==
    \/ \E c \in Calls : Handle(c) \/ Fail(c)
    \/ \E p \in Pools : Credit(p)
    \/ Hold \/ Unhold \/ SetStatus

Spec == Init /\ [][Next]_vars

\* A handler is a tokio task: it is scheduled as long as it can run.
FairSpec == Spec /\ \A c \in Calls : WF_vars(Proceed(c))

-----------------------------------------------------------------------------

Call == [pc : {"idle"} \cup Working \cup Answered \cup Gone, kind : Kinds,
         amount : Amounts \cup {0}, key : Keys \cup {NoKey},
         attempt : 0 .. MaxTries, take : Balances]

\* Types, and the promise TigerBeetle makes about a pool: what is reserved is
\* there, so no pool is ever overdrawn.
TypeOK ==
    /\ posted \in Balances
    /\ held \in {0, Reserve} /\ held <= posted["others"]
    /\ reserved \in BOOLEAN
    /\ external \in [Pools -> Int]
    /\ active \in BOOLEAN
    /\ call \in [Calls -> Call]
    /\ faults \in 0 .. MaxFaults

Debited(c) == call[c].pc \in {"moved", "done", "orphaned"}

\* The money a pool should hold according to the committed rows.
Taken(p) == [c \in Calls |-> call[c].take[p]]

Booked(p) ==
    Opening[p] + external[p] - SumOver(Taken(p), {c \in Calls : Committed(c)})

Orphans == {c \in Calls : call[c].pc = "orphaned"}

(***************************************************************************)
(* Conservation: once no handler is between the TigerBeetle call and the   *)
(* commit, each pool holds exactly deposits minus payments, as the         *)
(* committed rows tell it, but for the debits of lost transactions: no     *)
(* more of them than transactions lost, each what its request had decided  *)
(* to take.                                                                *)
(***************************************************************************)
Conservation ==
    /\ Cardinality(Orphans) <= faults
    /\ (\A c \in Calls : call[c].pc # "moved")
         => \A p \in Pools : posted[p] = Booked(p) - SumOver(Taken(p), Orphans)

(***************************************************************************)
(* Two requests with the same key never both take money, whatever order    *)
(* their lookups, inserts, transfers and commits come in, as long as the   *)
(* transaction of neither is lost.                                         *)
(***************************************************************************)
OneDebitPerKey ==
    \A c, d \in Calls :
        /\ c # d
        /\ call[c].pc \in {"moved", "done"} /\ call[d].pc \in {"moved", "done"}
        /\ call[c].key = call[d].key /\ call[c].key # NoKey
        => RowPools(c) = {} \/ RowPools(d) = {}

(***************************************************************************)
(* WHAT.md rule 6 under concurrency: in an account nobody credits and no   *)
(* reversal draws on, a payment that has drawn on the self pool has left   *)
(* the others pool empty, however stale the balance was that it was        *)
(* computed from.                                                          *)
(***************************************************************************)
OthersSpentFirst ==
    (\E c \in Calls : /\ Debited(c) /\ call[c].kind = "payment"
                      /\ call[c].take["self"] > 0)
    /\ external["others"] = 0 /\ ~reserved
        => posted["others"] = 0

(***************************************************************************)
(* The retry loop is not fooled by its own reads: without reservations, a  *)
(* payment is turned away by TigerBeetle at most once for every request    *)
(* that took money.  Three tries therefore fail only under three           *)
(* competing debits.                                                       *)
(***************************************************************************)
RetriesAreEarned ==
    ~reserved =>
      \A c \in Calls :
        call[c].attempt <= Cardinality({d \in Calls \ {c} : Debited(d)})

\* The requests that have taken money or still may.
MayTake ==
    {c \in Calls : call[c].pc \in {"admitted", "split", "done", "orphaned"} \cup InTransaction}

(***************************************************************************)
(* A freeze is not seen by the requests that have passed the status check, *)
(* which may still start over from a fresh balance; but no other request   *)
(* takes money until the account is active again.                          *)
(***************************************************************************)
FreezeAdmitsNone == [][~active => MayTake' \subseteq MayTake]_vars

(***************************************************************************)
(* Every request is answered, or its handler is gone: the retry loop ends, *)
(* and a handler waiting on the unique index is released.                  *)
(***************************************************************************)
EveryCallEnds ==
    \A c \in Calls : call[c].pc \in Working ~> call[c].pc \in Answered \cup Gone

-----------------------------------------------------------------------------
(* The account as its payers see it.                                       *)

\* What has become of a request's money.
Outcome(c) ==
    CASE call[c].pc = "moved" -> "taken"
      [] call[c].pc = "done" -> "booked"
      [] call[c].pc = "orphaned" -> "leaked"
      [] call[c].pc = "replayed" -> "replayed"
      [] call[c].pc = "idle" -> "idle"
      [] call[c].pc \in (Answered \ {"done", "replayed"}) \cup {"lost"} -> "unpaid"
      [] OTHER -> "open"

Share(c) == IF Debited(c) THEN call[c].take ELSE Nothing

Account == INSTANCE AtomicAccount
             WITH money <- posted,
                  amount <- [c \in Calls |-> call[c].amount],
                  key <- [c \in Calls |-> call[c].key],
                  outcome <- [c \in Calls |-> Outcome(c)],
                  share <- [c \in Calls |-> Share(c)]

(***************************************************************************)
(* Each request pays in one step: exactly what it asked for, over the two  *)
(* pools, out of money that is there and not reserved, and once for each   *)
(* key; although the code reads the balance, divides the amount, writes    *)
(* rows and moves the money in separate awaits, and starts over when       *)
(* TigerBeetle turns it away.                                              *)
(***************************************************************************)
RefinesAccount == Account!Spec

-----------------------------------------------------------------------------
(* Statements of the documents that the code does not keep.                *)

(***************************************************************************)
(* 2026-05-30 design, conservation invariants 2 and 3: a pool's posted     *)
(* balance equals its deposits minus its payments, whenever no handler is  *)
(* at work.                                                                *)
(***************************************************************************)
ConservationWhenIdle ==
    (\A c \in Calls : call[c].pc \notin Working)
        => \A p \in Pools : posted[p] = Booked(p)
=============================================================================
