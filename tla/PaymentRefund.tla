---------------------------- MODULE PaymentRefund ---------------------------
(***************************************************************************)
(* Refunds of one settled payment (refund_payment, post_refund and         *)
(* void_refund of service/pb_payment_service.rs, with the pending-timeout  *)
(* poller of service/pending_timeout.rs).                                  *)
(*                                                                         *)
(* A refund writes one row per pool it returns money to, and one           *)
(* TigerBeetle transfer per row.  It is settled at once, or pending until  *)
(* it is posted, voided or times out.  PostgreSQL and TigerBeetle are two  *)
(* stores: a handler changes TigerBeetle inside its open database          *)
(* transaction and commits afterwards, TigerBeetle expires a pending       *)
(* transfer by its own clock, and the poller voids the rows by the clock   *)
(* of PostgreSQL without asking TigerBeetle.                               *)
(***************************************************************************)
EXTENDS Integers, FiniteSets, Sums, TigerBeetle

CONSTANTS
    Refunds,        \* calls of refund_payment, named by their refund id
    Resolvers,      \* concurrent calls of post_refund and void_refund
    NoRefund,       \* what an idle resolver works on
    Keys, NoKey,    \* idempotency keys, and the absence of one
    Paid,           \* the original payment's row of each pool; 0: no such row
    Amounts,        \* amounts a refund may ask for
    MaxFaults       \* bound: database transactions lost

Pools == {"others", "self"}

ASSUME RefundAssumption ==
    /\ IsFiniteSet(Refunds) /\ NoRefund \notin Refunds
    /\ NoKey \notin Keys
    /\ Paid \in [Pools -> Nat] /\ Amounts \subseteq Nat
    /\ MaxFaults \in Nat

VARIABLES
    call,       \* the handler of each refund_payment call
    status,     \* committed status of the row of each refund and pool
    tb,         \* state of the TigerBeetle transfer of each refund and pool
    resolver,   \* the handler of each post_refund / void_refund call
    overdue,    \* refunds the poller has read as timed out and not yet voided
    active,     \* pb_accounts.status = 'active'
    faults      \* database transactions lost so far

vars == <<call, status, tb, resolver, overdue, active, faults>>

Nothing == [p \in Pools |-> 0]

IdleCall == [pc |-> "idle", pending |-> FALSE, amount |-> 0, key |-> NoKey,
             left |-> Nothing, take |-> Nothing]

IdleResolver == [refund |-> NoRefund, verdict |-> "posted", todo |-> {}]

\* Between SELECT ... FOR UPDATE and the end of the transaction a call holds
\* the locks on the rows of the original payment.
Locking == {"locked", "self_read", "checked", "inserted", "applied"}

\* Mutant: a refused call returns without ending its transaction.
HoldsLockLeaked(r) == call[r].pc \in Locking \cup {"refused"}

HoldsLock(r) == call[r].pc \in Locking

Committed(r) == call[r].pc = "done"

\* The pools a refund returns money to; each has a row and a transfer.
Legs(r) == {p \in Pools : call[r].take[p] > 0}

\* Mutant: only settled refunds use up the payment's row.
CountsSettled(r, p) == status[r][p] = "settled"

\* sum_refunds_of_in_tx: pending and settled refunds use up the payment's row.
Counts(r, p) == status[r][p] \in {"pending", "settled"}

Take(p) == [r \in Refunds |-> call[r].take[p]]

SumRefunds(p) == SumOver(Take(p), {r \in Refunds : Counts(r, p)})

\* amount.saturating_sub(sum_refunds_of_in_tx(..)), 0 when there is no row.
Remaining(p) == IF SumRefunds(p) >= Paid[p] THEN 0 ELSE Paid[p] - SumRefunds(p)

Step(r, from, to) ==
    /\ call[r].pc = from
    /\ call' = [call EXCEPT ![r].pc = to]

-----------------------------------------------------------------------------

Init ==
    /\ call = [r \in Refunds |-> IdleCall]
    /\ status = [r \in Refunds |-> [p \in Pools |-> "none"]]
    /\ tb = [r \in Refunds |-> [p \in Pools |-> "absent"]]
    /\ resolver = [h \in Resolvers |-> IdleResolver]
    /\ overdue = {}
    /\ active = TRUE
    /\ faults = 0

\* Step 1: the request arrives; a committed row with its key answers it.
Begin(r) ==
    /\ call[r].pc = "idle"
    /\ \E pending \in BOOLEAN, amount \in Amounts, key \in Keys \cup {NoKey} :
         LET replay == \E q \in Refunds : /\ Committed(q) /\ key # NoKey
                                          /\ call[q].key = key
         IN  call' = [call EXCEPT ![r] =
                        [IdleCall EXCEPT !.pc = IF replay THEN "replayed" ELSE "begun",
                                         !.pending = pending,
                                         !.amount = amount,
                                         !.key = key]]
    /\ UNCHANGED <<status, tb, resolver, overdue, active, faults>>

\* Mutant: the rows are read without FOR UPDATE.
ReadOriginal(r) ==
    /\ Step(r, "begun", "locked")
    /\ UNCHANGED <<status, tb, resolver, overdue, active, faults>>

\* Step 2: SELECT ... FOR UPDATE on the original rows waits for the lock.
\* The rows are those of a settled payment of the account.
LockOriginal(r) ==
    /\ \A q \in Refunds : ~HoldsLock(q)
    /\ Step(r, "begun", "locked")
    /\ UNCHANGED <<status, tb, resolver, overdue, active, faults>>

\* Step 3, the self pool's remaining amount.
ReadSelf(r) ==
    /\ call[r].pc = "locked"
    /\ LET left == [call[r].left EXCEPT !["self"] = Remaining("self")]
       IN  call' = [call EXCEPT ![r] = [@ EXCEPT !.pc = "self_read", !.left = left]]
    /\ UNCHANGED <<status, tb, resolver, overdue, active, faults>>

\* Mutant: the self pool's share is not capped by the amount.
ReadOthersUncapped(r) ==
    LET amount == call[r].amount
        left == [call[r].left EXCEPT !["others"] = Remaining("others")]
        valid == amount > 0 /\ amount <= left["self"] + left["others"]
        take == [left EXCEPT !["others"] = amount - left["self"]]
    IN  /\ call[r].pc = "self_read"
        /\ call' = [call EXCEPT ![r] =
                      [@ EXCEPT !.pc = IF valid THEN "checked" ELSE "refused",
                                !.left = left,
                                !.take = IF valid THEN take ELSE Nothing]]
        /\ UNCHANGED <<status, tb, resolver, overdue, active, faults>>

\* Step 3, the others pool's remaining amount, and what follows from the two
\* without another await: step 4 checks the amount, step 6 takes it from the
\* self pool first.
ReadOthers(r) ==
    LET amount == call[r].amount
        left == [call[r].left EXCEPT !["others"] = Remaining("others")]
        valid == amount > 0 /\ amount <= left["self"] + left["others"]
        fromSelf == IF amount <= left["self"] THEN amount ELSE left["self"]
        take == [p \in Pools |-> IF p = "self" THEN fromSelf ELSE amount - fromSelf]
    IN  /\ call[r].pc = "self_read"
        /\ call' = [call EXCEPT ![r] =
                      [@ EXCEPT !.pc = IF valid THEN "checked" ELSE "refused",
                                !.left = left,
                                !.take = IF valid THEN take ELSE Nothing]]
        /\ UNCHANGED <<status, tb, resolver, overdue, active, faults>>

\* Mutant: the refund rows carry no key.
InsertRowsUnindexed(r) ==
    /\ Step(r, "checked", IF active THEN "inserted" ELSE "refused")
    /\ UNCHANGED <<status, tb, resolver, overdue, active, faults>>

\* Mutant: the account's status is not looked at.
InsertRowsFrozen(r) ==
    LET duplicate == \E q \in Refunds : /\ Committed(q) /\ call[r].key # NoKey
                                        /\ call[q].key = call[r].key
    IN  /\ Step(r, "checked", IF ~duplicate THEN "inserted" ELSE "refused")
        /\ UNCHANGED <<status, tb, resolver, overdue, active, faults>>

\* Steps 5 and 7: the account must be active, and the INSERTs must not meet a
\* committed row with the same key.
InsertRows(r) ==
    LET duplicate == \E q \in Refunds : /\ Committed(q) /\ call[r].key # NoKey
                                        /\ call[q].key = call[r].key
    IN  /\ Step(r, "checked", IF active /\ ~duplicate THEN "inserted" ELSE "refused")
        /\ UNCHANGED <<status, tb, resolver, overdue, active, faults>>

\* Step 8: one transfer per leg, linked when there are two.
ApplyTransfers(r) ==
    /\ Step(r, "inserted", "applied")
    /\ tb' = [tb EXCEPT ![r] = [p \in Pools |->
                IF p \notin Legs(r) THEN "absent"
                ELSE IF call[r].pending THEN "pending" ELSE "posted"]]
    /\ UNCHANGED <<status, resolver, overdue, active, faults>>

\* Step 8: TigerBeetle answers with an error and nothing has moved.
TransfersFail(r) ==
    /\ Step(r, "inserted", "refused")
    /\ UNCHANGED <<status, tb, resolver, overdue, active, faults>>

\* tx.commit(): the rows become visible and the lock is released.
Commit(r) ==
    /\ Step(r, "applied", "done")
    /\ status' = [status EXCEPT ![r] = [p \in Pools |->
                    IF p \notin Legs(r) THEN "none"
                    ELSE IF call[r].pending THEN "pending" ELSE "settled"]]
    /\ UNCHANGED <<tb, resolver, overdue, active, faults>>

\* The handler or its database connection dies: the rows are rolled back and
\* the lock released, whatever TigerBeetle has done.
LoseCall(r) ==
    /\ call[r].pc \in Locking \cup {"begun"}
    /\ faults < MaxFaults
    /\ faults' = faults + 1
    /\ call' = [call EXCEPT ![r].pc = IF @ = "applied" THEN "orphaned" ELSE "lost"]
    /\ UNCHANGED <<status, tb, resolver, overdue, active>>

-----------------------------------------------------------------------------
(* post_refund and void_refund, which share resolve_refund.                *)

Resolving(r) == \E h \in Resolvers : resolver[h].refund = r

\* Mutant: the refund's rows are read without FOR UPDATE.
ReadRefund(h) ==
    /\ resolver[h].refund = NoRefund
    /\ \E r \in Refunds, verdict \in Verdicts :
         /\ Committed(r)
         /\ \A p \in Legs(r) : status[r][p] = "pending"
         /\ resolver' = [resolver EXCEPT ![h] =
                           [refund |-> r, verdict |-> verdict, todo |-> Legs(r)]]
    /\ UNCHANGED <<call, status, tb, overdue, active, faults>>

\* BEGIN and SELECT ... FOR UPDATE on the refund's rows.  Rows that already
\* have the wanted status are a success without effect, rows that are not all
\* pending an error without effect: neither changes the state.
LockRefund(h) ==
    /\ resolver[h].refund = NoRefund
    /\ \E r \in Refunds, verdict \in Verdicts :
         /\ Committed(r) /\ ~Resolving(r)
         /\ \A p \in Legs(r) : status[r][p] = "pending"
         /\ resolver' = [resolver EXCEPT ![h] =
                           [refund |-> r, verdict |-> verdict, todo |-> Legs(r)]]
    /\ UNCHANGED <<call, status, tb, overdue, active, faults>>

\* One leg is posted or voided in TigerBeetle.  "Already resolved" is
\* tolerated; any other error rolls back and ends the call.  The rows share
\* one created_at, so their order is open.
ResolveLeg(h) ==
    LET r == resolver[h].refund
        verdict == resolver[h].verdict
    IN  \E p \in resolver[h].todo :
          /\ tb' = [tb EXCEPT ![r][p] = Resolved(@, verdict)]
          /\ resolver' = [resolver EXCEPT ![h] =
                            IF Answer(tb[r][p]) = "error" THEN IdleResolver
                            ELSE [@ EXCEPT !.todo = resolver[h].todo \ {p}]]
          /\ UNCHANGED <<call, status, overdue, active, faults>>

\* RefundResolution::target_sql
Target(verdict) == IF verdict = "posted" THEN "settled" ELSE "voided"

\* Mutant: the UPDATE does not look at the status.
UpdateAll(r, new) ==
    status' = [status EXCEPT ![r] = [p \in Pools |->
                 IF p \in Legs(r) THEN new ELSE status[r][p]]]

\* Mutant: the UPDATE is of one row, the one whose id is the refund's.
UpdatePrimary(r, new) ==
    LET primary == IF "self" \in Legs(r) THEN "self" ELSE "others"
    IN  status' = [status EXCEPT ![r][primary] = IF @ = "pending" THEN new ELSE @]

\* UPDATE transactions SET status = .. WHERE correlation_id = r AND
\* status = 'pending'
UpdatePending(r, new) ==
    status' = [status EXCEPT ![r] = [p \in Pools |->
                 IF status[r][p] = "pending" THEN new ELSE status[r][p]]]

CommitVerdict(h) ==
    /\ resolver[h].refund # NoRefund /\ resolver[h].todo = {}
    /\ UpdatePending(resolver[h].refund, Target(resolver[h].verdict))
    /\ resolver' = [resolver EXCEPT ![h] = IdleResolver]
    /\ UNCHANGED <<call, tb, overdue, active, faults>>

LoseResolver(h) ==
    /\ resolver[h].refund # NoRefund
    /\ faults < MaxFaults
    /\ faults' = faults + 1
    /\ resolver' = [resolver EXCEPT ![h] = IdleResolver]
    /\ UNCHANGED <<call, status, tb, overdue, active>>

-----------------------------------------------------------------------------
(* Time, and the operators.                                                *)

\* Mutant: only rows of the self pool are looked at.
PollerFindsSelf ==
    /\ overdue = {}
    /\ \E found \in SUBSET {r \in Refunds : status[r]["self"] = "pending"} :
         found # {} /\ overdue' = found
    /\ UNCHANGED <<call, status, tb, resolver, active, faults>>

\* find_timed_out_pending: by PostgreSQL's clock some pending rows are overdue.
PollerFinds ==
    /\ overdue = {}
    /\ \E found \in SUBSET {r \in Refunds : \E p \in Pools : status[r][p] = "pending"} :
         found # {} /\ overdue' = found
    /\ UNCHANGED <<call, status, tb, resolver, active, faults>>

\* Mutant: the poller does not wait for the lock of a resolver.
PollerVoidsAtOnce(r) ==
    /\ r \in overdue
    /\ UpdatePending(r, "voided")
    /\ overdue' = overdue \ {r}
    /\ UNCHANGED <<call, tb, resolver, active, faults>>

\* Later the poller voids what it found, whatever has become of it.  Its UPDATE
\* waits while a resolver holds the rows' locks and then looks at the status
\* they have.
PollerVoids(r) ==
    /\ r \in overdue /\ ~Resolving(r)
    /\ UpdatePending(r, "voided")
    /\ overdue' = overdue \ {r}
    /\ UNCHANGED <<call, tb, resolver, active, faults>>

\* The poller's UPDATE fails, which it only logs, or the process is restarted.
PollerFails(r) ==
    /\ r \in overdue
    /\ faults < MaxFaults
    /\ faults' = faults + 1
    /\ overdue' = overdue \ {r}
    /\ UNCHANGED <<call, status, tb, resolver, active>>

\* TigerBeetle's timeout of one pending transfer.  Linked transfers expire
\* each by its own timestamp.
Expire(r, p) ==
    /\ tb[r][p] = "pending"
    /\ tb' = [tb EXCEPT ![r][p] = "expired"]
    /\ UNCHANGED <<call, status, resolver, overdue, active, faults>>

SetStatus ==
    /\ active' = ~active
    /\ UNCHANGED <<call, status, tb, resolver, overdue, faults>>

Handle(r) == \/ Begin(r) \/ LockOriginal(r) \/ ReadSelf(r) \/ ReadOthers(r)
             \/ InsertRows(r) \/ ApplyTransfers(r) \/ TransfersFail(r) \/ Commit(r)

Resolve(h) == LockRefund(h) \/ ResolveLeg(h) \/ CommitVerdict(h)

Next ==
    \/ \E r \in Refunds : Handle(r) \/ LoseCall(r) \/ PollerVoids(r) \/ PollerFails(r)
    \/ \E h \in Resolvers : Resolve(h) \/ LoseResolver(h)
    \/ \E r \in Refunds, p \in Pools : Expire(r, p)
    \/ PollerFinds \/ SetStatus

Spec == Init /\ [][Next]_vars

\* Handlers are tokio tasks and run on once started; nobody has to call them.
\* The poller's loop never ends and a pending row stays overdue, so each round
\* reads it; its UPDATE queues for the row lock, which PostgreSQL grants in
\* turn, so it gets through although resolvers may come again and again.
Fairness ==
    /\ \A r \in Refunds : WF_vars(call[r].pc # "idle" /\ Handle(r))
    /\ \A h \in Resolvers : WF_vars(ResolveLeg(h) \/ CommitVerdict(h))
    /\ \A r \in Refunds : SF_vars(PollerFinds /\ r \in overdue')
    /\ \A r \in Refunds : SF_vars(PollerVoids(r))

FairSpec == Spec /\ Fairness

-----------------------------------------------------------------------------

Answered == {"replayed", "refused", "done"}
Gone == {"lost", "orphaned"}

Division == [Pools -> Nat]

Call == [pc : {"idle", "begun"} \cup Locking \cup Answered \cup Gone,
         pending : BOOLEAN, amount : Amounts \cup {0}, key : Keys \cup {NoKey},
         left : Division, take : Division]

Resolver == [refund : Refunds \cup {NoRefund}, verdict : Verdicts,
             todo : SUBSET Pools]

Statuses == {"none", "pending", "settled", "voided"}

\* Types.
TypeOK ==
    /\ call \in [Refunds -> Call]
    /\ status \in [Refunds -> [Pools -> Statuses]]
    /\ tb \in [Refunds -> [Pools -> TransferStates]]
    /\ resolver \in [Resolvers -> Resolver]
    /\ overdue \subseteq Refunds
    /\ active \in BOOLEAN
    /\ faults \in 0 .. MaxFaults

(***************************************************************************)
(* The refunds of a payment that are pending or settled never add up to    *)
(* more than the payment took from the pool, however concurrent refunds,   *)
(* verdicts, timeouts and lost transactions interleave.                    *)
(***************************************************************************)
RefundsWithinPayment == \A p \in Pools : SumRefunds(p) <= Paid[p]

(***************************************************************************)
(* What a call decided to give back under the lock still fits when it      *)
(* writes it, although the poller and resolvers change rows in between     *)
(* without taking that lock.                                               *)
(***************************************************************************)
TakeFits ==
    \A r \in Refunds, p \in Pools :
        call[r].pc \in {"checked", "inserted", "applied"}
            => SumRefunds(p) + call[r].take[p] <= Paid[p]

(***************************************************************************)
(* Why the budget is kept: the row locks admit one call at a time, a call  *)
(* has no visible rows before it commits, and what a lock holder has read  *)
(* or decided stays within the budget.  This invariant is inductive.       *)
(***************************************************************************)
LockExclusion ==
    \A r, q \in Refunds : HoldsLock(r) /\ HoldsLock(q) => r = q

RowsAreCommitted ==
    \A r \in Refunds, p \in Pools : ~Committed(r) => status[r][p] = "none"

SelfReadFits ==
    \A r \in Refunds :
        call[r].pc = "self_read"
            => SumRefunds("self") + call[r].left["self"] <= Paid["self"]

BudgetInvariant ==
    TypeOK /\ LockExclusion /\ RowsAreCommitted /\ SelfReadFits /\ TakeFits
           /\ RefundsWithinPayment

(***************************************************************************)
(* The legs of a refund always have one status: a refund is never half     *)
(* settled.                                                                *)
(***************************************************************************)
LegsTogether ==
    \A r \in Refunds : \A p, q \in Legs(r) : status[r][p] = status[r][q]

(***************************************************************************)
(* Settled and voided are final, for a late poller and a late verdict too. *)
(***************************************************************************)
StatusFinal ==
    [][\A r \in Refunds, p \in Pools :
         status[r][p] \in {"settled", "voided"} => status'[r][p] = status[r][p]]_vars

(***************************************************************************)
(* Two refunds with the same idempotency key are never both committed,     *)
(* whatever order their lookups and commits come in.                       *)
(***************************************************************************)
OneRefundPerKey ==
    \A r, q \in Refunds :
        /\ r # q /\ Committed(r) /\ Committed(q)
        => call[r].key # call[q].key \/ call[r].key = NoKey

\* The refunds that have been carried out or still may be.
MayRefund == {r \in Refunds : call[r].pc \in {"inserted", "applied", "done", "orphaned"}}

(***************************************************************************)
(* The account is looked at late, with the payment's rows locked: a refund *)
(* that has not passed this check when the account is frozen returns no    *)
(* money until it is active again, wherever else it stands.                *)
(***************************************************************************)
FreezeRefundsNone == [][~active => MayRefund' \subseteq MayRefund]_vars

PostedBack(p) == SumOver(Take(p), {r \in Refunds : tb[r][p] = "posted"})

\* Between ApplyTransfers and Commit, or with a verdict, a handler is about to
\* bring the rows up to what TigerBeetle has done.
Underway(r) == call[r].pc = "applied" \/ Resolving(r)

\* The rows and TigerBeetle tell different stories, and nobody is at work on it.
Misreported(r) ==
    \E p \in Pools :
        \/ status[r][p] = "settled" /\ tb[r][p] # "posted"
        \/ status[r][p] # "settled" /\ tb[r][p] = "posted" /\ ~Underway(r)

(***************************************************************************)
(* The rows follow the money.  Each lost database transaction explains at  *)
(* most one refund whose rows disagree with TigerBeetle: a call that died  *)
(* before its commit, a verdict rolled back and then reversed.  Without a  *)
(* loss settled rows and moved money are the same refunds.  It holds for a *)
(* payment from one pool.                                                  *)
(***************************************************************************)
LossesExplain == Cardinality({r \in Refunds : Misreported(r)}) <= faults

(***************************************************************************)
(* A voided refund has not moved money: the budget it gives back was not   *)
(* spent.  It holds for a payment from one pool when no transaction was    *)
(* lost.                                                                   *)
(***************************************************************************)
VoidedNotPosted ==
    \A r \in Refunds, p \in Pools : status[r][p] = "voided" => tb[r][p] # "posted"

(***************************************************************************)
(* The money TigerBeetle has moved back never exceeds the payment by more  *)
(* than the payment once more for each lost transaction: the rows bound    *)
(* the refunds, and here the ledger follows the rows.  It holds for a      *)
(* payment from one pool.                                                  *)
(***************************************************************************)
MoneyWithinLosses == \A p \in Pools : PostedBack(p) <= Paid[p] * (1 + faults)

(***************************************************************************)
(* A refund request is answered or its handler gone, whoever it has to     *)
(* wait for.                                                               *)
(***************************************************************************)
EveryRefundEnds ==
    \A r \in Refunds : call[r].pc # "idle" ~> call[r].pc \in Answered \cup Gone

(***************************************************************************)
(* No refund stays pending for ever: its budget is used or given back,     *)
(* even when every verdict on it fails.                                    *)
(***************************************************************************)
PendingEnds ==
    \A r \in Refunds :
        (\E p \in Pools : status[r][p] = "pending")
            ~> (\A p \in Pools : status[r][p] # "pending")

-----------------------------------------------------------------------------
(* The refunds as one budget: what a reader of the rows sees of them.      *)

\* What the rows of a refund say it is; its legs agree.
Seen(r) ==
    IF \E p \in Pools : status[r][p] = "pending" THEN "held"
    ELSE IF \E p \in Pools : status[r][p] = "settled" THEN "settled"
    ELSE IF \E p \in Pools : status[r][p] = "voided" THEN "released"
    ELSE "none"

Shown(r) == IF Committed(r) THEN call[r].take ELSE Nothing

Budget == INSTANCE RefundBudget
            WITH state <- [r \in Refunds |-> Seen(r)],
                 share <- [r \in Refunds |-> Shown(r)]

(***************************************************************************)
(* To a reader of the rows a refund happens in one step: whole, within     *)
(* what is left, and afterwards settled or given back as a whole, although *)
(* the code reads the two pools in two awaits, has two transfers resolved  *)
(* one by one and lets the poller in between.                              *)
(***************************************************************************)
RefinesBudget == Budget!Spec
=============================================================================
