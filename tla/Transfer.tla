------------------------------ MODULE Transfer ------------------------------
(***************************************************************************)
(* Transfers from one normal account to the others pool of one purpose-    *)
(* bound account, and their reversals (service/transfer_service.rs), with  *)
(* the requests that post or void a pending one and the timeout poller.    *)
(*                                                                         *)
(* A move has two rows, one per account, and one TigerBeetle transfer.     *)
(* post_transfer and void_transfer read the row without a lock, ask        *)
(* TigerBeetle, and then overwrite the status of both rows whatever it is  *)
(* by then.  The endpoints that post or void a deposit accept the row of   *)
(* either account as well and overwrite that row alone.                    *)
(***************************************************************************)
EXTENDS Integers, FiniteSets, Sums, TigerBeetle

CONSTANTS
    Transfers,      \* calls of transfer
    Reversals,      \* calls of reverse_transfer
    Endings,        \* concurrent calls that post or void
    NoMove,         \* neither a transfer nor a reversal
    Scopes,         \* which endings are called: "both", "normal", "pb"
    Keys, NoKey,    \* idempotency keys of the normal account, and none
    Amounts,        \* amounts a call may ask for
    Opening,        \* posted balance of each account at the start
    MaxTries,       \* MAX_RETRIES
    MaxSpent,       \* bound: payments from the others pool
    MaxFaults       \* bound: database transactions and statements lost

Moves == Transfers \cup Reversals
Accounts == {"normal", "pb"}

ASSUME TransferAssumption ==
    /\ IsFiniteSet(Moves) /\ Transfers \cap Reversals = {} /\ NoMove \notin Moves
    /\ Scopes \subseteq {"both", "normal", "pb"}
    /\ NoKey \notin Keys /\ Amounts \subseteq Nat
    /\ Opening \in [Accounts -> Nat]
    /\ MaxTries \in Nat \ {0} /\ MaxSpent \in Nat /\ MaxFaults \in Nat

VARIABLES
    call,       \* the handler of each transfer and each reversal
    status,     \* committed status of the row of each move and account
    tb,         \* state of the TigerBeetle transfer of each move
    ending,     \* the handler of each call that posts or voids
    overdue,    \* moves the poller has read as timed out and not yet voided
    active,     \* both accounts are active
    spent,      \* payments from the others pool so far
    faults      \* database transactions and statements lost so far

vars == <<call, status, tb, ending, overdue, active, spent, faults>>

IdleCall == [pc |-> "idle", original |-> NoMove, pending |-> FALSE,
             amount |-> 0, key |-> NoKey, attempt |-> 0]

IdleEnding == [pc |-> "idle", move |-> NoMove, verdict |-> "posted", scope |-> "both"]

\* The handler's database transaction holds uncommitted rows.
Open(m) == call[m].pc \in {"inserted", "moved"}

Committed(m) == call[m].pc = "done"

\* A transfer debits the normal account, a reversal the others pool.
From(m) == IF m \in Transfers THEN "normal" ELSE "pb"

Sum(S) == SumOver([m \in Moves |-> call[m].amount], S)

\* credits_posted - debits_posted, which is what get_single_balance reports.
Posted(a) ==
    LET done == {m \in Moves : tb[m] = "posted"}
    IN  Opening[a] + Sum({m \in done : From(m) # a}) - Sum({m \in done : From(m) = a})
                   - (IF a = "pb" THEN spent ELSE 0)

Reserved(a) == Sum({m \in Moves : tb[m] = "pending" /\ From(m) = a})

\* Mutant: the account is created without the flag, only the posted money counts.
CanDebitPosted(a, amount) == amount <= Posted(a)

\* DEBITS_MUST_NOT_EXCEED_CREDITS counts what is reserved as debited.
CanDebit(a, amount) == amount <= Posted(a) - Reserved(a)

\* The two unique indexes: a key of the normal account, and a reversal that is
\* not voided of an original.  Both sit on the normal account's row.
SameKey(m, q) == call[m].key = call[q].key /\ call[m].key # NoKey
SameOriginal(m, q) == call[m].original = call[q].original /\ call[m].original # NoMove

Step(m, from, to) ==
    /\ call[m].pc = from
    /\ call' = [call EXCEPT ![m].pc = to]

-----------------------------------------------------------------------------

Init ==
    /\ call = [m \in Moves |-> IdleCall]
    /\ status = [m \in Moves |-> [a \in Accounts |-> "none"]]
    /\ tb = [m \in Moves |-> "absent"]
    /\ ending = [e \in Endings |-> IdleEnding]
    /\ overdue = {}
    /\ active = TRUE
    /\ spent = 0
    /\ faults = 0

\* The request arrives; a committed row with its key answers it.
Begin(m) ==
    /\ call[m].pc = "idle"
    /\ \E pending \in BOOLEAN, amount \in Amounts, key \in Keys \cup {NoKey},
          original \in IF m \in Reversals THEN Transfers ELSE {NoMove} :
         LET replay == \E q \in Moves : Committed(q) /\ call[q].key = key /\ key # NoKey
         IN  call' = [call EXCEPT ![m] =
                        [pc |-> IF replay THEN "replayed" ELSE "begun",
                         original |-> original, pending |-> pending,
                         amount |-> amount, key |-> key, attempt |-> 0]]
    /\ UNCHANGED <<status, tb, ending, overdue, active, spent, faults>>

\* Step 2 of a reversal: the original must be posted.  A row of another kind
\* is refused without effect too.
LoadOriginal(r) ==
    /\ r \in Reversals
    /\ Step(r, "begun", IF status[call[r].original]["normal"] = "posted"
                        THEN "loaded" ELSE "refused")
    /\ UNCHANGED <<status, tb, ending, overdue, active, spent, faults>>

\* Steps 3 and 4: no reversal that is pending or posted, and a valid amount.
CheckReversal(r) ==
    LET reversed == \E q \in Reversals : /\ SameOriginal(r, q)
                                         /\ status[q]["normal"] \in {"pending", "posted"}
        valid == call[r].amount \in 1 .. call[call[r].original].amount
    IN  /\ r \in Reversals
        /\ Step(r, "loaded", IF valid /\ ~reversed THEN "checked" ELSE "refused")
        /\ UNCHANGED <<status, tb, ending, overdue, active, spent, faults>>

\* Both accounts must be active.  A reversal does not look at the balance.
Admit(m) ==
    /\ \/ m \in Transfers /\ Step(m, "begun", IF active THEN "admitted" ELSE "refused")
       \/ m \in Reversals /\ Step(m, "checked", IF active THEN "ready" ELSE "refused")
    /\ UNCHANGED <<status, tb, ending, overdue, active, spent, faults>>

\* get_single_balance: what pending transfers reserve is not subtracted.
ReadBalance(t) ==
    /\ Step(t, "admitted", IF call[t].amount <= Posted("normal")
                           THEN "ready" ELSE "refused")
    /\ UNCHANGED <<status, tb, ending, overdue, active, spent, faults>>

\* Mutant: the tables have no unique index.
InsertRowsUnindexed(m) ==
    /\ Step(m, "ready", "inserted")
    /\ UNCHANGED <<status, tb, ending, overdue, active, spent, faults>>

\* BEGIN and the two INSERTs, which wait for an open transaction that holds a
\* conflicting row and fail on a committed one.
InsertRows(m) ==
    LET conflict(q) == \/ SameKey(m, q)
                       \/ SameOriginal(m, q) /\ status[q]["normal"] # "voided"
    IN  /\ ~\E q \in Moves \ {m} : Open(q) /\ conflict(q)
        /\ Step(m, "ready", IF \E q \in Moves : Committed(q) /\ conflict(q)
                            THEN "refused" ELSE "inserted")
        /\ UNCHANGED <<status, tb, ending, overdue, active, spent, faults>>

\* The TigerBeetle transfer, pending or immediate.
MoveMoney(m) ==
    /\ CanDebit(From(m), call[m].amount)
    /\ Step(m, "inserted", "moved")
    /\ tb' = [tb EXCEPT ![m] = IF call[m].pending THEN "pending" ELSE "posted"]
    /\ UNCHANGED <<status, ending, overdue, active, spent, faults>>

\* Mutant: the retry loop has no bound.
RejectedForever(m) ==
    /\ ~CanDebit(From(m), call[m].amount)
    /\ Step(m, "inserted", IF m \in Transfers THEN "admitted" ELSE "refused")
    /\ UNCHANGED <<status, tb, ending, overdue, active, spent, faults>>

\* TigerBeetle answers ExceedsBalance: the rows are rolled back.  A transfer
\* tries again from a fresh balance, a reversal answers at once.
Rejected(m) ==
    /\ call[m].pc = "inserted"
    /\ ~CanDebit(From(m), call[m].amount)
    /\ LET tries == call[m].attempt + 1
           again == m \in Transfers /\ tries < MaxTries
       IN  call' = [call EXCEPT ![m].attempt = tries,
                                ![m].pc = IF again THEN "admitted" ELSE "refused"]
    /\ UNCHANGED <<status, tb, ending, overdue, active, spent, faults>>

\* tx.commit(): both rows become visible.
Commit(m) ==
    /\ Step(m, "moved", "done")
    /\ status' = [status EXCEPT ![m] = [a \in Accounts |->
                    IF call[m].pending THEN "pending" ELSE "posted"]]
    /\ UNCHANGED <<tb, ending, overdue, active, spent, faults>>

Working == {"begun", "loaded", "checked", "admitted", "ready", "inserted", "moved"}

\* The handler or its connection dies, or TigerBeetle answers with another
\* error: the rows are rolled back, TigerBeetle keeps what it has done.
Fail(m) ==
    /\ call[m].pc \in Working
    /\ faults < MaxFaults
    /\ faults' = faults + 1
    /\ call' = [call EXCEPT ![m].pc = IF call[m].pc = "moved" THEN "orphaned" ELSE "lost"]
    /\ UNCHANGED <<status, tb, ending, overdue, active, spent>>

-----------------------------------------------------------------------------
(* post_transfer and void_transfer, scope "both"; post_deposit and           *)
(* void_deposit of either account, called with the id of that account's row. *)

\* The row an ending reads before it decides.
RowRead(scope) == IF scope = "pb" THEN "pb" ELSE "normal"

\* Mutant: UPDATE .. WHERE id = the row's id, in every ending.
RowsWrittenById(scope) == {RowRead(scope)}

\* UPDATE .. WHERE correlation_id, or WHERE id for a deposit.
RowsWritten(scope) == IF scope = "both" THEN Accounts ELSE {scope}

\* get_by_id and the checks.  A row that already has the wanted status is a
\* success without effect for a transfer; every other row that is not pending
\* is an error without effect.
ReadRow(e) ==
    /\ ending[e].pc = "idle"
    /\ \E m \in Moves, verdict \in Verdicts, scope \in Scopes :
         /\ Committed(m) /\ status[m][RowRead(scope)] = "pending"
         /\ ending' = [ending EXCEPT ![e] = [pc |-> "read", move |-> m,
                                             verdict |-> verdict, scope |-> scope]]
    /\ UNCHANGED <<call, status, tb, overdue, active, spent, faults>>

\* Mutant: an already resolved transfer is taken for success.
ApplyVerdictTolerant(e) ==
    LET m == ending[e].move
    IN  /\ ending[e].pc = "read"
        /\ tb' = [tb EXCEPT ![m] = Resolved(@, ending[e].verdict)]
        /\ ending' = [ending EXCEPT ![e] = IF Answer(tb[m]) # "error"
                                           THEN [@ EXCEPT !.pc = "applied"]
                                           ELSE IdleEnding]
        /\ UNCHANGED <<call, status, overdue, active, spent, faults>>

\* post_pending_transfer or void_pending_transfer; any error ends the call,
\* "already resolved" included.
ApplyVerdict(e) ==
    LET m == ending[e].move
    IN  /\ ending[e].pc = "read"
        /\ tb' = [tb EXCEPT ![m] = Resolved(@, ending[e].verdict)]
        /\ ending' = [ending EXCEPT ![e] = IF Answer(tb[m]) = "ok"
                                           THEN [@ EXCEPT !.pc = "applied"]
                                           ELSE IdleEnding]
        /\ UNCHANGED <<call, status, overdue, active, spent, faults>>

\* Mutant: the UPDATE has the poller's condition AND status = 'pending'.
UpdatePendingRows(e) ==
    LET m == ending[e].move
    IN  /\ ending[e].pc = "applied"
        /\ status' = [status EXCEPT ![m] = [a \in Accounts |->
                        IF status[m][a] = "pending" THEN ending[e].verdict ELSE status[m][a]]]
        /\ ending' = [ending EXCEPT ![e] = IdleEnding]
        /\ UNCHANGED <<call, tb, overdue, active, spent, faults>>

\* The UPDATE does not look at the status.  It can bring back a reversal the
\* poller has voided, unless the unique index holds another one by then.
UpdateRows(e) ==
    LET m == ending[e].move
        rows == RowsWritten(ending[e].scope)
        revives == /\ "normal" \in rows /\ status[m]["normal"] = "voided"
                   /\ ending[e].verdict = "posted"
        rival(q) == SameOriginal(m, q) /\ q # m
    IN  /\ ending[e].pc = "applied"
        /\ ~(revives /\ \E q \in Moves : Open(q) /\ rival(q))
        /\ IF revives /\ \E q \in Moves : /\ Committed(q) /\ rival(q)
                                          /\ status[q]["normal"] # "voided"
           THEN UNCHANGED status
           ELSE status' = [status EXCEPT ![m] = [a \in Accounts |->
                             IF a \in rows THEN ending[e].verdict ELSE status[m][a]]]
        /\ ending' = [ending EXCEPT ![e] = IdleEnding]
        /\ UNCHANGED <<call, tb, overdue, active, spent, faults>>

LoseEnding(e) ==
    /\ ending[e].pc # "idle"
    /\ faults < MaxFaults
    /\ faults' = faults + 1
    /\ ending' = [ending EXCEPT ![e] = IdleEnding]
    /\ UNCHANGED <<call, status, tb, overdue, active, spent>>

-----------------------------------------------------------------------------
(* Time, payments and the operators.                                       *)

\* find_timed_out_pending: by PostgreSQL's clock some pending rows are overdue.
PollerFinds ==
    /\ overdue = {}
    /\ \E found \in SUBSET {m \in Moves : \E a \in Accounts : status[m][a] = "pending"} :
         found # {} /\ overdue' = found
    /\ UNCHANGED <<call, status, tb, ending, active, spent, faults>>

\* Mutant: the poller voids one row by its id.
PollerVoidsRow(m) ==
    /\ m \in overdue
    /\ overdue' = overdue \ {m}
    /\ status' = [status EXCEPT ![m]["pb"] = IF @ = "pending" THEN "voided" ELSE @]
    /\ UNCHANGED <<call, tb, ending, active, spent, faults>>

\* UPDATE .. WHERE correlation_id = m AND status = 'pending'
PollerVoids(m) ==
    /\ m \in overdue
    /\ overdue' = overdue \ {m}
    /\ status' = [status EXCEPT ![m] = [a \in Accounts |->
                    IF status[m][a] = "pending" THEN "voided" ELSE status[m][a]]]
    /\ UNCHANGED <<call, tb, ending, active, spent, faults>>

\* The poller's UPDATE fails, which it only logs, or the process is restarted.
PollerFails(m) ==
    /\ m \in overdue
    /\ faults < MaxFaults
    /\ faults' = faults + 1
    /\ overdue' = overdue \ {m}
    /\ UNCHANGED <<call, status, tb, ending, active, spent>>

\* TigerBeetle's timeout of a pending transfer.
Expire(m) ==
    /\ tb[m] = "pending"
    /\ tb' = [tb EXCEPT ![m] = "expired"]
    /\ UNCHANGED <<call, status, ending, overdue, active, spent, faults>>

\* A payment from the others pool.
Spend ==
    /\ spent < MaxSpent
    /\ CanDebit("pb", 1)
    /\ spent' = spent + 1
    /\ UNCHANGED <<call, status, tb, ending, overdue, active, faults>>

SetStatus ==
    /\ active' = ~active
    /\ UNCHANGED <<call, status, tb, ending, overdue, spent, faults>>

Handle(m) == \/ Begin(m) \/ LoadOriginal(m) \/ CheckReversal(m) \/ Admit(m)
             \/ ReadBalance(m) \/ InsertRows(m) \/ MoveMoney(m) \/ Rejected(m)
             \/ Commit(m)

End(e) == ReadRow(e) \/ ApplyVerdict(e) \/ UpdateRows(e)

Next ==
    \/ \E m \in Moves : Handle(m) \/ Fail(m)
    \/ \E e \in Endings : End(e) \/ LoseEnding(e)
    \/ \E m \in Moves : PollerVoids(m) \/ PollerFails(m) \/ Expire(m)
    \/ PollerFinds \/ Spend \/ SetStatus

Spec == Init /\ [][Next]_vars

\* Handlers run on once started; nobody has to call them.  The poller's loop
\* never ends and reads what is still overdue in every round.
Fairness ==
    /\ \A m \in Moves : WF_vars(call[m].pc # "idle" /\ Handle(m))
    /\ \A e \in Endings : WF_vars(ApplyVerdict(e) \/ UpdateRows(e))
    /\ \A m \in Moves : SF_vars(PollerFinds /\ m \in overdue')
    /\ \A m \in Moves : WF_vars(PollerVoids(m))

FairSpec == Spec /\ Fairness

-----------------------------------------------------------------------------

Answered == {"replayed", "refused", "done"}
Gone == {"lost", "orphaned"}

Call == [pc : {"idle"} \cup Working \cup Answered \cup Gone,
         original : Transfers \cup {NoMove}, pending : BOOLEAN,
         amount : Amounts \cup {0}, key : Keys \cup {NoKey}, attempt : 0 .. MaxTries]

Ending == [pc : {"idle", "read", "applied"}, move : Moves \cup {NoMove},
           verdict : Verdicts, scope : {"both", "normal", "pb"}]

Statuses == {"none", "pending", "posted", "voided"}

Types ==
    /\ call \in [Moves -> Call]
    /\ status \in [Moves -> [Accounts -> Statuses]]
    /\ tb \in [Moves -> TransferStates]
    /\ ending \in [Endings -> Ending]
    /\ overdue \subseteq Moves
    /\ active \in BOOLEAN
    /\ spent \in 0 .. MaxSpent
    /\ faults \in 0 .. MaxFaults

\* Types, and the promise TigerBeetle makes about an account: what is
\* reserved is there.
TypeOK == Types /\ \A a \in Accounts : Reserved(a) <= Posted(a)

(***************************************************************************)
(* A row that says posted has moved its money: neither the unconditional   *)
(* UPDATE nor a lost transaction makes it say so before TigerBeetle does,  *)
(* and no later void or timeout undoes it.                                 *)
(***************************************************************************)
PostedHasMoved ==
    \A m \in Moves, a \in Accounts : status[m][a] = "posted" => tb[m] = "posted"

(***************************************************************************)
(* The two rows of a move always have one status, as long as nobody uses   *)
(* the deposit endpoints on them.                                          *)
(***************************************************************************)
LegsTogether == \A m \in Moves : status[m]["normal"] = status[m]["pb"]

(***************************************************************************)
(* A transfer has at most one reversal that is pending or posted, however  *)
(* the checks of concurrent reversals, their verdicts and the poller       *)
(* interleave.                                                             *)
(***************************************************************************)
OneLiveReversal ==
    \A r, q \in Reversals :
        /\ r # q /\ SameOriginal(r, q)
        /\ status[r]["normal"] \in {"pending", "posted"}
        => status[q]["normal"] \notin {"pending", "posted"}

(***************************************************************************)
(* Transfers and reversals share the keys of the normal account: two       *)
(* committed moves never have the same key.                                *)
(***************************************************************************)
OneMovePerKey ==
    \A m, q \in Moves : m # q /\ Committed(m) /\ Committed(q) => ~SameKey(m, q)

Settling(m) == \E e \in Endings : ending[e].pc = "applied" /\ ending[e].move = m

\* Its row is voided, and another reversal of the same transfer has been booked.
Superseded(m) ==
    /\ status[m]["normal"] = "voided"
    /\ \E q \in Moves \ {m} : Committed(q) /\ SameOriginal(m, q)

\* TigerBeetle has moved the money, no row says so and no handler is about to.
Unrecorded ==
    {m \in Moves : /\ tb[m] = "posted" /\ \A a \in Accounts : status[m][a] # "posted"
                   /\ call[m].pc # "moved" /\ ~Settling(m) /\ ~Superseded(m)}

(***************************************************************************)
(* The unconditional UPDATE repairs what the poller did too early: money   *)
(* that has moved is in a posted row, or about to be, but for one move for *)
(* each lost transaction or statement and for voided reversals beside      *)
(* which another one has been booked, which the unique index may keep from *)
(* coming back; whichever endpoint ends the move.                          *)
(***************************************************************************)
LossesExplain == Cardinality(Unrecorded) <= faults

(***************************************************************************)
(* Every transfer and every reversal is answered or its handler gone,      *)
(* whoever it waits for at the unique indexes.                             *)
(***************************************************************************)
EveryMoveEnds ==
    \A m \in Moves : call[m].pc # "idle" ~> call[m].pc \in Answered \cup Gone

(***************************************************************************)
(* No row stays pending for ever, whatever becomes of the verdicts on it.  *)
(***************************************************************************)
PendingEnds ==
    \A m \in Moves, a \in Accounts :
        status[m][a] = "pending" ~> status[m][a] # "pending"

-----------------------------------------------------------------------------
(* Statements of the documents that the code does not keep.                *)

(***************************************************************************)
(* WHAT.md: at most one reversal of a transfer moves money back.           *)
(***************************************************************************)
OneReversalMoves ==
    \A r, q \in Reversals :
        r # q /\ SameOriginal(r, q) => ~(tb[r] = "posted" /\ tb[q] = "posted")
=============================================================================
