------------------------------- MODULE Deposit ------------------------------
(***************************************************************************)
(* Deposits into one purpose-bound and one normal account, withdrawals     *)
(* from the normal one (service/pb_deposit_service.rs,                     *)
(* normal_deposit_service.rs, normal_withdrawal_service.rs), the requests  *)
(* that post or void a pending deposit, the solo branch of the timeout     *)
(* poller, and the pages of the ledger explorer that end a TigerBeetle     *)
(* transfer without looking at its row.                                    *)
(*                                                                         *)
(* A deposit has one row.  No two steps of different requests on it share  *)
(* a lock: posting reads the row, asks TigerBeetle and overwrites the      *)
(* status, and the poller overwrites the status of the rows it has read.   *)
(***************************************************************************)
EXTENDS Integers, FiniteSets, Sums, TigerBeetle

CONSTANTS
    Deposits,       \* calls of deposit, of either service
    Withdrawals,    \* calls of withdraw of the normal account
    Endings,        \* concurrent calls of post_deposit and void_deposit
    NoMove,         \* neither a deposit nor a withdrawal
    Keys, NoKey,    \* idempotency keys, and none
    Amounts,        \* amounts a call may ask for
    OptionalOrigin, \* optional_origin_enabled
    Explorer,       \* an operator uses the explorer's pending pages
    MaxFaults       \* bound: handlers and statements lost

Moves == Deposits \cup Withdrawals
Accounts == {"pb", "normal"}

\* Where the money goes: the two pools of a purpose-bound account, or the
\* single pool of a normal one.
Places == {"self", "others", "normal"}

ASSUME DepositAssumption ==
    /\ IsFiniteSet(Moves) /\ Deposits \cap Withdrawals = {} /\ NoMove \notin Moves
    /\ NoKey \notin Keys /\ Amounts \subseteq Nat
    /\ OptionalOrigin \in BOOLEAN /\ Explorer \in BOOLEAN /\ MaxFaults \in Nat

VARIABLES
    call,       \* the handler of each deposit and each withdrawal
    status,     \* committed status of the row of each
    tb,         \* state of the TigerBeetle transfer of each
    ending,     \* the handler of each call that posts or voids
    overdue,    \* deposits the poller has read as timed out and not yet voided
    faults      \* handlers and statements lost so far

vars == <<call, status, tb, ending, overdue, faults>>

IdleCall == [pc |-> "idle", account |-> "pb", place |-> "self", pending |-> FALSE,
             amount |-> 0, key |-> NoKey]

IdleEnding == [pc |-> "idle", move |-> NoMove, verdict |-> "posted"]

\* The handler's database transaction holds an uncommitted row.
Open(m) == call[m].pc \in {"inserted", "moved"}

Committed(m) == call[m].pc = "done"

\* The unique index on the kind of account, the account and the key.
SameKey(m, q) ==
    /\ call[m].account = call[q].account
    /\ call[m].key = call[q].key /\ call[m].key # NoKey

Sum(S) == SumOver([m \in Moves |-> call[m].amount], S)

Credits(place) == {d \in Deposits : tb[d] = "posted" /\ call[d].place = place}
Debits(place) == {w \in Withdrawals : tb[w] = "posted" /\ call[w].place = place}

\* credits_posted - debits_posted; only the normal account is withdrawn from.
Posted(place) == Sum(Credits(place)) - Sum(Debits(place))

\* Mutant: the normal account is created without the flag.
CanMoveAnything(m) == TRUE

\* The sentinels may be overdrawn, a normal account may not
\* (DEBITS_MUST_NOT_EXCEED_CREDITS).
CanMove(m) == m \in Withdrawals => call[m].amount <= Posted("normal")

Step(m, from, to) ==
    /\ call[m].pc = from
    /\ call' = [call EXCEPT ![m].pc = to]

\* The call is over without a trace (a replay, an error or a lost handler); what
\* it asked for is forgotten.
Leave(m, from, how) ==
    /\ call[m].pc = from
    /\ call' = [call EXCEPT ![m] = [IdleCall EXCEPT !.pc = how]]

-----------------------------------------------------------------------------

Init ==
    /\ call = [m \in Moves |-> IdleCall]
    /\ status = [m \in Moves |-> "none"]
    /\ tb = [m \in Moves |-> "absent"]
    /\ ending = [e \in Endings |-> IdleEnding]
    /\ overdue = {}
    /\ faults = 0

\* The request arrives; a committed row of the account with its key answers
\* it, whatever kind of transaction that row is.
Begin(m) ==
    /\ call[m].pc = "idle"
    /\ \E account \in IF m \in Withdrawals THEN {"normal"} ELSE Accounts,
          pending \in IF m \in Withdrawals THEN {FALSE} ELSE BOOLEAN,
          amount \in Amounts, key \in Keys \cup {NoKey} :
         IF \E q \in Moves : /\ Committed(q) /\ key # NoKey
                             /\ call[q].account = account /\ call[q].key = key
         THEN Leave(m, "idle", "answered")
         ELSE call' = [call EXCEPT ![m] =
                         [pc |-> "begun", account |-> account,
                          place |-> IF account = "normal" THEN "normal" ELSE "self",
                          pending |-> pending, amount |-> amount, key |-> key]]
    /\ UNCHANGED <<status, tb, ending, overdue, faults>>

\* resolve_funding: the pools a deposit of this source may go to, none when it
\* is refused.  Money of the trust only comes by a transfer.
Funded(originMatch, funding) ==
    IF funding = "trust" THEN {}
    ELSE IF originMatch \/ (OptionalOrigin /\ funding = "self") THEN {"self"}
    ELSE IF funding = "third_party" THEN {"others"}
    ELSE {}

\* get_account: the account must be active, which other requests may change at
\* any time.  A purpose-bound one routes the money by source.
Admit(m) ==
    /\ call[m].pc = "begun"
    /\ \E active \in BOOLEAN, originMatch \in BOOLEAN,
          funding \in {"none", "self", "third_party", "trust"} :
         LET places == IF call[m].account = "normal" THEN {"normal"}
                       ELSE Funded(originMatch, funding)
         IN  IF active /\ places # {}
             THEN \E place \in places :
                    call' = [call EXCEPT ![m].place = place,
                               ![m].pc = IF m \in Withdrawals THEN "admitted" ELSE "ready"]
             ELSE Leave(m, "begun", "answered")
    /\ UNCHANGED <<status, tb, ending, overdue, faults>>

\* get_single_balance before a withdrawal.
ReadBalance(m) ==
    /\ IF call[m].amount <= Posted("normal") THEN Step(m, "admitted", "ready")
                                             ELSE Leave(m, "admitted", "answered")
    /\ UNCHANGED <<status, tb, ending, overdue, faults>>

\* Mutant: the table has no unique index.
InsertRowUnindexed(m) ==
    /\ Step(m, "ready", "inserted")
    /\ UNCHANGED <<status, tb, ending, overdue, faults>>

\* BEGIN and the INSERT, which waits for an open transaction that holds a row
\* with its key and fails on a committed one.
InsertRow(m) ==
    /\ ~\E q \in Moves \ {m} : Open(q) /\ SameKey(m, q)
    /\ IF \E q \in Moves : Committed(q) /\ SameKey(m, q)
       THEN Leave(m, "ready", "answered")
       ELSE Step(m, "ready", "inserted")
    /\ UNCHANGED <<status, tb, ending, overdue, faults>>

\* create_pending_transfer or create_transfer, under an id drawn for this call.
MoveMoney(m) ==
    /\ CanMove(m)
    /\ Step(m, "inserted", "moved")
    /\ tb' = [tb EXCEPT ![m] = IF call[m].pending THEN "pending" ELSE "posted"]
    /\ UNCHANGED <<status, ending, overdue, faults>>

\* Mutant: the rejection is waited out with the transaction open.
RejectedWaits(m) ==
    /\ ~CanMove(m)
    /\ Step(m, "inserted", "inserted")
    /\ UNCHANGED <<status, tb, ending, overdue, faults>>

\* ExceedsBalance, because of a withdrawal since the balance was read: the row
\* is rolled back and nothing is tried again.
Rejected(m) ==
    /\ ~CanMove(m)
    /\ Leave(m, "inserted", "answered")
    /\ UNCHANGED <<status, tb, ending, overdue, faults>>

\* The transfer's id goes into the row and tx.commit() makes it visible.
Commit(m) ==
    /\ Step(m, "moved", "done")
    /\ status' = [status EXCEPT ![m] = IF m \in Withdrawals THEN "settled"
                                       ELSE IF call[m].pending THEN "pending" ELSE "posted"]
    /\ UNCHANGED <<tb, ending, overdue, faults>>

Working == {"begun", "admitted", "ready", "inserted", "moved"}

\* The handler or its connection dies, or TigerBeetle answers with another
\* error: the row is rolled back, TigerBeetle keeps what it has done.
Fail(m) ==
    /\ faults < MaxFaults
    /\ faults' = faults + 1
    /\ \/ Step(m, "moved", "orphaned")
       \/ \E at \in Working \ {"moved"} : Leave(m, at, "lost")
    /\ UNCHANGED <<status, tb, ending, overdue>>

-----------------------------------------------------------------------------
(* post_deposit and void_deposit of either service.                        *)

\* get_by_id; a row that is not pending is an error without effect.
ReadRow(e) ==
    /\ ending[e].pc = "idle"
    /\ \E m \in Moves, verdict \in Verdicts :
         /\ status[m] = "pending"
         /\ ending' = [ending EXCEPT ![e] = [pc |-> "read", move |-> m, verdict |-> verdict]]
    /\ UNCHANGED <<call, status, tb, overdue, faults>>

\* Mutant: whatever TigerBeetle answers, the row is updated.
ApplyVerdictDeaf(e) ==
    LET m == ending[e].move
    IN  /\ ending[e].pc = "read"
        /\ tb' = [tb EXCEPT ![m] = Resolved(@, ending[e].verdict)]
        /\ ending' = [ending EXCEPT ![e].pc = "applied"]
        /\ UNCHANGED <<call, status, overdue, faults>>

\* post_pending_transfer or void_pending_transfer; any error ends the call.
ApplyVerdict(e) ==
    LET m == ending[e].move
    IN  /\ ending[e].pc = "read"
        /\ tb' = [tb EXCEPT ![m] = Resolved(@, ending[e].verdict)]
        /\ ending' = [ending EXCEPT ![e] = IF Answer(tb[m]) = "ok"
                                           THEN [@ EXCEPT !.pc = "applied"]
                                           ELSE IdleEnding]
        /\ UNCHANGED <<call, status, overdue, faults>>

\* update_status: WHERE id = m, whatever the status is by now.
UpdateRow(e) ==
    /\ ending[e].pc = "applied"
    /\ status' = [status EXCEPT ![ending[e].move] = ending[e].verdict]
    /\ ending' = [ending EXCEPT ![e] = IdleEnding]
    /\ UNCHANGED <<call, tb, overdue, faults>>

LoseEnding(e) ==
    /\ ending[e].pc # "idle"
    /\ faults < MaxFaults
    /\ faults' = faults + 1
    /\ ending' = [ending EXCEPT ![e] = IdleEnding]
    /\ UNCHANGED <<call, status, tb, overdue>>

-----------------------------------------------------------------------------
(* Time and the operators.                                                 *)

\* Mutant: the query does not look at the status.
PollerFindsAny ==
    /\ overdue = {}
    /\ \E found \in SUBSET {m \in Moves : status[m] # "none" /\ call[m].pending} :
         found # {} /\ overdue' = found
    /\ UNCHANGED <<call, status, tb, ending, faults>>

\* find_timed_out_pending: by PostgreSQL's clock some pending rows are overdue.
PollerFinds ==
    /\ overdue = {}
    /\ \E found \in SUBSET {m \in Moves : status[m] = "pending"} :
         found # {} /\ overdue' = found
    /\ UNCHANGED <<call, status, tb, ending, faults>>

\* Mutant: the poller asks for what it has found and writes nothing.
PollerForgets(m) ==
    /\ m \in overdue
    /\ overdue' = overdue \ {m}
    /\ UNCHANGED <<call, status, tb, ending, faults>>

\* update_status(m, Voided) for a row without correlation_id: the row is
\* overwritten, whatever has become of it since it was found.
PollerVoids(m) ==
    /\ m \in overdue
    /\ overdue' = overdue \ {m}
    /\ status' = [status EXCEPT ![m] = "voided"]
    /\ UNCHANGED <<call, tb, ending, faults>>

\* The poller's UPDATE fails, which it only logs, or the process is restarted.
PollerFails(m) ==
    /\ m \in overdue
    /\ faults < MaxFaults
    /\ faults' = faults + 1
    /\ overdue' = overdue \ {m}
    /\ UNCHANGED <<call, status, tb, ending>>

\* TigerBeetle's timeout of a pending transfer.
Expire(m) ==
    /\ tb[m] = "pending"
    /\ tb' = [tb EXCEPT ![m] = "expired"]
    /\ UNCHANGED <<call, status, ending, overdue, faults>>

\* pending_post and pending_void of the explorer: TigerBeetle alone, by the id
\* of the transfer.
Explore(m) ==
    /\ Explorer
    /\ tb[m] = "pending"
    /\ \E verdict \in Verdicts : tb' = [tb EXCEPT ![m] = verdict]
    /\ UNCHANGED <<call, status, ending, overdue, faults>>

Handle(m) == \/ Begin(m) \/ Admit(m) \/ ReadBalance(m) \/ InsertRow(m)
             \/ MoveMoney(m) \/ Rejected(m) \/ Commit(m)

End(e) == ReadRow(e) \/ ApplyVerdict(e) \/ UpdateRow(e)

Next ==
    \/ \E m \in Moves : Handle(m) \/ Fail(m)
    \/ \E e \in Endings : End(e) \/ LoseEnding(e)
    \/ \E m \in Moves : PollerVoids(m) \/ PollerFails(m) \/ Expire(m) \/ Explore(m)
    \/ PollerFinds

Spec == Init /\ [][Next]_vars

\* Handlers run on once started; nobody has to call them.  The poller's loop
\* never ends and reads what is still overdue in every round.
Fairness ==
    /\ \A m \in Moves : WF_vars(call[m].pc # "idle" /\ Handle(m))
    /\ \A e \in Endings : WF_vars(ApplyVerdict(e) \/ UpdateRow(e))
    /\ \A d \in Deposits : SF_vars(PollerFinds /\ d \in overdue')
    /\ \A d \in Deposits : WF_vars(PollerVoids(d))

FairSpec == Spec /\ Fairness

-----------------------------------------------------------------------------

Answered == {"answered", "done"}
Gone == {"lost", "orphaned"}

Call == [pc : {"idle"} \cup Working \cup Answered \cup Gone, account : Accounts,
         place : Places, pending : BOOLEAN, amount : Amounts \cup {0},
         key : Keys \cup {NoKey}]

Ending == [pc : {"idle", "read", "applied"}, move : Moves \cup {NoMove},
           verdict : Verdicts]

Types ==
    /\ call \in [Moves -> Call]
    /\ status \in [Moves -> {"none", "pending", "posted", "voided", "settled"}]
    /\ tb \in [Moves -> TransferStates]
    /\ ending \in [Endings -> Ending]
    /\ overdue \subseteq Moves
    /\ faults \in 0 .. MaxFaults

\* Types, and the promise TigerBeetle makes: no place is overdrawn, though the
\* balance a withdrawal has read is out of date when it is taken.
TypeOK == Types /\ \A place \in Places : Posted(place) >= 0

(***************************************************************************)
(* A row that says posted has moved its money: neither a lost transaction, *)
(* a verdict on a transfer that has just expired nor an operator in the    *)
(* explorer makes update_status say so before TigerBeetle does.            *)
(***************************************************************************)
PostedHasMoved == \A m \in Moves : status[m] = "posted" => tb[m] = "posted"

(***************************************************************************)
(* What post_deposit has answered stays true unless the poller had already *)
(* found the row: a posted row it has not found stays posted and is never  *)
(* found, whatever other verdicts on the deposit are still under way.  A   *)
(* voided row is only brought back by a posting TigerBeetle had accepted.  *)
(***************************************************************************)
VerdictsLast ==
    [][ \A m \in Moves :
          /\ status[m] = "posted" /\ m \notin overdue =>
               status'[m] = "posted" /\ m \notin overdue'
          /\ status[m] = "voided" /\ status'[m] # "voided" =>
               status'[m] = "posted" /\ tb[m] = "posted" ]_vars

(***************************************************************************)
(* Of the deposits and withdrawals of one account with one key at most one *)
(* is committed, though each of them looked for the key before any had a   *)
(* row.                                                                    *)
(***************************************************************************)
OneMovePerKey ==
    \A m, q \in Moves : m # q /\ Committed(m) /\ Committed(q) => ~SameKey(m, q)

(***************************************************************************)
(* Every deposit and withdrawal is answered or its handler gone, whoever   *)
(* it waits for at the unique index.                                       *)
(***************************************************************************)
EveryCallEnds ==
    \A m \in Moves : call[m].pc # "idle" ~> call[m].pc \in Answered \cup Gone

(***************************************************************************)
(* No deposit stays pending for ever, even when its transfer was ended     *)
(* behind the row's back and every verdict on it is refused.               *)
(***************************************************************************)
PendingEnds == \A d \in Deposits : status[d] = "pending" ~> status[d] # "pending"

-----------------------------------------------------------------------------
(* Statements of the documents that the code does not keep.                *)

(***************************************************************************)
(* two-phase design: the poller keeps the rows in sync with TigerBeetle.   *)
(* Once no ending is between TigerBeetle and its UPDATE, a deposit whose   *)
(* row is voided has not moved its money.                                  *)
(***************************************************************************)
VoidedNotMoved ==
    \A m \in Moves :
        /\ status[m] = "voided"
        /\ ~\E e \in Endings : ending[e].pc = "applied" /\ ending[e].move = m
        => tb[m] # "posted"
=============================================================================
