------------------------------- MODULE Server -------------------------------
(***************************************************************************)
(* What the requests of one pba_service process share: the pool of         *)
(* PostgreSQL connections of main.rs and the process itself.               *)
(*                                                                         *)
(* A statement takes a connection and gives it back; a database            *)
(* transaction keeps one from BEGIN to its end.  refund_payment reads the  *)
(* account through the pool while its transaction is open, so it waits for *)
(* a second connection with the first one and the payment's row lock in    *)
(* its hands.  create_account writes TigerBeetle first and PostgreSQL      *)
(* afterwards, with a wait for a connection in between.  A request ends    *)
(* when the pool's acquire timeout passes, when its client goes away and   *)
(* its handler is dropped, or when the process dies.                       *)
(***************************************************************************)
EXTENDS Integers, FiniteSets

CONSTANTS
    Requests,       \* the HTTP requests, each handled by a task of its own
    Payments,       \* the payments that may be refunded
    NoPayment,      \* what a request refunds that is not a refund
    PoolSize,       \* max_connections
    MaxFound,       \* bound: overdue rows one round of the poller finds
    MaxRestarts     \* bound: deaths of the process

ASSUME ServerAssumption ==
    /\ IsFiniteSet(Requests)
    /\ NoPayment \notin Payments
    /\ PoolSize \in Nat \ {0}
    /\ MaxFound \in Nat /\ MaxRestarts \in Nat

VARIABLES
    up,         \* the process serves requests
    request,    \* the handler of each request
    poller,     \* the poller's task: what it does, overdue rows left to void
    ledger,     \* requests whose TigerBeetle accounts exist
    rows,       \* requests whose account row is committed
    restarts    \* deaths of the process so far

vars == <<up, request, poller, ledger, rows, restarts>>

IdleRequest == [pc |-> "idle", refunds |-> NoPayment]

IdlePoller == [pc |-> "asleep", left |-> 0]

\* Waiting for a connection, and what a request does once it has it.
Granted == [ask_purpose |-> "read_purpose", ask_insert |-> "insert",
            ask_tx |-> "tx", ask_account |-> "read_account"]

Asking == DOMAIN Granted

\* The connections of a request: its transaction's, its statement's.
InTransaction == {"tx", "ask_account", "read_account", "move"}
InStatement == {"read_purpose", "insert", "read_account"}

Ended == {"done", "failed", "gone"}

Holders == {r \in Requests : request[r].pc \in InTransaction}
Statements == {r \in Requests : request[r].pc \in InStatement}

Used == Cardinality(Holders) + Cardinality(Statements)
            + (IF poller.pc = "querying" THEN 1 ELSE 0)

\* Mutant: a request does not wait for its turn.
CanAcquireAnyway == TRUE

CanAcquire == Used < PoolSize

\* The row lock of a payment, kept to the end of the transaction.
HasLock(r) == request[r].refunds # NoPayment
                /\ request[r].pc \in {"ask_account", "read_account", "move"}

LockFree(p) == \A r \in Requests : ~(HasLock(r) /\ request[r].refunds = p)

Step(r, from, to) ==
    /\ request[r].pc = from
    /\ request' = [request EXCEPT ![r].pc = to]

-----------------------------------------------------------------------------

Init ==
    /\ up = FALSE
    /\ request = [r \in Requests |-> IdleRequest]
    /\ poller = IdlePoller
    /\ ledger = {} /\ rows = {}
    /\ restarts = 0

\* main: connects the pool, migrates, creates the sentinel accounts and only
\* then spawns the poller and serves.
Start ==
    /\ ~up
    /\ up' = TRUE
    /\ UNCHANGED <<request, poller, ledger, rows, restarts>>

\* What a handler that is cut short has already sent is carried out or not: the
\* creation of TigerBeetle accounts, or the INSERT of an account's row.
CutShort(cut) ==
    /\ \E made \in SUBSET {r \in cut : request[r].pc = "make_accounts"} :
         ledger' = ledger \cup made
    /\ \E inserted \in SUBSET {r \in cut : request[r].pc = "insert"} :
         rows' = rows \cup inserted

\* The process dies: its tasks are gone and PostgreSQL rolls their transactions
\* back.
Die ==
    /\ up /\ restarts < MaxRestarts
    /\ up' = FALSE
    /\ restarts' = restarts + 1
    /\ request' = [r \in Requests |->
                     IF request[r].pc = "idle" THEN request[r]
                     ELSE IF request[r].pc \in Ended THEN request[r]
                     ELSE [IdleRequest EXCEPT !.pc = "gone"]]
    /\ poller' = IdlePoller
    /\ CutShort(Requests)

\* A request to open a purpose-bound or a normal account, one that works in
\* one transaction (a payment, deposit, withdrawal or transfer), or a refund of
\* payment p.  Their lookups before BEGIN are statements like ReadPurpose.
Arrive(r) ==
    /\ up /\ request[r].pc = "idle"
    /\ \/ request' = [request EXCEPT ![r].pc = "ask_purpose"]
       \/ request' = [request EXCEPT ![r].pc = "make_accounts"]
       \/ \E p \in Payments \cup {NoPayment} :
            request' = [request EXCEPT ![r] = [pc |-> "ask_tx", refunds |-> p]]
    /\ UNCHANGED <<up, poller, ledger, rows, restarts>>

Acquire(r) ==
    /\ request[r].pc \in Asking /\ CanAcquire
    /\ request' = [request EXCEPT ![r].pc = Granted[request[r].pc]]
    /\ UNCHANGED <<up, poller, ledger, rows, restarts>>

\* Mutant: a request waits for a connection as long as it takes.
NeverTimesOut(r) == FALSE /\ UNCHANGED vars

\* PoolTimedOut: the request fails, its transaction is rolled back and its
\* connection and lock are free.
TimesOut(r) ==
    /\ request[r].pc \in Asking
    /\ request' = [request EXCEPT ![r] = [IdleRequest EXCEPT !.pc = "failed"]]
    /\ UNCHANGED <<up, poller, ledger, rows, restarts>>

\* get_purpose_type: an unknown purpose ends the request.
ReadPurpose(r) ==
    /\ \E to \in {"make_accounts", "failed"} : Step(r, "read_purpose", to)
    /\ UNCHANGED <<up, poller, ledger, rows, restarts>>

\* Mutant: an error of TigerBeetle is only logged.
MakeAccountsUnchecked(r) ==
    /\ Step(r, "make_accounts", "ask_insert")
    /\ \/ ledger' = ledger \cup {r}
       \/ UNCHANGED ledger
    /\ UNCHANGED <<up, poller, rows, restarts>>

\* create_account_pair (linked) or create_normal_account: the accounts exist,
\* or none does and the request fails.
MakeAccounts(r) ==
    /\ \/ Step(r, "make_accounts", "ask_insert") /\ ledger' = ledger \cup {r}
       \/ Step(r, "make_accounts", "failed") /\ UNCHANGED ledger
    /\ UNCHANGED <<up, poller, rows, restarts>>

\* The INSERT of the account's row; a failure leaves the accounts behind.
InsertRow(r) ==
    /\ \/ Step(r, "insert", "done") /\ rows' = rows \cup {r}
       \/ Step(r, "insert", "failed") /\ UNCHANGED rows
    /\ UNCHANGED <<up, poller, ledger, restarts>>

\* Mutant: every handler reads its account through the pool inside its
\* transaction.
BeginAllNested(r) ==
    /\ request[r].pc = "tx" /\ LockFree(request[r].refunds)
    /\ Step(r, "tx", "ask_account")
    /\ UNCHANGED <<up, poller, ledger, rows, restarts>>

\* Inside the transaction a refund takes the payment's row lock and goes back
\* to the pool for the account; the other handlers have read it before BEGIN.
Begin(r) ==
    /\ request[r].pc = "tx"
    /\ IF request[r].refunds = NoPayment THEN Step(r, "tx", "move")
       ELSE LockFree(request[r].refunds) /\ Step(r, "tx", "ask_account")
    /\ UNCHANGED <<up, poller, ledger, rows, restarts>>

\* Step 5 of refund_payment: the account must be active.
ReadAccount(r) ==
    /\ \E to \in {"move", "failed"} : Step(r, "read_account", to)
    /\ UNCHANGED <<up, poller, ledger, rows, restarts>>

\* The rest of the transaction, to its COMMIT or ROLLBACK.
Finish(r) ==
    /\ \E to \in {"done", "failed"} : Step(r, "move", to)
    /\ UNCHANGED <<up, poller, ledger, rows, restarts>>

\* The client goes away and axum drops the handler at its await.
Drop(r) ==
    /\ request[r].pc \notin Ended \cup {"idle"}
    /\ request' = [request EXCEPT ![r] = [IdleRequest EXCEPT !.pc = "gone"]]
    /\ CutShort({r})
    /\ UNCHANGED <<up, poller, restarts>>

-----------------------------------------------------------------------------
(* The poller's task.                                                      *)

Tick ==
    /\ up /\ poller.pc = "asleep"
    /\ poller' = [pc |-> "finding", left |-> 0]
    /\ UNCHANGED <<up, request, ledger, rows, restarts>>

\* A statement of the poller: find_timed_out_pending, or the UPDATE of one row
\* or of one correlation id.
PollerAcquires ==
    /\ poller.pc \in {"finding", "voiding"} /\ CanAcquire
    /\ poller' = [pc |-> "querying",
                  left |-> IF poller.pc = "finding" THEN MaxFound + 1 ELSE poller.left]
    /\ UNCHANGED <<up, request, ledger, rows, restarts>>

\* The next row, or sleep when there is none.
Onward(left) == IF left > 0 THEN [pc |-> "voiding", left |-> left] ELSE IdlePoller

PollerAnswered ==
    /\ poller.pc = "querying"
    /\ \E left \in IF poller.left > MaxFound THEN 0 .. MaxFound ELSE {poller.left - 1} :
         poller' = Onward(left)
    /\ UNCHANGED <<up, request, ledger, rows, restarts>>

\* Mutant: a failed statement starts the round over.
PollerStartsOver ==
    /\ poller.pc \in {"finding", "voiding"}
    /\ poller' = [pc |-> "finding", left |-> 0]
    /\ UNCHANGED <<up, request, ledger, rows, restarts>>

\* A failed statement is logged: the round goes on with the next row.
PollerTimesOut ==
    /\ poller.pc \in {"finding", "voiding"}
    /\ poller' = IF poller.pc = "finding" THEN IdlePoller ELSE Onward(poller.left - 1)
    /\ UNCHANGED <<up, request, ledger, rows, restarts>>

Handle(r) == \/ Acquire(r) \/ TimesOut(r) \/ ReadPurpose(r) \/ MakeAccounts(r)
             \/ InsertRow(r) \/ Begin(r) \/ ReadAccount(r) \/ Finish(r)

Poll == PollerAcquires \/ PollerAnswered \/ PollerTimesOut

Next ==
    \/ \E r \in Requests : Arrive(r) \/ Handle(r) \/ Drop(r)
    \/ Tick \/ Poll
    \/ Start \/ Die

Spec == Init /\ [][Next]_vars

\* Tasks run on; a wait in the pool ends at the timeout if not before; nobody
\* has to send a request, drop one or start the process again.
Fairness ==
    /\ \A r \in Requests : WF_vars(Handle(r))
    /\ WF_vars(Poll)

FairSpec == Spec /\ Fairness

-----------------------------------------------------------------------------

Request == [pc : {"idle", "make_accounts"} \cup Asking \cup InTransaction
                    \cup InStatement \cup Ended,
            refunds : Payments \cup {NoPayment}]

(***************************************************************************)
(* Types; the pool never has more connections than max_connections.        *)
(***************************************************************************)
TypeOK ==
    /\ up \in BOOLEAN
    /\ request \in [Requests -> Request]
    /\ poller \in [pc : {"asleep", "finding", "voiding", "querying"},
                   left : 0 .. MaxFound + 1]
    /\ ledger \subseteq Requests /\ rows \subseteq Requests
    /\ restarts \in 0 .. MaxRestarts
    /\ Used <= PoolSize

(***************************************************************************)
(* An account that PostgreSQL knows has its TigerBeetle accounts, wherever *)
(* a timeout, a dropped handler or a death of the process cut its creation *)
(* short.                                                                  *)
(***************************************************************************)
RowsHaveAccounts == rows \subseteq ledger

\* A request cannot go on before another one gives something back.
Blocked(r) ==
    \/ request[r].pc = "ask_account"
    \/ request[r].pc = "tx" /\ ~LockFree(request[r].refunds)

\* Every connection is held by a request that waits for another one: only the
\* timeout ends this.
WaitCycle ==
    /\ Used = PoolSize /\ Statements = {} /\ poller.pc # "querying"
    /\ \A r \in Holders : Blocked(r)

RefundsInFlight ==
    {r \in Requests : request[r].refunds # NoPayment /\ request[r].pc \notin Ended}

(***************************************************************************)
(* The pool runs into a wait cycle only when as many refunds are in flight *)
(* as there are connections; no other mix of requests, and not the poller, *)
(* can bring it about.                                                     *)
(***************************************************************************)
WaitCycleIsRefunds ==
    WaitCycle => Cardinality(RefundsInFlight) >= PoolSize

(***************************************************************************)
(* Every request that has arrived ends, although refunds of one payment    *)
(* wait for each other's lock with connections in their hands.             *)
(***************************************************************************)
EveryRequestEnds ==
    \A r \in Requests : request[r].pc # "idle" ~> request[r].pc \in Ended

(***************************************************************************)
(* Every round of the poller comes to an end, so that the next one starts, *)
(* although it shares the pool with the requests.                          *)
(***************************************************************************)
EveryRoundEnds == poller.pc # "asleep" ~> poller.pc = "asleep"
=============================================================================
