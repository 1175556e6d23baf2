---------------------------- MODULE Server_proofs ---------------------------
(***************************************************************************)
(* An account row has its TigerBeetle accounts, and only refunds can run   *)
(* the connection pool into a wait cycle, for any number of requests and   *)
(* connections.                                                            *)
(***************************************************************************)
EXTENDS Server, FiniteSetTheorems, TLAPS

(***************************************************************************)
(* The states of a request's handler.                                      *)
(***************************************************************************)
PCs == {"idle", "make_accounts"} \cup Asking \cup InTransaction
           \cup InStatement \cup Ended

\* Types without the count of connections, which is not inductive by itself.
Typed ==
    /\ request \in [Requests -> Request]
    /\ ledger \subseteq Requests /\ rows \subseteq Requests

\* A request that inserts an account's row, or waits for a connection to do
\* so, has created the TigerBeetle accounts.
InsertersHaveAccounts ==
    \A r \in Requests : request[r].pc \in {"ask_insert", "insert"} => r \in ledger

\* Only refunds go back to the pool inside a transaction.
NestedAreRefunds ==
    \A r \in Requests :
        request[r].pc \in {"ask_account", "read_account"}
            => request[r].refunds # NoPayment

PoolInvariant == Typed /\ InsertersHaveAccounts /\ NestedAreRefunds /\ RowsHaveAccounts

(***************************************************************************)
(* The names of the waiting states are the domain of Granted.              *)
(***************************************************************************)
LEMMA AskingStates == Asking = {"ask_purpose", "ask_insert", "ask_tx", "ask_account"}
  BY DEF Asking, Granted

(***************************************************************************)
(* Moving a request on keeps its type and changes no other request.        *)
(***************************************************************************)
LEMMA MoveRequest ==
    ASSUME Typed, NEW r \in Requests, NEW to \in PCs,
           request' = [request EXCEPT ![r].pc = to]
    PROVE  /\ request' \in [Requests -> Request]
           /\ request'[r].pc = to /\ request'[r].refunds = request[r].refunds
           /\ \A q \in Requests \ {r} : request'[q] = request[q]
  BY DEF Typed, Request, PCs

LEMMA SetRequest ==
    ASSUME Typed, NEW r \in Requests, NEW new \in Request,
           request' = [request EXCEPT ![r] = new]
    PROVE  /\ request' \in [Requests -> Request]
           /\ request'[r] = new
           /\ \A q \in Requests \ {r} : request'[q] = request[q]
  BY DEF Typed

(***************************************************************************)
(* A step of one request keeps the invariant if what it turns into does.   *)
(***************************************************************************)
LEMMA OneRequestKeeps ==
    ASSUME PoolInvariant, NEW r \in Requests,
           request' \in [Requests -> Request],
           \A q \in Requests \ {r} : request'[q] = request[q],
           ledger \subseteq ledger', ledger' \subseteq Requests,
           rows' \subseteq ledger',
           request'[r].pc \in {"ask_insert", "insert"} => r \in ledger',
           request'[r].pc \in {"ask_account", "read_account"}
               => request'[r].refunds # NoPayment
    PROVE  PoolInvariant'
  BY DEF PoolInvariant, Typed, InsertersHaveAccounts, NestedAreRefunds, RowsHaveAccounts

LEMMA PoolInit == Init => PoolInvariant
  BY AskingStates, ServerAssumption
  DEF Init, PoolInvariant, Typed, InsertersHaveAccounts, NestedAreRefunds,
      RowsHaveAccounts, Request, IdleRequest

(***************************************************************************)
(* A request that has ended, failed or is gone.                            *)
(***************************************************************************)
LEMMA Over ==
    ASSUME NEW pc \in Ended
    PROVE  /\ [IdleRequest EXCEPT !.pc = pc] \in Request
           /\ [IdleRequest EXCEPT !.pc = pc].pc = pc
  BY DEF IdleRequest, Request, Ended

LEMMA HandleKeeps ==
    ASSUME PoolInvariant, NEW r \in Requests, Handle(r)
    PROVE  PoolInvariant'
  <1>0. /\ Typed /\ rows \subseteq ledger /\ ledger \subseteq Requests
        /\ Ended \subseteq PCs /\ InTransaction \subseteq PCs
        /\ InStatement \subseteq PCs /\ Asking \subseteq PCs
    BY DEF PoolInvariant, RowsHaveAccounts, Typed, PCs
  <1>1. CASE Acquire(r)
    <2>1. request[r].pc \in {"ask_purpose", "ask_insert", "ask_tx", "ask_account"}
      BY <1>1, AskingStates DEF Acquire
    <2>2. /\ Granted["ask_purpose"] = "read_purpose" /\ Granted["ask_insert"] = "insert"
          /\ Granted["ask_tx"] = "tx" /\ Granted["ask_account"] = "read_account"
      BY DEF Granted
    <2>3. /\ Granted[request[r].pc] \in {"read_purpose", "insert", "tx", "read_account"}
          /\ Granted[request[r].pc] = "insert" => request[r].pc = "ask_insert"
          /\ Granted[request[r].pc] = "read_account" => request[r].pc = "ask_account"
      BY <2>1, <2>2
    <2>4. /\ request' = [request EXCEPT ![r].pc = Granted[request[r].pc]]
          /\ ledger' = ledger /\ rows' = rows
      BY <1>1 DEF Acquire
    <2>5. Granted[request[r].pc] \in PCs
      BY <2>3 DEF PCs, InStatement, InTransaction
    <2>6. /\ request' \in [Requests -> Request]
          /\ \A q \in Requests \ {r} : request'[q] = request[q]
          /\ request'[r].pc = Granted[request[r].pc]
          /\ request'[r].refunds = request[r].refunds
      BY <1>0, <2>4, <2>5, MoveRequest
    <2>7. /\ request'[r].pc \in {"ask_insert", "insert"} => r \in ledger'
          /\ request'[r].pc \in {"ask_account", "read_account"}
               => request'[r].refunds # NoPayment
      BY <2>3, <2>4, <2>6
      DEF PoolInvariant, InsertersHaveAccounts, NestedAreRefunds
    <2> QED
      BY <1>0, <2>4, <2>6, <2>7, OneRequestKeeps
  <1>2. CASE TimesOut(r)
    BY <1>0, <1>2, Over, SetRequest, OneRequestKeeps DEF TimesOut, Ended
  <1>3. CASE ReadPurpose(r)
    <2>1. PICK to \in {"make_accounts", "failed"} : Step(r, "read_purpose", to)
      BY <1>3 DEF ReadPurpose
    <2> QED
      BY <1>0, <1>3, <2>1, MoveRequest, OneRequestKeeps
      DEF ReadPurpose, Step, PCs, Ended
  <1>4. CASE MakeAccounts(r)
    <2>1. PICK to \in {"ask_insert", "failed"} :
            /\ Step(r, "make_accounts", to)
            /\ to = "ask_insert" => ledger' = ledger \cup {r}
      BY <1>4 DEF MakeAccounts
    <2>2. /\ ledger \subseteq ledger' /\ ledger' \subseteq Requests
          /\ rows' \subseteq ledger'
      BY <1>0, <1>4 DEF MakeAccounts
    <2>3. to \in PCs
      BY <2>1, AskingStates DEF PCs, Ended
    <2>4. /\ request' \in [Requests -> Request] /\ request'[r].pc = to
          /\ \A q \in Requests \ {r} : request'[q] = request[q]
      BY <1>0, <2>1, <2>3, MoveRequest DEF Step
    <2> QED
      BY <2>1, <2>2, <2>4, OneRequestKeeps
  <1>5. CASE InsertRow(r)
    <2>1. r \in ledger
      BY <1>5 DEF InsertRow, Step, PoolInvariant, InsertersHaveAccounts
    <2>2. PICK to \in {"done", "failed"} : Step(r, "insert", to)
      BY <1>5 DEF InsertRow
    <2>3. rows' \subseteq ledger' /\ ledger' = ledger
      BY <1>0, <1>5, <2>1 DEF InsertRow
    <2> QED
      BY <1>0, <2>2, <2>3, MoveRequest, OneRequestKeeps DEF Step, PCs, Ended
  <1>6. CASE Begin(r)
    <2>1. PICK to \in {"move", "ask_account"} :
            /\ Step(r, "tx", to)
            /\ to = "ask_account" => request[r].refunds # NoPayment
      BY <1>6 DEF Begin
    <2> QED
      BY <1>0, <1>6, <2>1, MoveRequest, OneRequestKeeps
      DEF Begin, Step, PCs, InTransaction
  <1>7. CASE ReadAccount(r)
    <2>1. PICK to \in {"move", "failed"} : Step(r, "read_account", to)
      BY <1>7 DEF ReadAccount
    <2> QED
      BY <1>0, <1>7, <2>1, MoveRequest, OneRequestKeeps
      DEF ReadAccount, Step, PCs, InTransaction, Ended
  <1>8. CASE Finish(r)
    <2>1. PICK to \in {"done", "failed"} : Step(r, "move", to)
      BY <1>8 DEF Finish
    <2> QED
      BY <1>0, <1>8, <2>1, MoveRequest, OneRequestKeeps DEF Finish, Step, PCs, Ended
  <1> QED
    BY <1>1, <1>2, <1>3, <1>4, <1>5, <1>6, <1>7, <1>8 DEF Handle

LEMMA ArriveKeeps ==
    ASSUME PoolInvariant, NEW r \in Requests, Arrive(r)
    PROVE  PoolInvariant'
  <1>0. Typed /\ rows \subseteq ledger /\ ledger \subseteq Requests
    BY DEF PoolInvariant, RowsHaveAccounts, Typed
  <1>1. CASE \E to \in {"ask_purpose", "make_accounts"} :
               request' = [request EXCEPT ![r].pc = to]
    BY <1>0, <1>1, AskingStates, MoveRequest, OneRequestKeeps DEF Arrive, PCs
  <1>2. CASE \E p \in Payments \cup {NoPayment} :
               request' = [request EXCEPT ![r] = [pc |-> "ask_tx", refunds |-> p]]
    <2>1. PICK p \in Payments \cup {NoPayment} :
            request' = [request EXCEPT ![r] = [pc |-> "ask_tx", refunds |-> p]]
      BY <1>2
    <2>2. [pc |-> "ask_tx", refunds |-> p] \in Request
      BY AskingStates DEF Request
    <2> QED
      BY <1>0, <2>1, <2>2, SetRequest, OneRequestKeeps DEF Arrive
  <1> QED
    BY <1>1, <1>2 DEF Arrive

(***************************************************************************)
(* What cut-short handlers still have carried out: the rows among it are   *)
(* of requests whose accounts exist.                                       *)
(***************************************************************************)
LEMMA CutShortKeeps ==
    ASSUME PoolInvariant, NEW cut \in SUBSET Requests, CutShort(cut)
    PROVE  rows' \subseteq ledger' /\ ledger \subseteq ledger' /\ ledger' \subseteq Requests
  <1>1. PICK made \in SUBSET Requests : ledger' = ledger \cup made
    BY DEF CutShort
  <1>2. PICK inserted \in SUBSET {r \in cut : request[r].pc = "insert"} :
          rows' = rows \cup inserted
    BY DEF CutShort
  <1>3. inserted \subseteq ledger
    BY <1>2 DEF PoolInvariant, InsertersHaveAccounts
  <1> QED
    BY <1>1, <1>2, <1>3 DEF PoolInvariant, RowsHaveAccounts, Typed

LEMMA DropKeeps ==
    ASSUME PoolInvariant, NEW r \in Requests, Drop(r)
    PROVE  PoolInvariant'
  <1>1. /\ Typed /\ rows' \subseteq ledger' /\ ledger \subseteq ledger'
        /\ ledger' \subseteq Requests
    BY CutShortKeeps DEF Drop, PoolInvariant, Typed
  <1> QED
    BY <1>1, Over, SetRequest, OneRequestKeeps DEF Drop, Ended

LEMMA DieKeeps ==
    ASSUME PoolInvariant, Die
    PROVE  PoolInvariant'
  <1>1. \A r \in Requests :
          \/ request'[r] = request[r]
          \/ request'[r] \in Request /\ request'[r].pc = "gone"
    BY Over DEF Die, Ended
  <1>2. request' \in [Requests -> Request]
    BY <1>1 DEF Die, PoolInvariant, Typed
  <1>3. rows' \subseteq ledger' /\ ledger \subseteq ledger' /\ ledger' \subseteq Requests
    BY CutShortKeeps DEF Die
  <1> QED
    BY <1>1, <1>2, <1>3
    DEF PoolInvariant, Typed, InsertersHaveAccounts, NestedAreRefunds, RowsHaveAccounts

LEMMA PoolStep == PoolInvariant /\ [Next]_vars => PoolInvariant'
<1> SUFFICES ASSUME PoolInvariant, [Next]_vars PROVE PoolInvariant'
  OBVIOUS
<1>1. ASSUME NEW r \in Requests, Arrive(r) \/ Handle(r) \/ Drop(r) PROVE PoolInvariant'
  BY <1>1, ArriveKeeps, HandleKeeps, DropKeeps
<1>2. CASE Die
  BY <1>2, DieKeeps
<1>3. CASE UNCHANGED <<request, ledger, rows>>
  BY <1>3 DEF PoolInvariant, Typed, InsertersHaveAccounts, NestedAreRefunds, RowsHaveAccounts
<1> QED
  BY <1>1, <1>2, <1>3
  DEF Next, Start, Tick, Poll, PollerAcquires, PollerAnswered, PollerTimesOut, vars

(***************************************************************************)
(* Every account row has its TigerBeetle accounts, wherever timeouts,      *)
(* dropped handlers and deaths of the process cut an account's creation    *)
(* short.                                                                  *)
(***************************************************************************)
THEOREM AccountsBehindRows == Spec => []RowsHaveAccounts
<1>1. PoolInvariant => RowsHaveAccounts
  BY DEF PoolInvariant
<1> QED
  BY <1>1, PoolInit, PoolStep, PTL DEF Spec

(***************************************************************************)
(* A request that is blocked with a connection in its hands is a refund.   *)
(***************************************************************************)
LEMMA BlockedIsRefund ==
    ASSUME PoolInvariant, NEW r \in Holders, Blocked(r)
    PROVE  r \in RefundsInFlight
  <1>1. r \in Requests /\ request[r].pc \notin Ended
    BY DEF Holders, InTransaction, Ended
  <1>2. request[r].refunds # NoPayment
    <2>1. CASE request[r].pc = "ask_account"
      BY <1>1, <2>1 DEF PoolInvariant, NestedAreRefunds
    <2>2. CASE ~LockFree(request[r].refunds)
      BY <2>2 DEF LockFree, HasLock
    <2> QED
      BY <2>1, <2>2 DEF Blocked
  <1> QED
    BY <1>1, <1>2 DEF RefundsInFlight

LEMMA CycleOfRefunds == PoolInvariant => WaitCycleIsRefunds
<1> SUFFICES ASSUME PoolInvariant, WaitCycle
             PROVE  Cardinality(RefundsInFlight) >= PoolSize
  BY DEF WaitCycleIsRefunds
<1>1. Holders \subseteq RefundsInFlight
  BY BlockedIsRefund DEF WaitCycle
<1>2. IsFiniteSet(RefundsInFlight)
  BY ServerAssumption, FS_Subset DEF RefundsInFlight
<1>3. /\ Cardinality(Holders) <= Cardinality(RefundsInFlight)
      /\ Cardinality(Holders) \in Nat /\ Cardinality(RefundsInFlight) \in Nat
  <2>1. IsFiniteSet(Holders)
    BY <1>1, <1>2, FS_Subset
  <2>2. Cardinality(Holders) <= Cardinality(RefundsInFlight)
    BY <1>1, <1>2, FS_Subset
  <2> QED
    BY <1>2, <2>1, <2>2, FS_CardinalityType
<1>4. Cardinality(Holders) = PoolSize
  <2>1. Cardinality(Statements) = 0
    BY FS_EmptySet DEF WaitCycle
  <2> QED
    BY <1>3, <2>1 DEF WaitCycle, Used
<1> QED
  BY <1>3, <1>4, ServerAssumption

(***************************************************************************)
(* Fewer refunds in flight than connections never run the pool into a wait *)
(* cycle, whatever else the service does.                                  *)
(***************************************************************************)
THEOREM OnlyRefundsBlockThePool == Spec => []WaitCycleIsRefunds
  BY CycleOfRefunds, PoolInit, PoolStep, PTL DEF Spec
-----------------------------------------------------------------------------
(* Types, and the count of connections.                                    *)

LEMMA SubsetCounted ==
    ASSUME NEW S \in SUBSET Requests
    PROVE  IsFiniteSet(S) /\ Cardinality(S) \in Nat
  BY ServerAssumption, FS_Subset, FS_CardinalityType

LEMMA OneMore ==
    ASSUME NEW S \in SUBSET Requests, NEW T \in SUBSET Requests, NEW r \in Requests,
           T \subseteq S \cup {r}
    PROVE  Cardinality(T) <= Cardinality(S) + 1
  <1>1. IsFiniteSet(S) /\ Cardinality(S) \in Nat
    BY SubsetCounted
  <1>2. /\ IsFiniteSet(S \cup {r})
        /\ Cardinality(S \cup {r}) = Cardinality(S)
             \/ Cardinality(S \cup {r}) = Cardinality(S) + 1
    BY <1>1, FS_AddElement
  <1>3. Cardinality(T) <= Cardinality(S \cup {r})
    BY <1>2, FS_Subset
  <1>4. Cardinality(T) \in Nat
    BY SubsetCounted
  <1> QED
    BY <1>1, <1>2, <1>3, <1>4

(***************************************************************************)
(* A request that takes no connection it did not have.                     *)
(***************************************************************************)
TakesNone(r) ==
    /\ request'[r].pc \in InTransaction => request[r].pc \in InTransaction
    /\ request'[r].pc \in InStatement => request[r].pc \in InStatement

LEMMA NoneTaken ==
    ASSUME Used <= PoolSize, \A r \in Requests : TakesNone(r),
           poller'.pc = "querying" => poller.pc = "querying"
    PROVE  Used' <= PoolSize
  <1>1. Holders' \subseteq Holders /\ Statements' \subseteq Statements
    BY DEF Holders, Statements, TakesNone
  <1>2. /\ Holders \in SUBSET Requests /\ Statements \in SUBSET Requests
        /\ Holders' \in SUBSET Requests /\ Statements' \in SUBSET Requests
    BY DEF Holders, Statements
  <1>3. /\ Cardinality(Holders) \in Nat /\ Cardinality(Holders') \in Nat
        /\ Cardinality(Statements) \in Nat /\ Cardinality(Statements') \in Nat
        /\ IsFiniteSet(Holders) /\ IsFiniteSet(Statements)
    BY <1>2, SubsetCounted
  <1>4. /\ Cardinality(Holders') <= Cardinality(Holders)
        /\ Cardinality(Statements') <= Cardinality(Statements)
    BY <1>1, <1>3, FS_Subset
  <1> QED
    BY <1>3, <1>4, ServerAssumption DEF Used

(***************************************************************************)
(* A connection is taken only when one is free.                            *)
(***************************************************************************)
LEMMA OneTaken ==
    ASSUME PoolInvariant, NEW r \in Requests, Acquire(r)
    PROVE  Used' <= PoolSize
  <1>1. request[r].pc \in {"ask_purpose", "ask_insert", "ask_tx", "ask_account"}
    BY AskingStates DEF Acquire
  <1>2. /\ Granted["ask_purpose"] = "read_purpose" /\ Granted["ask_insert"] = "insert"
        /\ Granted["ask_tx"] = "tx" /\ Granted["ask_account"] = "read_account"
    BY DEF Granted
  <1>3. Granted[request[r].pc] \in PCs
    BY <1>1, <1>2 DEF PCs, InStatement, InTransaction
  <1>4. /\ request'[r].pc = Granted[request[r].pc]
        /\ \A q \in Requests \ {r} : request'[q] = request[q]
    BY <1>3, MoveRequest DEF Acquire, PoolInvariant
  <1>5. /\ Holders \in SUBSET Requests /\ Statements \in SUBSET Requests
        /\ Holders' \in SUBSET Requests /\ Statements' \in SUBSET Requests
    BY DEF Holders, Statements
  <1>6. \/ Holders' \subseteq Holders \cup {r} /\ Statements' \subseteq Statements
        \/ Holders' \subseteq Holders /\ Statements' \subseteq Statements \cup {r}
    <2>1. CASE request[r].pc = "ask_tx"
      BY <1>2, <1>4, <2>1 DEF Holders, Statements, InTransaction, InStatement
    <2>2. CASE request[r].pc = "ask_account"
      BY <1>2, <1>4, <2>2 DEF Holders, Statements, InTransaction, InStatement
    <2>3. CASE request[r].pc \in {"ask_purpose", "ask_insert"}
      BY <1>2, <1>4, <2>3 DEF Holders, Statements, InTransaction, InStatement
    <2> QED
      BY <1>1, <2>1, <2>2, <2>3
  <1>7. /\ Cardinality(Holders) \in Nat /\ Cardinality(Holders') \in Nat
        /\ Cardinality(Statements) \in Nat /\ Cardinality(Statements') \in Nat
        /\ IsFiniteSet(Holders) /\ IsFiniteSet(Statements)
    BY <1>5, SubsetCounted
  <1>8. Cardinality(Holders') + Cardinality(Statements')
          <= Cardinality(Holders) + Cardinality(Statements) + 1
    <2>1. CASE Holders' \subseteq Holders \cup {r} /\ Statements' \subseteq Statements
      <3>1. Cardinality(Holders') <= Cardinality(Holders) + 1
        BY <1>5, <2>1, OneMore
      <3>2. Cardinality(Statements') <= Cardinality(Statements)
        BY <1>7, <2>1, FS_Subset
      <3> QED
        BY <1>7, <3>1, <3>2
    <2>2. CASE Holders' \subseteq Holders /\ Statements' \subseteq Statements \cup {r}
      <3>1. Cardinality(Holders') <= Cardinality(Holders)
        BY <1>7, <2>2, FS_Subset
      <3>2. Cardinality(Statements') <= Cardinality(Statements) + 1
        BY <1>5, <2>2, OneMore
      <3> QED
        BY <1>7, <3>1, <3>2
    <2> QED
      BY <1>6, <2>1, <2>2
  <1>9. poller' = poller /\ Used < PoolSize
    BY DEF Acquire, CanAcquire
  <1> QED
    BY <1>7, <1>8, <1>9, ServerAssumption DEF Used

(***************************************************************************)
(* Any other step of a request frees connections or leaves them alone.     *)
(***************************************************************************)
LEMMA OthersTakeNone ==
    ASSUME PoolInvariant, NEW r \in Requests, Arrive(r) \/ Handle(r) \/ Drop(r), ~Acquire(r)
    PROVE  \A q \in Requests : TakesNone(q)
  <1>0. /\ Typed /\ Ended \subseteq PCs /\ InTransaction \subseteq PCs
        /\ Asking \subseteq PCs /\ "make_accounts" \in PCs
    BY DEF PoolInvariant, PCs
  <1>1. ASSUME NEW from, NEW to \in PCs,
               Step(r, from, to),
               to \in InTransaction => from \in InTransaction,
               to \in InStatement => from \in InStatement
        PROVE  \A q \in Requests : TakesNone(q)
    <2>1. request'[r].pc = to /\ \A q \in Requests \ {r} : request'[q] = request[q]
      BY <1>0, <1>1, MoveRequest DEF Step
    <2> QED
      BY <1>1, <2>1 DEF TakesNone, Step
  <1>2. ASSUME NEW new \in Request, request' = [request EXCEPT ![r] = new],
               new.pc \notin InTransaction \cup InStatement
        PROVE  \A q \in Requests : TakesNone(q)
    <2>1. request'[r] = new /\ \A q \in Requests \ {r} : request'[q] = request[q]
      BY <1>0, <1>2, SetRequest
    <2> QED
      BY <1>2, <2>1 DEF TakesNone
  <1>3. CASE Arrive(r)
    <2>1. CASE \E to \in {"ask_purpose", "make_accounts"} :
                 request' = [request EXCEPT ![r].pc = to]
      <3>1. PICK to \in {"ask_purpose", "make_accounts"} :
              request' = [request EXCEPT ![r].pc = to]
        BY <2>1
      <3>2. to \in PCs
        BY <1>0, AskingStates
      <3>3. Step(r, "idle", to)
        BY <1>3, <3>1 DEF Arrive, Step
      <3> QED
        BY <1>1, <3>2, <3>3 DEF InTransaction, InStatement
    <2>2. CASE \E p \in Payments \cup {NoPayment} :
                 request' = [request EXCEPT ![r] = [pc |-> "ask_tx", refunds |-> p]]
      <3>1. PICK p \in Payments \cup {NoPayment} :
              request' = [request EXCEPT ![r] = [pc |-> "ask_tx", refunds |-> p]]
        BY <2>2
      <3>2. [pc |-> "ask_tx", refunds |-> p] \in Request
        BY AskingStates DEF Request
      <3> QED
        BY <1>2, <3>1, <3>2 DEF InTransaction, InStatement
    <2> QED
      BY <1>3, <2>1, <2>2 DEF Arrive
  <1>4. CASE TimesOut(r)
    BY <1>2, <1>4, Over DEF TimesOut, Ended, InTransaction, InStatement
  <1>5. CASE Drop(r)
    BY <1>2, <1>5, Over DEF Drop, Ended, InTransaction, InStatement
  <1>6. CASE ReadPurpose(r) \/ MakeAccounts(r) \/ InsertRow(r)
    <2>1. PICK from \in {"read_purpose", "make_accounts", "insert"},
               to \in {"make_accounts", "ask_insert", "done", "failed"} : Step(r, from, to)
      BY <1>6 DEF ReadPurpose, MakeAccounts, InsertRow
    <2>2. to \in PCs
      BY <1>0, AskingStates DEF Ended
    <2> QED
      BY <1>1, <2>1, <2>2 DEF InTransaction, InStatement
  <1>7. CASE Begin(r) \/ ReadAccount(r) \/ Finish(r)
    <2>1. PICK from \in {"tx", "read_account", "move"},
               to \in {"move", "ask_account", "done", "failed"} : Step(r, from, to)
      BY <1>7 DEF Begin, ReadAccount, Finish
    <2>2. to \in PCs
      BY <1>0 DEF Ended, InTransaction
    <2> QED
      BY <1>1, <2>1, <2>2 DEF InTransaction, InStatement
  <1> QED
    BY <1>3, <1>4, <1>5, <1>6, <1>7 DEF Handle

TypeInvariant == PoolInvariant /\ TypeOK

Pollers == [pc : {"asleep", "finding", "voiding", "querying"}, left : 0 .. MaxFound + 1]

LEMMA OnwardType ==
    ASSUME NEW left \in Int, left <= MaxFound + 1
    PROVE  Onward(left) \in Pollers /\ Onward(left).pc # "querying"
  BY ServerAssumption DEF Onward, Pollers, IdlePoller

LEMMA TypeInit == Init => TypeInvariant
<1> SUFFICES ASSUME Init PROVE TypeOK
  BY PoolInit DEF TypeInvariant
<1>1. Holders = {} /\ Statements = {}
  BY DEF Init, IdleRequest, Holders, Statements, InTransaction, InStatement
<1>2. Used = 0
  BY <1>1, FS_EmptySet DEF Used, Init, IdlePoller
<1>3. request \in [Requests -> Request] /\ ledger \subseteq Requests /\ rows \subseteq Requests
  BY PoolInit DEF PoolInvariant, Typed
<1>4. up \in BOOLEAN
  BY DEF Init
<1>5. /\ poller \in [pc : {"asleep", "finding", "voiding", "querying"},
                     left : 0 .. MaxFound + 1]
      /\ restarts \in 0 .. MaxRestarts /\ Used <= PoolSize
  BY <1>2, ServerAssumption DEF Init, IdlePoller
<1> QED
  BY <1>3, <1>4, <1>5 DEF TypeOK

(***************************************************************************)
(* The poller's statements share the pool with the requests.               *)
(***************************************************************************)
LEMMA PollKeeps ==
    ASSUME TypeInvariant, Tick \/ Poll
    PROVE  poller' \in Pollers /\ Used' <= PoolSize
  <1>1. /\ request' = request /\ poller \in Pollers /\ Used <= PoolSize
        /\ \A r \in Requests : TakesNone(r)
    BY DEF Tick, Poll, PollerAcquires, PollerAnswered, PollerTimesOut, TypeInvariant,
           TypeOK, TakesNone, Pollers
  <1>2. CASE Tick
    BY <1>1, <1>2, NoneTaken, ServerAssumption DEF Tick, Pollers
  <1>3. CASE PollerAcquires
    <2>1. poller' \in Pollers
      BY <1>1, <1>3, ServerAssumption DEF PollerAcquires, Pollers
    <2>2. Holders \in SUBSET Requests /\ Statements \in SUBSET Requests
      BY DEF Holders, Statements
    <2>3. Cardinality(Holders) \in Nat /\ Cardinality(Statements) \in Nat
      BY <2>2, SubsetCounted
    <2>4. Holders' = Holders /\ Statements' = Statements
      BY <1>1 DEF Holders, Statements
    <2>5. Used < PoolSize /\ poller.pc # "querying"
      BY <1>3 DEF PollerAcquires, CanAcquire
    <2> QED
      BY <2>1, <2>3, <2>4, <2>5, ServerAssumption DEF Used
  <1>4. CASE PollerAnswered
    <2>1. PICK left \in IF poller.left > MaxFound THEN 0 .. MaxFound ELSE {poller.left - 1} :
            poller' = Onward(left)
      BY <1>4 DEF PollerAnswered
    <2>2. left \in Int /\ left <= MaxFound + 1
      BY <1>1, <2>1, ServerAssumption DEF Pollers
    <2> QED
      BY <1>1, <2>1, <2>2, OnwardType, NoneTaken
  <1>5. CASE PollerTimesOut
    <2>1. poller' = IdlePoller \/ poller' = Onward(poller.left - 1)
      BY <1>5 DEF PollerTimesOut
    <2>2. IdlePoller \in Pollers /\ IdlePoller.pc # "querying"
      BY ServerAssumption DEF IdlePoller, Pollers
    <2>3. poller.left - 1 \in Int /\ poller.left - 1 <= MaxFound + 1
      BY <1>1, ServerAssumption DEF Pollers
    <2> QED
      BY <1>1, <2>1, <2>2, <2>3, OnwardType, NoneTaken
  <1> QED
    BY <1>2, <1>3, <1>4, <1>5 DEF Poll

LEMMA TypeStep == TypeInvariant /\ [Next]_vars => TypeInvariant'
<1> SUFFICES ASSUME TypeInvariant, [Next]_vars PROVE TypeOK'
  BY PoolStep DEF TypeInvariant
<1>1. PoolInvariant' /\ PoolInvariant
  BY PoolStep DEF TypeInvariant
<1>2. /\ request' \in [Requests -> Request]
      /\ ledger' \subseteq Requests /\ rows' \subseteq Requests
  BY <1>1 DEF PoolInvariant, Typed
<1>3. /\ up \in BOOLEAN /\ restarts \in 0 .. MaxRestarts /\ poller \in Pollers
      /\ Used <= PoolSize
  BY DEF TypeInvariant, TypeOK, Pollers
<1>4. ASSUME NEW r \in Requests, Arrive(r) \/ Handle(r) \/ Drop(r) PROVE TypeOK'
  <2>1. up' = up /\ restarts' = restarts /\ poller' = poller
    BY <1>4 DEF Arrive, Handle, Drop, Acquire, TimesOut, ReadPurpose, MakeAccounts,
                InsertRow, Begin, ReadAccount, Finish
  <2>2. Used' <= PoolSize
    <3>1. CASE Acquire(r)
      BY <1>1, <3>1, OneTaken
    <3>2. CASE ~Acquire(r)
      BY <1>1, <1>3, <1>4, <2>1, <3>2, OthersTakeNone, NoneTaken
    <3> QED
      BY <3>1, <3>2
  <2> QED
    BY <1>2, <1>3, <2>1, <2>2 DEF TypeOK, Pollers
<1>5. CASE Tick \/ Poll
  <2>1. up' = up /\ restarts' = restarts
    BY <1>5 DEF Tick, Poll, PollerAcquires, PollerAnswered, PollerTimesOut
  <2> QED
    BY <1>2, <1>3, <1>5, <2>1, PollKeeps DEF TypeOK, Pollers
<1>6. CASE Start
  <2>1. \A r \in Requests : TakesNone(r)
    BY <1>6 DEF Start, TakesNone
  <2> QED
    BY <1>2, <1>3, <1>6, <2>1, NoneTaken DEF Start, TypeOK, Pollers
<1>7. CASE Die
  <2>1. \A r \in Requests : TakesNone(r)
    BY <1>7, Over DEF Die, TakesNone, Ended, InTransaction, InStatement
  <2>2. poller' \in Pollers /\ poller'.pc # "querying"
    BY <1>7, ServerAssumption DEF Die, IdlePoller, Pollers
  <2>3. restarts' \in 0 .. MaxRestarts
    <3>1. restarts' = restarts + 1 /\ restarts < MaxRestarts
      BY <1>7 DEF Die
    <3> QED
      BY <1>3, <3>1, ServerAssumption
  <2>4. up' \in BOOLEAN
    BY <1>7 DEF Die
  <2> QED
    BY <1>2, <1>3, <2>1, <2>2, <2>3, <2>4, NoneTaken DEF TypeOK, Pollers
<1>8. CASE UNCHANGED vars
  <2>1. \A r \in Requests : TakesNone(r)
    BY <1>8 DEF vars, TakesNone
  <2> QED
    BY <1>2, <1>3, <1>8, <2>1, NoneTaken DEF vars, TypeOK, Pollers
<1> QED
  BY <1>4, <1>5, <1>6, <1>7, <1>8 DEF Next

(***************************************************************************)
(* Types, and no more connections in use than the pool has, for every      *)
(* number of requests and every size of the pool.                          *)
(***************************************************************************)
THEOREM TypeCorrect == Spec => []TypeOK
<1>1. TypeInvariant => TypeOK
  BY DEF TypeInvariant
<1> QED
  BY <1>1, TypeInit, TypeStep, PTL DEF Spec
=============================================================================
