--------------------------- MODULE Deposit_proofs ---------------------------
(***************************************************************************)
(* What holds of deposits and withdrawals for any number of them, of       *)
(* verdicts, keys, amounts and lost statements, with and without an        *)
(* operator in the explorer.                                               *)
(***************************************************************************)
EXTENDS Deposit, Sums_proofs

PCs == {"idle"} \cup Working \cup Answered \cup Gone

LEMMA ConstantsType ==
    /\ MaxFaults \in Nat /\ Amounts \subseteq Nat
    /\ NoMove \notin Moves /\ IsFiniteSet(Moves) /\ NoKey \notin Keys
    /\ Deposits \cap Withdrawals = {} /\ Explorer \in BOOLEAN
  BY DepositAssumption

-----------------------------------------------------------------------------
(* How the handlers change their records.                                  *)

\* The handler's transfer is at TigerBeetle.
Sent == {"moved", "orphaned", "done"}

LEMMA MoveCall ==
    ASSUME Types, NEW m \in Moves, NEW from, NEW to \in PCs, Step(m, from, to)
    PROVE  /\ call' \in [Moves -> Call]
           /\ call[m].pc = from /\ call'[m].pc = to
           /\ call'[m].account = call[m].account /\ call'[m].place = call[m].place
           /\ call'[m].pending = call[m].pending /\ call'[m].amount = call[m].amount
           /\ call'[m].key = call[m].key
           /\ \A q \in Moves \ {m} : call'[q] = call[q]
  <1>1. call' = [call EXCEPT ![m].pc = to] /\ call[m].pc = from
    BY DEF Step
  <1>2. call' \in [Moves -> Call]
    BY <1>1 DEF Types, Call, PCs
  <1>3. /\ call'[m].pc = to
        /\ call'[m].account = call[m].account /\ call'[m].place = call[m].place
        /\ call'[m].pending = call[m].pending /\ call'[m].amount = call[m].amount
        /\ call'[m].key = call[m].key
    BY <1>1 DEF Types, Call
  <1>4. \A q \in Moves \ {m} : call'[q] = call[q]
    BY <1>1 DEF Types
  <1> QED
    BY <1>1, <1>2, <1>3, <1>4

LEMMA IdleCallType == IdleCall \in Call
  BY ConstantsType DEF IdleCall, Call, Accounts, Places

LEMMA LeaveCall ==
    ASSUME Types, NEW m \in Moves, NEW from, NEW how \in {"answered", "lost"},
           Leave(m, from, how)
    PROVE  /\ call' \in [Moves -> Call]
           /\ call[m].pc = from /\ call'[m].pc = how
           /\ \A q \in Moves \ {m} : call'[q] = call[q]
  <1> DEFINE new == [IdleCall EXCEPT !.pc = how]
  <1>1. \A c \in Call : [c EXCEPT !.pc = how] \in Call /\ [c EXCEPT !.pc = how].pc = how
    BY DEF Call, Answered, Gone
  <1>2. new \in Call /\ new.pc = how
    BY <1>1, IdleCallType
  <1>3. call' = [call EXCEPT ![m] = new] /\ call[m].pc = from
    BY DEF Leave
  <1> HIDE DEF new
  <1> QED
    BY <1>2, <1>3 DEF Types

LEMMA BeginCall ==
    ASSUME Types, NEW m \in Moves, Begin(m)
    PROVE  /\ call' \in [Moves -> Call]
           /\ call[m].pc = "idle" /\ call'[m].pc \in {"begun", "answered"}
           /\ m \in Withdrawals /\ call'[m].pc = "begun" =>
                 /\ call'[m].account = "normal" /\ call'[m].place = "normal"
                 /\ call'[m].pending = FALSE
           /\ \A q \in Moves \ {m} : call'[q] = call[q]
  <1>1. PICK account \in IF m \in Withdrawals THEN {"normal"} ELSE Accounts,
             pending \in IF m \in Withdrawals THEN {FALSE} ELSE BOOLEAN,
             amount \in Amounts, key \in Keys \cup {NoKey} :
          \/ Leave(m, "idle", "answered")
          \/ call' = [call EXCEPT ![m] =
                        [pc |-> "begun", account |-> account,
                         place |-> IF account = "normal" THEN "normal" ELSE "self",
                         pending |-> pending, amount |-> amount, key |-> key]]
    BY DEF Begin
  <1>2. call[m].pc = "idle"
    BY DEF Begin
  <1>3. CASE Leave(m, "idle", "answered")
    BY <1>2, <1>3, LeaveCall
  <1>4. CASE call' = [call EXCEPT ![m] =
                        [pc |-> "begun", account |-> account,
                         place |-> IF account = "normal" THEN "normal" ELSE "self",
                         pending |-> pending, amount |-> amount, key |-> key]]
    <2> DEFINE place == IF account = "normal" THEN "normal" ELSE "self"
               new == [pc |-> "begun", account |-> account, place |-> place,
                       pending |-> pending, amount |-> amount, key |-> key]
    <2>1. account \in Accounts /\ pending \in BOOLEAN /\ place \in Places
      BY DEF Accounts, Places
    <2>2. m \in Withdrawals => account = "normal" /\ pending = FALSE /\ place = "normal"
      OBVIOUS
    <2>3. call' = [call EXCEPT ![m] = new]
      BY <1>4
    <2> HIDE DEF place
    <2>4. new \in Call
      BY <2>1, ConstantsType DEF Call, Working
    <2>5. new.pc = "begun" /\ new.account = account /\ new.place = place
          /\ new.pending = pending
      OBVIOUS
    <2> HIDE DEF new
    <2>6. call' \in [Moves -> Call] /\ call'[m] = new
          /\ \A q \in Moves \ {m} : call'[q] = call[q]
      BY <2>3, <2>4 DEF Types
    <2> QED
      BY <1>2, <2>2, <2>5, <2>6
  <1> QED
    BY <1>1, <1>3, <1>4

LEMMA AdmitCall ==
    ASSUME Types, NEW m \in Moves, Admit(m)
    PROVE  /\ call' \in [Moves -> Call]
           /\ call[m].pc = "begun" /\ call'[m].pc \in {"admitted", "ready", "answered"}
           /\ call'[m].pc # "answered" =>
                 /\ call'[m].account = call[m].account
                 /\ call'[m].pending = call[m].pending
                 /\ call[m].account = "normal" => call'[m].place = "normal"
           /\ \A q \in Moves \ {m} : call'[q] = call[q]
  <1>1. PICK originMatch \in BOOLEAN,
             funding \in {"none", "self", "third_party", "trust"} :
          LET places == IF call[m].account = "normal" THEN {"normal"}
                        ELSE Funded(originMatch, funding)
          IN  \/ \E place \in places :
                    call' = [call EXCEPT ![m].place = place,
                               ![m].pc = IF m \in Withdrawals THEN "admitted" ELSE "ready"]
              \/ Leave(m, "begun", "answered")
    BY DEF Admit
  <1>2. call[m].pc = "begun"
    BY DEF Admit
  <1>3. CASE Leave(m, "begun", "answered")
    BY <1>2, <1>3, LeaveCall
  <1>4. CASE ~Leave(m, "begun", "answered")
    <2> DEFINE to == IF m \in Withdrawals THEN "admitted" ELSE "ready"
    <2>1. PICK place \in IF call[m].account = "normal" THEN {"normal"}
                         ELSE Funded(originMatch, funding) :
            call' = [call EXCEPT ![m].place = place, ![m].pc = to]
      BY <1>1, <1>4
    <2>2. place \in Places
      BY DEF Funded, Places
    <2>3. call[m].account = "normal" => place = "normal"
      OBVIOUS
    <2>4. to \in {"admitted", "ready"} /\ to \in PCs
      BY DEF PCs, Working
    <2> HIDE DEF to
    <2>5. /\ call'[m].pc = to /\ call'[m].place = place
          /\ call'[m].account = call[m].account /\ call'[m].pending = call[m].pending
          /\ \A q \in Moves \ {m} : call'[q] = call[q]
      BY <2>1 DEF Types, Call
    <2>6. call' \in [Moves -> Call]
      <3> DEFINE new == [call[m] EXCEPT !.place = place, !.pc = to]
      <3>1. \A c \in Call : [c EXCEPT !.place = place, !.pc = to] \in Call
        BY <2>2, <2>4 DEF Call, PCs
      <3>2. new \in Call
        BY <3>1 DEF Types
      <3>3. call' = [call EXCEPT ![m] = new]
        BY <2>1 DEF Types, Call
      <3> HIDE DEF new
      <3> QED
        BY <3>2, <3>3 DEF Types
    <2> QED
      BY <1>2, <2>3, <2>4, <2>5, <2>6
  <1> QED
    BY <1>3, <1>4

-----------------------------------------------------------------------------
(* The inductive invariant.                                                *)

\* A withdrawal is an immediate request of the normal account.
Kinds ==
    \A w \in Withdrawals :
        call[w].pc \in Working \cup Sent =>
            call[w].account = "normal" /\ call[w].place = "normal" /\ call[w].pending = FALSE

\* TigerBeetle has a transfer of exactly the calls that sent one, and an
\* immediate one is posted for good.
Ledger ==
    \A m \in Moves :
        /\ tb[m] # "absent" <=> call[m].pc \in Sent
        /\ call[m].pc \in Sent /\ call[m].pending = FALSE => tb[m] = "posted"

Rows ==
    \A m \in Moves :
        /\ status[m] # "none" => call[m].pc = "done"
        /\ m \in Withdrawals => status[m] \in {"none", "settled"}

\* What is under way on a row concerns a committed deposit, and an accepted
\* verdict is what TigerBeetle made of the transfer.
Pursued ==
    /\ \A m \in overdue : m \in Deposits /\ status[m] # "none"
    /\ \A e \in Endings :
         /\ ending[e].pc # "idle" =>
               ending[e].move \in Deposits /\ status[ending[e].move] # "none"
         /\ ending[e].pc = "applied" => tb[ending[e].move] = ending[e].verdict

Live(m) == Open(m) \/ Committed(m)

OneLivePerKey ==
    \A m, q \in Moves : m # q /\ Live(m) /\ Live(q) => ~SameKey(m, q)

Shape == Types /\ Kinds /\ Ledger /\ Rows /\ Pursued

-----------------------------------------------------------------------------
(* What a handler does before its transfer is sent, and when it dies: it   *)
(* touches neither rows nor money.                                         *)

Quiet(m) ==
    Begin(m) \/ Admit(m) \/ ReadBalance(m) \/ InsertRow(m) \/ Rejected(m) \/ Fail(m)

LEMMA QuietCall ==
    ASSUME Types, Kinds, NEW m \in Moves, Quiet(m)
    PROVE  /\ call' \in [Moves -> Call]
           /\ \/ call[m].pc \notin Sent /\ call'[m].pc \notin Sent
              \/ /\ call[m].pc = "moved" /\ call'[m].pc = "orphaned"
                 /\ call'[m].place = call[m].place /\ call'[m].amount = call[m].amount
                 /\ call'[m].pending = call[m].pending
           /\ m \in Withdrawals /\ call'[m].pc \in Working \cup Sent =>
                 /\ call'[m].account = "normal" /\ call'[m].place = "normal"
                 /\ call'[m].pending = FALSE
           /\ call'[m].pc = "inserted" =>
                 InsertRow(m) /\ call'[m].account = call[m].account /\ call'[m].key = call[m].key
           /\ \A q \in Moves \ {m} : call'[q] = call[q]
           /\ UNCHANGED <<status, tb, ending, overdue>> /\ faults' \in 0 .. MaxFaults
  <1>1. UNCHANGED <<status, tb, ending, overdue>>
    BY DEF Quiet, Begin, Admit, ReadBalance, InsertRow, Rejected, Fail
  <1>2. faults' \in 0 .. MaxFaults
    <2>1. faults' = faults \/ (faults < MaxFaults /\ faults' = faults + 1)
      BY DEF Quiet, Begin, Admit, ReadBalance, InsertRow, Rejected, Fail
    <2> QED
      BY <2>1, ConstantsType DEF Types
  <1>3. \/ \E from \in Working \ {"moved"}, how \in {"answered", "lost"} : Leave(m, from, how)
        \/ Step(m, "admitted", "ready")
        \/ Step(m, "ready", "inserted") /\ InsertRow(m)
        \/ Step(m, "moved", "orphaned")
        \/ Begin(m)
        \/ Admit(m)
    BY DEF Quiet, ReadBalance, InsertRow, Rejected, Fail, Working
  <1>4. CASE \E from \in Working \ {"moved"}, how \in {"answered", "lost"} : Leave(m, from, how)
    <2>1. PICK from \in Working \ {"moved"}, how \in {"answered", "lost"} : Leave(m, from, how)
      BY <1>4
    <2> QED
      BY <1>1, <1>2, <2>1, LeaveCall DEF Working, Sent
  <1>5. CASE Step(m, "admitted", "ready")
    BY <1>1, <1>2, <1>5, MoveCall DEF Working, Sent, PCs, Kinds
  <1>6. CASE Step(m, "ready", "inserted") /\ InsertRow(m)
    BY <1>1, <1>2, <1>6, MoveCall DEF Working, Sent, PCs, Kinds
  <1>7. CASE Step(m, "moved", "orphaned")
    BY <1>1, <1>2, <1>7, MoveCall DEF Working, Sent, PCs, Gone, Kinds
  <1>8. CASE Begin(m)
    BY <1>1, <1>2, <1>8, BeginCall DEF Working, Sent
  <1>9. CASE Admit(m)
    BY <1>1, <1>2, <1>9, AdmitCall DEF Working, Sent, Kinds
  <1> QED
    BY <1>3, <1>4, <1>5, <1>6, <1>7, <1>8, <1>9

\* MoveMoney and Commit carry a call on.
LEMMA CarryCall ==
    ASSUME Types, NEW m \in Moves, MoveMoney(m) \/ Commit(m)
    PROVE  /\ call' \in [Moves -> Call]
           /\ \/ MoveMoney(m) /\ call[m].pc = "inserted" /\ call'[m].pc = "moved"
              \/ Commit(m) /\ call[m].pc = "moved" /\ call'[m].pc = "done"
           /\ call'[m].account = call[m].account /\ call'[m].place = call[m].place
           /\ call'[m].pending = call[m].pending /\ call'[m].amount = call[m].amount
           /\ call'[m].key = call[m].key
           /\ \A q \in Moves \ {m} : call'[q] = call[q]
  <1>1. CASE MoveMoney(m)
    <2>1. Step(m, "inserted", "moved")
      BY <1>1 DEF MoveMoney
    <2> QED
      BY <1>1, <2>1, MoveCall DEF PCs, Working
  <1>2. CASE Commit(m)
    <2>1. Step(m, "moved", "done")
      BY <1>2 DEF Commit
    <2> QED
      BY <1>2, <2>1, MoveCall DEF PCs, Answered
  <1> QED
    BY <1>1, <1>2

LEMMA IdleEndingType == IdleEnding \in Ending
  BY DEF IdleEnding, Ending, Verdicts

\* The steps of a call that posts or voids.
LEMMA EndingStep ==
    ASSUME Types, NEW e \in Endings, End(e) \/ LoseEnding(e)
    PROVE  /\ ending' \in [Endings -> Ending]
           /\ \A x \in Endings \ {e} : ending'[x] = ending[x]
           /\ \/ /\ ReadRow(e) /\ ending'[e].pc = "read"
                 /\ ending'[e].move \in Moves /\ status[ending'[e].move] = "pending"
              \/ /\ ApplyVerdict(e) /\ ending[e].pc = "read"
                 /\ ending'[e].pc = "applied" /\ ending'[e].move = ending[e].move
                 /\ ending'[e].verdict = ending[e].verdict
                 /\ Answer(tb[ending[e].move]) = "ok"
              \/ ending'[e].pc = "idle"
           /\ UNCHANGED <<call, overdue>> /\ faults' \in 0 .. MaxFaults
  <1>1. UNCHANGED <<call, overdue>> /\ faults' \in 0 .. MaxFaults
    <2>1. faults' = faults \/ (faults < MaxFaults /\ faults' = faults + 1)
      BY DEF End, ReadRow, ApplyVerdict, UpdateRow, LoseEnding
    <2> QED
      BY <2>1, ConstantsType
      DEF End, ReadRow, ApplyVerdict, UpdateRow, LoseEnding, Types
  <1>2. ASSUME NEW new \in Ending, ending' = [ending EXCEPT ![e] = new]
        PROVE  /\ ending' \in [Endings -> Ending] /\ ending'[e] = new
               /\ \A x \in Endings \ {e} : ending'[x] = ending[x]
    BY <1>2 DEF Types
  <1>3. CASE ReadRow(e)
    <2>1. PICK m \in Moves, verdict \in Verdicts :
            /\ status[m] = "pending"
            /\ ending' = [ending EXCEPT ![e] = [pc |-> "read", move |-> m, verdict |-> verdict]]
      BY <1>3 DEF ReadRow
    <2>2. [pc |-> "read", move |-> m, verdict |-> verdict] \in Ending
      BY DEF Ending
    <2> QED
      BY <1>1, <1>2, <1>3, <2>1, <2>2
  <1>4. CASE ApplyVerdict(e)
    <2>1. \A x \in Ending : /\ [x EXCEPT !.pc = "applied"] \in Ending
                            /\ [x EXCEPT !.pc = "applied"].pc = "applied"
                            /\ [x EXCEPT !.pc = "applied"].move = x.move
                            /\ [x EXCEPT !.pc = "applied"].verdict = x.verdict
      BY DEF Ending
    <2>2. ending[e] \in Ending /\ ending[e].pc = "read"
      BY <1>4 DEF Types, ApplyVerdict
    <2> DEFINE new == [ending[e] EXCEPT !.pc = "applied"]
    <2>3. \/ ending' = [ending EXCEPT ![e] = new] /\ Answer(tb[ending[e].move]) = "ok"
          \/ ending' = [ending EXCEPT ![e] = IdleEnding]
      BY <1>4 DEF ApplyVerdict
    <2>4. /\ new \in Ending /\ new.pc = "applied"
          /\ new.move = ending[e].move /\ new.verdict = ending[e].verdict
      BY <2>1, <2>2
    <2>5. IdleEnding.pc = "idle"
      BY DEF IdleEnding
    <2> HIDE DEF new
    <2>6. CASE ending' = [ending EXCEPT ![e] = new] /\ Answer(tb[ending[e].move]) = "ok"
      BY <1>1, <1>2, <1>4, <2>2, <2>4, <2>6
    <2>7. CASE ending' = [ending EXCEPT ![e] = IdleEnding]
      BY <1>1, <1>2, <2>5, <2>7, IdleEndingType
    <2> QED
      BY <2>3, <2>6, <2>7
  <1>5. CASE UpdateRow(e) \/ LoseEnding(e)
    <2>1. ending' = [ending EXCEPT ![e] = IdleEnding] /\ IdleEnding.pc = "idle"
      BY <1>5 DEF UpdateRow, LoseEnding, IdleEnding
    <2> QED
      BY <1>1, <1>2, <2>1, IdleEndingType
  <1> QED
    BY <1>3, <1>4, <1>5 DEF End

-----------------------------------------------------------------------------

LEMMA ShapeInit == Init => Shape
<1> SUFFICES ASSUME Init PROVE Shape
  OBVIOUS
<1>1. faults \in 0 .. MaxFaults
  BY ConstantsType DEF Init
<1>2. Types
  BY <1>1, IdleCallType, IdleEndingType DEF Init, Types, TransferStates
<1>3. \A m \in Moves : call[m].pc = "idle" /\ tb[m] = "absent" /\ status[m] = "none"
  BY DEF Init, IdleCall
<1>4. Kinds /\ Ledger /\ Rows
  BY <1>3 DEF Kinds, Ledger, Rows, Working, Sent, Moves
<1>5. Pursued
  BY DEF Init, IdleEnding, Pursued
<1> QED
  BY <1>2, <1>4, <1>5 DEF Shape

LEMMA QuietKeepsShape ==
    ASSUME Shape, NEW m \in Moves, Quiet(m)
    PROVE  Shape'
  <1>1. /\ call' \in [Moves -> Call]
        /\ \/ call[m].pc \notin Sent /\ call'[m].pc \notin Sent
           \/ /\ call[m].pc = "moved" /\ call'[m].pc = "orphaned"
              /\ call'[m].pending = call[m].pending
        /\ m \in Withdrawals /\ call'[m].pc \in Working \cup Sent =>
              /\ call'[m].account = "normal" /\ call'[m].place = "normal"
              /\ call'[m].pending = FALSE
        /\ \A q \in Moves \ {m} : call'[q] = call[q]
        /\ UNCHANGED <<status, tb, ending, overdue>> /\ faults' \in 0 .. MaxFaults
    BY QuietCall DEF Shape
  <1>2. Types'
    BY <1>1 DEF Shape, Types
  <1>3. Kinds'
    BY <1>1 DEF Shape, Kinds, Moves
  <1>4. Ledger'
    BY <1>1 DEF Shape, Ledger, Sent
  <1>5. Rows'
    BY <1>1 DEF Shape, Rows, Sent
  <1>6. Pursued'
    BY <1>1 DEF Shape, Pursued
  <1> QED
    BY <1>2, <1>3, <1>4, <1>5, <1>6 DEF Shape

LEMMA CarryKeepsShape ==
    ASSUME Shape, NEW m \in Moves, MoveMoney(m) \/ Commit(m)
    PROVE  Shape'
  <1>1. /\ call' \in [Moves -> Call]
        /\ \/ MoveMoney(m) /\ call[m].pc = "inserted" /\ call'[m].pc = "moved"
           \/ Commit(m) /\ call[m].pc = "moved" /\ call'[m].pc = "done"
        /\ call'[m].account = call[m].account /\ call'[m].place = call[m].place
        /\ call'[m].pending = call[m].pending /\ call'[m].amount = call[m].amount
        /\ \A q \in Moves \ {m} : call'[q] = call[q]
    BY CarryCall DEF Shape
  <1>2. UNCHANGED <<ending, overdue, faults>>
    BY DEF MoveMoney, Commit
  <1>3. Kinds'
    BY <1>1 DEF Shape, Kinds, Moves, Working, Sent
  <1>4. CASE MoveMoney(m)
    <2>1. /\ UNCHANGED status
          /\ tb' = [tb EXCEPT ![m] = IF call[m].pending THEN "pending" ELSE "posted"]
          /\ call[m].pc = "inserted" /\ call'[m].pc = "moved"
      BY <1>4 DEF MoveMoney, Step, Shape, Types, Call
    <2>2. tb' \in [Moves -> TransferStates] /\ status' = status
      BY <2>1 DEF Shape, Types, TransferStates
    <2>3. /\ tb'[m] \in {"pending", "posted"} /\ (call[m].pending = FALSE => tb'[m] = "posted")
          /\ \A q \in Moves \ {m} : tb'[q] = tb[q]
      BY <2>1 DEF Shape, Types
    <2>4. Types'
      BY <1>1, <1>2, <2>2 DEF Shape, Types
    <2>5. Ledger'
      BY <1>1, <2>1, <2>3 DEF Shape, Ledger, Sent
    <2>6. Rows'
      BY <1>1, <2>1 DEF Shape, Rows
    <2>7. status[m] = "none"
      BY <2>1 DEF Shape, Rows
    <2>8. Pursued'
      BY <1>2, <2>2, <2>3, <2>7 DEF Shape, Pursued, Moves
    <2> QED
      BY <1>3, <2>4, <2>5, <2>6, <2>8 DEF Shape
  <1>5. CASE Commit(m)
    <2> DEFINE new == IF m \in Withdrawals THEN "settled"
                      ELSE IF call[m].pending THEN "pending" ELSE "posted"
    <2>1. /\ UNCHANGED tb /\ status' = [status EXCEPT ![m] = new]
          /\ call[m].pc = "moved" /\ call'[m].pc = "done"
      BY <1>1, <1>5 DEF Commit, Step
    <2>2. new \in {"settled", "pending", "posted"} /\ (m \in Withdrawals => new = "settled")
      OBVIOUS
    <2> HIDE DEF new
    <2>3. /\ status' \in [Moves -> {"none", "pending", "posted", "voided", "settled"}]
          /\ status'[m] = new /\ \A q \in Moves \ {m} : status'[q] = status[q]
      BY <2>1, <2>2 DEF Shape, Types
    <2>4. Types'
      BY <1>1, <1>2, <2>1, <2>3 DEF Shape, Types
    <2>5. Ledger'
      BY <1>1, <2>1 DEF Shape, Ledger, Sent
    <2>6. Rows'
      BY <1>1, <2>1, <2>2, <2>3 DEF Shape, Rows
    <2>7. Pursued'
      BY <1>2, <2>1, <2>2, <2>3 DEF Shape, Pursued, Moves
    <2> QED
      BY <1>3, <2>4, <2>5, <2>6, <2>7 DEF Shape
  <1> QED
    BY <1>4, <1>5

LEMMA EndingKeepsShape ==
    ASSUME Shape, NEW e \in Endings, End(e) \/ LoseEnding(e)
    PROVE  Shape'
  <1>1. /\ ending' \in [Endings -> Ending]
        /\ \A x \in Endings \ {e} : ending'[x] = ending[x]
        /\ \/ /\ ReadRow(e) /\ ending'[e].pc = "read"
              /\ ending'[e].move \in Moves /\ status[ending'[e].move] = "pending"
           \/ /\ ApplyVerdict(e) /\ ending[e].pc = "read"
              /\ ending'[e].pc = "applied" /\ ending'[e].move = ending[e].move
              /\ ending'[e].verdict = ending[e].verdict
              /\ Answer(tb[ending[e].move]) = "ok"
           \/ ending'[e].pc = "idle"
        /\ UNCHANGED <<call, overdue>> /\ faults' \in 0 .. MaxFaults
    BY EndingStep DEF Shape
  <1> DEFINE m == ending[e].move
             v == ending[e].verdict
  <1>2. v \in {"posted", "voided"}
    BY DEF Shape, Types, Ending, Verdicts
  <1>3. Kinds'
    BY <1>1 DEF Shape, Kinds
  <1>4. CASE ReadRow(e) \/ LoseEnding(e)
    <2>1. UNCHANGED <<status, tb>>
      BY <1>4 DEF ReadRow, LoseEnding
    <2>2. ending'[e].pc # "applied"
      BY <1>1, <1>4 DEF ReadRow, LoseEnding, ApplyVerdict, IdleEnding, Types, Shape
    <2>3. Pursued'
      BY <1>1, <2>1, <2>2 DEF Shape, Pursued, Rows, Moves
    <2> QED
      BY <1>1, <1>3, <2>1, <2>3 DEF Shape, Types, Ledger, Rows
  <1>5. CASE ApplyVerdict(e)
    <2>1. /\ m \in Deposits /\ m \in Moves /\ status[m] # "none" /\ UNCHANGED status
          /\ tb' = [tb EXCEPT ![m] = Resolved(tb[m], v)] /\ ending[e].pc = "read"
      BY <1>5 DEF ApplyVerdict, Shape, Pursued, Moves
    <2>2. /\ tb'[m] = (IF tb[m] = "pending" THEN v ELSE tb[m])
          /\ \A q \in Moves \ {m} : tb'[q] = tb[q]
      BY <2>1 DEF Shape, Types, Resolved
    <2>3. tb' \in [Moves -> TransferStates]
      BY <1>2, <2>1 DEF Shape, Types, Resolved, TransferStates
    <2>4. tb[m] # "pending" => tb' = tb
      BY <2>1 DEF Shape, Types, Resolved
    <2>5. Answer(tb[m]) = "ok" => tb[m] = "pending"
      BY DEF Answer, Verdicts
    <2>6. Types'
      BY <1>1, <2>1, <2>3 DEF Shape, Types
    <2>7. Ledger'
      BY <1>1, <1>2, <2>2 DEF Shape, Ledger
    <2>8. Rows'
      BY <1>1, <2>1 DEF Shape, Rows
    <2>9. ASSUME NEW x \in Endings
          PROVE  /\ ending'[x].pc # "idle" =>
                      ending'[x].move \in Deposits /\ status'[ending'[x].move] # "none"
                 /\ ending'[x].pc = "applied" => tb'[ending'[x].move] = ending'[x].verdict
      <3>1. CASE x = e
        <4>1. \/ /\ ending'[e].pc = "applied" /\ ending'[e].move = m /\ ending'[e].verdict = v
                 /\ tb[m] = "pending"
              \/ ending'[e].pc = "idle"
          BY <1>1, <1>5, <2>5 DEF ReadRow, ApplyVerdict
        <4> QED
          BY <2>1, <2>2, <3>1, <4>1
      <3>2. CASE x # e
        <4>1. ending'[x] = ending[x]
          BY <1>1, <3>2
        <4>2. ending[x].pc = "applied" => tb[ending[x].move] \in {"posted", "voided"}
          BY DEF Shape, Pursued, Types, Ending, Verdicts
        <4>3. ending[x].pc = "applied" => ending[x].move \in Moves
          BY DEF Shape, Pursued, Moves
        <4>4. ending[x].pc = "applied" => tb'[ending[x].move] = tb[ending[x].move]
          BY <2>2, <4>2, <4>3
        <4> QED
          BY <2>1, <4>1, <4>4 DEF Shape, Pursued
      <3> QED
        BY <3>1, <3>2
    <2>10. Pursued'
      BY <1>1, <2>1, <2>9 DEF Shape, Pursued
    <2> QED
      BY <1>3, <2>6, <2>7, <2>8, <2>10 DEF Shape
  <1>6. CASE UpdateRow(e)
    <2>1. /\ m \in Deposits /\ m \in Moves /\ status[m] # "none" /\ UNCHANGED tb
          /\ status' = [status EXCEPT ![m] = v] /\ ending'[e].pc = "idle"
      BY <1>6 DEF UpdateRow, Shape, Pursued, Moves, Types, IdleEnding
    <2>2. /\ status' \in [Moves -> {"none", "pending", "posted", "voided", "settled"}]
          /\ status'[m] = v /\ \A q \in Moves \ {m} : status'[q] = status[q]
      BY <1>2, <2>1 DEF Shape, Types
    <2>3. Types'
      BY <1>1, <2>1, <2>2 DEF Shape, Types
    <2>4. Ledger'
      BY <1>1, <2>1 DEF Shape, Ledger
    <2>5. m \notin Withdrawals
      BY <2>1, ConstantsType
    <2>6. Rows'
      BY <1>1, <2>1, <2>2, <2>5 DEF Shape, Rows
    <2>7. Pursued'
      BY <1>1, <1>2, <2>1, <2>2 DEF Shape, Pursued, Moves
    <2> QED
      BY <1>3, <2>3, <2>4, <2>6, <2>7 DEF Shape
  <1> QED
    BY <1>4, <1>5, <1>6 DEF End

\* The poller, TigerBeetle's clock and the explorer.
Outside(m) == PollerVoids(m) \/ PollerFails(m) \/ Expire(m) \/ Explore(m)

LEMMA OutsideKeepsShape ==
    ASSUME Shape, NEW m \in Moves, Outside(m)
    PROVE  Shape'
  <1>1. /\ UNCHANGED <<call, ending>> /\ overdue' \subseteq overdue
        /\ faults' = faults \/ (faults < MaxFaults /\ faults' = faults + 1)
    BY DEF Outside, PollerVoids, PollerFails, Expire, Explore
  <1>2. faults' \in 0 .. MaxFaults
    BY <1>1, ConstantsType DEF Shape, Types
  <1>3. Kinds'
    BY <1>1 DEF Shape, Kinds
  <1>4. CASE PollerVoids(m) \/ PollerFails(m)
    <2>1. /\ UNCHANGED tb /\ m \in Deposits /\ status[m] # "none"
          /\ status' = status \/ status' = [status EXCEPT ![m] = "voided"]
      BY <1>4 DEF PollerVoids, PollerFails, Shape, Pursued
    <2>2. /\ status' \in [Moves -> {"none", "pending", "posted", "voided", "settled"}]
          /\ status'[m] = status[m] \/ status'[m] = "voided"
          /\ \A q \in Moves \ {m} : status'[q] = status[q]
      BY <2>1 DEF Shape, Types
    <2>3. Types'
      BY <1>1, <1>2, <2>1, <2>2 DEF Shape, Types
    <2>4. Ledger'
      BY <1>1, <2>1 DEF Shape, Ledger
    <2>5. m \notin Withdrawals
      BY <2>1, ConstantsType
    <2>6. Rows'
      BY <1>1, <2>1, <2>2, <2>5 DEF Shape, Rows
    <2>7. Pursued'
      BY <1>1, <2>1, <2>2 DEF Shape, Pursued, Moves
    <2> QED
      BY <1>3, <2>3, <2>4, <2>6, <2>7 DEF Shape
  <1>5. CASE Expire(m) \/ Explore(m)
    <2>1. /\ UNCHANGED status /\ tb[m] = "pending"
          /\ \E s \in {"expired", "posted", "voided"} : tb' = [tb EXCEPT ![m] = s]
      BY <1>5 DEF Expire, Explore, Verdicts
    <2>2. /\ tb' \in [Moves -> TransferStates]
          /\ tb'[m] # "absent" /\ \A q \in Moves \ {m} : tb'[q] = tb[q]
      BY <2>1 DEF Shape, Types, TransferStates
    <2>3. Types'
      BY <1>1, <1>2, <2>1, <2>2 DEF Shape, Types
    <2>4. Ledger'
      BY <1>1, <2>1, <2>2 DEF Shape, Ledger
    <2>5. Rows'
      BY <1>1, <2>1 DEF Shape, Rows
    <2>6. \A x \in Endings : ending[x].pc = "applied" =>
             ending[x].move \in Moves /\ tb[ending[x].move] \in {"posted", "voided"}
      BY DEF Shape, Pursued, Types, Ending, Verdicts, Moves
    <2>7. Pursued'
      BY <1>1, <2>1, <2>2, <2>6 DEF Shape, Pursued, Moves
    <2> QED
      BY <1>3, <2>3, <2>4, <2>5, <2>7 DEF Shape
  <1> QED
    BY <1>4, <1>5 DEF Outside

LEMMA PollerFindsKeepsShape == ASSUME Shape, PollerFinds PROVE Shape'
  <1>1. UNCHANGED <<call, status, tb, ending, faults>>
    BY DEF PollerFinds
  <1>2. overdue' \subseteq {m \in Moves : status[m] = "pending"}
    BY DEF PollerFinds
  <1>3. \A m \in overdue' : m \in Moves /\ m \in Deposits /\ status[m] # "none"
    BY <1>2 DEF Shape, Rows, Moves
  <1>4. Types' /\ Pursued'
    BY <1>1, <1>3 DEF Shape, Types, Pursued
  <1> QED
    BY <1>1, <1>4 DEF Shape, Kinds, Ledger, Rows

LEMMA Steps ==
    ASSUME Next
    PROVE  \/ \E m \in Moves : Quiet(m) \/ MoveMoney(m) \/ Commit(m) \/ Outside(m)
           \/ \E e \in Endings : End(e) \/ LoseEnding(e)
           \/ PollerFinds
  BY DEF Next, Handle, Quiet, Outside

LEMMA ShapeStep == Shape /\ [Next]_vars => Shape'
<1> SUFFICES ASSUME Shape, [Next]_vars PROVE Shape'
  OBVIOUS
<1>1. CASE UNCHANGED vars
  BY <1>1 DEF vars, Shape, Types, Kinds, Ledger, Rows, Pursued
<1>2. CASE Next
  BY <1>2, Steps, QuietKeepsShape, CarryKeepsShape, OutsideKeepsShape,
     EndingKeepsShape, PollerFindsKeepsShape
<1> QED
  BY <1>1, <1>2

-----------------------------------------------------------------------------
(* One committed row per key.                                              *)

LEMMA OneLivePerKeyStep ==
    ASSUME Shape, OneLivePerKey, [Next]_vars
    PROVE  OneLivePerKey'
  <1>1. CASE UNCHANGED call
    BY <1>1 DEF OneLivePerKey, Live, Open, Committed, SameKey
  <1>2. ASSUME NEW m \in Moves, call'[m].pc \notin {"inserted", "moved", "done"},
               \A q \in Moves \ {m} : call'[q] = call[q]
        PROVE  OneLivePerKey'
    BY <1>2 DEF OneLivePerKey, Live, Open, Committed, SameKey
  <1>3. ASSUME NEW m \in Moves, Quiet(m) PROVE OneLivePerKey'
    <2>1. /\ call'[m].pc \notin {"moved", "done"} \/ call'[m].pc = "inserted"
          /\ call'[m].pc = "inserted" =>
                InsertRow(m) /\ call'[m].account = call[m].account /\ call'[m].key = call[m].key
          /\ \A q \in Moves \ {m} : call'[q] = call[q]
      BY <1>3, QuietCall DEF Shape, Sent
    <2>2. CASE call'[m].pc # "inserted"
      BY <1>2, <2>1, <2>2
    <2>3. CASE call'[m].pc = "inserted"
      <3>1. \A q \in Moves \ {m} : Live(q) => ~SameKey(m, q)
        <4>1. InsertRow(m)
          BY <2>1, <2>3
        <4>2. ~\E q \in Moves \ {m} : Open(q) /\ SameKey(m, q)
          BY <4>1 DEF InsertRow
        <4>3. (\E q \in Moves : Committed(q) /\ SameKey(m, q)) => Leave(m, "ready", "answered")
          BY <4>1 DEF InsertRow
        <4>4. Leave(m, "ready", "answered") => call'[m].pc = "answered"
          BY LeaveCall DEF Shape
        <4>5. ~\E q \in Moves : Committed(q) /\ SameKey(m, q)
          BY <2>3, <4>3, <4>4
        <4> QED
          BY <4>2, <4>5 DEF Live
      <3> QED
        BY <2>1, <2>3, <3>1 DEF OneLivePerKey, Live, Open, Committed, SameKey
    <2> QED
      BY <2>2, <2>3
  <1>4. ASSUME NEW m \in Moves, MoveMoney(m) \/ Commit(m) PROVE OneLivePerKey'
    <2>1. /\ call[m].pc \in {"inserted", "moved"}
          /\ call'[m].account = call[m].account /\ call'[m].key = call[m].key
          /\ \A q \in Moves \ {m} : call'[q] = call[q]
      BY <1>4, CarryCall DEF Shape
    <2>2. Live(m)
      BY <2>1 DEF Live, Open
    <2> QED
      BY <2>1, <2>2 DEF OneLivePerKey, Live, Open, Committed, SameKey
  <1>5. ASSUME NEW m \in Moves, Outside(m) PROVE UNCHANGED call
    BY <1>5 DEF Outside, PollerVoids, PollerFails, Expire, Explore
  <1>6. ASSUME NEW e \in Endings, End(e) \/ LoseEnding(e) PROVE UNCHANGED call
    BY <1>6 DEF End, ReadRow, ApplyVerdict, UpdateRow, LoseEnding
  <1>7. PollerFinds => UNCHANGED call
    BY DEF PollerFinds
  <1> QED
    BY <1>1, <1>3, <1>4, <1>5, <1>6, <1>7, Steps DEF vars

-----------------------------------------------------------------------------
(* The money.                                                              *)

NoOverdraft == \A place \in Places : Posted(place) >= 0

Owed == [m \in Moves |-> call[m].amount]

LEMMA AmountType == \A c \in Call : c.amount \in Nat
  <1>1. \A c \in Call : c.amount \in Amounts \cup {0}
    BY DEF Call
  <1>2. Amounts \cup {0} \subseteq Nat
    BY ConstantsType
  <1> QED
    BY <1>1, <1>2

LEMMA AmountsType ==
    ASSUME Types
    PROVE  /\ \A m \in Moves : Owed[m] \in Nat
           /\ \A S \in SUBSET Moves : IsFiniteSet(S) /\ Sum(S) \in Nat
  <1>2. \A m \in Moves : Owed[m] \in Nat
    BY AmountType DEF Types, Owed
  <1>3. ASSUME NEW S \in SUBSET Moves PROVE IsFiniteSet(S) /\ Sum(S) \in Nat
    <2>1. IsFiniteSet(S)
      BY ConstantsType, FS_Subset
    <2>2. SumOver(Owed, S) \in Nat
      BY <1>2, <2>1, SumType
    <2> QED
      BY <2>1, <2>2 DEF Sum, Owed
  <1> QED
    BY <1>2, <1>3

\* No step but a withdrawal's transfer takes anything from a place.
LEMMA PostedGrows ==
    ASSUME Types, Types', NEW place,
           \A m \in Moves : tb[m] = "posted" =>
               /\ tb'[m] = "posted"
               /\ call'[m].place = call[m].place /\ call'[m].amount = call[m].amount,
           \A w \in Withdrawals : tb'[w] = "posted" => tb[w] = "posted"
    PROVE  /\ Posted(place) \in Int /\ Posted(place)' \in Int
           /\ Posted(place)' >= Posted(place)
  <1>1. /\ Credits(place) \in SUBSET Moves /\ Debits(place) \in SUBSET Moves
        /\ Credits(place)' \in SUBSET Moves /\ Debits(place)' \in SUBSET Moves
    BY DEF Credits, Debits, Moves
  <1>2. Debits(place)' = Debits(place)
    BY DEF Debits, Moves
  <1>3. Credits(place) \subseteq Credits(place)'
    BY DEF Credits, Moves
  <1> DEFINE credits == Credits(place)  debits == Debits(place)
             more == Credits(place)'
  <1>4. /\ \A m \in credits : call'[m].amount = call[m].amount
        /\ \A m \in debits : call'[m].amount = call[m].amount
    BY <1>1 DEF Credits, Debits
  <1>5. Posted(place) = Sum(credits) - Sum(debits)
    BY DEF Posted
  <1>6. Posted(place)' = SumOver(Owed', more) - SumOver(Owed', debits)
    BY <1>2 DEF Posted, Sum, Owed
  <1> HIDE DEF credits, debits, more
  <1>7. /\ credits \in SUBSET Moves /\ debits \in SUBSET Moves
        /\ more \in SUBSET Moves /\ credits \subseteq more
    BY <1>1, <1>3 DEF credits, debits, more
  <1>8. /\ SumOver(Owed', credits) = Sum(credits)
        /\ SumOver(Owed', debits) = Sum(debits)
    <2>1. \A S \in SUBSET Moves : (\A m \in S : call'[m].amount = call[m].amount)
             => SumOver(Owed', S) = Sum(S)
      <3> TAKE S \in SUBSET Moves
      <3> HAVE \A m \in S : call'[m].amount = call[m].amount
      <3>1. \A m \in S : Owed'[m] = Owed[m]
        BY DEF Owed
      <3>2. SumOver(Owed', S) = SumOver(Owed, S)
        BY <3>1, SumSame
      <3> QED
        BY <3>2 DEF Sum, Owed
    <2> QED
      BY <1>4, <1>7, <2>1
  <1>9. \A m \in Moves : Owed'[m] \in Nat
    BY AmountType DEF Types, Owed
  <1>10. SumOver(Owed', credits) <= SumOver(Owed', more) /\ SumOver(Owed', more) \in Nat
    <2>1. IsFiniteSet(more)
      BY <1>7, ConstantsType, FS_Subset
    <2> QED
      BY <1>7, <1>9, <2>1, SumMonotone, SumType
  <1>11. Sum(credits) \in Nat /\ Sum(debits) \in Nat
    BY <1>7, AmountsType
  <1> QED
    BY <1>5, <1>6, <1>8, <1>10, <1>11

\* A withdrawal's transfer is only made when the account holds it.
LEMMA WithdrawalCovered ==
    ASSUME Shape, NoOverdraft, NEW w \in Withdrawals, MoveMoney(w)
    PROVE  NoOverdraft'
  <1>1. /\ call' \in [Moves -> Call]
        /\ call[w].pc = "inserted"
        /\ call'[w].place = call[w].place /\ call'[w].pending = call[w].pending
        /\ call'[w].amount = call[w].amount
        /\ \A q \in Moves \ {w} : call'[q] = call[q]
    BY CarryCall DEF Shape, Moves, Commit, MoveMoney, Step
  <1>2. /\ call[w].place = "normal" /\ call[w].pending = FALSE
        /\ call[w].amount <= Posted("normal")
    BY <1>1 DEF MoveMoney, CanMove, Shape, Kinds, Working
  <1>3. tb[w] # "posted"
    BY <1>1 DEF Shape, Ledger, Sent, Moves
  <1>4. /\ tb'[w] = "posted" /\ \A q \in Moves \ {w} : tb'[q] = tb[q]
    BY <1>2 DEF MoveMoney, Shape, Types, Moves
  <1>5. \A m \in Moves : call'[m].amount = call[m].amount /\ call'[m].place = call[m].place
    BY <1>1
  <1>6. /\ \A place : Credits(place)' = Credits(place)
        /\ Debits("normal")' = Debits("normal") \cup {w} /\ w \notin Debits("normal")
        /\ \A place \in {"self", "others"} : Debits(place)' = Debits(place)
    <2>1. Deposits \cap Withdrawals = {}
      BY ConstantsType
    <2> QED
      BY <1>2, <1>3, <1>4, <1>5, <2>1 DEF Credits, Debits, Moves
  <1>7. Owed' = Owed
    BY <1>5 DEF Owed
  <1>8. /\ \A place : Credits(place) \in SUBSET Moves /\ Debits(place) \in SUBSET Moves
        /\ w \in Moves
    BY DEF Credits, Debits, Moves
  <1>9. /\ Sum(Credits("normal")) \in Nat /\ Sum(Debits("normal")) \in Nat
        /\ Owed[w] \in Nat /\ Owed[w] = call[w].amount
    BY <1>8, AmountsType DEF Owed, Shape
  <1>10. SumOver(Owed, Debits("normal") \cup {w}) = Sum(Debits("normal")) + call[w].amount
    <2> DEFINE D == Debits("normal")
    <2>1. D \in SUBSET Moves /\ w \notin D /\ IsFiniteSet(D)
      BY <1>6, <1>8, AmountsType DEF Shape
    <2>2. \A y \in D : Owed[y] \in Nat
      BY <2>1, AmountsType DEF Shape
    <2> HIDE DEF D
    <2>3. SumOver(Owed, D \cup {w}) = SumOver(Owed, D) + Owed[w]
      BY <1>9, <2>1, <2>2, SumInsert
    <2>4. SumOver(Owed, D) = Sum(D)
      BY DEF Sum, Owed
    <2> QED
      BY <1>9, <2>3, <2>4 DEF D
  <1>11. Posted("normal") = Sum(Credits("normal")) - Sum(Debits("normal"))
    BY DEF Posted
  <1>12. Posted("normal")' = Sum(Credits("normal")) - (Sum(Debits("normal")) + call[w].amount)
    <2>1. Posted("normal")' = SumOver(Owed', Credits("normal")') - SumOver(Owed', Debits("normal")')
      BY DEF Posted, Sum, Owed
    <2>2. SumOver(Owed, Credits("normal")) = Sum(Credits("normal"))
      BY DEF Sum, Owed
    <2> QED
      BY <1>6, <1>7, <1>10, <2>1, <2>2
  <1>13. call[w].amount \in Nat
    BY <1>9
  <1>14. Posted("normal")' >= 0
    BY <1>2, <1>9, <1>11, <1>12, <1>13
  <1>15. \A place \in {"self", "others"} : Posted(place)' = Posted(place)
    <2> TAKE place \in {"self", "others"}
    <2>1. Posted(place)' = SumOver(Owed', Credits(place)') - SumOver(Owed', Debits(place)')
      BY DEF Posted, Sum, Owed
    <2>2. Posted(place) = SumOver(Owed, Credits(place)) - SumOver(Owed, Debits(place))
      BY DEF Posted, Sum, Owed
    <2> QED
      BY <1>6, <1>7, <2>1, <2>2
  <1> QED
    BY <1>14, <1>15 DEF NoOverdraft, Places

LEMMA NoOverdraftStep ==
    ASSUME Shape, Shape', NoOverdraft, [Next]_vars
    PROVE  NoOverdraft'
  <1>1. ASSUME \A m \in Moves : tb[m] = "posted" =>
                  /\ tb'[m] = "posted"
                  /\ call'[m].place = call[m].place /\ call'[m].amount = call[m].amount,
               \A w \in Withdrawals : tb'[w] = "posted" => tb[w] = "posted"
        PROVE  NoOverdraft'
    <2>1. \A place \in Places : /\ Posted(place) \in Int /\ Posted(place)' \in Int
                               /\ Posted(place)' >= Posted(place)
      BY <1>1, PostedGrows DEF Shape
    <2>2. \A place \in Places : Posted(place)' >= 0
      BY <2>1 DEF NoOverdraft
    <2> QED
      BY <2>2 DEF NoOverdraft
  <1>2. CASE UNCHANGED <<call, tb>>
    BY <1>1, <1>2
  <1>3. ASSUME NEW m \in Moves, Quiet(m) PROVE NoOverdraft'
    <2>1. /\ \/ call[m].pc \notin Sent
             \/ call'[m].place = call[m].place /\ call'[m].amount = call[m].amount
          /\ \A q \in Moves \ {m} : call'[q] = call[q]
          /\ UNCHANGED tb
      BY <1>3, QuietCall DEF Shape
    <2>2. call[m].pc \notin Sent => tb[m] # "posted"
      BY DEF Shape, Ledger
    <2> QED
      BY <1>1, <2>1, <2>2
  <1>4. ASSUME NEW m \in Moves, Commit(m) PROVE NoOverdraft'
    <2>1. /\ call'[m].place = call[m].place /\ call'[m].amount = call[m].amount
          /\ \A q \in Moves \ {m} : call'[q] = call[q]
          /\ UNCHANGED tb
      BY <1>4, CarryCall DEF Shape, Commit
    <2> QED
      BY <1>1, <2>1
  <1>5. ASSUME NEW m \in Moves, MoveMoney(m) PROVE NoOverdraft'
    <2>1. CASE m \in Withdrawals
      BY <1>5, <2>1, WithdrawalCovered
    <2>2. CASE m \notin Withdrawals
      <3>1. /\ call'[m].place = call[m].place /\ call'[m].amount = call[m].amount
            /\ \A q \in Moves \ {m} : call'[q] = call[q]
            /\ call[m].pc = "inserted"
        BY <1>5, CarryCall DEF Shape, MoveMoney, Step
      <3>2. tb[m] # "posted"
        BY <3>1 DEF Shape, Ledger, Sent
      <3>3. \A q \in Moves \ {m} : tb'[q] = tb[q]
        BY <1>5 DEF MoveMoney, Shape, Types
      <3>4. \A w \in Withdrawals : w \in Moves \ {m}
        BY <2>2 DEF Moves
      <3> QED
        BY <1>1, <3>1, <3>2, <3>3, <3>4
    <2> QED
      BY <2>1, <2>2
  \* A withdrawal's transfer is never pending, so no verdict concerns it.
  <1>6. \A w \in Withdrawals : tb[w] # "pending"
    <2>1. \A w \in Withdrawals : tb[w] # "absent" => tb[w] = "posted"
      BY DEF Shape, Ledger, Kinds, Moves
    <2> QED
      BY <2>1
  <1>7. ASSUME UNCHANGED call, NEW m \in Moves, NEW new,
               tb' = [tb EXCEPT ![m] = new], tb[m] = "pending" \/ new = tb[m]
        PROVE  NoOverdraft'
    <2>1. \A q \in Moves : tb'[q] = tb[q] \/ tb[q] = "pending"
      BY <1>7 DEF Shape, Types
    <2> QED
      BY <1>1, <1>6, <1>7, <2>1 DEF Moves
  <1>8. ASSUME NEW m \in Moves, Outside(m) PROVE NoOverdraft'
    <2>1. CASE PollerVoids(m) \/ PollerFails(m)
      BY <1>2, <2>1 DEF PollerVoids, PollerFails
    <2>2. CASE Expire(m) \/ Explore(m)
      BY <1>7, <2>2 DEF Expire, Explore
    <2> QED
      BY <1>8, <2>1, <2>2 DEF Outside
  <1>9. ASSUME NEW e \in Endings, End(e) \/ LoseEnding(e) PROVE NoOverdraft'
    <2>1. CASE ReadRow(e) \/ UpdateRow(e) \/ LoseEnding(e)
      BY <1>2, <2>1 DEF ReadRow, UpdateRow, LoseEnding
    <2>2. CASE ApplyVerdict(e)
      <3> DEFINE m == ending[e].move
                 new == Resolved(tb[m], ending[e].verdict)
      <3>1. /\ UNCHANGED call /\ tb' = [tb EXCEPT ![m] = new] /\ m \in Moves
        BY <2>2 DEF ApplyVerdict, Shape, Pursued, Moves
      <3>2. tb[m] = "pending" \/ new = tb[m]
        BY DEF Resolved
      <3> HIDE DEF m, new
      <3> QED
        BY <1>7, <3>1, <3>2
    <2> QED
      BY <1>9, <2>1, <2>2 DEF End
  <1>10. PollerFinds => NoOverdraft'
    BY <1>2 DEF PollerFinds
  <1> QED
    BY <1>2, <1>3, <1>4, <1>5, <1>8, <1>9, <1>10, Steps DEF vars

-----------------------------------------------------------------------------

(***************************************************************************)
(* The invariant: what the handlers and the rows are, at most one live row *)
(* per key, and no place overdrawn.                                        *)
(***************************************************************************)
IInv == Shape /\ PostedHasMoved /\ OneLivePerKey /\ NoOverdraft

LEMMA PostedHasMovedStep ==
    ASSUME Shape, PostedHasMoved, [Next]_vars
    PROVE  PostedHasMoved'
  <1>1. ASSUME \A m \in Moves : tb[m] = "posted" => tb'[m] = "posted",
               \A m \in Moves : status'[m] = "posted" =>
                                   status[m] = "posted" \/ tb[m] = "posted"
        PROVE  PostedHasMoved'
    BY <1>1 DEF PostedHasMoved
  <1>2. CASE UNCHANGED <<status, tb>>
    BY <1>2 DEF PostedHasMoved
  <1>3. ASSUME NEW m \in Moves, Quiet(m) PROVE PostedHasMoved'
    BY <1>2, <1>3, QuietCall DEF Shape
  <1>4. ASSUME NEW m \in Moves, MoveMoney(m) PROVE PostedHasMoved'
    <2>1. call[m].pc = "inserted" /\ tb[m] # "posted"
      BY <1>4 DEF MoveMoney, Step, Shape, Ledger, Sent
    <2>2. UNCHANGED status /\ \A q \in Moves \ {m} : tb'[q] = tb[q]
      BY <1>4 DEF MoveMoney, Shape, Types
    <2> QED
      BY <1>1, <2>1, <2>2
  <1>5. ASSUME NEW m \in Moves, Commit(m) PROVE PostedHasMoved'
    <2>1. call[m].pc = "moved" /\ UNCHANGED tb
      BY <1>5 DEF Commit, Step
    <2>2. /\ status'[m] = "posted" => call[m].pending = FALSE
          /\ \A q \in Moves \ {m} : status'[q] = status[q]
      BY <1>5 DEF Commit, Shape, Types, Call
    <2>3. status'[m] = "posted" => tb[m] = "posted"
      BY <2>1, <2>2 DEF Shape, Ledger, Sent
    <2> QED
      BY <1>1, <2>1, <2>2, <2>3
  <1>6. ASSUME NEW m \in Moves, Outside(m) PROVE PostedHasMoved'
    <2>1. \A q \in Moves : tb[q] = "posted" => tb'[q] = "posted"
      BY <1>6 DEF Outside, PollerVoids, PollerFails, Expire, Explore, Shape, Types
    <2>2. \A q \in Moves : status'[q] = "posted" => status[q] = "posted"
      BY <1>6 DEF Outside, PollerVoids, PollerFails, Expire, Explore, Shape, Types
    <2> QED
      BY <1>1, <2>1, <2>2
  <1>7. ASSUME NEW e \in Endings, End(e) \/ LoseEnding(e) PROVE PostedHasMoved'
    <2>1. CASE ReadRow(e) \/ LoseEnding(e)
      BY <1>2, <2>1 DEF ReadRow, LoseEnding
    <2>2. CASE ApplyVerdict(e)
      BY <1>1, <2>2 DEF ApplyVerdict, Resolved, Shape, Types
    <2>3. CASE UpdateRow(e)
      <3> DEFINE m == ending[e].move
      <3>1. /\ UNCHANGED tb /\ m \in Moves /\ tb[m] = ending[e].verdict
            /\ status' = [status EXCEPT ![m] = ending[e].verdict]
        BY <2>3 DEF UpdateRow, Shape, Pursued, Moves
      <3>2. /\ status'[m] = tb[m]
            /\ \A q \in Moves \ {m} : status'[q] = status[q]
        BY <3>1 DEF Shape, Types
      <3> HIDE DEF m
      <3> QED
        BY <1>1, <3>1, <3>2
    <2> QED
      BY <1>7, <2>1, <2>2, <2>3 DEF End
  <1>8. PollerFinds => PostedHasMoved'
    BY <1>2 DEF PollerFinds
  <1> QED
    BY <1>2, <1>3, <1>4, <1>5, <1>6, <1>7, <1>8, Steps DEF vars

LEMMA IInvInit == Init => IInv
<1> SUFFICES ASSUME Init PROVE IInv
  OBVIOUS
<1>1. Shape
  BY ShapeInit
<1>2. \A m \in Moves : call[m].pc = "idle" /\ status[m] = "none" /\ tb[m] = "absent"
  BY DEF Init, IdleCall
<1>3. PostedHasMoved /\ OneLivePerKey
  BY <1>2 DEF PostedHasMoved, OneLivePerKey, Live, Open, Committed
<1>4. \A place : Credits(place) = {} /\ Debits(place) = {}
  BY <1>2 DEF Credits, Debits, Moves
<1>5. Sum({}) = 0
  BY SumEmpty DEF Sum
<1>6. NoOverdraft
  BY <1>4, <1>5 DEF NoOverdraft, Posted
<1> QED
  BY <1>1, <1>3, <1>6 DEF IInv

LEMMA IInvStep == IInv /\ [Next]_vars => IInv'
<1> SUFFICES ASSUME IInv, [Next]_vars PROVE IInv'
  OBVIOUS
<1>1. Shape'
  BY ShapeStep DEF IInv
<1>2. PostedHasMoved' /\ OneLivePerKey' /\ NoOverdraft'
  BY <1>1, PostedHasMovedStep, OneLivePerKeyStep, NoOverdraftStep DEF IInv
<1> QED
  BY <1>1, <1>2 DEF IInv

THEOREM IInvAlways == Spec => []IInv
BY IInvInit, IInvStep, PTL DEF Spec

(***************************************************************************)
(* Type correctness, and that concurrent withdrawals never take more than  *)
(* deposits have brought, whatever balance they have read.                 *)
(***************************************************************************)
THEOREM TypeCorrect == Spec => []TypeOK
<1>1. IInv => TypeOK
  BY DEF IInv, Shape, NoOverdraft, TypeOK
<1> QED
  BY <1>1, IInvAlways, PTL

(***************************************************************************)
(* A posted row has moved its money, for any number of concurrent posts,   *)
(* voids, expiries, lost statements and explorer requests.                 *)
(***************************************************************************)
THEOREM PostedRowsMoved == Spec => []PostedHasMoved
<1>1. IInv => PostedHasMoved
  BY DEF IInv
<1> QED
  BY <1>1, IInvAlways, PTL

(***************************************************************************)
(* No two committed rows of an account carry the same key.                 *)
(***************************************************************************)
THEOREM KeysUnique == Spec => []OneMovePerKey
<1>1. IInv => OneMovePerKey
  BY DEF IInv, OneLivePerKey, Live, OneMovePerKey
<1> QED
  BY <1>1, IInvAlways, PTL

\* What a step may do to a row that says posted or voided.
Lasts(m) ==
    /\ status[m] = "posted" /\ m \notin overdue =>
         status'[m] = "posted" /\ m \notin overdue'
    /\ status[m] = "voided" /\ status'[m] # "voided" =>
         status'[m] = "posted" /\ tb[m] = "posted"

LEMMA LastsStep == IInv /\ [Next]_vars => \A m \in Moves : Lasts(m)
<1> SUFFICES ASSUME IInv, [Next]_vars, NEW m \in Moves PROVE Lasts(m)
  OBVIOUS
<1> USE DEF IInv
<1>1. CASE UNCHANGED status /\ overdue' \subseteq overdue
  BY <1>1 DEF Lasts
<1>2. ASSUME NEW q \in Moves, Quiet(q) PROVE Lasts(m)
  BY <1>1, <1>2, QuietCall DEF Shape
<1>3. ASSUME NEW q \in Moves, MoveMoney(q) PROVE Lasts(m)
  BY <1>1, <1>3 DEF MoveMoney
<1>4. ASSUME NEW q \in Moves, Commit(q) PROVE Lasts(m)
  <2>1. status[q] = "none"
    BY <1>4 DEF Commit, Step, Shape, Rows
  <2>2. /\ UNCHANGED overdue
        /\ \A x \in Moves \ {q} : status'[x] = status[x]
    BY <1>4 DEF Commit, Shape, Types
  <2> QED
    BY <2>1, <2>2 DEF Lasts
<1>5. ASSUME NEW q \in Moves, Outside(q) PROVE Lasts(m)
  <2>1. CASE PollerVoids(q)
    BY <2>1 DEF PollerVoids, Lasts, Shape, Types
  <2>2. CASE ~PollerVoids(q)
    BY <1>1, <1>5, <2>2 DEF Outside, PollerFails, Expire, Explore
  <2> QED
    BY <2>1, <2>2
<1>6. ASSUME NEW e \in Endings, End(e) \/ LoseEnding(e) PROVE Lasts(m)
  <2>1. CASE ReadRow(e) \/ ApplyVerdict(e) \/ LoseEnding(e)
    BY <1>1, <2>1 DEF ReadRow, ApplyVerdict, LoseEnding
  <2>2. CASE UpdateRow(e)
    <3>1. /\ UNCHANGED overdue /\ tb[ending[e].move] = ending[e].verdict
          /\ status' = [status EXCEPT ![ending[e].move] = ending[e].verdict]
          /\ ending[e].verdict \in {"posted", "voided"}
      BY <2>2 DEF UpdateRow, Shape, Pursued, Types, Ending, Verdicts
    <3>2. status[m] = "posted" => tb[m] = "posted"
      BY DEF PostedHasMoved
    <3> QED
      BY <3>1, <3>2 DEF Lasts, Shape, Types
  <2> QED
    BY <1>6, <2>1, <2>2 DEF End
<1>7. PollerFinds => Lasts(m)
  <2>1. PollerFinds => UNCHANGED status /\ overdue' \subseteq {q \in Moves : status[q] = "pending"}
    BY DEF PollerFinds
  <2> QED
    BY <2>1 DEF Lasts
<1> QED
  BY <1>1, <1>2, <1>3, <1>4, <1>5, <1>6, <1>7, Steps DEF vars

(***************************************************************************)
(* A verdict the poller has not overtaken lasts.                           *)
(***************************************************************************)
THEOREM VerdictsStand == Spec => VerdictsLast
<1>1. IInv /\ [Next]_vars => [\A m \in Moves : Lasts(m)]_vars
  BY LastsStep
<1>2. Spec => [][\A m \in Moves : Lasts(m)]_vars
  BY <1>1, IInvAlways, PTL DEF Spec
<1> QED
  BY <1>2 DEF Lasts, VerdictsLast

-----------------------------------------------------------------------------

(***************************************************************************)
(* A row that is voided while its transfer may still be posted, or is.     *)
(***************************************************************************)
Ahead(m) == status[m] = "voided" /\ tb[m] \in {"pending", "posted"}

AheadByPoller == \A m \in Moves : Ahead(m)' => Ahead(m) \/ PollerVoids(m)

LEMMA AheadStep ==
    ASSUME Shape, [Next]_vars
    PROVE  AheadByPoller
  <1>1. ASSUME \A m \in Moves : /\ status'[m] = "voided" => status[m] = "voided"
                                /\ \/ status[m] # "voided" \/ tb'[m] = tb[m]
                                   \/ tb[m] = "pending" \/ tb'[m] \in {"voided", "expired"}
        PROVE  AheadByPoller
    BY <1>1 DEF AheadByPoller, Ahead
  <1>2. CASE UNCHANGED <<status, tb>>
    BY <1>1, <1>2
  <1>3. ASSUME NEW m \in Moves, Quiet(m) PROVE AheadByPoller
    BY <1>2, <1>3, QuietCall DEF Shape
  <1>4. ASSUME NEW m \in Moves, MoveMoney(m) PROVE AheadByPoller
    <2>1. call[m].pc = "inserted" /\ UNCHANGED status
      BY <1>4 DEF MoveMoney, Step
    <2>2. status[m] # "voided"
      BY <2>1 DEF Shape, Rows
    <2>3. \A q \in Moves \ {m} : tb'[q] = tb[q]
      BY <1>4 DEF MoveMoney, Shape, Types
    <2> QED
      BY <1>1, <2>1, <2>2, <2>3
  <1>5. ASSUME NEW m \in Moves, Commit(m) PROVE AheadByPoller
    <2>1. UNCHANGED tb /\ status'[m] # "voided" /\ \A q \in Moves \ {m} : status'[q] = status[q]
      BY <1>5 DEF Commit, Shape, Types
    <2> QED
      BY <1>1, <2>1
  <1>6. ASSUME NEW m \in Moves, PollerVoids(m) PROVE AheadByPoller
    <2>1. UNCHANGED tb /\ \A q \in Moves \ {m} : status'[q] = status[q]
      BY <1>6 DEF PollerVoids, Shape, Types
    <2> QED
      BY <1>6, <2>1 DEF AheadByPoller, Ahead
  <1>7. ASSUME NEW m \in Moves, Expire(m) \/ Explore(m) PROVE AheadByPoller
    <2>1. tb[m] = "pending" /\ UNCHANGED status /\ \A q \in Moves \ {m} : tb'[q] = tb[q]
      BY <1>7 DEF Expire, Explore, Shape, Types
    <2> QED
      BY <1>1, <2>1
  <1>8. ASSUME NEW e \in Endings, End(e) \/ LoseEnding(e) PROVE AheadByPoller
    <2>1. CASE ReadRow(e) \/ LoseEnding(e)
      BY <1>2, <2>1 DEF ReadRow, LoseEnding
    <2>2. CASE ApplyVerdict(e)
      <3>1. UNCHANGED status /\ \A q \in Moves : tb'[q] = tb[q] \/ tb[q] = "pending"
        BY <2>2 DEF ApplyVerdict, Resolved, Shape, Types
      <3> QED
        BY <1>1, <3>1
    <2>3. CASE UpdateRow(e)
      <3>1. PICK m \in Moves : m = ending[e].move /\ tb[m] = ending[e].verdict
        BY <2>3 DEF UpdateRow, Shape, Pursued, Moves
      <3>2. /\ UNCHANGED tb /\ status'[m] = tb[m]
            /\ \A q \in Moves \ {m} : status'[q] = status[q]
        BY <2>3, <3>1 DEF UpdateRow, Shape, Types
      <3> QED
        BY <3>2 DEF AheadByPoller, Ahead
    <2> QED
      BY <1>8, <2>1, <2>2, <2>3 DEF End
  <1>9. ASSUME NEW m \in Moves, PollerFails(m) PROVE AheadByPoller
    BY <1>2, <1>9 DEF PollerFails
  <1>10. PollerFinds => AheadByPoller
    BY <1>2 DEF PollerFinds
  <1> QED
    BY <1>2, <1>3, <1>4, <1>5, <1>6, <1>7, <1>8, <1>9, <1>10, Steps DEF vars, Outside

(***************************************************************************)
(* The other half of what Deposit_late shows: a voided deposit whose money *)
(* has moved, or may still move, was voided by the poller.  No verdict, no *)
(* commit, no request of the explorer and no timeout of TigerBeetle brings *)
(* one about.                                                              *)
(***************************************************************************)
THEOREM OnlyPollerAhead == Spec => [][AheadByPoller]_vars
<1>1. IInv /\ [Next]_vars => AheadByPoller
  BY AheadStep DEF IInv
<1> QED
  BY <1>1, IInvAlways, PTL DEF Spec
=============================================================================
