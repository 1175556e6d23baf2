--------------------------- MODULE Transfer_proofs --------------------------
(***************************************************************************)
(* What holds of transfers and reversals for any number of them, of        *)
(* verdicts, keys and lost transactions.                                   *)
(***************************************************************************)
EXTENDS Transfer, Sums_proofs

PCs == {"idle"} \cup Working \cup Answered \cup Gone

LEMMA ConstantsType ==
    /\ MaxTries \in Nat \ {0} /\ MaxSpent \in Nat /\ MaxFaults \in Nat
    /\ Amounts \subseteq Nat /\ NoMove \notin Moves /\ IsFiniteSet(Moves)
    /\ Transfers \cap Reversals = {}
    /\ \A a \in Accounts : Opening[a] \in Nat
  BY TransferAssumption

(***************************************************************************)
(* A handler that moves on, and the record a request starts with.          *)
(***************************************************************************)
LEMMA MoveCall ==
    ASSUME Types, NEW m \in Moves, NEW from, NEW to \in PCs, Step(m, from, to)
    PROVE  /\ call' \in [Moves -> Call]
           /\ call[m].pc = from /\ call'[m].pc = to
           /\ call'[m].original = call[m].original /\ call'[m].key = call[m].key
           /\ call'[m].pending = call[m].pending /\ call'[m].amount = call[m].amount
           /\ call'[m].attempt = call[m].attempt
           /\ \A q \in Moves \ {m} : call'[q] = call[q]
  <1>1. call' = [call EXCEPT ![m].pc = to] /\ call[m].pc = from
    BY DEF Step
  <1>2. call' \in [Moves -> Call]
    BY <1>1 DEF Types, Call, PCs
  <1>3. /\ call'[m].pc = to
        /\ call'[m].original = call[m].original /\ call'[m].key = call[m].key
        /\ call'[m].pending = call[m].pending /\ call'[m].amount = call[m].amount
        /\ call'[m].attempt = call[m].attempt
    BY <1>1 DEF Types, Call
  <1>4. \A q \in Moves \ {m} : call'[q] = call[q]
    BY <1>1 DEF Types
  <1> QED
    BY <1>1, <1>2, <1>3, <1>4

LEMMA BeginCall ==
    ASSUME Types, NEW m \in Moves, Begin(m)
    PROVE  /\ call' \in [Moves -> Call] /\ call[m].pc = "idle"
           /\ call'[m].pc \in {"begun", "replayed"} /\ call'[m].attempt = 0
           /\ m \in Transfers => call'[m].original = NoMove
           /\ m \in Reversals => call'[m].original \in Transfers
           /\ \A q \in Moves \ {m} : call'[q] = call[q]
  <1>1. PICK pending \in BOOLEAN, amount \in Amounts, key \in Keys \cup {NoKey},
             original \in IF m \in Reversals THEN Transfers ELSE {NoMove},
             pc \in {"begun", "replayed"} :
          call' = [call EXCEPT ![m] =
                     [pc |-> pc, original |-> original, pending |-> pending,
                      amount |-> amount, key |-> key, attempt |-> 0]]
    BY DEF Begin
  <1> DEFINE new == [pc |-> pc, original |-> original, pending |-> pending,
                     amount |-> amount, key |-> key, attempt |-> 0]
  <1>2. new \in Call
    BY ConstantsType DEF Call, Working, Answered
  <1>3. call' = [call EXCEPT ![m] = new]
    BY <1>1
  <1>4. /\ new.pc \in {"begun", "replayed"} /\ new.attempt = 0
        /\ new.original = original
    OBVIOUS
  <1>5. /\ m \in Transfers => original = NoMove
        /\ m \in Reversals => original \in Transfers
    BY ConstantsType
  <1> HIDE DEF new
  <1>6. /\ call' \in [Moves -> Call] /\ call'[m] = new
        /\ \A q \in Moves \ {m} : call'[q] = call[q]
    BY <1>2, <1>3 DEF Types
  <1>7. call[m].pc = "idle"
    BY DEF Begin
  <1> QED
    BY <1>4, <1>5, <1>6, <1>7

LEMMA RejectedCall ==
    ASSUME Types, NEW m \in Moves, Rejected(m), call[m].attempt < MaxTries
    PROVE  /\ call' \in [Moves -> Call] /\ call[m].pc = "inserted"
           /\ call'[m].pc \in {"admitted", "refused"}
           /\ call'[m].pc = "admitted" => call'[m].attempt < MaxTries
           /\ call'[m].original = call[m].original
           /\ \A q \in Moves \ {m} : call'[q] = call[q]
  <1> DEFINE tries == call[m].attempt + 1
             to == IF m \in Transfers /\ tries < MaxTries THEN "admitted" ELSE "refused"
  <1>1. /\ call[m].pc = "inserted"
        /\ call' = [call EXCEPT ![m].attempt = tries, ![m].pc = to]
    BY DEF Rejected
  <1>2. call[m].attempt \in 0 .. MaxTries
    BY DEF Types, Call
  <1>3. tries \in 0 .. MaxTries
    BY <1>2, ConstantsType
  <1>4. to \in {"admitted", "refused"} /\ (to = "admitted" => tries < MaxTries)
    OBVIOUS
  <1> HIDE DEF tries, to
  <1>5. /\ call'[m].pc = to /\ call'[m].attempt = tries
        /\ call'[m].original = call[m].original
        /\ \A q \in Moves \ {m} : call'[q] = call[q]
    BY <1>1 DEF Types, Call
  <1>6. call' \in [Moves -> Call]
    BY <1>1, <1>3, <1>4 DEF Types, Call, Working, Answered
  <1> QED
    BY <1>1, <1>4, <1>5, <1>6

-----------------------------------------------------------------------------

(***************************************************************************)
(* Types, the tries a handler has left, and what a reversal reverses.      *)
(***************************************************************************)
TriesLeft == \A m \in Moves : call[m].pc \in Working => call[m].attempt < MaxTries

Reverses == \A t \in Transfers : call[t].original = NoMove

Shape == Types /\ TriesLeft /\ Reverses

(***************************************************************************)
(* What a handler does between its request and the transfer, and when it   *)
(* dies: it touches neither rows nor money.                                *)
(***************************************************************************)
Quiet(m) ==
    \/ Begin(m) \/ LoadOriginal(m) \/ CheckReversal(m) \/ Admit(m) \/ ReadBalance(m)
    \/ InsertRows(m) \/ Rejected(m) \/ Fail(m)

QuietPCs(from, to) ==
    /\ from \notin {"done", "orphaned"} /\ to \notin {"moved", "done"}
    /\ from = "moved" <=> to = "orphaned"

\* The steps of Quiet that replace nothing but pc.
QuietStep(m) ==
    \/ LoadOriginal(m) \/ CheckReversal(m) \/ Admit(m) \/ ReadBalance(m)
    \/ InsertRows(m) \/ Fail(m)

LEMMA QuietStepPCs ==
    ASSUME NEW m \in Moves, QuietStep(m)
    PROVE  \E from \in Working, to \in PCs : Step(m, from, to) /\ QuietPCs(from, to)
  <1>1. \/ \E to \in {"loaded", "refused"} : Step(m, "begun", to)
        \/ \E to \in {"checked", "refused"} : Step(m, "loaded", to)
        \/ \E to \in {"admitted", "refused"} : Step(m, "begun", to)
        \/ \E to \in {"ready", "refused"} : Step(m, "checked", to)
        \/ \E to \in {"ready", "refused"} : Step(m, "admitted", to)
        \/ \E to \in {"inserted", "refused"} : Step(m, "ready", to)
        \/ \E from \in Working \ {"moved"} : Step(m, from, "lost")
        \/ Step(m, "moved", "orphaned")
    BY DEF QuietStep, LoadOriginal, CheckReversal, Admit, ReadBalance, InsertRows,
           Fail, Step
  <1> QED
    BY <1>1 DEF PCs, Working, Answered, Gone, QuietPCs

LEMMA QuietCall ==
    ASSUME Shape, NEW m \in Moves, Quiet(m)
    PROVE  /\ call' \in [Moves -> Call] /\ QuietPCs(call[m].pc, call'[m].pc)
           /\ call'[m].pc \in Working => call'[m].attempt < MaxTries
           /\ m \in Transfers => call'[m].original = NoMove
           /\ \A q \in Moves \ {m} : call'[q] = call[q]
           /\ UNCHANGED <<status, tb, ending, overdue, active, spent>>
  <1>1. UNCHANGED <<status, tb, ending, overdue, active, spent>>
    BY DEF Quiet, Begin, LoadOriginal, CheckReversal, Admit, ReadBalance,
           InsertRows, Rejected, Fail
  <1>2. CASE QuietStep(m)
    <2>1. PICK from \in Working, to \in PCs : Step(m, from, to) /\ QuietPCs(from, to)
      BY <1>2, QuietStepPCs
    <2>2. /\ call' \in [Moves -> Call]
          /\ call[m].pc = from /\ call'[m].pc = to
          /\ call'[m].original = call[m].original
          /\ call'[m].attempt = call[m].attempt
          /\ \A q \in Moves \ {m} : call'[q] = call[q]
      BY <2>1, MoveCall DEF Shape
    <2>3. call'[m].attempt < MaxTries
      BY <2>2 DEF Shape, TriesLeft
    <2>4. m \in Transfers => call'[m].original = NoMove
      BY <2>2 DEF Shape, Reverses
    <2> QED
      BY <1>1, <2>1, <2>2, <2>3, <2>4
  <1>3. CASE Begin(m)
    <2>1. 0 < MaxTries
      BY ConstantsType
    <2> QED
      BY <1>1, <1>3, <2>1, BeginCall DEF Shape, QuietPCs
  <1>4. CASE Rejected(m)
    <2>1. call[m].attempt < MaxTries
      BY <1>4 DEF Rejected, Shape, TriesLeft, Working
    <2>2. /\ call' \in [Moves -> Call] /\ call[m].pc = "inserted"
          /\ call'[m].pc \in {"admitted", "refused"}
          /\ call'[m].pc = "admitted" => call'[m].attempt < MaxTries
          /\ call'[m].original = call[m].original
          /\ \A q \in Moves \ {m} : call'[q] = call[q]
      BY <1>4, <2>1, RejectedCall DEF Shape
    <2>3. call'[m].pc \in Working => call'[m].attempt < MaxTries
      BY <2>2 DEF Working
    <2>4. m \in Transfers => call'[m].original = NoMove
      BY <2>2 DEF Shape, Reverses
    <2> QED
      BY <1>1, <2>2, <2>3, <2>4 DEF QuietPCs
  <1> QED
    BY <1>2, <1>3, <1>4 DEF Quiet, QuietStep

LEMMA ShapeInit == Init => Shape
<1> SUFFICES ASSUME Init PROVE Shape
  OBVIOUS
<1>1. IdleCall \in Call
  BY ConstantsType DEF IdleCall, Call
<1>2. IdleEnding \in Ending
  BY DEF IdleEnding, Ending, Verdicts
<1>3. spent \in 0 .. MaxSpent /\ faults \in 0 .. MaxFaults
  BY ConstantsType DEF Init
<1>4. Types
  BY <1>1, <1>2, <1>3 DEF Init, Types, Statuses, TransferStates
<1>5. TriesLeft /\ Reverses
  BY DEF Init, IdleCall, TriesLeft, Reverses, Working, Moves
<1> QED
  BY <1>4, <1>5 DEF Shape

LEMMA ShapeStep == Shape /\ [Next]_vars => Shape'
<1> SUFFICES ASSUME Shape, [Next]_vars PROVE Shape'
  OBVIOUS
<1> USE DEF Shape
<1>0. /\ spent \in 0 .. MaxSpent /\ faults \in 0 .. MaxFaults
      /\ MaxSpent \in Nat /\ MaxFaults \in Nat
  BY ConstantsType DEF Types
<1>1. ASSUME UNCHANGED call PROVE TriesLeft' /\ Reverses'
  BY <1>1 DEF TriesLeft, Reverses
<1>2. ASSUME NEW m \in Moves, Quiet(m) PROVE Shape'
  <2>1. /\ call' \in [Moves -> Call]
        /\ call'[m].pc \in Working => call'[m].attempt < MaxTries
        /\ m \in Transfers => call'[m].original = NoMove
        /\ \A q \in Moves \ {m} : call'[q] = call[q]
        /\ UNCHANGED <<status, tb, ending, overdue, active, spent>>
    BY <1>2, QuietCall
  <2>2. faults' \in 0 .. MaxFaults
    BY <1>0, <1>2 DEF Quiet, Begin, LoadOriginal, CheckReversal, Admit, ReadBalance,
                      InsertRows, Rejected, Fail
  <2>3. Types'
    BY <2>1, <2>2 DEF Types
  <2>4. TriesLeft' /\ Reverses'
    BY <2>1 DEF TriesLeft, Reverses, Moves
  <2> QED
    BY <2>3, <2>4
<1>3. ASSUME NEW m \in Moves, MoveMoney(m) \/ Commit(m) PROVE Shape'
  <2>1. PICK from \in Working, to \in {"moved", "done"} : Step(m, from, to)
    BY <1>3 DEF MoveMoney, Commit, Working
  <2>2. /\ call' \in [Moves -> Call]
        /\ call[m].pc = from /\ call'[m].pc = to
        /\ call'[m].original = call[m].original
        /\ call'[m].attempt = call[m].attempt
        /\ \A q \in Moves \ {m} : call'[q] = call[q]
    BY <2>1, MoveCall DEF PCs, Working, Answered
  <2>3. /\ status' \in [Moves -> [Accounts -> Statuses]]
        /\ tb' \in [Moves -> TransferStates]
        /\ UNCHANGED <<ending, overdue, active, spent, faults>>
    <3>1. CASE MoveMoney(m)
      BY <3>1 DEF MoveMoney, Types, TransferStates
    <3>2. CASE Commit(m)
      <4>1. PICK new \in {"pending", "posted"} :
              status' = [status EXCEPT ![m] = [a \in Accounts |-> new]]
        BY <3>2 DEF Commit
      <4>2. [a \in Accounts |-> new] \in [Accounts -> Statuses]
        BY DEF Statuses
      <4> QED
        BY <3>2, <4>1, <4>2 DEF Commit, Types
    <3> QED
      BY <1>3, <3>1, <3>2
  <2>4. Types'
    BY <2>2, <2>3 DEF Types
  <2>5. TriesLeft' /\ Reverses'
    BY <2>1, <2>2 DEF TriesLeft, Reverses, Moves
  <2> QED
    BY <2>4, <2>5
<1>4. ASSUME NEW e \in Endings, End(e) \/ LoseEnding(e) PROVE Shape'
  <2>1. UNCHANGED <<call, overdue, active, spent>> /\ faults' \in 0 .. MaxFaults
    BY <1>0, <1>4 DEF End, ReadRow, ApplyVerdict, UpdateRows, LoseEnding
  <2>2. IdleEnding \in Ending
    BY DEF IdleEnding, Ending, Verdicts
  <2>3. \A x \in Ending : [x EXCEPT !.pc = "applied"] \in Ending
    BY DEF Ending
  <2>4. ending[e] \in Ending
    BY DEF Types
  <2>5. ending' \in [Endings -> Ending]
    <3>1. CASE ReadRow(e)
      <4>1. PICK m \in Moves, verdict \in Verdicts, scope \in Scopes :
              ending' = [ending EXCEPT ![e] = [pc |-> "read", move |-> m,
                                               verdict |-> verdict, scope |-> scope]]
        BY <3>1 DEF ReadRow
      <4>2. scope \in {"both", "normal", "pb"}
        BY TransferAssumption
      <4> QED
        BY <4>1, <4>2 DEF Types, Ending
    <3>2. CASE ApplyVerdict(e)
      <4>1. \/ ending' = [ending EXCEPT ![e] = [ending[e] EXCEPT !.pc = "applied"]]
            \/ ending' = [ending EXCEPT ![e] = IdleEnding]
        BY <3>2 DEF ApplyVerdict
      <4>2. [ending[e] EXCEPT !.pc = "applied"] \in Ending
        BY <2>3, <2>4
      <4> QED
        BY <2>2, <4>1, <4>2 DEF Types
    <3>3. CASE UpdateRows(e) \/ LoseEnding(e)
      <4>1. ending' = [ending EXCEPT ![e] = IdleEnding]
        BY <3>3 DEF UpdateRows, LoseEnding
      <4> QED
        BY <2>2, <4>1 DEF Types
    <3> QED
      BY <1>4, <3>1, <3>2, <3>3 DEF End
  <2>6. ending[e].verdict \in {"posted", "voided"}
    BY <2>4 DEF Ending, Verdicts
  <2>7. tb' \in [Moves -> TransferStates]
    BY <1>4, <2>6
    DEF End, ReadRow, ApplyVerdict, UpdateRows, LoseEnding, Types, Resolved, TransferStates
  <2>8. status' \in [Moves -> [Accounts -> Statuses]]
    <3>1. CASE UNCHANGED status
      BY <3>1 DEF Types
    <3>2. CASE UpdateRows(e)
      <4> DEFINE m == ending[e].move
                 row == [a \in Accounts |-> IF a \in RowsWritten(ending[e].scope)
                                            THEN ending[e].verdict ELSE status[m][a]]
      <4>1. status' = status \/ status' = [status EXCEPT ![m] = row]
        BY <3>2 DEF UpdateRows
      <4>2. m \in Moves => row \in [Accounts -> Statuses]
        BY <2>6 DEF Types, Statuses
      <4> HIDE DEF row
      <4> QED
        BY <4>1, <4>2 DEF Types
    <3> QED
      BY <1>4, <3>1, <3>2 DEF End, ReadRow, ApplyVerdict, LoseEnding
  <2> QED
    BY <1>1, <2>1, <2>5, <2>7, <2>8 DEF Types
<1>5. ASSUME NEW m \in Moves, PollerVoids(m) \/ PollerFails(m) \/ Expire(m) PROVE Shape'
  <2>1. UNCHANGED <<call, ending, active, spent>> /\ faults' \in 0 .. MaxFaults
        /\ overdue' \subseteq overdue
    BY <1>0, <1>5 DEF PollerVoids, PollerFails, Expire
  <2>2. status' \in [Moves -> [Accounts -> Statuses]]
    BY <1>5 DEF PollerVoids, PollerFails, Expire, Types, Statuses
  <2>3. tb' \in [Moves -> TransferStates]
    BY <1>5 DEF PollerVoids, PollerFails, Expire, Types, TransferStates
  <2> QED
    BY <1>1, <2>1, <2>2, <2>3 DEF Types
<1>6. ASSUME PollerFinds \/ Spend \/ SetStatus PROVE Shape'
  <2>1. UNCHANGED <<call, status, tb, ending, faults>> /\ spent' \in 0 .. MaxSpent
    BY <1>0, <1>6 DEF PollerFinds, Spend, SetStatus
  <2>2. overdue' \subseteq Moves /\ active' \in BOOLEAN
    BY <1>6 DEF PollerFinds, Spend, SetStatus, Types
  <2> QED
    BY <1>1, <2>1, <2>2 DEF Types
<1>7. ASSUME UNCHANGED vars PROVE Shape'
  BY <1>1, <1>7 DEF vars, Types
<1> QED
  BY <1>2, <1>3, <1>4, <1>5, <1>6, <1>7 DEF Next, Handle, Quiet

-----------------------------------------------------------------------------

(***************************************************************************)
(* Why a posted row has moved its money.  There is no TigerBeetle transfer *)
(* before the call is made and no row before the commit; an ending works   *)
(* on committed rows, and once TigerBeetle has said yes the transfer has   *)
(* the ending's verdict for good.                                          *)
(***************************************************************************)
MoneyBeforeRows ==
    \A m \in Moves :
        /\ call[m].pc \notin {"moved", "done", "orphaned"} => tb[m] = "absent"
        /\ call[m].pc = "moved" /\ ~call[m].pending => tb[m] = "posted"
        /\ \A a \in Accounts : status[m][a] = "none" <=> ~Committed(m)

EndingsKnown ==
    \A e \in Endings :
        ending[e].pc # "idle" =>
            /\ ending[e].move \in Moves /\ Committed(ending[e].move)
            /\ ending[e].pc = "applied" => tb[ending[e].move] = ending[e].verdict

MoneyInvariant == Shape /\ MoneyBeforeRows /\ EndingsKnown /\ PostedHasMoved

LEMMA MoneyInit == Init => MoneyInvariant
<1>1. Init => MoneyBeforeRows /\ EndingsKnown /\ PostedHasMoved
  BY DEF Init, IdleCall, IdleEnding, MoneyBeforeRows, EndingsKnown, PostedHasMoved,
         Committed
<1> QED
  BY <1>1, ShapeInit DEF MoneyInvariant

LEMMA MoneyStep == MoneyInvariant /\ [Next]_vars => MoneyInvariant'
<1> SUFFICES ASSUME MoneyInvariant, [Next]_vars PROVE MoneyInvariant'
  OBVIOUS
<1> USE DEF MoneyInvariant
<1>0. Shape' /\ Types
  BY ShapeStep DEF Shape
<1>1. ASSUME NEW m \in Moves, Quiet(m) PROVE MoneyInvariant'
  <2>1. /\ QuietPCs(call[m].pc, call'[m].pc)
        /\ \A q \in Moves \ {m} : call'[q] = call[q]
        /\ UNCHANGED <<status, tb, ending>>
    BY <1>1, QuietCall
  <2>2. \A q \in Moves : Committed(q)' <=> Committed(q)
    BY <2>1 DEF QuietPCs, Committed
  <2>3. MoneyBeforeRows'
    BY <2>1, <2>2 DEF MoneyBeforeRows, QuietPCs
  <2>4. EndingsKnown'
    BY <2>1, <2>2 DEF EndingsKnown
  <2>5. PostedHasMoved'
    BY <2>1 DEF PostedHasMoved
  <2> QED
    BY <1>0, <2>3, <2>4, <2>5
<1>2. ASSUME NEW m \in Moves, MoveMoney(m) PROVE MoneyInvariant'
  <2>1. Step(m, "inserted", "moved") /\ UNCHANGED <<status, ending>>
        /\ tb' = [tb EXCEPT ![m] = IF call[m].pending THEN "pending" ELSE "posted"]
    BY <1>2 DEF MoveMoney
  <2>2. /\ call[m].pc = "inserted" /\ call'[m].pc = "moved"
        /\ call'[m].pending = call[m].pending
        /\ \A q \in Moves \ {m} : call'[q] = call[q]
    BY <1>0, <2>1, MoveCall DEF PCs, Working
  <2>3. /\ tb'[m] = (IF call[m].pending THEN "pending" ELSE "posted")
        /\ \A q \in Moves \ {m} : tb'[q] = tb[q]
    BY <1>0, <2>1 DEF Types
  <2>4. ~Committed(m) /\ \A q \in Moves : Committed(q)' <=> Committed(q)
    BY <2>2 DEF Committed
  <2>5. MoneyBeforeRows'
    BY <2>1, <2>2, <2>3, <2>4 DEF MoneyBeforeRows
  <2>6. EndingsKnown'
    BY <2>1, <2>3, <2>4 DEF EndingsKnown
  <2>7. PostedHasMoved'
    BY <2>1, <2>3, <2>4 DEF PostedHasMoved, MoneyBeforeRows
  <2> QED
    BY <1>0, <2>5, <2>6, <2>7
<1>3. ASSUME NEW m \in Moves, Commit(m) PROVE MoneyInvariant'
  <2>1. Step(m, "moved", "done") /\ UNCHANGED <<tb, ending>>
    BY <1>3 DEF Commit
  <2>2. /\ call[m].pc = "moved" /\ call'[m].pc = "done"
        /\ \A q \in Moves \ {m} : call'[q] = call[q]
    BY <1>0, <2>1, MoveCall DEF PCs, Answered
  <2>3. /\ \A a \in Accounts :
             status'[m][a] = IF call[m].pending THEN "pending" ELSE "posted"
        /\ \A q \in Moves \ {m} : status'[q] = status[q]
    BY <1>0, <1>3 DEF Commit, Types
  <2>4. MoneyBeforeRows'
    BY <2>1, <2>2, <2>3 DEF MoneyBeforeRows, Committed
  <2>5. EndingsKnown'
    BY <2>1, <2>2 DEF EndingsKnown, Committed
  <2>6. PostedHasMoved'
    BY <2>1, <2>2, <2>3 DEF PostedHasMoved, MoneyBeforeRows
  <2> QED
    BY <1>0, <2>4, <2>5, <2>6
<1>4. ASSUME NEW e \in Endings, ReadRow(e) \/ LoseEnding(e) PROVE MoneyInvariant'
  <2>1. UNCHANGED <<call, status, tb>>
    BY <1>4 DEF ReadRow, LoseEnding
  <2>2. MoneyBeforeRows' /\ PostedHasMoved'
    BY <2>1 DEF MoneyBeforeRows, Committed, PostedHasMoved
  <2>3. /\ \A d \in Endings \ {e} : ending'[d] = ending[d]
        /\ \/ ending'[e].pc = "idle"
           \/ /\ ending'[e].pc = "read" /\ ending'[e].move \in Moves
              /\ Committed(ending'[e].move)
    BY <1>0, <1>4 DEF ReadRow, LoseEnding, IdleEnding, Types
  <2>4. EndingsKnown'
    BY <2>1, <2>3 DEF EndingsKnown, Committed
  <2> QED
    BY <1>0, <2>2, <2>4
<1>5. ASSUME NEW e \in Endings, ApplyVerdict(e) PROVE MoneyInvariant'
  <2> DEFINE m == ending[e].move
  <2>1. /\ ending[e].pc = "read" /\ UNCHANGED <<call, status>>
        /\ tb' = [tb EXCEPT ![m] = Resolved(tb[m], ending[e].verdict)]
        /\ ending' = [ending EXCEPT ![e] = IF Answer(tb[m]) = "ok"
                                           THEN [ending[e] EXCEPT !.pc = "applied"]
                                           ELSE IdleEnding]
    BY <1>5 DEF ApplyVerdict
  <2>2. m \in Moves /\ Committed(m) /\ ending[e] \in Ending
    BY <1>0, <2>1 DEF EndingsKnown, Types
  <2>3. /\ tb'[m] = Resolved(tb[m], ending[e].verdict)
        /\ \A q \in Moves \ {m} : tb'[q] = tb[q]
    BY <1>0, <2>1, <2>2 DEF Types
  <2>4. \A q \in Moves : tb[q] \in Verdicts \/ ~Committed(q) => tb'[q] = tb[q]
    BY <2>2, <2>3 DEF Resolved, Verdicts
  <2>5. MoneyBeforeRows'
    BY <2>1, <2>2, <2>4 DEF MoneyBeforeRows, Committed, Verdicts
  <2>6. PostedHasMoved'
    BY <2>1, <2>4 DEF PostedHasMoved, Verdicts
  <2>7. EndingsKnown'
    <3>1. \A d \in Endings : ending[d].verdict \in Verdicts
      BY <1>0 DEF Types, Ending
    <3>2. \A d \in Endings \ {e} : ending'[d] = ending[d]
      BY <1>0, <2>1 DEF Types
    <3>3. CASE Answer(tb[m]) = "ok"
      <4>1. tb[m] = "pending"
        BY <3>3 DEF Answer, Verdicts
      <4>2. ending'[e] = [ending[e] EXCEPT !.pc = "applied"]
        BY <1>0, <2>1, <3>3 DEF Types
      <4>3. ending'[e].move = m /\ ending'[e].verdict = ending[e].verdict
        BY <2>2, <4>2 DEF Ending
      <4>4. tb'[m] = ending[e].verdict
        BY <2>3, <4>1 DEF Resolved
      <4> QED
        BY <2>1, <2>2, <2>4, <3>1, <3>2, <4>3, <4>4 DEF EndingsKnown, Committed
    <3>4. CASE Answer(tb[m]) # "ok"
      <4>1. ending'[e].pc = "idle"
        BY <1>0, <2>1, <3>4 DEF Types, IdleEnding
      <4> QED
        BY <2>1, <2>4, <3>1, <3>2, <4>1 DEF EndingsKnown, Committed
    <3> QED
      BY <3>3, <3>4
  <2> QED
    BY <1>0, <2>5, <2>6, <2>7
<1>6. ASSUME NEW e \in Endings, UpdateRows(e) PROVE MoneyInvariant'
  <2> DEFINE m == ending[e].move
  <2>1. /\ ending[e].pc = "applied" /\ UNCHANGED <<call, tb>>
        /\ ending' = [ending EXCEPT ![e] = IdleEnding]
        /\ \/ UNCHANGED status
           \/ status' = [status EXCEPT ![m] = [a \in Accounts |->
                           IF a \in RowsWritten(ending[e].scope)
                           THEN ending[e].verdict ELSE status[m][a]]]
    BY <1>6 DEF UpdateRows
  <2>2. /\ m \in Moves /\ Committed(m) /\ tb[m] = ending[e].verdict
        /\ ending[e].verdict \in Verdicts
    BY <1>0, <2>1 DEF EndingsKnown, Types, Ending
  <2>3. /\ \A a \in Accounts : status'[m][a] \in {status[m][a], ending[e].verdict}
        /\ \A q \in Moves \ {m} : status'[q] = status[q]
    BY <1>0, <2>1, <2>2 DEF Types
  <2>4. MoneyBeforeRows'
    BY <2>1, <2>2, <2>3 DEF MoneyBeforeRows, Committed, Verdicts
  <2>5. PostedHasMoved'
    BY <2>1, <2>2, <2>3 DEF PostedHasMoved
  <2>6. EndingsKnown'
    <3>1. /\ ending'[e].pc = "idle"
          /\ \A d \in Endings \ {e} : ending'[d] = ending[d]
      BY <1>0, <2>1 DEF IdleEnding, Types
    <3> QED
      BY <2>1, <3>1 DEF EndingsKnown, Committed
  <2> QED
    BY <1>0, <2>4, <2>5, <2>6
<1>7. ASSUME NEW m \in Moves, PollerVoids(m) PROVE MoneyInvariant'
  <2>1. /\ UNCHANGED <<call, tb, ending>>
        /\ \A q \in Moves, a \in Accounts :
             \/ status'[q][a] = status[q][a]
             \/ status[q][a] = "pending" /\ status'[q][a] = "voided"
    BY <1>0, <1>7 DEF PollerVoids, Types
  <2>2. MoneyBeforeRows' /\ EndingsKnown' /\ PostedHasMoved'
    BY <2>1 DEF MoneyBeforeRows, EndingsKnown, PostedHasMoved, Committed
  <2> QED
    BY <1>0, <2>2
<1>8. ASSUME NEW m \in Moves, Expire(m) PROVE MoneyInvariant'
  <2>1. UNCHANGED <<call, status, ending>> /\ tb[m] = "pending"
        /\ \A q \in Moves \ {m} : tb'[q] = tb[q]
    BY <1>0, <1>8 DEF Expire, Types
  <2>2. MoneyBeforeRows'
    BY <2>1 DEF MoneyBeforeRows, Committed
  <2>3. EndingsKnown'
    <3>1. \A d \in Endings : ending[d].verdict \in Verdicts
      BY <1>0 DEF Types, Ending
    <3> QED
      BY <2>1, <3>1 DEF EndingsKnown, Committed, Verdicts
  <2>4. PostedHasMoved'
    BY <2>1 DEF PostedHasMoved
  <2> QED
    BY <1>0, <2>2, <2>3, <2>4
<1>9. CASE UNCHANGED <<call, status, tb, ending>>
  BY <1>0, <1>9 DEF MoneyBeforeRows, EndingsKnown, PostedHasMoved, Committed
<1> QED
  BY <1>1, <1>2, <1>3, <1>4, <1>5, <1>6, <1>7, <1>8, <1>9
  DEF Next, Handle, Quiet, End, PollerFails, PollerFinds, Spend, SetStatus, vars

(***************************************************************************)
(* A row that says posted has moved its money, for any number of moves,    *)
(* endings and lost transactions, and whichever endpoint ends the move.    *)
(***************************************************************************)
THEOREM PostedMoved == Spec => []PostedHasMoved
<1>1. MoneyInvariant => PostedHasMoved
  BY DEF MoneyInvariant
<1> QED
  BY <1>1, MoneyInit, MoneyStep, PTL DEF Spec

-----------------------------------------------------------------------------

(***************************************************************************)
(* What the two unique indexes keep: of the moves whose rows are in the    *)
(* table, committed or not, no two share a key, and no two that are not    *)
(* voided reverse the same transfer.                                       *)
(***************************************************************************)
Holds(m) == Open(m) \/ Committed(m)

Live(m) == Open(m) \/ (Committed(m) /\ status[m]["normal"] # "voided")

KeysClaimed ==
    \A m, q \in Moves : m # q /\ Holds(m) /\ Holds(q) => ~SameKey(m, q)

ReversalsClaimed ==
    \A m, q \in Moves : m # q /\ Live(m) /\ Live(q) => ~SameOriginal(m, q)

(***************************************************************************)
(* A step that makes no row appear or come back keeps both.                *)
(***************************************************************************)
LEMMA ClaimsFrame ==
    ASSUME KeysClaimed, ReversalsClaimed,
           \A m \in Moves :
             /\ Holds(m)' => /\ Holds(m) /\ call'[m].key = call[m].key
                             /\ call'[m].original = call[m].original
             /\ Live(m)' => Live(m)
    PROVE  KeysClaimed' /\ ReversalsClaimed'
  <1>1. \A m \in Moves : Live(m)' => Holds(m)'
    BY DEF Live, Holds
  <1>2. KeysClaimed'
    BY DEF KeysClaimed, SameKey
  <1>3. ReversalsClaimed'
    BY <1>1 DEF ReversalsClaimed, SameOriginal
  <1> QED
    BY <1>2, <1>3

LEMMA InsertClaims ==
    ASSUME Types, MoneyBeforeRows, KeysClaimed, ReversalsClaimed,
           NEW m \in Moves, InsertRows(m)
    PROVE  KeysClaimed' /\ ReversalsClaimed'
  <1> DEFINE conflict(q) == \/ SameKey(m, q)
                            \/ SameOriginal(m, q) /\ status[q]["normal"] # "voided"
  <1>1. UNCHANGED status
    BY DEF InsertRows
  <1>2. PICK to \in {"inserted", "refused"} : Step(m, "ready", to)
    BY DEF InsertRows
  <1>3. /\ call[m].pc = "ready" /\ call'[m].pc = to
        /\ call'[m].key = call[m].key /\ call'[m].original = call[m].original
        /\ \A q \in Moves \ {m} : call'[q] = call[q]
    BY <1>2, MoveCall DEF PCs, Working, Answered
  <1>4. \A q \in Moves \ {m} : /\ Holds(q)' <=> Holds(q)
                               /\ Live(q)' <=> Live(q)
    BY <1>1, <1>3 DEF Holds, Live, Open, Committed
  <1>5. CASE to = "refused"
    <2>1. ~Holds(m)' /\ ~Live(m)'
      BY <1>3, <1>5 DEF Holds, Live, Open, Committed
    <2> QED
      BY <1>3, <1>4, <2>1, ClaimsFrame
  <1>6. CASE to = "inserted"
    <2>1. \A q \in Moves \ {m} : Open(q) \/ Committed(q) => ~conflict(q)
      <3>1. \A q \in Moves \ {m} : Open(q) => ~conflict(q)
        BY DEF InsertRows
      <3>2. ~\E q \in Moves : Committed(q) /\ conflict(q)
        <4>1. SUFFICES ASSUME \E q \in Moves : Committed(q) /\ conflict(q)
                       PROVE  FALSE
          OBVIOUS
        <4>2. Step(m, "ready", "refused")
          BY <4>1 DEF InsertRows
        <4>3. call'[m].pc = "refused"
          BY <4>2, MoveCall DEF PCs, Answered
        <4> QED
          BY <1>3, <1>6, <4>3
      <3> QED
        BY <3>1, <3>2
    <2>2. \A q \in Moves : Open(q) => status[q]["normal"] # "voided"
      BY DEF MoneyBeforeRows, Open, Committed, Accounts
    <2>3. \A q \in Moves \ {m} : /\ Holds(q) => ~SameKey(m, q)
                                 /\ Live(q) => ~SameOriginal(m, q)
      BY <2>1, <2>2 DEF Holds, Live
    <2>4. \A q \in Moves \ {m} : /\ Holds(q) => ~SameKey(q, m)
                                 /\ Live(q) => ~SameOriginal(q, m)
      BY <2>3 DEF SameKey, SameOriginal
    <2>5. \A q, o \in Moves : /\ SameKey(q, o)' <=> SameKey(q, o)
                              /\ SameOriginal(q, o)' <=> SameOriginal(q, o)
      BY <1>3 DEF SameKey, SameOriginal
    <2>6. KeysClaimed'
      BY <1>4, <2>3, <2>4, <2>5 DEF KeysClaimed
    <2>7. ReversalsClaimed'
      BY <1>4, <2>3, <2>4, <2>5 DEF ReversalsClaimed
    <2> QED
      BY <2>6, <2>7
  <1> QED
    BY <1>2, <1>5, <1>6

(***************************************************************************)
(* The UPDATE of an ending brings a row back only if the index has no      *)
(* other reversal of the same transfer.                                    *)
(***************************************************************************)
LEMMA UpdateClaims ==
    ASSUME MoneyInvariant, KeysClaimed, ReversalsClaimed,
           NEW e \in Endings, UpdateRows(e)
    PROVE  KeysClaimed' /\ ReversalsClaimed'
  <1>0. ending[e].pc = "applied" /\ ending[e].move \in Moves
    BY DEF UpdateRows, MoneyInvariant, EndingsKnown
  <1> PICK m \in Moves : m = ending[e].move
    BY <1>0
  <1> DEFINE rows == RowsWritten(ending[e].scope)
             revives == /\ "normal" \in rows /\ status[m]["normal"] = "voided"
                        /\ ending[e].verdict = "posted"
             rival(q) == SameOriginal(m, q) /\ q # m
  <1>1. /\ ending[e].pc = "applied" /\ UNCHANGED call
        /\ ~(revives /\ \E q \in Moves : Open(q) /\ rival(q))
        /\ IF revives /\ \E q \in Moves : /\ Committed(q) /\ rival(q)
                                          /\ status[q]["normal"] # "voided"
           THEN UNCHANGED status
           ELSE status' = [status EXCEPT ![m] = [a \in Accounts |->
                             IF a \in rows THEN ending[e].verdict ELSE status[m][a]]]
    BY DEF UpdateRows
  <1>2. Types /\ m \in Moves /\ Committed(m) /\ ending[e].verdict \in Verdicts
    BY <1>1 DEF MoneyInvariant, Shape, EndingsKnown, Types, Ending
  <1>3. \A q \in Moves : (Holds(q)' <=> Holds(q)) /\ (Open(q)' <=> Open(q))
                         /\ (Committed(q)' <=> Committed(q))
    BY <1>1 DEF Holds, Open, Committed
  <1>4. \A q \in Moves \ {m} : status'[q] = status[q]
    BY <1>1, <1>2 DEF Types
  <1>5. \A q \in Moves \ {m} : Live(q)' <=> Live(q)
    BY <1>3, <1>4 DEF Live
  <1>6. CASE Live(m)' => Live(m)
    BY <1>1, <1>3, <1>5, <1>6, ClaimsFrame
  <1>7. CASE Live(m)' /\ ~Live(m)
    <2>1. status[m]["normal"] = "voided" /\ status'[m]["normal"] # "voided"
      BY <1>2, <1>3, <1>7 DEF Live
    <2>2. status'[m]["normal"] = IF "normal" \in rows THEN ending[e].verdict
                                                      ELSE status[m]["normal"]
      BY <1>1, <1>2, <2>1 DEF Types, Accounts
    <2>3. revives
      BY <1>2, <2>1, <2>2 DEF Verdicts
    <2>4. ~\E q \in Moves : Live(q) /\ rival(q)
      BY <1>1, <2>1, <2>3 DEF Live
    <2>5. \A q \in Moves \ {m} : Live(q) => ~SameOriginal(m, q)
      BY <2>4
    <2>6. \A q \in Moves \ {m} : Live(q) => ~SameOriginal(q, m)
      BY <2>5 DEF SameOriginal
    <2>7. \A q, o \in Moves : /\ SameKey(q, o)' <=> SameKey(q, o)
                              /\ SameOriginal(q, o)' <=> SameOriginal(q, o)
      BY <1>1 DEF SameKey, SameOriginal
    <2>8. KeysClaimed'
      BY <1>3, <2>7 DEF KeysClaimed
    <2>9. ReversalsClaimed'
      BY <1>5, <2>5, <2>6, <2>7 DEF ReversalsClaimed
    <2> QED
      BY <2>8, <2>9
  <1> QED
    BY <1>6, <1>7

LEMMA ClaimsStep ==
    MoneyInvariant /\ KeysClaimed /\ ReversalsClaimed /\ [Next]_vars
        => KeysClaimed' /\ ReversalsClaimed'
<1> SUFFICES ASSUME MoneyInvariant, KeysClaimed, ReversalsClaimed, [Next]_vars
             PROVE  KeysClaimed' /\ ReversalsClaimed'
  OBVIOUS
<1>0. Shape /\ Types
  BY DEF MoneyInvariant, Shape
<1>1. ASSUME NEW m \in Moves, UNCHANGED status,
             call'[m].pc \notin {"inserted", "moved", "done"},
             \A q \in Moves \ {m} : call'[q] = call[q]
      PROVE  KeysClaimed' /\ ReversalsClaimed'
  <2>1. ~Holds(m)' /\ ~Live(m)'
    BY <1>1 DEF Holds, Live, Open, Committed
  <2>2. \A q \in Moves \ {m} : (Holds(q)' <=> Holds(q)) /\ (Live(q)' <=> Live(q))
    BY <1>1 DEF Holds, Live, Open, Committed
  <2> QED
    BY <1>1, <2>1, <2>2, ClaimsFrame
<1>2. ASSUME NEW m \in Moves, Handle(m) \/ Fail(m) PROVE KeysClaimed' /\ ReversalsClaimed'
  <2>1. CASE InsertRows(m)
    BY <1>0, <2>1, InsertClaims DEF MoneyInvariant
  <2>2. CASE Quiet(m) /\ ~InsertRows(m)
    <3>1. /\ \A q \in Moves \ {m} : call'[q] = call[q]
          /\ call'[m].pc \notin {"moved", "done"} /\ UNCHANGED status
      BY <1>0, <2>2, QuietCall DEF QuietPCs
    <3>2. call'[m].pc # "inserted"
      <4>1. CASE Begin(m)
        BY <1>0, <4>1, BeginCall
      <4>2. CASE Rejected(m)
        BY <1>0, <4>2, RejectedCall DEF Shape, TriesLeft, Working, Rejected
      <4>3. CASE LoadOriginal(m) \/ CheckReversal(m) \/ Admit(m) \/ ReadBalance(m)
                 \/ Fail(m)
        <5>1. PICK to \in PCs \ {"inserted"} : call' = [call EXCEPT ![m].pc = to]
          BY <4>3 DEF LoadOriginal, CheckReversal, Admit, ReadBalance, Fail, Step,
                      PCs, Working, Answered, Gone
        <5> QED
          BY <1>0, <5>1 DEF Types, Call
      <4> QED
        BY <2>2, <4>1, <4>2, <4>3 DEF Quiet
    <3> QED
      BY <1>1, <3>1, <3>2
  <2>3. CASE MoveMoney(m)
    <3>1. Step(m, "inserted", "moved") /\ UNCHANGED status
      BY <2>3 DEF MoveMoney
    <3>2. /\ call[m].pc = "inserted" /\ call'[m].pc = "moved"
          /\ call'[m].key = call[m].key /\ call'[m].original = call[m].original
          /\ \A q \in Moves \ {m} : call'[q] = call[q]
      BY <1>0, <3>1, MoveCall DEF PCs, Working
    <3> QED
      BY <3>1, <3>2, ClaimsFrame DEF Holds, Live, Open, Committed
  <2>4. CASE Commit(m)
    <3>1. Step(m, "moved", "done")
      BY <2>4 DEF Commit
    <3>2. /\ call[m].pc = "moved" /\ call'[m].pc = "done"
          /\ call'[m].key = call[m].key /\ call'[m].original = call[m].original
          /\ \A q \in Moves \ {m} : call'[q] = call[q]
      BY <1>0, <3>1, MoveCall DEF PCs, Answered
    <3>3. \A q \in Moves \ {m} : status'[q] = status[q]
      BY <1>0, <2>4 DEF Commit, Types
    <3>4. Holds(m) /\ Live(m)
      BY <3>2 DEF Holds, Live, Open
    <3>5. \A q \in Moves \ {m} : (Holds(q)' <=> Holds(q)) /\ (Live(q)' <=> Live(q))
      BY <3>2, <3>3 DEF Holds, Live, Open, Committed
    <3> QED
      BY <3>2, <3>4, <3>5, ClaimsFrame
  <2> QED
    BY <1>2, <2>1, <2>2, <2>3, <2>4 DEF Handle, Quiet
<1>3. ASSUME NEW e \in Endings, UpdateRows(e) PROVE KeysClaimed' /\ ReversalsClaimed'
  BY <1>3, UpdateClaims
<1>4. ASSUME NEW m \in Moves, PollerVoids(m) PROVE KeysClaimed' /\ ReversalsClaimed'
  <2>1. /\ UNCHANGED call
        /\ \A q \in Moves : status[q]["normal"] = "voided" => status'[q]["normal"] = "voided"
    BY <1>0, <1>4 DEF PollerVoids, Types, Accounts
  <2> QED
    BY <2>1, ClaimsFrame DEF Holds, Live, Open, Committed
<1>5. CASE UNCHANGED <<call, status>>
  BY <1>5, ClaimsFrame DEF Holds, Live, Open, Committed
<1> QED
  BY <1>2, <1>3, <1>4, <1>5
  DEF Next, End, ReadRow, ApplyVerdict, LoseEnding, PollerFails, Expire, PollerFinds,
      Spend, SetStatus, vars

LEMMA ClaimsInit == Init => KeysClaimed /\ ReversalsClaimed
  BY DEF Init, IdleCall, KeysClaimed, ReversalsClaimed, Holds, Live, Open, Committed

(***************************************************************************)
(* A transfer never has two reversals that are pending or posted, for any  *)
(* number of reversals, verdicts and timeouts.                             *)
(***************************************************************************)
THEOREM OneReversal == Spec => []OneLiveReversal
<1>1. MoneyInvariant /\ ReversalsClaimed => OneLiveReversal
  BY DEF MoneyInvariant, MoneyBeforeRows, ReversalsClaimed, OneLiveReversal, Live,
         Moves, Accounts
<1> QED
  BY <1>1, MoneyInit, MoneyStep, ClaimsInit, ClaimsStep, PTL DEF Spec

(***************************************************************************)
(* Two committed moves of a normal account, transfers or reversals, never  *)
(* have the same idempotency key.                                          *)
(***************************************************************************)
THEOREM OneKey == Spec => []OneMovePerKey
<1>1. KeysClaimed => OneMovePerKey
  BY DEF KeysClaimed, OneMovePerKey, Holds
<1> QED
  BY <1>1, MoneyInit, MoneyStep, ClaimsInit, ClaimsStep, PTL DEF Spec

-----------------------------------------------------------------------------

(***************************************************************************)
(* The deposit endpoints left aside, an ending always writes both rows.    *)
(***************************************************************************)
BothScopes == \A e \in Endings : ending[e].scope = "both"

LEMMA BothStep ==
    ASSUME Scopes = {"both"}, Types, BothScopes, [Next]_vars
    PROVE  BothScopes'
<1>1. ASSUME NEW e \in Endings, ReadRow(e) PROVE BothScopes'
  <2>1. PICK m \in Moves, verdict \in Verdicts, scope \in Scopes :
          ending' = [ending EXCEPT ![e] = [pc |-> "read", move |-> m,
                                           verdict |-> verdict, scope |-> scope]]
    BY <1>1 DEF ReadRow
  <2> QED
    BY <2>1 DEF BothScopes, Types
<1>2. ASSUME NEW e \in Endings, ApplyVerdict(e) PROVE BothScopes'
  <2>1. \/ ending' = [ending EXCEPT ![e] = [ending[e] EXCEPT !.pc = "applied"]]
        \/ ending' = [ending EXCEPT ![e] = IdleEnding]
    BY <1>2 DEF ApplyVerdict
  <2>2. ending[e] \in Ending
    BY DEF Types
  <2>3. [ending[e] EXCEPT !.pc = "applied"].scope = "both" /\ IdleEnding.scope = "both"
    BY <2>2 DEF BothScopes, Ending, IdleEnding
  <2> QED
    BY <2>1, <2>3 DEF BothScopes, Types
<1>3. ASSUME NEW e \in Endings, UpdateRows(e) \/ LoseEnding(e) PROVE BothScopes'
  BY <1>3 DEF UpdateRows, LoseEnding, IdleEnding, BothScopes, Types
<1>4. CASE UNCHANGED ending
  BY <1>4 DEF BothScopes
<1> QED
  BY <1>1, <1>2, <1>3, <1>4
  DEF Next, Handle, Begin, LoadOriginal, CheckReversal, Admit, ReadBalance, InsertRows,
      MoveMoney, Rejected, Commit, Fail, End, PollerVoids, PollerFails, Expire,
      PollerFinds, Spend, SetStatus, vars

LEMMA TogetherStep ==
    ASSUME MoneyInvariant, BothScopes, LegsTogether, [Next]_vars
    PROVE  LegsTogether'
<1>0. Types
  BY DEF MoneyInvariant, Shape
<1>1. ASSUME NEW m \in Moves, Commit(m) PROVE LegsTogether'
  BY <1>0, <1>1 DEF Commit, Types, LegsTogether, Accounts
<1>2. ASSUME NEW e \in Endings, UpdateRows(e) PROVE LegsTogether'
  <2>1. RowsWritten(ending[e].scope) = Accounts
    BY DEF BothScopes, RowsWritten
  <2>2. \/ UNCHANGED status
        \/ status' = [status EXCEPT ![ending[e].move] =
                        [a \in Accounts |-> ending[e].verdict]]
    BY <1>2, <2>1 DEF UpdateRows
  <2> QED
    BY <1>0, <2>2 DEF Types, LegsTogether, Accounts
<1>3. ASSUME NEW m \in Moves, PollerVoids(m) PROVE LegsTogether'
  BY <1>0, <1>3 DEF PollerVoids, Types, LegsTogether, Accounts
<1>4. CASE UNCHANGED status
  BY <1>4 DEF LegsTogether
<1> QED
  BY <1>1, <1>2, <1>3, <1>4
  DEF Next, Handle, Begin, LoadOriginal, CheckReversal, Admit, ReadBalance, InsertRows,
      MoveMoney, Rejected, Fail, End, ReadRow, ApplyVerdict, LoseEnding, PollerFails,
      Expire, PollerFinds, Spend, SetStatus, vars

(***************************************************************************)
(* As long as nobody calls the deposit endpoints for a transfer's row, its *)
(* two rows always agree, also with the poller between them.               *)
(***************************************************************************)
THEOREM RowsAgree ==
    ASSUME Scopes = {"both"}
    PROVE  Spec => []LegsTogether
<1>1. Init => BothScopes /\ LegsTogether
  BY DEF Init, IdleEnding, BothScopes, LegsTogether, Accounts
<1>2. MoneyInvariant /\ BothScopes /\ LegsTogether /\ [Next]_vars
        => BothScopes' /\ LegsTogether'
  BY BothStep, TogetherStep DEF MoneyInvariant, Shape
<1> QED
  BY <1>1, <1>2, MoneyInit, MoneyStep, PTL DEF Spec

-----------------------------------------------------------------------------

(***************************************************************************)
(* Why each unrecorded move has a loss of its own.  A pending move is not  *)
(* posted before its rows are committed; after that an ending that posts   *)
(* it is on its way to the UPDATE, and only a lost transaction or          *)
(* statement, or the index, keeps the row from saying so.                  *)
(***************************************************************************)
PendingUnposted ==
    \A m \in Moves : call[m].pc = "moved" /\ call[m].pending => tb[m] # "posted"

LossInvariant == MoneyInvariant /\ PendingUnposted /\ LossesExplain

LEMMA UnrecordedType ==
    ASSUME Types
    PROVE  /\ IsFiniteSet(Unrecorded) /\ Cardinality(Unrecorded) \in Nat
           /\ faults \in Nat /\ MaxFaults \in Nat
  <1>1. Unrecorded \subseteq Moves
    BY DEF Unrecorded
  <1> QED
    BY <1>1, TransferAssumption, FS_Subset, FS_CardinalityType DEF Types

(***************************************************************************)
(* A step that loses nothing leaves no move unrecorded; one that loses a   *)
(* transaction or a statement at most the move it was for.                 *)
(***************************************************************************)
LEMMA LossFrame ==
    ASSUME Types, Types', LossesExplain, Unrecorded' \subseteq Unrecorded, faults' >= faults
    PROVE  LossesExplain'
  <1>1. Cardinality(Unrecorded') <= Cardinality(Unrecorded)
        /\ Cardinality(Unrecorded') \in Nat /\ Cardinality(Unrecorded) \in Nat
    BY UnrecordedType, FS_Subset, FS_CardinalityType
  <1>2. faults \in Nat /\ faults' \in Nat
    BY DEF Types
  <1> QED
    BY <1>1, <1>2 DEF LossesExplain

LEMMA LossCounts ==
    ASSUME Types, LossesExplain, NEW m \in Moves,
           Unrecorded' \subseteq Unrecorded \cup {m}, faults' = faults + 1
    PROVE  LossesExplain'
  <1>1. /\ IsFiniteSet(Unrecorded \cup {m})
        /\ \/ Cardinality(Unrecorded \cup {m}) = Cardinality(Unrecorded)
           \/ Cardinality(Unrecorded \cup {m}) = Cardinality(Unrecorded) + 1
    BY UnrecordedType, FS_AddElement
  <1>2. /\ Cardinality(Unrecorded') <= Cardinality(Unrecorded \cup {m})
        /\ Cardinality(Unrecorded') \in Nat
    BY <1>1, FS_Subset, FS_CardinalityType
  <1> QED
    BY <1>1, <1>2, UnrecordedType DEF LossesExplain

(***************************************************************************)
(* A booked reversal stays booked, so a reversal is superseded for as long *)
(* as its row stays voided.                                                *)
(***************************************************************************)
LEMMA SupersededStays ==
    ASSUME NEW m \in Moves, Superseded(m),
           \A q \in Moves : Committed(q) => Committed(q)' /\ call'[q].original = call[q].original,
           call'[m].original = call[m].original,
           status'[m]["normal"] = status[m]["normal"]
    PROVE  Superseded(m)'
  BY DEF Superseded, SameOriginal

\* Nothing that speaks for m changes.
Recorded(m) ==
    (\E a \in Accounts : status[m][a] = "posted") \/ Settling(m) \/ Superseded(m)

LEMMA RecordedKeeps ==
    ASSUME \A q \in Moves :
             tb'[q] = "posted" /\ call'[q].pc # "moved" /\ ~Recorded(q)'
               => tb[q] = "posted" /\ call[q].pc # "moved" /\ ~Recorded(q)
    PROVE  Unrecorded' \subseteq Unrecorded
  BY DEF Unrecorded, Recorded

LEMMA LossStep == LossInvariant /\ [Next]_vars => LossInvariant'
<1> SUFFICES ASSUME LossInvariant, [Next]_vars PROVE LossInvariant'
  OBVIOUS
<1>0. /\ MoneyInvariant /\ MoneyInvariant' /\ Shape /\ Types /\ Types'
      /\ PendingUnposted /\ LossesExplain
  BY MoneyStep DEF LossInvariant, MoneyInvariant, Shape
<1>1. ASSUME PendingUnposted', Unrecorded' \subseteq Unrecorded, faults' = faults
      PROVE  LossInvariant'
  BY <1>0, <1>1, LossFrame DEF LossInvariant, Types
<1>2. ASSUME NEW m \in Moves, Quiet(m) PROVE LossInvariant'
  <2>1. /\ QuietPCs(call[m].pc, call'[m].pc)
        /\ \A q \in Moves \ {m} : call'[q] = call[q]
        /\ UNCHANGED <<status, tb, ending>>
    BY <1>0, <1>2, QuietCall
  <2>2. \A q \in Moves : Committed(q) => q # m
    BY <2>1 DEF QuietPCs, Committed
  <2>3. PendingUnposted'
    BY <1>0, <2>1 DEF PendingUnposted, QuietPCs
  <2>4. \A q \in Moves \ {m} : Recorded(q) => Recorded(q)'
    <3> SUFFICES ASSUME NEW q \in Moves \ {m}, Recorded(q) PROVE Recorded(q)'
      OBVIOUS
    <3>1. CASE Superseded(q)
      BY <2>1, <2>2, <3>1, SupersededStays DEF Recorded, Committed
    <3> QED
      BY <2>1, <3>1 DEF Recorded, Settling
  <2>5. Unrecorded' \subseteq Unrecorded \cup {m}
    BY <2>1, <2>4 DEF Unrecorded, Recorded
  <2>6. CASE Fail(m)
    <3>1. faults' = faults + 1
      BY <2>6 DEF Fail
    <3> QED
      BY <1>0, <2>3, <2>5, <3>1, LossCounts DEF LossInvariant
  <2>7. CASE ~Fail(m)
    <3>1. faults' = faults /\ call[m].pc # "moved"
      BY <1>2, <2>7 DEF Quiet, Begin, LoadOriginal, CheckReversal, Admit, ReadBalance,
                         InsertRows, Rejected, Step
    <3>2. tb'[m] # "posted"
      BY <1>0, <2>1, <3>1 DEF MoneyInvariant, MoneyBeforeRows, QuietPCs
    <3> QED
      BY <1>1, <2>3, <2>5, <3>1, <3>2 DEF Unrecorded
  <2> QED
    BY <2>6, <2>7
<1>3. ASSUME NEW m \in Moves, MoveMoney(m) PROVE LossInvariant'
  <2>1. Step(m, "inserted", "moved") /\ UNCHANGED <<status, ending, faults>>
        /\ tb' = [tb EXCEPT ![m] = IF call[m].pending THEN "pending" ELSE "posted"]
    BY <1>3 DEF MoveMoney
  <2>2. /\ call[m].pc = "inserted" /\ call'[m].pc = "moved"
        /\ call'[m].pending = call[m].pending
        /\ \A q \in Moves \ {m} : call'[q] = call[q]
    BY <1>0, <2>1, MoveCall DEF PCs, Working
  <2>3. /\ tb'[m] = (IF call[m].pending THEN "pending" ELSE "posted")
        /\ \A q \in Moves \ {m} : tb'[q] = tb[q]
    BY <1>0, <2>1 DEF Types
  <2>4. PendingUnposted'
    BY <1>0, <2>2, <2>3 DEF PendingUnposted
  <2>5. \A q \in Moves \ {m} : Recorded(q) => Recorded(q)'
    <3> SUFFICES ASSUME NEW q \in Moves \ {m}, Recorded(q) PROVE Recorded(q)'
      OBVIOUS
    <3>1. CASE Superseded(q)
      BY <2>1, <2>2, <3>1, SupersededStays DEF Recorded, Committed
    <3> QED
      BY <2>1, <3>1 DEF Recorded, Settling
  <2>6. Unrecorded' \subseteq Unrecorded
    BY <2>2, <2>3, <2>5 DEF Unrecorded, Recorded
  <2> QED
    BY <1>1, <2>1, <2>4, <2>6
<1>4. ASSUME NEW m \in Moves, Commit(m) PROVE LossInvariant'
  <2>1. Step(m, "moved", "done") /\ UNCHANGED <<tb, ending, faults>>
    BY <1>4 DEF Commit
  <2>2. /\ call[m].pc = "moved" /\ call'[m].pc = "done"
        /\ call'[m].original = call[m].original
        /\ \A q \in Moves \ {m} : call'[q] = call[q]
    BY <1>0, <2>1, MoveCall DEF PCs, Answered
  <2>3. /\ \A a \in Accounts :
             status'[m][a] = IF call[m].pending THEN "pending" ELSE "posted"
        /\ \A q \in Moves \ {m} : status'[q] = status[q]
    BY <1>0, <1>4 DEF Commit, Types
  <2>4. PendingUnposted'
    BY <1>0, <2>1, <2>2 DEF PendingUnposted
  <2>5. \A q \in Moves \ {m} : Recorded(q) => Recorded(q)'
    <3> SUFFICES ASSUME NEW q \in Moves \ {m}, Recorded(q) PROVE Recorded(q)'
      OBVIOUS
    <3>1. CASE Superseded(q)
      BY <2>2, <2>3, <3>1, SupersededStays DEF Recorded, Committed
    <3> QED
      BY <2>1, <2>3, <3>1 DEF Recorded, Settling
  <2>6. m \notin Unrecorded'
    <3>1. CASE call[m].pending
      BY <1>0, <2>1, <2>2, <3>1 DEF PendingUnposted, Unrecorded
    <3>2. CASE ~call[m].pending
      BY <2>3, <3>2 DEF Unrecorded, Accounts
    <3> QED
      BY <3>1, <3>2
  <2>7. Unrecorded' \subseteq Unrecorded
    BY <2>1, <2>2, <2>5, <2>6 DEF Unrecorded, Recorded
  <2> QED
    BY <1>1, <2>1, <2>4, <2>7
<1>5. ASSUME UNCHANGED <<call, tb, faults>>, \A q \in Moves : Recorded(q) => Recorded(q)'
      PROVE  LossInvariant'
  <2>1. PendingUnposted'
    BY <1>0, <1>5 DEF PendingUnposted
  <2>2. Unrecorded' \subseteq Unrecorded
    BY <1>5 DEF Unrecorded, Recorded
  <2> QED
    BY <1>1, <1>5, <2>1, <2>2
<1>6. ASSUME NEW e \in Endings, ReadRow(e) PROVE LossInvariant'
  <2>1. /\ UNCHANGED <<call, status, tb, faults>> /\ ending[e].pc = "idle"
        /\ \A d \in Endings \ {e} : ending'[d] = ending[d]
    BY <1>0, <1>6 DEF ReadRow, Types
  <2>2. \A q \in Moves : Recorded(q) => Recorded(q)'
    BY <2>1 DEF Recorded, Settling, Superseded, Committed, SameOriginal
  <2> QED
    BY <1>5, <2>1, <2>2
<1>7. ASSUME NEW e \in Endings, ApplyVerdict(e) PROVE LossInvariant'
  <2>0. ending[e].pc = "read" /\ ending[e].move \in Moves /\ Committed(ending[e].move)
    BY <1>0, <1>7 DEF ApplyVerdict, MoneyInvariant, EndingsKnown
  <2> PICK m \in Moves : m = ending[e].move
    BY <2>0
  <2>1. /\ UNCHANGED <<call, status, faults>>
        /\ tb' = [tb EXCEPT ![m] = Resolved(tb[m], ending[e].verdict)]
        /\ ending' = [ending EXCEPT ![e] = IF Answer(tb[m]) = "ok"
                                           THEN [ending[e] EXCEPT !.pc = "applied"]
                                           ELSE IdleEnding]
    BY <1>7 DEF ApplyVerdict
  <2>2. \A d \in Endings \ {e} : ending'[d] = ending[d]
    BY <1>0, <2>1 DEF Types
  <2>3. \A q \in Moves \ {m} : tb'[q] = tb[q]
    BY <1>0, <2>1 DEF Types
  <2>4. \A q \in Moves : Recorded(q) => Recorded(q)'
    BY <2>0, <2>1, <2>2 DEF Recorded, Settling, Superseded, Committed, SameOriginal
  <2>5. tb'[m] # tb[m] => Settling(m)'
    <3>1. SUFFICES ASSUME tb'[m] # tb[m] PROVE Settling(m)'
      OBVIOUS
    <3>2. tb[m] = "pending"
      BY <1>0, <2>1, <3>1 DEF Types, Resolved
    <3>3. ending'[e] = [ending[e] EXCEPT !.pc = "applied"]
      <4>1. Answer(tb[m]) = "ok"
        BY <3>2 DEF Answer, Verdicts
      <4> QED
        BY <1>0, <2>1, <4>1 DEF Types
    <3>4. ending[e] \in Ending
      BY <1>0 DEF Types
    <3>5. ending'[e].pc = "applied" /\ ending'[e].move = m
      BY <3>3, <3>4 DEF Ending
    <3> QED
      BY <3>5 DEF Settling
  <2>6. call[m].pc = "done"
    BY <2>0 DEF Committed
  <2>7. PendingUnposted'
    BY <1>0, <2>1, <2>3, <2>6 DEF PendingUnposted
  <2>8. Unrecorded' \subseteq Unrecorded
    <3>1. \A q \in Moves : tb'[q] = tb[q] \/ Settling(q)'
      BY <2>3, <2>5
    <3> QED
      BY <2>1, <2>4, <3>1 DEF Unrecorded, Recorded
  <2> QED
    BY <1>1, <2>1, <2>7, <2>8
<1>8. ASSUME NEW e \in Endings, UpdateRows(e) PROVE LossInvariant'
  <2>0. /\ ending[e].pc = "applied" /\ ending[e].move \in Moves
        /\ Committed(ending[e].move) /\ tb[ending[e].move] = ending[e].verdict
        /\ ending[e] \in Ending
    BY <1>0, <1>8 DEF UpdateRows, MoneyInvariant, EndingsKnown, Types
  <2> PICK m \in Moves : m = ending[e].move
    BY <2>0
  <2>1. \E a \in Accounts : a \in RowsWritten(ending[e].scope)
    BY <2>0 DEF RowsWritten, Accounts, Ending
  <2>2. /\ UNCHANGED <<call, tb, faults>>
        /\ \/ Superseded(m) /\ UNCHANGED status
           \/ status' = [status EXCEPT ![m] = [a \in Accounts |->
                           IF a \in RowsWritten(ending[e].scope)
                           THEN ending[e].verdict ELSE status[m][a]]]
    BY <1>8 DEF UpdateRows, Superseded
  <2>3. \A q \in Moves \ {m} : status'[q] = status[q]
    BY <1>0, <2>2 DEF Types
  <2>4. \A d \in Endings \ {e} : ending'[d] = ending[d]
    BY <1>0, <1>8 DEF UpdateRows, Types
  <2>5. \A q \in Moves : Superseded(q) /\ status'[q] = status[q] => Superseded(q)'
    BY <2>2 DEF Superseded, Committed, SameOriginal
  <2>6. \A q \in Moves \ {m} : Recorded(q) => Recorded(q)'
    BY <2>3, <2>4, <2>5 DEF Recorded, Settling
  <2>7. tb[m] = "posted" => Recorded(m)'
    <3> SUFFICES ASSUME tb[m] = "posted" PROVE Recorded(m)'
      OBVIOUS
    <3>1. CASE Superseded(m) /\ UNCHANGED status
      BY <2>5, <3>1 DEF Recorded
    <3>2. CASE status' = [status EXCEPT ![m] = [a \in Accounts |->
                            IF a \in RowsWritten(ending[e].scope)
                            THEN ending[e].verdict ELSE status[m][a]]]
      BY <1>0, <2>0, <2>1, <3>2 DEF Recorded, Types
    <3> QED
      BY <2>2, <3>1, <3>2
  <2>8. PendingUnposted'
    BY <1>0, <2>2 DEF PendingUnposted
  <2>9. Unrecorded' \subseteq Unrecorded
    BY <2>2, <2>6, <2>7 DEF Unrecorded, Recorded
  <2> QED
    BY <1>1, <2>2, <2>8, <2>9
<1>9. ASSUME NEW e \in Endings, LoseEnding(e) PROVE LossInvariant'
  <2>1. /\ UNCHANGED <<call, status, tb>> /\ faults' = faults + 1
        /\ \A d \in Endings \ {e} : ending'[d] = ending[d]
        /\ ending[e].pc # "idle"
    BY <1>0, <1>9 DEF LoseEnding, Types
  <2>2. ending[e].move \in Moves
    BY <1>0, <2>1 DEF MoneyInvariant, EndingsKnown
  <2>3. \A q \in Moves \ {ending[e].move} : Recorded(q) => Recorded(q)'
    BY <2>1 DEF Recorded, Settling, Superseded, Committed, SameOriginal
  <2>4. Unrecorded' \subseteq Unrecorded \cup {ending[e].move}
    BY <2>1, <2>3 DEF Unrecorded, Recorded
  <2>5. PendingUnposted'
    BY <1>0, <2>1 DEF PendingUnposted
  <2> QED
    BY <1>0, <2>1, <2>2, <2>4, <2>5, LossCounts DEF LossInvariant
<1>10. ASSUME NEW m \in Moves, PollerVoids(m) PROVE LossInvariant'
  <2>1. /\ UNCHANGED <<call, tb, ending, faults>>
        /\ \A q \in Moves, a \in Accounts :
             status[q][a] \in {"posted", "voided"} => status'[q][a] = status[q][a]
    BY <1>0, <1>10 DEF PollerVoids, Types
  <2>2. \A q \in Moves : Recorded(q) => Recorded(q)'
    BY <2>1 DEF Recorded, Settling, Superseded, Committed, SameOriginal, Accounts
  <2> QED
    BY <1>5, <2>1, <2>2
<1>11. ASSUME NEW m \in Moves, Expire(m) PROVE LossInvariant'
  <2>1. /\ UNCHANGED <<call, status, ending, faults>>
        /\ \A q \in Moves : tb'[q] = tb[q] \/ tb'[q] = "expired"
    BY <1>0, <1>11 DEF Expire, Types
  <2>2. PendingUnposted'
    BY <1>0, <2>1 DEF PendingUnposted
  <2>3. \A q \in Moves : Recorded(q) => Recorded(q)'
    BY <2>1 DEF Recorded, Settling, Superseded, Committed, SameOriginal
  <2>4. Unrecorded' \subseteq Unrecorded
    BY <2>1, <2>3 DEF Unrecorded, Recorded
  <2> QED
    BY <1>1, <2>1, <2>2, <2>4
<1>12. ASSUME UNCHANGED <<call, status, tb, ending>>, faults' >= faults PROVE LossInvariant'
  <2>1. PendingUnposted' /\ Unrecorded' = Unrecorded
    BY <1>0, <1>12 DEF PendingUnposted, Unrecorded, Settling, Superseded, Committed,
                       SameOriginal
  <2> QED
    BY <1>0, <1>12, <2>1, LossFrame DEF LossInvariant
<1>13. CASE PollerFinds \/ Spend \/ SetStatus \/ UNCHANGED vars
  <2>1. UNCHANGED <<call, status, tb, ending>> /\ faults' >= faults
    BY <1>0, <1>13 DEF PollerFinds, Spend, SetStatus, vars, Types
  <2> QED
    BY <1>12, <2>1
<1>14. ASSUME NEW m \in Moves, PollerFails(m) PROVE LossInvariant'
  <2>1. UNCHANGED <<call, status, tb, ending>> /\ faults' >= faults
    BY <1>0, <1>14 DEF PollerFails, Types
  <2> QED
    BY <1>12, <2>1
<1> QED
  BY <1>2, <1>3, <1>4, <1>6, <1>7, <1>8, <1>9, <1>10, <1>11, <1>13, <1>14
  DEF Next, Handle, Quiet, End

(***************************************************************************)
(* Of the moves whose money has moved, all but one for each lost           *)
(* transaction or statement say so in a posted row, or are about to, or    *)
(* are reversals another one has replaced; for any number of moves,        *)
(* verdicts and faults and whichever endpoints they come through.          *)
(***************************************************************************)
THEOREM LossesHold == Spec => []LossesExplain
<1>1. Init => LossInvariant
  <2> SUFFICES ASSUME Init PROVE LossInvariant
    OBVIOUS
  <2>1. PendingUnposted /\ Unrecorded = {} /\ faults = 0
    BY DEF Init, IdleCall, PendingUnposted, Unrecorded
  <2>2. LossesExplain
    BY <2>1, FS_EmptySet DEF LossesExplain
  <2> QED
    BY <2>1, <2>2, MoneyInit DEF LossInvariant
<1>2. LossInvariant => LossesExplain
  BY DEF LossInvariant
<1> QED
  BY <1>1, <1>2, LossStep, PTL DEF Spec

-----------------------------------------------------------------------------

(***************************************************************************)
(* A row that is voided while its transfer may still be posted, or is.     *)
(***************************************************************************)
Ahead(m) ==
    Committed(m) /\ status[m]["normal"] = "voided" /\ tb[m] \in {"pending", "posted"}

AheadByPoller == \A m \in Moves : Ahead(m)' => Ahead(m) \/ PollerVoids(m)

LEMMA AheadStep == MoneyInvariant /\ [Next]_vars => AheadByPoller
<1> SUFFICES ASSUME MoneyInvariant, [Next]_vars PROVE AheadByPoller
  OBVIOUS
<1>0. Shape /\ Types
  BY DEF MoneyInvariant, Shape
<1>1. ASSUME \A m \in Moves :
               /\ Committed(m)' => Committed(m)
               /\ tb'[m] = tb[m] \/ tb'[m] \notin {"pending", "posted"}
                    \/ status[m]["normal"] # "voided" \/ ~Committed(m)',
             UNCHANGED status
      PROVE  AheadByPoller
  BY <1>1 DEF AheadByPoller, Ahead
<1>2. ASSUME NEW m \in Moves, Quiet(m) PROVE AheadByPoller
  <2>1. /\ QuietPCs(call[m].pc, call'[m].pc) /\ UNCHANGED <<status, tb>>
        /\ \A q \in Moves \ {m} : call'[q] = call[q]
    BY <1>0, <1>2, QuietCall
  <2> QED
    BY <1>1, <2>1 DEF QuietPCs, Committed
<1>3. ASSUME NEW m \in Moves, MoveMoney(m) PROVE AheadByPoller
  <2>1. /\ Step(m, "inserted", "moved") /\ UNCHANGED status
        /\ tb' = [tb EXCEPT ![m] = IF call[m].pending THEN "pending" ELSE "posted"]
    BY <1>3 DEF MoveMoney
  <2>2. call'[m].pc = "moved" /\ \A q \in Moves \ {m} : call'[q] = call[q] /\ tb'[q] = tb[q]
    BY <1>0, <2>1, MoveCall DEF PCs, Working, Types
  <2> QED
    BY <1>1, <2>1, <2>2 DEF Committed
<1>4. ASSUME NEW m \in Moves, Commit(m) PROVE AheadByPoller
  <2>1. /\ Step(m, "moved", "done") /\ UNCHANGED tb
        /\ status'[m]["normal"] # "voided"
        /\ \A q \in Moves \ {m} : status'[q] = status[q]
    BY <1>0, <1>4 DEF Commit, Types, Accounts
  <2>2. \A q \in Moves \ {m} : call'[q] = call[q]
    BY <1>0, <2>1, MoveCall DEF PCs, Answered
  <2> QED
    BY <2>1, <2>2 DEF AheadByPoller, Ahead, Committed
<1>5. ASSUME NEW e \in Endings, ApplyVerdict(e) PROVE AheadByPoller
  <2>1. /\ UNCHANGED <<call, status>>
        /\ \A m \in Moves : tb'[m] = tb[m] \/ tb[m] = "pending"
    BY <1>0, <1>5 DEF ApplyVerdict, Resolved, Types
  <2> QED
    BY <2>1 DEF AheadByPoller, Ahead, Committed
<1>6. ASSUME NEW e \in Endings, UpdateRows(e) PROVE AheadByPoller
  <2> DEFINE m == ending[e].move
  <2>1. /\ UNCHANGED <<call, tb>> /\ m \in Moves /\ tb[m] = ending[e].verdict
        /\ \/ UNCHANGED status
           \/ status' = [status EXCEPT ![m] = [a \in Accounts |->
                           IF a \in RowsWritten(ending[e].scope)
                           THEN ending[e].verdict ELSE status[m][a]]]
    BY <1>6 DEF UpdateRows, MoneyInvariant, EndingsKnown
  <2>2. /\ status'[m]["normal"] \in {status[m]["normal"], ending[e].verdict}
        /\ \A q \in Moves \ {m} : status'[q] = status[q]
    BY <1>0, <2>1 DEF Types, Accounts
  <2> QED
    BY <2>1, <2>2 DEF AheadByPoller, Ahead, Committed
<1>7. ASSUME NEW m \in Moves, PollerVoids(m) PROVE AheadByPoller
  <2>1. UNCHANGED <<call, tb>> /\ \A q \in Moves \ {m} : status'[q] = status[q]
    BY <1>0, <1>7 DEF PollerVoids, Types
  <2> QED
    BY <1>7, <2>1 DEF AheadByPoller, Ahead, Committed
<1>8. ASSUME NEW m \in Moves, Expire(m) PROVE AheadByPoller
  <2>1. /\ UNCHANGED <<call, status>>
        /\ \A q \in Moves : tb'[q] = tb[q] \/ tb'[q] = "expired"
    BY <1>0, <1>8 DEF Expire, Types
  <2> QED
    BY <1>1, <2>1 DEF Committed
<1>9. CASE UNCHANGED <<call, status, tb>>
  BY <1>9 DEF AheadByPoller, Ahead, Committed
<1> QED
  BY <1>2, <1>3, <1>4, <1>5, <1>6, <1>7, <1>8, <1>9
  DEF Next, Handle, Quiet, End, ReadRow, LoseEnding, PollerFails, PollerFinds, Spend,
      SetStatus, vars

(***************************************************************************)
(* The poller's UPDATE, which does not ask TigerBeetle, is the only step   *)
(* that gets a row ahead of its transfer: no verdict, no commit and no     *)
(* timeout of TigerBeetle leaves a voided row whose money has moved or may *)
(* still move.                                                             *)
(***************************************************************************)
THEOREM OnlyPollerAhead == Spec => [][AheadByPoller]_vars
<1>1. MoneyInvariant /\ [Next]_vars => AheadByPoller
  BY AheadStep
<1> QED
  BY <1>1, MoneyInit, MoneyStep, PTL DEF Spec

Orphans == {m \in Moves : call[m].pc = "orphaned"}

OrphansWithin == Cardinality(Orphans) <= faults

LEMMA OrphansType ==
    ASSUME Types
    PROVE  IsFiniteSet(Orphans) /\ Cardinality(Orphans) \in Nat /\ faults \in Nat
  <1>1. Orphans \subseteq Moves
    BY DEF Orphans
  <1> QED
    BY <1>1, TransferAssumption, FS_Subset, FS_CardinalityType DEF Types

LEMMA FaultsGrow ==
    Types /\ [Next]_vars => faults' >= faults
<1> SUFFICES ASSUME Types, [Next]_vars PROVE faults' >= faults
  OBVIOUS
<1>0. faults \in Nat
  BY TransferAssumption DEF Types
<1>1. ASSUME NEW m \in Moves, Handle(m) PROVE faults' = faults
  BY <1>1 DEF Handle, Begin, LoadOriginal, CheckReversal, Admit, ReadBalance, InsertRows,
              MoveMoney, Rejected, Commit
<1>2. ASSUME NEW e \in Endings, End(e) PROVE faults' = faults
  BY <1>2 DEF End, ReadRow, ApplyVerdict, UpdateRows
<1>3. ASSUME NEW m \in Moves, Fail(m) \/ PollerFails(m) PROVE faults' = faults + 1
  BY <1>3 DEF Fail, PollerFails
<1>4. ASSUME NEW e \in Endings, LoseEnding(e) PROVE faults' = faults + 1
  BY <1>4 DEF LoseEnding
<1>5. ASSUME NEW m \in Moves, PollerVoids(m) \/ Expire(m) PROVE faults' = faults
  BY <1>5 DEF PollerVoids, Expire
<1>6. CASE PollerFinds \/ Spend \/ SetStatus \/ UNCHANGED vars
  BY <1>0, <1>6 DEF PollerFinds, Spend, SetStatus, vars
<1> QED
  BY <1>0, <1>1, <1>2, <1>3, <1>4, <1>5, <1>6 DEF Next

LEMMA OrphansStep ==
    Shape /\ OrphansWithin /\ [Next]_vars => OrphansWithin'
<1> SUFFICES ASSUME Shape, OrphansWithin, [Next]_vars PROVE OrphansWithin'
  OBVIOUS
<1>0. Types /\ Types'
  BY ShapeStep DEF Shape
<1>1. ASSUME Orphans' \subseteq Orphans PROVE OrphansWithin'
  <2>1. Cardinality(Orphans') <= Cardinality(Orphans)
    BY <1>0, <1>1, OrphansType, FS_Subset
  <2>2. faults' >= faults
    BY <1>0, FaultsGrow
  <2>3. Cardinality(Orphans') \in Nat /\ faults' \in Nat
    BY <1>0, <1>1, OrphansType, FS_Subset, FS_CardinalityType DEF Types
  <2> QED
    BY <1>0, <2>1, <2>2, <2>3, OrphansType DEF OrphansWithin
<1>2. ASSUME NEW m \in Moves, Quiet(m) PROVE OrphansWithin'
  <2>1. /\ QuietPCs(call[m].pc, call'[m].pc)
        /\ \A q \in Moves \ {m} : call'[q] = call[q]
    BY <1>2, QuietCall
  <2>2. CASE Fail(m)
    <3>1. Orphans' \subseteq Orphans \cup {m} /\ faults' = faults + 1
      BY <2>1, <2>2 DEF Orphans, Fail
    <3>2. /\ IsFiniteSet(Orphans \cup {m})
          /\ \/ Cardinality(Orphans \cup {m}) = Cardinality(Orphans)
             \/ Cardinality(Orphans \cup {m}) = Cardinality(Orphans) + 1
      BY <1>0, OrphansType, FS_AddElement
    <3>3. /\ Cardinality(Orphans') <= Cardinality(Orphans \cup {m})
          /\ Cardinality(Orphans') \in Nat
      BY <3>1, <3>2, FS_Subset, FS_CardinalityType
    <3> QED
      BY <1>0, <3>1, <3>2, <3>3, OrphansType DEF OrphansWithin
  <2>3. CASE ~Fail(m)
    <3>1. call[m].pc # "moved"
      BY <1>2, <2>3 DEF Quiet, Begin, LoadOriginal, CheckReversal, Admit, ReadBalance,
                         InsertRows, Rejected, Step
    <3> QED
      BY <1>1, <2>1, <3>1 DEF Orphans, QuietPCs
  <2> QED
    BY <2>2, <2>3
<1>3. ASSUME NEW m \in Moves, MoveMoney(m) \/ Commit(m) PROVE OrphansWithin'
  <2>1. Step(m, "inserted", "moved") \/ Step(m, "moved", "done")
    BY <1>3 DEF MoveMoney, Commit
  <2>2. call'[m].pc \in {"moved", "done"} /\ \A q \in Moves \ {m} : call'[q] = call[q]
    BY <1>0, <2>1, MoveCall DEF PCs, Working, Answered
  <2> QED
    BY <1>1, <2>2 DEF Orphans
<1>4. CASE UNCHANGED call
  BY <1>1, <1>4 DEF Orphans
<1> QED
  BY <1>2, <1>3, <1>4
  DEF Next, Handle, Quiet, End, ReadRow, ApplyVerdict, UpdateRows, LoseEnding, PollerVoids,
      PollerFails, Expire, PollerFinds, Spend, SetStatus, vars

\* The reversals of a transfer that have moved its money back.
Backs(t) == {r \in Reversals : call[r].original = t /\ tb[r] = "posted"}

\* Those among them that the poller has not voided ahead of TigerBeetle.
KeptBacks(t) == {r \in Backs(t) : ~Ahead(r)}

ReversedWithinLosses == \A t \in Transfers : Cardinality(KeptBacks(t)) <= 1 + faults

ReversalInvariant ==
    MoneyInvariant /\ KeysClaimed /\ ReversalsClaimed /\ OrphansWithin

LEMMA LiveBacks ==
    ASSUME ReversalInvariant, NEW t \in Transfers, NEW r \in KeptBacks(t) \ Orphans
    PROVE  Live(r)
  <1>1. r \in Moves /\ tb[r] = "posted" /\ call[r].pc # "orphaned" /\ ~Ahead(r)
    BY DEF KeptBacks, Backs, Orphans, Moves
  <1>2. call[r].pc \in {"moved", "done"}
    BY <1>1 DEF ReversalInvariant, MoneyInvariant, MoneyBeforeRows
  <1> QED
    BY <1>1, <1>2 DEF Ahead, Live, Open, Committed

LEMMA ReversalsCounted == ReversalInvariant => ReversedWithinLosses
<1> SUFFICES ASSUME ReversalInvariant, NEW t \in Transfers
             PROVE  Cardinality(KeptBacks(t)) <= 1 + faults
  BY DEF ReversedWithinLosses
<1>0. Types
  BY DEF ReversalInvariant, MoneyInvariant, Shape
<1>1. ASSUME NEW r \in KeptBacks(t) \ Orphans, NEW q \in KeptBacks(t) \ Orphans PROVE r = q
  <2>1. Live(r) /\ Live(q)
    BY LiveBacks
  <2>2. r \in Moves /\ q \in Moves /\ SameOriginal(r, q)
    BY TransferAssumption DEF KeptBacks, Backs, SameOriginal, Moves
  <2> QED
    BY <2>1, <2>2 DEF ReversalInvariant, ReversalsClaimed
<1>2. PICK r : KeptBacks(t) \subseteq Orphans \cup {r}
  BY <1>1
<1>3. /\ IsFiniteSet(Orphans \cup {r})
      /\ \/ Cardinality(Orphans \cup {r}) = Cardinality(Orphans)
         \/ Cardinality(Orphans \cup {r}) = Cardinality(Orphans) + 1
  BY <1>0, OrphansType, FS_AddElement
<1>4. Cardinality(KeptBacks(t)) <= Cardinality(Orphans \cup {r}) /\ Cardinality(KeptBacks(t)) \in Nat
  BY <1>2, <1>3, FS_Subset, FS_CardinalityType
<1> QED
  BY <1>0, <1>3, <1>4, OrphansType DEF ReversalInvariant, OrphansWithin

LEMMA ReversalInit == Init => ReversalInvariant
<1>1. Init => Orphans = {} /\ faults = 0
  BY DEF Init, IdleCall, Orphans
<1>2. Init => OrphansWithin
  BY <1>1, FS_EmptySet DEF OrphansWithin
<1> QED
  BY <1>2, MoneyInit, ClaimsInit DEF ReversalInvariant

(***************************************************************************)
(* The other half of what Transfer_twice shows.  Of the reversals of one   *)
(* transfer that have moved money back, one may be booked and one be the   *)
(* remains of each lost transaction; every other one has a row that the    *)
(* poller voided ahead of TigerBeetle.  The lookups, the unique index and  *)
(* the late UPDATE let no further one through, whichever endpoint ends it. *)
(***************************************************************************)
THEOREM ReversedOnce == Spec => []ReversedWithinLosses
<1>1. ReversalInvariant /\ [Next]_vars => ReversalInvariant'
  BY MoneyStep, ClaimsStep, OrphansStep DEF ReversalInvariant, MoneyInvariant
<1> QED
  BY <1>1, ReversalInit, ReversalsCounted, PTL DEF Spec

-----------------------------------------------------------------------------

(***************************************************************************)
(* Why no account is overdrawn, as sums: what is reserved and what has     *)
(* left an account never exceed what it opened with and what has come in.  *)
(***************************************************************************)
AmountOf == [m \in Moves |-> call[m].amount]

Reserving(a) == {m \in Moves : tb[m] = "pending" /\ From(m) = a}
Leaving(a)   == {m \in Moves : tb[m] = "posted" /\ From(m) = a}
Entering(a)  == {m \in Moves : tb[m] = "posted" /\ From(m) # a}

SpentFrom(a) == IF a = "pb" THEN spent ELSE 0

Covered ==
    \A a \in Accounts :
        SumOver(AmountOf, Reserving(a)) + SumOver(AmountOf, Leaving(a)) + SpentFrom(a)
            <= Opening[a] + SumOver(AmountOf, Entering(a))

LEMMA AmountsType ==
    ASSUME Types
    PROVE  \A m \in Moves : AmountOf[m] \in Nat
  <1>1. \A c \in Call : c.amount \in Amounts \cup {0}
    BY DEF Call
  <1>2. \A m \in Moves : call[m] \in Call
    BY DEF Types
  <1>3. \A n \in Amounts \cup {0} : n \in Nat
    BY ConstantsType
  <1> QED
    BY <1>1, <1>2, <1>3 DEF AmountOf

LEMMA SumsType ==
    ASSUME Types, NEW S \in SUBSET Moves
    PROVE  SumOver(AmountOf, S) \in Nat
  <1>1. IsFiniteSet(S)
    BY ConstantsType, FS_Subset
  <1>2. \A m \in S : AmountOf[m] \in Nat
    BY AmountsType
  <1> QED
    BY <1>1, <1>2, SumType

LEMMA SumsInsert ==
    ASSUME Types, NEW S \in SUBSET Moves, NEW m \in Moves, m \notin S
    PROVE  /\ SumOver(AmountOf, S \cup {m}) = SumOver(AmountOf, S) + call[m].amount
           /\ call[m].amount \in Nat
  <1>1. IsFiniteSet(S)
    BY ConstantsType, FS_Subset
  <1>2. \A q \in Moves : AmountOf[q] \in Nat
    BY AmountsType
  <1>3. AmountOf[m] = call[m].amount
    BY DEF AmountOf
  <1> QED
    BY <1>1, <1>2, <1>3, SumInsert

LEMMA BalanceSums ==
    ASSUME Types, NEW a \in Accounts
    PROVE  /\ Reserved(a) = SumOver(AmountOf, Reserving(a))
           /\ Posted(a) = Opening[a] + SumOver(AmountOf, Entering(a))
                            - SumOver(AmountOf, Leaving(a)) - SpentFrom(a)
           /\ SumOver(AmountOf, Reserving(a)) \in Nat
           /\ SumOver(AmountOf, Entering(a)) \in Nat
           /\ SumOver(AmountOf, Leaving(a)) \in Nat
           /\ SpentFrom(a) \in Nat /\ Opening[a] \in Nat
  <1> DEFINE done == {m \in Moves : tb[m] = "posted"}
  <1>1. /\ Reserving(a) \in SUBSET Moves /\ Entering(a) \in SUBSET Moves
        /\ Leaving(a) \in SUBSET Moves
    BY DEF Reserving, Entering, Leaving
  <1>2. /\ {m \in done : From(m) # a} = Entering(a)
        /\ {m \in done : From(m) = a} = Leaving(a)
        /\ {m \in Moves : tb[m] = "pending" /\ From(m) = a} = Reserving(a)
    BY DEF Reserving, Entering, Leaving
  <1>3. \A S : Sum(S) = SumOver(AmountOf, S)
    BY DEF Sum, AmountOf
  <1>4. Posted(a) = Opening[a] + Sum({m \in done : From(m) # a})
                      - Sum({m \in done : From(m) = a}) - SpentFrom(a)
    BY DEF Posted, SpentFrom
  <1>5. Reserved(a) = Sum(Reserving(a))
    BY <1>2 DEF Reserved
  <1>6. SpentFrom(a) \in Nat
    BY ConstantsType DEF SpentFrom, Types
  <1> QED
    BY <1>1, <1>2, <1>3, <1>4, <1>5, <1>6, SumsType, ConstantsType

LEMMA CoveredIsType == ASSUME Types, Covered PROVE TypeOK
  <1>1. SUFFICES ASSUME NEW a \in Accounts PROVE Reserved(a) <= Posted(a)
    BY DEF TypeOK
  <1>2. SumOver(AmountOf, Reserving(a)) + SumOver(AmountOf, Leaving(a)) + SpentFrom(a)
          <= Opening[a] + SumOver(AmountOf, Entering(a))
    BY DEF Covered
  <1> QED
    BY <1>2, BalanceSums

(***************************************************************************)
(* The amounts of the moves TigerBeetle knows do not change.               *)
(***************************************************************************)
LEMMA CoveredFrame ==
    ASSUME Types, Types', Covered, UNCHANGED <<tb, spent>>,
           \A m \in Moves : tb[m] # "absent" => call'[m].amount = call[m].amount
    PROVE  Covered'
  <1> SUFFICES ASSUME NEW a \in Accounts
               PROVE  SumOver(AmountOf, Reserving(a))' + SumOver(AmountOf, Leaving(a))'
                        + SpentFrom(a)'
                        <= Opening[a] + SumOver(AmountOf, Entering(a))'
    BY DEF Covered
  <1> DEFINE f == AmountOf
             g == [m \in Moves |-> call'[m].amount]
             R == Reserving(a)
             L == Leaving(a)
             E == Entering(a)
  <1>1. \A m \in R \cup L \cup E : f[m] = g[m]
    BY DEF AmountOf, Reserving, Leaving, Entering
  <1>2. /\ SumOver(AmountOf, Reserving(a))' = SumOver(g, R)
        /\ SumOver(AmountOf, Leaving(a))' = SumOver(g, L)
        /\ SumOver(AmountOf, Entering(a))' = SumOver(g, E)
    BY DEF AmountOf, Reserving, Leaving, Entering, SumOver, Units, UnitsOf
  <1> HIDE DEF f, g, R, L, E
  <1>3. /\ SumOver(g, R) = SumOver(f, R) /\ SumOver(g, L) = SumOver(f, L)
        /\ SumOver(g, E) = SumOver(f, E)
    BY <1>1, SumSame
  <1>4. SpentFrom(a)' = SpentFrom(a)
    BY DEF SpentFrom
  <1>5. SumOver(f, R) + SumOver(f, L) + SpentFrom(a) <= Opening[a] + SumOver(f, E)
    BY DEF Covered, f, R, L, E
  <1> QED
    BY <1>2, <1>3, <1>4, <1>5

(***************************************************************************)
(* TigerBeetle's four ways to change a transfer keep every account         *)
(* covered; the two that need money check that it is there.                *)
(***************************************************************************)
LEMMA CoveredChange ==
    ASSUME Types, Types', Covered, NEW m \in Moves,
           UNCHANGED spent, AmountOf' = AmountOf,
           \A q \in Moves \ {m} : tb'[q] = tb[q],
           \/ /\ tb[m] = "absent" /\ tb'[m] \in {"pending", "posted"}
              /\ CanDebit(From(m), call[m].amount)
           \/ tb[m] = "pending" /\ tb'[m] \notin {"absent", "pending"}
    PROVE  Covered'
  <1> SUFFICES ASSUME NEW a \in Accounts
               PROVE  SumOver(AmountOf, Reserving(a)') + SumOver(AmountOf, Leaving(a)')
                        + SpentFrom(a)
                        <= Opening[a] + SumOver(AmountOf, Entering(a)')
    <2>1. \A S : SumOver(AmountOf, S)' = SumOver(AmountOf, S')
      BY DEF SumOver, Units, UnitsOf
    <2>2. \A a \in Accounts : SpentFrom(a)' = SpentFrom(a)
      BY DEF SpentFrom
    <2> QED
      BY <2>1, <2>2 DEF Covered
  <1> DEFINE amount == call[m].amount
             R == Reserving(a)
             L == Leaving(a)
             E == Entering(a)
             R1 == Reserving(a)'
             L1 == Leaving(a)'
             E1 == Entering(a)'
             Total(S) == SumOver(AmountOf, S)
  <1>1. /\ R \in SUBSET Moves /\ L \in SUBSET Moves /\ E \in SUBSET Moves
        /\ R1 \in SUBSET Moves /\ L1 \in SUBSET Moves /\ E1 \in SUBSET Moves
    BY DEF Reserving, Leaving, Entering
  <1>2. /\ Total(R) \in Nat /\ Total(L) \in Nat /\ Total(E) \in Nat
        /\ Total(R1) \in Nat /\ Total(L1) \in Nat /\ Total(E1) \in Nat
    BY <1>1, SumsType
  <1>3. Total(R) + Total(L) + SpentFrom(a) <= Opening[a] + Total(E)
    BY DEF Covered
  <1>4. SpentFrom(a) \in Nat /\ Opening[a] \in Nat
    BY BalanceSums
  <1>5. ASSUME NEW S \in SUBSET Moves, m \notin S
        PROVE  Total(S \cup {m}) = Total(S) + amount /\ amount \in Nat
    BY <1>5, SumsInsert
  <1>6. CASE /\ tb[m] = "absent" /\ tb'[m] \in {"pending", "posted"}
             /\ CanDebit(From(m), call[m].amount)
    <2>1. m \notin R /\ m \notin L /\ m \notin E
      BY <1>6 DEF Reserving, Leaving, Entering
    <2>2. From(m) = a => Total(R) + Total(L) + SpentFrom(a) + amount
                           <= Opening[a] + Total(E)
      <3>1. SUFFICES ASSUME From(m) = a
                     PROVE  Total(R) + Total(L) + SpentFrom(a) + amount
                              <= Opening[a] + Total(E)
        OBVIOUS
      <3>2. amount <= Posted(a) - Reserved(a)
        BY <1>6, <3>1 DEF CanDebit
      <3>3. /\ Reserved(a) = Total(R)
            /\ Posted(a) = Opening[a] + Total(E) - Total(L) - SpentFrom(a)
        BY BalanceSums
      <3>4. amount \in Nat
        BY <1>1, <1>5, <2>1
      <3> HIDE DEF Total, amount, R, L, E
      <3> QED
        BY <1>2, <1>4, <3>2, <3>3, <3>4
    <2>3. \/ /\ From(m) = a /\ tb'[m] = "pending"
             /\ R1 = R \cup {m} /\ L1 = L /\ E1 = E
          \/ From(m) = a /\ R1 = R /\ L1 = L \cup {m} /\ E1 = E
          \/ From(m) # a /\ R1 = R /\ L1 = L /\ (E1 = E \/ E1 = E \cup {m})
      BY <1>6, <2>1 DEF Reserving, Leaving, Entering, From
    <2>4. /\ Total(R \cup {m}) = Total(R) + amount
          /\ Total(L \cup {m}) = Total(L) + amount
          /\ Total(E \cup {m}) = Total(E) + amount /\ amount \in Nat
      BY <1>1, <1>5, <2>1
    <2> HIDE DEF Total, amount, R, L, E, R1, L1, E1
    <2>5. \/ /\ From(m) = a /\ Total(R1) = Total(R) + amount
             /\ Total(L1) = Total(L) /\ Total(E1) = Total(E)
          \/ /\ From(m) = a /\ Total(R1) = Total(R)
             /\ Total(L1) = Total(L) + amount /\ Total(E1) = Total(E)
          \/ /\ Total(R1) = Total(R) /\ Total(L1) = Total(L)
             /\ (Total(E1) = Total(E) \/ Total(E1) = Total(E) + amount)
      BY <2>3, <2>4
    <2>6. Total(R1) + Total(L1) + SpentFrom(a) <= Opening[a] + Total(E1)
      BY <1>2, <1>3, <1>4, <2>2, <2>4, <2>5
    <2> QED
      BY <2>6 DEF Total, R1, L1, E1
  <1>7. CASE tb[m] = "pending" /\ tb'[m] \notin {"absent", "pending"}
    <2>1. m \notin R1 /\ m \notin L /\ m \notin E
      BY <1>7 DEF Reserving, Leaving, Entering
    <2>2. \/ From(m) = a /\ R = R1 \cup {m} /\ (L1 = L \/ L1 = L \cup {m}) /\ E1 = E
          \/ From(m) # a /\ R1 = R /\ L1 = L /\ (E1 = E \/ E1 = E \cup {m})
      BY <1>7, <2>1 DEF Reserving, Leaving, Entering, From
    <2>3. /\ Total(R1 \cup {m}) = Total(R1) + amount
          /\ Total(L \cup {m}) = Total(L) + amount
          /\ Total(E \cup {m}) = Total(E) + amount /\ amount \in Nat
      BY <1>1, <1>5, <2>1
    <2> HIDE DEF Total, amount, R, L, E, R1, L1, E1
    <2>4. \/ /\ Total(R) = Total(R1) + amount /\ Total(E1) = Total(E)
             /\ (Total(L1) = Total(L) \/ Total(L1) = Total(L) + amount)
          \/ /\ Total(R1) = Total(R) /\ Total(L1) = Total(L)
             /\ (Total(E1) = Total(E) \/ Total(E1) = Total(E) + amount)
      BY <2>2, <2>3
    <2>5. Total(R1) + Total(L1) + SpentFrom(a) <= Opening[a] + Total(E1)
      BY <1>2, <1>3, <1>4, <2>3, <2>4
    <2> QED
      BY <2>5 DEF Total, R1, L1, E1
  <1> QED
    BY <1>6, <1>7

LEMMA CoveredInit == Init => Covered
  <1>1. SUFFICES ASSUME Init, NEW a \in Accounts
                 PROVE  SumOver(AmountOf, Reserving(a)) + SumOver(AmountOf, Leaving(a))
                          + SpentFrom(a) <= Opening[a] + SumOver(AmountOf, Entering(a))
    BY DEF Covered
  <1>2. Reserving(a) = {} /\ Leaving(a) = {} /\ Entering(a) = {}
    BY <1>1 DEF Init, Reserving, Leaving, Entering
  <1>3. SumOver(AmountOf, {}) = 0
    BY SumEmpty
  <1>4. SpentFrom(a) = 0 /\ Opening[a] \in Nat
    BY <1>1, ConstantsType DEF Init, SpentFrom
  <1> QED
    BY <1>2, <1>3, <1>4

LEMMA CoveredSpend ==
    ASSUME Types, Types', Covered, Spend
    PROVE  Covered'
  <1> SUFFICES ASSUME NEW a \in Accounts
               PROVE  SumOver(AmountOf, Reserving(a)) + SumOver(AmountOf, Leaving(a))
                        + SpentFrom(a)'
                        <= Opening[a] + SumOver(AmountOf, Entering(a))
    <2>1. /\ AmountOf' = AmountOf
          /\ \A a \in Accounts : /\ Reserving(a)' = Reserving(a)
                                 /\ Leaving(a)' = Leaving(a)
                                 /\ Entering(a)' = Entering(a)
      BY DEF Spend, AmountOf, Reserving, Leaving, Entering
    <2>2. \A S : SumOver(AmountOf, S)' = SumOver(AmountOf', S')
      BY DEF SumOver, Units, UnitsOf
    <2> QED
      BY <2>1, <2>2 DEF Covered
  <1> DEFINE R == SumOver(AmountOf, Reserving(a))
             L == SumOver(AmountOf, Leaving(a))
             E == SumOver(AmountOf, Entering(a))
  <1>1. /\ Reserved(a) = R /\ Posted(a) = Opening[a] + E - L - SpentFrom(a)
        /\ R \in Nat /\ L \in Nat /\ E \in Nat
        /\ SpentFrom(a) \in Nat /\ Opening[a] \in Nat
    BY BalanceSums
  <1>2. R + L + SpentFrom(a) <= Opening[a] + E
    BY DEF Covered
  <1>3. a = "pb" => /\ SpentFrom(a)' = SpentFrom(a) + 1
                    /\ 1 <= Posted(a) - Reserved(a)
    BY DEF Spend, SpentFrom, CanDebit
  <1>4. a # "pb" => SpentFrom(a)' = SpentFrom(a)
    BY DEF SpentFrom
  <1> HIDE DEF R, L, E
  <1>5. R + L + SpentFrom(a)' <= Opening[a] + E
    BY <1>1, <1>2, <1>3, <1>4
  <1> QED
    BY <1>5 DEF R, L, E

\* A handler's call keeps its amount once TigerBeetle knows the transfer.
LEMMA AmountKept ==
    ASSUME Shape, MoneyBeforeRows, NEW m \in Moves, Quiet(m)
    PROVE  \A q \in Moves : tb[q] # "absent" => call'[q].amount = call[q].amount
  <1>1. CASE Begin(m)
    <2>1. /\ call[m].pc = "idle"
          /\ \A q \in Moves \ {m} : call'[q] = call[q]
      BY <1>1, BeginCall DEF Shape
    <2>2. tb[m] = "absent"
      BY <2>1 DEF MoneyBeforeRows, Open, Committed, Moves
    <2> QED
      BY <2>1, <2>2
  <1>2. CASE Rejected(m)
    <2>1. PICK tries, to : call' = [call EXCEPT ![m].attempt = tries, ![m].pc = to]
      BY <1>2 DEF Rejected
    <2> QED
      BY <2>1 DEF Shape, Types, Call
  <1>3. CASE QuietStep(m)
    <2>1. PICK from \in Working, to \in PCs : Step(m, from, to)
      BY <1>3, QuietStepPCs
    <2> QED
      BY <2>1, MoveCall DEF Shape
  <1> QED
    BY <1>1, <1>2, <1>3 DEF Quiet, QuietStep

LEMMA CoveredStep == MoneyInvariant /\ Covered /\ [Next]_vars => Covered'
<1> SUFFICES ASSUME MoneyInvariant, Covered, [Next]_vars PROVE Covered'
  OBVIOUS
<1>0. Types /\ Types' /\ Shape /\ MoneyBeforeRows /\ EndingsKnown
  BY ShapeStep DEF MoneyInvariant, Shape
<1>1. ASSUME NEW m \in Moves, Quiet(m) PROVE Covered'
  <2>1. UNCHANGED <<tb, spent>>
    BY <1>1 DEF Quiet, Begin, LoadOriginal, CheckReversal, Admit, ReadBalance,
                InsertRows, Rejected, Fail
  <2> QED
    BY <1>0, <1>1, <2>1, AmountKept, CoveredFrame
<1>2. ASSUME NEW m \in Moves, MoveMoney(m) PROVE Covered'
  <2>1. /\ Step(m, "inserted", "moved") /\ UNCHANGED spent
        /\ CanDebit(From(m), call[m].amount)
        /\ tb' = [tb EXCEPT ![m] = IF call[m].pending THEN "pending" ELSE "posted"]
    BY <1>2 DEF MoveMoney
  <2>2. \A q \in Moves : call'[q].amount = call[q].amount
    BY <1>0, <2>1, MoveCall DEF PCs, Working
  <2>3. AmountOf' = AmountOf
    BY <2>2 DEF AmountOf
  <2>4. tb[m] = "absent"
    BY <1>0, <2>1 DEF MoneyBeforeRows, Step
  <2>5. /\ tb'[m] \in {"pending", "posted"}
        /\ \A q \in Moves \ {m} : tb'[q] = tb[q]
    BY <1>0, <2>1 DEF Types
  <2> QED
    BY <1>0, <2>1, <2>3, <2>4, <2>5, CoveredChange
<1>3. ASSUME NEW m \in Moves, Commit(m) PROVE Covered'
  <2>1. Step(m, "moved", "done") /\ UNCHANGED <<tb, spent>>
    BY <1>3 DEF Commit
  <2>2. \A q \in Moves : call'[q].amount = call[q].amount
    BY <1>0, <2>1, MoveCall DEF PCs, Answered
  <2> QED
    BY <1>0, <2>1, <2>2, CoveredFrame
<1>4. ASSUME NEW e \in Endings, ApplyVerdict(e) PROVE Covered'
  <2>1. PICK m \in Moves : m = ending[e].move
    BY <1>0, <1>4 DEF ApplyVerdict, EndingsKnown
  <2>2. UNCHANGED <<call, spent>> /\ AmountOf' = AmountOf
    BY <1>4 DEF ApplyVerdict, AmountOf
  <2>3. ending[e].verdict \in Verdicts
    BY <1>0 DEF Types, Ending
  <2>4. tb' = [tb EXCEPT ![m] = Resolved(tb[m], ending[e].verdict)]
    BY <1>4, <2>1 DEF ApplyVerdict
  <2>5. \A q \in Moves \ {m} : tb'[q] = tb[q]
    BY <1>0, <2>4 DEF Types
  <2>6. CASE tb[m] = "pending"
    <3>1. tb'[m] \in Verdicts
      BY <1>0, <2>3, <2>4, <2>6 DEF Types, Resolved
    <3>2. tb'[m] \notin {"absent", "pending"}
      BY <3>1 DEF Verdicts
    <3> QED
      BY <1>0, <2>2, <2>5, <2>6, <3>2, CoveredChange
  <2>7. CASE tb[m] # "pending"
    <3>1. tb' = tb
      BY <1>0, <2>4, <2>7 DEF Types, Resolved
    <3> QED
      BY <1>0, <2>2, <3>1, CoveredFrame
  <2> QED
    BY <2>6, <2>7
<1>5. ASSUME NEW m \in Moves, Expire(m) PROVE Covered'
  <2>1. /\ UNCHANGED <<call, spent>> /\ AmountOf' = AmountOf
        /\ tb[m] = "pending" /\ tb' = [tb EXCEPT ![m] = "expired"]
    BY <1>5 DEF Expire, AmountOf
  <2>2. tb'[m] = "expired" /\ \A q \in Moves \ {m} : tb'[q] = tb[q]
    BY <1>0, <2>1 DEF Types
  <2> QED
    BY <1>0, <2>1, <2>2, CoveredChange
<1>6. CASE Spend
  BY <1>0, <1>6, CoveredSpend
<1>7. CASE UNCHANGED <<call, tb, spent>>
  BY <1>0, <1>7, CoveredFrame
<1>8. ASSUME NEW e \in Endings, ReadRow(e) \/ UpdateRows(e) \/ LoseEnding(e)
      PROVE  UNCHANGED <<call, tb, spent>>
  BY <1>8 DEF ReadRow, UpdateRows, LoseEnding
<1>9. ASSUME NEW m \in Moves, PollerVoids(m) \/ PollerFails(m)
      PROVE  UNCHANGED <<call, tb, spent>>
  BY <1>9 DEF PollerVoids, PollerFails
<1> QED
  BY <1>1, <1>2, <1>3, <1>4, <1>5, <1>6, <1>7, <1>8, <1>9
  DEF Next, Handle, Quiet, End, PollerFinds, SetStatus, vars

(***************************************************************************)
(* Type correctness, and with it the promise of both accounts: whatever    *)
(* the handlers, the verdicts, TigerBeetle's timeouts and the payments do, *)
(* what is reserved on an account is covered by what it holds.             *)
(***************************************************************************)
THEOREM TypeCorrect == Spec => []TypeOK
<1>1. MoneyInvariant /\ Covered => TypeOK
  BY CoveredIsType DEF MoneyInvariant, Shape
<1> QED
  BY <1>1, MoneyInit, MoneyStep, CoveredInit, CoveredStep, PTL DEF Spec
=============================================================================
