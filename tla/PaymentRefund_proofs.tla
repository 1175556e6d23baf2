------------------------ MODULE PaymentRefund_proofs ------------------------
(***************************************************************************)
(* For any number of refunds, resolvers, amounts and lost transactions:    *)
(* RefundsWithinPayment from the budget invariant; and, from an invariant  *)
(* of whole rows on top of it, that the legs of a refund agree, that a key *)
(* is used once, and that the refunds implement RefundBudget.  A last      *)
(* invariant ties the rows to TigerBeetle: all refunds follow the money,   *)
(* but for a set no larger than the number of lost transactions.           *)
(***************************************************************************)
EXTENDS PaymentRefund, Sums_proofs

(***************************************************************************)
(* Every step keeps the types.                                             *)
(***************************************************************************)
LEMMA TypeInit == Init => TypeOK
  BY RefundAssumption
  DEF Init, TypeOK, IdleCall, IdleResolver, Nothing, Call, Resolver, Division,
      Statuses, TransferStates, Verdicts, Pools

(***************************************************************************)
(* sum_refunds_of_in_tx is a number, before a step and after it.           *)
(***************************************************************************)
LEMMA SumRefundsType ==
    ASSUME TypeOK, NEW p \in Pools
    PROVE  SumRefunds(p) \in Nat
  <1>1. IsFiniteSet({r \in Refunds : Counts(r, p)})
    BY RefundAssumption, FS_Subset
  <1>2. \A r \in Refunds : Take(p)[r] \in Nat
    BY DEF TypeOK, Call, Division, Take
  <1> QED
    BY <1>1, <1>2, SumType DEF SumRefunds

LEMMA SumRefundsNextType ==
    ASSUME TypeOK', NEW p \in Pools
    PROVE  SumRefunds(p)' \in Nat
  <1> DEFINE after == {r \in Refunds : Counts(r, p)'}
             g == [r \in Refunds |-> call'[r].take[p]]
  <1>1. IsFiniteSet(after) /\ after \subseteq Refunds
    BY RefundAssumption, FS_Subset
  <1>2. \A r \in Refunds : g[r] \in Nat
    BY DEF TypeOK, Call, Division
  <1>3. SumRefunds(p)' = SumOver(g, after)
    BY DEF SumRefunds, Take, SumOver, Units, UnitsOf
  <1> HIDE DEF after, g
  <1> QED
    BY <1>1, <1>2, <1>3, SumType

(***************************************************************************)
(* remaining: what is left of a row never exceeds it, and with what is     *)
(* refunded it makes up the row while the budget is kept.                  *)
(***************************************************************************)
LEMMA RemainingFits ==
    ASSUME TypeOK, NEW p \in Pools, SumRefunds(p) <= Paid[p]
    PROVE  /\ Remaining(p) \in Nat
           /\ SumRefunds(p) + Remaining(p) <= Paid[p]
  BY SumRefundsType, RefundAssumption DEF Remaining

(***************************************************************************)
(* A step that makes no row count that did not count, and changes no       *)
(* counted amount, refunds nothing.                                        *)
(***************************************************************************)
LEMMA NothingRefunded ==
    ASSUME TypeOK, TypeOK', NEW p \in Pools,
           \A r \in Refunds :
               Counts(r, p)' => Counts(r, p) /\ call'[r].take[p] = call[r].take[p]
    PROVE  SumRefunds(p)' <= SumRefunds(p)
  <1> DEFINE before == {r \in Refunds : Counts(r, p)}
             after  == {r \in Refunds : Counts(r, p)'}
             f == Take(p)
             g == [r \in Refunds |-> call'[r].take[p]]
  <1>1. IsFiniteSet(before) /\ after \subseteq before
    BY RefundAssumption, FS_Subset
  <1>2. \A r \in before : f[r] \in Nat
    BY DEF TypeOK, Call, Division, Take
  <1>3. \A r \in after : g[r] = f[r]
    BY DEF Take
  <1>4. SumRefunds(p)' = SumOver(g, after)
    BY DEF SumRefunds, Take, SumOver, Units, UnitsOf
  <1> HIDE DEF before, after, f, g
  <1>5. SumOver(g, after) = SumOver(f, after)
    BY <1>3, SumSame
  <1>6. SumOver(f, after) <= SumOver(f, before)
    BY <1>1, <1>2, SumMonotone
  <1> QED
    BY <1>4, <1>5, <1>6 DEF SumRefunds, before, f

(***************************************************************************)
(* The states of a refund handler.                                         *)
(***************************************************************************)
PCs == {"idle", "begun"} \cup Locking \cup Answered \cup Gone

(***************************************************************************)
(* What the fields of a refund handler are.                                *)
(***************************************************************************)
LEMMA CallType ==
    ASSUME TypeOK, NEW r \in Refunds
    PROVE  /\ call[r] \in Call /\ call[r].amount \in Nat
           /\ call[r].left \in Division /\ call[r].take \in Division
           /\ \A p \in Pools : call[r].left[p] \in Nat
           /\ \A p \in Pools : call[r].take[p] \in Nat
  <1>1. call[r] \in Call
    BY DEF TypeOK
  <1>2. call[r].left \in Division /\ call[r].take \in Division
    BY <1>1 DEF Call
  <1>3. call[r].amount \in Amounts \cup {0}
    BY <1>1 DEF Call
  <1>4. call[r].amount \in Nat
    <2>1. \A a \in Amounts : a \in Nat
      BY RefundAssumption
    <2> QED
      BY <1>3, <2>1
  <1> QED
    BY <1>1, <1>2, <1>4 DEF Division

(***************************************************************************)
(* A step that moves a handler on, and one that also writes down what is   *)
(* left of the pools and what is taken from them, keeps the types.         *)
(***************************************************************************)
LEMMA MoveType ==
    ASSUME call \in [Refunds -> Call], NEW r \in Refunds, NEW to \in PCs,
           call' = [call EXCEPT ![r].pc = to]
    PROVE  call' \in [Refunds -> Call]
  BY DEF Call, PCs

LEMMA NoteType ==
    ASSUME call \in [Refunds -> Call], NEW r \in Refunds, NEW to \in PCs,
           NEW left \in Division,
           call' = [call EXCEPT ![r] = [call[r] EXCEPT !.pc = to, !.left = left]]
    PROVE  call' \in [Refunds -> Call]
  <1>1. \A c \in Call : [c EXCEPT !.pc = to, !.left = left] \in Call
    BY DEF Call, PCs
  <1> QED
    BY <1>1

LEMMA DecideType ==
    ASSUME call \in [Refunds -> Call], NEW r \in Refunds, NEW to \in PCs,
           NEW left \in Division, NEW take \in Division,
           call' = [call EXCEPT ![r] =
                      [call[r] EXCEPT !.pc = to, !.left = left, !.take = take]]
    PROVE  call' \in [Refunds -> Call]
  <1>1. \A c \in Call : [c EXCEPT !.pc = to, !.left = left, !.take = take] \in Call
    BY DEF Call, PCs
  <1> QED
    BY <1>1

(***************************************************************************)
(* Steps 4 and 6 of refund_payment: a refund that is not refused takes     *)
(* from each pool no more than is left of it.                              *)
(***************************************************************************)
Decides(r, to, left, take) ==
    call' = [call EXCEPT ![r] =
               [call[r] EXCEPT !.pc = to, !.left = left, !.take = take]]

LEMMA Decision ==
    ASSUME TypeOK, NEW r \in Refunds, ReadOthers(r)
    PROVE  \E left, take \in Division, to \in {"checked", "refused"} :
             /\ Decides(r, to, left, take)
             /\ to = "checked" =>
                  /\ take["self"] <= call[r].left["self"]
                  /\ take["others"] <= Remaining("others")
  <1> DEFINE amount == call[r].amount
             left == [call[r].left EXCEPT !["others"] = Remaining("others")]
             fromSelf == IF amount <= left["self"] THEN amount ELSE left["self"]
             take == [p \in Pools |-> IF p = "self" THEN fromSelf ELSE amount - fromSelf]
             valid == amount > 0 /\ amount <= left["self"] + left["others"]
             to == IF valid THEN "checked" ELSE "refused"
             taken == IF valid THEN take ELSE Nothing
  <1>1. Remaining("others") \in Nat
    BY SumRefundsType, RefundAssumption DEF Remaining, Pools
  <1>2. /\ left \in Division /\ left["self"] = call[r].left["self"]
        /\ left["others"] = Remaining("others")
    BY <1>1, CallType DEF Division, Pools
  <1>3. amount \in Nat /\ left["self"] \in Nat /\ left["others"] \in Nat
    BY <1>1, <1>2, CallType DEF Pools
  <1>4. Decides(r, to, left, taken)
    BY DEF ReadOthers, Decides
  <1>5. CASE valid
    <2>1. fromSelf \in Nat /\ fromSelf <= left["self"]
          /\ amount - fromSelf \in Nat /\ amount - fromSelf <= left["others"]
      BY <1>3, <1>5
    <2>2. take \in Division /\ \A p \in Pools : take[p] <= left[p]
      BY <2>1 DEF Division, Pools
    <2>3. to = "checked" /\ taken = take
      BY <1>5
    <2> HIDE DEF left, take, taken, to
    <2> QED
      BY <1>2, <1>4, <2>2, <2>3 DEF Pools
  <1>6. CASE ~valid
    <2>1. to = "refused" /\ taken \in Division
      BY <1>6 DEF Nothing, Division
    <2> HIDE DEF left, taken, to
    <2> QED
      BY <1>2, <1>4, <2>1
  <1> QED
    BY <1>5, <1>6

(***************************************************************************)
(* Type correctness is inductive: each action of the refund handler, of    *)
(* the resolvers, of the poller and of TigerBeetle keeps it.               *)
(***************************************************************************)
LEMMA TypeStep == TypeOK /\ [Next]_vars => TypeOK'
<1> SUFFICES ASSUME TypeOK, [Next]_vars PROVE TypeOK'
  OBVIOUS
<1> USE RefundAssumption
<1>1. ASSUME NEW r \in Refunds, Begin(r) PROVE TypeOK'
  <2>1. PICK pending \in BOOLEAN, amount \in Amounts, key \in Keys \cup {NoKey},
             to \in {"replayed", "begun"} :
          call' = [call EXCEPT ![r] = [IdleCall EXCEPT !.pc = to, !.pending = pending,
                                         !.amount = amount, !.key = key]]
    BY <1>1 DEF Begin
  <2>2. [IdleCall EXCEPT !.pc = to, !.pending = pending,
                         !.amount = amount, !.key = key] \in Call
    BY DEF IdleCall, Nothing, Call, Division, Answered
  <2> QED
    BY <1>1, <2>1, <2>2 DEF TypeOK, Begin
<1>2. ASSUME NEW r \in Refunds, LockOriginal(r) PROVE TypeOK'
  BY <1>2, MoveType DEF TypeOK, LockOriginal, Step, PCs, Locking
<1>3. ASSUME NEW r \in Refunds, ReadSelf(r) PROVE TypeOK'
  <2>1. Remaining("self") \in Nat
    BY SumRefundsType DEF Remaining, Pools
  <2>2. [call[r].left EXCEPT !["self"] = Remaining("self")] \in Division
    BY <2>1, CallType DEF Division
  <2>3. call' \in [Refunds -> Call]
    BY <1>3, <2>2, NoteType DEF TypeOK, ReadSelf, PCs, Locking
  <2> QED
    BY <1>3, <2>3 DEF TypeOK, ReadSelf
<1>4. ASSUME NEW r \in Refunds, ReadOthers(r) PROVE TypeOK'
  <2>1. PICK left, take \in Division, to \in {"checked", "refused"} :
          Decides(r, to, left, take)
    BY <1>4, Decision
  <2>2. call' \in [Refunds -> Call]
    BY <2>1, DecideType DEF TypeOK, Decides, PCs, Locking, Answered
  <2> QED
    BY <1>4, <2>2 DEF TypeOK, ReadOthers
<1>5. ASSUME NEW r \in Refunds, InsertRows(r) PROVE TypeOK'
  <2>1. PICK to \in {"inserted", "refused"} : Step(r, "checked", to)
    BY <1>5 DEF InsertRows
  <2> QED
    BY <1>5, <2>1, MoveType DEF TypeOK, InsertRows, Step, PCs, Locking, Answered
<1>6. ASSUME NEW r \in Refunds, ApplyTransfers(r) PROVE TypeOK'
  BY <1>6, MoveType DEF TypeOK, ApplyTransfers, Step, PCs, Locking, TransferStates
<1>7. ASSUME NEW r \in Refunds, TransfersFail(r) PROVE TypeOK'
  BY <1>7, MoveType DEF TypeOK, TransfersFail, Step, PCs, Answered
<1>8. ASSUME NEW r \in Refunds, Commit(r) PROVE TypeOK'
  BY <1>8, MoveType DEF TypeOK, Commit, Step, PCs, Answered, Statuses
<1>9. ASSUME NEW r \in Refunds, LoseCall(r) PROVE TypeOK'
  <2>1. PICK to \in Gone : call' = [call EXCEPT ![r].pc = to]
    BY <1>9 DEF LoseCall, Gone
  <2>2. call' \in [Refunds -> Call]
    BY <2>1, MoveType DEF TypeOK, PCs
  <2>3. faults' \in 0 .. MaxFaults
    BY <1>9 DEF TypeOK, LoseCall
  <2> QED
    BY <1>9, <2>2, <2>3 DEF TypeOK, LoseCall
<1>10. ASSUME NEW r \in Refunds, PollerVoids(r) PROVE TypeOK'
  BY <1>10 DEF TypeOK, PollerVoids, UpdatePending, Statuses
<1>11. ASSUME NEW h \in Resolvers, LockRefund(h) PROVE TypeOK'
  BY <1>11 DEF TypeOK, LockRefund, Resolver, Legs
<1>12. ASSUME NEW h \in Resolvers, ResolveLeg(h) PROVE TypeOK'
  <2>1. resolver[h].todo \subseteq Pools
    BY DEF TypeOK, Resolver
  <2>2. PICK p \in Pools :
          /\ tb' = [tb EXCEPT ![resolver[h].refund][p] = Resolved(@, resolver[h].verdict)]
          /\ resolver' = [resolver EXCEPT ![h] =
                            IF Answer(tb[resolver[h].refund][p]) = "error" THEN IdleResolver
                            ELSE [@ EXCEPT !.todo = resolver[h].todo \ {p}]]
          /\ UNCHANGED <<call, status, overdue, active, faults>>
    BY <1>12, <2>1 DEF ResolveLeg
  <2>3. tb' \in [Refunds -> [Pools -> TransferStates]]
    BY <2>2 DEF TypeOK, Resolver, Resolved, TransferStates, Verdicts
  <2>4. resolver' \in [Resolvers -> Resolver]
    BY <2>2 DEF TypeOK, Resolver, IdleResolver, Verdicts
  <2> QED
    BY <2>2, <2>3, <2>4 DEF TypeOK
<1>13. ASSUME NEW h \in Resolvers, CommitVerdict(h) PROVE TypeOK'
  BY <1>13 DEF TypeOK, CommitVerdict, UpdatePending, Target, Statuses, Resolver,
               IdleResolver, Verdicts
<1>14. ASSUME NEW h \in Resolvers, LoseResolver(h) PROVE TypeOK'
  BY <1>14 DEF TypeOK, LoseResolver, Resolver, IdleResolver, Verdicts
<1>15. ASSUME NEW r \in Refunds, NEW p \in Pools, Expire(r, p) PROVE TypeOK'
  BY <1>15 DEF TypeOK, Expire, TransferStates
<1>16. CASE PollerFinds
  BY <1>16 DEF TypeOK, PollerFinds
<1>17. CASE SetStatus
  BY <1>17 DEF TypeOK, SetStatus
<1>18. CASE UNCHANGED vars
  BY <1>18 DEF TypeOK, vars
<1>19. ASSUME NEW r \in Refunds, PollerFails(r) PROVE TypeOK'
  BY <1>19 DEF TypeOK, PollerFails
<1> QED
  BY <1>1, <1>2, <1>3, <1>4, <1>5, <1>6, <1>7, <1>8, <1>9, <1>10, <1>11, <1>12,
     <1>13, <1>14, <1>15, <1>16, <1>17, <1>18, <1>19
  DEF Next, Handle, Resolve

(***************************************************************************)
(* Every reachable state is of its type.                                   *)
(***************************************************************************)
THEOREM TypeCorrect == Spec => []TypeOK
  BY TypeInit, TypeStep, PTL DEF Spec

(***************************************************************************)
(* Moving a handler on changes nothing else of it, and no other handler.   *)
(***************************************************************************)
LEMMA MoveFields ==
    ASSUME TypeOK, NEW r \in Refunds, NEW to,
           call' = [call EXCEPT ![r].pc = to]
    PROVE  /\ call'[r].pc = to
           /\ call'[r].take = call[r].take /\ call'[r].left = call[r].left
           /\ \A q \in Refunds \ {r} : call'[q] = call[q]
  BY DEF TypeOK, Call

(***************************************************************************)
(* A refund that took up no budget before, and whose rows now appear, adds *)
(* what it takes and nothing more.                                         *)
(***************************************************************************)
LEMMA OneRefunded ==
    ASSUME TypeOK, TypeOK', NEW p \in Pools, NEW r \in Refunds, ~Counts(r, p),
           \A q \in Refunds : call'[q].take[p] = call[q].take[p],
           \A q \in Refunds \ {r} : Counts(q, p)' => Counts(q, p)
    PROVE  SumRefunds(p)' <= SumRefunds(p) + call[r].take[p]
  <1> DEFINE before == {q \in Refunds : Counts(q, p)}
             after  == {q \in Refunds : Counts(q, p)'}
             f == Take(p)
             g == [q \in Refunds |-> call'[q].take[p]]
  <1>1. /\ IsFiniteSet(before) /\ r \notin before
        /\ after \subseteq before \cup {r}
    BY RefundAssumption, FS_Subset
  <1>2. \A q \in Refunds : f[q] \in Nat
    BY CallType DEF Take
  <1>3. g = f /\ f[r] = call[r].take[p]
    BY DEF Take
  <1>4. SumRefunds(p)' = SumOver(g, after) /\ SumRefunds(p) = SumOver(f, before)
    BY DEF SumRefunds, Take, SumOver, Units, UnitsOf
  <1>5. before \subseteq Refunds
    OBVIOUS
  <1> HIDE DEF before, after, f, g
  <1>6. SumOver(f, before \cup {r}) = SumOver(f, before) + f[r]
    BY <1>1, <1>2, <1>5, SumInsert
  <1>7. IsFiniteSet(before \cup {r})
    BY <1>1, FS_AddElement
  <1>8. SumOver(f, after) <= SumOver(f, before \cup {r})
    BY <1>1, <1>2, <1>5, <1>7, SumMonotone
  <1> QED
    BY <1>3, <1>4, <1>6, <1>8

(***************************************************************************)
(* The steps that write no rows and read no budget keep the invariant: no  *)
(* handler enters the locked section, none changes what it is about to     *)
(* take, and no row begins to count.                                       *)
(***************************************************************************)
Quiet(r) ==
    \/ call'[r] = call[r]
    \/ call'[r].pc \notin Locking
    \/ /\ call[r].pc \in {"checked", "inserted"}
       /\ call'[r].pc \in {"inserted", "applied"}
       /\ call'[r].take = call[r].take

LEMMA QuietStep ==
    ASSUME BudgetInvariant, TypeOK', \A r \in Refunds : Quiet(r),
           \A r \in Refunds, p \in Pools :
               Counts(r, p)' => Counts(r, p) /\ call'[r].take[p] = call[r].take[p],
           RowsAreCommitted'
    PROVE  BudgetInvariant'
  <1>1. \A p \in Pools : SumRefunds(p)' <= SumRefunds(p)
    BY NothingRefunded DEF BudgetInvariant
  <1>2. \A p \in Pools : /\ SumRefunds(p) \in Nat /\ SumRefunds(p)' \in Nat
                         /\ Paid[p] \in Nat
    <2>1. \A p \in Pools : SumRefunds(p) \in Nat
      BY SumRefundsType DEF BudgetInvariant
    <2>2. \A p \in Pools : SumRefunds(p)' \in Nat
      BY SumRefundsNextType
    <2> QED
      BY <2>1, <2>2, RefundAssumption
  <1>3. LockExclusion'
    BY DEF BudgetInvariant, LockExclusion, HoldsLock, Quiet, Locking
  <1>4. SelfReadFits'
    <2> SUFFICES ASSUME NEW r \in Refunds, call'[r].pc = "self_read"
                 PROVE  SumRefunds("self")' + call'[r].left["self"] <= Paid["self"]
      BY DEF SelfReadFits
    <2>1. call'[r] = call[r]
      BY DEF Quiet, Locking
    <2>2. SumRefunds("self") + call[r].left["self"] <= Paid["self"]
      BY <2>1 DEF BudgetInvariant, SelfReadFits
    <2>3. call[r].left["self"] \in Nat
      BY CallType DEF BudgetInvariant, Pools
    <2> QED
      BY <1>1, <1>2, <2>1, <2>2, <2>3 DEF Pools
  <1>5. TakeFits'
    <2> SUFFICES ASSUME NEW r \in Refunds, NEW p \in Pools,
                        call'[r].pc \in {"checked", "inserted", "applied"}
                 PROVE  SumRefunds(p)' + call'[r].take[p] <= Paid[p]
      BY DEF TakeFits
    <2>1. /\ call[r].pc \in {"checked", "inserted", "applied"}
          /\ call'[r].take[p] = call[r].take[p]
      BY DEF Quiet, Locking
    <2>2. SumRefunds(p) + call[r].take[p] <= Paid[p]
      BY <2>1 DEF BudgetInvariant, TakeFits
    <2>3. call[r].take[p] \in Nat
      BY CallType DEF BudgetInvariant
    <2> QED
      BY <1>1, <1>2, <2>1, <2>2, <2>3
  <1>6. RefundsWithinPayment'
    BY <1>1, <1>2 DEF BudgetInvariant, RefundsWithinPayment
  <1> QED
    BY <1>3, <1>4, <1>5, <1>6 DEF BudgetInvariant

(***************************************************************************)
(* The handler steps that only move on.                                    *)
(***************************************************************************)
LEMMA MoveQuiet ==
    ASSUME BudgetInvariant, TypeOK', NEW r \in Refunds, NEW to, call[r].pc # "done",
           call' = [call EXCEPT ![r].pc = to], UNCHANGED status,
           \/ to \notin Locking
           \/ call[r].pc = "checked" /\ to = "inserted"
           \/ call[r].pc = "inserted" /\ to = "applied"
    PROVE  BudgetInvariant'
  <1>1. /\ call'[r].pc = to /\ call'[r].take = call[r].take
        /\ \A q \in Refunds \ {r} : call'[q] = call[q]
    BY MoveFields DEF BudgetInvariant
  <1>2. \A q \in Refunds : Quiet(q)
    BY <1>1 DEF Quiet
  <1>3. \A q \in Refunds, p \in Pools :
          Counts(q, p)' => Counts(q, p) /\ call'[q].take[p] = call[q].take[p]
    BY <1>1 DEF Counts
  <1>4. RowsAreCommitted'
    BY <1>1 DEF BudgetInvariant, RowsAreCommitted, Committed
  <1> QED
    BY <1>2, <1>3, <1>4, QuietStep

(***************************************************************************)
(* The steps that leave the handlers alone.                                *)
(***************************************************************************)
LEMMA CallsQuiet ==
    ASSUME BudgetInvariant, TypeOK', UNCHANGED call,
           \A q \in Refunds, p \in Pools :
               \/ status'[q][p] = status[q][p]
               \/ status[q][p] = "pending" /\ status'[q][p] \in {"settled", "voided"}
    PROVE  BudgetInvariant'
  <1>1. \A q \in Refunds : Quiet(q)
    BY DEF Quiet
  <1>2. \A q \in Refunds, p \in Pools :
          Counts(q, p)' => Counts(q, p) /\ call'[q].take[p] = call[q].take[p]
    BY DEF Counts
  <1>3. RowsAreCommitted'
    BY DEF BudgetInvariant, RowsAreCommitted, Committed
  <1> QED
    BY <1>1, <1>2, <1>3, QuietStep

(***************************************************************************)
(* UPDATE ... WHERE status = 'pending' of one refund.                      *)
(***************************************************************************)
LEMMA UpdateQuiet ==
    ASSUME BudgetInvariant, TypeOK', UNCHANGED call, NEW r \in Refunds,
           NEW new \in {"settled", "voided"}, UpdatePending(r, new)
    PROVE  BudgetInvariant'
  <1>1. \A q \in Refunds, p \in Pools :
          \/ status'[q][p] = status[q][p]
          \/ status[q][p] = "pending" /\ status'[q][p] \in {"settled", "voided"}
    BY DEF BudgetInvariant, TypeOK, UpdatePending
  <1> QED
    BY <1>1, CallsQuiet

(***************************************************************************)
(* SELECT ... FOR UPDATE lets one call in.                                 *)
(***************************************************************************)
LEMMA LockOriginalKeeps ==
    ASSUME BudgetInvariant, TypeOK', NEW r \in Refunds, LockOriginal(r)
    PROVE  BudgetInvariant'
  <1>1. /\ call[r].pc = "begun" /\ call'[r].pc = "locked"
        /\ call'[r].take = call[r].take
        /\ \A q \in Refunds \ {r} : call'[q] = call[q]
    BY MoveFields DEF LockOriginal, Step, BudgetInvariant
  <1>2. \A q \in Refunds : ~HoldsLock(q)
    BY DEF LockOriginal
  <1>3. UNCHANGED status
    BY DEF LockOriginal
  <1>4. LockExclusion'
    BY <1>1, <1>2 DEF LockExclusion, HoldsLock
  <1>5. SelfReadFits' /\ TakeFits'
    BY <1>1, <1>2 DEF SelfReadFits, TakeFits, HoldsLock, Locking
  <1>6. RowsAreCommitted'
    BY <1>1, <1>3 DEF BudgetInvariant, RowsAreCommitted, Committed
  <1>7. \A p \in Pools : SumRefunds(p)' <= SumRefunds(p)
    BY <1>1, <1>3, NothingRefunded DEF BudgetInvariant, Counts
  <1>8. RefundsWithinPayment'
    BY <1>7, SumRefundsType, SumRefundsNextType, RefundAssumption
    DEF BudgetInvariant, RefundsWithinPayment
  <1> QED
    BY <1>4, <1>5, <1>6, <1>8 DEF BudgetInvariant

(***************************************************************************)
(* What a lock holder reads and decides fits.                              *)
(***************************************************************************)
LEMMA ReadSelfKeeps ==
    ASSUME BudgetInvariant, TypeOK', NEW r \in Refunds, ReadSelf(r)
    PROVE  BudgetInvariant'
  <1>1. /\ call[r].pc = "locked" /\ call'[r].pc = "self_read"
        /\ call'[r].take = call[r].take
        /\ call'[r].left["self"] = Remaining("self")
        /\ \A q \in Refunds \ {r} : call'[q] = call[q]
    BY CallType DEF ReadSelf, BudgetInvariant, TypeOK, Call, Division, Pools
  <1>2. HoldsLock(r) /\ \A q \in Refunds \ {r} : ~HoldsLock(q)
    BY <1>1 DEF BudgetInvariant, LockExclusion, HoldsLock, Locking
  <1>3. UNCHANGED status
    BY DEF ReadSelf
  <1>4. LockExclusion'
    BY <1>1, <1>2 DEF LockExclusion, HoldsLock
  <1>5. RowsAreCommitted'
    BY <1>1, <1>3 DEF BudgetInvariant, RowsAreCommitted, Committed
  <1>6. \A p \in Pools : SumRefunds(p)' <= SumRefunds(p)
    BY <1>1, <1>3, NothingRefunded DEF BudgetInvariant, Counts
  <1>7. RefundsWithinPayment'
    BY <1>6, SumRefundsType, SumRefundsNextType, RefundAssumption
    DEF BudgetInvariant, RefundsWithinPayment
  <1>8. TakeFits'
    BY <1>1, <1>2 DEF TakeFits, HoldsLock, Locking
  <1>9. SelfReadFits'
    <2>1. /\ Remaining("self") \in Nat
          /\ SumRefunds("self") + Remaining("self") <= Paid["self"]
      BY RemainingFits DEF BudgetInvariant, RefundsWithinPayment, Pools
    <2>2. /\ SumRefunds("self") \in Nat /\ SumRefunds("self")' \in Nat
          /\ Paid["self"] \in Nat
      BY SumRefundsType, SumRefundsNextType, RefundAssumption DEF BudgetInvariant, Pools
    <2>3. SumRefunds("self")' <= SumRefunds("self")
      BY <1>6 DEF Pools
    <2>4. SumRefunds("self")' + call'[r].left["self"] <= Paid["self"]
      BY <1>1, <2>1, <2>2, <2>3
    <2>5. \A q \in Refunds \ {r} : call'[q].pc # "self_read"
      BY <1>1, <1>2 DEF HoldsLock, Locking
    <2> QED
      BY <2>4, <2>5 DEF SelfReadFits
  <1> QED
    BY <1>4, <1>5, <1>7, <1>8, <1>9 DEF BudgetInvariant

LEMMA ReadOthersKeeps ==
    ASSUME BudgetInvariant, TypeOK', NEW r \in Refunds, ReadOthers(r)
    PROVE  BudgetInvariant'
  <1>1. PICK left, take \in Division, to \in {"checked", "refused"} :
          /\ Decides(r, to, left, take)
          /\ to = "checked" =>
               /\ take["self"] <= call[r].left["self"]
               /\ take["others"] <= Remaining("others")
    BY Decision DEF BudgetInvariant
  <1>2. /\ call[r].pc = "self_read"
        /\ UNCHANGED status
    BY DEF ReadOthers
  <1>3. /\ call'[r].pc = to /\ call'[r].take = take
        /\ \A q \in Refunds \ {r} : call'[q] = call[q]
    BY <1>1 DEF Decides, BudgetInvariant, TypeOK, Call
  <1>4. HoldsLock(r) /\ \A q \in Refunds \ {r} : ~HoldsLock(q)
    BY <1>2 DEF BudgetInvariant, LockExclusion, HoldsLock, Locking
  <1>5. LockExclusion'
    BY <1>3, <1>4 DEF LockExclusion, HoldsLock
  <1>6. RowsAreCommitted'
    BY <1>2, <1>3 DEF BudgetInvariant, RowsAreCommitted, Committed
  <1>7. \A p \in Pools : SumRefunds(p)' <= SumRefunds(p)
    <2>1. \A p \in Pools : ~Counts(r, p)'
      BY <1>2 DEF BudgetInvariant, RowsAreCommitted, Committed, Counts
    <2> QED
      BY <1>2, <1>3, <2>1, NothingRefunded DEF BudgetInvariant, Counts
  <1>8. RefundsWithinPayment'
    BY <1>7, SumRefundsType, SumRefundsNextType, RefundAssumption
    DEF BudgetInvariant, RefundsWithinPayment
  <1>9. SelfReadFits'
    BY <1>3, <1>4 DEF SelfReadFits, HoldsLock, Locking
  <1>10. TakeFits'
    <2> SUFFICES ASSUME NEW p \in Pools, to = "checked"
                 PROVE  SumRefunds(p)' + take[p] <= Paid[p]
      BY <1>3, <1>4 DEF TakeFits, HoldsLock, Locking
    <2>1. /\ SumRefunds(p) \in Nat /\ SumRefunds(p)' \in Nat /\ Paid[p] \in Nat
          /\ take[p] \in Nat
      BY SumRefundsType, SumRefundsNextType, RefundAssumption
      DEF BudgetInvariant, Division
    <2>2. CASE p = "self"
      <3>1. SumRefunds("self") + call[r].left["self"] <= Paid["self"]
        BY <1>2 DEF BudgetInvariant, SelfReadFits
      <3>2. call[r].left["self"] \in Nat
        BY CallType DEF BudgetInvariant, Pools
      <3>3. SumRefunds("self")' <= SumRefunds("self")
        BY <1>7 DEF Pools
      <3> QED
        BY <1>1, <2>1, <2>2, <3>1, <3>2, <3>3
    <2>3. CASE p = "others"
      <3>1. /\ Remaining("others") \in Nat
            /\ SumRefunds("others") + Remaining("others") <= Paid["others"]
        BY RemainingFits DEF BudgetInvariant, RefundsWithinPayment, Pools
      <3>2. SumRefunds("others")' <= SumRefunds("others")
        BY <1>7 DEF Pools
      <3> QED
        BY <1>1, <2>1, <2>3, <3>1, <3>2
    <2> QED
      BY <2>2, <2>3 DEF Pools
  <1> QED
    BY <1>5, <1>6, <1>8, <1>9, <1>10 DEF BudgetInvariant

(***************************************************************************)
(* The commit makes the rows count, and they fit.                          *)
(***************************************************************************)
LEMMA CommitKeeps ==
    ASSUME BudgetInvariant, TypeOK', NEW r \in Refunds, Commit(r)
    PROVE  BudgetInvariant'
  <1>1. /\ call[r].pc = "applied" /\ call'[r].pc = "done"
        /\ call'[r].take = call[r].take
        /\ \A q \in Refunds \ {r} : call'[q] = call[q]
    BY MoveFields DEF Commit, Step, BudgetInvariant
  <1>2. \A q \in Refunds \ {r} : status'[q] = status[q]
    BY DEF Commit, BudgetInvariant, TypeOK
  <1>3. HoldsLock(r) /\ \A q \in Refunds \ {r} : ~HoldsLock(q)
    BY <1>1 DEF BudgetInvariant, LockExclusion, HoldsLock, Locking
  <1>4. LockExclusion' /\ SelfReadFits' /\ TakeFits'
    BY <1>1, <1>3 DEF LockExclusion, SelfReadFits, TakeFits, HoldsLock, Locking
  <1>5. RowsAreCommitted'
    BY <1>1, <1>2 DEF BudgetInvariant, RowsAreCommitted, Committed
  <1>6. RefundsWithinPayment'
    <2> SUFFICES ASSUME NEW p \in Pools PROVE SumRefunds(p)' <= Paid[p]
      BY DEF RefundsWithinPayment
    <2>1. ~Counts(r, p)
      BY <1>1 DEF BudgetInvariant, RowsAreCommitted, Committed, Counts
    <2>2. SumRefunds(p)' <= SumRefunds(p) + call[r].take[p]
      BY <1>1, <1>2, <2>1, OneRefunded DEF BudgetInvariant, Counts
    <2>3. SumRefunds(p) + call[r].take[p] <= Paid[p]
      BY <1>1 DEF BudgetInvariant, TakeFits
    <2>4. /\ SumRefunds(p) \in Nat /\ SumRefunds(p)' \in Nat
          /\ Paid[p] \in Nat /\ call[r].take[p] \in Nat
      BY SumRefundsType, SumRefundsNextType, CallType, RefundAssumption DEF BudgetInvariant
    <2> QED
      BY <2>2, <2>3, <2>4
  <1> QED
    BY <1>4, <1>5, <1>6 DEF BudgetInvariant

(***************************************************************************)
(* A request starts with nothing taken and no rows.                        *)
(***************************************************************************)
LEMMA BeginKeeps ==
    ASSUME BudgetInvariant, TypeOK', NEW r \in Refunds, Begin(r)
    PROVE  BudgetInvariant'
  <1>1. /\ call[r].pc = "idle" /\ call'[r].pc \in {"begun", "replayed"}
        /\ \A q \in Refunds \ {r} : call'[q] = call[q]
        /\ UNCHANGED status
    BY DEF Begin, BudgetInvariant, TypeOK, IdleCall
  <1>2. \A q \in Refunds : Quiet(q)
    BY <1>1 DEF Quiet, Locking
  <1>3. RowsAreCommitted'
    BY <1>1 DEF BudgetInvariant, RowsAreCommitted, Committed
  <1>4. \A q \in Refunds, p \in Pools :
          Counts(q, p)' => Counts(q, p) /\ call'[q].take[p] = call[q].take[p]
    BY <1>1 DEF BudgetInvariant, RowsAreCommitted, Committed, Counts
  <1> QED
    BY <1>2, <1>3, <1>4, QuietStep

(***************************************************************************)
(* The budget invariant holds at the start and through every step.         *)
(***************************************************************************)
LEMMA BudgetInit == Init => BudgetInvariant
<1> SUFFICES ASSUME Init PROVE BudgetInvariant
  OBVIOUS
<1>1. TypeOK
  BY TypeInit
<1>2. /\ \A r \in Refunds : call[r].pc = "idle"
      /\ \A r \in Refunds, p \in Pools : status[r][p] = "none"
  BY DEF Init, IdleCall
<1>3. LockExclusion /\ RowsAreCommitted /\ SelfReadFits /\ TakeFits
  BY <1>2 DEF LockExclusion, RowsAreCommitted, SelfReadFits, TakeFits, HoldsLock, Locking
<1>4. RefundsWithinPayment
  <2> SUFFICES ASSUME NEW p \in Pools PROVE SumRefunds(p) <= Paid[p]
    BY DEF RefundsWithinPayment
  <2>1. {r \in Refunds : Counts(r, p)} = {}
    BY <1>2 DEF Counts
  <2>2. SumRefunds(p) = 0
    BY <2>1, SumEmpty DEF SumRefunds
  <2> QED
    BY <2>2, RefundAssumption
<1> QED
  BY <1>1, <1>3, <1>4 DEF BudgetInvariant

LEMMA BudgetStep == BudgetInvariant /\ [Next]_vars => BudgetInvariant'
<1> SUFFICES ASSUME BudgetInvariant, [Next]_vars PROVE BudgetInvariant'
  OBVIOUS
<1>0. TypeOK'
  BY TypeStep DEF BudgetInvariant
<1>1. ASSUME NEW r \in Refunds, Handle(r) PROVE BudgetInvariant'
  <2>1. CASE Begin(r)
    BY <1>0, <2>1, BeginKeeps
  <2>2. CASE LockOriginal(r)
    BY <1>0, <2>2, LockOriginalKeeps
  <2>3. CASE ReadSelf(r)
    BY <1>0, <2>3, ReadSelfKeeps
  <2>4. CASE ReadOthers(r)
    BY <1>0, <2>4, ReadOthersKeeps
  <2>5. CASE InsertRows(r)
    <3>1. PICK to \in {"inserted", "refused"} : Step(r, "checked", to) /\ UNCHANGED status
      BY <2>5 DEF InsertRows
    <3> QED
      BY <1>0, <3>1, MoveQuiet DEF Step, Locking
  <2>6. CASE ApplyTransfers(r)
    BY <1>0, <2>6, MoveQuiet DEF ApplyTransfers, Step
  <2>7. CASE TransfersFail(r)
    BY <1>0, <2>7, MoveQuiet DEF TransfersFail, Step, Locking
  <2>8. CASE Commit(r)
    BY <1>0, <2>8, CommitKeeps
  <2> QED
    BY <1>1, <2>1, <2>2, <2>3, <2>4, <2>5, <2>6, <2>7, <2>8 DEF Handle
<1>2. ASSUME NEW r \in Refunds, LoseCall(r) PROVE BudgetInvariant'
  <2>1. PICK to \in {"orphaned", "lost"} : call' = [call EXCEPT ![r].pc = to]
    BY <1>2 DEF LoseCall
  <2>2. call[r].pc # "done" /\ UNCHANGED status
    BY <1>2 DEF LoseCall, Locking
  <2> QED
    BY <1>0, <2>1, <2>2, MoveQuiet DEF Locking
<1>3. ASSUME NEW r \in Refunds, PollerVoids(r) PROVE BudgetInvariant'
  BY <1>0, <1>3, UpdateQuiet DEF PollerVoids
<1>4. ASSUME NEW h \in Resolvers, LockRefund(h) PROVE BudgetInvariant'
  BY <1>0, <1>4, CallsQuiet DEF LockRefund
<1>5. ASSUME NEW h \in Resolvers, ResolveLeg(h) PROVE BudgetInvariant'
  <2>1. UNCHANGED <<call, status>>
    BY <1>5 DEF ResolveLeg
  <2> QED
    BY <1>0, <2>1, CallsQuiet
<1>6. ASSUME NEW h \in Resolvers, CommitVerdict(h) PROVE BudgetInvariant'
  <2>1. /\ resolver[h].refund \in Refunds
        /\ UpdatePending(resolver[h].refund, Target(resolver[h].verdict))
        /\ UNCHANGED call
    BY <1>6 DEF CommitVerdict, BudgetInvariant, TypeOK, Resolver
  <2>2. Target(resolver[h].verdict) \in {"settled", "voided"}
    BY DEF Target
  <2> QED
    BY <1>0, <2>1, <2>2, UpdateQuiet
<1>7. ASSUME NEW h \in Resolvers, LoseResolver(h) PROVE BudgetInvariant'
  BY <1>0, <1>7, CallsQuiet DEF LoseResolver
<1>8. ASSUME NEW r \in Refunds, NEW p \in Pools, Expire(r, p) PROVE BudgetInvariant'
  BY <1>0, <1>8, CallsQuiet DEF Expire
<1>9. CASE PollerFinds \/ SetStatus \/ UNCHANGED vars \/ \E r \in Refunds : PollerFails(r)
  <2>1. UNCHANGED <<call, status>>
    BY <1>9 DEF PollerFinds, PollerFails, SetStatus, vars
  <2> QED
    BY <1>0, <2>1, CallsQuiet
<1> QED
  BY <1>1, <1>2, <1>3, <1>4, <1>5, <1>6, <1>7, <1>8, <1>9 DEF Next, Resolve

(***************************************************************************)
(* The pending and settled refunds of a payment never add up to more than  *)
(* the payment took, in any pool, for any number of concurrent refunds,    *)
(* resolvers, poller rounds and lost transactions.                         *)
(***************************************************************************)
THEOREM BudgetKept == Spec => []RefundsWithinPayment
<1>1. BudgetInvariant => RefundsWithinPayment
  BY DEF BudgetInvariant
<1> QED
  BY <1>1, BudgetInit, BudgetStep, PTL DEF Spec

(***************************************************************************)
(* What a call has decided to give back fits until it is committed.        *)
(***************************************************************************)
THEOREM DecisionKept == Spec => []TakeFits
<1>1. BudgetInvariant => TakeFits
  BY DEF BudgetInvariant
<1> QED
  BY <1>1, BudgetInit, BudgetStep, PTL DEF Spec

(***************************************************************************)
(* Settled and voided are final: every UPDATE asks for pending rows, and a *)
(* commit writes the rows of a refund that had none.                       *)
(***************************************************************************)
LEMMA FinalStep ==
    ASSUME BudgetInvariant, [Next]_vars, NEW r \in Refunds, NEW p \in Pools,
           status[r][p] \in {"settled", "voided"}
    PROVE  status'[r][p] = status[r][p]
<1>1. ASSUME NEW q \in Refunds, NEW new, UpdatePending(q, new)
      PROVE  status'[r][p] = status[r][p]
  BY <1>1 DEF UpdatePending, BudgetInvariant, TypeOK
<1>2. ASSUME NEW q \in Refunds, Handle(q) \/ LoseCall(q) \/ PollerVoids(q)
      PROVE  status'[r][p] = status[r][p]
  <2>1. CASE Commit(q)
    <3>1. q # r
      BY <2>1 DEF Commit, Step, BudgetInvariant, RowsAreCommitted, Committed
    <3> QED
      BY <2>1, <3>1 DEF Commit, BudgetInvariant, TypeOK
  <2>2. CASE PollerVoids(q)
    BY <1>1, <2>2 DEF PollerVoids
  <2>3. CASE UNCHANGED status
    BY <2>3
  <2> QED
    BY <1>2, <2>1, <2>2, <2>3
    DEF Handle, Begin, LockOriginal, ReadSelf, ReadOthers, InsertRows, ApplyTransfers,
        TransfersFail, LoseCall
<1>3. ASSUME NEW h \in Resolvers, CommitVerdict(h) PROVE status'[r][p] = status[r][p]
  BY <1>1, <1>3 DEF CommitVerdict, BudgetInvariant, TypeOK, Resolver
<1>4. CASE UNCHANGED status
  BY <1>4
<1> QED
  BY <1>2, <1>3, <1>4
  DEF Next, Resolve, LockRefund, ResolveLeg, LoseResolver, PollerFinds, PollerFails,
      Expire, SetStatus, vars

(***************************************************************************)
(* A row that is settled or voided keeps its status in every later step.   *)
(***************************************************************************)
THEOREM VerdictsFinal == Spec => StatusFinal
<1>1. BudgetInvariant /\ [Next]_vars =>
        [\A r \in Refunds, p \in Pools :
           status[r][p] \in {"settled", "voided"} => status'[r][p] = status[r][p]]_vars
  BY FinalStep
<1> QED
  BY <1>1, BudgetInit, BudgetStep, PTL DEF Spec, StatusFinal

-----------------------------------------------------------------------------
(***************************************************************************)
(* The rows of a refund agree: one status for every leg, and no row where  *)
(* nothing is taken.  A refund that is about to write has a leg.           *)
(***************************************************************************)
RowsAre(r, s) == status[r] = [p \in Pools |-> IF p \in Legs(r) THEN s ELSE "none"]

WholeRows ==
    \A r \in Refunds : Committed(r) =>
        \E s \in {"pending", "settled", "voided"} : RowsAre(r, s)

TakersHaveLegs ==
    \A r \in Refunds :
        call[r].pc \in {"checked", "inserted", "applied", "done"} => Legs(r) # {}

\* A call that is writing has a key no committed refund has.
KeysFree ==
    \A r, q \in Refunds :
        /\ r # q /\ Committed(q)
        /\ call[r].pc \in {"inserted", "applied", "done"}
        => call[r].key # call[q].key \/ call[r].key = NoKey

RowInvariant == BudgetInvariant /\ WholeRows /\ TakersHaveLegs /\ KeysFree

(***************************************************************************)
(* The decision under the lock takes something.                            *)
(***************************************************************************)
LEMMA DecisionTakes ==
    ASSUME TypeOK, NEW r \in Refunds, ReadOthers(r), call'[r].pc = "checked"
    PROVE  \E p \in Pools : call'[r].take[p] > 0
  <1> DEFINE amount == call[r].amount
             left == [call[r].left EXCEPT !["others"] = Remaining("others")]
             fromSelf == IF amount <= left["self"] THEN amount ELSE left["self"]
             take == [p \in Pools |-> IF p = "self" THEN fromSelf ELSE amount - fromSelf]
             valid == amount > 0 /\ amount <= left["self"] + left["others"]
  <1>1. call[r] \in Call /\ amount \in Nat /\ left["self"] \in Nat
    <2>1. left["self"] = call[r].left["self"]
      BY CallType DEF Division, Pools
    <2> QED
      BY <2>1, CallType DEF Pools
  <1>2. call'[r] = [call[r] EXCEPT !.pc = IF valid THEN "checked" ELSE "refused",
                                   !.left = left, !.take = IF valid THEN take ELSE Nothing]
    BY DEF ReadOthers, TypeOK
  <1> HIDE DEF left, take, valid
  <1>3. /\ call'[r].take = IF valid THEN take ELSE Nothing
        /\ call'[r].pc = IF valid THEN "checked" ELSE "refused"
    BY <1>1, <1>2 DEF Call
  <1>4. valid /\ call'[r].take = take
    BY <1>3
  <1>5. fromSelf > 0 \/ amount - fromSelf > 0
    BY <1>1, <1>4 DEF valid
  <1>6. take["self"] = fromSelf /\ take["others"] = amount - fromSelf
    BY DEF take, Pools
  <1> HIDE DEF fromSelf, amount
  <1> QED
    BY <1>4, <1>5, <1>6 DEF Pools

(***************************************************************************)
(* A step of a handler before its commit touches no rows and takes no key. *)
(***************************************************************************)
\* What a step of a handler before its commit may do to it.
Quietly(r) ==
    /\ ~Committed(r) /\ ~Committed(r)' /\ status'[r] = status[r]
    /\ call'[r].pc \in {"checked", "inserted", "applied"} =>
         \E p \in Pools : call'[r].take[p] > 0
    /\ call'[r].pc \in {"inserted", "applied"} =>
         \A q \in Refunds \ {r} : Committed(q) =>
             call'[r].key # call[q].key \/ call'[r].key = NoKey

LEMMA RowQuiet ==
    ASSUME RowInvariant, BudgetInvariant', NEW r \in Refunds, Quietly(r),
           \A q \in Refunds \ {r} : call'[q] = call[q] /\ status'[q] = status[q]
    PROVE  RowInvariant'
  <1>1. \A q \in Refunds : Committed(q)' => q # r /\ Committed(q)
    BY DEF Quietly, Committed
  <1>2. WholeRows'
    BY <1>1 DEF RowInvariant, WholeRows, RowsAre, Legs
  <1>3. TakersHaveLegs'
    BY <1>1 DEF RowInvariant, TakersHaveLegs, Quietly, Legs, Committed
  <1>4. KeysFree'
    <2> SUFFICES ASSUME NEW x \in Refunds, NEW q \in Refunds, x # q, Committed(q)',
                        call'[x].pc \in {"inserted", "applied", "done"}
                 PROVE  call'[x].key # call'[q].key \/ call'[x].key = NoKey
      BY DEF KeysFree
    <2>1. q # r /\ Committed(q) /\ call'[q] = call[q]
      BY <1>1
    <2>2. CASE x = r
      <3>1. call'[r].pc # "done"
        BY DEF Quietly, Committed
      <3> QED
        BY <2>1, <2>2, <3>1 DEF Quietly
    <2>3. CASE x # r
      BY <2>1, <2>3 DEF RowInvariant, KeysFree
    <2> QED
      BY <2>2, <2>3
  <1> QED
    BY <1>2, <1>3, <1>4 DEF RowInvariant

(***************************************************************************)
(* An UPDATE of pending rows changes the rows of one refund as a whole.    *)
(***************************************************************************)
LEMMA RowUpdate ==
    ASSUME RowInvariant, NEW r \in Refunds, NEW new \in {"settled", "voided"},
           UpdatePending(r, new)
    PROVE  /\ \A q \in Refunds \ {r} : status'[q] = status[q]
           /\ \/ status'[r] = status[r]
              \/ /\ Committed(r) /\ RowsAre(r, "pending")
                 /\ status'[r] = [p \in Pools |-> IF p \in Legs(r) THEN new ELSE "none"]
  <1>1. /\ \A q \in Refunds \ {r} : status'[q] = status[q]
        /\ status'[r] = [p \in Pools |-> IF status[r][p] = "pending" THEN new
                                          ELSE status[r][p]]
    BY DEF UpdatePending, RowInvariant, BudgetInvariant, TypeOK
  <1>2. status[r] \in [Pools -> Statuses]
    BY DEF RowInvariant, BudgetInvariant, TypeOK
  <1>3. CASE \A p \in Pools : status[r][p] # "pending"
    <2>1. status'[r] = [p \in Pools |-> status[r][p]]
      BY <1>1, <1>3
    <2> QED
      BY <1>1, <1>2, <2>1
  <1>4. CASE \E p \in Pools : status[r][p] = "pending"
    <2>1. Committed(r)
      BY <1>4 DEF RowInvariant, BudgetInvariant, RowsAreCommitted
    <2>2. PICK s \in {"pending", "settled", "voided"} : RowsAre(r, s)
      BY <2>1 DEF RowInvariant, WholeRows
    <2>3. s = "pending"
      BY <1>4, <2>2 DEF RowsAre
    <2>4. status'[r] = [p \in Pools |-> IF p \in Legs(r) THEN new ELSE "none"]
      BY <1>1, <2>2, <2>3 DEF RowsAre
    <2> QED
      BY <1>1, <2>1, <2>2, <2>3, <2>4
  <1> QED
    BY <1>3, <1>4

LEMMA RowUpdateKeeps ==
    ASSUME RowInvariant, BudgetInvariant', UNCHANGED call, NEW r \in Refunds,
           NEW new \in {"settled", "voided"}, UpdatePending(r, new)
    PROVE  RowInvariant'
  <1>1. \A q \in Refunds : (Legs(q)' = Legs(q)) /\ (Committed(q)' <=> Committed(q))
    BY DEF Legs, Committed
  <1>2. WholeRows'
    <2> SUFFICES ASSUME NEW q \in Refunds, Committed(q)
                 PROVE  \E s \in {"pending", "settled", "voided"} : RowsAre(q, s)'
      BY <1>1 DEF WholeRows
    <2>1. CASE status'[q] = status[q]
      BY <1>1, <2>1 DEF RowInvariant, WholeRows, RowsAre
    <2>2. CASE status'[q] # status[q]
      <3>1. q = r /\ status'[r] = [p \in Pools |-> IF p \in Legs(r) THEN new ELSE "none"]
        BY <2>2, RowUpdate
      <3>2. RowsAre(q, new)'
        BY <1>1, <3>1 DEF RowsAre
      <3> QED
        BY <3>2
    <2> QED
      BY <2>1, <2>2
  <1>3. TakersHaveLegs' /\ KeysFree'
    BY <1>1 DEF RowInvariant, TakersHaveLegs, KeysFree
  <1> QED
    BY <1>2, <1>3 DEF RowInvariant

(***************************************************************************)
(* The commit writes whole rows under a key nobody else has.               *)
(***************************************************************************)
LEMMA RowCommit ==
    ASSUME RowInvariant, NEW r \in Refunds, Commit(r)
    PROVE  /\ call[r].pc = "applied" /\ ~Committed(r) /\ Committed(r)'
           /\ call'[r].take = call[r].take /\ call'[r].key = call[r].key
           /\ \A q \in Refunds \ {r} : call'[q] = call[q] /\ status'[q] = status[q]
           /\ \E s \in {"pending", "settled"} :
                status'[r] = [p \in Pools |-> IF p \in Legs(r) THEN s ELSE "none"]
  <1>1. TypeOK
    BY DEF RowInvariant, BudgetInvariant
  <1>2. /\ call[r].pc = "applied" /\ call'[r].pc = "done"
        /\ call'[r].take = call[r].take /\ call'[r].key = call[r].key
        /\ \A q \in Refunds \ {r} : call'[q] = call[q]
    BY <1>1 DEF Commit, Step, TypeOK, Call
  <1>3. /\ \A q \in Refunds \ {r} : status'[q] = status[q]
        /\ status'[r] = [p \in Pools |-> IF p \notin Legs(r) THEN "none"
                            ELSE IF call[r].pending THEN "pending" ELSE "settled"]
    BY <1>1 DEF Commit, TypeOK
  <1>4. CASE call[r].pending
    <2>1. status'[r] = [p \in Pools |-> IF p \in Legs(r) THEN "pending" ELSE "none"]
      BY <1>3, <1>4
    <2> QED
      BY <1>2, <1>3, <2>1 DEF Committed
  <1>5. CASE ~call[r].pending
    <2>1. status'[r] = [p \in Pools |-> IF p \in Legs(r) THEN "settled" ELSE "none"]
      BY <1>3, <1>5
    <2> QED
      BY <1>2, <1>3, <2>1 DEF Committed
  <1> QED
    BY <1>4, <1>5

LEMMA RowCommitKeeps ==
    ASSUME RowInvariant, BudgetInvariant', NEW r \in Refunds, Commit(r)
    PROVE  RowInvariant'
  <1>1. /\ call[r].pc = "applied" /\ call'[r].take = call[r].take
        /\ call'[r].key = call[r].key
        /\ \A q \in Refunds \ {r} : call'[q] = call[q] /\ status'[q] = status[q]
    BY RowCommit
  <1>2. \A q \in Refunds : Legs(q)' = Legs(q) /\ call'[q].key = call[q].key
    BY <1>1 DEF Legs
  <1>3. \A q \in Refunds \ {r} : call[q].pc \notin {"inserted", "applied"}
    BY <1>1 DEF RowInvariant, BudgetInvariant, LockExclusion, HoldsLock, Locking
  <1>4. WholeRows'
    <2> SUFFICES ASSUME NEW q \in Refunds, Committed(q)'
                 PROVE  \E s \in {"pending", "settled", "voided"} : RowsAre(q, s)'
      BY DEF WholeRows
    <2>1. CASE q = r
      BY <1>2, <2>1, RowCommit DEF RowsAre
    <2>2. CASE q # r
      BY <1>1, <1>2, <2>2 DEF RowInvariant, WholeRows, RowsAre, Committed
    <2> QED
      BY <2>1, <2>2
  <1>5. TakersHaveLegs'
    BY <1>1, <1>2 DEF RowInvariant, TakersHaveLegs
  <1>6. KeysFree'
    <2> SUFFICES ASSUME NEW x \in Refunds, NEW q \in Refunds, x # q, Committed(q)',
                        call'[x].pc \in {"inserted", "applied", "done"}
                 PROVE  call[x].key # call[q].key \/ call[x].key = NoKey
      BY <1>2 DEF KeysFree
    <2>1. CASE q # r
      <3>1. Committed(q)
        BY <1>1, <2>1 DEF Committed
      <3>2. call[x].pc \in {"inserted", "applied", "done"}
        BY <1>1
      <3> QED
        BY <3>1, <3>2 DEF RowInvariant, KeysFree
    <2>2. CASE q = r
      <3>1. Committed(x)
        BY <1>1, <1>3, <2>2 DEF Committed
      <3>2. call[r].key # call[x].key \/ call[r].key = NoKey
        BY <1>1, <2>2, <3>1 DEF RowInvariant, KeysFree
      <3> QED
        BY <2>2, <3>2
    <2> QED
      BY <2>1, <2>2
  <1> QED
    BY <1>4, <1>5, <1>6 DEF RowInvariant

(***************************************************************************)
(* The steps of a handler before its commit.                               *)
(***************************************************************************)
LEMMA HandleQuietly ==
    ASSUME RowInvariant, NEW r \in Refunds,
           \/ Begin(r) \/ LockOriginal(r) \/ ReadSelf(r) \/ ReadOthers(r)
           \/ InsertRows(r) \/ ApplyTransfers(r) \/ TransfersFail(r) \/ LoseCall(r)
    PROVE  /\ Quietly(r)
           /\ \A q \in Refunds \ {r} : call'[q] = call[q] /\ status'[q] = status[q]
  <1>0. TypeOK /\ call \in [Refunds -> Call]
    BY DEF RowInvariant, BudgetInvariant, TypeOK
  <1>1. ASSUME NEW to, call' = [call EXCEPT ![r].pc = to], UNCHANGED status,
               call[r].pc # "done",
               \/ to \notin {"checked", "inserted", "applied", "done"}
               \/ call[r].pc = "inserted" /\ to = "applied"
        PROVE  /\ Quietly(r)
               /\ \A q \in Refunds \ {r} : call'[q] = call[q] /\ status'[q] = status[q]
    <2>1. /\ call'[r].pc = to /\ call'[r].take = call[r].take
          /\ call'[r].key = call[r].key
          /\ \A q \in Refunds \ {r} : call'[q] = call[q]
      BY <1>0, <1>1 DEF Call
    <2> QED
      BY <1>1, <2>1
      DEF Quietly, Committed, RowInvariant, TakersHaveLegs, KeysFree, Legs
  <1>2. CASE Begin(r)
    <2>1. /\ call[r].pc = "idle" /\ call'[r].pc \in {"begun", "replayed"}
          /\ \A q \in Refunds \ {r} : call'[q] = call[q]
          /\ UNCHANGED status
      BY <1>0, <1>2 DEF Begin, IdleCall
    <2> QED
      BY <2>1 DEF Quietly, Committed
  <1>3. CASE LockOriginal(r)
    BY <1>1, <1>3 DEF LockOriginal, Step
  <1>4. CASE ReadSelf(r)
    <2>1. /\ call[r].pc = "locked" /\ call'[r].pc = "self_read"
          /\ \A q \in Refunds \ {r} : call'[q] = call[q]
          /\ UNCHANGED status
      BY <1>0, <1>4 DEF ReadSelf, Call
    <2> QED
      BY <2>1 DEF Quietly, Committed
  <1>5. CASE ReadOthers(r)
    <2>1. PICK left, take \in Division, to \in {"checked", "refused"} :
            Decides(r, to, left, take)
      BY <1>0, <1>5, Decision
    <2>2. /\ call[r].pc = "self_read" /\ UNCHANGED status
          /\ call'[r].pc \in {"checked", "refused"}
          /\ \A q \in Refunds \ {r} : call'[q] = call[q]
      BY <1>0, <1>5, <2>1 DEF ReadOthers, Decides, Call
    <2> QED
      BY <1>0, <1>5, <2>2, DecisionTakes DEF Quietly, Committed
  <1>6. CASE InsertRows(r)
    <2>1. CASE Step(r, "checked", "refused")
      BY <1>1, <1>6, <2>1 DEF InsertRows, Step
    <2>2. CASE Step(r, "checked", "inserted")
      <3>1. /\ call[r].pc = "checked" /\ call'[r].pc = "inserted"
            /\ call'[r].take = call[r].take /\ call'[r].key = call[r].key
            /\ \A q \in Refunds \ {r} : call'[q] = call[q]
            /\ UNCHANGED status
        BY <1>0, <1>6, <2>2 DEF Step, Call, InsertRows
      <3>2. ~\E q \in Refunds : /\ Committed(q) /\ call[r].key # NoKey
                                /\ call[q].key = call[r].key
        BY <1>6, <3>1 DEF InsertRows, Step
      <3> QED
        BY <3>1, <3>2 DEF Quietly, Committed, RowInvariant, TakersHaveLegs, Legs
    <2> QED
      BY <1>6, <2>1, <2>2 DEF InsertRows
  <1>7. CASE ApplyTransfers(r)
    BY <1>1, <1>7 DEF ApplyTransfers, Step
  <1>8. CASE TransfersFail(r)
    BY <1>1, <1>8 DEF TransfersFail, Step
  <1>9. CASE LoseCall(r)
    <2>1. PICK to \in {"orphaned", "lost"} : call' = [call EXCEPT ![r].pc = to]
      BY <1>9 DEF LoseCall
    <2> QED
      BY <1>1, <1>9, <2>1 DEF LoseCall, Locking
  <1> QED
    BY <1>2, <1>3, <1>4, <1>5, <1>6, <1>7, <1>8, <1>9

LEMMA RowInit == Init => RowInvariant
  BY BudgetInit
  DEF Init, IdleCall, RowInvariant, WholeRows, TakersHaveLegs, KeysFree, Committed

(***************************************************************************)
(* What a step does to the rows: nothing, or a commit, or an UPDATE.       *)
(***************************************************************************)
Before(r) ==
    \/ Begin(r) \/ LockOriginal(r) \/ ReadSelf(r) \/ ReadOthers(r)
    \/ InsertRows(r) \/ ApplyTransfers(r) \/ TransfersFail(r) \/ LoseCall(r)

Updates(r, new) == UpdatePending(r, new) /\ UNCHANGED call

LEMMA StepKinds ==
    ASSUME TypeOK, [Next]_vars
    PROVE  \/ \E r \in Refunds : Before(r)
           \/ \E r \in Refunds : Commit(r)
           \/ \E r \in Refunds, new \in {"settled", "voided"} : Updates(r, new)
           \/ UNCHANGED <<call, status>>
  <1>1. ASSUME NEW r \in Refunds, Handle(r) \/ LoseCall(r) PROVE Before(r) \/ Commit(r)
    BY <1>1 DEF Handle, Before
  <1>2. ASSUME NEW r \in Refunds, PollerVoids(r) PROVE Updates(r, "voided")
    BY <1>2 DEF PollerVoids, Updates
  <1>3. ASSUME NEW h \in Resolvers, CommitVerdict(h)
        PROVE  \E r \in Refunds, new \in {"settled", "voided"} : Updates(r, new)
    <2>1. /\ resolver[h].refund \in Refunds
          /\ Updates(resolver[h].refund, Target(resolver[h].verdict))
      BY <1>3 DEF CommitVerdict, TypeOK, Resolver, Updates
    <2>2. Target(resolver[h].verdict) \in {"settled", "voided"}
      BY DEF Target
    <2> QED
      BY <2>1, <2>2
  <1>4. ASSUME NEW h \in Resolvers, ResolveLeg(h) PROVE UNCHANGED <<call, status>>
    BY <1>4 DEF ResolveLeg
  <1>5. CASE \/ \E h \in Resolvers : LockRefund(h) \/ LoseResolver(h)
             \/ \E r \in Refunds : PollerFails(r)
             \/ \E r \in Refunds, p \in Pools : Expire(r, p)
             \/ PollerFinds \/ SetStatus \/ UNCHANGED vars
    BY <1>5 DEF LockRefund, LoseResolver, PollerFails, Expire, PollerFinds, SetStatus, vars
  <1> QED
    BY <1>1, <1>2, <1>3, <1>4, <1>5 DEF Next, Resolve

LEMMA RowStep == RowInvariant /\ [Next]_vars => RowInvariant'
<1> SUFFICES ASSUME RowInvariant, [Next]_vars PROVE RowInvariant'
  OBVIOUS
<1>0. BudgetInvariant' /\ TypeOK
  BY BudgetStep DEF RowInvariant, BudgetInvariant
<1>1. ASSUME NEW r \in Refunds, Before(r) PROVE RowInvariant'
  BY <1>0, <1>1, HandleQuietly, RowQuiet DEF Before
<1>2. ASSUME NEW r \in Refunds, Commit(r) PROVE RowInvariant'
  BY <1>0, <1>2, RowCommitKeeps
<1>3. ASSUME NEW r \in Refunds, NEW new \in {"settled", "voided"}, Updates(r, new)
      PROVE  RowInvariant'
  BY <1>0, <1>3, RowUpdateKeeps DEF Updates
<1>4. CASE UNCHANGED <<call, status>>
  BY <1>0, <1>4
  DEF RowInvariant, WholeRows, RowsAre, TakersHaveLegs, KeysFree, Committed, Legs
<1> QED
  BY <1>0, <1>1, <1>2, <1>3, <1>4, StepKinds

(***************************************************************************)
(* The legs of a refund always have one status.                            *)
(***************************************************************************)
THEOREM LegsAgree == Spec => []LegsTogether
<1>1. RowInvariant => LegsTogether
  <2> SUFFICES ASSUME RowInvariant, NEW r \in Refunds, NEW p \in Legs(r), NEW q \in Legs(r)
               PROVE  status[r][p] = status[r][q]
    BY DEF LegsTogether
  <2>1. p \in Pools /\ q \in Pools
    BY DEF Legs
  <2>2. CASE Committed(r)
    BY <2>1, <2>2 DEF RowInvariant, WholeRows, RowsAre
  <2>3. CASE ~Committed(r)
    BY <2>1, <2>3 DEF RowInvariant, BudgetInvariant, RowsAreCommitted
  <2> QED
    BY <2>2, <2>3
<1> QED
  BY <1>1, RowInit, RowStep, PTL DEF Spec

(***************************************************************************)
(* At most one committed refund has a given key.                           *)
(***************************************************************************)
THEOREM KeysOnce == Spec => []OneRefundPerKey
<1>1. RowInvariant => OneRefundPerKey
  BY DEF RowInvariant, KeysFree, OneRefundPerKey, Committed
<1> QED
  BY <1>1, RowInit, RowStep, PTL DEF Spec

(***************************************************************************)
(* The lookup of the account is the last thing before the inserts, so no   *)
(* refund passes it while the account is frozen.                           *)
(***************************************************************************)
THEOREM FreezeHolds == Spec => FreezeRefundsNone
<1>1. TypeOK /\ [Next]_vars => [~active => MayRefund' \subseteq MayRefund]_vars
  <2> SUFFICES ASSUME TypeOK, [Next]_vars, ~active,
                      NEW r \in Refunds, r \in MayRefund', r \notin MayRefund
               PROVE  FALSE
    BY DEF MayRefund
  <2>1. /\ call'[r].pc \in {"inserted", "applied", "done", "orphaned"}
        /\ call[r].pc \notin {"inserted", "applied", "done", "orphaned"}
    BY DEF MayRefund
  <2>2. call \in [Refunds -> Call]
    BY DEF TypeOK
  <2>3. ASSUME NEW q \in Refunds, NEW from, NEW to, Step(q, from, to),
               \/ from \in {"inserted", "applied", "done", "orphaned"}
               \/ to \notin {"inserted", "applied", "done", "orphaned"}
        PROVE  FALSE
    BY <2>1, <2>2, <2>3 DEF Step, Call
  <2>4. ASSUME NEW q \in Refunds, Before(q) PROVE FALSE
    <3>1. CASE Begin(q)
      BY <2>1, <2>2, <3>1 DEF Begin, IdleCall
    <3>2. CASE LockOriginal(q)
      BY <2>3, <3>2 DEF LockOriginal
    <3>3. CASE ReadSelf(q)
      BY <2>1, <2>2, <3>3 DEF ReadSelf, Call
    <3>4. CASE ReadOthers(q)
      <4>1. PICK left, take \in Division, to \in {"checked", "refused"} :
              Decides(q, to, left, take)
        BY <3>4, Decision
      <4> QED
        BY <2>1, <2>2, <4>1 DEF Decides, Call
    <3>5. CASE InsertRows(q)
      BY <2>3, <3>5 DEF InsertRows
    <3>6. CASE ApplyTransfers(q) \/ TransfersFail(q)
      BY <2>3, <3>6 DEF ApplyTransfers, TransfersFail
    <3>7. CASE LoseCall(q)
      BY <2>1, <2>2, <3>7 DEF LoseCall, Call
    <3> QED
      BY <2>4, <3>1, <3>2, <3>3, <3>4, <3>5, <3>6, <3>7 DEF Before
  <2>5. ASSUME NEW q \in Refunds, Commit(q) PROVE FALSE
    BY <2>3, <2>5 DEF Commit
  <2>6. call' # call
    BY <2>1
  <2> QED
    BY <2>4, <2>5, <2>6, StepKinds DEF Updates
<1> QED
  BY <1>1, TypeInit, TypeStep, PTL DEF Spec, FreezeRefundsNone

(***************************************************************************)
(* What the rows show of a refund: nothing before its commit, and then     *)
(* what the status they share says.                                        *)
(***************************************************************************)
LEMMA SeenNone ==
    ASSUME RowInvariant, NEW r \in Refunds, ~Committed(r)
    PROVE  Seen(r) = "none" /\ Shown(r) = Nothing
  BY DEF RowInvariant, BudgetInvariant, RowsAreCommitted, Seen, Shown

LEMMA SeenRows ==
    ASSUME RowInvariant, NEW r \in Refunds, Committed(r), NEW s, RowsAre(r, s)
    PROVE  /\ s = "pending" => Seen(r) = "held"
           /\ s = "settled" => Seen(r) = "settled"
           /\ s = "voided" => Seen(r) = "released"
  <1>1. PICK p \in Pools : p \in Legs(r)
    BY DEF RowInvariant, TakersHaveLegs, Committed, Legs
  <1>2. status[r][p] = s /\ \A q \in Pools : status[r][q] \in {s, "none"}
    BY <1>1 DEF RowsAre
  <1> QED
    BY <1>2 DEF Seen

(***************************************************************************)
(* The budget the rows show is the one the code sums up.                   *)
(***************************************************************************)
LEMMA BudgetUsed ==
    ASSUME RowInvariant, NEW p \in Pools
    PROVE  Budget!Used(p) = SumRefunds(p)
  <1> DEFINE used == {r \in Refunds : Seen(r) \in {"held", "settled"}}
             counted == {r \in Refunds : Counts(r, p)}
             g == [r \in Refunds |-> Shown(r)[p]]
             f == Take(p)
  <1>1. Budget!Used(p) = SumOver(g, used)
    <2> DEFINE shares == [r \in Refunds |-> [q \in Refunds |-> Shown(q)][r][p]]
               users == {r \in Refunds :
                           [q \in Refunds |-> Seen(q)][r] \in {"held", "settled"}}
    <2>1. Budget!Used(p) = Budget!SumOver(shares, users)
      BY DEF Budget!Used
    <2>2. shares = g /\ users = used
      OBVIOUS
    <2> HIDE DEF shares, users, g, used
    <2>3. Budget!SumOver(g, used) = Budget!Cardinality(Units(g, used))
      BY DEF Budget!SumOver, Budget!Units, Budget!UnitsOf, Units, UnitsOf
    <2>4. Budget!Cardinality(Units(g, used)) = Cardinality(Units(g, used))
      BY DEF Budget!Cardinality, Cardinality
    <2> QED
      BY <2>1, <2>2, <2>3, <2>4 DEF SumOver
  <1>2. counted \subseteq used
    BY DEF Counts, Seen
  <1>3. \A r \in used : Committed(r) /\ g[r] = f[r]
    BY SeenNone DEF Shown, Take
  <1>4. \A r \in used \ counted : f[r] = 0
    <2> SUFFICES ASSUME NEW r \in used, r \notin counted PROVE f[r] = 0
      OBVIOUS
    <2>1. PICK s \in {"pending", "settled", "voided"} : RowsAre(r, s)
      BY <1>3 DEF RowInvariant, WholeRows
    <2>2. s \in {"pending", "settled"}
      BY <1>3, <2>1, SeenRows
    <2>3. p \notin Legs(r)
      BY <2>1, <2>2 DEF Counts, RowsAre
    <2>4. call[r].take[p] \in Nat
      BY CallType DEF RowInvariant, BudgetInvariant
    <2> QED
      BY <2>3, <2>4 DEF Legs, Take
  <1> HIDE DEF used, counted, f, g
  <1>5. SumOver(g, used) = SumOver(f, used)
    BY <1>3, SumSame
  <1>6. SumOver(f, used) = SumOver(f, counted)
    BY <1>2, <1>4, SumZeros
  <1> QED
    BY <1>1, <1>5, <1>6 DEF SumRefunds, f, counted

(***************************************************************************)
(* A step that leaves the rows and the shares of all refunds but one.      *)
(***************************************************************************)
ShowsSame(r) == Seen(r)' = Seen(r) /\ Shown(r)' = Shown(r)

LEMMA SameShows ==
    ASSUME NEW r \in Refunds, call'[r] = call[r], status'[r] = status[r]
    PROVE  ShowsSame(r)
  BY DEF ShowsSame, Seen, Shown, Committed

(***************************************************************************)
(* The commit takes the whole share in one step, and it is still there.    *)
(***************************************************************************)
LEMMA CommitTakes ==
    ASSUME RowInvariant, NEW r \in Refunds, Commit(r)
    PROVE  Budget!Take(r)
  <1>1. /\ call[r].pc = "applied" /\ ~Committed(r) /\ Committed(r)'
        /\ call'[r].take = call[r].take
        /\ \A q \in Refunds \ {r} : ShowsSame(q)
    BY RowCommit, SameShows
  <1>2. PICK s \in {"pending", "settled"} :
          status'[r] = [p \in Pools |-> IF p \in Legs(r) THEN s ELSE "none"]
    BY RowCommit
  <1>3. PICK p \in Pools : p \in Legs(r)
    BY <1>1 DEF RowInvariant, TakersHaveLegs, Legs
  <1>4. Seen(r)' \in {"held", "settled"}
    BY <1>2, <1>3 DEF Seen
  <1>5. Seen(r) = "none"
    BY <1>1, SeenNone
  <1>6. Shown(r)' = call[r].take /\ call[r].take \in [Pools -> Nat]
    BY <1>1, CallType DEF Shown, RowInvariant, BudgetInvariant, Division
  <1>7. \A q \in Pools : Budget!Used(q) + call[r].take[q] <= Paid[q]
    BY <1>1, BudgetUsed DEF RowInvariant, BudgetInvariant, TakeFits
  <1>8. /\ [q \in Refunds |-> Seen(q)'] = [[q \in Refunds |-> Seen(q)] EXCEPT ![r] = Seen(r)']
        /\ [q \in Refunds |-> Shown(q)']
             = [[q \in Refunds |-> Shown(q)] EXCEPT ![r] = Shown(r)']
    BY <1>1 DEF ShowsSame
  <1> QED
    BY <1>4, <1>5, <1>6, <1>7, <1>8 DEF Budget!Take

(***************************************************************************)
(* An UPDATE settles or releases the refund as a whole, or does nothing.   *)
(***************************************************************************)
LEMMA UpdateEnds ==
    ASSUME RowInvariant, NEW r \in Refunds, NEW new \in {"settled", "voided"},
           Updates(r, new)
    PROVE  \/ Budget!Settle(r) \/ Budget!Release(r)
           \/ \A q \in Refunds : ShowsSame(q)
  <1>1. /\ UNCHANGED call
        /\ \A q \in Refunds \ {r} : ShowsSame(q)
    BY RowUpdate, SameShows DEF Updates
  <1>2. CASE status'[r] = status[r]
    BY <1>1, <1>2, SameShows
  <1>3. CASE status'[r] # status[r]
    <2>1. /\ Committed(r) /\ RowsAre(r, "pending")
          /\ status'[r] = [p \in Pools |-> IF p \in Legs(r) THEN new ELSE "none"]
      BY <1>3, RowUpdate DEF Updates
    <2>2. Seen(r) = "held"
      BY <2>1, SeenRows
    <2>3. PICK p \in Pools : p \in Legs(r)
      BY <2>1 DEF RowInvariant, TakersHaveLegs, Committed, Legs
    <2>4. Seen(r)' = IF new = "settled" THEN "settled" ELSE "released"
      BY <2>1, <2>3 DEF Seen
    <2>5. Shown(r)' = Shown(r)
      BY <1>1 DEF Shown, Committed
    <2>6. /\ [q \in Refunds |-> Seen(q)']
               = [[q \in Refunds |-> Seen(q)] EXCEPT ![r] = Seen(r)']
          /\ [q \in Refunds |-> Shown(q)'] = [q \in Refunds |-> Shown(q)]
      BY <1>1, <2>5 DEF ShowsSame
    <2> QED
      BY <2>2, <2>4, <2>6 DEF Budget!Settle, Budget!Release
  <1> QED
    BY <1>2, <1>3

(***************************************************************************)
(* The refunds implement the budget: every step of the code shows a reader *)
(* of the rows one whole taking, settling or releasing, or nothing.        *)
(***************************************************************************)
THEOREM RefundsImplementBudget == Spec => RefinesBudget
<1>1. Init => Budget!Init
  BY DEF Init, IdleCall, Committed, Seen, Shown, Nothing, Budget!Init
<1>2. RowInvariant /\ [Next]_vars => [Budget!Next]_(Budget!budget)
  <2> SUFFICES ASSUME RowInvariant, [Next]_vars
               PROVE  Budget!Next \/ \A r \in Refunds : ShowsSame(r)
    BY DEF ShowsSame, Budget!budget
  <2>1. ASSUME NEW r \in Refunds, Before(r) PROVE \A q \in Refunds : ShowsSame(q)
    <3>1. /\ Quietly(r)
          /\ \A q \in Refunds \ {r} : call'[q] = call[q] /\ status'[q] = status[q]
      BY <2>1, HandleQuietly DEF Before
    <3>2. ShowsSame(r)
      BY <3>1 DEF Quietly, ShowsSame, Seen, Shown
    <3> QED
      BY <3>1, <3>2, SameShows
  <2>2. ASSUME NEW r \in Refunds, Commit(r) PROVE Budget!Next
    BY <2>2, CommitTakes DEF Budget!Next
  <2>3. ASSUME NEW r \in Refunds, NEW new \in {"settled", "voided"}, Updates(r, new)
        PROVE  Budget!Next \/ \A q \in Refunds : ShowsSame(q)
    BY <2>3, UpdateEnds DEF Budget!Next
  <2>4. CASE UNCHANGED <<call, status>>
    BY <2>4, SameShows
  <2>5. TypeOK
    BY DEF RowInvariant, BudgetInvariant
  <2> QED
    BY <2>1, <2>2, <2>3, <2>4, <2>5, StepKinds
<1> QED
  BY <1>1, <1>2, RowInit, RowStep, PTL DEF Spec, RefinesBudget, Budget!Spec

-----------------------------------------------------------------------------
(***************************************************************************)
(* What the rows say and what TigerBeetle has done.  Placed holds of every *)
(* refund: a verdict works on committed pending rows, alone, and money     *)
(* moves only for a leg of a call that got so far.  Fate is what a lost    *)
(* transaction can spoil: a pending refund nobody resolves has either all  *)
(* its transfers pending, or one that has expired and will fail every      *)
(* verdict; a verdict under way has carried out what is not on its list,   *)
(* unless an expired transfer is still ahead of it.                        *)
(***************************************************************************)
Whole(r, s) == \A p \in Legs(r) : tb[r][p] = s

Doomed(r, todo) == \E p \in todo : tb[r][p] = "expired"

Live(r) == Whole(r, "pending") \/ Doomed(r, Legs(r))

Halfway(r, h) ==
    \/ Doomed(r, resolver[h].todo)
    \/ \A p \in Legs(r) :
         tb[r][p] = IF p \in resolver[h].todo THEN "pending" ELSE resolver[h].verdict

OnePool == \E q \in Pools : \A p \in Pools \ {q} : Paid[p] = 0

Applied(r) == call[r].pc \in {"applied", "done", "orphaned"}

AloneAtWork(r) ==
    \A h \in Resolvers : resolver[h].refund = r =>
        /\ Committed(r) /\ RowsAre(r, "pending") /\ resolver[h].todo \subseteq Legs(r)
        /\ \A g \in Resolvers : resolver[g].refund = r => g = h

MoneyPlaced(r) ==
    \A p \in Pools :
        /\ Applied(r) => call[r].take[p] <= Paid[p]
        /\ tb[r][p] = "posted" => p \in Legs(r) /\ Applied(r)

Placed(r) == AloneAtWork(r) /\ MoneyPlaced(r)

AppliedFate(r) ==
    /\ call[r].pc = "applied" => IF call[r].pending THEN Live(r) ELSE Whole(r, "posted")
    /\ call[r].pc # "orphaned"

WaitingFate(r) ==
    Committed(r) /\ RowsAre(r, "pending") /\ ~Resolving(r) => Live(r)

ResolvingFate(r) == \A h \in Resolvers : resolver[h].refund = r => Halfway(r, h)

RowFate(r) ==
    \A p \in Pools :
        /\ status[r][p] = "settled" => tb[r][p] = "posted"
        /\ OnePool /\ status[r][p] = "voided" => tb[r][p] # "posted"

Fate(r) == AppliedFate(r) /\ WaitingFate(r) /\ ResolvingFate(r) /\ RowFate(r)

IdleIsIdle == \A h \in Resolvers : resolver[h].refund = NoRefund => resolver[h].todo = {}

Ground == RowInvariant /\ IdleIsIdle /\ \A r \in Refunds : Placed(r)

\* All refunds but those the lost transactions have spoilt.
FateInvariant ==
    /\ Ground
    /\ \E spoilt \in SUBSET Refunds :
         /\ Cardinality(spoilt) <= faults
         /\ \A r \in Refunds \ spoilt : Fate(r)

\* What a step that loses nothing owes to a refund.
Keeps(r) == Placed(r)' /\ (Fate(r) => Fate(r)')

(***************************************************************************)
(* A refund the step leaves alone.                                         *)
(***************************************************************************)
SameResolvers(r) ==
    \A h \in Resolvers :
        resolver[h].refund = r \/ resolver'[h].refund = r => resolver'[h] = resolver[h]

LEMMA FateSame ==
    ASSUME NEW r \in Refunds, Placed(r), call'[r] = call[r], status'[r] = status[r],
           tb'[r] = tb[r], SameResolvers(r)
    PROVE  Keeps(r)
  <1>1. (Legs(r)' = Legs(r)) /\ (Committed(r)' <=> Committed(r)) /\ (Applied(r)' <=> Applied(r))
    BY DEF Legs, Committed, Applied
  <1>2. (Live(r)' <=> Live(r)) /\ (\A s : Whole(r, s)' <=> Whole(r, s))
        /\ (\A s : RowsAre(r, s)' <=> RowsAre(r, s))
    BY <1>1 DEF Live, Whole, Doomed, RowsAre
  <1>3. \A h \in Resolvers : resolver'[h].refund = r =>
          resolver[h].refund = r /\ resolver'[h] = resolver[h]
    BY DEF SameResolvers
  <1>4. Resolving(r)' <=> Resolving(r)
    BY DEF Resolving, SameResolvers
  <1>5. AloneAtWork(r)'
    BY <1>1, <1>2, <1>3 DEF Placed, AloneAtWork
  <1>6. MoneyPlaced(r)'
    BY <1>1 DEF Placed, MoneyPlaced
  <1>7. ASSUME Fate(r) PROVE AppliedFate(r)' /\ WaitingFate(r)' /\ RowFate(r)'
    BY <1>1, <1>2, <1>4, <1>7 DEF Fate, AppliedFate, WaitingFate, RowFate
  <1>8. ASSUME Fate(r) PROVE ResolvingFate(r)'
    BY <1>1, <1>2, <1>3, <1>8 DEF Fate, ResolvingFate, Halfway, Doomed
  <1> QED
    BY <1>5, <1>6, <1>7, <1>8 DEF Keeps, Placed, Fate

(***************************************************************************)
(* A call that has no transfers and no rows, before the step or after it.  *)
(***************************************************************************)
LEMMA FateFresh ==
    ASSUME RowInvariant, NEW r \in Refunds, Placed(r), ~Applied(r), ~Applied(r)',
           UNCHANGED <<status, tb, resolver>>
    PROVE  Keeps(r)
  <1>1. \A p \in Pools : status[r][p] = "none"
    BY DEF RowInvariant, BudgetInvariant, RowsAreCommitted, Committed, Applied
  <1>2. \A h \in Resolvers : resolver[h].refund # r
    BY DEF Placed, AloneAtWork, Committed, Applied
  <1>3. \A p \in Pools : tb[r][p] # "posted"
    BY DEF Placed, MoneyPlaced
  <1>4. Placed(r)'
    BY <1>2, <1>3 DEF Placed, AloneAtWork, MoneyPlaced
  <1>5. AppliedFate(r)' /\ WaitingFate(r)' /\ ResolvingFate(r)' /\ RowFate(r)'
    BY <1>1, <1>2
    DEF AppliedFate, WaitingFate, ResolvingFate, RowFate, Committed, Applied
  <1> QED
    BY <1>4, <1>5 DEF Keeps, Fate

\* A step that moves a handler from one place to another.
LEMMA PlaceOf ==
    ASSUME TypeOK, NEW r \in Refunds, NEW from, NEW to, Step(r, from, to)
    PROVE  /\ call[r].pc = from /\ call'[r].pc = to
           /\ call'[r].take = call[r].take /\ call'[r].pending = call[r].pending
           /\ \A q \in Refunds \ {r} : call'[q] = call[q]
  BY DEF Step, TypeOK, Call

LEMMA BeforeFate ==
    ASSUME Ground, NEW r \in Refunds, Before(r), ~ApplyTransfers(r), ~LoseCall(r)
    PROVE  \A q \in Refunds : Keeps(q)
  <1>1. TypeOK /\ call \in [Refunds -> Call]
    BY DEF Ground, RowInvariant, BudgetInvariant, TypeOK
  <1>2. UNCHANGED <<status, tb, resolver>>
    BY DEF Before, Begin, LockOriginal, ReadSelf, ReadOthers, InsertRows, TransfersFail
  <1>3. \A q \in Refunds \ {r} : call'[q] = call[q]
    BY HandleQuietly DEF Ground, Before
  <1>4. ASSUME NEW q \in Refunds, q # r PROVE Keeps(q)
    BY <1>2, <1>3, <1>4, FateSame DEF Ground, SameResolvers
  <1>5. ~Applied(r) /\ ~Applied(r)'
    <2>1. ASSUME NEW from, NEW to, Step(r, from, to),
                 from \notin {"applied", "done", "orphaned"},
                 to \notin {"applied", "done", "orphaned"}
          PROVE  ~Applied(r) /\ ~Applied(r)'
      BY <1>1, <2>1, PlaceOf DEF Applied
    <2>2. CASE Begin(r)
      BY <1>1, <2>2 DEF Begin, IdleCall, Applied
    <2>3. CASE LockOriginal(r)
      BY <2>1, <2>3 DEF LockOriginal
    <2>4. CASE InsertRows(r)
      BY <2>1, <2>4 DEF InsertRows
    <2>5. CASE TransfersFail(r)
      BY <2>1, <2>5 DEF TransfersFail
    <2>6. CASE ReadSelf(r)
      BY <1>1, <2>6 DEF ReadSelf, Call, Applied
    <2>7. CASE ReadOthers(r)
      <3>1. PICK left, take \in Division, to \in {"checked", "refused"} :
              Decides(r, to, left, take)
        BY <1>1, <2>7, Decision
      <3>2. call'[r].pc = to
        BY <1>1, <3>1 DEF Decides, Call
      <3>3. call[r].pc = "self_read"
        BY <2>7 DEF ReadOthers
      <3> QED
        BY <3>2, <3>3 DEF Applied
    <2> QED
      BY <2>2, <2>3, <2>4, <2>5, <2>6, <2>7 DEF Before
  <1>6. Keeps(r)
    BY <1>2, <1>5, FateFresh DEF Ground
  <1> QED
    BY <1>4, <1>6

(***************************************************************************)
(* The transfers are created as the rows will tell.                        *)
(***************************************************************************)
LEMMA ApplyFate ==
    ASSUME Ground, NEW r \in Refunds, ApplyTransfers(r)
    PROVE  \A q \in Refunds : Keeps(q)
  <1>1. TypeOK
    BY DEF Ground, RowInvariant, BudgetInvariant
  <1>2. /\ call[r].pc = "inserted" /\ call'[r].pc = "applied"
        /\ call'[r].take = call[r].take /\ call'[r].pending = call[r].pending
        /\ \A q \in Refunds \ {r} : call'[q] = call[q]
        /\ UNCHANGED <<status, resolver>>
    BY <1>1, PlaceOf DEF ApplyTransfers
  <1>3. /\ \A q \in Refunds \ {r} : tb'[q] = tb[q]
        /\ \A p \in Pools :
             tb'[r][p] = IF p \notin Legs(r) THEN "absent"
                         ELSE IF call[r].pending THEN "pending" ELSE "posted"
    BY <1>1 DEF ApplyTransfers, TypeOK
  <1>4. ASSUME NEW q \in Refunds, q # r PROVE Keeps(q)
    BY <1>2, <1>3, <1>4, FateSame DEF Ground, SameResolvers
  <1>5. Legs(r)' = Legs(r) /\ Legs(r) \subseteq Pools
    BY <1>2 DEF Legs
  <1>6. /\ \A p \in Pools : status[r][p] = "none"
        /\ \A h \in Resolvers : resolver[h].refund # r
    BY <1>2 DEF Ground, Placed, AloneAtWork, RowInvariant, BudgetInvariant,
                RowsAreCommitted, Committed
  <1>7. AppliedFate(r)'
    BY <1>2, <1>3, <1>5 DEF AppliedFate, Live, Whole
  <1>8. WaitingFate(r)' /\ ResolvingFate(r)' /\ RowFate(r)' /\ AloneAtWork(r)'
    BY <1>2, <1>6 DEF WaitingFate, ResolvingFate, RowFate, AloneAtWork, Committed
  <1>9. \A p \in Pools : call[r].take[p] <= Paid[p]
    <2> SUFFICES ASSUME NEW p \in Pools PROVE call[r].take[p] <= Paid[p]
      OBVIOUS
    <2>1. SumRefunds(p) + call[r].take[p] <= Paid[p]
      BY <1>2 DEF Ground, RowInvariant, BudgetInvariant, TakeFits
    <2>2. SumRefunds(p) \in Nat /\ call[r].take[p] \in Nat /\ Paid[p] \in Nat
      BY <1>1, SumRefundsType, CallType, RefundAssumption
    <2> QED
      BY <2>1, <2>2
  <1>10. MoneyPlaced(r)'
    BY <1>2, <1>3, <1>5, <1>9 DEF MoneyPlaced, Applied
  <1> QED
    BY <1>4, <1>7, <1>8, <1>10 DEF Keeps, Placed, Fate

LEMMA CommitFate ==
    ASSUME Ground, NEW r \in Refunds, Commit(r)
    PROVE  \A q \in Refunds : Keeps(q)
  <1>1. TypeOK
    BY DEF Ground, RowInvariant, BudgetInvariant
  <1>2. /\ call[r].pc = "applied" /\ call'[r].pc = "done"
        /\ call'[r].take = call[r].take /\ call'[r].pending = call[r].pending
        /\ \A q \in Refunds \ {r} : call'[q] = call[q]
        /\ UNCHANGED <<tb, resolver>>
    BY <1>1, PlaceOf DEF Commit
  <1>3. /\ \A q \in Refunds \ {r} : status'[q] = status[q]
        /\ \A p \in Pools :
             status'[r][p] = IF p \notin Legs(r) THEN "none"
                             ELSE IF call[r].pending THEN "pending" ELSE "settled"
    BY <1>1 DEF Commit, TypeOK
  <1>4. ASSUME NEW q \in Refunds, q # r PROVE Keeps(q)
    BY <1>2, <1>3, <1>4, FateSame DEF Ground, SameResolvers
  <1>5. /\ Legs(r)' = Legs(r) /\ Legs(r) \subseteq Pools
        /\ Live(r)' <=> Live(r)
    BY <1>2 DEF Legs, Live, Whole, Doomed
  <1>6. \A h \in Resolvers : resolver[h].refund # r
    BY <1>2 DEF Ground, Placed, AloneAtWork, Committed
  <1>7. Placed(r)'
    BY <1>2, <1>5, <1>6 DEF Ground, Placed, AloneAtWork, MoneyPlaced, Applied
  <1>8. SUFFICES ASSUME Fate(r) PROVE Fate(r)'
    BY <1>4, <1>7 DEF Keeps
  <1>9. IF call[r].pending THEN Live(r) ELSE Whole(r, "posted")
    BY <1>2, <1>8 DEF Fate, AppliedFate
  <1>10. PICK p \in Pools : p \in Legs(r)
    BY <1>2 DEF Ground, RowInvariant, TakersHaveLegs, Legs
  <1>11. WaitingFate(r)'
    <2> SUFFICES ASSUME RowsAre(r, "pending")' PROVE Live(r)
      BY <1>5 DEF WaitingFate
    <2>1. status'[r][p] = "pending"
      BY <1>5, <1>10 DEF RowsAre
    <2> QED
      BY <1>3, <1>9, <1>10, <2>1
  <1>12. RowFate(r)'
    <2>1. \A x \in Pools : /\ status'[r][x] = "settled" => tb[r][x] = "posted"
                           /\ status'[r][x] # "voided"
      BY <1>3, <1>5, <1>9 DEF Whole
    <2> QED
      BY <1>2, <2>1 DEF RowFate
  <1>13. AppliedFate(r)' /\ ResolvingFate(r)'
    BY <1>2, <1>6 DEF AppliedFate, ResolvingFate
  <1> QED
    BY <1>11, <1>12, <1>13 DEF Fate

(***************************************************************************)
(* A verdict: the locks, each transfer, the UPDATE.                        *)
(***************************************************************************)
LEMMA LockFate ==
    ASSUME Ground, NEW h \in Resolvers, LockRefund(h)
    PROVE  \A q \in Refunds : Keeps(q)
  <1>1. TypeOK /\ resolver \in [Resolvers -> Resolver]
    BY DEF Ground, RowInvariant, BudgetInvariant, TypeOK
  <1>2. PICK r \in Refunds, verdict \in Verdicts :
          /\ Committed(r) /\ ~Resolving(r)
          /\ \A p \in Legs(r) : status[r][p] = "pending"
          /\ resolver' = [resolver EXCEPT ![h] =
                            [refund |-> r, verdict |-> verdict, todo |-> Legs(r)]]
          /\ resolver[h].refund = NoRefund
          /\ UNCHANGED <<call, status, tb>>
    BY DEF LockRefund
  <1>3. /\ resolver'[h].refund = r /\ resolver'[h].verdict = verdict
        /\ resolver'[h].todo = Legs(r)
        /\ \A g \in Resolvers \ {h} : resolver'[g] = resolver[g]
    BY <1>1, <1>2
  <1>4. ASSUME NEW q \in Refunds, q # r PROVE Keeps(q)
    <2>1. q # NoRefund
      BY RefundAssumption
    <2>2. SameResolvers(q)
      BY <1>2, <1>3, <1>4, <2>1 DEF SameResolvers
    <2> QED
      BY <1>2, <2>2, FateSame DEF Ground
  <1>5. RowsAre(r, "pending")
    <2>1. PICK s \in {"pending", "settled", "voided"} : RowsAre(r, s)
      BY <1>2 DEF Ground, RowInvariant, WholeRows
    <2>2. PICK p \in Pools : p \in Legs(r)
      BY <1>2 DEF Ground, RowInvariant, TakersHaveLegs, Committed, Legs
    <2> QED
      BY <1>2, <2>1, <2>2 DEF RowsAre
  <1>6. (Legs(r)' = Legs(r)) /\ (Committed(r)' <=> Committed(r)) /\ RowsAre(r, "pending")'
        /\ (Applied(r)' <=> Applied(r))
    BY <1>2, <1>5 DEF Legs, Committed, RowsAre, Applied
  <1>7. \A g \in Resolvers : resolver'[g].refund = r => g = h
    BY <1>2, <1>3 DEF Resolving
  <1>8. Placed(r)'
    BY <1>2, <1>3, <1>6, <1>7 DEF Ground, Placed, AloneAtWork, MoneyPlaced
  <1>9. SUFFICES ASSUME Fate(r) PROVE Fate(r)'
    BY <1>4, <1>8 DEF Keeps
  <1>10. Live(r)
    BY <1>2, <1>5, <1>9 DEF Fate, WaitingFate
  <1>11. Halfway(r, h)'
    BY <1>2, <1>3, <1>6, <1>10 DEF Halfway, Live, Whole, Doomed
  <1>12. ResolvingFate(r)'
    BY <1>7, <1>11 DEF ResolvingFate
  <1>13. Resolving(r)'
    BY <1>3 DEF Resolving
  <1>14. AppliedFate(r)' /\ WaitingFate(r)' /\ RowFate(r)'
    BY <1>2, <1>9, <1>13 DEF Fate, AppliedFate, WaitingFate, RowFate, Committed
  <1> QED
    BY <1>12, <1>14 DEF Fate

LEMMA ResolveFate ==
    ASSUME Ground, NEW h \in Resolvers, ResolveLeg(h)
    PROVE  \A q \in Refunds : Keeps(q)
  <1>0. PICK r, todo, verdict :
          r = resolver[h].refund /\ todo = resolver[h].todo /\ verdict = resolver[h].verdict
    OBVIOUS
  <1>1. TypeOK /\ resolver \in [Resolvers -> Resolver] /\ resolver[h] \in Resolver
        /\ tb \in [Refunds -> [Pools -> TransferStates]]
    BY DEF Ground, RowInvariant, BudgetInvariant, TypeOK
  <1>2. PICK p \in todo :
          /\ tb' = [tb EXCEPT ![r][p] = Resolved(@, verdict)]
          /\ resolver' = [resolver EXCEPT ![h] =
                            IF Answer(tb[r][p]) = "error" THEN IdleResolver
                            ELSE [resolver[h] EXCEPT !.todo = todo \ {p}]]
          /\ UNCHANGED <<call, status>>
    BY <1>0 DEF ResolveLeg
  <1>3. r \in Refunds /\ p \in Pools /\ todo \subseteq Pools
    <2>1. r # NoRefund
      BY <1>0, <1>2 DEF Ground, IdleIsIdle
    <2> QED
      BY <1>0, <1>1, <1>2, <2>1 DEF Resolver
  <1>4. /\ Committed(r) /\ RowsAre(r, "pending") /\ todo \subseteq Legs(r)
        /\ \A g \in Resolvers : resolver[g].refund = r => g = h
    BY <1>0, <1>3 DEF Ground, Placed, AloneAtWork
  <1>5. /\ \A q \in Refunds \ {r} : tb'[q] = tb[q]
        /\ \A x \in Pools : tb'[r][x] = IF x = p THEN Resolved(tb[r][p], verdict)
                                         ELSE tb[r][x]
    BY <1>0, <1>1, <1>2, <1>3
  <1>6. /\ \A g \in Resolvers \ {h} : resolver'[g] = resolver[g]
        /\ Answer(tb[r][p]) = "error" => resolver'[h] = IdleResolver
        /\ Answer(tb[r][p]) # "error" =>
             /\ resolver'[h].refund = r /\ resolver'[h].verdict = verdict
             /\ resolver'[h].todo = todo \ {p}
    BY <1>0, <1>1, <1>2 DEF Resolver
  <1>7. (Legs(r)' = Legs(r)) /\ Legs(r) \subseteq Pools /\ Committed(r)' /\ Applied(r)'
        /\ RowsAre(r, "pending")'
    BY <1>0, <1>2, <1>4 DEF Legs, Committed, RowsAre, Applied
  <1>8. \A g \in Resolvers : resolver'[g].refund = r => g = h /\ Answer(tb[r][p]) # "error"
    BY <1>0, <1>3, <1>4, <1>6, RefundAssumption DEF IdleResolver
  <1>9. ASSUME NEW q \in Refunds, q # r PROVE Keeps(q)
    <2>1. q # NoRefund
      BY RefundAssumption
    <2>2. SameResolvers(q)
      BY <1>0, <1>6, <1>9, <2>1 DEF SameResolvers, IdleResolver
    <2> QED
      BY <1>0, <1>2, <1>5, <1>9, <2>2, FateSame DEF Ground
  <1>10. Placed(r)'
    <2>1. \A x \in Pools : tb'[r][x] = "posted" => x \in Legs(r)
      BY <1>0, <1>2, <1>3, <1>4, <1>5 DEF Ground, Placed, MoneyPlaced
    <2>2. \A x \in Pools : call'[r].take[x] <= Paid[x]
      BY <1>0, <1>2, <1>3, <1>4 DEF Ground, Placed, MoneyPlaced, Committed, Applied
    <2>3. AloneAtWork(r)'
      BY <1>4, <1>6, <1>7, <1>8 DEF AloneAtWork
    <2> QED
      BY <1>7, <2>1, <2>2, <2>3 DEF Placed, MoneyPlaced
  <1>11. SUFFICES ASSUME Fate(r) PROVE Fate(r)'
    BY <1>9, <1>10 DEF Keeps
  <1>12. Halfway(r, h)
    BY <1>0, <1>11 DEF Fate, ResolvingFate
  <1>13. RowFate(r)' /\ AppliedFate(r)'
    <2>1. \A x \in Pools : status'[r][x] \in {"none", "pending"}
      BY <1>0, <1>2, <1>4 DEF RowsAre
    <2> QED
      BY <1>7, <2>1 DEF RowFate, AppliedFate, Committed
  <1>14. CASE Answer(tb[r][p]) = "error"
    <2>1. tb[r][p] # "pending" /\ Resolved(tb[r][p], verdict) = tb[r][p]
      BY <1>0, <1>14 DEF Answer, Resolved
    <2>2. Doomed(r, Legs(r))
      BY <1>0, <1>2, <1>4, <1>12, <2>1 DEF Halfway, Doomed
    <2>3. Live(r)'
      BY <1>0, <1>5, <1>7, <2>1, <2>2 DEF Live, Doomed
    <2> QED
      BY <1>8, <1>13, <1>14, <2>3 DEF Fate, WaitingFate, ResolvingFate
  <1>15. CASE Answer(tb[r][p]) # "error"
    <2>1. tb[r][p] \in {"pending", "posted", "voided"}
      BY <1>0, <1>15 DEF Answer, Verdicts
    <2>2. Resolving(r)'
      BY <1>0, <1>6, <1>15 DEF Resolving
    <2>3. ASSUME Doomed(r, todo) PROVE Halfway(r, h)'
      <3>1. PICK x \in todo : tb[r][x] = "expired"
        BY <1>0, <2>3 DEF Doomed
      <3>2. x \in todo \ {p} /\ tb'[r][x] = "expired"
        BY <1>0, <1>3, <1>5, <2>1, <3>1
      <3>3. x \in resolver'[h].todo
        BY <1>6, <1>15, <3>2
      <3>4. Doomed(r, resolver[h].todo)'
        BY <3>2, <3>3 DEF Doomed
      <3> QED
        BY <3>4 DEF Halfway
    <2>4. ASSUME \A x \in Legs(r) : tb[r][x] = IF x \in todo THEN "pending" ELSE verdict
          PROVE  Halfway(r, h)'
      <3>1. \A x \in Legs(r) : tb'[r][x] = IF x \in todo \ {p} THEN "pending" ELSE verdict
        BY <1>0, <1>2, <1>4, <1>5, <1>7, <2>4 DEF Resolved
      <3>2. resolver'[h].todo = todo \ {p} /\ resolver'[h].verdict = verdict
        BY <1>6, <1>15
      <3> QED
        BY <1>7, <3>1, <3>2 DEF Halfway
    <2>5. Halfway(r, h)'
      BY <1>0, <1>12, <2>3, <2>4 DEF Halfway
    <2>6. ResolvingFate(r)' /\ WaitingFate(r)'
      BY <1>8, <2>2, <2>5 DEF ResolvingFate, WaitingFate
    <2> QED
      BY <1>13, <2>6 DEF Fate
  <1> QED
    BY <1>14, <1>15

LEMMA VerdictFate ==
    ASSUME Ground, NEW h \in Resolvers, CommitVerdict(h)
    PROVE  \A q \in Refunds : Keeps(q)
  <1>0. PICK r, verdict, new :
          r = resolver[h].refund /\ verdict = resolver[h].verdict /\ new = Target(verdict)
    OBVIOUS
  <1>1. TypeOK /\ resolver \in [Resolvers -> Resolver] /\ resolver[h] \in Resolver
        /\ status \in [Refunds -> [Pools -> Statuses]]
    BY DEF Ground, RowInvariant, BudgetInvariant, TypeOK
  <1>2. /\ r \in Refunds /\ resolver[h].todo = {} /\ UpdatePending(r, new)
        /\ resolver' = [resolver EXCEPT ![h] = IdleResolver]
        /\ UNCHANGED <<call, tb>>
    BY <1>0, <1>1 DEF CommitVerdict, Resolver
  <1>3. /\ Committed(r) /\ RowsAre(r, "pending")
        /\ \A g \in Resolvers : resolver[g].refund = r => g = h
    BY <1>0, <1>2 DEF Ground, Placed, AloneAtWork
  <1>4. /\ \A g \in Resolvers \ {h} : resolver'[g] = resolver[g]
        /\ resolver'[h] = IdleResolver
    BY <1>0, <1>1, <1>2
  <1>5. /\ \A q \in Refunds \ {r} : status'[q] = status[q]
        /\ \A p \in Pools : status'[r][p] = IF p \in Legs(r) THEN new ELSE "none"
    <2>1. /\ \A q \in Refunds \ {r} : status'[q] = status[q]
          /\ \A p \in Pools : status'[r][p] = IF status[r][p] = "pending" THEN new
                                               ELSE status[r][p]
      BY <1>0, <1>1, <1>2 DEF UpdatePending
    <2> QED
      BY <1>0, <1>3, <2>1 DEF RowsAre
  <1>6. ASSUME NEW q \in Refunds, q # r PROVE Keeps(q)
    <2>1. q # NoRefund
      BY RefundAssumption
    <2>2. SameResolvers(q)
      BY <1>0, <1>4, <1>6, <2>1 DEF SameResolvers, IdleResolver
    <2> QED
      BY <1>0, <1>2, <1>5, <1>6, <2>2, FateSame DEF Ground
  <1>7. /\ new = "settled" => verdict = "posted"
        /\ new = "voided" => verdict # "posted"
        /\ new \in {"settled", "voided"}
    BY <1>0 DEF Target
  <1>8. /\ Legs(r)' = Legs(r) /\ Legs(r) \subseteq Pools
        /\ (Committed(r)' <=> Committed(r)) /\ (Applied(r)' <=> Applied(r))
    BY <1>0, <1>2 DEF Legs, Committed, Applied
  <1>9. \A g \in Resolvers : resolver'[g].refund # r
    BY <1>0, <1>2, <1>3, <1>4, RefundAssumption DEF IdleResolver
  <1>10. Placed(r)'
    BY <1>0, <1>2, <1>8, <1>9 DEF Ground, Placed, AloneAtWork, MoneyPlaced
  <1>11. SUFFICES ASSUME Fate(r) PROVE Fate(r)'
    BY <1>6, <1>10 DEF Keeps
  <1>12. \A p \in Legs(r) : tb[r][p] = verdict
    BY <1>0, <1>2, <1>11 DEF Fate, ResolvingFate, Halfway, Doomed
  <1>13. RowFate(r)'
    <2>1. \A p \in Pools : /\ status'[r][p] = "settled" => tb[r][p] = "posted"
                           /\ status'[r][p] = "voided" => tb[r][p] # "posted"
      BY <1>0, <1>5, <1>7, <1>12
    <2> QED
      BY <1>0, <1>2, <2>1 DEF RowFate
  <1>14. PICK p \in Pools : p \in Legs(r)
    BY <1>0, <1>2, <1>3 DEF Ground, RowInvariant, TakersHaveLegs, Committed, Legs
  <1>15. ~(RowsAre(r, "pending")')
    BY <1>0, <1>5, <1>7, <1>8, <1>14 DEF RowsAre
  <1>16. AppliedFate(r)' /\ WaitingFate(r)' /\ ResolvingFate(r)'
    BY <1>0, <1>2, <1>3, <1>9, <1>15 DEF AppliedFate, WaitingFate, ResolvingFate, Committed
  <1> QED
    BY <1>13, <1>16 DEF Fate

(***************************************************************************)
(* The poller: of a refund with one leg it can only void what is still     *)
(* pending or expired.                                                     *)
(***************************************************************************)
LEMMA LiveUnspent ==
    ASSUME Ground, OnePool, NEW r \in Refunds, Committed(r), Live(r), NEW p \in Legs(r)
    PROVE  tb[r][p] # "posted"
  <1>1. PICK q \in Pools : \A x \in Pools \ {q} : Paid[x] = 0
    BY DEF OnePool
  <1>2. \A x \in Legs(r) : /\ x \in Pools /\ call[r].take[x] \in Nat
                          /\ call[r].take[x] > 0 /\ call[r].take[x] <= Paid[x]
    BY CallType
    DEF Ground, RowInvariant, BudgetInvariant, Placed, MoneyPlaced, Legs, Committed, Applied
  <1>3. \A x \in Legs(r) : x = q
    BY <1>1, <1>2
  <1> QED
    BY <1>3 DEF Live, Whole, Doomed

LEMMA PollerFate ==
    ASSUME Ground, NEW r \in Refunds, PollerVoids(r)
    PROVE  \A q \in Refunds : Keeps(q)
  <1>1. ~Resolving(r) /\ UpdatePending(r, "voided") /\ UNCHANGED <<call, tb, resolver>>
    BY DEF PollerVoids
  <1>2. /\ \A q \in Refunds \ {r} : status'[q] = status[q]
        /\ \/ status'[r] = status[r]
           \/ /\ Committed(r) /\ RowsAre(r, "pending")
              /\ status'[r] = [p \in Pools |-> IF p \in Legs(r) THEN "voided" ELSE "none"]
    BY <1>1, RowUpdate DEF Ground
  <1>3. ASSUME NEW q \in Refunds, status'[q] = status[q] PROVE Keeps(q)
    BY <1>1, <1>3, FateSame DEF Ground, SameResolvers
  <1>4. CASE /\ Committed(r) /\ RowsAre(r, "pending")
             /\ status'[r] = [p \in Pools |-> IF p \in Legs(r) THEN "voided" ELSE "none"]
    <2>1. Placed(r)'
      BY <1>1, <1>4 DEF Ground, Placed, AloneAtWork, MoneyPlaced, Resolving, Legs, Applied
    <2>2. SUFFICES ASSUME Fate(r) PROVE Fate(r)'
      BY <1>2, <1>3, <2>1 DEF Keeps
    <2>3. Live(r)
      BY <1>1, <1>4, <2>2 DEF Fate, WaitingFate
    <2>4. (Legs(r)' = Legs(r)) /\ (Committed(r)' <=> Committed(r))
      BY <1>1 DEF Legs, Committed
    <2>5. PICK p \in Pools : p \in Legs(r)
      BY <1>4 DEF Ground, RowInvariant, TakersHaveLegs, Committed, Legs
    <2>6. ~(RowsAre(r, "pending")')
      BY <1>4, <2>4, <2>5 DEF RowsAre
    <2>7. \A x \in Pools : /\ status'[r][x] # "settled"
                           /\ OnePool /\ status'[r][x] = "voided" => tb[r][x] # "posted"
      BY <1>4, <2>3, LiveUnspent
    <2>8. RowFate(r)'
      BY <1>1, <2>7 DEF RowFate
    <2>9. AppliedFate(r)' /\ WaitingFate(r)' /\ ResolvingFate(r)'
      BY <1>1, <1>4, <2>6
      DEF AppliedFate, WaitingFate, ResolvingFate, Committed, Resolving
    <2> QED
      BY <2>8, <2>9 DEF Fate
  <1> QED
    BY <1>2, <1>3, <1>4

(***************************************************************************)
(* A transfer that expires dooms every verdict still to reach it.          *)
(***************************************************************************)
LEMMA ExpireFate ==
    ASSUME Ground, NEW r \in Refunds, NEW p \in Pools, Expire(r, p)
    PROVE  \A q \in Refunds : Keeps(q)
  <1>1. tb \in [Refunds -> [Pools -> TransferStates]]
    BY DEF Ground, RowInvariant, BudgetInvariant, TypeOK
  <1>2. /\ tb[r][p] = "pending" /\ UNCHANGED <<call, status, resolver>>
        /\ \A q \in Refunds \ {r} : tb'[q] = tb[q]
        /\ \A x \in Pools : tb'[r][x] = IF x = p THEN "expired" ELSE tb[r][x]
    BY <1>1 DEF Expire
  <1>3. ASSUME NEW q \in Refunds, q # r PROVE Keeps(q)
    BY <1>2, <1>3, FateSame DEF Ground, SameResolvers
  <1>4. /\ Legs(r)' = Legs(r) /\ Legs(r) \subseteq Pools
        /\ Committed(r)' <=> Committed(r)
        /\ Applied(r)' <=> Applied(r)
        /\ \A s : RowsAre(r, s)' <=> RowsAre(r, s)
        /\ Resolving(r)' <=> Resolving(r)
    BY <1>2 DEF Legs, Committed, RowsAre, Resolving, Applied
  <1>5. Placed(r)'
    BY <1>2, <1>4 DEF Ground, Placed, AloneAtWork, MoneyPlaced
  <1>6. SUFFICES ASSUME Fate(r) PROVE Fate(r)'
    BY <1>3, <1>5 DEF Keeps
  <1>7. Live(r) => Live(r)'
    BY <1>2, <1>4 DEF Live, Whole, Doomed
  <1>8. Whole(r, "posted") => Whole(r, "posted")'
    BY <1>2, <1>4 DEF Whole
  <1>9. AppliedFate(r)' /\ WaitingFate(r)'
    BY <1>2, <1>4, <1>6, <1>7, <1>8 DEF Fate, AppliedFate, WaitingFate
  <1>10. ASSUME NEW h \in Resolvers, resolver[h].refund = r PROVE Halfway(r, h)'
    <2>1. Halfway(r, h) /\ resolver[h].todo \subseteq Legs(r)
      BY <1>6, <1>10 DEF Ground, Placed, AloneAtWork, Fate, ResolvingFate
    <2>2. CASE Doomed(r, resolver[h].todo)
      BY <1>2, <1>4, <2>1, <2>2 DEF Halfway, Doomed
    <2>3. CASE \A x \in Legs(r) :
                 tb[r][x] = IF x \in resolver[h].todo THEN "pending" ELSE resolver[h].verdict
      <3>1. resolver[h].verdict # "pending"
        BY DEF Ground, RowInvariant, BudgetInvariant, TypeOK, Resolver, Verdicts
      <3>2. p \in Legs(r) => p \in resolver[h].todo
        BY <1>2, <2>3, <3>1
      <3> QED
        BY <1>2, <1>4, <2>1, <2>3, <3>2 DEF Halfway, Doomed
    <2> QED
      BY <2>1, <2>2, <2>3 DEF Halfway
  <1>11. ResolvingFate(r)'
    BY <1>2, <1>4, <1>10 DEF ResolvingFate
  <1>12. RowFate(r)'
    BY <1>2, <1>4, <1>6 DEF Fate, RowFate
  <1> QED
    BY <1>9, <1>11, <1>12 DEF Fate

(***************************************************************************)
(* A lost transaction spoils the one refund it was working on, and leaves  *)
(* what every refund keeps.                                                *)
(***************************************************************************)
LEMMA LoseCallFate ==
    ASSUME Ground, NEW r \in Refunds, LoseCall(r)
    PROVE  Placed(r)' /\ \A q \in Refunds \ {r} : Keeps(q)
  <1>1. TypeOK
    BY DEF Ground, RowInvariant, BudgetInvariant
  <1>2. /\ call[r].pc \notin {"done", "orphaned"}
        /\ call'[r].pc = IF call[r].pc = "applied" THEN "orphaned" ELSE "lost"
        /\ call'[r].take = call[r].take
        /\ \A q \in Refunds \ {r} : call'[q] = call[q]
        /\ UNCHANGED <<status, tb, resolver>>
    BY <1>1 DEF LoseCall, Locking, TypeOK, Call
  <1>3. Applied(r)' <=> Applied(r)
    BY <1>2 DEF Applied
  <1>4. \A h \in Resolvers : resolver[h].refund # r
    BY <1>2 DEF Ground, Placed, AloneAtWork, Committed
  <1>5. Placed(r)'
    BY <1>2, <1>3, <1>4 DEF Ground, Placed, AloneAtWork, MoneyPlaced, Legs
  <1>6. ASSUME NEW q \in Refunds, q # r PROVE Keeps(q)
    BY <1>2, <1>6, FateSame DEF Ground, SameResolvers
  <1> QED
    BY <1>5, <1>6

LEMMA LoseResolverFate ==
    ASSUME Ground, NEW h \in Resolvers, LoseResolver(h)
    PROVE  \E r \in Refunds : Placed(r)' /\ \A q \in Refunds \ {r} : Keeps(q)
  <1>0. PICK r : r = resolver[h].refund
    OBVIOUS
  <1>1. resolver \in [Resolvers -> Resolver] /\ resolver[h] \in Resolver
    BY DEF Ground, RowInvariant, BudgetInvariant, TypeOK
  <1>2. /\ r \in Refunds /\ UNCHANGED <<call, status, tb>>
        /\ resolver'[h] = IdleResolver
        /\ \A g \in Resolvers \ {h} : resolver'[g] = resolver[g]
    BY <1>0, <1>1 DEF LoseResolver, Resolver
  <1>3. \A g \in Resolvers : resolver[g].refund = r => g = h
    BY <1>0, <1>2 DEF Ground, Placed, AloneAtWork
  <1>4. \A g \in Resolvers : resolver'[g].refund # r
    BY <1>0, <1>2, <1>3, RefundAssumption DEF IdleResolver
  <1>5. Placed(r)'
    BY <1>0, <1>2, <1>4 DEF Ground, Placed, AloneAtWork, MoneyPlaced, Applied, Legs
  <1>6. ASSUME NEW q \in Refunds, q # r PROVE Keeps(q)
    <2>1. q # NoRefund
      BY RefundAssumption
    <2>2. SameResolvers(q)
      BY <1>0, <1>2, <1>6, <2>1 DEF SameResolvers, IdleResolver
    <2> QED
      BY <1>2, <1>6, <2>2, FateSame DEF Ground
  <1> QED
    BY <1>2, <1>5, <1>6

(***************************************************************************)
(* Every step keeps all refunds, or loses a transaction and spoils one.    *)
(***************************************************************************)
LEMMA EveryStepKeeps ==
    ASSUME Ground, [Next]_vars
    PROVE  \/ faults' = faults /\ \A q \in Refunds : Keeps(q)
           \/ /\ faults' = faults + 1
              /\ \E r \in Refunds : Placed(r)' /\ \A q \in Refunds \ {r} : Keeps(q)
  <1>1. ASSUME NEW r \in Refunds, Handle(r)
        PROVE  faults' = faults /\ \A q \in Refunds : Keeps(q)
    <2>1. faults' = faults
      BY <1>1 DEF Handle, Begin, LockOriginal, ReadSelf, ReadOthers, InsertRows,
                  ApplyTransfers, TransfersFail, Commit
    <2>2. CASE ApplyTransfers(r)
      BY <2>1, <2>2, ApplyFate
    <2>3. CASE Commit(r)
      BY <2>1, <2>3, CommitFate
    <2>4. ASSUME Handle(r), ~ApplyTransfers(r), ~Commit(r) PROVE Before(r) /\ ~LoseCall(r)
      <3>1. ~LoseCall(r)
        BY <2>1 DEF LoseCall, Ground, RowInvariant, BudgetInvariant, TypeOK
      <3> QED
        BY <2>4, <3>1 DEF Handle, Before
    <2> QED
      BY <1>1, <2>1, <2>2, <2>3, <2>4, BeforeFate
  <1>2. ASSUME NEW r \in Refunds, LoseCall(r)
        PROVE  /\ faults' = faults + 1
               /\ Placed(r)' /\ \A q \in Refunds \ {r} : Keeps(q)
    BY <1>2, LoseCallFate DEF LoseCall
  <1>3. ASSUME NEW h \in Resolvers, Resolve(h)
        PROVE  faults' = faults /\ \A q \in Refunds : Keeps(q)
    BY <1>3, LockFate, ResolveFate, VerdictFate
    DEF Resolve, LockRefund, ResolveLeg, CommitVerdict
  <1>4. ASSUME NEW h \in Resolvers, LoseResolver(h)
        PROVE  /\ faults' = faults + 1
               /\ \E r \in Refunds : Placed(r)' /\ \A q \in Refunds \ {r} : Keeps(q)
    BY <1>4, LoseResolverFate DEF LoseResolver
  <1>5. ASSUME UNCHANGED <<call, status, tb, resolver>> PROVE \A q \in Refunds : Keeps(q)
    BY <1>5, FateSame DEF Ground, SameResolvers
  <1>6. ASSUME NEW r \in Refunds, PollerFails(r)
        PROVE  /\ faults' = faults + 1
               /\ Placed(r)' /\ \A q \in Refunds \ {r} : Keeps(q)
    BY <1>5, <1>6 DEF PollerFails, Keeps
  <1>7. ASSUME NEW r \in Refunds, PollerVoids(r)
        PROVE  faults' = faults /\ \A q \in Refunds : Keeps(q)
    BY <1>7, PollerFate DEF PollerVoids
  <1>8. ASSUME NEW r \in Refunds, NEW p \in Pools, Expire(r, p)
        PROVE  faults' = faults /\ \A q \in Refunds : Keeps(q)
    BY <1>8, ExpireFate DEF Expire
  <1>9. CASE PollerFinds \/ SetStatus \/ UNCHANGED vars
    BY <1>5, <1>9 DEF PollerFinds, SetStatus, vars
  <1> QED
    BY <1>1, <1>2, <1>3, <1>4, <1>6, <1>7, <1>8, <1>9 DEF Next

LEMMA IdleStep == Ground /\ [Next]_vars => IdleIsIdle'
<1> SUFFICES ASSUME Ground, [Next]_vars PROVE IdleIsIdle'
  OBVIOUS
<1>1. resolver \in [Resolvers -> Resolver] /\ NoRefund \notin Refunds
  BY RefundAssumption DEF Ground, RowInvariant, BudgetInvariant, TypeOK
<1>2. ASSUME NEW h \in Resolvers, NEW new, resolver' = [resolver EXCEPT ![h] = new],
             new.refund = NoRefund => new.todo = {}
      PROVE  IdleIsIdle'
  BY <1>1, <1>2 DEF Ground, IdleIsIdle
<1>3. ASSUME NEW h \in Resolvers, LockRefund(h) PROVE IdleIsIdle'
  BY <1>1, <1>2, <1>3 DEF LockRefund
<1>4. ASSUME NEW h \in Resolvers, ResolveLeg(h) PROVE IdleIsIdle'
  <2>1. resolver[h] \in Resolver /\ resolver[h].refund # NoRefund
    BY <1>1, <1>4 DEF ResolveLeg, Ground, IdleIsIdle
  <2>2. PICK p \in resolver[h].todo :
          resolver' = [resolver EXCEPT ![h] =
                         IF Answer(tb[resolver[h].refund][p]) = "error" THEN IdleResolver
                         ELSE [resolver[h] EXCEPT !.todo = resolver[h].todo \ {p}]]
    BY <1>4 DEF ResolveLeg
  <2>3. [resolver[h] EXCEPT !.todo = resolver[h].todo \ {p}].refund = resolver[h].refund
    BY <2>1 DEF Resolver
  <2> QED
    BY <1>2, <2>1, <2>2, <2>3 DEF IdleResolver
<1>5. ASSUME NEW h \in Resolvers, CommitVerdict(h) \/ LoseResolver(h) PROVE IdleIsIdle'
  BY <1>2, <1>5 DEF CommitVerdict, LoseResolver, IdleResolver
<1>6. CASE UNCHANGED resolver
  BY <1>6 DEF Ground, IdleIsIdle
<1>7. ASSUME NEW r \in Refunds, Handle(r) \/ LoseCall(r) \/ PollerVoids(r) \/ PollerFails(r)
      PROVE  UNCHANGED resolver
  BY <1>7 DEF Handle, Begin, LockOriginal, ReadSelf, ReadOthers, InsertRows, ApplyTransfers,
              TransfersFail, Commit, LoseCall, PollerVoids, PollerFails
<1> QED
  BY <1>3, <1>4, <1>5, <1>6, <1>7 DEF Next, Resolve, Expire, PollerFinds, SetStatus, vars

LEMMA FateInit == Init => FateInvariant
<1> SUFFICES ASSUME Init PROVE FateInvariant
  OBVIOUS
<1>1. RowInvariant
  BY RowInit
<1>2. \A r \in Refunds : /\ call[r].pc = "idle"
                         /\ \A p \in Pools : status[r][p] = "none" /\ tb[r][p] = "absent"
  BY DEF Init, IdleCall
<1>3. \A h \in Resolvers : resolver[h].refund = NoRefund /\ resolver[h].todo = {}
  BY DEF Init, IdleResolver
<1>4. Ground
  BY <1>1, <1>2, <1>3, RefundAssumption
  DEF Ground, IdleIsIdle, Placed, AloneAtWork, MoneyPlaced, Applied
<1>5. \A r \in Refunds : Fate(r)
  BY <1>2, <1>3, RefundAssumption
  DEF Fate, AppliedFate, WaitingFate, ResolvingFate, RowFate, Committed
<1>6. Cardinality({}) <= faults
  BY FS_EmptySet DEF Init
<1> QED
  BY <1>4, <1>5, <1>6 DEF FateInvariant

LEMMA FateStep == FateInvariant /\ [Next]_vars => FateInvariant'
<1> SUFFICES ASSUME FateInvariant, [Next]_vars PROVE FateInvariant'
  OBVIOUS
<1>1. /\ Ground /\ RowInvariant' /\ IdleIsIdle' /\ faults \in Nat
      /\ IsFiniteSet(Refunds)
  BY RowStep, IdleStep, RefundAssumption
  DEF FateInvariant, Ground, RowInvariant, BudgetInvariant, TypeOK
<1>2. PICK spoilt \in SUBSET Refunds :
        /\ Cardinality(spoilt) <= faults
        /\ \A r \in Refunds \ spoilt : Fate(r)
  BY DEF FateInvariant
<1>3. IsFiniteSet(spoilt) /\ Cardinality(spoilt) \in Nat
  BY <1>1, FS_Subset, FS_CardinalityType
<1>4. CASE faults' = faults /\ \A q \in Refunds : Keeps(q)
  <2>1. \A r \in Refunds \ spoilt : Fate(r)'
    BY <1>2, <1>4 DEF Keeps
  <2>2. Cardinality(spoilt) <= faults'
    BY <1>2, <1>4
  <2> QED
    BY <1>1, <1>4, <2>1, <2>2 DEF FateInvariant, Ground, Keeps
<1>5. CASE /\ faults' = faults + 1
           /\ \E r \in Refunds : Placed(r)' /\ \A q \in Refunds \ {r} : Keeps(q)
  <2>1. PICK r \in Refunds : Placed(r)' /\ \A q \in Refunds \ {r} : Keeps(q)
    BY <1>5
  <2>2. Cardinality(spoilt \cup {r}) <= faults'
    <3>1. /\ Cardinality(spoilt \cup {r}) = Cardinality(spoilt)
             \/ Cardinality(spoilt \cup {r}) = Cardinality(spoilt) + 1
          /\ Cardinality(spoilt) \in Nat
      BY <1>3, FS_AddElement
    <3> QED
      BY <1>1, <1>2, <1>5, <3>1
  <2>3. \A q \in Refunds \ (spoilt \cup {r}) : Fate(q)'
    BY <1>2, <2>1 DEF Keeps
  <2>4. spoilt \cup {r} \in SUBSET Refunds
    OBVIOUS
  <2>5. \A q \in Refunds : Placed(q)'
    BY <2>1 DEF Keeps
  <2> QED
    BY <1>1, <2>2, <2>3, <2>4, <2>5 DEF FateInvariant, Ground
<1> QED
  BY <1>1, <1>4, <1>5, EveryStepKeeps

(***************************************************************************)
(* A settled refund has moved its money, but for one refund for each lost  *)
(* transaction: of a payment from one pool or two.                         *)
(***************************************************************************)
LossesSettle ==
    Cardinality({r \in Refunds : \E p \in Pools :
                   status[r][p] = "settled" /\ tb[r][p] # "posted"}) <= faults

\* Refunds outside a set of no more than faults: no more than faults inside.
LEMMA SpoiltBounds ==
    ASSUME TypeOK, NEW spoilt \in SUBSET Refunds, Cardinality(spoilt) <= faults,
           NEW bad, bad \subseteq spoilt
    PROVE  IsFiniteSet(bad) /\ Cardinality(bad) \in Nat /\ Cardinality(bad) <= faults
  <1>1. IsFiniteSet(spoilt) /\ Cardinality(spoilt) \in Nat /\ faults \in Nat
    BY RefundAssumption, FS_Subset, FS_CardinalityType DEF TypeOK
  <1>2. /\ IsFiniteSet(bad) /\ Cardinality(bad) \in Nat
        /\ Cardinality(bad) <= Cardinality(spoilt)
    BY <1>1, FS_Subset, FS_CardinalityType
  <1> QED
    BY <1>1, <1>2

THEOREM SettlesWithinLosses == Spec => []LossesSettle
<1>1. FateInvariant => LossesSettle
  <2> SUFFICES ASSUME FateInvariant PROVE LossesSettle
    OBVIOUS
  <2>1. PICK spoilt \in SUBSET Refunds :
          /\ Cardinality(spoilt) <= faults
          /\ \A r \in Refunds \ spoilt : Fate(r)
    BY DEF FateInvariant
  <2>2. {r \in Refunds : \E p \in Pools : status[r][p] = "settled" /\ tb[r][p] # "posted"}
          \subseteq spoilt
    BY <2>1 DEF Fate, RowFate
  <2> QED
    BY <2>1, <2>2, SpoiltBounds
    DEF LossesSettle, FateInvariant, Ground, RowInvariant, BudgetInvariant
<1> QED
  BY <1>1, FateInit, FateStep, PTL DEF Spec

(***************************************************************************)
(* Of a refund that no loss has spoilt and nobody works on, the rows say   *)
(* settled exactly when its money has moved.                               *)
(***************************************************************************)
LEMMA RowsTell ==
    ASSUME Ground, OnePool, NEW r \in Refunds, Fate(r) PROVE ~Misreported(r)
  <1> SUFFICES ASSUME NEW p \in Pools, status[r][p] # "settled", tb[r][p] = "posted",
                      ~Underway(r)
               PROVE  FALSE
    BY DEF Misreported, Fate, RowFate
  <1>1. Committed(r) /\ p \in Legs(r)
    BY DEF Ground, Placed, MoneyPlaced, Applied, Committed, Fate, AppliedFate, Underway
  <1>2. PICK s \in {"pending", "settled", "voided"} : RowsAre(r, s)
    BY <1>1 DEF Ground, RowInvariant, WholeRows
  <1>3. status[r][p] = s
    BY <1>1, <1>2 DEF RowsAre
  <1>4. s = "pending"
    BY <1>3 DEF Fate, RowFate
  <1>5. Live(r)
    BY <1>1, <1>2, <1>4 DEF Fate, WaitingFate, Underway
  <1> QED
    BY <1>1, <1>5, LiveUnspent

(***************************************************************************)
(* Each lost transaction explains at most one refund whose rows disagree   *)
(* with TigerBeetle, when the payment drew on one pool.                    *)
(***************************************************************************)
THEOREM LossesHold ==
    ASSUME OnePool
    PROVE  Spec => []LossesExplain
<1>1. FateInvariant => LossesExplain
  <2> SUFFICES ASSUME FateInvariant PROVE LossesExplain
    OBVIOUS
  <2>1. PICK spoilt \in SUBSET Refunds :
          /\ Cardinality(spoilt) <= faults
          /\ \A r \in Refunds \ spoilt : Fate(r)
    BY DEF FateInvariant
  <2>2. {r \in Refunds : Misreported(r)} \subseteq spoilt
    BY <2>1, RowsTell DEF FateInvariant
  <2> QED
    BY <2>1, <2>2, SpoiltBounds
    DEF LossesExplain, FateInvariant, Ground, RowInvariant, BudgetInvariant
<1> QED
  BY <1>1, FateInit, FateStep, PTL DEF Spec

(***************************************************************************)
(* When no transaction is lost and the payment drew on one pool, a voided  *)
(* refund has not moved money.                                             *)
(***************************************************************************)
THEOREM VoidedHolds ==
    ASSUME MaxFaults = 0, OnePool
    PROVE  Spec => []VoidedNotPosted
<1>1. FateInvariant => VoidedNotPosted
  <2> SUFFICES ASSUME FateInvariant PROVE VoidedNotPosted
    OBVIOUS
  <2>1. faults = 0 /\ TypeOK
    BY DEF FateInvariant, Ground, RowInvariant, BudgetInvariant, TypeOK
  <2>2. PICK spoilt \in SUBSET Refunds :
          /\ Cardinality(spoilt) <= faults
          /\ \A r \in Refunds \ spoilt : Fate(r)
    BY DEF FateInvariant
  <2>3. IsFiniteSet(spoilt) /\ Cardinality(spoilt) = 0
    BY <2>1, <2>2, SpoiltBounds
  <2>4. spoilt = {}
    BY <2>3, FS_EmptySet
  <2> QED
    BY <2>2, <2>4 DEF Fate, RowFate, VoidedNotPosted
<1> QED
  BY <1>1, FateInit, FateStep, PTL DEF Spec

(***************************************************************************)
(* The ledger follows the rows: what has moved back is counted by the      *)
(* rows, or by the one call that is about to commit, or was spoilt.        *)
(***************************************************************************)
LEMMA MoneyCounted ==
    ASSUME FateInvariant, OnePool, NEW p \in Pools
    PROVE  PostedBack(p) <= Paid[p] * (1 + faults)
  <1> DEFINE moved == {r \in Refunds : tb[r][p] = "posted"}
             counted == {r \in Refunds : Counts(r, p)}
             writing == {r \in Refunds : call[r].pc = "applied"}
             f == Take(p)
  <1>1. PICK spoilt \in SUBSET Refunds :
          /\ Cardinality(spoilt) <= faults
          /\ \A r \in Refunds \ spoilt : Fate(r)
    BY DEF FateInvariant
  <1>2. TypeOK /\ Ground
    BY DEF FateInvariant, Ground, RowInvariant, BudgetInvariant
  <1>3. /\ IsFiniteSet(counted) /\ IsFiniteSet(moved) /\ IsFiniteSet(writing)
        /\ IsFiniteSet(counted \cup writing) /\ IsFiniteSet(moved \cap spoilt)
        /\ counted \cup writing \subseteq Refunds
        /\ \A r \in Refunds : f[r] \in Nat /\ f[r] = call[r].take[p]
    <2>1. /\ IsFiniteSet(counted) /\ IsFiniteSet(moved) /\ IsFiniteSet(writing)
          /\ IsFiniteSet(counted \cup writing) /\ IsFiniteSet(moved \cap spoilt)
      BY RefundAssumption, FS_Subset
    <2> QED
      BY <1>2, <2>1, CallType DEF Take
  <1>4. moved \subseteq (counted \cup writing) \cup (moved \cap spoilt)
    <2> SUFFICES ASSUME NEW r \in moved, r \notin spoilt, r \notin writing
                 PROVE  r \in counted
      OBVIOUS
    <2>1. Fate(r)
      BY <1>1
    <2>2. /\ p \in Legs(r) /\ Committed(r) /\ status[r][p] # "voided"
      BY <1>2, <2>1
      DEF Ground, Placed, MoneyPlaced, Fate, AppliedFate, RowFate, Applied, Committed
    <2>3. PICK s \in {"pending", "settled", "voided"} : RowsAre(r, s)
      BY <1>2, <2>2 DEF Ground, RowInvariant, WholeRows
    <2> QED
      BY <2>2, <2>3 DEF RowsAre, Counts
  <1>5. Paid[p] \in Nat /\ faults \in Nat
    BY <1>2, RefundAssumption DEF TypeOK
  <1>6. SumOver(f, moved \cap spoilt) <= Paid[p] * faults
    <2>1. /\ Cardinality(moved \cap spoilt) \in Nat
          /\ Cardinality(moved \cap spoilt) <= faults
      BY <1>1, <1>2, SpoiltBounds
    <2>2. \A r \in moved \cap spoilt : f[r] \in Nat /\ f[r] <= Paid[p]
      BY <1>2, <1>3 DEF Ground, Placed, MoneyPlaced
    <2>3. SumOver(f, moved \cap spoilt) <= Cardinality(moved \cap spoilt) * Paid[p]
      <3> HIDE DEF moved, f
      <3> QED
        BY <1>3, <1>5, <2>2, SumBound
    <2>4. SumOver(f, moved \cap spoilt) \in Nat
      <3> HIDE DEF moved, f
      <3> QED
        BY <1>3, <2>2, SumType
    <2>5. \A n, m, b \in Nat : n <= m => n * b <= b * m
      OBVIOUS
    <2>6. Cardinality(moved \cap spoilt) * Paid[p] <= Paid[p] * faults
      BY <1>5, <2>1, <2>5
    <2>7. Cardinality(moved \cap spoilt) * Paid[p] \in Nat /\ Paid[p] * faults \in Nat
      BY <1>5, <2>1
    <2> QED
      BY <2>3, <2>4, <2>6, <2>7
  <1>7. SumOver(f, counted \cup writing) <= Paid[p]
    <2>1. SumRefunds(p) = SumOver(f, counted)
      BY DEF SumRefunds
    <2>2. CASE writing = {}
      BY <2>1, <2>2 DEF FateInvariant, Ground, RowInvariant, BudgetInvariant,
                        RefundsWithinPayment
    <2>3. CASE writing # {}
      <3>1. PICK a \in Refunds : call[a].pc = "applied"
        BY <2>3
      <3>2. writing = {a}
        BY <1>2, <3>1
        DEF Ground, RowInvariant, BudgetInvariant, LockExclusion, HoldsLock, Locking
      <3>3. a \notin counted
        BY <1>2, <3>1 DEF Ground, RowInvariant, BudgetInvariant, RowsAreCommitted,
                          Committed, Counts
      <3>4. SumRefunds(p) + f[a] <= Paid[p]
        BY <1>2, <1>3, <3>1 DEF Ground, RowInvariant, BudgetInvariant, TakeFits
      <3>5. SumOver(f, counted \cup {a}) = SumOver(f, counted) + f[a]
        <4> HIDE DEF f
        <4> QED
          BY <1>3, <3>3, SumInsert
      <3> QED
        BY <2>1, <3>2, <3>4, <3>5
    <2> QED
      BY <2>2, <2>3
  <1>8. /\ SumOver(f, moved) <= SumOver(f, (counted \cup writing) \cup (moved \cap spoilt))
        /\ SumOver(f, (counted \cup writing) \cup (moved \cap spoilt))
             <= SumOver(f, counted \cup writing) + SumOver(f, moved \cap spoilt)
    <2>1. IsFiniteSet((counted \cup writing) \cup (moved \cap spoilt))
      BY <1>3, FS_Union
    <2>2. \A r \in (counted \cup writing) \cup (moved \cap spoilt) : f[r] \in Nat
      BY <1>3
    <2> HIDE DEF moved, counted, writing, f
    <2> QED
      BY <1>3, <1>4, <2>1, <2>2, SumMonotone, SumUnion
  <1>9. /\ SumOver(f, moved) \in Nat /\ SumOver(f, counted \cup writing) \in Nat
        /\ SumOver(f, moved \cap spoilt) \in Nat
        /\ SumOver(f, (counted \cup writing) \cup (moved \cap spoilt)) \in Nat
    <2>1. IsFiniteSet((counted \cup writing) \cup (moved \cap spoilt))
      BY <1>3, FS_Union
    <2>2. moved \subseteq Refunds
      OBVIOUS
    <2> HIDE DEF moved, counted, writing, f
    <2> QED
      BY <1>3, <2>1, <2>2, SumType
  <1>10. PostedBack(p) = SumOver(f, moved)
    BY DEF PostedBack
  <1>11. Paid[p] * (1 + faults) = Paid[p] + Paid[p] * faults /\ Paid[p] * faults \in Nat
    <2>1. \A n, b \in Nat : b * (1 + n) = b + b * n /\ b * n \in Nat
      OBVIOUS
    <2> QED
      BY <1>5, <2>1
  <1> HIDE DEF moved, counted, writing, f
  <1> QED
    BY <1>5, <1>6, <1>7, <1>8, <1>9, <1>10, <1>11

(***************************************************************************)
(* TigerBeetle never gives back more of a payment from one pool than the   *)
(* payment took, and as much again for each lost transaction: without a    *)
(* loss, never more than the payment took.                                 *)
(***************************************************************************)
THEOREM MoneyHolds ==
    ASSUME OnePool
    PROVE  Spec => []MoneyWithinLosses
<1>1. FateInvariant => MoneyWithinLosses
  BY MoneyCounted DEF MoneyWithinLosses
<1> QED
  BY <1>1, FateInit, FateStep, PTL DEF Spec
=============================================================================
