-------------------------- MODULE PbPayment_proofs --------------------------
(***************************************************************************)
(* Every safety property of the module for any number of requests, amounts *)
(* and lost transactions, and whatever the other services do to the        *)
(* account: Conservation from the ledger invariant and the orphans,        *)
(* OneDebitPerKey from the exclusion of keys, OthersSpentFirst and         *)
(* RetriesAreEarned from what a decision may still count on.  With them,   *)
(* every request is one step of the abstract account (AtomicAccount).      *)
(***************************************************************************)
EXTENDS PbPayment, PaymentSplit_proofs, Sums_proofs

(***************************************************************************)
(* The inductive invariant.  Each pool holds what it opened with, plus     *)
(* what the other services put in, minus the debits TigerBeetle has        *)
(* accepted, orphans included; so the balances stay in range and the       *)
(* types hold.  A working payment has tries left.                          *)
(***************************************************************************)
DebitedCalls == {c \in Calls : Debited(c)}

LedgerAdds ==
    \A p \in Pools :
        posted[p] = Opening[p] + external[p] - SumOver(Taken(p), DebitedCalls)

ExternalBounded == \A p \in Pools : external[p] <= MaxCredited

TriesLeft == \A c \in Calls : call[c].pc \in Working => call[c].attempt < MaxTries

LedgerInvariant == TypeOK /\ LedgerAdds /\ ExternalBounded /\ TriesLeft

(***************************************************************************)
(* The amounts of a handler are u64 values.                                *)
(***************************************************************************)
LEMMA TakeType ==
    ASSUME TypeOK, NEW c \in Calls
    PROVE  /\ call[c] \in Call /\ call[c].take \in Balances
           /\ \A p \in Pools : call[c].take[p] \in Nat
           /\ call[c].amount \in U64 /\ call[c].attempt \in 0 .. MaxTries
  <1>1. call[c] \in Call
    BY DEF TypeOK
  <1>2. call[c].take \in Balances /\ call[c].amount \in Amounts \cup {0}
        /\ call[c].attempt \in 0 .. MaxTries
    BY <1>1 DEF Call
  <1>3. 0 \in U64
    BY WordAssumption DEF U64
  <1>4. \A x \in Amounts : x \in U64
    BY PaymentAssumption
  <1>5. \A p \in Pools : call[c].take[p] \in Nat
    BY <1>2 DEF Balances, U64
  <1> QED
    BY <1>1, <1>2, <1>3, <1>4, <1>5

LEMMA ConstantsType ==
    /\ MaxTries \in Nat \ {0} /\ MaxCredited \in Nat /\ Reserve \in Nat
    /\ MaxFaults \in Nat /\ Word \in Nat /\ 0 \in U64
    /\ \A p \in Pools : Opening[p] \in Nat /\ Opening[p] + MaxCredited < Word
    /\ \A p \in Pools : Opening[p] \in U64
    /\ \A x \in Credits : x \in Nat
  <1>1. \A p \in Pools : Opening[p] \in U64
    BY PaymentAssumption DEF Balances
  <1>2. \A p \in Pools : Opening[p] \in Nat
    BY <1>1 DEF U64
  <1>3. 0 \in U64
    BY WordAssumption DEF U64
  <1> QED
    BY <1>1, <1>2, <1>3, PaymentAssumption, WordAssumption

(***************************************************************************)
(* The money accepted debits took is a number.                             *)
(***************************************************************************)
LEMMA SpentType ==
    ASSUME TypeOK, NEW p \in Pools
    PROVE  SumOver(Taken(p), DebitedCalls) \in Nat
  <1>1. IsFiniteSet(DebitedCalls) /\ DebitedCalls \subseteq Calls
    BY PaymentAssumption, FS_Subset DEF DebitedCalls
  <1>2. \A c \in DebitedCalls : Taken(p)[c] \in Nat
    BY <1>1, TakeType DEF Taken
  <1> QED
    BY <1>1, <1>2, SumType

(***************************************************************************)
(* While the equation holds no balance leaves the range of a u64.          *)
(***************************************************************************)
LEMMA BalanceBound ==
    ASSUME LedgerInvariant, NEW p \in Pools
    PROVE  /\ posted[p] \in Nat /\ external[p] \in Int
           /\ posted[p] <= Opening[p] + external[p]
  <1>1. posted[p] \in Nat /\ external[p] \in Int
    BY DEF LedgerInvariant, TypeOK, Balances, U64
  <1>2. SumOver(Taken(p), DebitedCalls) \in Nat /\ Opening[p] \in Nat
    BY SpentType, ConstantsType DEF LedgerInvariant
  <1>3. posted[p] = Opening[p] + external[p] - SumOver(Taken(p), DebitedCalls)
    BY DEF LedgerInvariant, LedgerAdds
  <1> QED
    BY <1>1, <1>2, <1>3

(***************************************************************************)
(* Steps that neither start nor end a debit leave the debits' sum alone;   *)
(* MoveMoney adds the debits of one request.                               *)
(***************************************************************************)
LEMMA SpentSame ==
    ASSUME TypeOK, NEW p \in Pools, DebitedCalls' = DebitedCalls,
           \A c \in DebitedCalls : call'[c].take = call[c].take
    PROVE  SumOver(Taken(p), DebitedCalls)' = SumOver(Taken(p), DebitedCalls)
  <1> DEFINE f == Taken(p)
             g == [c \in Calls |-> call'[c].take[p]]
             D == DebitedCalls
  <1>1. \A c \in D : g[c] = f[c]
    BY DEF Taken, DebitedCalls
  <1>2. SumOver(Taken(p), DebitedCalls)' = SumOver(g, D)
    BY DEF Taken, SumOver, Units, UnitsOf
  <1> HIDE DEF f, g, D
  <1>3. SumOver(g, D) = SumOver(f, D)
    BY <1>1, SumSame
  <1> QED
    BY <1>2, <1>3 DEF f, D

LEMMA SpentMore ==
    ASSUME TypeOK, NEW p \in Pools, NEW c \in Calls, c \notin DebitedCalls,
           DebitedCalls' = DebitedCalls \cup {c},
           \A d \in Calls : call'[d].take = call[d].take
    PROVE  SumOver(Taken(p), DebitedCalls)'
             = SumOver(Taken(p), DebitedCalls) + call[c].take[p]
  <1> DEFINE f == Taken(p)
             g == [d \in Calls |-> call'[d].take[p]]
             D == DebitedCalls
  <1>1. g = f
    BY DEF Taken
  <1>2. SumOver(Taken(p), DebitedCalls)' = SumOver(g, D \cup {c})
    BY DEF Taken, SumOver, Units, UnitsOf
  <1>3. IsFiniteSet(D) /\ D \subseteq Calls
    BY PaymentAssumption, FS_Subset DEF DebitedCalls
  <1>4. \A d \in Calls : f[d] \in Nat
    BY TakeType DEF Taken
  <1>5. f[c] = call[c].take[p]
    BY DEF Taken
  <1>6. c \notin D
    OBVIOUS
  <1> HIDE DEF f, g, D
  <1>7. SumOver(f, D \cup {c}) = SumOver(f, D) + f[c]
    BY <1>3, <1>4, <1>6, SumInsert
  <1> QED
    BY <1>1, <1>2, <1>5, <1>7 DEF f, D

(***************************************************************************)
(* What a handler becomes when it moves on, and when it is replaced.       *)
(***************************************************************************)
PCs == {"idle"} \cup Working \cup Answered \cup Gone

LEMMA MoveCall ==
    ASSUME TypeOK, NEW c \in Calls, NEW from, NEW to \in PCs, Step(c, from, to)
    PROVE  /\ call' \in [Calls -> Call]
           /\ call[c].pc = from /\ call'[c].pc = to
           /\ call'[c].take = call[c].take /\ call'[c].attempt = call[c].attempt
           /\ call'[c].key = call[c].key /\ call'[c].kind = call[c].kind
           /\ call'[c].amount = call[c].amount
           /\ \A d \in Calls \ {c} : call'[d] = call[d]
  <1>1. call' = [call EXCEPT ![c].pc = to] /\ call[c].pc = from
    BY DEF Step
  <1>2. call' \in [Calls -> Call]
    BY <1>1 DEF TypeOK, Call, PCs
  <1>3. /\ call'[c].pc = to
        /\ call'[c].take = call[c].take /\ call'[c].attempt = call[c].attempt
        /\ call'[c].key = call[c].key /\ call'[c].kind = call[c].kind
        /\ call'[c].amount = call[c].amount
    BY <1>1 DEF TypeOK, Call
  <1>4. \A d \in Calls \ {c} : call'[d] = call[d]
    BY <1>1 DEF TypeOK
  <1> QED
    BY <1>1, <1>2, <1>3, <1>4

LEMMA ReplaceCall ==
    ASSUME TypeOK, NEW c \in Calls, NEW new \in Call,
           call' = [call EXCEPT ![c] = new]
    PROVE  /\ call' \in [Calls -> Call] /\ call'[c] = new
           /\ \A d \in Calls \ {c} : call'[d] = call[d]
  BY DEF TypeOK

(***************************************************************************)
(* A step of one handler that is not debited, before or after, and moves   *)
(* no money keeps the invariant.                                           *)
(***************************************************************************)
LEMMA UndebitedKeeps ==
    ASSUME LedgerInvariant, NEW c \in Calls,
           UNCHANGED <<posted, held, reserved, external, active>>, faults' \in 0 .. MaxFaults,
           call' \in [Calls -> Call],
           \A d \in Calls \ {c} : call'[d] = call[d],
           \/ ~Debited(c) /\ ~Debited(c)'
           \/ Debited(c) /\ Debited(c)' /\ call'[c].take = call[c].take,
           call'[c].pc \in Working => call'[c].attempt < MaxTries
    PROVE  LedgerInvariant'
  <1>1. TypeOK'
    BY DEF LedgerInvariant, TypeOK
  <1>2. DebitedCalls' = DebitedCalls
    BY DEF DebitedCalls, Debited
  <1>3. \A d \in DebitedCalls : call'[d].take = call[d].take
    BY DEF DebitedCalls
  <1>4. LedgerAdds'
    <2> SUFFICES ASSUME NEW p \in Pools
                 PROVE  posted'[p] = Opening[p] + external'[p]
                                       - SumOver(Taken(p), DebitedCalls)'
      BY DEF LedgerAdds
    <2>1. SumOver(Taken(p), DebitedCalls)' = SumOver(Taken(p), DebitedCalls)
      BY <1>2, <1>3, SpentSame DEF LedgerInvariant
    <2> QED
      BY <2>1 DEF LedgerInvariant, LedgerAdds
  <1>5. ExternalBounded' /\ TriesLeft'
    BY DEF LedgerInvariant, ExternalBounded, TriesLeft
  <1> QED
    BY <1>1, <1>4, <1>5 DEF LedgerInvariant

(***************************************************************************)
(* The handler's steps before it has debited.                              *)
(***************************************************************************)
LEMMA MoveKeeps ==
    ASSUME LedgerInvariant, NEW c \in Calls, NEW from, NEW to \in PCs, Step(c, from, to),
           UNCHANGED <<posted, held, reserved, external, active>>, faults' \in 0 .. MaxFaults,
           \/ from \notin {"moved", "done", "orphaned"} /\ to \notin {"moved", "done", "orphaned"}
           \/ from = "moved" /\ to \in {"done", "orphaned"},
           to \in Working => from \in Working
    PROVE  LedgerInvariant'
  <1>1. TypeOK
    BY DEF LedgerInvariant
  <1>2. /\ call' \in [Calls -> Call]
        /\ call[c].pc = from /\ call'[c].pc = to
        /\ call'[c].take = call[c].take /\ call'[c].attempt = call[c].attempt
        /\ \A d \in Calls \ {c} : call'[d] = call[d]
    BY <1>1, MoveCall
  <1>3. \/ ~Debited(c) /\ ~Debited(c)'
        \/ Debited(c) /\ Debited(c)' /\ call'[c].take = call[c].take
    BY <1>2 DEF Debited
  <1>4. call'[c].pc \in Working => call'[c].attempt < MaxTries
    BY <1>2 DEF LedgerInvariant, TriesLeft
  <1> QED
    BY <1>2, <1>3, <1>4, UndebitedKeeps

LEMMA ReceiveKeeps ==
    ASSUME LedgerInvariant, NEW c \in Calls, Receive(c)
    PROVE  LedgerInvariant'
  <1>1. \A kind \in Kinds, amount \in Amounts, key \in Keys \cup {NoKey}, take \in Balances,
           to \in {"looked", "replayed"} :
          Request(to, kind, amount, key, take) \in Call
    BY ConstantsType DEF Request, Call, Working, Answered
  <1>2. PICK to \in {"looked", "replayed"}, kind \in Kinds, amount \in Amounts,
             key \in Keys \cup {NoKey}, take \in Balances :
          call' = [call EXCEPT ![c] = Request(to, kind, amount, key, take)]
    <2> DEFINE row(d) == [Nothing EXCEPT ![KeyPool(d)] = call[d].take[KeyPool(d)]]
    <2>1. PICK kind \in Kinds, amount \in Amounts, key \in Keys \cup {NoKey} :
            \/ call' = [call EXCEPT ![c] = Request("looked", kind, amount, key, Nothing)]
            \/ \E d \in Calls :
                 call' = [call EXCEPT ![c] = Request("replayed", kind, amount, key, row(d))]
      BY DEF Receive
    <2>2. Nothing \in Balances
      BY ConstantsType DEF Nothing, Balances
    <2>3. \A d \in Calls : row(d) \in Balances
      <3> SUFFICES ASSUME NEW d \in Calls PROVE row(d) \in Balances
        OBVIOUS
      <3>1. KeyPool(d) \in Pools
        BY DEF KeyPool, Pools
      <3>2. call[d].take \in Balances
        BY TakeType DEF LedgerInvariant
      <3> QED
        BY <2>2, <3>1, <3>2 DEF Balances
    <2> HIDE DEF row
    <2> QED
      BY <2>1, <2>2, <2>3
  <1> DEFINE new == Request(to, kind, amount, key, take)
  <1>3. /\ call' \in [Calls -> Call] /\ call'[c] = new
        /\ \A d \in Calls \ {c} : call'[d] = call[d]
    BY <1>1, <1>2, ReplaceCall DEF LedgerInvariant
  <1>4. call[c].pc = "idle" /\ UNCHANGED <<posted, held, reserved, external, active, faults>>
    BY DEF Receive
  <1>5. call'[c].pc \in {"looked", "replayed"} /\ call'[c].attempt = 0
    BY <1>3 DEF Request
  <1>6. ~Debited(c) /\ ~Debited(c)'
    BY <1>4, <1>5 DEF Debited
  <1>7. call'[c].attempt < MaxTries
    BY <1>5, ConstantsType
  <1>8. faults' \in 0 .. MaxFaults
    BY <1>4 DEF LedgerInvariant, TypeOK
  <1> QED
    BY <1>3, <1>4, <1>6, <1>7, <1>8, UndebitedKeeps

(***************************************************************************)
(* The decision is a division of the amount into u64 values, whatever      *)
(* balance it was made from.                                               *)
(***************************************************************************)
LEMMA ReadBalanceKeeps ==
    ASSUME LedgerInvariant, NEW c \in Calls, ReadBalance(c)
    PROVE  LedgerInvariant'
  <1>1. /\ call[c].pc = "admitted" /\ call[c].attempt < MaxTries
        /\ UNCHANGED <<posted, held, reserved, external, active, faults>>
    BY DEF ReadBalance, LedgerInvariant, TriesLeft, Working
  <1>2. call[c] \in Call /\ posted \in Balances /\ call[c].amount \in U64
    BY TakeType DEF LedgerInvariant, TypeOK
  <1>3. Covers(posted, call[c].amount) => Split(posted, call[c].amount) \in Balances
    BY <1>2, SplitCorrect DEF IsDivision
  <1>4. [Nothing EXCEPT !["self"] = call[c].amount] \in Balances
    BY <1>2, ConstantsType DEF Nothing, Balances
  <1>5. \A r \in Call, take \in Balances : [r EXCEPT !.pc = "split", !.take = take] \in Call
    BY DEF Call, Working
  <1>6. \A r \in Call : [r EXCEPT !.pc = "insufficient"] \in Call
    BY DEF Call, Answered
  <1>7. PICK new \in Call : /\ call' = [call EXCEPT ![c] = new]
                            /\ new.pc \in {"split", "insufficient"}
                            /\ new.attempt = call[c].attempt
    <2>1. PICK take \in Balances :
            \/ call' = [call EXCEPT ![c] = [call[c] EXCEPT !.pc = "split", !.take = take]]
            \/ call' = [call EXCEPT ![c] = [call[c] EXCEPT !.pc = "insufficient"]]
      BY <1>3, <1>4 DEF ReadBalance
    <2>2. CASE call' = [call EXCEPT ![c] = [call[c] EXCEPT !.pc = "split", !.take = take]]
      <3>1. /\ [call[c] EXCEPT !.pc = "split", !.take = take] \in Call
            /\ [call[c] EXCEPT !.pc = "split", !.take = take].pc = "split"
            /\ [call[c] EXCEPT !.pc = "split", !.take = take].attempt = call[c].attempt
        BY <1>2, <1>5 DEF Call
      <3> QED
        BY <2>2, <3>1
    <2>3. CASE call' = [call EXCEPT ![c] = [call[c] EXCEPT !.pc = "insufficient"]]
      <3>1. /\ [call[c] EXCEPT !.pc = "insufficient"] \in Call
            /\ [call[c] EXCEPT !.pc = "insufficient"].pc = "insufficient"
            /\ [call[c] EXCEPT !.pc = "insufficient"].attempt = call[c].attempt
        BY <1>2, <1>6 DEF Call
      <3> QED
        BY <2>3, <3>1
    <2> QED
      BY <2>1, <2>2, <2>3
  <1>8. /\ call' \in [Calls -> Call] /\ call'[c] = new
        /\ \A d \in Calls \ {c} : call'[d] = call[d]
    BY <1>7, ReplaceCall DEF LedgerInvariant
  <1>9. ~Debited(c) /\ ~Debited(c)'
    BY <1>1, <1>7, <1>8 DEF Debited
  <1>10. call'[c].attempt < MaxTries
    BY <1>1, <1>7, <1>8
  <1>11. faults' \in 0 .. MaxFaults
    BY <1>1 DEF LedgerInvariant, TypeOK
  <1> QED
    BY <1>1, <1>8, <1>9, <1>10, <1>11, UndebitedKeeps

(***************************************************************************)
(* An accepted debit takes what TigerBeetle has checked to be there.       *)
(***************************************************************************)
LEMMA MoveMoneyKeeps ==
    ASSUME LedgerInvariant, NEW c \in Calls, MoveMoney(c)
    PROVE  LedgerInvariant'
  <1>1. /\ CanDebit(call[c].take) /\ Step(c, "inserted", "moved")
        /\ posted' = [p \in Pools |-> posted[p] - call[c].take[p]]
        /\ UNCHANGED <<held, reserved, external, active, faults>>
    BY DEF MoveMoney
  <1>2. /\ call' \in [Calls -> Call]
        /\ call[c].pc = "inserted" /\ call'[c].pc = "moved"
        /\ call'[c].take = call[c].take /\ call'[c].attempt = call[c].attempt
        /\ \A d \in Calls \ {c} : call'[d] = call[d]
    BY <1>1, MoveCall DEF LedgerInvariant, PCs, Working, InTransaction
  <1>3. /\ \A p \in Pools : posted[p] \in U64 /\ call[c].take[p] \in Nat
        /\ held \in {0, Reserve} /\ Reserve \in Nat /\ held <= posted["others"]
    BY TakeType, ConstantsType DEF LedgerInvariant, TypeOK, Balances
  <1>4. /\ call[c].take["others"] <= posted["others"] - held
        /\ call[c].take["self"] <= posted["self"]
    BY <1>1 DEF CanDebit
  <1>5. posted' \in Balances /\ held' <= posted'["others"]
    <2>1. posted'["others"] = posted["others"] - call[c].take["others"]
      BY <1>1 DEF Pools
    <2>2. posted["others"] - call[c].take["others"] \in U64
          /\ held <= posted["others"] - call[c].take["others"]
      BY <1>3, <1>4, WordAssumption DEF Pools, U64
    <2>3. posted["self"] - call[c].take["self"] \in U64
      BY <1>3, <1>4, WordAssumption DEF Pools, U64
    <2> QED
      BY <1>1, <2>1, <2>2, <2>3 DEF Balances, Pools
  <1>6. TypeOK'
    BY <1>1, <1>2, <1>5 DEF LedgerInvariant, TypeOK
  <1>7. c \notin DebitedCalls /\ DebitedCalls' = DebitedCalls \cup {c}
    BY <1>2 DEF DebitedCalls, Debited
  <1>8. LedgerAdds'
    <2> SUFFICES ASSUME NEW p \in Pools
                 PROVE  posted'[p] = Opening[p] + external'[p]
                                       - SumOver(Taken(p), DebitedCalls)'
      BY DEF LedgerAdds
    <2>1. SumOver(Taken(p), DebitedCalls)'
            = SumOver(Taken(p), DebitedCalls) + call[c].take[p]
      BY <1>2, <1>7, SpentMore DEF LedgerInvariant
    <2>2. SumOver(Taken(p), DebitedCalls) \in Nat /\ external[p] \in Int
          /\ Opening[p] \in Nat /\ call[c].take[p] \in Nat
      BY SpentType, BalanceBound, ConstantsType, <1>3 DEF LedgerInvariant
    <2>3. posted[p] = Opening[p] + external[p] - SumOver(Taken(p), DebitedCalls)
      BY DEF LedgerInvariant, LedgerAdds
    <2>4. posted'[p] = posted[p] - call[c].take[p] /\ external' = external
      BY <1>1
    <2> QED
      BY <2>1, <2>2, <2>3, <2>4
  <1>9. ExternalBounded'
    BY <1>1 DEF LedgerInvariant, ExternalBounded
  <1>10. TriesLeft'
    BY <1>2 DEF LedgerInvariant, TriesLeft, Working, InTransaction
  <1> QED
    BY <1>6, <1>8, <1>9, <1>10 DEF LedgerInvariant

(***************************************************************************)
(* A rejected debit moves nothing and uses up a try.                       *)
(***************************************************************************)
LEMMA RejectedKeeps ==
    ASSUME LedgerInvariant, NEW c \in Calls, Rejected(c)
    PROVE  LedgerInvariant'
  <1> DEFINE tries == call[c].attempt + 1
             again == call[c].kind = "payment" /\ tries < MaxTries
             to == IF again THEN "admitted" ELSE "exceeds"
  <1>1. /\ call[c].pc = "inserted"
        /\ call' = [call EXCEPT ![c].attempt = tries, ![c].pc = to]
        /\ UNCHANGED <<posted, held, reserved, external, active, faults>>
    BY DEF Rejected
  <1>2. call[c].attempt \in 0 .. MaxTries /\ call[c].attempt < MaxTries /\ MaxTries \in Nat
    BY <1>1, TakeType, ConstantsType
    DEF LedgerInvariant, TriesLeft, Working, InTransaction
  <1>3. tries \in 0 .. MaxTries
    BY <1>2
  <1>4. to \in {"admitted", "exceeds"} /\ (to = "admitted" => tries < MaxTries)
    OBVIOUS
  <1> HIDE DEF tries, to
  <1>5. /\ call'[c].pc = to /\ call'[c].attempt = tries
        /\ \A d \in Calls \ {c} : call'[d] = call[d]
    BY <1>1 DEF LedgerInvariant, TypeOK, Call
  <1>6. call' \in [Calls -> Call]
    BY <1>1, <1>3, <1>4 DEF LedgerInvariant, TypeOK, Call, Working, Answered
  <1>7. ~Debited(c) /\ ~Debited(c)'
    BY <1>1, <1>4, <1>5 DEF Debited
  <1>8. call'[c].pc \in Working => call'[c].attempt < MaxTries
    BY <1>4, <1>5 DEF Working, InTransaction
  <1>9. faults' \in 0 .. MaxFaults
    BY <1>1 DEF LedgerInvariant, TypeOK
  <1> QED
    BY <1>1, <1>5, <1>6, <1>7, <1>8, <1>9, UndebitedKeeps

(***************************************************************************)
(* What the other services do moves posted and external together.          *)
(***************************************************************************)
LEMMA OthersKeep ==
    ASSUME LedgerInvariant, UNCHANGED <<reserved, call, active, faults>>,
           posted' \in Balances, held' \in {0, Reserve}, held' <= posted'["others"],
           external' \in [Pools -> Int], ExternalBounded',
           \A p \in Pools : posted'[p] - posted[p] = external'[p] - external[p]
    PROVE  LedgerInvariant'
  <1>1. TypeOK'
    BY DEF LedgerInvariant, TypeOK
  <1>2. DebitedCalls' = DebitedCalls
    BY DEF DebitedCalls, Debited
  <1>3. LedgerAdds'
    <2> SUFFICES ASSUME NEW p \in Pools
                 PROVE  posted'[p] = Opening[p] + external'[p]
                                       - SumOver(Taken(p), DebitedCalls)'
      BY DEF LedgerAdds
    <2>1. SumOver(Taken(p), DebitedCalls)' = SumOver(Taken(p), DebitedCalls)
      BY <1>2, SpentSame DEF LedgerInvariant
    <2>2. /\ SumOver(Taken(p), DebitedCalls) \in Nat /\ Opening[p] \in Nat
          /\ posted[p] \in Nat /\ external[p] \in Int
      BY SpentType, BalanceBound, ConstantsType DEF LedgerInvariant
    <2>3. posted'[p] \in Nat /\ external'[p] \in Int
      BY DEF Balances, U64
    <2>4. posted[p] = Opening[p] + external[p] - SumOver(Taken(p), DebitedCalls)
      BY DEF LedgerInvariant, LedgerAdds
    <2> QED
      BY <2>1, <2>2, <2>3, <2>4
  <1>4. TriesLeft'
    BY DEF LedgerInvariant, TriesLeft
  <1> QED
    BY <1>1, <1>3, <1>4 DEF LedgerInvariant

LEMMA CreditKeeps ==
    ASSUME LedgerInvariant, NEW p \in Pools, Credit(p)
    PROVE  LedgerInvariant'
  <1>1. PICK amount \in Credits :
          /\ external[p] + amount <= MaxCredited
          /\ posted' = [posted EXCEPT ![p] = @ + amount]
          /\ external' = [external EXCEPT ![p] = @ + amount]
    BY DEF Credit
  <1>2. UNCHANGED <<held, reserved, active, call, faults>>
    BY DEF Credit
  <1>3. /\ posted \in Balances /\ external \in [Pools -> Int] /\ amount \in Nat
        /\ held \in {0, Reserve} /\ held <= posted["others"] /\ Reserve \in Nat
        /\ \A q \in Pools : posted[q] \in Nat
    BY ConstantsType, BalanceBound DEF LedgerInvariant, TypeOK
  <1>4. posted[p] + amount \in U64
    <2>1. posted[p] <= Opening[p] + external[p] /\ posted[p] \in Nat /\ external[p] \in Int
      BY BalanceBound
    <2>2. /\ Opening[p] \in Nat /\ Opening[p] + MaxCredited < Word
          /\ Word \in Nat /\ MaxCredited \in Nat
      BY ConstantsType
    <2> QED
      BY <1>1, <1>3, <2>1, <2>2 DEF U64
  <1>5. posted' \in Balances
    BY <1>1, <1>3, <1>4 DEF Balances
  <1>6. posted["others"] <= posted'["others"]
    BY <1>1, <1>3 DEF Balances, Pools
  <1>7. held' <= posted'["others"]
    BY <1>2, <1>3, <1>5, <1>6 DEF Balances, U64, Pools
  <1>8. external' \in [Pools -> Int]
    BY <1>1, <1>3
  <1>9. ExternalBounded'
    BY <1>1, <1>3 DEF LedgerInvariant, ExternalBounded
  <1>10. \A q \in Pools : posted'[q] - posted[q] = external'[q] - external[q]
    <2> SUFFICES ASSUME NEW q \in Pools
                 PROVE  posted'[q] - posted[q] = external'[q] - external[q]
      OBVIOUS
    <2>1. posted[q] \in Nat /\ external[q] \in Int
      BY <1>3
    <2>2. CASE q = p
      <3>1. posted'[q] = posted[q] + amount /\ external'[q] = external[q] + amount
        BY <1>1, <1>3, <2>2 DEF Balances
      <3> QED
        BY <1>3, <2>1, <3>1
    <2>3. CASE q # p
      <3>1. posted'[q] = posted[q] /\ external'[q] = external[q]
        BY <1>1, <1>3, <2>3 DEF Balances
      <3> QED
        BY <2>1, <3>1
    <2> QED
      BY <2>2, <2>3
  <1> QED
    BY <1>2, <1>3, <1>5, <1>7, <1>8, <1>9, <1>10, OthersKeep

LEMMA HoldKeeps ==
    ASSUME LedgerInvariant, Hold \/ SetStatus
    PROVE  LedgerInvariant'
  <1>1. UNCHANGED <<posted, external, call, faults>> /\ active' \in BOOLEAN
        /\ reserved' \in BOOLEAN
        /\ held' \in {0, Reserve} /\ held' <= posted["others"]
    BY DEF Hold, SetStatus, LedgerInvariant, TypeOK
  <1>2. TypeOK'
    BY <1>1 DEF LedgerInvariant, TypeOK
  <1>3. DebitedCalls' = DebitedCalls
    BY <1>1 DEF DebitedCalls, Debited
  <1>4. LedgerAdds'
    <2>1. \A p \in Pools :
            SumOver(Taken(p), DebitedCalls)' = SumOver(Taken(p), DebitedCalls)
      BY <1>1, <1>3, SpentSame DEF LedgerInvariant
    <2> QED
      BY <1>1, <2>1 DEF LedgerInvariant, LedgerAdds
  <1> QED
    BY <1>1, <1>2, <1>4 DEF LedgerInvariant, ExternalBounded, TriesLeft

LEMMA UnholdKeeps ==
    ASSUME LedgerInvariant, Unhold
    PROVE  LedgerInvariant'
  <1>1. /\ held' = 0 /\ UNCHANGED <<reserved, active, call, faults>>
        /\ held \in {0, Reserve} /\ Reserve \in Nat /\ held <= posted["others"]
        /\ posted \in Balances /\ external \in [Pools -> Int]
        /\ \A q \in Pools : posted[q] \in Nat
    BY ConstantsType, BalanceBound DEF Unhold, LedgerInvariant, TypeOK
  <1>2. CASE UNCHANGED <<posted, external>>
    <2>1. \A p \in Pools : posted'[p] - posted[p] = external'[p] - external[p]
      BY <1>1, <1>2
    <2>2. posted' \in Balances /\ external' \in [Pools -> Int] /\ held' <= posted'["others"]
      BY <1>1, <1>2 DEF Pools
    <2>3. ExternalBounded'
      BY <1>2 DEF LedgerInvariant, ExternalBounded
    <2> QED
      BY <1>1, <2>1, <2>2, <2>3, OthersKeep
  <1>3. CASE /\ posted' = [posted EXCEPT !["others"] = @ - held]
             /\ external' = [external EXCEPT !["others"] = @ - held]
    <2>1. /\ posted["others"] - held \in U64 /\ 0 <= posted["others"] - held
          /\ posted["others"] \in Nat /\ held \in Nat
          /\ external["others"] \in Int /\ external["self"] \in Int /\ posted["self"] \in Nat
      BY <1>1, WordAssumption DEF Balances, U64, Pools
    <2>2. /\ posted'["others"] = posted["others"] - held /\ posted'["self"] = posted["self"]
          /\ external'["others"] = external["others"] - held
          /\ external'["self"] = external["self"]
      BY <1>1, <1>3 DEF Balances, Pools
    <2>3. \A p \in Pools : posted'[p] - posted[p] = external'[p] - external[p]
      BY <2>1, <2>2 DEF Pools
    <2>4. posted' \in Balances /\ external' \in [Pools -> Int]
      <3>1. external["others"] - held \in Int
        BY <2>1
      <3>2. posted' \in Balances
        BY <1>1, <1>3, <2>1 DEF Balances
      <3>3. external' \in [Pools -> Int]
        BY <1>1, <1>3, <3>1
      <3> QED
        BY <3>2, <3>3
    <2>5. held' <= posted'["others"]
      BY <1>1, <2>1, <2>2
    <2>6. ExternalBounded'
      <3>1. /\ external["others"] <= MaxCredited /\ external["self"] <= MaxCredited
            /\ MaxCredited \in Nat
        BY ConstantsType DEF LedgerInvariant, ExternalBounded, Pools
      <3>2. external'["others"] <= MaxCredited /\ external'["self"] <= MaxCredited
        BY <2>1, <2>2, <3>1
      <3> QED
        BY <3>2 DEF ExternalBounded, Pools
    <2> QED
      BY <1>1, <2>3, <2>4, <2>5, <2>6, OthersKeep
  <1> QED
    BY <1>2, <1>3 DEF Unhold

(***************************************************************************)
(* The ledger invariant holds at the start and through every step.         *)
(***************************************************************************)
LEMMA LedgerInit == Init => LedgerInvariant
<1> SUFFICES ASSUME Init PROVE LedgerInvariant
  OBVIOUS
<1>1. Nothing \in Balances
  BY ConstantsType DEF Nothing, Balances
<1>2. Idle \in Call
  BY <1>1, ConstantsType DEF Idle, Request, Call, Kinds
<1>3. posted \in Balances /\ posted["others"] \in Nat /\ posted = Opening
  BY ConstantsType, PaymentAssumption DEF Init, Pools
<1>4. external \in [Pools -> Int] /\ \A p \in Pools : external[p] = 0
  BY DEF Init, Nothing
<1>5. faults \in 0 .. MaxFaults /\ held = 0 /\ active \in BOOLEAN
  BY ConstantsType DEF Init
<1>10. reserved \in BOOLEAN
  BY DEF Init
<1>6. TypeOK
  BY <1>2, <1>3, <1>4, <1>5, <1>10 DEF Init, TypeOK
<1>7. DebitedCalls = {} /\ TriesLeft
  BY ConstantsType DEF Init, Idle, Request, DebitedCalls, Debited, TriesLeft
<1>8. LedgerAdds
  <2>1. \A p \in Pools : SumOver(Taken(p), DebitedCalls) = 0
    BY <1>7, SumEmpty
  <2>2. \A p \in Pools : Opening[p] \in Nat
    BY ConstantsType
  <2> QED
    BY <1>3, <1>4, <2>1, <2>2 DEF LedgerAdds
<1>9. ExternalBounded
  BY <1>4, ConstantsType DEF ExternalBounded
<1> QED
  BY <1>6, <1>7, <1>8, <1>9 DEF LedgerInvariant

LEMMA LedgerStep == LedgerInvariant /\ [Next]_vars => LedgerInvariant'
<1> SUFFICES ASSUME LedgerInvariant, [Next]_vars PROVE LedgerInvariant'
  OBVIOUS
<1>0. faults \in 0 .. MaxFaults /\ MaxFaults \in Nat
  BY ConstantsType DEF LedgerInvariant, TypeOK
<1>1. ASSUME NEW c \in Calls, Handle(c) PROVE LedgerInvariant'
  <2>1. CASE Receive(c)
    BY <2>1, ReceiveKeeps
  <2>2. CASE Admit(c)
    <3>1. PICK to \in {"admitted", "inactive", "invalid_mcc"} : Step(c, "looked", to)
      BY <2>2 DEF Admit
    <3>2. UNCHANGED <<posted, held, reserved, external, active, faults>>
      BY <2>2 DEF Admit
    <3> QED
      BY <1>0, <3>1, <3>2, MoveKeeps DEF PCs, Working, Answered
  <2>3. CASE ReadBalance(c)
    BY <2>3, ReadBalanceKeeps
  <2>4. CASE InsertRows(c)
    <3>1. PICK to \in {"inserted", "duplicate"} : Step(c, "split", to)
      BY <2>4 DEF InsertRows
    <3>2. UNCHANGED <<posted, held, reserved, external, active, faults>>
      BY <2>4 DEF InsertRows
    <3> QED
      BY <1>0, <3>1, <3>2, MoveKeeps DEF PCs, Working, InTransaction, Answered
  <2>5. CASE MoveMoney(c)
    BY <2>5, MoveMoneyKeeps
  <2>6. CASE Rejected(c)
    BY <2>6, RejectedKeeps
  <2>7. CASE Commit(c)
    <3>1. Step(c, "moved", "done") /\ UNCHANGED <<posted, held, reserved, external, active, faults>>
      BY <2>7 DEF Commit
    <3> QED
      BY <1>0, <3>1, MoveKeeps DEF PCs, Working, InTransaction, Answered
  <2> QED
    BY <1>1, <2>1, <2>2, <2>3, <2>4, <2>5, <2>6, <2>7 DEF Handle
<1>2. ASSUME NEW c \in Calls, Fail(c) PROVE LedgerInvariant'
  <2>1. /\ call[c].pc \in Working /\ faults' \in 0 .. MaxFaults
        /\ UNCHANGED <<posted, held, reserved, external, active>>
    BY <1>0, <1>2 DEF Fail
  <2>2. CASE call[c].pc = "moved"
    <3>1. Step(c, "moved", "orphaned")
      BY <1>2, <2>2 DEF Fail, Step
    <3> QED
      BY <2>1, <3>1, MoveKeeps DEF PCs, Working, InTransaction, Gone
  <2>3. CASE call[c].pc # "moved"
    <3>1. Step(c, call[c].pc, "lost")
      BY <1>2, <2>3 DEF Fail, Step
    <3> QED
      BY <2>1, <2>3, <3>1, MoveKeeps DEF PCs, Working, InTransaction, Gone
  <2> QED
    BY <2>2, <2>3
<1>3. CASE UNCHANGED vars
  <2>1. TypeOK' /\ DebitedCalls' = DebitedCalls
    BY <1>3 DEF vars, LedgerInvariant, TypeOK, DebitedCalls, Debited
  <2>2. \A p \in Pools :
          SumOver(Taken(p), DebitedCalls)' = SumOver(Taken(p), DebitedCalls)
    BY <1>3, <2>1, SpentSame DEF vars, LedgerInvariant
  <2> QED
    BY <1>3, <2>1, <2>2
    DEF vars, LedgerInvariant, LedgerAdds, ExternalBounded, TriesLeft
<1> QED
  BY <1>1, <1>2, <1>3, CreditKeeps, HoldKeeps, UnholdKeeps DEF Next

(***************************************************************************)
(* Types, and no pool overdrawn: neither balance ever leaves the range of  *)
(* a u64, and what is reserved is there.                                   *)
(***************************************************************************)
THEOREM TypeCorrect == Spec => []TypeOK
<1>1. LedgerInvariant => TypeOK
  BY DEF LedgerInvariant
<1> QED
  BY <1>1, LedgerInit, LedgerStep, PTL DEF Spec

(***************************************************************************)
(* A step of a handler changes that handler only, and only the loss of its *)
(* transaction makes an orphan.                                            *)
(***************************************************************************)
LEMMA HandleAlone ==
    ASSUME TypeOK, NEW c \in Calls, Handle(c)
    PROVE  /\ call'[c].pc # "orphaned" /\ faults' = faults
           /\ \A d \in Calls \ {c} : call'[d] = call[d]
  <1>1. ASSUME NEW from, NEW to \in PCs, Step(c, from, to), to # "orphaned"
        PROVE  call'[c].pc # "orphaned" /\ \A d \in Calls \ {c} : call'[d] = call[d]
    BY <1>1, MoveCall
  <1>2. CASE Receive(c)
    BY <1>2 DEF Receive, TypeOK, Request
  <1>3. CASE Admit(c)
    <2>1. PICK to \in {"admitted", "inactive", "invalid_mcc"} : Step(c, "looked", to)
      BY <1>3 DEF Admit
    <2> QED
      BY <1>1, <1>3, <2>1 DEF Admit, PCs, Working, Answered
  <1>4. CASE ReadBalance(c)
    BY <1>4 DEF ReadBalance, TypeOK, Call
  <1>5. CASE InsertRows(c)
    <2>1. PICK to \in {"inserted", "duplicate"} : Step(c, "split", to)
      BY <1>5 DEF InsertRows
    <2> QED
      BY <1>1, <1>5, <2>1 DEF InsertRows, PCs, Working, InTransaction, Answered
  <1>6. CASE MoveMoney(c)
    BY <1>1, <1>6 DEF MoveMoney, PCs, Working, InTransaction
  <1>7. CASE Rejected(c)
    BY <1>7 DEF Rejected, TypeOK, Call
  <1>8. CASE Commit(c)
    BY <1>1, <1>8 DEF Commit, PCs, Answered
  <1> QED
    BY <1>2, <1>3, <1>4, <1>5, <1>6, <1>7, <1>8 DEF Handle

LEMMA FailAlone ==
    ASSUME TypeOK, NEW c \in Calls, Fail(c)
    PROVE  /\ call[c].pc \in Working /\ faults' = faults + 1
           /\ Step(c, call[c].pc, IF call[c].pc = "moved" THEN "orphaned" ELSE "lost")
           /\ \A d \in Calls \ {c} : call'[d] = call[d]
  BY DEF Fail, Step, TypeOK

OrphansWithin == Cardinality(Orphans) <= faults

LEMMA OrphansStep ==
    LedgerInvariant /\ OrphansWithin /\ [Next]_vars => OrphansWithin'
<1> SUFFICES ASSUME LedgerInvariant, OrphansWithin, [Next]_vars PROVE OrphansWithin'
  OBVIOUS
<1>1. /\ TypeOK /\ faults \in Nat /\ IsFiniteSet(Orphans) /\ Cardinality(Orphans) \in Nat
  BY PaymentAssumption, ConstantsType, FS_Subset, FS_CardinalityType
  DEF LedgerInvariant, TypeOK, Orphans
<1>2. ASSUME Orphans' \subseteq Orphans, faults' = faults PROVE OrphansWithin'
  <2>1. Orphans' \in SUBSET Orphans
    BY <1>2
  <2>2. Cardinality(Orphans') <= Cardinality(Orphans) /\ Cardinality(Orphans') \in Nat
    BY <1>1, <2>1, FS_Subset, FS_CardinalityType
  <2> QED
    BY <1>1, <1>2, <2>2 DEF OrphansWithin
<1>3. ASSUME NEW c \in Calls, Handle(c) PROVE OrphansWithin'
  BY <1>1, <1>2, <1>3, HandleAlone DEF Orphans
<1>4. ASSUME NEW c \in Calls, Fail(c) PROVE OrphansWithin'
  <2>1. Orphans' \in SUBSET (Orphans \cup {c})
    BY <1>1, <1>4, FailAlone DEF Orphans
  <2>2. /\ IsFiniteSet(Orphans \cup {c})
        /\ \/ Cardinality(Orphans \cup {c}) = Cardinality(Orphans)
           \/ Cardinality(Orphans \cup {c}) = Cardinality(Orphans) + 1
    BY <1>1, FS_AddElement
  <2>3. /\ Cardinality(Orphans') <= Cardinality(Orphans \cup {c})
        /\ Cardinality(Orphans') \in Nat
    BY <2>1, <2>2, FS_Subset, FS_CardinalityType
  <2>4. faults' = faults + 1
    BY <1>1, <1>4, FailAlone
  <2> QED
    BY <1>1, <2>2, <2>3, <2>4 DEF OrphansWithin
<1>5. CASE UNCHANGED <<call, faults>>
  BY <1>2, <1>5 DEF Orphans
<1> QED
  BY <1>3, <1>4, <1>5 DEF Next, Credit, Hold, Unhold, SetStatus, vars

(***************************************************************************)
(* With no handler between the TigerBeetle call and the commit, each pool  *)
(* holds its deposits minus its payments as the committed rows tell them,  *)
(* less the debits of at most as many orphans as transactions were lost,   *)
(* after any interleaving of any number of requests, credits and           *)
(* reservations.                                                           *)
(***************************************************************************)
THEOREM ConservationHolds == Spec => []Conservation
<1>1. LedgerInvariant /\ OrphansWithin => Conservation
  <2> SUFFICES ASSUME LedgerInvariant, \A c \in Calls : call[c].pc # "moved",
                      NEW p \in Pools
               PROVE  posted[p] = Booked(p) - SumOver(Taken(p), Orphans)
    BY DEF Conservation, OrphansWithin
  <2> DEFINE booked == {c \in Calls : Committed(c)}
             orphans == Orphans
             f == Taken(p)
  <2>1. DebitedCalls = booked \cup orphans /\ booked \cap orphans = {}
    BY DEF DebitedCalls, Debited, Committed, Orphans
  <2>2. /\ IsFiniteSet(booked) /\ IsFiniteSet(orphans)
        /\ \A c \in booked \cup orphans : f[c] \in Nat
        /\ \A c \in booked : f[c] \in Nat
        /\ \A c \in orphans : f[c] \in Nat
    <3>1. IsFiniteSet(booked) /\ IsFiniteSet(orphans)
      BY PaymentAssumption, FS_Subset DEF Orphans
    <3>2. \A c \in Calls : f[c] \in Nat
      BY TakeType DEF Taken, LedgerInvariant
    <3> QED
      BY <3>1, <3>2 DEF Orphans
  <2>3. /\ posted[p] = Opening[p] + external[p] - SumOver(f, DebitedCalls)
        /\ Booked(p) = Opening[p] + external[p] - SumOver(f, booked)
        /\ Opening[p] \in Nat /\ external[p] \in Int
    BY BalanceBound, ConstantsType DEF LedgerInvariant, LedgerAdds, Booked
  <2> HIDE DEF booked, orphans, f
  <2>4. /\ SumOver(f, booked \cup orphans) = SumOver(f, booked) + SumOver(f, orphans)
        /\ SumOver(f, booked) \in Nat /\ SumOver(f, orphans) \in Nat
    BY <2>1, <2>2, SumUnion, SumType
  <2>5. posted[p] = Booked(p) - SumOver(f, orphans)
    BY <2>1, <2>3, <2>4
  <2> QED
    BY <2>5 DEF f, orphans
<1>2. Init => OrphansWithin
  <2>1. Init => Orphans = {} /\ faults = 0
    BY DEF Init, Orphans, Idle, Request
  <2> QED
    BY <2>1, FS_EmptySet DEF OrphansWithin
<1> QED
  BY <1>1, <1>2, LedgerInit, LedgerStep, OrphansStep, PTL DEF Spec

-----------------------------------------------------------------------------

(***************************************************************************)
(* Why a key debits once: of the handlers whose rows are in the table,     *)
(* committed or not, no two carry the same key.                            *)
(***************************************************************************)
InTable == InTransaction \cup {"done"}

KeysExclusive ==
    \A c, d \in Calls :
        /\ c # d /\ call[c].pc \in InTable /\ call[d].pc \in InTable
        /\ call[c].key = call[d].key /\ call[c].key # NoKey
        => RowPools(c) = {} \/ RowPools(d) = {}

LEMMA KeysFrame ==
    ASSUME KeysExclusive,
           \A c \in Calls :
               \/ call'[c].pc \notin InTable
               \/ /\ call[c].pc \in InTable /\ call'[c].key = call[c].key
                  /\ call'[c].kind = call[c].kind /\ call'[c].take = call[c].take
    PROVE  KeysExclusive'
  <1>1. \A c \in Calls : call'[c].pc \in InTable => RowPools(c)' = RowPools(c)
    BY DEF RowPools
  <1> QED
    BY <1>1 DEF KeysExclusive

LEMMA InsertExclusive ==
    ASSUME TypeOK, KeysExclusive, NEW c \in Calls, InsertRows(c)
    PROVE  KeysExclusive'
  <1>1. PICK to \in {"inserted", "duplicate"} : Step(c, "split", to)
    BY DEF InsertRows
  <1>2. /\ call'[c].pc = to /\ call'[c].key = call[c].key
        /\ call'[c].kind = call[c].kind /\ call'[c].take = call[c].take
        /\ \A d \in Calls \ {c} : call'[d] = call[d]
    BY <1>1, MoveCall DEF PCs, Working, InTransaction, Answered
  <1>3. CASE to = "duplicate"
    BY <1>2, <1>3, KeysFrame DEF InTable, InTransaction
  <1>4. CASE to = "inserted"
    <2>1. \A d \in Calls \ {c} :
            call[d].pc \in InTable =>
              ~(Carries(c, call[c].key) /\ Carries(d, call[c].key))
      <3>1. ~\E d \in Calls : Committed(d) /\ Carries(c, call[c].key)
                                            /\ Carries(d, call[c].key)
        <4>1. call'[c].pc = "inserted"
          BY <1>2, <1>4
        <4> SUFFICES ASSUME \E d \in Calls : Committed(d) /\ Carries(c, call[c].key)
                                                        /\ Carries(d, call[c].key)
                     PROVE  FALSE
          OBVIOUS
        <4>2. Step(c, "split", "duplicate")
          BY DEF InsertRows
        <4>3. call'[c].pc = "duplicate"
          BY <4>2, MoveCall DEF PCs, Answered
        <4> QED
          BY <4>1, <4>3
      <3> QED
        BY <3>1 DEF InsertRows, InTable, Committed
    <2>2. \A d \in Calls : RowPools(d)' = RowPools(d)
      BY <1>2 DEF RowPools
    <2> SUFFICES ASSUME NEW a \in Calls, NEW b \in Calls, a # b,
                        call'[a].pc \in InTable, call'[b].pc \in InTable,
                        call'[a].key = call'[b].key, call'[a].key # NoKey
                 PROVE  RowPools(a)' = {} \/ RowPools(b)' = {}
      BY DEF KeysExclusive
    <2>3. CASE a # c /\ b # c
      BY <1>2, <2>2, <2>3 DEF KeysExclusive
    <2>4. CASE a = c \/ b = c
      BY <1>2, <2>1, <2>2, <2>4 DEF Carries
    <2> QED
      BY <2>3, <2>4
  <1> QED
    BY <1>3, <1>4

LEMMA KeysStep == TypeOK /\ KeysExclusive /\ [Next]_vars => KeysExclusive'
<1> SUFFICES ASSUME TypeOK, KeysExclusive, [Next]_vars PROVE KeysExclusive'
  OBVIOUS
<1>1. ASSUME NEW c \in Calls, NEW from, NEW to \in PCs, Step(c, from, to),
             to \in InTable => from \in InTable
      PROVE  KeysExclusive'
  BY <1>1, MoveCall, KeysFrame
<1>2. ASSUME NEW c \in Calls, call'[c].pc \notin InTable,
             \A d \in Calls \ {c} : call'[d] = call[d]
      PROVE  KeysExclusive'
  BY <1>2, KeysFrame
<1>3. ASSUME NEW c \in Calls, Handle(c) PROVE KeysExclusive'
  <2>1. CASE Receive(c)
    <3>1. /\ call'[c].pc \in {"looked", "replayed"}
          /\ \A d \in Calls \ {c} : call'[d] = call[d]
      BY <2>1 DEF Receive, TypeOK, Request
    <3> QED
      BY <1>2, <3>1 DEF InTable, InTransaction
  <2>2. CASE Admit(c)
    <3>1. PICK to \in {"admitted", "inactive", "invalid_mcc"} : Step(c, "looked", to)
      BY <2>2 DEF Admit
    <3> QED
      BY <1>1, <3>1 DEF PCs, Working, Answered, InTable, InTransaction
  <2>3. CASE ReadBalance(c)
    <3>1. /\ call'[c].pc \in {"split", "insufficient"}
          /\ \A d \in Calls \ {c} : call'[d] = call[d]
      BY <2>3 DEF ReadBalance, TypeOK, Call
    <3> QED
      BY <1>2, <3>1 DEF InTable, InTransaction
  <2>4. CASE InsertRows(c)
    BY <2>4, InsertExclusive
  <2>5. CASE MoveMoney(c)
    BY <1>1, <2>5 DEF MoveMoney, PCs, Working, InTable, InTransaction
  <2>6. CASE Rejected(c)
    <3>1. /\ call'[c].pc \in {"admitted", "exceeds"}
          /\ \A d \in Calls \ {c} : call'[d] = call[d]
      BY <2>6 DEF Rejected, TypeOK, Call
    <3> QED
      BY <1>2, <3>1 DEF InTable, InTransaction
  <2>7. CASE Commit(c)
    BY <1>1, <2>7 DEF Commit, PCs, Answered, InTable, InTransaction
  <2> QED
    BY <1>3, <2>1, <2>2, <2>3, <2>4, <2>5, <2>6, <2>7 DEF Handle
<1>4. ASSUME NEW c \in Calls, Fail(c) PROVE KeysExclusive'
  <2>1. PICK to \in Gone : call' = [call EXCEPT ![c].pc = to]
    BY <1>4 DEF Fail, Gone
  <2>2. call'[c].pc = to /\ \A d \in Calls \ {c} : call'[d] = call[d]
    BY <2>1 DEF TypeOK, Call
  <2> QED
    BY <1>2, <2>2 DEF Gone, InTable, InTransaction
<1>5. CASE UNCHANGED call
  BY <1>5, KeysFrame
<1> QED
  BY <1>3, <1>4, <1>5 DEF Next, Credit, Hold, Unhold, SetStatus, vars

(***************************************************************************)
(* Two requests with the same idempotency key never both take money, as    *)
(* long as the transaction of neither is lost, however their lookups,      *)
(* inserts, transfers and commits interleave.                              *)
(***************************************************************************)
THEOREM OneDebitHolds == Spec => []OneDebitPerKey
<1>1. Init => KeysExclusive
  BY DEF Init, Idle, Request, KeysExclusive, InTable, InTransaction
<1>2. KeysExclusive => OneDebitPerKey
  BY DEF KeysExclusive, OneDebitPerKey, InTable, InTransaction
<1>3. LedgerInvariant => TypeOK
  BY DEF LedgerInvariant
<1> QED
  BY <1>1, <1>2, <1>3, LedgerInit, LedgerStep, KeysStep, PTL DEF Spec

(***************************************************************************)
(* Spending order and retries.  Both follow from one observation: while no *)
(* reversal has reserved money, a pool shrinks only by the debits of other *)
(* requests, so a decision that no longer fits has been overtaken by one,  *)
(* and a decision that drew on the self pool wanted all of the others pool.*)
(***************************************************************************)
Competitors(c) == {d \in Calls \ {c} : Debited(d)}

Decided(c) == call[c].pc \in {"split", "inserted"}

NobodyDraws == ~reserved => held = 0 /\ external["others"] >= 0

WantsAllOthers ==
    external["others"] = 0 /\ ~reserved =>
      \A c \in Calls :
        Decided(c) /\ call[c].kind = "payment" /\ call[c].take["self"] > 0
          => posted["others"] <= call[c].take["others"]

Overtaken ==
    ~reserved =>
      \A c \in Calls :
        Decided(c) /\ ~CanDebit(call[c].take)
          => call[c].attempt + 1 <= Cardinality(Competitors(c))

SpendInvariant ==
    LedgerInvariant /\ NobodyDraws /\ WantsAllOthers /\ Overtaken
                    /\ OthersSpentFirst /\ RetriesAreEarned

LEMMA CompetitorsType ==
    ASSUME NEW c \in Calls
    PROVE  IsFiniteSet(Competitors(c)) /\ Cardinality(Competitors(c)) \in Nat
  <1>1. Competitors(c) \subseteq Calls
    BY DEF Competitors
  <1> QED
    BY <1>1, PaymentAssumption, FS_Subset, FS_CardinalityType

(***************************************************************************)
(* A handler's step that moves no money.  A fresh decision fits the        *)
(* balance it was taken from.                                              *)
(***************************************************************************)
SpendFrame(c) ==
    /\ UNCHANGED <<posted, held, reserved, external>>
    /\ \A d \in Calls \ {c} : call'[d] = call[d]
    /\ \/ ~Debited(c) /\ ~Debited(c)'
       \/ /\ Debited(c) /\ Debited(c)'
          /\ call'[c].take = call[c].take /\ call'[c].kind = call[c].kind
    /\ ~reserved => call'[c].attempt <= Cardinality(Competitors(c))
    /\ Decided(c)' =>
         \/ /\ Decided(c) /\ call'[c].kind = call[c].kind
            /\ call'[c].take = call[c].take /\ call'[c].attempt = call[c].attempt
         \/ ~reserved =>
              /\ CanDebit(call'[c].take)
              /\ call'[c].kind = "payment" /\ call'[c].take["self"] > 0
                   => posted["others"] <= call'[c].take["others"]

LEMMA FrameSpends ==
    ASSUME SpendInvariant, LedgerInvariant', NEW c \in Calls, SpendFrame(c)
    PROVE  SpendInvariant'
  <1>1. \A d \in Calls : Debited(d)' <=> Debited(d)
    BY DEF SpendFrame, Debited
  <1>2. \A d \in Calls : Competitors(d)' = Competitors(d)
    BY <1>1 DEF Competitors
  <1>3. NobodyDraws'
    BY DEF SpendFrame, SpendInvariant, NobodyDraws
  <1>4. WantsAllOthers'
    BY DEF SpendFrame, SpendInvariant, WantsAllOthers, Decided
  <1>5. Overtaken'
    <2> SUFFICES ASSUME ~reserved, NEW d \in Calls, Decided(d)',
                        ~(CanDebit(call[d].take)')
                 PROVE  call'[d].attempt + 1 <= Cardinality(Competitors(d))
      BY <1>2 DEF Overtaken, SpendFrame
    <2>1. ~CanDebit(call'[d].take)
      BY DEF CanDebit, SpendFrame
    <2>2. Decided(d) /\ call'[d].take = call[d].take /\ call'[d].attempt = call[d].attempt
      BY <2>1 DEF SpendFrame, Decided
    <2> QED
      BY <2>1, <2>2 DEF SpendInvariant, Overtaken
  <1>6. OthersSpentFirst'
    BY <1>1 DEF SpendFrame, SpendInvariant, OthersSpentFirst, Debited
  <1>7. RetriesAreEarned'
    <2> SUFFICES ASSUME ~reserved, NEW d \in Calls
                 PROVE  call'[d].attempt <= Cardinality(Competitors(d))
      BY <1>2 DEF RetriesAreEarned, SpendFrame, Competitors
    <2> QED
      BY DEF SpendFrame, SpendInvariant, RetriesAreEarned, Competitors
  <1> QED
    BY <1>3, <1>4, <1>5, <1>6, <1>7 DEF SpendInvariant

(***************************************************************************)
(* The steps of a handler that move no money, one by one.                  *)
(***************************************************************************)
LEMMA AttemptEarned ==
    ASSUME SpendInvariant, NEW c \in Calls, ~reserved
    PROVE  call[c].attempt <= Cardinality(Competitors(c))
  BY DEF SpendInvariant, RetriesAreEarned, Competitors

LEMMA MoveFrame ==
    ASSUME SpendInvariant, NEW c \in Calls, NEW from, NEW to \in PCs, Step(c, from, to),
           UNCHANGED <<posted, held, reserved, external>>,
           \/ from \notin {"moved", "done", "orphaned"} /\ to \notin {"moved", "done", "orphaned"}
           \/ from = "moved" /\ to \in {"done", "orphaned"},
           to \in {"split", "inserted"} => from \in {"split", "inserted"}
    PROVE  SpendFrame(c)
  <1>1. /\ call[c].pc = from /\ call'[c].pc = to
        /\ call'[c].take = call[c].take /\ call'[c].attempt = call[c].attempt
        /\ call'[c].kind = call[c].kind
        /\ \A d \in Calls \ {c} : call'[d] = call[d]
    BY MoveCall DEF SpendInvariant, LedgerInvariant
  <1> QED
    BY <1>1, AttemptEarned DEF SpendFrame, Debited, Decided

LEMMA ReceiveFrame ==
    ASSUME SpendInvariant, NEW c \in Calls, Receive(c)
    PROVE  SpendFrame(c)
  <1>1. call \in [Calls -> Call] /\ call[c].pc = "idle"
        /\ UNCHANGED <<posted, held, reserved, external>>
    BY DEF SpendInvariant, LedgerInvariant, TypeOK, Receive
  <1>2. PICK kind, amount, key :
          \/ call' = [call EXCEPT ![c] = Request("looked", kind, amount, key, Nothing)]
          \/ \E row : call' = [call EXCEPT ![c] =
                               Request("replayed", kind, amount, key, row)]
    BY Zenon DEF Receive
  <1>3. /\ call'[c].pc \in {"looked", "replayed"} /\ call'[c].attempt = 0
        /\ \A d \in Calls \ {c} : call'[d] = call[d]
    BY <1>1, <1>2 DEF Request
  <1>4. call'[c].attempt <= Cardinality(Competitors(c))
    BY <1>3, CompetitorsType
  <1> QED
    BY <1>1, <1>3, <1>4 DEF SpendFrame, Debited, Decided

LEMMA RejectedFrame ==
    ASSUME SpendInvariant, NEW c \in Calls, Rejected(c)
    PROVE  SpendFrame(c)
  <1> DEFINE tries == call[c].attempt + 1
             to == IF call[c].kind = "payment" /\ tries < MaxTries
                   THEN "admitted" ELSE "exceeds"
  <1>1. /\ call[c].pc = "inserted" /\ ~CanDebit(call[c].take)
        /\ call' = [call EXCEPT ![c].attempt = tries, ![c].pc = to]
        /\ UNCHANGED <<posted, held, reserved, external>>
    BY DEF Rejected
  <1>2. to \in {"admitted", "exceeds"}
    OBVIOUS
  <1>3. ~reserved => tries <= Cardinality(Competitors(c))
    BY <1>1 DEF SpendInvariant, Overtaken, Decided
  <1> HIDE DEF tries, to
  <1>4. /\ call'[c].pc = to /\ call'[c].attempt = tries
        /\ \A d \in Calls \ {c} : call'[d] = call[d]
    BY <1>1 DEF SpendInvariant, LedgerInvariant, TypeOK, Call
  <1> QED
    BY <1>1, <1>2, <1>3, <1>4 DEF SpendFrame, Debited, Decided

(***************************************************************************)
(* What ReadBalance decides fits what it has read; a payment takes from    *)
(* the self pool only after all of the others pool.                        *)
(***************************************************************************)
LEMMA DecisionFits ==
    ASSUME SpendInvariant, ~reserved, NEW amount \in U64
    PROVE  /\ Covers(posted, amount) =>
                /\ CanDebit(Split(posted, amount))
                /\ Split(posted, amount)["self"] > 0
                     => posted["others"] <= Split(posted, amount)["others"]
           /\ posted["self"] >= amount =>
                CanDebit([Nothing EXCEPT !["self"] = amount])
  <1>1. posted \in Balances /\ held = 0
        /\ posted["others"] \in Nat /\ posted["self"] \in Nat
    BY DEF SpendInvariant, LedgerInvariant, TypeOK, NobodyDraws, Balances, U64, Pools
  <1>2. ASSUME Covers(posted, amount)
        PROVE  /\ CanDebit(Split(posted, amount))
               /\ Split(posted, amount)["self"] > 0
                    => posted["others"] <= Split(posted, amount)["others"]
    <2> DEFINE take == Split(posted, amount)
    <2>1. IsDivision(take, posted, amount) /\ OthersFirst(take, posted)
      BY <1>1, <1>2, SplitCorrect
    <2> HIDE DEF take
    <2>2. /\ take["others"] <= posted["others"] /\ take["self"] <= posted["self"]
          /\ take["self"] > 0 => take["others"] = posted["others"]
      BY <2>1 DEF IsDivision, OthersFirst, Pools
    <2>3. CanDebit(take) /\ (take["self"] > 0 => posted["others"] <= take["others"])
      BY <1>1, <2>2 DEF CanDebit
    <2> QED
      BY <2>3 DEF take
  <1>3. /\ [Nothing EXCEPT !["self"] = amount]["others"] = 0
        /\ [Nothing EXCEPT !["self"] = amount]["self"] = amount
    BY DEF Nothing, Pools
  <1>4. amount \in Nat
    BY DEF U64
  <1> QED
    BY <1>1, <1>2, <1>3, <1>4 DEF CanDebit

LEMMA ReadBalanceFrame ==
    ASSUME SpendInvariant, NEW c \in Calls, ReadBalance(c)
    PROVE  SpendFrame(c)
  <1>1. /\ call \in [Calls -> Call] /\ call[c] \in Call /\ call[c].pc = "admitted"
        /\ call[c].amount \in U64
        /\ UNCHANGED <<posted, held, reserved, external>>
    BY TakeType DEF SpendInvariant, LedgerInvariant, TypeOK, ReadBalance
  <1>2. \A r \in Call : \A take :
          /\ [r EXCEPT !.pc = "split", !.take = take].pc = "split"
          /\ [r EXCEPT !.pc = "split", !.take = take].take = take
          /\ [r EXCEPT !.pc = "split", !.take = take].kind = r.kind
          /\ [r EXCEPT !.pc = "split", !.take = take].attempt = r.attempt
          /\ [r EXCEPT !.pc = "insufficient"].pc = "insufficient"
          /\ [r EXCEPT !.pc = "insufficient"].attempt = r.attempt
    BY DEF Call
  <1>3. ASSUME NEW take,
               call' = [call EXCEPT ![c] = [call[c] EXCEPT !.pc = "split", !.take = take]],
               ~reserved =>
                 /\ CanDebit(take)
                 /\ call[c].kind = "payment" /\ take["self"] > 0
                      => posted["others"] <= take["others"]
        PROVE  SpendFrame(c)
    <2>1. /\ call'[c].pc = "split" /\ call'[c].take = take
          /\ call'[c].kind = call[c].kind /\ call'[c].attempt = call[c].attempt
          /\ \A d \in Calls \ {c} : call'[d] = call[d]
      BY <1>1, <1>2, <1>3
    <2> QED
      BY <1>1, <1>3, <2>1, AttemptEarned DEF SpendFrame, Debited, Decided
  <1>4. ASSUME call' = [call EXCEPT ![c] = [call[c] EXCEPT !.pc = "insufficient"]]
        PROVE  SpendFrame(c)
    <2>1. /\ call'[c].pc = "insufficient" /\ call'[c].attempt = call[c].attempt
          /\ \A d \in Calls \ {c} : call'[d] = call[d]
      BY <1>1, <1>2, <1>4
    <2> QED
      BY <1>1, <2>1, AttemptEarned DEF SpendFrame, Debited, Decided
  <1>5. CASE call[c].kind = "payment"
    <2>1. call' = [call EXCEPT ![c] =
                     IF Covers(posted, call[c].amount)
                     THEN [call[c] EXCEPT !.pc = "split",
                                          !.take = Split(posted, call[c].amount)]
                     ELSE [call[c] EXCEPT !.pc = "insufficient"]]
      BY <1>5 DEF ReadBalance
    <2> QED
      BY <1>1, <1>3, <1>4, <2>1, DecisionFits
  <1>6. CASE call[c].kind # "payment"
    <2>1. call' = [call EXCEPT ![c] =
                     IF posted["self"] >= call[c].amount
                     THEN [call[c] EXCEPT !.pc = "split",
                                          !.take = [Nothing EXCEPT !["self"] = call[c].amount]]
                     ELSE [call[c] EXCEPT !.pc = "insufficient"]]
      BY <1>6 DEF ReadBalance
    <2> QED
      BY <1>1, <1>3, <1>4, <1>6, <2>1, DecisionFits
  <1> QED
    BY <1>5, <1>6

(***************************************************************************)
(* A debit: one more competitor for everybody else, and the one that drew  *)
(* on the self pool takes all that is left of the others pool.             *)
(***************************************************************************)
LEMMA CompetitorsGrow ==
    ASSUME NEW c \in Calls, NEW d \in Calls, ~Debited(c), Debited(c)',
           \A e \in Calls \ {c} : Debited(e)' <=> Debited(e)
    PROVE  /\ Cardinality(Competitors(d)) <= Cardinality(Competitors(d)')
           /\ d # c => Cardinality(Competitors(d)') = Cardinality(Competitors(d)) + 1
  <1>1. CASE d = c
    <2>1. Competitors(d)' = Competitors(d)
      BY <1>1 DEF Competitors
    <2> QED
      BY <1>1, <2>1, CompetitorsType
  <1>2. CASE d # c
    <2>1. Competitors(d)' = Competitors(d) \cup {c} /\ c \notin Competitors(d)
      BY <1>2 DEF Competitors
    <2>2. IsFiniteSet(Competitors(d)) /\ Cardinality(Competitors(d)) \in Nat
      BY CompetitorsType
    <2>3. Cardinality(Competitors(d) \cup {c}) = Cardinality(Competitors(d)) + 1
      BY <2>1, <2>2, FS_AddElement
    <2> QED
      BY <2>1, <2>2, <2>3
  <1> QED
    BY <1>1, <1>2

LEMMA MoveMoneySpends ==
    ASSUME SpendInvariant, LedgerInvariant', NEW c \in Calls, MoveMoney(c)
    PROVE  SpendInvariant'
  <1>1. /\ call[c].pc = "inserted" /\ call'[c].pc = "moved"
        /\ call'[c].take = call[c].take /\ call'[c].attempt = call[c].attempt
        /\ call'[c].kind = call[c].kind
        /\ \A d \in Calls \ {c} : call'[d] = call[d]
    <2>1. Step(c, "inserted", "moved") /\ TypeOK
      BY DEF MoveMoney, SpendInvariant, LedgerInvariant
    <2> QED
      BY <2>1, MoveCall DEF PCs, Working, InTransaction
  <1>2. /\ CanDebit(call[c].take) /\ UNCHANGED <<held, reserved, external>>
        /\ posted' = [p \in Pools |-> posted[p] - call[c].take[p]]
    BY DEF MoveMoney
  <1>3. /\ \A p \in Pools : posted[p] \in Nat /\ posted'[p] \in Nat
        /\ \A d \in Calls : \A p \in Pools : call[d].take[p] \in Nat
        /\ \A d \in Calls : call[d].attempt \in Nat
    <2>1. \A p \in Pools : posted[p] \in Nat /\ posted'[p] \in Nat
      BY DEF SpendInvariant, LedgerInvariant, TypeOK, Balances, U64
    <2> QED
      BY <2>1, TakeType, ConstantsType DEF SpendInvariant, LedgerInvariant
  <1>4. /\ posted'["others"] = posted["others"] - call[c].take["others"]
        /\ \A p \in Pools : posted'[p] <= posted[p]
    BY <1>2, <1>3 DEF Pools
  <1>5. /\ ~Debited(c) /\ Debited(c)'
        /\ \A d \in Calls \ {c} : Debited(d)' <=> Debited(d)
    BY <1>1 DEF Debited
  <1>6. NobodyDraws'
    BY <1>2 DEF SpendInvariant, NobodyDraws
  <1>7. WantsAllOthers'
    <2> SUFFICES ASSUME external["others"] = 0, ~reserved, NEW d \in Calls, Decided(d)',
                        call'[d].kind = "payment", call'[d].take["self"] > 0
                 PROVE  posted'["others"] <= call'[d].take["others"]
      BY <1>2 DEF WantsAllOthers
    <2>1. d # c /\ call'[d] = call[d]
      BY <1>1 DEF Decided
    <2>2. posted["others"] <= call[d].take["others"]
      BY <2>1 DEF SpendInvariant, WantsAllOthers, Decided
    <2> QED
      BY <1>3, <1>4, <2>1, <2>2 DEF Pools
  <1>8. Overtaken'
    <2> SUFFICES ASSUME ~reserved, NEW d \in Calls, Decided(d)'
                 PROVE  call'[d].attempt + 1 <= Cardinality(Competitors(d)')
      BY <1>2 DEF Overtaken
    <2>1. d # c /\ call'[d] = call[d]
      BY <1>1 DEF Decided
    <2>2. Cardinality(Competitors(d)') = Cardinality(Competitors(d)) + 1
      BY <1>5, <2>1, CompetitorsGrow
    <2>3. call[d].attempt <= Cardinality(Competitors(d))
      BY AttemptEarned
    <2> QED
      BY <1>3, <2>1, <2>2, <2>3, CompetitorsType
  <1>9. OthersSpentFirst'
    <2> SUFFICES ASSUME external["others"] = 0, ~reserved, NEW d \in Calls, Debited(d)',
                        call'[d].kind = "payment", call'[d].take["self"] > 0
                 PROVE  posted'["others"] = 0
      BY <1>2 DEF OthersSpentFirst
    <2>1. CASE d = c
      <3>1. posted["others"] <= call[c].take["others"]
        BY <1>1, <2>1 DEF SpendInvariant, WantsAllOthers, Decided
      <3> QED
        BY <1>3, <1>4, <3>1 DEF Pools
    <2>2. CASE d # c
      <3>1. posted["others"] = 0
        BY <1>1, <1>5, <2>2 DEF SpendInvariant, OthersSpentFirst
      <3> QED
        BY <1>3, <1>4, <3>1 DEF Pools
    <2> QED
      BY <2>1, <2>2
  <1>10. RetriesAreEarned'
    <2> SUFFICES ASSUME ~reserved, NEW d \in Calls
                 PROVE  call'[d].attempt <= Cardinality(Competitors(d)')
      BY <1>2 DEF RetriesAreEarned, Competitors
    <2>1. Cardinality(Competitors(d)) <= Cardinality(Competitors(d)')
      BY <1>5, CompetitorsGrow
    <2>2. call[d].attempt <= Cardinality(Competitors(d)) /\ call'[d].attempt = call[d].attempt
      BY <1>1, AttemptEarned
    <2>3. Cardinality(Competitors(d)') \in Nat
      <3>1. Competitors(d)' \subseteq Calls
        BY DEF Competitors
      <3> QED
        BY <3>1, PaymentAssumption, FS_Subset, FS_CardinalityType
    <2> QED
      BY <1>3, <2>1, <2>2, <2>3, CompetitorsType
  <1> QED
    BY <1>6, <1>7, <1>8, <1>9, <1>10 DEF SpendInvariant

(***************************************************************************)
(* The others: they reserve, or they only put money in.                    *)
(***************************************************************************)
LEMMA OthersSpend ==
    ASSUME SpendInvariant, LedgerInvariant', UNCHANGED call,
           ~reserved' =>
             /\ ~reserved /\ held' = 0
             /\ external'["others"] >= external["others"]
             /\ external'["others"] = external["others"]
                  => posted'["others"] = posted["others"]
             /\ \A p \in Pools : posted[p] <= posted'[p]
    PROVE  SpendInvariant'
  <1>1. /\ \A p \in Pools : posted[p] \in Nat /\ posted'[p] \in Nat
        /\ external["others"] \in Int /\ external'["others"] \in Int
        /\ \A d \in Calls : \A p \in Pools : call[d].take[p] \in Nat
    <2>1. /\ \A p \in Pools : posted[p] \in Nat /\ posted'[p] \in Nat
          /\ external["others"] \in Int /\ external'["others"] \in Int
      BY DEF SpendInvariant, LedgerInvariant, TypeOK, Balances, U64, Pools
    <2> QED
      BY <2>1, TakeType DEF SpendInvariant, LedgerInvariant
  <1>2. CASE reserved'
    BY <1>2 DEF SpendInvariant, NobodyDraws, WantsAllOthers, Overtaken, OthersSpentFirst,
                RetriesAreEarned
  <1>3. CASE ~reserved'
    <2>1. /\ ~reserved /\ held = 0 /\ held' = 0 /\ external["others"] >= 0
          /\ external'["others"] >= 0
          /\ external'["others"] = 0 =>
               external["others"] = 0 /\ posted'["others"] = posted["others"]
      BY <1>1, <1>3 DEF SpendInvariant, NobodyDraws
    <2>2. \A d \in Calls : CanDebit(call[d].take) => CanDebit(call[d].take)'
      BY <1>1, <1>3, <2>1 DEF CanDebit, Pools
    <2>3. NobodyDraws' /\ WantsAllOthers' /\ OthersSpentFirst'
      BY <2>1 DEF SpendInvariant, NobodyDraws, WantsAllOthers, OthersSpentFirst, Decided,
                  Debited
    <2>4. RetriesAreEarned'
      BY <2>1 DEF SpendInvariant, RetriesAreEarned, Debited
    <2>5. Overtaken'
      <3>1. \A d \in Calls : Competitors(d)' = Competitors(d)
        BY DEF Competitors, Debited
      <3> QED
        BY <2>1, <2>2, <3>1 DEF SpendInvariant, Overtaken, Decided
    <2> QED
      BY <2>3, <2>4, <2>5 DEF SpendInvariant
  <1> QED
    BY <1>2, <1>3

LEMMA CreditSpends ==
    ASSUME SpendInvariant, LedgerInvariant', NEW p \in Pools, Credit(p)
    PROVE  SpendInvariant'
  <1>1. PICK amount \in Credits :
          /\ posted' = [posted EXCEPT ![p] = @ + amount]
          /\ external' = [external EXCEPT ![p] = @ + amount]
          /\ UNCHANGED <<held, reserved, call>>
    BY DEF Credit
  <1>2. /\ amount \in Nat /\ amount > 0
        /\ posted \in Balances /\ external \in [Pools -> Int]
        /\ \A q \in Pools : posted[q] \in Nat /\ external[q] \in Int
    BY PaymentAssumption DEF SpendInvariant, LedgerInvariant, TypeOK, Balances, U64
  <1>3. \A q \in Pools :
          \/ posted'[q] = posted[q] /\ external'[q] = external[q]
          \/ posted'[q] = posted[q] + amount /\ external'[q] = external[q] + amount
    BY <1>1, <1>2 DEF Balances
  <1>4. /\ external'["others"] >= external["others"]
        /\ external'["others"] = external["others"] => posted'["others"] = posted["others"]
        /\ \A q \in Pools : posted[q] <= posted'[q]
    <2>1. \A q \in Pools :
            /\ external'[q] >= external[q] /\ posted[q] <= posted'[q]
            /\ external'[q] = external[q] => posted'[q] = posted[q]
      BY <1>2, <1>3
    <2> QED
      BY <2>1 DEF Pools
  <1> QED
    BY <1>1, <1>4, OthersSpend DEF SpendInvariant, NobodyDraws

LEMMA SpendInit == Init => SpendInvariant
<1> SUFFICES ASSUME Init PROVE SpendInvariant
  OBVIOUS
<1>1. LedgerInvariant /\ \A c \in Calls : call[c].pc = "idle" /\ call[c].attempt = 0
  BY LedgerInit DEF Init, Idle, Request
<1>2. held = 0 /\ external["others"] = 0
  BY DEF Init, Nothing, Pools
<1>3. RetriesAreEarned
  BY <1>1, CompetitorsType DEF RetriesAreEarned, Competitors
<1> QED
  BY <1>1, <1>2, <1>3
  DEF SpendInvariant, NobodyDraws, WantsAllOthers, Overtaken, OthersSpentFirst, Decided,
      Debited

LEMMA SpendStep == SpendInvariant /\ [Next]_vars => SpendInvariant'
<1> SUFFICES ASSUME SpendInvariant, [Next]_vars PROVE SpendInvariant'
  OBVIOUS
<1>0. LedgerInvariant'
  BY LedgerStep DEF SpendInvariant
<1>1. ASSUME NEW c \in Calls, Handle(c) PROVE SpendInvariant'
  <2>1. CASE Admit(c)
    <3>1. PICK to \in {"admitted", "inactive", "invalid_mcc"} : Step(c, "looked", to)
      BY <2>1 DEF Admit
    <3>2. SpendFrame(c)
      BY <2>1, <3>1, MoveFrame DEF Admit, PCs, Working, Answered
    <3> QED
      BY <1>0, <3>2, FrameSpends
  <2>2. CASE InsertRows(c)
    <3>1. PICK to \in {"inserted", "duplicate"} : Step(c, "split", to)
      BY <2>2 DEF InsertRows
    <3>2. SpendFrame(c)
      BY <2>2, <3>1, MoveFrame DEF InsertRows, PCs, Working, InTransaction, Answered
    <3> QED
      BY <1>0, <3>2, FrameSpends
  <2>3. CASE Commit(c)
    <3>1. SpendFrame(c)
      BY <2>3, MoveFrame DEF Commit, PCs, Working, InTransaction, Answered
    <3> QED
      BY <1>0, <3>1, FrameSpends
  <2>4. CASE Receive(c) \/ ReadBalance(c) \/ Rejected(c)
    BY <1>0, <2>4, ReceiveFrame, ReadBalanceFrame, RejectedFrame, FrameSpends
  <2>5. CASE MoveMoney(c)
    BY <1>0, <2>5, MoveMoneySpends
  <2> QED
    BY <1>1, <2>1, <2>2, <2>3, <2>4, <2>5 DEF Handle
<1>2. ASSUME NEW c \in Calls, Fail(c) PROVE SpendInvariant'
  <2>1. /\ call[c].pc \in Working /\ UNCHANGED <<posted, held, reserved, external>>
    BY <1>2 DEF Fail
  <2>2. CASE call[c].pc = "moved"
    <3>1. Step(c, "moved", "orphaned")
      BY <1>2, <2>2 DEF Fail, Step
    <3>2. SpendFrame(c)
      BY <2>1, <3>1, MoveFrame DEF PCs, Gone
    <3> QED
      BY <1>0, <3>2, FrameSpends
  <2>3. CASE call[c].pc # "moved"
    <3>1. Step(c, call[c].pc, "lost")
      BY <1>2, <2>3 DEF Fail, Step
    <3>2. SpendFrame(c)
      BY <2>1, <2>3, <3>1, MoveFrame DEF PCs, Working, InTransaction, Gone
    <3> QED
      BY <1>0, <3>2, FrameSpends
  <2> QED
    BY <2>2, <2>3
<1>3. CASE Hold
  BY <1>0, <1>3, OthersSpend DEF Hold
<1>4. CASE Unhold
  <2>1. reserved
    BY <1>4 DEF Unhold, SpendInvariant, LedgerInvariant, TypeOK, NobodyDraws
  <2>2. reserved'
    BY <1>4, <2>1 DEF Unhold
  <2> QED
    BY <1>0, <1>4, <2>2, OthersSpend DEF Unhold
<1>5. CASE SetStatus \/ UNCHANGED vars
  <2>1. UNCHANGED <<posted, held, reserved, external, call>>
    BY <1>5 DEF SetStatus, vars
  <2>2. /\ \A p \in Pools : posted[p] \in Nat
        /\ external["others"] \in Int
    BY DEF SpendInvariant, LedgerInvariant, TypeOK, Balances, U64, Pools
  <2> QED
    BY <1>0, <2>1, <2>2, OthersSpend DEF SpendInvariant, NobodyDraws
<1> QED
  BY <1>0, <1>1, <1>2, <1>3, <1>4, <1>5, CreditSpends DEF Next

(***************************************************************************)
(* Self-contribution money is spent last, whatever the interleaving.       *)
(***************************************************************************)
THEOREM OthersFirstHolds == Spec => []OthersSpentFirst
<1>1. SpendInvariant => OthersSpentFirst
  BY DEF SpendInvariant
<1> QED
  BY <1>1, SpendInit, SpendStep, PTL DEF Spec

(***************************************************************************)
(* Every try a payment has used up was lost to another request's debit.    *)
(***************************************************************************)
THEOREM RetriesEarned == Spec => []RetriesAreEarned
<1>1. SpendInvariant => RetriesAreEarned
  BY DEF SpendInvariant
<1> QED
  BY <1>1, SpendInit, SpendStep, PTL DEF Spec

(***************************************************************************)
(* The status check is the only way in: while the account is frozen no     *)
(* request joins those that have passed it.                                *)
(***************************************************************************)
THEOREM FreezeHolds == Spec => FreezeAdmitsNone
<1>1. TypeOK /\ [Next]_vars => [~active => MayTake' \subseteq MayTake]_vars
  <2> SUFFICES ASSUME TypeOK, [Next]_vars, ~active,
                      NEW c \in Calls, c \in MayTake', c \notin MayTake
               PROVE  FALSE
    BY DEF MayTake
  <2> DEFINE Inside == {"admitted", "split", "done", "orphaned", "inserted", "moved"}
  <2>1. call'[c].pc \in Inside /\ call[c].pc \notin Inside
    BY DEF MayTake, InTransaction
  <2>2. call \in [Calls -> Call]
    BY DEF TypeOK
  <2>3. ASSUME NEW d \in Calls, NEW from, NEW to, Step(d, from, to),
               from \in Inside \/ to \notin Inside
        PROVE  FALSE
    BY <2>1, <2>2, <2>3 DEF Step, Call
  <2>4. ASSUME NEW d \in Calls, NEW new,
               call' = [call EXCEPT ![d] = new], call[d].pc \in Inside \/ new.pc \notin Inside
        PROVE  FALSE
    BY <2>1, <2>2, <2>4
  <2>5. PICK d \in Calls : Handle(d) \/ Fail(d)
    BY <2>1 DEF Next, Credit, Hold, Unhold, SetStatus, vars
  <2>6. CASE Receive(d)
    <3>1. PICK kind, amount, key :
            \/ call' = [call EXCEPT ![d] = Request("looked", kind, amount, key, Nothing)]
            \/ \E row : call' = [call EXCEPT ![d] =
                                 Request("replayed", kind, amount, key, row)]
      BY <2>6, Zenon DEF Receive
    <3> QED
      BY <2>4, <3>1 DEF Request
  <2>7. CASE Admit(d)
    <3>1. PICK to \in {"inactive", "invalid_mcc"} : Step(d, "looked", to)
      BY <2>7 DEF Admit
    <3> QED
      BY <2>3, <3>1
  <2>8. CASE ReadBalance(d)
    BY <2>4, <2>8 DEF ReadBalance
  <2>9. CASE InsertRows(d) \/ MoveMoney(d) \/ Commit(d)
    BY <2>3, <2>9 DEF InsertRows, MoveMoney, Commit
  <2>10. CASE Rejected(d)
    <3>1. call[d].pc \in Inside /\ \A e \in Calls \ {d} : call'[e] = call[e]
      BY <2>2, <2>10 DEF Rejected
    <3> QED
      BY <2>1, <3>1
  <2>11. CASE Fail(d)
    <3>1. PICK to \in {"orphaned", "lost"} :
            /\ call' = [call EXCEPT ![d].pc = to]
            /\ to = "orphaned" => call[d].pc = "moved"
      BY <2>11 DEF Fail
    <3> QED
      BY <2>3, <3>1 DEF Step
  <2> QED
    BY <2>5, <2>6, <2>7, <2>8, <2>9, <2>10, <2>11 DEF Handle
<1> QED
  BY <1>1, TypeCorrect, PTL DEF Spec, FreezeAdmitsNone

-----------------------------------------------------------------------------
(***************************************************************************)
(* Why a payment is one step.  What a request has decided to take is what  *)
(* it asked for, all of it and no more, from the decision until the money  *)
(* has moved and ever after; TigerBeetle moves it while it fits.           *)
(***************************************************************************)
DecidedPCs == {"split", "inserted", "moved", "done", "orphaned"}

Exact(c) == call[c].take["others"] + call[c].take["self"] = call[c].amount

DecisionExact == \A c \in Calls : call[c].pc \in DecidedPCs => Exact(c)

AccountInvariant == LedgerInvariant /\ KeysExclusive /\ DecisionExact

LEMMA ReadBalanceExact ==
    ASSUME TypeOK, DecisionExact, NEW c \in Calls, ReadBalance(c)
    PROVE  DecisionExact'
  <1>1. call[c] \in Call /\ posted \in Balances /\ call[c].amount \in U64
    BY TakeType DEF TypeOK
  <1>2. \A d \in Calls \ {c} : call'[d] = call[d]
    BY DEF ReadBalance, TypeOK
  <1>3. PICK take :
          /\ take["others"] + take["self"] = call[c].amount
          /\ \/ call' = [call EXCEPT ![c] = [call[c] EXCEPT !.pc = "split", !.take = take]]
             \/ call' = [call EXCEPT ![c] = [call[c] EXCEPT !.pc = "insufficient"]]
    <2>1. CASE call[c].kind = "payment" /\ Covers(posted, call[c].amount)
      <3>1. Split(posted, call[c].amount)["others"] + Split(posted, call[c].amount)["self"]
              = call[c].amount
        BY <1>1, <2>1, SplitCorrect DEF IsDivision
      <3> QED
        BY <2>1, <3>1 DEF ReadBalance
    <2>2. CASE ~(call[c].kind = "payment" /\ Covers(posted, call[c].amount))
      <3> DEFINE only == [Nothing EXCEPT !["self"] = call[c].amount]
      <3>1. only["others"] + only["self"] = call[c].amount
        BY <1>1 DEF Nothing, Pools, U64
      <3>2. \/ call' = [call EXCEPT ![c] = [call[c] EXCEPT !.pc = "split", !.take = only]]
            \/ call' = [call EXCEPT ![c] = [call[c] EXCEPT !.pc = "insufficient"]]
        BY <2>2 DEF ReadBalance
      <3> HIDE DEF only
      <3> QED
        BY <3>1, <3>2
    <2> QED
      BY <2>1, <2>2
  <1>4. call'[c].pc \in DecidedPCs => Exact(c)'
    BY <1>1, <1>3 DEF TypeOK, Call, DecidedPCs, Exact
  <1> QED
    BY <1>2, <1>4 DEF DecisionExact, Exact

LEMMA ExactStep == TypeOK /\ DecisionExact /\ [Next]_vars => DecisionExact'
<1> SUFFICES ASSUME TypeOK, DecisionExact, [Next]_vars PROVE DecisionExact'
  OBVIOUS
<1>1. ASSUME NEW c \in Calls, NEW from, NEW to \in PCs, Step(c, from, to),
             to \in DecidedPCs => from \in DecidedPCs
      PROVE  DecisionExact'
  <2>1. /\ call[c].pc = from /\ call'[c].pc = to
        /\ call'[c].take = call[c].take /\ call'[c].amount = call[c].amount
        /\ \A d \in Calls \ {c} : call'[d] = call[d]
    BY <1>1, MoveCall
  <2> QED
    BY <1>1, <2>1 DEF DecisionExact, Exact
<1>2. ASSUME NEW c \in Calls, Handle(c) PROVE DecisionExact'
  <2>1. CASE Receive(c)
    <3>1. /\ call'[c].pc \in {"looked", "replayed"}
          /\ \A d \in Calls \ {c} : call'[d] = call[d]
      BY <2>1 DEF Receive, TypeOK, Request
    <3> QED
      BY <3>1 DEF DecisionExact, Exact, DecidedPCs
  <2>2. CASE Admit(c)
    <3>1. PICK to \in {"admitted", "inactive", "invalid_mcc"} : Step(c, "looked", to)
      BY <2>2 DEF Admit
    <3> QED
      BY <1>1, <3>1 DEF PCs, Working, Answered, DecidedPCs
  <2>3. CASE ReadBalance(c)
    BY <2>3, ReadBalanceExact
  <2>4. CASE InsertRows(c)
    <3>1. PICK to \in {"inserted", "duplicate"} : Step(c, "split", to)
      BY <2>4 DEF InsertRows
    <3> QED
      BY <1>1, <3>1 DEF PCs, Working, InTransaction, Answered, DecidedPCs
  <2>5. CASE MoveMoney(c)
    BY <1>1, <2>5 DEF MoveMoney, PCs, Working, InTransaction, DecidedPCs
  <2>6. CASE Rejected(c)
    <3>1. /\ call'[c].pc \in {"admitted", "exceeds"}
          /\ \A d \in Calls \ {c} : call'[d] = call[d]
      BY <2>6 DEF Rejected, TypeOK, Call
    <3> QED
      BY <3>1 DEF DecisionExact, Exact, DecidedPCs
  <2>7. CASE Commit(c)
    BY <1>1, <2>7 DEF Commit, PCs, Answered, DecidedPCs
  <2> QED
    BY <1>2, <2>1, <2>2, <2>3, <2>4, <2>5, <2>6, <2>7 DEF Handle
<1>3. ASSUME NEW c \in Calls, Fail(c) PROVE DecisionExact'
  <2>1. PICK to \in {"orphaned", "lost"} :
          Step(c, call[c].pc, to) /\ (to = "orphaned" => call[c].pc = "moved")
    BY <1>3, FailAlone
  <2> QED
    BY <1>1, <2>1 DEF PCs, Gone, DecidedPCs
<1>4. CASE UNCHANGED call
  BY <1>4 DEF DecisionExact, Exact
<1> QED
  BY <1>2, <1>3, <1>4 DEF Next, Credit, Hold, Unhold, SetStatus, vars

LEMMA AccountInit == Init => AccountInvariant
<1>1. Init => KeysExclusive /\ DecisionExact
  BY DEF Init, Idle, Request, KeysExclusive, InTable, InTransaction, DecisionExact, DecidedPCs
<1> QED
  BY <1>1, LedgerInit DEF AccountInvariant

LEMMA AccountStep == AccountInvariant /\ [Next]_vars => AccountInvariant'
  BY LedgerStep, KeysStep, ExactStep DEF AccountInvariant, LedgerInvariant

(***************************************************************************)
(* What the payers see of a handler at each of its program counters.       *)
(***************************************************************************)
OpenPCs == {"looked", "admitted", "split", "inserted"}

UnpaidPCs == {"inactive", "invalid_mcc", "insufficient", "duplicate", "exceeds", "lost"}

LEMMA Outcomes ==
    ASSUME NEW c \in Calls
    PROVE  /\ call[c].pc = "idle" => Outcome(c) = "idle" /\ Share(c) = Nothing
           /\ call[c].pc \in OpenPCs => Outcome(c) = "open" /\ Share(c) = Nothing
           /\ call[c].pc \in UnpaidPCs => Outcome(c) = "unpaid" /\ Share(c) = Nothing
           /\ call[c].pc = "replayed" => Outcome(c) = "replayed" /\ Share(c) = Nothing
           /\ call[c].pc = "moved" => Outcome(c) = "taken" /\ Share(c) = call[c].take
           /\ call[c].pc = "done" => Outcome(c) = "booked" /\ Share(c) = call[c].take
           /\ call[c].pc = "orphaned" => Outcome(c) = "leaked" /\ Share(c) = call[c].take
           /\ Outcome(c) \in {"taken", "booked"} => call[c].pc \in {"moved", "done"}
  BY DEF Outcome, Share, Debited, OpenPCs, UnpaidPCs, Answered

LEMMA OutcomesNext ==
    ASSUME NEW c \in Calls
    PROVE  /\ call'[c].pc \in OpenPCs => Outcome(c)' = "open" /\ Share(c)' = Nothing
           /\ call'[c].pc \in UnpaidPCs => Outcome(c)' = "unpaid" /\ Share(c)' = Nothing
           /\ call'[c].pc = "replayed" => Outcome(c)' = "replayed" /\ Share(c)' = Nothing
           /\ call'[c].pc = "moved" => Outcome(c)' = "taken" /\ Share(c)' = call'[c].take
           /\ call'[c].pc = "done" => Outcome(c)' = "booked" /\ Share(c)' = call'[c].take
           /\ call'[c].pc = "orphaned" => Outcome(c)' = "leaked" /\ Share(c)' = call'[c].take
  BY DEF Outcome, Share, Debited, OpenPCs, UnpaidPCs, Answered, Nothing

(***************************************************************************)
(* A step of one handler is a step of one request of the abstract account. *)
(***************************************************************************)
LEMMA ViewOne ==
    ASSUME NEW c \in Calls, \A d \in Calls \ {c} : call'[d] = call[d]
    PROVE  /\ [d \in Calls |-> Outcome(d)'] =
                [[d \in Calls |-> Outcome(d)] EXCEPT ![c] = Outcome(c)']
           /\ [d \in Calls |-> Share(d)'] =
                [[d \in Calls |-> Share(d)] EXCEPT ![c] = Share(c)']
           /\ [d \in Calls |-> call'[d].amount] =
                [[d \in Calls |-> call[d].amount] EXCEPT ![c] = call'[c].amount]
           /\ [d \in Calls |-> call'[d].key] =
                [[d \in Calls |-> call[d].key] EXCEPT ![c] = call'[c].key]
  <1>1. \A d \in Calls \ {c} : Outcome(d)' = Outcome(d) /\ Share(d)' = Share(d)
    BY DEF Outcome, Share, Debited, Nothing
  <1> QED
    BY <1>1

\* The request c ends where it was: only its outcome may differ.
Alike(c) ==
    /\ UNCHANGED <<posted, held>>
    /\ call'[c].amount = call[c].amount /\ call'[c].key = call[c].key
    /\ \A d \in Calls \ {c} : call'[d] = call[d]

LEMMA AlikeView ==
    ASSUME AccountInvariant, NEW c \in Calls, Alike(c)
    PROVE  /\ [d \in Calls |-> call'[d].amount] = [d \in Calls |-> call[d].amount]
           /\ [d \in Calls |-> call'[d].key] = [d \in Calls |-> call[d].key]
           /\ Share(c)' = Share(c) =>
                [d \in Calls |-> Share(d)'] = [d \in Calls |-> Share(d)]
           /\ Outcome(c)' = Outcome(c) =>
                [d \in Calls |-> Outcome(d)'] = [d \in Calls |-> Outcome(d)]
  <1>1. \A d \in Calls \ {c} : Outcome(d)' = Outcome(d) /\ Share(d)' = Share(d)
    BY DEF Alike, Outcome, Share, Debited, Nothing
  <1> QED
    BY <1>1 DEF Alike

(***************************************************************************)
(* A handler that has taken nothing goes on, or answers that it has not.   *)
(***************************************************************************)
LEMMA OpenStays ==
    ASSUME AccountInvariant, NEW c \in Calls, Alike(c),
           call[c].pc \in OpenPCs, call'[c].pc \in OpenPCs \cup UnpaidPCs
    PROVE  Account!Next \/ UNCHANGED Account!account
  <1>1. Outcome(c) = "open" /\ Share(c)' = Share(c)
        /\ Outcome(c)' \in {"open", "unpaid"}
    BY Outcomes, OutcomesNext
  <1>2. CASE Outcome(c)' = "open"
    BY <1>1, <1>2, AlikeView DEF Account!account, Alike
  <1>3. CASE Outcome(c)' = "unpaid"
    <2>1. Account!Refuse(c)
      BY <1>1, <1>3, AlikeView, ViewOne DEF Account!Refuse, Account!Becomes, Alike
    <2> QED
      BY <2>1 DEF Account!Next
  <1> QED
    BY <1>1, <1>2, <1>3

(***************************************************************************)
(* What has been taken is booked, or leaks with the lost transaction.      *)
(***************************************************************************)
LEMMA MovedBooks ==
    ASSUME AccountInvariant, NEW c \in Calls, Alike(c), call[c].pc = "moved",
           call'[c].pc \in {"done", "orphaned"}, call'[c].take = call[c].take
    PROVE  Account!Next
  <1>1. Outcome(c) = "taken" /\ Share(c)' = Share(c)
        /\ Outcome(c)' \in {"booked", "leaked"}
    BY Outcomes, OutcomesNext
  <1>2. Account!Book(c)
    BY <1>1, AlikeView, ViewOne DEF Account!Book, Account!Becomes, Alike
  <1> QED
    BY <1>2 DEF Account!Next

(***************************************************************************)
(* A request arrives; one that is answered as a replay repeats a booked    *)
(* request with the same key.                                              *)
(***************************************************************************)
LEMMA ReceiveAsks ==
    ASSUME AccountInvariant, NEW c \in Calls, Receive(c)
    PROVE  Account!Ask(c)
  <1>1. call \in [Calls -> Call] /\ call[c].pc = "idle" /\ UNCHANGED <<posted, held>>
    BY DEF AccountInvariant, LedgerInvariant, TypeOK, Receive
  <1>2. /\ \A d \in Calls \ {c} : call'[d] = call[d]
        /\ \/ call'[c].pc = "looked"
           \/ /\ call'[c].pc = "replayed" /\ call'[c].key # NoKey
              /\ \E d \in Calls \ {c} : call[d].pc = "done" /\ call[d].key = call'[c].key
    <2>1. PICK kind \in Kinds, amount \in Amounts, key \in Keys \cup {NoKey} :
            \/ call' = [call EXCEPT ![c] = Request("looked", kind, amount, key, Nothing)]
            \/ \E d \in Calls : \E row :
                 /\ Committed(d) /\ Carries(d, key)
                 /\ call' = [call EXCEPT ![c] = Request("replayed", kind, amount, key, row)]
      BY DEF Receive
    <2>2. CASE call' = [call EXCEPT ![c] = Request("looked", kind, amount, key, Nothing)]
      BY <1>1, <2>2 DEF Request
    <2>3. CASE \E d \in Calls : \E row :
                 /\ Committed(d) /\ Carries(d, key)
                 /\ call' = [call EXCEPT ![c] = Request("replayed", kind, amount, key, row)]
      BY <1>1, <2>3 DEF Request, Committed, Carries
    <2> QED
      BY <2>1, <2>2, <2>3
  <1>3. Outcome(c) = "idle" /\ Share(c) = Nothing /\ Share(c)' = Nothing
        /\ Outcome(c)' = (IF call'[c].pc = "looked" THEN "open" ELSE "replayed")
    BY <1>1, <1>2, Outcomes, OutcomesNext DEF OpenPCs
  <1>4. \/ Account!Becomes(c, "idle", "open")
        \/ /\ Account!Becomes(c, "idle", "replayed")
           /\ call'[c].key # NoKey
           /\ \E d \in Calls \ {c} : Outcome(d) = "booked" /\ call[d].key = call'[c].key
    <2>1. \A d \in Calls : call[d].pc = "done" => Outcome(d) = "booked"
      BY Outcomes
    <2> QED
      BY <1>2, <1>3, <2>1, ViewOne DEF Account!Becomes
  <1>5. [d \in Calls |-> Share(d)'] = [d \in Calls |-> Share(d)]
    BY <1>2, <1>3, ViewOne
  <1> QED
    BY <1>1, <1>2, <1>4, <1>5, ViewOne DEF Account!Ask

(***************************************************************************)
(* The money moves: all of the amount, out of what is free, and not for a  *)
(* key that has paid already.                                              *)
(***************************************************************************)
LEMMA MoveMoneyTakes ==
    ASSUME AccountInvariant, NEW c \in Calls, MoveMoney(c)
    PROVE  Account!Take(c)
  <1>1. /\ CanDebit(call[c].take) /\ Step(c, "inserted", "moved")
        /\ posted' = [p \in Pools |-> posted[p] - call[c].take[p]]
        /\ UNCHANGED held
    BY DEF MoveMoney
  <1>2. /\ call[c].pc = "inserted" /\ call'[c].pc = "moved"
        /\ call'[c].take = call[c].take /\ call'[c].amount = call[c].amount
        /\ call'[c].key = call[c].key
        /\ \A d \in Calls \ {c} : call'[d] = call[d]
    BY <1>1, MoveCall DEF AccountInvariant, LedgerInvariant, PCs, Working, InTransaction
  <1>3. /\ Outcome(c) = "open" /\ Outcome(c)' = "taken"
        /\ Share(c)' = call[c].take
    BY <1>2, Outcomes, OutcomesNext DEF OpenPCs
  <1>4. Account!Becomes(c, "open", "taken")
    BY <1>2, <1>3, ViewOne DEF Account!Becomes
  <1>5. ASSUME NEW d \in Calls, call[d].pc \in DecidedPCs, call[d].amount > 0
        PROVE  RowPools(d) # {}
    <2>1. /\ call[d].take["others"] \in Nat /\ call[d].take["self"] \in Nat
          /\ call[d].take["others"] + call[d].take["self"] = call[d].amount
      BY <1>5, TakeType DEF AccountInvariant, LedgerInvariant, DecisionExact, Exact, Pools
    <2>2. call[d].take["others"] > 0 \/ call[d].take["self"] > 0
      BY <1>5, <2>1
    <2> QED
      BY <2>2 DEF RowPools, Pools
  <1>6. call[c].amount > 0 => ~Account!Duplicates(c)
    <2> SUFFICES ASSUME call[c].amount > 0, NEW d \in Calls \ {c},
                        Outcome(d) \in {"taken", "booked"}, call[d].amount > 0,
                        call[d].key = call[c].key, call[c].key # NoKey
                 PROVE  FALSE
      BY DEF Account!Duplicates
    <2>1. call[d].pc \in {"moved", "done"}
      BY Outcomes
    <2>2. RowPools(c) # {} /\ RowPools(d) # {}
      BY <1>2, <1>5, <2>1 DEF DecidedPCs
    <2> QED
      BY <1>2, <2>1, <2>2 DEF AccountInvariant, KeysExclusive, InTable, InTransaction
  <1>7. \A p \in Pools : 0 <= call[c].take[p] /\ call[c].take[p] <= Account!Free(p)
    <2>1. \A p \in Pools : call[c].take[p] \in Nat
      BY TakeType DEF AccountInvariant, LedgerInvariant
    <2> QED
      BY <1>1, <2>1 DEF CanDebit, Account!Free, Pools
  <1>8. call[c].take["others"] + call[c].take["self"] = call[c].amount
    BY <1>2 DEF AccountInvariant, DecisionExact, Exact, DecidedPCs
  <1>9. /\ [d \in Calls |-> call'[d].amount] = [d \in Calls |-> call[d].amount]
        /\ [d \in Calls |-> call'[d].key] = [d \in Calls |-> call[d].key]
    BY <1>2
  <1> QED
    BY <1>1, <1>2, <1>3, <1>4, <1>6, <1>7, <1>8, <1>9, ViewOne DEF Account!Take

LEMMA HandleImplements ==
    ASSUME AccountInvariant, NEW c \in Calls, Handle(c)
    PROVE  Account!Next \/ UNCHANGED Account!account
  <1>0. TypeOK /\ call \in [Calls -> Call]
    BY DEF AccountInvariant, LedgerInvariant, TypeOK
  <1>1. ASSUME NEW from, NEW to \in PCs, Step(c, from, to), UNCHANGED <<posted, held>>
        PROVE  Alike(c) /\ call[c].pc = from /\ call'[c].pc = to
                        /\ call'[c].take = call[c].take
    BY <1>0, <1>1, MoveCall DEF Alike
  <1>2. CASE Receive(c)
    BY <1>2, ReceiveAsks DEF Account!Next
  <1>3. CASE Admit(c)
    <2>1. PICK to \in {"admitted", "inactive", "invalid_mcc"} : Step(c, "looked", to)
      BY <1>3 DEF Admit
    <2>2. Alike(c) /\ call[c].pc = "looked" /\ call'[c].pc = to
      BY <1>1, <1>3, <2>1 DEF Admit, PCs, Working, Answered
    <2> QED
      BY <2>2, OpenStays DEF OpenPCs, UnpaidPCs
  <1>4. CASE ReadBalance(c)
    <2>1. /\ Alike(c) /\ call[c].pc = "admitted"
          /\ call'[c].pc \in {"split", "insufficient"}
      BY <1>0, <1>4 DEF ReadBalance, Alike, Call
    <2> QED
      BY <2>1, OpenStays DEF OpenPCs, UnpaidPCs
  <1>5. CASE InsertRows(c)
    <2>1. PICK to \in {"inserted", "duplicate"} : Step(c, "split", to)
      BY <1>5 DEF InsertRows
    <2>2. Alike(c) /\ call[c].pc = "split" /\ call'[c].pc = to
      BY <1>1, <1>5, <2>1 DEF InsertRows, PCs, Working, InTransaction, Answered
    <2> QED
      BY <2>2, OpenStays DEF OpenPCs, UnpaidPCs
  <1>6. CASE MoveMoney(c)
    BY <1>6, MoveMoneyTakes DEF Account!Next
  <1>7. CASE Rejected(c)
    <2>1. /\ Alike(c) /\ call[c].pc = "inserted"
          /\ call'[c].pc \in {"admitted", "exceeds"}
      BY <1>0, <1>7 DEF Rejected, Alike, Call
    <2> QED
      BY <2>1, OpenStays DEF OpenPCs, UnpaidPCs
  <1>8. CASE Commit(c)
    <2>1. /\ Alike(c) /\ call[c].pc = "moved" /\ call'[c].pc = "done"
          /\ call'[c].take = call[c].take
      BY <1>1, <1>8 DEF Commit, PCs, Answered
    <2> QED
      BY <2>1, MovedBooks
  <1> QED
    BY <1>2, <1>3, <1>4, <1>5, <1>6, <1>7, <1>8 DEF Handle

LEMMA FailImplements ==
    ASSUME AccountInvariant, NEW c \in Calls, Fail(c)
    PROVE  Account!Next \/ UNCHANGED Account!account
  <1>0. TypeOK /\ UNCHANGED <<posted, held>>
    BY DEF AccountInvariant, LedgerInvariant, Fail
  <1>1. CASE call[c].pc = "moved"
    <2>1. Step(c, "moved", "orphaned")
      BY <1>0, <1>1, FailAlone
    <2>2. /\ Alike(c) /\ call'[c].pc = "orphaned" /\ call'[c].take = call[c].take
      BY <1>0, <2>1, MoveCall DEF Alike, PCs, Gone
    <2> QED
      BY <1>1, <2>2, MovedBooks
  <1>2. CASE call[c].pc # "moved"
    <2>1. Step(c, call[c].pc, "lost") /\ call[c].pc \in Working
      BY <1>0, <1>2, FailAlone
    <2>2. Alike(c) /\ call'[c].pc = "lost"
      BY <1>0, <2>1, MoveCall DEF Alike, PCs, Gone
    <2> QED
      BY <1>2, <2>1, <2>2, OpenStays DEF OpenPCs, UnpaidPCs, Working, InTransaction
  <1> QED
    BY <1>1, <1>2

(***************************************************************************)
(* What the other services do is a credit, a reservation or its end.       *)
(***************************************************************************)
LEMMA OthersImplement ==
    ASSUME AccountInvariant, NEW p \in Pools, Credit(p) \/ Hold \/ Unhold
    PROVE  Account!Next
  <1>1. /\ posted \in Balances /\ held \in {0, Reserve} /\ Reserve \in Nat
        /\ \A q \in Pools : posted[q] \in Nat
    BY ConstantsType DEF AccountInvariant, LedgerInvariant, TypeOK, Balances, U64
  <1>2. UNCHANGED call
    BY DEF Credit, Hold, Unhold
  <1>3. /\ [d \in Calls |-> call'[d].amount] = [d \in Calls |-> call[d].amount]
        /\ [d \in Calls |-> call'[d].key] = [d \in Calls |-> call[d].key]
        /\ [d \in Calls |-> Share(d)'] = [d \in Calls |-> Share(d)]
        /\ [d \in Calls |-> Outcome(d)'] = [d \in Calls |-> Outcome(d)]
    BY <1>2 DEF Share, Outcome, Debited, Nothing
  <1>4. CASE Credit(p)
    <2>1. PICK amount \in Credits :
            posted' = [posted EXCEPT ![p] = @ + amount] /\ UNCHANGED held
      BY <1>4 DEF Credit
    <2>2. amount \in Nat /\ amount > 0
      BY PaymentAssumption
    <2>3. posted'[p] > posted[p] /\ posted' = [posted EXCEPT ![p] = posted'[p]]
      BY <1>1, <2>1, <2>2 DEF Balances
    <2>4. Account!Credit(p)
      BY <1>3, <2>1, <2>3 DEF Account!Credit
    <2> QED
      BY <2>4 DEF Account!Next
  <1>5. CASE Hold
    <2>1. Account!Hold
      BY <1>1, <1>3, <1>5 DEF Hold, Account!Hold
    <2> QED
      BY <2>1 DEF Account!Next
  <1>6. CASE Unhold
    <2>1. Account!Unhold
      BY <1>1, <1>3, <1>6 DEF Unhold, Account!Unhold
    <2> QED
      BY <2>1 DEF Account!Next
  <1> QED
    BY <1>4, <1>5, <1>6

(***************************************************************************)
(* A payment or withdrawal is one step to its payer: it takes exactly the  *)
(* amount asked for, out of free money, once for each key, or nothing,     *)
(* for any number of requests, tries and lost transactions.                *)
(***************************************************************************)
THEOREM AccountImplemented == Spec => RefinesAccount
<1>1. Init => Account!Init
  <2> SUFFICES ASSUME Init PROVE Account!Init
    OBVIOUS
  <2>1. posted \in [Pools -> Nat] /\ held = 0
    BY ConstantsType, PaymentAssumption DEF Init, Balances
  <2>2. \A c \in Calls : /\ call[c].amount = 0 /\ call[c].key = NoKey
                         /\ Outcome(c) = "idle" /\ Share(c) = Nothing
    BY Outcomes DEF Init, Idle, Request
  <2> QED
    BY <2>1, <2>2 DEF Account!Init, Nothing
<1>2. AccountInvariant /\ [Next]_vars => [Account!Next]_(Account!account)
  <2> SUFFICES ASSUME AccountInvariant, [Next]_vars
               PROVE  Account!Next \/ UNCHANGED Account!account
    OBVIOUS
  <2>1. CASE \E c \in Calls : Handle(c) \/ Fail(c)
    BY <2>1, HandleImplements, FailImplements
  <2>2. CASE \E p \in Pools : Credit(p)
    BY <2>2, OthersImplement
  <2>3. CASE Hold \/ Unhold
    BY <2>3, OthersImplement DEF Pools
  <2>4. CASE SetStatus \/ UNCHANGED vars
    <3>1. UNCHANGED <<posted, held, call>>
      BY <2>4 DEF SetStatus, vars
    <3>2. \A c \in Calls : Outcome(c)' = Outcome(c) /\ Share(c)' = Share(c)
      BY <3>1 DEF Outcome, Share, Debited, Nothing
    <3> QED
      BY <3>1, <3>2 DEF Account!account
  <2> QED
    BY <2>1, <2>2, <2>3, <2>4 DEF Next
<1> QED
  BY <1>1, <1>2, AccountInit, AccountStep, PTL DEF Spec, RefinesAccount, Account!Spec
=============================================================================
