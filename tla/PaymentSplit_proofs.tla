------------------------ MODULE PaymentSplit_proofs -------------------------
(***************************************************************************)
(* The division of a payment is right for every balance, every amount and  *)
(* every word size, wrapped totals included.                               *)
(***************************************************************************)
EXTENDS PaymentSplit, TLAPS

(***************************************************************************)
(* A wrapped total is smaller than either pool, so an amount it covers is  *)
(* covered by the others pool alone.                                       *)
(***************************************************************************)
LEMMA WrappedTotal ==
    ASSUME NEW b \in Balances
    PROVE  \/ Total(b) = b["others"] + b["self"]
           \/ Total(b) \in Nat /\ Total(b) < b["others"]
  <1> DEFINE sum == b["others"] + b["self"]
  <1>1. b["others"] \in U64 /\ b["self"] \in U64
    BY DEF Balances, Pools
  <1>2. Word \in Nat /\ Word > 0 /\ sum \in Nat /\ sum < 2 * Word
    BY <1>1, WordAssumption DEF U64
  <1>3. CASE sum < Word
    BY <1>1, <1>2, <1>3 DEF Total, U64
  <1>4. CASE sum >= Word
    <2>1. sum % Word = sum - Word
      BY <1>2, <1>4
    <2> QED
      BY <1>1, <2>1, <1>2, <1>4 DEF Total, U64
  <1> QED
    BY <1>2, <1>3, <1>4

(***************************************************************************)
(* PaymentSplit::calculate returns a division of the requested amount that *)
(* no pool is too small for, and it spends the others pool first.          *)
(***************************************************************************)
THEOREM SplitCorrect ==
    ASSUME NEW b \in Balances, NEW amount \in U64, Covers(b, amount)
    PROVE  /\ IsDivision(Split(b, amount), b, amount)
           /\ OthersFirst(Split(b, amount), b)
  <1>1. b["others"] \in U64 /\ b["self"] \in U64
    BY DEF Balances, Pools
  <1>2. CASE b["others"] >= amount
    <2>1. Split(b, amount) = [p \in Pools |-> IF p = "others" THEN amount ELSE 0]
      BY <1>2 DEF Split, Nothing, Pools
    <2> QED
      BY <1>1, <2>1, <1>2, WordAssumption
      DEF IsDivision, OthersFirst, Pools, U64, Balances
  <1>3. CASE ~(b["others"] >= amount)
    <2>1. Split(b, amount) = [p \in Pools |-> IF p = "others" THEN b["others"]
                                              ELSE amount - b["others"]]
      BY <1>3 DEF Split
    <2>2. amount <= b["others"] + b["self"]
      BY <1>1, <1>3, WrappedTotal DEF Covers, U64
    <2> QED
      BY <1>1, <2>1, <2>2, <1>3, WordAssumption
      DEF IsDivision, OthersFirst, Pools, U64, Balances
  <1> QED
    BY <1>2, <1>3

(***************************************************************************)
(* When the two pools together stay below the word size, a payment is      *)
(* declined only when no division of it over them exists.                  *)
(***************************************************************************)
THEOREM DeclinedOnlyWhenShort ==
    ASSUME NEW b \in Balances, NEW amount \in U64,
           b["others"] + b["self"] < Word, ~Covers(b, amount),
           NEW take \in Balances
    PROVE  ~IsDivision(take, b, amount)
  <1>1. /\ b["others"] \in U64 /\ b["self"] \in U64
        /\ take["others"] \in U64 /\ take["self"] \in U64
    BY DEF Balances, Pools
  <1>2. Total(b) = b["others"] + b["self"]
    BY <1>1, WordAssumption DEF Total, U64
  <1> QED
    BY <1>1, <1>2 DEF Covers, IsDivision, Pools, U64
=============================================================================
