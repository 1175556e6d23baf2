----------------------------- MODULE Sums_proofs ----------------------------
(***************************************************************************)
(* The laws of SumOver the other proofs rest on: it is a natural number,   *)
(* adding a row adds its amount, dropping rows never makes it larger, and  *)
(* it depends only on the amounts of the rows in the set that are not 0.   *)
(***************************************************************************)
EXTENDS Sums, FiniteSetTheorems, FunctionTheorems, TLAPS

(***************************************************************************)
(* The units of one row are as many as its amount.                         *)
(***************************************************************************)
LEMMA UnitsOfCount ==
    ASSUME NEW f, NEW x, f[x] \in Nat
    PROVE  /\ IsFiniteSet(UnitsOf(f, x))
           /\ Cardinality(UnitsOf(f, x)) = f[x]
  <1>1. IsFiniteSet(1 .. f[x]) /\ Cardinality(1 .. f[x]) = f[x]
    BY FS_Interval
  <1>2. IsFiniteSet({x}) /\ Cardinality({x}) = 1
    BY FS_Singleton
  <1>3. /\ IsFiniteSet({x} \X (1 .. f[x]))
        /\ Cardinality({x} \X (1 .. f[x])) = Cardinality({x}) * Cardinality(1 .. f[x])
    BY <1>1, <1>2, FS_Product
  <1> QED
    BY <1>1, <1>2, <1>3 DEF UnitsOf

(***************************************************************************)
(* A finite set of rows has finitely many units.                           *)
(***************************************************************************)
LEMMA UnitsFinite ==
    ASSUME NEW S, IsFiniteSet(S), NEW f, \A x \in S : f[x] \in Nat
    PROVE  IsFiniteSet(Units(f, S))
  <1> DEFINE family == {UnitsOf(f, x) : x \in S}
             g == [x \in S |-> UnitsOf(f, x)]
  <1>1. g \in Surjection(S, family)
    BY DEF Surjection
  <1>2. IsFiniteSet(family)
    BY <1>1, FS_Surjection
  <1>3. \A T \in family : IsFiniteSet(T)
    BY UnitsOfCount
  <1> HIDE DEF family
  <1>4. IsFiniteSet(UNION family)
    BY <1>2, <1>3, FS_UNION
  <1> QED
    BY <1>4 DEF family, Units

(***************************************************************************)
(* A sum of natural amounts is a natural number.                           *)
(***************************************************************************)
LEMMA SumType ==
    ASSUME NEW S, IsFiniteSet(S), NEW f, \A x \in S : f[x] \in Nat
    PROVE  SumOver(f, S) \in Nat
  BY UnitsFinite, FS_CardinalityType DEF SumOver

(***************************************************************************)
(* COALESCE(SUM(amount), 0): no rows sum to zero.                          *)
(***************************************************************************)
LEMMA SumEmpty ==
    ASSUME NEW f
    PROVE  SumOver(f, {}) = 0
  <1>1. Units(f, {}) = {}
    BY DEF Units
  <1> QED
    BY <1>1, FS_EmptySet DEF SumOver

(***************************************************************************)
(* One more row adds its amount.                                           *)
(***************************************************************************)
LEMMA SumInsert ==
    ASSUME NEW S, IsFiniteSet(S), NEW x, x \notin S,
           NEW f, f[x] \in Nat, \A y \in S : f[y] \in Nat
    PROVE  SumOver(f, S \cup {x}) = SumOver(f, S) + f[x]
  <1>1. Units(f, S \cup {x}) = Units(f, S) \cup UnitsOf(f, x)
    BY DEF Units
  <1>2. Units(f, S) \cap UnitsOf(f, x) = {}
    BY DEF Units, UnitsOf
  <1>3. IsFiniteSet(Units(f, S)) /\ IsFiniteSet(UnitsOf(f, x))
    BY UnitsFinite, UnitsOfCount
  <1>4. /\ Cardinality(Units(f, S) \cup UnitsOf(f, x))
             = Cardinality(Units(f, S)) + Cardinality(UnitsOf(f, x))
                 - Cardinality(Units(f, S) \cap UnitsOf(f, x))
        /\ Cardinality(Units(f, S)) \in Nat
    BY <1>3, FS_Union, FS_CardinalityType
  <1>5. /\ Cardinality(Units(f, S) \cap UnitsOf(f, x)) = 0
        /\ Cardinality(UnitsOf(f, x)) = f[x]
    BY <1>2, UnitsOfCount, FS_EmptySet
  <1>6. Cardinality(Units(f, S) \cup UnitsOf(f, x)) = Cardinality(Units(f, S)) + f[x]
    BY <1>4, <1>5
  <1> QED
    BY <1>1, <1>6 DEF SumOver

(***************************************************************************)
(* Fewer rows, no larger a sum.                                            *)
(***************************************************************************)
LEMMA SumMonotone ==
    ASSUME NEW S, IsFiniteSet(S), NEW T, T \subseteq S,
           NEW f, \A x \in S : f[x] \in Nat
    PROVE  SumOver(f, T) <= SumOver(f, S)
  <1>1. Units(f, T) \in SUBSET Units(f, S)
    BY DEF Units
  <1> QED
    BY <1>1, UnitsFinite, FS_Subset DEF SumOver

(***************************************************************************)
(* The sum depends on the amounts of the rows summed, and on nothing else. *)
(***************************************************************************)
LEMMA SumSame ==
    ASSUME NEW S, NEW f, NEW g, \A x \in S : f[x] = g[x]
    PROVE  SumOver(f, S) = SumOver(g, S)
  <1>1. \A x \in S : UnitsOf(f, x) = UnitsOf(g, x)
    BY DEF UnitsOf
  <1>2. Units(f, S) = Units(g, S)
    BY <1>1 DEF Units
  <1> QED
    BY <1>2 DEF SumOver

(***************************************************************************)
(* Rows of zero add nothing.                                               *)
(***************************************************************************)
LEMMA SumZeros ==
    ASSUME NEW S, NEW T, T \subseteq S, NEW f, \A x \in S \ T : f[x] = 0
    PROVE  SumOver(f, S) = SumOver(f, T)
  <1>1. 1 .. 0 = {}
    OBVIOUS
  <1>2. \A x \in S \ T : UnitsOf(f, x) = {}
    BY <1>1 DEF UnitsOf
  <1>3. Units(f, S) = Units(f, T)
    BY <1>2 DEF Units
  <1> QED
    BY <1>3 DEF SumOver

(***************************************************************************)
(* Two sets of rows together sum to at most what they sum to apart, and to *)
(* exactly that when they have no row in common.                           *)
(***************************************************************************)
LEMMA SumUnion ==
    ASSUME NEW S, IsFiniteSet(S), NEW T, IsFiniteSet(T),
           NEW f, \A x \in S \cup T : f[x] \in Nat
    PROVE  /\ SumOver(f, S \cup T) <= SumOver(f, S) + SumOver(f, T)
           /\ S \cap T = {} => SumOver(f, S \cup T) = SumOver(f, S) + SumOver(f, T)
  <1>1. Units(f, S \cup T) = Units(f, S) \cup Units(f, T)
    BY DEF Units
  <1>2. IsFiniteSet(Units(f, S)) /\ IsFiniteSet(Units(f, T))
    BY UnitsFinite
  <1>3. IsFiniteSet(Units(f, S) \cap Units(f, T))
    <2>1. Units(f, S) \cap Units(f, T) \in SUBSET Units(f, S)
      OBVIOUS
    <2> QED
      BY <1>2, <2>1, FS_Subset
  <1>4. /\ Cardinality(Units(f, S) \cup Units(f, T))
             = Cardinality(Units(f, S)) + Cardinality(Units(f, T))
                 - Cardinality(Units(f, S) \cap Units(f, T))
        /\ Cardinality(Units(f, S)) \in Nat
        /\ Cardinality(Units(f, T)) \in Nat
        /\ Cardinality(Units(f, S) \cap Units(f, T)) \in Nat
    BY <1>2, <1>3, FS_Union, FS_CardinalityType
  <1>5. S \cap T = {} => Cardinality(Units(f, S) \cap Units(f, T)) = 0
    <2>1. S \cap T = {} => Units(f, S) \cap Units(f, T) = {}
      BY DEF Units, UnitsOf
    <2> QED
      BY <2>1, FS_EmptySet
  <1>6. /\ Cardinality(Units(f, S) \cup Units(f, T))
             <= Cardinality(Units(f, S)) + Cardinality(Units(f, T))
        /\ S \cap T = {} => Cardinality(Units(f, S) \cup Units(f, T))
                             = Cardinality(Units(f, S)) + Cardinality(Units(f, T))
    BY <1>4, <1>5
  <1> QED
    BY <1>1, <1>6 DEF SumOver

(***************************************************************************)
(* Rows of at most b each sum to at most b times how many they are.        *)
(***************************************************************************)
LEMMA SumBound ==
    ASSUME NEW S, IsFiniteSet(S), NEW b \in Nat,
           NEW f, \A x \in S : f[x] \in Nat /\ f[x] <= b
    PROVE  SumOver(f, S) <= Cardinality(S) * b
  <1>1. IsFiniteSet(1 .. b) /\ Cardinality(1 .. b) = b
    BY FS_Interval
  <1>2. IsFiniteSet(S \X (1 .. b)) /\ Cardinality(S \X (1 .. b)) = Cardinality(S) * b
    BY <1>1, FS_Product
  <1>3. \A x \in S : 1 .. f[x] \subseteq 1 .. b
    OBVIOUS
  <1>4. \A x \in S : UnitsOf(f, x) \subseteq S \X (1 .. b)
    BY <1>3 DEF UnitsOf
  <1>5. Units(f, S) \in SUBSET (S \X (1 .. b))
    BY <1>4 DEF Units
  <1> QED
    BY <1>2, <1>5, FS_Subset DEF SumOver
=============================================================================
