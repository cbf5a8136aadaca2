----------------------------- MODULE StakeProofs ----------------------------
(***************************************************************************)
(* Facts about sums of stake, and about least elements and induction in a  *)
(* form the installed provers can use: about sets, not about predicates.   *)
(***************************************************************************)
EXTENDS Stake, FiniteSetTheorems, WellFoundedInduction, TLAPS

\* A set of validators as the code builds them: finitely many, keys
\* distinct, stakes natural numbers.
ValidatorSet(V) ==
    /\ IsFiniteSet(V)
    /\ \A v \in V : v.stake \in Nat
    /\ DistinctKeys(V)

-----------------------------------------------------------------------------
(* Every non-empty set of natural numbers has a least element.             *)
LEMMA LeastNatural ==
  ASSUME NEW T, T \subseteq Nat, T # {}
  PROVE  \E m \in T : \A n \in T : m <= n
<1>1. PICK b \in T : TRUE
  OBVIOUS
<1> DEFINE F == {0 .. n : n \in {k \in T : k <= b}}
<1>2. IsFiniteSet(0 .. b)
  BY FS_Interval, b \in Int, 0 \in Int
<1>3. F \subseteq FiniteSubsetsOf(0 .. b) /\ F # {}
  <2>1. FiniteSubsetsOf(0 .. b) = SUBSET (0 .. b)
    BY <1>2, FS_FiniteSubsetsOfFinite
  <2>2. \A S \in F : S \subseteq 0 .. b
    OBVIOUS
  <2>3. 0 .. b \in F
    OBVIOUS
  <2> QED
    BY <2>1, <2>2, <2>3
<1>4. IsWellFoundedOn(StrictSubsetOrdering(0 .. b), FiniteSubsetsOf(0 .. b))
  BY FS_StrictSubsetOrderingWellFounded
<1>5. PICK S \in F : \A R \in F : ~ (<<R, S>> \in StrictSubsetOrdering(0 .. b))
  <2> HIDE DEF F
  <2> QED BY <1>3, <1>4, WFMin
<1>6. PICK m \in T : m <= b /\ S = 0 .. m
  OBVIOUS
<1>7. ASSUME NEW n \in T PROVE m <= n
  <2>1. SUFFICES ASSUME n < m PROVE FALSE
    BY m \in Nat, n \in Nat
  <2>2. 0 .. n \in F /\ 0 .. n \subseteq 0 .. m /\ m \in 0 .. m /\ m \notin 0 .. n
    BY <1>6, <2>1
  <2>3. <<0 .. n, 0 .. m>> \in StrictSubsetOrdering(0 .. b)
    BY <1>6, <2>1, <2>2 DEF StrictSubsetOrdering
  <2> QED
    BY <1>5, <1>6, <2>2, <2>3
<1> QED
  BY <1>7

(* A set that contains zero and is closed under successor up to n contains *)
(* all of 0..n.                                                            *)
LEMMA IntervalInduction ==
  ASSUME NEW n \in Nat, NEW S, 0 \in S, \A i \in 0 .. n - 1 : i \in S => i + 1 \in S
  PROVE  0 .. n \subseteq S
<1> DEFINE T == {i \in 0 .. n : i \notin S}
<1>1. SUFFICES ASSUME T # {} PROVE FALSE
  OBVIOUS
<1>2. PICK m \in T : \A i \in T : m <= i
  <2>1. T \subseteq Nat
    OBVIOUS
  <2> HIDE DEF T
  <2> QED BY <1>1, <2>1, LeastNatural
<1>3. m # 0 /\ m \in 0 .. n /\ m \notin S
  OBVIOUS
<1>4. m - 1 \in 0 .. n - 1 /\ m - 1 \notin T
  BY <1>2, <1>3
<1>5. m - 1 \in S
  BY <1>4
<1> QED
  BY <1>3, <1>4, <1>5

-----------------------------------------------------------------------------
LEMMA UnitsFinite ==
  ASSUME NEW v, v.stake \in Nat
  PROVE  IsFiniteSet(UnitsOf(v)) /\ Cardinality(UnitsOf(v)) = v.stake
<1>1. IsFiniteSet({v.pubkey}) /\ Cardinality({v.pubkey}) = 1
  BY FS_Singleton
<1>2. IsFiniteSet(1 .. v.stake) /\ Cardinality(1 .. v.stake) = v.stake
  BY FS_Interval, 1 \in Int, v.stake \in Int
<1> QED
  BY <1>1, <1>2, FS_Product DEF UnitsOf

(* The sum exists and is a natural number, and the empty sum is zero.      *)
LEMMA StakeOfType ==
  ASSUME NEW V, ValidatorSet(V)
  PROVE  IsFiniteSet(StakeUnits(V)) /\ StakeOf(V) \in Nat
<1> DEFINE F == {UnitsOf(v) : v \in V}
<1>1. \A S \in F : IsFiniteSet(S)
  BY UnitsFinite DEF ValidatorSet
<1>2. IsFiniteSet(F)
  <2> DEFINE g == [v \in V |-> UnitsOf(v)]
  <2>1. g \in Surjection(V, F)
    BY DEF Surjection
  <2> QED
    BY <2>1, FS_Surjection DEF ValidatorSet
<1>3. IsFiniteSet(UNION F)
  BY <1>1, <1>2, FS_UNION
<1> QED
  BY <1>3, FS_CardinalityType DEF StakeUnits, StakeOf

LEMMA StakeOfEmpty == StakeOf({}) = 0
  BY FS_EmptySet, StakeUnits({}) = {} DEF StakeUnits, StakeOf

LEMMA StakeOfSingleton ==
  ASSUME NEW v, v.stake \in Nat
  PROVE  StakeOf({v}) = v.stake
<1>1. StakeUnits({v}) = UnitsOf(v)
  BY DEF StakeUnits
<1> QED
  BY <1>1, UnitsFinite DEF StakeOf

LEMMA SubsetIsValidatorSet ==
  ASSUME NEW V, ValidatorSet(V), NEW W, W \subseteq V
  PROVE  ValidatorSet(W)
  BY FS_Subset, W \in SUBSET V DEF ValidatorSet, DistinctKeys

(* Sums add up over disjoint sets because no key is listed twice.          *)
LEMMA StakeOfUnion ==
  ASSUME NEW V, NEW W, ValidatorSet(V \cup W), V \cap W = {}
  PROVE  StakeOf(V \cup W) = StakeOf(V) + StakeOf(W)
<1>1. ValidatorSet(V) /\ ValidatorSet(W)
  BY SubsetIsValidatorSet
<1>2. IsFiniteSet(StakeUnits(V)) /\ IsFiniteSet(StakeUnits(W))
  BY <1>1, StakeOfType
<1>3. StakeUnits(V \cup W) = StakeUnits(V) \cup StakeUnits(W)
  BY DEF StakeUnits
<1>4. StakeUnits(V) \cap StakeUnits(W) = {}
  <2>1. SUFFICES ASSUME NEW u, u \in StakeUnits(V), u \in StakeUnits(W) PROVE FALSE
    OBVIOUS
  <2>2. PICK v \in V : u \in UnitsOf(v)
    BY <2>1 DEF StakeUnits
  <2>3. PICK w \in W : u \in UnitsOf(w)
    BY <2>1 DEF StakeUnits
  <2>4. v.pubkey = w.pubkey
    BY <2>2, <2>3 DEF UnitsOf
  <2> QED
    BY <2>4 DEF ValidatorSet, DistinctKeys
<1>5. Cardinality(StakeUnits(V) \cap StakeUnits(W)) = 0
  BY <1>4, FS_EmptySet
<1>6. Cardinality(StakeUnits(V)) \in Nat /\ Cardinality(StakeUnits(W)) \in Nat
  BY <1>2, FS_CardinalityType
<1>7. Cardinality(StakeUnits(V) \cup StakeUnits(W))
        = Cardinality(StakeUnits(V)) + Cardinality(StakeUnits(W))
            - Cardinality(StakeUnits(V) \cap StakeUnits(W))
  BY <1>2, FS_Union
<1>8. StakeOf(V \cup W) = StakeOf(V) + StakeOf(W) - 0
  BY <1>3, <1>5, <1>7, Zenon DEF StakeOf
<1> QED
  BY <1>6, <1>8 DEF StakeOf

LEMMA StakeOfAdd ==
  ASSUME NEW V, NEW v, v \notin V, ValidatorSet(V \cup {v})
  PROVE  StakeOf(V \cup {v}) = StakeOf(V) + v.stake
<1>1. v.stake \in Nat
  BY DEF ValidatorSet
<1>2. StakeOf(V \cup {v}) = StakeOf(V) + StakeOf({v})
  BY StakeOfUnion
<1> QED
  BY <1>1, <1>2, StakeOfSingleton

LEMMA StakeOfRemove ==
  ASSUME NEW V, ValidatorSet(V), NEW v \in V
  PROVE  StakeOf(V) = StakeOf(V \ {v}) + v.stake
<1>1. V = (V \ {v}) \cup {v} /\ v \notin V \ {v}
  OBVIOUS
<1> QED
  BY <1>1, StakeOfAdd

LEMMA StakeOfMonotone ==
  ASSUME NEW V, ValidatorSet(V), NEW W, W \subseteq V
  PROVE  StakeOf(W) <= StakeOf(V)
<1>1. ValidatorSet(W) /\ ValidatorSet(V \ W)
  BY SubsetIsValidatorSet
<1>2. V = W \cup (V \ W) /\ W \cap (V \ W) = {}
  OBVIOUS
<1>3. StakeOf(V) = StakeOf(W) + StakeOf(V \ W)
  BY <1>2, StakeOfUnion
<1> QED
  BY <1>1, <1>3, StakeOfType

LEMMA StakeOfPositive ==
  ASSUME NEW V, ValidatorSet(V), V # {}, \A v \in V : v.stake > 0
  PROVE  StakeOf(V) > 0
<1>1. PICK v \in V : TRUE
  OBVIOUS
<1>2. ValidatorSet(V \ {v})
  BY SubsetIsValidatorSet
<1>3. v.stake \in Nat /\ StakeOf(V \ {v}) \in Nat
  BY <1>2, StakeOfType DEF ValidatorSet
<1> QED
  BY <1>1, <1>3, StakeOfRemove

(* Quorum intersection: two groups of validators that together own more    *)
(* stake than there is have a member in common.                            *)
LEMMA QuorumsIntersect ==
  ASSUME NEW V, ValidatorSet(V), NEW A, A \subseteq V, NEW B, B \subseteq V,
         StakeOf(A) + StakeOf(B) > StakeOf(V)
  PROVE  A \cap B # {}
<1>1. SUFFICES ASSUME A \cap B = {} PROVE FALSE
  OBVIOUS
<1>2. ValidatorSet(A \cup B) /\ A \cup B \subseteq V
  BY SubsetIsValidatorSet
<1>3. StakeOf(A) + StakeOf(B) = StakeOf(A \cup B)
  BY <1>1, <1>2, StakeOfUnion
<1>4. StakeOf(A \cup B) <= StakeOf(V)
  BY <1>2, StakeOfMonotone
<1>5. StakeOf(A \cup B) \in Nat /\ StakeOf(V) \in Nat
  BY <1>2, StakeOfType
<1> QED
  BY <1>3, <1>4, <1>5
=============================================================================
