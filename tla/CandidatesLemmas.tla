-------------------------- MODULE CandidatesLemmas --------------------------
(***************************************************************************)
(* Every method of the candidate list keeps it sorted and without          *)
(* duplicates, and keeps head_stake the sum of the first max_validators    *)
(* stakes, for any number of candidates, any stakes and any configuration. *)
(***************************************************************************)
EXTENDS Candidates, StakeProofs, SequenceTheorems

-----------------------------------------------------------------------------
(* Insertion into and removal from a sequence, element by element.         *)

\* What is at position i after e was inserted at position p of s.
Inserted(s, p, e, i) == IF i < p THEN s[i] ELSE IF i = p THEN e ELSE s[i - 1]

LEMMA InsertAtProperties ==
  ASSUME NEW S, NEW s \in Seq(S), NEW p \in 1 .. Len(s) + 1, NEW e \in S
  PROVE  /\ InsertAt(s, p, e) \in Seq(S)
         /\ Len(InsertAt(s, p, e)) = Len(s) + 1
         /\ \A i \in 1 .. Len(s) + 1 : InsertAt(s, p, e)[i] = Inserted(s, p, e, i)
<1>1. /\ SubSeq(s, 1, p - 1) \in Seq(S)
      /\ Len(SubSeq(s, 1, p - 1)) = p - 1
      /\ \A i \in 1 .. p - 1 : SubSeq(s, 1, p - 1)[i] = s[i]
  OBVIOUS
<1>2. /\ SubSeq(s, p, Len(s)) \in Seq(S)
      /\ Len(SubSeq(s, p, Len(s))) = Len(s) - p + 1
      /\ \A i \in 1 .. Len(s) - p + 1 : SubSeq(s, p, Len(s))[i] = s[p + i - 1]
  OBVIOUS
<1> DEFINE a == SubSeq(s, 1, p - 1)
           b == SubSeq(s, p, Len(s))
           c == <<e>>
<1>3. InsertAt(s, p, e) = (a \o c) \o b
  BY DEF InsertAt
<1>4. c \in Seq(S) /\ Len(c) = 1 /\ c[1] = e
  OBVIOUS
<1> HIDE DEF a, b, c
<1>5. a \in Seq(S) /\ b \in Seq(S) /\ Len(a) = p - 1 /\ Len(b) = Len(s) - p + 1
  BY <1>1, <1>2 DEF a, b
<1>6. /\ a \o c \in Seq(S)
      /\ Len(a \o c) = p
      /\ \A i \in 1 .. p : (a \o c)[i] = IF i <= p - 1 THEN a[i] ELSE c[i - (p - 1)]
  <2>1. /\ a \o c \in Seq(S)
        /\ Len(a \o c) = Len(a) + Len(c)
        /\ \A i \in 1 .. Len(a) + Len(c) :
             (a \o c)[i] = IF i <= Len(a) THEN a[i] ELSE c[i - Len(a)]
    BY <1>4, <1>5, ConcatProperties, Zenon
  <2>2. Len(a) + Len(c) = p
    BY <1>4, <1>5
  <2> QED
    BY <1>5, <2>1, <2>2, Zenon
<1> DEFINE d == a \o c
<1> HIDE DEF d
<1>7. /\ d \o b \in Seq(S)
      /\ Len(d \o b) = Len(s) + 1
      /\ \A i \in 1 .. Len(s) + 1 : (d \o b)[i] = IF i <= p THEN d[i] ELSE b[i - p]
  <2>1. d \in Seq(S) /\ Len(d) = p
    BY <1>6 DEF d
  <2>2. /\ d \o b \in Seq(S)
        /\ Len(d \o b) = Len(d) + Len(b)
        /\ \A i \in 1 .. Len(d) + Len(b) :
             (d \o b)[i] = IF i <= Len(d) THEN d[i] ELSE b[i - Len(d)]
    BY <1>5, <2>1, ConcatProperties, Zenon
  <2>3. Len(d) + Len(b) = Len(s) + 1
    BY <1>5, <2>1
  <2> QED
    BY <2>1, <2>2, <2>3, Zenon
<1>8. \A i \in 1 .. p - 1 : a[i] = s[i]
  BY <1>1 DEF a
<1>9. \A i \in 1 .. Len(s) - p + 1 : b[i] = s[p + i - 1]
  BY <1>2 DEF b
<1>11. InsertAt(s, p, e) = d \o b /\ \A i \in 1 .. p : d[i] = (a \o c)[i]
  BY <1>3 DEF d
<1> DEFINE z == d \o b
<1> HIDE DEF z
<1>12. \A i \in 1 .. p : d[i] = IF i <= p - 1 THEN a[i] ELSE c[i - (p - 1)]
  BY <1>6, <1>11
<1>13. \A i \in 1 .. Len(s) + 1 : z[i] = IF i <= p THEN d[i] ELSE b[i - p]
  BY <1>7 DEF z
<1>14. ASSUME NEW i \in 1 .. Len(s) + 1
       PROVE  z[i] = Inserted(s, p, e, i)
  <2>1. CASE i < p
    BY <2>1, <1>8, <1>12, <1>13 DEF Inserted
  <2>2. CASE i = p
    BY <2>2, <1>4, <1>12, <1>13 DEF Inserted
  <2>3. CASE i > p
    <3>1. i - p \in 1 .. Len(s) - p + 1 /\ p + (i - p) - 1 = i - 1
      BY <2>3
    <3>2. b[i - p] = s[i - 1]
      BY <3>1, <1>9, Zenon
    <3>3. z[i] = b[i - p] /\ ~(i < p) /\ i # p
      BY <2>3, <1>13
    <3> QED
      BY <3>2, <3>3 DEF Inserted
  <2> QED
    BY <2>1, <2>2, <2>3
<1> QED
  BY <1>7, <1>11, <1>14, Zenon DEF z

LEMMA RemoveAtProperties ==
  ASSUME NEW S, NEW s \in Seq(S), NEW p \in 1 .. Len(s)
  PROVE  /\ RemoveAt(s, p) \in Seq(S)
         /\ Len(RemoveAt(s, p)) = Len(s) - 1
         /\ \A i \in 1 .. Len(s) - 1 :
              RemoveAt(s, p)[i] = IF i < p THEN s[i] ELSE s[i + 1]
<1> DEFINE a == SubSeq(s, 1, p - 1)
           b == SubSeq(s, p + 1, Len(s))
<1>1. /\ a \in Seq(S)
      /\ Len(a) = p - 1
      /\ \A i \in 1 .. p - 1 : a[i] = s[i]
  OBVIOUS
<1>2. /\ b \in Seq(S)
      /\ Len(b) = Len(s) - p
      /\ \A i \in 1 .. Len(s) - p : b[i] = s[p + i]
  OBVIOUS
<1>3. RemoveAt(s, p) = a \o b
  BY DEF RemoveAt
<1> HIDE DEF a, b
<1>4. /\ a \o b \in Seq(S)
      /\ Len(a \o b) = Len(s) - 1
      /\ \A i \in 1 .. Len(s) - 1 :
           (a \o b)[i] = IF i <= p - 1 THEN a[i] ELSE b[i - (p - 1)]
  <2>1. /\ a \o b \in Seq(S)
        /\ Len(a \o b) = Len(a) + Len(b)
        /\ \A i \in 1 .. Len(a) + Len(b) :
             (a \o b)[i] = IF i <= Len(a) THEN a[i] ELSE b[i - Len(a)]
    BY <1>1, <1>2, ConcatProperties, Zenon
  <2>2. Len(a) + Len(b) = Len(s) - 1
    BY <1>1, <1>2
  <2> QED
    BY <1>1, <2>1, <2>2, Zenon
<1>5. ASSUME NEW i \in 1 .. Len(s) - 1
      PROVE  RemoveAt(s, p)[i] = IF i < p THEN s[i] ELSE s[i + 1]
  <2>1. CASE i < p
    BY <2>1, <1>1, <1>3, <1>4
  <2>2. CASE i >= p
    <3>1. i - (p - 1) \in 1 .. Len(s) - p /\ p + (i - (p - 1)) = i + 1
      BY <2>2
    <3> QED
      BY <2>2, <3>1, <1>2, <1>3, <1>4
  <2> QED
    BY <2>1, <2>2
<1> QED
  BY <1>3, <1>4, <1>5

-----------------------------------------------------------------------------
(* The order of candidates.                                                *)

LEMMA CandidateFields ==
  ASSUME NEW a \in Candidate
  PROVE  a.pubkey \in PubKey /\ a.pubkey \in Nat /\ a.stake \in Nat /\ a.stake > 0
<1>1. a.pubkey \in PubKey /\ a.stake \in Nat \ {0}
  BY DEF Candidate
<1>2. PubKey \subseteq Nat
  BY PubKeyAssumption
<1>3. a.pubkey \in Nat
  BY <1>1, <1>2
<1>4. a.stake \in Nat /\ a.stake > 0
  BY <1>1
<1> QED
  BY <1>1, <1>3, <1>4

LEMMA PrecedesTransitive ==
  ASSUME NEW a \in Candidate, NEW b \in Candidate, NEW c \in Candidate,
         Precedes(a, b), Precedes(b, c)
  PROVE  Precedes(a, c)
  BY CandidateFields DEF Precedes

LEMMA PrecedesTotal ==
  ASSUME NEW a \in Candidate, NEW b \in Candidate, a.pubkey # b.pubkey
  PROVE  Precedes(a, b) \/ Precedes(b, a)
  BY CandidateFields DEF Precedes

LEMMA PrecedesAsymmetric ==
  ASSUME NEW a \in Candidate, NEW b \in Candidate, Precedes(a, b)
  PROVE  ~Precedes(b, a) /\ a.stake >= b.stake
  BY CandidateFields DEF Precedes

(* On a sorted list binary_search splits the list: what precedes the       *)
(* candidate is before the position it returns and nothing else is.        *)
LEMMA SearchPosSplits ==
  ASSUME NEW list \in Seq(Candidate), Sorted(list), NEW c \in Candidate
  PROVE  /\ SearchPos(list, c) \in 1 .. Len(list) + 1
         /\ \A i \in 1 .. Len(list) : i < SearchPos(list, c) <=> Precedes(list[i], c)
<1> DEFINE D == {i \in 1 .. Len(list) : Precedes(list[i], c)}
           T == {i \in Nat \ {0} : i \notin D}
<1>1. Len(list) \in Nat /\ \A i \in 1 .. Len(list) : list[i] \in Candidate
  OBVIOUS
<1>2. T \subseteq Nat /\ Len(list) + 1 \in T
  BY <1>1
<1>3. PICK m \in T : \A i \in T : m <= i
  <2> HIDE DEF T
  <2> QED BY <1>2, LeastNatural
<1>4. m \in 1 .. Len(list) + 1
  BY <1>1, <1>2, <1>3
<1>5. D = 1 .. m - 1
  <2>1. ASSUME NEW i \in 1 .. m - 1 PROVE i \in D
    BY <1>3, <1>4
  <2>2. ASSUME NEW i \in D PROVE i \in 1 .. m - 1
    <3>1. SUFFICES ASSUME m <= i PROVE FALSE
      BY <1>1, <1>4
    <3>2. m # i /\ m < i /\ m \in 1 .. Len(list)
      BY <1>1, <1>3, <1>4, <3>1
    <3>3. Precedes(list[m], list[i])
      BY <3>2 DEF Sorted
    <3>4. Precedes(list[m], c)
      BY <1>1, <3>2, <3>3, PrecedesTransitive
    <3> QED
      BY <3>2, <3>4
  <2> QED
    BY <2>1, <2>2
<1>6. Cardinality(1 .. m - 1) = m - 1
  BY <1>4, FS_Interval, 1 \in Int, m - 1 \in Int
<1>7. SearchPos(list, c) = m
  <2>1. SearchPos(list, c) = Cardinality(D) + 1
    BY Zenon DEF SearchPos
  <2> QED
    BY <1>4, <1>5, <1>6, <2>1, Cardinality(D) = m - 1
<1> QED
  BY <1>4, <1>5, <1>7

-----------------------------------------------------------------------------
(* Prefixes of the list.                                                   *)

\* A list as the code keeps it.
GoodList(list) == list \in Seq(Candidate) /\ Sorted(list) /\ UniqueKeys(list)

LEMMA ListElements ==
  ASSUME NEW list \in Seq(Candidate)
  PROVE  /\ Len(list) \in Nat
         /\ \A i \in 1 .. Len(list) : list[i] \in Candidate
  OBVIOUS

LEMMA PrefixIsValidatorSet ==
  ASSUME NEW list, GoodList(list), NEW n \in Nat
  PROVE  /\ ValidatorSet(Prefix(list, n))
         /\ Prefix(list, n) \subseteq Candidate
<1> DEFINE I == {j \in 1 .. Len(list) : j <= n}
           f == [i \in I |-> list[i]]
<1>1. list \in Seq(Candidate) /\ Len(list) \in Nat
  BY DEF GoodList
<1>2. IsFiniteSet(I)
  <2>1. IsFiniteSet(1 .. Len(list))
    BY <1>1, FS_Interval, 1 \in Int, Len(list) \in Int
  <2> QED
    BY <2>1, FS_Subset, I \in SUBSET (1 .. Len(list))
<1>3. f \in Surjection(I, Prefix(list, n))
  BY DEF Surjection, Prefix
<1>4. IsFiniteSet(Prefix(list, n))
  <2> HIDE DEF I, f
  <2> QED BY <1>2, <1>3, FS_Surjection
<1>5. Prefix(list, n) \subseteq Candidate
  BY <1>1, ListElements DEF Prefix
<1>6. \A v \in Prefix(list, n) : v.stake \in Nat
  BY <1>5, CandidateFields
<1>7. DistinctKeys(Prefix(list, n))
  BY <1>1 DEF DistinctKeys, Prefix, GoodList, UniqueKeys
<1> QED
  BY <1>4, <1>5, <1>6, <1>7 DEF ValidatorSet

(* One more element adds its stake.                                        *)
LEMMA PrefixGrows ==
  ASSUME NEW list, GoodList(list), NEW n \in Nat
  PROVE  /\ StakeAt(list, n + 1) \in Nat
         /\ StakeOf(Prefix(list, n + 1)) = StakeOf(Prefix(list, n)) + StakeAt(list, n + 1)
<1>1. list \in Seq(Candidate) /\ Len(list) \in Nat
  BY DEF GoodList
<1>2. CASE n + 1 > Len(list)
  <2>1. Prefix(list, n + 1) = Prefix(list, n)
    BY <1>1, <1>2 DEF Prefix
  <2>2. StakeAt(list, n + 1) = 0
    BY <1>1, <1>2 DEF StakeAt
  <2>3. StakeOf(Prefix(list, n)) \in Nat
    BY PrefixIsValidatorSet, StakeOfType
  <2> QED
    BY <2>1, <2>2, <2>3
<1>3. CASE n + 1 <= Len(list)
  <2> DEFINE v == list[n + 1]
  <2>1. v \in Candidate /\ StakeAt(list, n + 1) = v.stake /\ n + 1 \in 1 .. Len(list)
    BY <1>1, <1>3, ListElements DEF StakeAt
  <2>2. Prefix(list, n + 1) = Prefix(list, n) \cup {v}
    BY <1>1, <1>3 DEF Prefix
  <2>3. v \notin Prefix(list, n)
    <3>1. SUFFICES ASSUME NEW i \in 1 .. Len(list), i <= n, list[i] = list[n + 1]
                   PROVE  FALSE
      BY DEF Prefix
    <3> QED
      BY <1>1, <2>1, <3>1 DEF GoodList, UniqueKeys
  <2>4. ValidatorSet(Prefix(list, n) \cup {v})
    BY <2>2, PrefixIsValidatorSet, n + 1 \in Nat
  <2>5. StakeOf(Prefix(list, n) \cup {v}) = StakeOf(Prefix(list, n)) + v.stake
    <3> HIDE DEF v
    <3> QED BY <2>3, <2>4, StakeOfAdd
  <2>6. v.stake \in Nat
    BY <2>1, CandidateFields
  <2> QED
    BY <2>1, <2>2, <2>5, <2>6
<1> QED
  BY <1>1, <1>2, <1>3

-----------------------------------------------------------------------------
(* What insertion and removal do to the list and to its prefixes.          *)

LEMMA InsertGood ==
  ASSUME NEW list, GoodList(list), NEW c \in Candidate, NEW p \in 1 .. Len(list) + 1,
         \A i \in 1 .. Len(list) : list[i].pubkey # c.pubkey,
         \A i \in 1 .. Len(list) : i < p <=> Precedes(list[i], c)
  PROVE  GoodList(InsertAt(list, p, c))
<1>1. list \in Seq(Candidate) /\ Len(list) \in Nat
  BY DEF GoodList
<1> DEFINE new == InsertAt(list, p, c)
<1>2. /\ new \in Seq(Candidate)
      /\ Len(new) = Len(list) + 1
      /\ \A i \in 1 .. Len(list) + 1 :
           new[i] = IF i < p THEN list[i] ELSE IF i = p THEN c ELSE list[i - 1]
  <2>1. /\ new \in Seq(Candidate)
        /\ Len(new) = Len(list) + 1
        /\ \A i \in 1 .. Len(list) + 1 : new[i] = Inserted(list, p, c, i)
    BY <1>1, InsertAtProperties, Zenon
  <2> HIDE DEF new
  <2> QED
    BY <2>1 DEF Inserted
<1> HIDE DEF new
<1>3. \A i \in 1 .. Len(list) : list[i] \in Candidate
  BY <1>1, ListElements
<1>4. \A i \in 1 .. Len(list) : i >= p => Precedes(c, list[i])
  BY <1>1, <1>3, PrecedesTotal
<1>5. ASSUME NEW i \in 1 .. Len(new), NEW j \in 1 .. Len(new), i < j
      PROVE  Precedes(new[i], new[j])
  <2> DEFINE a == IF i < p THEN i ELSE i - 1
             b == IF j < p THEN j ELSE j - 1
  <2>1. CASE i = p
    <3>1. b \in 1 .. Len(list) /\ b >= p /\ new[j] = list[b] /\ new[i] = c
      BY <1>1, <1>2, <1>5, <2>1
    <3> QED
      BY <1>4, <3>1
  <2>2. CASE j = p
    <3>1. a \in 1 .. Len(list) /\ a < p /\ new[i] = list[a] /\ new[j] = c
      BY <1>1, <1>2, <1>5, <2>2
    <3> QED
      BY <3>1
  <2>3. CASE i # p /\ j # p
    <3>1. a \in 1 .. Len(list) /\ b \in 1 .. Len(list) /\ new[i] = list[a] /\ new[j] = list[b]
      BY <1>1, <1>2, <2>3
    <3>2. a < b
      BY <1>1, <1>2, <1>5, <2>3
    <3> HIDE DEF a, b
    <3> QED
      BY <3>1, <3>2 DEF GoodList, Sorted
  <2> QED
    BY <2>1, <2>2, <2>3
<1>6. ASSUME NEW i \in 1 .. Len(new), NEW j \in 1 .. Len(new), new[i].pubkey = new[j].pubkey
      PROVE  i = j
  <2> DEFINE a == IF i < p THEN i ELSE i - 1
             b == IF j < p THEN j ELSE j - 1
  <2>1. /\ i # p => a \in 1 .. Len(list) /\ new[i] = list[a]
        /\ j # p => b \in 1 .. Len(list) /\ new[j] = list[b]
        /\ new[p] = c
    BY <1>1, <1>2
  <2>2. i # p /\ j # p /\ a = b => i = j
    BY <1>1, <1>2
  <2> HIDE DEF a, b
  <2>3. (i = p /\ j = p) \/ (i # p /\ j # p)
    BY <1>6, <2>1
  <2> QED
    BY <1>6, <2>1, <2>2, <2>3 DEF GoodList, UniqueKeys
<1> QED
  BY <1>2, <1>5, <1>6 DEF GoodList, Sorted, UniqueKeys, new

LEMMA RemoveGood ==
  ASSUME NEW list, GoodList(list), NEW p \in 1 .. Len(list)
  PROVE  GoodList(RemoveAt(list, p))
<1>1. list \in Seq(Candidate) /\ Len(list) \in Nat
  BY DEF GoodList
<1> DEFINE new == RemoveAt(list, p)
<1>2. /\ new \in Seq(Candidate)
      /\ Len(new) = Len(list) - 1
      /\ \A i \in 1 .. Len(list) - 1 : new[i] = IF i < p THEN list[i] ELSE list[i + 1]
  BY <1>1, RemoveAtProperties
<1> HIDE DEF new
<1>3. ASSUME NEW i \in 1 .. Len(new), NEW j \in 1 .. Len(new)
      PROVE  /\ i < j => Precedes(new[i], new[j])
             /\ new[i].pubkey = new[j].pubkey => i = j
  <2> DEFINE a == IF i < p THEN i ELSE i + 1
             b == IF j < p THEN j ELSE j + 1
  <2>1. a \in 1 .. Len(list) /\ b \in 1 .. Len(list) /\ new[i] = list[a] /\ new[j] = list[b]
    BY <1>1, <1>2
  <2>2. (i < j => a < b) /\ (a = b => i = j)
    BY <1>1, <1>2
  <2> HIDE DEF a, b
  <2> QED
    BY <2>1, <2>2 DEF GoodList, Sorted, UniqueKeys
<1> QED
  BY <1>2, <1>3 DEF GoodList, Sorted, UniqueKeys, new

LEMMA InsertPrefix ==
  ASSUME NEW list \in Seq(Candidate), NEW c \in Candidate,
         NEW p \in 1 .. Len(list) + 1, NEW n \in Nat
  PROVE  Prefix(InsertAt(list, p, c), n) =
           IF p > n THEN Prefix(list, n) ELSE Prefix(list, n - 1) \cup {c}
<1> DEFINE new == InsertAt(list, p, c)
<1>1. Len(list) \in Nat
  OBVIOUS
<1>2. /\ new \in Seq(Candidate)
      /\ Len(new) = Len(list) + 1
      /\ \A i \in 1 .. Len(list) + 1 :
           new[i] = IF i < p THEN list[i] ELSE IF i = p THEN c ELSE list[i - 1]
  <2>1. /\ new \in Seq(Candidate)
        /\ Len(new) = Len(list) + 1
        /\ \A i \in 1 .. Len(list) + 1 : new[i] = Inserted(list, p, c, i)
    BY InsertAtProperties, Zenon
  <2> HIDE DEF new
  <2> QED
    BY <2>1 DEF Inserted
<1> HIDE DEF new
<1>3. CASE p > n
  <2>1. ASSUME NEW x \in Prefix(new, n) PROVE x \in Prefix(list, n)
    BY <1>1, <1>2, <1>3 DEF Prefix
  <2>2. ASSUME NEW x \in Prefix(list, n) PROVE x \in Prefix(new, n)
    <3>1. PICK i \in 1 .. Len(list) : i <= n /\ x = list[i]
      BY DEF Prefix
    <3>2. i \in 1 .. Len(new) /\ new[i] = x
      BY <1>1, <1>2, <1>3, <3>1
    <3> QED
      BY <3>1, <3>2 DEF Prefix
  <2> QED
    BY <1>3, <2>1, <2>2 DEF new
<1>4. CASE p <= n
  <2>1. ASSUME NEW x \in Prefix(new, n) PROVE x \in Prefix(list, n - 1) \cup {c}
    <3>1. PICK i \in 1 .. Len(new) : i <= n /\ x = new[i]
      BY DEF Prefix
    <3>2. CASE i < p
      BY <1>1, <1>2, <1>4, <3>1, <3>2 DEF Prefix
    <3>3. CASE i = p
      BY <1>1, <1>2, <3>1, <3>3
    <3>4. CASE i > p
      <4>1. i - 1 \in 1 .. Len(list) /\ i - 1 <= n - 1 /\ x = list[i - 1]
        BY <1>1, <1>2, <3>1, <3>4
      <4> QED
        BY <4>1 DEF Prefix
    <3> QED
      BY <1>1, <1>2, <3>2, <3>3, <3>4
  <2>2. ASSUME NEW x \in Prefix(list, n - 1) PROVE x \in Prefix(new, n)
    <3>1. PICK i \in 1 .. Len(list) : i <= n - 1 /\ x = list[i]
      BY DEF Prefix
    <3>2. CASE i < p
      BY <1>1, <1>2, <1>4, <3>1, <3>2 DEF Prefix
    <3>3. CASE i >= p
      <4>1. i + 1 \in 1 .. Len(new) /\ i + 1 <= n /\ new[i + 1] = list[i]
        BY <1>1, <1>2, <3>1, <3>3
      <4> QED
        BY <3>1, <4>1 DEF Prefix
    <3> QED
      BY <3>2, <3>3
  <2>3. c \in Prefix(new, n)
    BY <1>1, <1>2, <1>4 DEF Prefix
  <2> QED
    BY <1>4, <2>1, <2>2, <2>3 DEF new
<1> QED
  BY <1>3, <1>4

LEMMA RemovePrefix ==
  ASSUME NEW list, GoodList(list), NEW p \in 1 .. Len(list), NEW n \in Nat
  PROVE  Prefix(RemoveAt(list, p), n) =
           IF p > n THEN Prefix(list, n) ELSE Prefix(list, n + 1) \ {list[p]}
<1> DEFINE new == RemoveAt(list, p)
<1>1. list \in Seq(Candidate) /\ Len(list) \in Nat
  BY DEF GoodList
<1>2. /\ Len(new) = Len(list) - 1
      /\ \A i \in 1 .. Len(list) - 1 : new[i] = IF i < p THEN list[i] ELSE list[i + 1]
  BY <1>1, RemoveAtProperties
<1> HIDE DEF new
<1>3. CASE p > n
  <2>1. ASSUME NEW x \in Prefix(new, n) PROVE x \in Prefix(list, n)
    BY <1>1, <1>2, <1>3 DEF Prefix
  <2>2. ASSUME NEW x \in Prefix(list, n) PROVE x \in Prefix(new, n)
    <3>1. PICK i \in 1 .. Len(list) : i <= n /\ x = list[i]
      BY DEF Prefix
    <3>2. i \in 1 .. Len(new) /\ new[i] = x
      BY <1>1, <1>2, <1>3, <3>1
    <3> QED
      BY <3>1, <3>2 DEF Prefix
  <2> QED
    BY <1>3, <2>1, <2>2 DEF new
<1>4. CASE p <= n
  <2>1. ASSUME NEW x \in Prefix(new, n) PROVE x \in Prefix(list, n + 1) \ {list[p]}
    <3>1. PICK i \in 1 .. Len(new) : i <= n /\ x = new[i]
      BY DEF Prefix
    <3> DEFINE a == IF i < p THEN i ELSE i + 1
    <3>2. a \in 1 .. Len(list) /\ a <= n + 1 /\ a # p /\ x = list[a]
      BY <1>1, <1>2, <3>1
    <3> HIDE DEF a
    <3>3. list[a] # list[p]
      BY <3>2 DEF GoodList, UniqueKeys
    <3> QED
      BY <3>2, <3>3 DEF Prefix
  <2>2. ASSUME NEW x \in Prefix(list, n + 1), x # list[p] PROVE x \in Prefix(new, n)
    <3>1. PICK i \in 1 .. Len(list) : i <= n + 1 /\ x = list[i]
      BY DEF Prefix
    <3> DEFINE a == IF i < p THEN i ELSE i - 1
    <3>2. i # p
      BY <2>2, <3>1
    <3>3. a \in 1 .. Len(new) /\ a <= n /\ new[a] = x
      BY <1>1, <1>2, <1>4, <3>1, <3>2
    <3> HIDE DEF a
    <3> QED
      BY <3>3 DEF Prefix
  <2> QED
    BY <1>4, <2>1, <2>2 DEF new
<1> QED
  BY <1>3, <1>4

-----------------------------------------------------------------------------
(* The sum of the first n stakes under insertion and removal: what the     *)
(* increments and decrements of head_stake have to amount to.              *)

LEMMA SumType ==
  ASSUME NEW list, GoodList(list), NEW n \in Nat
  PROVE  sum_head_stake(n, list) \in Nat
  BY PrefixIsValidatorSet, StakeOfType DEF sum_head_stake

LEMMA SumAfterInsert ==
  ASSUME NEW list, GoodList(list), NEW c \in Candidate, NEW p \in 1 .. Len(list) + 1,
         GoodList(InsertAt(list, p, c)), NEW n \in Nat \ {0}
  PROVE  sum_head_stake(n, InsertAt(list, p, c)) =
           IF p > n THEN sum_head_stake(n, list)
           ELSE sum_head_stake(n - 1, list) + c.stake
<1> DEFINE new == InsertAt(list, p, c)
<1>1. list \in Seq(Candidate) /\ Len(list) \in Nat /\ n \in Nat /\ n - 1 \in Nat
  BY DEF GoodList
<1>2. Prefix(new, n) = IF p > n THEN Prefix(list, n) ELSE Prefix(list, n - 1) \cup {c}
  BY <1>1, InsertPrefix
<1>3. /\ new \in Seq(Candidate)
      /\ Len(new) = Len(list) + 1
      /\ \A i \in 1 .. Len(list) + 1 :
           new[i] = IF i < p THEN list[i] ELSE IF i = p THEN c ELSE list[i - 1]
  <2>1. /\ new \in Seq(Candidate)
        /\ Len(new) = Len(list) + 1
        /\ \A i \in 1 .. Len(list) + 1 : new[i] = Inserted(list, p, c, i)
    BY <1>1, InsertAtProperties, Zenon
  <2> HIDE DEF new
  <2> QED
    BY <2>1 DEF Inserted
<1>4. GoodList(new)
  OBVIOUS
<1> HIDE DEF new
<1>5. CASE p > n
  BY <1>2, <1>5 DEF sum_head_stake, new
<1>6. CASE p <= n
  <2>1. c \notin Prefix(list, n - 1)
    <3>1. SUFFICES ASSUME NEW i \in 1 .. Len(list), list[i] = c PROVE FALSE
      BY DEF Prefix
    <3> DEFINE a == IF i < p THEN i ELSE i + 1
    <3>2. a \in 1 .. Len(new) /\ p \in 1 .. Len(new) /\ a # p /\ new[a] = c /\ new[p] = c
      BY <1>1, <1>3, <3>1
    <3> HIDE DEF a
    <3> QED
      BY <1>4, <3>2 DEF GoodList, UniqueKeys
  <2>2. ValidatorSet(Prefix(list, n - 1) \cup {c})
    <3>1. Prefix(new, n) = Prefix(list, n - 1) \cup {c}
      BY <1>1, <1>2, <1>6
    <3>2. ValidatorSet(Prefix(new, n))
      BY <1>1, <1>4, PrefixIsValidatorSet
    <3> QED
      BY <3>1, <3>2
  <2>3. StakeOf(Prefix(list, n - 1) \cup {c}) = StakeOf(Prefix(list, n - 1)) + c.stake
    BY <2>1, <2>2, StakeOfAdd
  <2> QED
    BY <1>2, <1>6, <2>3 DEF sum_head_stake, new
<1> QED
  BY <1>1, <1>5, <1>6

LEMMA SumAfterRemove ==
  ASSUME NEW list, GoodList(list), NEW p \in 1 .. Len(list), NEW n \in Nat
  PROVE  /\ sum_head_stake(n, RemoveAt(list, p)) =
              IF p > n THEN sum_head_stake(n, list)
              ELSE sum_head_stake(n + 1, list) - list[p].stake
         /\ list[p].stake \in Nat
<1>1. list \in Seq(Candidate) /\ Len(list) \in Nat /\ n + 1 \in Nat
  BY DEF GoodList
<1>2. list[p] \in Candidate /\ list[p].stake \in Nat
  BY <1>1, ListElements, CandidateFields
<1>3. Prefix(RemoveAt(list, p), n) =
        IF p > n THEN Prefix(list, n) ELSE Prefix(list, n + 1) \ {list[p]}
  BY RemovePrefix
<1>4. CASE p > n
  BY <1>2, <1>3, <1>4 DEF sum_head_stake
<1>5. CASE p <= n
  <2> DEFINE V == Prefix(list, n + 1)
             v == list[p]
  <2>1. v \in V
    BY <1>1, <1>5 DEF Prefix
  <2>2. ValidatorSet(V)
    BY <1>1, PrefixIsValidatorSet
  <2> HIDE DEF V, v
  <2>3. StakeOf(V) = StakeOf(V \ {v}) + v.stake
    BY <2>1, <2>2, StakeOfRemove
  <2>4. StakeOf(V \ {v}) \in Nat
    BY <2>2, SubsetIsValidatorSet, StakeOfType
  <2>5. StakeOf(V \ {v}) = StakeOf(V) - v.stake
    BY <1>2, <2>3, <2>4 DEF v
  <2> QED
    BY <1>2, <1>3, <1>5, <2>5 DEF sum_head_stake, V, v
<1> QED
  BY <1>1, <1>4, <1>5

LEMMA SumGrows ==
  ASSUME NEW list, GoodList(list), NEW n \in Nat
  PROVE  /\ StakeAt(list, n + 1) \in Nat
         /\ sum_head_stake(n + 1, list) = sum_head_stake(n, list) + StakeAt(list, n + 1)
  BY PrefixGrows DEF sum_head_stake

(* Stakes do not increase along the list, so replacing a member of the     *)
(* head by the first candidate after it never raises the head's stake.     *)
LEMMA HeadOutweighsTail ==
  ASSUME NEW list, GoodList(list), NEW p \in 1 .. Len(list), NEW n \in Nat, p <= n
  PROVE  StakeAt(list, n) <= list[p].stake
<1>1. list \in Seq(Candidate) /\ Len(list) \in Nat
  BY DEF GoodList
<1>2. list[p] \in Candidate /\ list[p].stake \in Nat
  BY <1>1, ListElements, CandidateFields
<1>3. CASE n > Len(list)
  BY <1>1, <1>2, <1>3 DEF StakeAt
<1>4. CASE n <= Len(list) /\ p < n
  <2>1. n \in 1 .. Len(list) /\ list[n] \in Candidate
    BY <1>1, <1>4, ListElements
  <2>2. Precedes(list[p], list[n])
    BY <1>4, <2>1 DEF GoodList, Sorted
  <2>3. list[p].stake >= list[n].stake /\ list[n].stake \in Nat
    BY <1>2, <2>1, <2>2, PrecedesAsymmetric, CandidateFields
  <2> QED
    BY <1>2, <2>1, <2>3 DEF StakeAt
<1>5. CASE p = n
  BY <1>1, <1>2, <1>5 DEF StakeAt
<1> QED
  BY <1>1, <1>3, <1>4, <1>5

-----------------------------------------------------------------------------
(* Every method keeps the list well formed.                                *)

Good(x) == IsCandidates(x) /\ debug_verify_state(x)

LEMMA GoodFields ==
  ASSUME NEW x, Good(x)
  PROVE  /\ x = [max_validators |-> x.max_validators, candidates |-> x.candidates,
                 changed |-> x.changed, head_stake |-> x.head_stake]
         /\ x.max_validators \in Nat /\ x.max_validators > 0
         /\ GoodList(x.candidates)
         /\ x.candidates \in Seq(Candidate) /\ Len(x.candidates) \in Nat
         /\ x.changed \in BOOLEAN
         /\ x.head_stake = sum_head_stake(x.max_validators, x.candidates)
         /\ x.head_stake \in Nat /\ x.head_stake <= U128Max
  BY U128MaxAssumption DEF Good, IsCandidates, debug_verify_state, GoodList

LEMMA GoodFromFields ==
  ASSUME NEW y,
         y = [max_validators |-> y.max_validators, candidates |-> y.candidates,
              changed |-> y.changed, head_stake |-> y.head_stake],
         y.max_validators \in Nat \ {0},
         GoodList(y.candidates),
         y.changed \in BOOLEAN,
         y.head_stake = sum_head_stake(y.max_validators, y.candidates),
         y.head_stake <= U128Max
  PROVE  Good(y)
<1>1. y.head_stake \in Nat
  BY SumType
<1> QED
  BY <1>1, U128MaxAssumption DEF Good, IsCandidates, debug_verify_state, GoodList

LEMMA AddHeadStakeFields ==
  ASSUME NEW x, Good(x), NEW d, NEW z \in add_head_stake(x, d)
  PROVE  /\ z = [max_validators |-> x.max_validators, candidates |-> x.candidates,
                 changed |-> z.changed, head_stake |-> z.head_stake]
         /\ z.changed \in BOOLEAN
         /\ z.head_stake = x.head_stake + d
         /\ z.head_stake <= U128Max
<1>1. x = [max_validators |-> x.max_validators, candidates |-> x.candidates,
           changed |-> x.changed, head_stake |-> x.head_stake]
  BY GoodFields, Zenon
<1> QED
  BY <1>1 DEF add_head_stake

LEMMA SubHeadStakeFields ==
  ASSUME NEW x, Good(x), NEW cfg, NEW d, NEW z \in sub_head_stake(x, cfg, d)
  PROVE  /\ z = [max_validators |-> x.max_validators, candidates |-> x.candidates,
                 changed |-> z.changed, head_stake |-> z.head_stake]
         /\ z.changed \in BOOLEAN
         /\ z.head_stake = x.head_stake - d
<1>1. x = [max_validators |-> x.max_validators, candidates |-> x.candidates,
           changed |-> x.changed, head_stake |-> x.head_stake]
  BY GoodFields, Zenon
<1> QED
  BY <1>1 DEF sub_head_stake

LEMMA AddImplGood ==
  ASSUME NEW x, Good(x), NEW c \in Candidate,
         \A i \in 1 .. Len(x.candidates) : x.candidates[i].pubkey # c.pubkey,
         NEW y \in add_impl(x, SearchPos(x.candidates, c), c)
  PROVE  Good(y)
<1> DEFINE list == x.candidates
           max  == x.max_validators
           p    == SearchPos(list, c)
           new  == InsertAt(list, p, c)
<1>1. /\ GoodList(list) /\ list \in Seq(Candidate) /\ Len(list) \in Nat
      /\ max \in Nat /\ max > 0
      /\ x = [max_validators |-> max, candidates |-> list,
              changed |-> x.changed, head_stake |-> x.head_stake]
      /\ x.changed \in BOOLEAN
      /\ x.head_stake = sum_head_stake(max, list)
      /\ x.head_stake \in Nat /\ x.head_stake <= U128Max
  BY GoodFields
<1>2. p \in 1 .. Len(list) + 1 /\ \A i \in 1 .. Len(list) : i < p <=> Precedes(list[i], c)
  BY <1>1, SearchPosSplits DEF GoodList
<1>3. GoodList(new)
  <2> HIDE DEF p, list
  <2> QED BY <1>1, <1>2, InsertGood DEF list
<1>4. /\ y = [max_validators |-> max, candidates |-> new,
              changed |-> y.changed, head_stake |-> y.head_stake]
      /\ y.changed \in BOOLEAN
      /\ p > max => y.head_stake = x.head_stake
      /\ ~(p > max) => /\ y.head_stake = x.head_stake + (c.stake - StakeAt(new, max + 1))
                       /\ y.head_stake <= U128Max
  <2> HIDE DEF p
  <2> QED BY <1>1 DEF add_impl, add_head_stake, p
<1>5. c.stake \in Nat
  BY CandidateFields
<1>6. /\ new \in Seq(Candidate)
      /\ Len(new) = Len(list) + 1
      /\ \A i \in 1 .. Len(list) + 1 :
           new[i] = IF i < p THEN list[i] ELSE IF i = p THEN c ELSE list[i - 1]
  <2>1. list \in Seq(Candidate) /\ p \in 1 .. Len(list) + 1
    BY <1>1, <1>2
  <2> HIDE DEF p, list
  <2>2. /\ new \in Seq(Candidate)
        /\ Len(new) = Len(list) + 1
        /\ \A i \in 1 .. Len(list) + 1 : new[i] = Inserted(list, p, c, i)
    BY <2>1, InsertAtProperties, Zenon
  <2> HIDE DEF new
  <2> QED
    BY <2>2 DEF Inserted
<1>7. y.max_validators = max /\ y.candidates = new
  BY <1>4
<1>8. sum_head_stake(max, new) = IF p > max THEN sum_head_stake(max, list)
                                 ELSE sum_head_stake(max - 1, list) + c.stake
  <2> HIDE DEF p, list, max
  <2> QED BY <1>1, <1>2, <1>3, SumAfterInsert
<1> HIDE DEF new, p, list, max
<1>9. y.head_stake = sum_head_stake(max, new) /\ y.head_stake <= U128Max
  <2>1. CASE p > max
    BY <1>1, <1>4, <1>8, <2>1
  <2>2. CASE ~(p > max)
    <3>1. StakeAt(new, max + 1) = StakeAt(list, max)
      <4>1. CASE max + 1 \in 1 .. Len(new)
        <5>1. new[max + 1] = list[max]
          <6>1. ~(max + 1 < p) /\ max + 1 # p /\ (max + 1) - 1 = max
            BY <1>1, <1>2, <2>2
          <6> QED
            BY <1>6, <4>1, <6>1
        <5> QED
          BY <1>1, <1>6, <4>1, <5>1 DEF StakeAt
      <4>2. CASE max + 1 \notin 1 .. Len(new)
        BY <1>1, <1>6, <4>2 DEF StakeAt
      <4> QED
        BY <4>1, <4>2
    <3>2. /\ StakeAt(list, max) \in Nat
          /\ sum_head_stake(max, list) = sum_head_stake(max - 1, list) + StakeAt(list, max)
      <4>1. max - 1 \in Nat /\ (max - 1) + 1 = max
        BY <1>1
      <4> QED
        BY <1>1, <4>1, SumGrows
    <3>3. sum_head_stake(max - 1, list) \in Nat
      BY <1>1, max - 1 \in Nat, SumType
    <3> QED
      BY <1>1, <1>4, <1>5, <1>8, <2>2, <3>1, <3>2, <3>3
  <2> QED
    BY <2>1, <2>2
<1> QED
  BY <1>1, <1>3, <1>4, <1>7, <1>9, GoodFromFields

(* update_stake_for_remove leaves in head_stake the sum the list has once  *)
(* the candidate is gone.                                                  *)
LEMMA StakeForRemove ==
  ASSUME NEW x, Good(x), NEW cfg, NEW p \in 1 .. Len(x.candidates),
         NEW y \in update_stake_for_remove(x, cfg, p)
  PROVE  /\ y = [max_validators |-> x.max_validators, candidates |-> x.candidates,
                 changed |-> y.changed, head_stake |-> y.head_stake]
         /\ y.changed \in BOOLEAN
         /\ y.head_stake = sum_head_stake(x.max_validators, RemoveAt(x.candidates, p))
         /\ y.head_stake <= U128Max
<1> DEFINE list == x.candidates
           max  == x.max_validators
<1>1. /\ GoodList(list) /\ list \in Seq(Candidate) /\ Len(list) \in Nat
      /\ max \in Nat /\ max > 0
      /\ x = [max_validators |-> max, candidates |-> list,
              changed |-> x.changed, head_stake |-> x.head_stake]
      /\ x.changed \in BOOLEAN
      /\ x.head_stake = sum_head_stake(max, list)
      /\ x.head_stake \in Nat /\ x.head_stake <= U128Max
  BY GoodFields
<1>2. /\ y = [max_validators |-> max, candidates |-> list,
              changed |-> y.changed, head_stake |-> y.head_stake]
      /\ y.changed \in BOOLEAN
      /\ p > max => y.head_stake = x.head_stake
      /\ ~(p > max) =>
            y.head_stake = x.head_stake - (list[p].stake - StakeAt(list, max + 1))
  BY <1>1 DEF update_stake_for_remove, sub_head_stake
<1>3. /\ sum_head_stake(max, RemoveAt(list, p)) =
           IF p > max THEN sum_head_stake(max, list)
           ELSE sum_head_stake(max + 1, list) - list[p].stake
      /\ list[p].stake \in Nat
  <2> HIDE DEF list, max
  <2> QED BY <1>1, SumAfterRemove DEF list
<1>4. /\ StakeAt(list, max + 1) \in Nat
      /\ sum_head_stake(max + 1, list) = sum_head_stake(max, list) + StakeAt(list, max + 1)
  BY <1>1, SumGrows
<1>5. ~(p > max) => StakeAt(list, max + 1) <= list[p].stake
  <2> HIDE DEF list, max
  <2> QED BY <1>1, max + 1 \in Nat, HeadOutweighsTail DEF list
<1> HIDE DEF list, max
<1>6. y.head_stake = sum_head_stake(max, RemoveAt(list, p)) /\ y.head_stake <= U128Max
  BY <1>1, <1>2, <1>3, <1>4, <1>5, U128MaxAssumption
<1> QED
  BY <1>2, <1>6 DEF list, max

LEMMA DoRemoveGood ==
  ASSUME NEW x, Good(x), NEW cfg, NEW p \in 1 .. Len(x.candidates),
         NEW y \in do_remove(x, cfg, p)
  PROVE  Good(y)
<1>1. PICK z \in update_stake_for_remove(x, cfg, p) :
         y = [z EXCEPT !.candidates = RemoveAt(@, p)]
  BY DEF do_remove
<1>2. /\ z = [max_validators |-> x.max_validators, candidates |-> x.candidates,
              changed |-> z.changed, head_stake |-> z.head_stake]
      /\ z.changed \in BOOLEAN
      /\ z.head_stake = sum_head_stake(x.max_validators, RemoveAt(x.candidates, p))
      /\ z.head_stake <= U128Max
  BY <1>1, StakeForRemove
<1>3. y = [max_validators |-> x.max_validators, candidates |-> RemoveAt(x.candidates, p),
           changed |-> z.changed, head_stake |-> z.head_stake]
  BY <1>1, <1>2
<1>4. GoodList(RemoveAt(x.candidates, p)) /\ x.max_validators \in Nat \ {0}
  BY GoodFields, RemoveGood
<1> QED
  BY <1>2, <1>3, <1>4, GoodFromFields

(* The position computed on the list that still holds the candidate, less  *)
(* one when it is past the old position, is the position on the list       *)
(* without the candidate.                                                  *)
LEMMA MovePosition ==
  ASSUME NEW list, GoodList(list), NEW c \in Candidate, NEW old \in 1 .. Len(list),
         NEW at, at = SearchPos(list, c),
         NEW new, new = IF at > old THEN at - 1 ELSE at
  PROVE  /\ new \in 1 .. Len(RemoveAt(list, old)) + 1
         /\ \A i \in 1 .. Len(RemoveAt(list, old)) :
              i < new <=> Precedes(RemoveAt(list, old)[i], c)
<1> DEFINE rest == RemoveAt(list, old)
<1>1. list \in Seq(Candidate) /\ Len(list) \in Nat /\ Sorted(list)
  BY DEF GoodList
<1>2. at \in 1 .. Len(list) + 1 /\ \A i \in 1 .. Len(list) : i < at <=> Precedes(list[i], c)
  BY <1>1, SearchPosSplits
<1>3. /\ rest \in Seq(Candidate)
      /\ Len(rest) = Len(list) - 1
      /\ \A i \in 1 .. Len(list) - 1 : rest[i] = IF i < old THEN list[i] ELSE list[i + 1]
  BY <1>1, RemoveAtProperties
<1> HIDE DEF rest
<1>4. new \in 1 .. Len(rest) + 1
  BY <1>1, <1>2, <1>3
<1>5. ASSUME NEW i \in 1 .. Len(rest)
      PROVE  i < new <=> Precedes(rest[i], c)
  <2> DEFINE a == IF i < old THEN i ELSE i + 1
  <2>1. a \in 1 .. Len(list) /\ rest[i] = list[a]
    BY <1>1, <1>3
  <2>2. i < new <=> a < at
    BY <1>1, <1>2, <1>3
  <2> HIDE DEF a
  <2> QED
    BY <1>2, <2>1, <2>2
<1> QED
  BY <1>4, <1>5 DEF rest

LEMMA MovedList ==
  ASSUME NEW x, Good(x), NEW c \in Candidate, NEW old \in 1 .. Len(x.candidates),
         x.candidates[old].pubkey = c.pubkey,
         NEW at, at = SearchPos(x.candidates, c),
         NEW new, new = IF at > old THEN at - 1 ELSE at
  PROVE  LET list  == x.candidates
             max   == x.max_validators
             rest  == RemoveAt(list, old)
             moved == InsertAt(rest, new, c)
         IN  /\ new \in Nat /\ old \in Nat
             /\ new \in 1 .. Len(rest) + 1 /\ GoodList(rest) /\ GoodList(moved)
             /\ new > max => sum_head_stake(max, moved) = sum_head_stake(max, rest)
             /\ ~(new > max) /\ old > max =>
                  sum_head_stake(max, moved) = x.head_stake + (c.stake - StakeAt(list, max))
             /\ ~(new > max) /\ ~(old > max) =>
                  sum_head_stake(max, moved) = x.head_stake - (list[old].stake - c.stake)
<1> DEFINE list  == x.candidates
           max   == x.max_validators
           rest  == RemoveAt(list, old)
           moved == InsertAt(rest, new, c)
<1>1. /\ GoodList(list) /\ list \in Seq(Candidate) /\ Len(list) \in Nat
      /\ max \in Nat \ {0} /\ max > 0 /\ max - 1 \in Nat /\ (max - 1) + 1 = max
      /\ x = [max_validators |-> max, candidates |-> list,
              changed |-> x.changed, head_stake |-> x.head_stake]
      /\ x.changed \in BOOLEAN
      /\ x.head_stake = sum_head_stake(max, list)
      /\ x.head_stake \in Nat /\ x.head_stake <= U128Max
  BY GoodFields
<1>2. GoodList(rest)
  BY <1>1, RemoveGood
<1>3. /\ new \in 1 .. Len(rest) + 1
      /\ \A i \in 1 .. Len(rest) : i < new <=> Precedes(rest[i], c)
  BY <1>1, MovePosition
<1>4. \A i \in 1 .. Len(rest) : rest[i].pubkey # c.pubkey
  <2>1. /\ rest \in Seq(Candidate)
        /\ Len(rest) = Len(list) - 1
        /\ \A i \in 1 .. Len(list) - 1 : rest[i] = IF i < old THEN list[i] ELSE list[i + 1]
    BY <1>1, RemoveAtProperties
  <2> HIDE DEF rest
  <2>2. SUFFICES ASSUME NEW i \in 1 .. Len(rest) PROVE rest[i].pubkey # c.pubkey
    OBVIOUS
  <2> DEFINE a == IF i < old THEN i ELSE i + 1
  <2>3. a \in 1 .. Len(list) /\ rest[i] = list[a] /\ a # old
    BY <1>1, <2>1
  <2> HIDE DEF a
  <2> QED
    BY <1>1, <2>3 DEF GoodList, UniqueKeys
<1>5. GoodList(moved)
  <2> HIDE DEF rest
  <2> QED BY <1>2, <1>3, <1>4, InsertGood
<1>6. sum_head_stake(max, moved) = IF new > max THEN sum_head_stake(max, rest)
                                   ELSE sum_head_stake(max - 1, rest) + c.stake
  <2> HIDE DEF rest
  <2> QED BY <1>1, <1>2, <1>3, <1>5, SumAfterInsert
<1>7. /\ sum_head_stake(max - 1, rest) =
           IF old > max - 1 THEN sum_head_stake(max - 1, list)
           ELSE sum_head_stake(max, list) - list[old].stake
      /\ list[old].stake \in Nat
  <2>1. /\ sum_head_stake(max - 1, rest) =
             IF old > max - 1 THEN sum_head_stake(max - 1, list)
             ELSE sum_head_stake((max - 1) + 1, list) - list[old].stake
        /\ list[old].stake \in Nat
    BY <1>1, SumAfterRemove
  <2> QED
    BY <1>1, <2>1
<1>8. /\ StakeAt(list, max) \in Nat
      /\ sum_head_stake(max, list) = sum_head_stake(max - 1, list) + StakeAt(list, max)
  <2>1. /\ StakeAt(list, (max - 1) + 1) \in Nat
        /\ sum_head_stake((max - 1) + 1, list) =
             sum_head_stake(max - 1, list) + StakeAt(list, (max - 1) + 1)
    BY <1>1, SumGrows
  <2> QED
    BY <1>1, <2>1
<1>9. /\ c.stake \in Nat
      /\ sum_head_stake(max - 1, list) \in Nat
      /\ sum_head_stake(max - 1, rest) \in Nat
  BY <1>1, <1>2, SumType, CandidateFields
<1>10. new \in Nat /\ old \in Nat
  BY <1>1, <1>2, <1>3 DEF GoodList
<1>11. old = max => StakeAt(list, max) = list[old].stake
  BY <1>1 DEF StakeAt
<1> HIDE DEF list, max, rest, moved
<1>12. new > max => sum_head_stake(max, moved) = sum_head_stake(max, rest)
  BY <1>6
<1>13. ASSUME ~(new > max), old > max
       PROVE  sum_head_stake(max, moved) = x.head_stake + (c.stake - StakeAt(list, max))
  <2>1. sum_head_stake(max, moved) = sum_head_stake(max - 1, list) + c.stake
    BY <1>1, <1>6, <1>7, <1>10, <1>13
  <2> QED
    BY <1>1, <1>8, <1>9, <2>1
<1>14. ASSUME ~(new > max), ~(old > max)
       PROVE  sum_head_stake(max, moved) = x.head_stake - (list[old].stake - c.stake)
  <2>1. CASE old = max
    <3>1. sum_head_stake(max - 1, rest) = sum_head_stake(max - 1, list)
      BY <1>1, <1>7, <2>1
    <3>2. x.head_stake = sum_head_stake(max - 1, list) + list[old].stake
      BY <1>1, <1>8, <1>11, <2>1
    <3>3. sum_head_stake(max, moved) = sum_head_stake(max - 1, rest) + c.stake
      BY <1>6, <1>14
    <3> QED
      BY <1>7, <1>9, <3>1, <3>2, <3>3
  <2>2. CASE old # max
    <3>1. ~(old > max - 1)
      BY <1>1, <1>10, <1>14, <2>2
    <3>2. sum_head_stake(max - 1, rest) = x.head_stake - list[old].stake
      BY <1>1, <1>7, <3>1
    <3>3. sum_head_stake(max, moved) = sum_head_stake(max - 1, rest) + c.stake
      BY <1>6, <1>14
    <3> QED
      BY <1>1, <1>7, <1>9, <3>2, <3>3
  <2> QED
    BY <2>1, <2>2
<1> QED
  BY <1>2, <1>3, <1>5, <1>10, <1>12, <1>13, <1>14 DEF list, max, rest, moved

LEMMA UpdateImplGood ==
  ASSUME NEW x, Good(x), NEW cfg, NEW c \in Candidate, NEW old \in 1 .. Len(x.candidates),
         x.candidates[old].pubkey = c.pubkey,
         NEW at, at = SearchPos(x.candidates, c),
         NEW new, new = IF at > old THEN at - 1 ELSE at,
         NEW y \in update_impl(x, cfg, old, new, c)
  PROVE  Good(y)
<1> DEFINE list  == x.candidates
           max   == x.max_validators
           rest  == RemoveAt(list, old)
           moved == InsertAt(rest, new, c)
<1>1. /\ max \in Nat \ {0} /\ list \in Seq(Candidate)
      /\ x = [max_validators |-> max, candidates |-> list,
              changed |-> x.changed, head_stake |-> x.head_stake]
      /\ x.head_stake \in Nat /\ x.head_stake <= U128Max
  BY GoodFields
<1>2. /\ new \in Nat /\ old \in Nat /\ GoodList(moved)
      /\ new > max => sum_head_stake(max, moved) = sum_head_stake(max, rest)
      /\ ~(new > max) /\ old > max =>
           sum_head_stake(max, moved) = x.head_stake + (c.stake - StakeAt(list, max))
      /\ ~(new > max) /\ ~(old > max) =>
           sum_head_stake(max, moved) = x.head_stake - (list[old].stake - c.stake)
  BY MovedList
<1>3. c.stake \in Nat /\ list[old].stake \in Nat
  BY <1>1, ListElements, CandidateFields
\* It is enough to look at the two fields that the method assigns.
<1>4. ASSUME NEW z,
             z = [max_validators |-> max, candidates |-> list,
                  changed |-> z.changed, head_stake |-> z.head_stake],
             z.changed \in BOOLEAN,
             z.head_stake = sum_head_stake(max, moved),
             z.head_stake <= U128Max,
             y = [z EXCEPT !.candidates = Move(list, old, new, c)]
      PROVE  Good(y)
  <2>1. y = [max_validators |-> max, candidates |-> moved,
             changed |-> z.changed, head_stake |-> z.head_stake]
    <3> HIDE DEF moved, rest
    <3>1. Move(list, old, new, c) = moved
      BY DEF Move, moved, rest
    <3> QED
      BY <1>4, <3>1
  <2> QED
    BY <1>1, <1>2, <1>4, <2>1, GoodFromFields
<1> HIDE DEF list, max, rest, moved
<1>5. CASE new > max
  <2>1. PICK z \in update_stake_for_remove(x, cfg, old) :
           y = [z EXCEPT !.candidates = Move(list, old, new, c)]
    BY <1>5 DEF update_impl, list, max
  <2>2. /\ z = [max_validators |-> max, candidates |-> list,
                changed |-> z.changed, head_stake |-> z.head_stake]
        /\ z.changed \in BOOLEAN
        /\ z.head_stake = sum_head_stake(max, rest)
        /\ z.head_stake <= U128Max
    BY <2>1, StakeForRemove DEF list, max, rest
  <2> QED
    BY <1>2, <1>4, <1>5, <2>1, <2>2
<1>6. CASE ~(new > max) /\ old > max
  <2>1. PICK z \in add_head_stake(x, c.stake - StakeAt(list, max)) :
           y = [z EXCEPT !.candidates = Move(list, old, new, c)]
    BY <1>6 DEF update_impl, list, max
  <2>2. /\ z = [max_validators |-> max, candidates |-> list,
                changed |-> z.changed, head_stake |-> z.head_stake]
        /\ z.changed \in BOOLEAN
        /\ z.head_stake = x.head_stake + (c.stake - StakeAt(list, max))
        /\ z.head_stake <= U128Max
    BY <2>1, AddHeadStakeFields DEF list, max
  <2> QED
    BY <1>2, <1>4, <1>6, <2>1, <2>2
<1>7. CASE ~(new > max) /\ ~(old > max)
  <2>1. CASE list[old].stake < c.stake
    <3>1. PICK z \in add_head_stake(x, c.stake - list[old].stake) :
             y = [z EXCEPT !.candidates = Move(list, old, new, c)]
      BY <1>7, <2>1 DEF update_impl, list, max
    <3>2. /\ z = [max_validators |-> max, candidates |-> list,
                  changed |-> z.changed, head_stake |-> z.head_stake]
          /\ z.changed \in BOOLEAN
          /\ z.head_stake = x.head_stake + (c.stake - list[old].stake)
          /\ z.head_stake <= U128Max
      BY <3>1, AddHeadStakeFields DEF list, max
    <3>3. z.head_stake = sum_head_stake(max, moved)
      BY <1>1, <1>2, <1>3, <1>7, <3>2
    <3> QED
      BY <1>4, <3>1, <3>2, <3>3
  <2>2. CASE list[old].stake > c.stake
    <3>1. PICK z \in sub_head_stake(x, cfg, list[old].stake - c.stake) :
             y = [z EXCEPT !.candidates = Move(list, old, new, c)]
      BY <1>3, <1>7, <2>2 DEF update_impl, list, max
    <3>2. /\ z = [max_validators |-> max, candidates |-> list,
                  changed |-> z.changed, head_stake |-> z.head_stake]
          /\ z.changed \in BOOLEAN
          /\ z.head_stake = x.head_stake - (list[old].stake - c.stake)
      BY <3>1, SubHeadStakeFields DEF list, max
    <3>3. z.head_stake = sum_head_stake(max, moved) /\ z.head_stake <= U128Max
      BY <1>1, <1>2, <1>3, <1>7, <2>2, <3>2, U128MaxAssumption
    <3> QED
      BY <1>4, <3>1, <3>2, <3>3
  <2>3. CASE list[old].stake = c.stake
    <3>1. ~(list[old].stake < c.stake) /\ ~(list[old].stake > c.stake)
      BY <1>3, <2>3
    <3>2. y = x
      BY <1>7, <3>1 DEF update_impl, list, max
    <3> QED
      BY <3>2
  <2> QED
    BY <1>3, <2>1, <2>2, <2>3
<1> QED
  BY <1>5, <1>6, <1>7

LEMMA UpdateGood ==
  ASSUME NEW x, Good(x), NEW cfg, NEW pk \in PubKey, NEW stake \in Nat,
         NEW y \in update(x, cfg, pk, stake)
  PROVE  Good(y)
<1> DEFINE list == x.candidates
           pos  == Positions(list, pk)
           c    == [pubkey |-> pk, stake |-> stake]
<1>1. pos \subseteq 1 .. Len(list) /\ \A i \in pos : list[i].pubkey = pk
  BY DEF Positions
<1>2. pos = {} => \A i \in 1 .. Len(list) : list[i].pubkey # pk
  BY DEF Positions
<1>3. stake > 0 => c \in Candidate
  BY DEF Candidate
<1>4. c.pubkey = pk
  OBVIOUS
<1> HIDE DEF list, pos, c
<1>5. CASE stake > 0 /\ pos = {}
  <2>1. y \in add_impl(x, SearchPos(list, c), c)
    BY <1>5 DEF update, do_update, list, pos, c
  <2> QED
    BY <1>2, <1>3, <1>4, <1>5, <2>1, AddImplGood DEF list
<1>6. CASE stake > 0 /\ pos # {}
  <2>1. PICK old \in pos :
          y \in update_impl(x, cfg, old,
                            IF SearchPos(list, c) > old THEN SearchPos(list, c) - 1
                            ELSE SearchPos(list, c), c)
    BY <1>6 DEF update, do_update, list, pos, c
  <2>2. old \in 1 .. Len(list) /\ list[old].pubkey = c.pubkey
    BY <1>1, <1>4, <2>1
  <2> QED
    BY <1>3, <1>6, <2>1, <2>2, UpdateImplGood DEF list
<1>7. CASE ~(stake > 0)
  <2>1. y = x \/ \E p \in pos : y \in do_remove(x, cfg, p)
    BY <1>7 DEF update, list, pos
  <2> QED
    BY <1>1, <2>1, DoRemoveGood DEF list
<1> QED
  BY <1>5, <1>6, <1>7

(* Raising or lowering max_validators past the end of the list changes     *)
(* nothing, and otherwise head_stake is summed afresh.                     *)
LEMMA UpdateMaxGood ==
  ASSUME NEW x, Good(x), NEW max \in Nat \ {0}, NEW y \in update_max_validators(x, max)
  PROVE  Good(y)
<1> DEFINE list == x.candidates
           Count(n) == IF Len(list) < n THEN Len(list) ELSE n
<1>1. /\ GoodList(list) /\ Len(list) \in Nat /\ x.max_validators \in Nat
      /\ x = [max_validators |-> x.max_validators, candidates |-> list,
              changed |-> x.changed, head_stake |-> x.head_stake]
      /\ x.changed \in BOOLEAN
      /\ x.head_stake = sum_head_stake(x.max_validators, list)
      /\ x.head_stake <= U128Max
  BY GoodFields
<1>2. CASE Count(max) = Count(x.max_validators)
  <2>1. y = [x EXCEPT !.max_validators = max]
    BY <1>2 DEF update_max_validators
  <2>2. Prefix(list, max) = Prefix(list, x.max_validators)
    <3>1. \A j \in 1 .. Len(list) : j <= max <=> j <= x.max_validators
      BY <1>1, <1>2
    <3> QED
      BY <3>1 DEF Prefix
  <2>3. y = [max_validators |-> max, candidates |-> list,
             changed |-> x.changed, head_stake |-> x.head_stake]
    BY <1>1, <2>1
  <2>4. sum_head_stake(max, list) = sum_head_stake(x.max_validators, list)
    BY <2>2 DEF sum_head_stake
  <2> HIDE DEF list
  <2> QED
    BY <1>1, <2>3, <2>4, GoodFromFields
<1>3. CASE Count(max) # Count(x.max_validators)
  <2>1. /\ y = [x EXCEPT !.max_validators = max,
                         !.changed        = TRUE,
                         !.head_stake     = sum_head_stake(max, list)]
        /\ sum_head_stake(max, list) <= U128Max
    BY <1>3 DEF update_max_validators
  <2>2. y = [max_validators |-> max, candidates |-> list,
             changed |-> TRUE, head_stake |-> sum_head_stake(max, list)]
    BY <1>1, <2>1
  <2> HIDE DEF list
  <2> QED
    BY <1>1, <2>1, <2>2, GoodFromFields
<1> QED
  BY <1>2, <1>3

LEMMA ClearGood ==
  ASSUME NEW x, Good(x)
  PROVE  Good(clear_changed_flag(x))
<1> DEFINE y == clear_changed_flag(x)
<1>1. /\ x = [max_validators |-> x.max_validators, candidates |-> x.candidates,
              changed |-> x.changed, head_stake |-> x.head_stake]
      /\ x.max_validators \in Nat \ {0}
      /\ GoodList(x.candidates)
      /\ x.head_stake = sum_head_stake(x.max_validators, x.candidates)
      /\ x.head_stake <= U128Max
  BY GoodFields
<1>2. y = [max_validators |-> x.max_validators, candidates |-> x.candidates,
           changed |-> FALSE, head_stake |-> x.head_stake]
  <2>1. x = [max_validators |-> x.max_validators, candidates |-> x.candidates,
             changed |-> x.changed, head_stake |-> x.head_stake]
    BY <1>1, Zenon
  <2>2. y = [x EXCEPT !.changed = FALSE]
    BY DEF clear_changed_flag
  <2> HIDE DEF y
  <2> QED
    BY <2>1, <2>2
<1> HIDE DEF y
<1> QED
  BY <1>1, <1>2, GoodFromFields DEF y

(* A sorted list of a set of validators with distinct keys is well formed. *)
LEMMA NewCandidatesGood ==
  ASSUME NEW max \in Nat \ {0}, NEW V, V \subseteq Candidate, ValidatorSet(V),
         StakeOf(V) <= U128Max, NEW y \in NewCandidates(max, V)
  PROVE  Good(y)
<1>1. PICK list \in sort_unstable(V) :
        y = [max_validators |-> max, candidates |-> list,
             changed |-> Len(list) > max, head_stake |-> sum_head_stake(max, list)]
  BY DEF NewCandidates
<1>2. Cardinality(V) \in Nat
  BY FS_CardinalityType DEF ValidatorSet
<1>3. list \in [1 .. Cardinality(V) -> V] /\ Sorted(list)
  BY DEF sort_unstable
<1>4. list \in Seq(Candidate) /\ Len(list) = Cardinality(V)
  BY <1>2, <1>3
<1>5. \A i \in 1 .. Len(list) : list[i] \in V
  BY <1>3, <1>4
<1>6. UniqueKeys(list)
  <2>1. SUFFICES ASSUME NEW i \in 1 .. Len(list), NEW j \in 1 .. Len(list),
                        list[i].pubkey = list[j].pubkey, i < j
                 PROVE  FALSE
    BY <1>2, <1>4 DEF UniqueKeys
  <2>2. list[i] = list[j]
    BY <1>5, <2>1 DEF ValidatorSet, DistinctKeys
  <2>3. Precedes(list[i], list[j])
    BY <1>3, <2>1 DEF Sorted
  <2>4. list[i] \in Candidate
    BY <1>5
  <2> QED
    BY <2>2, <2>3, <2>4, PrecedesAsymmetric
<1>7. GoodList(list)
  BY <1>3, <1>4, <1>6 DEF GoodList
<1>8. sum_head_stake(max, list) <= U128Max
  <2>1. Prefix(list, max) \subseteq V
    BY <1>5 DEF Prefix
  <2>2. StakeOf(Prefix(list, max)) <= StakeOf(V)
    BY <2>1, StakeOfMonotone
  <2>3. StakeOf(Prefix(list, max)) \in Nat /\ StakeOf(V) \in Nat
    BY <1>7, PrefixIsValidatorSet, StakeOfType
  <2> QED
    BY <2>2, <2>3, U128MaxAssumption DEF sum_head_stake
<1>9. (Len(list) > max) \in BOOLEAN
  OBVIOUS
<1> QED
  BY <1>1, <1>7, <1>8, <1>9, GoodFromFields

-----------------------------------------------------------------------------
(* What the methods do to the set of candidates, to the top of the list    *)
(* and to the changed flag.                                                *)

\* All members of the list.
Listed(list) == Prefix(list, Len(list))

LEMMA ListedElements ==
  ASSUME NEW list \in Seq(Candidate)
  PROVE  /\ \A i \in 1 .. Len(list) : list[i] \in Listed(list)
         /\ \A v \in Listed(list) : v \in Candidate /\ \E i \in 1 .. Len(list) : v = list[i]
<1>1. Len(list) \in Nat /\ \A i \in 1 .. Len(list) : list[i] \in Candidate
  BY ListElements
<1> QED
  BY <1>1 DEF Listed, Prefix

LEMMA PrefixBeyond ==
  ASSUME NEW list \in Seq(Candidate), NEW n \in Nat, n >= Len(list)
  PROVE  Prefix(list, n) = Listed(list)
<1>1. \A j \in 1 .. Len(list) : j <= n /\ j <= Len(list)
  BY ListElements
<1> QED
  BY <1>1 DEF Listed, Prefix

LEMMA InsertListed ==
  ASSUME NEW list \in Seq(Candidate), NEW c \in Candidate, NEW p \in 1 .. Len(list) + 1
  PROVE  Listed(InsertAt(list, p, c)) = Listed(list) \cup {c}
<1>1. Len(list) \in Nat /\ Len(list) + 1 \in Nat /\ (Len(list) + 1) - 1 = Len(list)
  BY ListElements
<1>2. Len(InsertAt(list, p, c)) = Len(list) + 1
  BY InsertAtProperties
<1>3. ~(p > Len(list) + 1)
  BY <1>1
<1>4. ASSUME NEW n \in Nat
      PROVE  Prefix(InsertAt(list, p, c), n) =
               IF p > n THEN Prefix(list, n) ELSE Prefix(list, n - 1) \cup {c}
  BY InsertPrefix
<1> QED
  BY <1>1, <1>2, <1>3, <1>4 DEF Listed

LEMMA RemoveListed ==
  ASSUME NEW list, GoodList(list), NEW p \in 1 .. Len(list)
  PROVE  Listed(RemoveAt(list, p)) = Listed(list) \ {list[p]}
<1> DEFINE n    == Len(list)
           rest == RemoveAt(list, p)
<1>1. list \in Seq(Candidate) /\ n \in Nat /\ n + 1 \in Nat
  BY DEF GoodList
<1>2. rest \in Seq(Candidate) /\ Len(rest) = n - 1
  BY <1>1, RemoveAtProperties
<1>3. Prefix(rest, n) = IF p > n THEN Prefix(list, n) ELSE Prefix(list, n + 1) \ {list[p]}
  BY <1>1, RemovePrefix
<1>4. Prefix(rest, n) = Listed(rest)
  <2> HIDE DEF rest, n
  <2> QED BY <1>1, <1>2, PrefixBeyond
<1>5. Prefix(list, n + 1) = Listed(list)
  BY <1>1, PrefixBeyond
<1>6. ~(p > n)
  BY <1>1
<1> QED
  BY <1>3, <1>4, <1>5, <1>6

(* Only the position of a key can hold it.                                 *)
LEMMA KeyAtPosition ==
  ASSUME NEW list, GoodList(list), NEW p \in 1 .. Len(list), NEW n \in Nat,
         NEW v \in Prefix(list, n), v.pubkey = list[p].pubkey
  PROVE  v = list[p] /\ p <= n
<1>1. PICK i \in 1 .. Len(list) : i <= n /\ v = list[i]
  BY DEF Prefix
<1>2. i = p
  BY <1>1 DEF GoodList, UniqueKeys
<1> QED
  BY <1>1, <1>2

\* The flag is raised by exactly the changes of the top of the list.
FlagExact(x, y) == y.changed <=> (x.changed \/ TopValidators(y) # TopValidators(x))

\* The stake of the head is lowered only down to the configured minimum.
LoweredToMinimum(x, y, cfg) ==
    y.head_stake < x.head_stake => y.head_stake >= cfg.min_total_stake

\* y is x with the candidate's old entry replaced by the members of C.
Edited(x, y, pk, C) ==
    /\ y.max_validators = x.max_validators
    /\ Listed(y.candidates) = {e \in Listed(x.candidates) : e.pubkey # pk} \cup C

LEMMA AddImplEffect ==
  ASSUME NEW x, Good(x), NEW c \in Candidate, NEW cfg,
         \A i \in 1 .. Len(x.candidates) : x.candidates[i].pubkey # c.pubkey,
         NEW y \in add_impl(x, SearchPos(x.candidates, c), c)
  PROVE  Edited(x, y, c.pubkey, {c}) /\ FlagExact(x, y) /\ LoweredToMinimum(x, y, cfg)
<1> DEFINE list == x.candidates
           max  == x.max_validators
           p    == SearchPos(list, c)
           new  == InsertAt(list, p, c)
<1>1. /\ GoodList(list) /\ list \in Seq(Candidate) /\ Len(list) \in Nat
      /\ max \in Nat \ {0} /\ max > 0 /\ max + 1 \in Nat
      /\ x = [max_validators |-> max, candidates |-> list,
              changed |-> x.changed, head_stake |-> x.head_stake]
      /\ x.changed \in BOOLEAN
      /\ x.head_stake \in Nat
  BY GoodFields
<1>2. p \in 1 .. Len(list) + 1 /\ \A i \in 1 .. Len(list) : i < p <=> Precedes(list[i], c)
  BY <1>1, SearchPosSplits DEF GoodList
<1>3. GoodList(new)
  <2> HIDE DEF p, list
  <2> QED BY <1>1, <1>2, InsertGood DEF list
<1>4. /\ y.max_validators = max /\ y.candidates = new
      /\ p > max => y.changed = x.changed /\ y.head_stake = x.head_stake
      /\ ~(p > max) => /\ y.changed
                       /\ y.head_stake = x.head_stake + (c.stake - StakeAt(new, max + 1))
  <2> HIDE DEF p
  <2> QED BY <1>1 DEF add_impl, add_head_stake, p
<1>5. Prefix(new, max) = IF p > max THEN Prefix(list, max) ELSE Prefix(list, max - 1) \cup {c}
  <2> HIDE DEF p, list, max
  <2> QED BY <1>1, <1>2, InsertPrefix
<1>6. Listed(new) = Listed(list) \cup {c}
  <2> HIDE DEF p, list
  <2> QED BY <1>1, <1>2, InsertListed
<1>7. \A v \in Listed(list) : v.pubkey # c.pubkey
  BY <1>1, ListedElements
<1>8. Edited(x, y, c.pubkey, {c})
  BY <1>4, <1>6, <1>7 DEF Edited
<1>9. c \notin Prefix(list, max)
  <2>1. SUFFICES ASSUME NEW i \in 1 .. Len(list), list[i] = c PROVE FALSE
    BY DEF Prefix
  <2> QED
    BY <2>1
<1>10. p \in 1 .. Len(new) /\ new[p] = c
  <2>1. list \in Seq(Candidate) /\ p \in 1 .. Len(list) + 1
    BY <1>1, <1>2
  <2> HIDE DEF p, list
  <2>2. /\ Len(new) = Len(list) + 1
        /\ \A i \in 1 .. Len(list) + 1 : new[i] = Inserted(list, p, c, i)
    BY <2>1, InsertAtProperties, Zenon
  <2> HIDE DEF new
  <2> QED
    BY <2>1, <2>2 DEF Inserted
<1> HIDE DEF new, p, list, max
<1>11. TopValidators(x) = Prefix(list, max) /\ TopValidators(y) = Prefix(new, max)
  BY <1>4 DEF TopValidators, list, max
<1>12. CASE p > max
  <2>1. TopValidators(y) = TopValidators(x)
    BY <1>5, <1>11, <1>12
  <2>2. y.head_stake = x.head_stake
    BY <1>4, <1>12
  <2>3. ~(y.head_stake < x.head_stake)
    BY <1>1, <2>2
  <2>4. y.changed = x.changed
    BY <1>4, <1>12
  <2> QED
    BY <1>8, <2>1, <2>3, <2>4 DEF FlagExact, LoweredToMinimum
<1>13. CASE ~(p > max)
  <2>1. TopValidators(y) # TopValidators(x)
    BY <1>5, <1>9, <1>11, <1>13
  <2>2. StakeAt(new, max + 1) <= c.stake
    <3>1. p <= max + 1
      BY <1>1, <1>2, <1>13
    <3> QED
      BY <1>1, <1>3, <1>10, <3>1, HeadOutweighsTail
  <2>3. StakeAt(new, max + 1) \in Nat /\ c.stake \in Nat
    BY <1>1, <1>3, SumGrows, CandidateFields
  <2>4. ~(y.head_stake < x.head_stake)
    <3>1. y.head_stake = x.head_stake + (c.stake - StakeAt(new, max + 1))
      BY <1>4, <1>13
    <3> QED
      BY <1>1, <2>2, <2>3, <3>1
  <2>5. y.changed
    BY <1>4, <1>13
  <2> QED
    BY <1>8, <2>1, <2>4, <2>5 DEF FlagExact, LoweredToMinimum
<1> QED
  BY <1>12, <1>13

LEMMA StakeForRemoveEffect ==
  ASSUME NEW x, Good(x), NEW cfg, NEW p \in 1 .. Len(x.candidates),
         NEW y \in update_stake_for_remove(x, cfg, p)
  PROVE  /\ y.max_validators = x.max_validators
         /\ p > x.max_validators => y.changed = x.changed /\ y.head_stake = x.head_stake
         /\ ~(p > x.max_validators) => y.changed /\ y.head_stake >= cfg.min_total_stake
<1>1. x = [max_validators |-> x.max_validators, candidates |-> x.candidates,
           changed |-> x.changed, head_stake |-> x.head_stake]
  BY GoodFields
<1> QED
  BY <1>1 DEF update_stake_for_remove, sub_head_stake

LEMMA DoRemoveEffect ==
  ASSUME NEW x, Good(x), NEW cfg, cfg.min_validators \in Nat,
         NEW p \in 1 .. Len(x.candidates), NEW y \in do_remove(x, cfg, p)
  PROVE  /\ Edited(x, y, x.candidates[p].pubkey, {})
         /\ FlagExact(x, y)
         /\ LoweredToMinimum(x, y, cfg)
         /\ Len(y.candidates) >= cfg.min_validators
<1> DEFINE list == x.candidates
           max  == x.max_validators
           rest == RemoveAt(list, p)
<1>1. PICK z \in update_stake_for_remove(x, cfg, p) :
         y = [z EXCEPT !.candidates = RemoveAt(@, p)]
  BY DEF do_remove
<1>2. z = [max_validators |-> max, candidates |-> list,
           changed |-> z.changed, head_stake |-> z.head_stake]
  BY <1>1, StakeForRemove
<1>3. /\ p > max => z.changed = x.changed /\ z.head_stake = x.head_stake
      /\ ~(p > max) => z.changed /\ z.head_stake >= cfg.min_total_stake
  BY <1>1, StakeForRemoveEffect
<1>4. /\ y.max_validators = max /\ y.candidates = rest
      /\ y.changed = z.changed /\ y.head_stake = z.head_stake
  BY <1>1, <1>2
<1>5. GoodList(list) /\ max \in Nat /\ list \in Seq(Candidate) /\ Len(list) \in Nat
      /\ x.head_stake \in Nat
  BY GoodFields
<1>6. Listed(rest) = Listed(list) \ {list[p]}
  BY <1>5, RemoveListed
<1>7. Prefix(rest, max) = IF p > max THEN Prefix(list, max)
                          ELSE Prefix(list, max + 1) \ {list[p]}
  BY <1>5, RemovePrefix
<1>8. Len(rest) = Len(list) - 1 /\ ~(Len(list) <= cfg.min_validators)
  BY <1>5, RemoveAtProperties DEF do_remove
<1>9. {e \in Listed(list) : e.pubkey # list[p].pubkey} = Listed(list) \ {list[p]}
  <2>1. \A e \in Listed(list) : e.pubkey = list[p].pubkey => e = list[p]
    BY <1>5, KeyAtPosition DEF Listed
  <2> QED
    BY <2>1
<1>10. ~(p > max) => list[p] \in Prefix(list, max)
  BY <1>5 DEF Prefix
<1> HIDE DEF list, max, rest
<1>11. TopValidators(x) = Prefix(list, max) /\ TopValidators(y) = Prefix(rest, max)
  BY <1>4 DEF TopValidators, list, max
<1>12. Edited(x, y, list[p].pubkey, {})
  BY <1>4, <1>6, <1>9 DEF Edited, list, max
<1>13. Len(y.candidates) >= cfg.min_validators
  BY <1>4, <1>5, <1>8
<1>14. CASE p > max
  <2>1. TopValidators(y) = TopValidators(x)
    BY <1>7, <1>11, <1>14
  <2>2. y.changed = x.changed /\ y.head_stake = x.head_stake
    BY <1>3, <1>4, <1>14
  <2>3. ~(y.head_stake < x.head_stake)
    BY <1>5, <2>2
  <2> QED
    BY <1>12, <1>13, <2>1, <2>2, <2>3 DEF FlagExact, LoweredToMinimum, list
<1>15. CASE ~(p > max)
  <2>1. TopValidators(y) # TopValidators(x)
    BY <1>7, <1>10, <1>11, <1>15
  <2>2. y.changed /\ y.head_stake >= cfg.min_total_stake
    BY <1>3, <1>4, <1>15
  <2> QED
    BY <1>12, <1>13, <2>1, <2>2 DEF FlagExact, LoweredToMinimum, list
<1> QED
  BY <1>14, <1>15

LEMMA UpdateImplEffect ==
  ASSUME NEW x, Good(x), NEW cfg, NEW c \in Candidate, NEW old \in 1 .. Len(x.candidates),
         x.candidates[old].pubkey = c.pubkey,
         NEW at, at = SearchPos(x.candidates, c),
         NEW new, new = IF at > old THEN at - 1 ELSE at,
         NEW y \in update_impl(x, cfg, old, new, c)
  PROVE  Edited(x, y, c.pubkey, {c}) /\ FlagExact(x, y) /\ LoweredToMinimum(x, y, cfg)
<1> DEFINE list  == x.candidates
           max   == x.max_validators
           rest  == RemoveAt(list, old)
           moved == InsertAt(rest, new, c)
<1>1. /\ GoodList(list) /\ list \in Seq(Candidate) /\ Len(list) \in Nat
      /\ max \in Nat \ {0} /\ max > 0 /\ max - 1 \in Nat /\ (max - 1) + 1 = max
      /\ x = [max_validators |-> max, candidates |-> list,
              changed |-> x.changed, head_stake |-> x.head_stake]
      /\ x.changed \in BOOLEAN
      /\ x.head_stake \in Nat
  BY GoodFields
<1>2. GoodList(rest) /\ rest \in Seq(Candidate) /\ Len(rest) = Len(list) - 1
      /\ \A i \in 1 .. Len(list) - 1 : rest[i] = IF i < old THEN list[i] ELSE list[i + 1]
  <2>1. GoodList(rest)
    BY <1>1, RemoveGood
  <2> QED
    BY <1>1, <2>1, RemoveAtProperties
<1>3. /\ new \in 1 .. Len(rest) + 1
      /\ \A i \in 1 .. Len(rest) : i < new <=> Precedes(rest[i], c)
  <2>1. /\ GoodList(list) /\ old \in 1 .. Len(list)
        /\ at = SearchPos(list, c)
        /\ new = IF at > old THEN at - 1 ELSE at
    BY <1>1
  <2> HIDE DEF list
  <2> QED
    BY <2>1, MovePosition
<1>4. /\ list[old] \in Candidate /\ list[old].stake \in Nat
      /\ c.stake \in Nat
  BY <1>1, ListElements, CandidateFields
<1>5. Prefix(moved, max) = IF new > max THEN Prefix(rest, max) ELSE Prefix(rest, max - 1) \cup {c}
  <2>1. max \in Nat /\ rest \in Seq(Candidate) /\ new \in 1 .. Len(rest) + 1
    BY <1>1, <1>2, <1>3
  <2> HIDE DEF rest, max
  <2>2. ASSUME NEW n \in Nat
        PROVE  Prefix(moved, n) = IF new > n THEN Prefix(rest, n)
                                  ELSE Prefix(rest, n - 1) \cup {c}
    <3>1. ASSUME NEW l \in Seq(Candidate), NEW q \in 1 .. Len(l) + 1
          PROVE  Prefix(InsertAt(l, q, c), n) =
                   IF q > n THEN Prefix(l, n) ELSE Prefix(l, n - 1) \cup {c}
      BY InsertPrefix
    <3> QED
      BY <2>1, <3>1
  <2> QED BY <2>1, <2>2
<1>6. Prefix(rest, max) = IF old > max THEN Prefix(list, max)
                          ELSE Prefix(list, max + 1) \ {list[old]}
  BY <1>1, RemovePrefix
<1>7. Listed(moved) = {e \in Listed(list) : e.pubkey # c.pubkey} \cup {c}
  <2>1. Listed(moved) = Listed(rest) \cup {c}
    <3> HIDE DEF rest
    <3> QED BY <1>2, <1>3, InsertListed
  <2>2. Listed(rest) = Listed(list) \ {list[old]}
    BY <1>1, RemoveListed
  <2>3. \A e \in Listed(list) : e.pubkey = list[old].pubkey <=> e = list[old]
    BY <1>1, KeyAtPosition DEF Listed
  <2> HIDE DEF moved, rest
  <2> QED
    BY <2>1, <2>2, <2>3
<1>8. \A v \in Prefix(list, max) : v.pubkey = c.pubkey => v = list[old] /\ old <= max
  BY <1>1, KeyAtPosition
<1>9. old <= max => list[old] \in Prefix(list, max)
  BY <1>1 DEF Prefix
<1>10. old \in Nat /\ new \in Nat
  BY <1>1, <1>2, <1>3
<1>11. Move(list, old, new, c) = moved
  BY DEF Move
<1> HIDE DEF rest, moved, list, max
\* What is left once the assigned fields are known.
<1>12. ASSUME NEW z,
              z = [max_validators |-> max, candidates |-> list,
                   changed |-> z.changed, head_stake |-> z.head_stake],
              y = [z EXCEPT !.candidates = Move(list, old, new, c)]
       PROVE  /\ Edited(x, y, c.pubkey, {c})
              /\ y.changed = z.changed /\ y.head_stake = z.head_stake
              /\ TopValidators(x) = Prefix(list, max)
              /\ TopValidators(y) = Prefix(moved, max)
  <2>1. y = [max_validators |-> max, candidates |-> moved,
             changed |-> z.changed, head_stake |-> z.head_stake]
    BY <1>11, <1>12
  <2> QED
    BY <1>7, <2>1 DEF Edited, TopValidators, list, max
\* Where the flag is raised and where the stake may go.
<1>13. ASSUME NEW z,
              z = [max_validators |-> max, candidates |-> list,
                   changed |-> z.changed, head_stake |-> z.head_stake],
              y = [z EXCEPT !.candidates = Move(list, old, new, c)],
              z.changed,
              Prefix(moved, max) # Prefix(list, max),
              z.head_stake < x.head_stake => z.head_stake >= cfg.min_total_stake
       PROVE  Edited(x, y, c.pubkey, {c}) /\ FlagExact(x, y) /\ LoweredToMinimum(x, y, cfg)
  BY <1>12, <1>13 DEF FlagExact, LoweredToMinimum
<1>14. CASE new > max
  <2>1. PICK z \in update_stake_for_remove(x, cfg, old) :
           y = [z EXCEPT !.candidates = Move(list, old, new, c)]
    BY <1>14 DEF update_impl, list, max
  <2>2. z = [max_validators |-> max, candidates |-> list,
             changed |-> z.changed, head_stake |-> z.head_stake]
    BY <2>1, StakeForRemove DEF list, max
  <2>3. /\ old > max => z.changed = x.changed /\ z.head_stake = x.head_stake
        /\ ~(old > max) => z.changed /\ z.head_stake >= cfg.min_total_stake
    BY <2>1, StakeForRemoveEffect DEF max
  <2>4. CASE old > max
    <3>1. Prefix(moved, max) = Prefix(list, max)
      BY <1>5, <1>6, <1>14, <2>4
    <3>2. z.changed = x.changed /\ z.head_stake = x.head_stake
      BY <2>3, <2>4
    <3>3. ~(z.head_stake < x.head_stake)
      BY <1>1, <3>2
    <3> QED
      BY <1>12, <2>1, <2>2, <3>1, <3>2, <3>3 DEF FlagExact, LoweredToMinimum
  <2>5. CASE ~(old > max)
    <3>1. old <= max
      BY <1>1, <1>10, <2>5
    <3>2. Prefix(moved, max) # Prefix(list, max)
      BY <1>5, <1>6, <1>9, <1>14, <2>5, <3>1
    <3> QED
      BY <1>13, <2>1, <2>2, <2>3, <2>5, <3>2
  <2> QED
    BY <2>4, <2>5
<1>15. CASE ~(new > max) /\ old > max
  <2>1. PICK z \in add_head_stake(x, c.stake - StakeAt(list, max)) :
           y = [z EXCEPT !.candidates = Move(list, old, new, c)]
    BY <1>15 DEF update_impl, list, max
  <2>2. /\ z = [max_validators |-> max, candidates |-> list,
                changed |-> z.changed, head_stake |-> z.head_stake]
        /\ z.head_stake = x.head_stake + (c.stake - StakeAt(list, max))
    BY <2>1, AddHeadStakeFields DEF list, max
  <2>3. z.changed
    BY <1>1, <2>1 DEF add_head_stake
  <2>4. StakeAt(list, max) \in Nat /\ StakeAt(list, max) <= c.stake
    <3>1. max \in 1 .. Len(list) /\ max \in 1 .. Len(rest) /\ rest[max] = list[max]
          /\ ~(max < new)
      BY <1>1, <1>2, <1>3, <1>10, <1>15 DEF list
    <3>2. ~Precedes(rest[max], c) /\ rest[max] \in Candidate /\ StakeAt(list, max) = rest[max].stake
      BY <1>2, <1>3, <3>1, ListElements DEF StakeAt
    <3>3. rest[max].stake \in Nat
      BY <3>2, CandidateFields
    <3> QED
      BY <1>4, <3>2, <3>3 DEF Precedes
  <2>5. ~(z.head_stake < x.head_stake)
    BY <1>1, <1>4, <2>2, <2>4
  <2>6. Prefix(moved, max) # Prefix(list, max)
    <3>1. c \in Prefix(moved, max)
      BY <1>5, <1>15
    <3>2. ~(old <= max)
      BY <1>1, <1>10, <1>15
    <3> QED
      BY <1>8, <3>1, <3>2
  <2> QED
    BY <1>13, <2>1, <2>2, <2>3, <2>5, <2>6
<1>16. CASE ~(new > max) /\ ~(old > max)
  <2>1. c \in Prefix(moved, max)
    BY <1>5, <1>16
  <2>2. list[old].stake # c.stake => Prefix(moved, max) # Prefix(list, max)
    BY <1>8, <2>1
  <2>3. CASE list[old].stake < c.stake
    <3>1. PICK z \in add_head_stake(x, c.stake - list[old].stake) :
             y = [z EXCEPT !.candidates = Move(list, old, new, c)]
      BY <1>16, <2>3 DEF update_impl, list, max
    <3>2. /\ z = [max_validators |-> max, candidates |-> list,
                  changed |-> z.changed, head_stake |-> z.head_stake]
          /\ z.head_stake = x.head_stake + (c.stake - list[old].stake)
      BY <3>1, AddHeadStakeFields DEF list, max
    <3>3. z.changed
      BY <1>1, <3>1 DEF add_head_stake
    <3>4. ~(z.head_stake < x.head_stake) /\ list[old].stake # c.stake
      BY <1>1, <1>4, <2>3, <3>2
    <3> QED
      BY <1>13, <2>2, <3>1, <3>2, <3>3, <3>4
  <2>4. CASE list[old].stake > c.stake
    <3>1. PICK z \in sub_head_stake(x, cfg, list[old].stake - c.stake) :
             y = [z EXCEPT !.candidates = Move(list, old, new, c)]
      BY <1>4, <1>16, <2>4 DEF update_impl, list, max
    <3>2. /\ z = [max_validators |-> max, candidates |-> list,
                  changed |-> z.changed, head_stake |-> z.head_stake]
      BY <3>1, SubHeadStakeFields DEF list, max
    <3>3. z.changed /\ z.head_stake >= cfg.min_total_stake
      BY <1>1, <3>1 DEF sub_head_stake
    <3>4. list[old].stake # c.stake
      BY <1>4, <2>4
    <3> QED
      BY <1>13, <2>2, <3>1, <3>2, <3>3, <3>4
  <2>5. CASE list[old].stake = c.stake
    <3>1. ~(list[old].stake < c.stake) /\ ~(list[old].stake > c.stake)
      BY <1>4, <2>5
    <3>2. y = x
      BY <1>16, <3>1 DEF update_impl, list, max
    <3>3. c = list[old]
      BY <1>4, <2>5 DEF Candidate, list
    <3>4. list[old] \in Listed(list)
      BY <1>1, ListedElements DEF list
    <3>5. \A e \in Listed(list) : e.pubkey = c.pubkey => e = c
      BY <1>1, <3>3, KeyAtPosition DEF Listed, list
    <3>6. Edited(x, y, c.pubkey, {c})
      BY <3>2, <3>3, <3>4, <3>5 DEF Edited, list
    <3>7. ~(x.head_stake < x.head_stake)
      BY <1>1
    <3> QED
      BY <3>2, <3>6, <3>7 DEF FlagExact, LoweredToMinimum
  <2> QED
    BY <1>4, <2>3, <2>4, <2>5
<1> QED
  BY <1>14, <1>15, <1>16

\* What Candidates::update promises.
Updated(x, y, cfg, pk, stake) ==
    /\ Edited(x, y, pk, IF stake > 0 THEN {[pubkey |-> pk, stake |-> stake]} ELSE {})
    /\ FlagExact(x, y)
    /\ LoweredToMinimum(x, y, cfg)
    /\ stake = 0 \/ stake >= cfg.min_validator_stake
    /\ stake = 0 /\ Positions(x.candidates, pk) # {} =>
         Len(y.candidates) >= cfg.min_validators

LEMMA UpdateEffect ==
  ASSUME NEW x, Good(x), NEW cfg, cfg.min_validators \in Nat,
         cfg.min_validator_stake \in Nat,
         NEW pk \in PubKey, NEW stake \in Nat, NEW y \in update(x, cfg, pk, stake)
  PROVE  Updated(x, y, cfg, pk, stake)
<1> DEFINE list == x.candidates
           pos  == Positions(list, pk)
           c    == [pubkey |-> pk, stake |-> stake]
<1>1. pos \subseteq 1 .. Len(list) /\ \A i \in pos : list[i].pubkey = pk
  BY DEF Positions
<1>2. pos = {} => \A i \in 1 .. Len(list) : list[i].pubkey # pk
  BY DEF Positions
<1>3. stake > 0 => c \in Candidate
  BY DEF Candidate
<1>4. c.pubkey = pk
  OBVIOUS
<1>5. stake > 0 \/ stake = 0
  OBVIOUS
<1>6. list \in Seq(Candidate) /\ x.head_stake \in Nat
  BY GoodFields
<1> HIDE DEF list, pos, c
<1>7. CASE stake > 0
  <2>1. ~(stake < cfg.min_validator_stake) /\ stake # 0
    BY <1>7 DEF update
  <2>2. stake >= cfg.min_validator_stake
    BY <2>1
  <2>3. Edited(x, y, pk, {c}) /\ FlagExact(x, y) /\ LoweredToMinimum(x, y, cfg)
    <3>1. CASE pos = {}
      <4>1. y \in add_impl(x, SearchPos(list, c), c)
        BY <1>7, <3>1 DEF update, do_update, list, pos, c
      <4> QED
        BY <1>2, <1>3, <1>4, <1>7, <3>1, <4>1, AddImplEffect DEF list
    <3>2. CASE pos # {}
      <4>1. PICK old \in pos :
              y \in update_impl(x, cfg, old,
                                IF SearchPos(list, c) > old THEN SearchPos(list, c) - 1
                                ELSE SearchPos(list, c), c)
        BY <1>7, <3>2 DEF update, do_update, list, pos, c
      <4>2. old \in 1 .. Len(list) /\ list[old].pubkey = c.pubkey
        BY <1>1, <1>4, <4>1
      <4> QED
        BY <1>3, <1>4, <1>7, <4>1, <4>2, UpdateImplEffect DEF list
    <3> QED
      BY <3>1, <3>2
  <2> QED
    BY <1>7, <2>1, <2>2, <2>3 DEF Updated, c
<1>8. CASE ~(stake > 0)
  <2>1. stake = 0
    BY <1>5, <1>8
  <2>2. CASE pos = {}
    <3>1. y = x
      BY <1>8, <2>2 DEF update, list, pos
    <3>2. \A v \in Listed(list) : v.pubkey # pk
      BY <1>2, <1>6, <2>2, ListedElements
    <3>3. ~(x.head_stake < x.head_stake)
      BY <1>6
    <3>4. Edited(x, y, pk, {}) /\ FlagExact(x, y) /\ LoweredToMinimum(x, y, cfg)
      BY <3>1, <3>2, <3>3 DEF Edited, FlagExact, LoweredToMinimum, list
    <3> QED
      BY <1>8, <2>1, <2>2, <3>4 DEF Updated, pos, list
  <2>3. CASE pos # {}
    <3>1. PICK p \in pos : y \in do_remove(x, cfg, p)
      BY <1>8, <2>3 DEF update, list, pos
    <3>2. p \in 1 .. Len(list) /\ list[p].pubkey = pk
      BY <1>1, <3>1
    <3>3. /\ Edited(x, y, pk, {})
          /\ FlagExact(x, y)
          /\ LoweredToMinimum(x, y, cfg)
          /\ Len(y.candidates) >= cfg.min_validators
      BY <3>1, <3>2, DoRemoveEffect DEF list
    <3> QED
      BY <1>8, <2>1, <3>3 DEF Updated
  <2> QED
    BY <2>2, <2>3
<1> QED
  BY <1>7, <1>8

(* A change of max_validators raises the flag exactly when the top changes.*)
LEMMA UpdateMaxEffect ==
  ASSUME NEW x, Good(x), NEW max \in Nat \ {0}, NEW y \in update_max_validators(x, max)
  PROVE  /\ y.max_validators = max
         /\ y.candidates = x.candidates
         /\ FlagExact(x, y)
<1> DEFINE list == x.candidates
           old  == x.max_validators
           Count(n) == IF Len(list) < n THEN Len(list) ELSE n
<1>1. /\ GoodList(list) /\ list \in Seq(Candidate) /\ Len(list) \in Nat /\ old \in Nat
      /\ x = [max_validators |-> old, candidates |-> list,
              changed |-> x.changed, head_stake |-> x.head_stake]
      /\ x.changed \in BOOLEAN
  BY GoodFields
<1>2. CASE Count(max) = Count(old)
  <2>1. y = [x EXCEPT !.max_validators = max]
    BY <1>2 DEF update_max_validators
  <2>2. Prefix(list, max) = Prefix(list, old)
    <3>1. \A j \in 1 .. Len(list) : j <= max <=> j <= old
      BY <1>1, <1>2
    <3> QED
      BY <3>1 DEF Prefix
  <2>3. y.max_validators = max /\ y.candidates = list /\ y.changed = x.changed
    BY <1>1, <2>1
  <2> QED
    BY <2>2, <2>3 DEF FlagExact, TopValidators
<1>3. CASE Count(max) # Count(old)
  <2>1. y = [x EXCEPT !.max_validators = max,
                      !.changed        = TRUE,
                      !.head_stake     = sum_head_stake(max, list)]
    BY <1>3 DEF update_max_validators
  <2>2. y.max_validators = max /\ y.candidates = list /\ y.changed
    BY <1>1, <2>1
  <2>3. ASSUME NEW n \in Nat, NEW m \in Nat, n < m, n < Len(list)
        PROVE  Prefix(list, n) # Prefix(list, m)
    <3>1. n + 1 \in 1 .. Len(list) /\ n + 1 <= m /\ ~(n + 1 <= n)
      BY <1>1, <2>3
    <3>2. list[n + 1] \in Prefix(list, m)
      BY <3>1 DEF Prefix
    <3>3. list[n + 1] \notin Prefix(list, n)
      BY <1>1, <3>1, KeyAtPosition
    <3> QED
      BY <3>2, <3>3
  <2>4. (max < old /\ max < Len(list)) \/ (old < max /\ old < Len(list))
    BY <1>1, <1>3
  <2>5. Prefix(list, max) # Prefix(list, old)
    BY <1>1, <2>3, <2>4
  <2> QED
    BY <2>2, <2>5 DEF FlagExact, TopValidators
<1> QED
  BY <1>2, <1>3

(* The list made of a set of validators holds exactly these.               *)
LEMMA NewCandidatesEffect ==
  ASSUME NEW max \in Nat \ {0}, NEW V, V \subseteq Candidate, ValidatorSet(V),
         NEW y \in NewCandidates(max, V)
  PROVE  /\ y.max_validators = max
         /\ Listed(y.candidates) = V
         /\ Len(y.candidates) = Cardinality(V)
         /\ y.changed = (Cardinality(V) > max)
<1>1. PICK list \in sort_unstable(V) :
        y = [max_validators |-> max, candidates |-> list,
             changed |-> Len(list) > max, head_stake |-> sum_head_stake(max, list)]
  BY DEF NewCandidates
<1>2. Cardinality(V) \in Nat /\ IsFiniteSet(V)
  BY FS_CardinalityType DEF ValidatorSet
<1>3. list \in [1 .. Cardinality(V) -> V] /\ Sorted(list)
  BY DEF sort_unstable
<1>4. list \in Seq(Candidate) /\ Len(list) = Cardinality(V)
  BY <1>2, <1>3
<1>5. Listed(list) \subseteq V
  BY <1>3, <1>4 DEF Listed, Prefix
<1>6. \A i, j \in 1 .. Cardinality(V) : list[i] = list[j] => i = j
  <2>1. SUFFICES ASSUME NEW i \in 1 .. Cardinality(V), NEW j \in 1 .. Cardinality(V),
                        list[i] = list[j], i < j
                 PROVE  FALSE
    BY <1>2
  <2>2. Precedes(list[i], list[j]) /\ list[i] \in Candidate
    BY <1>3, <1>4, <2>1 DEF Sorted
  <2> QED
    BY <2>1, <2>2, PrecedesAsymmetric
<1>7. list \in Bijection(1 .. Cardinality(V), Listed(list))
  <2>1. list \in [1 .. Cardinality(V) -> Listed(list)]
    BY <1>3, <1>4 DEF Listed, Prefix
  <2>2. \A v \in Listed(list) : \E i \in 1 .. Cardinality(V) : list[i] = v
    BY <1>4, ListedElements
  <2>3. list \in Injection(1 .. Cardinality(V), Listed(list))
    BY <1>6, <2>1 DEF Injection, IsInjective
  <2>4. list \in Surjection(1 .. Cardinality(V), Listed(list))
    BY <2>1, <2>2 DEF Surjection
  <2> QED
    BY <2>3, <2>4 DEF Bijection
<1>8. IsFiniteSet(1 .. Cardinality(V)) /\ Cardinality(1 .. Cardinality(V)) = Cardinality(V)
  BY <1>2, FS_Interval, 1 \in Int, Cardinality(V) \in Int
<1>9. Cardinality(Listed(list)) = Cardinality(V)
  <2> DEFINE I == 1 .. Cardinality(V)
  <2>1. IsFiniteSet(I) /\ Cardinality(I) = Cardinality(V)
        /\ list \in Bijection(I, Listed(list))
    BY <1>7, <1>8
  <2> HIDE DEF I
  <2>2. Cardinality(Listed(list)) = Cardinality(I)
    BY <2>1, FS_Bijection DEF ExistsBijection
  <2> QED
    BY <2>1, <2>2
<1>10. Listed(list) = V
  BY <1>2, <1>5, <1>9, FS_Subset, Listed(list) \in SUBSET V
<1>11. /\ y.max_validators = max
       /\ y.candidates = list
       /\ y.changed = (Len(list) > max)
  BY <1>1
<1> QED
  BY <1>4, <1>10, <1>11

-----------------------------------------------------------------------------
(* When an update that lowers a stake goes through.                        *)

LEMMA PrefixCardinality ==
  ASSUME NEW list, GoodList(list), NEW n \in Nat, n <= Len(list)
  PROVE  Cardinality(Prefix(list, n)) = n
<1> DEFINE f == [i \in 1 .. n |-> list[i]]
<1>1. list \in Seq(Candidate) /\ Len(list) \in Nat
  BY DEF GoodList
<1>2. Prefix(list, n) = {list[i] : i \in 1 .. n}
  BY <1>1 DEF Prefix
<1>3. \A i, j \in 1 .. n : list[i] = list[j] => i = j
  BY <1>1 DEF GoodList, UniqueKeys
<1>4. f \in Bijection(1 .. n, Prefix(list, n))
  <2>1. f \in [1 .. n -> Prefix(list, n)] /\ \A i \in 1 .. n : f[i] = list[i]
    BY <1>2
  <2> HIDE DEF f
  <2>2. f \in Injection(1 .. n, Prefix(list, n))
    BY <1>3, <2>1 DEF Injection, IsInjective
  <2>3. f \in Surjection(1 .. n, Prefix(list, n))
    BY <1>2, <2>1 DEF Surjection
  <2> QED
    BY <2>2, <2>3 DEF Bijection
<1>5. IsFiniteSet(1 .. n) /\ Cardinality(1 .. n) = n
  BY FS_Interval, 1 \in Int, n \in Int
<1>6. ExistsBijection(1 .. n, Prefix(list, n))
  BY <1>4 DEF ExistsBijection
<1> QED
  BY <1>5, <1>6, FS_Bijection

(* Whoever is outside the head has no more stake than any member of it.    *)
LEMMA TailIsLighter ==
  ASSUME NEW list, GoodList(list), NEW n \in Nat, NEW e \in Prefix(list, n),
         NEW d \in Listed(list) \ Prefix(list, n)
  PROVE  d.stake <= e.stake
<1>1. list \in Seq(Candidate) /\ Len(list) \in Nat
  BY DEF GoodList
<1>2. PICK i \in 1 .. Len(list) : i <= n /\ e = list[i]
  BY DEF Prefix
<1>3. PICK j \in 1 .. Len(list) : d = list[j]
  BY <1>1, ListedElements
<1>4. ~(j <= n)
  BY <1>3 DEF Prefix
<1>5. i <= j /\ j \in Nat
  BY <1>1, <1>2, <1>4
<1>6. StakeAt(list, j) <= list[i].stake
  BY <1>5, HeadOutweighsTail
<1> QED
  BY <1>2, <1>3, <1>6 DEF StakeAt

(* One exchange of a member outside the head for one in it.                *)
LEMMA ExchangeForHead ==
  ASSUME NEW list, GoodList(list), NEW n \in Nat, NEW T, T \subseteq Listed(list),
         Cardinality(T) <= n, NEW d \in T \ Prefix(list, n)
  PROVE  \E e \in Prefix(list, n) \ T :
           LET U == (T \ {d}) \cup {e}
           IN  /\ U \subseteq Listed(list) /\ Cardinality(U) = Cardinality(T)
               /\ StakeOf(T) <= StakeOf(U)
               /\ U \ Prefix(list, n) = (T \ Prefix(list, n)) \ {d}
<1> DEFINE P == Prefix(list, n)
           L == Listed(list)
<1>1. list \in Seq(Candidate) /\ Len(list) \in Nat
  BY DEF GoodList
<1>2. ValidatorSet(L) /\ ValidatorSet(P)
  BY <1>1, PrefixIsValidatorSet DEF Listed
<1>3. P \subseteq L
  BY <1>1 DEF Prefix, Listed
<1>4. ValidatorSet(T) /\ IsFiniteSet(T) /\ Cardinality(T) \in Nat
  <2>1. ValidatorSet(T)
    BY <1>2, SubsetIsValidatorSet
  <2> QED
    BY <2>1, FS_CardinalityType DEF ValidatorSet
<1>5. n < Len(list)
  <2>1. SUFFICES ASSUME n >= Len(list) PROVE FALSE
    BY <1>1
  <2>2. P = L
    BY <1>1, <2>1, PrefixBeyond
  <2> QED
    BY <2>2
<1>6. Cardinality(P) = n /\ IsFiniteSet(P)
  BY <1>1, <1>2, <1>5, PrefixCardinality DEF ValidatorSet
<1> HIDE DEF P, L
<1>7. PICK e \in P : e \notin T
  <2>1. SUFFICES ASSUME P \subseteq T PROVE FALSE
    OBVIOUS
  <2>2. P \subseteq T \ {d}
    BY <2>1 DEF P
  <2>3. IsFiniteSet(T \ {d}) /\ Cardinality(T \ {d}) = Cardinality(T) - 1
    BY <1>4, FS_RemoveElement
  <2>4. Cardinality(P) <= Cardinality(T \ {d})
    BY <2>2, <2>3, FS_Subset
  <2> QED
    BY <1>4, <1>6, <2>3, <2>4
<1> DEFINE W == T \ {d}
           U == W \cup {e}
<1>8. U \subseteq L /\ e \notin W /\ W \subseteq L /\ d \in T
  BY <1>3, <1>7 DEF L
<1>9. ValidatorSet(U) /\ ValidatorSet(W)
  BY <1>2, <1>8, SubsetIsValidatorSet
<1>10. StakeOf(T) = StakeOf(W) + d.stake
  BY <1>4, <1>8, StakeOfRemove
<1>11. IsFiniteSet(W) /\ Cardinality(W) = Cardinality(T) - 1
  BY <1>4, <1>8, FS_RemoveElement
<1>12. U \ P = (T \ P) \ {d}
  BY <1>7
<1> HIDE DEF W
<1>13. StakeOf(U) = StakeOf(W) + e.stake
  BY <1>8, <1>9, StakeOfAdd
<1>14. Cardinality(U) = Cardinality(W) + 1
  BY <1>8, <1>11, FS_AddElement
<1>15. d.stake <= e.stake
  BY <1>7, <1>8, TailIsLighter DEF P, L
<1>16. d.stake \in Nat /\ e.stake \in Nat /\ StakeOf(W) \in Nat
  BY <1>4, <1>8, <1>9, StakeOfType DEF ValidatorSet
<1>17. StakeOf(T) <= StakeOf(U) /\ Cardinality(U) = Cardinality(T)
  <2> HIDE DEF U
  <2> QED
    BY <1>4, <1>10, <1>11, <1>13, <1>14, <1>15, <1>16
<1> QED
  BY <1>7, <1>8, <1>12, <1>17 DEF P, L, W

(* No group as large as the head has more stake than the head.             *)
LEMMA HeadIsHeaviest ==
  ASSUME NEW list, GoodList(list), NEW n \in Nat, NEW T, T \subseteq Listed(list),
         Cardinality(T) <= n
  PROVE  StakeOf(T) <= sum_head_stake(n, list)
<1> DEFINE P == Prefix(list, n)
           Light(U) == StakeOf(U) <= StakeOf(P)
           Groups == {U \in SUBSET Listed(list) : Cardinality(U) <= n}
           S == {k \in Nat : \A U \in Groups : Cardinality(U \ P) = k => Light(U)}
<1>1. list \in Seq(Candidate) /\ Len(list) \in Nat
  BY DEF GoodList
<1>2. ValidatorSet(Listed(list)) /\ ValidatorSet(P)
  BY <1>1, PrefixIsValidatorSet DEF Listed
<1>3. ASSUME NEW U \in Groups
      PROVE  ValidatorSet(U) /\ IsFiniteSet(U \ P) /\ Cardinality(U \ P) \in Nat
  <2>1. ValidatorSet(U)
    BY <1>2, SubsetIsValidatorSet
  <2>2. IsFiniteSet(U \ P)
    BY <2>1, FS_Subset, U \ P \in SUBSET U DEF ValidatorSet
  <2> QED
    BY <2>1, <2>2, FS_CardinalityType
<1>4. 0 \in S
  <2>1. SUFFICES ASSUME NEW U \in Groups, Cardinality(U \ P) = 0 PROVE Light(U)
    OBVIOUS
  <2>2. U \ P = {}
    BY <1>3, <2>1, FS_EmptySet
  <2>3. U \subseteq P
    BY <2>2
  <2> QED
    BY <1>2, <2>3, StakeOfMonotone
<1>5. ASSUME NEW k \in Nat, k \in S PROVE k + 1 \in S
  <2>1. SUFFICES ASSUME NEW U \in Groups, Cardinality(U \ P) = k + 1 PROVE Light(U)
    OBVIOUS
  <2>2. PICK d \in U : d \notin P
    <3>1. U \ P = {} => Cardinality(U \ P) = 0
      BY FS_EmptySet
    <3>2. U \ P # {}
      BY <2>1, <3>1
    <3> QED
      BY <3>2
  <2>3. PICK V : /\ V \subseteq Listed(list) /\ Cardinality(V) = Cardinality(U)
                 /\ StakeOf(U) <= StakeOf(V) /\ V \ P = (U \ P) \ {d}
    <3>1. PICK e \in Prefix(list, n) \ U :
            LET V == (U \ {d}) \cup {e}
            IN  /\ V \subseteq Listed(list) /\ Cardinality(V) = Cardinality(U)
                /\ StakeOf(U) <= StakeOf(V)
                /\ V \ Prefix(list, n) = (U \ Prefix(list, n)) \ {d}
      BY <2>2, ExchangeForHead
    <3> QED
      BY <3>1
  <2>4. V \in Groups
    BY <2>3
  <2> HIDE DEF P, Groups
  <2>5. Cardinality(V \ P) = k
    <3>1. d \in U \ P /\ IsFiniteSet(U \ P)
      BY <1>3, <2>2
    <3>2. Cardinality((U \ P) \ {d}) = Cardinality(U \ P) - 1
      BY <3>1, FS_RemoveElement
    <3> QED
      BY <2>1, <2>3, <3>2
  <2>6. StakeOf(V) <= StakeOf(P)
    BY <1>5, <2>4, <2>5
  <2>7. StakeOf(U) \in Nat /\ StakeOf(V) \in Nat /\ StakeOf(P) \in Nat
    BY <1>2, <1>3, <2>4, StakeOfType
  <2> QED
    BY <2>3, <2>6, <2>7
<1>6. T \in Groups
  OBVIOUS
<1> HIDE DEF S, Groups, P
<1>7. Cardinality(T \ P) \in S
  <2> DEFINE m == Cardinality(T \ P)
  <2>1. m \in Nat
    BY <1>3, <1>6
  <2> HIDE DEF m
  <2>2. 0 .. m \subseteq S
    BY <1>4, <1>5, <2>1, IntervalInduction
  <2> QED
    BY <2>1, <2>2 DEF m
<1> QED
  BY <1>6, <1>7 DEF S, P, sum_head_stake

(* What removal asks of the head: when the entry is in it, the head of the *)
(* list without the entry must weigh min_total_stake.                      *)
LEMMA RemoveGoesThrough ==
  ASSUME NEW x, Good(x), NEW cfg, NEW p \in 1 .. Len(x.candidates)
  PROVE  update_stake_for_remove(x, cfg, p) # {}
           <=> \/ p > x.max_validators
               \/ sum_head_stake(x.max_validators, RemoveAt(x.candidates, p)) >= cfg.min_total_stake
<1> DEFINE list == x.candidates
           max  == x.max_validators
           d    == list[p].stake - StakeAt(list, max + 1)
           rest == sum_head_stake(max, RemoveAt(list, p))
<1>1. /\ GoodList(list) /\ max \in Nat /\ x.head_stake \in Nat
      /\ x = [max_validators |-> max, candidates |-> list,
              changed |-> x.changed, head_stake |-> x.head_stake]
      /\ x.head_stake = sum_head_stake(max, list)
  BY GoodFields
<1>2. CASE p > max
  BY <1>2 DEF update_stake_for_remove
<1>3. CASE ~(p > max)
  <2>1. rest = sum_head_stake(max + 1, list) - list[p].stake /\ list[p].stake \in Nat
    <3> HIDE DEF list, max
    <3> QED
      BY <1>1, <1>3, SumAfterRemove DEF rest, list
  <2>2. /\ StakeAt(list, max + 1) \in Nat
        /\ sum_head_stake(max + 1, list) = x.head_stake + StakeAt(list, max + 1)
    BY <1>1, SumGrows
  <2> HIDE DEF rest
  <2>3. x.head_stake - d = rest
    BY <1>1, <2>1, <2>2
  <2> DEFINE z == [x EXCEPT !.head_stake = @ - d, !.changed = TRUE]
  <2>4. z.head_stake = rest
    BY <1>1, <2>3
  <2>5. sub_head_stake(x, cfg, d) = {s \in {z} : s.head_stake >= cfg.min_total_stake}
    BY DEF sub_head_stake
  <2>6. update_stake_for_remove(x, cfg, p) = sub_head_stake(x, cfg, d)
    BY <1>3 DEF update_stake_for_remove
  <2> HIDE DEF z, d, list, max
  <2>7. update_stake_for_remove(x, cfg, p) # {} <=> rest >= cfg.min_total_stake
    BY <2>4, <2>5, <2>6
  <2> QED
    BY <1>3, <2>7 DEF rest, list, max
<1> QED
  BY <1>2, <1>3

(* What a move down asks of the head: when the entry was in it, the head   *)
(* of the list that results must weigh min_total_stake.                    *)
LEMMA MoveDownGoesThrough ==
  ASSUME NEW x, Good(x), NEW cfg, NEW c \in Candidate, NEW old \in 1 .. Len(x.candidates),
         x.candidates[old].pubkey = c.pubkey, c.stake < x.candidates[old].stake,
         NEW at, at = SearchPos(x.candidates, c),
         NEW new, new = IF at > old THEN at - 1 ELSE at
  PROVE  update_impl(x, cfg, old, new, c) # {}
           <=> \/ old > x.max_validators
               \/ sum_head_stake(x.max_validators, InsertAt(RemoveAt(x.candidates, old), new, c))
                    >= cfg.min_total_stake
<1> DEFINE list  == x.candidates
           max   == x.max_validators
           rest  == RemoveAt(list, old)
           moved == InsertAt(rest, new, c)
<1>1. /\ GoodList(list) /\ list \in Seq(Candidate) /\ max \in Nat \ {0}
      /\ x = [max_validators |-> max, candidates |-> list,
              changed |-> x.changed, head_stake |-> x.head_stake]
      /\ x.head_stake \in Nat /\ x.head_stake <= U128Max
  BY GoodFields
<1>2. /\ new \in Nat /\ old \in Nat
      /\ new > max => sum_head_stake(max, moved) = sum_head_stake(max, rest)
      /\ ~(new > max) /\ old > max =>
           sum_head_stake(max, moved) = x.head_stake + (c.stake - StakeAt(list, max))
      /\ ~(new > max) /\ ~(old > max) =>
           sum_head_stake(max, moved) = x.head_stake - (list[old].stake - c.stake)
  BY MovedList
<1>3. c.stake \in Nat /\ list[old].stake \in Nat
  BY <1>1, ListElements, CandidateFields
<1>4. c.stake < list[old].stake
  OBVIOUS
<1>5. old \in 1 .. Len(list)
  OBVIOUS
<1> DEFINE Enough == \/ old > max
                     \/ sum_head_stake(max, moved) >= cfg.min_total_stake
<1> SUFFICES update_impl(x, cfg, old, new, c) # {} <=> Enough
  OBVIOUS
<1> HIDE DEF list, max, rest, moved
<1>6. ASSUME NEW Z,
             update_impl(x, cfg, old, new, c) =
               {[s EXCEPT !.candidates = Move(list, old, new, c)] : s \in Z}
      PROVE  update_impl(x, cfg, old, new, c) # {} <=> Z # {}
  <2> DEFINE moved_to(s) == [s EXCEPT !.candidates = Move(list, old, new, c)]
  <2>1. update_impl(x, cfg, old, new, c) = {moved_to(s) : s \in Z}
    BY <1>6
  <2> HIDE DEF moved_to
  <2> QED
    BY <2>1, Zenon
<1>7. CASE new > max
  <2> DEFINE Z == update_stake_for_remove(x, cfg, old)
  <2>1. update_impl(x, cfg, old, new, c) =
          {[s EXCEPT !.candidates = Move(list, old, new, c)] : s \in Z}
    BY <1>7 DEF update_impl, list, max
  <2>2. Z # {} <=> \/ old > max
                   \/ sum_head_stake(max, rest) >= cfg.min_total_stake
    BY RemoveGoesThrough DEF list, max, rest
  <2> HIDE DEF Z
  <2>3. update_impl(x, cfg, old, new, c) # {} <=> Z # {}
    BY <1>6, <2>1
  <2> QED
    BY <1>2, <1>7, <2>2, <2>3 DEF Enough
<1>8. CASE ~(new > max) /\ old > max
  <2> DEFINE d == c.stake - StakeAt(list, max)
             z == [x EXCEPT !.head_stake = @ + d, !.changed = TRUE]
             Z == add_head_stake(x, d)
  <2>1. max \in 1 .. Len(list)
    BY <1>1, <1>2, <1>5, <1>8
  <2>2. StakeAt(list, max) = list[max].stake /\ list[max].stake \in Nat
    BY <1>1, <2>1, ListElements, CandidateFields DEF StakeAt
  <2>3. list[old].stake <= list[max].stake
    <3>1. StakeAt(list, old) <= list[max].stake
      BY <1>1, <1>2, <1>8, <2>1, HeadOutweighsTail
    <3> QED
      BY <1>5, <3>1 DEF StakeAt
  <2>4. x.head_stake + d <= U128Max
    BY <1>1, <1>3, <1>4, <2>2, <2>3, U128MaxAssumption
  <2>5. z.head_stake = x.head_stake + d
    BY <1>1
  <2>6. z \in Z
    <3> HIDE DEF d
    <3> QED
      BY <2>4, <2>5 DEF add_head_stake
  <2>7. update_impl(x, cfg, old, new, c) =
          {[s EXCEPT !.candidates = Move(list, old, new, c)] : s \in Z}
    BY <1>8 DEF update_impl, list, max
  <2> HIDE DEF z, d, Z
  <2>8. update_impl(x, cfg, old, new, c) # {} <=> Z # {}
    BY <1>6, <2>7
  <2> QED
    BY <1>8, <2>6, <2>8 DEF Enough
<1>9. CASE ~(new > max) /\ ~(old > max)
  <2> DEFINE d == list[old].stake - c.stake
             z == [x EXCEPT !.head_stake = @ - d, !.changed = TRUE]
             Z == sub_head_stake(x, cfg, d)
  <2>1. z.head_stake = sum_head_stake(max, moved)
    BY <1>1, <1>2, <1>9
  <2>2. Z = {s \in {z} : s.head_stake >= cfg.min_total_stake}
    <3> HIDE DEF d
    <3> QED
      BY DEF sub_head_stake
  <2>3. list[old].stake > c.stake /\ ~(list[old].stake < c.stake)
    BY <1>3, <1>4
  <2>4. update_impl(x, cfg, old, new, c) =
          {[s EXCEPT !.candidates = Move(list, old, new, c)] : s \in Z}
    BY <1>9, <2>3 DEF update_impl, list, max
  <2> HIDE DEF z, d, Z
  <2>5. update_impl(x, cfg, old, new, c) # {} <=> Z # {}
    BY <1>6, <2>4
  <2>6. Z # {} <=> sum_head_stake(max, moved) >= cfg.min_total_stake
    BY <2>1, <2>2
  <2> QED
    BY <1>9, <2>5, <2>6 DEF Enough
<1> HIDE DEF Enough
<1> QED
  BY <1>7, <1>8, <1>9

(* The head of a list weighs m exactly when some choice of as many entries *)
(* does, since the head is the heaviest choice.                            *)
LEMMA HeavyHead ==
  ASSUME NEW list, GoodList(list), NEW n \in Nat, NEW m \in Nat
  PROVE  sum_head_stake(n, list) >= m
           <=> \E V \in SUBSET Listed(list) : Cardinality(V) <= n /\ StakeOf(V) >= m
<1>1. list \in Seq(Candidate) /\ Len(list) \in Nat
  BY DEF GoodList
<1>2. sum_head_stake(n, list) \in Nat
  BY SumType
<1>3. /\ Prefix(list, n) \subseteq Listed(list)
      /\ Cardinality(Prefix(list, n)) <= n
  <2>1. Prefix(list, n) \subseteq Listed(list)
    BY <1>1 DEF Listed, Prefix
  <2>2. CASE n <= Len(list)
    BY <1>1, <2>1, <2>2, PrefixCardinality
  <2>3. CASE ~(n <= Len(list))
    <3>1. Cardinality(Listed(list)) = Len(list)
      BY <1>1, PrefixCardinality, Len(list) <= Len(list) DEF Listed
    <3>2. Prefix(list, n) = Listed(list)
      BY <1>1, <2>3 DEF Listed, Prefix
    <3> QED
      BY <1>1, <2>3, <3>1, <3>2
  <2> QED
    BY <2>1, <2>2, <2>3
<1>4. ASSUME sum_head_stake(n, list) >= m
      PROVE  \E V \in SUBSET Listed(list) : Cardinality(V) <= n /\ StakeOf(V) >= m
  <2>1. StakeOf(Prefix(list, n)) >= m
    BY <1>4 DEF sum_head_stake
  <2> QED
    BY <1>3, <2>1
<1>5. ASSUME NEW V \in SUBSET Listed(list), Cardinality(V) <= n, StakeOf(V) >= m
      PROVE  sum_head_stake(n, list) >= m
  <2>1. StakeOf(V) <= sum_head_stake(n, list)
    BY <1>5, HeadIsHeaviest
  <2>2. StakeOf(V) \in Nat
    <3>1. ValidatorSet(Listed(list))
      BY <1>1, PrefixIsValidatorSet DEF Listed
    <3>2. ValidatorSet(V)
      BY <3>1, SubsetIsValidatorSet
    <3> QED
      BY <3>2, StakeOfType
  <2> QED
    BY <1>2, <1>5, <2>1, <2>2
<1> QED
  BY <1>4, <1>5

\* The entries of a list once pk has stake instead of what it had.
Lowered(list, pk, stake) ==
    {e \in Listed(list) : e.pubkey # pk}
      \cup (IF stake > 0 THEN {[pubkey |-> pk, stake |-> stake]} ELSE {})

(* The answer to a call that lowers the stake of a candidate: it is        *)
(* refused exactly when the stake that is left is below the minimum, when  *)
(* too few candidates are left, or when the candidate is in the head and   *)
(* no choice of validators among those left weighs enough.                 *)
LEMMA LoweringGoesThrough ==
  ASSUME NEW x, Good(x), NEW cfg, NEW pk \in PubKey, NEW p \in Positions(x.candidates, pk),
         NEW stake \in Nat, stake < x.candidates[p].stake,
         cfg.min_validators \in Nat, cfg.min_validator_stake \in Nat, cfg.min_total_stake \in Nat,
         NEW Left, Left = Lowered(x.candidates, pk, stake)
  PROVE  update(x, cfg, pk, stake) # {}
           <=> /\ ~(stake > 0 /\ stake < cfg.min_validator_stake)
               /\ ~(stake = 0 /\ Cardinality(Left) < cfg.min_validators)
               /\ \/ p > x.max_validators
                  \/ \E V \in SUBSET Left :
                       Cardinality(V) <= x.max_validators /\ StakeOf(V) >= cfg.min_total_stake
<1> DEFINE list == x.candidates
           max  == x.max_validators
           rest == RemoveAt(list, p)
           c    == [pubkey |-> pk, stake |-> stake]
           L    == {e \in Listed(list) : e.pubkey # pk}
           Heavy == \E V \in SUBSET Left : Cardinality(V) <= max /\ StakeOf(V) >= cfg.min_total_stake
<1>1. /\ GoodList(list) /\ list \in Seq(Candidate) /\ Len(list) \in Nat
      /\ p \in 1 .. Len(list) /\ list[p].pubkey = pk /\ max \in Nat
  BY GoodFields DEF Positions
<1>2. GoodList(rest) /\ Listed(rest) = L
  <2>1. GoodList(rest) /\ Listed(rest) = Listed(list) \ {list[p]}
    BY <1>1, RemoveGood, RemoveListed
  <2>2. \A e \in Listed(list) : e.pubkey = pk <=> e = list[p]
    BY <1>1, KeyAtPosition DEF Listed
  <2> QED
    BY <2>1, <2>2
<1>3. Positions(list, pk) = {p}
  BY <1>1 DEF Positions, GoodList, UniqueKeys
<1>4. CASE stake = 0
  <2>1. Left = L
    BY <1>4 DEF Lowered
  <2>2. sum_head_stake(max, rest) >= cfg.min_total_stake <=> Heavy
    BY <1>1, <1>2, <2>1, HeavyHead
  <2>3. Cardinality(Left) = Len(list) - 1
    <3>1. Cardinality(Listed(list)) = Len(list)
      BY <1>1, PrefixCardinality, Len(list) <= Len(list) DEF Listed
    <3>2. IsFiniteSet(Listed(list))
      BY <1>1, PrefixIsValidatorSet DEF Listed, ValidatorSet
    <3>3. list[p] \in Listed(list)
      BY <1>1 DEF Listed, Prefix
    <3>4. Left = Listed(list) \ {list[p]}
      BY <1>1, <1>2, <2>1, RemoveListed
    <3> HIDE DEF list
    <3> QED
      BY <3>1, <3>2, <3>3, <3>4, FS_RemoveElement
  <2>4. update_stake_for_remove(x, cfg, p) # {}
          <=> p > max \/ sum_head_stake(max, rest) >= cfg.min_total_stake
    BY <1>1, RemoveGoesThrough
  <2>5. update(x, cfg, pk, stake) = do_remove(x, cfg, p)
    BY <1>3, <1>4 DEF update
  <2>6. do_remove(x, cfg, p) # {}
          <=> Len(list) > cfg.min_validators /\ update_stake_for_remove(x, cfg, p) # {}
    <3> DEFINE removed(s) == [s EXCEPT !.candidates = RemoveAt(@, p)]
               Z == update_stake_for_remove(x, cfg, p)
    <3>1. do_remove(x, cfg, p) = IF Len(list) <= cfg.min_validators
                                 THEN {} ELSE {removed(s) : s \in Z}
      BY DEF do_remove
    <3> HIDE DEF removed, Z
    <3>2. {removed(s) : s \in Z} # {} <=> Z # {}
      BY Zenon
    <3>3. Len(list) <= cfg.min_validators <=> ~(Len(list) > cfg.min_validators)
      BY <1>1
    <3> QED
      BY <3>1, <3>2, <3>3 DEF Z
  <2>7. Len(list) > cfg.min_validators <=> ~(Cardinality(Left) < cfg.min_validators)
    BY <1>1, <2>3
  <2> HIDE DEF Heavy
  <2>8. update(x, cfg, pk, stake) # {}
          <=> ~(Cardinality(Left) < cfg.min_validators) /\ (p > max \/ Heavy)
    BY <2>2, <2>4, <2>5, <2>6, <2>7
  <2> QED
    BY <1>4, <2>8 DEF Heavy
<1>5. CASE stake > 0
  <2> DEFINE at  == SearchPos(list, c)
             new == IF at > p THEN at - 1 ELSE at
             moved == InsertAt(rest, new, c)
  <2>1. c \in Candidate /\ c.pubkey = pk /\ c.stake = stake
    BY <1>5 DEF Candidate
  <2>2. Left = L \cup {c}
    BY <1>5 DEF Lowered
  <2> HIDE DEF c
  <2>3. GoodList(moved) /\ new \in 1 .. Len(rest) + 1
    BY <1>1, <2>1, MovedList
  <2> HIDE DEF new
  <2>4. Listed(moved) = Left
    <3>1. rest \in Seq(Candidate)
      BY <1>2 DEF GoodList
    <3> QED
      BY <1>2, <2>1, <2>2, <2>3, <3>1, InsertListed
  <2>5. sum_head_stake(max, moved) >= cfg.min_total_stake <=> Heavy
    BY <1>1, <2>3, <2>4, HeavyHead
  <2>6. update_impl(x, cfg, p, new, c) # {}
          <=> p > max \/ sum_head_stake(max, moved) >= cfg.min_total_stake
    BY <1>1, <2>1, MoveDownGoesThrough DEF new
  <2>7. do_update(x, cfg, {p}, c) = update_impl(x, cfg, p, new, c)
    <3>1. {p} # {}
      OBVIOUS
    <3> QED
      BY <3>1 DEF do_update, new
  <2>8. update(x, cfg, pk, stake) =
          IF stake < cfg.min_validator_stake THEN {} ELSE do_update(x, cfg, {p}, c)
    BY <1>3, <1>5 DEF update, c
  <2> HIDE DEF Heavy, moved
  <2>9. update(x, cfg, pk, stake) # {}
          <=> ~(stake < cfg.min_validator_stake) /\ (p > max \/ Heavy)
    BY <2>5, <2>6, <2>7, <2>8
  <2> QED
    BY <1>5, <2>9 DEF Heavy
<1> QED
  BY <1>4, <1>5
=============================================================================
