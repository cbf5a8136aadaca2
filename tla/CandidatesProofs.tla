-------------------------- MODULE CandidatesProofs --------------------------
(***************************************************************************)
(* The candidate list as a state machine is correct.                       *)
(***************************************************************************)
EXTENDS CandidatesSpec, CandidatesLemmas

(* Whatever the sequence of stake changes, of changes of max_validators    *)
(* and of epochs, the fields stay in range, the list stays strictly sorted *)
(* without duplicate keys, and head_stake, which is only ever adjusted by  *)
(* differences, stays the sum of the first max_validators stakes: the      *)
(* assertions of debug_verify_state never fail.  The invariant is          *)
(* inductive as it stands: each part is needed for the others.             *)
THEOREM CandidatesCorrect == Spec => [](TypeOK /\ VerifyState)
<1> DEFINE IInv == Good(cs)
<1>1. Init => IInv
  <2>1. SUFFICES ASSUME NEW max \in MaxCounts, NEW V \in GenesisSets,
                        cs \in NewCandidates(max, V)
                 PROVE  Good(cs)
    BY DEF Init
  <2>2. max \in Nat \ {0}
    BY MaxCountsAssumption
  <2>3. V \subseteq Candidate
    <3>1. V \in SUBSET [pubkey : PubKey, stake : StakeValues]
      BY DEF GenesisSets
    <3> QED
      BY <3>1, StakeValuesAssumption DEF Candidate
  <2>4. IsFiniteSet(V) /\ DistinctKeys(V) /\ StakeOf(V) <= U128Max
    BY DEF GenesisSets
  <2>5. ValidatorSet(V)
    BY <2>3, <2>4, CandidateFields DEF ValidatorSet
  <2> QED
    BY <2>1, <2>2, <2>3, <2>4, <2>5, NewCandidatesGood
<1>2. IInv /\ [Next]_cs => IInv'
  <2>1. SUFFICES ASSUME Good(cs), [Next]_cs PROVE Good(cs')
    OBVIOUS
  <2>2. ASSUME NEW pk \in PubKey, NEW stake \in StakeValues \cup {0},
               UpdateCandidate(pk, stake)
        PROVE  Good(cs')
    <3>1. stake \in Nat
      BY StakeValuesAssumption
    <3> QED
      BY <2>1, <2>2, <3>1, UpdateGood DEF UpdateCandidate
  <2>3. ASSUME NEW max \in MaxCounts, UpdateMaxValidators(max)
        PROVE  Good(cs')
    BY <2>1, <2>3, MaxCountsAssumption, UpdateMaxGood DEF UpdateMaxValidators
  <2>4. CASE ClearChangedFlag
    BY <2>1, <2>4, ClearGood DEF ClearChangedFlag
  <2>5. CASE UNCHANGED cs
    BY <2>1, <2>5
  <2> QED
    BY <2>1, <2>2, <2>3, <2>4, <2>5 DEF Next
<1>3. IInv => TypeOK /\ VerifyState
  BY DEF Good, TypeOK, VerifyState
<1> QED
  BY <1>1, <1>2, <1>3, PTL DEF Spec

-----------------------------------------------------------------------------
(* The instance counts as the list does.                                   *)
LEMMA SameCardinality == ASSUME NEW S PROVE Table!Cardinality(S) = Cardinality(S)
  BY DEF Table!Cardinality, Cardinality

LEMMA SameStakeOf == ASSUME NEW S PROVE Table!StakeOf(S) = StakeOf(S)
  BY SameCardinality DEF Table!StakeOf, StakeOf, Table!StakeUnits, StakeUnits, Table!UnitsOf, UnitsOf

-----------------------------------------------------------------------------
(* The table of a list: the stakes of its members, zero for the others.    *)

LEMMA TableEntries ==
  ASSUME NEW x, Good(x)
  PROVE  /\ TableOf(x) \in [PubKey -> Nat]
         /\ \A i \in 1 .. Len(x.candidates) :
              TableOf(x)[x.candidates[i].pubkey] = x.candidates[i].stake
         /\ \A pk \in PubKey :
              TableOf(x)[pk] > 0 => \E i \in 1 .. Len(x.candidates) : x.candidates[i].pubkey = pk
<1> DEFINE list == x.candidates
<1>1. GoodList(list) /\ list \in Seq(Candidate)
  BY GoodFields
<1>2. ASSUME NEW pk \in PubKey, Positions(list, pk) = {}
      PROVE  CandidateStake(x, pk) = 0
  BY <1>2 DEF CandidateStake
<1>3. ASSUME NEW pk, NEW p \in Positions(list, pk)
      PROVE  CandidateStake(x, pk) = list[p].stake
  <2> DEFINE q == CHOOSE q \in Positions(list, pk) : TRUE
  <2>1. q \in Positions(list, pk)
    BY <1>3
  <2> HIDE DEF q
  <2>2. q = p
    BY <1>1, <1>3, <2>1 DEF Positions, GoodList, UniqueKeys
  <2> QED
    BY <1>3, <2>2 DEF CandidateStake, q
<1>4. \A i \in 1 .. Len(list) : /\ list[i].pubkey \in PubKey
                                /\ list[i].stake \in Nat
                                /\ i \in Positions(list, list[i].pubkey)
  BY <1>1, ListElements, CandidateFields DEF Positions
<1>5. \A pk : \A i \in Positions(list, pk) : i \in 1 .. Len(list) /\ list[i].pubkey = pk
  BY DEF Positions
<1>6. \A pk \in PubKey : CandidateStake(x, pk) \in Nat
  BY <1>2, <1>3, <1>4, <1>5
<1>7. TableOf(x) \in [PubKey -> Nat]
  BY <1>6 DEF TableOf
<1>8. \A pk \in PubKey : TableOf(x)[pk] = CandidateStake(x, pk)
  BY DEF TableOf
<1>9. ASSUME NEW i \in 1 .. Len(list)
      PROVE  TableOf(x)[list[i].pubkey] = list[i].stake
  BY <1>3, <1>4, <1>8
<1>10. ASSUME NEW pk \in PubKey, TableOf(x)[pk] > 0
       PROVE  \E i \in 1 .. Len(list) : list[i].pubkey = pk
  BY <1>2, <1>5, <1>8, <1>10
<1> QED
  BY <1>7, <1>9, <1>10

(* The keys before a candidate of the list are the keys ahead of it.       *)
LEMMA AheadOnList ==
  ASSUME NEW x, Good(x), NEW i \in 1 .. Len(x.candidates)
  PROVE  Cardinality(Table!Ahead(TableOf(x), x.candidates[i].pubkey)) = i - 1
<1> DEFINE list == x.candidates
           t    == TableOf(x)
           A    == Table!Ahead(t, list[i].pubkey)
           I    == 1 .. i - 1
           f    == [j \in I |-> list[j].pubkey]
<1>1. GoodList(list) /\ list \in Seq(Candidate) /\ Len(list) \in Nat
  BY GoodFields
<1>2. /\ t \in [PubKey -> Nat]
      /\ \A j \in 1 .. Len(list) : t[list[j].pubkey] = list[j].stake
      /\ \A pk \in PubKey : t[pk] > 0 => \E j \in 1 .. Len(list) : list[j].pubkey = pk
  BY TableEntries
<1>3. \A j \in 1 .. Len(list) : /\ list[j] \in Candidate
                                /\ list[j].pubkey \in PubKey /\ list[j].pubkey \in Nat
                                /\ list[j].stake \in Nat /\ list[j].stake > 0
  BY <1>1, ListElements, CandidateFields
<1>4. A = {q \in {pk \in PubKey : t[pk] > 0} :
             t[q] > t[list[i].pubkey] \/ (t[q] = t[list[i].pubkey] /\ q < list[i].pubkey)}
  BY <1>2 DEF Table!Ahead, Table!Members
<1> HIDE DEF A, t, list
<1>5. ASSUME NEW j \in 1 .. Len(list)
      PROVE  list[j].pubkey \in A <=> Precedes(list[j], list[i])
  BY <1>2, <1>3, <1>4 DEF Precedes, list
<1>6. \A j \in 1 .. Len(list) : Precedes(list[j], list[i]) <=> j < i
  <2>1. SUFFICES ASSUME NEW j \in 1 .. Len(list) PROVE Precedes(list[j], list[i]) <=> j < i
    OBVIOUS
  <2>2. CASE j < i
    BY <1>1, <2>2 DEF GoodList, Sorted, list
  <2>3. CASE j = i
    BY <1>3, <2>3 DEF Precedes
  <2>4. CASE i < j
    <3>1. Precedes(list[i], list[j])
      BY <1>1, <2>4 DEF GoodList, Sorted, list
    <3>2. list[i] \in Candidate /\ list[j] \in Candidate
      BY <1>3 DEF list
    <3>3. ~Precedes(list[j], list[i])
      BY <3>1, <3>2, PrecedesAsymmetric
    <3> QED
      BY <2>4, <3>3
  <2> QED
    BY <1>1, <2>2, <2>3, <2>4
<1>7. I \subseteq 1 .. Len(list)
  BY <1>1 DEF list
<1>8. f \in Bijection(I, A)
  <2>1. f \in [I -> A]
    BY <1>5, <1>6, <1>7
  <2>2. \A j, k \in I : f[j] = f[k] => j = k
    BY <1>1, <1>7 DEF GoodList, UniqueKeys
  <2>3. ASSUME NEW a \in A PROVE \E j \in I : f[j] = a
    <3>1. PICK j \in 1 .. Len(list) : list[j].pubkey = a
      BY <1>2, <1>4
    <3>2. j < i
      BY <1>5, <1>6, <3>1
    <3>3. j \in I
      BY <1>1, <3>2
    <3> QED
      BY <3>1, <3>3
  <2>4. f \in Injection(I, A)
    BY <2>1, <2>2 DEF Injection, IsInjective
  <2>5. f \in Surjection(I, A)
    BY <2>1, <2>3 DEF Surjection
  <2> QED
    BY <2>4, <2>5 DEF Bijection
<1>9. i - 1 \in Nat
  BY <1>1
<1>10. IsFiniteSet(I) /\ Cardinality(I) = i - 1
  BY <1>9, FS_Interval, 1 \in Int, i - 1 \in Int
<1> HIDE DEF I, f
<1>11. Cardinality(A) = Cardinality(I)
  BY <1>8, <1>10, FS_Bijection DEF ExistsBijection
<1> QED
  BY <1>10, <1>11 DEF A, t, list

LEMMA TopOfTable ==
  ASSUME NEW x, Good(x), NEW n \in Nat
  PROVE  Table!Top(TableOf(x), n) = Prefix(x.candidates, n)
<1> DEFINE list == x.candidates
           t    == TableOf(x)
<1>1. GoodList(list) /\ list \in Seq(Candidate) /\ Len(list) \in Nat
  BY GoodFields
<1>2. /\ t \in [PubKey -> Nat]
      /\ \A j \in 1 .. Len(list) : t[list[j].pubkey] = list[j].stake
      /\ \A pk \in PubKey : t[pk] > 0 => \E j \in 1 .. Len(list) : list[j].pubkey = pk
  BY TableEntries
<1>3. \A j \in 1 .. Len(list) : /\ list[j] = [pubkey |-> list[j].pubkey, stake |-> list[j].stake]
                                /\ list[j].pubkey \in PubKey
                                /\ list[j].stake > 0
  <2>1. \A c \in Candidate : c = [pubkey |-> c.pubkey, stake |-> c.stake]
    BY DEF Candidate
  <2> QED
    BY <1>1, <2>1, ListElements, CandidateFields
<1>4. \A j \in 1 .. Len(list) : Cardinality(Table!Ahead(t, list[j].pubkey)) = j - 1
  BY AheadOnList
<1>5. Table!Members(t) = {pk \in PubKey : t[pk] > 0}
  BY <1>2 DEF Table!Members
<1> HIDE DEF t, list
<1>6. \A j \in 1 .. Len(list) : list[j].pubkey \in Table!Members(t)
  BY <1>2, <1>3, <1>5
<1>7. \A j \in 1 .. Len(list) : j - 1 < n <=> j <= n
  BY <1>1
<1>8. ASSUME NEW v \in Table!Top(t, n) PROVE v \in Prefix(list, n)
  <2>1. PICK pk \in Table!Members(t) :
          Cardinality(Table!Ahead(t, pk)) < n /\ v = [pubkey |-> pk, stake |-> t[pk]]
    BY <1>8, SameCardinality DEF Table!Top
  <2>2. PICK j \in 1 .. Len(list) : list[j].pubkey = pk
    BY <1>2, <1>5, <2>1
  <2>3. j <= n
    BY <1>4, <1>7, <2>1, <2>2
  <2>4. v = list[j]
    BY <1>2, <1>3, <2>1, <2>2
  <2> QED
    BY <2>3, <2>4 DEF Prefix
<1>9. ASSUME NEW v \in Prefix(list, n) PROVE v \in Table!Top(t, n)
  <2>1. PICK j \in 1 .. Len(list) : j <= n /\ v = list[j]
    BY <1>9 DEF Prefix
  <2>2. Cardinality(Table!Ahead(t, list[j].pubkey)) < n
    BY <1>4, <1>7, <2>1
  <2>3. v = [pubkey |-> list[j].pubkey, stake |-> t[list[j].pubkey]]
    BY <1>2, <1>3, <2>1
  <2> QED
    BY <1>6, <2>2, <2>3, SameCardinality DEF Table!Top
<1> QED
  BY <1>8, <1>9 DEF t, list

LEMMA MembersOfTable ==
  ASSUME NEW x, Good(x)
  PROVE  /\ Table!Members(TableOf(x)) = {v.pubkey : v \in Listed(x.candidates)}
         /\ Cardinality(Table!Members(TableOf(x))) = Len(x.candidates)
<1> DEFINE list == x.candidates
           t    == TableOf(x)
           M    == Table!Members(t)
           I    == 1 .. Len(list)
           f    == [j \in I |-> list[j].pubkey]
<1>1. GoodList(list) /\ list \in Seq(Candidate) /\ Len(list) \in Nat
  BY GoodFields
<1>2. /\ t \in [PubKey -> Nat]
      /\ \A j \in I : t[list[j].pubkey] = list[j].stake
      /\ \A pk \in PubKey : t[pk] > 0 => \E j \in I : list[j].pubkey = pk
  BY TableEntries
<1>3. \A j \in I : list[j].pubkey \in PubKey /\ list[j].stake > 0
  BY <1>1, ListElements, CandidateFields
<1>4. M = {pk \in PubKey : t[pk] > 0}
  BY <1>2 DEF Table!Members
<1>5. Listed(list) = {list[j] : j \in I}
  BY <1>1, ListedElements
<1> HIDE DEF M, t, list
<1>6. M = {list[j].pubkey : j \in I}
  BY <1>2, <1>3, <1>4
<1>7. M = {v.pubkey : v \in Listed(list)}
  BY <1>5, <1>6
<1>8. f \in Bijection(I, M)
  <2>1. f \in [I -> M] /\ \A a \in M : \E j \in I : f[j] = a
    BY <1>6
  <2>2. \A j, k \in I : f[j] = f[k] => j = k
    BY <1>1 DEF GoodList, UniqueKeys
  <2>3. f \in Injection(I, M)
    BY <2>1, <2>2 DEF Injection, IsInjective
  <2>4. f \in Surjection(I, M)
    BY <2>1 DEF Surjection
  <2> QED
    BY <2>3, <2>4 DEF Bijection
<1>9. IsFiniteSet(I) /\ Cardinality(I) = Len(list)
  BY <1>1, FS_Interval, 1 \in Int, Len(list) \in Int, SMTT(30)
<1> HIDE DEF I, f
<1>10. Cardinality(M) = Cardinality(I)
  BY <1>8, <1>9, FS_Bijection DEF ExistsBijection
<1> QED
  BY <1>7, <1>9, <1>10 DEF M, t, list

(* The entries of the table are the members of the list.                   *)
LEMMA TableByMembers ==
  ASSUME NEW x, Good(x), NEW pk \in PubKey, NEW n \in Nat \ {0}
  PROVE  TableOf(x)[pk] = n <=> [pubkey |-> pk, stake |-> n] \in Listed(x.candidates)
<1> DEFINE list == x.candidates
           v    == [pubkey |-> pk, stake |-> n]
<1>1. list \in Seq(Candidate) /\ Len(list) \in Nat
  BY GoodFields
<1>2. /\ \A j \in 1 .. Len(list) : TableOf(x)[list[j].pubkey] = list[j].stake
      /\ TableOf(x)[pk] > 0 => \E j \in 1 .. Len(list) : list[j].pubkey = pk
  BY TableEntries
<1>3. \A j \in 1 .. Len(list) : list[j].pubkey = pk /\ list[j].stake = n => list[j] = v
  BY <1>1, ListElements DEF Candidate
<1>4. v.pubkey = pk /\ v.stake = n
  OBVIOUS
<1>5. /\ \A j \in 1 .. Len(list) : list[j] \in Listed(list)
      /\ \A w \in Listed(list) : \E j \in 1 .. Len(list) : w = list[j]
  BY <1>1, ListedElements
<1> HIDE DEF list, v
<1>6. ASSUME TableOf(x)[pk] = n PROVE v \in Listed(list)
  BY <1>2, <1>3, <1>5, <1>6
<1>7. ASSUME v \in Listed(list) PROVE TableOf(x)[pk] = n
  BY <1>2, <1>4, <1>5, <1>7
<1> QED
  BY <1>6, <1>7 DEF list, v

(* Replacing the entry of a key on the list sets its stake in the table.   *)
LEMMA TableAfterEdit ==
  ASSUME NEW x, Good(x), NEW y, Good(y), NEW pk \in PubKey, NEW n \in Nat,
         Edited(x, y, pk, IF n > 0 THEN {[pubkey |-> pk, stake |-> n]} ELSE {})
  PROVE  TableOf(y) = [TableOf(x) EXCEPT ![pk] = n]
<1> DEFINE C == IF n > 0 THEN {[pubkey |-> pk, stake |-> n]} ELSE {}
           s == TableOf(x)
           t == TableOf(y)
<1>1. s \in [PubKey -> Nat] /\ t \in [PubKey -> Nat]
  BY TableEntries
<1>2. Listed(y.candidates) = {e \in Listed(x.candidates) : e.pubkey # pk} \cup C
  BY DEF Edited
<1>3. \A q \in PubKey, m \in Nat \ {0} :
        /\ s[q] = m <=> [pubkey |-> q, stake |-> m] \in Listed(x.candidates)
        /\ t[q] = m <=> [pubkey |-> q, stake |-> m] \in Listed(y.candidates)
  BY TableByMembers
<1>4. \A e \in C : e.pubkey = pk /\ e = [pubkey |-> pk, stake |-> n] /\ n > 0
  OBVIOUS
<1>5. n > 0 => [pubkey |-> pk, stake |-> n] \in C
  OBVIOUS
<1> HIDE DEF s, t, C
<1>6. ASSUME NEW q \in PubKey, q # pk PROVE t[q] = s[q]
  <2>1. \A m \in Nat \ {0} : [pubkey |-> q, stake |-> m] \in Listed(y.candidates)
                              <=> [pubkey |-> q, stake |-> m] \in Listed(x.candidates)
    BY <1>2, <1>4, <1>6
  <2>2. \A m \in Nat \ {0} : t[q] = m <=> s[q] = m
    BY <1>3, <2>1
  <2>3. t[q] \in Nat /\ s[q] \in Nat
    BY <1>1
  <2> QED
    BY <2>2, <2>3
<1>7. t[pk] = n
  <2>1. CASE n > 0
    BY <1>2, <1>3, <1>5, <2>1
  <2>2. CASE n = 0
    <3>1. \A m \in Nat \ {0} : [pubkey |-> pk, stake |-> m] \notin Listed(y.candidates)
      BY <1>2, <1>4, <2>2
    <3>2. t[pk] \in Nat
      BY <1>1
    <3> QED
      BY <1>3, <2>2, <3>1, <3>2
  <2> QED
    BY <2>1, <2>2
<1> QED
  BY <1>1, <1>6, <1>7 DEF s, t

-----------------------------------------------------------------------------
(* The list implements the table.                                          *)

LEMMA GenesisSet ==
  ASSUME NEW max \in MaxCounts, NEW V \in GenesisSets
  PROVE  /\ max \in Nat \ {0}
         /\ V \subseteq Candidate
         /\ V \subseteq [pubkey : PubKey, stake : StakeValues]
         /\ ValidatorSet(V) /\ StakeOf(V) <= U128Max
<1>1. max \in Nat \ {0}
  BY MaxCountsAssumption
<1>2. V \in SUBSET [pubkey : PubKey, stake : StakeValues]
  BY DEF GenesisSets
<1>3. V \subseteq Candidate
  BY <1>2, StakeValuesAssumption DEF Candidate
<1>4. IsFiniteSet(V) /\ DistinctKeys(V) /\ StakeOf(V) <= U128Max
  BY DEF GenesisSets
<1>5. ValidatorSet(V)
  BY <1>3, <1>4, CandidateFields DEF ValidatorSet
<1> QED
  BY <1>1, <1>2, <1>3, <1>4, <1>5

LEMMA InitRefines ==
  ASSUME Init
  PROVE  Good(cs) /\ Table!TableInit
<1>1. PICK max \in MaxCounts : \E V \in GenesisSets : cs \in NewCandidates(max, V)
  BY DEF Init
<1>2. PICK V \in GenesisSets : cs \in NewCandidates(max, V)
  BY <1>1
<1>3. /\ max \in Nat \ {0}
      /\ V \subseteq Candidate
      /\ V \subseteq [pubkey : PubKey, stake : StakeValues]
      /\ ValidatorSet(V) /\ StakeOf(V) <= U128Max
  BY GenesisSet
<1>4. Good(cs)
  BY <1>2, <1>3, NewCandidatesGood
<1>5. /\ cs.max_validators = max
      /\ Listed(cs.candidates) = V
      /\ Len(cs.candidates) = Cardinality(V)
      /\ cs.changed = (Cardinality(V) > max)
  BY <1>2, <1>3, NewCandidatesEffect
<1>6. TableOf(cs) \in [PubKey -> StakeValues \cup {0}]
  <2>1. TableOf(cs) \in [PubKey -> Nat]
    BY <1>4, TableEntries
  <2>2. ASSUME NEW pk \in PubKey, TableOf(cs)[pk] # 0
        PROVE  TableOf(cs)[pk] \in StakeValues
    <3>1. TableOf(cs)[pk] \in Nat \ {0}
      BY <2>1, <2>2
    <3>2. [pubkey |-> pk, stake |-> TableOf(cs)[pk]] \in V
      BY <1>4, <1>5, <3>1, TableByMembers
    <3>3. \A v \in V : v.stake \in StakeValues
      BY <1>3
    <3> QED
      BY <3>2, <3>3
  <2> QED
    BY <2>1, <2>2
<1>7. Cardinality(Table!Members(TableOf(cs))) = Cardinality(V)
  BY <1>4, <1>5, MembersOfTable
<1> QED
  BY <1>4, <1>5, <1>6, <1>7, SameCardinality DEF Table!TableInit

(* The flag that the code maintains is the flag of the table.              *)
LEMMA FlagRefines ==
  ASSUME Good(cs), Good(cs'), FlagExact(cs, cs')
  PROVE  Table!Flag
<1>1. /\ cs.max_validators \in Nat /\ cs'.max_validators \in Nat
      /\ cs.changed \in BOOLEAN /\ cs'.changed \in BOOLEAN
  BY GoodFields
<1>2. /\ Table!Top(TableOf(cs), cs.max_validators) = TopValidators(cs)
      /\ Table!Top(TableOf(cs'), cs'.max_validators) = TopValidators(cs')
  BY <1>1, TopOfTable DEF TopValidators
<1> QED
  BY <1>1, <1>2, Zenon DEF Table!Flag, FlagExact

LEMMA UpdateRefines ==
  ASSUME Good(cs), NEW pk \in PubKey, NEW stake \in StakeValues \cup {0},
         UpdateCandidate(pk, stake)
  PROVE  Good(cs') /\ Table!SetStake(pk, stake)
<1>1. stake \in Nat /\ cs' \in update(cs, Config, pk, stake)
  BY StakeValuesAssumption DEF UpdateCandidate
<1>2. Good(cs')
  BY <1>1, UpdateGood
<1>3. Updated(cs, cs', Config, pk, stake)
  <2>1. Config.min_validators \in Nat /\ Config.min_validator_stake \in Nat
    BY ConfigAssumption
  <2> QED
    BY <1>1, <2>1, UpdateEffect
<1>4. stake = 0 \/ stake >= Config.min_validator_stake
  BY <1>3 DEF Updated
<1>5. TableOf(cs') = [TableOf(cs) EXCEPT ![pk] = stake]
  <2>1. Edited(cs, cs', pk, IF stake > 0 THEN {[pubkey |-> pk, stake |-> stake]} ELSE {})
    BY <1>3 DEF Updated
  <2>2. ASSUME NEW y, Good(y),
               Edited(cs, y, pk, IF stake > 0 THEN {[pubkey |-> pk, stake |-> stake]} ELSE {})
        PROVE  TableOf(y) = [TableOf(cs) EXCEPT ![pk] = stake]
    BY <1>1, <2>2, TableAfterEdit
  <2> QED
    BY <1>2, <2>1, <2>2
<1>6. cs'.max_validators = cs.max_validators
  BY <1>3 DEF Updated, Edited
<1>7. Table!Flag
  BY <1>2, <1>3, FlagRefines DEF Updated
<1>8. ASSUME stake = 0, TableOf(cs)[pk] > 0
      PROVE  Cardinality(Table!Members(TableOf(cs'))) >= Config.min_validators
  <2>1. Positions(cs.candidates, pk) # {}
    BY <1>8, TableEntries DEF Positions
  <2>2. Len(cs'.candidates) >= Config.min_validators
    BY <1>3, <1>8, <2>1 DEF Updated
  <2> QED
    BY <1>2, <2>2, MembersOfTable
<1>9. ASSUME NEW x, Good(x)
      PROVE  StakeOf(Table!Top(TableOf(x), x.max_validators)) = x.head_stake
  BY <1>9, GoodFields, TopOfTable DEF sum_head_stake
<1>10. ASSUME StakeOf(Table!Top(TableOf(cs'), cs.max_validators))
                < StakeOf(Table!Top(TableOf(cs), cs.max_validators))
       PROVE  StakeOf(Table!Top(TableOf(cs'), cs.max_validators)) >= Config.min_total_stake
  BY <1>2, <1>3, <1>6, <1>9, <1>10 DEF Updated, LoweredToMinimum
<1> QED
  BY <1>2, <1>4, <1>5, <1>6, <1>7, <1>8, <1>10, SameCardinality, SameStakeOf
     DEF Table!SetStake

LEMMA MaxRefines ==
  ASSUME Good(cs), NEW max \in MaxCounts, UpdateMaxValidators(max)
  PROVE  Good(cs') /\ Table!SetMax(max)
<1>1. max \in Nat \ {0} /\ cs' \in update_max_validators(cs, max)
  BY MaxCountsAssumption DEF UpdateMaxValidators
<1>2. Good(cs')
  BY <1>1, UpdateMaxGood
<1>3. /\ cs'.max_validators = max
      /\ cs'.candidates = cs.candidates
      /\ FlagExact(cs, cs')
  BY <1>1, UpdateMaxEffect
<1>4. TableOf(cs') = TableOf(cs)
  BY <1>3 DEF TableOf, CandidateStake
<1> QED
  BY <1>2, <1>3, <1>4, FlagRefines DEF Table!SetMax

LEMMA ClearRefines ==
  ASSUME Good(cs), ClearChangedFlag
  PROVE  Good(cs') /\ Table!ClearFlag
<1>1. cs' = clear_changed_flag(cs)
  BY DEF ClearChangedFlag
<1>2. Good(cs')
  BY <1>1, ClearGood
<1>3. /\ cs'.max_validators = cs.max_validators
      /\ cs'.candidates = cs.candidates
      /\ cs'.changed = FALSE
  BY <1>1, GoodFields DEF clear_changed_flag
<1>4. TableOf(cs') = TableOf(cs)
  BY <1>3 DEF TableOf, CandidateStake
<1> QED
  BY <1>2, <1>3, <1>4 DEF Table!ClearFlag

(* The list that the code edits in place with binary_search, insert,       *)
(* remove and rotate is a table from keys to stakes: a step sets the stake *)
(* of one key within the configured minimums, or the size of the next      *)
(* epoch, and raises `changed` exactly when the next epoch would have      *)
(* other validators or other stakes.  So no epoch change is missed and     *)
(* none is announced in vain.                                              *)
THEOREM CandidatesImplementTable == Spec => ImplementsTable
<1> DEFINE IInv == Good(cs)
<1>1. Init => IInv /\ Table!TableInit
  BY InitRefines
<1>2. IInv /\ [Next]_cs => IInv' /\ [Table!TableNext]_(Table!tableVars)
  <2>1. SUFFICES ASSUME Good(cs), [Next]_cs
                 PROVE  Good(cs') /\ [Table!TableNext]_(Table!tableVars)
    OBVIOUS
  <2>2. ASSUME NEW pk \in PubKey, NEW stake \in StakeValues \cup {0},
               UpdateCandidate(pk, stake)
        PROVE  Good(cs') /\ Table!TableNext
    BY <2>1, <2>2, UpdateRefines DEF Table!TableNext
  <2>3. ASSUME NEW max \in MaxCounts, UpdateMaxValidators(max)
        PROVE  Good(cs') /\ Table!TableNext
    BY <2>1, <2>3, MaxRefines DEF Table!TableNext
  <2>4. CASE ClearChangedFlag
    BY <2>1, <2>4, ClearRefines DEF Table!TableNext
  <2>5. CASE UNCHANGED cs
    <3>1. TableOf(cs') = TableOf(cs)
      BY <2>5
    <3> QED
      BY <2>1, <2>5, <3>1 DEF Table!tableVars
  <2> QED
    BY <2>1, <2>2, <2>3, <2>4, <2>5 DEF Next
<1> HIDE DEF IInv
<1> QED
  BY <1>1, <1>2, PTL DEF Spec, ImplementsTable, Table!TableSpec
=============================================================================
