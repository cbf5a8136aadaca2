-------------------------- MODULE GuestClientProofs -------------------------
(***************************************************************************)
(* The light client is right about the chain for any chain, any relayers   *)
(* and any faulty keys short of a quorum, and keeps its store in order     *)
(* even with a faulty quorum.                                              *)
(***************************************************************************)
EXTENDS GuestClient, StakeProofs

-----------------------------------------------------------------------------
(* The store of consensus states.                                          *)

\* Finitely many heights, within the limit.
IsStore(s) ==
    /\ DOMAIN s \subseteq Nat \ {0}
    /\ IsFiniteSet(DOMAIN s)
    /\ Cardinality(DOMAIN s) <= MaxClientStates

\* The height is stored and no height above it is.
IsTop(s, top) == top \in DOMAIN s /\ \A h \in DOMAIN s : h <= top

LEMMA LowestHeight ==
  ASSUME NEW s, IsStore(s), DOMAIN s # {}
  PROVE  Min(DOMAIN s) \in DOMAIN s /\ \A h \in DOMAIN s : Min(DOMAIN s) <= h
<1>1. \E m \in DOMAIN s : \A h \in DOMAIN s : m <= h
  BY LeastNatural DEF IsStore
<1> QED
  BY <1>1 DEF Min

LEMMA DropFacts ==
  ASSUME NEW s, IsStore(s), NEW h \in DOMAIN s
  PROVE  /\ DOMAIN Drop(s, h) = DOMAIN s \ {h}
         /\ \A k \in DOMAIN s \ {h} : Drop(s, h)[k] = s[k]
         /\ IsStore(Drop(s, h))
         /\ Cardinality(DOMAIN Drop(s, h)) < MaxClientStates
<1>1. /\ DOMAIN Drop(s, h) = DOMAIN s \ {h}
      /\ \A k \in DOMAIN s \ {h} : Drop(s, h)[k] = s[k]
  BY DEF Drop, Restrict
<1>2. /\ IsFiniteSet(DOMAIN s \ {h})
      /\ Cardinality(DOMAIN s \ {h}) = Cardinality(DOMAIN s) - 1
  BY FS_RemoveElement DEF IsStore
<1>3. Cardinality(DOMAIN s) \in Nat
  BY FS_CardinalityType DEF IsStore
<1> QED
  BY <1>1, <1>2, <1>3, MaxClientStatesAssumption DEF IsStore

LEMMA PutFacts ==
  ASSUME NEW s, IsStore(s), NEW h \in Nat \ {0}, h \notin DOMAIN s, NEW state,
         Cardinality(DOMAIN s) < MaxClientStates
  PROVE  /\ DOMAIN Put(s, h, state) = DOMAIN s \cup {h}
         /\ Put(s, h, state)[h] = state
         /\ \A k \in DOMAIN s : Put(s, h, state)[k] = s[k]
         /\ IsStore(Put(s, h, state))
<1>1. /\ DOMAIN Put(s, h, state) = DOMAIN s \cup {h}
      /\ Put(s, h, state)[h] = state
      /\ \A k \in DOMAIN s : Put(s, h, state)[k] = s[k]
  BY DEF Put
<1>2. /\ IsFiniteSet(DOMAIN s \cup {h})
      /\ Cardinality(DOMAIN s \cup {h}) = Cardinality(DOMAIN s) + 1
  BY FS_AddElement DEF IsStore
<1>3. Cardinality(DOMAIN s) \in Nat
  BY FS_CardinalityType DEF IsStore
<1> QED
  BY <1>1, <1>2, <1>3, MaxClientStatesAssumption DEF IsStore

(* A store of one state holds its top only, so what is evicted from a full *)
(* store is not the top.                                                   *)
LEMMA LowestOfFull ==
  ASSUME NEW s, IsStore(s), NEW top, IsTop(s, top),
         ~(Cardinality(DOMAIN s) < MaxClientStates)
  PROVE  Min(DOMAIN s) # top
<1>1. SUFFICES ASSUME Min(DOMAIN s) = top PROVE FALSE
  OBVIOUS
<1>2. \A h \in DOMAIN s : top <= h /\ h <= top
  BY <1>1, LowestHeight DEF IsTop
<1>3. DOMAIN s = {top}
  BY <1>2 DEF IsTop, IsStore
<1>4. Cardinality(DOMAIN s) = 1
  BY <1>3, FS_Singleton
<1> QED
  BY <1>4, GuestClientAssumption

(* What storing a state does: it is there, the top is still there, and the *)
(* other states are as they were.                                          *)
LEMMA InsertFacts ==
  ASSUME NEW s, IsStore(s), NEW top, IsTop(s, top), NEW h \in Nat \ {0},
         h \notin DOMAIN s, NEW state
  PROVE  LET n == insert_consensus_state(s, h, state)
         IN  /\ IsStore(n)
             /\ {top, h} \subseteq DOMAIN n
             /\ DOMAIN n \subseteq DOMAIN s \cup {h}
             /\ n[h] = state
             /\ \A k \in DOMAIN n \ {h} : n[k] = s[k]
<1> DEFINE n == insert_consensus_state(s, h, state)
           m == Min(DOMAIN s)
<1>1. CASE Cardinality(DOMAIN s) < MaxClientStates
  <2>1. n = Put(s, h, state)
    BY <1>1 DEF insert_consensus_state
  <2>2. /\ DOMAIN n = DOMAIN s \cup {h}
        /\ n[h] = state
        /\ \A k \in DOMAIN s : n[k] = s[k]
        /\ IsStore(n)
    BY <1>1, <2>1, PutFacts
  <2> HIDE DEF n
  <2>3. {top, h} \subseteq DOMAIN n
    BY <2>2 DEF IsTop
  <2> QED
    BY <2>2, <2>3 DEF n
<1>2. CASE ~(Cardinality(DOMAIN s) < MaxClientStates)
  <2> DEFINE d == Drop(s, m)
  <2>1. n = Put(d, h, state)
    BY <1>2 DEF insert_consensus_state
  <2>2. m \in DOMAIN s /\ m # top
    BY <1>2, LowestHeight, LowestOfFull DEF IsTop
  <2>3. /\ DOMAIN d = DOMAIN s \ {m}
        /\ \A k \in DOMAIN s \ {m} : d[k] = s[k]
        /\ IsStore(d)
        /\ Cardinality(DOMAIN d) < MaxClientStates
    <3> HIDE DEF m
    <3> QED
      BY <2>2, DropFacts
  <2> HIDE DEF d, m
  <2>4. /\ DOMAIN n = DOMAIN d \cup {h}
        /\ n[h] = state
        /\ \A k \in DOMAIN d : n[k] = d[k]
        /\ IsStore(n)
    <3>1. h \notin DOMAIN d
      BY <2>3
    <3>2. /\ DOMAIN Put(d, h, state) = DOMAIN d \cup {h}
          /\ Put(d, h, state)[h] = state
          /\ \A k \in DOMAIN d : Put(d, h, state)[k] = d[k]
          /\ IsStore(Put(d, h, state))
      BY <2>3, <3>1, PutFacts
    <3> HIDE DEF n
    <3> QED
      BY <2>1, <3>2
  <2> HIDE DEF n
  <2>5. {top, h} \subseteq DOMAIN n /\ DOMAIN n \subseteq DOMAIN s \cup {h}
    BY <2>2, <2>3, <2>4 DEF IsTop
  <2>6. \A k \in DOMAIN n \ {h} : n[k] = s[k]
    BY <2>3, <2>4
  <2> QED
    BY <2>4, <2>5, <2>6 DEF n
<1> QED
  BY <1>1, <1>2

(* Pruning takes no state but an expired one.                              *)
LEMMA PruneFacts ==
  ASSUME NEW s, IsStore(s), NEW top, IsTop(s, top), NEW time,
         ~consensus_has_expired(s[top], time)
  PROVE  LET p == prune_oldest_consensus_state(s, time)
         IN  /\ IsStore(p)
             /\ IsTop(p, top)
             /\ DOMAIN p \subseteq DOMAIN s
             /\ \A k \in DOMAIN p : p[k] = s[k]
<1> DEFINE p == prune_oldest_consensus_state(s, time)
           m == Min(DOMAIN s)
<1>1. CASE p = s
  BY <1>1
<1>2. CASE p # s
  <2>1. p = Drop(s, m) /\ consensus_has_expired(s[m], time)
    BY <1>2 DEF prune_oldest_consensus_state
  <2>2. m \in DOMAIN s /\ m # top
    BY <2>1, LowestHeight DEF IsTop
  <2> HIDE DEF m
  <2>3. /\ DOMAIN Drop(s, m) = DOMAIN s \ {m}
        /\ \A k \in DOMAIN s \ {m} : Drop(s, m)[k] = s[k]
        /\ IsStore(Drop(s, m))
    BY <2>2, DropFacts
  <2> HIDE DEF p
  <2>4. /\ DOMAIN p = DOMAIN s \ {m}
        /\ \A k \in DOMAIN s \ {m} : p[k] = s[k]
        /\ IsStore(p)
    BY <2>1, <2>3
  <2>5. IsTop(p, top)
    BY <2>2, <2>4 DEF IsTop
  <2> QED
    BY <2>4, <2>5 DEF p
<1> QED
  BY <1>1, <1>2

-----------------------------------------------------------------------------
(* The chain that is followed.                                             *)

LEMMA BlocksAreBlocks ==
  ASSUME log \in Logs, NEW b \in Blocks
  PROVE  IsBlock(b)
<1>1. CASE b \in Forged
  BY <1>1, GuestClientAssumption
<1>2. CASE b \notin Forged
  <2>1. PICK i \in 1 .. Len(log) : b = log[i].block
    BY <1>2 DEF Blocks
  <2>2. ValidLog(log)
    BY GuestClientAssumption
  <2>3. /\ log[i].block.block_height = i
        /\ log[i].block.timestamp_ns \in Nat
        /\ EpochAfter(log[i]) \in Epochs
        /\ Len(log) \in Nat
    BY <2>2 DEF ValidLog, IsLog
  <2>4. b.next_epoch_commitment \in Epochs \cup {None}
    BY <2>1, <2>3 DEF EpochAfter
  <2> QED
    BY <2>1, <2>3, <2>4 DEF IsBlock
<1> QED
  BY <1>1, <1>2

(* Consecutive blocks are in the order of time, so all are.                *)
LEMMA LaterBlocks ==
  ASSUME NEW l, ValidLog(l), NEW i \in 1 .. Len(l), NEW j \in 1 .. Len(l), i < j
  PROVE  l[i].block.timestamp_ns < l[j].block.timestamp_ns
<1> DEFINE ts(k) == l[k].block.timestamp_ns
           n     == Len(l) - i
           S     == {k \in 0 .. n : k > 0 => ts(i) < ts(i + k)}
<1>1. Len(l) \in Nat /\ n \in Nat
  BY DEF ValidLog, IsLog
<1>2. 0 \in S
  BY <1>1
<1>3. ASSUME NEW k \in 0 .. n - 1, k \in S PROVE k + 1 \in S
  <2>1. i + k \in 1 .. Len(l) /\ i + k + 1 \in 1 .. Len(l) /\ i + k + 1 > 1
    BY <1>1
  <2>2. ts(i + k + 1) > ts((i + k + 1) - 1) /\ ts(i + k + 1) \in Nat
    BY <2>1 DEF ValidLog, IsLog
  <2>3. (i + k + 1) - 1 = i + k /\ i + (k + 1) = i + k + 1
    BY <1>1
  <2>4. ts(i) \in Nat /\ ts(i + k) \in Nat
    BY <2>1 DEF ValidLog, IsLog
  <2>5. ts(i + k) < ts(i + (k + 1))
    <3> HIDE DEF ts
    <3> QED
      BY <2>2, <2>3, <2>4
  <2>6. ts(i) < ts(i + (k + 1))
    <3>1. CASE k = 0
      <4>1. i + k = i
        BY <3>1
      <4> QED
        BY <2>5, <4>1
    <3>2. CASE k > 0
      <4>1. ts(i) < ts(i + k)
        BY <1>3, <3>2
      <4>2. ts(i + (k + 1)) \in Nat
        BY <2>2, <2>3
      <4> HIDE DEF ts
      <4> QED
        BY <2>4, <2>5, <4>1, <4>2
    <3> QED
      BY <3>1, <3>2
  <2>7. k + 1 \in 0 .. n
    BY <1>1
  <2> QED
    BY <2>6, <2>7
<1> HIDE DEF S
<1>4. 0 .. n \subseteq S
  BY <1>1, <1>2, <1>3, IntervalInduction
<1>5. j - i \in 0 .. n /\ j - i > 0 /\ i + (j - i) = j
  BY <1>1
<1>6. ts(i) < ts(i + (j - i))
  BY <1>4, <1>5 DEF S
<1> QED
  BY <1>5, <1>6

-----------------------------------------------------------------------------
(* Verification.                                                           *)

LEMMA KeyedAreValidators ==
  ASSUME NEW e \in Epochs, NEW K
  PROVE  ValidatorSet(WithKeys(e.validators, K)) /\ e.quorum_stake \in Nat
<1>1. ValidatorSet(e.validators) /\ e.quorum_stake \in Nat
  BY GuestClientAssumption DEF IsEpoch, ValidatorSet
<1> QED
  BY <1>1, SubsetIsValidatorSet DEF WithKeys

(* Faulty keys alone are not enough: one of the signatures that make up    *)
(* the quorum is by the owner of another key.                              *)
LEMMA HonestSigner ==
  ASSUME Honest, NEW m, m.epoch \in Epochs, ReachesQuorum(m)
  PROVE  \E key : key \notin faulty /\ Verifies(key, m)
<1>1. PICK n \in 1 .. Len(m.signatures) :
        /\ GoodSignatures(m, n)
        /\ StakeOf(WithKeys(m.epoch.validators, {m.signatures[i] : i \in 1 .. n}))
             >= m.epoch.quorum_stake
  BY DEF ReachesQuorum
<1> DEFINE V == m.epoch.validators
           K == {m.signatures[i] : i \in 1 .. n}
<1>2. StakeOf(WithKeys(V, faulty)) < m.epoch.quorum_stake
  BY DEF Honest
<1>3. /\ ValidatorSet(WithKeys(V, K)) /\ ValidatorSet(WithKeys(V, faulty))
      /\ m.epoch.quorum_stake \in Nat
  BY KeyedAreValidators
<1>4. StakeOf(WithKeys(V, K)) \in Nat /\ StakeOf(WithKeys(V, faulty)) \in Nat
  BY <1>3, StakeOfType
<1>5. ~(WithKeys(V, K) \subseteq WithKeys(V, faulty))
  BY <1>1, <1>2, <1>3, <1>4, StakeOfMonotone
<1>6. PICK key \in K : key \notin faulty
  BY <1>5 DEF WithKeys
<1>7. Verifies(key, m)
  BY <1>1, <1>6 DEF GoodSignatures
<1> QED
  BY <1>6, <1>7

(* A block that the client verifies is a block of the chain.               *)
LEMMA VerifiedIsOnChain ==
  ASSUME Honest, NEW m \in Messages, verify_header(client, m)
  PROVE  \E i \in 1 .. Len(log) : m.block_header = log[i].block
<1>1. m.epoch \in Epochs /\ ReachesQuorum(m)
  BY DEF Messages, verify_header
<1>2. PICK key : key \notin faulty /\ Verifies(key, m)
  BY <1>1, HonestSigner
<1> QED
  BY <1>2 DEF Verifies

-----------------------------------------------------------------------------
(* The order of the states.                                                *)

\* The timestamps of the states increase with their heights.
Ordered(s) ==
    \A h, k \in DOMAIN s : h < k => s[h].timestamp_ns < s[k].timestamp_ns

\* The block is in order with every state, and equal to the one at its height.
Fits(s, b) ==
    \A k \in DOMAIN s :
        /\ k < b.block_height => s[k].timestamp_ns < b.timestamp_ns
        /\ k > b.block_height => b.timestamp_ns < s[k].timestamp_ns
        /\ k = b.block_height => s[k] = ConsensusStateOf(b)

LEMMA HighestBelow ==
  ASSUME NEW s, IsStore(s), NEW h \in Nat, NEW k \in DOMAIN s, k < h
  PROVE  \E p \in DOMAIN s : /\ p < h /\ k <= p
                             /\ \A j \in {i \in DOMAIN s : i < h} : j <= p
<1> DEFINE T == {h - j : j \in {i \in DOMAIN s : i < h}}
<1>1. T \subseteq Nat /\ T # {}
  BY DEF IsStore
<1> HIDE DEF T
<1>2. PICK d \in T : \A n \in T : d <= n
  BY <1>1, LeastNatural
<1>3. PICK p \in DOMAIN s : p < h /\ d = h - p
  BY <1>2 DEF T
<1>4. \A j \in {i \in DOMAIN s : i < h} : h - p <= h - j
  BY <1>2, <1>3 DEF T
<1>5. \A j \in {i \in DOMAIN s : i < h} : j <= p
  BY <1>4 DEF IsStore
<1> QED
  BY <1>3, <1>5

LEMMA LowestAbove ==
  ASSUME NEW s, IsStore(s), NEW h \in Nat, NEW k \in DOMAIN s, k > h
  PROVE  \E n \in DOMAIN s : /\ n > h /\ n <= k
                             /\ \A j \in {i \in DOMAIN s : i > h} : j >= n
<1> DEFINE T == {i \in DOMAIN s : i > h}
<1>1. T \subseteq Nat /\ k \in T
  BY DEF IsStore
<1>2. PICK n \in T : \A j \in T : n <= j
  BY <1>1, LeastNatural
<1>3. \A j \in T : j >= n
  BY <1>1, <1>2
<1> QED
  BY <1>1, <1>2, <1>3

(* Comparing a block with its two neighbours is as good as comparing it    *)
(* with every state.                                                       *)
LEMMA NeighboursSuffice ==
  ASSUME NEW s, IsStore(s), Ordered(s), \A k \in DOMAIN s : s[k].timestamp_ns \in Nat,
         NEW b, IsBlock(b), ~check_for_misbehaviour_in_header(s, b)
  PROVE  Fits(s, b)
<1> DEFINE h == b.block_height
<1>1. h \in Nat /\ b.timestamp_ns \in Nat /\ DOMAIN s \subseteq Nat
  BY DEF IsBlock, IsStore
<1>2. CASE h \in DOMAIN s
  <2>1. s[h] = ConsensusStateOf(b)
    BY <1>2 DEF check_for_misbehaviour_in_header
  <2>2. s[h].timestamp_ns = b.timestamp_ns
    BY <2>1 DEF ConsensusStateOf
  <2> QED
    BY <1>1, <1>2, <2>1, <2>2 DEF Fits, Ordered
<1>3. CASE h \notin DOMAIN s
  <2>1. /\ \A x \in PrevStates(s, h) : ~(b.timestamp_ns <= x.timestamp_ns)
        /\ \A x \in NextStates(s, h) : ~(b.timestamp_ns >= x.timestamp_ns)
    BY <1>3 DEF check_for_misbehaviour_in_header
  <2>2. ASSUME NEW k \in DOMAIN s, k < h PROVE s[k].timestamp_ns < b.timestamp_ns
    <3>1. PICK p \in DOMAIN s : /\ p < h /\ k <= p
                                /\ \A j \in {i \in DOMAIN s : i < h} : j <= p
      BY <1>1, <2>2, HighestBelow
    <3>2. s[p] \in PrevStates(s, h)
      BY <3>1 DEF PrevStates
    <3>3. s[p].timestamp_ns < b.timestamp_ns
      BY <1>1, <2>1, <3>2
    <3>4. k = p \/ s[k].timestamp_ns < s[p].timestamp_ns
      BY <1>1, <3>1 DEF Ordered
    <3> QED
      BY <1>1, <3>3, <3>4
  <2>3. ASSUME NEW k \in DOMAIN s, k > h PROVE b.timestamp_ns < s[k].timestamp_ns
    <3>1. PICK n \in DOMAIN s : /\ n > h /\ n <= k
                                /\ \A j \in {i \in DOMAIN s : i > h} : j >= n
      BY <1>1, <2>3, LowestAbove
    <3>2. s[n] \in NextStates(s, h)
      BY <3>1 DEF NextStates
    <3>3. b.timestamp_ns < s[n].timestamp_ns
      BY <1>1, <2>1, <3>2
    <3>4. k = n \/ s[n].timestamp_ns < s[k].timestamp_ns
      BY <1>1, <3>1 DEF Ordered
    <3> QED
      BY <1>1, <3>3, <3>4
  <2> QED
    BY <1>3, <2>2, <2>3 DEF Fits
<1> QED
  BY <1>2, <1>3

(* A store whose states are those of an ordered store, but for the one of  *)
(* a block that fits, is ordered.                                          *)
LEMMA OrderedStays ==
  ASSUME NEW s, DOMAIN s \subseteq Nat, Ordered(s), NEW b, IsBlock(b), Fits(s, b),
         NEW n, DOMAIN n \subseteq DOMAIN s \cup {b.block_height},
         b.block_height \in DOMAIN n => n[b.block_height] = ConsensusStateOf(b),
         \A k \in DOMAIN n \ {b.block_height} : n[k] = s[k]
  PROVE  /\ Ordered(n)
         /\ \A k \in DOMAIN n \cap DOMAIN s : n[k] = s[k]
<1>1. \A k \in DOMAIN n \cap DOMAIN s : n[k] = s[k]
  BY DEF Fits
<1>2. SUFFICES ASSUME NEW i \in DOMAIN n, NEW k \in DOMAIN n, i < k
               PROVE  n[i].timestamp_ns < n[k].timestamp_ns
  BY <1>1 DEF Ordered
<1>3. CASE i # b.block_height /\ k # b.block_height
  BY <1>2, <1>3 DEF Ordered
<1>4. CASE i = b.block_height
  <2>1. k \in DOMAIN s /\ k # b.block_height /\ k > b.block_height
    BY <1>2, <1>4 DEF IsBlock
  <2>2. n[i].timestamp_ns = b.timestamp_ns
    BY <1>4 DEF ConsensusStateOf
  <2> QED
    BY <2>1, <2>2 DEF Fits
<1>5. CASE k = b.block_height
  <2>1. i \in DOMAIN s /\ i # b.block_height /\ i < b.block_height
    BY <1>2, <1>5 DEF IsBlock
  <2>2. n[k].timestamp_ns = b.timestamp_ns
    BY <1>5 DEF ConsensusStateOf
  <2> QED
    BY <2>1, <2>2 DEF Fits
<1> QED
  BY <1>3, <1>4, <1>5

-----------------------------------------------------------------------------
(* The inductive invariant.                                                *)

IsClient(c) ==
    /\ c = [genesis_hash          |-> ChainGenesis,
            latest_height         |-> c.latest_height,
            epoch_commitment      |-> c.epoch_commitment,
            prev_epoch_commitment |-> c.prev_epoch_commitment,
            is_frozen             |-> c.is_frozen]
    /\ c.latest_height \in Nat \ {0}
    /\ c.epoch_commitment \in Epochs
    /\ c.prev_epoch_commitment \in Epochs

\* Every state is that of a block, and the latest one is the highest.
StoreInv ==
    /\ IsStore(consensus_states)
    /\ IsTop(consensus_states, client.latest_height)
    /\ Ordered(consensus_states)
    /\ \A h \in DOMAIN consensus_states :
         \E b \in Blocks : consensus_states[h] = ConsensusStateOf(b)

\* The client knows the epoch of the block after its latest one.
KnowsEpoch ==
    ~AnyEpoch /\ Honest =>
        EpochAfter(log[client.latest_height])
          \in {client.epoch_commitment, client.prev_epoch_commitment}

CInv ==
    /\ log \in Logs
    /\ now \in 0 .. MaxTime
    /\ IsClient(client)
    /\ client.is_frozen \in BOOLEAN
    /\ StoreInv
    /\ TrustsOnlyChain
    /\ NeverAccused
    /\ KnowsEpoch

LEMMA ReplaceHeight ==
  ASSUME NEW c, IsClient(c), NEW h, NEW y, y = [c EXCEPT !.latest_height = h]
  PROVE  y = [genesis_hash          |-> ChainGenesis,
              latest_height         |-> h,
              epoch_commitment      |-> c.epoch_commitment,
              prev_epoch_commitment |-> c.prev_epoch_commitment,
              is_frozen             |-> c.is_frozen]
  BY DEF IsClient

LEMMA ReplaceEpoch ==
  ASSUME NEW c, IsClient(c), NEW h, NEW e, NEW p, NEW y,
         y = [c EXCEPT !.latest_height = h, !.prev_epoch_commitment = p,
                       !.epoch_commitment = e]
  PROVE  y = [genesis_hash          |-> ChainGenesis,
              latest_height         |-> h,
              epoch_commitment      |-> e,
              prev_epoch_commitment |-> p,
              is_frozen             |-> c.is_frozen]
<1> DEFINE z == [genesis_hash          |-> ChainGenesis,
                 latest_height         |-> h,
                 epoch_commitment      |-> e,
                 prev_epoch_commitment |-> p,
                 is_frozen             |-> c.is_frozen]
<1>1. DOMAIN c = {"genesis_hash", "latest_height", "epoch_commitment",
                  "prev_epoch_commitment", "is_frozen"}
  BY DEF IsClient
<1>2. DOMAIN y = DOMAIN c /\ DOMAIN z = DOMAIN c
  BY <1>1
<1>3. /\ y.genesis_hash = z.genesis_hash /\ y.latest_height = z.latest_height
      /\ y.epoch_commitment = z.epoch_commitment
      /\ y.prev_epoch_commitment = z.prev_epoch_commitment
      /\ y.is_frozen = z.is_frozen
  <2>1. y.latest_height = h
    BY <1>1
  <2>2. y.epoch_commitment = e
    BY <1>1
  <2>3. y.prev_epoch_commitment = p
    BY <1>1
  <2>4. y.genesis_hash = c.genesis_hash
    BY <1>1
  <2>5. y.is_frozen = c.is_frozen
    BY <1>1
  <2>6. c.genesis_hash = ChainGenesis
    BY DEF IsClient
  <2> QED
    BY <2>1, <2>2, <2>3, <2>4, <2>5, <2>6
<1>4. y = [f \in DOMAIN y |-> y[f]] /\ z = [f \in DOMAIN z |-> z[f]]
  OBVIOUS
<1> HIDE DEF z
<1>5. y = z
  BY <1>1, <1>2, <1>3, <1>4
<1> QED
  BY <1>5 DEF z

LEMMA ReplaceFrozen ==
  ASSUME NEW c, IsClient(c), NEW f, NEW y, y = [c EXCEPT !.is_frozen = f]
  PROVE  y = [genesis_hash          |-> ChainGenesis,
              latest_height         |-> c.latest_height,
              epoch_commitment      |-> c.epoch_commitment,
              prev_epoch_commitment |-> c.prev_epoch_commitment,
              is_frozen             |-> f]
  BY DEF IsClient

LEMMA WithHeaderFacts ==
  ASSUME NEW c, IsClient(c), NEW b, IsBlock(b)
  PROVE  /\ IsClient(with_header(c, b))
         /\ with_header(c, b).is_frozen = c.is_frozen
         /\ with_header(c, b).latest_height =
              IF b.block_height <= c.latest_height THEN c.latest_height ELSE b.block_height
<1> DEFINE w == with_header(c, b)
<1>1. CASE b.block_height <= c.latest_height
  BY <1>1 DEF with_header
<1>2. CASE ~(b.block_height <= c.latest_height) /\ b.next_epoch_commitment = None
  <2>1. w = [genesis_hash          |-> ChainGenesis,
             latest_height         |-> b.block_height,
             epoch_commitment      |-> c.epoch_commitment,
             prev_epoch_commitment |-> c.prev_epoch_commitment,
             is_frozen             |-> c.is_frozen]
    BY <1>2, ReplaceHeight DEF with_header
  <2> QED
    BY <1>2, <2>1 DEF IsClient, IsBlock
<1>3. CASE ~(b.block_height <= c.latest_height) /\ b.next_epoch_commitment # None
  <2>1. w = [genesis_hash          |-> ChainGenesis,
             latest_height         |-> b.block_height,
             epoch_commitment      |-> b.next_epoch_commitment,
             prev_epoch_commitment |-> c.epoch_commitment,
             is_frozen             |-> c.is_frozen]
    <3> DEFINE h == b.block_height
               e == b.next_epoch_commitment
               p == c.epoch_commitment
    <3>1. w = [c EXCEPT !.latest_height = h, !.prev_epoch_commitment = p,
                        !.epoch_commitment = e]
      BY <1>3 DEF with_header
    <3> HIDE DEF w, h, e, p
    <3>2. w = [genesis_hash          |-> ChainGenesis,
               latest_height         |-> h,
               epoch_commitment      |-> e,
               prev_epoch_commitment |-> p,
               is_frozen             |-> c.is_frozen]
      BY <3>1, ReplaceEpoch
    <3> QED
      BY <3>2 DEF h, e, p
  <2> QED
    BY <1>3, <2>1 DEF IsClient, IsBlock
<1> QED
  BY <1>1, <1>2, <1>3

LEMMA WithHeaderCommitments ==
  ASSUME NEW c, IsClient(c), NEW b, IsBlock(b), ~(b.block_height <= c.latest_height)
  PROVE  IF b.next_epoch_commitment = None
         THEN /\ with_header(c, b).epoch_commitment = c.epoch_commitment
              /\ with_header(c, b).prev_epoch_commitment = c.prev_epoch_commitment
         ELSE with_header(c, b).epoch_commitment = b.next_epoch_commitment
<1> DEFINE w == with_header(c, b)
<1>1. CASE b.next_epoch_commitment = None
  <2>1. w = [c EXCEPT !.latest_height = b.block_height]
    BY <1>1 DEF with_header
  <2> QED
    BY <1>1, <2>1 DEF IsClient
<1>2. CASE b.next_epoch_commitment # None
  <2>1. w = [c EXCEPT !.latest_height         = b.block_height,
                      !.prev_epoch_commitment = c.epoch_commitment,
                      !.epoch_commitment      = b.next_epoch_commitment]
    BY <1>2 DEF with_header
  <2> QED
    BY <1>2, <2>1 DEF IsClient
<1> QED
  BY <1>1, <1>2

LEMMA FrozenFacts ==
  ASSUME NEW c, IsClient(c)
  PROVE  /\ IsClient(frozen(c))
         /\ frozen(c).is_frozen = TRUE
         /\ frozen(c).latest_height = c.latest_height
         /\ frozen(c).epoch_commitment = c.epoch_commitment
         /\ frozen(c).prev_epoch_commitment = c.prev_epoch_commitment
<1>1. frozen(c) = [genesis_hash          |-> ChainGenesis,
                   latest_height         |-> c.latest_height,
                   epoch_commitment      |-> c.epoch_commitment,
                   prev_epoch_commitment |-> c.prev_epoch_commitment,
                   is_frozen             |-> TRUE]
  BY ReplaceFrozen DEF frozen
<1> QED
  BY <1>1 DEF IsClient

LEMMA InitCInv == Init => CInv
<1>1. SUFFICES ASSUME Init PROVE CInv
  OBVIOUS
<1> DEFINE P(l, h, prev) ==
             /\ log = l
             /\ client = [genesis_hash          |-> ChainGenesis,
                          latest_height         |-> h,
                          epoch_commitment      |-> EpochAfter(l[h]),
                          prev_epoch_commitment |-> prev,
                          is_frozen             |-> FALSE]
             /\ consensus_states = [k \in {h} |-> ConsensusStateOf(l[h].block)]
             /\ now = 0
<1>p. PICK l \in Logs : \E h \in 1 .. Len(l) : \E prev \in {EpochAfter(l[h]), l[h].epoch} :
        P(l, h, prev)
  BY <1>1 DEF Init
<1>q. PICK h \in 1 .. Len(l) : \E prev \in {EpochAfter(l[h]), l[h].epoch} : P(l, h, prev)
  BY <1>p
<1>2. PICK prev \in {EpochAfter(l[h]), l[h].epoch} : P(l, h, prev)
  BY <1>q
<1>3. ValidLog(l)
  BY GuestClientAssumption
<1>4. h \in Nat \ {0} /\ {l[h].epoch, EpochAfter(l[h])} \subseteq Epochs /\ Len(l) \in Nat
  BY <1>3 DEF ValidLog, IsLog
<1>5. IsClient(client) /\ client.is_frozen = FALSE /\ client.latest_height = h
  BY <1>2, <1>4 DEF IsClient
<1>6. DOMAIN consensus_states = {h} /\ consensus_states[h] = ConsensusStateOf(l[h].block)
  BY <1>2
<1>7. StoreInv
  <2>1. IsStore(consensus_states)
    <3>1. IsFiniteSet({h}) /\ Cardinality({h}) = 1
      BY FS_Singleton
    <3> QED
      BY <1>4, <1>6, <3>1, MaxClientStatesAssumption DEF IsStore
  <2>2. IsTop(consensus_states, h)
    BY <1>4, <1>6 DEF IsTop
  <2>3. Ordered(consensus_states)
    BY <1>4, <1>6 DEF Ordered
  <2>4. l[h].block \in Blocks
    BY <1>2 DEF Blocks
  <2> QED
    BY <1>5, <1>6, <2>1, <2>2, <2>3, <2>4 DEF StoreInv
<1>8. TrustsOnlyChain
  BY <1>2, <1>4, <1>6 DEF TrustsOnlyChain
<1>9. NeverAccused
  BY <1>5 DEF NeverAccused
<1>10. KnowsEpoch
  BY <1>2, <1>5 DEF KnowsEpoch
<1>11. now \in 0 .. MaxTime
  BY <1>2, GuestClientAssumption
<1> QED
  BY <1>2, <1>5, <1>7, <1>8, <1>9, <1>10, <1>11 DEF CInv

(* A step that leaves the chain, the client and its store alone.           *)
LEMMA KeepsCInv ==
  ASSUME CInv, UNCHANGED <<log, faulty, client, consensus_states>>, now' \in 0 .. MaxTime
  PROVE  CInv'
<1>1. Blocks' = Blocks
  BY DEF Blocks
<1>2. Honest' = Honest
  BY DEF Honest
<1>3. StoreInv'
  BY <1>1 DEF CInv, StoreInv
<1>4. TrustsOnlyChain' /\ NeverAccused'
  BY <1>2 DEF CInv, TrustsOnlyChain, NeverAccused
<1>5. KnowsEpoch'
  BY <1>2 DEF CInv, KnowsEpoch
<1> QED
  BY <1>3, <1>4, <1>5 DEF CInv

-----------------------------------------------------------------------------
(* The steps.                                                              *)

\* What a step may never do (NeverRewritten).
Kept ==
    /\ \A h \in DOMAIN consensus_states \cap DOMAIN consensus_states' :
         consensus_states'[h] = consensus_states[h]
    /\ client'.latest_height >= client.latest_height
    /\ client.is_frozen => UNCHANGED <<client, consensus_states>>

LEMMA ActiveFacts ==
  ASSUME CInv, status(client, consensus_states, now) = "Active"
  PROVE  /\ ~client.is_frozen
         /\ ~consensus_has_expired(consensus_states[client.latest_height], now)
  BY DEF status

LEMMA StatesAreTyped ==
  ASSUME CInv, NEW h \in DOMAIN consensus_states
  PROVE  IsConsensusState(consensus_states[h])
<1>1. PICK b \in Blocks : consensus_states[h] = ConsensusStateOf(b)
  BY DEF CInv, StoreInv
<1>2. b.timestamp_ns \in Nat
  BY BlocksAreBlocks DEF CInv, IsBlock
<1> QED
  BY <1>1, <1>2 DEF IsConsensusState, ConsensusStateOf

(* The chain's own blocks never look like misbehaviour.                    *)
LEMMA ChainFits ==
  ASSUME CInv, Honest, NEW i \in 1 .. Len(log)
  PROVE  ~check_for_misbehaviour_in_header(consensus_states, log[i].block)
<1> DEFINE b == log[i].block
           s == consensus_states
<1>1. ValidLog(log) /\ Len(log) \in Nat
  BY GuestClientAssumption DEF CInv, ValidLog, IsLog
<1>2. b.block_height = i /\ b.timestamp_ns \in Nat
  BY <1>1 DEF ValidLog, IsLog
<1>3. \A h \in DOMAIN s : h \in Nat \ {0} /\ h <= Len(log) /\ s[h] = ConsensusStateOf(log[h].block)
  <2>1. \A h \in DOMAIN s : h <= Len(log) /\ s[h] = ConsensusStateOf(log[h].block)
    BY DEF CInv, TrustsOnlyChain
  <2>2. DOMAIN s \subseteq Nat \ {0}
    BY DEF CInv, StoreInv, IsStore
  <2> QED
    BY <2>1, <2>2
<1>4. CASE i \in DOMAIN s
  BY <1>2, <1>3, <1>4 DEF check_for_misbehaviour_in_header
<1>5. CASE i \notin DOMAIN s
  <2>1. ASSUME NEW x \in PrevStates(s, i) PROVE ~(b.timestamp_ns <= x.timestamp_ns)
    <3>1. PICK k \in DOMAIN s : k < i /\ x = s[k]
      BY <2>1 DEF PrevStates
    <3>2. x.timestamp_ns = log[k].block.timestamp_ns
      BY <1>3, <3>1 DEF ConsensusStateOf
    <3>3. k \in 1 .. Len(log)
      BY <1>1, <1>3
    <3>4. log[k].block.timestamp_ns < b.timestamp_ns /\ log[k].block.timestamp_ns \in Nat
      BY <1>1, <3>1, <3>3, LaterBlocks DEF ValidLog, IsLog
    <3> QED
      BY <1>2, <3>2, <3>4
  <2>2. ASSUME NEW x \in NextStates(s, i) PROVE ~(b.timestamp_ns >= x.timestamp_ns)
    <3>1. PICK k \in DOMAIN s : k > i /\ x = s[k]
      BY <2>2 DEF NextStates
    <3>2. x.timestamp_ns = log[k].block.timestamp_ns
      BY <1>3, <3>1 DEF ConsensusStateOf
    <3>3. k \in 1 .. Len(log) /\ i < k
      BY <1>1, <1>3, <3>1
    <3>4. b.timestamp_ns < log[k].block.timestamp_ns /\ log[k].block.timestamp_ns \in Nat
      BY <1>1, <3>1, <3>3, LaterBlocks DEF ValidLog, IsLog
    <3> QED
      BY <1>2, <3>2, <3>4
  <2> QED
    BY <1>2, <1>5, <2>1, <2>2 DEF check_for_misbehaviour_in_header
<1> QED
  BY <1>4, <1>5

LEMMA ChainAgrees ==
  ASSUME CInv, NEW i \in 1 .. Len(log), NEW j \in 1 .. Len(log)
  PROVE  ~check_for_misbehaviour_in_misbehavior(log[i].block, log[j].block)
<1>1. ValidLog(log) /\ Len(log) \in Nat
  BY GuestClientAssumption DEF CInv, ValidLog, IsLog
<1>2. log[i].block.block_height = i /\ log[j].block.block_height = j
  BY <1>1 DEF ValidLog, IsLog
<1>3. /\ log[i].block.timestamp_ns \in Nat /\ log[j].block.timestamp_ns \in Nat
  BY <1>1 DEF ValidLog, IsLog
<1>4. CASE i = j
  BY <1>2, <1>4 DEF check_for_misbehaviour_in_misbehavior
<1>5. CASE i < j
  BY <1>1, <1>2, <1>5, LaterBlocks DEF check_for_misbehaviour_in_misbehavior
<1>6. CASE i > j
  <2>1. log[j].block.timestamp_ns < log[i].block.timestamp_ns
    BY <1>1, <1>6, LaterBlocks
  <2> QED
    BY <1>2, <1>3, <1>6, <2>1 DEF check_for_misbehaviour_in_misbehavior
<1> QED
  BY <1>1, <1>4, <1>5, <1>6

(* Freezing: an honest chain gives no reason for it.                       *)
LEMMA FreezeCInv ==
  ASSUME CInv, ~client.is_frozen, ~Honest, client' = frozen(client),
         UNCHANGED <<log, faulty, consensus_states, now>>
  PROVE  CInv' /\ Kept
<1>1. /\ IsClient(client') /\ client'.is_frozen = TRUE
      /\ client'.latest_height = client.latest_height
  BY FrozenFacts DEF CInv
<1>2. Blocks' = Blocks
  BY DEF Blocks
<1>3. Honest' = Honest
  BY DEF Honest
<1>4. StoreInv'
  BY <1>1, <1>2 DEF CInv, StoreInv
<1>5. TrustsOnlyChain' /\ NeverAccused' /\ KnowsEpoch'
  BY <1>3 DEF TrustsOnlyChain, NeverAccused, KnowsEpoch
<1>6. IsClient(client)' /\ (client.is_frozen \in BOOLEAN)'
  BY <1>1 DEF IsClient
<1>7. client'.latest_height >= client.latest_height
  BY <1>1 DEF CInv, IsClient
<1>8. Kept
  BY <1>7 DEF Kept
<1> QED
  BY <1>4, <1>5, <1>6, <1>8 DEF CInv

(* What an update does to the store, whatever it prunes and evicts.        *)
LEMMA UpdateStore ==
  ASSUME CInv, NEW b \in Blocks, Fits(consensus_states, b),
         status(client, consensus_states, now) = "Active",
         do_update_state(b), client' \in {client, with_header(client, b)}
  PROVE  /\ IsStore(consensus_states')
         /\ IsTop(consensus_states', client'.latest_height)
         /\ Ordered(consensus_states')
         /\ \A k \in DOMAIN consensus_states' \ {b.block_height} :
              k \in DOMAIN consensus_states /\ consensus_states'[k] = consensus_states[k]
         /\ b.block_height \in DOMAIN consensus_states' =>
              consensus_states'[b.block_height] = ConsensusStateOf(b)
         /\ \A k \in DOMAIN consensus_states \cap DOMAIN consensus_states' :
              consensus_states'[k] = consensus_states[k]
         /\ client' # client => /\ client' = with_header(client, b)
                                /\ b.block_height \in DOMAIN consensus_states'
<1> DEFINE h   == b.block_height
           top == client.latest_height
           s   == consensus_states
           p   == prune_oldest_consensus_state(s, now)
           n   == consensus_states'
<1>1. IsStore(s) /\ IsTop(s, top) /\ Ordered(s) /\ DOMAIN s \subseteq Nat
  BY DEF CInv, StoreInv, IsStore
<1>2. IsBlock(b) /\ h \in Nat \ {0} /\ IsClient(client) /\ top \in Nat
  BY BlocksAreBlocks DEF CInv, IsBlock, IsClient
<1>3. ~consensus_has_expired(s[top], now)
  BY ActiveFacts
<1>4. /\ IsStore(p) /\ IsTop(p, top) /\ DOMAIN p \subseteq DOMAIN s
      /\ \A k \in DOMAIN p : p[k] = s[k]
  BY <1>1, <1>3, PruneFacts
<1>5. IF h \in DOMAIN p
      THEN client' = client /\ n = p
      ELSE /\ client' = with_header(client, b)
           /\ n = insert_consensus_state(p, h, ConsensusStateOf(b))
  BY DEF do_update_state
<1> HIDE DEF p, n
<1>6. CASE h \in DOMAIN p
  <2>1. client' = client /\ n = p
    BY <1>5, <1>6
  <2>2. n[h] = ConsensusStateOf(b)
    BY <1>4, <1>6, <2>1 DEF Fits
  <2>3. DOMAIN n \subseteq DOMAIN s \cup {h} /\ \A k \in DOMAIN n \ {h} : n[k] = s[k]
    BY <1>4, <2>1
  <2>4. Ordered(n) /\ \A k \in DOMAIN n \cap DOMAIN s : n[k] = s[k]
    BY <1>1, <1>2, <2>2, <2>3, OrderedStays
  <2>5. IsStore(n) /\ IsTop(n, client'.latest_height) /\ DOMAIN n \subseteq DOMAIN s
    BY <1>4, <2>1
  <2> QED
    BY <2>1, <2>2, <2>3, <2>4, <2>5 DEF n
<1>7. CASE h \notin DOMAIN p
  <2>1. client' = with_header(client, b)
    BY <1>5, <1>7
  <2>2. /\ IsStore(n) /\ {top, h} \subseteq DOMAIN n /\ DOMAIN n \subseteq DOMAIN p \cup {h}
        /\ n[h] = ConsensusStateOf(b)
        /\ \A k \in DOMAIN n \ {h} : n[k] = p[k]
    <3> DEFINE i == insert_consensus_state(p, h, ConsensusStateOf(b))
    <3>1. /\ IsStore(i) /\ {top, h} \subseteq DOMAIN i /\ DOMAIN i \subseteq DOMAIN p \cup {h}
          /\ i[h] = ConsensusStateOf(b)
          /\ \A k \in DOMAIN i \ {h} : i[k] = p[k]
      BY <1>2, <1>4, <1>7, InsertFacts
    <3>2. n = i
      BY <1>5, <1>7
    <3> HIDE DEF i
    <3> QED
      BY <3>1, <3>2
  <2>3. DOMAIN n \subseteq DOMAIN s \cup {h} /\ \A k \in DOMAIN n \ {h} : n[k] = s[k]
    BY <1>4, <2>2
  <2>4. Ordered(n) /\ \A k \in DOMAIN n \cap DOMAIN s : n[k] = s[k]
    BY <1>1, <1>2, <2>2, <2>3, OrderedStays
  <2>5. client'.latest_height = IF h <= top THEN top ELSE h
    BY <1>2, <2>1, WithHeaderFacts
  <2>6. IsTop(n, client'.latest_height)
    <3>1. client'.latest_height \in DOMAIN n
      BY <2>2, <2>5
    <3>2. \A k \in DOMAIN n : k = h \/ k <= top
      BY <1>4, <2>2 DEF IsTop
    <3>3. DOMAIN n \subseteq Nat
      BY <2>2 DEF IsStore
    <3>4. \A k \in DOMAIN n : k <= client'.latest_height
      BY <1>2, <2>5, <3>2, <3>3
    <3> QED
      BY <3>1, <3>4 DEF IsTop
  <2>7. \A k \in DOMAIN n \ {h} : k \in DOMAIN s
    BY <2>3
  <2> QED
    BY <2>1, <2>2, <2>3, <2>4, <2>6, <2>7 DEF n
<1> QED
  BY <1>6, <1>7

LEMMA AcceptCInv ==
  ASSUME CInv, NEW m \in Messages, UpdateClient(m),
         ~check_for_misbehaviour_in_header(consensus_states, m.block_header)
  PROVE  CInv' /\ Kept
<1> DEFINE b == m.block_header
           h == b.block_height
           s == consensus_states
           n == consensus_states'
<1>1. /\ do_update_state(b) /\ verify_header(client, m)
      /\ status(client, s, now) = "Active"
      /\ UNCHANGED <<log, faulty, now>>
  BY DEF UpdateClient
<1>2. b \in Blocks /\ IsBlock(b)
  BY BlocksAreBlocks DEF CInv, Messages
<1>3. Fits(s, b)
  <2>1. \A k \in DOMAIN s : s[k].timestamp_ns \in Nat
    BY StatesAreTyped DEF IsConsensusState
  <2> QED
    BY <1>2, <2>1, NeighboursSuffice DEF CInv, StoreInv
<1>4. client' \in {client, with_header(client, b)}
  BY <1>1 DEF do_update_state
<1>5. /\ IsStore(n) /\ IsTop(n, client'.latest_height) /\ Ordered(n)
      /\ \A k \in DOMAIN n \ {h} : k \in DOMAIN s /\ n[k] = s[k]
      /\ h \in DOMAIN n => n[h] = ConsensusStateOf(b)
      /\ \A k \in DOMAIN s \cap DOMAIN n : n[k] = s[k]
      /\ client' # client => client' = with_header(client, b) /\ h \in DOMAIN n
  BY <1>1, <1>2, <1>3, <1>4, UpdateStore
<1> HIDE DEF n
<1>6. Blocks' = Blocks
  BY <1>1 DEF Blocks
<1>7. Honest' = Honest
  BY <1>1 DEF Honest
<1>8. ~client.is_frozen
  BY <1>1, ActiveFacts
<1>9. IsClient(client) /\ client.latest_height \in Nat /\ h \in Nat
  BY <1>2 DEF CInv, IsClient, IsBlock
<1>10. /\ IsClient(client') /\ client'.is_frozen = client.is_frozen
       /\ client'.latest_height = IF client' = client \/ h <= client.latest_height
                                  THEN client.latest_height ELSE h
  <2>1. CASE client' = client
    BY <1>9, <2>1
  <2>2. CASE client' # client
    <3>1. client' = with_header(client, b)
      BY <1>5, <2>2
    <3> QED
      BY <1>2, <1>9, <2>2, <3>1, WithHeaderFacts
  <2> QED
    BY <2>1, <2>2
<1>11. StoreInv'
  <2>1. ASSUME NEW k \in DOMAIN n PROVE \E c \in Blocks : n[k] = ConsensusStateOf(c)
    <3>1. CASE k = h
      BY <1>2, <1>5, <3>1
    <3>2. CASE k # h
      BY <1>5, <3>2 DEF CInv, StoreInv
    <3> QED
      BY <3>1, <3>2
  <2> QED
    BY <1>5, <1>6, <2>1 DEF StoreInv, n
<1>12. ASSUME Honest PROVE h \in 1 .. Len(log) /\ b = log[h].block /\ h <= Len(log)
  <2>1. PICK i \in 1 .. Len(log) : b = log[i].block
    BY <1>1, <1>12, VerifiedIsOnChain
  <2>2. ValidLog(log)
    BY GuestClientAssumption DEF CInv
  <2>3. h = i /\ Len(log) \in Nat
    BY <2>1, <2>2 DEF ValidLog, IsLog
  <2> QED
    BY <2>1, <2>3
<1>13. TrustsOnlyChain'
  <2>1. ASSUME Honest, NEW k \in DOMAIN n
        PROVE  k <= Len(log) /\ n[k] = ConsensusStateOf(log[k].block)
    <3>1. CASE k = h
      BY <1>5, <1>12, <2>1, <3>1
    <3>2. CASE k # h
      BY <1>5, <2>1, <3>2 DEF CInv, TrustsOnlyChain
    <3> QED
      BY <3>1, <3>2
  <2> QED
    BY <1>1, <1>7, <2>1 DEF TrustsOnlyChain, n
<1>14. NeverAccused'
  BY <1>7, <1>8, <1>10 DEF NeverAccused
<1>15. KnowsEpoch'
  <2>1. SUFFICES ASSUME ~AnyEpoch, Honest
                 PROVE  EpochAfter(log[client'.latest_height])
                          \in {client'.epoch_commitment, client'.prev_epoch_commitment}
    BY <1>1, <1>7 DEF KnowsEpoch
  <2>2. EpochAfter(log[client.latest_height])
          \in {client.epoch_commitment, client.prev_epoch_commitment}
    BY <2>1 DEF CInv, KnowsEpoch
  <2>3. CASE client' = client
    BY <2>2, <2>3
  <2>4. CASE client' # client /\ h <= client.latest_height
    <3>1. client' = client
      BY <1>5, <2>4 DEF with_header
    <3> QED
      BY <2>4, <3>1
  <2>5. CASE client' # client /\ ~(h <= client.latest_height)
    <3>1. client'.latest_height = h /\ client' = with_header(client, b)
      BY <1>5, <1>10, <2>5
    <3>2. b = log[h].block /\ h \in 1 .. Len(log)
      BY <1>12, <2>1
    <3>3. m.epoch = log[h].epoch
      <4>1. ValidLog(log)
        BY GuestClientAssumption DEF CInv
      <4>2. b \notin Forged /\ \A j \in 1 .. Len(log) : log[j].block = b => j = h
        BY <3>2, <4>1 DEF ValidLog, IsLog
      <4>3. m.epoch \in EpochsFor(b)
        BY DEF Messages
      <4> HIDE DEF b, h
      <4>4. m.epoch \in {log[i].epoch : i \in {j \in 1 .. Len(log) : log[j].block = b}}
        BY <2>1, <4>2, <4>3 DEF EpochsFor
      <4>5. PICK j \in 1 .. Len(log) : log[j].block = b /\ m.epoch = log[j].epoch
        BY <4>4
      <4> QED
        BY <4>2, <4>5
    <3>4. m.epoch \in {client.epoch_commitment, client.prev_epoch_commitment}
      BY <1>1 DEF verify_header
    <3>5. IF b.next_epoch_commitment = None
          THEN /\ client'.epoch_commitment = client.epoch_commitment
               /\ client'.prev_epoch_commitment = client.prev_epoch_commitment
          ELSE client'.epoch_commitment = b.next_epoch_commitment
      BY <1>2, <1>9, <2>5, <3>1, WithHeaderCommitments
    <3>6. EpochAfter(log[h]) = IF b.next_epoch_commitment # None
                               THEN b.next_epoch_commitment ELSE m.epoch
      BY <3>2, <3>3 DEF EpochAfter
    <3> QED
      BY <3>1, <3>4, <3>5, <3>6
  <2> QED
    BY <2>3, <2>4, <2>5
<1>16. Kept
  <2>1. client'.latest_height >= client.latest_height
    BY <1>9, <1>10
  <2> QED
    BY <1>5, <1>8, <2>1 DEF Kept, n
<1>17. IsClient(client)' /\ (client.is_frozen \in BOOLEAN)'
  BY <1>8, <1>10 DEF IsClient, CInv
<1> QED
  BY <1>1, <1>11, <1>13, <1>14, <1>15, <1>16, <1>17 DEF CInv

LEMMA NextCInv ==
  ASSUME CInv, [Next]_vars
  PROVE  CInv' /\ [Kept]_vars
<1>1. CASE UNCHANGED vars
  BY <1>1, KeepsCInv DEF vars, CInv
<1>2. CASE Tick
  <2>1. now' \in 0 .. MaxTime /\ UNCHANGED <<log, faulty, client, consensus_states>>
    BY <1>2, GuestClientAssumption DEF Tick, CInv
  <2>2. client.latest_height \in Nat
    BY DEF CInv, IsClient
  <2>3. Kept
    BY <2>1, <2>2 DEF Kept
  <2> QED
    BY <2>1, <2>3, KeepsCInv
<1>3. ASSUME NEW m \in Messages, UpdateClient(m) PROVE CInv' /\ Kept
  <2>1. CASE ~check_for_misbehaviour_in_header(consensus_states, m.block_header)
    BY <1>3, <2>1, AcceptCInv
  <2>2. CASE check_for_misbehaviour_in_header(consensus_states, m.block_header)
    <3>1. /\ status(client, consensus_states, now) = "Active" /\ verify_header(client, m)
          /\ client' = frozen(client) /\ UNCHANGED <<log, faulty, consensus_states, now>>
      BY <1>3, <2>2 DEF UpdateClient
    <3>2. ~Honest
      BY <2>2, <3>1, VerifiedIsOnChain, ChainFits
    <3> QED
      BY <3>1, <3>2, ActiveFacts, FreezeCInv
  <2> QED
    BY <2>1, <2>2
<1>4. ASSUME NEW m1 \in Verified, NEW m2 \in Verified, SubmitMisbehaviour(m1, m2)
      PROVE  CInv' /\ Kept
  <2>1. /\ status(client, consensus_states, now) = "Active"
        /\ check_for_misbehaviour_in_misbehavior(m1.block_header, m2.block_header)
        /\ client' = frozen(client) /\ UNCHANGED <<log, faulty, consensus_states, now>>
    BY <1>4 DEF SubmitMisbehaviour
  <2>2. ~Honest
    <3>1. SUFFICES ASSUME Honest PROVE FALSE
      OBVIOUS
    <3>2. PICK i \in 1 .. Len(log) : m1.block_header = log[i].block
      BY <3>1, VerifiedIsOnChain DEF Verified
    <3>3. PICK j \in 1 .. Len(log) : m2.block_header = log[j].block
      BY <3>1, VerifiedIsOnChain DEF Verified
    <3> QED
      BY <2>1, <3>2, <3>3, ChainAgrees
  <2> QED
    BY <2>1, <2>2, ActiveFacts, FreezeCInv
<1> QED
  BY <1>1, <1>2, <1>3, <1>4 DEF Next

LEMMA SpecCInv == Spec => []CInv
<1>1. CInv /\ [Next]_vars => CInv'
  BY NextCInv
<1> QED
  BY <1>1, InitCInv, PTL DEF Spec

-----------------------------------------------------------------------------
(* The theorems.                                                           *)

(* However late, often or out of order blocks arrive, and with a faulty    *)
(* quorum too: the store keeps the state of latest_height, from which      *)
(* status and prune_oldest_consensus_state decide, within its limit, and   *)
(* in the order of time, although check_for_misbehaviour_in_header only    *)
(* compares a block with its neighbours of the moment.                     *)
THEOREM ClientStoreIsSound == Spec => []StoreIsSound
<1>1. ASSUME CInv PROVE StoreIsSound
  <2>1. TypeOK
    <3>1. /\ IsFiniteSet(DOMAIN consensus_states)
          /\ Cardinality(DOMAIN consensus_states) <= MaxClientStates
          /\ DOMAIN consensus_states \subseteq Nat
      BY <1>1 DEF CInv, StoreInv, IsStore
    <3>2. Cardinality(DOMAIN consensus_states) \in 0 .. MaxClientStates
      BY <3>1, FS_CardinalityType, MaxClientStatesAssumption
    <3>3. \A h \in DOMAIN consensus_states :
            h \in Nat /\ IsConsensusState(consensus_states[h])
      BY <1>1, <3>1, StatesAreTyped
    <3> QED
      BY <1>1, <3>2, <3>3 DEF TypeOK, CInv, IsClient
  <2>2. LatestIsStored
    BY <1>1 DEF LatestIsStored, CInv, StoreInv, IsTop
  <2>3. TimesIncrease
    BY <1>1 DEF TimesIncrease, CInv, StoreInv, Ordered
  <2> QED
    BY <2>1, <2>2, <2>3 DEF StoreIsSound
<1> QED
  BY <1>1, SpecCInv, PTL

(* Unless some epoch has a faulty quorum, do_update_state only ever stores *)
(* the states of the chain that is followed.                               *)
THEOREM ClientTrustsOnlyChain == Spec => []TrustsOnlyChain
<1>1. CInv => TrustsOnlyChain
  BY DEF CInv
<1> QED
  BY <1>1, SpecCInv, PTL

(* Neither update_state_on_misbehaviour nor a header freezes the client of *)
(* an honest chain: check_for_misbehaviour has no false alarm.             *)
THEOREM ClientNeverAccuses == Spec => []NeverAccused
<1>1. CInv => NeverAccused
  BY DEF CInv
<1> QED
  BY <1>1, SpecCInv, PTL

(* do_update_state never replaces a state that is held, with_header never  *)
(* lowers the height, and nothing happens to a frozen client.              *)
THEOREM ClientNeverRewrites == Spec => NeverRewritten
<1>1. CInv /\ [Next]_vars => [Kept]_vars
  BY NextCInv
<1>2. Spec => [][Kept]_vars
  BY <1>1, SpecCInv, PTL DEF Spec
<1> QED
  BY <1>2 DEF NeverRewritten, Kept

(* When headers come with the epochs of their blocks, the client, which    *)
(* keeps two commitments only, can always verify the block after its       *)
(* latest one, whatever blocks it has skipped.                             *)
THEOREM ClientKnowsNextEpoch == Spec => [](~AnyEpoch /\ Honest => NextBlockVerifiable)
<1>1. ASSUME CInv PROVE ~AnyEpoch /\ Honest => NextBlockVerifiable
  <2>1. SUFFICES ASSUME ~AnyEpoch, Honest, client.latest_height < Len(log)
                 PROVE  log[client.latest_height + 1].epoch
                          \in {client.epoch_commitment, client.prev_epoch_commitment}
    BY DEF NextBlockVerifiable
  <2>2. ValidLog(log) /\ client.latest_height \in Nat \ {0} /\ Len(log) \in Nat
    BY <1>1, GuestClientAssumption DEF CInv, IsClient, ValidLog, IsLog
  <2>3. log[client.latest_height + 1].epoch = EpochAfter(log[client.latest_height])
    <3> DEFINE i == client.latest_height + 1
    <3>1. i \in 1 .. Len(log) /\ i > 1 /\ i - 1 = client.latest_height
      BY <2>1, <2>2
    <3>2. log[i].epoch = EpochAfter(log[i - 1])
      BY <2>2, <3>1 DEF ValidLog, IsLog
    <3> QED
      BY <3>1, <3>2
  <2> QED
    BY <1>1, <2>1, <2>3 DEF CInv, KnowsEpoch
<1> QED
  BY <1>1, SpecCInv, PTL
=============================================================================
