-------------------------- MODULE GuestChainProofs --------------------------
(***************************************************************************)
(* The guest chain is well typed and finalises no block without a quorum   *)
(* of the block's own epoch; its final blocks form one chain, the local    *)
(* consensus states describe its newest blocks, no epoch change is missed, *)
(* and new blocks keep their distance and hold whole slots: for any        *)
(* validators, stakes, configurations and any interleaving of the          *)
(* instructions.                                                           *)
(***************************************************************************)
EXTENDS GuestChain, CandidatesLemmas

-----------------------------------------------------------------------------
(* Well-formed chain values.                                               *)

GoodChain(ch) ==
    /\ IsChain(ch)
    /\ Good(ch.candidates)
    /\ \E S : ch.consensus_states \in Seq(S)

ChainFields(ch) ==
    ch = [last_check_height |-> ch.last_check_height, config |-> ch.config,
          genesis |-> ch.genesis, header |-> ch.header,
          next_epoch |-> ch.next_epoch, pending_block |-> ch.pending_block,
          epoch_height |-> ch.epoch_height, candidates |-> ch.candidates,
          consensus_states |-> ch.consensus_states]

(* The configured limits are numbers and the nonzero ones are positive.    *)
LEMMA ConfigTypes ==
  ASSUME NEW c, IsConfig(c)
  PROVE  /\ c.min_validators \in Nat /\ c.min_validators > 0
         /\ c.max_validators \in Nat /\ c.max_validators > 0
         /\ c.min_quorum_stake \in Nat /\ c.min_quorum_stake > 0
         /\ c.min_epoch_length \in Nat /\ c.min_block_length \in Nat
  BY DEF IsConfig, ConfigFields, NonZeroFields

(* The validators of an epoch have a sum of stakes.                        *)
LEMMA EpochValidators ==
  ASSUME NEW e, ValidEpoch(e)
  PROVE  /\ ValidatorSet(e.validators)
         /\ StakeOf(e.validators) \in Nat
         /\ e.quorum_stake \in Nat /\ e.quorum_stake > 0
<1>1. ValidatorSet(e.validators)
  BY CandidateFields DEF CheckedEpoch, ValidEpoch, ValidatorSet
<1>2. StakeOf(e.validators) \in Nat
  BY <1>1, StakeOfType
<1> QED
  BY <1>1, <1>2 DEF CheckedEpoch, ValidEpoch

(* The quorum chosen for an epoch can be reached.                          *)
LEMMA QuorumInRange ==
  ASSUME NEW total \in Nat \ {0}, NEW cfg, IsConfig(cfg)
  PROVE  QuorumFor(total, cfg) \in 1 .. total
<1>1. cfg.min_quorum_stake \in Nat /\ cfg.min_quorum_stake > 0
  BY ConfigTypes
<1>2. total \div 2 \in Nat
  OBVIOUS
<1> QED
  BY <1>1, <1>2 DEF QuorumFor

(* An epoch made of the top candidates meets the contract of Epoch::new.   *)
LEMMA NextEpochValid ==
  ASSUME NEW ch, GoodChain(ch), NEW host, maybe_generate_next_epoch(ch, host) # None
  PROVE  ValidEpoch(maybe_generate_next_epoch(ch, host))
<1> DEFINE top   == TopValidators(ch.candidates)
           total == StakeOf(top)
           q     == QuorumFor(total, ch.config)
<1>1. maybe_generate_next_epoch(ch, host) = [validators |-> top, quorum_stake |-> q]
      /\ total \in 1 .. U128Max
  BY DEF maybe_generate_next_epoch
<1>2. ValidatorSet(top) /\ top \subseteq Candidate
  <2>1. GoodList(ch.candidates.candidates) /\ ch.candidates.max_validators \in Nat
    BY GoodFields DEF GoodChain
  <2> QED
    BY <2>1, PrefixIsValidatorSet DEF TopValidators
<1> HIDE DEF top
<1>3. total \in Nat \ {0}
  BY <1>1, <1>2, StakeOfType
<1>4. q \in 1 .. total
  <2>1. IsConfig(ch.config)
    BY DEF GoodChain, IsChain
  <2> HIDE DEF total
  <2> QED
    BY <1>3, <2>1, QuorumInRange
<1> HIDE DEF total, q
<1> DEFINE e == [validators |-> top, quorum_stake |-> q]
<1>5. ValidEpoch(e)
  <2>1. e.validators = top /\ e.quorum_stake = q
    OBVIOUS
  <2> HIDE DEF e
  <2>2. e = [validators |-> e.validators, quorum_stake |-> e.quorum_stake]
    BY <2>1 DEF e
  <2>3. e.quorum_stake \in 1 .. StakeOf(e.validators)
    BY <1>4, <2>1 DEF total
  <2> QED
    BY <1>2, <2>1, <2>2, <2>3 DEF CheckedEpoch, ValidEpoch, ValidatorSet
<1> QED
  BY <1>1, <1>5

(* The fields of a well-formed chain.                                      *)
LEMMA ChainParts ==
  ASSUME NEW x, GoodChain(x)
  PROVE  /\ ChainFields(x)
         /\ x.last_check_height \in Nat
         /\ IsConfig(x.config)
         /\ IsHeader(x.header)
         /\ ValidEpoch(x.next_epoch)
         /\ x.pending_block # None => IsPending(x.pending_block)
         /\ x.epoch_height \in Nat
         /\ Good(x.candidates)
         /\ \E S : x.consensus_states \in Seq(S)
         /\ Len(x.consensus_states) \in 0 .. MaxConsensusStates
  BY DEF GoodChain, IsChain, ChainFields

LEMMA ChainFromParts ==
  ASSUME NEW x,
         ChainFields(x),
         x.last_check_height \in Nat,
         IsConfig(x.config),
         IsHeader(x.header),
         ValidEpoch(x.next_epoch),
         x.pending_block # None => IsPending(x.pending_block),
         x.epoch_height \in Nat,
         Good(x.candidates),
         \E S : x.consensus_states \in Seq(S),
         Len(x.consensus_states) \in 0 .. MaxConsensusStates
  PROVE  GoodChain(x)
<1>1. IsCandidates(x.candidates)
  BY DEF Good
<1> QED
  BY <1>1 DEF GoodChain, IsChain, ChainFields

(* The queue of consensus states stays within its bound.                   *)
LEMMA PushBounded ==
  ASSUME NEW S, NEW queue \in Seq(S), Len(queue) \in 0 .. MaxConsensusStates, NEW e
  PROVE  /\ \E T : PushConsensusState(queue, e) \in Seq(T)
         /\ Len(PushConsensusState(queue, e)) \in 0 .. MaxConsensusStates
<1> DEFINE T    == S \cup {e}
           rest == IF Len(queue) = MaxConsensusStates THEN Tail(queue) ELSE queue
<1>1. MaxConsensusStates \in Nat \ {0}
  BY GuestChainAssumption
<1>2. rest \in Seq(S) /\ Len(rest) \in 0 .. MaxConsensusStates - 1
  <2>1. CASE Len(queue) = MaxConsensusStates
    <3>1. queue # <<>>
      BY <1>1, <2>1
    <3> QED
      BY <1>1, <2>1, <3>1
  <2>2. CASE Len(queue) # MaxConsensusStates
    BY <1>1, <2>2
  <2> QED
    BY <2>1, <2>2
<1> HIDE DEF rest
<1>3. rest \in Seq(T)
  BY <1>2
<1>4. Append(rest, e) \in Seq(T) /\ Len(Append(rest, e)) = Len(rest) + 1
  BY <1>3
<1>5. PushConsensusState(queue, e) = Append(rest, e)
  BY DEF PushConsensusState, rest
<1> QED
  BY <1>1, <1>2, <1>4, <1>5

-----------------------------------------------------------------------------
(* Generating a block.                                                     *)

\* The pending block has no signature yet and asks for the right ones.
Unsigned(y) ==
    /\ y.pending_block # None
    /\ y.pending_block.signers = {}
    /\ y.pending_block.signing_stake = 0
    /\ y.pending_block.fingerprint =
         Fingerprint(y.genesis, y.pending_block.next_block.header)

\* What a step other than a signature may do to the blocks of the chain.
KeepsBlocks(x, y) ==
    /\ y.genesis = x.genesis
    /\ y.header = x.header
    /\ y.next_epoch = x.next_epoch
    /\ \/ y.pending_block = x.pending_block
       \/ x.pending_block = None /\ Unsigned(y)

LEMMA KeepsBlocksTransitive ==
  ASSUME NEW x, NEW y, NEW z, KeepsBlocks(x, y), KeepsBlocks(y, z)
  PROVE  KeepsBlocks(x, z)
  BY DEF KeepsBlocks, Unsigned

(* A generated block is well formed.                                       *)
LEMMA NextHeaderGood ==
  ASSUME NEW x, GoodChain(x), NEW host \in Nat, NEW timestamp \in Nat, NEW root
  PROVE  LET epoch  == maybe_generate_next_epoch(x, host)
             header == NextHeader(x.header, host, timestamp, root, epoch)
         IN  IsHeader(header) /\ header.next_epoch_commitment = epoch
<1> DEFINE epoch  == maybe_generate_next_epoch(x, host)
           header == NextHeader(x.header, host, timestamp, root, epoch)
<1>1. epoch # None => ValidEpoch(epoch)
  BY NextEpochValid
<1> HIDE DEF epoch
<1>2. x.header.block_height \in Nat
  BY ChainParts DEF IsHeader
<1>3. /\ header.block_height = x.header.block_height + 1
      /\ header.host_height = host
      /\ header.timestamp_ns = timestamp
      /\ header.next_epoch_commitment = epoch
  BY DEF NextHeader
<1> HIDE DEF header
<1>4. IsHeader(header)
  BY <1>1, <1>2, <1>3 DEF IsHeader
<1> QED
  BY <1>3, <1>4 DEF epoch, header

(* The block that generate_next makes pending.                             *)
PendingFor(x, host, timestamp, root) ==
    LET epoch  == maybe_generate_next_epoch(x, host)
        header == NextHeader(x.header, host, timestamp, root, epoch)
    IN  [next_block    |-> [header |-> header, next_epoch |-> epoch],
         fingerprint   |-> Fingerprint(x.genesis, header),
         signers       |-> {},
         signing_stake |-> 0]

LEMMA PendingForGood ==
  ASSUME NEW x, GoodChain(x), NEW host \in Nat, NEW timestamp \in Nat, NEW root
  PROVE  LET p == PendingFor(x, host, timestamp, root)
         IN  /\ p # None
             /\ IsPending(p)
             /\ p.signers = {}
             /\ p.signing_stake = 0
             /\ p.fingerprint = Fingerprint(x.genesis, p.next_block.header)
<1> DEFINE epoch  == maybe_generate_next_epoch(x, host)
           header == NextHeader(x.header, host, timestamp, root, epoch)
           p      == PendingFor(x, host, timestamp, root)
<1>1. IsHeader(header) /\ header.next_epoch_commitment = epoch
  BY NextHeaderGood
<1>2. p = [next_block |-> [header |-> header, next_epoch |-> epoch],
           fingerprint |-> Fingerprint(x.genesis, header),
           signers |-> {}, signing_stake |-> 0]
  BY DEF PendingFor
<1> HIDE DEF header, epoch, p
<1>3. /\ p.next_block.header = header
      /\ p.next_block.next_epoch = epoch
      /\ p.fingerprint = Fingerprint(x.genesis, header)
      /\ p.signers = {}
      /\ p.signing_stake = 0
      /\ p # None
      /\ p = [next_block |-> p.next_block, fingerprint |-> p.fingerprint,
              signers |-> p.signers, signing_stake |-> p.signing_stake]
  BY <1>2 DEF None
<1>4. IsPending(p)
  BY <1>1, <1>3 DEF IsPending
<1> QED
  BY <1>3, <1>4 DEF p

LEMMA ClearIfTakenGood ==
  ASSUME NEW x, Good(x), NEW e
  PROVE  Good(ClearIfTaken(x, e))
  BY ClearGood DEF ClearIfTaken

LEMMA GenerateNextGood ==
  ASSUME NEW x, GoodChain(x), NEW host \in Nat, NEW timestamp \in Nat, NEW root,
         NEW y \in generate_next(x, host, timestamp, root)
  PROVE  GoodChain(y) /\ KeepsBlocks(x, y) /\ Unsigned(y) /\ x.pending_block = None
<1> DEFINE epoch  == maybe_generate_next_epoch(x, host)
           header == NextHeader(x.header, host, timestamp, root, epoch)
           state  == [height |-> header.block_height, timestamp |-> timestamp,
                      blockhash |-> calc_hash(header)]
           queue  == PushConsensusState(x.consensus_states, state)
           p      == PendingFor(x, host, timestamp, root)
           cs     == ClearIfTaken(x.candidates, epoch)
<1>1. y = [x EXCEPT !.consensus_states = queue, !.pending_block = p, !.candidates = cs]
      /\ validate_generate_next(x, host, timestamp, root)
  BY DEF generate_next, PendingFor
<1>2. x.pending_block = None
  BY <1>1 DEF validate_generate_next
<1>3. ChainFields(x)
  BY ChainParts
<1>4. Good(cs)
  BY ChainParts, ClearIfTakenGood
<1>5. /\ \E T : queue \in Seq(T)
      /\ Len(queue) \in 0 .. MaxConsensusStates
  <2>1. PICK S : x.consensus_states \in Seq(S)
    BY ChainParts
  <2>2. Len(x.consensus_states) \in 0 .. MaxConsensusStates
    BY ChainParts
  <2> HIDE DEF state
  <2> QED
    BY <2>1, <2>2, PushBounded
<1>6. /\ p # None
      /\ IsPending(p)
      /\ p.signers = {}
      /\ p.signing_stake = 0
      /\ p.fingerprint = Fingerprint(x.genesis, p.next_block.header)
  BY PendingForGood
<1> HIDE DEF queue, p, cs
<1>7. y = [last_check_height |-> x.last_check_height, config |-> x.config,
           genesis |-> x.genesis, header |-> x.header,
           next_epoch |-> x.next_epoch, pending_block |-> p,
           epoch_height |-> x.epoch_height, candidates |-> cs,
           consensus_states |-> queue]
  BY <1>1, <1>3 DEF ChainFields
<1>8. ChainFields(y)
  BY <1>7 DEF ChainFields
<1>9. GoodChain(y)
  <2>1. /\ x.last_check_height \in Nat
        /\ IsConfig(x.config)
        /\ IsHeader(x.header)
        /\ ValidEpoch(x.next_epoch)
        /\ x.epoch_height \in Nat
    BY ChainParts
  <2> QED
    BY <2>1, <1>4, <1>5, <1>6, <1>7, <1>8, ChainFromParts
<1>10. KeepsBlocks(x, y) /\ Unsigned(y)
  BY <1>2, <1>6, <1>7 DEF KeepsBlocks, Unsigned
<1> QED
  BY <1>2, <1>9, <1>10

(* Recording the check of the host's height.                               *)
LEMMA CheckedGood ==
  ASSUME NEW x, GoodChain(x), NEW host \in Nat
  PROVE  LET y == [x EXCEPT !.last_check_height = host]
         IN  GoodChain(y) /\ KeepsBlocks(x, y) /\ y.pending_block = x.pending_block
<1> DEFINE y == [x EXCEPT !.last_check_height = host]
<1>1. ChainFields(x)
  BY ChainParts
<1>2. y = [last_check_height |-> host, config |-> x.config,
           genesis |-> x.genesis, header |-> x.header,
           next_epoch |-> x.next_epoch, pending_block |-> x.pending_block,
           epoch_height |-> x.epoch_height, candidates |-> x.candidates,
           consensus_states |-> x.consensus_states]
  BY <1>1 DEF ChainFields
<1> HIDE DEF y
<1>3. ChainFields(y)
  BY <1>2 DEF ChainFields
<1>4. /\ IsConfig(x.config)
      /\ IsHeader(x.header)
      /\ ValidEpoch(x.next_epoch)
      /\ x.pending_block # None => IsPending(x.pending_block)
      /\ x.epoch_height \in Nat
      /\ Good(x.candidates)
      /\ \E S : x.consensus_states \in Seq(S)
      /\ Len(x.consensus_states) \in 0 .. MaxConsensusStates
  BY ChainParts
<1>5. GoodChain(y)
  BY <1>2, <1>3, <1>4, ChainFromParts
<1> QED
  BY <1>2, <1>5 DEF KeepsBlocks, y

LEMMA GenerateBlockGood ==
  ASSUME NEW x, GoodChain(x), host_height \in Nat, host_timestamp \in Nat,
         NEW force, NEW y \in generate_block(x, force)
  PROVE  GoodChain(y) /\ KeepsBlocks(x, y)
<1> DEFINE checked == [x EXCEPT !.last_check_height = host_height]
           result  == generate_next(checked, host_height, host_timestamp, state_root)
<1>1. GoodChain(checked) /\ KeepsBlocks(x, checked)
  BY CheckedGood
<1>2. y = x \/ y = checked \/ y \in result
  BY DEF generate_block
<1> HIDE DEF checked
<1>3. CASE y = x
  BY <1>3 DEF KeepsBlocks
<1>4. CASE y = checked
  BY <1>1, <1>4
<1>5. CASE y \in result
  <2>1. GoodChain(y) /\ KeepsBlocks(checked, y)
    BY <1>1, <1>5, GenerateNextGood
  <2> QED
    BY <1>1, <2>1, KeepsBlocksTransitive
<1> QED
  BY <1>2, <1>3, <1>4, <1>5

-----------------------------------------------------------------------------
(* Changing the candidates and the configuration.                          *)

LEMMA WithCandidatesGood ==
  ASSUME NEW x, GoodChain(x), NEW cs, Good(cs), NEW cfg, IsConfig(cfg),
         NEW y, y = [x EXCEPT !.config = cfg, !.candidates = cs]
  PROVE  GoodChain(y) /\ KeepsBlocks(x, y)
<1>1. ChainFields(x)
  BY ChainParts
<1>2. y = [last_check_height |-> x.last_check_height, config |-> cfg,
           genesis |-> x.genesis, header |-> x.header,
           next_epoch |-> x.next_epoch, pending_block |-> x.pending_block,
           epoch_height |-> x.epoch_height, candidates |-> cs,
           consensus_states |-> x.consensus_states]
  BY <1>1 DEF ChainFields
<1>3. ChainFields(y)
  BY <1>2 DEF ChainFields
<1>4. /\ x.last_check_height \in Nat
      /\ IsHeader(x.header)
      /\ ValidEpoch(x.next_epoch)
      /\ x.pending_block # None => IsPending(x.pending_block)
      /\ x.epoch_height \in Nat
      /\ \E S : x.consensus_states \in Seq(S)
      /\ Len(x.consensus_states) \in 0 .. MaxConsensusStates
  BY ChainParts
<1>5. GoodChain(y)
  BY <1>2, <1>3, <1>4, ChainFromParts
<1> QED
  BY <1>2, <1>5 DEF KeepsBlocks

LEMMA UpdateCandidateGood ==
  ASSUME NEW x, GoodChain(x), NEW pk \in PubKey, NEW stake \in Nat,
         NEW y \in update_candidate(x, pk, stake)
  PROVE  GoodChain(y) /\ KeepsBlocks(x, y)
<1>1. PICK cs \in update(x.candidates, x.config, pk, stake) :
        y = [x EXCEPT !.candidates = cs]
  BY DEF update_candidate
<1>2. Good(x.candidates) /\ IsConfig(x.config) /\ ChainFields(x)
  BY ChainParts
<1>3. Good(cs)
  BY <1>2, UpdateGood
<1>4. y = [x EXCEPT !.config = x.config, !.candidates = cs]
  BY <1>1, <1>2 DEF ChainFields
<1> QED
  BY <1>2, <1>3, <1>4, WithCandidatesGood

LEMMA MergeIsConfig ==
  ASSUME NEW c, IsConfig(c), NEW u \in ConfigUpdates
  PROVE  IsConfig(Merge(c, u))
<1>1. \A f \in DOMAIN u : u[f] \in Nat /\ (f \in NonZeroFields => u[f] > 0)
  BY GuestChainAssumption
<1>2. \A f \in ConfigFields : c[f] \in Nat /\ (f \in NonZeroFields => c[f] > 0)
  BY DEF IsConfig
<1>3. NonZeroFields \subseteq ConfigFields
  BY DEF NonZeroFields, ConfigFields
<1> QED
  BY <1>1, <1>2, <1>3 DEF IsConfig, Merge

LEMMA UpdateConfigGood ==
  ASSUME NEW x, GoodChain(x), NEW u \in ConfigUpdates, NEW y \in update_config(x, u)
  PROVE  GoodChain(y) /\ KeepsBlocks(x, y)
<1> DEFINE new == Merge(x.config, u)
           Sets == IF "max_validators" \in DOMAIN u
                   THEN update_max_validators(x.candidates, u.max_validators)
                   ELSE {x.candidates}
<1>1. IsConfig(new)
  BY ChainParts, MergeIsConfig
<1> HIDE DEF new
<1>2. PICK cs \in Sets : y = [x EXCEPT !.config = new, !.candidates = cs]
  BY DEF update_config, new
<1>3. Good(cs)
  <2>1. Good(x.candidates)
    BY ChainParts
  <2>2. CASE "max_validators" \in DOMAIN u
    <3>1. "max_validators" \in NonZeroFields
      BY DEF NonZeroFields
    <3>2. u["max_validators"] \in Nat \ {0}
      BY <2>2, <3>1, GuestChainAssumption
    <3> QED
      BY <1>2, <2>1, <2>2, <3>2, UpdateMaxGood
  <2>3. CASE "max_validators" \notin DOMAIN u
    BY <1>2, <2>1, <2>3
  <2> QED
    BY <2>2, <2>3
<1> QED
  BY <1>1, <1>2, <1>3, WithCandidatesGood

(* The table of results of update_stake after each of the changes: the     *)
(* recursive definition has a solution.                                    *)
Results(f, x, changes, n) ==
    f = [i \in 0 .. n |->
          IF i = 0 THEN {x}
          ELSE UNION {ChangeStake(s, changes[i][1], changes[i][2]) : s \in f[i - 1]}]

LEMMA ResultsExist ==
  ASSUME NEW x, NEW changes, NEW n \in Nat
  PROVE  \E f : Results(f, x, changes, n)
<1> DEFINE R(f, i) == IF i = 0 THEN {x}
                      ELSE UNION {ChangeStake(s, changes[i][1], changes[i][2]) : s \in f[i - 1]}
           Solved == {k \in 0 .. n : \E f : Results(f, x, changes, k)}
<1>1. 0 \in Solved
  <2>1. Results([i \in 0 .. 0 |-> {x}], x, changes, 0)
    BY DEF Results
  <2> QED
    BY <2>1
<1>2. ASSUME NEW k \in 0 .. n - 1, k \in Solved
      PROVE  k + 1 \in Solved
  <2>1. PICK f : Results(f, x, changes, k)
    BY <1>2
  <2>2. f = [i \in 0 .. k |-> R(f, i)]
    BY <2>1 DEF Results
  <2> DEFINE g == [i \in 0 .. k + 1 |-> IF i <= k THEN f[i] ELSE R(f, i)]
  <2>3. ASSUME NEW i \in 0 .. k + 1 PROVE g[i] = R(g, i)
    <3>1. CASE i = 0
      BY <2>2, <3>1
    <3>2. CASE i # 0
      <4>1. i - 1 \in 0 .. k /\ i - 1 <= k
        BY <3>2
      <4>2. g[i - 1] = f[i - 1]
        BY <4>1
      <4>3. g[i] = R(f, i)
        <5>1. CASE i <= k
          <6>1. i \in 0 .. k
            BY <5>1
          <6>2. f[i] = R(f, i)
            BY <2>2, <6>1
          <6> HIDE DEF R
          <6> QED
            BY <5>1, <6>2
        <5>2. CASE i > k
          <6> HIDE DEF R
          <6> QED
            BY <5>2
        <5> QED
          BY <5>1, <5>2
      <4> HIDE DEF g
      <4> QED
        BY <3>2, <4>2, <4>3
    <3> QED
      BY <3>1, <3>2
  <2>4. g = [i \in 0 .. k + 1 |-> R(g, i)]
    <3>1. g = [i \in 0 .. k + 1 |-> g[i]]
      OBVIOUS
    <3> HIDE DEF g, R
    <3> QED
      BY <2>3, <3>1
  <2>5. Results(g, x, changes, k + 1)
    <3> HIDE DEF g
    <3> QED
      BY <2>4 DEF Results
  <2> QED
    BY <2>5
<1> HIDE DEF Solved
<1>3. 0 .. n \subseteq Solved
  BY <1>1, <1>2, IntervalInduction
<1> QED
  BY <1>3 DEF Solved

LEMMA ChangeStakeGood ==
  ASSUME NEW x, GoodChain(x), NEW pk \in PubKey, NEW delta \in Int,
         NEW y \in ChangeStake(x, pk, delta)
  PROVE  GoodChain(y) /\ KeepsBlocks(x, y)
<1> DEFINE stake == CandidateStake(x.candidates, pk) + delta
<1>1. stake \in 0 .. U128Max /\ y \in update_candidate(x, pk, stake)
  BY DEF ChangeStake
<1>2. stake \in Nat
  BY <1>1, U128MaxAssumption
<1> HIDE DEF stake
<1> QED
  BY <1>1, <1>2, UpdateCandidateGood

\* The intermediate chains of an update_stake that leads from x to y.
Steps(after, x, y, changes) ==
    /\ y \in after[Len(changes)]
    /\ after[0] = {x}
    /\ \A i \in 1 .. Len(changes) : after[i] =
         UNION {ChangeStake(s, changes[i][1], changes[i][2]) : s \in after[i - 1]}

LEMMA UpdateStakeSteps ==
  ASSUME NEW x, NEW changes \in StakeChanges, NEW y \in update_stake(x, changes)
  PROVE  \E after : Steps(after, x, y, changes)
<1> DEFINE n     == Len(changes)
           after == CHOOSE f : Results(f, x, changes, n)
<1>1. changes \in Seq(PubKey \X Int) /\ n \in Nat
  BY GuestChainAssumption
<1>2. y \in after[n]
  BY DEF update_stake, Results
<1>3. Results(after, x, changes, n)
  <2>1. \E f : Results(f, x, changes, n)
    BY <1>1, ResultsExist
  <2> QED
    BY <2>1
<1> HIDE DEF after
<1> DEFINE R(i) == IF i = 0 THEN {x}
                   ELSE UNION {ChangeStake(s, changes[i][1], changes[i][2]) : s \in after[i - 1]}
<1>4. after = [i \in 0 .. n |-> R(i)]
  BY <1>3 DEF Results
<1>5. \A i \in 0 .. n : after[i] = R(i)
  <2> HIDE DEF R
  <2> QED
    BY <1>4
<1>6. after[0] = {x}
  BY <1>1, <1>5, 0 \in 0 .. n
<1>7. ASSUME NEW i \in 1 .. n
      PROVE  after[i] = UNION {ChangeStake(s, changes[i][1], changes[i][2]) : s \in after[i - 1]}
  <2>1. i \in 0 .. n /\ i # 0
    BY <1>1
  <2>2. after[i] = R(i)
    BY <1>5, <2>1
  <2> QED
    BY <2>1, <2>2, Zenon
<1>8. Steps(after, x, y, changes)
  BY <1>2, <1>6, <1>7 DEF Steps
<1> QED
  BY <1>8

LEMMA UpdateStakeGood ==
  ASSUME NEW x, GoodChain(x), NEW changes \in StakeChanges,
         NEW y \in update_stake(x, changes)
  PROVE  GoodChain(y) /\ KeepsBlocks(x, y)
<1> DEFINE n == Len(changes)
<1>1. changes \in Seq(PubKey \X Int) /\ n \in Nat
  BY GuestChainAssumption
<1>2. PICK after : Steps(after, x, y, changes)
  BY UpdateStakeSteps
<1>3. /\ y \in after[n]
      /\ after[0] = {x}
      /\ \A i \in 1 .. n : after[i] =
           UNION {ChangeStake(s, changes[i][1], changes[i][2]) : s \in after[i - 1]}
  BY <1>2 DEF Steps
<1> DEFINE Fine == {i \in 0 .. n : \A s \in after[i] : GoodChain(s) /\ KeepsBlocks(x, s)}
<1>4. 0 \in Fine
  BY <1>1, <1>3 DEF KeepsBlocks
<1>5. ASSUME NEW i \in 0 .. n - 1, i \in Fine PROVE i + 1 \in Fine
  <2>1. i + 1 \in 1 .. n /\ (i + 1) - 1 = i
    BY <1>1
  <2>2. SUFFICES ASSUME NEW s \in after[i + 1] PROVE GoodChain(s) /\ KeepsBlocks(x, s)
    BY <2>1
  <2>3. PICK r \in after[i] : s \in ChangeStake(r, changes[i + 1][1], changes[i + 1][2])
    BY <1>3, <2>1, <2>2
  <2>4. GoodChain(r) /\ KeepsBlocks(x, r)
    BY <1>5
  <2>5. changes[i + 1][1] \in PubKey /\ changes[i + 1][2] \in Int
    BY <1>1, <2>1
  <2>6. GoodChain(s) /\ KeepsBlocks(r, s)
    BY <2>3, <2>4, <2>5, ChangeStakeGood
  <2> QED
    BY <2>4, <2>6, KeepsBlocksTransitive
<1> HIDE DEF Fine
<1>6. 0 .. n \subseteq Fine
  BY <1>1, <1>4, <1>5, IntervalInduction
<1> QED
  BY <1>1, <1>3, <1>6 DEF Fine

-----------------------------------------------------------------------------
(* Signatures.                                                             *)

\* The history variable votes agrees with the pending block, whose running
\* sum is the stake of its signers in the epoch in force.
VotesMatch(x, V) ==
    /\ x.pending_block = None => V = {}
    /\ x.pending_block # None =>
         /\ x.pending_block.fingerprint =
              Fingerprint(x.genesis, x.pending_block.next_block.header)
         /\ V = {<<pk, x.pending_block.fingerprint>> : pk \in x.pending_block.signers}
         /\ x.pending_block.signing_stake =
              StakeOf(WithKeys(x.next_epoch.validators, x.pending_block.signers))

LEMMA VotesOfUnsigned ==
  ASSUME NEW y, Unsigned(y)
  PROVE  VotesMatch(y, {})
<1>1. WithKeys(y.next_epoch.validators, {}) = {}
  BY DEF WithKeys
<1>2. y.pending_block.signers = {} /\ y.pending_block.signing_stake = 0 /\ y.pending_block # None
      /\ y.pending_block.fingerprint =
              Fingerprint(y.genesis, y.pending_block.next_block.header)
  BY DEF Unsigned
<1>3. {<<pk, y.pending_block.fingerprint>> : pk \in {}} = {}
  OBVIOUS
<1> QED
  BY <1>1, <1>2, <1>3, StakeOfEmpty DEF VotesMatch

LEMMA KeepsVotes ==
  ASSUME NEW x, NEW y, NEW V, KeepsBlocks(x, y), VotesMatch(x, V)
  PROVE  VotesMatch(y, V)
<1>1. CASE y.pending_block = x.pending_block
  BY <1>1 DEF KeepsBlocks, VotesMatch
<1>2. CASE x.pending_block = None /\ Unsigned(y)
  <2>1. V = {}
    BY <1>2 DEF VotesMatch
  <2> QED
    BY <1>2, <2>1, VotesOfUnsigned
<1> QED
  BY <1>1, <1>2 DEF KeepsBlocks

(* A new signer adds its stake to the sum.                                 *)
LEMMA StakeOfOneMore ==
  ASSUME NEW V, ValidatorSet(V), NEW K, NEW pk, pk \notin K, HasValidator(V, pk)
  PROVE  /\ ValidatorOf(V, pk) \in V
         /\ StakeOf(WithKeys(V, K \cup {pk})) =
              StakeOf(WithKeys(V, K)) + ValidatorOf(V, pk).stake
<1> DEFINE v == ValidatorOf(V, pk)
<1>1. v \in V /\ v.pubkey = pk
  BY DEF HasValidator, ValidatorOf
<1> HIDE DEF v
<1>2. WithKeys(V, K \cup {pk}) = WithKeys(V, K) \cup {v}
  <2>1. \A w \in V : w.pubkey = pk <=> w = v
    BY <1>1 DEF ValidatorSet, DistinctKeys
  <2> QED
    BY <1>1, <2>1 DEF WithKeys
<1>3. v \notin WithKeys(V, K)
  BY <1>1 DEF WithKeys
<1>4. ValidatorSet(WithKeys(V, K) \cup {v})
  BY <1>1, SubsetIsValidatorSet, WithKeys(V, K) \cup {v} \subseteq V DEF WithKeys
<1>5. StakeOf(WithKeys(V, K) \cup {v}) = StakeOf(WithKeys(V, K)) + v.stake
  BY <1>3, <1>4, StakeOfAdd
<1> QED
  BY <1>1, <1>2, <1>5 DEF v

LEMMA ReplaceSigners ==
  ASSUME NEW p, NEW K, NEW w,
         p = [next_block |-> p.next_block, fingerprint |-> p.fingerprint,
              signers |-> p.signers, signing_stake |-> p.signing_stake]
  PROVE  [p EXCEPT !.signers = K, !.signing_stake = w] =
            [next_block |-> p.next_block, fingerprint |-> p.fingerprint,
             signers |-> K, signing_stake |-> w]
<1>1. ASSUME NEW y, y = [p EXCEPT !.signers = K, !.signing_stake = w]
      PROVE  y = [next_block |-> p.next_block, fingerprint |-> p.fingerprint,
                  signers |-> K, signing_stake |-> w]
  BY <1>1
<1> QED
  BY <1>1, Zenon

LEMMA SignedGood ==
  ASSUME NEW x, GoodChain(x), NEW V, VotesMatch(x, V), NEW pk \in PubKey,
         x.pending_block # None, HasValidator(x.next_epoch.validators, pk),
         got_new_signature(x, pk)
  PROVE  LET y == Signed(x, pk)
             p == x.pending_block
         IN  /\ GoodChain(y)
             /\ y.genesis = x.genesis /\ y.next_epoch = x.next_epoch
             /\ VotesMatch(y, V \cup {<<pk, p.fingerprint>>})
             /\ StakeWith(x, pk) =
                  StakeOf(WithKeys(x.next_epoch.validators, p.signers \cup {pk}))
             /\ y.header = x.header
             /\ y.pending_block # None
             /\ y.pending_block.next_block = p.next_block
             /\ p.signers \subseteq y.pending_block.signers
<1> DEFINE p == x.pending_block
           q == [next_block |-> p.next_block, fingerprint |-> p.fingerprint,
                 signers |-> p.signers \cup {pk}, signing_stake |-> StakeWith(x, pk)]
           y == Signed(x, pk)
           E == x.next_epoch.validators
<1>1. ChainFields(x) /\ IsPending(p) /\ ValidatorSet(E)
  BY ChainParts, EpochValidators
<1>2. /\ p.fingerprint = Fingerprint(x.genesis, p.next_block.header)
      /\ V = {<<k, p.fingerprint>> : k \in p.signers}
      /\ p.signing_stake = StakeOf(WithKeys(E, p.signers))
  BY DEF VotesMatch
<1>3. StakeWith(x, pk) = StakeOf(WithKeys(E, p.signers \cup {pk}))
  <2>1. StakeWith(x, pk) = p.signing_stake + ValidatorOf(E, pk).stake
    BY DEF StakeWith
  <2>2. pk \notin p.signers
    BY DEF got_new_signature
  <2>3. StakeOf(WithKeys(E, p.signers \cup {pk})) =
          StakeOf(WithKeys(E, p.signers)) + ValidatorOf(E, pk).stake
    BY <1>1, <2>2, StakeOfOneMore
  <2> QED
    BY <1>2, <2>1, <2>3
<1>4. StakeWith(x, pk) \in Nat
  <2>1. ValidatorSet(WithKeys(E, p.signers \cup {pk}))
    BY <1>1, SubsetIsValidatorSet, WithKeys(E, p.signers \cup {pk}) \subseteq E DEF WithKeys
  <2> QED
    BY <1>3, <2>1, StakeOfType
<1>5. [p EXCEPT !.signers = p.signers \cup {pk}, !.signing_stake = StakeWith(x, pk)] = q
  <2>1. p = [next_block |-> p.next_block, fingerprint |-> p.fingerprint,
             signers |-> p.signers, signing_stake |-> p.signing_stake]
    BY <1>1 DEF IsPending
  <2> HIDE DEF p
  <2> QED
    BY <2>1, ReplaceSigners
<1>6. y = [x EXCEPT !.pending_block = q]
  BY <1>5 DEF Signed
<1> HIDE DEF y
<1>7. /\ q.next_block = p.next_block
      /\ q.fingerprint = p.fingerprint
      /\ q.signers = p.signers \cup {pk}
      /\ q.signing_stake = StakeWith(x, pk)
      /\ q # None
      /\ q = [next_block |-> q.next_block, fingerprint |-> q.fingerprint,
              signers |-> q.signers, signing_stake |-> q.signing_stake]
  BY DEF None
<1> HIDE DEF q
<1>8. IsPending(q)
  BY <1>1, <1>4, <1>7 DEF IsPending
<1>9. y = [last_check_height |-> x.last_check_height, config |-> x.config,
           genesis |-> x.genesis, header |-> x.header,
           next_epoch |-> x.next_epoch, pending_block |-> q,
           epoch_height |-> x.epoch_height, candidates |-> x.candidates,
           consensus_states |-> x.consensus_states]
  BY <1>1, <1>6 DEF ChainFields
<1>10. GoodChain(y)
  <2>1. ChainFields(y)
    BY <1>9 DEF ChainFields
  <2>2. /\ x.last_check_height \in Nat
        /\ IsConfig(x.config)
        /\ IsHeader(x.header)
        /\ ValidEpoch(x.next_epoch)
        /\ x.epoch_height \in Nat
        /\ Good(x.candidates)
        /\ \E S : x.consensus_states \in Seq(S)
        /\ Len(x.consensus_states) \in 0 .. MaxConsensusStates
    BY ChainParts
  <2> QED
    BY <1>8, <1>9, <2>1, <2>2, ChainFromParts
<1>11. /\ y.genesis = x.genesis /\ y.next_epoch = x.next_epoch
       /\ y.header = x.header /\ y.pending_block = q
  BY <1>9
<1>12. V \cup {<<pk, p.fingerprint>>} = {<<k, p.fingerprint>> : k \in p.signers \cup {pk}}
  BY <1>2
<1>13. VotesMatch(y, V \cup {<<pk, p.fingerprint>>})
  BY <1>2, <1>3, <1>7, <1>11, <1>12 DEF VotesMatch
<1> QED
  BY <1>3, <1>7, <1>10, <1>11, <1>13 DEF y

LEMMA PromoteGood ==
  ASSUME NEW x, GoodChain(x), x.pending_block # None
  PROVE  LET y == Promote(x)
             b == x.pending_block.next_block
         IN  /\ GoodChain(y)
             /\ y.genesis = x.genesis
             /\ y.header = b.header
             /\ y.pending_block = None
             /\ y.next_epoch = IF b.next_epoch # None THEN b.next_epoch ELSE x.next_epoch
<1> DEFINE b     == x.pending_block.next_block
           epoch == IF b.next_epoch # None THEN b.next_epoch ELSE x.next_epoch
           start == IF b.next_epoch # None THEN b.header.host_height ELSE x.epoch_height
           y     == Promote(x)
<1>1. ChainFields(x) /\ IsPending(x.pending_block)
  BY ChainParts
<1>2. IsHeader(b.header) /\ b.next_epoch = b.header.next_epoch_commitment
  BY <1>1 DEF IsPending
<1>3. ValidEpoch(epoch) /\ start \in Nat
  BY <1>2, ChainParts DEF IsHeader
<1>4. y = [x EXCEPT !.pending_block = None, !.header = b.header,
                    !.next_epoch = epoch, !.epoch_height = start]
  BY DEF Promote
<1> HIDE DEF y, epoch, start
<1>5. y = [last_check_height |-> x.last_check_height, config |-> x.config,
           genesis |-> x.genesis, header |-> b.header,
           next_epoch |-> epoch, pending_block |-> None,
           epoch_height |-> start, candidates |-> x.candidates,
           consensus_states |-> x.consensus_states]
  BY <1>1, <1>4 DEF ChainFields
<1>6. GoodChain(y)
  <2>1. ChainFields(y)
    BY <1>5 DEF ChainFields
  <2>2. /\ x.last_check_height \in Nat
        /\ IsConfig(x.config)
        /\ Good(x.candidates)
        /\ \E S : x.consensus_states \in Seq(S)
        /\ Len(x.consensus_states) \in 0 .. MaxConsensusStates
    BY ChainParts
  <2> QED
    BY <1>2, <1>3, <1>5, <2>1, <2>2, ChainFromParts
<1>7. y.genesis = x.genesis /\ y.header = b.header /\ y.pending_block = None
      /\ y.next_epoch = epoch
  BY <1>5
<1> QED
  BY <1>6, <1>7 DEF y, epoch

-----------------------------------------------------------------------------
(* The log of final blocks.                                                *)

\* Block i of the log was signed by a quorum of its epoch.
Quorate(log, genesis, i) ==
    \E d \in 1 .. i - 1 :
        /\ log[d].next_epoch # None
        /\ \A j \in d + 1 .. i - 1 : log[j].next_epoch = None
        /\ StakeOf({v \in log[d].next_epoch.validators :
                      <<v.pubkey, Fingerprint(genesis, log[i].header)>> \in log[i].votes})
              >= log[d].next_epoch.quorum_stake

\* The log's last epoch definition is the epoch e.
InForce(log, e) ==
    \E d \in 1 .. Len(log) :
        /\ log[d].next_epoch = e
        /\ e # None
        /\ \A j \in d + 1 .. Len(log) : log[j].next_epoch = None

LEMMA QuorateAppend ==
  ASSUME NEW S, NEW log \in Seq(S), NEW b, NEW genesis, NEW i \in 1 .. Len(log),
         Quorate(log, genesis, i)
  PROVE  Quorate(Append(log, b), genesis, i)
<1> DEFINE new == Append(log, b)
<1>1. \A j \in 1 .. Len(log) : new[j] = log[j]
  OBVIOUS
<1> HIDE DEF new
<1>2. PICK d \in 1 .. i - 1 :
        /\ log[d].next_epoch # None
        /\ \A j \in d + 1 .. i - 1 : log[j].next_epoch = None
        /\ StakeOf({v \in log[d].next_epoch.validators :
                      <<v.pubkey, Fingerprint(genesis, log[i].header)>> \in log[i].votes})
              >= log[d].next_epoch.quorum_stake
  BY DEF Quorate
<1>3. /\ d \in 1 .. Len(log)
      /\ \A j \in d + 1 .. i - 1 : j \in 1 .. Len(log)
  OBVIOUS
<1>4. new[d] = log[d] /\ new[i] = log[i] /\ \A j \in d + 1 .. i - 1 : new[j] = log[j]
  BY <1>1, <1>3
<1>5. Quorate(new, genesis, i)
  BY <1>2, <1>4 DEF Quorate
<1> QED
  BY <1>5 DEF new

LEMMA QuorateLast ==
  ASSUME NEW S, NEW log \in Seq(S), NEW b, NEW genesis, NEW e, InForce(log, e),
         StakeOf({v \in e.validators :
                    <<v.pubkey, Fingerprint(genesis, b.header)>> \in b.votes})
           >= e.quorum_stake
  PROVE  Quorate(Append(log, b), genesis, Len(log) + 1)
<1> DEFINE new == Append(log, b)
           n   == Len(log)
<1>1. /\ \A j \in 1 .. n : new[j] = log[j]
      /\ new[n + 1] = b
      /\ n \in Nat
  OBVIOUS
<1> HIDE DEF new
<1>2. PICK d \in 1 .. n :
        /\ log[d].next_epoch = e
        /\ e # None
        /\ \A j \in d + 1 .. n : log[j].next_epoch = None
  BY DEF InForce
<1>3. (n + 1) - 1 = n /\ \A j \in d + 1 .. n : j \in 1 .. n
  BY <1>1
<1>4. new[d] = log[d] /\ \A j \in d + 1 .. n : new[j] = log[j]
  BY <1>1, <1>3
<1> HIDE DEF n
<1>5. Quorate(new, genesis, n + 1)
  BY <1>1, <1>2, <1>3, <1>4 DEF Quorate
<1> QED
  BY <1>5 DEF new, n

LEMMA InForceAppend ==
  ASSUME NEW S, NEW log \in Seq(S), NEW b, NEW e, InForce(log, e)
  PROVE  InForce(Append(log, b), IF b.next_epoch # None THEN b.next_epoch ELSE e)
<1> DEFINE new == Append(log, b)
           n   == Len(log)
<1>1. /\ \A j \in 1 .. n : new[j] = log[j]
      /\ new[n + 1] = b
      /\ n \in Nat
      /\ Len(new) = n + 1
  OBVIOUS
<1> HIDE DEF new
<1>2. CASE b.next_epoch # None
  <2>1. n + 1 \in 1 .. Len(new) /\ (n + 1) + 1 .. Len(new) = {}
    BY <1>1
  <2>2. InForce(new, b.next_epoch)
    BY <1>1, <1>2, <2>1 DEF InForce
  <2> QED
    BY <1>2, <2>2 DEF new
<1>3. CASE b.next_epoch = None
  <2>1. PICK d \in 1 .. n :
          /\ log[d].next_epoch = e
          /\ e # None
          /\ \A j \in d + 1 .. n : log[j].next_epoch = None
    BY DEF InForce
  <2>2. d \in 1 .. Len(new) /\ new[d].next_epoch = e
    BY <1>1, <2>1
  <2>3. ASSUME NEW j \in d + 1 .. Len(new) PROVE new[j].next_epoch = None
    <3>1. j = n + 1 \/ j \in d + 1 .. n
      BY <1>1
    <3>2. CASE j = n + 1
      BY <1>1, <1>3, <3>2
    <3>3. CASE j \in d + 1 .. n
      <4>1. j \in 1 .. n
        BY <1>1, <3>3
      <4> QED
        BY <1>1, <2>1, <3>3, <4>1
    <3> QED
      BY <3>1, <3>2, <3>3
  <2>4. InForce(new, e)
    BY <2>1, <2>2, <2>3 DEF InForce
  <2> QED
    BY <1>3, <2>4 DEF new
<1> QED
  BY <1>2, <1>3

(* The property, stated with the operators above.                          *)
LEMMA FinalityAsQuorate ==
  FinalityNeedsQuorum <=> \A i \in 2 .. Len(blocks) : Quorate(blocks, chain.genesis, i)
<1>1. ASSUME NEW i, NEW d \in 1 .. i - 1
      PROVE  /\ DefinesEpochOf(d, i)
                  <=> /\ blocks[d].next_epoch # None
                      /\ \A j \in d + 1 .. i - 1 : blocks[j].next_epoch = None
             /\ Voters(blocks[i], blocks[d].next_epoch)
                  = {v \in blocks[d].next_epoch.validators :
                       <<v.pubkey, Fingerprint(chain.genesis, blocks[i].header)>>
                          \in blocks[i].votes}
  BY DEF DefinesEpochOf, Voters
<1> QED
  BY <1>1 DEF FinalityNeedsQuorum, Quorate

-----------------------------------------------------------------------------
(* The inductive invariant.  TypeOK alone is not inductive: the candidates *)
(* must be sorted and summed up for the next epoch to be valid.  Finality  *)
(* needs that the running sum of the pending block is the stake of its     *)
(* signers in the epoch in force, that this epoch is the last one the log  *)
(* of final blocks defines, and that the signers signed this very block.   *)
IInv ==
    /\ GoodChain(chain)
    /\ host_height \in 1 .. MaxHostHeight
    /\ host_timestamp \in 1 .. MaxTimestamp
    /\ \E S : blocks \in Seq(S)
    /\ VotesMatch(chain, votes)
    /\ InForce(blocks, chain.next_epoch)
    /\ \A i \in 2 .. Len(blocks) : Quorate(blocks, chain.genesis, i)

LEMMA HostInNat ==
  ASSUME IInv
  PROVE  host_height \in Nat /\ host_timestamp \in Nat
  BY GuestChainAssumption DEF IInv

(* Instructions that are not signatures.                                   *)
LEMMA KeepsIInv ==
  ASSUME IInv, GoodChain(chain'), KeepsBlocks(chain, chain'),
         UNCHANGED <<host_height, host_timestamp, votes, blocks>>
  PROVE  IInv'
<1>1. VotesMatch(chain', votes)
  BY KeepsVotes DEF IInv
<1>2. chain'.next_epoch = chain.next_epoch /\ chain'.genesis = chain.genesis
  BY DEF KeepsBlocks
<1> QED
  BY <1>1, <1>2 DEF IInv

LEMMA InitIInv == Init => IInv
<1>1. SUFFICES ASSUME NEW cfg \in InitialConfigs, NEW epoch \in GenesisEpochs,
                      NEW root \in Roots,
                      NEW cs \in NewCandidates(cfg.max_validators, epoch.validators),
                      chain = [last_check_height |-> 1, config |-> cfg,
                               genesis |-> calc_hash(GenesisHeader(1, 1, root, epoch)),
                               header |-> GenesisHeader(1, 1, root, epoch),
                               next_epoch |-> epoch, pending_block |-> None,
                               epoch_height |-> 1, candidates |-> cs,
                               consensus_states |-> <<>>],
                      host_height = 1, host_timestamp = 1, votes = {},
                      blocks = <<[header |-> GenesisHeader(1, 1, root, epoch),
                                  next_epoch |-> epoch, votes |-> {}]>>
               PROVE  IInv
  BY DEF Init
<1>2. IsConfig(cfg) /\ ValidEpoch(epoch) /\ StakeOf(epoch.validators) <= U128Max
  BY GuestChainAssumption
<1>3. Good(cs)
  <2>1. cfg.max_validators \in Nat \ {0}
    BY <1>2, ConfigTypes
  <2>2. epoch.validators \subseteq Candidate /\ ValidatorSet(epoch.validators)
    BY <1>2, EpochValidators DEF CheckedEpoch, ValidEpoch
  <2> QED
    BY <1>2, <2>1, <2>2, NewCandidatesGood
<1> DEFINE genesis == GenesisHeader(1, 1, root, epoch)
<1>4. IsHeader(genesis)
  BY <1>2 DEF IsHeader, GenesisHeader
<1> HIDE DEF genesis
<1>5. GoodChain(chain)
  <2>1. ChainFields(chain)
    BY <1>1 DEF ChainFields
  <2>2. /\ chain.last_check_height = 1
        /\ chain.config = cfg
        /\ chain.header = genesis
        /\ chain.next_epoch = epoch
        /\ chain.pending_block = None
        /\ chain.epoch_height = 1
        /\ chain.candidates = cs
        /\ chain.consensus_states = <<>>
    BY <1>1 DEF genesis
  <2>3. /\ chain.consensus_states \in Seq({})
        /\ Len(chain.consensus_states) \in 0 .. MaxConsensusStates
    BY <2>2, GuestChainAssumption
  <2>4. \E S : chain.consensus_states \in Seq(S)
    BY <2>3
  <2>5. chain.last_check_height \in Nat /\ chain.epoch_height \in Nat
    BY <2>2
  <2>6. IsConfig(chain.config) /\ ValidEpoch(chain.next_epoch)
    BY <1>2, <2>2
  <2>7. IsHeader(chain.header) /\ Good(chain.candidates)
    BY <1>3, <1>4, <2>2
  <2> QED
    BY <2>1, <2>2, <2>3, <2>4, <2>5, <2>6, <2>7, ChainFromParts
<1>6. host_height \in 1 .. MaxHostHeight /\ host_timestamp \in 1 .. MaxTimestamp
  BY <1>1, GuestChainAssumption
<1>7. VotesMatch(chain, votes)
  BY <1>1 DEF VotesMatch
<1> DEFINE b == [header |-> genesis, next_epoch |-> epoch, votes |-> {}]
<1>8. blocks = <<b>> /\ b.next_epoch = epoch
  BY <1>1 DEF genesis
<1>9. epoch # None
  BY <1>2 DEF CheckedEpoch, ValidEpoch, None
<1> HIDE DEF b
<1>10. blocks \in Seq({b}) /\ Len(blocks) = 1 /\ blocks[1] = b
  BY <1>8
<1>11. InForce(blocks, chain.next_epoch)
  <2>1. chain.next_epoch = epoch
    BY <1>1
  <2> QED
    BY <1>8, <1>9, <1>10, <2>1 DEF InForce
<1> QED
  BY <1>5, <1>6, <1>7, <1>10, <1>11 DEF IInv

(* A signature: refused, counted, or the one that completes a quorum.      *)
LEMMA SignBlockIInv ==
  ASSUME IInv, NEW pk \in PubKey, NEW fp, SignBlock(pk, fp)
  PROVE  IInv'
<1> DEFINE p       == chain.pending_block
           E       == chain.next_epoch.validators
           counted == votes \cup {<<pk, fp>>}
<1>1. p # None /\ HasValidator(E, pk) /\ fp = p.fingerprint
  BY DEF SignBlock, AcceptsSignature
<1>2. GoodChain(chain) /\ VotesMatch(chain, votes)
  BY DEF IInv
<1>3. /\ p.fingerprint = Fingerprint(chain.genesis, p.next_block.header)
      /\ votes = {<<k, p.fingerprint>> : k \in p.signers}
  BY <1>1, <1>2 DEF VotesMatch
<1>4. UNCHANGED <<host_height, host_timestamp>>
  BY DEF SignBlock, envVars
<1>5. CASE ~got_new_signature(chain, pk)
  <2>1. chain' = chain /\ votes' = counted /\ UNCHANGED blocks
    BY <1>5 DEF SignBlock, add_signature, got_quorum
  <2>2. counted = votes
    BY <1>1, <1>3, <1>5 DEF got_new_signature
  <2> QED
    BY <1>4, <2>1, <2>2 DEF IInv
<1>6. CASE got_new_signature(chain, pk) /\ ~got_quorum(chain, pk)
  <2>1. chain' = Signed(chain, pk) /\ votes' = counted /\ UNCHANGED blocks
    BY <1>6 DEF SignBlock, add_signature
  <2>2. /\ GoodChain(Signed(chain, pk))
        /\ Signed(chain, pk).genesis = chain.genesis
        /\ Signed(chain, pk).next_epoch = chain.next_epoch
        /\ VotesMatch(Signed(chain, pk), counted)
    BY <1>1, <1>2, <1>6, SignedGood
  <2> QED
    BY <1>4, <2>1, <2>2 DEF IInv
<1>7. CASE got_quorum(chain, pk)
  <2> DEFINE b == [header |-> p.next_block.header, next_epoch |-> p.next_block.next_epoch,
                   votes |-> counted]
             x == Promote(chain)
  <2>1. /\ chain' \in maybe_generate_block(x)
        /\ blocks' = Append(blocks, b)
        /\ votes' = {}
    BY <1>7 DEF SignBlock, add_signature, got_quorum
  <2>2. /\ GoodChain(x)
        /\ x.genesis = chain.genesis
        /\ x.pending_block = None
        /\ x.next_epoch = IF b.next_epoch # None THEN b.next_epoch ELSE chain.next_epoch
    BY <1>1, <1>2, PromoteGood
  <2> HIDE DEF x
  <2>3. GoodChain(chain') /\ KeepsBlocks(x, chain')
    BY <2>1, <2>2, HostInNat, GenerateBlockGood DEF maybe_generate_block
  <2>4. VotesMatch(chain', {})
    <3>1. VotesMatch(x, {})
      BY <2>2 DEF VotesMatch
    <3> QED
      BY <2>3, <3>1, KeepsVotes
  <2>5. chain'.genesis = chain.genesis /\ chain'.next_epoch = x.next_epoch
    BY <2>2, <2>3 DEF KeepsBlocks
  <2>6. PICK S : blocks \in Seq(S)
    BY DEF IInv
  <2>7. /\ blocks' \in Seq(S \cup {b})
        /\ Len(blocks) \in Nat
        /\ Len(blocks') = Len(blocks) + 1
    <3> HIDE DEF b
    <3>1. blocks \in Seq(S \cup {b})
      BY <2>6
    <3> QED
      BY <2>1, <2>6, <3>1
  <2>8. InForce(blocks', chain'.next_epoch)
    <3>1. InForce(blocks, chain.next_epoch)
      BY DEF IInv
    <3> HIDE DEF b
    <3> QED
      BY <2>1, <2>2, <2>5, <2>6, <3>1, InForceAppend
  <2>9. Quorate(blocks', chain.genesis, Len(blocks) + 1)
    <3>1. {v \in E : <<v.pubkey, Fingerprint(chain.genesis, b.header)>> \in b.votes}
            = WithKeys(E, p.signers \cup {pk})
      <4>1. b.votes = {<<k, p.fingerprint>> : k \in p.signers \cup {pk}}
        BY <1>1, <1>3
      <4>2. Fingerprint(chain.genesis, b.header) = p.fingerprint
        BY <1>3
      <4> HIDE DEF b, p
      <4>3. \A v \in E : <<v.pubkey, p.fingerprint>> \in b.votes
                           <=> v.pubkey \in p.signers \cup {pk}
        BY <4>1
      <4> QED
        BY <4>2, <4>3 DEF WithKeys
    <3>2. got_new_signature(chain, pk) /\ StakeWith(chain, pk) >= chain.next_epoch.quorum_stake
      BY <1>7 DEF got_quorum
    <3>3. StakeWith(chain, pk) = StakeOf(WithKeys(E, p.signers \cup {pk}))
      BY <1>1, <1>2, <3>2, SignedGood
    <3>4. InForce(blocks, chain.next_epoch)
      BY DEF IInv
    <3> HIDE DEF b
    <3> QED
      BY <2>1, <2>6, <3>1, <3>2, <3>3, <3>4, QuorateLast
  <2>10. ASSUME NEW i \in 2 .. Len(blocks')
         PROVE  Quorate(blocks', chain'.genesis, i)
    <3>1. i = Len(blocks) + 1 \/ i \in 2 .. Len(blocks)
      BY <2>7
    <3>2. CASE i \in 2 .. Len(blocks)
      <4>1. Quorate(blocks, chain.genesis, i) /\ i \in 1 .. Len(blocks)
        BY <3>2 DEF IInv
      <4> HIDE DEF b
      <4> QED
        BY <2>1, <2>5, <2>6, <4>1, QuorateAppend
    <3> QED
      BY <2>5, <2>9, <3>1, <3>2
  <2>11. host_height' \in 1 .. MaxHostHeight /\ host_timestamp' \in 1 .. MaxTimestamp
    BY <1>4 DEF IInv
  <2> QED
    BY <2>1, <2>3, <2>4, <2>7, <2>8, <2>10, <2>11 DEF IInv
<1> QED
  BY <1>5, <1>6, <1>7 DEF got_quorum

LEMMA NextIInv == IInv /\ [Next]_vars => IInv'
<1>1. SUFFICES ASSUME IInv, [Next]_vars PROVE IInv'
  OBVIOUS
<1>2. GoodChain(chain) /\ host_height \in Nat /\ host_timestamp \in Nat
  BY <1>1, HostInNat DEF IInv
<1>3. ASSUME NEW timestamp \in 1 .. MaxTimestamp, Tick(timestamp)
      PROVE  IInv'
  <2>1. host_height' \in 1 .. MaxHostHeight /\ host_timestamp' \in 1 .. MaxTimestamp
    BY <1>1, <1>3, GuestChainAssumption DEF IInv, Tick
  <2>2. UNCHANGED <<chain, votes, blocks>>
    BY <1>3 DEF Tick
  <2> QED
    BY <1>1, <2>1, <2>2 DEF IInv
<1>4. CASE GenerateBlock
  <2>1. GoodChain(chain') /\ KeepsBlocks(chain, chain')
    BY <1>2, <1>4, GenerateBlockGood DEF GenerateBlock
  <2> QED
    BY <1>1, <1>4, <2>1, KeepsIInv DEF GenerateBlock, envVars
<1>5. ASSUME NEW pk \in PubKey, NEW fp \in Fingerprints, SignBlock(pk, fp)
      PROVE  IInv'
  BY <1>1, <1>5, SignBlockIInv
<1>6. ASSUME NEW pk \in PubKey, NEW amount \in StakeValues, SetStake(pk, amount)
      PROVE  IInv'
  <2>1. PICK x \in maybe_generate_block(chain) : chain' \in update_candidate(x, pk, amount)
    BY <1>6 DEF SetStake
  <2>2. GoodChain(x) /\ KeepsBlocks(chain, x)
    BY <1>2, <2>1, GenerateBlockGood DEF maybe_generate_block
  <2>3. amount \in Nat
    BY GuestChainAssumption
  <2>4. GoodChain(chain') /\ KeepsBlocks(x, chain')
    BY <2>1, <2>2, <2>3, UpdateCandidateGood
  <2>5. KeepsBlocks(chain, chain')
    BY <2>2, <2>4, KeepsBlocksTransitive
  <2> QED
    BY <1>1, <1>6, <2>4, <2>5, KeepsIInv DEF SetStake, envVars
<1>7. ASSUME NEW changes \in StakeChanges, UpdateStake(changes)
      PROVE  IInv'
  <2>1. PICK x \in maybe_generate_block(chain) : chain' \in update_stake(x, changes)
    BY <1>7 DEF UpdateStake
  <2>2. GoodChain(x) /\ KeepsBlocks(chain, x)
    BY <1>2, <2>1, GenerateBlockGood DEF maybe_generate_block
  <2>3. GoodChain(chain') /\ KeepsBlocks(x, chain')
    BY <2>1, <2>2, UpdateStakeGood
  <2>4. KeepsBlocks(chain, chain')
    BY <2>2, <2>3, KeepsBlocksTransitive
  <2> QED
    BY <1>1, <1>7, <2>3, <2>4, KeepsIInv DEF UpdateStake, envVars
<1>8. ASSUME NEW root \in Roots, Deliver(root)
      PROVE  IInv'
  <2>1. GoodChain(chain') /\ KeepsBlocks(chain, chain')
    BY <1>2, <1>8, GenerateBlockGood DEF Deliver, maybe_generate_block
  <2> QED
    BY <1>1, <1>8, <2>1, KeepsIInv DEF Deliver
<1>9. ASSUME NEW u \in ConfigUpdates, UpdateChainConfig(u)
      PROVE  IInv'
  <2>1. GoodChain(chain') /\ KeepsBlocks(chain, chain')
    BY <1>2, <1>9, UpdateConfigGood DEF UpdateChainConfig
  <2> QED
    BY <1>1, <1>9, <2>1, KeepsIInv DEF UpdateChainConfig, envVars
<1>10. CASE UNCHANGED vars
  BY <1>1, <1>10 DEF vars, IInv
<1> QED
  BY <1>1, <1>3, <1>4, <1>5, <1>6, <1>7, <1>8, <1>9, <1>10 DEF Next

(* The chain account stays well formed: every epoch in force or about to   *)
(* be has a quorum its validators can reach, whatever the stakes and the   *)
(* configuration were when maybe_generate_next_epoch built it.             *)
THEOREM ChainWellFormed == Spec => []TypeOK
<1>1. IInv => TypeOK
  BY DEF IInv, TypeOK, GoodChain
<1> QED
  BY <1>1, InitIInv, NextIInv, PTL DEF Spec

(* No block becomes final without valid signatures by validators that own  *)
(* a quorum of the stake of the block's own epoch: neither repeated, late  *)
(* or replayed signatures nor a change of the candidates, the stakes, the  *)
(* configuration or the epoch while a block is pending can make            *)
(* add_signature miscount.                                                 *)
THEOREM FinalityIsQuorate == Spec => []FinalityNeedsQuorum
<1>1. IInv => FinalityNeedsQuorum
  BY FinalityAsQuorate DEF IInv
<1> QED
  BY <1>1, InitIInv, NextIInv, PTL DEF Spec

(* The candidates owned by the chain satisfy debug_verify_state however    *)
(* instructions interleave and the configured minimums change.             *)
THEOREM ChainCandidatesCorrect == Spec => []debug_verify_state(chain.candidates)
<1>1. IInv => debug_verify_state(chain.candidates)
  BY DEF IInv, GoodChain, Good
<1> QED
  BY <1>1, InitIInv, NextIInv, PTL DEF Spec

-----------------------------------------------------------------------------
(* What happens to a pending block.                                        *)

KeepsPending(x, y) ==
    x.pending_block # None =>
      \/ /\ y.header = x.header
         /\ y.pending_block # None
         /\ y.pending_block.next_block = x.pending_block.next_block
         /\ x.pending_block.signers \subseteq y.pending_block.signers
      \/ y.header = x.pending_block.next_block.header

LEMMA KeepsBlocksKeepsPending ==
  ASSUME NEW x, NEW y, KeepsBlocks(x, y)
  PROVE  KeepsPending(x, y)
  BY DEF KeepsBlocks, KeepsPending

LEMMA SignBlockKeepsPending ==
  ASSUME IInv, NEW pk \in PubKey, NEW fp, SignBlock(pk, fp)
  PROVE  KeepsPending(chain, chain')
<1>1. /\ chain.pending_block # None
      /\ HasValidator(chain.next_epoch.validators, pk)
      /\ GoodChain(chain) /\ VotesMatch(chain, votes)
  BY DEF SignBlock, AcceptsSignature, IInv
<1>2. CASE ~got_new_signature(chain, pk)
  <2>1. chain' = chain
    BY <1>2 DEF SignBlock, add_signature, got_quorum
  <2> QED
    BY <1>1, <2>1 DEF KeepsPending
<1>3. CASE got_new_signature(chain, pk) /\ ~got_quorum(chain, pk)
  <2>1. chain' = Signed(chain, pk)
    BY <1>3 DEF SignBlock, add_signature
  <2>2. /\ Signed(chain, pk).header = chain.header
        /\ Signed(chain, pk).pending_block # None
        /\ Signed(chain, pk).pending_block.next_block = chain.pending_block.next_block
        /\ chain.pending_block.signers \subseteq Signed(chain, pk).pending_block.signers
    BY <1>1, <1>3, SignedGood
  <2> QED
    BY <2>1, <2>2 DEF KeepsPending
<1>4. CASE got_quorum(chain, pk)
  <2>1. chain' \in maybe_generate_block(Promote(chain))
    BY <1>4 DEF SignBlock, add_signature, got_quorum
  <2>2. /\ GoodChain(Promote(chain))
        /\ Promote(chain).header = chain.pending_block.next_block.header
    BY <1>1, PromoteGood
  <2>3. KeepsBlocks(Promote(chain), chain')
    BY <2>1, <2>2, HostInNat, GenerateBlockGood DEF maybe_generate_block
  <2> QED
    BY <2>2, <2>3 DEF KeepsBlocks, KeepsPending
<1> QED
  BY <1>2, <1>3, <1>4 DEF got_quorum

(* A block waiting for signatures is never dropped or replaced: whatever   *)
(* instruction runs, it stays pending with the signatures it has, or it    *)
(* becomes the head.                                                       *)
THEOREM PendingBlockIsKept == Spec => PendingIsKept
<1>1. ASSUME IInv, [Next]_vars PROVE KeepsPending(chain, chain')
  <2>1. GoodChain(chain) /\ host_height \in Nat /\ host_timestamp \in Nat
    BY <1>1, HostInNat DEF IInv
  <2>2. ASSUME KeepsBlocks(chain, chain') PROVE KeepsPending(chain, chain')
    BY <2>2, KeepsBlocksKeepsPending
  <2>3. ASSUME UNCHANGED chain PROVE KeepsPending(chain, chain')
    BY <2>3 DEF KeepsPending
  <2>4. CASE GenerateBlock
    BY <2>1, <2>2, <2>4, GenerateBlockGood DEF GenerateBlock
  <2>5. ASSUME NEW pk \in PubKey, NEW fp \in Fingerprints, SignBlock(pk, fp)
        PROVE  KeepsPending(chain, chain')
    BY <1>1, <2>5, SignBlockKeepsPending
  <2>6. ASSUME NEW pk \in PubKey, NEW amount \in StakeValues, SetStake(pk, amount)
        PROVE  KeepsPending(chain, chain')
    <3>1. PICK x \in maybe_generate_block(chain) : chain' \in update_candidate(x, pk, amount)
      BY <2>6 DEF SetStake
    <3>2. GoodChain(x) /\ KeepsBlocks(chain, x)
      BY <2>1, <3>1, GenerateBlockGood DEF maybe_generate_block
    <3>3. amount \in Nat
      BY GuestChainAssumption
    <3>4. KeepsBlocks(x, chain')
      BY <3>1, <3>2, <3>3, UpdateCandidateGood
    <3> QED
      BY <2>2, <3>2, <3>4, KeepsBlocksTransitive
  <2>7. ASSUME NEW changes \in StakeChanges, UpdateStake(changes)
        PROVE  KeepsPending(chain, chain')
    <3>1. PICK x \in maybe_generate_block(chain) : chain' \in update_stake(x, changes)
      BY <2>7 DEF UpdateStake
    <3>2. GoodChain(x) /\ KeepsBlocks(chain, x)
      BY <2>1, <3>1, GenerateBlockGood DEF maybe_generate_block
    <3>3. KeepsBlocks(x, chain')
      BY <3>1, <3>2, UpdateStakeGood
    <3> QED
      BY <2>2, <3>2, <3>3, KeepsBlocksTransitive
  <2>8. ASSUME NEW root \in Roots, Deliver(root)
        PROVE  KeepsPending(chain, chain')
    BY <2>1, <2>2, <2>8, GenerateBlockGood DEF Deliver, maybe_generate_block
  <2>9. ASSUME NEW u \in ConfigUpdates, UpdateChainConfig(u)
        PROVE  KeepsPending(chain, chain')
    BY <2>1, <2>2, <2>9, UpdateConfigGood DEF UpdateChainConfig
  <2>10. ASSUME NEW timestamp \in 1 .. MaxTimestamp, Tick(timestamp)
         PROVE  KeepsPending(chain, chain')
    BY <2>3, <2>10 DEF Tick
  <2>11. CASE UNCHANGED vars
    BY <2>3, <2>11 DEF vars
  <2> QED
    BY <1>1, <2>4, <2>5, <2>6, <2>7, <2>8, <2>9, <2>10, <2>11 DEF Next
<1>2. KeepsPending(chain, chain') =>
        (chain.pending_block # None =>
           \/ /\ chain'.header = chain.header
              /\ chain'.pending_block # None
              /\ chain'.pending_block.next_block = chain.pending_block.next_block
              /\ chain.pending_block.signers \subseteq chain'.pending_block.signers
           \/ chain'.header = chain.pending_block.next_block.header)
  BY DEF KeepsPending
<1> QED
  BY <1>1, <1>2, InitIInv, NextIInv, PTL DEF Spec, PendingIsKept

-----------------------------------------------------------------------------
(* What one instruction, signatures aside, does to a chain.                *)

\* The epoch most recently put in a block, final or not.
Latest(x) ==
    IF x.pending_block # None /\ x.pending_block.next_block.next_epoch # None
    THEN x.pending_block.next_block.next_epoch
    ELSE x.next_epoch

\* The clear flag is right about the next epoch.
Current(x) ==
    ~x.candidates.changed => Latest(x).validators = TopValidators(x.candidates)

SameHead(x, y) ==
    /\ y.genesis = x.genesis
    /\ y.header = x.header
    /\ y.next_epoch = x.next_epoch
    /\ y.epoch_height = x.epoch_height

SameBlocks(x, y) ==
    y.pending_block = x.pending_block /\ y.consensus_states = x.consensus_states

\* The local consensus state of a block.
StateOf(header) ==
    [height |-> header.block_height, timestamp |-> header.timestamp_ns,
     blockhash |-> calc_hash(header)]

\* The instruction generated a block on top of x.
NewBlock(x, y) ==
    /\ x.pending_block = None
    /\ y.pending_block # None
    /\ y.config = x.config
    /\ x.last_check_height # host_height
    /\ y.last_check_height = host_height
    /\ IsLater(x.header, host_height, host_timestamp)
    /\ host_height - x.header.host_height >= x.config.min_block_length
    /\ LET b == y.pending_block.next_block
       IN  /\ b.header = NextHeader(x.header, host_height, host_timestamp,
                                    state_root, b.next_epoch)
           /\ b.next_epoch # None =>
                host_height - x.epoch_height >= x.config.min_epoch_length
           /\ y.consensus_states = PushConsensusState(x.consensus_states, StateOf(b.header))

Advances(x, y) ==
    /\ SameHead(x, y)
    /\ y.last_check_height \in {x.last_check_height, host_height}
    /\ SameBlocks(x, y) \/ NewBlock(x, y)
    /\ Current(x) => Current(y)

\* Only the candidates changed.
Restaked(x, y) ==
    /\ SameHead(x, y)
    /\ SameBlocks(x, y)
    /\ y.last_check_height = x.last_check_height
    /\ y.config = x.config
    /\ Current(x) => Current(y)

LEMMA RestakedAdvances ==
  ASSUME NEW x, NEW y, Restaked(x, y)
  PROVE  Advances(x, y)
  BY DEF Restaked, Advances

LEMMA AdvancesThenRestaked ==
  ASSUME NEW x, NEW y, NEW z, Advances(x, y), Restaked(y, z)
  PROVE  Advances(x, z)
<1>1. SameHead(x, z)
  BY DEF Advances, Restaked, SameHead
<1>2. z.last_check_height \in {x.last_check_height, host_height} /\ (Current(x) => Current(z))
  BY DEF Advances, Restaked
<1>3. SameBlocks(x, y) => SameBlocks(x, z)
  BY DEF Restaked, SameBlocks
<1>4. NewBlock(x, y) => NewBlock(x, z)
  BY DEF Restaked, SameBlocks, NewBlock
<1> QED
  BY <1>1, <1>2, <1>3, <1>4 DEF Advances

LEMMA RestakedTransitive ==
  ASSUME NEW x, NEW y, NEW z, Restaked(x, y), Restaked(y, z)
  PROVE  Restaked(x, z)
  BY DEF Restaked, SameHead, SameBlocks

(* A change that tells the truth about the top candidates keeps the flag   *)
(* right.                                                                  *)
LEMMA FlagKeepsCurrent ==
  ASSUME NEW x, NEW y, SameHead(x, y), SameBlocks(x, y),
         FlagExact(x.candidates, y.candidates), Current(x)
  PROVE  Current(y)
<1>1. Latest(y) = Latest(x)
  BY DEF Latest, SameHead, SameBlocks
<1> QED
  BY <1>1 DEF Current, FlagExact

-----------------------------------------------------------------------------
(* Generating a block.                                                     *)

LEMMA GenerateNextFields ==
  ASSUME NEW x, GoodChain(x), NEW host \in Nat, NEW timestamp \in Nat, NEW root,
         NEW y \in generate_next(x, host, timestamp, root)
  PROVE  LET epoch  == maybe_generate_next_epoch(x, host)
             header == NextHeader(x.header, host, timestamp, root, epoch)
         IN  /\ validate_generate_next(x, host, timestamp, root)
             /\ IsLater(x.header, host, timestamp)
             /\ SameHead(x, y)
             /\ y.last_check_height = x.last_check_height
             /\ y.config = x.config
             /\ y.pending_block # None
             /\ y.pending_block.next_block = [header |-> header, next_epoch |-> epoch]
             /\ y.candidates = ClearIfTaken(x.candidates, epoch)
             /\ y.consensus_states = PushConsensusState(x.consensus_states, StateOf(header))
<1> DEFINE epoch  == maybe_generate_next_epoch(x, host)
           header == NextHeader(x.header, host, timestamp, root, epoch)
           queue  == PushConsensusState(x.consensus_states, StateOf(header))
           p      == PendingFor(x, host, timestamp, root)
           cs     == ClearIfTaken(x.candidates, epoch)
<1>1. header.timestamp_ns = timestamp
  BY DEF NextHeader
<1>2. y = [x EXCEPT !.consensus_states = queue, !.pending_block = p, !.candidates = cs]
      /\ validate_generate_next(x, host, timestamp, root)
      /\ IsLater(x.header, host, timestamp)
  <2>1. StateOf(header) = [height |-> header.block_height, timestamp |-> timestamp,
                           blockhash |-> calc_hash(header)]
    BY <1>1 DEF StateOf
  <2> HIDE DEF header
  <2> QED
    BY <2>1 DEF generate_next, PendingFor, header
<1>3. p # None
  BY PendingForGood
<1>4. p.next_block = [header |-> header, next_epoch |-> epoch]
  BY DEF PendingFor
<1>5. ChainFields(x)
  BY ChainParts
<1> HIDE DEF queue, p, cs, header, epoch
<1>6. y = [last_check_height |-> x.last_check_height, config |-> x.config,
           genesis |-> x.genesis, header |-> x.header,
           next_epoch |-> x.next_epoch, pending_block |-> p,
           epoch_height |-> x.epoch_height, candidates |-> cs,
           consensus_states |-> queue]
  BY <1>2, <1>5 DEF ChainFields
<1>7. /\ SameHead(x, y)
      /\ y.last_check_height = x.last_check_height
      /\ y.config = x.config
      /\ y.pending_block = p
      /\ y.candidates = cs
      /\ y.consensus_states = queue
  BY <1>6 DEF SameHead
<1> QED
  BY <1>2, <1>3, <1>4, <1>7 DEF queue, cs, header, epoch

(* The block that defines an epoch takes the top candidates in, and only   *)
(* that block clears the flag.                                             *)
LEMMA GenerateNextCurrent ==
  ASSUME NEW x, GoodChain(x), NEW host \in Nat, NEW timestamp \in Nat, NEW root,
         NEW y \in generate_next(x, host, timestamp, root), Current(x)
  PROVE  Current(y)
<1> DEFINE epoch  == maybe_generate_next_epoch(x, host)
           header == NextHeader(x.header, host, timestamp, root, epoch)
<1>1. /\ y.pending_block # None
      /\ y.pending_block.next_block = [header |-> header, next_epoch |-> epoch]
      /\ y.candidates = ClearIfTaken(x.candidates, epoch)
      /\ y.next_epoch = x.next_epoch
      /\ x.pending_block = None
  BY GenerateNextFields DEF SameHead, validate_generate_next
<1>2. epoch # None => epoch.validators = TopValidators(x.candidates)
  BY DEF maybe_generate_next_epoch
<1>3. Good(x.candidates)
  BY ChainParts
<1> HIDE DEF epoch, header
<1>4. y.pending_block.next_block.next_epoch = epoch
  BY <1>1
<1>5. CASE epoch # None
  <2>1. y.candidates = clear_changed_flag(x.candidates)
    BY <1>1, <1>5 DEF ClearIfTaken
  <2>2. TopValidators(y.candidates) = TopValidators(x.candidates)
    <3>1. /\ y.candidates.max_validators = x.candidates.max_validators
          /\ y.candidates.candidates = x.candidates.candidates
      BY <1>3, <2>1, GoodFields DEF clear_changed_flag
    <3> QED
      BY <3>1 DEF TopValidators
  <2>3. Latest(y) = epoch
    BY <1>1, <1>4, <1>5 DEF Latest
  <2> QED
    BY <1>2, <1>5, <2>2, <2>3 DEF Current
<1>6. CASE epoch = None
  <2>1. y.candidates = x.candidates
    BY <1>1, <1>6 DEF ClearIfTaken
  <2>2. Latest(y) = y.next_epoch /\ Latest(x) = x.next_epoch
    BY <1>1, <1>4, <1>6 DEF Latest
  <2> QED
    BY <1>1, <2>1, <2>2 DEF Current
<1> QED
  BY <1>5, <1>6

LEMMA CheckedFields ==
  ASSUME NEW x, GoodChain(x), NEW host \in Nat
  PROVE  LET y == [x EXCEPT !.last_check_height = host]
         IN  /\ SameHead(x, y)
             /\ SameBlocks(x, y)
             /\ y.last_check_height = host
             /\ y.config = x.config
             /\ y.candidates = x.candidates
<1> DEFINE y == [x EXCEPT !.last_check_height = host]
<1>1. ChainFields(x)
  BY ChainParts
<1>2. y = [last_check_height |-> host, config |-> x.config,
           genesis |-> x.genesis, header |-> x.header,
           next_epoch |-> x.next_epoch, pending_block |-> x.pending_block,
           epoch_height |-> x.epoch_height, candidates |-> x.candidates,
           consensus_states |-> x.consensus_states]
  BY <1>1 DEF ChainFields
<1> HIDE DEF y
<1>3. /\ SameHead(x, y)
      /\ SameBlocks(x, y)
      /\ y.last_check_height = host
      /\ y.config = x.config
      /\ y.candidates = x.candidates
  BY <1>2 DEF SameHead, SameBlocks
<1> QED
  BY <1>3 DEF y

(* A height that was checked is not checked again, so what an instruction  *)
(* generates was neither checked nor pending before.                       *)
LEMMA GenerateBlockAdvances ==
  ASSUME NEW x, GoodChain(x), host_height \in Nat, host_timestamp \in Nat,
         NEW force, NEW y \in generate_block(x, force)
  PROVE  Advances(x, y) /\ y.last_check_height = host_height
<1> DEFINE checked == [x EXCEPT !.last_check_height = host_height]
           result  == generate_next(checked, host_height, host_timestamp, state_root)
<1>1. GoodChain(checked)
  BY CheckedGood
<1>2. \/ y = x /\ x.last_check_height = host_height
      \/ y = checked
      \/ y \in result /\ x.last_check_height # host_height
  BY DEF generate_block
<1>3. /\ SameHead(x, checked)
      /\ SameBlocks(x, checked)
      /\ checked.last_check_height = host_height
      /\ checked.config = x.config
      /\ checked.candidates = x.candidates
  BY CheckedFields
<1>4. Current(x) => Current(checked)
  <2> HIDE DEF checked
  <2>1. Latest(checked) = Latest(x)
    BY <1>3 DEF Latest, SameHead, SameBlocks
  <2> QED
    BY <1>3, <2>1 DEF Current
<1> HIDE DEF checked
<1>5. CASE y = x /\ x.last_check_height = host_height
  BY <1>5 DEF Advances, SameHead, SameBlocks
<1>6. CASE y = checked
  BY <1>3, <1>4, <1>6 DEF Advances
<1>7. CASE y \in result /\ x.last_check_height # host_height
  <2> DEFINE epoch  == maybe_generate_next_epoch(checked, host_height)
             header == NextHeader(checked.header, host_height, host_timestamp, state_root, epoch)
  <2>1. /\ validate_generate_next(checked, host_height, host_timestamp, state_root)
        /\ IsLater(checked.header, host_height, host_timestamp)
        /\ SameHead(checked, y)
        /\ y.last_check_height = checked.last_check_height
        /\ y.config = checked.config
        /\ y.pending_block # None
        /\ y.pending_block.next_block = [header |-> header, next_epoch |-> epoch]
        /\ y.consensus_states = PushConsensusState(checked.consensus_states, StateOf(header))
    BY <1>1, <1>7, GenerateNextFields
  <2>2. epoch # None =>
          check_delta_from(host_height, checked.epoch_height, checked.config.min_epoch_length)
    BY DEF maybe_generate_next_epoch
  <2>3. /\ checked.pending_block = None
        /\ check_delta_from(host_height, checked.header.host_height,
                            checked.config.min_block_length)
    BY <2>1 DEF validate_generate_next
  <2>4. header = NextHeader(x.header, host_height, host_timestamp, state_root, epoch)
    BY <1>3 DEF SameHead
  <2> HIDE DEF epoch, header
  <2>5. y.pending_block.next_block.header = header /\ y.pending_block.next_block.next_epoch = epoch
    BY <2>1
  <2>6. /\ checked.header = x.header /\ checked.epoch_height = x.epoch_height
        /\ checked.pending_block = x.pending_block
        /\ checked.consensus_states = x.consensus_states
    BY <1>3 DEF SameHead, SameBlocks
  <2>7. NewBlock(x, y)
    BY <1>3, <1>7, <2>1, <2>2, <2>3, <2>4, <2>5, <2>6 DEF NewBlock, check_delta_from
  <2>8. SameHead(x, y)
    BY <1>3, <2>1 DEF SameHead
  <2>9. Current(checked) => Current(y)
    BY <1>1, <1>7, GenerateNextCurrent
  <2> QED
    BY <1>3, <1>4, <2>1, <2>7, <2>8, <2>9 DEF Advances
<1> QED
  BY <1>2, <1>3, <1>5, <1>6, <1>7

-----------------------------------------------------------------------------
(* Changing the candidates and the configuration.                          *)

LEMMA UpdateCandidateRestakes ==
  ASSUME NEW x, GoodChain(x), NEW pk \in PubKey, NEW stake \in Nat,
         NEW y \in update_candidate(x, pk, stake)
  PROVE  Restaked(x, y)
<1>1. PICK cs \in update(x.candidates, x.config, pk, stake) :
        y = [x EXCEPT !.candidates = cs]
  BY DEF update_candidate
<1>2. Good(x.candidates) /\ IsConfig(x.config) /\ ChainFields(x)
  BY ChainParts
<1>3. FlagExact(x.candidates, cs)
  <2>1. x.config.min_validators \in Nat /\ x.config.min_validator_stake \in Nat
    BY <1>2 DEF IsConfig, ConfigFields
  <2> QED
    BY <1>2, <2>1, UpdateEffect DEF Updated
<1>4. y = [last_check_height |-> x.last_check_height, config |-> x.config,
           genesis |-> x.genesis, header |-> x.header,
           next_epoch |-> x.next_epoch, pending_block |-> x.pending_block,
           epoch_height |-> x.epoch_height, candidates |-> cs,
           consensus_states |-> x.consensus_states]
  BY <1>1, <1>2 DEF ChainFields
<1>5. /\ SameHead(x, y)
      /\ SameBlocks(x, y)
      /\ y.last_check_height = x.last_check_height
      /\ y.config = x.config
      /\ y.candidates = cs
  BY <1>4 DEF SameHead, SameBlocks
<1>6. Current(x) => Current(y)
  BY <1>3, <1>5, FlagKeepsCurrent
<1> QED
  BY <1>5, <1>6 DEF Restaked

LEMMA ChangeStakeRestakes ==
  ASSUME NEW x, GoodChain(x), NEW pk \in PubKey, NEW delta \in Int,
         NEW y \in ChangeStake(x, pk, delta)
  PROVE  Restaked(x, y)
<1> DEFINE stake == CandidateStake(x.candidates, pk) + delta
<1>1. stake \in 0 .. U128Max /\ y \in update_candidate(x, pk, stake)
  BY DEF ChangeStake
<1>2. stake \in Nat
  BY <1>1, U128MaxAssumption
<1> HIDE DEF stake
<1> QED
  BY <1>1, <1>2, UpdateCandidateRestakes

LEMMA UpdateConfigAdvances ==
  ASSUME NEW x, GoodChain(x), NEW u \in ConfigUpdates, NEW y \in update_config(x, u)
  PROVE  Advances(x, y) /\ SameBlocks(x, y)
<1> DEFINE new == Merge(x.config, u)
           Sets == IF "max_validators" \in DOMAIN u
                   THEN update_max_validators(x.candidates, u.max_validators)
                   ELSE {x.candidates}
<1> HIDE DEF new
<1>1. PICK cs \in Sets : y = [x EXCEPT !.config = new, !.candidates = cs]
  BY DEF update_config, new
<1>2. FlagExact(x.candidates, cs)
  <2>1. Good(x.candidates)
    BY ChainParts
  <2>2. CASE "max_validators" \in DOMAIN u
    <3>1. "max_validators" \in NonZeroFields
      BY DEF NonZeroFields
    <3>2. u["max_validators"] \in Nat \ {0}
      BY <2>2, <3>1, GuestChainAssumption
    <3> QED
      BY <1>1, <2>1, <2>2, <3>2, UpdateMaxEffect
  <2>3. CASE "max_validators" \notin DOMAIN u
    <3>1. cs = x.candidates
      BY <1>1, <2>3
    <3> QED
      BY <3>1 DEF FlagExact
  <2> QED
    BY <2>2, <2>3
<1>3. /\ SameHead(x, y)
      /\ SameBlocks(x, y)
      /\ y.last_check_height = x.last_check_height
      /\ y.candidates = cs
  <2>1. ChainFields(x)
    BY ChainParts
  <2>2. y = [last_check_height |-> x.last_check_height, config |-> new,
             genesis |-> x.genesis, header |-> x.header,
             next_epoch |-> x.next_epoch, pending_block |-> x.pending_block,
             epoch_height |-> x.epoch_height, candidates |-> cs,
             consensus_states |-> x.consensus_states]
    BY <1>1, <2>1 DEF ChainFields
  <2> QED
    BY <2>2 DEF SameHead, SameBlocks
<1>4. Current(x) => Current(y)
  BY <1>2, <1>3, FlagKeepsCurrent
<1> QED
  BY <1>3, <1>4 DEF Advances

LEMMA UpdateStakeRestakes ==
  ASSUME NEW x, GoodChain(x), NEW changes \in StakeChanges,
         NEW y \in update_stake(x, changes)
  PROVE  GoodChain(y) /\ Restaked(x, y)
<1> DEFINE n == Len(changes)
<1>1. changes \in Seq(PubKey \X Int) /\ n \in Nat
  BY GuestChainAssumption
<1>2. PICK after : Steps(after, x, y, changes)
  BY UpdateStakeSteps
<1>3. /\ y \in after[n]
      /\ after[0] = {x}
      /\ \A i \in 1 .. n : after[i] =
           UNION {ChangeStake(s, changes[i][1], changes[i][2]) : s \in after[i - 1]}
  BY <1>2 DEF Steps
<1> DEFINE Fine == {i \in 0 .. n : \A s \in after[i] : GoodChain(s) /\ Restaked(x, s)}
<1>4. 0 \in Fine
  BY <1>1, <1>3 DEF Restaked, SameHead, SameBlocks
<1>5. ASSUME NEW i \in 0 .. n - 1, i \in Fine PROVE i + 1 \in Fine
  <2>1. i + 1 \in 1 .. n /\ (i + 1) - 1 = i
    BY <1>1
  <2>2. SUFFICES ASSUME NEW s \in after[i + 1] PROVE GoodChain(s) /\ Restaked(x, s)
    BY <2>1
  <2>3. PICK r \in after[i] : s \in ChangeStake(r, changes[i + 1][1], changes[i + 1][2])
    BY <1>3, <2>1, <2>2
  <2>4. GoodChain(r) /\ Restaked(x, r)
    BY <1>5
  <2>5. changes[i + 1][1] \in PubKey /\ changes[i + 1][2] \in Int
    BY <1>1, <2>1
  <2>6. GoodChain(s) /\ Restaked(r, s)
    BY <2>3, <2>4, <2>5, ChangeStakeGood, ChangeStakeRestakes
  <2> QED
    BY <2>4, <2>6, RestakedTransitive
<1> HIDE DEF Fine
<1>6. 0 .. n \subseteq Fine
  BY <1>1, <1>4, <1>5, IntervalInduction
<1> QED
  BY <1>1, <1>3, <1>6 DEF Fine

-----------------------------------------------------------------------------
(* The log of final blocks.                                                *)

\* Block d of the log defines the epoch of a block at position i.
Defines(log, d, i) ==
    /\ d \in 1 .. i - 1
    /\ log[d].next_epoch # None
    /\ \A j \in d + 1 .. i - 1 : log[j].next_epoch = None

\* A header may stand at position i of the log.
Extends(log, i, header) ==
    LET prev == log[i - 1].header
    IN  /\ header.prev_block_hash = calc_hash(prev)
        /\ header.block_height = prev.block_height + 1
        /\ header.host_height > prev.host_height
        /\ header.timestamp_ns > prev.timestamp_ns
        /\ \E d \in 1 .. i - 1 :
              Defines(log, d, i) /\ header.epoch_id = calc_hash(log[d].header)

\* The log ends with the head of the chain and its blocks follow each other.
Linked(x, log) ==
    /\ \E S : log \in Seq(S)
    /\ Len(log) > 0
    /\ log[Len(log)].header = x.header
    /\ log[1].next_epoch # None
    /\ \A i \in 1 .. Len(log) :
         /\ IsHeader(log[i].header)
         /\ log[i].header.block_height = i
         /\ log[i].next_epoch = log[i].header.next_epoch_commitment
    /\ \A i \in 2 .. Len(log) : Extends(log, i, log[i].header)
    /\ x.pending_block # None =>
         Extends(log, Len(log) + 1, x.pending_block.next_block.header)

\* No block is past the head, none that defines an epoch past epoch_height.
Dated(x, log) ==
    \A i \in 1 .. Len(log) :
       /\ log[i].header.host_height <= x.header.host_height
       /\ log[i].next_epoch # None => log[i].header.host_height <= x.epoch_height

\* The header at a height of the chain, the pending one included.
HeaderIn(x, log, height) == IF height <= Len(log) THEN log[height].header ELSE head(x)

\* The queue holds the states of the newest blocks.
Queued(x, log) ==
    LET queue  == x.consensus_states
        newest == head(x).block_height
    IN  /\ newest > 1 => Len(queue) > 0
        /\ Len(queue) < newest
        /\ \A i \in 1 .. Len(queue) :
             queue[i] = StateOf(HeaderIn(x, log, newest - Len(queue) + i))

(* A block built by NextHeader on the head extends the log.                *)
LEMMA NextHeaderExtends ==
  ASSUME NEW x, GoodChain(x), NEW log, Linked(x, log),
         NEW host \in Nat, NEW timestamp \in Nat, NEW root, NEW epoch,
         IsLater(x.header, host, timestamp)
  PROVE  Extends(log, Len(log) + 1, NextHeader(x.header, host, timestamp, root, epoch))
<1> DEFINE n      == Len(log)
           header == NextHeader(x.header, host, timestamp, root, epoch)
<1>1. PICK S : log \in Seq(S)
  BY DEF Linked
<1>2. n \in Nat /\ n > 0 /\ log[n].header = x.header /\ (n + 1) - 1 = n /\ n \in 1 .. n
  BY <1>1 DEF Linked
<1>3. /\ header.prev_block_hash = calc_hash(x.header)
      /\ header.block_height = x.header.block_height + 1
      /\ header.host_height = host
      /\ header.timestamp_ns = timestamp
      /\ header.epoch_id = IF x.header.next_epoch_commitment # None
                           THEN calc_hash(x.header) ELSE x.header.epoch_id
  BY DEF NextHeader
<1> HIDE DEF header
<1>4. header.host_height > x.header.host_height /\ header.timestamp_ns > x.header.timestamp_ns
  BY <1>3 DEF IsLater
<1>5. log[n].next_epoch = x.header.next_epoch_commitment
  BY <1>2 DEF Linked
<1> HIDE DEF n
<1>6. \E d \in 1 .. n : Defines(log, d, n + 1) /\ header.epoch_id = calc_hash(log[d].header)
  <2>1. CASE log[n].next_epoch # None
    <3>1. n + 1 .. n = {}
      BY <1>2
    <3>2. Defines(log, n, n + 1)
      BY <1>2, <2>1, <3>1 DEF Defines
    <3> QED
      BY <1>2, <1>3, <1>5, <2>1, <3>2
  <2>2. CASE log[n].next_epoch = None
    <3>1. n # 1 /\ n \in 2 .. n
      BY <1>2, <2>2 DEF Linked
    <3>2. Extends(log, n, log[n].header)
      BY <3>1 DEF Linked, n
    <3>3. PICK d \in 1 .. n - 1 :
            Defines(log, d, n) /\ log[n].header.epoch_id = calc_hash(log[d].header)
      BY <3>2 DEF Extends
    <3>4. ASSUME NEW j \in d + 1 .. n PROVE log[j].next_epoch = None
      <4>1. j = n \/ j \in d + 1 .. n - 1
        BY <1>2
      <4> QED
        BY <2>2, <3>3, <4>1 DEF Defines
    <3>5. d \in 1 .. n
      BY <1>2
    <3>6. Defines(log, d, n + 1)
      BY <1>2, <3>3, <3>4, <3>5 DEF Defines
    <3>7. header.epoch_id = x.header.epoch_id
      BY <1>3, <1>5, <2>2
    <3> QED
      BY <1>2, <3>3, <3>5, <3>6, <3>7
  <2> QED
    BY <2>1, <2>2
<1>7. Extends(log, n + 1, header)
  BY <1>2, <1>3, <1>4, <1>6 DEF Extends
<1> QED
  BY <1>7 DEF n, header

LEMMA AdvancesLinked ==
  ASSUME NEW x, GoodChain(x), NEW y, Advances(x, y), NEW log, Linked(x, log),
         host_height \in Nat, host_timestamp \in Nat
  PROVE  Linked(y, log)
<1>1. y.header = x.header
  BY DEF Advances, SameHead
<1>2. ASSUME y.pending_block # None
      PROVE  Extends(log, Len(log) + 1, y.pending_block.next_block.header)
  <2>1. CASE SameBlocks(x, y)
    BY <1>2, <2>1 DEF SameBlocks, Linked
  <2>2. CASE NewBlock(x, y)
    <3> DEFINE b == y.pending_block.next_block
    <3>1. /\ IsLater(x.header, host_height, host_timestamp)
          /\ b.header = NextHeader(x.header, host_height, host_timestamp,
                                   state_root, b.next_epoch)
      BY <2>2 DEF NewBlock
    <3>2. Extends(log, Len(log) + 1, NextHeader(x.header, host_height, host_timestamp,
                                                 state_root, b.next_epoch))
      <4> HIDE DEF b
      <4> QED
        BY <3>1, NextHeaderExtends
    <3> QED
      BY <3>1, <3>2
  <2> QED
    BY <2>1, <2>2 DEF Advances
<1> QED
  BY <1>1, <1>2 DEF Linked

LEMMA AdvancesDated ==
  ASSUME NEW x, NEW y, Advances(x, y), NEW log, Dated(x, log)
  PROVE  Dated(y, log)
  BY DEF Advances, SameHead, Dated

\* The queue holds the last entries of the first n of H.
EndOf(queue, H, n) ==
  /\ Len(queue) < n
  /\ \A i \in 1 .. Len(queue) : queue[i] = H[n - Len(queue) + i]

LEMMA LastPlaces ==
  ASSUME NEW n \in Nat, NEW m \in Nat, m < n, NEW i \in 1 .. m
  PROVE  n - m + i \in 1 .. n + 1 /\ n - m + i <= n
  OBVIOUS

(* Pushing the state of a new block and dropping the oldest one when the   *)
(* queue is full keeps the queue on the newest blocks.                     *)
LEMMA PushQueued ==
  ASSUME NEW S, NEW queue \in Seq(S), Len(queue) \in 0 .. MaxConsensusStates,
         NEW n \in Nat, NEW H, EndOf(queue, H, n), NEW state, state = H[n + 1]
  PROVE  /\ Len(PushConsensusState(queue, state)) > 0
         /\ EndOf(PushConsensusState(queue, state), H, n + 1)
<1> DEFINE rest == IF Len(queue) = MaxConsensusStates THEN Tail(queue) ELSE queue
           new  == PushConsensusState(queue, state)
           k    == Len(rest)
<1>1. MaxConsensusStates \in Nat \ {0} /\ Len(queue) \in Nat
  BY GuestChainAssumption
<1>0. /\ Len(queue) < n
      /\ \A i \in 1 .. Len(queue) : queue[i] = H[n - Len(queue) + i]
  BY DEF EndOf
<1>2. /\ rest \in Seq(S) /\ k \in Nat /\ k <= Len(queue)
      /\ \A i \in 1 .. k : i + (Len(queue) - k) \in 1 .. Len(queue)
                           /\ rest[i] = queue[i + (Len(queue) - k)]
  <2>1. CASE Len(queue) = MaxConsensusStates
    <3>1. queue # <<>> /\ rest = Tail(queue)
      BY <1>1, <2>1
    <3>2. Tail(queue) \in Seq(S) /\ Len(Tail(queue)) = Len(queue) - 1
          /\ \A i \in 1 .. Len(queue) - 1 : Tail(queue)[i] = queue[i + 1]
      BY <1>1, <3>1
    <3>3. rest \in Seq(S) /\ k = Len(queue) - 1
          /\ \A i \in 1 .. Len(queue) - 1 : rest[i] = queue[i + 1]
      BY <3>1, <3>2
    <3>4. k \in Nat /\ k <= Len(queue) /\ Len(queue) - k = 1
          /\ \A i \in 1 .. k : i + 1 \in 1 .. Len(queue)
      <4> HIDE DEF rest
      <4> QED BY <1>1, <2>1, <3>3
    <3> HIDE DEF rest, k
    <3> QED
      BY <3>3, <3>4
  <2>2. CASE Len(queue) # MaxConsensusStates
    <3>1. rest = queue /\ k = Len(queue)
      BY <2>2
    <3> HIDE DEF rest, k
    <3>2. Len(queue) - k = 0 /\ \A i \in 1 .. k : i + 0 = i
      BY <1>1, <3>1
    <3> QED
      BY <1>1, <3>1, <3>2
  <2> QED
    BY <2>1, <2>2
<1>3. new = Append(rest, state)
  BY DEF PushConsensusState
<1> HIDE DEF rest, new
<1>4. /\ Len(new) = k + 1
      /\ new[k + 1] = state
      /\ \A i \in 1 .. k : new[i] = rest[i]
  <2>1. rest \in Seq(S \cup {state})
    BY <1>2
  <2> QED
    BY <1>3, <2>1
<1> HIDE DEF k
<1>5. Len(new) > 0 /\ Len(new) < n + 1
  BY <1>1, <1>0, <1>2, <1>4
<1>6. ASSUME NEW i \in 1 .. Len(new)
      PROVE  new[i] = H[(n + 1) - Len(new) + i]
  <2>1. CASE i = k + 1
    <3>1. (n + 1) - Len(new) + i = n + 1
      BY <1>2, <1>4, <2>1
    <3> QED
      BY <1>4, <2>1, <3>1
  <2>2. CASE i \in 1 .. k
    <3>1. new[i] = queue[i + (Len(queue) - k)] /\ i + (Len(queue) - k) \in 1 .. Len(queue)
      BY <1>2, <1>4, <2>2
    <3>2. queue[i + (Len(queue) - k)] = H[n - Len(queue) + (i + (Len(queue) - k))]
      BY <1>0, <3>1
    <3>3. n - Len(queue) + (i + (Len(queue) - k)) = (n + 1) - Len(new) + i
      BY <1>1, <1>2, <1>4
    <3> QED
      BY <3>1, <3>2, <3>3
  <2> QED
    BY <1>2, <1>4, <2>1, <2>2
<1> QED
  BY <1>5, <1>6 DEF new, EndOf

(* The height of the head is the length of the log.                        *)
LEMMA HeadHeight ==
  ASSUME NEW x, NEW log, Linked(x, log)
  PROVE  /\ Len(log) \in Nat /\ Len(log) > 0
         /\ x.header.block_height = Len(log)
<1>1. PICK S : log \in Seq(S)
  BY DEF Linked
<1>2. Len(log) \in Nat /\ Len(log) > 0 /\ Len(log) \in 1 .. Len(log)
  BY <1>1 DEF Linked
<1> QED
  BY <1>2 DEF Linked

LEMMA AdvancesQueued ==
  ASSUME NEW x, GoodChain(x), NEW y, Advances(x, y), NEW log, Linked(x, log), Queued(x, log)
  PROVE  Queued(y, log)
<1>1. y.header = x.header
  BY DEF Advances, SameHead
<1>2. CASE SameBlocks(x, y)
  <2>1. head(y) = head(x) /\ y.consensus_states = x.consensus_states
    BY <1>1, <1>2 DEF SameBlocks, head
  <2>2. \A h : HeaderIn(y, log, h) = HeaderIn(x, log, h)
    BY <2>1 DEF HeaderIn
  <2> QED
    BY <2>1, <2>2 DEF Queued
<1>3. CASE NewBlock(x, y)
  <2> DEFINE header == y.pending_block.next_block.header
             n      == Len(log)
             queue  == x.consensus_states
             H      == [h \in 1 .. n + 1 |-> StateOf(HeaderIn(y, log, h))]
  <2>1. /\ x.pending_block = None /\ y.pending_block # None
        /\ header.block_height = x.header.block_height + 1
        /\ y.consensus_states = PushConsensusState(queue, StateOf(header))
    BY <1>3 DEF NewBlock, NextHeader
  <2>2. n \in Nat /\ x.header.block_height = n
    BY HeadHeight
  <2>3. head(x) = x.header /\ head(y) = header
    BY <2>1 DEF head
  <2> HIDE DEF header, n
  <2>4. HeaderIn(y, log, n + 1) = header
    <3>1. ~(n + 1 <= n)
      BY <2>2
    <3> QED
      BY <2>3, <3>1 DEF HeaderIn, n
  <2>5. /\ Len(queue) < n
        /\ \A i \in 1 .. Len(queue) : queue[i] = StateOf(HeaderIn(x, log, n - Len(queue) + i))
    BY <2>2, <2>3 DEF Queued
  <2>6. PICK S : queue \in Seq(S)
    BY ChainParts
  <2>7. Len(queue) \in 0 .. MaxConsensusStates /\ Len(queue) \in Nat
    BY <2>6, ChainParts
  <2>8. ASSUME NEW i \in 1 .. Len(queue)
        PROVE  queue[i] = H[n - Len(queue) + i]
    <3>1. n - Len(queue) + i \in 1 .. n + 1 /\ n - Len(queue) + i <= n
      <4>1. n \in Nat /\ Len(queue) \in Nat /\ Len(queue) < n
        BY <2>2, <2>5, <2>7
      <4> HIDE DEF H, queue
      <4> QED
        BY <4>1, LastPlaces
    <3>2. HeaderIn(x, log, n - Len(queue) + i) = HeaderIn(y, log, n - Len(queue) + i)
      BY <3>1 DEF HeaderIn, n
    <3>3. H[n - Len(queue) + i] = StateOf(HeaderIn(y, log, n - Len(queue) + i))
      BY <3>1
    <3> HIDE DEF H
    <3> QED
      BY <2>5, <3>2, <3>3
  <2>9. StateOf(header) = H[n + 1]
    <3>1. n + 1 \in 1 .. n + 1
      BY <2>2
    <3> QED
      BY <2>4, <3>1
  <2> DEFINE new == y.consensus_states
  <2>10. /\ Len(new) > 0 /\ Len(new) < n + 1
         /\ \A i \in 1 .. Len(new) : new[i] = H[(n + 1) - Len(new) + i]
    <3> HIDE DEF H
    <3>1. EndOf(queue, H, n)
      BY <2>5, <2>8 DEF EndOf
    <3> DEFINE st == StateOf(header)
    <3>2. st = H[n + 1]
      BY <2>9
    <3> HIDE DEF st, queue
    <3>3. /\ Len(PushConsensusState(queue, st)) > 0
          /\ EndOf(PushConsensusState(queue, st), H, n + 1)
      BY <2>2, <2>6, <2>7, <3>1, <3>2, PushQueued
    <3>4. new = PushConsensusState(queue, st)
      BY <2>1 DEF st
    <3> QED
      BY <3>3, <3>4 DEF EndOf
  <2>11. Len(new) \in Nat
    <3>1. \E T : PushConsensusState(queue, StateOf(header)) \in Seq(T)
      BY <2>6, <2>7, PushBounded
    <3> QED
      BY <2>1, <3>1
  <2> HIDE DEF new
  <2>12. ASSUME NEW i \in 1 .. Len(new)
         PROVE  new[i] = StateOf(HeaderIn(y, log, (n + 1) - Len(new) + i))
    <3>1. (n + 1) - Len(new) + i \in 1 .. n + 1
      BY <2>2, <2>10, <2>11
    <3> QED
      BY <2>10, <3>1
  <2>13. head(y).block_height = n + 1
    BY <2>1, <2>2, <2>3
  <2> QED
    BY <2>10, <2>12, <2>13 DEF Queued, new
<1> QED
  BY <1>2, <1>3 DEF Advances

\* What an instruction finds and leaves.
Ordered(x, log) == Linked(x, log) /\ Dated(x, log) /\ Queued(x, log) /\ Current(x)

LEMMA AdvancesOrdered ==
  ASSUME NEW x, GoodChain(x), NEW y, Advances(x, y), NEW log, Ordered(x, log),
         host_height \in Nat, host_timestamp \in Nat
  PROVE  Ordered(y, log)
<1>1. Linked(x, log) /\ Dated(x, log) /\ Queued(x, log) /\ Current(x)
  BY DEF Ordered
<1>2. Linked(y, log)
  BY <1>1, AdvancesLinked
<1>3. Dated(y, log)
  BY <1>1, AdvancesDated
<1>4. Queued(y, log)
  BY <1>1, AdvancesQueued
<1>5. Current(y)
  BY <1>1 DEF Advances
<1> QED
  BY <1>2, <1>3, <1>4, <1>5 DEF Ordered

-----------------------------------------------------------------------------
(* Signatures.                                                             *)

LEMMA SignedOrdered ==
  ASSUME NEW x, GoodChain(x), NEW V, VotesMatch(x, V), NEW pk \in PubKey,
         x.pending_block # None, HasValidator(x.next_epoch.validators, pk),
         got_new_signature(x, pk), NEW log, Ordered(x, log)
  PROVE  /\ Ordered(Signed(x, pk), log)
         /\ Signed(x, pk).last_check_height = x.last_check_height
<1> DEFINE y == Signed(x, pk)
           q == [x.pending_block EXCEPT !.signers       = @ \cup {pk},
                                        !.signing_stake = StakeWith(x, pk)]
<1>1. /\ y.header = x.header
      /\ y.next_epoch = x.next_epoch
      /\ y.pending_block # None
      /\ y.pending_block.next_block = x.pending_block.next_block
  BY SignedGood
<1>2. ChainFields(x)
  BY ChainParts
<1>3. y = [x EXCEPT !.pending_block = q]
  BY DEF Signed
<1> HIDE DEF q, y
<1>4. /\ y.last_check_height = x.last_check_height
      /\ y.epoch_height = x.epoch_height
      /\ y.candidates = x.candidates
      /\ y.consensus_states = x.consensus_states
  <2>1. y = [last_check_height |-> x.last_check_height, config |-> x.config,
             genesis |-> x.genesis, header |-> x.header,
             next_epoch |-> x.next_epoch, pending_block |-> q,
             epoch_height |-> x.epoch_height, candidates |-> x.candidates,
             consensus_states |-> x.consensus_states]
    BY <1>2, <1>3 DEF ChainFields
  <2> QED
    BY <2>1
<1>5. Linked(x, log) /\ Dated(x, log) /\ Queued(x, log) /\ Current(x)
  BY DEF Ordered
<1>6. Linked(y, log)
  BY <1>1, <1>5 DEF Linked
<1>7. Dated(y, log)
  BY <1>1, <1>4, <1>5 DEF Dated
<1>8. Queued(y, log)
  <2>1. head(y) = head(x)
    BY <1>1 DEF head
  <2>2. \A h : HeaderIn(y, log, h) = HeaderIn(x, log, h)
    BY <2>1 DEF HeaderIn
  <2> QED
    BY <1>4, <1>5, <2>1, <2>2 DEF Queued
<1>9. Current(y)
  <2>1. Latest(y) = Latest(x)
    BY <1>1 DEF Latest
  <2> QED
    BY <1>4, <1>5, <2>1 DEF Current
<1> QED
  BY <1>4, <1>6, <1>7, <1>8, <1>9 DEF Ordered, y

LEMMA ExtendsAppend ==
  ASSUME NEW S, NEW log \in Seq(S), NEW b, NEW i \in 2 .. Len(log) + 1, NEW header,
         Extends(log, i, header)
  PROVE  Extends(Append(log, b), i, header)
<1> DEFINE new == Append(log, b)
<1>1. \A j \in 1 .. Len(log) : new[j] = log[j]
  OBVIOUS
<1>2. Len(log) \in Nat
  OBVIOUS
<1> HIDE DEF new
<1>3. i - 1 \in 1 .. Len(log)
  BY <1>2
<1>4. PICK d \in 1 .. i - 1 : Defines(log, d, i) /\ header.epoch_id = calc_hash(log[d].header)
  BY DEF Extends
<1>5. d \in 1 .. Len(log) /\ \A j \in d + 1 .. i - 1 : j \in 1 .. Len(log)
  BY <1>2
<1>6. Defines(new, d, i) /\ new[d] = log[d]
  BY <1>1, <1>4, <1>5 DEF Defines
<1>7. new[i - 1] = log[i - 1]
  BY <1>1, <1>3
<1>8. Extends(new, i, header)
  BY <1>4, <1>6, <1>7 DEF Extends
<1> QED
  BY <1>8 DEF new

LEMMA PromoteOrdered ==
  ASSUME NEW x, GoodChain(x), x.pending_block # None, NEW log, Ordered(x, log),
         NEW b, b.header = x.pending_block.next_block.header,
         b.next_epoch = x.pending_block.next_block.next_epoch
  PROVE  /\ Ordered(Promote(x), Append(log, b))
         /\ Promote(x).last_check_height = x.last_check_height
<1> DEFINE y   == Promote(x)
           new == Append(log, b)
           n   == Len(log)
           e   == IF b.next_epoch # None THEN b.next_epoch ELSE x.next_epoch
           s   == IF b.next_epoch # None THEN b.header.host_height ELSE x.epoch_height
<1>1. /\ Linked(x, log) /\ Dated(x, log) /\ Queued(x, log) /\ Current(x)
      /\ Extends(log, n + 1, b.header)
  BY DEF Ordered, Linked
<1>2. IsHeader(b.header) /\ b.next_epoch = b.header.next_epoch_commitment
  BY ChainParts DEF IsPending
<1>3. /\ y.header = b.header
      /\ y.pending_block = None
      /\ y.next_epoch = e
      /\ y.epoch_height = s
      /\ y.last_check_height = x.last_check_height
      /\ y.candidates = x.candidates
      /\ y.consensus_states = x.consensus_states
  <2>1. ChainFields(x)
    BY ChainParts
  <2>2. y = [x EXCEPT !.pending_block = None, !.header = b.header,
                      !.next_epoch = e, !.epoch_height = s]
    BY DEF Promote
  <2> HIDE DEF y, e, s
  <2>3. y = [last_check_height |-> x.last_check_height, config |-> x.config,
             genesis |-> x.genesis, header |-> b.header,
             next_epoch |-> e, pending_block |-> None,
             epoch_height |-> s, candidates |-> x.candidates,
             consensus_states |-> x.consensus_states]
    BY <2>1, <2>2 DEF ChainFields
  <2> QED
    BY <2>3
<1>4. PICK S : log \in Seq(S)
  BY <1>1 DEF Linked
<1>5. /\ n \in Nat /\ n > 0 /\ x.header.block_height = n
      /\ log[n].header = x.header
  BY <1>1, HeadHeight DEF Linked
<1>6. /\ Len(new) = n + 1
      /\ new[n + 1] = b
      /\ \A i \in 1 .. n : new[i] = log[i]
      /\ new \in Seq(S \cup {b})
  <2>1. log \in Seq(S \cup {b})
    BY <1>4
  <2> QED
    BY <2>1
<1>7. \A i \in 2 .. n + 1 : \A h : Extends(log, i, h) => Extends(new, i, h)
  BY <1>4, ExtendsAppend
<1> HIDE DEF y, new, n
<1>8. /\ b.header.block_height = n + 1
      /\ b.header.host_height > x.header.host_height
  <2>1. (n + 1) - 1 = n
    BY <1>5
  <2> QED
    BY <1>1, <1>5, <2>1 DEF Extends
<1>9. \A i \in 1 .. n + 1 : i = n + 1 \/ i \in 1 .. n
  BY <1>5
<1>10. Linked(y, new)
  <2>1. new[1].next_epoch # None
    BY <1>1, <1>5, <1>6, 1 \in 1 .. n DEF Linked
  <2>2. ASSUME NEW i \in 1 .. Len(new)
        PROVE  /\ IsHeader(new[i].header)
               /\ new[i].header.block_height = i
               /\ new[i].next_epoch = new[i].header.next_epoch_commitment
    <3>1. CASE i = n + 1
      BY <1>2, <1>6, <1>8, <3>1
    <3>2. CASE i \in 1 .. n
      BY <1>1, <1>6, <3>2 DEF Linked, n
    <3> QED
      BY <1>6, <1>9, <3>1, <3>2
  <2>3. ASSUME NEW i \in 2 .. Len(new) PROVE Extends(new, i, new[i].header)
    <3>1. i \in 2 .. n + 1
      BY <1>6
    <3>2. CASE i = n + 1
      BY <1>1, <1>6, <1>7, <3>1, <3>2
    <3>3. CASE i # n + 1
      <4>1. i \in 2 .. n /\ i \in 1 .. n
        BY <1>5, <3>1, <3>3
      <4>2. Extends(log, i, log[i].header)
        BY <1>1, <4>1 DEF Linked, n
      <4> QED
        BY <1>6, <1>7, <3>1, <4>1, <4>2
    <3> QED
      BY <3>2, <3>3
  <2>4. Len(new) > 0 /\ new[Len(new)].header = y.header
    BY <1>3, <1>5, <1>6
  <2>5. \E T : new \in Seq(T)
    BY <1>6
  <2> QED
    BY <1>3, <2>1, <2>2, <2>3, <2>4, <2>5 DEF Linked
<1>11. Dated(y, new)
  <2>1. SUFFICES ASSUME NEW i \in 1 .. Len(new)
                 PROVE  /\ new[i].header.host_height <= y.header.host_height
                        /\ new[i].next_epoch # None =>
                             new[i].header.host_height <= y.epoch_height
    BY DEF Dated
  <2>2. b.header.host_height \in Nat /\ x.header.host_height \in Nat /\ x.epoch_height \in Nat
    BY <1>2, ChainParts DEF IsHeader
  <2>3. CASE i = n + 1
    <3>1. new[i] = b
      BY <1>6, <2>3
    <3> QED
      BY <1>3, <2>2, <3>1
  <2>4. CASE i \in 1 .. n
    <3>1. /\ new[i] = log[i]
          /\ log[i].header.host_height <= x.header.host_height
          /\ log[i].next_epoch # None => log[i].header.host_height <= x.epoch_height
          /\ IsHeader(log[i].header)
      BY <1>1, <1>6, <2>4 DEF Dated, Linked, n
    <3>2. log[i].header.host_height \in Nat
      BY <3>1 DEF IsHeader
    <3>3. log[i].header.host_height <= b.header.host_height
      BY <1>8, <2>2, <3>1, <3>2
    <3> QED
      BY <1>3, <3>1, <3>3
  <2> QED
    BY <1>6, <1>9, <2>3, <2>4
<1>12. Queued(y, new)
  <2>1. head(x) = b.header /\ head(y) = b.header
    BY <1>3 DEF head
  <2> DEFINE queue == x.consensus_states
  <2>2. Len(queue) \in Nat
    BY ChainParts
  <2>3. /\ n + 1 > 1 => Len(queue) > 0
        /\ Len(queue) < n + 1
        /\ \A i \in 1 .. Len(queue) :
             queue[i] = StateOf(HeaderIn(x, log, (n + 1) - Len(queue) + i))
    BY <1>1, <1>8, <2>1 DEF Queued
  <2>4. \A h \in 1 .. n + 1 : HeaderIn(y, new, h) = HeaderIn(x, log, h)
    <3>1. SUFFICES ASSUME NEW h \in 1 .. n + 1
                   PROVE  HeaderIn(y, new, h) = HeaderIn(x, log, h)
      OBVIOUS
    <3>2. h <= Len(new) /\ HeaderIn(y, new, h) = new[h].header
      BY <1>5, <1>6 DEF HeaderIn
    <3>3. CASE h = n + 1
      <4>1. ~(h <= Len(log))
        BY <1>5, <3>3 DEF n
      <4> QED
        BY <1>6, <2>1, <3>2, <3>3, <4>1 DEF HeaderIn
    <3>4. CASE h \in 1 .. n
      <4>1. h <= Len(log)
        BY <1>5, <3>4 DEF n
      <4> QED
        BY <1>6, <3>2, <3>4, <4>1 DEF HeaderIn
    <3> QED
      BY <1>9, <3>3, <3>4
  <2>5. ASSUME NEW i \in 1 .. Len(queue)
        PROVE  queue[i] = StateOf(HeaderIn(y, new, (n + 1) - Len(queue) + i))
    <3>1. (n + 1) - Len(queue) + i \in 1 .. n + 1
      BY <1>5, <2>2, <2>3
    <3> QED
      BY <2>3, <2>4, <3>1
  <2> QED
    BY <1>3, <1>8, <2>1, <2>3, <2>5 DEF Queued
<1>13. Current(y)
  <2>1. Latest(y) = Latest(x)
    BY <1>3 DEF Latest
  <2> QED
    BY <1>1, <1>3, <2>1 DEF Current
<1> QED
  BY <1>3, <1>10, <1>11, <1>12, <1>13 DEF Ordered, y, new

-----------------------------------------------------------------------------
(* The inductive invariant.  The log and the queue need to know that the   *)
(* pending block extends the log and that the host's height bounds the     *)
(* heights on record.  That blocks hold whole slots rests on the last      *)
(* conjunct: until the chain account was checked in this slot, nothing has *)
(* written to the trie.                                                    *)

Fresh == chain.last_check_height = host_height \/ state_root = slot_root

OInv == IInv /\ Ordered(chain, blocks) /\ Fresh

LEMMA InitOInv == Init => OInv
<1>1. SUFFICES ASSUME Init PROVE OInv
  OBVIOUS
<1>2. IInv
  BY <1>1, InitIInv
<1>3. PICK cfg \in InitialConfigs, epoch \in GenesisEpochs, root \in Roots :
        \E cs \in NewCandidates(cfg.max_validators, epoch.validators) :
          /\ chain = [last_check_height |-> 1, config |-> cfg,
                      genesis |-> calc_hash(GenesisHeader(1, 1, root, epoch)),
                      header |-> GenesisHeader(1, 1, root, epoch),
                      next_epoch |-> epoch, pending_block |-> None,
                      epoch_height |-> 1, candidates |-> cs,
                      consensus_states |-> <<>>]
          /\ state_root = root /\ slot_root = root
          /\ blocks = <<[header |-> GenesisHeader(1, 1, root, epoch),
                         next_epoch |-> epoch, votes |-> {}]>>
  BY <1>1 DEF Init
<1> DEFINE genesis == GenesisHeader(1, 1, root, epoch)
           b       == [header |-> genesis, next_epoch |-> epoch, votes |-> {}]
<1>4. PICK cs \in NewCandidates(cfg.max_validators, epoch.validators) :
        /\ chain = [last_check_height |-> 1, config |-> cfg,
                    genesis |-> calc_hash(genesis), header |-> genesis,
                    next_epoch |-> epoch, pending_block |-> None,
                    epoch_height |-> 1, candidates |-> cs,
                    consensus_states |-> <<>>]
        /\ state_root = root /\ slot_root = root
        /\ blocks = <<b>>
  BY <1>3
<1>5. /\ genesis.block_height = 1
      /\ genesis.host_height = 1
      /\ genesis.next_epoch_commitment = epoch
  BY DEF GenesisHeader
<1>6. b.header = genesis /\ b.next_epoch = epoch
  OBVIOUS
<1> HIDE DEF genesis, b
<1>7. /\ chain.header = genesis
      /\ chain.next_epoch = epoch
      /\ chain.pending_block = None
      /\ chain.epoch_height = 1
      /\ chain.candidates = cs
      /\ chain.consensus_states = <<>>
  BY <1>4
<1>8. blocks \in Seq({b}) /\ Len(blocks) = 1 /\ blocks[1] = b
  BY <1>4
<1>9. IsConfig(cfg) /\ ValidEpoch(epoch)
  BY GuestChainAssumption
<1>10. GoodChain(chain) /\ Fresh
  BY <1>2, <1>4 DEF IInv, Fresh
<1>11. Linked(chain, blocks)
  <2>1. epoch # None
    BY <1>9 DEF CheckedEpoch, ValidEpoch, None
  <2>2. IsHeader(genesis)
    BY <1>7, <1>10, ChainParts
  <2>3. 1 .. Len(blocks) = {1} /\ 2 .. Len(blocks) = {} /\ Len(blocks) > 0
    BY <1>8
  <2> QED
    BY <1>5, <1>6, <1>7, <1>8, <2>1, <2>2, <2>3 DEF Linked
<1>12. Dated(chain, blocks)
  <2>1. 1 .. Len(blocks) = {1}
    BY <1>8
  <2>2. \A i \in 1 .. Len(blocks) : blocks[i].header.host_height = 1
    BY <1>5, <1>6, <1>8, <2>1
  <2>3. chain.header.host_height = 1 /\ chain.epoch_height = 1
    BY <1>5, <1>7
  <2> QED
    BY <2>2, <2>3 DEF Dated
<1>13. Queued(chain, blocks)
  <2>1. head(chain).block_height = 1 /\ chain.consensus_states = <<>>
    BY <1>5, <1>7 DEF head
  <2>2. Len(chain.consensus_states) = 0 /\ 1 .. 0 = {}
    BY <2>1
  <2> QED
    BY <2>1, <2>2 DEF Queued
<1>14. Current(chain)
  <2> DEFINE V   == epoch.validators
             max == cfg.max_validators
  <2>1. max \in Nat \ {0}
    BY <1>9, ConfigTypes
  <2>2. V \subseteq Candidate /\ ValidatorSet(V)
    BY <1>9, EpochValidators DEF CheckedEpoch, ValidEpoch
  <2>3. /\ cs.max_validators = max
        /\ Listed(cs.candidates) = V
        /\ Len(cs.candidates) = Cardinality(V)
        /\ cs.changed = (Cardinality(V) > max)
    BY <2>1, <2>2, NewCandidatesEffect
  <2>4. cs.candidates \in Seq(Candidate) /\ Len(cs.candidates) \in Nat
    <3>1. Good(cs)
      BY <1>7, <1>10, ChainParts
    <3>2. cs.candidates \in Seq(Candidate)
      BY <3>1 DEF Good, IsCandidates
    <3> QED
      BY <3>2
  <2>5. SUFFICES ASSUME ~cs.changed PROVE V = TopValidators(cs)
    <3>1. Latest(chain) = epoch
      BY <1>7 DEF Latest
    <3> QED
      BY <1>7, <3>1 DEF Current
  <2> HIDE DEF V, max
  <2>6. ~(Cardinality(V) > max)
    BY <2>3, <2>5
  <2>7. max >= Len(cs.candidates)
    BY <2>1, <2>3, <2>4, <2>6
  <2> QED
    BY <2>1, <2>3, <2>4, <2>7, PrefixBeyond DEF TopValidators
<1> QED
  BY <1>2, <1>10, <1>11, <1>12, <1>13, <1>14 DEF OInv, Ordered

\* A step that makes a block pending built it on x, whose last final block is
\* the last one of the log.
Generates(x) ==
    /\ GoodChain(x)
    /\ Ordered(x, blocks')
    /\ x.last_check_height = chain.last_check_height
    /\ SameHead(x, chain')
    /\ NewBlock(x, chain')

StepSound == Ordered(chain, blocks)' /\ (NewPending => \E x : Generates(x))

LEMMA AdvanceStep ==
  ASSUME IInv, NEW x, GoodChain(x), Ordered(x, blocks'),
         x.last_check_height = chain.last_check_height, Advances(x, chain'),
         x = chain \/ x.pending_block = None
  PROVE  StepSound
<1>1. Ordered(chain', blocks')
  BY HostInNat, AdvancesOrdered
<1>2. SameHead(x, chain')
  BY DEF Advances
<1>3. CASE SameBlocks(x, chain')
  <2>1. ~NewPending
    BY <1>2, <1>3 DEF NewPending, SameBlocks, SameHead
  <2> QED
    BY <1>1, <2>1 DEF StepSound
<1>4. CASE NewBlock(x, chain')
  <2>1. Generates(x)
    BY <1>1, <1>2, <1>4 DEF Generates
  <2> QED
    BY <1>1, <2>1 DEF StepSound
<1> QED
  BY <1>3, <1>4 DEF Advances

LEMMA SignBlockStep ==
  ASSUME OInv, NEW pk \in PubKey, NEW fp, SignBlock(pk, fp)
  PROVE  /\ StepSound
         /\ chain'.last_check_height \in {chain.last_check_height, host_height}
<1>1. IInv /\ GoodChain(chain) /\ VotesMatch(chain, votes) /\ Ordered(chain, blocks)
  BY DEF OInv, IInv
<1>2. chain.pending_block # None /\ HasValidator(chain.next_epoch.validators, pk)
  BY DEF SignBlock, AcceptsSignature
<1>3. CASE ~got_new_signature(chain, pk)
  <2>1. chain' = chain /\ blocks' = blocks
    BY <1>3 DEF SignBlock, add_signature, got_quorum
  <2> QED
    BY <1>1, <1>2, <2>1 DEF StepSound, NewPending
<1>4. CASE got_new_signature(chain, pk) /\ ~got_quorum(chain, pk)
  <2>1. chain' = Signed(chain, pk) /\ blocks' = blocks
    BY <1>4 DEF SignBlock, add_signature
  <2>2. /\ Ordered(Signed(chain, pk), blocks)
        /\ Signed(chain, pk).last_check_height = chain.last_check_height
    BY <1>1, <1>2, <1>4, SignedOrdered
  <2>3. Signed(chain, pk).header = chain.header
    BY <1>1, <1>2, <1>4, SignedGood
  <2> QED
    BY <1>2, <2>1, <2>2, <2>3 DEF StepSound, NewPending
<1>5. CASE got_quorum(chain, pk)
  <2> DEFINE p == chain.pending_block.next_block
             b == [header |-> p.header, next_epoch |-> p.next_epoch,
                   votes |-> votes \cup {<<pk, fp>>}]
             x == Promote(chain)
  <2>1. chain' \in maybe_generate_block(x) /\ blocks' = Append(blocks, b)
    BY <1>5 DEF SignBlock, add_signature, got_quorum
  <2>2. b.header = p.header /\ b.next_epoch = p.next_epoch
    OBVIOUS
  <2>3. GoodChain(x) /\ x.pending_block = None
    BY <1>1, <1>2, PromoteGood
  <2> HIDE DEF b
  <2>4. Ordered(x, Append(blocks, b)) /\ x.last_check_height = chain.last_check_height
    BY <1>1, <1>2, <2>2, PromoteOrdered
  <2> HIDE DEF x
  <2>5. Advances(x, chain') /\ chain'.last_check_height = host_height
    BY <1>1, <2>1, <2>3, HostInNat, GenerateBlockAdvances DEF maybe_generate_block
  <2>6. StepSound
    BY <1>1, <2>1, <2>3, <2>4, <2>5, AdvanceStep
  <2> QED
    BY <2>5, <2>6
<1> QED
  BY <1>3, <1>4, <1>5 DEF got_quorum

(* Every instruction but sign_block and the host's clock.                  *)
LEMMA InstructionAdvances ==
  ASSUME IInv,
         \/ GenerateBlock
         \/ \E pk \in PubKey, amount \in StakeValues : SetStake(pk, amount)
         \/ \E changes \in StakeChanges : UpdateStake(changes)
         \/ \E root \in Roots : Deliver(root)
         \/ \E u \in ConfigUpdates : UpdateChainConfig(u)
  PROVE  /\ Advances(chain, chain')
         /\ UNCHANGED <<host_height, slot_root, blocks>>
         /\ state_root' = state_root \/ chain'.last_check_height = host_height
<1>1. GoodChain(chain) /\ host_height \in Nat /\ host_timestamp \in Nat
  BY HostInNat DEF IInv
<1>2. CASE GenerateBlock
  <2>1. Advances(chain, chain')
    BY <1>1, <1>2, GenerateBlockAdvances DEF GenerateBlock
  <2> QED
    BY <1>2, <2>1 DEF GenerateBlock, envVars
<1>3. ASSUME NEW pk \in PubKey, NEW amount \in StakeValues, SetStake(pk, amount)
      PROVE  Advances(chain, chain')
  <2>1. PICK x \in maybe_generate_block(chain) : chain' \in update_candidate(x, pk, amount)
    BY <1>3 DEF SetStake
  <2>2. GoodChain(x) /\ Advances(chain, x)
    BY <1>1, <2>1, GenerateBlockGood, GenerateBlockAdvances DEF maybe_generate_block
  <2>3. amount \in Nat
    BY GuestChainAssumption
  <2>4. Restaked(x, chain')
    BY <2>1, <2>2, <2>3, UpdateCandidateRestakes
  <2> QED
    BY <2>2, <2>4, AdvancesThenRestaked
<1>4. ASSUME NEW changes \in StakeChanges, UpdateStake(changes)
      PROVE  Advances(chain, chain')
  <2>1. PICK x \in maybe_generate_block(chain) : chain' \in update_stake(x, changes)
    BY <1>4 DEF UpdateStake
  <2>2. GoodChain(x) /\ Advances(chain, x)
    BY <1>1, <2>1, GenerateBlockGood, GenerateBlockAdvances DEF maybe_generate_block
  <2>3. Restaked(x, chain')
    BY <2>1, <2>2, UpdateStakeRestakes
  <2> QED
    BY <2>2, <2>3, AdvancesThenRestaked
<1>5. ASSUME NEW root \in Roots, Deliver(root)
      PROVE  Advances(chain, chain') /\ chain'.last_check_height = host_height
  BY <1>1, <1>5, GenerateBlockAdvances DEF Deliver, maybe_generate_block
<1>6. ASSUME NEW u \in ConfigUpdates, UpdateChainConfig(u)
      PROVE  Advances(chain, chain')
  BY <1>1, <1>6, UpdateConfigAdvances DEF UpdateChainConfig
<1>7. ASSUME NEW pk \in PubKey, NEW amount \in StakeValues, SetStake(pk, amount)
      PROVE  UNCHANGED <<host_height, slot_root, blocks, state_root>>
  BY <1>7 DEF SetStake, envVars
<1>8. ASSUME NEW changes \in StakeChanges, UpdateStake(changes)
      PROVE  UNCHANGED <<host_height, slot_root, blocks, state_root>>
  BY <1>8 DEF UpdateStake, envVars
<1>9. ASSUME NEW root \in Roots, Deliver(root)
      PROVE  UNCHANGED <<host_height, slot_root, blocks>>
  BY <1>9 DEF Deliver
<1>10. ASSUME NEW u \in ConfigUpdates, UpdateChainConfig(u)
       PROVE  UNCHANGED <<host_height, slot_root, blocks, state_root>>
  BY <1>10 DEF UpdateChainConfig, envVars
<1> QED
  BY <1>2, <1>3, <1>4, <1>5, <1>6, <1>7, <1>8, <1>9, <1>10

LEMMA NextStep ==
  ASSUME OInv, [Next]_vars
  PROVE  OInv' /\ StepSound
<1>1. IInv /\ IInv' /\ GoodChain(chain) /\ Ordered(chain, blocks) /\ Fresh
  BY NextIInv DEF OInv, IInv
<1>2. ASSUME StepSound, Fresh' PROVE OInv' /\ StepSound
  BY <1>1, <1>2 DEF OInv, StepSound
<1>3. ASSUME NEW timestamp \in 1 .. MaxTimestamp, Tick(timestamp)
      PROVE  StepSound /\ Fresh'
  <2>1. UNCHANGED <<chain, blocks>> /\ state_root' = slot_root'
    BY <1>3 DEF Tick
  <2> QED
    BY <1>1, <2>1 DEF StepSound, NewPending, Fresh
<1>4. ASSUME NEW pk \in PubKey, NEW fp \in Fingerprints, SignBlock(pk, fp)
      PROVE  StepSound /\ Fresh'
  <2>1. StepSound /\ chain'.last_check_height \in {chain.last_check_height, host_height}
    BY <1>4, SignBlockStep
  <2>2. UNCHANGED <<host_height, state_root, slot_root>>
    BY <1>4 DEF SignBlock, envVars
  <2> QED
    BY <1>1, <2>1, <2>2 DEF Fresh
<1>5. ASSUME \/ GenerateBlock
             \/ \E pk \in PubKey, amount \in StakeValues : SetStake(pk, amount)
             \/ \E changes \in StakeChanges : UpdateStake(changes)
             \/ \E root \in Roots : Deliver(root)
             \/ \E u \in ConfigUpdates : UpdateChainConfig(u)
      PROVE  StepSound /\ Fresh'
  <2>1. /\ Advances(chain, chain')
        /\ UNCHANGED <<host_height, slot_root, blocks>>
        /\ state_root' = state_root \/ chain'.last_check_height = host_height
    BY <1>1, <1>5, InstructionAdvances
  <2>2. StepSound
    BY <1>1, <2>1, AdvanceStep
  <2>3. chain'.last_check_height \in {chain.last_check_height, host_height}
    BY <2>1 DEF Advances
  <2> QED
    BY <1>1, <2>1, <2>2, <2>3 DEF Fresh
<1>6. CASE UNCHANGED vars
  <2>1. UNCHANGED <<chain, blocks, host_height, state_root, slot_root>>
    BY <1>6 DEF vars
  <2>2. StepSound /\ Fresh'
    BY <1>1, <2>1 DEF StepSound, NewPending, Fresh
  <2> QED
    BY <1>2, <2>2
<1> QED
  BY <1>2, <1>3, <1>4, <1>5, <1>6 DEF Next

LEMMA OrderInvariant == Spec => []OInv
<1>1. OInv /\ [Next]_vars => OInv'
  BY NextStep
<1> QED
  BY <1>1, InitOInv, PTL DEF Spec

-----------------------------------------------------------------------------
(* Results.                                                                *)

(* The final blocks form one chain, hash by hash, at rising host heights   *)
(* and timestamps, and each names the block that defined its epoch, for    *)
(* any validators and however generation, signatures and stake changes     *)
(* interleave and the host's clock misbehaves.                             *)
THEOREM FinalBlocksFormChain == Spec => []BlocksFormChain
<1>1. ASSUME OInv PROVE BlocksFormChain
  <2>1. \A i \in 2 .. Len(blocks) : Extends(blocks, i, blocks[i].header)
    BY <1>1 DEF OInv, Ordered, Linked
  <2>2. \A i, d : Defines(blocks, d, i) = DefinesEpochOf(d, i)
    BY DEF Defines, DefinesEpochOf
  <2> QED
    BY <2>1, <2>2 DEF BlocksFormChain, Extends
<1> QED
  BY <1>1, OrderInvariant, PTL

(* While the changed flag is clear, the epoch last put in a block is the   *)
(* one the candidates now call for, so maybe_generate_next_epoch, which    *)
(* asks the flag alone, never misses a change.                             *)
THEOREM EpochChangesAreNoticed == Spec => []UnchangedMeansCurrent
<1>1. ASSUME OInv PROVE UnchangedMeansCurrent
  <2>1. Current(chain)
    BY <1>1 DEF OInv, Ordered
  <2>2. LatestEpoch = Latest(chain)
    BY DEF LatestEpoch, Latest
  <2> QED
    BY <2>1, <2>2 DEF UnchangedMeansCurrent, Current
<1> QED
  BY <1>1, OrderInvariant, PTL

(* The local consensus states describe the newest blocks of the chain      *)
(* without a gap, whatever MAX_CONSENSUS_STATES is.                        *)
THEOREM ConsensusStatesAreNewest == Spec => []ConsensusStatesFollowChain
<1>1. ASSUME OInv PROVE ConsensusStatesFollowChain
  <2> DEFINE queue  == chain.consensus_states
             newest == head(chain).block_height
  <2>1. /\ Linked(chain, blocks)
        /\ newest > 1 => Len(queue) > 0
        /\ Len(queue) < newest
        /\ \A i \in 1 .. Len(queue) :
             queue[i] = StateOf(HeaderIn(chain, blocks, newest - Len(queue) + i))
    BY <1>1 DEF OInv, Ordered, Queued
  <2>2. GoodChain(chain)
    BY <1>1 DEF OInv, IInv
  <2>3. Len(queue) \in Nat /\ (Len(queue) > 0 => queue # <<>>)
    BY <2>2, ChainParts
  <2>4. Len(blocks) \in Nat /\ newest \in Nat /\ newest <= Len(blocks) + 1
    <3>1. Len(blocks) \in Nat /\ chain.header.block_height = Len(blocks)
      BY <2>1, HeadHeight
    <3>2. CASE chain.pending_block = None
      BY <3>1, <3>2 DEF head
    <3>3. CASE chain.pending_block # None
      <4>1. Extends(blocks, Len(blocks) + 1, head(chain))
            /\ blocks[Len(blocks)].header = chain.header
        BY <2>1, <3>3 DEF Linked, head
      <4>2. (Len(blocks) + 1) - 1 = Len(blocks)
        BY <3>1
      <4>3. head(chain).block_height = Len(blocks) + 1
        BY <3>1, <4>1, <4>2 DEF Extends
      <4> QED
        BY <3>1, <4>3
    <3> QED
      BY <3>2, <3>3
  <2>5. ASSUME NEW i \in 1 .. Len(queue)
        PROVE  LET h == newest - Len(queue) + i
                   header == HeaderAt(h)
               IN  queue[i] = [height |-> h, timestamp |-> header.timestamp_ns,
                               blockhash |-> calc_hash(header)]
    <3> DEFINE h == newest - Len(queue) + i
    <3>1. queue[i] = StateOf(HeaderAt(h))
      BY <2>1 DEF HeaderAt, HeaderIn
    <3>2. h \in 1 .. newest
      <4> HIDE DEF queue, newest
      <4> QED
        BY <2>1, <2>3, <2>4
    <3>3. HeaderAt(h).block_height = h
      <4>1. CASE h <= Len(blocks)
        <5>1. h \in 1 .. Len(blocks)
          BY <2>4, <3>2, <4>1
        <5> QED
          BY <2>1, <4>1, <5>1 DEF HeaderAt, Linked
      <4>2. CASE ~(h <= Len(blocks))
        <5>1. h = newest
          BY <2>4, <3>2, <4>2
        <5> QED
          BY <4>2, <5>1 DEF HeaderAt
      <4> QED
        BY <4>1, <4>2
    <3> QED
      BY <3>1, <3>3 DEF StateOf
  <2> QED
    BY <2>1, <2>3, <2>5 DEF ConsensusStatesFollowChain
<1> QED
  BY <1>1, OrderInvariant, PTL

(* A block commits to the trie as it stood when the host's slot began:     *)
(* last_check_height keeps an instruction from generating a block after    *)
(* another one of the slot has written to the trie.                        *)
THEOREM SlotsAreWhole == Spec => BlocksHoldWholeSlots
<1>1. ASSUME OInv, [Next]_vars, NewPending
      PROVE  chain'.pending_block.next_block.header.state_root = slot_root
  <2>1. PICK x : Generates(x)
    BY <1>1, NextStep DEF StepSound
  <2>2. x.last_check_height = chain.last_check_height /\ x.last_check_height # host_height
        /\ chain'.pending_block.next_block.header.state_root = state_root
    BY <2>1 DEF Generates, NewBlock, NextHeader
  <2> QED
    BY <1>1, <2>2 DEF OInv, Fresh
<1> QED
  BY <1>1, OrderInvariant, PTL DEF Spec, BlocksHoldWholeSlots

(* Blocks keep min_block_length to the head and epochs min_epoch_length to *)
(* every block that defined one, also when sign_block finalises one block  *)
(* and generates the next in one instruction.                              *)
THEOREM BlocksKeepDistance == Spec => BlocksAreSpaced
<1> DEFINE new == chain'.pending_block.next_block
           Spaced ==
             /\ new.header.host_height - chain'.header.host_height
                   >= chain'.config.min_block_length
             /\ new.next_epoch # None =>
                   \A i \in 1 .. Len(blocks') : blocks'[i].next_epoch # None =>
                     new.header.host_height - blocks'[i].header.host_height
                       >= chain'.config.min_epoch_length
<1>1. ASSUME OInv, [Next]_vars, NewPending
      PROVE  Spaced
  <2>1. PICK x : Generates(x)
    BY <1>1, NextStep DEF StepSound
  <2>2. /\ GoodChain(x) /\ Linked(x, blocks') /\ Dated(x, blocks')
        /\ chain'.header = x.header
    BY <2>1 DEF Generates, Ordered, SameHead
  <2>3. /\ chain'.config = x.config
        /\ new.header.host_height = host_height
        /\ host_height - x.header.host_height >= x.config.min_block_length
        /\ new.next_epoch # None =>
             host_height - x.epoch_height >= x.config.min_epoch_length
    BY <2>1 DEF Generates, NewBlock, NextHeader
  <2>4. host_height \in Nat /\ x.epoch_height \in Nat /\ x.config.min_epoch_length \in Nat
    <3>1. IsConfig(x.config) /\ x.epoch_height \in Nat
      BY <2>2, ChainParts
    <3>2. x.config.min_epoch_length \in Nat
      BY <3>1 DEF IsConfig, ConfigFields
    <3> QED
      BY <1>1, <3>1, <3>2, HostInNat DEF OInv
  <2>5. ASSUME new.next_epoch # None, NEW i \in 1 .. Len(blocks'),
               blocks'[i].next_epoch # None
        PROVE  host_height - blocks'[i].header.host_height >= x.config.min_epoch_length
    <3>1. /\ blocks'[i].header.host_height <= x.epoch_height
          /\ IsHeader(blocks'[i].header)
      BY <2>2, <2>5 DEF Linked, Dated
    <3>2. blocks'[i].header.host_height \in Nat
      BY <3>1 DEF IsHeader
    <3>3. host_height - x.epoch_height >= x.config.min_epoch_length
      BY <2>3, <2>5
    <3> QED
      BY <2>4, <3>1, <3>2, <3>3
  <2> QED
    BY <2>2, <2>3, <2>5
<1> QED
  BY <1>1, OrderInvariant, PTL DEF Spec, BlocksAreSpaced


-----------------------------------------------------------------------------
(* What light clients follow.                                              *)

\* The block that defines the epoch of block i, for the genesis itself.
Definer(log, i) == IF i = 1 THEN 1 ELSE CHOOSE d \in 1 .. i - 1 : Defines(log, d, i)

\* The final blocks with the epoch that each belongs to and its signers.
LogOf(log, genesis) ==
    [i \in 1 .. Len(log) |->
       [block   |-> log[i].header,
        epoch   |-> log[Definer(log, i)].next_epoch,
        signers |-> {pk \in PubKey :
                       <<pk, Fingerprint(genesis, log[i].header)>> \in log[i].votes}]]

LEMMA OneDefiner ==
  ASSUME NEW log, NEW i \in Nat, NEW d, NEW e, Defines(log, d, i), Defines(log, e, i)
  PROVE  d = e
<1>1. d \in 1 .. i - 1 /\ e \in 1 .. i - 1
  BY DEF Defines
<1>2. ~(d < e)
  <2>1. SUFFICES ASSUME d < e PROVE FALSE
    OBVIOUS
  <2>2. e \in d + 1 .. i - 1
    BY <1>1, <2>1
  <2> QED
    BY <2>2 DEF Defines
<1>3. ~(e < d)
  <2>1. SUFFICES ASSUME e < d PROVE FALSE
    OBVIOUS
  <2>2. d \in e + 1 .. i - 1
    BY <1>1, <2>1
  <2> QED
    BY <2>2 DEF Defines
<1> QED
  BY <1>1, <1>2, <1>3

(* An epoch goes on until a block defines another.                         *)
LEMMA DefinerAfter ==
  ASSUME NEW log, log[1].next_epoch # None, NEW i \in Nat, i > 1,
         i > 2 => Defines(log, Definer(log, i - 1), i - 1),
         Defines(log, Definer(log, i), i)
  PROVE  Definer(log, i) = IF log[i - 1].next_epoch # None THEN i - 1 ELSE Definer(log, i - 1)
<1>1. CASE log[i - 1].next_epoch # None
  <2>1. Defines(log, i - 1, i)
    BY <1>1 DEF Defines
  <2> QED
    BY <1>1, <2>1, OneDefiner
<1>2. CASE log[i - 1].next_epoch = None
  <2> DEFINE d == Definer(log, i - 1)
  <2>1. i > 2
    BY <1>2
  <2>2. Defines(log, d, i - 1)
    BY <2>1
  <2> HIDE DEF d
  <2>3. /\ d \in 1 .. i - 1
        /\ log[d].next_epoch # None
        /\ \A j \in d + 1 .. (i - 1) - 1 : log[j].next_epoch = None
    BY <2>1, <2>2 DEF Defines
  <2>4. \A j \in d + 1 .. i - 1 : j = i - 1 \/ j \in d + 1 .. (i - 1) - 1
    BY <2>3
  <2>5. Defines(log, d, i)
    BY <1>2, <2>3, <2>4 DEF Defines
  <2>6. Definer(log, i) = d
    BY <2>5, OneDefiner
  <2> QED
    BY <1>2, <2>6 DEF d
<1> QED
  BY <1>1, <1>2

LEMMA LogIsLog ==
  ASSUME NEW x, NEW log, Linked(x, log), NEW genesis,
         \A i \in 2 .. Len(log) : Quorate(log, genesis, i)
  PROVE  IsLog(LogOf(log, genesis))
<1> DEFINE l == LogOf(log, genesis)
           n == Len(log)
           d(i) == Definer(log, i)
<1>1. /\ n \in Nat \ {0}
      /\ log[1].next_epoch # None
      /\ \A i \in 1 .. n : /\ IsHeader(log[i].header)
                           /\ log[i].header.block_height = i
                           /\ log[i].next_epoch = log[i].header.next_epoch_commitment
      /\ \A i \in 2 .. n : Extends(log, i, log[i].header)
  BY DEF Linked
<1>2. Len(l) = n
  <2> HIDE DEF n
  <2> QED
    BY <1>1 DEF LogOf, n
<1>3. ASSUME NEW i \in 1 .. n
      PROVE  /\ l[i].block = log[i].header
             /\ l[i].epoch = log[d(i)].next_epoch
             /\ l[i].signers = {pk \in PubKey :
                  <<pk, Fingerprint(genesis, log[i].header)>> \in log[i].votes}
  <2> DEFINE B == log[i].header
             E == log[d(i)].next_epoch
             S == {pk \in PubKey : <<pk, Fingerprint(genesis, log[i].header)>> \in log[i].votes}
  <2>1. l[i] = [block |-> B, epoch |-> E, signers |-> S]
    <3> HIDE DEF n
    <3> QED
      BY DEF LogOf, n
  <2> HIDE DEF l, B, E, S
  <2>2. l[i].block = B /\ l[i].epoch = E /\ l[i].signers = S
    BY <2>1
  <2> QED
    BY <2>2 DEF B, E, S
<1> HIDE DEF l
<1>4. ASSUME NEW i \in 2 .. n PROVE Defines(log, d(i), i) /\ d(i) \in 1 .. n
  <2>1. \E e \in 1 .. i - 1 : Defines(log, e, i)
    BY <1>1 DEF Extends
  <2>2. d(i) = CHOOSE e \in 1 .. i - 1 : Defines(log, e, i)
    BY <1>1 DEF Definer
  <2>3. d(i) \in 1 .. i - 1 /\ Defines(log, d(i), i)
    BY <2>1, <2>2
  <2> QED
    BY <1>1, <2>3
<1>5. d(1) = 1
  BY DEF Definer
<1> HIDE DEF n, d
<1>6. ASSUME NEW i \in 1 .. n PROVE d(i) \in 1 .. n /\ log[d(i)].next_epoch # None
  <2>1. CASE i = 1
    BY <1>1, <1>5, <2>1
  <2>2. CASE i # 1
    <3>1. i \in 2 .. n
      BY <1>1, <2>2
    <3> QED
      BY <1>4, <3>1 DEF Defines
  <2> QED
    BY <2>1, <2>2
<1>7. ASSUME NEW e, ValidEpoch(e) PROVE IsEpoch(e)
  BY <1>7, EpochValidators DEF IsEpoch, ValidatorSet
<1>8. ASSUME NEW i \in 1 .. n
      PROVE  /\ ValidEpoch(l[i].epoch)
             /\ EpochAfter(l[i]) = IF log[i].next_epoch # None
                                   THEN log[i].next_epoch ELSE l[i].epoch
             /\ ValidEpoch(EpochAfter(l[i]))
  <2>1. \A j \in 1 .. n : log[j].next_epoch # None => ValidEpoch(log[j].next_epoch)
    BY <1>1 DEF IsHeader
  <2>2. ValidEpoch(l[i].epoch)
    BY <1>3, <1>6, <2>1
  <2>3. EpochAfter(l[i]) = IF log[i].next_epoch # None THEN log[i].next_epoch ELSE l[i].epoch
    BY <1>1, <1>3 DEF EpochAfter
  <2> QED
    BY <2>1, <2>2, <2>3
<1>9. ASSUME NEW i \in 1 .. n
      PROVE  /\ l[i].block.block_height = i
             /\ l[i].block.timestamp_ns \in Nat
             /\ IsEpoch(l[i].epoch) /\ IsEpoch(EpochAfter(l[i]))
  <2>1. IsEpoch(l[i].epoch) /\ IsEpoch(EpochAfter(l[i]))
    BY <1>7, <1>8
  <2> QED
    BY <1>1, <1>3, <2>1 DEF IsHeader
<1>10. ASSUME NEW i \in 1 .. n, i > 1
       PROVE  /\ l[i].block.timestamp_ns > l[i - 1].block.timestamp_ns
              /\ l[i].epoch = EpochAfter(l[i - 1])
              /\ StakeOf(WithKeys(l[i].epoch.validators, l[i].signers))
                   >= l[i].epoch.quorum_stake
  <2>1. i \in 2 .. n /\ i - 1 \in 1 .. n /\ i \in Nat
    BY <1>1, <1>10
  <2>2. l[i].block.timestamp_ns > l[i - 1].block.timestamp_ns
    <3>1. log[i].header.timestamp_ns > log[i - 1].header.timestamp_ns
      BY <1>1, <2>1 DEF Extends
    <3> QED
      BY <1>3, <2>1, <3>1
  <2>3. l[i].epoch = EpochAfter(l[i - 1])
    <3>1. i > 2 => Defines(log, d(i - 1), i - 1)
      BY <1>4, <2>1
    <3>2. Defines(log, d(i), i)
      BY <1>4, <2>1
    <3>3. d(i) = IF log[i - 1].next_epoch # None THEN i - 1 ELSE d(i - 1)
      BY <1>1, <1>10, <2>1, <3>1, <3>2, DefinerAfter DEF d
    <3>4. EpochAfter(l[i - 1]) = IF log[i - 1].next_epoch # None
                                 THEN log[i - 1].next_epoch ELSE log[d(i - 1)].next_epoch
      BY <1>3, <1>8, <2>1
    <3>5. l[i].epoch = log[d(i)].next_epoch
      BY <1>3
    <3> QED
      BY <3>3, <3>4, <3>5
  <2>4. StakeOf(WithKeys(l[i].epoch.validators, l[i].signers)) >= l[i].epoch.quorum_stake
    <3>1. PICK e \in 1 .. i - 1 :
            /\ Defines(log, e, i)
            /\ StakeOf({v \in log[e].next_epoch.validators :
                          <<v.pubkey, Fingerprint(genesis, log[i].header)>> \in log[i].votes})
                  >= log[e].next_epoch.quorum_stake
      BY <2>1 DEF Quorate, Defines, n
    <3>2. e = d(i)
      BY <1>4, <2>1, <3>1, OneDefiner
    <3>3. \A v \in l[i].epoch.validators : v.pubkey \in PubKey
      BY <1>8, CandidateFields DEF CheckedEpoch, ValidEpoch
    <3>4. WithKeys(l[i].epoch.validators, l[i].signers)
            = {v \in log[e].next_epoch.validators :
                 <<v.pubkey, Fingerprint(genesis, log[i].header)>> \in log[i].votes}
      BY <1>3, <3>2, <3>3 DEF WithKeys
    <3> QED
      BY <1>3, <3>1, <3>2, <3>4
  <2> QED
    BY <2>2, <2>3, <2>4
<1>11. IsLog(l)
  BY <1>1, <1>2, <1>9, <1>10 DEF IsLog
<1> QED
  BY <1>11 DEF l

(* The final blocks are at all times a log that a light client can follow: *)
(* what module GuestClient assumes of the chain its client follows is what *)
(* the chain manager provides.                                             *)
THEOREM ChainServesClients == Spec => []IsLog(LogOf(blocks, chain.genesis))
<1>1. OInv => IsLog(LogOf(blocks, chain.genesis))
  BY LogIsLog DEF OInv, IInv, Ordered
<1> QED
  BY <1>1, OrderInvariant, PTL
=============================================================================
