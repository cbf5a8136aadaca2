----------------------------- MODULE GuestChain -----------------------------
(***************************************************************************)
(* The guest blockchain that runs inside a host (Solana) program.          *)
(*                                                                         *)
(*   common/guestchain/src/{manager,block,epoch,config,height}.rs          *)
(*   solana/solana-ibc/programs/solana-ibc/src/{chain,lib}.rs              *)
(*                                                                         *)
(* The variable chain is the account that holds ChainInner and, in it, the *)
(* ChainManager.  Methods that take &mut self are operators from a chain   *)
(* value to the set of its possible results, empty when the method fails.  *)
(* Each action of Next is one instruction of the program.  The host runs   *)
(* instructions one at a time and reverts one that fails or panics, so a   *)
(* failing instruction is not a step.                                      *)
(*                                                                         *)
(* Abstractions.  A collision-free hash of a value is the value itself.    *)
(* The vector of an epoch's validators is a set.  The state trie is        *)
(* represented by its root.  A signature is the pair of the key and the    *)
(* fingerprint it was made over.                                           *)
(***************************************************************************)
EXTENDS Candidates, GuestLog

CONSTANTS
    ZeroHash,           \* CryptoHash::DEFAULT
    Roots,              \* possible roots of the state trie
    MaxConsensusStates, \* MAX_CONSENSUS_STATES
    GenesisEpochs,      \* epochs the chain may be initialised with
    InitialConfigs,     \* configurations the chain may be initialised with
    ConfigUpdates,      \* payloads of update_chain_config
    StakeValues,        \* amounts given to set_stake
    StakeChanges,       \* payloads of update_stake: sequences of <<key, delta>>
    MaxHostHeight,      \* bound on the host's slot number
    MaxTimestamp        \* bound on the host's clock

VARIABLES
    chain,          \* the chain account
    state_root,     \* root of the trie account
    host_height,    \* the host's slot (Clock::slot)
    host_timestamp, \* the host's clock (Clock::unix_timestamp)
    slot_root,      \* history: the root when the current slot started
    votes,          \* history: signatures accepted for the pending block
    blocks          \* history: finalised blocks with the signatures on each

vars == <<chain, state_root, host_height, host_timestamp, slot_root, votes, blocks>>
envVars == <<state_root, host_height, host_timestamp, slot_root>>

ConfigFields ==
    {"min_validators", "max_validators", "min_validator_stake", "min_total_stake",
     "min_quorum_stake", "min_block_length", "max_block_age_ns", "min_epoch_length"}

\* The fields that are NonZeroU16 or NonZeroU128.
NonZeroFields ==
    {"min_validators", "max_validators", "min_validator_stake", "min_total_stake",
     "min_quorum_stake"}

IsConfig(c) == c \in [ConfigFields -> Nat] /\ \A f \in NonZeroFields : c[f] > 0

\* What Epoch::new checks.
CheckedEpoch(e) == e.quorum_stake \in 1 .. StakeOf(e.validators)

\* An epoch.  Epoch::new does not look for a key that is listed twice: epochs
\* made of candidates list none, because candidates do not, and of the genesis
\* epoch, which the deployer hands to initialise, it is assumed.
ValidEpoch(e) ==
    /\ e = [validators |-> e.validators, quorum_stake |-> e.quorum_stake]
    /\ IsFiniteSet(e.validators)
    /\ e.validators \subseteq Candidate
    /\ DistinctKeys(e.validators)
    /\ CheckedEpoch(e)

ASSUME GuestChainAssumption ==
    /\ \A e \in GenesisEpochs : ValidEpoch(e) /\ StakeOf(e.validators) <= U128Max
    /\ \A c \in InitialConfigs : IsConfig(c)
    /\ \A u \in ConfigUpdates : \A f \in DOMAIN u :
          u[f] \in Nat /\ (f \in NonZeroFields => u[f] > 0)
    /\ StakeValues \subseteq Nat
    /\ \A s \in StakeChanges : s \in Seq(PubKey \X Int)
    /\ MaxConsensusStates \in Nat \ {0}
    /\ MaxHostHeight \in Nat \ {0}
    /\ MaxTimestamp \in Nat \ {0}

-----------------------------------------------------------------------------
(* Blocks.                                                                 *)

calc_hash(header) == header

Fingerprint(genesis, header) == <<genesis, header.block_height, calc_hash(header)>>

GenesisHeader(host, timestamp, root, epoch) ==
    [prev_block_hash       |-> ZeroHash,
     block_height          |-> 1,
     host_height           |-> host,
     timestamp_ns          |-> timestamp,
     state_root            |-> root,
     epoch_id              |-> ZeroHash,
     next_epoch_commitment |-> epoch]

\* Mutant: the epoch of a block that follows an epoch change is not updated.
NextHeader_keeps_epoch(prev, host, timestamp, root, next_epoch) ==
    [prev_block_hash       |-> calc_hash(prev),
     block_height          |-> prev.block_height + 1,
     host_height           |-> host,
     timestamp_ns          |-> timestamp,
     state_root            |-> root,
     epoch_id              |-> IF next_epoch # None
                               THEN calc_hash(prev) ELSE prev.epoch_id,
     next_epoch_commitment |-> next_epoch]

\* What BlockHeader::generate_next requires of the host's head.
IsLater(prev, host, timestamp) == host > prev.host_height /\ timestamp > prev.timestamp_ns

\* BlockHeader::generate_next; an epoch's commitment is its hash.
NextHeader(prev, host, timestamp, root, next_epoch) ==
    [prev_block_hash       |-> calc_hash(prev),
     block_height          |-> prev.block_height + 1,
     host_height           |-> host,
     timestamp_ns          |-> timestamp,
     state_root            |-> root,
     epoch_id              |-> IF prev.next_epoch_commitment # None
                               THEN calc_hash(prev) ELSE prev.epoch_id,
     next_epoch_commitment |-> next_epoch]

check_delta_from(height, past, min) == height - past >= min

-----------------------------------------------------------------------------
(* ChainManager.                                                           *)

\* Mutant: the quorum may exceed the total stake.
QuorumFor_unclamped(total, cfg) ==
    IF total \div 2 + 1 >= cfg.min_quorum_stake
    THEN total \div 2 + 1 ELSE cfg.min_quorum_stake

QuorumFor(total, cfg) ==
    LET half   == total \div 2 + 1
        quorum == IF half >= cfg.min_quorum_stake THEN half ELSE cfg.min_quorum_stake
    IN  IF quorum <= total THEN quorum ELSE total

\* The epoch the next block would define, None when it would define none.
maybe_generate_next_epoch(ch, host) ==
    LET top   == TopValidators(ch.candidates)
        total == StakeOf(top)
    IN  IF /\ check_delta_from(host, ch.epoch_height, ch.config.min_epoch_length)
           /\ ch.candidates.changed
           /\ total \in 1 .. U128Max
        THEN [validators   |-> top,
              quorum_stake |-> QuorumFor(total, ch.config)]
        ELSE None

\* Mutant: a pending block does not stop the next one.
validate_generate_next_ignores_pending(ch, host, timestamp, root) ==
    /\ check_delta_from(host, ch.header.host_height, ch.config.min_block_length)
    /\ \/ maybe_generate_next_epoch(ch, host) # None
       \/ root # ch.header.state_root
       \/ timestamp - ch.header.timestamp_ns >= ch.config.max_block_age_ns

validate_generate_next(ch, host, timestamp, root) ==
    /\ ch.pending_block = None
    /\ check_delta_from(host, ch.header.host_height, ch.config.min_block_length)
    /\ \/ maybe_generate_next_epoch(ch, host) # None
       \/ root # ch.header.state_root
       \/ timestamp - ch.header.timestamp_ns >= ch.config.max_block_age_ns

\* Mutant: the newest state makes room instead of the oldest.
PushConsensusState_drops_newest(queue, state) ==
    Append(IF Len(queue) = MaxConsensusStates THEN Front(queue) ELSE queue, state)

\* Drops the oldest local consensus state when the queue is full.
PushConsensusState(queue, state) ==
    Append(IF Len(queue) = MaxConsensusStates THEN Tail(queue) ELSE queue, state)

\* Mutant: the flag is cleared by blocks that define no epoch too.
ClearIfTaken_always(cs, next_epoch) == clear_changed_flag(cs)

\* The changed flag is cleared when the block takes the top candidates in.
ClearIfTaken(cs, next_epoch) == IF next_epoch # None THEN clear_changed_flag(cs) ELSE cs

generate_next(ch, host, timestamp, root) ==
    LET next_epoch == maybe_generate_next_epoch(ch, host)
        header     == NextHeader(ch.header, host, timestamp, root, next_epoch)
    IN  IF /\ validate_generate_next(ch, host, timestamp, root)
           /\ IsLater(ch.header, host, timestamp)
        THEN {[ch EXCEPT
                 !.consensus_states = PushConsensusState(@,
                     [height    |-> header.block_height,
                      timestamp |-> timestamp,
                      blockhash |-> calc_hash(header)]),
                 !.pending_block = [next_block    |-> [header     |-> header,
                                                       next_epoch |-> next_epoch],
                                    fingerprint   |-> Fingerprint(ch.genesis, header),
                                    signers       |-> {},
                                    signing_stake |-> 0],
                 !.candidates = ClearIfTaken(@, next_epoch)]}
        ELSE {}

\* Mutant: the height at which the epoch starts is not recorded.
Promote_keeps_epoch_height(ch) ==
    LET block == ch.pending_block.next_block
    IN  [ch EXCEPT
           !.pending_block = None,
           !.header        = block.header,
           !.next_epoch    = IF block.next_epoch # None THEN block.next_epoch ELSE @]

\* The pending block becomes the head; its next epoch, if any, comes in force.
Promote(ch) ==
    LET block == ch.pending_block.next_block
    IN  [ch EXCEPT
           !.pending_block = None,
           !.header        = block.header,
           !.next_epoch    = IF block.next_epoch # None THEN block.next_epoch ELSE @,
           !.epoch_height  = IF block.next_epoch # None
                             THEN block.header.host_height ELSE @]

\* Whether a signature by pk over fingerprint fp is accepted.
AcceptsSignature(ch, pk, fp) ==
    /\ ch.pending_block # None
    /\ HasValidator(ch.next_epoch.validators, pk)
    /\ fp = ch.pending_block.fingerprint

\* The signing stake once pk has signed.
StakeWith(ch, pk) ==
    ch.pending_block.signing_stake + ValidatorOf(ch.next_epoch.validators, pk).stake

\* Mutant: a repeated signature counts again.
got_new_signature_always(ch, pk) == TRUE

\* AddSignatureEffect
got_new_signature(ch, pk) == pk \notin ch.pending_block.signers
got_quorum(ch, pk) ==
    got_new_signature(ch, pk) /\ StakeWith(ch, pk) >= ch.next_epoch.quorum_stake

\* The pending block with one more signature.
Signed(ch, pk) ==
    LET signed == [ch.pending_block EXCEPT !.signers       = @ \cup {pk},
                                           !.signing_stake = StakeWith(ch, pk)]
    IN  [ch EXCEPT !.pending_block = signed]

add_signature(ch, pk) ==
    IF ~got_new_signature(ch, pk) THEN ch
    ELSE IF got_quorum(ch, pk) THEN Promote(ch)
    ELSE Signed(ch, pk)

\* Config::update: a payload holds the fields to change.
Merge(config, u) ==
    [f \in ConfigFields |-> IF f \in DOMAIN u THEN u[f] ELSE config[f]]

ConfigUpdateAllowed(new, head_stake, total_validators) ==
    /\ new.min_validators <= total_validators
    /\ new.max_validators >= new.min_validators
    /\ new.min_total_stake <= head_stake
    /\ new.min_quorum_stake <= head_stake
    /\ new.min_total_stake >= new.min_quorum_stake

update_config(ch, u) ==
    LET new == Merge(ch.config, u)
    IN  IF ConfigUpdateAllowed(new, ch.candidates.head_stake,
                               Cardinality(ch.next_epoch.validators))
        THEN {[ch EXCEPT !.config = new, !.candidates = s]
                : s \in IF "max_validators" \in DOMAIN u
                        THEN update_max_validators(ch.candidates, u.max_validators)
                        ELSE {ch.candidates}}
        ELSE {}

update_candidate(ch, pk, stake) ==
    {[ch EXCEPT !.candidates = s]
        : s \in update(ch.candidates, ch.config, pk, stake)}

-----------------------------------------------------------------------------
(* ChainData: the account's methods.                                       *)

\* Mutant: an instruction may generate a block in a slot already checked.
generate_block_any_time(ch, force) ==
    LET result == generate_next(ch, host_height, host_timestamp, state_root)
    IN  IF force \/ result # {} THEN result ELSE {ch}

generate_block(ch, force) ==
    LET checked == [ch EXCEPT !.last_check_height = host_height]
        result  == generate_next(checked, host_height, host_timestamp, state_root)
    IN  IF ch.last_check_height = host_height
        THEN IF force THEN {} ELSE {ch}
        ELSE IF force \/ result # {} THEN result ELSE {checked}

maybe_generate_block(ch) == generate_block(ch, FALSE)

\* One entry of update_stake: a signed change to a candidate's stake.
ChangeStake(ch, pk, delta) ==
    LET stake == CandidateStake(ch.candidates, pk) + delta
    IN  IF stake \in 0 .. U128Max THEN update_candidate(ch, pk, stake) ELSE {}

update_stake(ch, changes) ==
    LET after[i \in 0 .. Len(changes)] ==
          IF i = 0
          THEN {ch}
          ELSE UNION {ChangeStake(s, changes[i][1], changes[i][2]) : s \in after[i - 1]}
    IN  after[Len(changes)]

\* ChainManager::head
head(ch) == IF ch.pending_block = None THEN ch.header ELSE ch.pending_block.next_block.header

-----------------------------------------------------------------------------
(* Instructions of the host program.                                       *)

Init ==
    \E cfg \in InitialConfigs, epoch \in GenesisEpochs, root \in Roots :
    \E cs \in NewCandidates(cfg.max_validators, epoch.validators) :
      LET genesis == GenesisHeader(1, 1, root, epoch)
      IN  /\ chain = [last_check_height |-> 1,
                      config            |-> cfg,
                      genesis           |-> calc_hash(genesis),
                      header            |-> genesis,
                      next_epoch        |-> epoch,
                      pending_block     |-> None,
                      epoch_height      |-> 1,
                      candidates        |-> cs,
                      consensus_states  |-> <<>>]
          /\ state_root = root
          /\ slot_root = root
          /\ host_height = 1
          /\ host_timestamp = 1
          /\ votes = {}
          /\ blocks = <<[header |-> genesis, next_epoch |-> epoch, votes |-> {}]>>

\* The host produces a block.  Its clock may stall or step back.
Tick(timestamp) ==
    /\ host_height < MaxHostHeight
    /\ host_height' = host_height + 1
    /\ host_timestamp' = timestamp
    /\ slot_root' = state_root
    /\ UNCHANGED <<chain, state_root, votes, blocks>>

GenerateBlock ==
    /\ chain' \in generate_block(chain, TRUE)
    /\ UNCHANGED <<envVars, votes, blocks>>

\* sign_block: a quorum makes the instruction try to generate another block.
SignBlock(pk, fp) ==
    LET signed  == add_signature(chain, pk)
        counted == votes \cup {<<pk, fp>>}
    IN  /\ AcceptsSignature(chain, pk, fp)
        /\ IF got_quorum(chain, pk)
           THEN /\ chain' \in maybe_generate_block(signed)
                /\ blocks' = Append(blocks,
                     [header     |-> chain.pending_block.next_block.header,
                      next_epoch |-> chain.pending_block.next_block.next_epoch,
                      votes      |-> counted])
                /\ votes' = {}
           ELSE /\ chain' = signed
                /\ votes' = counted
                /\ UNCHANGED blocks
        /\ UNCHANGED envVars

SetStake(pk, amount) ==
    /\ \E ch \in maybe_generate_block(chain) : chain' \in update_candidate(ch, pk, amount)
    /\ UNCHANGED <<envVars, votes, blocks>>

UpdateStake(changes) ==
    /\ \E ch \in maybe_generate_block(chain) : chain' \in update_stake(ch, changes)
    /\ UNCHANGED <<envVars, votes, blocks>>

\* deliver, send_transfer and the other instructions that open the storage
\* with from_ctx!: the chain is given a chance to generate a block before
\* the handler changes the trie.
Deliver(root) ==
    /\ chain' \in maybe_generate_block(chain)
    /\ state_root' = root
    /\ UNCHANGED <<host_height, host_timestamp, slot_root, votes, blocks>>

UpdateChainConfig(u) ==
    /\ chain' \in update_config(chain, u)
    /\ UNCHANGED <<envVars, votes, blocks>>

\* Fingerprints a validator may have signed: of the pending block and, when a
\* signature arrives late or is replayed, of the blocks before it.
Fingerprints ==
    {Fingerprint(chain.genesis, blocks[i].header) : i \in 1 .. Len(blocks)}
      \cup {Fingerprint(chain.genesis, head(chain))}

Next ==
    \/ \E timestamp \in 1 .. MaxTimestamp : Tick(timestamp)
    \/ GenerateBlock
    \/ \E pk \in PubKey, fp \in Fingerprints : SignBlock(pk, fp)
    \/ \E pk \in PubKey, amount \in StakeValues : SetStake(pk, amount)
    \/ \E changes \in StakeChanges : UpdateStake(changes)
    \/ \E root \in Roots : Deliver(root)
    \/ \E u \in ConfigUpdates : UpdateChainConfig(u)

Spec == Init /\ [][Next]_vars

-----------------------------------------------------------------------------
(* Types.  Fields that hold hashes are left open.                          *)

IsHeader(h) ==
    /\ h.block_height \in Nat \ {0}
    /\ h.host_height \in Nat
    /\ h.timestamp_ns \in Nat
    /\ h.next_epoch_commitment # None => ValidEpoch(h.next_epoch_commitment)

IsPending(p) ==
    /\ p = [next_block |-> p.next_block, fingerprint |-> p.fingerprint,
            signers |-> p.signers, signing_stake |-> p.signing_stake]
    /\ IsHeader(p.next_block.header)
    /\ p.next_block.next_epoch = p.next_block.header.next_epoch_commitment
    /\ p.signers \in SUBSET PubKey
    /\ p.signing_stake \in Nat

IsChain(ch) ==
    /\ ch = [last_check_height |-> ch.last_check_height, config |-> ch.config,
             genesis |-> ch.genesis, header |-> ch.header,
             next_epoch |-> ch.next_epoch, pending_block |-> ch.pending_block,
             epoch_height |-> ch.epoch_height, candidates |-> ch.candidates,
             consensus_states |-> ch.consensus_states]
    /\ ch.last_check_height \in Nat
    /\ IsConfig(ch.config)
    /\ IsHeader(ch.header)
    /\ ValidEpoch(ch.next_epoch)
    /\ ch.pending_block # None => IsPending(ch.pending_block)
    /\ ch.epoch_height \in Nat
    /\ IsCandidates(ch.candidates)
    /\ Len(ch.consensus_states) \in 0 .. MaxConsensusStates

(* The chain account is well formed: every epoch that is in force or about *)
(* to be has a reachable quorum (Epoch::new's contract, which the code that*)
(* builds epochs from the candidate list relies on), and the counters that *)
(* the code keeps in unsigned integers stay in range.                      *)
TypeOK ==
    /\ IsChain(chain)
    /\ host_height \in 1 .. MaxHostHeight
    /\ host_timestamp \in 1 .. MaxTimestamp

-----------------------------------------------------------------------------
(* Safety.                                                                 *)

\* Block d of the log defines the epoch that block i belongs to.
DefinesEpochOf(d, i) ==
    /\ d \in 1 .. i - 1
    /\ blocks[d].next_epoch # None
    /\ \A j \in d + 1 .. i - 1 : blocks[j].next_epoch = None

\* The validators of an epoch whose signature over the block was accepted.
Voters(block, epoch) ==
    {v \in epoch.validators :
        <<v.pubkey, Fingerprint(chain.genesis, block.header)>> \in block.votes}

(* A block is final only when validators of the epoch it belongs to, as    *)
(* the chain itself recorded that epoch, signed this very block and own a  *)
(* quorum of the epoch's stake.  add_signature decides that from a running *)
(* sum that duplicate, late and replayed signatures must not disturb and   *)
(* from next_epoch, which changes hands when a block is promoted.          *)
FinalityNeedsQuorum ==
    \A i \in 2 .. Len(blocks) : \E d \in 1 .. i - 1 :
        /\ DefinesEpochOf(d, i)
        /\ StakeOf(Voters(blocks[i], blocks[d].next_epoch))
              >= blocks[d].next_epoch.quorum_stake

(* The finalised blocks form one chain: each extends the one before it by  *)
(* hash and height, at a later host height and time even when the host's   *)
(* clock stalls or steps back, and its epoch_id is the hash of the block   *)
(* that defined its epoch.                                                 *)
BlocksFormChain ==
    \A i \in 2 .. Len(blocks) :
      LET prev == blocks[i - 1].header
          this == blocks[i].header
      IN  /\ this.prev_block_hash = calc_hash(prev)
          /\ this.block_height = prev.block_height + 1
          /\ this.host_height > prev.host_height
          /\ this.timestamp_ns > prev.timestamp_ns
          /\ \E d \in 1 .. i - 1 :
                DefinesEpochOf(d, i) /\ this.epoch_id = calc_hash(blocks[d].header)

\* The epoch most recently put in a block, final or not.
LatestEpoch ==
    IF chain.pending_block # None /\ chain.pending_block.next_block.next_epoch # None
    THEN chain.pending_block.next_block.next_epoch
    ELSE chain.next_epoch

(* While the changed flag is clear, the validators of the most recently    *)
(* defined epoch are the top candidates with their current stakes: no      *)
(* sequence of stake and configuration changes makes the chain miss that a *)
(* new epoch is due, not even while a block is pending.                    *)
UnchangedMeansCurrent ==
    ~chain.candidates.changed =>
        LatestEpoch.validators = TopValidators(chain.candidates)

\* Headers of the chain by height, the pending one included.
HeaderAt(height) ==
    IF height <= Len(blocks) THEN blocks[height].header ELSE head(chain)

(* The queue of local consensus states, filled when a block is generated   *)
(* and trimmed at MAX_CONSENSUS_STATES, describes the newest blocks of the *)
(* chain without gaps, the pending block included.                         *)
ConsensusStatesFollowChain ==
    LET queue  == chain.consensus_states
        newest == head(chain).block_height
    IN  /\ newest > 1 => queue # <<>>
        /\ \A i \in 1 .. Len(queue) :
              LET header == HeaderAt(newest - Len(queue) + i)
              IN  queue[i] = [height    |-> newest - Len(queue) + i,
                              timestamp |-> header.timestamp_ns,
                              blockhash |-> calc_hash(header)]

-----------------------------------------------------------------------------
(* What a step may never do.                                               *)

\* A step that makes another block pending.
NewPending ==
    /\ chain'.pending_block # None
    /\ chain.pending_block = None \/ chain'.header # chain.header

(* A new block commits to the trie as it was when the host's slot started: *)
(* of the packets written in one slot either all or none are in the block  *)
(* generated in that slot.                                                 *)
BlocksHoldWholeSlots ==
    [][NewPending => chain'.pending_block.next_block.header.state_root = slot_root]_vars

(* A pending block is never dropped or replaced: it stays, with signatures *)
(* only added to it, until it becomes the head.                            *)
PendingIsKept ==
    [][chain.pending_block # None =>
         \/ /\ chain'.header = chain.header
            /\ chain'.pending_block # None
            /\ chain'.pending_block.next_block = chain.pending_block.next_block
            /\ chain.pending_block.signers \subseteq chain'.pending_block.signers
         \/ chain'.header = chain.pending_block.next_block.header]_vars

(* A new block comes no sooner than min_block_length host blocks after the *)
(* head, and one that changes the epoch no sooner than min_epoch_length    *)
(* after the block that defined the current one.                           *)
BlocksAreSpaced ==
    [][NewPending =>
         LET new == chain'.pending_block.next_block
         IN  /\ new.header.host_height - chain'.header.host_height
                   >= chain'.config.min_block_length
             /\ new.next_epoch # None =>
                   \A i \in 1 .. Len(blocks') : blocks'[i].next_epoch # None =>
                     new.header.host_height - blocks'[i].header.host_height
                       >= chain'.config.min_epoch_length]_vars
=============================================================================
