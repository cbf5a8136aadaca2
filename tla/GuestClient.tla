----------------------------- MODULE GuestClient ----------------------------
(***************************************************************************)
(* The light client of the guest blockchain and the relayers that feed it. *)
(*                                                                         *)
(*   common/cf-guest/src/client.rs, client/impls.rs, header.rs             *)
(*                                                                         *)
(* The variable log is the chain the client follows, a log of module       *)
(* GuestLog.  A block may reach the client late, more than once, out of    *)
(* order or never, so the log can be chosen at the start.  Keys in faulty  *)
(* sign anything.                                                          *)
(*                                                                         *)
(* A message is what a relayer submits, [genesis_hash, block_header,       *)
(* epoch, signatures]: the block's hash is the block, an epoch's           *)
(* commitment is the epoch, and signatures is the list of the keys that    *)
(* the message claims have signed.  IBC's handler of a client message      *)
(* (outside this repository) checks the status, verifies the message,      *)
(* then freezes the client on misbehaviour and updates it otherwise.       *)
(***************************************************************************)
EXTENDS GuestLog, ConsensusStore

CONSTANTS
    Genesis,        \* genesis hashes of this chain and of others
    Logs,           \* the chains the client may follow
    FaultySets,     \* the sets of keys whose owners may sign any block
    Forged,         \* blocks on no chain, which only faulty keys sign
    Epochs,         \* the epochs a message may carry
    AnyEpoch,       \* whether a message may carry another epoch than its block's
    SignatureLists, \* the lists of signatures a message may carry
    TrustingPeriod, \* trusting_period_ns
    Prunes,         \* whether the host reports its earliest consensus state
    MaxTime,        \* bound on the host's clock
    U64Max          \* u64::MAX

VARIABLES
    log,                \* the chain followed
    faulty,             \* the keys whose owners sign any block
    client,             \* the ClientState
    consensus_states,   \* the store of consensus states
    now                 \* the host's clock

vars == <<log, faulty, client, consensus_states, now>>

\* The chain's own genesis hash.
ChainGenesis == CHOOSE g \in Genesis : TRUE

\* What the chain guarantees of its finalised blocks, whose epochs are among
\* those a message may carry and which nobody had to forge.
ValidLog(l) ==
    /\ IsLog(l)
    /\ \A i \in 1 .. Len(l) : /\ l[i].block \notin Forged
                             /\ {l[i].epoch, EpochAfter(l[i])} \subseteq Epochs

\* The type of BlockHeader.
IsBlock(b) ==
    /\ b.block_height \in Nat \ {0}
    /\ b.timestamp_ns \in Nat
    /\ b.next_epoch_commitment \in Epochs \cup {None}

ASSUME GuestClientAssumption ==
    /\ \A l \in Logs : ValidLog(l)
    /\ \A e \in Epochs : IsEpoch(e)
    /\ \A b \in Forged : IsBlock(b)
    /\ TrustingPeriod \in Nat /\ MaxTime \in Nat /\ U64Max \in Nat
    /\ AnyEpoch \in BOOLEAN /\ Prunes \in BOOLEAN
    /\ Genesis # {}
    /\ MaxClientStates > 1

-----------------------------------------------------------------------------
(* ClientState.                                                            *)

\* Mutant: an old header is applied too.
with_header_any_height(c, block) ==
    IF block.next_epoch_commitment = None
    THEN [c EXCEPT !.latest_height = block.block_height]
    ELSE [c EXCEPT !.latest_height         = block.block_height,
                   !.prev_epoch_commitment = c.epoch_commitment,
                   !.epoch_commitment      = block.next_epoch_commitment]

\* Mutant: the commitment of the epoch that ended is forgotten.
with_header_forgets(c, block) ==
    IF block.block_height <= c.latest_height
    THEN c
    ELSE IF block.next_epoch_commitment = None
    THEN [c EXCEPT !.latest_height = block.block_height,
                   !.prev_epoch_commitment = c.epoch_commitment]
    ELSE [c EXCEPT !.latest_height         = block.block_height,
                   !.prev_epoch_commitment = c.epoch_commitment,
                   !.epoch_commitment      = block.next_epoch_commitment]

with_header(c, block) ==
    IF block.block_height <= c.latest_height
    THEN c
    ELSE IF block.next_epoch_commitment = None
    THEN [c EXCEPT !.latest_height = block.block_height]
    ELSE [c EXCEPT !.latest_height         = block.block_height,
                   !.prev_epoch_commitment = c.epoch_commitment,
                   !.epoch_commitment      = block.next_epoch_commitment]

frozen(c) == [c EXCEPT !.is_frozen = TRUE]

ConsensusStateOf(block) == [block_hash |-> block, timestamp_ns |-> block.timestamp_ns]

consensus_has_expired(state, time) ==
    LET expiry == state.timestamp_ns + TrustingPeriod
    IN  (IF expiry > U64Max THEN U64Max ELSE expiry) <= time

status(c, store, time) ==
    IF c.is_frozen THEN "Frozen"
    ELSE IF c.latest_height \notin DOMAIN store THEN "Expired"
    ELSE IF consensus_has_expired(store[c.latest_height], time) THEN "Expired"
    ELSE "Active"

prune_oldest_consensus_state(store, time) ==
    IF Prunes /\ DOMAIN store # {} /\ consensus_has_expired(store[Min(DOMAIN store)], time)
    THEN Drop(store, Min(DOMAIN store)) ELSE store

-----------------------------------------------------------------------------
(* Verification of client messages.                                        *)

\* Whether the key's owner signed the block of a message.
Verifies(key, m) ==
    \/ key \in faulty
    \/ /\ m.genesis_hash = ChainGenesis
       /\ \E i \in 1 .. Len(log) : log[i].block = m.block_header /\ key \in log[i].signers

\* The first n signatures are by different validators of the epoch, and good.
GoodSignatures(m, n) ==
    /\ \A i \in 1 .. n : /\ HasValidator(m.epoch.validators, m.signatures[i])
                         /\ Verifies(m.signatures[i], m)
    /\ \A i, j \in 1 .. n : m.signatures[i] = m.signatures[j] => i = j

\* Mutant: a signature that is repeated counts each time.
ReachesQuorum_counts_repeats(m) ==
    \E n \in 1 .. Len(m.signatures) :
        /\ \A i \in 1 .. n : /\ HasValidator(m.epoch.validators, m.signatures[i])
                             /\ Verifies(m.signatures[i], m)
        /\ n * ValidatorOf(m.epoch.validators, m.signatures[1]).stake >= m.epoch.quorum_stake

\* The loop over the signatures, which ends as soon as the quorum is reached.
ReachesQuorum(m) ==
    \E n \in 1 .. Len(m.signatures) :
        /\ GoodSignatures(m, n)
        /\ StakeOf(WithKeys(m.epoch.validators, {m.signatures[i] : i \in 1 .. n}))
             >= m.epoch.quorum_stake

verify_header(c, m) ==
    /\ m.genesis_hash = c.genesis_hash
    /\ m.epoch \in {c.epoch_commitment, c.prev_epoch_commitment}
    /\ ReachesQuorum(m)

verify_misbehaviour(c, m1, m2) ==
    /\ m1.genesis_hash = m2.genesis_hash
    /\ verify_header(c, m1)
    /\ verify_header(c, m2)

\* Mutant: the timestamps of the neighbours are not compared.
check_for_misbehaviour_in_header_same_height(store, block) ==
    block.block_height \in DOMAIN store
      /\ store[block.block_height] # ConsensusStateOf(block)

check_for_misbehaviour_in_header(store, block) ==
    LET height == block.block_height
    IN  IF height \in DOMAIN store
        THEN store[height] # ConsensusStateOf(block)
        ELSE \/ \E s \in PrevStates(store, height) : block.timestamp_ns <= s.timestamp_ns
             \/ \E s \in NextStates(store, height) : block.timestamp_ns >= s.timestamp_ns

\* Mutant: the order of the timestamps is not compared with the heights'.
check_for_misbehaviour_in_misbehavior_unordered(b1, b2) ==
    b1.block_height = b2.block_height \/ b1.timestamp_ns >= b2.timestamp_ns

check_for_misbehaviour_in_misbehavior(b1, b2) ==
    IF b1.block_height = b2.block_height
    THEN b1 # b2
    ELSE ~ \/ b1.block_height < b2.block_height /\ b1.timestamp_ns < b2.timestamp_ns
           \/ b1.block_height > b2.block_height /\ b1.timestamp_ns > b2.timestamp_ns

-----------------------------------------------------------------------------
(* Messages and steps.                                                     *)

Blocks == {log[i].block : i \in 1 .. Len(log)} \cup Forged

\* The epochs with which a relayer may submit a block.
EpochsFor(block) ==
    IF AnyEpoch \/ block \in Forged THEN Epochs
    ELSE {log[i].epoch : i \in {j \in 1 .. Len(log) : log[j].block = block}}

Messages ==
    {m \in [genesis_hash : Genesis, block_header : Blocks, epoch : Epochs,
            signatures : SignatureLists] : m.epoch \in EpochsFor(m.block_header)}

\* initialise: the client starts from a block of the chain.  The commitment
\* of the epoch before is optional.
Init ==
    \E l \in Logs : \E h \in 1 .. Len(l) : \E prev \in {EpochAfter(l[h]), l[h].epoch} :
        /\ log = l
        /\ faulty \in FaultySets
        /\ client = [genesis_hash          |-> ChainGenesis,
                     latest_height         |-> h,
                     epoch_commitment      |-> EpochAfter(l[h]),
                     prev_epoch_commitment |-> prev,
                     is_frozen             |-> FALSE]
        /\ consensus_states = [k \in {h} |-> ConsensusStateOf(l[h].block)]
        /\ now = 0

Tick ==
    /\ now < MaxTime
    /\ now' = now + 1
    /\ UNCHANGED <<log, faulty, client, consensus_states>>

do_update_state(block) ==
    LET height == block.block_height
        pruned == prune_oldest_consensus_state(consensus_states, now)
    IN  IF height \in DOMAIN pruned
        THEN client' = client /\ consensus_states' = pruned
        ELSE /\ client' = with_header(client, block)
             /\ consensus_states' =
                  insert_consensus_state(pruned, height, ConsensusStateOf(block))

UpdateClient(m) ==
    /\ status(client, consensus_states, now) = "Active"
    /\ verify_header(client, m)
    /\ IF check_for_misbehaviour_in_header(consensus_states, m.block_header)
       THEN client' = frozen(client) /\ UNCHANGED consensus_states
       ELSE do_update_state(m.block_header)
    /\ UNCHANGED <<log, faulty, now>>

SubmitMisbehaviour(m1, m2) ==
    /\ status(client, consensus_states, now) = "Active"
    /\ verify_misbehaviour(client, m1, m2)
    /\ check_for_misbehaviour_in_misbehavior(m1.block_header, m2.block_header)
    /\ client' = frozen(client)
    /\ UNCHANGED <<log, faulty, consensus_states, now>>

\* Messages that the client would verify, the only ones worth pairing.
Verified == {m \in Messages : verify_header(client, m)}

Next ==
    \/ Tick
    \/ \E m \in Messages : UpdateClient(m)
    \/ \E m1, m2 \in Verified : SubmitMisbehaviour(m1, m2)

Spec == Init /\ [][Next]_vars

\* A relayer that keeps submitting the block after the latest one.
RelayNext ==
    \E m \in Messages :
        /\ m.block_header.block_height = client.latest_height + 1
        /\ UpdateClient(m)

FairSpec == Spec /\ WF_vars(RelayNext)

-----------------------------------------------------------------------------
IsConsensusState(s) == s.block_hash \in Blocks /\ s.timestamp_ns \in Nat

(* The client's fields have the types of the struct and the store never    *)
(* holds more than MAX_CONSENSUS_STATES states.                            *)
TypeOK ==
    /\ client.latest_height \in Nat \ {0}
    /\ client.is_frozen \in BOOLEAN
    /\ {client.epoch_commitment, client.prev_epoch_commitment} \subseteq Epochs
    /\ \A h \in DOMAIN consensus_states : h \in Nat /\ IsConsensusState(consensus_states[h])
    /\ Cardinality(DOMAIN consensus_states) \in 0 .. MaxClientStates
    /\ now \in 0 .. MaxTime

\* No epoch has a quorum of faulty validators.
Honest ==
    \A e \in Epochs : StakeOf(WithKeys(e.validators, faulty)) < e.quorum_stake

(* Unless a quorum of some epoch is faulty, the client only ever trusts    *)
(* blocks of the chain, whatever relayers submit, in whatever order, with  *)
(* whatever epoch and signatures attached.                                 *)
TrustsOnlyChain ==
    Honest => \A h \in DOMAIN consensus_states :
        h <= Len(log) /\ consensus_states[h] = ConsensusStateOf(log[h].block)

(* The chain is never accused of misbehaviour it did not commit: no order  *)
(* of its own blocks, and no pruning or eviction of states in between,     *)
(* freezes the client.                                                     *)
NeverAccused == Honest => ~client.is_frozen

\* The state of latest_height, from which status decides whether the client is
\* still active, is there, and no state is above it.
LatestIsStored ==
    /\ client.latest_height \in DOMAIN consensus_states
    /\ \A h \in DOMAIN consensus_states : h <= client.latest_height

\* The timestamps of the states increase with their heights.
TimesIncrease ==
    \A h, k \in DOMAIN consensus_states :
        h < k => consensus_states[h].timestamp_ns < consensus_states[k].timestamp_ns

(* Pruning and eviction never take the latest state, and even when a       *)
(* faulty quorum signs conflicting chains the states stay in the order of  *)
(* time, although a new one is compared with its neighbours only, which    *)
(* come and go.                                                            *)
StoreIsSound == TypeOK /\ LatestIsStored /\ TimesIncrease

(* A state the client holds is never replaced by another one, a frozen     *)
(* client stays as it is, and the latest height never goes down.           *)
NeverRewritten ==
    [][/\ \A h \in DOMAIN consensus_states \cap DOMAIN consensus_states' :
             consensus_states'[h] = consensus_states[h]
       /\ client'.latest_height >= client.latest_height
       /\ client.is_frozen => UNCHANGED <<client, consensus_states>>]_vars

(* When relayers submit blocks with the epochs they belong to, the client  *)
(* can verify the block after the latest one: it knows the epoch of that   *)
(* block even though it keeps two commitments only and blocks, including   *)
(* ones that change the epoch, may be skipped.                             *)
NextBlockVerifiable ==
    client.latest_height < Len(log) =>
        log[client.latest_height + 1].epoch
          \in {client.epoch_commitment, client.prev_epoch_commitment}

(* A relayer that keeps submitting the next block brings the client to the *)
(* end of the chain, whatever other relayers skip, repeat or reorder.      *)
CatchesUp == <>[](client.latest_height = Len(log))
=============================================================================
