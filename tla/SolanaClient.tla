---------------------------- MODULE SolanaClient ----------------------------
(***************************************************************************)
(* The light client of a Solana rollup whose programs keep their state in  *)
(* a trie, the root of which is in a witness account.                      *)
(*                                                                         *)
(*   common/cf-solana/src/client.rs, client/impls.rs, header.rs,           *)
(*   consensus.rs, misbehaviour.rs, message.rs                             *)
(*   solana/trie/src/witness.rs                                            *)
(*                                                                         *)
(* A header is [slot, bank_hash, delta_hash_proof, witness_proof].  The    *)
(* client believes any bank hash that it is given; what it verifies is     *)
(* that the contents of the witness account follow from the bank hash.     *)
(* The store is a function from slots to consensus states.                 *)
(***************************************************************************)
EXTENDS AccountProofs, ConsensusStore

CONSTANTS
    TrustingPeriod, \* trusting_period_ns, in seconds
    TimeModulus,    \* 2^48: the timestamp is kept in six bytes
    SlotModulus     \* 256: one byte of the slot is kept

-----------------------------------------------------------------------------
(* The witness account.                                                    *)

\* witness::Data::new.
WitnessData(root, clock) ==
    [trie_root |-> root, timestamp |-> clock.unix_timestamp % TimeModulus,
     slot_byte |-> clock.slot % SlotModulus, last |-> 0]

\* Header::decode_witness: a consensus state, or none when the timestamp is
\* zero or the account is not a witness.
IsWitness(data) == "trie_root" \in DOMAIN data /\ data.last = 0 /\ data.timestamp # 0

ConsensusStateOf(header) ==
    [trie_root     |-> header.witness_proof.account.data.trie_root,
     timestamp_sec |-> header.witness_proof.account.data.timestamp]

Decodes(header) == IsWitness(header.witness_proof.account.data)

\* The timestamp, zero for none: None is less than any Some.
DecodedTime(header) == IF Decodes(header) THEN ConsensusStateOf(header).timestamp_sec ELSE 0

-----------------------------------------------------------------------------
(* ClientState.                                                            *)

with_header(c, header) == [c EXCEPT !.latest_slot = Max({@, header.slot})]

frozen(c) == [c EXCEPT !.is_frozen = TRUE]

consensus_has_expired(state, now) == state.timestamp_sec + TrustingPeriod <= now

status(c, store, now) ==
    CASE c.is_frozen -> "Frozen"
      [] ~c.is_frozen /\ c.latest_slot \notin DOMAIN store -> "Expired"
      [] OTHER -> IF consensus_has_expired(store[c.latest_slot], now) THEN "Expired" ELSE "Active"

\* Mutant: a header that advances the client may prove any account.
verify_header_unrooted(c, header) ==
    /\ header.bank_hash = calculate_bank_hash(header.delta_hash_proof)
    /\ \/ header.slot > c.latest_slot
       \/ header.delta_hash_proof.accounts_delta_hash = ExpectedRoot(header.witness_proof)
    /\ header.witness_proof.account.key = c.witness_account

verify_header(c, header) ==
    /\ header.bank_hash = calculate_bank_hash(header.delta_hash_proof)
    /\ header.delta_hash_proof.accounts_delta_hash = ExpectedRoot(header.witness_proof)
    /\ header.witness_proof.account.key = c.witness_account

\* Mutant: two slots of one second are taken for misbehaviour.
check_for_misbehaviour_in_header_strict(store, header) ==
    IF header.slot \in DOMAIN store
    THEN store[header.slot] # ConsensusStateOf(header)
    ELSE /\ Decodes(header)
         /\ \/ \E s \in PrevStates(store, header.slot) : DecodedTime(header) <= s.timestamp_sec
            \/ \E s \in NextStates(store, header.slot) : s.timestamp_sec <= DecodedTime(header)

check_for_misbehaviour_in_header(store, header) ==
    IF header.slot \in DOMAIN store
    THEN store[header.slot] # ConsensusStateOf(header)
    ELSE /\ Decodes(header)
         /\ \/ \E s \in PrevStates(store, header.slot) : DecodedTime(header) < s.timestamp_sec
            \/ \E s \in NextStates(store, header.slot) : s.timestamp_sec < DecodedTime(header)

check_for_misbehaviour_in_misbehavior(h1, h2) ==
    IF h1.slot = h2.slot
    THEN h1.witness_proof.account # h2.witness_proof.account
    ELSE IF h1.slot < h2.slot
    THEN DecodedTime(h1) > DecodedTime(h2)
    ELSE DecodedTime(h2) > DecodedTime(h1)

\* do_update_state: the store after a header.  The host prunes nothing, it
\* keeps a limited number of states instead.
UpdatedStates(store, header) ==
    IF header.slot \in DOMAIN store THEN store
    ELSE insert_consensus_state(store, header.slot, ConsensusStateOf(header))

UpdatedClient(c, store, header) ==
    IF header.slot \in DOMAIN store THEN c ELSE with_header(c, header)

\* A witness that cannot be decoded is an error, in the check of a slot that
\* is stored or in the update of one that is not.
MayUpdate(header) == Decodes(header)
=============================================================================
