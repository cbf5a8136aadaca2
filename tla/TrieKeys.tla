------------------------------ MODULE TrieKeys ------------------------------
(***************************************************************************)
(* Identifiers of IBC objects, their keys in the provable storage, and     *)
(* the proofs of what it holds, for the light clients elsewhere.           *)
(*                                                                         *)
(*   common/trie-ids/src/ids.rs, trie_key.rs, path_info.rs                 *)
(*   common/cf-guest/src/proof.rs, lib.rs                                  *)
(*                                                                         *)
(* A client identifier <type>-<counter> is [type, counter]; identifiers of *)
(* connections and channels, whose prefix is fixed, are their counters.    *)
(* Ports are strings.  A height is a number: one revision of the           *)
(* counterparty is modelled.  A path is a record with a field kind and the *)
(* identifiers in it.                                                      *)
(*                                                                         *)
(* A key is the tag of the kind of object followed by components.  Every   *)
(* component has a fixed width in the code (4 bytes for a counter, 9 for a *)
(* port, 8 for a sequence number or half a height), so a key is modelled   *)
(* as the sequence of its components.                                      *)
(***************************************************************************)
EXTENDS Integers, Sequences

CONSTANTS
    U32Max,         \* u32::MAX, the greatest counter
    Alphanumeric    \* the ports that have a 9-byte key

ASSUME TrieKeysAssumption == U32Max \in Nat

\* The value of an absent Option.
None == [none |-> TRUE]

-----------------------------------------------------------------------------
(* Identifiers.                                                            *)

Counter(n) == n \in 0 .. U32Max

\* ClientIdx::parse drops the type: different clients may share an index.
HasClientIdx(id) == Counter(id.counter)
ClientIdx(id) == id.counter

\* PortKey::try_from: at most 12 characters, letters and digits only.
HasPortKey(port) == port \in Alphanumeric

HasPortChannel(port, channel) == HasPortKey(port) /\ Counter(channel)
PortChannelPK(port, channel) == <<port, channel>>

-----------------------------------------------------------------------------
(* Keys.                                                                   *)

Tag == [ClientState |-> 0, ConsensusState |-> 1, Connection |-> 2, ChannelEnd |-> 3,
        NextSequence |-> 4, Commitment |-> 5, Receipt |-> 6, Ack |-> 7, UpgradeClient |-> 8]

UpgradeType == [ClientState |-> 0, ConsensusState |-> 1]

TrieKey(tag, components) == <<tag>> \o components

\* Mutant: the height is left out.
for_consensus_state_by_client(idx, height) == TrieKey(Tag.ConsensusState, <<idx>>)

for_client_state(idx) == TrieKey(Tag.ClientState, <<idx>>)
for_consensus_state(idx, height) == TrieKey(Tag.ConsensusState, <<idx, height>>)
for_connection(idx) == TrieKey(Tag.Connection, <<idx>>)

for_channel_end(pc) == TrieKey(Tag.ChannelEnd, pc)
for_next_sequence(pc) == TrieKey(Tag.NextSequence, pc)

\* The keys of packet commitments, receipts and acknowledgements.
for_sequence_path(tag, pc, seq) == TrieKey(tag, pc \o <<seq>>)

for_upgrade(height, type) == TrieKey(Tag.UpgradeClient, <<height, type>>)

-----------------------------------------------------------------------------
(* Paths.                                                                  *)

\* SequenceKind: the place of a sequence number in the triple.
SequenceKind == [SeqSend |-> 1, SeqRecv |-> 2, SeqAck |-> 3]

WithChannel(p) == PortChannelPK(p.port, p.channel)

PacketKinds == {"Commitment", "Receipt", "Ack"}

\* Whether the identifiers in a path are ones that have keys.
HasKey(p) ==
    \/ p.kind \in {"ClientState", "ConsensusState"} /\ HasClientIdx(p.client)
    \/ p.kind = "Connection" /\ Counter(p.connection)
    \/ p.kind \in {"ChannelEnd"} \cup DOMAIN SequenceKind \cup PacketKinds
         /\ HasPortChannel(p.port, p.channel)
    \/ p.kind = "UpgradeClient"

KeyOf(p) ==
    CASE p.kind = "ClientState" -> for_client_state(ClientIdx(p.client))
      [] p.kind = "ConsensusState" -> for_consensus_state(ClientIdx(p.client), p.height)
      [] p.kind = "Connection" -> for_connection(p.connection)
      [] p.kind = "ChannelEnd" -> for_channel_end(WithChannel(p))
      [] p.kind \in DOMAIN SequenceKind -> for_next_sequence(WithChannel(p))
      [] p.kind \in PacketKinds -> for_sequence_path(Tag[p.kind], WithChannel(p), p.seq)
      [] p.kind = "UpgradeClient" -> for_upgrade(p.height, UpgradeType[p.type])

\* The key of a path with what the key leaves out: the client's full
\* identifier, and which of the three sequence numbers is meant.
PathInfo(p) ==
    [key       |-> KeyOf(p),
     client_id |-> IF p.kind \in {"ClientState", "ConsensusState"} THEN p.client ELSE None,
     seq_kind  |-> IF p.kind \in DOMAIN SequenceKind THEN SequenceKind[p.kind] ELSE None]

-----------------------------------------------------------------------------
(* Hashes: tuples that start with what is hashed how.                      *)

digest(value) == <<"digest", value>>

\* The key of a client's object has the client's index only; the hash has
\* the whole identifier.
digest_with_client_id(id, value) == <<"client", id, value>>

\* SequenceTriple::to_hash: the numbers themselves.
SequenceHash(triple) == <<"sequences", triple>>

\* The hash of a packet receipt.
DefaultHash == <<"default">>

\* No entry.
NoHash == <<>>

-----------------------------------------------------------------------------
(* Proofs.  A proof is [header, sequences]: the header of the block,       *)
(* absent in the variant for a rollup without blocks, and the two sequence *)
(* numbers that follow when one of the three is proved.  The proof inside  *)
(* the trie is not part of it: module Trie shows that one exists exactly   *)
(* for what the trie holds (ProofsAreSound), so a root proves the pairs of *)
(* the trie it is the root of.  Hashes of tries and of headers are these   *)
(* values themselves.                                                      *)

\* Trie::prove and Proof::verify.
Proves(root, key, hash) ==
    IF hash = NoHash THEN key \notin DOMAIN root
    ELSE key \in DOMAIN root /\ root[key] = hash

\* The places in the triple of the numbers other than the one asked for.
OtherPlaces(kind) ==
    CASE kind = 1 -> <<2, 3>> [] kind = 2 -> <<1, 3>> [] kind = 3 -> <<1, 2>>

\* generate_for_block: the numbers are added when the entry exists.
generate(header, path) ==
    LET info == PathInfo(path)
        hash == IF info.key \in DOMAIN header.state_root
                THEN header.state_root[info.key] ELSE NoHash
    IN  [header    |-> header,
         sequences |-> IF path.kind \in DOMAIN SequenceKind /\ hash # NoHash
                       THEN [i \in 1 .. 2 |-> hash[2][OtherPlaces(info.seq_kind)[i]]]
                       ELSE <<>>]

\* Mutant: the number is always taken for the first one.
WholeTriple_first(kind, seq, others) == <<seq, others[1], others[2]>>

\* The triple of a number and the two that came with the proof.
WholeTriple(kind, seq, others) ==
    CASE kind = 1 -> <<seq, others[1], others[2]>>
      [] kind = 2 -> <<others[1], seq, others[2]>>
      [] kind = 3 -> <<others[1], others[2], seq>>

\* Which numbers a proof must carry: two for a sequence number, else none.
RightLength(path, value, proof) ==
    Len(proof.sequences) =
      IF path.kind \in DOMAIN SequenceKind /\ value # NoHash THEN 2 ELSE 0

\* The hash under which the verifier expects a value.
ExpectedHash(path, value, proof) ==
    LET info == PathInfo(path)
    IN  CASE value = NoHash -> NoHash
          [] value # NoHash /\ path.kind \in DOMAIN SequenceKind ->
               SequenceHash(WholeTriple(info.seq_kind, value[1], proof.sequences))
          [] value # NoHash /\ path.kind \in {"ClientState", "ConsensusState"} ->
               digest_with_client_id(info.client_id, value[1])
          [] value # NoHash /\ path.kind \in PacketKinds -> value[1]
          [] OTHER -> digest(value[1])

\* verify_for_block.  A value is a sequence of one element, or empty when the
\* absence of a value is to be proved.
verify(proof, root, path, value) ==
    /\ HasKey(path)
    /\ root = proof.header
    /\ RightLength(path, value, proof)
    /\ Proves(proof.header.state_root, KeyOf(path), ExpectedHash(path, value, proof))
=============================================================================
