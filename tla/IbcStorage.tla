----------------------------- MODULE IbcStorage -----------------------------
(***************************************************************************)
(* The storage that the IBC program offers to the handlers of ibc-rs.      *)
(*                                                                         *)
(*   solana-ibc/src/storage.rs                                             *)
(*   solana-ibc/src/execution_context.rs, validation_context.rs            *)
(*                                                                         *)
(* A store is a record with the fields of PrivateStorage that the handlers *)
(* use and the provable trie:                                              *)
(*                                                                         *)
(*   clients           sequence of [client_id, client_state,               *)
(*                     consensus_states], the client with counter n at     *)
(*                     place n + 1; consensus_states maps heights to       *)
(*                     [state, time, height], the last two telling when    *)
(*                     the state was stored                                *)
(*   connections       sequence of connection ends, in the same way        *)
(*   port_channel      [end, next_sequence] for each (port, channel)       *)
(*   channel_counter   counter of the next channel                         *)
(*   trie              function from the keys in the trie to hashes        *)
(*                                                                         *)
(* Hashes are those of module TrieKeys.                                    *)
(***************************************************************************)
EXTENDS TrieKeys, ConsensusStore

EmptyStore ==
    [clients |-> <<>>, connections |-> <<>>, port_channel |-> <<>>,
     channel_counter |-> 0, trie |-> <<>>]

TrieSet(st, key, hash) == [st EXCEPT !.trie = Put(@, key, hash)]
TrieDel(st, key) == [st EXCEPT !.trie = Drop(@, key)]

-----------------------------------------------------------------------------
(* Clients.                                                                *)

Place(counter) == counter + 1

\* PrivateStorage::client.
HasClient(st, id) ==
    /\ HasClientIdx(id)
    /\ Place(ClientIdx(id)) \in DOMAIN st.clients
    /\ st.clients[Place(ClientIdx(id))].client_id = id

client(st, id) == st.clients[Place(ClientIdx(id))]

\* PrivateStorage::client_mut with create set.
MayStoreClient(st, id) ==
    HasClient(st, id) \/ (HasClientIdx(id) /\ ClientIdx(id) = Len(st.clients))

NewClient(id) == [client_id |-> id, client_state |-> None, consensus_states |-> <<>>]

store_client_state(st, id, state) ==
    LET created == IF HasClient(st, id) THEN st
                   ELSE [st EXCEPT !.clients = Append(@, NewClient(id))]
        set     == [created EXCEPT !.clients[Place(ClientIdx(id))].client_state = state]
    IN  TrieSet(set, for_client_state(ClientIdx(id)), digest_with_client_id(id, state))

\* A state evicted to make room keeps its entry in the trie.
store_consensus_state(st, id, height, state, head) ==
    LET stored == [state |-> state, time |-> head.timestamp, height |-> head.block_height]
        set    == [st EXCEPT !.clients[Place(ClientIdx(id))].consensus_states =
                      insert_consensus_state(@, height, stored)]
    IN  TrieSet(set, for_consensus_state(ClientIdx(id), height),
                digest_with_client_id(id, state))

\* consensus_state and update_meta.
HasConsensusState(st, id, height) ==
    HasClient(st, id) /\ height \in DOMAIN client(st, id).consensus_states

consensus_state(st, id, height) == client(st, id).consensus_states[height].state

update_meta(st, id, height) ==
    LET stored == client(st, id).consensus_states[height]
    IN  [time |-> stored.time, height |-> stored.height]

\* The counter of the next client.
client_counter(st) == Len(st.clients)

-----------------------------------------------------------------------------
(* Connections and channels.                                               *)

HasConnection(st, idx) == Place(idx) \in DOMAIN st.connections
connection_end(st, idx) == st.connections[Place(idx)]
connection_counter(st) == Len(st.connections)

MayStoreConnection(st, idx) == Counter(idx) /\ idx <= Len(st.connections)

store_connection(st, idx, end) ==
    LET set == IF idx < Len(st.connections)
               THEN [st EXCEPT !.connections[Place(idx)] = end]
               ELSE [st EXCEPT !.connections = Append(@, end)]
    IN  TrieSet(set, for_connection(idx), digest(end))

\* PortChannelStore::default.
NewPortChannel == [end |-> None, next_sequence |-> <<0, 0, 0>>]

PortChannel(st, pc) ==
    IF pc \in DOMAIN st.port_channel THEN st.port_channel[pc] ELSE NewPortChannel

store_channel(st, pc, end) ==
    LET set == [st EXCEPT !.port_channel = Put(@, pc, [PortChannel(st, pc) EXCEPT !.end = end])]
    IN  TrieSet(set, for_channel_end(pc), digest(end))

HasChannel(st, pc) == PortChannel(st, pc).end # None
channel_end(st, pc) == PortChannel(st, pc).end

increase_channel_counter(st) == [st EXCEPT !.channel_counter = @ + 1]
channel_counter(st) == st.channel_counter

\* Mutant: the other two numbers are lost.
SetSequence_alone(triple, kind, seq) == [NewPortChannel.next_sequence EXCEPT ![kind] = seq]

\* SequenceTriple::set; a number that is absent is zero.
SetSequence(triple, kind, seq) == [triple EXCEPT ![kind] = seq]

store_next_sequence(st, pc, kind, seq) ==
    LET old    == PortChannel(st, pc)
        triple == SetSequence(old.next_sequence, kind, seq)
        set    == [st EXCEPT !.port_channel = Put(@, pc, [old EXCEPT !.next_sequence = triple])]
    IN  TrieSet(set, for_next_sequence(pc), SequenceHash(triple))

get_next_sequence(st, pc, kind) == PortChannel(st, pc).next_sequence[kind]

-----------------------------------------------------------------------------
(* Packets, which are in the trie only.                                    *)

store_packet_commitment(st, pc, seq, hash) ==
    TrieSet(st, for_sequence_path(Tag.Commitment, pc, seq), hash)

delete_packet_commitment(st, pc, seq) ==
    TrieDel(st, for_sequence_path(Tag.Commitment, pc, seq))

store_packet_receipt(st, pc, seq) ==
    TrieSet(st, for_sequence_path(Tag.Receipt, pc, seq), DefaultHash)

store_packet_acknowledgement(st, pc, seq, hash) ==
    TrieSet(st, for_sequence_path(Tag.Ack, pc, seq), hash)

TrieGet(st, key) == IF key \in DOMAIN st.trie THEN st.trie[key] ELSE NoHash

get_packet_commitment(st, pc, seq) == TrieGet(st, for_sequence_path(Tag.Commitment, pc, seq))
get_packet_acknowledgement(st, pc, seq) == TrieGet(st, for_sequence_path(Tag.Ack, pc, seq))

\* Mutant: the key of the acknowledgement is looked up.
get_packet_receipt_by_ack(st, pc, seq) ==
    TrieGet(st, for_sequence_path(Tag.Ack, pc, seq)) = DefaultHash

\* A receipt is one only if its hash is the default one.
get_packet_receipt(st, pc, seq) ==
    TrieGet(st, for_sequence_path(Tag.Receipt, pc, seq)) = DefaultHash
=============================================================================
