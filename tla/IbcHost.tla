------------------------------- MODULE IbcHost ------------------------------
(***************************************************************************)
(* The IBC program as a host: the messages relayers deliver and what they  *)
(* leave in the storage.                                                   *)
(*                                                                         *)
(*   solana-ibc/src/lib.rs   deliver, update_connection_delay_period       *)
(*                                                                         *)
(* The handlers themselves are ibc-rs, outside this repository; each is    *)
(* the sequence of calls to the storage that it makes once its message is  *)
(* valid.  Proofs of the counterparty's state are taken to be verified     *)
(* against a consensus state that the storage holds, headers to be         *)
(* accepted by the light client (modules GuestClient and SolanaClient).    *)
(* Every instruction first tries to make a block of the guest chain, so    *)
(* the head may advance at its start.  The variable seen records the       *)
(* consensus states ever stored.                                           *)
(***************************************************************************)
EXTENDS IbcStorage

CONSTANTS
    ClientTypes,    \* client types that are implemented
    Heights,        \* heights of the counterparties
    States,         \* consensus states a header may carry
    Hashes,         \* packet commitments and acknowledgements
    Delays,         \* connection delays
    TimePerBlock,   \* max_expected_time_per_block
    MaxClients, MaxConnections, MaxChannels, MaxSequence, MaxHead,  \* bounds
    MaxSeen         \* bound on the consensus states ever stored

VARIABLES
    store,  \* the storage, see IbcStorage
    head,   \* the head of the guest chain
    seen    \* consensus states ever stored: [client, height, state]

vars == <<store, head, seen>>

Transfer == "transfer"

ASSUME IbcHostAssumption ==
    /\ Transfer \in Alphanumeric
    /\ Heights \subseteq Nat \ {0}
    /\ Delays \subseteq Nat /\ TimePerBlock \in Nat \ {0}
    /\ NoHash \notin Hashes
    /\ {MaxClients, MaxConnections, MaxChannels} \subseteq 0 .. U32Max + 1
    /\ MaxSequence \in Nat /\ MaxHead \in Nat \ {0}

Init ==
    /\ store = EmptyStore
    /\ head = [block_height |-> 1, timestamp |-> 1]
    /\ seen = {}

\* from_ctx: a block is generated if the chain allows one, and the host's height
\* and time are the head's.  A generated block is only pending, so the head stays
\* where it is more often than here.  Built with the witness feature the program
\* takes both from the clock instead (host_height, host_timestamp): that build is
\* not modelled here.
from_ctx ==
    \/ head' = head
    \/ /\ head.block_height < MaxHead
       /\ head' = [block_height |-> head.block_height + 1, timestamp |-> head.timestamp + 1]

\* deliver: the message is handled as a whole or not at all.
deliver(st) == store' = st

-----------------------------------------------------------------------------
(* Clients.                                                                *)

Remember(id, height, state) ==
    /\ seen' = seen \cup {[client |-> id, height |-> height, state |-> state]}
    /\ Cardinality(seen') <= MaxSeen

CreateClient(type, height, state) ==
    LET id == [type |-> type, counter |-> client_counter(store)]
    IN  /\ Len(store.clients) < MaxClients
        /\ MayStoreClient(store, id)
        /\ from_ctx
        /\ deliver(store_consensus_state(
                     store_client_state(store, id, [latest_height |-> height, frozen |-> FALSE]),
                     id, height, state, head'))
        /\ Remember(id, height, state)

\* A header for a height that is stored changes nothing or is misbehaviour.
UpdateClient(id, height, state) ==
    /\ HasClient(store, id)
    /\ ~client(store, id).client_state.frozen
    /\ from_ctx
    /\ LET old == client(store, id).client_state
       IN  IF HasConsensusState(store, id, height)
           THEN /\ deliver(IF consensus_state(store, id, height) = state THEN store
                           ELSE store_client_state(store, id, [old EXCEPT !.frozen = TRUE]))
                /\ UNCHANGED seen
           ELSE /\ deliver(store_consensus_state(
                             store_client_state(store, id,
                               [old EXCEPT !.latest_height = Max({@, height})]),
                             id, height, state, head'))
                /\ Remember(id, height, state)

-----------------------------------------------------------------------------
(* Connections.                                                            *)

NewConnection(id, state, delay) ==
    LET idx == connection_counter(store)
    IN  /\ idx < MaxConnections
        /\ HasClient(store, id) /\ ~client(store, id).client_state.frozen
        /\ MayStoreConnection(store, idx)
        /\ from_ctx
        /\ deliver(store_connection(store, idx,
                     [state |-> state, client |-> id, delay |-> delay]))
        /\ UNCHANGED seen

ConnOpenInit(id, delay) == NewConnection(id, "Init", delay)

\* Somewhere in the counterparty's state that a stored header commits to.
SomeProof(id) == \E h \in Heights : HasConsensusState(store, id, h)

ConnOpenTry(id, delay) == SomeProof(id) /\ NewConnection(id, "TryOpen", delay)

\* ConnOpenAck and ConnOpenConfirm.
OpenConnection(idx, from) ==
    /\ HasConnection(store, idx)
    /\ connection_end(store, idx).state = from
    /\ SomeProof(connection_end(store, idx).client)
    /\ from_ctx
    /\ deliver(store_connection(store, idx, [connection_end(store, idx) EXCEPT !.state = "Open"]))
    /\ UNCHANGED seen

ConnOpenAck(idx) == OpenConnection(idx, "Init")
ConnOpenConfirm(idx) == OpenConnection(idx, "TryOpen")

\* Called by the fee collector.
update_connection_delay_period(idx, delay) ==
    /\ HasConnection(store, idx)
    /\ from_ctx
    /\ store' = store_connection(store, idx, [connection_end(store, idx) EXCEPT !.delay = delay])
    /\ UNCHANGED seen

-----------------------------------------------------------------------------
(* Channels of the transfer application, which are unordered.              *)

NewChannel(idx, state) ==
    LET pc == PortChannelPK(Transfer, channel_counter(store))
        s0 == store_channel(store, pc, [state |-> state, connection |-> idx])
        s1 == store_next_sequence(increase_channel_counter(s0), pc, SequenceKind.SeqSend, 1)
        s2 == store_next_sequence(s1, pc, SequenceKind.SeqRecv, 1)
    IN  /\ channel_counter(store) < MaxChannels
        /\ HasConnection(store, idx)
        /\ from_ctx
        /\ deliver(store_next_sequence(s2, pc, SequenceKind.SeqAck, 1))
        /\ UNCHANGED seen

ChanOpenInit(idx) == NewChannel(idx, "Init")

ChanOpenTry(idx) ==
    /\ HasConnection(store, idx) /\ connection_end(store, idx).state = "Open"
    /\ SomeProof(connection_end(store, idx).client)
    /\ NewChannel(idx, "TryOpen")

ConnectionOf(pc) == connection_end(store, channel_end(store, pc).connection)

MoveChannel(pc, from, to) ==
    /\ HasChannel(store, pc)
    /\ channel_end(store, pc).state \in from
    /\ ConnectionOf(pc).state = "Open"
    /\ SomeProof(ConnectionOf(pc).client)
    /\ from_ctx
    /\ deliver(store_channel(store, pc, [channel_end(store, pc) EXCEPT !.state = to]))
    /\ UNCHANGED seen

ChanOpenAck(pc) == MoveChannel(pc, {"Init"}, "Open")
ChanOpenConfirm(pc) == MoveChannel(pc, {"TryOpen"}, "Open")

\* The transfer module refuses ChanCloseInit.
ChanCloseConfirm(pc) == MoveChannel(pc, {"Init", "TryOpen", "Open"}, "Closed")

-----------------------------------------------------------------------------
(* Packets.                                                                *)

\* The delay of a connection in blocks.
calculate_block_delay(delay) == (delay + TimePerBlock - 1) \div TimePerBlock

\* A state stored long enough ago to prove packets with (ibc-rs).
PacketProof(pc) ==
    LET conn == ConnectionOf(pc)
    IN  \E h \in Heights :
          /\ HasConsensusState(store, conn.client, h)
          /\ LET meta == update_meta(store, conn.client, h)
             IN  /\ head'.timestamp >= meta.time + conn.delay
                 /\ head'.block_height >= meta.height + calculate_block_delay(conn.delay)

OpenChannel(pc) ==
    /\ HasChannel(store, pc)
    /\ channel_end(store, pc).state = "Open"
    /\ ConnectionOf(pc).state = "Open"
    /\ ~client(store, ConnectionOf(pc).client).client_state.frozen

SendPacket(pc, hash) ==
    LET seq == get_next_sequence(store, pc, SequenceKind.SeqSend)
    IN  /\ OpenChannel(pc) /\ seq <= MaxSequence
        /\ from_ctx
        /\ deliver(store_packet_commitment(
                     store_next_sequence(store, pc, SequenceKind.SeqSend, seq + 1), pc, seq, hash))
        /\ UNCHANGED seen

\* A packet that was received already changes nothing.
RecvPacket(pc, seq, ack) ==
    /\ OpenChannel(pc)
    /\ from_ctx
    /\ PacketProof(pc)
    /\ deliver(IF get_packet_receipt(store, pc, seq) THEN store
               ELSE store_packet_acknowledgement(
                      store_packet_receipt(store, pc, seq), pc, seq, ack))
    /\ UNCHANGED seen

\* AcknowledgePacket and TimeoutPacket; without a commitment nothing changes.
EndPacket(pc, seq, hash) ==
    /\ OpenChannel(pc)
    /\ from_ctx
    /\ PacketProof(pc)
    /\ get_packet_commitment(store, pc, seq) \in {NoHash, hash}
    /\ deliver(delete_packet_commitment(store, pc, seq))
    /\ UNCHANGED seen

PortChannels == {<<Transfer, n>> : n \in 0 .. MaxChannels - 1}

Next ==
    \/ \E type \in ClientTypes, h \in Heights, s \in States : CreateClient(type, h, s)
    \/ \E i \in DOMAIN store.clients, h \in Heights, s \in States :
         UpdateClient(store.clients[i].client_id, h, s)
    \/ \E i \in DOMAIN store.clients, d \in Delays :
         \/ ConnOpenInit(store.clients[i].client_id, d)
         \/ ConnOpenTry(store.clients[i].client_id, d)
    \/ \E idx \in 0 .. MaxConnections - 1 :
         \/ ConnOpenAck(idx)
         \/ ConnOpenConfirm(idx)
         \/ \E d \in Delays : update_connection_delay_period(idx, d)
         \/ ChanOpenInit(idx)
         \/ ChanOpenTry(idx)
    \/ \E pc \in PortChannels :
         \/ ChanOpenAck(pc)
         \/ ChanOpenConfirm(pc)
         \/ ChanCloseConfirm(pc)
         \/ \E hash \in Hashes : SendPacket(pc, hash)
         \/ \E seq \in 1 .. MaxSequence, hash \in Hashes :
              RecvPacket(pc, seq, hash) \/ EndPacket(pc, seq, hash)

Spec == Init /\ [][Next]_vars

-----------------------------------------------------------------------------
(* The storage has the shape of PrivateStorage and never more than         *)
(* MAX_CONSENSUS_STATES states of a client.                                *)
TypeOK ==
    /\ \A i \in DOMAIN store.clients :
         /\ store.clients[i].client_id = [type |-> store.clients[i].client_id.type, counter |-> i - 1]
         /\ Cardinality(DOMAIN store.clients[i].consensus_states) \in 1 .. MaxClientStates
    /\ Len(store.connections) <= MaxConnections
    /\ DOMAIN store.port_channel = {<<Transfer, n>> : n \in 0 .. store.channel_counter - 1}
    /\ head.block_height \in 1 .. MaxHead

\* The identifiers that paths are made of; those of clients that do not
\* exist and of other ports included.
ClientIds == [type : ClientTypes, counter : 0 .. MaxClients - 1]

StoredPaths ==
    [kind : {"ClientState"}, client : ClientIds]
      \cup [kind : {"Connection"}, connection : 0 .. MaxConnections - 1]
      \cup [kind : {"ChannelEnd"} \cup DOMAIN SequenceKind, port : Alphanumeric,
            channel : 0 .. MaxChannels - 1]

\* What the storage answers for a path: no value or a sequence of one.
Answer(path) ==
    LET pc == PortChannelPK(path.port, path.channel)
    IN  CASE path.kind = "ClientState" ->
               IF HasClient(store, path.client)
               THEN <<client(store, path.client).client_state>> ELSE <<>>
          [] path.kind = "Connection" ->
               IF HasConnection(store, path.connection)
               THEN <<connection_end(store, path.connection)>> ELSE <<>>
          [] path.kind = "ChannelEnd" ->
               IF HasChannel(store, pc) THEN <<channel_end(store, pc)>> ELSE <<>>
          [] path.kind \in DOMAIN SequenceKind ->
               IF HasChannel(store, pc)
               THEN <<get_next_sequence(store, pc, SequenceKind[path.kind])>> ELSE <<>>

\* Values that somebody may claim of a path: whatever is stored of the kind.
Claims(path) ==
    {<<>>} \cup
      CASE path.kind = "ClientState" ->
             {<<store.clients[i].client_state>> : i \in DOMAIN store.clients}
        [] path.kind = "Connection" ->
             {<<[store.connections[i] EXCEPT !.delay = d]>> :
                i \in DOMAIN store.connections, d \in Delays}
        [] path.kind = "ChannelEnd" ->
             {<<store.port_channel[pc].end>> : pc \in DOMAIN store.port_channel}
        [] path.kind \in DOMAIN SequenceKind -> {<<n>> : n \in 1 .. MaxSequence + 1}

Header == [block_height |-> head.block_height, state_root |-> store.trie]

\* Another client has the same index, and with it the key.
SharesKey(path) ==
    path.kind = "ClientState" /\ ~HasClient(store, path.client)
      /\ path.client.counter < client_counter(store)

(* A block of the guest chain proves of each client, connection, channel   *)
(* and sequence number exactly what the program itself would read, whatever*)
(* numbers a relayer attaches to the proof: never the state of a client    *)
(* with the same counter, of another port or of an older write.  Only the  *)
(* absence of a client whose index another one has cannot be proved.       *)
ProofsAreFaithful ==
    \A path \in StoredPaths :
        /\ ~SharesKey(path) => verify(generate(Header, path), Header, path, Answer(path))
        /\ \A claim \in Claims(path) \ {Answer(path)} :
             \A others \in {<<>>} \cup [1 .. 2 -> 1 .. MaxSequence + 1] :
               ~verify([header |-> Header, sequences |-> others], Header, path, claim)

ConsensusPaths == [kind : {"ConsensusState"}, client : ClientIds, height : Heights]

(* Every consensus state the program holds is provable, and what is        *)
(* provable of a client and height, evicted states included, is a state    *)
(* that the light client accepted for them; the storage keeps its shape    *)
(* and the list of states its bound.                                       *)
ConsensusProofsAreHistory ==
    /\ TypeOK
    /\ \A path \in ConsensusPaths :
        /\ HasConsensusState(store, path.client, path.height) =>
             verify(generate(Header, path), Header, path,
                    <<consensus_state(store, path.client, path.height)>>)
        /\ \A state \in States :
             verify(generate(Header, path), Header, path, <<state>>) =>
               [client |-> path.client, height |-> path.height, state |-> state] \in seen

\* The time from which a packet's delay counts stays as long as the consensus
\* state does.
KeepsMeta ==
    \A path \in ConsensusPaths :
        LET held(st) == HasConsensusState(st, path.client, path.height)
        IN  held(store) /\ held(store') =>
              update_meta(store', path.client, path.height)
                = update_meta(store, path.client, path.height)

Rank == [Init |-> 1, TryOpen |-> 1, Open |-> 2, Closed |-> 3]

\* A client keeps its identifier, a connection its client, a channel its
\* connection, and their states only move forward.
KeepsObjects ==
    /\ \A i \in DOMAIN store.clients :
         store'.clients[i].client_id = store.clients[i].client_id
    /\ \A i \in DOMAIN store.connections :
         /\ store'.connections[i].client = store.connections[i].client
         /\ Rank[store'.connections[i].state] >= Rank[store.connections[i].state]
    /\ \A pc \in DOMAIN store.port_channel :
         LET old == store.port_channel[pc]
             new == store'.port_channel[pc]
         IN  /\ new.end.connection = old.end.connection
             /\ \/ new.end.state = old.end.state
                \/ Rank[new.end.state] > Rank[old.end.state]
             /\ \A k \in 1 .. 3 : new.next_sequence[k] >= old.next_sequence[k]

(* Whatever handshakes run next to each other, no object is replaced by    *)
(* another one or falls back, and no message, repeated or of another       *)
(* client, moves the time from which a packet's delay counts, so it cannot *)
(* be used to hold packets back or to let them through.                    *)
RecordsAdvance == [][KeepsMeta /\ KeepsObjects]_vars

Keys(tag) == {for_sequence_path(Tag[tag], pc, n) : pc \in PortChannels, n \in 1 .. MaxSequence}

(* A sequence number is used once: a commitment that was deleted never     *)
(* comes back, whatever a relayer repeats, and a receipt and its           *)
(* acknowledgement, once written, stay as they are.                        *)
PacketsHappenOnce ==
    [][/\ \A pc \in PortChannels, n \in 1 .. MaxSequence :
            get_packet_commitment(store', pc, n) # get_packet_commitment(store, pc, n) =>
              \/ get_packet_commitment(store', pc, n) = NoHash
              \/ /\ get_packet_commitment(store, pc, n) = NoHash
                 /\ n = get_next_sequence(store, pc, SequenceKind.SeqSend)
                 /\ n < get_next_sequence(store', pc, SequenceKind.SeqSend)
       /\ \A key \in (Keys("Receipt") \cup Keys("Ack")) \cap DOMAIN store.trie :
            key \in DOMAIN store'.trie /\ store'.trie[key] = store.trie[key]]_vars
=============================================================================
