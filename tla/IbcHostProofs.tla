---------------------------- MODULE IbcHostProofs ---------------------------
(***************************************************************************)
(* The trie of the IBC program holds what its storage holds, for any       *)
(* clients, connections, channels and packets: records only move forward,  *)
(* sequence numbers are used once, and proofs of the guest state show what *)
(* the program itself would read.                                          *)
(***************************************************************************)
EXTENDS IbcHost, StakeProofs, SequenceTheorems

-----------------------------------------------------------------------------
(* The inductive invariant, on values of the storage.                      *)

IsStore(st) ==
    st = [clients |-> st.clients, connections |-> st.connections,
          port_channel |-> st.port_channel, channel_counter |-> st.channel_counter,
          trie |-> st.trie]

IsSeq(s) == s \in Seq({s[i] : i \in DOMAIN s})

\* Consensus states: finitely many heights, within the limit.
IsStates(s) ==
    /\ DOMAIN s \subseteq Nat \ {0}
    /\ IsFiniteSet(DOMAIN s)
    /\ Cardinality(DOMAIN s) <= MaxClientStates

IsClient(c, n) ==
    /\ c = [client_id |-> c.client_id, client_state |-> c.client_state,
            consensus_states |-> c.consensus_states]
    /\ c.client_id = [type |-> c.client_id.type, counter |-> n]
    /\ IsStates(c.consensus_states)

AreClients(clients) ==
    IsSeq(clients) /\ \A i \in DOMAIN clients : IsClient(clients[i], i - 1)

IsConnection(c) ==
    /\ c = [state |-> c.state, client |-> c.client, delay |-> c.delay]
    /\ c.state \in {"Init", "TryOpen", "Open"}

AreConnections(connections) ==
    IsSeq(connections) /\ \A i \in DOMAIN connections : IsConnection(connections[i])

IsEnd(e) ==
    /\ e = [state |-> e.state, connection |-> e.connection]
    /\ e.state \in {"Init", "TryOpen", "Open", "Closed"}

IsPortChannel(p) ==
    /\ p = [end |-> p.end, next_sequence |-> p.next_sequence]
    /\ IsEnd(p.end)
    /\ p.next_sequence \in [1 .. 3 -> Nat]

\* Every port and channel that has a key.
PKs == Alphanumeric \X Nat

ArePortChannels(channels) ==
    DOMAIN channels \subseteq PKs /\ \A pc \in DOMAIN channels : IsPortChannel(channels[pc])

\* The entries of the clients: one for each, with its own identifier.
ClientEntries(clients, trie) ==
    \A n \in Nat :
        /\ for_client_state(n) \in DOMAIN trie <=> n + 1 \in DOMAIN clients
        /\ n + 1 \in DOMAIN clients =>
             trie[for_client_state(n)] =
               digest_with_client_id(clients[n + 1].client_id, clients[n + 1].client_state)

\* An entry of a consensus state is one that was stored for the client.
StateEntry(clients, trie, accepted, n, h) ==
    for_consensus_state(n, h) \in DOMAIN trie =>
      /\ n + 1 \in DOMAIN clients
      /\ \E s \in States :
           /\ trie[for_consensus_state(n, h)] =
                digest_with_client_id(clients[n + 1].client_id, s)
           /\ [client |-> clients[n + 1].client_id, height |-> h, state |-> s] \in accepted

\* What the storage holds has its entry.
HeldEntry(clients, trie, n, h) ==
    n + 1 \in DOMAIN clients /\ h \in DOMAIN clients[n + 1].consensus_states =>
      /\ for_consensus_state(n, h) \in DOMAIN trie
      /\ trie[for_consensus_state(n, h)] =
           digest_with_client_id(clients[n + 1].client_id,
                                 clients[n + 1].consensus_states[h].state)

StateEntries(clients, trie, accepted) ==
    \A n \in Nat, h \in Heights :
        StateEntry(clients, trie, accepted, n, h) /\ HeldEntry(clients, trie, n, h)

ConnectionEntries(connections, trie) ==
    \A n \in Nat :
        /\ for_connection(n) \in DOMAIN trie <=> n + 1 \in DOMAIN connections
        /\ n + 1 \in DOMAIN connections =>
             trie[for_connection(n)] = digest(connections[n + 1])

ChannelEntries(channels, trie) ==
    \A pc \in PKs :
        /\ for_channel_end(pc) \in DOMAIN trie <=> pc \in DOMAIN channels
        /\ pc \in DOMAIN channels =>
             trie[for_channel_end(pc)] = digest(channels[pc].end)

\* The entry of the numbers is written after that of the channel.
SequenceEntries(channels, trie) ==
    \A pc \in PKs :
        for_next_sequence(pc) \in DOMAIN trie =>
          /\ pc \in DOMAIN channels
          /\ trie[for_next_sequence(pc)] = SequenceHash(channels[pc].next_sequence)

\* Commitments are of numbers given out; a receipt comes before an
\* acknowledgement.
CommitmentEntries(channels, trie) ==
    \A pc \in PKs, n \in Nat :
        for_sequence_path(Tag.Commitment, pc, n) \in DOMAIN trie =>
          pc \in DOMAIN channels /\ n < channels[pc].next_sequence[1]

ReceiptEntries(trie) ==
    \A pc \in PKs, n \in Nat :
        /\ for_sequence_path(Tag.Receipt, pc, n) \in DOMAIN trie =>
             trie[for_sequence_path(Tag.Receipt, pc, n)] = DefaultHash
        /\ for_sequence_path(Tag.Ack, pc, n) \in DOMAIN trie =>
             for_sequence_path(Tag.Receipt, pc, n) \in DOMAIN trie

\* What each call to the storage keeps.
StoreInv(st, accepted) ==
    /\ IsStore(st)
    /\ AreClients(st.clients)
    /\ AreConnections(st.connections)
    /\ ArePortChannels(st.port_channel)
    /\ st.channel_counter \in Nat
    /\ ClientEntries(st.clients, st.trie)
    /\ StateEntries(st.clients, st.trie, accepted)
    /\ ConnectionEntries(st.connections, st.trie)
    /\ ChannelEntries(st.port_channel, st.trie)
    /\ SequenceEntries(st.port_channel, st.trie)
    /\ CommitmentEntries(st.port_channel, st.trie)
    /\ ReceiptEntries(st.trie)

\* What holds between messages: clients have a state, channels their numbers.
Complete(st) ==
    /\ \A i \in DOMAIN st.clients : DOMAIN st.clients[i].consensus_states # {}
    /\ Len(st.connections) <= MaxConnections
    /\ DOMAIN st.port_channel = {<<Transfer, n>> : n \in 0 .. st.channel_counter - 1}
    /\ \A pc \in DOMAIN st.port_channel : for_next_sequence(pc) \in DOMAIN st.trie

IInv ==
    /\ StoreInv(store, seen)
    /\ Complete(store)
    /\ head.block_height \in 1 .. MaxHead

-----------------------------------------------------------------------------
(* Keys.                                                                   *)

LEMMA KeyParts ==
  ASSUME NEW t, NEW S, NEW c \in Seq(S)
  PROVE  /\ TrieKey(t, c)[1] = t
         /\ \A i \in 1 .. Len(c) : TrieKey(t, c)[i + 1] = c[i]
<1>1. <<t>> \in Seq({t} \cup S) /\ c \in Seq({t} \cup S) /\ Len(<<t>>) = 1 /\ <<t>>[1] = t
  OBVIOUS
<1>2. /\ Len(<<t>> \o c) = 1 + Len(c) /\ Len(c) \in Nat
      /\ \A i \in 1 .. 1 + Len(c) :
           (<<t>> \o c)[i] = IF i <= 1 THEN <<t>>[i] ELSE c[i - 1]
  BY <1>1, ConcatProperties
<1> QED
  BY <1>1, <1>2 DEF TrieKey

LEMMA IndexKey ==
  ASSUME NEW t, NEW n
  PROVE  TrieKey(t, <<n>>)[1] = t /\ TrieKey(t, <<n>>)[2] = n
<1> DEFINE s == <<n>>
<1>1. s \in Seq({n}) /\ Len(s) = 1 /\ s[1] = n
  OBVIOUS
<1> HIDE DEF s
<1>2. TrieKey(t, s)[1] = t /\ \A i \in 1 .. 1 : TrieKey(t, s)[i + 1] = s[i]
  BY <1>1, KeyParts
<1>3. TrieKey(t, s)[2] = n
  BY <1>1, <1>2, 1 \in 1 .. 1, 1 + 1 = 2
<1> QED
  BY <1>2, <1>3 DEF s

LEMMA PairKey ==
  ASSUME NEW t, NEW a, NEW b
  PROVE  LET key == TrieKey(t, <<a, b>>)
         IN  key[1] = t /\ key[2] = a /\ key[3] = b
<1> DEFINE s == <<a, b>>
<1>1. s \in Seq({a, b}) /\ Len(s) = 2 /\ s[1] = a /\ s[2] = b
  OBVIOUS
<1> HIDE DEF s
<1>2. TrieKey(t, s)[1] = t /\ \A i \in 1 .. 2 : TrieKey(t, s)[i + 1] = s[i]
  BY <1>1, KeyParts
<1>3. TrieKey(t, s)[2] = a /\ TrieKey(t, s)[3] = b
  BY <1>1, <1>2, 1 \in 1 .. 2, 2 \in 1 .. 2, 1 + 1 = 2, 2 + 1 = 3
<1> QED
  BY <1>2, <1>3 DEF s

LEMMA TripleKey ==
  ASSUME NEW t, NEW a, NEW b, NEW c
  PROVE  LET key == TrieKey(t, <<a, b>> \o <<c>>)
         IN  key[1] = t /\ key[2] = a /\ key[3] = b /\ key[4] = c
<1> DEFINE S == {a, b, c}
           s == <<a, b>> \o <<c>>
<1>1. /\ <<a, b>> \in Seq(S) /\ Len(<<a, b>>) = 2 /\ <<c>> \in Seq(S) /\ Len(<<c>>) = 1
      /\ <<a, b>>[1] = a /\ <<a, b>>[2] = b /\ <<c>>[1] = c
  OBVIOUS
<1>2. /\ s \in Seq(S) /\ Len(s) = 2 + 1
      /\ \A i \in 1 .. 2 + 1 : s[i] = IF i <= 2 THEN <<a, b>>[i] ELSE <<c>>[i - 2]
  <2> HIDE DEF S
  <2> QED
    BY <1>1, ConcatProperties
<1>3. s[1] = a /\ s[2] = b /\ s[3] = c /\ Len(s) = 3
  <2> HIDE DEF s
  <2> QED
    BY <1>1, <1>2
<1> HIDE DEF s, S
<1>4. TrieKey(t, s)[1] = t /\ \A i \in 1 .. 3 : TrieKey(t, s)[i + 1] = s[i]
  BY <1>2, <1>3, KeyParts
<1>5. TrieKey(t, s)[2] = a /\ TrieKey(t, s)[3] = b /\ TrieKey(t, s)[4] = c
  BY <1>3, <1>4, 1 \in 1 .. 3, 2 \in 1 .. 3, 3 \in 1 .. 3, 1 + 1 = 2, 2 + 1 = 3, 3 + 1 = 4
<1> QED
  BY <1>4, <1>5 DEF s

LEMMA Tags ==
  /\ Tag.ClientState = 0 /\ Tag.ConsensusState = 1 /\ Tag.Connection = 2
  /\ Tag.ChannelEnd = 3 /\ Tag.NextSequence = 4 /\ Tag.Commitment = 5
  /\ Tag.Receipt = 6 /\ Tag.Ack = 7
BY DEF Tag

(* Keys of different kinds start with different tags.                      *)
LEMMA KeyTags ==
  /\ \A n : for_client_state(n)[1] = 0
  /\ \A n, h : for_consensus_state(n, h)[1] = 1
  /\ \A n : for_connection(n)[1] = 2
  /\ \A pc \in PKs : for_channel_end(pc)[1] = 3
  /\ \A pc \in PKs : for_next_sequence(pc)[1] = 4
  /\ \A t, n : \A pc \in PKs : for_sequence_path(t, pc, n)[1] = t
<1>1. ASSUME NEW n
      PROVE  for_client_state(n)[1] = 0 /\ for_connection(n)[1] = 2
  BY IndexKey, Tags DEF for_client_state, for_connection
<1>2. ASSUME NEW n, NEW h
      PROVE  for_consensus_state(n, h)[1] = 1
  <2>1. TrieKey(1, <<n, h>>)[1] = 1
    BY PairKey
  <2> QED
    BY <2>1, Tags DEF for_consensus_state
<1>3. ASSUME NEW pc \in PKs
      PROVE  for_channel_end(pc)[1] = 3 /\ for_next_sequence(pc)[1] = 4
  <2>1. PICK p \in Alphanumeric, c \in Nat : pc = <<p, c>>
    BY <1>3 DEF PKs
  <2> QED
    BY <2>1, PairKey, Tags DEF for_channel_end, for_next_sequence
<1>4. ASSUME NEW t, NEW n, NEW pc \in PKs
      PROVE  for_sequence_path(t, pc, n)[1] = t
  <2>1. PICK p \in Alphanumeric, c \in Nat : pc = <<p, c>>
    BY <1>4 DEF PKs
  <2> QED
    BY <2>1, TripleKey DEF for_sequence_path
<1> QED
  BY <1>1, <1>2, <1>3, <1>4

(* A key tells which object it is of.                                      *)
LEMMA KeysAreExact ==
  /\ \A m, n : for_client_state(m) = for_client_state(n) => m = n
  /\ \A m, n, g, h : for_consensus_state(m, g) = for_consensus_state(n, h) => m = n /\ g = h
  /\ \A m, n : for_connection(m) = for_connection(n) => m = n
  /\ \A pc, pd \in PKs : for_channel_end(pc) = for_channel_end(pd) => pc = pd
  /\ \A pc, pd \in PKs : for_next_sequence(pc) = for_next_sequence(pd) => pc = pd
  /\ \A t, m, n : \A pc, pd \in PKs :
       for_sequence_path(t, pc, m) = for_sequence_path(t, pd, n) => pc = pd /\ m = n
<1>1. \A m, n : for_client_state(m) = for_client_state(n) => m = n
  <2>1. \A n : for_client_state(n)[2] = n
    BY IndexKey DEF for_client_state
  <2> QED
    BY <2>1
<1>2. \A m, n, g, h : for_consensus_state(m, g) = for_consensus_state(n, h) => m = n /\ g = h
  <2>1. ASSUME NEW n, NEW h
        PROVE  for_consensus_state(n, h)[2] = n /\ for_consensus_state(n, h)[3] = h
    BY PairKey DEF for_consensus_state
  <2> QED
    BY <2>1
<1>3. \A m, n : for_connection(m) = for_connection(n) => m = n
  <2>1. \A n : for_connection(n)[2] = n
    BY IndexKey DEF for_connection
  <2> QED
    BY <2>1
<1>4. ASSUME NEW pc \in PKs, NEW pd \in PKs
      PROVE  /\ for_channel_end(pc) = for_channel_end(pd) => pc = pd
             /\ for_next_sequence(pc) = for_next_sequence(pd) => pc = pd
  <2>1. PICK p \in Alphanumeric, c \in Nat : pc = <<p, c>>
    BY <1>4 DEF PKs
  <2>2. PICK q \in Alphanumeric, d \in Nat : pd = <<q, d>>
    BY <1>4 DEF PKs
  <2>3. /\ for_channel_end(pc)[2] = p /\ for_channel_end(pc)[3] = c
        /\ for_next_sequence(pc)[2] = p /\ for_next_sequence(pc)[3] = c
    BY <2>1, PairKey DEF for_channel_end, for_next_sequence
  <2>4. /\ for_channel_end(pd)[2] = q /\ for_channel_end(pd)[3] = d
        /\ for_next_sequence(pd)[2] = q /\ for_next_sequence(pd)[3] = d
    BY <2>2, PairKey DEF for_channel_end, for_next_sequence
  <2> QED
    BY <2>1, <2>2, <2>3, <2>4
<1>5. ASSUME NEW t, NEW m, NEW n, NEW pc \in PKs, NEW pd \in PKs,
             for_sequence_path(t, pc, m) = for_sequence_path(t, pd, n)
      PROVE  pc = pd /\ m = n
  <2>1. PICK p \in Alphanumeric, c \in Nat : pc = <<p, c>>
    BY <1>5 DEF PKs
  <2>2. PICK q \in Alphanumeric, d \in Nat : pd = <<q, d>>
    BY <1>5 DEF PKs
  <2>3. /\ for_sequence_path(t, pc, m)[2] = p /\ for_sequence_path(t, pc, m)[3] = c
        /\ for_sequence_path(t, pc, m)[4] = m
    BY <2>1, TripleKey DEF for_sequence_path
  <2>4. /\ for_sequence_path(t, pd, n)[2] = q /\ for_sequence_path(t, pd, n)[3] = d
        /\ for_sequence_path(t, pd, n)[4] = n
    BY <2>2, TripleKey DEF for_sequence_path
  <2>5. p = q /\ c = d /\ m = n
    BY <1>5, <2>3, <2>4
  <2> QED
    BY <2>1, <2>2, <2>5
<1> QED
  BY <1>1, <1>2, <1>3, <1>4, <1>5

-----------------------------------------------------------------------------
(* A write to a function: a new value in one place, new or not.            *)

Written(f, g, k, v) ==
    /\ DOMAIN g = DOMAIN f \cup {k}
    /\ g[k] = v
    /\ \A j \in DOMAIN f : j # k => g[j] = f[j]

\* Nothing changes but in one place.
SameElsewhere(f, g, k) ==
    \A j : j # k => /\ j \in DOMAIN g <=> j \in DOMAIN f
                    /\ j \in DOMAIN f => g[j] = f[j]

LEMMA PutWrites ==
  ASSUME NEW f, NEW k, NEW v
  PROVE  Written(f, Put(f, k, v), k, v)
BY DEF Written, Put

LEMMA DropDeletes ==
  ASSUME NEW f, NEW k
  PROVE  SameElsewhere(f, Drop(f, k), k) /\ k \notin DOMAIN Drop(f, k)
BY DEF SameElsewhere, Drop, Restrict

LEMMA WrittenElsewhere ==
  ASSUME NEW f, NEW g, NEW k, NEW v, Written(f, g, k, v)
  PROVE  SameElsewhere(f, g, k)
BY DEF Written, SameElsewhere

LEMMA SeqFacts ==
  ASSUME NEW s, IsSeq(s)
  PROVE  Len(s) \in Nat /\ DOMAIN s = 1 .. Len(s)
BY LenProperties DEF IsSeq

LEMMA IsSeqOf ==
  ASSUME NEW S, NEW s \in Seq(S)
  PROVE  IsSeq(s)
<1> DEFINE T == {s[i] : i \in DOMAIN s}
<1>1. Len(s) \in Nat /\ s \in [1 .. Len(s) -> S] /\ DOMAIN s = 1 .. Len(s)
  BY LenProperties
<1>2. s \in [1 .. Len(s) -> T]
  BY <1>1
<1> HIDE DEF T
<1>3. s \in Seq(T)
  BY <1>1, <1>2
<1> QED
  BY <1>3 DEF IsSeq, T

LEMMA AppendWrites ==
  ASSUME NEW s, IsSeq(s), NEW x
  PROVE  /\ IsSeq(Append(s, x))
         /\ Written(s, Append(s, x), Len(s) + 1, x)
<1> DEFINE S == {s[i] : i \in DOMAIN s}
           T == S \cup {x}
<1>1. s \in Seq(S)
  BY DEF IsSeq
<1>2. s \in Seq(T) /\ x \in T
  <2> HIDE DEF S
  <2> QED
    BY <1>1
<1> HIDE DEF T
<1>3. /\ Append(s, x) \in Seq(T)
      /\ Len(Append(s, x)) = Len(s) + 1
      /\ \A i \in 1 .. Len(s) : Append(s, x)[i] = s[i]
      /\ Append(s, x)[Len(s) + 1] = x
  BY <1>2, AppendProperties
<1>4. DOMAIN Append(s, x) = 1 .. Len(s) + 1
  BY <1>3, LenProperties
<1>5. Len(s) \in Nat /\ DOMAIN s = 1 .. Len(s)
  BY SeqFacts
<1>6. 1 .. Len(s) + 1 = (1 .. Len(s)) \cup {Len(s) + 1}
  BY <1>5
<1>7. IsSeq(Append(s, x))
  BY <1>3, IsSeqOf
<1> QED
  BY <1>3, <1>4, <1>5, <1>6, <1>7 DEF Written

LEMMA ReplaceWrites ==
  ASSUME NEW s, IsSeq(s), NEW i \in DOMAIN s, NEW x
  PROVE  /\ IsSeq([s EXCEPT ![i] = x])
         /\ Written(s, [s EXCEPT ![i] = x], i, x)
<1> DEFINE S == {s[j] : j \in DOMAIN s}
           T == S \cup {x}
<1>1. s \in Seq(S)
  BY DEF IsSeq
<1>2. s \in Seq(T) /\ x \in T
  <2> HIDE DEF S
  <2> QED
    BY <1>1
<1>3. i \in 1 .. Len(s)
  BY SeqFacts
<1> HIDE DEF T
<1>4. [s EXCEPT ![i] = x] \in Seq(T)
  BY <1>2, <1>3, ExceptSeq
<1>5. IsSeq([s EXCEPT ![i] = x])
  BY <1>4, IsSeqOf
<1>6. Written(s, [s EXCEPT ![i] = x], i, x)
  BY DEF Written
<1> QED
  BY <1>5, <1>6

LEMMA WrittenSeq ==
  ASSUME NEW s, IsSeq(s), NEW t, IsSeq(t), NEW i \in Nat, NEW x, Written(s, t, i, x),
         i <= Len(s) + 1, i > 0
  PROVE  Len(t) = IF i <= Len(s) THEN Len(s) ELSE i
<1>1. /\ Len(s) \in Nat /\ DOMAIN s = 1 .. Len(s)
      /\ Len(t) \in Nat /\ DOMAIN t = 1 .. Len(t)
  BY SeqFacts
<1>2. 1 .. Len(t) = (1 .. Len(s)) \cup {i}
  BY <1>1 DEF Written
<1>3. PICK m \in Nat, n \in Nat : m = Len(s) /\ n = Len(t)
  BY <1>1
<1>4. 1 .. n = (1 .. m) \cup {i} /\ i <= m + 1
  BY <1>2, <1>3
<1>5. n = IF i <= m THEN m ELSE i
  <2>1. ASSUME NEW j \in Nat \ {0}
        PROVE  j <= n <=> (j <= m \/ j = i)
    <3>1. j \in 1 .. n <=> j \in (1 .. m) \cup {i}
      BY <1>4
    <3> QED
      BY <3>1
  <2>2. i <= n
    BY <2>1, i \in Nat \ {0}
  <2>3. m > 0 => m <= n
    <3> HAVE m > 0
    <3> QED
      BY <2>1, m \in Nat \ {0}, m <= m
  <2>4. n > 0 => n <= m \/ n = i
    <3> HAVE n > 0
    <3> QED
      BY <2>1, n \in Nat \ {0}, n <= n
  <2> QED
    BY <2>2, <2>3, <2>4, <1>4
<1> QED
  BY <1>3, <1>5

-----------------------------------------------------------------------------
(* A change of an entry of one kind leaves those of the other kinds alone. *)

LEMMA ClientEntriesFrame ==
  ASSUME NEW clients, NEW trie, NEW next, NEW key, SameElsewhere(trie, next, key),
         key[1] # 0, ClientEntries(clients, trie)
  PROVE  ClientEntries(clients, next)
<1>1. \A n \in Nat : for_client_state(n) # key
  BY KeyTags
<1> QED
  BY <1>1 DEF ClientEntries, SameElsewhere

LEMMA StateEntriesFrame ==
  ASSUME NEW clients, NEW trie, NEW next, NEW accepted, NEW key,
         SameElsewhere(trie, next, key), key[1] # 1, StateEntries(clients, trie, accepted)
  PROVE  StateEntries(clients, next, accepted)
<1>1. ASSUME NEW n \in Nat, NEW h \in Heights
      PROVE  StateEntry(clients, next, accepted, n, h) /\ HeldEntry(clients, next, n, h)
  <2> DEFINE k == for_consensus_state(n, h)
  <2>1. k # key
    BY KeyTags
  <2> HIDE DEF k
  <2>2. /\ k \in DOMAIN next <=> k \in DOMAIN trie
        /\ k \in DOMAIN trie => next[k] = trie[k]
    BY <2>1 DEF SameElsewhere
  <2>3. StateEntry(clients, trie, accepted, n, h) /\ HeldEntry(clients, trie, n, h)
    BY DEF StateEntries
  <2>4. StateEntry(clients, next, accepted, n, h)
    BY <2>2, <2>3 DEF StateEntry, k
  <2>5. HeldEntry(clients, next, n, h)
    BY <2>2, <2>3 DEF HeldEntry, k
  <2> QED
    BY <2>4, <2>5
<1> QED
  BY <1>1 DEF StateEntries

LEMMA ConnectionEntriesFrame ==
  ASSUME NEW connections, NEW trie, NEW next, NEW key, SameElsewhere(trie, next, key),
         key[1] # 2, ConnectionEntries(connections, trie)
  PROVE  ConnectionEntries(connections, next)
<1>1. \A n \in Nat : for_connection(n) # key
  BY KeyTags
<1> QED
  BY <1>1 DEF ConnectionEntries, SameElsewhere

LEMMA ChannelEntriesFrame ==
  ASSUME NEW channels, NEW trie, NEW next, NEW key, SameElsewhere(trie, next, key),
         key[1] # 3, ChannelEntries(channels, trie)
  PROVE  ChannelEntries(channels, next)
<1>1. \A pc \in PKs : for_channel_end(pc) # key
  BY KeyTags
<1> QED
  BY <1>1 DEF ChannelEntries, SameElsewhere

LEMMA SequenceEntriesFrame ==
  ASSUME NEW channels, NEW trie, NEW next, NEW key, SameElsewhere(trie, next, key),
         key[1] # 4, SequenceEntries(channels, trie)
  PROVE  SequenceEntries(channels, next)
<1>1. \A pc \in PKs : for_next_sequence(pc) # key
  BY KeyTags
<1> QED
  BY <1>1 DEF SequenceEntries, SameElsewhere

LEMMA CommitmentEntriesFrame ==
  ASSUME NEW channels, NEW trie, NEW next, NEW key, SameElsewhere(trie, next, key),
         key[1] # 5, CommitmentEntries(channels, trie)
  PROVE  CommitmentEntries(channels, next)
<1>1. \A pc \in PKs, n \in Nat : for_sequence_path(Tag.Commitment, pc, n) # key
  BY KeyTags, Tags
<1> QED
  BY <1>1 DEF CommitmentEntries, SameElsewhere

LEMMA ReceiptEntriesFrame ==
  ASSUME NEW trie, NEW next, NEW key, SameElsewhere(trie, next, key),
         key[1] \notin {6, 7}, ReceiptEntries(trie)
  PROVE  ReceiptEntries(next)
<1>1. \A pc \in PKs, n \in Nat : /\ for_sequence_path(Tag.Receipt, pc, n) # key
                                 /\ for_sequence_path(Tag.Ack, pc, n) # key
  BY KeyTags, Tags
<1> QED
  BY <1>1 DEF ReceiptEntries, SameElsewhere

-----------------------------------------------------------------------------
(* Storing a consensus state.                                              *)

LEMMA PutStates ==
  ASSUME NEW s, IsStates(s), NEW h \in Nat \ {0}, h \notin DOMAIN s, NEW v,
         Cardinality(DOMAIN s) < MaxClientStates
  PROVE  IsStates(Put(s, h, v))
<1>1. DOMAIN Put(s, h, v) = DOMAIN s \cup {h}
  BY PutWrites DEF Written
<1>2. /\ IsFiniteSet(DOMAIN s \cup {h})
      /\ Cardinality(DOMAIN s \cup {h}) = Cardinality(DOMAIN s) + 1
  BY FS_AddElement DEF IsStates
<1>3. Cardinality(DOMAIN s) \in Nat
  BY FS_CardinalityType DEF IsStates
<1> QED
  BY <1>1, <1>2, <1>3, MaxClientStatesAssumption DEF IsStates

(* The new state is there, the others that are left are as they were.      *)
LEMMA InsertFacts ==
  ASSUME NEW s, IsStates(s), NEW h \in Nat \ {0}, h \notin DOMAIN s, NEW v
  PROVE  LET t == insert_consensus_state(s, h, v)
         IN  /\ IsStates(t)
             /\ h \in DOMAIN t /\ t[h] = v
             /\ \A k \in DOMAIN t : k # h => k \in DOMAIN s /\ t[k] = s[k]
<1>1. CASE Cardinality(DOMAIN s) < MaxClientStates
  <2>1. insert_consensus_state(s, h, v) = Put(s, h, v)
    BY <1>1 DEF insert_consensus_state
  <2>2. Written(s, Put(s, h, v), h, v) /\ IsStates(Put(s, h, v))
    BY <1>1, PutStates, PutWrites
  <2> QED
    BY <2>1, <2>2 DEF Written
<1>2. CASE ~(Cardinality(DOMAIN s) < MaxClientStates)
  <2> DEFINE m == Min(DOMAIN s)
             d == Drop(s, m)
  <2>1. insert_consensus_state(s, h, v) = Put(d, h, v)
    BY <1>2 DEF insert_consensus_state
  <2>2. DOMAIN s # {}
    BY <1>2, FS_EmptySet, MaxClientStatesAssumption
  <2>3. \E k \in DOMAIN s : \A j \in DOMAIN s : k <= j
    BY <2>2, LeastNatural DEF IsStates
  <2>4. m \in DOMAIN s
    BY <2>3 DEF Min
  <2> HIDE DEF m
  <2>5. DOMAIN d = DOMAIN s \ {m} /\ \A k \in DOMAIN d : d[k] = s[k]
    BY DEF Drop, Restrict
  <2>6. /\ IsFiniteSet(DOMAIN s \ {m})
        /\ Cardinality(DOMAIN s \ {m}) = Cardinality(DOMAIN s) - 1
    BY <2>4, FS_RemoveElement DEF IsStates
  <2>7. Cardinality(DOMAIN s) \in Nat
    BY FS_CardinalityType DEF IsStates
  <2> HIDE DEF d
  <2>8. IsStates(d) /\ Cardinality(DOMAIN d) < MaxClientStates
    BY <2>5, <2>6, <2>7, MaxClientStatesAssumption DEF IsStates
  <2>9. Written(d, Put(d, h, v), h, v) /\ IsStates(Put(d, h, v))
    BY <2>5, <2>8, PutStates, PutWrites
  <2> QED
    BY <2>1, <2>5, <2>9 DEF Written
<1> QED
  BY <1>1, <1>2

-----------------------------------------------------------------------------
(* What each call to the storage writes.                                   *)

LEMMA WrittenTwice ==
  ASSUME NEW f, NEW g, NEW e, NEW k, NEW v, NEW w, Written(f, g, k, v), Written(g, e, k, w)
  PROVE  Written(f, e, k, w)
BY DEF Written

LEMMA TrieSetWrites ==
  ASSUME NEW st, IsStore(st), NEW key, NEW hash
  PROVE  LET r == TrieSet(st, key, hash)
         IN  /\ r = [clients |-> st.clients, connections |-> st.connections,
                     port_channel |-> st.port_channel,
                     channel_counter |-> st.channel_counter, trie |-> r.trie]
             /\ Written(st.trie, r.trie, key, hash)
<1> DEFINE new == Put(st.trie, key, hash)
<1>1. Written(st.trie, new, key, hash)
  BY PutWrites
<1> HIDE DEF new
<1>2. TrieSet(st, key, hash) =
        [clients |-> st.clients, connections |-> st.connections,
         port_channel |-> st.port_channel, channel_counter |-> st.channel_counter,
         trie |-> new]
  BY DEF TrieSet, IsStore, new
<1> QED
  BY <1>1, <1>2

\* A store with other clients and another trie.
WithClients(st, r) ==
    r = [clients |-> r.clients, connections |-> st.connections,
         port_channel |-> st.port_channel, channel_counter |-> st.channel_counter,
         trie |-> r.trie]

LEMMA ClientStateWrites ==
  ASSUME NEW st, IsStore(st), AreClients(st.clients), NEW id, id.counter \in Nat,
         HasClient(st, id) \/ id.counter = Len(st.clients), NEW state
  PROVE  LET r    == store_client_state(st, id, state)
             n    == id.counter
             held == IF HasClient(st, id) THEN st.clients[n + 1].consensus_states ELSE <<>>
             new  == [client_id |-> id, client_state |-> state, consensus_states |-> held]
         IN  /\ WithClients(st, r)
             /\ IsSeq(r.clients) /\ Written(st.clients, r.clients, n + 1, new)
             /\ Written(st.trie, r.trie, for_client_state(n), digest_with_client_id(id, state))
<1> DEFINE n       == id.counter
           held    == IF HasClient(st, id) THEN st.clients[n + 1].consensus_states ELSE <<>>
           new     == [client_id |-> id, client_state |-> state, consensus_states |-> held]
           list    == IF HasClient(st, id) THEN st.clients ELSE Append(st.clients, NewClient(id))
           created == IF HasClient(st, id) THEN st
                      ELSE [st EXCEPT !.clients = Append(@, NewClient(id))]
           last    == [list EXCEPT ![n + 1] = [list[n + 1] EXCEPT !.client_state = state]]
           set     == [created EXCEPT !.clients[Place(ClientIdx(id))].client_state = state]
<1>0. IsSeq(st.clients) /\ Len(st.clients) \in Nat /\ DOMAIN st.clients = 1 .. Len(st.clients)
  BY SeqFacts DEF AreClients
<1>1. created = [clients |-> list, connections |-> st.connections,
                 port_channel |-> st.port_channel, channel_counter |-> st.channel_counter,
                 trie |-> st.trie]
  <2> HIDE DEF n, held
  <2> QED
    BY DEF IsStore
<1>2. set = [clients |-> last, connections |-> st.connections,
             port_channel |-> st.port_channel, channel_counter |-> st.channel_counter,
             trie |-> st.trie]
  <2> HIDE DEF created, list
  <2> QED
    BY <1>1 DEF Place, ClientIdx
<1>3. /\ IsSeq(list) /\ n + 1 \in DOMAIN list
      /\ [list[n + 1] EXCEPT !.client_state = state] = new
      /\ \A v : Written(list, last, n + 1, v) => Written(st.clients, last, n + 1, v)
  <2>1. CASE HasClient(st, id)
    <3>1. list = st.clients /\ n + 1 \in DOMAIN list /\ list[n + 1].client_id = id
      BY <2>1 DEF HasClient, Place, ClientIdx
    <3>2. IsClient(st.clients[n + 1], (n + 1) - 1)
      BY <3>1 DEF AreClients
    <3> DEFINE c == st.clients[n + 1]
    <3>3. /\ c = [client_id |-> c.client_id, client_state |-> c.client_state,
                  consensus_states |-> c.consensus_states]
          /\ c.client_id = id /\ held = c.consensus_states
      BY <2>1, <3>1, <3>2 DEF IsClient
    <3>4. [c EXCEPT !.client_state = state] = new
      <4> HIDE DEF c, held
      <4> QED
        BY <3>3
    <3> HIDE DEF new, last, list
    <3> QED
      BY <1>0, <3>1, <3>4
  <2>2. CASE ~HasClient(st, id)
    <3>1. n = Len(st.clients)
      BY <2>2
    <3>2. list = Append(st.clients, NewClient(id)) /\ held = <<>>
      BY <2>2
    <3> HIDE DEF list, last, n, held
    <3>3. IsSeq(list) /\ Written(st.clients, list, n + 1, NewClient(id))
      BY <1>0, <3>1, <3>2, AppendWrites
    <3>4. n + 1 \in DOMAIN list /\ list[n + 1] = NewClient(id)
      BY <3>3 DEF Written
    <3>5. [NewClient(id) EXCEPT !.client_state = state] = new
      BY <3>2 DEF NewClient
    <3>6. \A v : Written(list, last, n + 1, v) => Written(st.clients, last, n + 1, v)
      BY <3>3, WrittenTwice
    <3> HIDE DEF new
    <3> QED
      BY <3>3, <3>4, <3>5, <3>6
  <2> QED
    BY <2>1, <2>2
<1> HIDE DEF new, list, set, n
<1>4. IsSeq(last) /\ Written(list, last, n + 1, new)
  BY <1>3, ReplaceWrites
<1> HIDE DEF last
<1>5. Written(st.clients, last, n + 1, new)
  BY <1>3, <1>4
<1>6. IsStore(set) /\ set.clients = last /\ set.connections = st.connections
        /\ set.port_channel = st.port_channel /\ set.channel_counter = st.channel_counter
        /\ set.trie = st.trie
  BY <1>2 DEF IsStore
<1> DEFINE r == TrieSet(set, for_client_state(n), digest_with_client_id(id, state))
<1>7. /\ r = [clients |-> set.clients, connections |-> set.connections,
              port_channel |-> set.port_channel,
              channel_counter |-> set.channel_counter, trie |-> r.trie]
      /\ Written(set.trie, r.trie, for_client_state(n), digest_with_client_id(id, state))
  BY <1>6, TrieSetWrites
<1>8. store_client_state(st, id, state) = r
  BY DEF store_client_state, ClientIdx, set, n
<1> HIDE DEF r
<1>9. r.clients = last
  BY <1>6, <1>7
<1>10. WithClients(st, r)
  BY <1>6, <1>7, <1>9 DEF WithClients
<1> QED
  BY <1>4, <1>5, <1>6, <1>7, <1>8, <1>9, <1>10 DEF n, new

\* A consensus state with the time and height at which it is stored.
Stamped(state, at) == [state |-> state, time |-> at.timestamp, height |-> at.block_height]

LEMMA ConsensusStateWrites ==
  ASSUME NEW st, IsStore(st), AreClients(st.clients), NEW id, HasClient(st, id),
         NEW h, NEW state, NEW at
  PROVE  LET r   == store_consensus_state(st, id, h, state, at)
             n   == id.counter
             c   == st.clients[n + 1]
             new == [client_id |-> id, client_state |-> c.client_state,
                     consensus_states |->
                       insert_consensus_state(c.consensus_states, h, Stamped(state, at))]
         IN  /\ WithClients(st, r)
             /\ IsSeq(r.clients) /\ Written(st.clients, r.clients, n + 1, new)
             /\ Written(st.trie, r.trie, for_consensus_state(n, h),
                        digest_with_client_id(id, state))
<1> DEFINE n    == id.counter
           c    == st.clients[n + 1]
           held == insert_consensus_state(c.consensus_states, h, Stamped(state, at))
           new  == [client_id |-> id, client_state |-> c.client_state, consensus_states |-> held]
           last == [st.clients EXCEPT ![n + 1] = [c EXCEPT !.consensus_states = held]]
           set  == [st EXCEPT !.clients[Place(ClientIdx(id))].consensus_states =
                       insert_consensus_state(@, h, Stamped(state, at))]
<1>1. n + 1 \in DOMAIN st.clients /\ c.client_id = id
  BY DEF HasClient, Place, ClientIdx
<1>2. c = [client_id |-> c.client_id, client_state |-> c.client_state,
           consensus_states |-> c.consensus_states]
  BY <1>1 DEF AreClients, IsClient
<1>3. set = [clients |-> last, connections |-> st.connections,
             port_channel |-> st.port_channel, channel_counter |-> st.channel_counter,
             trie |-> st.trie]
  BY <1>1 DEF IsStore, Place, ClientIdx
<1>4. [c EXCEPT !.consensus_states = held] = new
  <2> HIDE DEF held, c
  <2> QED
    BY <1>1, <1>2
<1> HIDE DEF new, set, n, c, held
<1>5. IsSeq(last) /\ Written(st.clients, last, n + 1, new)
  BY <1>1, <1>4, ReplaceWrites DEF AreClients
<1> HIDE DEF last
<1>6. IsStore(set) /\ set.clients = last /\ set.connections = st.connections
        /\ set.port_channel = st.port_channel /\ set.channel_counter = st.channel_counter
        /\ set.trie = st.trie
  BY <1>3 DEF IsStore
<1> DEFINE r == TrieSet(set, for_consensus_state(n, h), digest_with_client_id(id, state))
<1>7. /\ r = [clients |-> set.clients, connections |-> set.connections,
              port_channel |-> set.port_channel,
              channel_counter |-> set.channel_counter, trie |-> r.trie]
      /\ Written(set.trie, r.trie, for_consensus_state(n, h), digest_with_client_id(id, state))
  BY <1>6, TrieSetWrites
<1>8. store_consensus_state(st, id, h, state, at) = r
  BY DEF store_consensus_state, ClientIdx, set, n, Stamped
<1> HIDE DEF r
<1>9. r.clients = last
  BY <1>6, <1>7
<1>10. WithClients(st, r)
  BY <1>6, <1>7, <1>9 DEF WithClients
<1> QED
  BY <1>5, <1>6, <1>7, <1>8, <1>9, <1>10 DEF n, new, c, held

\* A store with other connections and another trie.
WithConnections(st, r) ==
    r = [clients |-> st.clients, connections |-> r.connections,
         port_channel |-> st.port_channel, channel_counter |-> st.channel_counter,
         trie |-> r.trie]

LEMMA ConnectionWrites ==
  ASSUME NEW st, IsStore(st), AreConnections(st.connections), NEW n \in Nat,
         n <= Len(st.connections), NEW end
  PROVE  LET r == store_connection(st, n, end)
         IN  /\ WithConnections(st, r)
             /\ IsSeq(r.connections) /\ Written(st.connections, r.connections, n + 1, end)
             /\ Written(st.trie, r.trie, for_connection(n), digest(end))
<1> DEFINE last == IF n < Len(st.connections) THEN [st.connections EXCEPT ![n + 1] = end]
                   ELSE Append(st.connections, end)
           set  == IF n < Len(st.connections)
                   THEN [st EXCEPT !.connections[Place(n)] = end]
                   ELSE [st EXCEPT !.connections = Append(@, end)]
<1>1. /\ IsSeq(st.connections) /\ Len(st.connections) \in Nat
      /\ DOMAIN st.connections = 1 .. Len(st.connections)
  BY SeqFacts DEF AreConnections
<1>2. set = [clients |-> st.clients, connections |-> last,
             port_channel |-> st.port_channel, channel_counter |-> st.channel_counter,
             trie |-> st.trie]
  BY DEF IsStore, Place
<1>3. IsSeq(last) /\ Written(st.connections, last, n + 1, end)
  <2>1. CASE n < Len(st.connections)
    BY <1>1, <2>1, n + 1 \in DOMAIN st.connections, ReplaceWrites
  <2>2. CASE ~(n < Len(st.connections))
    <3>1. n = Len(st.connections)
      BY <1>1, <2>2
    <3> QED
      BY <1>1, <2>2, <3>1, AppendWrites
  <2> QED
    BY <2>1, <2>2
<1> HIDE DEF last, set
<1>4. IsStore(set) /\ set.clients = st.clients /\ set.connections = last
        /\ set.port_channel = st.port_channel /\ set.channel_counter = st.channel_counter
        /\ set.trie = st.trie
  BY <1>2 DEF IsStore
<1> DEFINE r == TrieSet(set, for_connection(n), digest(end))
<1>5. /\ r = [clients |-> set.clients, connections |-> set.connections,
              port_channel |-> set.port_channel,
              channel_counter |-> set.channel_counter, trie |-> r.trie]
      /\ Written(set.trie, r.trie, for_connection(n), digest(end))
  BY <1>4, TrieSetWrites
<1>6. store_connection(st, n, end) = r
  BY DEF store_connection, set
<1> HIDE DEF r
<1>7. r.connections = last
  BY <1>4, <1>5
<1>8. WithConnections(st, r)
  BY <1>4, <1>5, <1>7 DEF WithConnections
<1> QED
  BY <1>3, <1>4, <1>5, <1>6, <1>7, <1>8

\* A store with other channels and another trie.
WithChannels(st, r) ==
    r = [clients |-> st.clients, connections |-> st.connections,
         port_channel |-> r.port_channel, channel_counter |-> st.channel_counter,
         trie |-> r.trie]

LEMMA ChannelRecord ==
  ASSUME NEW st, ArePortChannels(st.port_channel), NEW pc
  PROVE  LET old == PortChannel(st, pc)
         IN  old = [end |-> old.end, next_sequence |-> old.next_sequence]
BY DEF PortChannel, NewPortChannel, ArePortChannels, IsPortChannel

LEMMA ChannelWrites ==
  ASSUME NEW st, IsStore(st), ArePortChannels(st.port_channel), NEW pc, NEW end
  PROVE  LET r == store_channel(st, pc, end)
         IN  /\ WithChannels(st, r)
             /\ Written(st.port_channel, r.port_channel, pc,
                        [end |-> end, next_sequence |-> PortChannel(st, pc).next_sequence])
             /\ Written(st.trie, r.trie, for_channel_end(pc), digest(end))
<1> DEFINE old  == PortChannel(st, pc)
           new  == [end |-> end, next_sequence |-> old.next_sequence]
           last == Put(st.port_channel, pc, new)
           set  == [st EXCEPT !.port_channel = Put(@, pc, [old EXCEPT !.end = end])]
<1>0. old = [end |-> old.end, next_sequence |-> old.next_sequence]
  BY ChannelRecord
<1> HIDE DEF old
<1>1. [old EXCEPT !.end = end] = new
  BY <1>0
<1> HIDE DEF new
<1>2. set = [clients |-> st.clients, connections |-> st.connections,
             port_channel |-> last, channel_counter |-> st.channel_counter,
             trie |-> st.trie]
  BY <1>1 DEF IsStore
<1>3. Written(st.port_channel, last, pc, new)
  BY PutWrites
<1> HIDE DEF last, set
<1>4. IsStore(set) /\ set.clients = st.clients /\ set.connections = st.connections
        /\ set.port_channel = last /\ set.channel_counter = st.channel_counter
        /\ set.trie = st.trie
  BY <1>2 DEF IsStore
<1> DEFINE r == TrieSet(set, for_channel_end(pc), digest(end))
<1>5. /\ r = [clients |-> set.clients, connections |-> set.connections,
              port_channel |-> set.port_channel,
              channel_counter |-> set.channel_counter, trie |-> r.trie]
      /\ Written(set.trie, r.trie, for_channel_end(pc), digest(end))
  BY <1>4, TrieSetWrites
<1>6. store_channel(st, pc, end) = r
  BY DEF store_channel, set, old
<1> HIDE DEF r
<1>7. r.port_channel = last
  BY <1>4, <1>5
<1>8. WithChannels(st, r)
  BY <1>4, <1>5, <1>7 DEF WithChannels
<1> QED
  BY <1>3, <1>4, <1>5, <1>6, <1>7, <1>8 DEF new, old

LEMMA SequenceWrites ==
  ASSUME NEW st, IsStore(st), ArePortChannels(st.port_channel), NEW pc, NEW kind, NEW seq
  PROVE  LET r      == store_next_sequence(st, pc, kind, seq)
             old    == PortChannel(st, pc)
             triple == SetSequence(old.next_sequence, kind, seq)
         IN  /\ WithChannels(st, r)
             /\ Written(st.port_channel, r.port_channel, pc,
                        [end |-> old.end, next_sequence |-> triple])
             /\ Written(st.trie, r.trie, for_next_sequence(pc), SequenceHash(triple))
<1> DEFINE old    == PortChannel(st, pc)
           triple == SetSequence(old.next_sequence, kind, seq)
           new    == [end |-> old.end, next_sequence |-> triple]
           last   == Put(st.port_channel, pc, new)
           set    == [st EXCEPT !.port_channel = Put(@, pc, [old EXCEPT !.next_sequence = triple])]
<1>0. old = [end |-> old.end, next_sequence |-> old.next_sequence]
  BY ChannelRecord
<1> HIDE DEF triple, old
<1>1. [old EXCEPT !.next_sequence = triple] = new
  BY <1>0
<1> HIDE DEF new
<1>2. set = [clients |-> st.clients, connections |-> st.connections,
             port_channel |-> last, channel_counter |-> st.channel_counter,
             trie |-> st.trie]
  BY <1>1 DEF IsStore
<1>3. Written(st.port_channel, last, pc, new)
  BY PutWrites
<1> HIDE DEF last, set
<1>4. IsStore(set) /\ set.clients = st.clients /\ set.connections = st.connections
        /\ set.port_channel = last /\ set.channel_counter = st.channel_counter
        /\ set.trie = st.trie
  BY <1>2 DEF IsStore
<1> DEFINE r == TrieSet(set, for_next_sequence(pc), SequenceHash(triple))
<1>5. /\ r = [clients |-> set.clients, connections |-> set.connections,
              port_channel |-> set.port_channel,
              channel_counter |-> set.channel_counter, trie |-> r.trie]
      /\ Written(set.trie, r.trie, for_next_sequence(pc), SequenceHash(triple))
  BY <1>4, TrieSetWrites
<1>6. store_next_sequence(st, pc, kind, seq) = r
  BY DEF store_next_sequence, set, triple, old
<1> HIDE DEF r
<1>7. r.port_channel = last
  BY <1>4, <1>5
<1>8. WithChannels(st, r)
  BY <1>4, <1>5, <1>7 DEF WithChannels
<1> QED
  BY <1>3, <1>4, <1>5, <1>6, <1>7, <1>8 DEF new, triple, old

-----------------------------------------------------------------------------
(* Each call to the storage keeps its invariant.                           *)

LEMMA WrittenClients ==
  ASSUME NEW clients, AreClients(clients), NEW next, IsSeq(next), NEW n \in Nat, NEW c,
         IsClient(c, n), Written(clients, next, n + 1, c)
  PROVE  AreClients(next)
<1>1. ASSUME NEW i \in DOMAIN next
      PROVE  IsClient(next[i], i - 1)
  <2>1. CASE i = n + 1
    BY <2>1, (n + 1) - 1 = n DEF Written
  <2>2. CASE i # n + 1
    BY <2>2 DEF Written, AreClients
  <2> QED
    BY <2>1, <2>2
<1> QED
  BY <1>1 DEF AreClients

LEMMA WrittenClientEntry ==
  ASSUME NEW clients, NEW next, NEW n \in Nat, NEW c, Written(clients, next, n + 1, c),
         NEW trie, ClientEntries(clients, trie), NEW new,
         Written(trie, new, for_client_state(n),
                 digest_with_client_id(c.client_id, c.client_state))
  PROVE  ClientEntries(next, new)
<1>1. ASSUME NEW m \in Nat
      PROVE  /\ for_client_state(m) \in DOMAIN new <=> m + 1 \in DOMAIN next
             /\ m + 1 \in DOMAIN next =>
                  new[for_client_state(m)] =
                    digest_with_client_id(next[m + 1].client_id, next[m + 1].client_state)
  <2>1. CASE m = n
    BY <2>1 DEF Written
  <2>2. CASE m # n
    <3>1. for_client_state(m) # for_client_state(n)
      BY <2>2, KeysAreExact
    <3>2. m + 1 # n + 1
      BY <2>2
    <3>3. /\ for_client_state(m) \in DOMAIN trie <=> m + 1 \in DOMAIN clients
          /\ m + 1 \in DOMAIN clients =>
               trie[for_client_state(m)] =
                 digest_with_client_id(clients[m + 1].client_id, clients[m + 1].client_state)
      BY DEF ClientEntries
    <3> QED
      BY <3>1, <3>2, <3>3 DEF Written
  <2> QED
    BY <2>1, <2>2
<1> QED
  BY <1>1 DEF ClientEntries

(* A client is added, or keeps its identifier and its consensus states.    *)
LEMMA WrittenClientStates ==
  ASSUME NEW clients, NEW next, NEW n \in Nat, NEW c, Written(clients, next, n + 1, c),
         NEW trie, NEW accepted, StateEntries(clients, trie, accepted),
         \/ n + 1 \notin DOMAIN clients /\ DOMAIN c.consensus_states = {}
         \/ /\ n + 1 \in DOMAIN clients /\ c.client_id = clients[n + 1].client_id
            /\ c.consensus_states = clients[n + 1].consensus_states
  PROVE  StateEntries(next, trie, accepted)
<1>1. ASSUME NEW m \in Nat, NEW h \in Heights
      PROVE  StateEntry(next, trie, accepted, m, h) /\ HeldEntry(next, trie, m, h)
  <2>1. StateEntry(clients, trie, accepted, m, h) /\ HeldEntry(clients, trie, m, h)
    BY DEF StateEntries
  <2>2. CASE m = n
    <3>1. next[m + 1] = c /\ m + 1 \in DOMAIN next
      BY <2>2 DEF Written
    <3>2. CASE n + 1 \notin DOMAIN clients /\ DOMAIN c.consensus_states = {}
      BY <2>1, <2>2, <3>1, <3>2 DEF StateEntry, HeldEntry
    <3>3. CASE /\ n + 1 \in DOMAIN clients /\ c.client_id = clients[n + 1].client_id
               /\ c.consensus_states = clients[n + 1].consensus_states
      BY <2>1, <2>2, <3>1, <3>3 DEF StateEntry, HeldEntry
    <3> QED
      BY <3>2, <3>3
  <2>3. CASE m # n
    <3>1. /\ m + 1 \in DOMAIN next <=> m + 1 \in DOMAIN clients
          /\ m + 1 \in DOMAIN clients => next[m + 1] = clients[m + 1]
      BY <2>3, m + 1 # n + 1 DEF Written
    <3> QED
      BY <2>1, <3>1 DEF StateEntry, HeldEntry
  <2> QED
    BY <2>2, <2>3
<1> QED
  BY <1>1 DEF StateEntries

\* An identifier has a type and a counter.
IsId(id) == id = [type |-> id.type, counter |-> id.counter] /\ id.counter \in Nat

LEMMA ClientStateKeeps ==
  ASSUME NEW st, NEW accepted, StoreInv(st, accepted), NEW id, IsId(id),
         HasClient(st, id) \/ id.counter = Len(st.clients), NEW state
  PROVE  StoreInv(store_client_state(st, id, state), accepted)
<1> DEFINE r    == store_client_state(st, id, state)
           n    == id.counter
           held == IF HasClient(st, id) THEN st.clients[n + 1].consensus_states ELSE <<>>
           new  == [client_id |-> id, client_state |-> state, consensus_states |-> held]
           key  == for_client_state(n)
<1>1. n \in Nat
  BY DEF IsId
<1>2. /\ WithClients(st, r)
      /\ IsSeq(r.clients) /\ Written(st.clients, r.clients, n + 1, new)
      /\ Written(st.trie, r.trie, key, digest_with_client_id(id, state))
  BY <1>1, ClientStateWrites DEF StoreInv
<1> HIDE DEF r
<1>3. /\ r.connections = st.connections /\ r.port_channel = st.port_channel
      /\ r.channel_counter = st.channel_counter /\ IsStore(r)
  BY <1>2 DEF WithClients, IsStore
<1>4. \/ n + 1 \notin DOMAIN st.clients /\ DOMAIN held = {}
      \/ /\ n + 1 \in DOMAIN st.clients /\ id = st.clients[n + 1].client_id
         /\ held = st.clients[n + 1].consensus_states
  <2>1. CASE HasClient(st, id)
    BY <2>1 DEF HasClient, Place, ClientIdx
  <2>2. CASE ~HasClient(st, id)
    <3>1. DOMAIN st.clients = 1 .. Len(st.clients) /\ Len(st.clients) \in Nat
      BY SeqFacts DEF StoreInv, AreClients
    <3>2. n = Len(st.clients) /\ held = <<>>
      BY <2>2
    <3> QED
      BY <3>1, <3>2
  <2> QED
    BY <2>1, <2>2
<1> HIDE DEF held
<1>5. IsStates(held)
  <2>1. CASE DOMAIN held = {}
    <3>1. IsFiniteSet(DOMAIN held) /\ Cardinality(DOMAIN held) = 0
      BY <2>1, FS_EmptySet
    <3> QED
      BY <2>1, <3>1, MaxClientStatesAssumption DEF IsStates
  <2>2. CASE n + 1 \in DOMAIN st.clients /\ held = st.clients[n + 1].consensus_states
    BY <2>2 DEF StoreInv, AreClients, IsClient
  <2> QED
    BY <2>1, <2>2, <1>4
<1>6. new.client_id = id /\ new.client_state = state /\ new.consensus_states = held
  OBVIOUS
<1>7. IsClient(new, n)
  BY <1>5 DEF IsClient, IsId
<1> HIDE DEF new, n
<1>8. AreClients(r.clients)
  BY <1>1, <1>2, <1>7, WrittenClients DEF StoreInv
<1>9. ClientEntries(r.clients, r.trie)
  BY <1>1, <1>2, <1>6, WrittenClientEntry DEF StoreInv
<1>10. SameElsewhere(st.trie, r.trie, key) /\ key[1] = 0
  BY <1>2, WrittenElsewhere, KeyTags
<1>11. StateEntries(r.clients, st.trie, accepted)
  BY <1>1, <1>2, <1>4, <1>6, WrittenClientStates DEF StoreInv
<1> HIDE DEF key
<1>12. StateEntries(r.clients, r.trie, accepted)
  BY <1>10, <1>11, StateEntriesFrame
<1>13. /\ ConnectionEntries(st.connections, r.trie) /\ ChannelEntries(st.port_channel, r.trie)
       /\ SequenceEntries(st.port_channel, r.trie)
       /\ CommitmentEntries(st.port_channel, r.trie) /\ ReceiptEntries(r.trie)
  <2>1. key[1] # 2 /\ key[1] # 3 /\ key[1] # 4 /\ key[1] # 5 /\ key[1] \notin {6, 7}
    BY <1>10
  <2> QED
    BY <1>10, <2>1, ConnectionEntriesFrame, ChannelEntriesFrame, SequenceEntriesFrame,
       CommitmentEntriesFrame, ReceiptEntriesFrame DEF StoreInv
<1>14. StoreInv(r, accepted)
  BY <1>3, <1>8, <1>9, <1>12, <1>13 DEF StoreInv
<1> QED
  BY <1>14 DEF r

(* The entry of a new consensus state joins those of the client, the one   *)
(* of an evicted state included.                                           *)
LEMMA WrittenStateEntry ==
  ASSUME NEW clients, NEW next, NEW n \in Nat, NEW c, n + 1 \in DOMAIN clients,
         Written(clients, next, n + 1, c), c.client_id = clients[n + 1].client_id,
         NEW g \in Heights, NEW s \in States,
         g \in DOMAIN c.consensus_states, c.consensus_states[g].state = s,
         \A k \in DOMAIN c.consensus_states : k # g =>
            /\ k \in DOMAIN clients[n + 1].consensus_states
            /\ c.consensus_states[k] = clients[n + 1].consensus_states[k],
         NEW trie, NEW accepted, StateEntries(clients, trie, accepted), NEW new,
         Written(trie, new, for_consensus_state(n, g), digest_with_client_id(c.client_id, s))
  PROVE  StateEntries(next, new,
           accepted \cup {[client |-> c.client_id, height |-> g, state |-> s]})
<1> DEFINE more == accepted \cup {[client |-> c.client_id, height |-> g, state |-> s]}
<1>1. ASSUME NEW m \in Nat, NEW h \in Heights
      PROVE  StateEntry(next, new, more, m, h) /\ HeldEntry(next, new, m, h)
  <2> DEFINE k == for_consensus_state(m, h)
  <2>1. StateEntry(clients, trie, accepted, m, h) /\ HeldEntry(clients, trie, m, h)
    BY DEF StateEntries
  <2>2. /\ m + 1 \in DOMAIN next <=> m + 1 \in DOMAIN clients
        /\ m + 1 \in DOMAIN clients => next[m + 1].client_id = clients[m + 1].client_id
    <3>1. CASE m = n
      BY <3>1 DEF Written
    <3>2. CASE m # n
      BY <3>2, m + 1 # n + 1 DEF Written
    <3> QED
      BY <3>1, <3>2
  <2>3. CASE m = n /\ h = g
    <3>1. k \in DOMAIN new /\ new[k] = digest_with_client_id(c.client_id, s)
      BY <2>3 DEF Written
    <3>2. next[m + 1] = c /\ m + 1 \in DOMAIN next
      BY <2>3 DEF Written
    <3>3. StateEntry(next, new, more, m, h)
      BY <2>3, <3>1, <3>2 DEF StateEntry
    <3>4. HeldEntry(next, new, m, h)
      BY <2>3, <3>1, <3>2 DEF HeldEntry
    <3> QED
      BY <3>3, <3>4
  <2>4. CASE ~(m = n /\ h = g)
    <3>1. k # for_consensus_state(n, g)
      BY <2>4, KeysAreExact
    <3>2. /\ k \in DOMAIN new <=> k \in DOMAIN trie
          /\ k \in DOMAIN trie => new[k] = trie[k]
      <4> HIDE DEF k
      <4> QED
        BY <3>1 DEF Written
    <3>3. StateEntry(next, new, more, m, h)
      <4> SUFFICES ASSUME k \in DOMAIN new
                   PROVE  /\ m + 1 \in DOMAIN next
                          /\ \E q \in States :
                               /\ new[k] = digest_with_client_id(next[m + 1].client_id, q)
                               /\ [client |-> next[m + 1].client_id, height |-> h, state |-> q]
                                    \in more
        BY DEF StateEntry
      <4>1. /\ m + 1 \in DOMAIN clients
            /\ \E q \in States :
                 /\ trie[k] = digest_with_client_id(clients[m + 1].client_id, q)
                 /\ [client |-> clients[m + 1].client_id, height |-> h, state |-> q] \in accepted
        BY <2>1, <3>2 DEF StateEntry
      <4> HIDE DEF k
      <4> QED
        BY <2>2, <3>2, <4>1
    <3>4. HeldEntry(next, new, m, h)
      <4> SUFFICES ASSUME m + 1 \in DOMAIN next, h \in DOMAIN next[m + 1].consensus_states
                   PROVE  /\ k \in DOMAIN new
                          /\ new[k] = digest_with_client_id(next[m + 1].client_id,
                                        next[m + 1].consensus_states[h].state)
        BY DEF HeldEntry
      <4>1. /\ m + 1 \in DOMAIN clients /\ h \in DOMAIN clients[m + 1].consensus_states
            /\ next[m + 1].consensus_states[h] = clients[m + 1].consensus_states[h]
        <5>1. CASE m = n
          <6>1. h # g /\ next[m + 1] = c
            BY <2>4, <5>1 DEF Written
          <6> QED
            BY <5>1, <6>1
        <5>2. CASE m # n
          BY <5>2, m + 1 # n + 1 DEF Written
        <5> QED
          BY <5>1, <5>2
      <4>2. k \in DOMAIN trie
            /\ trie[k] = digest_with_client_id(clients[m + 1].client_id,
                           clients[m + 1].consensus_states[h].state)
        BY <2>1, <4>1 DEF HeldEntry
      <4> HIDE DEF k
      <4> QED
        BY <2>2, <3>2, <4>1, <4>2
    <3> QED
      BY <3>3, <3>4
  <2> QED
    BY <2>3, <2>4
<1> HIDE DEF more
<1>2. StateEntries(next, new, more)
  BY <1>1 DEF StateEntries
<1> QED
  BY <1>2 DEF more

LEMMA ConsensusStateKeeps ==
  ASSUME NEW st, NEW accepted, StoreInv(st, accepted), NEW id, IsId(id), HasClient(st, id),
         NEW h \in Heights, NEW state \in States, NEW at,
         h \notin DOMAIN st.clients[id.counter + 1].consensus_states
  PROVE  StoreInv(store_consensus_state(st, id, h, state, at),
                  accepted \cup {[client |-> id, height |-> h, state |-> state]})
<1> DEFINE r    == store_consensus_state(st, id, h, state, at)
           n    == id.counter
           c    == st.clients[n + 1]
           held == insert_consensus_state(c.consensus_states, h, Stamped(state, at))
           new  == [client_id |-> id, client_state |-> c.client_state, consensus_states |-> held]
           key  == for_consensus_state(n, h)
           more == accepted \cup {[client |-> id, height |-> h, state |-> state]}
<1>1. n \in Nat /\ n + 1 \in DOMAIN st.clients /\ c.client_id = id
  BY DEF IsId, HasClient, Place, ClientIdx
<1>2. /\ WithClients(st, r)
      /\ IsSeq(r.clients) /\ Written(st.clients, r.clients, n + 1, new)
      /\ Written(st.trie, r.trie, key, digest_with_client_id(id, state))
  BY ConsensusStateWrites DEF StoreInv
<1> HIDE DEF r
<1>3. /\ r.connections = st.connections /\ r.port_channel = st.port_channel
      /\ r.channel_counter = st.channel_counter /\ IsStore(r)
  BY <1>2 DEF WithClients, IsStore
<1>4. IsClient(c, (n + 1) - 1)
  BY <1>1 DEF StoreInv, AreClients
<1>5. IsStates(c.consensus_states) /\ h \in Nat \ {0}
  BY <1>4, IbcHostAssumption DEF IsClient
<1>6. /\ IsStates(held)
      /\ h \in DOMAIN held /\ held[h] = Stamped(state, at)
      /\ \A k \in DOMAIN held : k # h =>
           k \in DOMAIN c.consensus_states /\ held[k] = c.consensus_states[k]
  <2> HIDE DEF c
  <2>1. h \notin DOMAIN c.consensus_states
    BY DEF c
  <2> QED
    BY <1>5, <2>1, InsertFacts
<1> HIDE DEF held
<1>7. held[h].state = state
  BY <1>6 DEF Stamped
<1>8. /\ new.client_id = id /\ new.client_state = c.client_state
      /\ new.consensus_states = held
  OBVIOUS
<1>9. IsClient(new, n)
  BY <1>6 DEF IsClient, IsId
<1> HIDE DEF new, key, n
<1>10. AreClients(r.clients)
  BY <1>1, <1>2, <1>9, WrittenClients DEF StoreInv
<1>11. StateEntries(r.clients, r.trie, more)
  <2> USE DEF key
  <2>1. StateEntries(st.clients, st.trie, accepted)
    BY DEF StoreInv
  <2> QED
    BY <1>1, <1>2, <1>6, <1>7, <1>8, <2>1, WrittenStateEntry
<1>12. SameElsewhere(st.trie, r.trie, key) /\ key[1] = 1
  BY <1>2, WrittenElsewhere, KeyTags DEF key
<1>13. ClientEntries(r.clients, st.trie)
  <2>1. ASSUME NEW m \in Nat
        PROVE  /\ for_client_state(m) \in DOMAIN st.trie <=> m + 1 \in DOMAIN r.clients
               /\ m + 1 \in DOMAIN r.clients =>
                    st.trie[for_client_state(m)] =
                      digest_with_client_id(r.clients[m + 1].client_id,
                                            r.clients[m + 1].client_state)
    <3>1. /\ for_client_state(m) \in DOMAIN st.trie <=> m + 1 \in DOMAIN st.clients
          /\ m + 1 \in DOMAIN st.clients =>
               st.trie[for_client_state(m)] =
                 digest_with_client_id(st.clients[m + 1].client_id,
                                       st.clients[m + 1].client_state)
      BY DEF StoreInv, ClientEntries
    <3>2. CASE m = n
      BY <1>1, <1>2, <1>8, <3>1, <3>2 DEF Written
    <3>3. CASE m # n
      BY <1>1, <1>2, <3>1, <3>3, m + 1 # n + 1 DEF Written
    <3> QED
      BY <3>2, <3>3
  <2> QED
    BY <2>1 DEF ClientEntries
<1>14. ClientEntries(r.clients, r.trie)
  BY <1>12, <1>13, ClientEntriesFrame
<1>15. /\ ConnectionEntries(st.connections, r.trie) /\ ChannelEntries(st.port_channel, r.trie)
       /\ SequenceEntries(st.port_channel, r.trie)
       /\ CommitmentEntries(st.port_channel, r.trie) /\ ReceiptEntries(r.trie)
  <2>1. key[1] # 2 /\ key[1] # 3 /\ key[1] # 4 /\ key[1] # 5 /\ key[1] \notin {6, 7}
    BY <1>12
  <2> QED
    BY <1>12, <2>1, ConnectionEntriesFrame, ChannelEntriesFrame, SequenceEntriesFrame,
       CommitmentEntriesFrame, ReceiptEntriesFrame DEF StoreInv
<1> HIDE DEF more
<1>16. StoreInv(r, more)
  BY <1>3, <1>10, <1>11, <1>14, <1>15 DEF StoreInv
<1> QED
  BY <1>16 DEF r, more

LEMMA ConnectionKeeps ==
  ASSUME NEW st, NEW accepted, StoreInv(st, accepted), NEW n \in Nat,
         n <= Len(st.connections), NEW end, IsConnection(end)
  PROVE  StoreInv(store_connection(st, n, end), accepted)
<1> DEFINE r   == store_connection(st, n, end)
           key == for_connection(n)
<1>1. /\ WithConnections(st, r)
      /\ IsSeq(r.connections) /\ Written(st.connections, r.connections, n + 1, end)
      /\ Written(st.trie, r.trie, key, digest(end))
  BY ConnectionWrites DEF StoreInv
<1> HIDE DEF r
<1>2. /\ r.clients = st.clients /\ r.port_channel = st.port_channel
      /\ r.channel_counter = st.channel_counter /\ IsStore(r)
  BY <1>1 DEF WithConnections, IsStore
<1>3. AreConnections(r.connections)
  BY <1>1 DEF StoreInv, AreConnections, Written
<1>4. SameElsewhere(st.trie, r.trie, key) /\ key[1] = 2
  BY <1>1, WrittenElsewhere, KeyTags
<1>5. ConnectionEntries(r.connections, r.trie)
  <2>1. ASSUME NEW m \in Nat
        PROVE  /\ for_connection(m) \in DOMAIN r.trie <=> m + 1 \in DOMAIN r.connections
               /\ m + 1 \in DOMAIN r.connections =>
                    r.trie[for_connection(m)] = digest(r.connections[m + 1])
    <3>1. /\ for_connection(m) \in DOMAIN st.trie <=> m + 1 \in DOMAIN st.connections
          /\ m + 1 \in DOMAIN st.connections =>
               st.trie[for_connection(m)] = digest(st.connections[m + 1])
      BY DEF StoreInv, ConnectionEntries
    <3>2. CASE m = n
      BY <1>1, <3>2 DEF Written
    <3>3. CASE m # n
      <4>1. for_connection(m) # key /\ m + 1 # n + 1
        BY <3>3, KeysAreExact
      <4> QED
        BY <1>1, <3>1, <4>1 DEF Written
    <3> QED
      BY <3>2, <3>3
  <2> QED
    BY <2>1 DEF ConnectionEntries
<1> HIDE DEF key
<1>6. /\ ClientEntries(st.clients, r.trie) /\ StateEntries(st.clients, r.trie, accepted)
      /\ ChannelEntries(st.port_channel, r.trie) /\ SequenceEntries(st.port_channel, r.trie)
      /\ CommitmentEntries(st.port_channel, r.trie) /\ ReceiptEntries(r.trie)
  <2>1. key[1] # 0 /\ key[1] # 1 /\ key[1] # 3 /\ key[1] # 4 /\ key[1] # 5
          /\ key[1] \notin {6, 7}
    BY <1>4
  <2> QED
    BY <1>4, <2>1, ClientEntriesFrame, StateEntriesFrame, ChannelEntriesFrame,
       SequenceEntriesFrame, CommitmentEntriesFrame, ReceiptEntriesFrame DEF StoreInv
<1>7. StoreInv(r, accepted)
  BY <1>2, <1>3, <1>5, <1>6 DEF StoreInv
<1> QED
  BY <1>7 DEF r

LEMMA WrittenChannels ==
  ASSUME NEW channels, ArePortChannels(channels), NEW next, NEW pc \in PKs, NEW new,
         IsPortChannel(new), Written(channels, next, pc, new)
  PROVE  ArePortChannels(next)
BY DEF ArePortChannels, Written

(* The numbers of a channel that exists are no concern of the entry of its *)
(* end, and a new number to send with is above the old one.                *)
LEMMA WrittenCommitments ==
  ASSUME NEW channels, NEW next, NEW pc, NEW new, Written(channels, next, pc, new),
         NEW trie, CommitmentEntries(channels, trie), new.next_sequence[1] \in Nat,
         ArePortChannels(channels),
         pc \in DOMAIN channels =>
           channels[pc].next_sequence[1] <= new.next_sequence[1]
  PROVE  CommitmentEntries(next, trie)
<1>1. ASSUME NEW pd \in PKs, NEW n \in Nat,
             for_sequence_path(Tag.Commitment, pd, n) \in DOMAIN trie
      PROVE  pd \in DOMAIN next /\ n < next[pd].next_sequence[1]
  <2>1. pd \in DOMAIN channels /\ n < channels[pd].next_sequence[1]
    BY <1>1 DEF CommitmentEntries
  <2>2. channels[pd].next_sequence[1] \in Nat
    BY <2>1 DEF ArePortChannels, IsPortChannel
  <2>3. CASE pd = pc
    <3>1. next[pd] = new /\ pd \in DOMAIN next
      BY <2>3 DEF Written
    <3>2. channels[pd].next_sequence[1] <= new.next_sequence[1]
      BY <2>1, <2>3
    <3>3. PICK a \in Nat, b \in Nat :
            a = channels[pd].next_sequence[1] /\ b = new.next_sequence[1]
      BY <2>2
    <3>4. n < b
      BY <2>1, <3>2, <3>3
    <3> QED
      BY <3>1, <3>3, <3>4
  <2>4. CASE pd # pc
    BY <2>1, <2>4 DEF Written
  <2> QED
    BY <2>3, <2>4
<1> QED
  BY <1>1 DEF CommitmentEntries

LEMMA ChannelKeeps ==
  ASSUME NEW st, NEW accepted, StoreInv(st, accepted), NEW pc \in PKs, NEW end, IsEnd(end)
  PROVE  StoreInv(store_channel(st, pc, end), accepted)
<1> DEFINE r   == store_channel(st, pc, end)
           key == for_channel_end(pc)
           old == PortChannel(st, pc)
           new == [end |-> end, next_sequence |-> old.next_sequence]
<1>1. /\ WithChannels(st, r)
      /\ Written(st.port_channel, r.port_channel, pc, new)
      /\ Written(st.trie, r.trie, key, digest(end))
  BY ChannelWrites DEF StoreInv
<1> HIDE DEF r
<1>2. /\ r.clients = st.clients /\ r.connections = st.connections
      /\ r.channel_counter = st.channel_counter /\ IsStore(r)
  BY <1>1 DEF WithChannels, IsStore
<1>3. /\ old.next_sequence \in [1 .. 3 -> Nat]
      /\ pc \in DOMAIN st.port_channel => old = st.port_channel[pc]
  <2>1. <<0, 0, 0>> \in [1 .. 3 -> Nat]
    OBVIOUS
  <2> QED
    BY <2>1 DEF StoreInv, ArePortChannels, IsPortChannel, PortChannel, NewPortChannel
<1> HIDE DEF old
<1>4. new.end = end /\ new.next_sequence = old.next_sequence
  OBVIOUS
<1>5. IsPortChannel(new)
  BY <1>3 DEF IsPortChannel
<1> HIDE DEF new
<1>6. ArePortChannels(r.port_channel)
  BY <1>1, <1>5, WrittenChannels DEF StoreInv
<1>7. SameElsewhere(st.trie, r.trie, key) /\ key[1] = 3
  BY <1>1, WrittenElsewhere, KeyTags
<1>8. ChannelEntries(r.port_channel, r.trie)
  <2>1. ASSUME NEW pd \in PKs
        PROVE  /\ for_channel_end(pd) \in DOMAIN r.trie <=> pd \in DOMAIN r.port_channel
               /\ pd \in DOMAIN r.port_channel =>
                    r.trie[for_channel_end(pd)] = digest(r.port_channel[pd].end)
    <3>1. /\ for_channel_end(pd) \in DOMAIN st.trie <=> pd \in DOMAIN st.port_channel
          /\ pd \in DOMAIN st.port_channel =>
               st.trie[for_channel_end(pd)] = digest(st.port_channel[pd].end)
      BY DEF StoreInv, ChannelEntries
    <3>2. CASE pd = pc
      BY <1>1, <1>4, <3>2 DEF Written
    <3>3. CASE pd # pc
      <4>1. for_channel_end(pd) # key
        BY <3>3, KeysAreExact
      <4> QED
        BY <1>1, <3>1, <3>3, <4>1 DEF Written
    <3> QED
      BY <3>2, <3>3
  <2> QED
    BY <2>1 DEF ChannelEntries
<1>9. SequenceEntries(r.port_channel, st.trie)
  <2>1. ASSUME NEW pd \in PKs, for_next_sequence(pd) \in DOMAIN st.trie
        PROVE  /\ pd \in DOMAIN r.port_channel
               /\ st.trie[for_next_sequence(pd)] = SequenceHash(r.port_channel[pd].next_sequence)
    <3>1. /\ pd \in DOMAIN st.port_channel
          /\ st.trie[for_next_sequence(pd)] = SequenceHash(st.port_channel[pd].next_sequence)
      BY <2>1 DEF StoreInv, SequenceEntries
    <3>2. r.port_channel[pd].next_sequence = st.port_channel[pd].next_sequence
      BY <1>1, <1>3, <1>4, <3>1 DEF Written
    <3> QED
      BY <1>1, <3>1, <3>2 DEF Written
  <2> QED
    BY <2>1 DEF SequenceEntries
<1>10. CommitmentEntries(r.port_channel, st.trie)
  <2>1. new.next_sequence[1] \in Nat
    BY <1>3, <1>4
  <2>2. pc \in DOMAIN st.port_channel =>
          st.port_channel[pc].next_sequence[1] <= new.next_sequence[1]
    BY <1>3, <1>4, <2>1
  <2> QED
    BY <1>1, <2>1, <2>2, WrittenCommitments DEF StoreInv
<1> HIDE DEF key
<1>11. /\ ClientEntries(st.clients, r.trie) /\ StateEntries(st.clients, r.trie, accepted)
       /\ ConnectionEntries(st.connections, r.trie)
       /\ SequenceEntries(r.port_channel, r.trie)
       /\ CommitmentEntries(r.port_channel, r.trie) /\ ReceiptEntries(r.trie)
  <2>1. key[1] # 0 /\ key[1] # 1 /\ key[1] # 2 /\ key[1] # 4 /\ key[1] # 5
          /\ key[1] \notin {6, 7}
    BY <1>7
  <2> QED
    BY <1>7, <1>9, <1>10, <2>1, ClientEntriesFrame, StateEntriesFrame, ConnectionEntriesFrame,
       SequenceEntriesFrame, CommitmentEntriesFrame, ReceiptEntriesFrame DEF StoreInv
<1>12. StoreInv(r, accepted)
  BY <1>2, <1>6, <1>8, <1>11 DEF StoreInv
<1> QED
  BY <1>12 DEF r

LEMMA TripleFacts ==
  ASSUME NEW triple \in [1 .. 3 -> Nat], NEW kind \in 1 .. 3, NEW seq \in Nat
  PROVE  /\ SetSequence(triple, kind, seq) \in [1 .. 3 -> Nat]
         /\ SetSequence(triple, kind, seq)[kind] = seq
         /\ \A k \in 1 .. 3 : k # kind => SetSequence(triple, kind, seq)[k] = triple[k]
BY DEF SetSequence

LEMMA SequenceKeeps ==
  ASSUME NEW st, NEW accepted, StoreInv(st, accepted), NEW pc \in DOMAIN st.port_channel,
         NEW kind \in 1 .. 3, NEW seq \in Nat,
         st.port_channel[pc].next_sequence[kind] <= seq
  PROVE  StoreInv(store_next_sequence(st, pc, kind, seq), accepted)
<1> DEFINE r      == store_next_sequence(st, pc, kind, seq)
           key    == for_next_sequence(pc)
           old    == PortChannel(st, pc)
           triple == SetSequence(old.next_sequence, kind, seq)
           new    == [end |-> old.end, next_sequence |-> triple]
<1>1. /\ WithChannels(st, r)
      /\ Written(st.port_channel, r.port_channel, pc, new)
      /\ Written(st.trie, r.trie, key, SequenceHash(triple))
  BY SequenceWrites DEF StoreInv
<1> HIDE DEF r
<1>2. /\ r.clients = st.clients /\ r.connections = st.connections
      /\ r.channel_counter = st.channel_counter /\ IsStore(r)
  BY <1>1 DEF WithChannels, IsStore
<1>3. old = st.port_channel[pc] /\ IsPortChannel(old) /\ pc \in PKs
  BY DEF StoreInv, ArePortChannels, PortChannel
<1> HIDE DEF old
<1>4. /\ triple \in [1 .. 3 -> Nat] /\ triple[kind] = seq
      /\ \A k \in 1 .. 3 : k # kind => triple[k] = old.next_sequence[k]
  BY <1>3, TripleFacts DEF IsPortChannel
<1>5. triple[1] \in Nat /\ old.next_sequence[1] \in Nat /\ old.next_sequence[1] <= triple[1]
  <2>1. triple[1] \in Nat /\ old.next_sequence[1] \in Nat
    BY <1>3, <1>4 DEF IsPortChannel
  <2>2. CASE kind = 1
    BY <1>3, <1>4, <2>1, <2>2
  <2>3. CASE kind # 1
    BY <1>4, <2>1, <2>3
  <2> QED
    BY <2>1, <2>2, <2>3
<1> HIDE DEF triple
<1>6. new.end = old.end /\ new.next_sequence = triple
  OBVIOUS
<1>7. IsPortChannel(new)
  BY <1>3, <1>4 DEF IsPortChannel
<1> HIDE DEF new
<1>8. ArePortChannels(r.port_channel)
  BY <1>1, <1>3, <1>7, WrittenChannels DEF StoreInv
<1>9. SameElsewhere(st.trie, r.trie, key) /\ key[1] = 4
  BY <1>1, <1>3, WrittenElsewhere, KeyTags
<1>10. SequenceEntries(r.port_channel, r.trie)
  <2>1. ASSUME NEW pd \in PKs, for_next_sequence(pd) \in DOMAIN r.trie
        PROVE  /\ pd \in DOMAIN r.port_channel
               /\ r.trie[for_next_sequence(pd)] = SequenceHash(r.port_channel[pd].next_sequence)
    <3>1. CASE pd = pc
      BY <1>1, <1>6, <3>1 DEF Written
    <3>2. CASE pd # pc
      <4>1. for_next_sequence(pd) # key
        BY <1>3, <3>2, KeysAreExact
      <4>2. for_next_sequence(pd) \in DOMAIN st.trie
        BY <1>1, <2>1, <4>1 DEF Written
      <4>3. /\ pd \in DOMAIN st.port_channel
            /\ st.trie[for_next_sequence(pd)] = SequenceHash(st.port_channel[pd].next_sequence)
        BY <4>2 DEF StoreInv, SequenceEntries
      <4> QED
        BY <1>1, <3>2, <4>1, <4>2, <4>3 DEF Written
    <3> QED
      BY <3>1, <3>2
  <2> QED
    BY <2>1 DEF SequenceEntries
<1>11. ChannelEntries(r.port_channel, st.trie)
  <2>1. ASSUME NEW pd \in PKs
        PROVE  /\ pd \in DOMAIN r.port_channel <=> pd \in DOMAIN st.port_channel
               /\ pd \in DOMAIN st.port_channel =>
                    r.port_channel[pd].end = st.port_channel[pd].end
    BY <1>1, <1>3, <1>6 DEF Written
  <2> QED
    BY <2>1 DEF StoreInv, ChannelEntries
<1>12. CommitmentEntries(r.port_channel, st.trie)
  <2>1. st.port_channel[pc].next_sequence[1] <= new.next_sequence[1]
    BY <1>3, <1>5, <1>6
  <2>2. new.next_sequence[1] \in Nat
    BY <1>5, <1>6
  <2> QED
    BY <1>1, <2>1, <2>2, WrittenCommitments DEF StoreInv
<1> HIDE DEF key
<1>13. /\ ClientEntries(st.clients, r.trie) /\ StateEntries(st.clients, r.trie, accepted)
       /\ ConnectionEntries(st.connections, r.trie)
       /\ ChannelEntries(r.port_channel, r.trie)
       /\ CommitmentEntries(r.port_channel, r.trie) /\ ReceiptEntries(r.trie)
  <2>1. key[1] # 0 /\ key[1] # 1 /\ key[1] # 2 /\ key[1] # 3 /\ key[1] # 5
          /\ key[1] \notin {6, 7}
    BY <1>9
  <2> QED
    BY <1>9, <1>11, <1>12, <2>1, ClientEntriesFrame, StateEntriesFrame, ConnectionEntriesFrame,
       ChannelEntriesFrame, CommitmentEntriesFrame, ReceiptEntriesFrame DEF StoreInv
<1>14. StoreInv(r, accepted)
  BY <1>2, <1>8, <1>10, <1>13 DEF StoreInv
<1> QED
  BY <1>14 DEF r

\* A store with another trie.
WithTrie(st, r) ==
    r = [clients |-> st.clients, connections |-> st.connections,
         port_channel |-> st.port_channel, channel_counter |-> st.channel_counter,
         trie |-> r.trie]

(* What the entries of packets leave alone.                                *)
LEMMA PacketFrame ==
  ASSUME NEW st, NEW accepted, StoreInv(st, accepted), NEW r, WithTrie(st, r), NEW key,
         SameElsewhere(st.trie, r.trie, key), key[1] \in {5, 6, 7},
         CommitmentEntries(st.port_channel, r.trie), ReceiptEntries(r.trie)
  PROVE  StoreInv(r, accepted)
<1>1. /\ r.clients = st.clients /\ r.connections = st.connections
      /\ r.port_channel = st.port_channel
      /\ r.channel_counter = st.channel_counter /\ IsStore(r)
  BY DEF WithTrie, IsStore
<1>2. key[1] # 0 /\ key[1] # 1 /\ key[1] # 2 /\ key[1] # 3 /\ key[1] # 4
  OBVIOUS
<1>3. /\ ClientEntries(st.clients, r.trie) /\ StateEntries(st.clients, r.trie, accepted)
      /\ ConnectionEntries(st.connections, r.trie) /\ ChannelEntries(st.port_channel, r.trie)
      /\ SequenceEntries(st.port_channel, r.trie)
  BY <1>2, ClientEntriesFrame, StateEntriesFrame, ConnectionEntriesFrame,
     ChannelEntriesFrame, SequenceEntriesFrame DEF StoreInv
<1> QED
  BY <1>1, <1>3 DEF StoreInv

LEMMA CommitmentKeeps ==
  ASSUME NEW st, NEW accepted, StoreInv(st, accepted), NEW pc \in DOMAIN st.port_channel,
         NEW seq \in Nat, seq < st.port_channel[pc].next_sequence[1], NEW hash
  PROVE  LET r == store_packet_commitment(st, pc, seq, hash)
         IN  /\ WithTrie(st, r) /\ StoreInv(r, accepted)
             /\ Written(st.trie, r.trie, for_sequence_path(Tag.Commitment, pc, seq), hash)
<1> DEFINE r   == store_packet_commitment(st, pc, seq, hash)
           key == for_sequence_path(Tag.Commitment, pc, seq)
<1>1. WithTrie(st, r) /\ Written(st.trie, r.trie, key, hash)
  BY TrieSetWrites DEF StoreInv, store_packet_commitment, WithTrie
<1> HIDE DEF r
<1>2. pc \in PKs
  BY DEF StoreInv, ArePortChannels
<1>3. SameElsewhere(st.trie, r.trie, key) /\ key[1] = 5
  BY <1>1, <1>2, WrittenElsewhere, KeyTags, Tags
<1>4. ReceiptEntries(r.trie)
  BY <1>3, ReceiptEntriesFrame DEF StoreInv
<1>5. CommitmentEntries(st.port_channel, r.trie)
  <2>1. ASSUME NEW pd \in PKs, NEW n \in Nat,
               for_sequence_path(Tag.Commitment, pd, n) \in DOMAIN r.trie
        PROVE  pd \in DOMAIN st.port_channel /\ n < st.port_channel[pd].next_sequence[1]
    <3>1. CASE for_sequence_path(Tag.Commitment, pd, n) = key
      BY <1>2, <3>1, KeysAreExact
    <3>2. CASE for_sequence_path(Tag.Commitment, pd, n) # key
      BY <1>1, <2>1, <3>2 DEF Written, StoreInv, CommitmentEntries
    <3> QED
      BY <3>1, <3>2
  <2> QED
    BY <2>1 DEF CommitmentEntries
<1>6. StoreInv(r, accepted)
  <2> HIDE DEF key
  <2> QED
    BY <1>1, <1>3, <1>4, <1>5, PacketFrame
<1> QED
  BY <1>1, <1>6 DEF r

LEMMA DeletionKeeps ==
  ASSUME NEW st, NEW accepted, StoreInv(st, accepted), NEW pc \in PKs, NEW seq \in Nat
  PROVE  LET r   == delete_packet_commitment(st, pc, seq)
             key == for_sequence_path(Tag.Commitment, pc, seq)
         IN  /\ WithTrie(st, r) /\ StoreInv(r, accepted)
             /\ SameElsewhere(st.trie, r.trie, key) /\ key \notin DOMAIN r.trie
<1> DEFINE r   == delete_packet_commitment(st, pc, seq)
           key == for_sequence_path(Tag.Commitment, pc, seq)
<1>1. r = [clients |-> st.clients, connections |-> st.connections,
           port_channel |-> st.port_channel, channel_counter |-> st.channel_counter,
           trie |-> Drop(st.trie, key)]
  BY DEF StoreInv, IsStore, delete_packet_commitment, TrieDel
<1> HIDE DEF r
<1>2. WithTrie(st, r) /\ r.trie = Drop(st.trie, key)
  BY <1>1 DEF WithTrie
<1>3. SameElsewhere(st.trie, r.trie, key) /\ key \notin DOMAIN r.trie /\ key[1] = 5
  BY <1>2, DropDeletes, KeyTags, Tags
<1> HIDE DEF key
<1>4. ReceiptEntries(r.trie)
  BY <1>3, ReceiptEntriesFrame DEF StoreInv
<1>5. \A j \in DOMAIN r.trie : j \in DOMAIN st.trie
  BY <1>3 DEF SameElsewhere
<1>6. CommitmentEntries(st.port_channel, r.trie)
  BY <1>5 DEF StoreInv, CommitmentEntries
<1>7. StoreInv(r, accepted)
  BY <1>2, <1>3, <1>4, <1>6, PacketFrame
<1> QED
  BY <1>2, <1>3, <1>7 DEF r, key

LEMMA ReceiptKeeps ==
  ASSUME NEW st, NEW accepted, StoreInv(st, accepted), NEW pc \in PKs, NEW seq \in Nat
  PROVE  LET r == store_packet_receipt(st, pc, seq)
         IN  /\ WithTrie(st, r) /\ StoreInv(r, accepted)
             /\ Written(st.trie, r.trie, for_sequence_path(Tag.Receipt, pc, seq), DefaultHash)
<1> DEFINE r   == store_packet_receipt(st, pc, seq)
           key == for_sequence_path(Tag.Receipt, pc, seq)
<1>1. WithTrie(st, r) /\ Written(st.trie, r.trie, key, DefaultHash)
  BY TrieSetWrites DEF StoreInv, store_packet_receipt, WithTrie
<1> HIDE DEF r
<1>2. SameElsewhere(st.trie, r.trie, key) /\ key[1] = 6
  BY <1>1, WrittenElsewhere, KeyTags, Tags
<1>3. CommitmentEntries(st.port_channel, r.trie)
  BY <1>2, CommitmentEntriesFrame DEF StoreInv
<1>4. ReceiptEntries(r.trie)
  <2>1. ASSUME NEW pd \in PKs, NEW n \in Nat
        PROVE  /\ for_sequence_path(Tag.Receipt, pd, n) \in DOMAIN r.trie =>
                    r.trie[for_sequence_path(Tag.Receipt, pd, n)] = DefaultHash
               /\ for_sequence_path(Tag.Ack, pd, n) \in DOMAIN r.trie =>
                    for_sequence_path(Tag.Receipt, pd, n) \in DOMAIN r.trie
    <3> DEFINE kr == for_sequence_path(Tag.Receipt, pd, n)
               ka == for_sequence_path(Tag.Ack, pd, n)
    <3>1. /\ kr \in DOMAIN st.trie => st.trie[kr] = DefaultHash
          /\ ka \in DOMAIN st.trie => kr \in DOMAIN st.trie
      BY DEF StoreInv, ReceiptEntries
    <3>2. ka # key
      BY <1>2, KeyTags, Tags
    <3> HIDE DEF key, kr, ka
    <3>3. /\ kr \in DOMAIN r.trie => r.trie[kr] = DefaultHash
          /\ ka \in DOMAIN r.trie => kr \in DOMAIN r.trie
      BY <1>1, <3>1, <3>2 DEF Written
    <3> QED
      BY <3>3 DEF kr, ka
  <2> QED
    BY <2>1 DEF ReceiptEntries
<1>5. StoreInv(r, accepted)
  <2> HIDE DEF key
  <2> QED
    BY <1>1, <1>2, <1>3, <1>4, PacketFrame
<1> QED
  BY <1>1, <1>5 DEF r

LEMMA AcknowledgementKeeps ==
  ASSUME NEW st, NEW accepted, StoreInv(st, accepted), NEW pc \in PKs, NEW seq \in Nat,
         for_sequence_path(Tag.Receipt, pc, seq) \in DOMAIN st.trie, NEW hash
  PROVE  LET r == store_packet_acknowledgement(st, pc, seq, hash)
         IN  /\ WithTrie(st, r) /\ StoreInv(r, accepted)
             /\ Written(st.trie, r.trie, for_sequence_path(Tag.Ack, pc, seq), hash)
<1> DEFINE r   == store_packet_acknowledgement(st, pc, seq, hash)
           key == for_sequence_path(Tag.Ack, pc, seq)
<1>1. WithTrie(st, r) /\ Written(st.trie, r.trie, key, hash)
  BY TrieSetWrites DEF StoreInv, store_packet_acknowledgement, WithTrie
<1> HIDE DEF r
<1>2. SameElsewhere(st.trie, r.trie, key) /\ key[1] = 7
  BY <1>1, WrittenElsewhere, KeyTags, Tags
<1>3. CommitmentEntries(st.port_channel, r.trie)
  BY <1>2, CommitmentEntriesFrame DEF StoreInv
<1>4. ReceiptEntries(r.trie)
  <2>1. ASSUME NEW pd \in PKs, NEW n \in Nat
        PROVE  /\ for_sequence_path(Tag.Receipt, pd, n) \in DOMAIN r.trie =>
                    r.trie[for_sequence_path(Tag.Receipt, pd, n)] = DefaultHash
               /\ for_sequence_path(Tag.Ack, pd, n) \in DOMAIN r.trie =>
                    for_sequence_path(Tag.Receipt, pd, n) \in DOMAIN r.trie
    <3> DEFINE kr == for_sequence_path(Tag.Receipt, pd, n)
               ka == for_sequence_path(Tag.Ack, pd, n)
    <3>1. /\ kr \in DOMAIN st.trie => st.trie[kr] = DefaultHash
          /\ ka \in DOMAIN st.trie => kr \in DOMAIN st.trie
      BY DEF StoreInv, ReceiptEntries
    <3>2. kr # key
      BY <1>2, KeyTags, Tags
    <3>3. ka = key => kr \in DOMAIN st.trie
      BY KeysAreExact
    <3> HIDE DEF key, kr, ka
    <3>4. /\ kr \in DOMAIN r.trie => r.trie[kr] = DefaultHash
          /\ ka \in DOMAIN r.trie => kr \in DOMAIN r.trie
      BY <1>1, <3>1, <3>2, <3>3 DEF Written
    <3> QED
      BY <3>4 DEF kr, ka
  <2> QED
    BY <2>1 DEF ReceiptEntries
<1>5. StoreInv(r, accepted)
  <2> HIDE DEF key
  <2> QED
    BY <1>1, <1>2, <1>3, <1>4, PacketFrame
<1> QED
  BY <1>1, <1>5 DEF r

LEMMA CounterKeeps ==
  ASSUME NEW st, NEW accepted, StoreInv(st, accepted)
  PROVE  LET r == increase_channel_counter(st)
         IN  /\ r = [clients |-> st.clients, connections |-> st.connections,
                     port_channel |-> st.port_channel,
                     channel_counter |-> st.channel_counter + 1, trie |-> st.trie]
             /\ StoreInv(r, accepted)
<1> DEFINE r == increase_channel_counter(st)
<1>1. r = [clients |-> st.clients, connections |-> st.connections,
           port_channel |-> st.port_channel,
           channel_counter |-> st.channel_counter + 1, trie |-> st.trie]
  BY DEF StoreInv, IsStore, increase_channel_counter
<1> HIDE DEF r
<1>2. /\ r.clients = st.clients /\ r.connections = st.connections
      /\ r.port_channel = st.port_channel /\ r.trie = st.trie
      /\ r.channel_counter = st.channel_counter + 1 /\ IsStore(r)
  BY <1>1 DEF IsStore
<1>3. StoreInv(r, accepted)
  BY <1>2 DEF StoreInv
<1> QED
  BY <1>1, <1>3 DEF r

-----------------------------------------------------------------------------
(* What a message may do to the storage, part by part.                     *)

\* Entries whose keys do not start with one of the tags stay as they are.
SameBut(f, g, tags) ==
    \A k : k[1] \notin tags => /\ k \in DOMAIN g <=> k \in DOMAIN f
                               /\ k \in DOMAIN f => g[k] = f[k]

ClientsKept(old, new) ==
    \A i \in DOMAIN old :
        /\ i \in DOMAIN new /\ new[i].client_id = old[i].client_id
        /\ \A h \in DOMAIN old[i].consensus_states :
             h \in DOMAIN new[i].consensus_states =>
               new[i].consensus_states[h] = old[i].consensus_states[h]

ConnectionsKept(old, new) ==
    \A i \in DOMAIN old :
        /\ i \in DOMAIN new /\ new[i].client = old[i].client
        /\ Rank[new[i].state] >= Rank[old[i].state]

ChannelKept(old, new) ==
    /\ new.end.connection = old.end.connection
    /\ new.end.state = old.end.state \/ Rank[new.end.state] > Rank[old.end.state]
    /\ \A k \in 1 .. 3 : new.next_sequence[k] >= old.next_sequence[k]

ChannelsKept(old, new) ==
    \A pc \in DOMAIN old : pc \in DOMAIN new /\ ChannelKept(old[pc], new[pc])

CommitmentKept(st, r, pc, n) ==
    get_packet_commitment(r, pc, n) # get_packet_commitment(st, pc, n) =>
      \/ get_packet_commitment(r, pc, n) = NoHash
      \/ /\ get_packet_commitment(st, pc, n) = NoHash
         /\ n = get_next_sequence(st, pc, SequenceKind.SeqSend)
         /\ n < get_next_sequence(r, pc, SequenceKind.SeqSend)

EntriesKept(old, new) ==
    \A k \in DOMAIN old : k[1] \in {6, 7} => k \in DOMAIN new /\ new[k] = old[k]

PacketsKept(st, r) ==
    /\ \A pc \in PKs, n \in Nat : CommitmentKept(st, r, pc, n)
    /\ EntriesKept(st.trie, r.trie)

Advances(st, r) ==
    /\ ClientsKept(st.clients, r.clients)
    /\ ConnectionsKept(st.connections, r.connections)
    /\ ChannelsKept(st.port_channel, r.port_channel)
    /\ PacketsKept(st, r)

LEMMA ElsewhereBut ==
  ASSUME NEW f, NEW g, NEW key, NEW tags, SameElsewhere(f, g, key), key[1] \in tags
  PROVE  SameBut(f, g, tags)
BY DEF SameElsewhere, SameBut

LEMMA SameButTwice ==
  ASSUME NEW f, NEW g, NEW e, NEW tags, SameBut(f, g, tags), SameBut(g, e, tags)
  PROVE  SameBut(f, e, tags)
BY DEF SameBut

LEMMA SameClients ==
  ASSUME NEW s
  PROVE  ClientsKept(s, s)
BY DEF ClientsKept

LEMMA Ranks ==
  /\ Rank["Init"] = 1 /\ Rank["TryOpen"] = 1 /\ Rank["Open"] = 2 /\ Rank["Closed"] = 3
BY DEF Rank

LEMMA SameConnections ==
  ASSUME NEW s, AreConnections(s)
  PROVE  ConnectionsKept(s, s)
<1>1. ASSUME NEW i \in DOMAIN s
      PROVE  Rank[s[i].state] >= Rank[s[i].state]
  <2>1. s[i].state \in {"Init", "TryOpen", "Open"}
    BY DEF AreConnections, IsConnection
  <2>2. Rank[s[i].state] \in Nat
    BY <2>1, Ranks
  <2> QED
    BY <2>2
<1> QED
  BY <1>1 DEF ConnectionsKept

LEMMA SameChannel ==
  ASSUME NEW p, IsPortChannel(p)
  PROVE  ChannelKept(p, p)
<1>1. \A k \in 1 .. 3 : p.next_sequence[k] \in Nat
  BY DEF IsPortChannel
<1>2. \A k \in 1 .. 3 : p.next_sequence[k] >= p.next_sequence[k]
  BY <1>1
<1> QED
  BY <1>2 DEF ChannelKept

LEMMA SameChannels ==
  ASSUME NEW s, ArePortChannels(s)
  PROVE  ChannelsKept(s, s)
BY SameChannel DEF ChannelsKept, ArePortChannels

LEMMA SamePackets ==
  ASSUME NEW st, NEW r, SameBut(st.trie, r.trie, 0 .. 4)
  PROVE  PacketsKept(st, r)
<1>1. ASSUME NEW pc \in PKs, NEW n \in Nat
      PROVE  CommitmentKept(st, r, pc, n)
  <2> DEFINE key == for_sequence_path(Tag.Commitment, pc, n)
  <2>1. key[1] = 5
    BY KeyTags, Tags
  <2> HIDE DEF key
  <2>2. /\ key \in DOMAIN r.trie <=> key \in DOMAIN st.trie
        /\ key \in DOMAIN st.trie => r.trie[key] = st.trie[key]
    BY <2>1 DEF SameBut
  <2>3. TrieGet(r, key) = TrieGet(st, key)
    BY <2>2 DEF TrieGet
  <2> QED
    BY <2>3 DEF CommitmentKept, get_packet_commitment, key
<1>2. EntriesKept(st.trie, r.trie)
  BY DEF EntriesKept, SameBut
<1> QED
  BY <1>1, <1>2 DEF PacketsKept

LEMMA SameStore ==
  ASSUME NEW st, NEW accepted, StoreInv(st, accepted)
  PROVE  Advances(st, st)
<1>1. SameBut(st.trie, st.trie, 0 .. 4)
  BY DEF SameBut
<1> QED
  BY <1>1, SameClients, SameConnections, SameChannels, SamePackets DEF Advances, StoreInv

(* Entries of clients, connections and channels do not touch the numbers.  *)
LEMMA SameSequences ==
  ASSUME NEW st, NEW r, SameBut(st.trie, r.trie, 0 .. 3), NEW accepted, StoreInv(st, accepted),
         \A pc \in DOMAIN st.port_channel : for_next_sequence(pc) \in DOMAIN st.trie
  PROVE  \A pc \in DOMAIN st.port_channel : for_next_sequence(pc) \in DOMAIN r.trie
<1>1. ASSUME NEW pc \in DOMAIN st.port_channel
      PROVE  for_next_sequence(pc) \in DOMAIN r.trie
  <2>1. pc \in PKs
    BY DEF StoreInv, ArePortChannels
  <2>2. for_next_sequence(pc)[1] = 4
    BY <2>1, KeyTags
  <2> QED
    BY <2>2 DEF SameBut
<1> QED
  BY <1>1

LEMMA FewerTags ==
  ASSUME NEW f, NEW g, NEW tags, NEW more, tags \subseteq more, SameBut(f, g, tags)
  PROVE  SameBut(f, g, more)
BY DEF SameBut

(* A message about clients.                                                *)
LEMMA OnlyClients ==
  ASSUME NEW st, NEW r, NEW accepted, StoreInv(st, accepted), Complete(st),
         WithClients(st, r), SameBut(st.trie, r.trie, {0, 1}),
         ClientsKept(st.clients, r.clients),
         \A i \in DOMAIN r.clients : DOMAIN r.clients[i].consensus_states # {}
  PROVE  Complete(r) /\ Advances(st, r)
<1>1. /\ r.connections = st.connections /\ r.port_channel = st.port_channel
      /\ r.channel_counter = st.channel_counter
  BY DEF WithClients
<1>2. SameBut(st.trie, r.trie, 0 .. 3) /\ SameBut(st.trie, r.trie, 0 .. 4)
  BY FewerTags, {0, 1} \subseteq 0 .. 3, {0, 1} \subseteq 0 .. 4
<1>3. \A pc \in DOMAIN st.port_channel : for_next_sequence(pc) \in DOMAIN r.trie
  BY <1>2, SameSequences DEF Complete
<1>4. Complete(r)
  BY <1>1, <1>3 DEF Complete
<1>5. Advances(st, r)
  BY <1>1, <1>2, SameConnections, SameChannels, SamePackets DEF Advances, StoreInv
<1> QED
  BY <1>4, <1>5

-----------------------------------------------------------------------------
(* The messages.                                                           *)

Good == StoreInv(store', seen') /\ Complete(store') /\ Advances(store, store')

LEMMA CreateClientStep ==
  ASSUME IInv, NEW type \in ClientTypes, NEW h \in Heights, NEW state \in States,
         CreateClient(type, h, state)
  PROVE  Good
<1> DEFINE n  == Len(store.clients)
           id == [type |-> type, counter |-> n]
           cs == [latest_height |-> h, frozen |-> FALSE]
           s1 == store_client_state(store, id, cs)
           s2 == store_consensus_state(s1, id, h, state, head')
<1>1. /\ MayStoreClient(store, id)
      /\ store' = s2
      /\ seen' = seen \cup {[client |-> id, height |-> h, state |-> state]}
  BY DEF CreateClient, client_counter, deliver, Remember
<1>2. StoreInv(store, seen) /\ Complete(store)
  BY DEF IInv
<1>3. n \in Nat /\ DOMAIN store.clients = 1 .. n
  BY <1>2, SeqFacts DEF StoreInv, AreClients
<1> HIDE DEF n
<1>4. IsId(id) /\ id.counter = n
  BY <1>3 DEF IsId
<1> HIDE DEF id, cs, s1, s2
<1>5. HasClientIdx(id) /\ ~HasClient(store, id) /\ n + 1 \notin DOMAIN store.clients
  BY <1>1, <1>3, <1>4 DEF MayStoreClient, HasClient, Place, ClientIdx
<1>6. StoreInv(s1, seen)
  BY <1>2, <1>4, ClientStateKeeps DEF s1, n
<1> DEFINE c1 == [client_id |-> id, client_state |-> cs, consensus_states |-> <<>>]
<1>7. /\ WithClients(store, s1)
      /\ IsSeq(s1.clients) /\ Written(store.clients, s1.clients, n + 1, c1)
      /\ Written(store.trie, s1.trie, for_client_state(n), digest_with_client_id(id, cs))
  <2>1. IsStore(store) /\ AreClients(store.clients) /\ id.counter \in Nat
          /\ id.counter = Len(store.clients)
    BY <1>2, <1>3, <1>4 DEF StoreInv, n
  <2> QED
    BY <1>4, <1>5, <2>1, ClientStateWrites DEF s1
<1>8. n + 1 \in DOMAIN s1.clients /\ s1.clients[n + 1] = c1
  BY <1>7 DEF Written
<1>9. HasClient(s1, id)
  BY <1>4, <1>5, <1>8 DEF HasClient, Place, ClientIdx
<1>10. s1.clients[id.counter + 1].consensus_states = <<>>
  BY <1>4, <1>8
<1>11. h \notin DOMAIN s1.clients[id.counter + 1].consensus_states
  BY <1>10, DOMAIN <<>> = {}
<1>12. StoreInv(s2, seen')
  BY <1>1, <1>4, <1>6, <1>9, <1>11, ConsensusStateKeeps DEF s2
<1> DEFINE held == insert_consensus_state(<<>>, h, Stamped(state, head'))
           c2   == [client_id |-> id, client_state |-> cs, consensus_states |-> held]
<1>13. /\ WithClients(s1, s2)
       /\ Written(s1.clients, s2.clients, n + 1, c2)
       /\ Written(s1.trie, s2.trie, for_consensus_state(n, h), digest_with_client_id(id, state))
  <2>1. c1.client_state = cs /\ c1.consensus_states = <<>>
    OBVIOUS
  <2> QED
    BY <1>4, <1>6, <1>8, <1>9, <2>1, ConsensusStateWrites DEF StoreInv, s2
<1>14. h \in DOMAIN held
  <2>1. IsStates(<<>>)
    <3>1. DOMAIN <<>> = {} /\ IsFiniteSet({}) /\ Cardinality({}) = 0
      BY FS_EmptySet
    <3> QED
      BY <3>1, MaxClientStatesAssumption DEF IsStates
  <2>2. h \in Nat \ {0} /\ h \notin DOMAIN <<>>
    BY IbcHostAssumption
  <2> QED
    BY <2>1, <2>2, InsertFacts
<1>15. c2.consensus_states = held
  OBVIOUS
<1> HIDE DEF held, c1, c2
<1>16. Written(store.clients, s2.clients, n + 1, c2)
  BY <1>7, <1>13, WrittenTwice
<1>17. WithClients(store, s2)
  BY <1>7, <1>13 DEF WithClients
<1>18. SameBut(store.trie, s2.trie, {0, 1})
  <2>1. SameBut(store.trie, s1.trie, {0, 1})
    BY <1>7, WrittenElsewhere, ElsewhereBut, KeyTags
  <2>2. SameBut(s1.trie, s2.trie, {0, 1})
    BY <1>13, WrittenElsewhere, ElsewhereBut, KeyTags
  <2> QED
    BY <2>1, <2>2, SameButTwice
<1>19. ClientsKept(store.clients, s2.clients)
  BY <1>5, <1>16 DEF ClientsKept, Written
<1>20. \A i \in DOMAIN s2.clients : DOMAIN s2.clients[i].consensus_states # {}
  BY <1>2, <1>14, <1>15, <1>16 DEF Complete, Written
<1>21. Complete(s2) /\ Advances(store, s2)
  BY <1>2, <1>17, <1>18, <1>19, <1>20, OnlyClients
<1> QED
  BY <1>1, <1>12, <1>21 DEF Good

(* A client whose state is stored again keeps the rest of it.              *)
LEMMA StateStored ==
  ASSUME NEW st, NEW accepted, StoreInv(st, accepted), Complete(st),
         NEW id, IsId(id), HasClient(st, id), NEW cs
  PROVE  LET r == store_client_state(st, id, cs)
         IN  /\ StoreInv(r, accepted) /\ WithClients(st, r) /\ HasClient(r, id)
             /\ SameBut(st.trie, r.trie, {0, 1}) /\ ClientsKept(st.clients, r.clients)
             /\ \A i \in DOMAIN r.clients :
                  /\ i \in DOMAIN st.clients
                  /\ r.clients[i].consensus_states = st.clients[i].consensus_states
<1> DEFINE r   == store_client_state(st, id, cs)
           n   == id.counter
           old == st.clients[n + 1]
           new == [client_id |-> id, client_state |-> cs,
                   consensus_states |-> old.consensus_states]
<1>1. n \in Nat /\ n + 1 \in DOMAIN st.clients /\ old.client_id = id /\ HasClientIdx(id)
  BY DEF IsId, HasClient, Place, ClientIdx
<1>2. StoreInv(r, accepted)
  BY ClientStateKeeps
<1>3. /\ WithClients(st, r)
      /\ Written(st.clients, r.clients, n + 1, new)
      /\ Written(st.trie, r.trie, for_client_state(n), digest_with_client_id(id, cs))
  BY <1>1, ClientStateWrites DEF StoreInv
<1>4. new.client_id = id /\ new.consensus_states = old.consensus_states
  OBVIOUS
<1> HIDE DEF r, new
<1>5. HasClient(r, id)
  <2>1. n + 1 \in DOMAIN r.clients /\ r.clients[n + 1].client_id = id
    BY <1>3, <1>4 DEF Written
  <2> QED
    BY <1>1, <2>1 DEF HasClient, Place, ClientIdx
<1>6. SameBut(st.trie, r.trie, {0, 1})
  BY <1>3, WrittenElsewhere, ElsewhereBut, KeyTags
<1> HIDE DEF n
<1>7. \A i \in DOMAIN r.clients :
        /\ i \in DOMAIN st.clients
        /\ r.clients[i].consensus_states = st.clients[i].consensus_states
        /\ r.clients[i].client_id = st.clients[i].client_id
  BY <1>1, <1>3, <1>4 DEF Written
<1>8. DOMAIN r.clients = DOMAIN st.clients
  BY <1>1, <1>3 DEF Written
<1>9. ClientsKept(st.clients, r.clients)
  BY <1>7, <1>8 DEF ClientsKept
<1> QED
  BY <1>2, <1>3, <1>5, <1>6, <1>7, <1>9 DEF r

LEMMA StoredIds ==
  ASSUME NEW st, NEW accepted, StoreInv(st, accepted), NEW i \in DOMAIN st.clients
  PROVE  IsId(st.clients[i].client_id)
<1>1. IsClient(st.clients[i], i - 1)
  BY DEF StoreInv, AreClients
<1>2. i \in Nat /\ i - 1 \in Nat
  BY SeqFacts DEF StoreInv, AreClients
<1> QED
  BY <1>1, <1>2 DEF IsClient, IsId

LEMMA UpdateClientStep ==
  ASSUME IInv, NEW i \in DOMAIN store.clients, NEW h \in Heights, NEW state \in States,
         UpdateClient(store.clients[i].client_id, h, state)
  PROVE  Good
<1> DEFINE id   == store.clients[i].client_id
           old  == client(store, id).client_state
           cold == [old EXCEPT !.frozen = TRUE]
           cnew == [old EXCEPT !.latest_height = Max({@, h})]
<1>1. StoreInv(store, seen) /\ Complete(store)
  BY DEF IInv
<1>2. IsId(id) /\ HasClient(store, id)
  BY <1>1, StoredIds DEF UpdateClient
<1>3. CASE HasConsensusState(store, id, h)
  <2>1. seen' = seen /\ (store' = store \/ store' = store_client_state(store, id, cold))
    BY <1>3 DEF UpdateClient, deliver
  <2>2. CASE store' = store
    BY <1>1, <2>1, <2>2, SameStore DEF Good
  <2>3. CASE store' = store_client_state(store, id, cold)
    <3> HIDE DEF id, cold
    <3>1. /\ StoreInv(store', seen) /\ WithClients(store, store')
          /\ SameBut(store.trie, store'.trie, {0, 1})
          /\ ClientsKept(store.clients, store'.clients)
          /\ \A j \in DOMAIN store'.clients :
               /\ j \in DOMAIN store.clients
               /\ store'.clients[j].consensus_states = store.clients[j].consensus_states
      BY <1>1, <1>2, <2>3, StateStored
    <3>2. \A j \in DOMAIN store'.clients : DOMAIN store'.clients[j].consensus_states # {}
      BY <1>1, <3>1 DEF Complete
    <3>3. Complete(store') /\ Advances(store, store')
      BY <1>1, <3>1, <3>2, OnlyClients
    <3> QED
      BY <2>1, <3>1, <3>3 DEF Good
  <2> QED
    BY <2>1, <2>2, <2>3
<1>4. CASE ~HasConsensusState(store, id, h)
  <2> DEFINE s1 == store_client_state(store, id, cnew)
             s2 == store_consensus_state(s1, id, h, state, head')
  <2>1. /\ seen' = seen \cup {[client |-> id, height |-> h, state |-> state]}
        /\ store' = s2
    BY <1>4 DEF UpdateClient, deliver, Remember
  <2> HIDE DEF id, cnew, s2
  <2>2. /\ StoreInv(s1, seen) /\ WithClients(store, s1) /\ HasClient(s1, id)
        /\ SameBut(store.trie, s1.trie, {0, 1}) /\ ClientsKept(store.clients, s1.clients)
        /\ \A j \in DOMAIN s1.clients :
             /\ j \in DOMAIN store.clients
             /\ s1.clients[j].consensus_states = store.clients[j].consensus_states
    BY <1>1, <1>2, StateStored
  <2> HIDE DEF s1
  <2> DEFINE n    == id.counter
             c    == s1.clients[n + 1]
             held == insert_consensus_state(c.consensus_states, h, Stamped(state, head'))
             new  == [client_id |-> id, client_state |-> c.client_state,
                      consensus_states |-> held]
  <2>3. n \in Nat /\ n + 1 \in DOMAIN s1.clients /\ c.client_id = id
    BY <1>2, <2>2 DEF IsId, HasClient, Place, ClientIdx
  <2>4. h \notin DOMAIN c.consensus_states
    <3>1. c.consensus_states = store.clients[n + 1].consensus_states
      BY <2>2, <2>3
    <3> QED
      BY <1>2, <1>4, <3>1 DEF HasConsensusState, client, Place, ClientIdx
  <2>5. StoreInv(s2, seen')
    BY <1>2, <2>1, <2>2, <2>4, ConsensusStateKeeps DEF s2
  <2>6. /\ WithClients(s1, s2)
        /\ Written(s1.clients, s2.clients, n + 1, new)
        /\ Written(s1.trie, s2.trie, for_consensus_state(n, h), digest_with_client_id(id, state))
    BY <2>2, ConsensusStateWrites DEF StoreInv, s2
  <2>7. IsStates(c.consensus_states) /\ h \in Nat \ {0}
    BY <2>2, <2>3, IbcHostAssumption DEF StoreInv, AreClients, IsClient
  <2> HIDE DEF c
  <2>8. /\ h \in DOMAIN held
        /\ \A k \in DOMAIN held : k # h =>
             k \in DOMAIN c.consensus_states /\ held[k] = c.consensus_states[k]
    BY <2>4, <2>7, InsertFacts
  <2>9. new.client_id = id /\ new.consensus_states = held
    OBVIOUS
  <2> HIDE DEF new, held, n
  <2>10. ClientsKept(s1.clients, s2.clients)
    <3>1. ASSUME NEW j \in DOMAIN s1.clients
          PROVE  /\ j \in DOMAIN s2.clients
                 /\ s2.clients[j].client_id = s1.clients[j].client_id
                 /\ \A g \in DOMAIN s1.clients[j].consensus_states :
                      g \in DOMAIN s2.clients[j].consensus_states =>
                        s2.clients[j].consensus_states[g] = s1.clients[j].consensus_states[g]
      <4>1. CASE j = n + 1
        <5>1. s2.clients[j] = new /\ j \in DOMAIN s2.clients
          BY <2>6, <4>1 DEF Written
        <5>2. s1.clients[j] = c
          BY <4>1 DEF c
        <5> QED
          BY <2>3, <2>4, <2>8, <2>9, <5>1, <5>2
      <4>2. CASE j # n + 1
        BY <2>6, <4>2 DEF Written
      <4> QED
        BY <4>1, <4>2
    <3> QED
      BY <3>1 DEF ClientsKept
  <2>11. DOMAIN s2.clients = DOMAIN s1.clients
    BY <2>3, <2>6 DEF Written
  <2>12. ClientsKept(store.clients, s2.clients)
    <3>1. ASSUME NEW j \in DOMAIN store.clients
          PROVE  /\ j \in DOMAIN s2.clients
                 /\ s2.clients[j].client_id = store.clients[j].client_id
                 /\ \A g \in DOMAIN store.clients[j].consensus_states :
                      g \in DOMAIN s2.clients[j].consensus_states =>
                        s2.clients[j].consensus_states[g] = store.clients[j].consensus_states[g]
      <4>1. j \in DOMAIN s1.clients /\ s1.clients[j].client_id = store.clients[j].client_id
        BY <2>2 DEF ClientsKept
      <4>2. s1.clients[j].consensus_states = store.clients[j].consensus_states
        BY <2>2, <4>1
      <4> QED
        BY <2>10, <4>1, <4>2 DEF ClientsKept
    <3> QED
      BY <3>1 DEF ClientsKept
  <2>13. \A j \in DOMAIN s2.clients : DOMAIN s2.clients[j].consensus_states # {}
    <3>1. \A j \in DOMAIN s1.clients : DOMAIN s1.clients[j].consensus_states # {}
      BY <1>1, <2>2 DEF Complete
    <3> QED
      BY <2>6, <2>8, <2>9, <3>1 DEF Written
  <2>14. WithClients(store, s2)
    BY <2>2, <2>6 DEF WithClients
  <2>15. SameBut(store.trie, s2.trie, {0, 1})
    <3>1. SameBut(s1.trie, s2.trie, {0, 1})
      BY <2>6, WrittenElsewhere, ElsewhereBut, KeyTags
    <3> QED
      BY <2>2, <3>1, SameButTwice
  <2>16. Complete(s2) /\ Advances(store, s2)
    BY <1>1, <2>12, <2>13, <2>14, <2>15, OnlyClients
  <2> QED
    BY <2>1, <2>5, <2>16 DEF Good
<1> QED
  BY <1>3, <1>4

LEMMA ConnectionStored ==
  ASSUME NEW st, NEW accepted, StoreInv(st, accepted), Complete(st), NEW n \in Nat,
         n <= Len(st.connections), n < MaxConnections, NEW end, IsConnection(end),
         n + 1 \in DOMAIN st.connections =>
           /\ end.client = st.connections[n + 1].client
           /\ Rank[end.state] >= Rank[st.connections[n + 1].state]
  PROVE  LET r == store_connection(st, n, end)
         IN  StoreInv(r, accepted) /\ Complete(r) /\ Advances(st, r)
<1> DEFINE r == store_connection(st, n, end)
<1>1. StoreInv(r, accepted)
  BY ConnectionKeeps
<1>2. /\ WithConnections(st, r)
      /\ IsSeq(r.connections) /\ Written(st.connections, r.connections, n + 1, end)
      /\ Written(st.trie, r.trie, for_connection(n), digest(end))
  BY ConnectionWrites DEF StoreInv
<1> HIDE DEF r
<1>3. /\ r.clients = st.clients /\ r.port_channel = st.port_channel
      /\ r.channel_counter = st.channel_counter
  BY <1>2 DEF WithConnections
<1>4. SameBut(st.trie, r.trie, {2})
  BY <1>2, WrittenElsewhere, ElsewhereBut, KeyTags
<1>5. SameBut(st.trie, r.trie, 0 .. 3) /\ SameBut(st.trie, r.trie, 0 .. 4)
  BY <1>4, FewerTags, {2} \subseteq 0 .. 3, {2} \subseteq 0 .. 4
<1>6. Len(r.connections) <= MaxConnections
  <2>1. IsSeq(st.connections) /\ Len(st.connections) \in Nat
    BY SeqFacts DEF StoreInv, AreConnections
  <2>2. Len(r.connections) = IF n + 1 <= Len(st.connections) THEN Len(st.connections) ELSE n + 1
    BY <1>2, <2>1, n + 1 \in Nat, n + 1 <= Len(st.connections) + 1, n + 1 > 0, WrittenSeq
  <2>3. MaxConnections \in Nat
    BY IbcHostAssumption, TrieKeysAssumption
  <2>4. PICK m \in Nat : m = Len(st.connections)
    BY <2>1
  <2>5. m <= MaxConnections
    BY <2>4 DEF Complete
  <2>6. n + 1 <= MaxConnections
    BY <2>3
  <2>7. (IF n + 1 <= m THEN m ELSE n + 1) <= MaxConnections
    BY <2>5, <2>6
  <2> QED
    BY <2>2, <2>4, <2>7
<1>7. Complete(r)
  BY <1>3, <1>5, <1>6, SameSequences DEF Complete
<1>8. ConnectionsKept(st.connections, r.connections)
  <2>1. ConnectionsKept(st.connections, st.connections)
    BY SameConnections DEF StoreInv
  <2> QED
    BY <1>2, <2>1 DEF ConnectionsKept, Written
<1>9. Advances(st, r)
  BY <1>3, <1>5, <1>8, SameClients, SameChannels, SamePackets DEF Advances, StoreInv
<1> QED
  BY <1>1, <1>7, <1>9 DEF r

LEMMA NewConnectionStep ==
  ASSUME IInv, NEW id, NEW state \in {"Init", "TryOpen"}, NEW delay,
         NewConnection(id, state, delay)
  PROVE  Good
<1> DEFINE n   == Len(store.connections)
           end == [state |-> state, client |-> id, delay |-> delay]
<1>1. /\ StoreInv(store, seen) /\ Complete(store) /\ n < MaxConnections
      /\ store' = store_connection(store, n, end) /\ seen' = seen
  BY DEF IInv, NewConnection, connection_counter, deliver
<1>2. n \in Nat /\ DOMAIN store.connections = 1 .. n
  BY <1>1, SeqFacts DEF StoreInv, AreConnections
<1>3. IsConnection(end)
  BY DEF IsConnection
<1> HIDE DEF end
<1>4. n <= Len(store.connections) /\ n + 1 \notin DOMAIN store.connections
  <2>1. PICK m \in Nat : m = n
    BY <1>2
  <2>2. m + 1 \notin 1 .. m
    OBVIOUS
  <2> QED
    BY <1>2, <2>1, <2>2
<1> HIDE DEF n
<1>5. /\ StoreInv(store', seen) /\ Complete(store') /\ Advances(store, store')
  BY <1>1, <1>2, <1>3, <1>4, ConnectionStored
<1> QED
  BY <1>1, <1>5 DEF Good

(* A connection that exists is stored again.                               *)
LEMMA ConnectionChanged ==
  ASSUME IInv, NEW n \in 0 .. MaxConnections - 1, HasConnection(store, n),
         NEW end, IsConnection(end), end.client = connection_end(store, n).client,
         Rank[end.state] >= Rank[connection_end(store, n).state],
         store' = store_connection(store, n, end), seen' = seen
  PROVE  Good
<1>1. StoreInv(store, seen) /\ Complete(store)
  BY DEF IInv
<1>2. MaxConnections \in Nat
  BY IbcHostAssumption, TrieKeysAssumption
<1>3. n \in Nat /\ n < MaxConnections
  BY <1>2
<1>4. n + 1 \in DOMAIN store.connections /\ connection_end(store, n) = store.connections[n + 1]
  BY DEF HasConnection, connection_end, Place
<1>5. Len(store.connections) \in Nat /\ DOMAIN store.connections = 1 .. Len(store.connections)
  BY <1>1, SeqFacts DEF StoreInv, AreConnections
<1>6. n <= Len(store.connections)
  <2>1. PICK m \in Nat : m = Len(store.connections)
    BY <1>5
  <2>2. n + 1 \in 1 .. m
    BY <1>4, <1>5, <2>1
  <2>3. n <= m
    BY <1>3, <2>2
  <2> QED
    BY <2>1, <2>3
<1>7. StoreInv(store', seen) /\ Complete(store') /\ Advances(store, store')
  BY <1>1, <1>3, <1>4, <1>6, ConnectionStored
<1> QED
  BY <1>7 DEF Good

LEMMA StoredConnection ==
  ASSUME IInv, NEW n, HasConnection(store, n)
  PROVE  IsConnection(connection_end(store, n))
BY DEF IInv, StoreInv, AreConnections, HasConnection, connection_end, Place

LEMMA OpenConnectionStep ==
  ASSUME IInv, NEW n \in 0 .. MaxConnections - 1, NEW from \in {"Init", "TryOpen"},
         OpenConnection(n, from)
  PROVE  Good
<1> DEFINE old == connection_end(store, n)
           end == [old EXCEPT !.state = "Open"]
<1>1. /\ HasConnection(store, n) /\ old.state = from
      /\ store' = store_connection(store, n, end) /\ seen' = seen
  BY DEF OpenConnection, deliver
<1>2. IsConnection(old)
  BY <1>1, StoredConnection
<1> HIDE DEF old
<1>3. end = [state |-> "Open", client |-> old.client, delay |-> old.delay]
  BY <1>2 DEF IsConnection
<1> HIDE DEF end
<1>4. IsConnection(end) /\ end.client = old.client /\ end.state = "Open"
  BY <1>3 DEF IsConnection
<1>5. Rank[end.state] >= Rank[old.state]
  BY <1>1, <1>4, Ranks
<1> QED
  BY <1>1, <1>4, <1>5, ConnectionChanged DEF old

LEMMA DelayStep ==
  ASSUME IInv, NEW n \in 0 .. MaxConnections - 1, NEW delay,
         update_connection_delay_period(n, delay)
  PROVE  Good
<1> DEFINE old == connection_end(store, n)
           end == [old EXCEPT !.delay = delay]
<1>1. /\ HasConnection(store, n)
      /\ store' = store_connection(store, n, end) /\ seen' = seen
  BY DEF update_connection_delay_period
<1>2. IsConnection(old)
  BY <1>1, StoredConnection
<1> HIDE DEF old
<1>3. end = [state |-> old.state, client |-> old.client, delay |-> delay]
  BY <1>2 DEF IsConnection
<1> HIDE DEF end
<1>4. IsConnection(end) /\ end.client = old.client /\ end.state = old.state
  BY <1>2, <1>3 DEF IsConnection
<1>5. Rank[end.state] >= Rank[old.state]
  BY <1>2, <1>4, Ranks DEF IsConnection
<1> QED
  BY <1>1, <1>4, <1>5, ConnectionChanged DEF old

LEMMA StoredChannel ==
  ASSUME IInv, NEW pc, HasChannel(store, pc)
  PROVE  /\ pc \in DOMAIN store.port_channel /\ pc \in PKs
         /\ PortChannel(store, pc) = store.port_channel[pc]
         /\ IsPortChannel(store.port_channel[pc])
<1>1. pc \in DOMAIN store.port_channel
  BY DEF HasChannel, PortChannel, NewPortChannel
<1> QED
  BY <1>1 DEF IInv, StoreInv, ArePortChannels, PortChannel

LEMMA MoveChannelStep ==
  ASSUME IInv, NEW pc, NEW from, NEW to \in {"Open", "Closed"}, MoveChannel(pc, from, to),
         \A s \in from : s \in {"Init", "TryOpen", "Open"} /\ Rank[to] > Rank[s]
  PROVE  Good
<1> DEFINE old == store.port_channel[pc]
           end == [old.end EXCEPT !.state = to]
           new == [end |-> end, next_sequence |-> old.next_sequence]
<1>1. StoreInv(store, seen) /\ Complete(store) /\ HasChannel(store, pc) /\ seen' = seen
  BY DEF IInv, MoveChannel
<1>2. /\ pc \in DOMAIN store.port_channel /\ pc \in PKs
      /\ PortChannel(store, pc) = old /\ IsPortChannel(old)
  BY <1>1, StoredChannel
<1>3. store' = store_channel(store, pc, end) /\ old.end.state \in from
  BY <1>2 DEF MoveChannel, deliver, channel_end
<1> HIDE DEF old
<1>4. IsEnd(old.end)
  BY <1>2 DEF IsPortChannel
<1>5. end = [state |-> to, connection |-> old.end.connection]
  BY <1>4 DEF IsEnd
<1> HIDE DEF end
<1>6. IsEnd(end) /\ end.state = to /\ end.connection = old.end.connection
  BY <1>5 DEF IsEnd
<1>7. StoreInv(store', seen)
  BY <1>1, <1>2, <1>3, <1>6, ChannelKeeps
<1>8. /\ WithChannels(store, store')
      /\ Written(store.port_channel, store'.port_channel, pc, new)
      /\ Written(store.trie, store'.trie, for_channel_end(pc), digest(end))
  BY <1>1, <1>2, <1>3, ChannelWrites DEF StoreInv
<1>9. /\ store'.clients = store.clients /\ store'.connections = store.connections
      /\ store'.channel_counter = store.channel_counter
  BY <1>8 DEF WithChannels
<1>10. new.end = end /\ new.next_sequence = old.next_sequence
  OBVIOUS
<1> HIDE DEF new
<1>11. DOMAIN store'.port_channel = DOMAIN store.port_channel
  BY <1>2, <1>8 DEF Written
<1>12. DOMAIN store.trie \subseteq DOMAIN store'.trie
  BY <1>8 DEF Written
<1>13. Complete(store')
  BY <1>1, <1>9, <1>11, <1>12 DEF Complete
<1>14. ChannelKept(old, new)
  <2>1. \A k \in 1 .. 3 : new.next_sequence[k] >= old.next_sequence[k]
    BY <1>2, <1>10, SameChannel DEF ChannelKept
  <2>2. Rank[new.end.state] > Rank[old.end.state]
    BY <1>3, <1>6, <1>10
  <2> QED
    BY <1>6, <1>10, <2>1, <2>2 DEF ChannelKept
<1>15. ChannelsKept(store.port_channel, store'.port_channel)
  <2>1. ChannelsKept(store.port_channel, store.port_channel)
    BY <1>1, SameChannels DEF StoreInv
  <2> QED
    BY <1>8, <1>14, <2>1 DEF ChannelsKept, Written, old
<1>16. SameBut(store.trie, store'.trie, 0 .. 4)
  <2>1. SameBut(store.trie, store'.trie, {3})
    BY <1>2, <1>8, WrittenElsewhere, ElsewhereBut, KeyTags
  <2> QED
    BY <2>1, FewerTags, {3} \subseteq 0 .. 4
<1>17. Advances(store, store')
  BY <1>1, <1>9, <1>15, <1>16, SameClients, SameConnections, SamePackets DEF Advances, StoreInv
<1> QED
  BY <1>1, <1>7, <1>13, <1>17 DEF Good

(* The next number of a channel is stored.                                 *)
LEMMA SequenceStored ==
  ASSUME NEW st, NEW accepted, StoreInv(st, accepted), NEW pc \in DOMAIN st.port_channel,
         NEW kind \in 1 .. 3, NEW seq \in Nat,
         st.port_channel[pc].next_sequence[kind] <= seq
  PROVE  LET r      == store_next_sequence(st, pc, kind, seq)
             triple == SetSequence(st.port_channel[pc].next_sequence, kind, seq)
         IN  /\ StoreInv(r, accepted) /\ WithChannels(st, r)
             /\ Written(st.port_channel, r.port_channel, pc,
                        [end |-> st.port_channel[pc].end, next_sequence |-> triple])
             /\ Written(st.trie, r.trie, for_next_sequence(pc), SequenceHash(triple))
             /\ SameBut(st.trie, r.trie, 0 .. 4)
<1> DEFINE r      == store_next_sequence(st, pc, kind, seq)
           triple == SetSequence(st.port_channel[pc].next_sequence, kind, seq)
<1>1. StoreInv(r, accepted)
  BY SequenceKeeps
<1>2. PortChannel(st, pc) = st.port_channel[pc] /\ pc \in PKs
  BY DEF PortChannel, StoreInv, ArePortChannels
<1>3. /\ WithChannels(st, r)
      /\ Written(st.port_channel, r.port_channel, pc,
                 [end |-> st.port_channel[pc].end, next_sequence |-> triple])
      /\ Written(st.trie, r.trie, for_next_sequence(pc), SequenceHash(triple))
  BY <1>2, SequenceWrites DEF StoreInv
<1> HIDE DEF r, triple
<1>4. SameBut(st.trie, r.trie, 0 .. 4)
  <2>1. SameBut(st.trie, r.trie, {4})
    BY <1>2, <1>3, WrittenElsewhere, ElsewhereBut, KeyTags
  <2> QED
    BY <2>1, FewerTags, {4} \subseteq 0 .. 4
<1> QED
  BY <1>1, <1>3, <1>4 DEF r, triple

(* A message about one channel that is new.                                *)
LEMMA OnlyNewChannel ==
  ASSUME NEW st, NEW r, NEW accepted, StoreInv(st, accepted), Complete(st), NEW new,
         r.clients = st.clients, r.connections = st.connections,
         r.channel_counter = st.channel_counter + 1,
         Written(st.port_channel, r.port_channel, <<Transfer, st.channel_counter>>, new),
         DOMAIN st.trie \subseteq DOMAIN r.trie, SameBut(st.trie, r.trie, 0 .. 4),
         for_next_sequence(<<Transfer, st.channel_counter>>) \in DOMAIN r.trie
  PROVE  Complete(r) /\ Advances(st, r)
<1> DEFINE n  == st.channel_counter
           pc == <<Transfer, n>>
<1>1. n \in Nat /\ DOMAIN st.port_channel = {<<Transfer, m>> : m \in 0 .. n - 1}
  BY DEF StoreInv, Complete
<1>2. pc \notin DOMAIN st.port_channel
  BY <1>1
<1>3. DOMAIN r.port_channel = {<<Transfer, m>> : m \in 0 .. r.channel_counter - 1}
  <2>1. DOMAIN r.port_channel = {<<Transfer, m>> : m \in 0 .. n - 1} \cup {<<Transfer, n>>}
    BY <1>1 DEF Written
  <2>2. 0 .. (n + 1) - 1 = (0 .. n - 1) \cup {n}
    BY <1>1
  <2> HIDE DEF n
  <2>3. {<<Transfer, m>> : m \in 0 .. n - 1} \cup {<<Transfer, n>>}
          = {<<Transfer, m>> : m \in 0 .. (n + 1) - 1}
    BY <2>2
  <2> QED
    BY <2>1, <2>3 DEF n
<1> HIDE DEF pc, n
<1>4. Complete(r)
  <2>1. \A pd \in DOMAIN r.port_channel : for_next_sequence(pd) \in DOMAIN r.trie
    BY DEF Complete, Written, pc, n
  <2> QED
    BY <1>3, <2>1 DEF Complete
<1>5. ChannelsKept(st.port_channel, r.port_channel)
  <2>1. ChannelsKept(st.port_channel, st.port_channel)
    BY SameChannels DEF StoreInv
  <2> QED
    BY <1>2, <2>1 DEF ChannelsKept, Written, pc, n
<1>6. Advances(st, r)
  BY <1>5, SameClients, SameConnections, SamePackets DEF Advances, StoreInv
<1> QED
  BY <1>4, <1>6

LEMMA NewChannelStep ==
  ASSUME IInv, NEW idx, NEW state \in {"Init", "TryOpen"}, NewChannel(idx, state)
  PROVE  Good
<1> DEFINE n   == store.channel_counter
           pc  == <<Transfer, n>>
           end == [state |-> state, connection |-> idx]
           s0  == store_channel(store, pc, end)
           si  == increase_channel_counter(s0)
           s1  == store_next_sequence(si, pc, 1, 1)
           s2  == store_next_sequence(s1, pc, 2, 1)
           s3  == store_next_sequence(s2, pc, 3, 1)
<1>1. StoreInv(store, seen) /\ Complete(store) /\ seen' = seen
  BY DEF IInv, NewChannel
<1>2. store' = s3
  <2>1. SequenceKind.SeqSend = 1 /\ SequenceKind.SeqRecv = 2 /\ SequenceKind.SeqAck = 3
    BY DEF SequenceKind
  <2> QED
    BY <2>1 DEF NewChannel, deliver, PortChannelPK, channel_counter
<1>3. /\ n \in Nat /\ DOMAIN store.port_channel = {<<Transfer, m>> : m \in 0 .. n - 1}
  BY <1>1 DEF StoreInv, Complete
<1>4. pc \notin DOMAIN store.port_channel /\ pc \in PKs
  BY <1>3, IbcHostAssumption DEF PKs
<1>5. IsEnd(end)
  BY DEF IsEnd
<1> HIDE DEF pc, s0, end
<1>6. StoreInv(s0, seen)
  BY <1>1, <1>4, <1>5, ChannelKeeps DEF s0
<1> DEFINE p0 == [end |-> end, next_sequence |-> <<0, 0, 0>>]
<1>7. /\ WithChannels(store, s0)
      /\ Written(store.port_channel, s0.port_channel, pc, p0)
      /\ Written(store.trie, s0.trie, for_channel_end(pc), digest(end))
  <2>1. PortChannel(store, pc).next_sequence = <<0, 0, 0>>
    BY <1>4 DEF PortChannel, NewPortChannel
  <2> QED
    BY <1>1, <2>1, ChannelWrites DEF StoreInv, s0
<1>8. SameBut(store.trie, s0.trie, 0 .. 4)
  <2>1. SameBut(store.trie, s0.trie, {3})
    BY <1>4, <1>7, WrittenElsewhere, ElsewhereBut, KeyTags
  <2> QED
    BY <2>1, FewerTags, {3} \subseteq 0 .. 4
<1> HIDE DEF si
<1>9. /\ StoreInv(si, seen)
      /\ si = [clients |-> s0.clients, connections |-> s0.connections,
               port_channel |-> s0.port_channel,
               channel_counter |-> s0.channel_counter + 1, trie |-> s0.trie]
  BY <1>6, CounterKeeps DEF si
<1>10. /\ si.clients = store.clients /\ si.connections = store.connections
       /\ si.channel_counter = n + 1 /\ si.port_channel = s0.port_channel
       /\ si.trie = s0.trie
  BY <1>7, <1>9 DEF WithChannels
<1>11. p0.end = end /\ p0.next_sequence = <<0, 0, 0>>
  OBVIOUS
<1> HIDE DEF p0, n
<1>12. pc \in DOMAIN si.port_channel /\ si.port_channel[pc] = p0
  BY <1>7, <1>10 DEF Written
<1> DEFINE t0 == <<0, 0, 0>>
           t1 == SetSequence(t0, 1, 1)
           t2 == SetSequence(t1, 2, 1)
           t3 == SetSequence(t2, 3, 1)
<1>13. /\ t0[1] = 0 /\ t1[2] = 0 /\ t2[3] = 0
  <2>1. t0 \in [1 .. 3 -> Nat] /\ t0[1] = 0 /\ t0[2] = 0 /\ t0[3] = 0
    OBVIOUS
  <2> HIDE DEF t0
  <2>2. t1 \in [1 .. 3 -> Nat] /\ t1[2] = 0 /\ t1[3] = 0
    BY <2>1, TripleFacts, 1 \in 1 .. 3, 2 \in 1 .. 3, 3 \in 1 .. 3, SMTT(30)
  <2> HIDE DEF t1
  <2>3. t2[3] = 0
    BY <2>2, TripleFacts
  <2> QED
    BY <2>1, <2>2, <2>3
<1> HIDE DEF t0, t1, t2, t3
<1> DEFINE p1 == [end |-> end, next_sequence |-> t1]
           p2 == [end |-> end, next_sequence |-> t2]
           p3 == [end |-> end, next_sequence |-> t3]
<1> HIDE DEF s1, s2, s3
<1>14. /\ StoreInv(s1, seen) /\ WithChannels(si, s1)
       /\ Written(si.port_channel, s1.port_channel, pc, p1)
       /\ Written(si.trie, s1.trie, for_next_sequence(pc), SequenceHash(t1))
       /\ SameBut(si.trie, s1.trie, 0 .. 4)
  <2>1. si.port_channel[pc].next_sequence = t0 /\ si.port_channel[pc].end = end
    BY <1>11, <1>12 DEF t0
  <2>2. si.port_channel[pc].next_sequence[1] <= 1
    BY <1>13, <2>1
  <2> QED
    BY <1>9, <1>12, <2>1, <2>2, 1 \in 1 .. 3, 1 \in Nat, SequenceStored DEF s1, t1
<1>15. /\ pc \in DOMAIN s1.port_channel /\ s1.port_channel[pc].end = end
       /\ s1.port_channel[pc].next_sequence = t1
  BY <1>14 DEF Written
<1>16. /\ StoreInv(s2, seen) /\ WithChannels(s1, s2)
       /\ Written(s1.port_channel, s2.port_channel, pc, p2)
       /\ Written(s1.trie, s2.trie, for_next_sequence(pc), SequenceHash(t2))
       /\ SameBut(s1.trie, s2.trie, 0 .. 4)
  <2>1. s1.port_channel[pc].next_sequence[2] <= 1
    BY <1>13, <1>15
  <2> QED
    BY <1>14, <1>15, <2>1, 2 \in 1 .. 3, 1 \in Nat, SequenceStored DEF s2, t2
<1>17. /\ pc \in DOMAIN s2.port_channel /\ s2.port_channel[pc].end = end
       /\ s2.port_channel[pc].next_sequence = t2
  BY <1>16 DEF Written
<1>18. /\ StoreInv(s3, seen) /\ WithChannels(s2, s3)
       /\ Written(s2.port_channel, s3.port_channel, pc, p3)
       /\ Written(s2.trie, s3.trie, for_next_sequence(pc), SequenceHash(t3))
       /\ SameBut(s2.trie, s3.trie, 0 .. 4)
  <2>1. s2.port_channel[pc].next_sequence[3] <= 1
    BY <1>13, <1>17
  <2> QED
    BY <1>16, <1>17, <2>1, 3 \in 1 .. 3, 1 \in Nat, SequenceStored DEF s3, t3
<1> HIDE DEF p1, p2, p3
<1>19. Written(store.port_channel, s3.port_channel, pc, p3)
  <2>1. Written(store.port_channel, s1.port_channel, pc, p1)
    BY <1>7, <1>10, <1>14, WrittenTwice
  <2>2. Written(store.port_channel, s2.port_channel, pc, p2)
    BY <1>16, <2>1, WrittenTwice
  <2> QED
    BY <1>18, <2>2, WrittenTwice
<1>20. /\ s3.clients = store.clients /\ s3.connections = store.connections
       /\ s3.channel_counter = n + 1
  <2>1. s1.clients = si.clients /\ s1.connections = si.connections
          /\ s1.channel_counter = si.channel_counter
    BY <1>14 DEF WithChannels
  <2>2. s2.clients = s1.clients /\ s2.connections = s1.connections
          /\ s2.channel_counter = s1.channel_counter
    BY <1>16 DEF WithChannels
  <2>3. s3.clients = s2.clients /\ s3.connections = s2.connections
          /\ s3.channel_counter = s2.channel_counter
    BY <1>18 DEF WithChannels
  <2> QED
    BY <1>10, <2>1, <2>2, <2>3
<1>21. DOMAIN store.trie \subseteq DOMAIN s3.trie /\ for_next_sequence(pc) \in DOMAIN s3.trie
  BY <1>7, <1>10, <1>14, <1>16, <1>18 DEF Written
<1>22. SameBut(store.trie, s3.trie, 0 .. 4)
  <2>1. SameBut(store.trie, s1.trie, 0 .. 4)
    BY <1>8, <1>10, <1>14, SameButTwice
  <2>2. SameBut(store.trie, s2.trie, 0 .. 4)
    BY <1>16, <2>1, SameButTwice
  <2> QED
    BY <1>18, <2>2, SameButTwice
<1>23. Complete(s3) /\ Advances(store, s3)
  BY <1>1, <1>19, <1>20, <1>21, <1>22, OnlyNewChannel DEF pc, n
<1> QED
  BY <1>1, <1>2, <1>18, <1>23 DEF Good

(* A message about packets of channels that exist: their numbers and their *)
(* entries.                                                                *)
LEMMA OnlyPackets ==
  ASSUME NEW st, NEW r, NEW accepted, StoreInv(st, accepted), Complete(st),
         WithTrie(st, r), DOMAIN st.trie \ DOMAIN r.trie \subseteq
           {for_sequence_path(Tag.Commitment, pc, n) : pc \in PKs, n \in Nat},
         PacketsKept(st, r)
  PROVE  Complete(r) /\ Advances(st, r)
<1>1. /\ r.clients = st.clients /\ r.connections = st.connections
      /\ r.port_channel = st.port_channel /\ r.channel_counter = st.channel_counter
  BY DEF WithTrie
<1>2. ASSUME NEW pc \in DOMAIN st.port_channel
      PROVE  for_next_sequence(pc) \in DOMAIN r.trie
  <2>1. pc \in PKs /\ for_next_sequence(pc) \in DOMAIN st.trie
    BY DEF StoreInv, ArePortChannels, Complete
  <2>2. ASSUME NEW pd \in PKs, NEW n \in Nat
        PROVE  for_next_sequence(pc) # for_sequence_path(Tag.Commitment, pd, n)
    BY <2>1, KeyTags, Tags
  <2> QED
    BY <2>1, <2>2
<1>3. Complete(r)
  BY <1>1, <1>2 DEF Complete
<1>4. Advances(st, r)
  BY <1>1, SameClients, SameConnections, SameChannels DEF Advances, StoreInv
<1> QED
  BY <1>3, <1>4

(* Receipts and acknowledgements are added.                                *)
LEMMA NewEntry ==
  ASSUME NEW f, NEW g, NEW key, NEW hash, Written(f, g, key, hash), key \notin DOMAIN f
  PROVE  EntriesKept(f, g)
BY DEF EntriesKept, Written

LEMMA SameCommitments ==
  ASSUME NEW st, NEW r, SameBut(st.trie, r.trie, {6, 7}), EntriesKept(st.trie, r.trie)
  PROVE  PacketsKept(st, r)
<1>1. ASSUME NEW pc \in PKs, NEW n \in Nat
      PROVE  CommitmentKept(st, r, pc, n)
  <2> DEFINE k == for_sequence_path(Tag.Commitment, pc, n)
  <2>1. k[1] \notin {6, 7}
    BY KeyTags, Tags
  <2> HIDE DEF k
  <2>2. TrieGet(r, k) = TrieGet(st, k)
    BY <2>1 DEF TrieGet, SameBut
  <2> QED
    BY <2>2 DEF CommitmentKept, get_packet_commitment, k
<1> QED
  BY <1>1 DEF PacketsKept

LEMMA SendPacketStep ==
  ASSUME IInv, NEW pc, NEW hash \in Hashes, SendPacket(pc, hash)
  PROVE  Good
<1> DEFINE old == store.port_channel[pc]
           seq == old.next_sequence[1]
           s1  == store_next_sequence(store, pc, 1, seq + 1)
           s2  == store_packet_commitment(s1, pc, seq, hash)
           key == for_sequence_path(Tag.Commitment, pc, seq)
<1>1. StoreInv(store, seen) /\ Complete(store) /\ seen' = seen /\ HasChannel(store, pc)
  BY DEF IInv, SendPacket, OpenChannel
<1>2. /\ pc \in DOMAIN store.port_channel /\ pc \in PKs
      /\ PortChannel(store, pc) = old /\ IsPortChannel(old)
  BY <1>1, StoredChannel
<1>3. SequenceKind.SeqSend = 1
  BY DEF SequenceKind
<1>4. store' = s2
  BY <1>2, <1>3 DEF SendPacket, deliver, get_next_sequence
<1>5. seq \in Nat /\ old.next_sequence \in [1 .. 3 -> Nat]
  BY <1>2 DEF IsPortChannel
<1> DEFINE triple == SetSequence(old.next_sequence, 1, seq + 1)
           new    == [end |-> old.end, next_sequence |-> triple]
<1> HIDE DEF s1, s2, seq
<1>6. /\ StoreInv(s1, seen) /\ WithChannels(store, s1)
      /\ Written(store.port_channel, s1.port_channel, pc, new)
      /\ Written(store.trie, s1.trie, for_next_sequence(pc), SequenceHash(triple))
      /\ SameBut(store.trie, s1.trie, 0 .. 4)
  <2>1. old.next_sequence[1] <= seq + 1
    BY <1>5 DEF seq
  <2> QED
    BY <1>1, <1>2, <1>5, <2>1, 1 \in 1 .. 3, seq + 1 \in Nat, SequenceStored DEF s1
<1>7. /\ triple[1] = seq + 1
      /\ \A k \in 1 .. 3 : k # 1 => triple[k] = old.next_sequence[k]
  <2>1. PICK t \in [1 .. 3 -> Nat] : t = old.next_sequence
    BY <1>5
  <2>2. PICK m \in Nat : m = seq + 1
    BY <1>5
  <2>3. /\ SetSequence(t, 1, m)[1] = m
        /\ \A k \in 1 .. 3 : k # 1 => SetSequence(t, 1, m)[k] = t[k]
    BY DEF SetSequence
  <2> QED
    BY <2>1, <2>2, <2>3
<1> HIDE DEF triple
<1>8. new.end = old.end /\ new.next_sequence = triple
  OBVIOUS
<1> HIDE DEF new
<1>9. pc \in DOMAIN s1.port_channel /\ s1.port_channel[pc] = new
  BY <1>6 DEF Written
<1>10. seq < s1.port_channel[pc].next_sequence[1]
  BY <1>5, <1>7, <1>8, <1>9
<1> HIDE DEF old
<1>11. /\ WithTrie(s1, s2) /\ StoreInv(s2, seen)
       /\ Written(s1.trie, s2.trie, key, hash)
  BY <1>5, <1>6, <1>9, <1>10, CommitmentKeeps DEF s2
<1>12. /\ s2.clients = store.clients /\ s2.connections = store.connections
       /\ s2.port_channel = s1.port_channel /\ s2.channel_counter = store.channel_counter
  BY <1>6, <1>11 DEF WithTrie, WithChannels
<1>13. DOMAIN store.trie \subseteq DOMAIN s2.trie
  BY <1>6, <1>11 DEF Written
<1>14. DOMAIN s2.port_channel = DOMAIN store.port_channel
  BY <1>2, <1>6, <1>12 DEF Written
<1>15. Complete(s2)
  BY <1>1, <1>12, <1>13, <1>14 DEF Complete
<1>16. ChannelsKept(store.port_channel, s2.port_channel)
  <2>1. ChannelsKept(store.port_channel, store.port_channel)
    BY <1>1, SameChannels DEF StoreInv
  <2>2. ChannelKept(old, new)
    <3>1. \A k \in 1 .. 3 : old.next_sequence[k] \in Nat
      BY <1>5
    <3>2. \A k \in 1 .. 3 : triple[k] >= old.next_sequence[k]
      <4>1. triple[1] >= old.next_sequence[1]
        BY <1>5, <1>7 DEF seq
      <4> QED
        BY <1>7, <3>1, <4>1
    <3> QED
      BY <1>8, <3>2 DEF ChannelKept
  <2> QED
    BY <1>6, <1>12, <2>1, <2>2 DEF ChannelsKept, Written, old
<1>17. key \notin DOMAIN store.trie
  <2>1. ~(seq < store.port_channel[pc].next_sequence[1])
    BY <1>5 DEF seq, old
  <2> QED
    BY <1>1, <1>2, <1>5, <2>1 DEF StoreInv, CommitmentEntries
<1>18. PacketsKept(store, s2)
  <2>1. ASSUME NEW pd \in PKs, NEW n \in Nat
        PROVE  CommitmentKept(store, s2, pd, n)
    <3> DEFINE k == for_sequence_path(Tag.Commitment, pd, n)
    <3>1. CASE k = key
      <4>1. pd = pc /\ n = seq
        BY <1>2, <3>1, KeysAreExact
      <4>2. get_packet_commitment(store, pd, n) = NoHash
        BY <1>17, <4>1 DEF get_packet_commitment, TrieGet
      <4>3. get_next_sequence(store, pd, SequenceKind.SeqSend) = seq
        BY <1>2, <1>3, <4>1 DEF get_next_sequence, seq
      <4>4. get_next_sequence(s2, pd, SequenceKind.SeqSend) = seq + 1
        BY <1>3, <1>7, <1>8, <1>9, <1>12, <4>1 DEF get_next_sequence, PortChannel
      <4>5. n < seq + 1
        BY <1>5, <4>1
      <4> QED
        BY <4>1, <4>2, <4>3, <4>4, <4>5 DEF CommitmentKept
    <3>2. CASE k # key
      <4>1. k[1] = 5 /\ k[1] \notin 0 .. 4
        BY KeyTags, Tags
      <4> HIDE DEF k, key
      <4>2. /\ k \in DOMAIN s2.trie <=> k \in DOMAIN store.trie
            /\ k \in DOMAIN store.trie => s2.trie[k] = store.trie[k]
        BY <1>6, <1>11, <3>2, <4>1 DEF SameBut, Written
      <4>3. TrieGet(s2, k) = TrieGet(store, k)
        BY <4>2 DEF TrieGet
      <4> QED
        BY <4>3 DEF CommitmentKept, get_packet_commitment, k
    <3> QED
      BY <3>1, <3>2
  <2>2. EntriesKept(store.trie, s2.trie)
    <3>1. key[1] = 5
      BY <1>2, KeyTags, Tags
    <3> HIDE DEF key
    <3> QED
      BY <1>6, <1>11, <3>1 DEF EntriesKept, SameBut, Written
  <2> QED
    BY <2>1, <2>2 DEF PacketsKept
<1>19. Advances(store, s2)
  BY <1>1, <1>12, <1>16, <1>18, SameClients, SameConnections DEF Advances, StoreInv
<1> QED
  BY <1>1, <1>4, <1>11, <1>15, <1>19 DEF Good

LEMMA RecvPacketStep ==
  ASSUME IInv, NEW pc, NEW seq \in Nat, NEW ack, RecvPacket(pc, seq, ack)
  PROVE  Good
<1> DEFINE kr == for_sequence_path(Tag.Receipt, pc, seq)
           ka == for_sequence_path(Tag.Ack, pc, seq)
           s1 == store_packet_receipt(store, pc, seq)
           s2 == store_packet_acknowledgement(s1, pc, seq, ack)
<1>1. StoreInv(store, seen) /\ Complete(store) /\ seen' = seen /\ HasChannel(store, pc)
  BY DEF IInv, RecvPacket, OpenChannel
<1>2. pc \in PKs
  BY <1>1, StoredChannel
<1>3. CASE get_packet_receipt(store, pc, seq)
  <2>1. store' = store
    BY <1>3 DEF RecvPacket, deliver
  <2> QED
    BY <1>1, <2>1, SameStore DEF Good
<1>4. CASE ~get_packet_receipt(store, pc, seq)
  <2>1. store' = s2
    BY <1>4 DEF RecvPacket, deliver
  <2>2. kr \notin DOMAIN store.trie /\ ka \notin DOMAIN store.trie
    <3>1. /\ kr \in DOMAIN store.trie => store.trie[kr] = DefaultHash
          /\ ka \in DOMAIN store.trie => kr \in DOMAIN store.trie
      BY <1>1, <1>2 DEF StoreInv, ReceiptEntries
    <3>2. ~(kr \in DOMAIN store.trie /\ store.trie[kr] = DefaultHash)
      BY <1>4 DEF get_packet_receipt, TrieGet
    <3> QED
      BY <3>1, <3>2
  <2> HIDE DEF s2
  <2>3. /\ WithTrie(store, s1) /\ StoreInv(s1, seen)
        /\ Written(store.trie, s1.trie, kr, DefaultHash)
    BY <1>1, <1>2, ReceiptKeeps
  <2> HIDE DEF s1
  <2>4. kr \in DOMAIN s1.trie
    BY <2>3 DEF Written
  <2>5. /\ WithTrie(s1, s2) /\ StoreInv(s2, seen)
        /\ Written(s1.trie, s2.trie, ka, ack)
    BY <1>2, <2>3, <2>4, AcknowledgementKeeps DEF s2
  <2>6. kr[1] = 6 /\ ka[1] = 7 /\ kr # ka
    BY <1>2, KeyTags, Tags
  <2> HIDE DEF kr, ka
  <2>7. ka \notin DOMAIN s1.trie
    BY <2>2, <2>3, <2>6 DEF Written
  <2>8. EntriesKept(store.trie, s2.trie)
    <3>1. EntriesKept(store.trie, s1.trie) /\ EntriesKept(s1.trie, s2.trie)
      BY <2>2, <2>3, <2>5, <2>7, NewEntry
    <3> QED
      BY <3>1 DEF EntriesKept
  <2>9. SameBut(store.trie, s2.trie, {6, 7})
    <3>1. SameBut(store.trie, s1.trie, {6, 7}) /\ SameBut(s1.trie, s2.trie, {6, 7})
      BY <2>3, <2>5, <2>6, WrittenElsewhere, ElsewhereBut
    <3> QED
      BY <3>1, SameButTwice
  <2>10. WithTrie(store, s2)
    BY <2>3, <2>5 DEF WithTrie
  <2>11. DOMAIN store.trie \ DOMAIN s2.trie = {}
    BY <2>3, <2>5 DEF Written
  <2>12. PacketsKept(store, s2)
    BY <2>8, <2>9, SameCommitments
  <2>13. Complete(s2) /\ Advances(store, s2)
    BY <1>1, <2>10, <2>11, <2>12, OnlyPackets
  <2> QED
    BY <1>1, <2>1, <2>5, <2>13 DEF Good
<1> QED
  BY <1>3, <1>4

LEMMA EndPacketStep ==
  ASSUME IInv, NEW pc, NEW seq \in Nat, NEW hash, EndPacket(pc, seq, hash)
  PROVE  Good
<1> DEFINE key == for_sequence_path(Tag.Commitment, pc, seq)
<1>1. /\ StoreInv(store, seen) /\ Complete(store) /\ seen' = seen /\ HasChannel(store, pc)
      /\ store' = delete_packet_commitment(store, pc, seq)
  BY DEF IInv, EndPacket, OpenChannel, deliver
<1>2. pc \in PKs
  BY <1>1, StoredChannel
<1>3. /\ WithTrie(store, store') /\ StoreInv(store', seen)
      /\ SameElsewhere(store.trie, store'.trie, key) /\ key \notin DOMAIN store'.trie
  BY <1>1, <1>2, DeletionKeeps
<1>4. key[1] = 5
  BY <1>2, KeyTags, Tags
<1>5. DOMAIN store.trie \ DOMAIN store'.trie \subseteq
        {for_sequence_path(Tag.Commitment, pd, n) : pd \in PKs, n \in Nat}
  <2>1. key \in {for_sequence_path(Tag.Commitment, pd, n) : pd \in PKs, n \in Nat}
    BY <1>2
  <2> HIDE DEF key
  <2> QED
    BY <1>3, <2>1 DEF SameElsewhere
<1>6. PacketsKept(store, store')
  <2>1. ASSUME NEW pd \in PKs, NEW n \in Nat
        PROVE  CommitmentKept(store, store', pd, n)
    <3> DEFINE k == for_sequence_path(Tag.Commitment, pd, n)
    <3>1. CASE k = key
      BY <1>3, <3>1 DEF CommitmentKept, get_packet_commitment, TrieGet
    <3>2. CASE k # key
      <4> HIDE DEF k, key
      <4>1. TrieGet(store', k) = TrieGet(store, k)
        BY <1>3, <3>2 DEF TrieGet, SameElsewhere
      <4> QED
        BY <4>1 DEF CommitmentKept, get_packet_commitment, k
    <3> QED
      BY <3>1, <3>2
  <2>2. EntriesKept(store.trie, store'.trie)
    <3> HIDE DEF key
    <3> QED
      BY <1>3, <1>4 DEF EntriesKept, SameElsewhere
  <2> QED
    BY <2>1, <2>2 DEF PacketsKept
<1>7. Complete(store') /\ Advances(store, store')
  BY <1>1, <1>3, <1>5, <1>6, OnlyPackets
<1> QED
  BY <1>1, <1>3, <1>7 DEF Good

-----------------------------------------------------------------------------
(* The invariant is inductive, and every message advances the storage.     *)

LEMMA InitInv ==
  ASSUME Init
  PROVE  IInv
<1> DEFINE e == EmptyStore
<1>1. /\ e.clients = <<>> /\ e.connections = <<>> /\ e.port_channel = <<>>
      /\ e.channel_counter = 0 /\ e.trie = <<>> /\ IsStore(e)
  BY DEF EmptyStore, IsStore
<1>2. DOMAIN <<>> = {} /\ IsSeq(<<>>) /\ Len(<<>>) = 0
  <2>1. <<>> \in Seq({}) /\ Len(<<>>) = 0 /\ DOMAIN <<>> = {}
    OBVIOUS
  <2>2. IsSeq(<<>>)
    BY <2>1, IsSeqOf
  <2> QED
    BY <2>1, <2>2
<1> HIDE DEF e
<1>3. StoreInv(e, {})
  <2>1. AreClients(<<>>) /\ AreConnections(<<>>) /\ ArePortChannels(<<>>)
    BY <1>2 DEF AreClients, AreConnections, ArePortChannels
  <2>2. /\ ClientEntries(<<>>, <<>>) /\ ConnectionEntries(<<>>, <<>>)
        /\ ChannelEntries(<<>>, <<>>) /\ SequenceEntries(<<>>, <<>>)
        /\ CommitmentEntries(<<>>, <<>>) /\ ReceiptEntries(<<>>)
    BY <1>2 DEF ClientEntries, ConnectionEntries, ChannelEntries, SequenceEntries,
                CommitmentEntries, ReceiptEntries
  <2>3. StateEntries(<<>>, <<>>, {})
    BY <1>2 DEF StateEntries, StateEntry, HeldEntry
  <2> QED
    BY <1>1, <2>1, <2>2, <2>3 DEF StoreInv
<1>4. Complete(e)
  <2>1. MaxConnections \in Nat
    BY IbcHostAssumption, TrieKeysAssumption
  <2>2. 0 .. 0 - 1 = {}
    OBVIOUS
  <2> QED
    BY <1>1, <1>2, <2>1, <2>2 DEF Complete
<1>5. head.block_height \in 1 .. MaxHead
  BY IbcHostAssumption DEF Init
<1> QED
  BY <1>3, <1>4, <1>5 DEF Init, IInv, e

LEMMA HeadStep ==
  ASSUME IInv, from_ctx
  PROVE  head'.block_height \in 1 .. MaxHead
<1>1. head.block_height \in 1 .. MaxHead /\ MaxHead \in Nat
  BY IbcHostAssumption DEF IInv
<1>2. CASE head' = head
  BY <1>1, <1>2
<1>3. CASE /\ head.block_height < MaxHead
           /\ head' = [block_height |-> head.block_height + 1, timestamp |-> head.timestamp + 1]
  BY <1>1, <1>3
<1> QED
  BY <1>2, <1>3 DEF from_ctx

LEMMA NextStep ==
  ASSUME IInv, Next
  PROVE  Good /\ from_ctx
<1>1. ASSUME NEW type \in ClientTypes, NEW h \in Heights, NEW s \in States,
             CreateClient(type, h, s)
      PROVE  Good /\ from_ctx
  BY <1>1, CreateClientStep DEF CreateClient
<1>2. ASSUME NEW i \in DOMAIN store.clients, NEW h \in Heights, NEW s \in States,
             UpdateClient(store.clients[i].client_id, h, s)
      PROVE  Good /\ from_ctx
  BY <1>2, UpdateClientStep DEF UpdateClient
<1>3. ASSUME NEW i \in DOMAIN store.clients, NEW d \in Delays,
             \/ ConnOpenInit(store.clients[i].client_id, d)
             \/ ConnOpenTry(store.clients[i].client_id, d)
      PROVE  Good /\ from_ctx
  <2>1. PICK state \in {"Init", "TryOpen"} : NewConnection(store.clients[i].client_id, state, d)
    BY <1>3 DEF ConnOpenInit, ConnOpenTry
  <2> QED
    BY <2>1, NewConnectionStep DEF NewConnection
<1>4. ASSUME NEW idx \in 0 .. MaxConnections - 1, ConnOpenAck(idx) \/ ConnOpenConfirm(idx)
      PROVE  Good /\ from_ctx
  <2>1. PICK from \in {"Init", "TryOpen"} : OpenConnection(idx, from)
    BY <1>4 DEF ConnOpenAck, ConnOpenConfirm
  <2> QED
    BY <2>1, OpenConnectionStep DEF OpenConnection
<1>5. ASSUME NEW idx \in 0 .. MaxConnections - 1, NEW d \in Delays,
             update_connection_delay_period(idx, d)
      PROVE  Good /\ from_ctx
  BY <1>5, DelayStep DEF update_connection_delay_period
<1>6. ASSUME NEW idx \in 0 .. MaxConnections - 1, ChanOpenInit(idx) \/ ChanOpenTry(idx)
      PROVE  Good /\ from_ctx
  <2>1. PICK state \in {"Init", "TryOpen"} : NewChannel(idx, state)
    BY <1>6 DEF ChanOpenInit, ChanOpenTry
  <2> QED
    BY <2>1, NewChannelStep DEF NewChannel
<1>7. ASSUME NEW pc \in PortChannels,
             ChanOpenAck(pc) \/ ChanOpenConfirm(pc) \/ ChanCloseConfirm(pc)
      PROVE  Good /\ from_ctx
  <2>1. CASE ChanOpenAck(pc)
    <3> DEFINE from == {"Init"}
    <3>1. MoveChannel(pc, from, "Open")
      BY <2>1 DEF ChanOpenAck
    <3>2. \A s \in from : s \in {"Init", "TryOpen", "Open"} /\ Rank["Open"] > Rank[s]
      BY Ranks
    <3> HIDE DEF from
    <3>3. Good
      BY <3>1, <3>2, "Open" \in {"Open", "Closed"}, MoveChannelStep
    <3> QED
      BY <3>1, <3>3 DEF MoveChannel
  <2>2. CASE ChanOpenConfirm(pc)
    <3> DEFINE from == {"TryOpen"}
    <3>1. MoveChannel(pc, from, "Open")
      BY <2>2 DEF ChanOpenConfirm
    <3>2. \A s \in from : s \in {"Init", "TryOpen", "Open"} /\ Rank["Open"] > Rank[s]
      BY Ranks
    <3> HIDE DEF from
    <3>3. Good
      BY <3>1, <3>2, "Open" \in {"Open", "Closed"}, MoveChannelStep
    <3> QED
      BY <3>1, <3>3 DEF MoveChannel
  <2>3. CASE ChanCloseConfirm(pc)
    <3> DEFINE from == {"Init", "TryOpen", "Open"}
    <3>1. MoveChannel(pc, from, "Closed")
      BY <2>3 DEF ChanCloseConfirm
    <3>2. \A s \in from : s \in {"Init", "TryOpen", "Open"} /\ Rank["Closed"] > Rank[s]
      BY Ranks
    <3> HIDE DEF from
    <3>3. Good
      BY <3>1, <3>2, "Closed" \in {"Open", "Closed"}, MoveChannelStep
    <3> QED
      BY <3>1, <3>3 DEF MoveChannel
  <2> QED
    BY <1>7, <2>1, <2>2, <2>3
<1>8. ASSUME NEW pc \in PortChannels, NEW hash \in Hashes, SendPacket(pc, hash)
      PROVE  Good /\ from_ctx
  BY <1>8, SendPacketStep DEF SendPacket
<1>9. ASSUME NEW pc \in PortChannels, NEW seq \in 1 .. MaxSequence, NEW hash \in Hashes,
             RecvPacket(pc, seq, hash) \/ EndPacket(pc, seq, hash)
      PROVE  Good /\ from_ctx
  <2>1. seq \in Nat
    BY IbcHostAssumption
  <2>2. CASE RecvPacket(pc, seq, hash)
    BY <2>1, <2>2, RecvPacketStep DEF RecvPacket
  <2>3. CASE EndPacket(pc, seq, hash)
    BY <2>1, <2>3, EndPacketStep DEF EndPacket
  <2> QED
    BY <1>9, <2>2, <2>3
<1> QED
  BY <1>1, <1>2, <1>3, <1>4, <1>5, <1>6, <1>7, <1>8, <1>9 DEF Next

LEMMA Inductive ==
  ASSUME IInv, [Next]_vars
  PROVE  IInv'
<1>1. CASE Next
  <2>1. Good /\ head'.block_height \in 1 .. MaxHead
    BY <1>1, NextStep, HeadStep
  <2> QED
    BY <2>1 DEF Good, IInv
<1>2. CASE UNCHANGED vars
  BY <1>2 DEF vars, IInv
<1> QED
  BY <1>1, <1>2

(* The invariant of the storage, between any two messages.                 *)
THEOREM StorageInvariant == Spec => []IInv
<1>1. Init => IInv
  BY InitInv
<1>2. IInv /\ [Next]_vars => IInv'
  BY Inductive
<1> QED
  BY <1>1, <1>2, PTL DEF Spec

-----------------------------------------------------------------------------
(* Records and packets.                                                    *)

LEMMA MetaStays ==
  ASSUME ClientsKept(store.clients, store'.clients)
  PROVE  KeepsMeta
<1> SUFFICES ASSUME NEW id, NEW h, HasConsensusState(store, id, h), HasConsensusState(store', id, h)
             PROVE  update_meta(store', id, h) = update_meta(store, id, h)
  BY DEF KeepsMeta
<1> DEFINE i == Place(ClientIdx(id))
<1>1. /\ i \in DOMAIN store.clients
      /\ h \in DOMAIN store.clients[i].consensus_states
      /\ h \in DOMAIN store'.clients[i].consensus_states
  BY DEF HasConsensusState, HasClient, client
<1> HIDE DEF i
<1>2. store'.clients[i].consensus_states[h] = store.clients[i].consensus_states[h]
  BY <1>1 DEF ClientsKept
<1> QED
  BY <1>2 DEF update_meta, client, i

(* No message replaces a client, a connection or a channel, moves one back *)
(* or changes when a consensus state was stored: store_connection,         *)
(* store_channel and the storing of client and consensus states are only   *)
(* called with what follows the object they find.                          *)
THEOREM RecordsOnlyAdvance == Spec => RecordsAdvance
<1>1. ASSUME IInv, Next PROVE KeepsMeta /\ KeepsObjects
  <2>1. Advances(store, store')
    BY <1>1, NextStep DEF Good
  <2>2. KeepsMeta
    BY <2>1, MetaStays DEF Advances
  <2>3. KeepsObjects
    BY <2>1 DEF Advances, KeepsObjects, ClientsKept, ConnectionsKept, ChannelsKept, ChannelKept
  <2> QED
    BY <2>2, <2>3
<1>2. IInv /\ [Next]_vars => [KeepsMeta /\ KeepsObjects]_vars
  BY <1>1
<1> QED
  BY <1>2, StorageInvariant, PTL DEF Spec, RecordsAdvance

\* What the steps of PacketsHappenOnce do.
PacketsOnce ==
    /\ \A pc \in PortChannels, n \in 1 .. MaxSequence :
         get_packet_commitment(store', pc, n) # get_packet_commitment(store, pc, n) =>
           \/ get_packet_commitment(store', pc, n) = NoHash
           \/ /\ get_packet_commitment(store, pc, n) = NoHash
              /\ n = get_next_sequence(store, pc, SequenceKind.SeqSend)
              /\ n < get_next_sequence(store', pc, SequenceKind.SeqSend)
    /\ \A key \in (Keys("Receipt") \cup Keys("Ack")) \cap DOMAIN store.trie :
         key \in DOMAIN store'.trie /\ store'.trie[key] = store.trie[key]

LEMMA PortChannelsHaveKeys == PortChannels \subseteq PKs
<1>1. ASSUME NEW n \in 0 .. MaxChannels - 1 PROVE <<Transfer, n>> \in PKs
  <2>1. n \in Nat
    BY IbcHostAssumption, TrieKeysAssumption
  <2> QED
    BY <2>1, IbcHostAssumption DEF PKs
<1> QED
  BY <1>1 DEF PortChannels

(* A commitment only appears when the next sequence number to send passes  *)
(* it, so one that execute for an acknowledgement or a timeout deleted     *)
(* never returns; receipts and acknowledgements are written once.          *)
THEOREM PacketsOnlyOnce == Spec => PacketsHappenOnce
<1>1. ASSUME IInv, Next PROVE PacketsOnce
  <2>1. PacketsKept(store, store')
    BY <1>1, NextStep DEF Good, Advances
  <2>2. ASSUME NEW pc \in PortChannels, NEW n \in 1 .. MaxSequence
        PROVE  CommitmentKept(store, store', pc, n)
    <3>1. pc \in PKs /\ n \in Nat
      BY PortChannelsHaveKeys, IbcHostAssumption
    <3> QED
      BY <2>1, <3>1 DEF PacketsKept
  <2>3. ASSUME NEW key \in Keys("Receipt") \cup Keys("Ack")
        PROVE  key[1] \in {6, 7}
    <3>1. Tag["Receipt"] = 6 /\ Tag["Ack"] = 7
      BY DEF Tag
    <3>2. PICK t \in {6, 7}, pc \in PortChannels, n \in 1 .. MaxSequence :
                 key = for_sequence_path(t, pc, n)
      BY <3>1 DEF Keys
    <3> QED
      BY <3>2, KeyTags, PortChannelsHaveKeys
  <2> QED
    BY <2>1, <2>2, <2>3 DEF PacketsOnce, PacketsKept, CommitmentKept, EntriesKept
<1>2. IInv /\ [Next]_vars => [PacketsOnce]_vars
  BY <1>1
<1>3. Spec => [][PacketsOnce]_vars
  BY <1>2, StorageInvariant, PTL DEF Spec
<1> QED
  BY <1>3 DEF PacketsHappenOnce, PacketsOnce

-----------------------------------------------------------------------------
(* Hashes.  One is never another one's and never the absence of one.       *)

LEMMA HashesAreExact ==
  /\ \A x : digest(x) # NoHash
  /\ \A x, y : digest(x) = digest(y) => x = y
  /\ \A id, x : digest_with_client_id(id, x) # NoHash
  /\ \A i, j, x, y : digest_with_client_id(i, x) = digest_with_client_id(j, y) => i = j /\ x = y
  /\ \A s : SequenceHash(s) # NoHash /\ SequenceHash(s)[2] = s
  /\ \A s, t : SequenceHash(s) = SequenceHash(t) => s = t
  /\ \A x : <<x>> # NoHash
<1>1. ASSUME NEW x PROVE digest(x) # NoHash /\ digest(x)[2] = x /\ <<x>> # NoHash
  BY DEF digest, NoHash
<1>2. ASSUME NEW id, NEW x
      PROVE  /\ digest_with_client_id(id, x) # NoHash
             /\ digest_with_client_id(id, x)[2] = id /\ digest_with_client_id(id, x)[3] = x
  BY DEF digest_with_client_id, NoHash
<1>3. ASSUME NEW s PROVE SequenceHash(s) # NoHash /\ SequenceHash(s)[2] = s
  BY DEF SequenceHash, NoHash
<1> QED
  BY <1>1, <1>2, <1>3

\* The proof of a path under the head's root, with some numbers.
Attached(others) == [header |-> Header, sequences |-> others]

LEMMA AttachedFields ==
  ASSUME NEW others
  PROVE  /\ Attached(others).header = Header /\ Attached(others).sequences = others
         /\ Attached(others).header.state_root = store.trie
BY DEF Attached, Header

LEMMA NoNumbers == Len(<<>>) = 0
OBVIOUS

LEMMA SequenceKinds == DOMAIN SequenceKind = {"SeqSend", "SeqRecv", "SeqAck"}
BY DEF SequenceKind

(* What is generated and verified for an object other than a number.       *)
LEMMA PlainProof ==
  ASSUME NEW path, HasKey(path), path.kind \notin DOMAIN SequenceKind
  PROVE  /\ generate(Header, path) = Attached(<<>>)
         /\ \A others, value :
              verify(Attached(others), Header, path, value) <=>
                Len(others) = 0
                  /\ Proves(store.trie, KeyOf(path), ExpectedHash(path, value, Attached(others)))
<1>1. generate(Header, path) = Attached(<<>>)
  BY DEF generate, Attached
<1>2. ASSUME NEW others, NEW value
      PROVE  verify(Attached(others), Header, path, value) <=>
               Len(others) = 0
                 /\ Proves(store.trie, KeyOf(path), ExpectedHash(path, value, Attached(others)))
  BY AttachedFields DEF verify, RightLength
<1> QED
  BY <1>1, <1>2

(* The absence of an object is the absence of its key.                     *)
LEMMA AbsenceHash ==
  ASSUME NEW path, NEW proof
  PROVE  ExpectedHash(path, <<>>, proof) = NoHash
BY DEF ExpectedHash, NoHash

LEMMA ClientHash ==
  ASSUME NEW path, NEW proof, NEW v, path.kind \in {"ClientState", "ConsensusState"}
  PROVE  ExpectedHash(path, <<v>>, proof) = digest_with_client_id(path.client, v)
<1>1. path.kind \notin DOMAIN SequenceKind /\ <<v>> # NoHash /\ <<v>>[1] = v
  BY SequenceKinds, HashesAreExact
<1>2. PathInfo(path).client_id = path.client
  BY DEF PathInfo
<1> QED
  BY <1>1, <1>2 DEF ExpectedHash, PacketKinds

LEMMA ObjectHash ==
  ASSUME NEW path, NEW proof, NEW v, path.kind \in {"Connection", "ChannelEnd"}
  PROVE  ExpectedHash(path, <<v>>, proof) = digest(v)
<1>1. path.kind \notin DOMAIN SequenceKind /\ <<v>> # NoHash /\ <<v>>[1] = v
  BY SequenceKinds, HashesAreExact
<1> QED
  BY <1>1 DEF ExpectedHash, PacketKinds

LEMMA NumberHash ==
  ASSUME NEW path, NEW proof, NEW v, path.kind \in DOMAIN SequenceKind
  PROVE  ExpectedHash(path, <<v>>, proof) =
           SequenceHash(WholeTriple(SequenceKind[path.kind], v, proof.sequences))
<1>1. <<v>> # NoHash /\ <<v>>[1] = v
  BY HashesAreExact
<1>2. PathInfo(path).seq_kind = SequenceKind[path.kind]
  BY DEF PathInfo
<1> QED
  BY <1>1, <1>2, SequenceKinds DEF ExpectedHash, PacketKinds

-----------------------------------------------------------------------------
(* Consensus states.                                                       *)

LEMMA KeptType ==
  ASSUME IInv
  PROVE  TypeOK
<1>1. StoreInv(store, seen) /\ Complete(store) /\ head.block_height \in 1 .. MaxHead
  BY DEF IInv
<1>2. ASSUME NEW i \in DOMAIN store.clients
      PROVE  /\ store.clients[i].client_id =
                  [type |-> store.clients[i].client_id.type, counter |-> i - 1]
             /\ Cardinality(DOMAIN store.clients[i].consensus_states) \in 1 .. MaxClientStates
  <2> DEFINE D == DOMAIN store.clients[i].consensus_states
  <2>1. IsClient(store.clients[i], i - 1)
    BY <1>1 DEF StoreInv, AreClients
  <2>2. IsFiniteSet(D) /\ D # {} /\ Cardinality(D) <= MaxClientStates
    BY <1>1, <2>1 DEF IsClient, IsStates, Complete
  <2> HIDE DEF D
  <2>3. Cardinality(D) \in Nat /\ Cardinality(D) # 0
    BY <2>2, FS_CardinalityType, FS_EmptySet
  <2>4. Cardinality(D) \in 1 .. MaxClientStates
    BY <2>2, <2>3, MaxClientStatesAssumption
  <2> QED
    BY <2>1, <2>4 DEF IsClient, D
<1> QED
  BY <1>1, <1>2 DEF TypeOK, Complete

LEMMA ClientCounters ==
  ASSUME NEW id \in ClientIds
  PROVE  id.counter \in Nat /\ HasClientIdx(id)
<1>1. id.counter \in 0 .. MaxClients - 1
  BY DEF ClientIds
<1>2. MaxClients \in 0 .. U32Max + 1 /\ U32Max \in Nat
  BY IbcHostAssumption, TrieKeysAssumption
<1> QED
  BY <1>1, <1>2 DEF HasClientIdx, Counter

(* A consensus state that is held has its entry in the trie, and an entry  *)
(* that outlives the state it is of (store_consensus_state evicts without  *)
(* deleting the key) is still of a state that the client accepted.         *)
THEOREM ConsensusHistory == Spec => []ConsensusProofsAreHistory
<1>1. ASSUME IInv, NEW path \in ConsensusPaths
      PROVE  /\ HasConsensusState(store, path.client, path.height) =>
                  verify(generate(Header, path), Header, path,
                         <<consensus_state(store, path.client, path.height)>>)
             /\ \A state \in States :
                  verify(generate(Header, path), Header, path, <<state>>) =>
                    [client |-> path.client, height |-> path.height, state |-> state] \in seen
  <2>1. PICK id \in ClientIds, h \in Heights :
               path.kind = "ConsensusState" /\ path.client = id /\ path.height = h
    BY DEF ConsensusPaths
  <2> DEFINE n   == id.counter
             key == for_consensus_state(n, h)
  <2>2. n \in Nat /\ HasKey(path) /\ path.kind \notin DOMAIN SequenceKind
    BY <2>1, ClientCounters, SequenceKinds DEF HasKey
  <2>3. KeyOf(path) = key
    BY <2>1, SequenceKinds DEF KeyOf, ClientIdx, PacketKinds
  <2>4. ASSUME NEW v
        PROVE  verify(generate(Header, path), Header, path, <<v>>) <=>
                 Proves(store.trie, key, digest_with_client_id(id, v))
    <3>1. ExpectedHash(path, <<v>>, Attached(<<>>)) = digest_with_client_id(id, v)
      BY <2>1, ClientHash
    <3> QED
      BY <2>2, <2>3, <3>1, PlainProof, NoNumbers
  <2>5. /\ StateEntry(store.clients, store.trie, seen, n, h)
        /\ HeldEntry(store.clients, store.trie, n, h)
    BY <1>1, <2>2 DEF IInv, StoreInv, StateEntries
  <2>6. ASSUME HasConsensusState(store, id, h)
        PROVE  Proves(store.trie, key, digest_with_client_id(id, consensus_state(store, id, h)))
    <3>1. /\ n + 1 \in DOMAIN store.clients /\ store.clients[n + 1].client_id = id
          /\ h \in DOMAIN store.clients[n + 1].consensus_states
          /\ consensus_state(store, id, h) = store.clients[n + 1].consensus_states[h].state
      BY <2>6 DEF HasConsensusState, HasClient, client, ClientIdx, Place, consensus_state
    <3>2. /\ key \in DOMAIN store.trie
          /\ store.trie[key] = digest_with_client_id(id, consensus_state(store, id, h))
      BY <2>5, <3>1 DEF HeldEntry
    <3> QED
      BY <3>2, HashesAreExact DEF Proves
  <2>7. ASSUME NEW state, Proves(store.trie, key, digest_with_client_id(id, state))
        PROVE  [client |-> id, height |-> h, state |-> state] \in seen
    <3>1. key \in DOMAIN store.trie /\ store.trie[key] = digest_with_client_id(id, state)
      BY <2>7, HashesAreExact DEF Proves
    <3>2. PICK s \in States :
                 /\ store.trie[key] = digest_with_client_id(store.clients[n + 1].client_id, s)
                 /\ [client |-> store.clients[n + 1].client_id, height |-> h, state |-> s] \in seen
      BY <2>5, <3>1 DEF StateEntry
    <3> DEFINE other == store.clients[n + 1].client_id
    <3>3. other = id /\ s = state
      <4>1. digest_with_client_id(id, state) = digest_with_client_id(other, s)
        BY <3>1, <3>2
      <4> HIDE DEF other
      <4> QED
        BY <4>1, HashesAreExact
    <3> QED
      BY <3>2, <3>3
  <2> QED
    BY <2>1, <2>4, <2>6, <2>7
<1>2. IInv => ConsensusProofsAreHistory
  BY <1>1, KeptType DEF ConsensusProofsAreHistory
<1> QED
  BY <1>2, StorageInvariant, PTL

-----------------------------------------------------------------------------
(* Proofs show what the program reads.                                     *)

\* What ProofsAreFaithful says of a path.
Faithful(path) ==
    /\ ~SharesKey(path) => verify(generate(Header, path), Header, path, Answer(path))
    /\ \A claim \in Claims(path) \ {Answer(path)} :
         \A others \in {<<>>} \cup [1 .. 2 -> 1 .. MaxSequence + 1] :
           ~verify(Attached(others), Header, path, claim)

\* A value or none.
IsOption(value) == value = <<>> \/ \E v : value = <<v>>

(* For an object with an entry of its own it is enough that the entry and  *)
(* the answer agree.                                                       *)
LEMMA PlainFaithful ==
  ASSUME NEW path, HasKey(path), path.kind \notin DOMAIN SequenceKind,
         \A v, others : Proves(store.trie, KeyOf(path), ExpectedHash(path, <<v>>, Attached(others)))
                          <=> Answer(path) = <<v>>,
         KeyOf(path) \notin DOMAIN store.trie => Answer(path) = <<>>,
         Answer(path) = <<>> /\ ~SharesKey(path) => KeyOf(path) \notin DOMAIN store.trie,
         IsOption(Answer(path)), \A claim \in Claims(path) : IsOption(claim)
  PROVE  Faithful(path)
<1> DEFINE Shown(value, others) ==
             Proves(store.trie, KeyOf(path), ExpectedHash(path, value, Attached(others)))
<1>1. ASSUME NEW others
      PROVE  /\ Shown(<<>>, others) <=> KeyOf(path) \notin DOMAIN store.trie
             /\ \A v : Shown(<<v>>, others) <=> Answer(path) = <<v>>
  BY AbsenceHash DEF Proves
<1>2. generate(Header, path) = Attached(<<>>)
  BY PlainProof
<1>3. ASSUME NEW others, NEW value
      PROVE  verify(Attached(others), Header, path, value) <=>
               Len(others) = 0 /\ Shown(value, others)
  BY PlainProof
<1> HIDE DEF Shown
<1>4. ASSUME ~SharesKey(path)
      PROVE  verify(Attached(<<>>), Header, path, Answer(path))
  <2>1. CASE Answer(path) = <<>>
    BY <1>1, <1>3, <1>4, <2>1, NoNumbers
  <2>2. ASSUME NEW v, Answer(path) = <<v>>
        PROVE  verify(Attached(<<>>), Header, path, Answer(path))
    <3>1. Shown(<<v>>, <<>>)
      BY <1>1, <2>2
    <3> QED
      BY <1>3, <2>2, <3>1, NoNumbers
  <2> QED
    BY <2>1, <2>2 DEF IsOption
<1>5. ASSUME NEW claim \in Claims(path), NEW others, verify(Attached(others), Header, path, claim)
      PROVE  Answer(path) = claim
  <2>1. Shown(claim, others)
    BY <1>3, <1>5
  <2>2. CASE claim = <<>>
    BY <1>1, <2>1, <2>2
  <2>3. ASSUME NEW v, claim = <<v>>
        PROVE  Answer(path) = claim
    BY <1>1, <2>1, <2>3
  <2> QED
    BY <2>2, <2>3 DEF IsOption
<1> QED
  BY <1>2, <1>4, <1>5 DEF Faithful

LEMMA ClientFaithful ==
  ASSUME IInv, NEW path, NEW id \in ClientIds, path.kind = "ClientState", path.client = id
  PROVE  Faithful(path)
<1> DEFINE n   == id.counter
           key == for_client_state(n)
           c   == store.clients[n + 1]
<1>1. n \in Nat /\ HasClientIdx(id)
  BY ClientCounters
<1>2. HasKey(path) /\ path.kind \notin DOMAIN SequenceKind
  BY <1>1, SequenceKinds DEF HasKey
<1>3. KeyOf(path) = key
  BY SequenceKinds DEF KeyOf, ClientIdx, PacketKinds
<1>4. /\ key \in DOMAIN store.trie <=> n + 1 \in DOMAIN store.clients
      /\ n + 1 \in DOMAIN store.clients =>
           store.trie[key] = digest_with_client_id(c.client_id, c.client_state)
  BY <1>1 DEF IInv, StoreInv, ClientEntries
<1>5. HasClient(store, id) <=> n + 1 \in DOMAIN store.clients /\ c.client_id = id
  BY <1>1 DEF HasClient, ClientIdx, Place
<1>6. Answer(path) = IF HasClient(store, id) THEN <<c.client_state>> ELSE <<>>
  BY SequenceKinds DEF Answer, client, ClientIdx, Place
<1>7. SharesKey(path) <=> ~HasClient(store, id) /\ n + 1 \in DOMAIN store.clients
  <2>1. Len(store.clients) \in Nat /\ DOMAIN store.clients = 1 .. Len(store.clients)
    BY SeqFacts DEF IInv, StoreInv, AreClients
  <2>2. n < Len(store.clients) <=> n + 1 \in DOMAIN store.clients
    BY <1>1, <2>1
  <2> QED
    BY <2>2 DEF SharesKey, client_counter
<1>8. \A claim \in Claims(path) : IsOption(claim)
  BY SequenceKinds DEF Claims, IsOption
<1> HIDE DEF n, key, c
<1>9. ASSUME NEW v, NEW others
      PROVE  Proves(store.trie, KeyOf(path), ExpectedHash(path, <<v>>, Attached(others)))
               <=> Answer(path) = <<v>>
  <2>1. ExpectedHash(path, <<v>>, Attached(others)) = digest_with_client_id(id, v)
    BY ClientHash
  <2>2. digest_with_client_id(id, v) # NoHash
    BY HashesAreExact
  <2>3. digest_with_client_id(c.client_id, c.client_state) = digest_with_client_id(id, v)
          <=> c.client_id = id /\ c.client_state = v
    <3> DEFINE a == c.client_id  b == c.client_state
    <3> HIDE DEF a, b
    <3>1. digest_with_client_id(a, b) = digest_with_client_id(id, v) <=> a = id /\ b = v
      BY HashesAreExact
    <3> QED
      BY <3>1 DEF a, b
  <2>4. Proves(store.trie, key, digest_with_client_id(id, v)) <=>
          n + 1 \in DOMAIN store.clients /\ c.client_id = id /\ c.client_state = v
    BY <1>4, <2>2, <2>3 DEF Proves
  <2>5. Answer(path) = <<v>> <=> HasClient(store, id) /\ c.client_state = v
    BY <1>6
  <2> QED
    BY <1>3, <1>5, <2>1, <2>4, <2>5
<1>10. IsOption(Answer(path))
  BY <1>6 DEF IsOption
<1>11. Answer(path) = <<>> <=> ~HasClient(store, id)
  BY <1>6
<1>12. /\ KeyOf(path) \notin DOMAIN store.trie => Answer(path) = <<>>
       /\ Answer(path) = <<>> /\ ~SharesKey(path) => KeyOf(path) \notin DOMAIN store.trie
  BY <1>3, <1>4, <1>5, <1>7, <1>11
<1> QED
  BY <1>2, <1>8, <1>9, <1>10, <1>12, PlainFaithful

(* A connection or a channel, whose entry is the digest of the object.     *)
LEMMA ObjectFaithful ==
  ASSUME NEW path, HasKey(path), path.kind \in {"Connection", "ChannelEnd"}, NEW x,
         Answer(path) = IF KeyOf(path) \in DOMAIN store.trie THEN <<x>> ELSE <<>>,
         KeyOf(path) \in DOMAIN store.trie => store.trie[KeyOf(path)] = digest(x)
  PROVE  Faithful(path)
<1> DEFINE key == KeyOf(path)
<1>1. path.kind \notin DOMAIN SequenceKind
  BY SequenceKinds
<1>2. \A claim \in Claims(path) : IsOption(claim)
  BY SequenceKinds DEF Claims, IsOption
<1> HIDE DEF key
<1>3. ASSUME NEW v, NEW others
      PROVE  Proves(store.trie, key, ExpectedHash(path, <<v>>, Attached(others)))
               <=> Answer(path) = <<v>>
  <2>1. ExpectedHash(path, <<v>>, Attached(others)) = digest(v)
    BY ObjectHash
  <2>2. digest(v) # NoHash /\ (digest(x) = digest(v) <=> x = v)
    BY HashesAreExact
  <2>3. Proves(store.trie, key, digest(v)) <=> key \in DOMAIN store.trie /\ x = v
    BY <2>2 DEF Proves, key
  <2>4. Answer(path) = <<v>> <=> key \in DOMAIN store.trie /\ x = v
    BY DEF key
  <2> QED
    BY <2>1, <2>3, <2>4
<1>4. IsOption(Answer(path))
  BY DEF IsOption
<1>5. Answer(path) = <<>> <=> key \notin DOMAIN store.trie
  BY DEF key
<1> QED
  BY <1>1, <1>2, <1>3, <1>4, <1>5, PlainFaithful DEF key

LEMMA ConnectionFaithful ==
  ASSUME IInv, NEW path, NEW n \in 0 .. MaxConnections - 1,
         path.kind = "Connection", path.connection = n
  PROVE  Faithful(path)
<1>1. n \in Nat /\ Counter(n)
  BY IbcHostAssumption, TrieKeysAssumption DEF Counter
<1>2. HasKey(path)
  BY <1>1 DEF HasKey
<1>3. KeyOf(path) = for_connection(n)
  BY SequenceKinds DEF KeyOf, PacketKinds
<1>4. /\ for_connection(n) \in DOMAIN store.trie <=> n + 1 \in DOMAIN store.connections
      /\ n + 1 \in DOMAIN store.connections =>
           store.trie[for_connection(n)] = digest(store.connections[n + 1])
  BY <1>1 DEF IInv, StoreInv, ConnectionEntries
<1>5. Answer(path) =
        IF n + 1 \in DOMAIN store.connections THEN <<store.connections[n + 1]>> ELSE <<>>
  BY SequenceKinds DEF Answer, HasConnection, connection_end, Place
<1> DEFINE x == store.connections[n + 1]
<1>6. /\ Answer(path) = IF KeyOf(path) \in DOMAIN store.trie THEN <<x>> ELSE <<>>
      /\ KeyOf(path) \in DOMAIN store.trie => store.trie[KeyOf(path)] = digest(x)
  BY <1>3, <1>4, <1>5
<1> HIDE DEF x
<1> QED
  BY <1>2, <1>6, ObjectFaithful

(* A channel is found if its port and counter are in port_channel.         *)
LEMMA ChannelFound ==
  ASSUME IInv, NEW pc
  PROVE  HasChannel(store, pc) <=> pc \in DOMAIN store.port_channel
<1>1. ASSUME pc \in DOMAIN store.port_channel PROVE HasChannel(store, pc)
  <2> DEFINE e == store.port_channel[pc].end
  <2>1. e = [state |-> e.state, connection |-> e.connection]
    BY <1>1 DEF IInv, StoreInv, ArePortChannels, IsPortChannel, IsEnd
  <2> HIDE DEF e
  <2>2. "state" \in DOMAIN e
    BY <2>1
  <2>3. "state" \notin DOMAIN None
    BY DEF None
  <2>4. e # None
    BY <2>2, <2>3
  <2> QED
    BY <1>1, <2>4 DEF HasChannel, PortChannel, e
<1> QED
  BY <1>1, StoredChannel

LEMMA ChannelPaths ==
  ASSUME NEW port \in Alphanumeric, NEW c \in 0 .. MaxChannels - 1
  PROVE  PortChannelPK(port, c) \in PKs /\ HasPortChannel(port, c)
<1>1. c \in Nat /\ Counter(c)
  BY IbcHostAssumption, TrieKeysAssumption DEF Counter
<1> QED
  BY <1>1 DEF PKs, PortChannelPK, HasPortChannel, HasPortKey

LEMMA ChannelFaithful ==
  ASSUME IInv, NEW path, NEW port \in Alphanumeric, NEW c \in 0 .. MaxChannels - 1,
         path.kind = "ChannelEnd", path.port = port, path.channel = c
  PROVE  Faithful(path)
<1> DEFINE pc == PortChannelPK(port, c)
           x  == store.port_channel[pc].end
<1>1. pc \in PKs /\ HasKey(path)
  BY ChannelPaths DEF HasKey
<1>2. KeyOf(path) = for_channel_end(pc)
  BY SequenceKinds DEF KeyOf, PacketKinds, WithChannel
<1>3. Answer(path) = IF HasChannel(store, pc) THEN <<channel_end(store, pc)>> ELSE <<>>
  BY SequenceKinds DEF Answer
<1> HIDE DEF pc
<1>4. /\ for_channel_end(pc) \in DOMAIN store.trie <=> pc \in DOMAIN store.port_channel
      /\ pc \in DOMAIN store.port_channel => store.trie[for_channel_end(pc)] = digest(x)
  BY <1>1 DEF IInv, StoreInv, ChannelEntries
<1>5. Answer(path) = IF pc \in DOMAIN store.port_channel THEN <<x>> ELSE <<>>
  BY <1>3, ChannelFound DEF channel_end, PortChannel
<1> HIDE DEF x
<1>6. /\ Answer(path) = IF KeyOf(path) \in DOMAIN store.trie THEN <<x>> ELSE <<>>
      /\ KeyOf(path) \in DOMAIN store.trie => store.trie[KeyOf(path)] = digest(x)
  BY <1>2, <1>4, <1>5
<1> QED
  BY <1>1, <1>6, ObjectFaithful

-----------------------------------------------------------------------------
(* Sequence numbers, whose entry is that of all three.                     *)

LEMMA WholeTripleKeeps ==
  ASSUME NEW k \in 1 .. 3, NEW v, NEW others
  PROVE  WholeTriple(k, v, others)[k] = v
<1>1. CASE k = 1
  BY <1>1 DEF WholeTriple
<1>2. CASE k = 2
  BY <1>2 DEF WholeTriple
<1>3. CASE k = 3
  BY <1>3 DEF WholeTriple
<1> QED
  BY <1>1, <1>2, <1>3

LEMMA TripleIsTuple ==
  ASSUME NEW t \in [1 .. 3 -> Nat]
  PROVE  t = <<t[1], t[2], t[3]>>
<1>1. DOMAIN t = 1 .. 3 /\ t = [i \in 1 .. 3 |-> t[i]]
  OBVIOUS
<1> DEFINE u == <<t[1], t[2], t[3]>>
<1>2. u \in [1 .. 3 -> Nat] /\ u[1] = t[1] /\ u[2] = t[2] /\ u[3] = t[3]
  OBVIOUS
<1> HIDE DEF u
<1>3. ASSUME NEW i \in 1 .. 3 PROVE u[i] = t[i]
  <2>1. i = 1 \/ i = 2 \/ i = 3
    OBVIOUS
  <2> QED
    BY <1>2, <2>1
<1>4. t = u
  BY <1>2, <1>3
<1> QED
  BY <1>4 DEF u

(* The two numbers that are attached complete the triple.                  *)
LEMMA AttachedNumbers ==
  ASSUME NEW t \in [1 .. 3 -> Nat], NEW k \in 1 .. 3
  PROVE  LET others == [i \in 1 .. 2 |-> t[OtherPlaces(k)[i]]]
         IN  Len(others) = 2 /\ WholeTriple(k, t[k], others) = t
<1> DEFINE others == [i \in 1 .. 2 |-> t[OtherPlaces(k)[i]]]
<1>1. /\ others[1] = t[OtherPlaces(k)[1]] /\ others[2] = t[OtherPlaces(k)[2]]
      /\ DOMAIN others = 1 .. 2
  BY 1 \in 1 .. 2, 2 \in 1 .. 2
<1>2. Len(others) = 2
  <2> DEFINE S == {t[OtherPlaces(k)[i]] : i \in 1 .. 2}
  <2>1. others \in [1 .. 2 -> S]
    OBVIOUS
  <2> HIDE DEF S, others
  <2>2. others \in Seq(S)
    BY <2>1, 2 \in Nat, SeqDef
  <2>3. Len(others) \in Nat /\ DOMAIN others = 1 .. Len(others)
    BY <2>2, LenProperties
  <2> QED
    BY <1>1, <2>3
<1> HIDE DEF others
<1>3. WholeTriple(k, t[k], others) = <<t[1], t[2], t[3]>>
  <2>1. CASE k = 1
    <3>1. others[1] = t[2] /\ others[2] = t[3]
      BY <1>1, <2>1 DEF OtherPlaces
    <3> QED
      BY <2>1, <3>1 DEF WholeTriple
  <2>2. CASE k = 2
    <3>1. others[1] = t[1] /\ others[2] = t[3]
      BY <1>1, <2>2 DEF OtherPlaces
    <3> QED
      BY <2>2, <3>1 DEF WholeTriple
  <2>3. CASE k = 3
    <3>1. others[1] = t[1] /\ others[2] = t[2]
      BY <1>1, <2>3 DEF OtherPlaces
    <3> QED
      BY <2>3, <3>1 DEF WholeTriple
  <2> QED
    BY <2>1, <2>2, <2>3
<1> QED
  BY <1>2, <1>3, TripleIsTuple DEF others

LEMMA NumberFaithful ==
  ASSUME IInv, NEW path, NEW port \in Alphanumeric, NEW c \in 0 .. MaxChannels - 1,
         path.kind \in DOMAIN SequenceKind, path.port = port, path.channel = c
  PROVE  Faithful(path)
<1> DEFINE pc  == PortChannelPK(port, c)
           k   == SequenceKind[path.kind]
           key == for_next_sequence(pc)
           t   == store.port_channel[pc].next_sequence
<1>1. pc \in PKs /\ HasKey(path)
  BY ChannelPaths DEF HasKey
<1>2. KeyOf(path) = key
  BY SequenceKinds DEF KeyOf, PacketKinds, WithChannel
<1>3. k \in 1 .. 3
  BY SequenceKinds DEF SequenceKind
<1>4. Answer(path) = IF HasChannel(store, pc) THEN <<get_next_sequence(store, pc, k)>> ELSE <<>>
  BY SequenceKinds DEF Answer
<1>5. PathInfo(path).key = KeyOf(path) /\ PathInfo(path).seq_kind = k
  BY DEF PathInfo
<1>6. ~SharesKey(path)
  BY SequenceKinds DEF SharesKey
<1>7. \A claim \in Claims(path) : IsOption(claim)
  BY SequenceKinds DEF Claims, IsOption
<1> HIDE DEF pc, k
<1>8. /\ key \in DOMAIN store.trie <=> pc \in DOMAIN store.port_channel
      /\ pc \in DOMAIN store.port_channel => store.trie[key] = SequenceHash(t)
  BY <1>1 DEF IInv, StoreInv, SequenceEntries, Complete
<1>9. pc \in DOMAIN store.port_channel => t \in [1 .. 3 -> Nat]
  BY DEF IInv, StoreInv, ArePortChannels, IsPortChannel
<1>10. Answer(path) = IF pc \in DOMAIN store.port_channel THEN <<t[k]>> ELSE <<>>
  BY <1>4, ChannelFound DEF get_next_sequence, PortChannel
<1> HIDE DEF t, key
<1>11. ASSUME NEW others, NEW value
       PROVE  verify(Attached(others), Header, path, value) <=>
                /\ Len(others) = IF value # NoHash THEN 2 ELSE 0
                /\ Proves(store.trie, key, ExpectedHash(path, value, Attached(others)))
  BY <1>1, <1>2, AttachedFields DEF verify, RightLength
<1>12. ASSUME NEW others, NEW v
       PROVE  ExpectedHash(path, <<v>>, Attached(others)) = SequenceHash(WholeTriple(k, v, others))
  BY NumberHash, AttachedFields DEF k
<1>13. CASE pc \in DOMAIN store.port_channel
  <2> DEFINE numbers == [i \in 1 .. 2 |-> t[OtherPlaces(k)[i]]]
  <2>1. t \in [1 .. 3 -> Nat] /\ store.trie[key] = SequenceHash(t) /\ key \in DOMAIN store.trie
    BY <1>8, <1>9, <1>13
  <2>2. generate(Header, path) = Attached(numbers)
    <3>1. SequenceHash(t) # NoHash /\ SequenceHash(t)[2] = t
      BY HashesAreExact
    <3>2. Header.state_root = store.trie
      BY DEF Header
    <3> QED
      BY <1>2, <1>5, <2>1, <3>1, <3>2 DEF generate, Attached
  <2>3. Len(numbers) = 2 /\ WholeTriple(k, t[k], numbers) = t
    BY <1>3, <2>1, AttachedNumbers
  <2> HIDE DEF numbers
  <2>4. Answer(path) = <<t[k]>> /\ <<t[k]>> # NoHash
    BY <1>10, <1>13, HashesAreExact
  <2>5. Proves(store.trie, key, SequenceHash(t))
    BY <2>1, HashesAreExact DEF Proves
  <2>6. verify(generate(Header, path), Header, path, Answer(path))
    BY <1>11, <1>12, <2>2, <2>3, <2>4, <2>5
  <2>7. ASSUME NEW claim \in Claims(path), NEW others, verify(Attached(others), Header, path, claim)
        PROVE  claim = Answer(path)
    <3>1. Proves(store.trie, key, ExpectedHash(path, claim, Attached(others)))
      BY <1>11, <2>7
    <3>2. claim # <<>>
      BY <2>1, <3>1, AbsenceHash DEF Proves
    <3>3. PICK v : claim = <<v>>
      BY <1>7, <3>2 DEF IsOption
    <3> DEFINE w == WholeTriple(k, v, others)
    <3>4. Proves(store.trie, key, SequenceHash(w))
      BY <1>12, <3>1, <3>3
    <3>5. w[k] = v
      BY <1>3, WholeTripleKeeps
    <3> HIDE DEF w
    <3>6. SequenceHash(t) = SequenceHash(w)
      BY <2>1, <3>4, HashesAreExact DEF Proves
    <3>7. t = w
      BY <3>6, HashesAreExact
    <3> QED
      BY <2>4, <3>3, <3>5, <3>7
  <2> QED
    BY <2>6, <2>7 DEF Faithful
<1>14. CASE pc \notin DOMAIN store.port_channel
  <2>1. key \notin DOMAIN store.trie /\ Answer(path) = <<>>
    BY <1>8, <1>10, <1>14
  <2>2. generate(Header, path) = Attached(<<>>)
    <3>1. Header.state_root = store.trie
      BY DEF Header
    <3> QED
      BY <1>2, <1>5, <2>1, <3>1 DEF generate, Attached, NoHash
  <2>3. Proves(store.trie, key, ExpectedHash(path, <<>>, Attached(<<>>)))
    BY <2>1, AbsenceHash DEF Proves
  <2>4. verify(generate(Header, path), Header, path, Answer(path))
    BY <1>11, <2>1, <2>2, <2>3, NoNumbers DEF NoHash
  <2>5. ASSUME NEW claim \in Claims(path), NEW others, verify(Attached(others), Header, path, claim)
        PROVE  claim = Answer(path)
    <3>1. Proves(store.trie, key, ExpectedHash(path, claim, Attached(others)))
      BY <1>11, <2>5
    <3>2. ASSUME NEW v, claim = <<v>> PROVE FALSE
      <4>1. Proves(store.trie, key, SequenceHash(WholeTriple(k, v, others)))
        BY <1>12, <3>1, <3>2
      <4> QED
        BY <2>1, <4>1, HashesAreExact DEF Proves
    <3> QED
      BY <1>7, <2>1, <3>2 DEF IsOption
  <2> QED
    BY <2>4, <2>5 DEF Faithful
<1> QED
  BY <1>13, <1>14

(* What generate_for_block makes of the root of the storage's trie,        *)
(* verify_for_block accepts for what the program would read and for        *)
(* nothing else, of every client, connection, channel and number: entries  *)
(* are never of another client with the same counter, of another port or   *)
(* of an older write.                                                      *)
THEOREM StorageProofsAreFaithful == Spec => []ProofsAreFaithful
<1>1. ASSUME IInv, NEW path \in StoredPaths PROVE Faithful(path)
  <2>1. CASE path \in [kind : {"ClientState"}, client : ClientIds]
    <3>1. path.kind = "ClientState" /\ path.client \in ClientIds
      BY <2>1
    <3> QED
      BY <1>1, <3>1, ClientFaithful
  <2>2. CASE path \in [kind : {"Connection"}, connection : 0 .. MaxConnections - 1]
    <3>1. path.kind = "Connection" /\ path.connection \in 0 .. MaxConnections - 1
      BY <2>2
    <3> QED
      BY <1>1, <3>1, ConnectionFaithful
  <2>3. CASE path \in [kind : {"ChannelEnd"} \cup DOMAIN SequenceKind, port : Alphanumeric,
                       channel : 0 .. MaxChannels - 1]
    <3>1. /\ path.kind = "ChannelEnd" \/ path.kind \in DOMAIN SequenceKind
          /\ path.port \in Alphanumeric /\ path.channel \in 0 .. MaxChannels - 1
      BY <2>3
    <3> QED
      BY <1>1, <3>1, ChannelFaithful, NumberFaithful
  <2> QED
    BY <2>1, <2>2, <2>3 DEF StoredPaths
<1>2. IInv => ProofsAreFaithful
  BY <1>1 DEF ProofsAreFaithful, Faithful, Attached
<1> QED
  BY <1>2, StorageInvariant, PTL
=============================================================================
