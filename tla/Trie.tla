-------------------------------- MODULE Trie --------------------------------
(***************************************************************************)
(* The sealable trie in its account: the methods of Trie in                *)
(* sealable-trie/src/trie.rs over the allocator of solana/trie.            *)
(*                                                                         *)
(* Between two instructions the pool and the root rest in the account; an  *)
(* instruction decodes the header, calls one method and encodes the header *)
(* again when TrieAccount is dropped, so each method is one step.          *)
(***************************************************************************)
EXTENDS TrieOps, TrieLookup, FiniteSets

CONSTANTS Keys,         \* keys the callers use, sequences of whole bytes
          Values        \* hashes of values

ASSUME KeysAssumption ==
    \A k \in Keys : Len(k) % ByteBits = 0 /\ \A i \in DOMAIN k : k[i] \in {0, 1}

VARIABLES pool,         \* alloc: blocks, free list
          root_ptr,     \* pointer to the root node, None if empty or sealed
          root_hash,    \* hash of the root node
          answer        \* the answer to the last call: [op, key, res, value]

vars == <<pool, root_ptr, root_hash, answer>>

root == NodeRef(root_ptr, root_hash)

\* Trie::new over an empty account
Init ==
    /\ pool = NewPool
    /\ root_ptr = None
    /\ root_hash = EMPTY_TRIE_ROOT
    /\ answer = [op |-> "new", key |-> <<>>, res |-> "Ok", value |-> Absent]

Finish(op, key, value, out) ==
    /\ pool' = out.pool
    /\ root_ptr' = out.root.ptr
    /\ root_hash' = out.root.hash
    /\ answer' = [op |-> op, key |-> key, res |-> out.res, value |-> value]

Set(key, value) == Finish("set", key, value, set(pool, root, from_bytes(key), value))

\* The code asks for the root hash before it looks at the key.
SealOp(key) ==
    LET out == IF root_hash = EMPTY_TRIE_ROOT
               THEN [res |-> "NotFound", pool |-> pool, root |-> root]
               ELSE seal_impl(pool, root, from_bytes(key))
    IN  Finish("seal", key, Absent, out)

SetAndSeal(key, value) ==
    LET first == set(pool, root, from_bytes(key), value)
        out   == IF first.res # "Ok" THEN first
                 ELSE seal_impl(first.pool, first.root, from_bytes(key))
    IN  Finish("set_and_seal", key, value, out)

Del(key) == Finish("del", key, Absent, del(pool, root, from_bytes(key)))

Next ==
    \E key \in Keys :
        \/ \E value \in Values : Set(key, value) \/ SetAndSeal(key, value)
        \/ SealOp(key)
        \/ Del(key)

Spec == Init /\ [][Next]_vars

-----------------------------------------------------------------------------
(* What the trie holds, read off its hashes and its references.            *)

\* The contents that a hash commits to: pairs of a key and a value.
RECURSIVE Committed(_, _)
Committed(ref, prefix) ==
    IF ref.is_value THEN {<<prefix, ref.hash>>}
    ELSE IF ref.hash[1] = "Branch"
    THEN Committed(ref.hash[3][1], Append(prefix, 0))
             \cup Committed(ref.hash[3][2], Append(prefix, 1))
    ELSE Committed(ref.hash[3][1], prefix \o ref.hash[2].bits)

Contents ==
    IF root_hash = EMPTY_TRIE_ROOT THEN {} ELSE Committed(OwnedRef(FALSE, root_hash), <<>>)

Valuation ==
    LET contents == Contents
    IN  [k \in Keys |-> IF \E kv \in contents : kv[1] = k
                        THEN (CHOOSE kv \in contents : kv[1] = k)[2]
                        ELSE Absent]

\* The entries that can be reached, and the blocks they are reached by.
SealedKeys ==
    LET entries  == Range(get_subtrie(pool, root, <<>>))
        prefixes == {e.sub_key : e \in {e \in entries : e.sealed}}
    IN  {kv[1] : kv \in {c \in Contents : \E p \in prefixes : IsPrefix(p, c[1])}}

RECURSIVE Blocks(_)
Blocks(ref) ==
    IF ref.is_value \/ ref.ptr = None THEN <<>>
    ELSE <<ref.ptr>> \o FoldLeft(LAMBDA ptrs, child : ptrs \o Blocks(child), <<>>,
                                 pool.blocks[ref.ptr].children)

Map == INSTANCE SealableMap WITH map    <- Valuation,
                                 sealed <- SealedKeys

-----------------------------------------------------------------------------
(* Properties. *)

\* The pool has blocks of the right kind and pointers that point at them.
TypeOK ==
    /\ Len(pool.blocks) <= Capacity
    /\ \A i \in DOMAIN pool.blocks :
           LET node == pool.blocks[i]
           IN  /\ node.kind \in {"Branch", "Extension", "Free"}
               /\ node.kind = "Extension" => IsExtKey(node.key)
               /\ \A c \in Range(node.children) : c.ptr \in 0 .. Len(pool.blocks)
    /\ root_ptr \in 0 .. Len(pool.blocks)
    /\ answer.res \in {"Ok", "Sealed", "BadKeyPrefix", "EmptyKey", "NotFound", "OutOfMemory"}

\* Every call answers as the map with seals does, and changes what the map
\* changes: no call loses, changes or reveals another key, an error leaves
\* everything as it was, and removing a key never needs memory.
ImplementsMap == Map!Spec

\* Every block is a node of the trie, reached in exactly one way, or on the
\* free list exactly once.
EveryBlockHasOneOwner ==
    LET owned == Blocks(root) \o pool.free
    IN  /\ ~pool.panicked
        /\ IsInjective(owned)
        /\ Range(owned) = DOMAIN pool.blocks
        /\ \A i \in DOMAIN pool.blocks :
               (pool.blocks[i] = Free) <=> (i \in Range(pool.free))

\* The hash in every reference is the hash of the node it points at: the
\* debug assertions at the start of every handler.
HashesMatch ==
    /\ root_ptr # None => Hash(pool.blocks[root_ptr]) = root_hash
    /\ \A i \in Range(Blocks(root)) : \A c \in Range(pool.blocks[i].children) :
           ~c.is_value /\ c.ptr # None => Hash(pool.blocks[c.ptr]) = c.hash

\* The account stays sound under any calls, those included that fail half way
\* and are rolled back by the write log (memory/src/lib.rs, WriteLog::drop): no
\* block is leaked, freed twice or referred to twice, no hash is stale.
AccountIsSound == TypeOK /\ EveryBlockHasOneOwner /\ HashesMatch

\* For every key that can be read, the proof verifies for what was read; no
\* proof of any key verifies for anything that is not so (proof.rs, verify).
ProofsAreSound ==
    LET valuation == Valuation
    IN  \A k \in Keys :
            LET out == get_impl(pool, root, k)
            IN  out.res = "Ok" =>
                    /\ verify(out.proof, root_hash, k, out.value)
                    /\ \A j \in Keys : \A v \in (Values \cup {Absent}) \ {valuation[j]} :
                           ~verify(out.proof, root_hash, j, v)

\* Reading a key gives what the map holds.
GetsAreRight ==
    \A k \in Keys :
        LET out == get_impl(pool, root, k)
        IN  <<out.res, out.value>> \in Map!Readings(k)

\* The entries below a key are the keys there, each once with its value and
\* marked as sealed exactly when reading it is refused, and one for each node
\* that is gone, below which every key is refused (iter.rs, get_entries).
EntriesAreComplete ==
    \A k \in Keys :
        LET entries  == get_subtrie(pool, root, k)
            below    == {c \in Contents : IsPrefix(k, c[1])}
            At(e)    == k \o e.sub_key
            Refused(key) == get_impl(pool, root, key).res = "Sealed"
        IN  /\ IsInjective(entries)
            /\ \A e \in Range(entries) :
                   IF e.value = Absent
                   THEN \A j \in Keys : IsPrefix(At(e), j) => Refused(j)
                   ELSE <<At(e), e.value>> \in below /\ (e.sealed <=> Refused(At(e)))
            /\ \A c \in below : \E e \in Range(entries) :
                   IF e.value = Absent THEN IsPrefix(At(e), c[1]) ELSE At(e) = c[1]

\* Reading a key gives what the map holds, and nothing of a sealed one.  The
\* entries below a key are those of the map: none is invented or withheld, and
\* sealed ones are marked.  The value of a sealed entry is listed too while its
\* node is still there, although trie.rs says that "a hash of a sealed value can
\* no longer be accessed" (trie.rs, get; iter.rs, get_subtrie_root, handle_value).
ReadsAreRight == GetsAreRight /\ EntriesAreComplete

\* The hash of the one trie that holds some pairs when no key needs more than
\* one Extension: its shape does not depend on how it came about.
RECURSIVE Canonical(_, _)
Canonical(pairs, off) ==
    LET keys == {kv[1] : kv \in pairs}
        any  == CHOOSE kv \in pairs : TRUE
        len  == Max({n \in 0 .. Len(any[1]) :
                        \A k \in keys : IsPrefix(SubSeq(any[1], 1, n), k)})
        rest(bit) == {<<SubSeq(kv[1], len + 2, Len(kv[1])), kv[2]>> :
                          kv \in {p \in pairs : p[1][len + 1] = bit}}
        below == (off + len + 1) % ByteBits
        end  == IF Cardinality(pairs) = 1 THEN OwnedRef(TRUE, any[2])
                ELSE To(Branch(<<Canonical(rest(0), below), Canonical(rest(1), below)>>))
    IN  IF len = 0 THEN end
        ELSE To(Extension([off |-> off, bits |-> SubSeq(any[1], 1, len)], end))

\* While no key needs more than one Extension, the root hash depends on the
\* contents alone, whatever was set, overwritten, sealed and deleted before
\* (del.rs merges what set.rs has split).
RootIsCanonical ==
    LET contents == Contents
    IN  (\A kv \in contents : Len(kv[1]) <= MaxExtBytes * ByteBits) =>
            root_hash = IF contents = {} THEN EMPTY_TRIE_ROOT ELSE Canonical(contents, 0).hash
=============================================================================
