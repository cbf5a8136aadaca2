----------------------------- MODULE TrieNodes -----------------------------
(***************************************************************************)
(* Bit slices, node references, nodes and their hashes, the blocks of the  *)
(* account that holds them, and the write log through which the trie       *)
(* changes the blocks:                                                     *)
(*                                                                         *)
(*   sealable-trie/src/bits.rs, bits/ext_key.rs, bits/concat.rs            *)
(*   sealable-trie/src/nodes.rs                                            *)
(*   solana/trie/src/alloc.rs     Allocator                                *)
(*   common/memory/src/lib.rs     WriteLog                                 *)
(*                                                                         *)
(* A slice is a record [off, bits]: its bits and the offset of the first   *)
(* one within a byte.  A byte has ByteBits bits (eight in the code).  A    *)
(* hash is the value that is hashed: equal hashes mean equal content.  Raw *)
(* encodings of nodes are left out; a block that holds no node has kind    *)
(* "Free", which no node decodes from.                                     *)
(***************************************************************************)
EXTENDS Integers, Sequences, SequencesExt, FiniteSetsExt

CONSTANTS ByteBits,         \* bits in a byte of a key
          MaxExtBytes,      \* nodes.rs: MAX_EXTENSION_KEY_SIZE
          EMPTY_TRIE_ROOT,  \* trie.rs: EMPTY_TRIE_ROOT
          Capacity          \* blocks that fit into the account

ASSUME ByteBitsAssumption == ByteBits \in Nat \ {0}
ASSUME MaxExtBytesAssumption == MaxExtBytes \in Nat \ {0}
ASSUME CapacityAssumption == Capacity \in Nat

None == 0                   \* a null pointer

-----------------------------------------------------------------------------
(* Slices. *)

from_bytes(key) == [off |-> 0, bits |-> key]

NoBits == from_bytes(<<>>)

is_empty(s) == s.bits = <<>>

Take(s, n) == [s EXCEPT !.bits = SubSeq(@, 1, n)]

Skip(s, n) ==
    [off  |-> (s.off + n) % ByteBits,
     bits |-> SubSeq(s.bits, n + 1, Len(s.bits))]

starts_with(s, prefix) == s.off = prefix.off /\ IsPrefix(prefix.bits, s.bits)

\* forward_common_prefix: how many bits two slices have in common.
CommonLen(s, t) ==
    IF s.off # t.off THEN 0
    ELSE Max({n \in 0 .. Min({Len(s.bits), Len(t.bits)}) :
                  SubSeq(s.bits, 1, n) = SubSeq(t.bits, 1, n)})

\* The parts of a slice that fit into one Extension each.  The limit is in
\* bytes touched, so the offset shortens the first part.
chunks(s) ==
    LET m   == MaxExtBytes * ByteBits
        len == Len(s.bits)
    IN  IF len = 0 THEN <<>>
        ELSE [i \in 1 .. (s.off + len + m - 1) \div m |->
                [off  |-> IF i = 1 THEN s.off ELSE 0,
                 bits |-> SubSeq(s.bits, Max({1, (i - 1) * m - s.off + 1}),
                                         Min({len, i * m - s.off}))]]

\* ExtKey::try_from: what the key of one Extension can be.
IsExtKey(s) == ~is_empty(s) /\ s.off + Len(s.bits) <= MaxExtBytes * ByteBits

\* Owned::concat of a bit and a slice, and whether and how two slices join.
PrependBit(bit, s) ==
    [off |-> (s.off + ByteBits - 1) % ByteBits, bits |-> <<bit>> \o s.bits]

Aligned(s, t) == (s.off + Len(s.bits)) % ByteBits = t.off

concat(s, t) == [s EXCEPT !.bits = @ \o t.bits]

-----------------------------------------------------------------------------
(* References and nodes. *)

NodeRef(ptr, hash) == [is_value |-> FALSE, ptr |-> ptr, sealed |-> FALSE, hash |-> hash]

ValueRef(sealed, hash) ==
    [is_value |-> TRUE, ptr |-> None, sealed |-> sealed, hash |-> hash]

is_sealed(ref) == IF ref.is_value THEN ref.sealed ELSE ref.ptr = None

Branch(children) == [kind |-> "Branch", key |-> NoBits, children |-> children]

Extension(key, child) == [kind |-> "Extension", key |-> key, children |-> <<child>>]

Free == [kind |-> "Free", key |-> NoBits, children |-> <<>>]

\* Node::hash: pointers and seals do not count.
Hash(node) ==
    <<node.kind, node.key,
      [i \in DOMAIN node.children |->
          [is_value |-> node.children[i].is_value, hash |-> node.children[i].hash]]>>

-----------------------------------------------------------------------------
(* A pool is a record: blocks are the blocks handed out so far (block i is *)
(* what pointer i points at; next_block is the one after the last), free   *)
(* is the linked list of freed blocks and panicked says that the double    *)
(* free assertion failed.  Capacity is the number of blocks to which the   *)
(* account can grow.                                                       *)

NewPool == [blocks |-> <<>>, free |-> <<>>, panicked |-> FALSE]

Write(pool, ptr, node) == [pool EXCEPT !.blocks[ptr] = node]

\* Allocator::alloc: no pointer when the free list is empty and the account
\* cannot grow.
CanAlloc(pool) == pool.free # <<>> \/ Len(pool.blocks) < Capacity

NextPtr(pool) == IF pool.free # <<>> THEN Head(pool.free) ELSE Len(pool.blocks) + 1

Alloc(pool, node) ==
    IF pool.free # <<>>
    THEN [Write(pool, Head(pool.free), node) EXCEPT !.free = Tail(@)]
    ELSE [pool EXCEPT !.blocks = Append(@, node)]

Release(pool, ptr) ==
    IF pool.blocks[ptr] = Free
    THEN [pool EXCEPT !.panicked = TRUE]
    ELSE [Write(pool, ptr, Free) EXCEPT !.free = <<ptr>> \o @]

-----------------------------------------------------------------------------
(* The write log.  Blocks are allocated at once; writes and releases wait  *)
(* for the commit.  Reads see the pool, not the log.                       *)

NewLog(pool) == [pool |-> pool, writes |-> <<>>, allocated |-> <<>>, freed |-> <<>>]

LogWrite(log, ptr, node) == [log EXCEPT !.writes = Append(@, <<ptr, node>>)]

LogFree(log, ptr) == [log EXCEPT !.freed = Append(@, ptr)]

LogCanAlloc(log) == log.freed # <<>> \/ CanAlloc(log.pool)

LogNextPtr(log) == IF log.freed # <<>> THEN Last(log.freed) ELSE NextPtr(log.pool)

LogAlloc(log, node) ==
    IF log.freed # <<>>
    THEN LogWrite([log EXCEPT !.freed = Front(@)], Last(log.freed), node)
    ELSE [log EXCEPT !.pool = Alloc(@, node), !.allocated = Append(@, NextPtr(log.pool))]

Commit(log) ==
    LET written == FoldLeft(LAMBDA p, w : Write(p, w[1], w[2]), log.pool, log.writes)
    IN  FoldLeft(Release, written, log.freed)

\* Mutant: a rollback that frees nothing.
Rollback_leaks(log) == log.pool

\* Dropping a log that was not committed.
Rollback(log) == FoldLeft(Release, log.pool, log.allocated)
=============================================================================
