----------------------------- MODULE TrieLookup -----------------------------
(***************************************************************************)
(* Reading the trie, with and without a proof, and verifying a proof:      *)
(*                                                                         *)
(*   sealable-trie/src/trie.rs       get_impl, get, prove                  *)
(*   sealable-trie/src/proof.rs      Proof                                 *)
(*   sealable-trie/src/trie/iter.rs  get_entries                           *)
(*                                                                         *)
(* A proof is a record: kind is "Positive" or "Negative", items go from    *)
(* the value to the root, actual is what a failed lookup met.              *)
(***************************************************************************)
EXTENDS TrieNodes

CONSTANT Absent     \* the None of an Option<CryptoHash>

OwnedRef(is_value, hash) == [is_value |-> is_value, hash |-> hash]

Owned(ref) == OwnedRef(ref.is_value, ref.hash)

NoNode == OwnedRef(FALSE, EMPTY_TRIE_ROOT)

BranchItem(other) == [kind |-> "Branch", len |-> 1, other |-> other]

ExtItem(len) == [kind |-> "Extension", len |-> len, other |-> NoNode]

\* What stopped the lookup: left is what remained of the lookup key.
Actual(kind, left, key, refs) == [kind |-> kind, left |-> left, key |-> key, refs |-> refs]

Positive(items) ==
    [kind |-> "Positive", items |-> items, actual |-> Actual("None", 0, NoBits, <<>>)]

Negative(actual, items) == [kind |-> "Negative", items |-> items, actual |-> actual]

EmptyTrieProof == Negative(Actual("None", 0, NoBits, <<>>), <<>>)

Found(value, proof) == [res |-> "Ok", value |-> value, proof |-> proof]

Unreadable(error) == [res |-> error, value |-> Absent, proof |-> EmptyTrieProof]

-----------------------------------------------------------------------------
RECURSIVE Lookup(_, _, _, _)

\* The reference at the end of one turn of the loop in get_impl.
LookupRef(pool, ref, key, items) ==
    IF ~ref.is_value THEN Lookup(pool, ref, key, items)
    ELSE IF ref.sealed THEN Unreadable("Sealed")
    ELSE IF is_empty(key) THEN Found(ref.hash, Positive(items))
    ELSE Found(Absent, Negative(Actual("LookupKeyLeft", Len(key.bits), NoBits, <<Owned(ref)>>),
                                items))

\* One turn of the loop.  Items are put in front, which is the reversal at
\* the end.
Lookup(pool, ref, key, items) ==
    IF ref.ptr = None THEN Unreadable("Sealed")
    ELSE
    LET node == pool.blocks[ref.ptr]
        side == key.bits[1] + 1
        left == Len(key.bits)
        refs == [i \in DOMAIN node.children |-> Owned(node.children[i])]
    IN  CASE node.kind = "Branch" ->
               IF is_empty(key)
               THEN Found(Absent, Negative(Actual("Branch", 0, NoBits, refs), items))
               ELSE LookupRef(pool, node.children[side], Skip(key, 1),
                              <<BranchItem(refs[3 - side])>> \o items)
          [] node.kind = "Extension" ->
               IF starts_with(key, node.key)
               THEN LookupRef(pool, node.children[1], Skip(key, Len(node.key.bits)),
                              <<ExtItem(Len(node.key.bits))>> \o items)
               ELSE Found(Absent, Negative(Actual("Extension", left, node.key, refs), items))
          [] OTHER -> Unreadable("BadRawNode")

get_impl(pool, root, key) ==
    IF root.hash = EMPTY_TRIE_ROOT THEN Found(Absent, EmptyTrieProof)
    ELSE Lookup(pool, root, from_bytes(key), <<>>)

-----------------------------------------------------------------------------
(* Verification. *)

To(node) == OwnedRef(FALSE, Hash(node))

\* One item on the way to the root: [ok, key, want].
Fold(acc, item) ==
    LET len  == Len(acc.key.bits)
        rest == Take(acc.key, len - item.len)
        ext  == Skip(acc.key, len - item.len)
    IN  IF ~acc.ok \/ item.len > len \/ item.len = 0 THEN [acc EXCEPT !.ok = FALSE]
        ELSE IF item.kind = "Branch"
        THEN [ok |-> TRUE, key |-> rest,
              want |-> To(Branch(IF ext.bits[1] = 0 THEN <<acc.want, item.other>>
                                 ELSE <<item.other, acc.want>>))]
        ELSE [ok |-> IsExtKey(ext), key |-> rest, want |-> To(Extension(ext, acc.want))]

verify_impl(root_hash, key, want, items) ==
    LET end == FoldLeft(Fold, [ok |-> TRUE, key |-> key, want |-> want], items)
    IN  end.ok /\ is_empty(end.key) /\ ~end.want.is_value /\ end.want.hash = root_hash

\* Mutant: the key of the Extension is not compared with the lookup key.
Reference_unchecked(actual, key) ==
    LET short == Take(key, Len(key.bits) - actual.left)
    IN  CASE actual.kind = "Branch" -> [ok |-> TRUE, key |-> key, want |-> To(Branch(actual.refs))]
          [] actual.kind = "Extension" ->
                 [ok   |-> actual.left <= Len(key.bits),
                  key  |-> short,
                  want |-> To(Extension(actual.key, actual.refs[1]))]
          [] actual.kind = "LookupKeyLeft" ->
                 [ok |-> actual.left <= Len(key.bits), key |-> short, want |-> actual.refs[1]]
          [] OTHER -> [ok |-> FALSE, key |-> key, want |-> NoNode]

\* get_reference: the key and reference that a negative proof shows to exist.
Reference(actual, key) ==
    LET short == Take(key, Len(key.bits) - actual.left)
    IN  CASE actual.kind = "Branch" -> [ok |-> TRUE, key |-> key, want |-> To(Branch(actual.refs))]
          [] actual.kind = "Extension" ->
                 [ok   |-> /\ actual.left <= Len(key.bits)
                           /\ ~starts_with(Skip(key, Len(key.bits) - actual.left), actual.key),
                  key  |-> short,
                  want |-> To(Extension(actual.key, actual.refs[1]))]
          [] actual.kind = "LookupKeyLeft" ->
                 [ok |-> actual.left <= Len(key.bits), key |-> short, want |-> actual.refs[1]]
          [] OTHER -> [ok |-> FALSE, key |-> key, want |-> NoNode]

\* Membership::verify
VerifyPositive(proof, root_hash, key, value) ==
    /\ root_hash # EMPTY_TRIE_ROOT
    /\ verify_impl(root_hash, from_bytes(key), OwnedRef(TRUE, value), proof.items)

\* NonMembership::verify
VerifyNegative(proof, root_hash, key) ==
    \/ root_hash = EMPTY_TRIE_ROOT
    \/ LET ref == Reference(proof.actual, from_bytes(key))
       IN  ref.ok /\ verify_impl(root_hash, ref.key, ref.want, proof.items)

\* Proof::verify
verify(proof, root_hash, key, value) ==
    \/ proof.kind = "Positive" /\ value # Absent /\ VerifyPositive(proof, root_hash, key, value)
    \/ proof.kind = "Negative" /\ value = Absent /\ VerifyNegative(proof, root_hash, key)

-----------------------------------------------------------------------------
(* get_entries: the entries below a key, as records [sealed, sub_key,      *)
(* value], in order.                                                       *)

Entry(sealed, sub_key, value) == [sealed |-> sealed, sub_key |-> sub_key, value |-> value]

RECURSIVE EntriesAt(_, _, _)

\* Context::handle_node and handle_ref
EntriesAt(pool, ref, prefix) ==
    IF ref.is_value THEN <<Entry(ref.sealed, prefix, ref.hash)>>
    ELSE IF ref.ptr = None THEN <<Entry(TRUE, prefix, Absent)>>
    ELSE LET node == pool.blocks[ref.ptr]
         IN  IF node.kind = "Branch"
             THEN EntriesAt(pool, node.children[1], Append(prefix, 0))
                      \o EntriesAt(pool, node.children[2], Append(prefix, 1))
             ELSE EntriesAt(pool, node.children[1], prefix \o node.key.bits)

RECURSIVE Subtrie(_, _, _)

\* Mutant: an Extension that goes on below the key is taken for another key.
Subtrie_exact(pool, ref, key) ==
    IF ref.is_value THEN IF is_empty(key) THEN EntriesAt(pool, ref, <<>>) ELSE <<>>
    ELSE IF is_empty(key) \/ ref.ptr = None THEN EntriesAt(pool, ref, <<>>)
    ELSE LET node == pool.blocks[ref.ptr]
         IN  CASE node.kind = "Branch" ->
                    Subtrie(pool, node.children[key.bits[1] + 1], Skip(key, 1))
               [] node.kind = "Extension" /\ starts_with(key, node.key) ->
                    Subtrie(pool, node.children[1], Skip(key, Len(node.key.bits)))
               [] OTHER -> <<>>

\* get_subtrie_root, and the entries below the root it finds
Subtrie(pool, ref, key) ==
    IF ref.is_value THEN IF is_empty(key) THEN EntriesAt(pool, ref, <<>>) ELSE <<>>
    ELSE IF is_empty(key) \/ ref.ptr = None THEN EntriesAt(pool, ref, <<>>)
    ELSE LET node == pool.blocks[ref.ptr]
         IN  CASE node.kind = "Branch" ->
                    Subtrie(pool, node.children[key.bits[1] + 1], Skip(key, 1))
               [] node.kind = "Extension" /\ starts_with(key, node.key) ->
                    Subtrie(pool, node.children[1], Skip(key, Len(node.key.bits)))
               [] node.kind = "Extension" /\ starts_with(node.key, key) ->
                    EntriesAt(pool, node.children[1], Skip(node.key, Len(key.bits)).bits)
               [] OTHER -> <<>>

get_subtrie(pool, root, key) ==
    IF root.hash = EMPTY_TRIE_ROOT THEN <<>> ELSE Subtrie(pool, root, from_bytes(key))
=============================================================================
