------------------------------ MODULE TrieOps ------------------------------
(***************************************************************************)
(* The operations of the sealable trie as functions of the pool, the root  *)
(* reference and the key:                                                  *)
(*                                                                         *)
(*   sealable-trie/src/trie/set.rs, seal.rs, del.rs, iter.rs               *)
(*   sealable-trie/src/trie.rs     get_impl                                *)
(*                                                                         *)
(* set and del walk the trie with a write log; an outcome is a record with *)
(* res ("Ok" or an error), the log and what the caller needs next.  An     *)
(* assertion or unwrap that fails is the error "Panic".                    *)
(***************************************************************************)
EXTENDS TrieNodes

Fail(log, error) == [res |-> error, log |-> log, ref |-> NodeRef(None, EMPTY_TRIE_ROOT)]

Done(log, ref) == [res |-> "Ok", log |-> log, ref |-> ref]

\* The ? operator: go on with the reference unless there is an error.
Then(outcome, Next(_, _)) ==
    IF outcome.res = "Ok" THEN Next(outcome.log, outcome.ref) ELSE outcome

set_node(log, ptr, node) == Done(LogWrite(log, ptr, node), NodeRef(ptr, Hash(node)))

alloc_node(log, node) ==
    IF LogCanAlloc(log)
    THEN Done(LogAlloc(log, node), NodeRef(LogNextPtr(log), Hash(node)))
    ELSE Fail(log, "OutOfMemory")

\* The Extensions that lead along a key to a reference; none for no key.
AllocChain(log, key, ref) ==
    FoldRight(LAMBDA chunk, outcome :
                  Then(outcome, LAMBDA l, r : alloc_node(l, Extension(chunk, r))),
              chunks(key), Done(log, ref))

-----------------------------------------------------------------------------
(* set.rs *)

insert_value(log, key, value) == AllocChain(log, key, ValueRef(FALSE, value))

\* handle_extension when the keys part after n bits: a Branch takes the block
\* of the Extension, what is left of its key goes below and above.
SplitExtension(log, key, value, ptr, ext, child, n) ==
    LET our  == key.bits[n + 1]
        tail == Skip(ext, n + 1)
    IN  Then(insert_value(log, Skip(key, n + 1), value),
        LAMBDA l1, ours :
        Then(IF is_empty(tail) THEN Done(l1, child) ELSE alloc_node(l1, Extension(tail, child)),
        LAMBDA l2, theirs :
        Then(set_node(l2, ptr, Branch(IF our = 0 THEN <<ours, theirs>> ELSE <<theirs, ours>>)),
        LAMBDA l3, branch :
            IF n = 0 THEN Done(l3, branch)
            ELSE alloc_node(l3, Extension(Take(ext, n), branch)))))

RECURSIVE SetAt(_, _, _, _)

\* Mutant: a sealed value is replaced.
SetReference_ignores_seal(log, key, value, ref) ==
    IF ~ref.is_value THEN SetAt(log, key, value, ref)
    ELSE IF ~is_empty(key) THEN Fail(log, "BadKeyPrefix")
    ELSE Done(log, ValueRef(FALSE, value))

\* handle_reference
SetReference(log, key, value, ref) ==
    IF ~ref.is_value THEN SetAt(log, key, value, ref)
    ELSE IF ~is_empty(key) THEN Fail(log, "BadKeyPrefix")
    ELSE IF ref.sealed THEN Fail(log, "Sealed")
    ELSE Done(log, ValueRef(FALSE, value))

\* handle_branch
SetBranch(log, key, value, ptr, children) ==
    LET side == key.bits[1] + 1
    IN  IF is_empty(key) THEN Fail(log, "BadKeyPrefix")
        ELSE Then(SetReference(log, Skip(key, 1), value, children[side]),
                  LAMBDA l, ref : set_node(l, ptr, Branch([children EXCEPT ![side] = ref])))

\* handle_extension
SetExtension(log, key, value, ptr, ext, child) ==
    LET n == CommonLen(key, ext)
    IN  CASE is_empty(key) -> Fail(log, "BadKeyPrefix")
          [] n = Len(ext.bits) ->
                 Then(SetReference(log, Skip(key, n), value, child),
                      LAMBDA l, ref : set_node(l, ptr, Extension(ext, ref)))
          [] n < Len(ext.bits) /\ n = Len(key.bits) -> Fail(log, "BadKeyPrefix")
          [] OTHER -> IF key.bits[n + 1] = ext.bits[n + 1] THEN Fail(log, "Panic")
                      ELSE SplitExtension(log, key, value, ptr, ext, child, n)

\* handle
SetAt(log, key, value, ref) ==
    IF ref.ptr = None THEN Fail(log, "Sealed")
    ELSE LET node == log.pool.blocks[ref.ptr]
         IN  CASE node.kind = "Branch" -> SetBranch(log, key, value, ref.ptr, node.children)
               [] node.kind = "Extension" ->
                      SetExtension(log, key, value, ref.ptr, node.key, node.children[1])
               [] OTHER -> Fail(log, "BadRawNode")

\* Context::set.  The outcome carries the pool after the commit or rollback.
set(pool, root, key, value) ==
    LET log == NewLog(pool)
        out == IF root.ptr # None THEN SetAt(log, key, value, root)
               ELSE IF root.hash # EMPTY_TRIE_ROOT THEN Fail(log, "Sealed")
               ELSE IF is_empty(key) THEN Fail(log, "EmptyKey")
               ELSE insert_value(log, key, value)
    IN  IF out.res = "Ok" THEN [res |-> "Ok", pool |-> Commit(out.log), root |-> out.ref]
        ELSE [res |-> out.res, pool |-> Rollback(out.log), root |-> root]

-----------------------------------------------------------------------------
(* seal.rs.  Nothing is logged: blocks change on the way back from a value *)
(* that could be sealed, so an error leaves the pool as it was.            *)
(* An outcome says whether the reference became sealed.                    *)

Unsealable(pool, error) == [res |-> error, pool |-> pool, sealed |-> FALSE]

Sealed(pool, sealed) == [res |-> "Ok", pool |-> pool, sealed |-> sealed]

SealedRef(ref) ==
    IF ref.is_value THEN ValueRef(TRUE, ref.hash) ELSE NodeRef(None, ref.hash)

RECURSIVE SealAt(_, _, _)

\* seal_child
SealChild(pool, key, ref) ==
    IF ~ref.is_value THEN SealAt(pool, key, ref)
    ELSE IF ref.sealed THEN Unsealable(pool, "Sealed")
    ELSE IF is_empty(key) THEN Sealed(pool, TRUE)
    ELSE Unsealable(pool, "NotFound")

\* seal_branch, and what seal does with its result
SealBranch(pool, key, ptr, children) ==
    LET side == key.bits[1] + 1
        out  == SealChild(pool, Skip(key, 1), children[side])
    IN  IF is_empty(key) THEN Unsealable(pool, "NotFound")
        ELSE IF out.res # "Ok" \/ ~out.sealed THEN out
        ELSE IF is_sealed(children[3 - side]) THEN Sealed(Release(out.pool, ptr), TRUE)
        ELSE Sealed(Write(out.pool, ptr, Branch([children EXCEPT ![side] = SealedRef(@)])),
                    FALSE)

\* seal_extension, and what seal does with its result: the Extension stays.
SealExtension(pool, key, ptr, ext, child) ==
    LET out == SealChild(pool, Skip(key, Len(ext.bits)), child)
    IN  IF ~starts_with(key, ext) THEN Unsealable(pool, "NotFound")
        ELSE IF out.res # "Ok" \/ ~out.sealed THEN out
        ELSE Sealed(Write(out.pool, ptr, Extension(ext, SealedRef(child))), FALSE)

\* Context::seal
SealAt(pool, key, ref) ==
    IF ref.ptr = None THEN Unsealable(pool, "Sealed")
    ELSE LET node == pool.blocks[ref.ptr]
         IN  CASE node.kind = "Branch" -> SealBranch(pool, key, ref.ptr, node.children)
               [] node.kind = "Extension" ->
                      SealExtension(pool, key, ref.ptr, node.key, node.children[1])
               [] OTHER -> Unsealable(pool, "BadRawNode")

\* Trie::seal_impl
seal_impl(pool, root, key) ==
    LET out == SealAt(pool, key, root)
    IN  [res |-> out.res, pool |-> out.pool,
         root |-> IF out.sealed THEN SealedRef(root) ELSE root]

-----------------------------------------------------------------------------
(* del.rs.  An outcome also carries the action: the reference is gone      *)
(* ("Drop"), has a new value ("Ref") or is to be reached by an Extension   *)
(* that is not allocated yet ("Ext").                                      *)

DelFail(log, error) == [act |-> "None", key |-> NoBits] @@ Fail(log, error)

DropAction(log) == [act |-> "Drop", key |-> NoBits] @@ Done(log, ValueRef(FALSE, EMPTY_TRIE_ROOT))

RefAction(outcome) == [act |-> "Ref", key |-> NoBits] @@ outcome

ExtAction(log, key, ref) == [act |-> "Ext", key |-> key] @@ Done(log, ref)

ref_from_action(out) ==
    IF out.res = "Ok" /\ out.act = "Ext"
    THEN RefAction(AllocChain(out.log, out.key, out.ref))
    ELSE out

\* Mutant: the Extension below is not merged.
maybe_pop_extension_never(log, bit, child, offset) ==
    ExtAction(log, [off |-> offset, bits |-> <<bit>>], child)

\* What is left of a Branch whose other child is gone: the way to the child,
\* merged with the child when that is an Extension.
maybe_pop_extension(log, bit, child, offset) ==
    IF /\ ~child.is_value /\ child.ptr # None
       /\ log.pool.blocks[child.ptr].kind = "Extension"
    THEN LET node == log.pool.blocks[child.ptr]
         IN  ExtAction(LogFree(log, child.ptr), PrependBit(bit, node.key), node.children[1])
    ELSE ExtAction(log, [off |-> offset, bits |-> <<bit>>], child)

RECURSIVE DelAt(_, _, _)

\* handle_reference
DelReference(log, key, ref) ==
    IF ~ref.is_value THEN DelAt(log, key, ref)
    ELSE IF ref.sealed THEN DelFail(log, "Sealed")
    ELSE IF is_empty(key) THEN DropAction(log)
    ELSE DelFail(log, "NotFound")

\* handle_branch
DelBranch(log, key, ptr, children) ==
    LET side == key.bits[1] + 1
        out  == ref_from_action(DelReference(log, Skip(key, 1), children[side]))
    IN  IF is_empty(key) THEN DelFail(log, "NotFound")
        ELSE IF out.res # "Ok" THEN out
        ELSE IF out.act = "Ref"
             THEN RefAction(set_node(out.log, ptr, Branch([children EXCEPT ![side] = out.ref])))
        ELSE maybe_pop_extension(LogFree(out.log, ptr), 2 - side, children[3 - side], key.off)

\* handle_extension
DelExtension(log, key, ptr, ext, child) ==
    LET out == DelReference(LogFree(log, ptr), Skip(key, Len(ext.bits)), child)
    IN  IF ~starts_with(key, ext) THEN DelFail(log, "NotFound")
        ELSE IF out.res # "Ok" THEN out
        ELSE CASE out.act = "Drop" -> out
               [] out.act = "Ref"  -> ExtAction(out.log, ext, out.ref)
               [] OTHER -> IF Aligned(ext, out.key)
                           THEN ExtAction(out.log, concat(ext, out.key), out.ref)
                           ELSE DelFail(out.log, "Panic")

\* handle
DelAt(log, key, ref) ==
    IF ref.ptr = None THEN DelFail(log, "Sealed")
    ELSE LET node == log.pool.blocks[ref.ptr]
         IN  CASE node.kind = "Branch" -> DelBranch(log, key, ref.ptr, node.children)
               [] node.kind = "Extension" ->
                      DelExtension(log, key, ref.ptr, node.key, node.children[1])
               [] OTHER -> DelFail(log, "BadRawNode")

\* Context::del and Trie::del
del(pool, root, key) ==
    LET out == IF root.hash = EMPTY_TRIE_ROOT THEN DelFail(NewLog(pool), "NotFound")
               ELSE ref_from_action(DelAt(NewLog(pool), key, root))
    IN  CASE out.res # "Ok" -> [res |-> out.res, pool |-> Rollback(out.log), root |-> root]
          [] out.act = "Drop" -> [res  |-> "Ok", pool |-> Commit(out.log),
                                  root |-> NodeRef(None, EMPTY_TRIE_ROOT)]
          [] OTHER -> [res  |-> IF out.ref.is_value THEN "Panic" ELSE "Ok",
                       pool |-> Commit(out.log), root |-> out.ref]
=============================================================================
