-------------------------- MODULE SignatureAccount --------------------------
(***************************************************************************)
(* The signature verifier program: instructions of the native Ed25519      *)
(* program, how they are written and read, the account in which checked    *)
(* signatures are collected, and the lookups in it.                        *)
(*                                                                         *)
(*   signature-verifier/src/ed25519_program.rs                             *)
(*   signature-verifier/src/program.rs, api.rs, verifier.rs                *)
(*                                                                         *)
(* An entry is [signature, pubkey, message].  Instruction data is a        *)
(* sequence of cells that starts with the number of entries and a cell of  *)
(* offsets for each; signatures and keys take one cell, messages as many   *)
(* as they are long.  Offsets count cells from zero.                       *)
(*                                                                         *)
(* An account is [exists, cells, count]: room for hashes, of which the     *)
(* first count are in use.  A hash is a number, zero in fresh memory.      *)
(* exists stands for the program's test that the account has lamports:     *)
(* one it has created is rent exempt, and an address that was sent some    *)
(* before has no data, so that every update of it fails.                   *)
(***************************************************************************)
EXTENDS Integers, SequencesExt

CONSTANTS
    U8Max,              \* the greatest number of entries
    U16Max,             \* the greatest length of the data
    HashOf(_, _, _),    \* the hash of a key, a signature and a message
    Increase,           \* MAX_PERMITTED_DATA_INCREASE, in hashes
    MaxSize             \* MAX_PERMITTED_DATA_LENGTH, in hashes

-----------------------------------------------------------------------------
(* Instructions of the native program.                                     *)

\* The first cell after the offsets.
DataStart(n) == 1 + n

\* Earlier entries whose message starts with this one.
Duplicates(entries, i) ==
    {j \in 1 .. i - 1 : IsPrefix(entries[i].message, entries[j].message)}

\* Appends an entry; a message that is there already is not written again.
WriteEntry(entries, acc, i) ==
    LET e    == entries[i]
        same == Duplicates(entries, i)
        body == IF same = {} THEN acc.body \o e.message ELSE acc.body
        len  == DataStart(Len(entries)) + Len(body)
    IN  [offsets |-> Append(acc.offsets,
                       [signature |-> len, pubkey |-> len + 1,
                        message   |-> IF same = {} THEN DataStart(Len(entries)) + Len(acc.body)
                                      ELSE acc.offsets[Min(same)].message,
                        size      |-> Len(e.message),
                        elsewhere |-> FALSE]),
         body    |-> body \o <<e.signature, e.pubkey>>]

write_instruction_data(entries) ==
    LET all == FoldLeft(LAMBDA acc, i : WriteEntry(entries, acc, i),
                        [offsets |-> <<>>, body |-> <<>>],
                        [i \in 1 .. Len(entries) |-> i])
    IN  <<Len(entries)>> \o all.offsets \o all.body

\* new_instruction returns None otherwise.
MayCall(entries) ==
    /\ Len(entries) <= U8Max
    /\ 1 + 3 * Len(entries)
         + FoldLeft(LAMBDA acc, e : acc + Len(e.message), 0, entries) <= U16Max

-----------------------------------------------------------------------------
(* Reading.                                                                *)

\* The cells from a zero-based offset; none when they are not all there.
Cells(data, offset, n) ==
    IF offset + n <= Len(data) THEN SubSeq(data, offset + 1, offset + n) ELSE <<>>

\* An entry with parts in another instruction is unsupported.
decode_entry(data, o) ==
    LET signature == Cells(data, o.signature, 1)
        pubkey    == Cells(data, o.pubkey, 1)
        message   == Cells(data, o.message, o.size)
    IN  CASE o.elsewhere -> [result |-> "UnsupportedFeature"]
          [] ~o.elsewhere /\ (signature = <<>> \/ pubkey = <<>> \/ Len(message) # o.size) ->
               [result |-> "BadData"]
          [] OTHER -> [result |-> "Ok",
                       entry  |-> [signature |-> signature[1], pubkey |-> pubkey[1],
                                   message |-> message]]

\* The items of an instruction; BadData when the offsets are not all there.
parse_data(data) ==
    IF data = <<>> \/ Len(data) < 1 + data[1] THEN <<[result |-> "BadData"]>>
    ELSE [i \in 1 .. data[1] |-> decode_entry(data, data[1 + i])]

-----------------------------------------------------------------------------
(* The account.                                                            *)

Absent == [exists |-> FALSE, cells |-> <<>>, count |-> 0]

Zeros(n) == [i \in 1 .. n |-> 0]

SignatureHash(e) == HashOf(e.pubkey, e.signature, e.message)

-----------------------------------------------------------------------------
(* The program.  An instruction is [program, data].                        *)

\* The hashes of the entries that the previous instruction checked.
process_ed25519_instruction(ix) ==
    IF ix.program # "ed25519" THEN <<>>
    ELSE LET items == parse_data(ix.data)
             ok    == SelectSeq(items, LAMBDA item : item.result = "Ok")
         IN  [i \in DOMAIN ok |-> SignatureHash(ok[i].entry)]

WellFormed(ix) ==
    ix.program = "ed25519" =>
      \A i \in DOMAIN parse_data(ix.data) : parse_data(ix.data)[i].result # "BadData"

initialise_signatures_account(a) ==
    IF a.exists THEN a ELSE [exists |-> TRUE, cells |-> Zeros(Increase), count |-> 0]

\* Enlarged once at most: an account grows by no more in one instruction, and
\* one that was created in it does not grow again.
enlarge_signatures_account(a, created, needed) ==
    IF needed <= Len(a.cells) \/ created THEN a
    ELSE [a EXCEPT !.cells = @ \o Zeros(Min({Increase, MaxSize - Len(@)}))]

\* Mutant: the new hashes stay where they were written.
write_count_and_sort_unsorted(a, count) == [a EXCEPT !.count = count]

\* Only the hashes in use are sorted; what is left beyond them stays.
write_count_and_sort(a, count) ==
    LET sorted == SortSeq(SubSeq(a.cells, 1, count), LAMBDA x, y : x < y)
    IN  [a EXCEPT !.count = count,
                  !.cells = sorted \o SubSeq(@, count + 1, Len(@))]

\* The account after it made room for the hashes of an update.
Prepared(a, ix, truncate) ==
    LET needed == Min({a.count, truncate}) + Len(process_ed25519_instruction(ix))
    IN  enlarge_signatures_account(initialise_signatures_account(a), ~a.exists, needed)

MayUpdate(a, ix, truncate) ==
    /\ WellFormed(ix)
    /\ Min({a.count, truncate}) + Len(process_ed25519_instruction(ix))
         <= Len(Prepared(a, ix, truncate).cells)

handle_update(a, ix, truncate) ==
    LET new  == process_ed25519_instruction(ix)
        b    == Prepared(a, ix, truncate)
        from == Min({b.count, truncate})
        put  == [b EXCEPT !.cells = [i \in DOMAIN @ |->
                   IF i \in from + 1 .. from + Len(new) THEN new[i - from] ELSE @[i]]]
    IN  write_count_and_sort(put, from + Len(new))

free_signatures_account(a) == Absent

-----------------------------------------------------------------------------
(* Lookups.                                                                *)

\* slice::binary_search.
binary_search(s, x) ==
    LET look[lo \in 0 .. Len(s), hi \in 0 .. Len(s)] ==
          IF lo >= hi THEN FALSE
          ELSE LET mid == (lo + hi) \div 2
               IN  CASE s[mid + 1] = x -> TRUE
                     [] s[mid + 1] < x -> look[mid + 1, hi]
                     [] s[mid + 1] > x -> look[lo, mid]
    IN  look[0, Len(s)]

find_sighash(a, hash) ==
    a.exists /\ binary_search(SubSeq(a.cells, 1, a.count), hash)

\* Verifier::verify with the signatures account, the only source that the
\* delivery of a message has.
verify(a, e) == find_sighash(a, SignatureHash(e))
=============================================================================
