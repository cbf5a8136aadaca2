------------------------------- MODULE Uploads ------------------------------
(***************************************************************************)
(* A caller uploads a long instruction and the signatures that it needs    *)
(* over many transactions, then has the IBC program execute it.            *)
(*                                                                         *)
(*   solana-ibc/src/lib.rs            entrypoint, deliver                  *)
(*   solana-ibc/src/allocator.rs      the global verifier                  *)
(*   solana-ibc/src/client_state/impls.rs   the signature check            *)
(*                                                                         *)
(* Transactions are lost, repeated and reordered: any chunk of any         *)
(* instruction and any batch of signatures may be executed at any time,    *)
(* also out of what the caller meant to be an earlier upload.              *)
(*                                                                         *)
(* An instruction carries a header, <<message, key, ..., key>>: the number *)
(* of the message that is signed and the keys whose signatures it claims.  *)
(* Which signatures a light client asks for is in module GuestClient.      *)
(***************************************************************************)
EXTENDS SignatureAccount, WriteAccount

CONSTANTS
    Calls,      \* the instructions that the caller uploads
    Messages,   \* sequence of the messages that are signed
    Keys,       \* validators
    Batches,    \* sequences of (key, message) pairs checked by one transaction
    Truncates   \* values of the truncate argument

VARIABLES
    write,      \* the write account
    sigs,       \* the signatures account
    accepted,   \* the header that the IBC program accepted last
    upload,     \* the last call written and its chunks since another write or a free
    checked,    \* entries that the native program ever checked
    kept        \* entries collected since the last truncation or free

vars == <<write, sigs, accepted, upload, checked, kept>>

ASSUME UploadsAssumption ==
    /\ chunk_size \in Nat \ {0} /\ Increase \in Nat \ {0}
    /\ \A c \in Calls : c[1] \in DOMAIN Messages /\ \A i \in 2 .. Len(c) : c[i] \in Keys

NoUpload == [call |-> <<>>, chunks |-> {}]

Init ==
    /\ write = NoData /\ sigs = Absent
    /\ accepted = <<>> /\ checked = {} /\ kept = {}
    /\ upload = NoUpload

\* A signature of a message is named by the key that made it.
Entry(key, m) == [signature |-> key, pubkey |-> key, message |-> Messages[m]]

-----------------------------------------------------------------------------
WriteChunk(call, offset) ==
    /\ MayWrite(write, offset, Chunk(call, offset))
    /\ write' = handle_write(write, offset, Chunk(call, offset))
    /\ upload' = [call   |-> call,
                  chunks |-> {offset} \cup (IF upload.call = call THEN upload.chunks ELSE {})]
    /\ UNCHANGED <<sigs, accepted, checked, kept>>

FreeWrite ==
    /\ write.exists
    /\ write' = handle_free(write)
    /\ upload' = NoUpload
    /\ UNCHANGED <<sigs, accepted, checked, kept>>

\* The transaction calls the native program, or another one, and then the
\* verifier.  The native program fails unless it could check every entry,
\* those that refer to another instruction included.
UpdateSignatures(batch, elsewhere, program, truncate) ==
    LET entries == [i \in DOMAIN batch |-> Entry(batch[i][1], batch[i][2])]
        written == write_instruction_data(entries)
        ix      == [program |-> program,
                    data    |-> [j \in DOMAIN written |->
                                   IF j - 1 \in elsewhere
                                   THEN [written[j] EXCEPT !.elsewhere = TRUE] ELSE written[j]]]
        here    == IF program = "ed25519" THEN {entries[i] : i \in DOMAIN entries \ elsewhere} ELSE {}
    IN  /\ MayCall(entries)
        /\ MayUpdate(sigs, ix, truncate)
        /\ sigs' = handle_update(sigs, ix, truncate)
        /\ checked' = checked \cup here
        /\ kept' = here \cup (IF truncate < sigs.count THEN {} ELSE kept)
        /\ UNCHANGED <<write, accepted, upload>>

FreeSignatures ==
    /\ sigs.exists
    /\ sigs' = free_signatures_account(sigs)
    /\ kept' = {}
    /\ UNCHANGED <<write, accepted, upload, checked>>

\* The account passed last: the caller's, or one with the same layout that
\* another program owns and where any hash may be.
Owners == {"sigverify", "other"}

\* Mutant: the owner of the account is not looked at.
Verifies_any(owner, e) == owner = "other" \/ verify(sigs, e)

\* set_sigverify_account and SigVerifier::verify with the global verifier.
Verifies(owner, e) == owner = "sigverify" /\ verify(sigs, e)

deliver(owner) ==
    LET header == get_ix_data(write)
    IN  /\ HasIxData(write)
        /\ Len(header) >= 2 /\ header[1] \in DOMAIN Messages
        /\ \A i \in 2 .. Len(header) :
             header[i] \in Keys /\ Verifies(owner, Entry(header[i], header[1]))
        /\ accepted' = header
        /\ UNCHANGED <<write, sigs, upload, checked, kept>>

Next ==
    \/ \E c \in Calls : \E o \in WriteIter(c) : WriteChunk(c, o)
    \/ FreeWrite
    \/ \E b \in Batches, t \in Truncates : UpdateSignatures(b, {}, "ed25519", t)
    \/ \E b \in Batches, t \in Truncates : UpdateSignatures(b, {1}, "ed25519", t)
    \/ \E b \in Batches, t \in Truncates : UpdateSignatures(b, {}, "other", t)
    \/ FreeSignatures
    \/ \E owner \in Owners : deliver(owner)

Spec == Init /\ [][Next]_vars

-----------------------------------------------------------------------------
(* The count never runs past the account nor the account past the limit of *)
(* the host, whichever updates made it grow.                               *)
TypeOK ==
    /\ sigs.count \in 0 .. Len(sigs.cells)
    /\ Len(sigs.cells) <= MaxSize
    /\ sigs.exists \in BOOLEAN /\ write.exists \in BOOLEAN

(* Once every chunk of an instruction was written, in whatever order and   *)
(* however often, and nothing else since, the IBC program reads exactly    *)
(* that instruction, whatever a longer or a partial one left behind.       *)
WholeCallsAreRead ==
    upload.call # <<>> /\ upload.chunks = WriteIter(upload.call) =>
      HasIxData(write) /\ get_ix_data(write) = upload.call

AllEntries == {Entry(k, m) : k \in Keys, m \in DOMAIN Messages}

\* A signature is found only if the native program checked it, for that key
\* and that message.
OnlyCheckedAreFound ==
    \A e \in AllEntries : verify(sigs, e) => e \in checked

\* Signatures that were collected are found until somebody truncates or frees
\* the account.
CollectedAreFound == \A e \in kept : verify(sigs, e)

(* The binary search over the account finds every signature that was       *)
(* collected and none that was not checked, however many transactions      *)
(* collected them, in whatever order and however often, and whether or not *)
(* the account had to grow or was truncated.                               *)
LookupIsExact == TypeOK /\ OnlyCheckedAreFound /\ CollectedAreFound

(* No header is accepted, not even one patched together from two uploads,  *)
(* unless every signature it claims was checked.                           *)
AcceptedAreSigned ==
    \A i \in 2 .. Len(accepted) : Entry(accepted[i], accepted[1]) \in checked
=============================================================================
