---------------------------- MODULE WriteAccount ----------------------------
(***************************************************************************)
(* Instructions too long for one transaction: written to an account in     *)
(* chunks and read from there by the IBC program.                          *)
(*                                                                         *)
(*   write-account/src/program.rs, instruction.rs                          *)
(*   solana-ibc/src/ix_data_account.rs                                     *)
(*                                                                         *)
(* An account is [exists, data].  Data are cells, the first of which is    *)
(* the length of the instruction that follows.  exists stands for the      *)
(* program's test that the account has lamports: one it has created is     *)
(* rent exempt, and an address that was sent some before belongs to the    *)
(* system program, so that every write to it fails.                        *)
(***************************************************************************)
EXTENDS Integers, Sequences

CONSTANTS
    chunk_size,     \* WriteIter::chunk_size
    WriteIncrease   \* MAX_PERMITTED_DATA_INCREASE, in cells

NoData == [exists |-> FALSE, data |-> <<>>]

-----------------------------------------------------------------------------
(* The caller: the length is put before the instruction, and the whole is  *)
(* cut into chunks.                                                        *)

Prefixed(call) == <<Len(call)>> \o call

\* Offsets of the chunks.
WriteIter(call) == {o \in 0 .. Len(call) : o % chunk_size = 0}

Chunk(call, offset) ==
    LET end == IF offset + chunk_size < Len(Prefixed(call))
               THEN offset + chunk_size ELSE Len(Prefixed(call))
    IN  SubSeq(Prefixed(call), offset + 1, end)

-----------------------------------------------------------------------------
(* The program.                                                            *)

\* Mutant: the account is always given the size of the write.
setup_write_account_exact(a, size) ==
    [exists |-> TRUE, data |-> [i \in 1 .. size |->
                                  IF i <= Len(a.data) THEN a.data[i] ELSE 0]]

\* Created or enlarged as necessary, never made smaller.
setup_write_account(a, size) ==
    IF Len(a.data) >= size THEN [a EXCEPT !.exists = TRUE]
    ELSE [exists |-> TRUE, data |-> [i \in 1 .. size |->
                                       IF i <= Len(a.data) THEN a.data[i] ELSE 0]]

\* An account grows by a limited amount in one instruction.
MayWrite(a, offset, chunk) == offset + Len(chunk) <= Len(a.data) + WriteIncrease

handle_write(a, offset, chunk) ==
    [setup_write_account(a, offset + Len(chunk)) EXCEPT
       !.data = [i \in DOMAIN @ |-> IF i \in offset + 1 .. offset + Len(chunk)
                                    THEN chunk[i - offset] ELSE @[i]]]

handle_free(a) == NoData

-----------------------------------------------------------------------------
(* The IBC program takes the instruction from the account.                 *)

\* There is one: the prefix and as many cells as it says.
HasIxData(a) == a.data # <<>> /\ a.data[1] < Len(a.data)

get_ix_data(a) == SubSeq(a.data, 2, a.data[1] + 1)
=============================================================================
