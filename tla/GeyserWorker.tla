---------------------------- MODULE GeyserWorker ----------------------------
(***************************************************************************)
(* The plugin of a Solana validator that builds proofs of the witness      *)
(* account and offers them to relayers.                                    *)
(*                                                                         *)
(*   solana/trie-geyser-plugin/src/plugin.rs, worker.rs, rpc.rs, types.rs  *)
(*   solana/trie-geyser-plugin/src/config.rs                               *)
(*                                                                         *)
(* A worker is [thread, slots, db]: whether its thread is there, runs or   *)
(* has panicked, the accumulators of slots that are not rooted yet, and    *)
(* the database, a sequence of [slot, data].  An accumulator is [block,    *)
(* accounts, num_sigs], where accounts maps keys to [write_version,        *)
(* account].                                                               *)
(***************************************************************************)
EXTENDS AccountProofs, Functions, TLC

CONSTANT MAX_SLOTS

ASSUME MaxSlotsAssumption == MAX_SLOTS \in Nat \ {0}

-----------------------------------------------------------------------------
(* The database.                                                           *)

\* An entry that is not newer than the last one is refused.
add(db, slot, data) ==
    IF db # <<>> /\ Last(db).slot >= slot THEN db
    ELSE Append(IF Len(db) = MAX_SLOTS THEN Tail(db) ELSE db, [slot |-> slot, data |-> data])

list_slots(db) == {db[i].slot : i \in DOMAIN db}

-----------------------------------------------------------------------------
(* The worker's messages.                                                  *)

\* on_load and on_unload: nothing survives.
Loaded == [thread |-> "runs", slots |-> <<>>, db |-> <<>>]
Unloaded == [thread |-> "none", slots |-> <<>>, db |-> <<>>]

NewAccumulator == [block |-> None, accounts |-> <<>>, num_sigs |-> 0]

Accumulator(w, slot) == IF slot \in DOMAIN w.slots THEN w.slots[slot] ELSE NewAccumulator

SetAccumulator(w, slot, acc) == [w EXCEPT !.slots = (slot :> acc) @@ @]

\* Mutant: the update that comes last is kept.
handle_account_last(w, m) ==
    LET acc  == Accumulator(w, m.slot)
        item == [write_version |-> m.write_version, account |-> m.account]
    IN  SetAccumulator(w, m.slot, [acc EXCEPT !.accounts = (m.account.key :> item) @@ @])

\* Of the updates of an account the one with the greatest version is kept.
handle_account(w, m) ==
    LET acc  == Accumulator(w, m.slot)
        item == [write_version |-> m.write_version, account |-> m.account]
    IN  IF m.account.key \in DOMAIN acc.accounts
             /\ acc.accounts[m.account.key].write_version >= m.write_version
        THEN w
        ELSE SetAccumulator(w, m.slot, [acc EXCEPT !.accounts = (m.account.key :> item) @@ @])

handle_transaction(w, m) ==
    SetAccumulator(w, m.slot, [Accumulator(w, m.slot) EXCEPT !.num_sigs = @ + m.num_sigs])

handle_block(w, m) == SetAccumulator(w, m.slot, [Accumulator(w, m.slot) EXCEPT !.block = m.block])

\* The accounts of an accumulator without their versions.
Accounts(acc) == [k \in DOMAIN acc.accounts |-> acc.accounts[k].account]

\* Nothing is published unless both accounts changed and the block is known.
IsComplete(acc, config) ==
    /\ config.witness_account \in DOMAIN acc.accounts
    /\ config.root_account \in DOMAIN acc.accounts
    /\ acc.block # None

SlotData(acc, config) ==
    LET p == generate_proof(Accounts(acc), config.witness_account)
    IN  [delta_hash_proof |-> [parent_blockhash    |-> acc.block.parent_blockhash,
                               accounts_delta_hash |-> p.root,
                               num_sigs            |-> acc.num_sigs,
                               blockhash           |-> acc.block.blockhash,
                               epoch_accounts_hash |-> None],
         witness_proof    |-> [account |-> p.account, proof |-> p.proof],
         root_account     |-> acc.accounts[config.root_account].account]

\* Mutant: the accumulators of all slots are dropped.
DropUpTo_all(w, slot) == [w EXCEPT !.slots = <<>>]

\* The accumulators up to a slot are dropped.
DropUpTo(w, slot) == [w EXCEPT !.slots = Restrict(@, {s \in DOMAIN @ : s > slot})]

\* The accumulator of the slot is used.  A panic of the proof generator ends
\* the thread; what is in the database stays.
handle_slot_rooted(w, m, config) ==
    LET kept == DropUpTo(w, m.slot)
        acc  == Accumulator(w, m.slot)
    IN  IF m.slot \notin DOMAIN w.slots \/ ~IsComplete(acc, config) THEN kept
        ELSE IF ~CanGenerate(Accounts(acc), config.witness_account)
        THEN [kept EXCEPT !.thread = "panicked"]
        ELSE [kept EXCEPT !.db = add(@, m.slot, SlotData(acc, config))]

\* The loop of the thread.
HandleMessage(w, m, config) ==
    CASE m.kind = "Account"     -> handle_account(w, m)
      [] m.kind = "Transaction" -> handle_transaction(w, m)
      [] m.kind = "Block"       -> handle_block(w, m)
      [] m.kind = "SlotRooted"  -> handle_slot_rooted(w, m, config)
=============================================================================
