------------------------------- MODULE Rollup -------------------------------
(***************************************************************************)
(* A Solana rollup from the programs that change a trie to the light       *)
(* client that learns its root.                                            *)
(*                                                                         *)
(*   solana/witnessed-trie/src/contract.rs   the trie program              *)
(*   solana/trie/src/lib.rs                  the trie and witness accounts *)
(*   solana-ibc/src/lib.rs, storage.rs, validation_context.rs              *)
(*                                the IBC program with the witness feature *)
(*                                                                         *)
(* Transactions of a slot change accounts.  The validator tells the plugin *)
(* (GeyserWorker) of every change, transaction and block and, unless the   *)
(* slot is abandoned, that it is rooted.  Its threads call the plugin      *)
(* independently, so notices arrive in any order; a plugin that is not     *)
(* running misses them.  Relayers take what the plugin published, in any   *)
(* order and as often as they like, to the client (SolanaClient).          *)
(***************************************************************************)
EXTENDS GeyserWorker, SolanaClient

CONSTANTS
    OtherKey,           \* an account of some other program
    Configs,            \* [witness_account, root_account]: addresses
    Inputs(_, _, _),    \* with a configuration: the n-th transaction of a slot
    EpochSlots(_),      \* with a configuration: slots whose bank hash covers all accounts
    MaxSlot, MaxTime, MaxNow, MaxRestarts,  \* bounds
    MaxLate,            \* bound on the notices that wait when a slot ends
    MAX_CONSENSUS_STATES    \* of the host's own states

VARIABLES
    config,     \* the addresses that plugin and client are set up with
    chain,      \* the rollup, see Init
    banks,      \* what each finished slot ended with
    pending,    \* notices that the plugin has not been given yet
    worker,     \* the plugin
    restarts,   \* how often it was loaded again
    missed,     \* slots to be rooted of which this instance missed a notice
    rooted,     \* slots rooted in this instance: whether with everything in time
    seen,       \* what relayers have seen in the database
    client, consensus_states,   \* the light client
    deceived,   \* whether it was given the bank hash of another slot
    now         \* the clock of the client's host

pluginVars == <<pending, worker, restarts, missed, rooted, seen>>
clientVars == <<client, consensus_states, deceived, now>>
vars == <<config, chain, banks, pluginVars, clientVars>>

ASSUME RollupAssumption ==
    /\ OtherKey \in Nat
    /\ \A c \in Configs : c.witness_account # c.root_account
                          /\ OtherKey \notin {c.witness_account, c.root_account}
    /\ MaxTime < TimeModulus

\* The state that initialise of the IBC program leaves, in an earlier slot.
InitialState == [slot |-> 0, timestamp |-> 1, trie_root |-> <<>>]

\* start: the trie and the list of consensus states as the slot found them;
\* roots: what the transactions of the slot left; changes: their notices.
Init ==
    /\ config \in Configs
    /\ chain = [slot |-> 1, unix_timestamp |-> 1, trie |-> <<>>, local |-> <<InitialState>>,
                start |-> [trie |-> <<>>, local |-> <<InitialState>>],
                roots |-> {}, changes |-> {}, transactions |-> 0]
    /\ banks = <<>>
    /\ pending = {} /\ worker = Loaded /\ restarts = 0 /\ missed = {}
    /\ rooted = <<>> /\ seen = {}
    /\ client = None /\ consensus_states = <<>> /\ deceived = FALSE /\ now = 1

-----------------------------------------------------------------------------
(* Programs.                                                               *)

\* A trie maps keys to [value, sealed].  Sealing does not change the root.
Root(trie) == [k \in DOMAIN trie |-> trie[k].value]

\* Set, del and seal fail on a sealed key, seal without a key, too.
MayApply(trie, op) ==
    /\ op.key \in DOMAIN trie => ~trie[op.key].sealed
    /\ op.kind = "Seal" => op.key \in DOMAIN trie

ApplyOp(trie, op) ==
    CASE op.kind = "Set"  -> (op.key :> [value |-> op.value, sealed |-> FALSE]) @@ trie
      [] op.kind = "Del"  -> Restrict(trie, DOMAIN trie \ {op.key})
      [] op.kind = "Seal" -> [trie EXCEPT ![op.key].sealed = TRUE]

Change(key, lamports, data, n) ==
    [kind |-> "Account", slot |-> chain.slot, write_version |-> n,
     account |-> [key |-> key, lamports |-> lamports, data |-> data]]

\* TrieAccount::drop: the header of the trie and the witness are written.
TrieChanges(trie) ==
    {Change(config.root_account, 1, [trie |-> trie], 2 * chain.transactions + 1),
     Change(config.witness_account, 1, WitnessData(Root(trie), chain), 2 * chain.transactions + 2)}

Execute(trie, local, changes) ==
    /\ chain.slot <= MaxSlot
    /\ chain' = [chain EXCEPT !.trie = trie, !.local = local, !.roots = @ \cup {Root(trie)},
                              !.changes = @ \cup changes, !.transactions = @ + 1]
    /\ UNCHANGED <<config, banks, pluginVars, clientVars>>

\* The trie program, or an instruction of the IBC program other than deliver.
process_instruction(op) ==
    /\ MayApply(chain.trie, op)
    /\ LET trie == ApplyOp(chain.trie, op)
       IN  Execute(trie, chain.local, TrieChanges(trie))

add_local_consensus_state(local, root) ==
    Append(IF Len(local) = MAX_CONSENSUS_STATES THEN Tail(local) ELSE local,
           [slot |-> chain.slot, timestamp |-> chain.unix_timestamp, trie_root |-> root])

\* deliver of the IBC program: a root that changed is remembered.
deliver(op) ==
    /\ MayApply(chain.trie, op)
    /\ LET trie == ApplyOp(chain.trie, op)
       IN  Execute(trie, IF Root(trie) = Root(chain.trie) THEN chain.local
                         ELSE add_local_consensus_state(chain.local, Root(trie)),
                   TrieChanges(trie))

\* The first state of the slot; several messages may have left one each.
HasHostState(slot) == \E i \in DOMAIN chain.local : chain.local[i].slot = slot

host_consensus_state(slot) ==
    LET s == SelectSeq(chain.local, LAMBDA entry : entry.slot = slot)[1]
    IN  [trie_root |-> s.trie_root, timestamp_sec |-> s.timestamp]

\* Any other program; an account without lamports is closed.
OtherProgram(lamports) ==
    Execute(chain.trie, chain.local,
            {Change(OtherKey, lamports, [other |-> TRUE], 2 * chain.transactions + 1)})

-----------------------------------------------------------------------------
(* The validator.                                                          *)

\* The account changes that the slot ended with.
FinalChanges(changes) ==
    {c \in changes : \A d \in changes :
       d.account.key = c.account.key => d.write_version <= c.write_version}

FinalAccounts ==
    [k \in {c.account.key : c \in chain.changes} |->
       (CHOOSE c \in FinalChanges(chain.changes) : c.account.key = k).account]

\* The slot before this one that was not abandoned.
Parent ==
    LET kept == {s \in DOMAIN banks : banks[s].kept}
    IN  IF kept = {} THEN 0 ELSE Max(kept)

\* Once an epoch Solana hashes all accounts; the bank hash of a slot covers it.
EpochAccountsHash(slot) == IF slot \in EpochSlots(config) THEN <<"accounts", slot>> ELSE None

\* The bank hash as Solana calculates it.
BankHash(accounts, parent, slot, num_sigs) ==
    calculate_bank_hash(
      [parent_blockhash    |-> <<"block", parent>>,
       accounts_delta_hash |->
         compute_merkle_root([i \in DOMAIN SortedKeys(accounts) |->
                                hash_account(accounts[SortedKeys(accounts)[i]])]),
       num_sigs            |-> num_sigs,
       blockhash           |-> <<"block", slot>>,
       epoch_accounts_hash |-> EpochAccountsHash(slot)])

\* Everything the validator says of the slot, each transaction with its own
\* number and one signature.
Notices(kept) ==
    chain.changes
      \cup [kind : {"Transaction"}, slot : {chain.slot}, num_sigs : {1},
            number : 1 .. chain.transactions]
      \cup {[kind |-> "Block", slot |-> chain.slot,
             block |-> [parent_blockhash |-> <<"block", Parent>>,
                        blockhash        |-> <<"block", chain.slot>>]]}
      \cup IF kept THEN {[kind |-> "SlotRooted", slot |-> chain.slot]} ELSE {}

\* The slot ends and is kept or abandoned; the next one starts.  Slots
\* without a transaction are left out.
EndSlot(kept, seconds) ==
    LET after == IF kept THEN [trie |-> chain.trie, local |-> chain.local] ELSE chain.start
    IN  /\ chain.unix_timestamp + seconds <= MaxTime
        /\ chain.slot = MaxSlot => seconds = 0
        /\ chain.transactions > 0 /\ Cardinality(pending) <= MaxLate
        /\ chain' = [slot |-> chain.slot + 1, unix_timestamp |-> chain.unix_timestamp + seconds,
                     trie |-> after.trie, local |-> after.local, start |-> after,
                     roots |-> {}, changes |-> {}, transactions |-> 0]
        /\ banks' = (chain.slot :> [kept      |-> kept,
                                    accounts  |-> FinalAccounts,
                                    root      |-> Root(chain.trie),
                                    roots     |-> chain.roots,
                                    timestamp |-> chain.unix_timestamp,
                                    changed   |-> Cardinality({c \in chain.changes :
                                                    c.account.key = config.root_account}),
                                    notices   |-> Cardinality(Notices(kept)),
                                    hash      |-> BankHash(FinalAccounts, Parent, chain.slot,
                                                           chain.transactions)]) @@ banks
        /\ pending' = pending \cup Notices(kept)
        /\ UNCHANGED <<config, worker, restarts, missed, rooted, seen, clientVars>>

-----------------------------------------------------------------------------
(* The plugin.                                                             *)

on_load ==
    /\ worker = Unloaded /\ restarts < MaxRestarts
    /\ worker' = Loaded
    /\ restarts' = restarts + 1
    /\ UNCHANGED <<config, chain, banks, pending, missed, rooted, seen, clientVars>>

ToBeRooted(notices) == {m.slot : m \in {n \in notices : n.kind = "SlotRooted"}}

\* The next instance has missed whatever this one was told.
on_unload ==
    /\ worker # Unloaded
    /\ worker' = Unloaded
    /\ missed' = {s \in ToBeRooted(pending) :
                   Cardinality({m \in pending : m.slot = s}) < banks[s].notices}
    /\ rooted' = <<>>
    /\ UNCHANGED <<config, chain, banks, pending, restarts, seen, clientVars>>

\* Every notice of the slot but that it is rooted was given to the worker,
\* and no later slot is rooted.
InTime(slot) ==
    /\ slot \notin missed
    /\ \A m \in pending : m.slot = slot => m.kind = "SlotRooted"
    /\ \A s \in DOMAIN rooted : s < slot

\* Transactions look alike, so they are told in the order of their numbers.
IsFirst(m) ==
    m.kind = "Transaction" =>
      \A n \in pending : n.kind = "Transaction" /\ n.slot = m.slot => m.number <= n.number

\* A callback of the plugin and the worker's handling of its message.  It
\* touches nothing that a transaction touches, so it waits for the slot's end.
Notify(m) ==
    /\ chain.transactions = 0 /\ IsFirst(m)
    /\ pending' = pending \ {m}
    /\ IF worker.thread = "runs"
       THEN /\ worker' = HandleMessage(worker, m, config)
            /\ rooted' = IF m.kind = "SlotRooted" THEN (m.slot :> InTime(m.slot)) @@ rooted
                         ELSE rooted
            /\ missed' = missed \cap ToBeRooted(pending')
       ELSE /\ missed' = (missed \cup {m.slot}) \cap ToBeRooted(pending')
            /\ UNCHANGED <<worker, rooted>>
    /\ seen' = seen \cup ToSet(worker'.db)
    /\ UNCHANGED <<config, chain, banks, restarts, clientVars>>

-----------------------------------------------------------------------------
(* The light client.                                                       *)

\* A header for a slot from what was published; the parts of two entries may
\* be put together.
HeaderOf(slot, entry, other) ==
    [slot             |-> slot,
     bank_hash        |-> calculate_bank_hash(entry.data.delta_hash_proof),
     delta_hash_proof |-> entry.data.delta_hash_proof,
     witness_proof    |-> other.data.witness_proof]

Headers ==
    {HeaderOf(s, entry, other) : s \in 1 .. MaxSlot + 1, entry \in seen, other \in seen}

\* Nothing in a header ties the bank hash to the slot, nor to the chain.
IsTrue(header) ==
    /\ header.slot \in DOMAIN banks
    /\ banks[header.slot].kept
    /\ header.bank_hash = banks[header.slot].hash

Observe(headers) == deceived' = (deceived \/ \E h \in headers : ~IsTrue(h))

\* Whoever creates a client looks at the chain first; the client and its
\* first state are taken as they are given.
initialise(entry) ==
    LET header == HeaderOf(entry.slot, entry, entry)
    IN
    /\ client = None
    /\ IsTrue(header) /\ Decodes(header)
    /\ client' = [latest_slot     |-> header.slot,
                  witness_account |-> config.witness_account,
                  is_frozen       |-> FALSE]
    /\ consensus_states' = (header.slot :> ConsensusStateOf(header))
    /\ UNCHANGED <<config, chain, banks, pluginVars, deceived, now>>

UpdateClient(header) ==
    /\ client # None /\ status(client, consensus_states, now) = "Active"
    /\ verify_header(client, header) /\ MayUpdate(header)
    /\ IF check_for_misbehaviour_in_header(consensus_states, header)
       THEN client' = frozen(client) /\ UNCHANGED consensus_states
       ELSE /\ client' = UpdatedClient(client, consensus_states, header)
            /\ consensus_states' = UpdatedStates(consensus_states, header)
    /\ Observe({header})
    /\ UNCHANGED <<config, chain, banks, pluginVars, now>>

SubmitMisbehaviour(h1, h2) ==
    /\ client # None /\ status(client, consensus_states, now) = "Active"
    /\ verify_header(client, h1) /\ verify_header(client, h2)
    /\ check_for_misbehaviour_in_misbehavior(h1, h2)
    /\ client' = frozen(client)
    /\ Observe({h1, h2})
    /\ UNCHANGED <<config, chain, banks, pluginVars, consensus_states, now>>

Tick ==
    /\ client # None /\ now < MaxNow
    /\ now' = now + 1
    /\ UNCHANGED <<config, chain, banks, pluginVars, client, consensus_states, deceived>>

Next ==
    \/ \E t \in Inputs(config, chain.slot, chain.transactions + 1) :
         \/ t.kind = "Trie" /\ process_instruction(t.op)
         \/ t.kind = "Deliver" /\ deliver(t.op)
         \/ t.kind = "Other" /\ OtherProgram(t.lamports)
    \/ \E kept \in BOOLEAN, seconds \in 0 .. 1 : EndSlot(kept, seconds)
    \/ on_load
    \/ on_unload
    \/ \E m \in pending : Notify(m)
    \/ \E entry \in seen : initialise(entry)
    \/ \E h \in Headers : UpdateClient(h)
    \/ \E h1, h2 \in Headers : SubmitMisbehaviour(h1, h2)
    \/ Tick

Spec == Init /\ [][Next]_vars

-----------------------------------------------------------------------------
(* The database is sorted by slot and limited, and the accumulators that   *)
(* are kept are of slots that may still be rooted.                         *)
TypeOK ==
    /\ Len(worker.db) <= MAX_SLOTS
    /\ \A i, j \in DOMAIN worker.db : i < j => worker.db[i].slot < worker.db[j].slot
    /\ DOMAIN worker.slots \subseteq DOMAIN banks
    /\ Len(chain.local) <= MAX_CONSENSUS_STATES
    /\ Cardinality(DOMAIN consensus_states) <= MaxClientStates

Closes(slot) ==
    \E k \in DOMAIN banks[slot].accounts : banks[slot].accounts[k].lamports = 0

\* What is published of a slot but for the hash of all accounts, which the
\* worker does not know.
WithEpochAccounts(e) ==
    [e.data.delta_hash_proof EXCEPT !.epoch_accounts_hash = EpochAccountsHash(e.slot)]

(* What the plugin publishes verifies in the light client, and if it was   *)
(* told everything of the slot in time, in whatever order, it is the proof *)
(* that the slot's bank hash commits to, together with the trie that the   *)
(* proven root is the root of.  Two slots are excepted, for the code of    *)
(* worker.rs does not handle them: one in which an account was closed,     *)
(* which Solana hashes in another way, and the one of an epoch that covers *)
(* all accounts (its TODO), where the proof lacks just their hash.         *)
PublishedAreTrue ==
    \A i \in DOMAIN worker.db :
        LET e == worker.db[i]
            h == HeaderOf(e.slot, e, e)
        IN  /\ verify_header([latest_slot |-> e.slot, witness_account |-> config.witness_account], h)
            /\ e.slot \in DOMAIN rooted /\ rooted[e.slot] =>
                 /\ Closes(e.slot) \/ calculate_bank_hash(WithEpochAccounts(e)) = banks[e.slot].hash
                 /\ ConsensusStateOf(h) = [trie_root     |-> banks[e.slot].root,
                                           timestamp_sec |-> banks[e.slot].timestamp]
                 /\ Root(e.data.root_account.data.trie) = ConsensusStateOf(h).trie_root

\* The plugin could build the proof of a slot.
Provable(slot) == CanGenerate(banks[slot].accounts, config.witness_account)

\* A slot that the plugin was told everything of in time and that changed the
\* trie is in the database, or later ones made it leave.
IsPublished(slot) ==
    \/ banks[slot].changed = 0
    \/ slot \in list_slots(worker.db)
    \/ Len(worker.db) = MAX_SLOTS /\ slot < worker.db[1].slot

(* No slot is missed: abandoned slots, notices of other slots that come    *)
(* before or after, an earlier instance of the plugin and a full database  *)
(* do not keep a rooted slot from being published.  Excepted are a slot    *)
(* whose proof makes the worker panic and all that come after it, of which *)
(* a worker that is gone is not told.                                      *)
ProvableArePublished ==
    \A s \in DOMAIN rooted : rooted[s] /\ Provable(s) => IsPublished(s)

\* Given bank hashes of the chain, the client only ever learns states that
\* slots of the chain ended with.
ClientFollowsChain ==
    ~deceived =>
      \A s \in DOMAIN consensus_states :
        /\ s \in DOMAIN banks /\ banks[s].kept
        /\ consensus_states[s] = [trie_root     |-> banks[s].root,
                                  timestamp_sec |-> banks[s].timestamp]

\* Given bank hashes of the chain, the client is never frozen.
NeverFrozen == ~deceived /\ client # None => ~client.is_frozen

\* The timestamps of the states that the client holds do not decrease.
TimesOrdered ==
    \A s, t \in DOMAIN consensus_states :
        s < t => consensus_states[s].timestamp_sec <= consensus_states[t].timestamp_sec

(* Neither headers of slots that share a second nor headers that come late *)
(* freeze the client, and even when it is given bank hashes of other slots *)
(* the states it holds stay in the order of time.                          *)
ClientIsSound == TypeOK /\ NeverFrozen /\ TimesOrdered

\* What the IBC program names as its state at a slot is a state of that slot:
\* the slot is of the chain, the time is its time and the root one that a
\* transaction of it left.  Which one depends: every message that changes the
\* root adds a state, the first one found answers, and when the list is full
\* that one leaves before the others of the slot.
HostStatesAreOfSlots ==
    \A s \in DOMAIN banks :
        HasHostState(s) =>
          /\ banks[s].kept
          /\ host_consensus_state(s).timestamp_sec = banks[s].timestamp
          /\ host_consensus_state(s).trie_root \in banks[s].roots

(* The light client holds the states that the slots of the chain ended     *)
(* with, whatever parts of what was published relayers put together, in    *)
(* whatever order and however late.  The IBC program answers with a state  *)
(* from within the slot, so the two agree, as a connection handshake asks, *)
(* on each slot that had one root, and may differ on one that had several. *)
StatesAgree ==
    /\ ClientFollowsChain
    /\ HostStatesAreOfSlots
    /\ \A s \in DOMAIN consensus_states :
         ~deceived /\ HasHostState(s) /\ Cardinality(banks[s].roots) = 1 =>
           consensus_states[s] = host_consensus_state(s)

-----------------------------------------------------------------------------
(* A statement of the documentation that the code does not keep.           *)

(* worker.rs on SlotAccumulator: "Once slot is rooted, information here    *)
(* are used to build all necessary proofs."                                *)
RootedArePublished == \A s \in DOMAIN rooted : rooted[s] => IsPublished(s)
=============================================================================
