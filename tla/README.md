# Verification of the emulated light client

TLA+ models, model-checking runs and machine-checked proofs for the guest
blockchain of `ComposableFi/emulated-light-client`: a blockchain that lives in a
smart contract, signed by staked validators, so that a host without light-client
support (Solana) can speak IBC.

## The system

| part | state it keeps | operations | talks to |
|---|---|---|---|
| candidates (`common/guestchain/src/candidates.rs`) | sorted list of `(pubkey, stake)`, `max_validators`, `head_stake`, `changed` | `new`, `update`, `update_max_validators`, `clear_changed_flag` | owned by the chain manager |
| chain manager (`common/guestchain/src/manager.rs`, `block.rs`, `epoch.rs`, `config.rs`, `height.rs`) | head header, epoch of the next block, pending block with its signers, configuration, queue of local consensus states | `generate_next`, `add_signature`, `update_candidate`, `update_config` | owned by the chain account |
| chain account (`solana-ibc/src/chain.rs`, `lib.rs`) | `last_check_height`, the manager | instructions `initialise`, `generate_block`, `sign_block`, `set_stake`, `update_stake`, `update_chain_config`; every IBC instruction calls `maybe_generate_block` first | trie account (root), host clock |
| guest light client (`common/cf-guest`) | client state (latest height, two epoch commitments, frozen flag), consensus states by height | verify header, verify misbehaviour, update, prune, freeze | runs on the counterparty; fed by relayers in any order |
| Solana light client (`common/cf-solana`) | client state, consensus states by slot | as above, with a trusted witness | runs on the counterparty |
| sealable trie (`common/sealable-trie`) | nodes by pointer, root pointer and hash | `get`, `set`, `seal`, `set_and_seal`, `del`, `prove` | allocates through a write log |
| write log and trie account (`common/memory`, `solana/trie`) | free list, bump pointer, pending allocations and frees | `alloc`, `free`, `set`, `commit`, roll back on drop | account data |
| trie keys and proofs of the guest state (`common/trie-ids`, `cf-guest/src/proof.rs`) | none | key of a path; generate and verify a proof | storage, light clients elsewhere |
| IBC storage and handlers (`solana-ibc/src/storage.rs`, `*_context.rs`) | private storage, provable trie | `deliver` with every IBC message | trie, chain account, `ibc-rs` |
| transfer (`solana-ibc/src/transfer/`, `lib.rs`) | escrow, mint and fee accounts, registered mints | `send_transfer`, packet callbacks, `init_mint`, fee instructions | token program, other chain |
| signature verifier, write-account (`solana/signature-verifier`, `solana/write-account`) | an account filled over several transactions | update, free; write a chunk, free | read by the IBC program |
| witnessed trie, geyser plugin (`solana/witnessed-trie`, `solana/trie-geyser-plugin`) | witness account; accumulators by slot, database of proofs | trie operations; worker thread | Solana validator, Solana light client |
| restaking (`solana/restaking`) | vaults, deposits, withdrawal requests | deposit, request, cancel, withdraw, set service, claim | calls `set_stake` of the chain program |
| validator service (`validator/`) | none between rounds | reads the chain; signs a pending block or asks for a new one | `sign_block`, `generate_block` |
| program heap allocator (`solana/allocator`) | bump pointer | `alloc`, `dealloc`, `realloc` | one transaction |

What is hard: the order in which signatures, stake changes, configuration changes
and block generation interleave; sums that are kept by increments; flags that say
"something changed" and are cleared before a block is final; relayers that deliver
late, twice or out of order; accounts that are filled over several transactions;
a host clock that stalls.  The hazards are listed at their lines in `PROJECT.json`.

## Properties that make each part correct

* **Candidates**: the list stays sorted with one entry per key, `head_stake` is the
  sum of the first `max_validators` stakes, and the changed flag is raised by exactly
  the calls that change those entries.
* **Chain**: a block is final only with the signatures of a quorum of its own epoch;
  finalised blocks form one chain in height, time and epoch; a pending block is never
  replaced and eventually becomes final; no change of the top candidates is missed; a
  block commits to the trie as it was when the host slot began.
* **Guest client**: trusts only blocks of the chain unless a quorum is faulty, never
  accuses an honest chain, keeps the state it decides its own expiry from, and can
  always be brought to the end of the chain.
* **Trie**: behaves as a map whose values can be sealed for good; errors change
  nothing; sealing keeps the root hash; proofs verify exactly what is so; no block of
  the account is leaked, shared or freed twice.
* **Restaking**: every deposit is backed by tokens and counted once in the stake of its
  validator; it is paid out once, to whoever asked for it, after the unbonding period, unless
  a minimum of the chain stands against it.
* **IBC host**: what the trie proves is what the program reads, for every kind of path;
  identifiers of different objects never share a key; a packet is received once and ends
  once, by an acknowledgement or a timeout; the proof of a consensus state is history.
* **Transfer**: tokens minted here are backed by tokens locked there and the reverse,
  with packets in flight and decimals that differ; what can keep a refund from being paid
  is named; the fee collector is replaced only with his own signature.
* **Uploads**: an instruction all of whose chunks were written is read as it was, and a
  message is accepted only with signatures the native program has checked, whatever was
  uploaded, truncated or freed in between.
* **Rollup**: a proof published for a slot is the proof of the account's last version in
  it, what is published verifies, and the client holds roots the rollup had.  The two
  cases in which the published hash is not the host's (a closed account, the hash of all
  accounts once an epoch) are named.
* **Validator service**: the chain keeps going although each service acts on what it
  read earlier and its calls get lost.

## Modules

The host runs one instruction at a time and reverts one that fails or panics.  So each
instruction is one atomic action, and a failing instruction is not a step.

### Candidates: `Stake`, `Candidates`, `CandidatesSpec`, `StakeTable`

`Stake` defines sums of stake as cardinalities of sets of stake units, so that the
provers can use the library's theorems on finite sets; `Restaking` and `Transfer` take
their sums of deposits and of packets from it too.  `Candidates` has one operator
per method of `candidates.rs`; a method that takes `&mut self` returns the set of its
results, empty when it fails or panics.  `CandidatesSpec` calls them in any order.
`StakeTable` is the abstract specification: a table of stakes, a size and a flag raised
by exactly the steps that change the top of the table; ties are broken by key as in
`Ord for Candidate`.

### Chain: `GuestChain`

The variable `chain` is the chain account.  `Tick` is a new host slot, with any clock
value; `GenerateBlock`, `SignBlock`, `SetStake`, `UpdateStake` and `UpdateChainConfig`
are the instructions of those names; `Deliver` stands for every IBC instruction: it
calls `maybe_generate_block` and then changes the root of the trie.  `SignBlock` that
completes a quorum goes on to `maybe_generate_block`, as the code does.  `votes`,
`blocks` and `slot_root` are history variables: the actions write them and only the
properties read them.  A hash is the value hashed, a signature is a key and the
fingerprint signed, the vector of an epoch's validators is a set.

### Client: `GuestLog`, `ConsensusStore`, `GuestClient`

`log` is a finalised chain, chosen in `Init` among all chains of a small length that
satisfy what `GuestChain` guarantees.  That interface is module `GuestLog`: `IsLog` says
that heights have no gap, time increases, epochs follow from the blocks and a quorum has
signed each of them.  `ValidLog` asks it of the client's log, with the parameters that
describe what others may forge, and the chain provides it (`ChainServesClients` below).  Relayers
submit any message at any time: blocks of the chain or forged ones, with any epoch and
list of signatures.  `ConsensusStore` is the bounded list of states of
`solana-ibc/src/storage.rs`, with its eviction.  Keys in `faulty` sign anything; all
others sign what `log` says they signed.

### Trie: `TrieNodes`, `TrieOps`, `TrieLookup`, `Trie`, `SealableMap`

`TrieNodes`: nodes, references and cuts of keys, the account's allocator
and the write log with its commit and roll back.  `TrieOps`: set, seal and delete with
the recursion of the code.  `TrieLookup`: get with proofs, verification, iteration.
`Trie` calls them in any order.  `SealableMap` is the abstract specification.  The node
hash is an injective term of the node's contents.  The bit-level encoding of nodes is
not modelled.  A byte has `ByteBits` bits, so that several bytes fit a small model;
Extension keys are cut at byte limits that depend on the offset as in `ext_key.rs`.

### Restaking: `Restaking`

The staking parameters, vaults, receipts and token accounts, composed with the chain's
candidate list (`Candidates`) and its minimums, which `UpdateChainConfig` replaces at any
time among `Configs`, as far as `update_config` allows it.  `UpdateStake` is the other staking program, allowed by
the chain, that changes stakes of the same validators.  The receipt of a deposit can be
passed on at any time (`TransferReceipt`, the token program).

### Validator service: `Validators`

Extends `GuestChain` with one service per key.  A round of the loop in `validator.rs` is
up to three reads (`ReadChain` of the chain account, `ReadHost` of the slot and its time,
`CheckGenerate` of the trie, after which the check is made) and at most one call (`Sign`, `Generate`), tried
up to `MaxTries` times; between any two of them the chain may take any step (`Others`).
`Fail` is a lost call, `Restart` a panic: the service unwraps failed reads, so one lost
request ends the process and something outside has to start it again.

### IBC host: `TrieKeys`, `IbcStorage`, `IbcHost`

`TrieKeys`: identifiers, paths and the keys made of them; a component of fixed width is
one element of the key; and generation and verification of proofs of any path.  `IbcStorage`: the storage and the methods of
`ExecutionContext` and `ValidationContext` on it, each with its private and its provable
half.  `IbcHost`: one action per message that creates or updates a client, opens a
connection or opens and closes a channel, and per message of a packet.  The handlers are `ibc-rs`; each is marked external in what it
checks and is modelled by the storage calls it makes.  `delete_packet_acknowledgement` and
`delete_consensus_state` are never called by this host.  Not modelled: misbehaviour sent
as a message of its own (a header that conflicts with a stored state is), client upgrades,
which both clients refuse, timeouts on closed channels, and the witness build, which takes
the host's height and time from the clock instead of the head of the guest chain.

### Transfer: `Transfer`

Both chains' accounts and the packets between them.  The other chain follows ICS-20.
A call of the token program that fails aborts the whole transaction, so only a bad memo
or an uninitialised account gives an error acknowledgement after coins were moved.
Two effects of the code are part of the model and named in the invariants, so that the
balance is exact: `Dust` (an amount below one unit of the mint burns nothing) and
`Doubled` (a hook that fails after the coins were given leaves them given, while the other
chain refunds).  So `TokensAreBacked` does not rule these two out: it says that nothing
else is lost or created.  A refund pays the current fee; `PendingFees` is what was paid for
the packets that are still pending, which the code does not remember.

### Uploads: `SignatureAccount`, `WriteAccount`, `Uploads`

`SignatureAccount`: the native program's instruction data as cells with offsets, with the
sharing of messages that start with each other; the sorted list of hashes, its growth,
truncation, search.  `WriteAccount`: chunks at offsets, growth,
release, and the reader in `ix_data_account.rs`.  `Uploads` composes them with the
delivery that reads both accounts; a transaction may come in any order, again or never.
The program executes whatever the account holds, also a mixture of two calls if it decodes:
the properties do not deny that.  Nor do they say which signatures a truncation discards;
it counts entries of the sorted list, so that depends on the hashes.

### Rollup: `AccountProofs`, `GeyserWorker`, `SolanaClient`, `Rollup`

`AccountProofs`: hashes of accounts, the Merkle tree with its fanout, proofs and bank
hashes.  `GeyserWorker`: the plugin's worker with an accumulator per slot and the bounded
database.  `SolanaClient`: the light client, over `ConsensusStore`.  `Rollup`: the programs
that change the trie and its witness account, the validator's notices in any order, the
restart of the plugin, relayers that combine headers rightly and wrongly, and the list of
the host's own consensus states, of which `initialise` makes the first.  In the slots
`EpochSlots` the host's bank hash covers the hash of all accounts, which the worker does
not know (a TODO in `worker.rs`).

### Proofs and instances

The proofs are in `StakeProofs` (sums of stake, and the least element and induction on
sets of numbers), `CandidatesLemmas`, `CandidatesProofs`, `GuestChainProofs`,
`GuestClientProofs`, `RestakingProofs`, `TransferProofs` and `IbcHostProofs`; `MC*` modules give the runs their values.  Definitions named
`<operator>_<what is wrong>` and marked "Mutant" are wrong variants of the operator that
follows them; no specification uses them, they test that the properties notice.

## Runs

| run | what it shows |
|---|---|
| `candidates` | the list with its early returns and incremental sums keeps its order and its sum (`VerifyState`), and implements the abstract table (`ImplementsTable`), over every sequence of calls on four keys |
| `chain` | finality, one chain, no missed epoch, the queue of consensus states, whole slots, a kept pending block and spacing, over every interleaving of instructions and changes of the limits, with a clock that stalls or steps back |
| `liveness` | `ChainKeepsGoing`: validator services that read late and lose calls still generate every block that is due and finalise every pending one, while a key leaves or the limits are changed |
| `client` | relayers in any order, a faulty minority or quorum, pruning and eviction: the client trusts only the chain, never accuses it, keeps its store sound and never rewrites a state |
| `client_liveness` | the next block can always be verified and a persistent relayer brings the client to the end of the chain |
| `trie` | the trie implements the map with seals, reads and proofs are right (entries below a key are complete and sealed ones marked), the root is canonical, no block is leaked, after every sequence of calls on an account of three nodes |
| `restaking` | two users with two receipts and two tokens, before and after the chain exists, with the second staking program at work: vaults are backed, stake is delegated once, a matured withdrawal is in full and refused exactly when what is left would break one of the chain's minimums, which change meanwhile |
| `ibc_host` | the messages of clients, connections, channels and packets, repeated, with eviction of consensus states: proofs agree with what the program reads (`ProofsAreFaithful`), provable consensus states are ones once stored (`ConsensusProofsAreHistory`), records only advance, packets happen once |
| `transfer` | three denominations in both directions, refused, timed out, refunded or failed after the coins were given: every token is backed but for the remainders and doubled coins it counts, refunds go through but for the cases the property names, the fee collector changes only with his own signature |
| `uploads` | chunks and batches of signatures in any order: a call that was written whole is read as it was, the lookup finds exactly what was checked, accepted messages are signed |
| `rollup` | two slots, kept or abandoned, notices in any order or lost: published proofs are true but for the hash of all accounts and slots that close an account, what can be proved is published, the client holds what the slots ended with, the host a root that the slot had: the two agree where a slot had one root |
| `rollup_proofs` (violation) | the documentation of `SlotAccumulator` promises proofs for a rooted slot; one whose witness account is alone in its Merkle node makes the worker panic instead |

Some properties are conjunctions of named parts, such as `StoreIsSound` of the client
(`TypeOK`, `LatestIsStored`, `TimesIncrease`), `AccountIsSound` of the trie and
`TokensAreBacked` of transfers.  Type correctness of the candidate list and of the chain is
proved below and not repeated in a run.

### Bounds

* `candidates`: four keys with stakes 1..3 and `max_validators` 1..3 give every relation
  of a moving candidate to the head (inside, outside, crossing either way, tie) and an
  overflow at `U128Max` = 8.
* `chain`: three keys, four host slots, two roots, two retained consensus states: a
  genesis, up to three blocks, an epoch that ends, a full queue, quorums of two,
  signatures replayed from earlier blocks, an epoch that shrinks and grows with
  `max_validators`.
* `liveness`: two services, three host slots, one root, calls tried twice; both keys are
  needed for a quorum until one leaves or `max_validators` is lowered to one, together with a
  `min_quorum_stake` that one key does not have.  Blocks are due by age.
* `client`: chains of four blocks (five for liveness) that start any epoch at any block,
  a store of three states so that eviction and pruning happen, ten clock units with a
  trusting period of five.
* `trie`: three nodes, seven keys among which are the empty key, keys that share a
  prefix, a key that is a prefix of another and keys that need two Extensions.  `VIEW`
  leaves out the last answer: no action reads it, and action properties and the
  refinement are checked on every transition with its answer.  Values are symmetric
  since no operation compares two values.
* `restaking`: two of everything, amounts 0..2, one unit of unbonding time in a clock of
  two, one unit of stake by the other program, a genesis validator of stake 2 and two
  configurations, one with a greater minimum in total, one of each validator, so that
  withdrawals are refused for either reason.  Users, tokens and receipts are
  symmetric: the program compares them for equality only.
* `ibc_host`: two clients of different types that share one index, two heights and two
  states with room for one state per client, so that states are evicted and stored again
  (three stores in all); one connection, one channel and one packet each way, which is
  enough for a repeat of every message.  Types, states and hashes are symmetric: they are
  compared for equality only.
* `transfer`: three packets of amounts 1 and 3 over two native denominations, one of them
  wrapped SOL, and a foreign one with a unit of two (`Ten` = 2).  With `U64Max` = 1 an
  amount of 3 overflows unless it is converted, and then takes up the whole supply; an
  amount of 1 is less than a unit.  Fees of 0 and 1, a reserve of 1.
* `uploads`: two keys and two messages one of which starts with the other, room for two
  hashes that grows to three, chunks of two cells for calls of two and three.
* `rollup`: two slots of up to two transactions, a tree with fanout two, a database of one
  entry, two local consensus states, at most two notices late when a slot ends, one
  restart.  With one place of the witness account the second slot covers the hash of all
  accounts.  Two messages of the first slot change the root.  The client's states are
  evicted only after a false header, so `NeverFrozen` is not tested by eviction.  The witness account
  sorts before or after the others, so it is once alone in its node.  Slot byte and
  timestamp wrap (`SlotModulus`, `TimeModulus`).

Counters that the code lets grow (slots, clock, epoch heights) are bounded in the
guards by the constants `Max*`.  Runs with `CHECK_DEADLOCK FALSE` have such a bound on
every step, so the model stops where the system would not.

### Fairness

`liveness` assumes of each validator service that its loop goes on (weak fairness of the
first read and of a call that has failed) and that a request or transaction repeated for
ever does not fail every time (strong fairness of the other reads and of both calls: a
service that gives up returns to the start, which disables them again and again).
Nothing is assumed of the clock, of other users or of the administrator.  The process is
assumed to be started again after a panic.
`client_liveness` assumes one relayer that keeps submitting the block after the
client's latest; nothing of the others.  Both are promises of programs outside the
contract and are necessary: with no signatures or no relayer nothing happens.

## Theorems

Each holds for all values of the constants that satisfy the named assumptions, so for any
number of validators, relayers, users, packets and steps.  Every inductive invariant was
first checked by TLC on the instance of its run.

**Candidates** (`PubKeyAssumption`, `U128MaxAssumption`, `StakeValuesAssumption`,
`MaxCountsAssumption`, `ConfigAssumption`: keys are a finite set of numbers, counts are
positive as in `NonZeroU16`).

* `CandidatesCorrect` - `[](TypeOK /\ VerifyState)`.  The inductive invariant is `Good`:
  the list is sorted strictly by (stake descending, key), holds no key twice and
  `head_stake` is the sum of its head.  The work is in `CandidatesLemmas`: what removing
  and inserting an element at the position that the binary search finds does to the order,
  and to the sum of the first `max_validators` entries, case by case as the code adjusts
  it.  `StakeProofs` gives the sums: adding, removing and replacing one holder.
* `CandidatesImplementTable` - the refinement `ImplementsTable`.  The abstract table ranks
  keys by counting those that beat them; the key lemma is that a key's place in a sorted
  list is that count, so the head of the list is the top of the table, and each branch of
  `update` raises the flag exactly when the top changes.

**Chain** (`GuestChainAssumption`: genesis epochs and configurations are ones the code can
construct, and a genesis epoch names no key twice, which `Epoch::new` does not check; later
epochs never do, which is proved).

* `ChainWellFormed`, `ChainCandidatesCorrect`, `FinalityIsQuorate` - from one inductive
  invariant `IInv`.  `FinalityNeedsQuorum` by itself is not inductive, since the code
  keeps a running sum instead of the signatures.  `IInv` adds that the sum is the stake
  of the recorded signers (`VotesMatch`: each signer has voted for this fingerprint in
  this epoch), that the epoch in force is the last one the log defines (`InForce`), and
  that each epoch is well formed, so that every quorum is made of one stake per key.
* `PendingBlockIsKept` - the action property `PendingIsKept`, by cases on the
  instructions.
* `FinalBlocksFormChain`, `EpochChangesAreNoticed`, `ConsensusStatesAreNewest`,
  `SlotsAreWhole`, `BlocksKeepDistance` - from `OInv`, which is `IInv` with `Ordered` (the
  blocks and the pending one extend each other, and the queue is the end of the log) and
  `Fresh` (the trie is as it was when the slot began until the chain has looked at the
  slot).  `EpochChangesAreNoticed` rests on the head of the list being the
  validators of the epoch last announced while the flag is clear, which each branch of
  `update` keeps or raises the flag.
* `ChainServesClients` - `[]IsLog(LogOf(blocks, chain.genesis))`, where `LogOf` gives each
  final block the epoch in which it was signed and the keys that voted for it.  It is what
  the client's theorems assume of the log they are about.  The argument: at most one block is the last before another that defines an epoch
  (`OneDefiner`), it is the block before or the one that was the last before that
  (`DefinerAfter`), and the votes under a block are a quorum of what it defined.

**Guest client** (`GuestClientAssumption`: the log satisfies `ValidLog`, and
`MaxClientStates` > 1; with room for one state an older block would evict the latest, and
`LatestIsStored` would be false).

* `ClientStoreIsSound`, `ClientTrustsOnlyChain`, `ClientNeverAccuses`,
  `ClientNeverRewrites`, `ClientKnowsNextEpoch` - from `CInv`.  It adds to the properties
  that the store is a finite set with one state per height and in the order of time
  (`StoreInv`), and that the epoch of the block after the latest is one of the two
  commitments the client keeps (`KnowsEpoch`).  A quorum of an epoch that is
  not faulty contains an honest key, who signed only blocks of the log: that is why
  nothing else is ever stored.  `NextBlockVerifiable` is proved where the run checks it:
  when blocks come with their own epochs (`~AnyEpoch`) and no quorum is faulty.

**Restaking** (`RestakingAssumption`: finite genesis, amounts and limits are natural
numbers; it does not relate the genesis to the limits).

* `ReceiptsMatch`, `DepositsAreBacked`, `StakeFollowsDeposits`, `UnbondsByTheRules` - from
  `RInv`: records of vaults, receipts and requests match (`RecordsOK`), the token accounts
  are sums over the open vaults (`Backed`), and the stake of a validator is the sum of its
  vaults, its genesis stake and the others' (`ChainOK`).  A deposit, a withdrawal and a
  delegation change one term of each sum.
* `WithdrawalsGoThrough` - `[]MaturedWithdrawalsGoThrough`: the chain refuses a matured
  withdrawal exactly when what is left would break a minimum of the configuration in force,
  whatever the genesis and the configurations are.  The invariant `WInv` adds to `RInv` that
  every request was made for a delegated vault of a chain that exists (`RequestsServed`).
  That nothing else refuses it follows from `ChainOK`: the validator is a candidate with at
  least the stake of the vault.  The answer of the chain is `LoweringGoesThrough`, an
  equivalence about `update` and `remove`: the code looks at the head of the list that is
  left, the property at any choice of validators, and the head of a sorted list outweighs
  any other set of as many of its candidates (`HeadIsHeaviest`, by exchanging one candidate
  at a time).

**Transfers** (`TransferAssumption`: amounts, fees and coins are natural numbers, native and
foreign denominations differ; that a power of `Ten` is a positive number is stated for the
decimals in use, because the provers know nothing of `^`).

* `EveryTokenIsBacked`, `RefundsArePaid`, `CollectorsConsent` - from `TInv`.  Its heart,
  `Balanced`, is one equation for every denomination of either origin: what is kept apart
  is what circulates times its unit plus the flow of every packet, a number that depends
  on the state of the packet only.  Every action changes the state of one packet, and
  the lemmas `BalanceGiven`, `BalanceTaken`, `BalanceRemoteGiven`, `BalanceRemoteTaken`
  show that the flow changes by what moves.  `TInv` adds that a mint exists for every
  foreign packet sent, that amounts sent fit u64 once they are converted (`SentOK`), that the
  fee account covers what was paid for the pending packets until a refund of a raised fee
  or a collection of more than the reserve leaves (`Funded`), and that a stored proposal is
  the last one signed, by the collector of today (`AdminOK`).

**IBC host** (`IbcHostAssumption`, `TrieKeysAssumption`, `MaxClientStatesAssumption`: heights
are positive, the absence of a commitment is no hash, counters fit 32 bits, a client has room
for a state).

* `StorageInvariant` - the inductive invariant `IInv`.  Each of its parts ties one family of
  trie keys to the private storage: clients, consensus states (with `seen`, the states ever
  accepted), connections, channels, the three sequence numbers, and commitments; an
  acknowledgement has its receipt.  Within a message the halves are written one after the other, so
  the parts that hold of every call (`StoreInv`) are apart from those that hold between
  messages only (`Complete`: a client has a state, a channel its numbers).
* `RecordsOnlyAdvance`, `PacketsOnlyOnce` - from `IInv`, by what each message does to each
  part of the storage.  First come the keys: tags and fixed-width components make the keys of
  different objects different.  So a call writes the entry of its own object and leaves
  the rest of the trie as it was, and a message is one or two such calls.
* `ConsensusHistory`, `StorageProofsAreFaithful` - what `generate` and `verify` make of a
  trie that satisfies `IInv`.  The three numbers of a channel share an entry of the trie, and
  the relayer attaches two of them; only those stored complete the entry (`ProofsAreFaithful`
  quantifies over all that could be attached).

The backend's encoding of `Len` makes it total and non-negative for every value, not only
for sequences.  The obligations that mention `Len` were checked again with the axioms
restricted to sequences, and none depends on more.

Only model-checked:

* liveness (`ChainKeepsGoing`, `CatchesUp`, and what `ENABLED` is needed for): the prover
  has no fairness;
* the trie with `ImplementsMap`, and the rollup: their operations are recursive over nodes
  and Merkle trees, which needs induction over data;
* uploads: `LookupIsExact` and `AcceptedAreSigned` rest on writing and reading instruction
  data and on sorting and searching hashes, which are folds over sequences;
  `WholeCallsAreRead` needs none of these and is checked by the same run.

## Where code and documentation disagree

One statement has a run that refutes it (`rollup_proofs`): a node of the Merkle tree with
one child fails an assertion (`cf-solana/src/proof.rs:153`) and ends the worker thread,
where `worker.rs:56` promises all necessary proofs.  Three more are stated by the
properties as the code has them:

* `get_entries` hands out the hash of a sealed value whose node is still there
  (`trie/iter.rs:127`, `:207`), where `trie.rs:35` and `:275` say that it can no longer be
  accessed.  The documentation of `Entry` itself agrees with the code, and the entry is marked
  as sealed, which `ReadsAreRight` checks.
* A refund pays the fee of the moment (`transfer/mod.rs:305`), where the comments speak of
  refunding the fee (`:297`, `:326`).  When it was raised, the refund draws on what others
  paid, and may abort: `RefundsGoThrough` names this case.
* A matured withdrawal fails while what is left would be below the chain's minimums, where
  `restaking/src/lib.rs:285` says that the tokens would be withdrawn.
  `MaturedWithdrawalsGoThrough` says exactly when; the run reaches refusals of both kinds.

Others were noticed while modelling:

* An epoch can have fewer than `min_validators` validators: `manager.rs:178` compares a new
  limit with the current epoch only, and candidates may leave later; the field is
  documented as the minimum allowed in an epoch (`config.rs`).
* The guest client accepts a block whose own epoch is neither of the two it knows, when it
  is submitted with a known epoch a quorum of which has signed it (`client.rs`,
  `with_header`).  `TrustsOnlyChain` holds all the same.
* A Branch whose values are all sealed stays when an Extension lies between, where the
  documentation of the trie says that the branch becomes sealed as well.
* The documentation of `get_escrow_account` speaks of a (port, channel, denom) triple; only
  the denomination is used (`transfer/impls.rs:41`), so channels share an escrow.
* Clients of different types share one index, so the absence of the client of one type
  cannot be proved while the other exists.
* `hash_account` treats an account without lamports specially,
  `AccountHashData::calculate_hash` does not; slots that close an account are excluded
  where this matters (`Closes`).
* Once an epoch Solana's bank hash covers the hash of all accounts; the worker publishes
  proofs without it ("This is currently not handled properly", `worker.rs:210`), and what it
  publishes of such a slot does not verify.  `PublishedAreTrue` says that it would with
  that hash filled in (`WithEpochAccounts`).
* The Solana client believes any bank hash and does not bind the slot of a header to it
  (a TODO in the code); `NeverFrozen` and `ClientFollowsChain` hold as long as it was given
  the bank hashes of their slots (`deceived` records otherwise).
* `earliest_consensus_state` of the Solana client's host returns nothing, so expired states
  leave only by eviction.
* `host_consensus_state` takes the first entry of a slot (`validation_context.rs:91`), the
  client elsewhere knows the last root of it: after several messages in one slot they
  differ, and a handshake that compares them fails.  `StatesAgree` claims agreement for
  slots that had one root only.
* `min_total_stake` is not checked again when `max_validators` is lowered
  (`manager.rs:182`, `config.rs:30`).
* `ChainData::consensus_state` also answers for past heights (`chain.rs:44`, `:53`).
* After skipped blocks, `epoch_commitment` of the client may be an older epoch than the
  documentation of the field says (`client.rs:27`, `:93`).
* A full list of consensus states lets an older height evict a newer one
  (`storage.rs:21`, `:121`).
* "Removes all expired" consensus states removes the earliest one only
  (`client/impls.rs:632`).
* For keys longer than one Extension the shape of the trie, and so the root hash,
  depends on the order of the operations (`RootIsCanonical` excludes them).
* Cancelling a withdrawal request gives the receipt to the signer of the cancellation,
  where the README speaks of the depositor; the model keeps the code's behaviour
  (`restaking/src/lib.rs:237`).
* A deposit of zero for a validator without other stake cannot be withdrawn.

## Not modelled, and why

* Encodings (protobuf, borsh, the 72-byte node format), formatting, command line tools and
  configuration files: no state; covered by round-trip tests of the code.
* Cryptography: signatures and hashes are assumed sound.
* The heap allocator: raw pointers within one transaction, which no other part observes.
* Growth of accounts by transfers of rent, the rent of mint authorities and the last
  lamports of the fee account: balances are what is held above the rent.
* The IBC messages listed under `IbcHost`, and the witness build's clock there.
* Restaking's change of administrator and withdrawal of rewards: they touch nothing the
  properties speak of, and rewards are always zero in the code.
* IBC's own handlers (`ibc-rs`), the token program and the other chain of a transfer:
  outside the repository; they are modelled by what the code relies on.
* `validator/src/stake.rs` repeats a deposit of module `Restaking`; a second one fails
  because its receipt exists.

The hazards that the properties are about are listed at their lines in `PROJECT.json`.

## Plan

What is left to do, in this order:

1. `WholeCallsAreRead` of uploads as a theorem, for any chunk size: every cell of the call
   belongs to the chunk at the multiple of the chunk size below it, so `WriteIter` is
   better written with multiples than with `%`.
2. The worker of the rollup's plugin apart from the Merkle tree: that an accumulator which
   was given all notices of a slot holds what the slot ended with.
