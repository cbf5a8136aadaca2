---------------------------- MODULE AccountProofs ---------------------------
(***************************************************************************)
(* Proofs that an account had given contents at the end of a slot of       *)
(* Solana.                                                                 *)
(*                                                                         *)
(*   common/cf-solana/src/proof.rs                                         *)
(*                                                                         *)
(* An account is [key, lamports, data]; keys are numbers.  Hashes are      *)
(* tuples that start with what is hashed how.  A Merkle proof is the       *)
(* sequence of its levels, each [index, siblings]; indices count from      *)
(* zero.                                                                   *)
(***************************************************************************)
EXTENDS Integers, Sequences, SequencesExt

CONSTANT MERKLE_FANOUT

ASSUME FanoutAssumption == MERKLE_FANOUT \in Nat \ {0, 1}

\* The value of an absent Option.
None == [none |-> TRUE]

-----------------------------------------------------------------------------
(* Accounts.                                                               *)

DefaultHash == <<"default">>

\* AccountHashData::calculate_hash.
calculate_hash(a) == <<"account", a>>

\* As Solana does it: an account without lamports is gone.
hash_account(a) == IF a.lamports = 0 THEN DefaultHash ELSE calculate_hash(a)

\* The accounts, a function from keys, in the order of the keys.
SortedKeys(accounts) == SetToSortSeq(DOMAIN accounts, <)

-----------------------------------------------------------------------------
(* The Merkle tree.                                                        *)

NodeHash(hashes) == <<"node", hashes>>

\* The children of the node at a zero-based index of the next level.
ChunkOf(hashes, index) ==
    SubSeq(hashes, index * MERKLE_FANOUT + 1, Min({(index + 1) * MERKLE_FANOUT, Len(hashes)}))

compute_hashes_at_next_level(hashes) ==
    [i \in 1 .. (Len(hashes) + MERKLE_FANOUT - 1) \div MERKLE_FANOUT |->
       NodeHash(ChunkOf(hashes, i - 1))]

\* The levels of the tree from the leaves up to a level of one node.
TreeLevels(hashes) ==
    LET up[n \in 0 .. Len(hashes)] ==
          IF n = 0 THEN hashes ELSE compute_hashes_at_next_level(up[n - 1])
        height == Min({n \in 0 .. Len(hashes) : Len(up[n]) <= 1})
    IN  [n \in 1 .. height + 1 |-> up[n - 1]]

\* A single leaf is hashed once, too.
compute_merkle_root(hashes) ==
    LET top == Last(TreeLevels(hashes))
    IN  CASE hashes = <<>> -> DefaultHash
          [] Len(hashes) = 1 -> compute_hashes_at_next_level(hashes)[1]
          [] OTHER -> top[1]

\* The place of the ancestor of a leaf in a level.
Ancestor(pos, level) == pos \div (MERKLE_FANOUT ^ (level - 1))

\* push_level; its assertion on the number of siblings is CanPush.
push_level(chunk, index) == [index |-> index, siblings |-> RemoveAt(chunk, index + 1)]
CanPush(chunk) == Len(chunk) > 1

\* One level of the proof for each level of the tree below the root.
ProofChunk(hashes, pos, level) ==
    ChunkOf(TreeLevels(hashes)[level], Ancestor(pos, level + 1))

CanProve(hashes, pos) ==
    \A n \in 1 .. Len(TreeLevels(hashes)) - 1 : CanPush(ProofChunk(hashes, pos, n))

generate_merkle_proof(hashes, pos) ==
    [n \in 1 .. Len(TreeLevels(hashes)) - 1 |->
       push_level(ProofChunk(hashes, pos, n), Ancestor(pos, n) % MERKLE_FANOUT)]

expected_root(proof, hash) ==
    FoldLeft(LAMBDA h, level : NodeHash(InsertAt(level.siblings, level.index + 1, h)),
             hash, proof)

-----------------------------------------------------------------------------
(* An account proof is [account, proof].                                   *)

LeafHashes(accounts) ==
    [i \in DOMAIN SortedKeys(accounts) |-> calculate_hash(accounts[SortedKeys(accounts)[i]])]

PositionOf(accounts, key) == CHOOSE p \in 0 .. Cardinality(DOMAIN accounts) - 1 :
                               SortedKeys(accounts)[p + 1] = key

\* AccountHashData::generate_proof: the root and the proof, if there is no panic.
CanGenerate(accounts, key) == CanProve(LeafHashes(accounts), PositionOf(accounts, key))

generate_proof(accounts, key) ==
    [root    |-> compute_merkle_root(LeafHashes(accounts)),
     account |-> accounts[key],
     proof   |-> generate_merkle_proof(LeafHashes(accounts), PositionOf(accounts, key))]

\* AccountProof::expected_root.
ExpectedRoot(p) == expected_root(p.proof, calculate_hash(p.account))

-----------------------------------------------------------------------------
\* DeltaHashProof::calculate_bank_hash.
calculate_bank_hash(p) ==
    LET hash == <<"bank", p.parent_blockhash, p.accounts_delta_hash, p.num_sigs, p.blockhash>>
    IN  IF p.epoch_accounts_hash = None THEN hash
        ELSE <<"epoch", hash, p.epoch_accounts_hash>>
=============================================================================
