--------------------------- MODULE RestakingProofs --------------------------
(***************************************************************************)
(* The restaking program's books: the deposits are backed, the stake on    *)
(* the guest chain is the stake the open vaults stand for, the receipts    *)
(* match the vaults and tokens leave only as the unbonding rules say, for  *)
(* any users, tokens, receipts and validators.                             *)
(***************************************************************************)
EXTENDS Restaking, CandidatesLemmas

-----------------------------------------------------------------------------
(* The stake of a key on the candidate list.                               *)

LEMMA StakeOfListed ==
  ASSUME NEW x, Good(x), NEW v \in Listed(x.candidates)
  PROVE  CandidateStake(x, v.pubkey) = v.stake
<1> DEFINE list == x.candidates
           pos  == Positions(list, v.pubkey)
           p    == CHOOSE q \in pos : TRUE
<1>1. GoodList(list) /\ list \in Seq(Candidate) /\ Len(list) \in Nat
  BY GoodFields
<1>2. PICK i \in 1 .. Len(list) : v = list[i]
  BY <1>1, ListedElements
<1>3. i \in pos
  BY <1>2 DEF Positions
<1>4. p \in pos
  BY <1>3
<1>5. p \in 1 .. Len(list) /\ list[p].pubkey = list[i].pubkey
  BY <1>2, <1>4 DEF Positions
<1>6. p = i
  BY <1>1, <1>5 DEF GoodList, UniqueKeys
<1> QED
  BY <1>2, <1>3, <1>6 DEF CandidateStake

LEMMA StakeOfUnlisted ==
  ASSUME NEW x, Good(x), NEW pk, \A v \in Listed(x.candidates) : v.pubkey # pk
  PROVE  CandidateStake(x, pk) = 0
<1>1. x.candidates \in Seq(Candidate)
  BY GoodFields
<1>2. \A i \in 1 .. Len(x.candidates) : x.candidates[i].pubkey # pk
  BY <1>1, ListedElements
<1>3. Positions(x.candidates, pk) = {}
  BY <1>2 DEF Positions
<1> QED
  BY <1>3 DEF CandidateStake

LEMMA CandidateStakeType ==
  ASSUME NEW x, Good(x), NEW pk
  PROVE  CandidateStake(x, pk) \in Nat
<1>1. CASE \E v \in Listed(x.candidates) : v.pubkey = pk
  <2>1. PICK v \in Listed(x.candidates) : v.pubkey = pk
    BY <1>1
  <2>2. v.stake \in Nat
    BY GoodFields, ListedElements, CandidateFields
  <2> QED
    BY <2>1, <2>2, StakeOfListed
<1>2. CASE \A v \in Listed(x.candidates) : v.pubkey # pk
  BY <1>2, StakeOfUnlisted
<1> QED
  BY <1>1, <1>2

(* set_stake gives one key the stake asked for and leaves the others.      *)
LEMMA UpdateStakes ==
  ASSUME NEW x, Good(x), NEW cfg, cfg.min_validators \in Nat,
         cfg.min_validator_stake \in Nat,
         NEW pk \in PubKey, NEW stake \in Nat, NEW y \in update(x, cfg, pk, stake)
  PROVE  /\ Good(y)
         /\ CandidateStake(y, pk) = stake
         /\ \A k \in PubKey \ {pk} : CandidateStake(y, k) = CandidateStake(x, k)
<1> DEFINE c == [pubkey |-> pk, stake |-> stake]
           C == IF stake > 0 THEN {c} ELSE {}
           L == Listed(x.candidates)
           M == Listed(y.candidates)
<1>1. Good(y)
  BY UpdateGood
<1>2. M = {e \in L : e.pubkey # pk} \cup C
  BY UpdateEffect DEF Updated, Edited
<1>3. \A e \in C : e.pubkey = pk /\ e.stake = stake
  OBVIOUS
<1> HIDE DEF c, L, M
<1>4. CandidateStake(y, pk) = stake
  <2>1. CASE stake > 0
    <3>1. c \in M /\ c.pubkey = pk /\ c.stake = stake
      BY <1>2, <2>1 DEF c
    <3> QED
      BY <1>1, <3>1, StakeOfListed DEF M
  <2>2. CASE ~(stake > 0)
    <3>1. stake = 0 /\ C = {}
      BY <2>2
    <3>2. \A v \in M : v.pubkey # pk
      BY <1>2, <3>1
    <3> QED
      BY <1>1, <3>1, <3>2, StakeOfUnlisted DEF M
  <2> QED
    BY <2>1, <2>2
<1>5. ASSUME NEW k \in PubKey \ {pk}
      PROVE  CandidateStake(y, k) = CandidateStake(x, k)
  <2>1. \A e : e \in M /\ e.pubkey = k <=> e \in L /\ e.pubkey = k
    BY <1>2, <1>3
  <2>2. CASE \E e \in L : e.pubkey = k
    <3>1. PICK e \in L : e.pubkey = k
      BY <2>2
    <3>2. CandidateStake(x, k) = e.stake
      BY <3>1, StakeOfListed DEF L
    <3>3. CandidateStake(y, k) = e.stake
      BY <1>1, <2>1, <3>1, StakeOfListed DEF M
    <3> QED
      BY <3>2, <3>3
  <2>3. CASE \A e \in L : e.pubkey # k
    <3>1. CandidateStake(x, k) = 0
      BY <2>3, StakeOfUnlisted DEF L
    <3>2. CandidateStake(y, k) = 0
      BY <1>1, <2>1, <2>3, StakeOfUnlisted DEF M
    <3> QED
      BY <3>1, <3>2
  <2> QED
    BY <2>2, <2>3
<1> QED
  BY <1>1, <1>4, <1>5

LEMMA ClearedStakes ==
  ASSUME NEW x, Good(x), NEW pk
  PROVE  /\ Good(clear_changed_flag(x))
         /\ CandidateStake(clear_changed_flag(x), pk) = CandidateStake(x, pk)
<1>1. clear_changed_flag(x).candidates = x.candidates
  BY GoodFields DEF clear_changed_flag
<1> QED
  BY <1>1, ClearGood DEF CandidateStake

\* The stakes of y are those of x but for pk, which has stake.
Reassigned(x, y, pk, stake) ==
    /\ Good(y)
    /\ CandidateStake(y, pk) = stake
    /\ \A k \in PubKey \ {pk} : CandidateStake(y, k) = CandidateStake(x, k)

LEMMA MinimumsType ==
  ASSUME config \in Configs
  PROVE  /\ config.min_validators \in Nat /\ config.min_validator_stake \in Nat
         /\ config.min_total_stake \in Nat
  BY RestakingAssumption

LEMMA SetStakeReassigns ==
  ASSUME Good(candidates), config \in Configs, NEW pk \in PubKey, NEW stake \in Nat,
         NEW y \in set_stake(pk, stake)
  PROVE  Reassigned(candidates, y, pk, stake)
<1>1. PICK cs \in update(candidates, config, pk, stake) : y = clear_changed_flag(cs)
  BY DEF set_stake
<1>2. /\ Good(cs)
      /\ CandidateStake(cs, pk) = stake
      /\ \A k \in PubKey \ {pk} : CandidateStake(cs, k) = CandidateStake(candidates, k)
  BY MinimumsType, UpdateStakes
<1>3. Good(y) /\ \A k : CandidateStake(y, k) = CandidateStake(cs, k)
  BY <1>1, <1>2, ClearedStakes
<1> QED
  BY <1>2, <1>3 DEF Reassigned

LEMMA GenesisValidators == ValidatorSet(Genesis)
<1>1. \A v \in Genesis : v.stake \in Nat
  BY RestakingAssumption, CandidateFields
<1> QED
  BY <1>1, RestakingAssumption DEF ValidatorSet

LEMMA GenesisStakeType ==
  ASSUME NEW pk
  PROVE  GenesisStake(pk) \in Nat
<1>1. CASE HasValidator(Genesis, pk)
  <2>1. ValidatorOf(Genesis, pk) \in Genesis
    BY <1>1 DEF HasValidator, ValidatorOf
  <2>2. ValidatorOf(Genesis, pk).stake \in Nat
    BY <2>1, GenesisValidators DEF ValidatorSet
  <2> QED
    BY <1>1, <2>2 DEF GenesisStake
<1>2. CASE ~HasValidator(Genesis, pk)
  BY <1>2 DEF GenesisStake
<1> QED
  BY <1>1, <1>2

(* The list a chain starts with.                                           *)
LEMMA InitialStakes ==
  ASSUME NEW x \in NewCandidates(MaxValidators, Genesis), NEW pk
  PROVE  /\ Good(clear_changed_flag(x))
         /\ CandidateStake(clear_changed_flag(x), pk) = GenesisStake(pk)
<1>1. Good(x) /\ Listed(x.candidates) = Genesis
  BY RestakingAssumption, GenesisValidators, NewCandidatesGood, NewCandidatesEffect
<1>2. CandidateStake(x, pk) = GenesisStake(pk)
  <2>1. CASE HasValidator(Genesis, pk)
    <3> DEFINE v == ValidatorOf(Genesis, pk)
    <3>1. v \in Genesis /\ v.pubkey = pk
      BY <2>1 DEF HasValidator, ValidatorOf
    <3> HIDE DEF v
    <3>2. CandidateStake(x, pk) = v.stake
      BY <1>1, <3>1, StakeOfListed
    <3> QED
      BY <2>1, <3>2 DEF GenesisStake, v
  <2>2. CASE ~HasValidator(Genesis, pk)
    <3>1. \A v \in Listed(x.candidates) : v.pubkey # pk
      BY <1>1, <2>2 DEF HasValidator
    <3> QED
      BY <1>1, <2>2, <3>1, StakeOfUnlisted DEF GenesisStake
  <2> QED
    BY <2>1, <2>2
<1> QED
  BY <1>1, <1>2, ClearedStakes

-----------------------------------------------------------------------------
(* Sums of deposits.                                                       *)

\* The deposits of the vaults R of w.
EntriesOf(w, R) == {[pubkey |-> r, stake |-> w[r].stake_amount] : r \in R}

SumOf(w, R) == StakeOf(EntriesOf(w, R))

LEMMA DepositsAsSum ==
  ASSUME NEW R
  PROVE  DepositsOf(R) = SumOf(vaults, R)
  BY DEF DepositsOf, SumOf, EntriesOf

LEMMA EntriesAreValidators ==
  ASSUME NEW w, NEW R, IsFiniteSet(R), \A r \in R : w[r].stake_amount \in Nat
  PROVE  ValidatorSet(EntriesOf(w, R))
<1> DEFINE g == [r \in R |-> [pubkey |-> r, stake |-> w[r].stake_amount]]
<1>1. g \in Surjection(R, EntriesOf(w, R))
  BY DEF Surjection, EntriesOf
<1>2. IsFiniteSet(EntriesOf(w, R))
  BY <1>1, FS_Surjection
<1>3. \A v \in EntriesOf(w, R) : v.stake \in Nat
  BY DEF EntriesOf
<1>4. DistinctKeys(EntriesOf(w, R))
  BY DEF EntriesOf, DistinctKeys
<1> QED
  BY <1>2, <1>3, <1>4 DEF ValidatorSet

LEMMA SumOfType ==
  ASSUME NEW w, NEW R, IsFiniteSet(R), \A r \in R : w[r].stake_amount \in Nat
  PROVE  SumOf(w, R) \in Nat
  BY EntriesAreValidators, StakeOfType DEF SumOf

LEMMA SumOfNone ==
  ASSUME NEW w
  PROVE  SumOf(w, {}) = 0
<1>1. EntriesOf(w, {}) = {}
  BY DEF EntriesOf
<1> QED
  BY <1>1, StakeOfEmpty DEF SumOf

LEMMA SumOfSame ==
  ASSUME NEW w, NEW z, NEW R, \A r \in R : w[r].stake_amount = z[r].stake_amount
  PROVE  SumOf(w, R) = SumOf(z, R)
<1>1. EntriesOf(w, R) = EntriesOf(z, R)
  BY DEF EntriesOf
<1> QED
  BY <1>1 DEF SumOf

LEMMA SumOfMore ==
  ASSUME NEW w, NEW R, IsFiniteSet(R), NEW s, s \notin R,
         \A r \in R \cup {s} : w[r].stake_amount \in Nat
  PROVE  SumOf(w, R \cup {s}) = SumOf(w, R) + w[s].stake_amount
<1> DEFINE v == [pubkey |-> s, stake |-> w[s].stake_amount]
           V == EntriesOf(w, R)
<1>1. EntriesOf(w, R \cup {s}) = V \cup {v}
  BY DEF EntriesOf
<1>2. v \notin V
  BY DEF EntriesOf
<1>3. IsFiniteSet(R \cup {s})
  BY FS_AddElement
<1>4. ValidatorSet(V \cup {v})
  BY <1>1, <1>3, EntriesAreValidators
<1>5. v.stake = w[s].stake_amount
  OBVIOUS
<1> HIDE DEF v, V
<1>6. StakeOf(V \cup {v}) = StakeOf(V) + v.stake
  BY <1>2, <1>4, StakeOfAdd
<1> QED
  BY <1>1, <1>5, <1>6 DEF SumOf, V

LEMMA SumOfLess ==
  ASSUME NEW w, NEW R, IsFiniteSet(R), NEW s \in R,
         \A r \in R : w[r].stake_amount \in Nat
  PROVE  /\ SumOf(w, R \ {s}) = SumOf(w, R) - w[s].stake_amount
         /\ SumOf(w, R \ {s}) \in Nat
<1> DEFINE S == R \ {s}
<1>1. IsFiniteSet(S) /\ S \cup {s} = R /\ s \notin S
  BY FS_RemoveElement
<1>2. /\ \A r \in S \cup {s} : w[r].stake_amount \in Nat
      /\ \A r \in S : w[r].stake_amount \in Nat
      /\ w[s].stake_amount \in Nat
  OBVIOUS
<1> HIDE DEF S
<1>3. SumOf(w, S \cup {s}) = SumOf(w, S) + w[s].stake_amount
  BY <1>1, <1>2, SumOfMore
<1>4. SumOf(w, S) \in Nat
  BY <1>1, <1>2, SumOfType
<1>5. SumOf(w, R) = SumOf(w, S) + w[s].stake_amount
  BY <1>1, <1>3, Zenon
<1>6. SumOf(w, S) = SumOf(w, R) - w[s].stake_amount
  BY <1>2, <1>4, <1>5
<1> QED
  BY <1>4, <1>6 DEF S

-----------------------------------------------------------------------------
(* The books: what the deposits of the open vaults w must add up to.       *)

OfMint(w, m)      == {r \in DOMAIN w : w[r].stake_mint = m}
OfValidator(w, k) == {r \in DOMAIN w : w[r].service = GuestChain(k)}

Backed(total, w, tokens) ==
    /\ \A m \in Mints : tokens[m] = SumOf(w, OfMint(w, m))
    /\ total = SumOf(w, DOMAIN w)

Delegated(cs, others, w) ==
    \A k \in PubKey : CandidateStake(cs, k) = others[k] + SumOf(w, OfValidator(w, k))

IsVaults(w) ==
    /\ DOMAIN w \subseteq Receipts /\ IsFiniteSet(DOMAIN w)
    /\ w \in [DOMAIN w -> Vault]

LEMMA VaultTypes ==
  ASSUME NEW v \in Vault
  PROVE  /\ v = [service |-> v.service, stake_amount |-> v.stake_amount,
                 stake_mint |-> v.stake_mint,
                 last_received_rewards_height |-> v.last_received_rewards_height,
                 withdrawal_request |-> v.withdrawal_request]
         /\ v.stake_amount \in Nat
         /\ v.stake_mint \in Mints
         /\ v.service \in {GuestChain(k) : k \in PubKey} \cup {None}
  BY RestakingAssumption DEF Vault

LEMMA AmountsTyped ==
  ASSUME NEW w, IsVaults(w)
  PROVE  /\ \A r \in DOMAIN w : w[r] \in Vault /\ w[r].stake_amount \in Nat
         /\ \A R : R \subseteq DOMAIN w => IsFiniteSet(R)
  BY VaultTypes, FS_Subset DEF IsVaults

\* z has the vaults of w with the same deposits.
SameDeposits(w, z) ==
    /\ DOMAIN z = DOMAIN w
    /\ \A r \in DOMAIN w : /\ z[r].stake_amount = w[r].stake_amount
                           /\ z[r].stake_mint = w[r].stake_mint

LEMMA SameBacked ==
  ASSUME NEW w, NEW z, SameDeposits(w, z), NEW total, NEW tokens, Backed(total, w, tokens)
  PROVE  Backed(total, z, tokens)
<1>1. \A m : OfMint(z, m) = OfMint(w, m)
  BY DEF SameDeposits, OfMint
<1>2. \A m : SumOf(z, OfMint(w, m)) = SumOf(w, OfMint(w, m))
  BY SumOfSame DEF SameDeposits, OfMint
<1>3. SumOf(z, DOMAIN w) = SumOf(w, DOMAIN w)
  BY SumOfSame DEF SameDeposits
<1> QED
  BY <1>1, <1>2, <1>3 DEF Backed, SameDeposits

LEMMA SameDelegated ==
  ASSUME NEW w, NEW z, SameDeposits(w, z),
         \A r \in DOMAIN w : z[r].service = w[r].service,
         NEW cs, NEW others, Delegated(cs, others, w)
  PROVE  Delegated(cs, others, z)
<1>1. \A k : OfValidator(z, k) = OfValidator(w, k)
  BY DEF SameDeposits, OfValidator
<1>2. \A k : SumOf(z, OfValidator(w, k)) = SumOf(w, OfValidator(w, k))
  BY SumOfSame DEF SameDeposits, OfValidator
<1> QED
  BY <1>1, <1>2 DEF Delegated

\* w with one more vault.
WithVault(w, r, v) == [s \in DOMAIN w \cup {r} |-> IF s # r THEN w[s] ELSE v]

LEMMA WithVaultSums ==
  ASSUME NEW w, IsVaults(w), NEW r \in Receipts, r \notin DOMAIN w, NEW v \in Vault
  PROVE  LET z == WithVault(w, r, v)
         IN  /\ IsVaults(z)
             /\ DOMAIN z = DOMAIN w \cup {r}
             /\ z[r] = v /\ \A s \in DOMAIN w : z[s] = w[s]
             /\ \A R \in SUBSET DOMAIN w :
                  /\ SumOf(z, R) = SumOf(w, R)
                  /\ SumOf(z, R \cup {r}) = SumOf(w, R) + v.stake_amount
<1> DEFINE z == WithVault(w, r, v)
<1>1. /\ DOMAIN z = DOMAIN w \cup {r}
      /\ z[r] = v /\ \A s \in DOMAIN w : z[s] = w[s]
      /\ z \in [DOMAIN w \cup {r} -> Vault]
  BY DEF WithVault, IsVaults
<1> HIDE DEF z
<1>2. IsVaults(z)
  BY <1>1, FS_AddElement DEF IsVaults
<1>3. ASSUME NEW R \in SUBSET DOMAIN w
      PROVE  /\ SumOf(z, R) = SumOf(w, R)
             /\ SumOf(z, R \cup {r}) = SumOf(w, R) + v.stake_amount
  <2>1. SumOf(z, R) = SumOf(w, R)
    BY <1>1, SumOfSame
  <2>2. IsFiniteSet(R) /\ r \notin R
    BY AmountsTyped
  <2>3. \A s \in R \cup {r} : z[s].stake_amount \in Nat
    BY <1>1, <1>2, AmountsTyped
  <2>4. SumOf(z, R \cup {r}) = SumOf(z, R) + z[r].stake_amount
    BY <2>2, <2>3, SumOfMore
  <2> QED
    BY <1>1, <2>1, <2>4
<1> QED
  BY <1>1, <1>2, <1>3 DEF z

LEMMA DepositBacked ==
  ASSUME NEW w, IsVaults(w), NEW r \in Receipts, r \notin DOMAIN w, NEW v \in Vault,
         NEW total, NEW tokens, tokens \in [Mints -> Nat], Backed(total, w, tokens)
  PROVE  Backed(total + v.stake_amount, WithVault(w, r, v),
                [tokens EXCEPT ![v.stake_mint] = @ + v.stake_amount])
<1> DEFINE z   == WithVault(w, r, v)
           new == [tokens EXCEPT ![v.stake_mint] = @ + v.stake_amount]
<1>1. /\ DOMAIN z = DOMAIN w \cup {r}
      /\ z[r] = v /\ \A s \in DOMAIN w : z[s] = w[s]
      /\ \A R \in SUBSET DOMAIN w :
           /\ SumOf(z, R) = SumOf(w, R)
           /\ SumOf(z, R \cup {r}) = SumOf(w, R) + v.stake_amount
  BY WithVaultSums
<1> HIDE DEF z
<1>2. /\ \A m \in Mints : tokens[m] = SumOf(w, OfMint(w, m))
      /\ total = SumOf(w, DOMAIN w)
      /\ \A m \in Mints : OfMint(w, m) \in SUBSET DOMAIN w
  BY DEF Backed, OfMint
<1>3. total + v.stake_amount = SumOf(z, DOMAIN z)
  BY <1>1, <1>2
<1>4. ASSUME NEW m \in Mints PROVE new[m] = SumOf(z, OfMint(z, m))
  <2>1. CASE m = v.stake_mint
    <3>1. OfMint(z, m) = OfMint(w, m) \cup {r}
      BY <1>1, <2>1 DEF OfMint
    <3>2. new[m] = tokens[m] + v.stake_amount
      BY <2>1
    <3> HIDE DEF new
    <3> QED
      BY <1>1, <1>2, <3>1, <3>2
  <2>2. CASE m # v.stake_mint
    <3>1. OfMint(z, m) = OfMint(w, m)
      BY <1>1, <2>2 DEF OfMint
    <3>2. new[m] = tokens[m]
      BY <2>2
    <3> HIDE DEF new
    <3> QED
      BY <1>1, <1>2, <3>1, <3>2
  <2> QED
    BY <2>1, <2>2
<1> HIDE DEF new
<1>5. Backed(total + v.stake_amount, z, new)
  BY <1>3, <1>4 DEF Backed
<1> QED
  BY <1>5 DEF z, new

LEMMA ServiceIsValidator ==
  ASSUME NEW k, NEW l
  PROVE  /\ GuestChain(k) # None
         /\ GuestChain(k) = GuestChain(l) <=> k = l
         /\ GuestChain(k).validator = k
<1>1. GuestChain(k).validator = k /\ GuestChain(l).validator = l
  BY DEF GuestChain
<1>2. DOMAIN GuestChain(k) = {"validator"} /\ DOMAIN None = {"none"}
  BY DEF GuestChain, None
<1>3. {"validator"} # {"none"}
  OBVIOUS
<1> QED
  BY <1>1, <1>2, <1>3

\* A vault without a service adds nothing to the validators.
LEMMA IdleDelegated ==
  ASSUME NEW w, IsVaults(w), NEW r \in Receipts, r \notin DOMAIN w,
         NEW v \in Vault, v.service = None,
         NEW cs, NEW others, Delegated(cs, others, w)
  PROVE  Delegated(cs, others, WithVault(w, r, v))
<1> DEFINE z == WithVault(w, r, v)
<1>1. /\ DOMAIN z = DOMAIN w \cup {r}
      /\ z[r] = v /\ \A s \in DOMAIN w : z[s] = w[s]
      /\ \A R \in SUBSET DOMAIN w :
           /\ SumOf(z, R) = SumOf(w, R)
           /\ SumOf(z, R \cup {r}) = SumOf(w, R) + v.stake_amount
  <2>1. IsVaults(w) /\ r \in Receipts /\ r \notin DOMAIN w /\ v \in Vault
    OBVIOUS
  <2> QED
    BY ONLY <2>1, WithVaultSums
<1> HIDE DEF z
<1>2. \A k : OfValidator(z, k) = OfValidator(w, k) /\ OfValidator(w, k) \in SUBSET DOMAIN w
  BY <1>1, ServiceIsValidator DEF OfValidator
<1>3. Delegated(cs, others, z)
  BY <1>1, <1>2 DEF Delegated
<1> QED
  BY <1>3 DEF z

LEMMA DepositDelegated ==
  ASSUME NEW w, IsVaults(w), NEW r \in Receipts, r \notin DOMAIN w,
         NEW v \in Vault, NEW pk \in PubKey, v.service = GuestChain(pk),
         NEW cs, NEW others, others \in [PubKey -> Nat], Delegated(cs, others, w),
         NEW new, Reassigned(cs, new, pk, CandidateStake(cs, pk) + v.stake_amount)
  PROVE  Delegated(new, others, WithVault(w, r, v))
<1> DEFINE z == WithVault(w, r, v)
           a == v.stake_amount
<1>1. /\ DOMAIN z = DOMAIN w \cup {r}
      /\ z[r] = v /\ \A s \in DOMAIN w : z[s] = w[s]
      /\ \A R \in SUBSET DOMAIN w : /\ SumOf(z, R) = SumOf(w, R)
                                    /\ SumOf(z, R \cup {r}) = SumOf(w, R) + a
  BY WithVaultSums
<1> HIDE DEF z
<1>2. ASSUME NEW k \in PubKey
      PROVE  CandidateStake(new, k) = others[k] + SumOf(z, OfValidator(z, k))
  <2> DEFINE R == OfValidator(w, k)
  <2>1. R \in SUBSET DOMAIN w
    BY DEF OfValidator
  <2>2. SumOf(w, R) \in Nat /\ others[k] \in Nat /\ a \in Nat
    <3>1. IsFiniteSet(R) /\ \A s \in R : w[s].stake_amount \in Nat
      BY <2>1, AmountsTyped
    <3> QED
      BY <3>1, SumOfType, VaultTypes
  <2>3. CandidateStake(cs, k) = others[k] + SumOf(w, R)
    BY DEF Delegated
  <2> HIDE DEF a
  <2>4. CASE k = pk
    <3>1. OfValidator(z, k) = R \cup {r}
      BY <1>1, <2>4 DEF OfValidator
    <3>2. CandidateStake(new, k) = CandidateStake(cs, k) + a
      BY <2>4 DEF Reassigned, a
    <3>3. SumOf(z, OfValidator(z, k)) = SumOf(w, R) + a
      BY <1>1, <2>1, <3>1
    <3> HIDE DEF R
    <3> QED
      BY <2>2, <2>3, <3>2, <3>3
  <2>5. CASE k # pk
    <3>1. OfValidator(z, k) = R
      BY <1>1, <2>5, ServiceIsValidator DEF OfValidator
    <3>2. CandidateStake(new, k) = CandidateStake(cs, k)
      BY <2>5 DEF Reassigned
    <3> QED
      BY <1>1, <2>1, <2>3, <3>1, <3>2
  <2> QED
    BY <2>4, <2>5
<1> QED
  BY <1>2 DEF Delegated, z

LEMMA ServiceDelegated ==
  ASSUME NEW w, IsVaults(w), NEW z, SameDeposits(w, z), NEW r \in DOMAIN w,
         NEW pk \in PubKey, w[r].service = None, z[r].service = GuestChain(pk),
         \A s \in DOMAIN w : s # r => z[s].service = w[s].service,
         NEW cs, NEW others, others \in [PubKey -> Nat], Delegated(cs, others, w),
         NEW new, Reassigned(cs, new, pk, CandidateStake(cs, pk) + w[r].stake_amount)
  PROVE  Delegated(new, others, z)
<1> DEFINE a == w[r].stake_amount
<1>1. ASSUME NEW k \in PubKey
      PROVE  CandidateStake(new, k) = others[k] + SumOf(z, OfValidator(z, k))
  <2> DEFINE R == OfValidator(w, k)
  <2>1. R \subseteq DOMAIN w /\ r \notin R
    BY ServiceIsValidator DEF OfValidator
  <2>2. IsFiniteSet(R) /\ \A s \in R \cup {r} : w[s].stake_amount \in Nat
    BY <2>1, AmountsTyped
  <2>3. SumOf(w, R) \in Nat /\ others[k] \in Nat /\ a \in Nat
    BY <2>2, SumOfType
  <2>4. CandidateStake(cs, k) = others[k] + SumOf(w, R)
    BY DEF Delegated
  <2>5. \A S : S \subseteq DOMAIN w => SumOf(z, S) = SumOf(w, S)
    BY SumOfSame DEF SameDeposits
  <2>6. CASE k = pk
    <3>1. OfValidator(z, k) = R \cup {r}
      BY <2>6 DEF OfValidator, SameDeposits
    <3>2. CandidateStake(new, k) = CandidateStake(cs, k) + a
      BY <2>6 DEF Reassigned
    <3> HIDE DEF R
    <3>3. SumOf(w, R \cup {r}) = SumOf(w, R) + a
      BY <2>1, <2>2, SumOfMore
    <3>4. SumOf(z, OfValidator(z, k)) = SumOf(w, R) + a
      BY <2>1, <2>5, <3>1, <3>3
    <3> HIDE DEF a
    <3> QED
      BY <2>3, <2>4, <3>2, <3>4
  <2>7. CASE k # pk
    <3>1. OfValidator(z, k) = R
      BY <2>7, ServiceIsValidator DEF OfValidator, SameDeposits
    <3>2. CandidateStake(new, k) = CandidateStake(cs, k)
      BY <2>7 DEF Reassigned
    <3> QED
      BY <2>1, <2>4, <2>5, <3>1, <3>2
  <2> QED
    BY <2>6, <2>7
<1> QED
  BY <1>1 DEF Delegated

\* w without one of its vaults.
WithoutVault(w, r) == [s \in DOMAIN w \ {r} |-> w[s]]

LEMMA WithoutVaultSums ==
  ASSUME NEW w, IsVaults(w), NEW r \in DOMAIN w
  PROVE  LET z == WithoutVault(w, r)
         IN  /\ IsVaults(z)
             /\ DOMAIN z = DOMAIN w \ {r}
             /\ \A s \in DOMAIN w \ {r} : z[s] = w[s]
             /\ \A R \in SUBSET DOMAIN w :
                  /\ r \notin R => SumOf(z, R) = SumOf(w, R)
                  /\ r \in R => /\ SumOf(z, R \ {r}) = SumOf(w, R) - w[r].stake_amount
                                /\ SumOf(z, R \ {r}) \in Nat
<1> DEFINE z == WithoutVault(w, r)
<1>1. /\ DOMAIN z = DOMAIN w \ {r}
      /\ \A s \in DOMAIN w \ {r} : z[s] = w[s]
      /\ z \in [DOMAIN w \ {r} -> Vault]
  BY DEF WithoutVault, IsVaults
<1> HIDE DEF z
<1>2. IsVaults(z)
  BY <1>1, FS_RemoveElement DEF IsVaults
<1>3. \A R \in SUBSET DOMAIN w : r \notin R => SumOf(z, R) = SumOf(w, R)
  BY <1>1, SumOfSame
<1>4. ASSUME NEW R \in SUBSET DOMAIN w, r \in R
      PROVE  /\ SumOf(z, R \ {r}) = SumOf(w, R) - w[r].stake_amount
             /\ SumOf(z, R \ {r}) \in Nat
  <2>1. SumOf(z, R \ {r}) = SumOf(w, R \ {r})
    BY <1>3
  <2>2. IsFiniteSet(R) /\ \A s \in R : w[s].stake_amount \in Nat
    BY AmountsTyped
  <2>3. /\ SumOf(w, R \ {r}) = SumOf(w, R) - w[r].stake_amount
        /\ SumOf(w, R \ {r}) \in Nat
    BY <1>4, <2>2, SumOfLess
  <2> QED
    BY <2>1, <2>3
<1> QED
  BY <1>1, <1>2, <1>3, <1>4 DEF z

LEMMA WithdrawBacked ==
  ASSUME NEW w, IsVaults(w), NEW r \in DOMAIN w,
         NEW total, NEW tokens, tokens \in [Mints -> Nat], Backed(total, w, tokens)
  PROVE  LET a   == w[r].stake_amount
             m   == w[r].stake_mint
             new == [tokens EXCEPT ![m] = @ - a]
         IN  /\ Backed(total - a, WithoutVault(w, r), new)
             /\ total - a \in Nat
             /\ tokens[m] - a \in Nat
<1> DEFINE z   == WithoutVault(w, r)
           a   == w[r].stake_amount
           n   == w[r].stake_mint
           new == [tokens EXCEPT ![n] = @ - a]
<1>1. /\ DOMAIN z = DOMAIN w \ {r}
      /\ \A s \in DOMAIN w \ {r} : z[s] = w[s]
      /\ \A R \in SUBSET DOMAIN w :
           /\ r \notin R => SumOf(z, R) = SumOf(w, R)
           /\ r \in R => /\ SumOf(z, R \ {r}) = SumOf(w, R) - a
                         /\ SumOf(z, R \ {r}) \in Nat
  BY WithoutVaultSums
<1> HIDE DEF z
<1>2. /\ \A m \in Mints : tokens[m] = SumOf(w, OfMint(w, m))
      /\ total = SumOf(w, DOMAIN w)
      /\ \A m \in Mints : OfMint(w, m) \in SUBSET DOMAIN w
  BY DEF Backed, OfMint
<1>3. n \in Mints
  BY AmountsTyped, VaultTypes
<1>4. r \in OfMint(w, n)
  BY DEF OfMint
<1>5. total - a = SumOf(z, DOMAIN z) /\ total - a \in Nat
  BY <1>1, <1>2
<1>6. tokens[n] - a \in Nat
  BY <1>1, <1>2, <1>3, <1>4
<1>7. ASSUME NEW m \in Mints PROVE new[m] = SumOf(z, OfMint(z, m))
  <2>1. CASE m = n
    <3>1. OfMint(z, m) = OfMint(w, m) \ {r}
      BY <1>1, <2>1 DEF OfMint
    <3>2. new[m] = tokens[m] - a
      BY <2>1
    <3> HIDE DEF new, a, n
    <3> QED
      BY <1>1, <1>2, <1>4, <2>1, <3>1, <3>2
  <2>2. CASE m # n
    <3>1. OfMint(z, m) = OfMint(w, m) /\ r \notin OfMint(w, m)
      BY <1>1, <2>2 DEF OfMint
    <3>2. new[m] = tokens[m]
      BY <2>2
    <3> HIDE DEF new, a, n
    <3> QED
      BY <1>1, <1>2, <3>1, <3>2
  <2> QED
    BY <2>1, <2>2
<1> HIDE DEF new, a, n
<1>8. Backed(total - a, z, new)
  BY <1>5, <1>7 DEF Backed
<1> QED
  BY <1>5, <1>6, <1>8 DEF z, new, a, n

LEMMA WithdrawDelegated ==
  ASSUME NEW w, IsVaults(w), NEW r \in DOMAIN w,
         NEW pk \in PubKey, w[r].service = GuestChain(pk),
         NEW cs, NEW others, others \in [PubKey -> Nat], Delegated(cs, others, w),
         NEW new, Reassigned(cs, new, pk, CandidateStake(cs, pk) - w[r].stake_amount)
  PROVE  Delegated(new, others, WithoutVault(w, r))
<1> DEFINE z == WithoutVault(w, r)
           a == w[r].stake_amount
<1>1. /\ DOMAIN z = DOMAIN w \ {r}
      /\ \A s \in DOMAIN w \ {r} : z[s] = w[s]
      /\ \A R \in SUBSET DOMAIN w :
           /\ r \notin R => SumOf(z, R) = SumOf(w, R)
           /\ r \in R => /\ SumOf(z, R \ {r}) = SumOf(w, R) - a
                         /\ SumOf(z, R \ {r}) \in Nat
  BY WithoutVaultSums
<1> HIDE DEF z
<1>2. ASSUME NEW k \in PubKey
      PROVE  CandidateStake(new, k) = others[k] + SumOf(z, OfValidator(z, k))
  <2> DEFINE R == OfValidator(w, k)
  <2>1. R \in SUBSET DOMAIN w
    BY DEF OfValidator
  <2>2. SumOf(w, R) \in Nat /\ others[k] \in Nat /\ a \in Nat
    <3>1. IsFiniteSet(R) /\ \A s \in R : w[s].stake_amount \in Nat
      BY <2>1, AmountsTyped
    <3> QED
      BY <3>1, SumOfType, AmountsTyped
  <2>3. CandidateStake(cs, k) = others[k] + SumOf(w, R)
    BY DEF Delegated
  <2>4. CASE k = pk
    <3>1. OfValidator(z, k) = R \ {r} /\ r \in R
      BY <1>1, <2>4 DEF OfValidator
    <3>2. CandidateStake(new, k) = CandidateStake(cs, k) - a
      BY <2>4 DEF Reassigned
    <3>3. SumOf(z, OfValidator(z, k)) = SumOf(w, R) - a
      BY <1>1, <2>1, <3>1
    <3> HIDE DEF R, a
    <3> QED
      BY <2>2, <2>3, <3>2, <3>3
  <2>5. CASE k # pk
    <3>1. OfValidator(z, k) = R /\ r \notin R
      BY <1>1, <2>5, ServiceIsValidator DEF OfValidator
    <3>2. CandidateStake(new, k) = CandidateStake(cs, k)
      BY <2>5 DEF Reassigned
    <3> QED
      BY <1>1, <2>1, <2>3, <3>1, <3>2
  <2> QED
    BY <2>4, <2>5
<1> QED
  BY <1>2 DEF Delegated, z

-----------------------------------------------------------------------------
(* The inductive invariant.  That the program's accounts never go below    *)
(* zero follows from the sums, so types and sums must be shown together;   *)
(* the stake on the chain needs that no vault names a validator before     *)
(* there is a chain and that the chain's list has each key once.           *)

ParamsOK(p) ==
    /\ p = [admin |-> p.admin, whitelisted_tokens |-> p.whitelisted_tokens,
            guest_chain_program_id |-> p.guest_chain_program_id,
            staking_cap |-> p.staking_cap,
            total_deposited_amount |-> p.total_deposited_amount]
    /\ p.admin \in Users
    /\ p.whitelisted_tokens \subseteq Mints
    /\ p.guest_chain_program_id \in BOOLEAN
    /\ p.staking_cap \in Nat
    /\ p.total_deposited_amount \in 0 .. p.staking_cap

\* The receipt of r is where the vault w[r], or its absence, says.
Matches(w, h, r) ==
    /\ r \in DOMAIN w <=> h[r] \in Users \cup {Escrow}
    /\ r \in DOMAIN w => (h[r] = Escrow <=> w[r].withdrawal_request # None)

RecordsOK(w, h, epoch) ==
    /\ IsVaults(w)
    /\ \A r \in DOMAIN w : w[r].last_received_rewards_height <= epoch
    /\ h \in [Receipts -> Users \cup {NotMinted, Escrow, Burnt}]
    /\ \A r \in Receipts : Matches(w, h, r)

BalancesOK(owned, tokens) ==
    owned \in [Users -> [Mints -> Nat]] /\ tokens \in [Mints -> Nat]

ChainOK(cs, others, w) ==
    /\ others \in [PubKey -> Nat]
    /\ cs = None => /\ \A r \in DOMAIN w : w[r].service = None
                    /\ \A k \in PubKey : others[k] = GenesisStake(k)
    /\ cs # None => Good(cs) /\ Delegated(cs, others, w)

RInv ==
    /\ ParamsOK(staking_params)
    /\ RecordsOK(vaults, holder, epoch_height)
    /\ BalancesOK(wallet, vault_tokens)
    /\ Backed(staking_params.total_deposited_amount, vaults, vault_tokens)
    /\ ChainOK(candidates, other_stake, vaults)
    /\ config \in Configs
    /\ now \in 0 .. MaxTime
    /\ epoch_height \in 1 .. MaxEpoch

LEMMA RInvImpliesRecords ==
  ASSUME RInv
  PROVE  RecordsAgree
<1>1. /\ staking_params.admin \in Users
      /\ staking_params.whitelisted_tokens \subseteq Mints
      /\ staking_params.total_deposited_amount \in 0 .. staking_params.staking_cap
  BY DEF RInv, ParamsOK
<1>2. /\ Open \subseteq Receipts /\ vaults \in [Open -> Vault]
      /\ \A r \in Open : vaults[r].last_received_rewards_height <= epoch_height
      /\ holder \in [Receipts -> Users \cup {NotMinted, Escrow, Burnt}]
  BY DEF RInv, RecordsOK, IsVaults, Open
<1>3. wallet \in [Users -> [Mints -> Nat]] /\ vault_tokens \in [Mints -> Nat]
  BY DEF RInv, BalancesOK
<1>4. candidates = None \/ IsCandidates(candidates)
  BY DEF RInv, ChainOK, Good
<1>5. ReceiptsMatchVaults
  BY DEF RInv, RecordsOK, Matches, ReceiptsMatchVaults, Open
<1> QED
  BY <1>1, <1>2, <1>3, <1>4, <1>5 DEF RecordsAgree, TypeOK

LEMMA RInvImpliesBacked ==
  ASSUME RInv
  PROVE  VaultsAreBacked
<1>1. \A m : {r \in Open : vaults[r].stake_mint = m} = OfMint(vaults, m)
  BY DEF OfMint, Open
<1>2. Backed(staking_params.total_deposited_amount, vaults, vault_tokens)
  BY DEF RInv
<1> QED
  BY <1>1, <1>2, DepositsAsSum DEF VaultsAreBacked, Backed, Open

LEMMA RInvImpliesDelegated ==
  ASSUME RInv
  PROVE  StakeIsDelegated
<1>1. \A k : {r \in Open : vaults[r].service = GuestChain(k)} = OfValidator(vaults, k)
  BY DEF OfValidator, Open
<1>2. candidates # None => Delegated(candidates, other_stake, vaults)
  BY DEF RInv, ChainOK
<1> QED
  BY <1>1, <1>2, DepositsAsSum DEF StakeIsDelegated, Delegated, ValidatorStake

LEMMA InitRInv == Init => RInv
<1>1. SUFFICES ASSUME Init PROVE RInv
  OBVIOUS
<1>2. PICK admin \in Users, cap \in Caps, whitelist \in SUBSET Mints :
        staking_params = [admin |-> admin, whitelisted_tokens |-> whitelist,
                          guest_chain_program_id |-> FALSE, staking_cap |-> cap,
                          total_deposited_amount |-> 0]
  BY <1>1 DEF Init
<1>3. ParamsOK(staking_params) /\ staking_params.total_deposited_amount = 0
  BY <1>2, RestakingAssumption DEF ParamsOK
<1>4. /\ DOMAIN vaults = {}
      /\ holder = [r \in Receipts |-> NotMinted]
      /\ wallet = [u \in Users |-> [m \in Mints |-> Wallet]]
      /\ vault_tokens = [m \in Mints |-> 0]
      /\ candidates = None
      /\ other_stake = [pk \in PubKey |-> GenesisStake(pk)]
      /\ epoch_height = 1 /\ now = 0
  BY <1>1 DEF Init
<1>5. vaults \in [{} -> Vault]
  BY <1>1 DEF Init
<1>6. IsVaults(vaults)
  BY <1>4, <1>5, FS_EmptySet DEF IsVaults
<1>7. RecordsOK(vaults, holder, epoch_height)
  <2>1. NotMinted \notin Users \cup {Escrow}
    BY RestakingAssumption DEF NotMinted, Escrow
  <2> QED
    BY <1>4, <1>6, <2>1 DEF RecordsOK, Matches
<1>8. BalancesOK(wallet, vault_tokens)
  BY <1>4, RestakingAssumption DEF BalancesOK
<1>9. Backed(0, vaults, vault_tokens)
  <2>1. \A m : OfMint(vaults, m) = {}
    BY <1>4 DEF OfMint
  <2> QED
    BY <1>4, <2>1, SumOfNone DEF Backed
<1>10. ChainOK(candidates, other_stake, vaults)
  BY <1>4, GenesisStakeType DEF ChainOK
<1>11. now \in 0 .. MaxTime /\ epoch_height \in 1 .. MaxEpoch /\ config \in Configs
  BY <1>1, <1>4, RestakingAssumption DEF Init
<1> QED
  BY <1>3, <1>7, <1>8, <1>9, <1>10, <1>11 DEF RInv

-----------------------------------------------------------------------------
(* Deposits and withdrawals.                                               *)

LEMMA ListIsSome ==
  ASSUME NEW x, Good(x)
  PROVE  x # None
<1>1. DOMAIN x = {"max_validators", "candidates", "changed", "head_stake"}
  BY DEF Good, IsCandidates
<1>2. DOMAIN None = {"none"}
  BY DEF None
<1>3. {"max_validators", "candidates", "changed", "head_stake"} # {"none"}
  OBVIOUS
<1> QED
  BY <1>1, <1>2, <1>3

(* Both programs' reading and writing back of a stake.                     *)
LEMMA AddStakeReassigns ==
  ASSUME RInv, NEW pk \in PubKey, NEW amount \in Nat, add_stake(pk, amount)
  PROVE  /\ candidates # None /\ candidates' # None
         /\ Delegated(candidates, other_stake, vaults)
         /\ Reassigned(candidates, candidates', pk,
                       CandidateStake(candidates, pk) + amount)
<1>1. /\ candidates # None /\ Good(candidates) /\ config \in Configs
      /\ Delegated(candidates, other_stake, vaults)
  BY DEF RInv, ChainOK, add_stake
<1>2. CandidateStake(candidates, pk) + amount \in Nat
  BY <1>1, CandidateStakeType
<1>3. Reassigned(candidates, candidates', pk, CandidateStake(candidates, pk) + amount)
  BY <1>1, <1>2, SetStakeReassigns DEF add_stake, ValidatorStake
<1>4. candidates' # None
  BY <1>3, ListIsSome DEF Reassigned
<1> QED
  BY <1>1, <1>3, <1>4

LEMMA Places ==
  /\ \A u \in Users : u # NotMinted /\ u # Escrow /\ u # Burnt
  /\ NotMinted # Escrow /\ NotMinted # Burnt /\ Escrow # Burnt
  BY RestakingAssumption DEF NotMinted, Escrow, Burnt

\* The parameters with another total.
LEMMA TotalOK ==
  ASSUME NEW p, ParamsOK(p), NEW total, total \in 0 .. p.staking_cap,
         NEW q, q = [p EXCEPT !.total_deposited_amount = total]
  PROVE  ParamsOK(q) /\ q.total_deposited_amount = total
<1>1. q = [admin |-> p.admin, whitelisted_tokens |-> p.whitelisted_tokens,
           guest_chain_program_id |-> p.guest_chain_program_id,
           staking_cap |-> p.staking_cap, total_deposited_amount |-> total]
  BY DEF ParamsOK
<1>2. /\ q.admin = p.admin
      /\ q.whitelisted_tokens = p.whitelisted_tokens
      /\ q.guest_chain_program_id = p.guest_chain_program_id
      /\ q.staking_cap = p.staking_cap
      /\ q.total_deposited_amount = total
  BY <1>1
<1> QED
  BY <1>1, <1>2 DEF ParamsOK

LEMMA DepositRInv ==
  ASSUME RInv, NEW u \in Users, NEW r \in Receipts, NEW m \in Mints,
         NEW pk \in PubKey, NEW amount \in Amounts, Deposit(u, r, m, pk, amount)
  PROVE  RInv'
<1> DEFINE v == [service      |-> IF staking_params.guest_chain_program_id
                                  THEN GuestChain(pk) ELSE None,
                 stake_amount |-> amount,
                 stake_mint   |-> m,
                 last_received_rewards_height |-> 0,
                 withdrawal_request           |-> None]
<1>1. /\ holder[r] = NotMinted
      /\ FitsCap(amount)
      /\ wallet[u][m] >= amount
      /\ staking_params' = [staking_params EXCEPT !.total_deposited_amount = @ + amount]
      /\ wallet' = [wallet EXCEPT ![u][m] = @ - amount]
      /\ vault_tokens' = [vault_tokens EXCEPT ![m] = @ + amount]
      /\ holder' = [holder EXCEPT ![r] = u]
      /\ UNCHANGED <<other_stake, config, config, epoch_height, now>>
  BY DEF Deposit
<1>2. vaults' = WithVault(vaults, r, v)
  BY DEF Deposit, WithVault, Open
<1>3. /\ ParamsOK(staking_params)
      /\ RecordsOK(vaults, holder, epoch_height)
      /\ IsVaults(vaults)
      /\ BalancesOK(wallet, vault_tokens)
      /\ Backed(staking_params.total_deposited_amount, vaults, vault_tokens)
      /\ ChainOK(candidates, other_stake, vaults)
  BY DEF RInv, RecordsOK
<1>4. amount \in Nat
  BY RestakingAssumption
<1>5. /\ v \in Vault
      /\ v.stake_amount = amount
      /\ v.stake_mint = m
      /\ v.last_received_rewards_height = 0
      /\ v.withdrawal_request = None
      /\ v.service = IF staking_params.guest_chain_program_id THEN GuestChain(pk) ELSE None
  BY RestakingAssumption DEF Vault
<1> HIDE DEF v
<1>6. r \notin DOMAIN vaults
  BY <1>1, <1>3, Places DEF RecordsOK, Matches
<1>7. /\ IsVaults(vaults')
      /\ DOMAIN vaults' = DOMAIN vaults \cup {r}
      /\ vaults'[r] = v
      /\ \A s \in DOMAIN vaults : vaults'[s] = vaults[s]
  BY <1>2, <1>3, <1>5, <1>6, WithVaultSums, SMTT(30)
<1>8. /\ ParamsOK(staking_params')
      /\ staking_params'.total_deposited_amount
           = staking_params.total_deposited_amount + amount
  <2>1. staking_params.total_deposited_amount + amount \in 0 .. staking_params.staking_cap
    BY <1>1, <1>3, <1>4 DEF FitsCap, ParamsOK
  <2> QED
    BY <1>1, <1>3, <2>1, TotalOK
<1>9. RecordsOK(vaults', holder', epoch_height')
  <2>1. holder \in [Receipts -> Users \cup {NotMinted, Escrow, Burnt}]
    BY <1>3 DEF RecordsOK
  <2>2. /\ holder' \in [Receipts -> Users \cup {NotMinted, Escrow, Burnt}]
        /\ holder'[r] = u
        /\ \A s \in Receipts \ {r} : holder'[s] = holder[s]
    BY <1>1, <2>1
  <2>3. \A s \in Receipts : Matches(vaults', holder', s)
    <3>1. Matches(vaults', holder', r)
      BY <1>5, <1>7, <2>2, Places DEF Matches
    <3>2. ASSUME NEW s \in Receipts \ {r} PROVE Matches(vaults', holder', s)
      BY <1>3, <1>7, <2>2 DEF RecordsOK, Matches
    <3> QED
      BY <3>1, <3>2
  <2>4. \A s \in DOMAIN vaults' : vaults'[s].last_received_rewards_height <= epoch_height
    <3>1. 0 <= epoch_height
      BY DEF RInv
    <3> QED
      BY <1>3, <1>5, <1>7, <3>1 DEF RecordsOK
  <2> QED
    BY <1>1, <1>7, <2>2, <2>3, <2>4 DEF RecordsOK
<1>10. BalancesOK(wallet', vault_tokens')
  <2>1. wallet[u][m] - amount \in Nat /\ vault_tokens[m] + amount \in Nat
    BY <1>1, <1>3, <1>4 DEF BalancesOK
  <2> QED
    BY <1>1, <1>3, <2>1 DEF BalancesOK
<1>11. Backed(staking_params'.total_deposited_amount, vaults', vault_tokens')
  <2>1. vault_tokens \in [Mints -> Nat]
    BY <1>3 DEF BalancesOK
  <2>2. Backed(staking_params.total_deposited_amount + v.stake_amount,
               WithVault(vaults, r, v),
               [vault_tokens EXCEPT ![v.stake_mint] = @ + v.stake_amount])
    BY <1>3, <1>5, <1>6, <2>1, DepositBacked
  <2> QED
    BY <1>1, <1>2, <1>5, <1>8, <2>2
<1>12. ChainOK(candidates', other_stake', vaults')
  <2>1. CASE staking_params.guest_chain_program_id
    <3>1. v.service = GuestChain(pk) /\ add_stake(pk, amount)
      BY <1>5, <2>1 DEF Deposit
    <3>2. /\ candidates' # None
          /\ Delegated(candidates, other_stake, vaults)
          /\ Reassigned(candidates, candidates', pk,
                        CandidateStake(candidates, pk) + amount)
      BY <1>4, <3>1, AddStakeReassigns
    <3>3. other_stake \in [PubKey -> Nat]
      BY <1>3 DEF ChainOK
    <3>4. Delegated(candidates', other_stake, vaults')
      BY <1>2, <1>3, <1>5, <1>6, <3>1, <3>2, <3>3, DepositDelegated
    <3> QED
      BY <1>1, <3>2, <3>3, <3>4 DEF ChainOK, Reassigned
  <2>2. CASE ~staking_params.guest_chain_program_id
    <3>1. v.service = None /\ candidates' = candidates
      BY <1>5, <2>2 DEF Deposit
    <3>2. Delegated(candidates, other_stake, vaults)
             => Delegated(candidates, other_stake, vaults')
      BY <1>2, <1>3, <1>5, <1>6, <3>1, IdleDelegated
    <3> QED
      BY <1>1, <1>3, <1>7, <3>1, <3>2 DEF ChainOK
  <2> QED
    BY <2>1, <2>2
<1>13. config' \in Configs /\ now' \in 0 .. MaxTime /\ epoch_height' \in 1 .. MaxEpoch
  BY <1>1 DEF RInv
<1> QED
  BY <1>8, <1>9, <1>10, <1>11, <1>12, <1>13 DEF RInv

(* What withdraw does, the call to the chain included.                     *)
LEMMA WithdrawFacts ==
  ASSUME RInv, NEW r \in Receipts, Withdraw(r)
  PROVE  /\ r \in DOMAIN vaults
         /\ vaults[r] \in Vault
         /\ holder[r] = Escrow
         /\ vaults[r].withdrawal_request.owner \in Users
         /\ vaults[r].stake_mint \in Mints
         /\ vaults[r].stake_amount \in Nat
         /\ \E pk \in PubKey :
              /\ vaults[r].service = GuestChain(pk)
              /\ Reassigned(candidates, candidates', pk,
                            CandidateStake(candidates, pk) - vaults[r].stake_amount)
         /\ candidates # None /\ candidates' # None
<1>1. /\ r \in DOMAIN vaults
      /\ vaults[r].withdrawal_request # None
      /\ candidates # None
      /\ vaults[r].service # None
      /\ candidates' \in StakeAfterWithdraw(r)
  BY DEF Withdraw, Open, Matured
<1>2. IsVaults(vaults) /\ Matches(vaults, holder, r)
  BY DEF RInv, RecordsOK
<1>3. vaults[r] \in Vault
  BY <1>1, <1>2, AmountsTyped
<1>4. holder[r] = Escrow
  BY <1>1, <1>2 DEF Matches
<1>5. vaults[r].withdrawal_request \in [timestamp_in_sec : 0 .. MaxTime, owner : Users]
  BY <1>1, <1>3 DEF Vault
<1>6. PICK pk \in PubKey : vaults[r].service = GuestChain(pk)
  BY <1>1, <1>3, VaultTypes
<1>7. Good(candidates) /\ config \in Configs
  BY <1>1 DEF RInv, ChainOK
<1> DEFINE a == vaults[r].stake_amount
<1>8. /\ candidates' \in set_stake(pk, CandidateStake(candidates, pk) - a)
      /\ CandidateStake(candidates, pk) >= a
  BY <1>1, <1>6, ServiceIsValidator DEF StakeAfterWithdraw, ValidatorStake
<1>9. a \in Nat /\ vaults[r].stake_mint \in Mints
  BY <1>3, VaultTypes
<1> HIDE DEF a
<1>10. CandidateStake(candidates, pk) - a \in Nat
  BY <1>7, <1>8, <1>9, CandidateStakeType
<1>11. Reassigned(candidates, candidates', pk, CandidateStake(candidates, pk) - a)
  BY <1>7, <1>8, <1>10, SetStakeReassigns
<1>12. candidates' # None
  BY <1>11, ListIsSome DEF Reassigned
<1> QED
  BY <1>1, <1>3, <1>4, <1>5, <1>6, <1>9, <1>11, <1>12 DEF a

LEMMA WithdrawRInv ==
  ASSUME RInv, NEW r \in Receipts, Withdraw(r)
  PROVE  RInv'
<1> DEFINE a == vaults[r].stake_amount
           m == vaults[r].stake_mint
           u == vaults[r].withdrawal_request.owner
           total == staking_params.total_deposited_amount
<1>1. /\ r \in DOMAIN vaults
      /\ holder[r] = Escrow
      /\ u \in Users /\ m \in Mints /\ a \in Nat
      /\ candidates # None /\ candidates' # None
  BY WithdrawFacts
<1>2. PICK pk \in PubKey :
        /\ vaults[r].service = GuestChain(pk)
        /\ Reassigned(candidates, candidates', pk, CandidateStake(candidates, pk) - a)
  BY WithdrawFacts
<1>3. /\ staking_params' = [staking_params EXCEPT !.total_deposited_amount = @ - a]
      /\ vaults' = WithoutVault(vaults, r)
      /\ wallet' = [wallet EXCEPT ![u][m] = @ + a]
      /\ vault_tokens' = [vault_tokens EXCEPT ![m] = @ - a]
      /\ holder' = [holder EXCEPT ![r] = Burnt]
      /\ UNCHANGED <<other_stake, config, config, epoch_height, now>>
  BY DEF Withdraw, CloseVault, WithoutVault, Open
<1>4. /\ ParamsOK(staking_params)
      /\ RecordsOK(vaults, holder, epoch_height)
      /\ IsVaults(vaults)
      /\ BalancesOK(wallet, vault_tokens)
      /\ Backed(total, vaults, vault_tokens)
      /\ ChainOK(candidates, other_stake, vaults)
  BY DEF RInv, RecordsOK
<1>5. /\ IsVaults(vaults')
      /\ DOMAIN vaults' = DOMAIN vaults \ {r}
      /\ \A s \in DOMAIN vaults \ {r} : vaults'[s] = vaults[s]
  BY <1>1, <1>3, <1>4, WithoutVaultSums
<1>6. /\ Backed(total - a, WithoutVault(vaults, r), [vault_tokens EXCEPT ![m] = @ - a])
      /\ total - a \in Nat
      /\ vault_tokens[m] - a \in Nat
  <2>1. vault_tokens \in [Mints -> Nat]
    BY <1>4 DEF BalancesOK
  <2> QED
    BY <1>1, <1>4, <2>1, WithdrawBacked
<1> HIDE DEF a, m, u
<1>7. ParamsOK(staking_params') /\ staking_params'.total_deposited_amount = total - a
  <2>1. total - a \in 0 .. staking_params.staking_cap
    BY <1>1, <1>4, <1>6 DEF ParamsOK
  <2> QED
    BY <1>3, <1>4, <2>1, TotalOK
<1>8. RecordsOK(vaults', holder', epoch_height')
  <2>1. holder \in [Receipts -> Users \cup {NotMinted, Escrow, Burnt}]
    BY <1>4 DEF RecordsOK
  <2>2. /\ holder' \in [Receipts -> Users \cup {NotMinted, Escrow, Burnt}]
        /\ holder'[r] = Burnt
        /\ \A s \in Receipts \ {r} : holder'[s] = holder[s]
    BY <1>3, <2>1
  <2>3. \A s \in Receipts : Matches(vaults', holder', s)
    <3>1. Matches(vaults', holder', r)
      BY <1>5, <2>2, Places DEF Matches
    <3>2. ASSUME NEW s \in Receipts \ {r} PROVE Matches(vaults', holder', s)
      BY <1>4, <1>5, <2>2 DEF RecordsOK, Matches
    <3> QED
      BY <3>1, <3>2
  <2>4. \A s \in DOMAIN vaults' : vaults'[s].last_received_rewards_height <= epoch_height
    BY <1>4, <1>5 DEF RecordsOK
  <2> QED
    BY <1>3, <1>5, <2>2, <2>3, <2>4 DEF RecordsOK
<1>9. BalancesOK(wallet', vault_tokens')
  <2>1. wallet[u][m] + a \in Nat
    BY <1>1, <1>4 DEF BalancesOK
  <2> QED
    BY <1>1, <1>3, <1>4, <1>6, <2>1 DEF BalancesOK
<1>10. Backed(staking_params'.total_deposited_amount, vaults', vault_tokens')
  BY <1>3, <1>6, <1>7
<1>11. ChainOK(candidates', other_stake', vaults')
  <2>1. other_stake \in [PubKey -> Nat] /\ Delegated(candidates, other_stake, vaults)
    BY <1>1, <1>4 DEF ChainOK
  <2>2. Delegated(candidates', other_stake, vaults')
    BY <1>1, <1>2, <1>3, <1>4, <2>1, WithdrawDelegated DEF a
  <2> QED
    BY <1>1, <1>2, <1>3, <2>1, <2>2 DEF ChainOK, Reassigned
<1>12. config' \in Configs /\ now' \in 0 .. MaxTime /\ epoch_height' \in 1 .. MaxEpoch
  BY <1>3 DEF RInv
<1> QED
  BY <1>7, <1>8, <1>9, <1>10, <1>11, <1>12 DEF RInv

-----------------------------------------------------------------------------
(* Instructions that edit one vault.                                       *)

\* z is w but for the vault of r, which keeps its deposit.
EditedAt(w, z, r) ==
    /\ IsVaults(z)
    /\ DOMAIN z = DOMAIN w
    /\ \A s \in DOMAIN w \ {r} : z[s] = w[s]
    /\ SameDeposits(w, z)

LEMMA EditVault ==
  ASSUME NEW w, IsVaults(w), NEW r \in DOMAIN w, NEW v \in Vault,
         v.stake_amount = w[r].stake_amount, v.stake_mint = w[r].stake_mint
  PROVE  EditedAt(w, [w EXCEPT ![r] = v], r) /\ [w EXCEPT ![r] = v][r] = v
<1> DEFINE z == [w EXCEPT ![r] = v]
<1>1. /\ DOMAIN z = DOMAIN w
      /\ z[r] = v
      /\ \A s \in DOMAIN w \ {r} : z[s] = w[s]
      /\ z \in [DOMAIN w -> Vault]
  BY DEF IsVaults
<1> HIDE DEF z
<1>2. IsVaults(z)
  BY <1>1 DEF IsVaults
<1>3. SameDeposits(w, z)
  BY <1>1 DEF SameDeposits
<1>4. EditedAt(w, z, r)
  BY <1>1, <1>2, <1>3 DEF EditedAt
<1> QED
  BY <1>1, <1>4 DEF z

\* The vault v with another request and height.
Rewritten(v, request, height) ==
    [service |-> v.service, stake_amount |-> v.stake_amount, stake_mint |-> v.stake_mint,
     last_received_rewards_height |-> height, withdrawal_request |-> request]

LEMMA RewriteVault ==
  ASSUME NEW v \in Vault, NEW x, NEW y
  PROVE  /\ [v EXCEPT !.withdrawal_request = x]
               = Rewritten(v, x, v.last_received_rewards_height)
         /\ [v EXCEPT !.last_received_rewards_height = y]
               = Rewritten(v, v.withdrawal_request, y)
         /\ [v EXCEPT !.service = x]
               = [service |-> x, stake_amount |-> v.stake_amount,
                  stake_mint |-> v.stake_mint,
                  last_received_rewards_height |-> v.last_received_rewards_height,
                  withdrawal_request |-> v.withdrawal_request]
<1>1. v = [service |-> v.service, stake_amount |-> v.stake_amount,
           stake_mint |-> v.stake_mint,
           last_received_rewards_height |-> v.last_received_rewards_height,
           withdrawal_request |-> v.withdrawal_request]
  BY VaultTypes
<1>2. [v EXCEPT !.withdrawal_request = x] = Rewritten(v, x, v.last_received_rewards_height)
  BY <1>1 DEF Rewritten
<1>3. [v EXCEPT !.last_received_rewards_height = y] = Rewritten(v, v.withdrawal_request, y)
  BY <1>1 DEF Rewritten
<1>4. [v EXCEPT !.service = x]
        = [service |-> x, stake_amount |-> v.stake_amount,
           stake_mint |-> v.stake_mint,
           last_received_rewards_height |-> v.last_received_rewards_height,
           withdrawal_request |-> v.withdrawal_request]
  BY <1>1
<1> QED
  BY <1>2, <1>3, <1>4

LEMMA RewriteBoth ==
  ASSUME NEW v \in Vault, NEW x, NEW y
  PROVE  [v EXCEPT !.withdrawal_request = x, !.last_received_rewards_height = y]
           = Rewritten(v, x, y)
<1>1. v = [service |-> v.service, stake_amount |-> v.stake_amount,
           stake_mint |-> v.stake_mint,
           last_received_rewards_height |-> v.last_received_rewards_height,
           withdrawal_request |-> v.withdrawal_request]
  BY VaultTypes
<1>2. PICK z : z = [v EXCEPT !.withdrawal_request = x, !.last_received_rewards_height = y]
  OBVIOUS
<1>3. z = Rewritten(v, x, y)
  BY <1>1, <1>2 DEF Rewritten
<1> QED
  BY <1>2, <1>3, Zenon

\* Changes of a vault's request and reward height and of its receipt's place.
LEMMA RewriteRInv ==
  ASSUME RInv, NEW r \in Receipts, r \in DOMAIN vaults,
         NEW request \in [timestamp_in_sec : 0 .. MaxTime, owner : Users] \cup {None},
         NEW height \in 0 .. epoch_height,
         vaults' = [vaults EXCEPT ![r] = Rewritten(vaults[r], request, height)],
         NEW place \in Users \cup {Escrow}, holder' = [holder EXCEPT ![r] = place],
         place = Escrow <=> request # None,
         UNCHANGED <<staking_params, wallet, vault_tokens, chain, now>>
  PROVE  RInv'
<1> DEFINE v == Rewritten(vaults[r], request, height)
<1>1. /\ RecordsOK(vaults, holder, epoch_height) /\ IsVaults(vaults)
      /\ BalancesOK(wallet, vault_tokens)
      /\ Backed(staking_params.total_deposited_amount, vaults, vault_tokens)
      /\ ChainOK(candidates, other_stake, vaults)
      /\ ParamsOK(staking_params)
      /\ now \in 0 .. MaxTime /\ epoch_height \in 1 .. MaxEpoch
  BY DEF RInv, RecordsOK
<1>2. UNCHANGED <<staking_params, wallet, vault_tokens, candidates, other_stake,
                  config, epoch_height, now>>
  BY DEF chain
<1>3. vaults[r] \in Vault /\ height \in 0 .. MaxEpoch /\ height <= epoch_height
  <2>1. vaults[r] \in Vault
    BY <1>1, AmountsTyped
  <2> QED
    BY <1>1, <2>1, RestakingAssumption
<1>4. /\ v \in Vault
      /\ v.service = vaults[r].service
      /\ v.stake_amount = vaults[r].stake_amount
      /\ v.stake_mint = vaults[r].stake_mint
      /\ v.last_received_rewards_height = height
      /\ v.withdrawal_request = request
  BY <1>3 DEF Vault, Rewritten
<1> HIDE DEF v
<1>5. EditedAt(vaults, vaults', r) /\ vaults'[r] = v
  BY <1>1, <1>4, EditVault DEF v
<1>6. \A s \in DOMAIN vaults : vaults'[s].service = vaults[s].service
  BY <1>4, <1>5 DEF EditedAt
<1>7. RecordsOK(vaults', holder', epoch_height)
  <2>1. holder \in [Receipts -> Users \cup {NotMinted, Escrow, Burnt}]
    BY <1>1 DEF RecordsOK
  <2>2. /\ holder' \in [Receipts -> Users \cup {NotMinted, Escrow, Burnt}]
        /\ holder'[r] = place
        /\ \A s \in Receipts \ {r} : holder'[s] = holder[s]
    BY <2>1
  <2>3. Matches(vaults', holder', r)
    BY <1>4, <1>5, <2>2 DEF EditedAt, Matches
  <2>4. ASSUME NEW s \in Receipts \ {r} PROVE Matches(vaults', holder', s)
    BY <1>1, <1>5, <2>2 DEF EditedAt, RecordsOK, Matches
  <2>5. \A s \in DOMAIN vaults' : vaults'[s].last_received_rewards_height <= epoch_height
    BY <1>1, <1>3, <1>4, <1>5 DEF EditedAt, RecordsOK
  <2> QED
    BY <1>5, <2>2, <2>3, <2>4, <2>5 DEF EditedAt, RecordsOK
<1>8. Backed(staking_params.total_deposited_amount, vaults', vault_tokens)
  BY <1>1, <1>5, SameBacked DEF EditedAt
<1>9. ChainOK(candidates, other_stake, vaults')
  <2>1. Delegated(candidates, other_stake, vaults)
           => Delegated(candidates, other_stake, vaults')
    <3>1. SameDeposits(vaults, vaults')
      BY <1>5 DEF EditedAt
    <3> QED
      BY ONLY <1>6, <3>1, SameDelegated
  <2> QED
    BY <1>1, <1>5, <1>6, <2>1 DEF ChainOK, EditedAt
<1> QED
  BY <1>1, <1>2, <1>7, <1>8, <1>9 DEF RInv

LEMMA VaultOfHolder ==
  ASSUME RInv, NEW r \in Receipts, r \in DOMAIN vaults
  PROVE  /\ vaults \in [DOMAIN vaults -> Vault]
         /\ vaults[r] \in Vault
         /\ vaults[r] = Rewritten(vaults[r], vaults[r].withdrawal_request,
                                  vaults[r].last_received_rewards_height)
         /\ vaults[r].last_received_rewards_height \in 0 .. epoch_height
         /\ holder \in [Receipts -> Users \cup {NotMinted, Escrow, Burnt}]
         /\ holder[r] \in Users \cup {Escrow}
         /\ holder[r] = Escrow <=> vaults[r].withdrawal_request # None
<1>1. RecordsOK(vaults, holder, epoch_height) /\ IsVaults(vaults)
  BY DEF RInv, RecordsOK
<1>2. vaults[r] \in Vault /\ vaults \in [DOMAIN vaults -> Vault]
  BY <1>1, AmountsTyped DEF IsVaults
<1>3. vaults[r] = Rewritten(vaults[r], vaults[r].withdrawal_request,
                            vaults[r].last_received_rewards_height)
  BY <1>2, VaultTypes DEF Rewritten
<1>4. vaults[r].last_received_rewards_height \in 0 .. epoch_height
  <2>1. /\ vaults[r].last_received_rewards_height \in 0 .. MaxEpoch
        /\ vaults[r].last_received_rewards_height <= epoch_height
        /\ epoch_height \in 1 .. MaxEpoch
    BY <1>1, <1>2 DEF Vault, RecordsOK, RInv
  <2> QED
    BY <2>1, RestakingAssumption
<1> QED
  BY <1>1, <1>2, <1>3, <1>4 DEF RecordsOK, Matches

LEMMA WithdrawalRequestRInv ==
  ASSUME RInv, NEW u \in Users, NEW r \in Receipts, WithdrawalRequest(u, r)
  PROVE  RInv'
<1> DEFINE request == [timestamp_in_sec |-> now, owner |-> u]
<1>1. /\ r \in DOMAIN vaults
      /\ vaults' = [vaults EXCEPT ![r].withdrawal_request = request,
                                  ![r].last_received_rewards_height = epoch_height]
      /\ holder' = [holder EXCEPT ![r] = Escrow]
      /\ UNCHANGED <<staking_params, wallet, vault_tokens, chain, now>>
  BY DEF WithdrawalRequest, Holds, Open
<1>2. request \in [timestamp_in_sec : 0 .. MaxTime, owner : Users] /\ request # None
  <2>1. now \in 0 .. MaxTime
    BY DEF RInv
  <2>2. DOMAIN request = {"timestamp_in_sec", "owner"} /\ DOMAIN None = {"none"}
    BY DEF None
  <2> QED
    BY <2>1, <2>2
<1> HIDE DEF request
<1>3. epoch_height \in 0 .. epoch_height
  BY DEF RInv
<1>4. vaults' = [vaults EXCEPT ![r] = Rewritten(vaults[r], request, epoch_height)]
  <2>1. vaults \in [DOMAIN vaults -> Vault] /\ vaults[r] \in Vault
    BY <1>1, VaultOfHolder
  <2> DEFINE v == [vaults[r] EXCEPT !.withdrawal_request = request,
                                    !.last_received_rewards_height = epoch_height]
  <2>2. vaults' = [vaults EXCEPT ![r] = v]
    BY <1>1, <2>1
  <2>3. v = Rewritten(vaults[r], request, epoch_height)
    BY <2>1, RewriteBoth, Zenon
  <2> QED
    BY <2>2, <2>3, Zenon
<1> QED
  BY <1>1, <1>2, <1>3, <1>4, RewriteRInv

LEMMA CancelWithdrawalRequestRInv ==
  ASSUME RInv, NEW u \in Users, NEW r \in Receipts, CancelWithdrawalRequest(u, r)
  PROVE  RInv'
<1>1. /\ r \in DOMAIN vaults
      /\ vaults' = [vaults EXCEPT ![r].withdrawal_request = None]
      /\ holder' = [holder EXCEPT ![r] = u]
      /\ UNCHANGED <<staking_params, wallet, vault_tokens, chain, now>>
  BY DEF CancelWithdrawalRequest, Open
<1> DEFINE height == vaults[r].last_received_rewards_height
<1>2. height \in 0 .. epoch_height
  BY <1>1, VaultOfHolder
<1>3. vaults' = [vaults EXCEPT ![r] = Rewritten(vaults[r], None, height)]
  <2>1. vaults' = [vaults EXCEPT ![r] = [vaults[r] EXCEPT !.withdrawal_request = None]]
    BY <1>1
  <2> QED
    BY <1>1, <2>1, VaultOfHolder, RewriteVault
<1>4. u # Escrow
  BY Places
<1> HIDE DEF height
<1> QED
  BY <1>1, <1>2, <1>3, <1>4, RewriteRInv

LEMMA ClaimRewardsRInv ==
  ASSUME RInv, NEW u \in Users, NEW r \in Receipts, ClaimRewards(u, r)
  PROVE  RInv'
<1>1. /\ r \in DOMAIN vaults
      /\ vaults' = [vaults EXCEPT ![r].last_received_rewards_height = epoch_height]
      /\ UNCHANGED <<holder, staking_params, wallet, vault_tokens, chain, now>>
  BY DEF ClaimRewards, Holds, Open
<1> DEFINE request == vaults[r].withdrawal_request
<1>2. epoch_height \in 0 .. epoch_height
  BY DEF RInv
<1>3. /\ vaults' = [vaults EXCEPT ![r] = Rewritten(vaults[r], request, epoch_height)]
      /\ request \in [timestamp_in_sec : 0 .. MaxTime, owner : Users] \cup {None}
  <2>1. vaults' = [vaults EXCEPT ![r] =
                     [vaults[r] EXCEPT !.last_received_rewards_height = epoch_height]]
    BY <1>1
  <2>2. vaults[r] \in Vault
    BY <1>1, VaultOfHolder
  <2>3. request \in [timestamp_in_sec : 0 .. MaxTime, owner : Users] \cup {None}
    BY <2>2 DEF Vault
  <2> QED
    BY <2>1, <2>2, <2>3, RewriteVault
<1>4. /\ holder' = [holder EXCEPT ![r] = holder[r]]
      /\ holder[r] \in Users \cup {Escrow}
      /\ holder[r] = Escrow <=> request # None
  BY <1>1, VaultOfHolder
<1> HIDE DEF request
<1> QED
  BY <1>1, <1>2, <1>3, <1>4, RewriteRInv

LEMMA TransferReceiptRInv ==
  ASSUME RInv, NEW u \in Users, NEW w \in Users, NEW r \in Receipts, TransferReceipt(u, w, r)
  PROVE  RInv'
<1>1. /\ r \in DOMAIN vaults /\ holder[r] = u
      /\ holder' = [holder EXCEPT ![r] = w]
      /\ UNCHANGED <<vaults, staking_params, wallet, vault_tokens, chain, now>>
  BY DEF TransferReceipt, Holds, Open
<1> DEFINE height  == vaults[r].last_received_rewards_height
           request == vaults[r].withdrawal_request
<1>2. height \in 0 .. epoch_height /\ request = None
  BY <1>1, VaultOfHolder, Places
<1>3. vaults' = [vaults EXCEPT ![r] = Rewritten(vaults[r], None, height)]
  BY <1>1, <1>2, VaultOfHolder
<1>4. w # Escrow
  BY Places
<1> HIDE DEF height, request
<1> QED
  BY <1>1, <1>2, <1>3, <1>4, RewriteRInv

LEMMA SetServiceRInv ==
  ASSUME RInv, NEW u \in Users, NEW r \in Receipts, NEW pk \in PubKey, SetService(u, r, pk)
  PROVE  RInv'
<1> DEFINE a == vaults[r].stake_amount
           v == [service |-> GuestChain(pk), stake_amount |-> a,
                 stake_mint |-> vaults[r].stake_mint,
                 last_received_rewards_height |-> vaults[r].last_received_rewards_height,
                 withdrawal_request |-> vaults[r].withdrawal_request]
<1>1. /\ r \in DOMAIN vaults
      /\ vaults[r].service = None
      /\ vaults' = [vaults EXCEPT ![r].service = GuestChain(pk)]
      /\ add_stake(pk, a)
      /\ UNCHANGED <<staking_params, holder, wallet, vault_tokens, other_stake,
                     config, epoch_height, now>>
  BY DEF SetService, Holds, Open
<1>2. /\ RecordsOK(vaults, holder, epoch_height) /\ IsVaults(vaults)
      /\ BalancesOK(wallet, vault_tokens)
      /\ Backed(staking_params.total_deposited_amount, vaults, vault_tokens)
      /\ other_stake \in [PubKey -> Nat]
      /\ ParamsOK(staking_params)
      /\ now \in 0 .. MaxTime /\ epoch_height \in 1 .. MaxEpoch
  BY DEF RInv, RecordsOK, ChainOK
<1>3. vaults[r] \in Vault /\ a \in Nat
  BY <1>1, <1>2, AmountsTyped
<1>4. /\ v \in Vault
      /\ v.service = GuestChain(pk)
      /\ v.stake_amount = a
      /\ v.stake_mint = vaults[r].stake_mint
      /\ v.last_received_rewards_height = vaults[r].last_received_rewards_height
      /\ v.withdrawal_request = vaults[r].withdrawal_request
  BY <1>3 DEF Vault
<1>5. vaults' = [vaults EXCEPT ![r] = v]
  <2>1. vaults' = [vaults EXCEPT ![r] = [vaults[r] EXCEPT !.service = GuestChain(pk)]]
    BY <1>1
  <2>2. [vaults[r] EXCEPT !.service = GuestChain(pk)] = v
    BY <1>3, RewriteVault
  <2> QED
    BY <2>1, <2>2, Zenon
<1> HIDE DEF v
<1>6. EditedAt(vaults, vaults', r) /\ vaults'[r] = v
  <2>1. EditedAt(vaults, [vaults EXCEPT ![r] = v], r) /\ [vaults EXCEPT ![r] = v][r] = v
    BY <1>1, <1>2, <1>4, EditVault
  <2> QED
    BY <1>5, <2>1
<1>7. RecordsOK(vaults', holder, epoch_height)
  <2>1. \A s \in DOMAIN vaults :
          /\ vaults'[s].last_received_rewards_height = vaults[s].last_received_rewards_height
          /\ vaults'[s].withdrawal_request = vaults[s].withdrawal_request
    BY <1>4, <1>6 DEF EditedAt
  <2>2. IsVaults(vaults') /\ DOMAIN vaults' = DOMAIN vaults
    BY <1>6 DEF EditedAt
  <2>3. \A s \in Receipts : Matches(vaults', holder, s)
    BY <1>2, <2>1, <2>2 DEF RecordsOK, Matches
  <2> QED
    BY <1>2, <2>1, <2>2, <2>3 DEF RecordsOK
<1>8. Backed(staking_params.total_deposited_amount, vaults', vault_tokens)
  BY <1>2, <1>6, SameBacked DEF EditedAt
<1>9. ChainOK(candidates', other_stake, vaults')
  <2>1. /\ candidates' # None
        /\ Delegated(candidates, other_stake, vaults)
        /\ Reassigned(candidates, candidates', pk, CandidateStake(candidates, pk) + a)
    BY <1>1, <1>3, AddStakeReassigns
  <2>2. /\ SameDeposits(vaults, vaults')
        /\ vaults'[r].service = GuestChain(pk)
        /\ \A s \in DOMAIN vaults : s # r => vaults'[s].service = vaults[s].service
    BY <1>4, <1>6 DEF EditedAt
  <2>3. Delegated(candidates', other_stake, vaults')
    BY <1>1, <1>2, <2>1, <2>2, ServiceDelegated
  <2> QED
    BY <1>2, <2>1, <2>3 DEF ChainOK, Reassigned
<1> QED
  BY <1>1, <1>2, <1>7, <1>8, <1>9 DEF RInv

-----------------------------------------------------------------------------
(* The administrator, the chain and the clock.                             *)

LEMMA UpdateParamsRInv ==
  ASSUME RInv, NEW p, ParamsOK(p), UpdateParams(p),
         p.total_deposited_amount = staking_params.total_deposited_amount
  PROVE  RInv'
<1>1. /\ staking_params' = p
      /\ UNCHANGED <<vaults, holder, wallet, vault_tokens, candidates, other_stake,
                     config, epoch_height, now>>
  BY DEF UpdateParams, chain
<1> QED
  BY <1>1 DEF RInv

LEMMA AdminRInv ==
  ASSUME RInv, NEW u \in Users,
         \/ \E new \in SUBSET Mints : UpdateTokenWhitelist(u, new)
         \/ UpdateGuestChainInitialization(u)
         \/ \E cap \in Caps : UpdateStakingCap(u, cap)
  PROVE  RInv'
<1> DEFINE p == staking_params
<1>1. ParamsOK(p)
  BY DEF RInv
<1>2. p = [admin |-> p.admin, whitelisted_tokens |-> p.whitelisted_tokens,
           guest_chain_program_id |-> p.guest_chain_program_id,
           staking_cap |-> p.staking_cap,
           total_deposited_amount |-> p.total_deposited_amount]
  BY <1>1 DEF ParamsOK
<1>3. ASSUME NEW q,
             \E W \in SUBSET Mints, guest \in BOOLEAN, cap \in Nat :
               /\ cap >= p.staking_cap
               /\ q = [admin |-> p.admin, whitelisted_tokens |-> W,
                       guest_chain_program_id |-> guest, staking_cap |-> cap,
                       total_deposited_amount |-> p.total_deposited_amount]
      PROVE  ParamsOK(q) /\ q.total_deposited_amount = p.total_deposited_amount
  <2>1. PICK W \in SUBSET Mints, guest \in BOOLEAN, cap \in Nat :
               /\ cap >= p.staking_cap
               /\ q = [admin |-> p.admin, whitelisted_tokens |-> W,
                       guest_chain_program_id |-> guest, staking_cap |-> cap,
                       total_deposited_amount |-> p.total_deposited_amount]
    BY <1>3
  <2>2. /\ q.admin = p.admin /\ q.whitelisted_tokens = W
        /\ q.guest_chain_program_id = guest /\ q.staking_cap = cap
        /\ q.total_deposited_amount = p.total_deposited_amount
    BY <2>1
  <2>3. p.total_deposited_amount \in 0 .. cap
    BY <1>1, <2>1 DEF ParamsOK
  <2>4. p.admin \in Users
    BY <1>1 DEF ParamsOK
  <2> QED
    BY <2>1, <2>2, <2>3, <2>4 DEF ParamsOK
<1>4. p.whitelisted_tokens \in SUBSET Mints /\ p.guest_chain_program_id \in BOOLEAN
      /\ p.staking_cap \in Nat
  BY <1>1 DEF ParamsOK
<1>5. ASSUME NEW new \in SUBSET Mints, UpdateTokenWhitelist(u, new)
      PROVE  RInv'
  <2>1. PICK q : q = [p EXCEPT !.whitelisted_tokens = @ \cup new]
    OBVIOUS
  <2>2. UpdateParams(q)
    BY <1>5, <2>1 DEF UpdateTokenWhitelist
  <2>3. q = [admin |-> p.admin, whitelisted_tokens |-> p.whitelisted_tokens \cup new,
             guest_chain_program_id |-> p.guest_chain_program_id,
             staking_cap |-> p.staking_cap,
             total_deposited_amount |-> p.total_deposited_amount]
    BY <1>2, <2>1
  <2>4. ParamsOK(q) /\ q.total_deposited_amount = p.total_deposited_amount
    <3>1. p.whitelisted_tokens \cup new \in SUBSET Mints /\ p.staking_cap >= p.staking_cap
      BY <1>4
    <3> HIDE DEF p
    <3> QED
      BY <1>3, <1>4, <2>3, <3>1
  <2> QED
    BY <2>2, <2>4, UpdateParamsRInv
<1>6. ASSUME UpdateGuestChainInitialization(u) PROVE RInv'
  <2>1. PICK q : q = [p EXCEPT !.guest_chain_program_id = TRUE]
    OBVIOUS
  <2>2. UpdateParams(q)
    BY <1>6, <2>1 DEF UpdateGuestChainInitialization
  <2>3. q = [admin |-> p.admin, whitelisted_tokens |-> p.whitelisted_tokens,
             guest_chain_program_id |-> TRUE, staking_cap |-> p.staking_cap,
             total_deposited_amount |-> p.total_deposited_amount]
    BY <1>2, <2>1
  <2>4. ParamsOK(q) /\ q.total_deposited_amount = p.total_deposited_amount
    <3>1. TRUE \in BOOLEAN /\ p.staking_cap >= p.staking_cap
      BY <1>4
    <3> HIDE DEF p
    <3> QED
      BY <1>3, <1>4, <2>3, <3>1
  <2> QED
    BY <2>2, <2>4, UpdateParamsRInv
<1>7. ASSUME NEW cap \in Caps, UpdateStakingCap(u, cap) PROVE RInv'
  <2>1. PICK q : q = [p EXCEPT !.staking_cap = cap]
    OBVIOUS
  <2>2. UpdateParams(q) /\ p.staking_cap < cap
    BY <1>7, <2>1 DEF UpdateStakingCap
  <2>3. q = [admin |-> p.admin, whitelisted_tokens |-> p.whitelisted_tokens,
             guest_chain_program_id |-> p.guest_chain_program_id, staking_cap |-> cap,
             total_deposited_amount |-> p.total_deposited_amount]
    BY <1>2, <2>1
  <2>4. ParamsOK(q) /\ q.total_deposited_amount = p.total_deposited_amount
    <3>1. cap \in Nat /\ cap >= p.staking_cap
      BY <1>4, <2>2, RestakingAssumption
    <3> HIDE DEF p
    <3> QED
      BY <1>3, <1>4, <2>3, <3>1
  <2> QED
    BY <2>2, <2>4, UpdateParamsRInv
<1> QED
  BY <1>5, <1>6, <1>7

LEMMA InitialiseChainRInv ==
  ASSUME RInv, InitialiseChain
  PROVE  RInv'
<1>1. PICK x \in NewCandidates(MaxValidators, Genesis) : candidates' = clear_changed_flag(x)
  BY DEF InitialiseChain
<1>2. /\ candidates = None
      /\ UNCHANGED <<staking_params, vaults, holder, wallet, vault_tokens, other_stake,
                     config, epoch_height, now>>
  BY DEF InitialiseChain, program
<1>3. Good(candidates') /\ \A k : CandidateStake(candidates', k) = GenesisStake(k)
  BY <1>1, InitialStakes
<1>4. /\ other_stake \in [PubKey -> Nat]
      /\ \A r \in DOMAIN vaults : vaults[r].service = None
      /\ \A k \in PubKey : other_stake[k] = GenesisStake(k)
  BY <1>2 DEF RInv, ChainOK
<1>5. Delegated(candidates', other_stake, vaults)
  <2>1. \A k : OfValidator(vaults, k) = {}
    BY <1>4, ServiceIsValidator DEF OfValidator
  <2>2. SumOf(vaults, {}) = 0
    BY SumOfNone
  <2>3. SUFFICES ASSUME NEW k \in PubKey
                 PROVE  CandidateStake(candidates', k)
                          = other_stake[k] + SumOf(vaults, OfValidator(vaults, k))
    BY DEF Delegated
  <2>4. SumOf(vaults, OfValidator(vaults, k)) = 0
    BY <2>1, <2>2, Zenon
  <2>5. CandidateStake(candidates', k) = other_stake[k] /\ other_stake[k] \in Nat
    BY <1>3, <1>4
  <2> QED
    BY <2>4, <2>5
<1>6. ChainOK(candidates', other_stake, vaults)
  BY <1>3, <1>4, <1>5, ListIsSome DEF ChainOK
<1> QED
  BY <1>2, <1>6 DEF RInv

LEMMA UpdateStakeRInv ==
  ASSUME RInv, NEW pk \in PubKey, NEW delta \in {-1, 1}, UpdateStake(pk, delta)
  PROVE  RInv'
<1> DEFINE stake == CandidateStake(candidates, pk)
<1>1. /\ candidates # None
      /\ other_stake[pk] + delta \in 0 .. GenesisStake(pk) + MaxOther
      /\ stake + delta >= 0
      /\ candidates' \in set_stake(pk, stake + delta)
      /\ other_stake' = [other_stake EXCEPT ![pk] = @ + delta]
      /\ UNCHANGED <<staking_params, vaults, holder, wallet, vault_tokens,
                     config, epoch_height, now>>
  BY DEF UpdateStake, program, ValidatorStake
<1>2. /\ Good(candidates)
      /\ Delegated(candidates, other_stake, vaults)
      /\ other_stake \in [PubKey -> Nat]
      /\ IsVaults(vaults) /\ config \in Configs
  BY <1>1 DEF RInv, ChainOK, RecordsOK
<1>3. stake \in Nat
  BY <1>2, CandidateStakeType
<1> HIDE DEF stake
<1>4. Reassigned(candidates, candidates', pk, stake + delta)
  <2>1. stake + delta \in Nat
    BY <1>1, <1>3
  <2> QED
    BY <1>1, <1>2, <2>1, SetStakeReassigns
<1>5. other_stake[pk] + delta \in Nat
  BY <1>1, <1>2, GenesisStakeType, RestakingAssumption
<1>6. /\ other_stake' \in [PubKey -> Nat]
      /\ other_stake'[pk] = other_stake[pk] + delta
      /\ \A k \in PubKey \ {pk} : other_stake'[k] = other_stake[k]
  BY <1>1, <1>2, <1>5
<1>7. Delegated(candidates', other_stake', vaults)
  <2>1. SUFFICES ASSUME NEW k \in PubKey
                 PROVE  CandidateStake(candidates', k)
                          = other_stake'[k] + SumOf(vaults, OfValidator(vaults, k))
    BY DEF Delegated
  <2> DEFINE n == SumOf(vaults, OfValidator(vaults, k))
  <2>2. CandidateStake(candidates, k) = other_stake[k] + n
    BY <1>2 DEF Delegated
  <2>3. n \in Nat
    <3>1. /\ IsFiniteSet(OfValidator(vaults, k))
          /\ \A r \in OfValidator(vaults, k) : vaults[r].stake_amount \in Nat
      BY <1>2, AmountsTyped DEF OfValidator
    <3> QED
      BY <3>1, SumOfType
  <2> HIDE DEF n
  <2>4. CASE k = pk
    <3>1. CandidateStake(candidates', k) = stake + delta /\ stake = other_stake[k] + n
      BY <1>4, <2>2, <2>4 DEF Reassigned, stake
    <3>2. other_stake[k] \in Nat /\ other_stake'[k] = other_stake[k] + delta
      BY <1>2, <1>6, <2>4
    <3> QED
      BY <2>3, <3>1, <3>2 DEF n
  <2>5. CASE k # pk
    <3>1. CandidateStake(candidates', k) = CandidateStake(candidates, k)
      BY <1>4, <2>5 DEF Reassigned
    <3> QED
      BY <1>6, <2>2, <2>5, <3>1 DEF n
  <2> QED
    BY <2>4, <2>5
<1>8. ChainOK(candidates', other_stake', vaults)
  BY <1>4, <1>6, <1>7, ListIsSome DEF ChainOK, Reassigned
<1> QED
  BY <1>1, <1>8 DEF RInv

LEMMA NextRInv == RInv /\ [Next]_vars => RInv'
<1>1. SUFFICES ASSUME RInv, [Next]_vars PROVE RInv'
  OBVIOUS
<1>2. ASSUME NEW u \in Users, NEW r \in Receipts,
             \/ \E m \in Mints, pk \in PubKey, amount \in Amounts :
                  Deposit(u, r, m, pk, amount)
             \/ WithdrawalRequest(u, r)
             \/ CancelWithdrawalRequest(u, r)
             \/ ClaimRewards(u, r)
             \/ \E pk \in PubKey : SetService(u, r, pk)
             \/ \E w \in Users \ {u} : TransferReceipt(u, w, r)
      PROVE  RInv'
  BY <1>1, <1>2, DepositRInv, WithdrawalRequestRInv, CancelWithdrawalRequestRInv,
     ClaimRewardsRInv, SetServiceRInv, TransferReceiptRInv
<1>3. ASSUME NEW r \in Receipts, Withdraw(r) PROVE RInv'
  BY <1>1, <1>3, WithdrawRInv
<1>4. ASSUME NEW u \in Users,
             \/ \E new \in SUBSET Mints : UpdateTokenWhitelist(u, new)
             \/ UpdateGuestChainInitialization(u)
             \/ \E cap \in Caps : UpdateStakingCap(u, cap)
      PROVE  RInv'
  BY <1>1, <1>4, AdminRInv
<1>5. CASE InitialiseChain
  BY <1>1, <1>5, InitialiseChainRInv
<1>6. ASSUME NEW pk \in PubKey, NEW delta \in {-1, 1}, UpdateStake(pk, delta) PROVE RInv'
  BY <1>1, <1>6, UpdateStakeRInv
<1>7. CASE NewEpoch
  <2>1. /\ UNCHANGED <<staking_params, vaults, holder, wallet, vault_tokens, candidates,
                       other_stake, config, now>>
        /\ epoch_height' = epoch_height + 1 /\ epoch_height < MaxEpoch
    BY <1>7 DEF NewEpoch, program
  <2>2. epoch_height' \in 1 .. MaxEpoch /\ epoch_height <= epoch_height'
    BY <1>1, <2>1, RestakingAssumption DEF RInv
  <2>3. RecordsOK(vaults, holder, epoch_height')
    <3>1. RecordsOK(vaults, holder, epoch_height) /\ epoch_height \in Nat
      BY <1>1, RestakingAssumption DEF RInv
    <3>2. ASSUME NEW r \in DOMAIN vaults
          PROVE  vaults[r].last_received_rewards_height <= epoch_height'
      <4>1. vaults[r] \in Vault /\ vaults[r].last_received_rewards_height <= epoch_height
        BY <3>1, AmountsTyped DEF RecordsOK
      <4>2. vaults[r].last_received_rewards_height \in Nat
        BY <4>1, RestakingAssumption DEF Vault
      <4> QED
        BY <2>1, <3>1, <4>1, <4>2
    <3> QED
      BY <3>1, <3>2 DEF RecordsOK
  <2> QED
    BY <1>1, <2>1, <2>2, <2>3 DEF RInv
<1>8. CASE Tick
  <2>1. /\ UNCHANGED <<staking_params, vaults, holder, wallet, vault_tokens, candidates,
                       other_stake, config, epoch_height>>
        /\ now' = now + 1 /\ now < MaxTime
    BY <1>8 DEF Tick, program, chain
  <2>2. now' \in 0 .. MaxTime
    BY <1>1, <2>1, RestakingAssumption DEF RInv
  <2> QED
    BY <1>1, <2>1, <2>2 DEF RInv
<1>9. CASE UNCHANGED vars
  BY <1>1, <1>9 DEF vars, program, chain, RInv
<1>10. ASSUME NEW new \in Configs, UpdateChainConfig(new) PROVE RInv'
  BY <1>1, <1>10 DEF UpdateChainConfig, program, RInv
<1> QED
  BY <1>1, <1>2, <1>3, <1>4, <1>5, <1>6, <1>7, <1>8, <1>9, <1>10 DEF Next

LEMMA RestakingInvariant == Spec => []RInv
  BY InitRInv, NextRInv, PTL DEF Spec

-----------------------------------------------------------------------------
(* Results.                                                                *)

(* The accounts of the program and of the token programs agree: a receipt  *)
(* is in escrow exactly while its vault waits for a withdrawal and burnt   *)
(* once it is paid out, and no counter or balance leaves its range.        *)
THEOREM ReceiptsMatch == Spec => []RecordsAgree
  BY RInvImpliesRecords, RestakingInvariant, PTL

(* Every deposit is backed by the program's token account, and the total   *)
(* compared with the staking cap is the sum of the deposits.               *)
THEOREM DepositsAreBacked == Spec => []VaultsAreBacked
  BY RInvImpliesBacked, RestakingInvariant, PTL

(* The stake of every validator on the chain is what the open vaults and   *)
(* the others have given it: reading a stake in one program and writing    *)
(* the sum back through another loses and repeats nothing.                 *)
THEOREM StakeFollowsDeposits == Spec => []StakeIsDelegated
  BY RInvImpliesDelegated, RestakingInvariant, PTL

\* What UnbondsInFull says of a step and a token.
Unbonded(m) ==
    vault_tokens'[m] < vault_tokens[m] =>
        \E r \in Open \ DOMAIN vaults' :
            LET request == vaults[r].withdrawal_request
                amount  == vault_tokens[m] - vault_tokens'[m]
            IN  /\ holder[r] = Escrow
                /\ now >= request.timestamp_in_sec + UnbondingPeriod
                /\ vaults[r].stake_amount = amount
                /\ wallet'[request.owner][m] = wallet[request.owner][m] + amount
                /\ CandidateStake(candidates', vaults[r].service.validator)
                     = ValidatorStake(vaults[r].service.validator) - amount

LEMMA WithdrawUnbonds ==
  ASSUME RInv, NEW r \in Receipts, Withdraw(r), NEW m \in Mints
  PROVE  Unbonded(m)
<1> DEFINE a == vaults[r].stake_amount
           n == vaults[r].stake_mint
           u == vaults[r].withdrawal_request.owner
           k == vaults[r].service.validator
<1>1. /\ r \in DOMAIN vaults
      /\ holder[r] = Escrow
      /\ u \in Users /\ n \in Mints /\ a \in Nat
  BY WithdrawFacts
<1>2. CandidateStake(candidates', k) = CandidateStake(candidates, k) - a
  <2>1. PICK pk \in PubKey :
          /\ vaults[r].service = GuestChain(pk)
          /\ Reassigned(candidates, candidates', pk, CandidateStake(candidates, pk) - a)
    BY WithdrawFacts
  <2>2. k = pk
    BY <2>1, ServiceIsValidator
  <2> QED
    BY <2>1, <2>2 DEF Reassigned
<1>3. /\ vaults' = WithoutVault(vaults, r)
      /\ wallet' = [wallet EXCEPT ![u][n] = @ + a]
      /\ vault_tokens' = [vault_tokens EXCEPT ![n] = @ - a]
      /\ now >= vaults[r].withdrawal_request.timestamp_in_sec + UnbondingPeriod
  BY DEF Withdraw, CloseVault, WithoutVault, Open, Matured
<1>4. wallet \in [Users -> [Mints -> Nat]] /\ vault_tokens \in [Mints -> Nat]
  BY DEF RInv, BalancesOK
<1>5. r \in Open \ DOMAIN vaults'
  BY <1>1, <1>3 DEF WithoutVault, Open
<1>6. wallet'[u][n] = wallet[u][n] + a /\ vault_tokens'[n] = vault_tokens[n] - a
      /\ \A s \in Mints \ {n} : vault_tokens'[s] = vault_tokens[s]
  BY <1>1, <1>3, <1>4
<1>7. vault_tokens[n] \in Nat /\ vault_tokens[m] \in Nat
  BY <1>1, <1>4
<1> HIDE DEF a, n, u, k
<1>8. SUFFICES ASSUME vault_tokens'[m] < vault_tokens[m]
               PROVE  \E s \in Open \ DOMAIN vaults' :
                        /\ holder[s] = Escrow
                        /\ now >= vaults[s].withdrawal_request.timestamp_in_sec + UnbondingPeriod
                        /\ vaults[s].stake_amount = vault_tokens[m] - vault_tokens'[m]
                        /\ wallet'[vaults[s].withdrawal_request.owner][m]
                             = wallet[vaults[s].withdrawal_request.owner][m]
                                 + (vault_tokens[m] - vault_tokens'[m])
                        /\ CandidateStake(candidates', vaults[s].service.validator)
                             = CandidateStake(candidates, vaults[s].service.validator)
                                 - (vault_tokens[m] - vault_tokens'[m])
  BY Zenon DEF Unbonded, ValidatorStake
<1>9. m = n
  BY <1>6, <1>7, <1>8
<1>10. vault_tokens[m] - vault_tokens'[m] = a
  BY <1>1, <1>6, <1>7, <1>9
<1> DEFINE d == vault_tokens[m] - vault_tokens'[m]
<1>11. /\ vaults[r].stake_amount = d
       /\ wallet'[vaults[r].withdrawal_request.owner][m]
            = wallet[vaults[r].withdrawal_request.owner][m] + d
       /\ CandidateStake(candidates', vaults[r].service.validator)
            = CandidateStake(candidates, vaults[r].service.validator) - d
  <2> HIDE DEF d
  <2>1. d = a
    BY <1>10 DEF d
  <2> QED
    BY <1>2, <1>6, <1>9, <2>1, Zenon DEF a, u, k
<1> HIDE DEF d
<1> QED
  BY <1>1, <1>3, <1>5, <1>11, Zenon DEF d

\* No other instruction lowers the balance of a vault account.
LEMMA StepUnbonds ==
  ASSUME RInv, Next, NEW m \in Mints
  PROVE  Unbonded(m)
<1>1. vault_tokens \in [Mints -> Nat]
  BY DEF RInv, BalancesOK
<1>2. CASE vault_tokens' = vault_tokens
  <2>1. ~(vault_tokens'[m] < vault_tokens[m])
    BY <1>1, <1>2
  <2> QED
    BY <2>1 DEF Unbonded
<1>3. ASSUME NEW u \in Users, NEW r \in Receipts, NEW n \in Mints, NEW pk \in PubKey,
             NEW amount \in Amounts, Deposit(u, r, n, pk, amount)
      PROVE  Unbonded(m)
  <2>1. vault_tokens' = [vault_tokens EXCEPT ![n] = @ + amount] /\ amount \in Nat
    BY <1>3, RestakingAssumption DEF Deposit
  <2>2. ~(vault_tokens'[m] < vault_tokens[m])
    BY <1>1, <2>1
  <2> QED
    BY <2>2 DEF Unbonded
<1>4. ASSUME NEW r \in Receipts, Withdraw(r) PROVE Unbonded(m)
  BY <1>4, WithdrawUnbonds
<1>5. ASSUME NEW u \in Users, NEW r \in Receipts,
             \/ WithdrawalRequest(u, r)
             \/ CancelWithdrawalRequest(u, r)
             \/ ClaimRewards(u, r)
             \/ \E pk \in PubKey : SetService(u, r, pk)
             \/ \E w \in Users \ {u} : TransferReceipt(u, w, r)
      PROVE  vault_tokens' = vault_tokens
  BY <1>5 DEF WithdrawalRequest, CancelWithdrawalRequest, ClaimRewards, SetService,
     TransferReceipt
<1>6. ASSUME NEW u \in Users,
             \/ \E new \in SUBSET Mints : UpdateTokenWhitelist(u, new)
             \/ UpdateGuestChainInitialization(u)
             \/ \E cap \in Caps : UpdateStakingCap(u, cap)
      PROVE  vault_tokens' = vault_tokens
  BY <1>6 DEF UpdateTokenWhitelist, UpdateGuestChainInitialization, UpdateStakingCap,
     UpdateParams
<1>7. ASSUME \/ InitialiseChain
             \/ \E pk \in PubKey, delta \in {-1, 1} : UpdateStake(pk, delta)
             \/ \E new \in Configs : UpdateChainConfig(new)
             \/ NewEpoch
             \/ Tick
      PROVE  vault_tokens' = vault_tokens
  BY <1>7 DEF InitialiseChain, UpdateStake, UpdateChainConfig, NewEpoch, Tick, program
<1> QED
  BY <1>2, <1>3, <1>4, <1>5, <1>6, <1>7 DEF Next

(* Tokens leave a vault account only through withdraw: to the user of the  *)
(* request, a full unbonding period after it, the whole deposit at once    *)
(* and together with the stake it stood for.                               *)
THEOREM UnbondsByTheRules == Spec => UnbondsInFull
<1>1. ASSUME RInv, [Next]_vars PROVE [\A m \in Mints : Unbonded(m)]_vars
  BY <1>1, StepUnbonds
<1> QED
  BY <1>1, RestakingInvariant, PTL DEF Spec, UnbondsInFull, Unbonded


-----------------------------------------------------------------------------
(* Withdrawals.  The invariant grows by what withdraw relies on before it  *)
(* calls the chain: a request is accepted only from a vault with a         *)
(* validator on a chain that exists, and neither goes away.                *)

Served(v, p, cs) ==
    v.withdrawal_request # None =>
        p.guest_chain_program_id /\ cs # None /\ v.service # None

RequestsServed(w, p, cs) == \A r \in DOMAIN w : Served(w[r], p, cs)

WInv == RInv /\ RequestsServed(vaults, staking_params, candidates)

\* The chain's list never disappears.
ListKept == candidates # None => candidates' # None

LEMMA AddStakeKeepsList ==
  ASSUME RInv, NEW pk \in PubKey, NEW amount \in Nat, add_stake(pk, amount)
  PROVE  ListKept
  BY AddStakeReassigns DEF ListKept

LEMMA StepKeepsList ==
  ASSUME RInv, [Next]_vars
  PROVE  ListKept
<1>1. CASE candidates' = candidates
  BY <1>1 DEF ListKept
<1>2. ASSUME NEW u \in Users, NEW r \in Receipts, NEW m \in Mints, NEW pk \in PubKey,
             NEW amount \in Amounts, Deposit(u, r, m, pk, amount)
      PROVE  ListKept
  <2>1. amount \in Nat /\ (add_stake(pk, amount) \/ candidates' = candidates)
    BY <1>2, RestakingAssumption DEF Deposit
  <2> QED
    BY <1>1, <2>1, AddStakeKeepsList
<1>3. ASSUME NEW u \in Users, NEW r \in Receipts, NEW pk \in PubKey, SetService(u, r, pk)
      PROVE  ListKept
  <2>1. add_stake(pk, vaults[r].stake_amount) /\ r \in DOMAIN vaults
    BY <1>3 DEF SetService, Holds, Open
  <2>2. vaults[r].stake_amount \in Nat
    BY <2>1, AmountsTyped DEF RInv, RecordsOK
  <2> QED
    BY <2>1, <2>2, AddStakeKeepsList
<1>4. ASSUME NEW r \in Receipts, Withdraw(r) PROVE ListKept
  BY <1>4, WithdrawFacts DEF ListKept
<1>5. CASE InitialiseChain
  BY <1>5 DEF InitialiseChain, ListKept
<1>6. ASSUME NEW pk \in PubKey, NEW delta \in {-1, 1}, UpdateStake(pk, delta)
      PROVE  ListKept
  <2> DEFINE s == CandidateStake(candidates, pk)
  <2>1. candidates # None /\ candidates' \in set_stake(pk, s + delta) /\ s + delta >= 0
    BY <1>6 DEF UpdateStake, ValidatorStake
  <2>2. Good(candidates) /\ s \in Nat /\ config \in Configs
    BY <2>1, CandidateStakeType DEF RInv, ChainOK
  <2> HIDE DEF s
  <2>3. s + delta \in Nat
    BY <2>1, <2>2
  <2>4. Good(candidates')
    BY <2>1, <2>2, <2>3, SetStakeReassigns DEF Reassigned
  <2> QED
    BY <2>4, ListIsSome DEF ListKept
<1>7. ASSUME \/ \E u \in Users, r \in Receipts :
                  \/ WithdrawalRequest(u, r)
                  \/ CancelWithdrawalRequest(u, r)
                  \/ ClaimRewards(u, r)
                  \/ \E w \in Users \ {u} : TransferReceipt(u, w, r)
             \/ \E u \in Users :
                  \/ \E new \in SUBSET Mints : UpdateTokenWhitelist(u, new)
                  \/ UpdateGuestChainInitialization(u)
                  \/ \E cap \in Caps : UpdateStakingCap(u, cap)
             \/ \E new \in Configs : UpdateChainConfig(new)
             \/ NewEpoch
             \/ Tick
             \/ UNCHANGED vars
      PROVE  candidates' = candidates
  BY <1>7 DEF WithdrawalRequest, CancelWithdrawalRequest, ClaimRewards, TransferReceipt,
     UpdateTokenWhitelist, UpdateGuestChainInitialization, UpdateStakingCap, UpdateParams,
     UpdateChainConfig, NewEpoch, Tick, vars, chain
<1> QED
  BY <1>1, <1>2, <1>3, <1>4, <1>5, <1>6, <1>7 DEF Next

\* The vault z may take the place of v: it keeps its validator, and a request
\* that it has is v's or made by a vault that earns rewards.
Successor(r, v, z) ==
    /\ v.service # None => z.service # None
    /\ z.withdrawal_request # None => v.withdrawal_request # None \/ EarnsRewards(r)

LEMMA ServedAfter ==
  ASSUME RequestsServed(vaults, staking_params, candidates), ListKept,
         staking_params.guest_chain_program_id => staking_params'.guest_chain_program_id,
         \A r \in DOMAIN vaults' :
            \/ vaults'[r].withdrawal_request = None
            \/ r \in DOMAIN vaults /\ Successor(r, vaults[r], vaults'[r])
  PROVE  RequestsServed(vaults', staking_params', candidates')
<1>1. SUFFICES ASSUME NEW r \in DOMAIN vaults', vaults'[r].withdrawal_request # None
               PROVE  /\ staking_params'.guest_chain_program_id /\ candidates' # None
                      /\ vaults'[r].service # None
  BY DEF RequestsServed, Served
<1>2. r \in DOMAIN vaults /\ Successor(r, vaults[r], vaults'[r])
  BY <1>1
<1>3. /\ staking_params.guest_chain_program_id /\ candidates # None
      /\ vaults[r].service # None
  BY <1>1, <1>2 DEF Successor, RequestsServed, Served, EarnsRewards
<1> QED
  BY <1>2, <1>3 DEF Successor, ListKept

LEMMA StepKeepsServed ==
  ASSUME RInv, RequestsServed(vaults, staking_params, candidates), [Next]_vars
  PROVE  RequestsServed(vaults', staking_params', candidates')
<1> DEFINE P == staking_params
           Q == staking_params'
<1>1. /\ vaults \in [DOMAIN vaults -> Vault]
      /\ \A r \in DOMAIN vaults :
           vaults[r] = [service |-> vaults[r].service, stake_amount |-> vaults[r].stake_amount,
                        stake_mint |-> vaults[r].stake_mint,
                        last_received_rewards_height |-> vaults[r].last_received_rewards_height,
                        withdrawal_request |-> vaults[r].withdrawal_request]
  BY VaultTypes DEF RInv, RecordsOK, IsVaults
<1>2. ParamsOK(P)
  BY DEF RInv
<1>3. P.guest_chain_program_id => Q.guest_chain_program_id
  <2>1. CASE \E u \in Users :
                  \/ \E new \in SUBSET Mints : UpdateTokenWhitelist(u, new)
                  \/ UpdateGuestChainInitialization(u)
                  \/ \E cap \in Caps : UpdateStakingCap(u, cap)
    BY <1>2, <2>1 DEF UpdateTokenWhitelist, UpdateGuestChainInitialization, UpdateStakingCap,
       UpdateParams, ParamsOK
  <2>2. CASE \E u \in Users, r \in Receipts, m \in Mints, pk \in PubKey, amount \in Amounts :
               Deposit(u, r, m, pk, amount)
    BY <1>2, <2>2 DEF Deposit, ParamsOK
  <2>3. CASE \E r \in Receipts : Withdraw(r)
    BY <1>2, <2>3 DEF Withdraw, CloseVault, ParamsOK
  <2>4. CASE Q = P
    BY <2>4
  <2>5. ASSUME \/ \E u \in Users, r \in Receipts :
                    \/ WithdrawalRequest(u, r)
                    \/ CancelWithdrawalRequest(u, r)
                    \/ ClaimRewards(u, r)
                    \/ \E pk \in PubKey : SetService(u, r, pk)
                    \/ \E w \in Users \ {u} : TransferReceipt(u, w, r)
               \/ InitialiseChain
               \/ \E pk \in PubKey, delta \in {-1, 1} : UpdateStake(pk, delta)
               \/ \E new \in Configs : UpdateChainConfig(new)
               \/ NewEpoch
               \/ Tick
               \/ UNCHANGED vars
        PROVE  Q = P
    BY <2>5 DEF WithdrawalRequest, CancelWithdrawalRequest, ClaimRewards, SetService,
       TransferReceipt, InitialiseChain, UpdateStake, UpdateChainConfig, NewEpoch, Tick, vars, program
  <2> HIDE DEF P, Q
  <2> QED
    BY <2>1, <2>2, <2>3, <2>4, <2>5 DEF Next
<1>4. ASSUME NEW s \in DOMAIN vaults'
      PROVE  \/ vaults'[s].withdrawal_request = None
             \/ s \in DOMAIN vaults /\ Successor(s, vaults[s], vaults'[s])
  <2>1. CASE vaults' = vaults
    BY <2>1 DEF Successor
  <2>2. ASSUME NEW u \in Users, NEW r \in Receipts, NEW m \in Mints, NEW pk \in PubKey,
               NEW amount \in Amounts, Deposit(u, r, m, pk, amount)
        PROVE  \/ vaults'[s].withdrawal_request = None
               \/ s \in DOMAIN vaults /\ Successor(s, vaults[s], vaults'[s])
    <3>1. s \in DOMAIN vaults \cup {r}
      BY <2>2 DEF Deposit, Open
    <3>2. CASE s = r
      BY <2>2, <3>1, <3>2 DEF Deposit, Open
    <3>3. CASE s # r
      <4>1. vaults'[s] = vaults[s] /\ s \in DOMAIN vaults
        BY <2>2, <3>1, <3>3 DEF Deposit, Open
      <4> QED
        BY <4>1 DEF Successor
    <3> QED
      BY <3>2, <3>3
  <2>3. ASSUME NEW r \in Receipts, Withdraw(r)
        PROVE  s \in DOMAIN vaults /\ vaults'[s] = vaults[s]
    BY <2>3 DEF Withdraw, CloseVault, Open
  <2>4. ASSUME NEW u \in Users, NEW r \in Receipts, WithdrawalRequest(u, r)
        PROVE  s \in DOMAIN vaults /\ Successor(s, vaults[s], vaults'[s])
    <3>1. /\ s \in DOMAIN vaults /\ EarnsRewards(r)
          /\ vaults'[s].service = vaults[s].service
          /\ s # r => vaults'[s] = vaults[s]
      BY <1>1, <2>4 DEF WithdrawalRequest
    <3> QED
      BY <3>1 DEF Successor
  <2>5. ASSUME NEW u \in Users, NEW r \in Receipts, CancelWithdrawalRequest(u, r)
        PROVE  \/ vaults'[s].withdrawal_request = None
               \/ s \in DOMAIN vaults /\ Successor(s, vaults[s], vaults'[s])
    <3>1. /\ s \in DOMAIN vaults
          /\ vaults'[r].withdrawal_request = None
          /\ s # r => vaults'[s] = vaults[s]
      BY <1>1, <2>5 DEF CancelWithdrawalRequest, Open
    <3> QED
      BY <3>1 DEF Successor
  <2>6. ASSUME NEW u \in Users, NEW r \in Receipts, ClaimRewards(u, r)
        PROVE  s \in DOMAIN vaults /\ Successor(s, vaults[s], vaults'[s])
    <3>1. /\ s \in DOMAIN vaults
          /\ vaults'[s].service = vaults[s].service
          /\ vaults'[s].withdrawal_request = vaults[s].withdrawal_request
      BY <1>1, <2>6 DEF ClaimRewards
    <3> QED
      BY <3>1 DEF Successor
  <2>7. ASSUME NEW u \in Users, NEW r \in Receipts, NEW pk \in PubKey, SetService(u, r, pk)
        PROVE  s \in DOMAIN vaults /\ Successor(s, vaults[s], vaults'[s])
    <3>1. /\ s \in DOMAIN vaults
          /\ vaults'[s].service = IF s = r THEN GuestChain(pk) ELSE vaults[s].service
          /\ vaults'[s].withdrawal_request = vaults[s].withdrawal_request
      BY <1>1, <2>7 DEF SetService
    <3> QED
      BY <3>1, ServiceIsValidator DEF Successor
  <2>8. ASSUME \/ \E u \in Users, r \in Receipts : \E w \in Users \ {u} : TransferReceipt(u, w, r)
               \/ \E u \in Users :
                    \/ \E new \in SUBSET Mints : UpdateTokenWhitelist(u, new)
                    \/ UpdateGuestChainInitialization(u)
                    \/ \E cap \in Caps : UpdateStakingCap(u, cap)
               \/ InitialiseChain
               \/ \E pk \in PubKey, delta \in {-1, 1} : UpdateStake(pk, delta)
               \/ \E new \in Configs : UpdateChainConfig(new)
               \/ NewEpoch
               \/ Tick
               \/ UNCHANGED vars
        PROVE  vaults' = vaults
    BY <2>8 DEF TransferReceipt, UpdateTokenWhitelist, UpdateGuestChainInitialization,
       UpdateStakingCap, UpdateParams, InitialiseChain, UpdateStake, UpdateChainConfig, NewEpoch,
       Tick, vars, program
  <2>9. ASSUME s \in DOMAIN vaults, vaults'[s] = vaults[s]
        PROVE  s \in DOMAIN vaults /\ Successor(s, vaults[s], vaults'[s])
    BY <2>9 DEF Successor
  <2> QED
    BY <2>1, <2>2, <2>3, <2>4, <2>5, <2>6, <2>7, <2>8, <2>9 DEF Next
<1> HIDE DEF P, Q
<1> QED
  BY <1>3, <1>4, StepKeepsList, ServedAfter DEF P, Q

LEMMA NextWInv == WInv /\ [Next]_vars => WInv'
<1>1. SUFFICES ASSUME WInv, [Next]_vars PROVE WInv'
  OBVIOUS
<1>2. RInv /\ RInv'
  BY <1>1, NextRInv DEF WInv
<1>3. RequestsServed(vaults', staking_params', candidates')
  BY <1>1, StepKeepsServed DEF WInv
<1> QED
  BY <1>2, <1>3 DEF WInv

LEMMA InitWInv == Init => WInv
<1>1. SUFFICES ASSUME Init PROVE WInv
  OBVIOUS
<1>2. RequestsServed(vaults, staking_params, candidates)
  <2>1. DOMAIN vaults = {}
    BY <1>1 DEF Init
  <2> QED
    BY <2>1 DEF RequestsServed
<1> QED
  BY <1>1, <1>2, InitRInv DEF WInv

-----------------------------------------------------------------------------
(* The answer of the chain to the call of withdraw.                        *)

LEMMA ListedIsSet ==
  ASSUME NEW list, list \in Seq(Candidate)
  PROVE  ToSet(list) = Listed(list)
  BY ListedElements DEF ToSet

(* A candidate with stake has a place on the list.                         *)
LEMMA PlaceOfStake ==
  ASSUME NEW x, Good(x), NEW k, CandidateStake(x, k) > 0
  PROVE  \E p \in Positions(x.candidates, k) : x.candidates[p].stake = CandidateStake(x, k)
<1>1. x.candidates \in Seq(Candidate)
  BY GoodFields
<1>2. PICK e \in Listed(x.candidates) : e.pubkey = k
  <2>1. SUFFICES ASSUME \A e \in Listed(x.candidates) : e.pubkey # k PROVE FALSE
    OBVIOUS
  <2>2. CandidateStake(x, k) = 0
    BY <2>1, StakeOfUnlisted
  <2> QED
    BY <2>2
<1>3. PICK p \in 1 .. Len(x.candidates) : e = x.candidates[p]
  BY <1>1, ListedElements
<1> QED
  BY <1>2, <1>3, StakeOfListed DEF Positions

(* A key is one of the validators of the next epoch when its place is in   *)
(* the head.                                                               *)
LEMMA InTheHead ==
  ASSUME NEW x, Good(x), NEW k, NEW p \in Positions(x.candidates, k)
  PROVE  HasValidator(TopValidators(x), k) <=> ~(p > x.max_validators)
<1> DEFINE list == x.candidates
           max  == x.max_validators
<1>1. /\ GoodList(list) /\ list \in Seq(Candidate) /\ Len(list) \in Nat /\ max \in Nat
      /\ p \in 1 .. Len(list) /\ list[p].pubkey = k
  BY GoodFields DEF Positions
<1>2. \A i \in 1 .. Len(list) : list[i].pubkey = k => i = p
  BY <1>1 DEF GoodList, UniqueKeys
<1>3. HasValidator(TopValidators(x), k)
        <=> \E i \in 1 .. Len(list) : i <= max /\ list[i].pubkey = k
  BY DEF HasValidator, TopValidators, Prefix
<1> HIDE DEF list, max
<1> QED
  BY <1>1, <1>2, <1>3 DEF max

LEMMA WInvGoesThrough ==
  ASSUME WInv
  PROVE  MaturedWithdrawalsGoThrough
<1>1. SUFFICES ASSUME NEW r \in Open, Matured(r), vaults[r].stake_amount > 0
               PROVE  MayAsk(r) /\ (StakeAfterWithdraw(r) = {} <=> BreaksMinimums(r))
  BY DEF MaturedWithdrawalsGoThrough
<1> DEFINE a == vaults[r].stake_amount
<1>2. /\ staking_params.guest_chain_program_id /\ candidates # None
      /\ vaults[r].service # None
  BY <1>1 DEF WInv, RequestsServed, Served, Matured, Open
<1>3. /\ IsVaults(vaults) /\ vaults[r] \in Vault /\ a \in Nat /\ a > 0
      /\ r \in DOMAIN vaults
      /\ \A s \in DOMAIN vaults : vaults[s].stake_amount \in Nat
      /\ \A R : R \subseteq DOMAIN vaults => IsFiniteSet(R)
  BY <1>1, AmountsTyped DEF WInv, RInv, RecordsOK, Open
<1>4. PICK pk \in PubKey : vaults[r].service = GuestChain(pk)
  BY <1>2, <1>3, VaultTypes
<1>5. /\ Good(candidates) /\ Delegated(candidates, other_stake, vaults)
      /\ other_stake \in [PubKey -> Nat] /\ config \in Configs
  BY <1>2 DEF WInv, RInv, ChainOK
<1>6. ASSUME NEW R, R \subseteq DOMAIN vaults, r \in R
      PROVE  SumOf(vaults, R) >= a /\ SumOf(vaults, R) \in Nat
  <2>1. SumOf(vaults, R \ {r}) = SumOf(vaults, R) - a /\ SumOf(vaults, R \ {r}) \in Nat
    BY <1>3, <1>6, SumOfLess
  <2>2. SumOf(vaults, R) \in Nat
    BY <1>3, <1>6, SumOfType
  <2> QED
    BY <1>3, <2>1, <2>2
<1> DEFINE s == CandidateStake(candidates, pk)
<1>7. s - a \in Nat /\ s \in Nat /\ s >= a /\ s - a < s /\ s > 0
  <2> DEFINE n == SumOf(vaults, OfValidator(vaults, pk))
  <2>1. n >= a /\ n \in Nat
    BY <1>3, <1>4, <1>6 DEF OfValidator
  <2>2. s = other_stake[pk] + n /\ other_stake[pk] \in Nat
    BY <1>5 DEF Delegated
  <2> HIDE DEF n, s, a
  <2> QED
    BY <1>3, <2>1, <2>2
<1>8. MayAsk(r)
  <2> DEFINE m == vaults[r].stake_mint
  <2>1. m \in Mints
    BY <1>3, VaultTypes
  <2>2. vault_tokens[m] = SumOf(vaults, OfMint(vaults, m))
    BY <2>1 DEF WInv, RInv, Backed
  <2>3. SumOf(vaults, OfMint(vaults, m)) >= a
    BY <1>3, <1>6 DEF OfMint
  <2> QED
    BY <1>2, <2>2, <2>3 DEF MayAsk
<1>9. vaults[r].service.validator = pk
  BY <1>4, ServiceIsValidator
<1> DEFINE left == s - a
           list == candidates.candidates
           Left == CandidatesLeft(r)
<1>10. StakeLeft(r) = left
  BY <1>9 DEF StakeLeft, ValidatorStake
<1>11. PICK p \in Positions(list, pk) : list[p].stake = s
  BY <1>5, <1>7, PlaceOfStake
<1>12. Left = Lowered(list, pk, left)
  <2>1. ToSet(list) = Listed(list)
    BY <1>5, GoodFields, ListedIsSet
  <2> QED
    BY <1>9, <1>10, <2>1 DEF CandidatesLeft, Lowered
<1>13. StakeAfterWithdraw(r) = set_stake(pk, left)
  BY <1>7, <1>9, <1>11 DEF StakeAfterWithdraw, ValidatorStake
<1> HIDE DEF s, a, left, Left
<1>14. set_stake(pk, left) = {} <=> update(candidates, config, pk, left) = {}
  <2> DEFINE U == update(candidates, config, pk, left)
  <2>1. set_stake(pk, left) = {clear_changed_flag(cs) : cs \in U}
    BY DEF set_stake
  <2> HIDE DEF U
  <2> QED
    BY <2>1, Zenon DEF U
<1>15. left \in Nat /\ left < list[p].stake
  BY <1>7, <1>11 DEF left
<1> DEFINE Few   == left > 0 /\ left < config.min_validator_stake
           Fewer == left = 0 /\ Cardinality(Left) < config.min_validators
           Heavy == \E V \in SUBSET Left :
                      Cardinality(V) <= candidates.max_validators /\ StakeOf(V) >= config.min_total_stake
           Light == \A V \in SUBSET Left :
                      Cardinality(V) <= candidates.max_validators => StakeOf(V) < config.min_total_stake
           InTop == HasValidator(TopValidators(candidates), pk)
<1>16. update(candidates, config, pk, left) # {}
         <=> ~Few /\ ~Fewer /\ (p > candidates.max_validators \/ Heavy)
  <2>1. /\ config.min_validators \in Nat /\ config.min_validator_stake \in Nat
        /\ config.min_total_stake \in Nat
    BY <1>5, MinimumsType
  <2> QED
    BY <1>5, <1>11, <1>12, <1>15, <2>1, LoweringGoesThrough
<1>17. InTop <=> ~(p > candidates.max_validators)
  BY <1>5, <1>11, InTheHead
<1>18. Light <=> ~Heavy
  <2>1. ASSUME NEW V \in SUBSET Left
        PROVE  StakeOf(V) < config.min_total_stake <=> ~(StakeOf(V) >= config.min_total_stake)
    <3>1. ValidatorSet(Left)
      <4>1. /\ list \in Seq(Candidate) /\ ValidatorSet(Listed(list))
        BY <1>5, GoodFields, PrefixIsValidatorSet DEF Listed
      <4> DEFINE L == {e \in Listed(list) : e.pubkey # pk}
                 c == [pubkey |-> pk, stake |-> left]
      <4>2. ValidatorSet(L)
        BY <4>1, SubsetIsValidatorSet
      <4>3. c.pubkey = pk /\ c.stake = left
        OBVIOUS
      <4>4. Left = L \/ Left = L \cup {c}
        BY <1>12 DEF Lowered
      <4>5. \A e \in L : e.pubkey # pk
        OBVIOUS
      <4> HIDE DEF L, c
      <4>6. IsFiniteSet(L \cup {c})
        BY <4>2, FS_AddElement DEF ValidatorSet
      <4> QED
        BY <1>15, <4>2, <4>3, <4>4, <4>5, <4>6 DEF ValidatorSet, DistinctKeys
    <3>2. StakeOf(V) \in Nat
      BY <3>1, SubsetIsValidatorSet, StakeOfType
    <3> QED
      BY <1>5, <3>2, MinimumsType
  <2> QED
    BY <2>1
<1>19. BreaksMinimums(r) <=> Few \/ Fewer \/ (InTop /\ Light)
  BY <1>9, <1>10 DEF BreaksMinimums, Left
<1> HIDE DEF Few, Fewer, Heavy, Light, InTop
<1> QED
  BY <1>8, <1>13, <1>14, <1>16, <1>17, <1>18, <1>19

(* A request whose unbonding period is over finds the chain, the validator *)
(* and the tokens as withdraw needs them, whatever users, administrator,   *)
(* other stakers and changes of configuration came between, and the chain  *)
(* refuses the lower stake exactly when what is left would break one of    *)
(* its minimums.                                                           *)
THEOREM WithdrawalsGoThrough == Spec => []MaturedWithdrawalsGoThrough
  BY WInvGoesThrough, InitWInv, NextWInv, PTL DEF Spec
=============================================================================
