----------------------------- MODULE Restaking ------------------------------
(***************************************************************************)
(* The restaking program and the stake it keeps on the guest chain.        *)
(*                                                                         *)
(*   solana/restaking/programs/restaking/src/lib.rs, token.rs,             *)
(*   validation.rs                                                         *)
(*                                                                         *)
(* Users deposit tokens into a vault account and get a receipt, a token    *)
(* that exists once and can be passed on.  Whoever holds the receipt may   *)
(* name a validator, claim rewards and ask for the deposit back; the       *)
(* receipt then waits in escrow for the unbonding period.  Every change of *)
(* stake is a call into the chain program, whose candidate list is the one *)
(* of module Candidates.                                                   *)
(*                                                                         *)
(* Each instruction is a transaction: when any check fails, the called     *)
(* programs' included, nothing changes.  A user has one account per token. *)
(* Rewards are not implemented (calculate_rewards returns none), so only   *)
(* the height up to which they were paid is kept.  The two instructions    *)
(* that replace the administrator and the one that empties the reward      *)
(* account are left out.                                                   *)
(***************************************************************************)
EXTENDS Candidates

CONSTANTS
    Users,              \* the signers of transactions
    Mints,              \* the tokens that may be staked
    Receipts,           \* the addresses of receipt mints
    Amounts,            \* the amounts deposited
    Caps,               \* the staking caps
    Genesis,            \* the validators of the chain's genesis epoch
    MaxValidators,      \* the chain's max_validators
    Configs,            \* the chain's minimums, as configured at some time
    Wallet,             \* what each user owns of each token at first
    UnbondingPeriod,    \* UNBONDING_PERIOD_IN_SEC
    MaxTime,            \* bound on the clock
    MaxEpoch,           \* bound on the chain's epoch height
    MaxOther            \* bound on what the other program adds to a validator

VARIABLES
    staking_params,     \* the StakingParams account
    vaults,             \* the open Vault accounts, by receipt
    holder,             \* where each receipt is
    wallet,             \* token balances of the users
    vault_tokens,       \* balances of the program's vault token accounts
    candidates,         \* the chain's candidate list, None before initialise
    other_stake,        \* stake put on the chain by others than this program
    config,             \* the minimums of today
    epoch_height,       \* the chain's epoch height
    now                 \* the host's clock

program == <<staking_params, vaults, holder, wallet, vault_tokens>>
chain   == <<candidates, other_stake, config, epoch_height>>
vars    == <<program, chain, now>>

\* The value of an absent Option.
None == [none |-> TRUE]

\* Places of a receipt other than the hands of a user.
NotMinted == "not minted"
Escrow    == "escrow"
Burnt     == "burnt"

ASSUME RestakingAssumption ==
    /\ Users \cap {NotMinted, Escrow, Burnt} = {}
    /\ Amounts \subseteq Nat /\ Caps \subseteq Nat
    /\ IsFiniteSet(Genesis) /\ DistinctKeys(Genesis) /\ Genesis \subseteq Candidate
    /\ StakeOf(Genesis) <= U128Max
    /\ MaxValidators \in Nat \ {0}
    /\ Configs \subseteq [min_validators : Nat, min_validator_stake : Nat, min_total_stake : Nat]
    /\ Wallet \in Nat /\ UnbondingPeriod \in Nat
    /\ MaxTime \in Nat /\ MaxEpoch \in Nat \ {0} /\ MaxOther \in Nat

\* Service::GuestChain, the only service there is.
GuestChain(pk) == [validator |-> pk]

Open == DOMAIN vaults

\* The sum of the deposits of a set of vaults.
DepositsOf(R) == StakeOf({[pubkey |-> r, stake |-> vaults[r].stake_amount] : r \in R})

GenesisStake(pk) == IF HasValidator(Genesis, pk) THEN ValidatorOf(Genesis, pk).stake ELSE 0

-----------------------------------------------------------------------------
(* The chain program as the restaking program sees it.                     *)

\* ChainData::candidate(pk) and the caller's map_or(0, stake).
ValidatorStake(pk) == CandidateStake(candidates, pk)

\* The CPI set_stake: the lists that result.  The changed flag belongs to
\* block generation (module GuestChain) and is kept down here.
set_stake(pk, amount) ==
    {clear_changed_flag(cs) : cs \in update(candidates, config, pk, amount)}

\* Mutant: the validator's stake is replaced instead of increased.
add_stake_replaces(pk, amount) ==
    /\ candidates # None
    /\ candidates' \in set_stake(pk, amount)

\* Read the validator's stake from the chain account and write the sum back.
add_stake(pk, amount) ==
    /\ candidates # None
    /\ candidates' \in set_stake(pk, ValidatorStake(pk) + amount)

-----------------------------------------------------------------------------
Init ==
    /\ \E admin \in Users, cap \in Caps, whitelist \in {W \in SUBSET Mints : W # {}} :
         staking_params = [admin                  |-> admin,
                           whitelisted_tokens     |-> whitelist,
                           guest_chain_program_id |-> FALSE,
                           staking_cap            |-> cap,
                           total_deposited_amount |-> 0]
    /\ vaults = [r \in {} |-> None]
    /\ holder = [r \in Receipts |-> NotMinted]
    /\ wallet = [u \in Users |-> [m \in Mints |-> Wallet]]
    /\ vault_tokens = [m \in Mints |-> 0]
    /\ candidates = None
    /\ other_stake = [pk \in PubKey |-> GenesisStake(pk)]
    /\ config \in Configs
    /\ epoch_height = 1
    /\ now = 0

FitsCap(amount) ==
    staking_params.total_deposited_amount + amount <= staking_params.staking_cap

Deposit(u, r, m, pk, amount) ==
    /\ holder[r] = NotMinted
    /\ m \in staking_params.whitelisted_tokens
    /\ FitsCap(amount)
    /\ wallet[u][m] >= amount
    /\ staking_params' = [staking_params EXCEPT !.total_deposited_amount = @ + amount]
    /\ vaults' = [s \in Open \cup {r} |->
                    IF s # r THEN vaults[s]
                    ELSE [service      |-> IF staking_params.guest_chain_program_id
                                           THEN GuestChain(pk) ELSE None,
                          stake_amount |-> amount,
                          stake_mint   |-> m,
                          last_received_rewards_height |-> 0,
                          withdrawal_request           |-> None]]
    /\ wallet' = [wallet EXCEPT ![u][m] = @ - amount]
    /\ vault_tokens' = [vault_tokens EXCEPT ![m] = @ + amount]
    /\ holder' = [holder EXCEPT ![r] = u]
    /\ IF staking_params.guest_chain_program_id
       THEN add_stake(pk, amount)
       ELSE UNCHANGED candidates
    /\ UNCHANGED <<other_stake, config, epoch_height, now>>

\* The signer holds the receipt of a vault.
Holds(u, r) == r \in Open /\ holder[r] = u

\* Rewards can be computed: there is a chain and a validator.
EarnsRewards(r) ==
    /\ staking_params.guest_chain_program_id
    /\ candidates # None
    /\ vaults[r].service # None

\* Mutant: the receipt stays with the user.
WithdrawalRequest_keeps_receipt(u, r) ==
    /\ Holds(u, r)
    /\ EarnsRewards(r)
    /\ vaults' = [vaults EXCEPT ![r].withdrawal_request =
                                    [timestamp_in_sec |-> now, owner |-> u],
                                ![r].last_received_rewards_height = epoch_height]
    /\ UNCHANGED <<staking_params, holder, wallet, vault_tokens, chain, now>>

WithdrawalRequest(u, r) ==
    /\ Holds(u, r)
    /\ EarnsRewards(r)
    /\ vaults' = [vaults EXCEPT ![r].withdrawal_request =
                                    [timestamp_in_sec |-> now, owner |-> u],
                                ![r].last_received_rewards_height = epoch_height]
    /\ holder' = [holder EXCEPT ![r] = Escrow]
    /\ UNCHANGED <<staking_params, wallet, vault_tokens, chain, now>>

CancelWithdrawalRequest(u, r) ==
    /\ r \in Open
    /\ vaults[r].withdrawal_request # None
    /\ vaults' = [vaults EXCEPT ![r].withdrawal_request = None]
    /\ holder' = [holder EXCEPT ![r] = u]
    /\ UNCHANGED <<staking_params, wallet, vault_tokens, chain, now>>

\* Mutant: the age of the deposit is not compared with the period.
Matured_always(r) == vaults[r].withdrawal_request # None

\* The vault has a request and the unbonding period is over.
Matured(r) ==
    /\ vaults[r].withdrawal_request # None
    /\ now >= vaults[r].withdrawal_request.timestamp_in_sec + UnbondingPeriod

\* The lists that the CPI of withdraw may leave behind: none when the
\* validator is missing, has less stake or the chain's minimums forbid it.
StakeAfterWithdraw(r) ==
    LET pk     == vaults[r].service.validator
        amount == vaults[r].stake_amount
    IN  IF Positions(candidates.candidates, pk) # {} /\ ValidatorStake(pk) >= amount
        THEN set_stake(pk, ValidatorStake(pk) - amount) ELSE {}

\* Mutant: the total is left as it was.
CloseVault_keeps_total(r) ==
    /\ UNCHANGED staking_params
    /\ vaults' = [s \in Open \ {r} |-> vaults[s]]

\* Account and total of a vault that is paid out.
CloseVault(r) ==
    /\ staking_params' =
         [staking_params EXCEPT !.total_deposited_amount = @ - vaults[r].stake_amount]
    /\ vaults' = [s \in Open \ {r} |-> vaults[s]]

\* Anyone may submit it; the owner and the account are those of the request.
Withdraw(r) ==
    /\ staking_params.guest_chain_program_id
    /\ r \in Open
    /\ Matured(r)
    /\ candidates # None
    /\ vaults[r].service # None
    /\ candidates' \in StakeAfterWithdraw(r)
    /\ CloseVault(r)
    /\ LET vault == vaults[r]
       IN  /\ wallet' = [wallet EXCEPT ![vault.withdrawal_request.owner][vault.stake_mint] =
                                         @ + vault.stake_amount]
           /\ vault_tokens' = [vault_tokens EXCEPT ![vault.stake_mint] = @ - vault.stake_amount]
    /\ holder' = [holder EXCEPT ![r] = Burnt]
    /\ UNCHANGED <<other_stake, config, epoch_height, now>>

ClaimRewards(u, r) ==
    /\ Holds(u, r)
    /\ EarnsRewards(r)
    /\ vaults' = [vaults EXCEPT ![r].last_received_rewards_height = epoch_height]
    /\ UNCHANGED <<staking_params, holder, wallet, vault_tokens, chain, now>>

\* Mutant: a service that is set is set again.
SetService_again(u, r, pk) ==
    /\ Holds(u, r)
    /\ staking_params.guest_chain_program_id
    /\ vaults' = [vaults EXCEPT ![r].service = GuestChain(pk)]
    /\ add_stake(pk, vaults[r].stake_amount)
    /\ UNCHANGED <<staking_params, holder, wallet, vault_tokens,
                   other_stake, config, epoch_height, now>>

SetService(u, r, pk) ==
    /\ Holds(u, r)
    /\ staking_params.guest_chain_program_id
    /\ vaults[r].service = None
    /\ vaults' = [vaults EXCEPT ![r].service = GuestChain(pk)]
    /\ add_stake(pk, vaults[r].stake_amount)
    /\ UNCHANGED <<staking_params, holder, wallet, vault_tokens,
                   other_stake, config, epoch_height, now>>

\* The token program: a holder passes the receipt on.
TransferReceipt(u, w, r) ==
    /\ Holds(u, r)
    /\ holder' = [holder EXCEPT ![r] = w]
    /\ UNCHANGED <<staking_params, vaults, wallet, vault_tokens, chain, now>>

-----------------------------------------------------------------------------
(* The administrator.                                                      *)

UpdateParams(new) ==
    /\ staking_params' = new
    /\ UNCHANGED <<vaults, holder, wallet, vault_tokens, chain, now>>

UpdateTokenWhitelist(u, new) ==
    /\ u = staking_params.admin
    /\ new \cap staking_params.whitelisted_tokens = {}
    /\ UpdateParams([staking_params EXCEPT !.whitelisted_tokens = @ \cup new])

UpdateGuestChainInitialization(u) ==
    /\ u = staking_params.admin
    /\ ~staking_params.guest_chain_program_id
    /\ UpdateParams([staking_params EXCEPT !.guest_chain_program_id = TRUE])

UpdateStakingCap(u, cap) ==
    /\ u = staking_params.admin
    /\ staking_params.staking_cap < cap
    /\ UpdateParams([staking_params EXCEPT !.staking_cap = cap])

-----------------------------------------------------------------------------
(* The chain, which others use too.                                        *)

InitialiseChain ==
    /\ candidates = None
    /\ candidates' \in {clear_changed_flag(cs) : cs \in NewCandidates(MaxValidators, Genesis)}
    /\ UNCHANGED <<program, other_stake, config, epoch_height, now>>

\* update_stake by the other staking program, which takes back only what it
\* has put there or what the genesis gave.
UpdateStake(pk, delta) ==
    /\ candidates # None
    /\ other_stake[pk] + delta \in 0 .. GenesisStake(pk) + MaxOther
    /\ ValidatorStake(pk) + delta >= 0
    /\ candidates' \in set_stake(pk, ValidatorStake(pk) + delta)
    /\ other_stake' = [other_stake EXCEPT ![pk] = @ + delta]
    /\ UNCHANGED <<program, config, epoch_height, now>>

\* update_chain_config of the minimums.  The limit on validators stays, and how
\* many the present epoch has, which bounds min_validators too, is not known here.
UpdateChainConfig(new) ==
    /\ candidates # None
    /\ new.min_validators <= candidates.max_validators
    /\ new.min_total_stake <= candidates.head_stake
    /\ config' = new
    /\ UNCHANGED <<program, candidates, other_stake, epoch_height, now>>

NewEpoch ==
    /\ candidates # None
    /\ epoch_height < MaxEpoch
    /\ epoch_height' = epoch_height + 1
    /\ UNCHANGED <<program, candidates, other_stake, config, now>>

Tick ==
    /\ now < MaxTime
    /\ now' = now + 1
    /\ UNCHANGED <<program, chain>>

-----------------------------------------------------------------------------
Next ==
    \/ \E u \in Users, r \in Receipts :
         \/ \E m \in Mints, pk \in PubKey, amount \in Amounts : Deposit(u, r, m, pk, amount)
         \/ WithdrawalRequest(u, r)
         \/ CancelWithdrawalRequest(u, r)
         \/ ClaimRewards(u, r)
         \/ \E pk \in PubKey : SetService(u, r, pk)
         \/ \E w \in Users \ {u} : TransferReceipt(u, w, r)
    \/ \E r \in Receipts : Withdraw(r)
    \/ \E u \in Users :
         \/ \E new \in SUBSET Mints : UpdateTokenWhitelist(u, new)
         \/ UpdateGuestChainInitialization(u)
         \/ \E cap \in Caps : UpdateStakingCap(u, cap)
    \/ InitialiseChain
    \/ \E pk \in PubKey, delta \in {-1, 1} : UpdateStake(pk, delta)
    \/ \E new \in Configs : UpdateChainConfig(new)
    \/ NewEpoch
    \/ Tick

Spec == Init /\ [][Next]_vars

-----------------------------------------------------------------------------
Vault ==
    [service : {GuestChain(pk) : pk \in PubKey} \cup {None}, stake_amount : Amounts, stake_mint : Mints,
     last_received_rewards_height : 0 .. MaxEpoch,
     withdrawal_request : [timestamp_in_sec : 0 .. MaxTime, owner : Users] \cup {None}]

(* The accounts have their types, the cap holds whatever is deposited and  *)
(* withdrawn, and a vault has been paid rewards up to an epoch that began. *)
TypeOK ==
    /\ staking_params.admin \in Users
    /\ staking_params.whitelisted_tokens \subseteq Mints
    /\ staking_params.total_deposited_amount \in 0 .. staking_params.staking_cap
    /\ Open \subseteq Receipts /\ vaults \in [Open -> Vault]
    /\ \A r \in Open : vaults[r].last_received_rewards_height <= epoch_height
    /\ holder \in [Receipts -> Users \cup {NotMinted, Escrow, Burnt}]
    /\ wallet \in [Users -> [Mints -> Nat]]
    /\ vault_tokens \in [Mints -> Nat]
    /\ candidates = None \/ IsCandidates(candidates)

(* Every open vault is backed: the program's account of each token holds   *)
(* the sum of the deposits of that token, and total_deposited_amount is    *)
(* the sum of all of them, over any interleaving of deposits, cancelled    *)
(* requests and withdrawals of several users.                              *)
VaultsAreBacked ==
    /\ \A m \in Mints : vault_tokens[m] = DepositsOf({r \in Open : vaults[r].stake_mint = m})
    /\ staking_params.total_deposited_amount = DepositsOf(Open)

(* The stake that deposit, set_service and withdraw write back after       *)
(* reading it from the chain account is never lost nor counted twice: a    *)
(* validator has the deposits that name it, those that wait for the        *)
(* unbonding period included, and what others have given it.               *)
StakeIsDelegated ==
    candidates # None =>
        \A pk \in PubKey :
            ValidatorStake(pk) = other_stake[pk] + DepositsOf({r \in Open : vaults[r].service = GuestChain(pk)})

\* A receipt is in escrow exactly while its vault has a withdrawal request,
\* with a user while the vault is open without one, and burnt when the vault
\* is closed.
ReceiptsMatchVaults ==
    \A r \in Receipts :
        /\ r \in Open <=> holder[r] \in Users \cup {Escrow}
        /\ r \in Open => (holder[r] = Escrow <=> vaults[r].withdrawal_request # None)

(* The accounts of the program and of the token programs agree after any   *)
(* requests, cancellations and withdrawals: no vault is out of reach of    *)
(* everybody and no receipt outlives its deposit.                          *)
RecordsAgree == TypeOK /\ ReceiptsMatchVaults

(* Tokens leave a vault account only to the user who asked for them, a     *)
(* full unbonding period after the request, and together with the stake    *)
(* they stood for.                                                         *)
UnbondsInFull ==
    [][\A m \in Mints :
         vault_tokens'[m] < vault_tokens[m] =>
            \E r \in Open \ DOMAIN vaults' :
                LET request == vaults[r].withdrawal_request
                    amount  == vault_tokens[m] - vault_tokens'[m]
                IN  /\ holder[r] = Escrow
                    /\ now >= request.timestamp_in_sec + UnbondingPeriod
                    /\ vaults[r].stake_amount = amount
                    /\ wallet'[request.owner][m] = wallet[request.owner][m] + amount
                    /\ CandidateStake(candidates', vaults[r].service.validator)
                         = ValidatorStake(vaults[r].service.validator) - amount]_vars

\* What the validator of a vault keeps when the deposit is taken from it.
StakeLeft(r) == ValidatorStake(vaults[r].service.validator) - vaults[r].stake_amount

\* The candidates that are left then.
CandidatesLeft(r) ==
    LET pk == vaults[r].service.validator
    IN  {c \in ToSet(candidates.candidates) : c.pubkey # pk}
          \cup (IF StakeLeft(r) > 0 THEN {[pubkey |-> pk, stake |-> StakeLeft(r)]} ELSE {})

\* The chain's minimums forbid a withdrawal: it would leave the validator with
\* too little stake, the chain with too few candidates, or, when it is one of
\* the validators of the next epoch, any choice of them with too little stake.
BreaksMinimums(r) ==
    \/ StakeLeft(r) > 0 /\ StakeLeft(r) < config.min_validator_stake
    \/ StakeLeft(r) = 0 /\ Cardinality(CandidatesLeft(r)) < config.min_validators
    \/ /\ HasValidator(TopValidators(candidates), vaults[r].service.validator)
       /\ \A V \in SUBSET CandidatesLeft(r) :
            Cardinality(V) <= candidates.max_validators => StakeOf(V) < config.min_total_stake

\* All that withdraw asks for but for the answer of the chain.
MayAsk(r) ==
    /\ staking_params.guest_chain_program_id
    /\ candidates # None /\ vaults[r].service # None
    /\ vault_tokens[vaults[r].stake_mint] >= vaults[r].stake_amount

(* A withdrawal whose unbonding period is over is refused only by the      *)
(* minimums of the chain, and by them exactly when what is left would      *)
(* break one: never on the state of the vault, of the token accounts or    *)
(* for stake that was lost meanwhile (withdraw of lib.rs and the call of   *)
(* set_stake, Candidates::update).  Deposits of nothing, which the program *)
(* takes too, are left out: a validator that has only those is no          *)
(* candidate.  The documentation of withdraw, by which the tokens would be *)
(* withdrawn once the period is over, does not mention the minimums.       *)
MaturedWithdrawalsGoThrough ==
    \A r \in Open :
        Matured(r) /\ vaults[r].stake_amount > 0 =>
            MayAsk(r) /\ (StakeAfterWithdraw(r) = {} <=> BreaksMinimums(r))
=============================================================================
