--------------------------- MODULE CandidatesSpec ---------------------------
(***************************************************************************)
(* The candidate list as a state machine: every sequence of stake changes, *)
(* changes of max_validators and clearings of the changed flag, under one  *)
(* configuration of minimums.  It implements StakeTable.                   *)
(***************************************************************************)
EXTENDS Candidates

CONSTANTS
    StakeValues,    \* the stakes a candidate may be given
    MaxCounts,      \* the values max_validators takes
    min_validators, min_validator_stake, min_total_stake    \* see Config

\* The fields of the configuration that the list reads.
Config ==
    [min_validators |-> min_validators, min_validator_stake |-> min_validator_stake,
     min_total_stake |-> min_total_stake]

ASSUME StakeValuesAssumption == StakeValues \subseteq Nat \ {0}
ASSUME MaxCountsAssumption == MaxCounts \subseteq Nat \ {0}
ASSUME ConfigAssumption ==
    /\ Config.min_validators \in Nat \ {0}
    /\ Config.min_validator_stake \in Nat \ {0}
    /\ Config.min_total_stake \in Nat \ {0}

VARIABLE cs     \* the Candidates value

\* A genesis set: any set of validators with distinct keys whose stake fits.
GenesisSets ==
    {V \in SUBSET [pubkey : PubKey, stake : StakeValues] :
        V # {} /\ IsFiniteSet(V) /\ DistinctKeys(V) /\ StakeOf(V) <= U128Max}

Init == \E max \in MaxCounts, V \in GenesisSets : cs \in NewCandidates(max, V)

UpdateCandidate(pk, stake) == cs' \in update(cs, Config, pk, stake)

UpdateMaxValidators(max) == cs' \in update_max_validators(cs, max)

ClearChangedFlag == cs' = clear_changed_flag(cs)

Next ==
    \/ \E pk \in PubKey, stake \in StakeValues \cup {0} : UpdateCandidate(pk, stake)
    \/ \E max \in MaxCounts : UpdateMaxValidators(max)
    \/ ClearChangedFlag

Spec == Init /\ [][Next]_cs

-----------------------------------------------------------------------------
(* The record has the fields of the struct, with stakes that are positive  *)
(* (NonZeroU128) and a sum that fits the integer that holds it.            *)
TypeOK == IsCandidates(cs)

(* debug_verify_state: the list that binary_search, insert and rotate edit *)
(* in place stays strictly sorted and never lists a key twice, and the     *)
(* head_stake that is only ever adjusted by differences is the sum of the  *)
(* first max_validators stakes.                                            *)
VerifyState == debug_verify_state(cs)

-----------------------------------------------------------------------------
(* The list seen as a table. *)
TableOf(s) == [pk \in PubKey |-> CandidateStake(s, pk)]

Table == INSTANCE StakeTable WITH
    stakes <- TableOf(cs), max <- cs.max_validators, changed <- cs.changed

(* The list edited in place implements the table: each update sets one     *)
(* stake within the configured minimums, and `changed` is raised by exactly*)
(* the steps after which the next epoch would have other validators.       *)
ImplementsTable == Table!TableSpec
=============================================================================
