----------------------------- MODULE StakeTable -----------------------------
(***************************************************************************)
(* What the candidate list promises, without a list: a table from public   *)
(* keys to stakes, zero meaning "not a candidate", and a flag which tells  *)
(* whether the top of the table changed since the flag was last cleared.   *)
(***************************************************************************)
EXTENDS Stake

CONSTANTS PubKey, StakeValues, MaxCounts, Config

VARIABLES
    stakes,     \* [PubKey -> Nat]
    max,        \* how many candidates make an epoch
    changed     \* whether the top set changed since the flag was cleared

tableVars == <<stakes, max, changed>>

Members(t) == {pk \in DOMAIN t : t[pk] > 0}

\* Public keys that come before pk: more stake, or as much and a lower key.
Ahead(t, pk) ==
    {q \in Members(t) : t[q] > t[pk] \/ (t[q] = t[pk] /\ q < pk)}

\* The n members of the table with most stake.
Top(t, n) ==
    {[pubkey |-> pk, stake |-> t[pk]]
        : pk \in {q \in Members(t) : Cardinality(Ahead(t, q)) < n}}

TableInit ==
    /\ stakes \in [PubKey -> StakeValues \cup {0}]
    /\ max \in MaxCounts
    /\ changed = (Cardinality(Members(stakes)) > max)

\* The flag is raised by exactly the steps that change the top set.
Flag == changed' = (changed \/ Top(stakes', max') # Top(stakes, max))

SetStake(pk, n) ==
    /\ n = 0 \/ n >= Config.min_validator_stake
    /\ stakes' = [stakes EXCEPT ![pk] = n]
    /\ UNCHANGED max
    /\ Flag
    \* Candidates may leave only while enough of them stay ...
    /\ (n = 0 /\ stakes[pk] > 0) =>
          Cardinality(Members(stakes')) >= Config.min_validators
    \* ... and the stake of the top may be lowered only down to the minimum.
    /\ StakeOf(Top(stakes', max)) < StakeOf(Top(stakes, max)) =>
          StakeOf(Top(stakes', max)) >= Config.min_total_stake

SetMax(n) ==
    /\ max' = n
    /\ UNCHANGED stakes
    /\ Flag

ClearFlag ==
    /\ changed' = FALSE
    /\ UNCHANGED <<stakes, max>>

TableNext ==
    \/ \E pk \in PubKey, n \in StakeValues \cup {0} : SetStake(pk, n)
    \/ \E n \in MaxCounts : SetMax(n)
    \/ ClearFlag

TableSpec == TableInit /\ [][TableNext]_tableVars
=============================================================================
