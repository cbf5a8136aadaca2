----------------------------- MODULE Candidates -----------------------------
(***************************************************************************)
(* The list of validator candidates: common/guestchain/src/candidates.rs.  *)
(*                                                                         *)
(* A Candidates value is a record                                          *)
(*                                                                         *)
(*   [max_validators, candidates, changed, head_stake]                     *)
(*                                                                         *)
(* whose list holds the candidate with most stake first.  Every method     *)
(* that takes &mut self is an operator which returns the set of possible   *)
(* results: a singleton when the method succeeds and the empty set when it *)
(* returns an error or panics (the host then reverts the transaction).     *)
(* Positions count from one; the code's count from zero.                   *)
(***************************************************************************)
EXTENDS Stake, Sequences, SequencesExt

CONSTANTS
    PubKey,     \* public keys, compared as numbers (the code requires Ord)
    U128Max     \* u128::MAX: the sum of head stakes must not exceed it

ASSUME PubKeyAssumption == PubKey \subseteq Nat /\ IsFiniteSet(PubKey)
ASSUME U128MaxAssumption == U128Max \in Nat \ {0}

Candidate == [pubkey : PubKey, stake : Nat \ {0}]

-----------------------------------------------------------------------------
(* The order of the list: stake descending, then public key ascending.     *)

Precedes(c, d) ==
    \/ c.stake > d.stake
    \/ c.stake = d.stake /\ c.pubkey < d.pubkey

Sorted(list) ==
    \A i, j \in 1 .. Len(list) : i < j => Precedes(list[i], list[j])

\* The members of the list's prefix of the given length.
Prefix(list, n) == {list[i] : i \in {j \in 1 .. Len(list) : j <= n}}

\* The first max_validators candidates: the validators of a next epoch.
TopValidators(cs) == Prefix(cs.candidates, cs.max_validators)

\* candidates.get(i).map_or(0, |c| c.stake.get())
StakeAt(list, i) == IF i \in 1 .. Len(list) THEN list[i].stake ELSE 0

\* Where binary_search says the candidate is or should be inserted.
SearchPos(list, c) ==
    Cardinality({i \in 1 .. Len(list) : Precedes(list[i], c)}) + 1

\* Positions of a public key on the list: none or one.
Positions(list, pk) == {i \in 1 .. Len(list) : list[i].pubkey = pk}

-----------------------------------------------------------------------------
sum_head_stake(max, list) == StakeOf(Prefix(list, max))

\* sort_unstable of the genesis validators, which have distinct keys.
sort_unstable(V) == {list \in [1 .. Cardinality(V) -> V] : Sorted(list)}

\* Candidates::new, from a genesis set of validators.
NewCandidates(max, V) ==
    {[max_validators |-> max,
      candidates     |-> list,
      changed        |-> Len(list) > max,
      head_stake     |-> sum_head_stake(max, list)] : list \in sort_unstable(V)}

\* Mutant: the flag is not raised although the top set changed.
update_max_validators_keeps_flag(cs, max) ==
    LET sum == sum_head_stake(max, cs.candidates)
    IN  {s \in {[cs EXCEPT !.max_validators = max, !.head_stake = sum]} : sum <= U128Max}

update_max_validators(cs, max) ==
    LET Count(n) == IF Len(cs.candidates) < n THEN Len(cs.candidates) ELSE n
        sum      == sum_head_stake(max, cs.candidates)
    IN  IF Count(max) = Count(cs.max_validators)
        THEN {[cs EXCEPT !.max_validators = max]}
        ELSE {s \in {[cs EXCEPT !.max_validators = max,
                                !.changed        = TRUE,
                                !.head_stake     = sum]} : sum <= U128Max}

clear_changed_flag(cs) == [cs EXCEPT !.changed = FALSE]

-----------------------------------------------------------------------------
(* Bookkeeping of head_stake.                                              *)

add_head_stake(cs, stake) ==
    {s \in {[cs EXCEPT !.head_stake = @ + stake, !.changed = TRUE]} :
        s.head_stake <= U128Max}

sub_head_stake(cs, cfg, stake) ==
    {s \in {[cs EXCEPT !.head_stake = @ - stake, !.changed = TRUE]} :
        s.head_stake >= cfg.min_total_stake}

update_stake_for_remove(cs, cfg, pos) ==
    IF pos > cs.max_validators
    THEN {cs}
    ELSE sub_head_stake(cs, cfg, cs.candidates[pos].stake
                                   - StakeAt(cs.candidates, cs.max_validators + 1))

-----------------------------------------------------------------------------
\* Mutant: off by one, the last head candidate is taken for the dropped one.
add_impl_off_by_one(cs, pos, c) ==
    LET list == InsertAt(cs.candidates, pos, c)
        s    == [cs EXCEPT !.candidates = list]
    IN  IF pos > cs.max_validators
        THEN {s}
        ELSE add_head_stake(s, c.stake - StakeAt(list, cs.max_validators))

add_impl(cs, pos, c) ==
    LET list == InsertAt(cs.candidates, pos, c)
        s    == [cs EXCEPT !.candidates = list]
    IN  IF pos > cs.max_validators
        THEN {s}
        ELSE add_head_stake(s, c.stake - StakeAt(list, cs.max_validators + 1))

\* rotate(list, old, new) followed by the assignment to the moved entry.
Move(list, old, new, c) == InsertAt(RemoveAt(list, old), new, c)

update_impl(cs, cfg, old, new, c) ==
    LET max       == cs.max_validators
        list      == cs.candidates
        old_stake == list[old].stake
        moved(S)  == {[s EXCEPT !.candidates = Move(list, old, new, c)] : s \in S}
    IN  IF new > max
        THEN moved(update_stake_for_remove(cs, cfg, old))
        ELSE IF old > max
        THEN moved(add_head_stake(cs, c.stake - StakeAt(list, max)))
        ELSE IF old_stake < c.stake
        THEN moved(add_head_stake(cs, c.stake - old_stake))
        ELSE IF old_stake > c.stake
        THEN moved(sub_head_stake(cs, cfg, old_stake - c.stake))
        ELSE {cs}

do_update(cs, cfg, pos, c) ==
    LET new == SearchPos(cs.candidates, c)
    IN  IF pos = {}
        THEN add_impl(cs, new, c)
        ELSE UNION {update_impl(cs, cfg, old, IF new > old THEN new - 1 ELSE new, c)
                      : old \in pos}

do_remove(cs, cfg, pos) ==
    IF Len(cs.candidates) <= cfg.min_validators
    THEN {}
    ELSE {[s EXCEPT !.candidates = RemoveAt(@, pos)]
            : s \in update_stake_for_remove(cs, cfg, pos)}

\* Candidates::update with new_stake_fn returning the given stake.
update(cs, cfg, pk, stake) ==
    LET pos == Positions(cs.candidates, pk)
    IN  IF stake > 0
        THEN IF stake < cfg.min_validator_stake
             THEN {}
             ELSE do_update(cs, cfg, pos, [pubkey |-> pk, stake |-> stake])
        ELSE IF pos = {}
        THEN {cs}
        ELSE UNION {do_remove(cs, cfg, p) : p \in pos}

\* The stake of a public key, zero when it is not a candidate.
CandidateStake(cs, pk) ==
    LET pos == Positions(cs.candidates, pk)
    IN  IF pos = {} THEN 0 ELSE cs.candidates[CHOOSE p \in pos : TRUE].stake

-----------------------------------------------------------------------------
\* The fields of the struct: stakes are NonZeroU128 and max_validators is
\* NonZeroU16.
IsCandidates(cs) ==
    /\ cs = [max_validators |-> cs.max_validators, candidates |-> cs.candidates,
             changed |-> cs.changed, head_stake |-> cs.head_stake]
    /\ cs.max_validators \in Nat \ {0}
    /\ cs.candidates \in Seq(Candidate)
    /\ cs.changed \in BOOLEAN
    /\ cs.head_stake \in 0 .. U128Max

\* debug_verify_state
UniqueKeys(list) ==
    \A i, j \in 1 .. Len(list) : list[i].pubkey = list[j].pubkey => i = j

debug_verify_state(cs) ==
    /\ Sorted(cs.candidates)
    /\ UniqueKeys(cs.candidates)
    /\ cs.head_stake = sum_head_stake(cs.max_validators, cs.candidates)
=============================================================================
