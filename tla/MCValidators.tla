--------------------------- MODULE MCValidators ----------------------------
(* Values for the run of Validators: two keys, both of which are needed    *)
(* for a quorum until there is room for one only.                          *)
EXTENDS Validators

TwoValidators ==
    {[validators |-> {[pubkey |-> 1, stake |-> 1], [pubkey |-> 2, stake |-> 1]},
      quorum_stake |-> 2]}

FirstConfig ==
    {[min_validators |-> 1, max_validators |-> 2, min_validator_stake |-> 1,
      min_total_stake |-> 1, min_quorum_stake |-> 1, min_block_length |-> 1,
      max_block_age_ns |-> 1, min_epoch_length |-> 1]}

\* An epoch of one key, with less stake than the quorum that is asked for.
LimitUpdates == {[max_validators |-> 1, min_total_stake |-> 2, min_quorum_stake |-> 2]}

NoChanges == {}
=============================================================================
