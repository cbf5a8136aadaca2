---------------------------- MODULE MCGuestChain ----------------------------
EXTENDS GuestChain

Vals(a, b, c) ==
    {v \in {[pubkey |-> 1, stake |-> a], [pubkey |-> 2, stake |-> b],
            [pubkey |-> 3, stake |-> c]} : v.stake > 0}

\* Two equal validators and a third candidate to come.
TwoOfThree == {[validators |-> Vals(2, 2, 0), quorum_stake |-> 3]}

BaseConfig ==
    [min_validators |-> 1, max_validators |-> 2, min_validator_stake |-> 1,
     min_total_stake |-> 2, min_quorum_stake |-> 3, min_block_length |-> 1,
     max_block_age_ns |-> 2, min_epoch_length |-> 2]

OneConfig == {BaseConfig}

\* The second validator has to leave the epoch, and may come back.
SizeUpdates == {[max_validators |-> 1], [max_validators |-> 2, min_quorum_stake |-> 2]}

\* Moving stake from one candidate to another in one instruction.
SomeChanges == {<<<<1, -1>>, <<3, 2>>>>, <<<<2, -2>>>>}
=============================================================================
