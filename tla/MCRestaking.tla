---------------------------- MODULE MCRestaking -----------------------------
(* Values for the runs of Restaking. *)
EXTENDS Restaking, TLC

\* One genesis validator; the deposits may also name another key.
MCGenesis == {[pubkey |-> 1, stake |-> 2]}

\* Two configurations: one asks for more stake in total, the other for more
\* stake of each validator.
MCConfigs ==
    {[min_validators |-> 1, min_validator_stake |-> 1, min_total_stake |-> 2],
     [min_validators |-> 1, min_validator_stake |-> 2, min_total_stake |-> 1]}

\* Users, tokens and receipts are interchangeable.
Interchangeable ==
    Permutations(Users) \cup Permutations(Mints) \cup Permutations(Receipts)
=============================================================================
