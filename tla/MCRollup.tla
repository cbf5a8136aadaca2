------------------------------ MODULE MCRollup ------------------------------
(* Values for the runs of Rollup: a tree with two children per node, a     *)
(* witness account before and after the other ones, two slots, the second  *)
(* of which ends an epoch's hash of all accounts in one configuration.     *)
EXTENDS Rollup

TwoConfigs == {[witness_account |-> w, root_account |-> 2] : w \in {1, 4}}

Set(k) == [kind |-> "Set", key |-> k, value |-> "v"]
Seal(k) == [kind |-> "Seal", key |-> k]

LateEpoch(c) == IF c.witness_account = 4 THEN {2} ELSE {}

\* The first slot changes the trie and then the trie or another account; with
\* three accounts the last of them has no sibling.  The second slot changes the
\* trie, its root or not, or another account.
SomeInputs(c, slot, n) ==
    CASE slot = 1 /\ n = 1 -> {[kind |-> "Deliver", op |-> Set(1)]}
      [] slot = 1 /\ n = 2 ->
           IF c.witness_account = 4 THEN {[kind |-> "Other", lamports |-> 1]}
           ELSE {[kind |-> "Deliver", op |-> Set(2)], [kind |-> "Other", lamports |-> 0]}
      [] slot = 2 /\ n = 1 -> {[kind |-> "Deliver", op |-> Set(3)]}
           \cup IF c.witness_account = 4 THEN {[kind |-> "Trie", op |-> Seal(1)]}
                ELSE {[kind |-> "Other", lamports |-> 1]}
      [] OTHER -> {}
=============================================================================
