----------------------------- MODULE MCIbcHost ------------------------------
(* Values for the run of IbcHost: two clients whose counterparties may     *)
(* equivocate, room for one consensus state each, so that states are       *)
(* evicted, one connection and one channel.                                *)
EXTENDS IbcHost, TLC

CONSTANTS tm, guest, st1, st2, p1, p2

NoDelayOrSome == {0, 2}

Symmetry == Permutations(ClientTypes) \cup Permutations(States) \cup Permutations(Hashes)
=============================================================================
