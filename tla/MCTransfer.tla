----------------------------- MODULE MCTransfer -----------------------------
(* Values for the run of Transfer.                                         *)
EXTENDS Transfer, TLC

CONSTANTS a, b

\* One digit lost, and a pair that init_mint refuses.
DecimalPairs == {<<1, 0>>, <<0, 1>>}

Symmetry == Permutations(Admins)
=============================================================================
