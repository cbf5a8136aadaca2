------------------------------- MODULE Stake --------------------------------
(***************************************************************************)
(* Stake held by sets of validators.                                       *)
(*                                                                         *)
(* A validator (and a candidate) is a record [pubkey, stake].  The code    *)
(* adds stakes up with a loop over a vector; here the sum over a set V of  *)
(* validators with distinct public keys is the number of stake units its   *)
(* members own.  Counting units makes the sum a cardinality, so facts      *)
(* about it follow from the library's theorems about finite sets.          *)
(***************************************************************************)
EXTENDS Integers, FiniteSets

\* The units of stake owned by one validator, numbered from one.
UnitsOf(v) == {v.pubkey} \X (1 .. v.stake)

StakeUnits(V) == UNION {UnitsOf(v) : v \in V}

\* Sum of v.stake over the validators v of V.
StakeOf(V) == Cardinality(StakeUnits(V))

\* No public key is listed twice.
DistinctKeys(V) == \A v, w \in V : v.pubkey = w.pubkey => v = w

\* Epoch::validator, the entry of a public key in a validator set.
HasValidator(V, pk) == \E v \in V : v.pubkey = pk
ValidatorOf(V, pk)  == CHOOSE v \in V : v.pubkey = pk

\* The members of V whose keys are in K.
WithKeys(V, K) == {v \in V : v.pubkey \in K}
=============================================================================
