------------------------------ MODULE GuestLog ------------------------------
(***************************************************************************)
(* What the guest blockchain (module GuestChain) promises its light        *)
(* clients (module GuestClient) of its final blocks.                       *)
(*                                                                         *)
(* A log is a sequence of [block, epoch, signers], where block is a block  *)
(* header, epoch the epoch the block belongs to and signers the keys that  *)
(* signed it.  The commitment of an epoch is the epoch.                    *)
(***************************************************************************)
EXTENDS Stake, Sequences

\* The value of an absent Option.
None == [none |-> TRUE]

\* The epoch of the block after a block.
EpochAfter(entry) ==
    IF entry.block.next_epoch_commitment # None
    THEN entry.block.next_epoch_commitment ELSE entry.epoch

\* The type of Epoch.
IsEpoch(e) ==
    /\ IsFiniteSet(e.validators) /\ DistinctKeys(e.validators)
    /\ \A v \in e.validators : v.stake \in Nat
    /\ e.quorum_stake \in Nat

\* Heights count from one, time increases, an epoch lasts until a block
\* defines the next one, and a quorum of its epoch has signed every block
\* after the genesis.
IsLog(l) ==
    /\ Len(l) \in Nat \ {0}
    /\ \A i \in 1 .. Len(l) :
         /\ l[i].block.block_height = i
         /\ l[i].block.timestamp_ns \in Nat
         /\ IsEpoch(l[i].epoch) /\ IsEpoch(EpochAfter(l[i]))
         /\ i > 1 =>
              /\ l[i].block.timestamp_ns > l[i - 1].block.timestamp_ns
              /\ l[i].epoch = EpochAfter(l[i - 1])
              /\ StakeOf(WithKeys(l[i].epoch.validators, l[i].signers))
                   >= l[i].epoch.quorum_stake
=============================================================================
