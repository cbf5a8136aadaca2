--------------------------- MODULE ConsensusStore ---------------------------
(***************************************************************************)
(* The consensus states that the IBC program keeps for one light client:   *)
(*                                                                         *)
(*   solana-ibc/src/storage.rs        ClientStore                          *)
(*   solana-ibc/src/client_state.rs   CommonContext of the light clients   *)
(*                                                                         *)
(* A store is a function from the heights that have a consensus state to   *)
(* the states, whatever these are.  The code keeps a list of pairs and     *)
(* scans it; its order does not matter.                                    *)
(***************************************************************************)
EXTENDS Integers, FiniteSets, FiniteSetsExt, Functions

CONSTANT MaxClientStates    \* storage.rs: MAX_CONSENSUS_STATES

ASSUME MaxClientStatesAssumption == MaxClientStates \in Nat \ {0}

Put(store, height, state) ==
    [h \in DOMAIN store \cup {height} |-> IF h = height THEN state ELSE store[h]]

Drop(store, height) == Restrict(store, DOMAIN store \ {height})

\* A full store gives up its lowest height, even for a lower one.
insert_consensus_state(store, height, state) ==
    IF height \in DOMAIN store \/ Cardinality(DOMAIN store) < MaxClientStates
    THEN Put(store, height, state)
    ELSE Put(Drop(store, Min(DOMAIN store)), height, state)

\* consensus_state_neighbourhood: the states next to a height that has none.
PrevStates(store, height) ==
    LET below == {h \in DOMAIN store : h < height}
    IN  {store[h] : h \in {k \in below : \A j \in below : j <= k}}

NextStates(store, height) ==
    LET above == {h \in DOMAIN store : h > height}
    IN  {store[h] : h \in {k \in above : \A j \in above : j >= k}}
=============================================================================
