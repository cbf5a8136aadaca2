--------------------------- MODULE MCGuestClient ----------------------------
(* Values for the runs of GuestClient.  The chains are all those of a given *)
(* length whose blocks may each start one of the epochs below, the one in   *)
(* force or an earlier one included.                                        *)
EXTENDS GuestClient

CONSTANT MaxHeight

V(pk, amount) == [pubkey |-> pk, stake |-> amount]

\* Two of three; both of two, who are a quorum of the first epoch too; and
\* one that needs the third key's stake.
E1 == [validators |-> {V(1, 1), V(2, 1), V(3, 1)}, quorum_stake |-> 2]
E2 == [validators |-> {V(2, 1), V(3, 1)}, quorum_stake |-> 2]
E3 == [validators |-> {V(1, 1), V(3, 2)}, quorum_stake |-> 2]
AllEpochs == {E1, E2, E3}
TwoEpochs == {E1, E2}

\* A quorum of each epoch.
SignersOf(e) == IF e = E3 THEN {3} ELSE {2, 3}

\* The block at a height of a chain whose epochs start as starts says.
Entry(starts, i) ==
    LET since == CHOOSE j \in 1 .. i : /\ j < i \/ i = 1
                                       /\ starts[j] # None
                                       /\ \A k \in j + 1 .. i - 1 : starts[k] = None
    IN  [block   |-> [block_height |-> i, timestamp_ns |-> 2 * i,
                      next_epoch_commitment |-> starts[i], forged |-> FALSE],
         epoch   |-> starts[since],
         signers |-> SignersOf(starts[since])]

Chains(n, epochs) ==
    {[i \in 1 .. n |-> Entry(starts, i)] :
        starts \in {s \in [1 .. n -> epochs \cup {None}] : s[1] # None}}

AllLogs == Chains(MaxHeight, AllEpochs)

\* An epoch that ends, one that recurs and one that lasts.
FewLogs ==
    {[i \in 1 .. 4 |-> Entry(starts, i)] :
        starts \in {<<E1, None, E2, None>>, <<E2, E1, E2, None>>, <<E1, None, None, None>>}}

Geneses == {"guest", "other"}

\* Lists that hold a quorum, too little stake or a repeated key.
Lists == {<<2, 3>>, <<1, 2>>, <<1, 1>>, <<3>>}
FewLists == {<<2, 3>>, <<3>>}

\* Blocks that conflict with the chain by hash, by time or not at all.
MCForged ==
    {[block_height |-> h, timestamp_ns |-> t, next_epoch_commitment |-> None, forged |-> TRUE] :
        h \in 2 .. 3, t \in {3, 7}}
NoForged == {}

\* A minority and a quorum of either epoch.
SomeFaulty == {{1}, {2, 3}}
NobodyFaulty == {{}}
=============================================================================
