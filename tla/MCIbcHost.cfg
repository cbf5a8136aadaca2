\* Two clients, two heights, two states; an evicted state may be stored again.
SPECIFICATION Spec
CONSTANTS
    tm = tm
    guest = guest
    st1 = st1
    st2 = st2
    p1 = p1
    p2 = p2
    U32Max = 5
    Alphanumeric = {"transfer", "oracle"}
    MaxClientStates = 1
    ClientTypes = {tm, guest}
    Heights = {1, 2}
    States = {st1, st2}
    Hashes = {p1, p2}
    Delays <- NoDelayOrSome
    TimePerBlock = 2
    MaxClients = 2
    MaxConnections = 1
    MaxChannels = 1
    MaxSequence = 1
    MaxHead = 2
    MaxSeen = 3
SYMMETRY Symmetry
INVARIANTS
    ProofsAreFaithful
    ConsensusProofsAreHistory
PROPERTIES
    RecordsAdvance
    PacketsHappenOnce
CHECK_DEADLOCK FALSE
