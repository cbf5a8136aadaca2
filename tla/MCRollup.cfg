\* Two slots, one entry in the database, two local states, two states in the client.
SPECIFICATION Spec
CONSTANTS
    MERKLE_FANOUT = 2
    MAX_SLOTS = 1
    MaxClientStates = 2
    TrustingPeriod = 1
    TimeModulus = 4
    SlotModulus = 2
    OtherKey = 3
    Configs <- TwoConfigs
    Inputs <- SomeInputs
    EpochSlots <- LateEpoch
    MaxSlot = 2
    MaxTime = 2
    MaxNow = 2
    MaxRestarts = 1
    MaxLate = 2
    MAX_CONSENSUS_STATES = 2
INVARIANTS
    PublishedAreTrue
    ProvableArePublished
    ClientIsSound
    StatesAgree
CHECK_DEADLOCK FALSE
