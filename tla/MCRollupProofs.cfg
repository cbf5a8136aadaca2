\* As MCRollup.cfg, for the documentation's statement that the code does not
\* keep.
SPECIFICATION Spec
CONSTANTS
    MERKLE_FANOUT = 2
    MAX_SLOTS = 1
    MaxClientStates = 2
    TrustingPeriod = 1
    TimeModulus = 4
    SlotModulus = 2
    OtherKey = 3
    Configs <- TwoConfigs
    Inputs <- SomeInputs
    EpochSlots <- LateEpoch
    MaxSlot = 2
    MaxTime = 2
    MaxNow = 2
    MaxRestarts = 1
    MaxLate = 2
    MAX_CONSENSUS_STATES = 2
INVARIANT
    RootedArePublished
CHECK_DEADLOCK FALSE
