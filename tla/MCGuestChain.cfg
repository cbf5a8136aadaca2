SPECIFICATION Spec
CONSTANTS
    ZeroHash = ZeroHash
    PubKey = {1, 2, 3}
    U128Max = 6
    Roots = {r1, r2}
    MaxConsensusStates = 2
    GenesisEpochs <- TwoOfThree
    InitialConfigs <- OneConfig
    ConfigUpdates <- SizeUpdates
    StakeValues = {0}
    StakeChanges <- SomeChanges
    MaxHostHeight = 4
    MaxTimestamp = 4
INVARIANTS
    FinalityNeedsQuorum
    BlocksFormChain
    UnchangedMeansCurrent
    ConsensusStatesFollowChain
PROPERTIES
    BlocksHoldWholeSlots
    PendingIsKept
    BlocksAreSpaced
