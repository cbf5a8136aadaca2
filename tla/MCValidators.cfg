\* Two services, three slots of the host.
SPECIFICATION FairServices
CONSTANTS
    ZeroHash = ZeroHash
    PubKey = {1, 2}
    U128Max = 6
    Roots = {r1}
    MaxConsensusStates = 2
    GenesisEpochs <- TwoValidators
    InitialConfigs <- FirstConfig
    ConfigUpdates <- LimitUpdates
    StakeValues = {0}
    StakeChanges <- NoChanges
    MaxHostHeight = 3
    MaxTimestamp = 3
    MaxTries = 2
PROPERTY
    ChainKeepsGoing
