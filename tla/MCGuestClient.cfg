\* Any relayers, a faulty minority or quorum, a host that prunes.
SPECIFICATION Spec
CONSTANTS
    Genesis <- Geneses
    MaxHeight = 4
    Logs <- FewLogs
    Epochs <- TwoEpochs
    FaultySets <- SomeFaulty
    Forged <- MCForged
    AnyEpoch = TRUE
    SignatureLists <- Lists
    TrustingPeriod = 5
    Prunes = TRUE
    MaxTime = 10
    U64Max = 12
    MaxClientStates = 3
INVARIANTS
    TrustsOnlyChain
    NeverAccused
    StoreIsSound
PROPERTY
    NeverRewritten
CHECK_DEADLOCK FALSE
