\* Honest validators, relayers that skip, repeat and reorder.
SPECIFICATION FairSpec
CONSTANTS
    Genesis <- Geneses
    MaxHeight = 5
    Logs <- AllLogs
    Epochs <- AllEpochs
    FaultySets <- NobodyFaulty
    Forged <- NoForged
    AnyEpoch = FALSE
    SignatureLists <- FewLists
    TrustingPeriod = 50
    Prunes = FALSE
    MaxTime = 0
    U64Max = 60
    MaxClientStates = 3
INVARIANT
    NextBlockVerifiable
PROPERTY
    CatchesUp
CHECK_DEADLOCK FALSE
