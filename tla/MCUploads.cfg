\* Room for two hashes at first, for three in all.
SPECIFICATION Spec
CONSTANTS
    U8Max = 2
    U16Max = 12
    HashOf <- Rank
    Increase = 2
    MaxSize = 3
    chunk_size = 2
    WriteIncrease = 4
    Calls <- TwoCalls
    Messages <- TwoMessages
    Keys = {1, 2}
    Batches <- SomeBatches
    Truncates = {1, 9}
INVARIANTS
    WholeCallsAreRead
    LookupIsExact
    AcceptedAreSigned
CHECK_DEADLOCK FALSE
