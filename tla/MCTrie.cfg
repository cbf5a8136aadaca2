\* Every call with every key on an account that holds three nodes.
SPECIFICATION Spec
CONSTANTS
    ByteBits = 2
    MaxExtBytes = 2
    EMPTY_TRIE_ROOT = EmptyRoot
    Absent = Absent
    Capacity = 3
    Keys <- SomeKeys
    Values = {v1, v2}
VIEW Account
SYMMETRY AnyValue
INVARIANTS
    AccountIsSound
    ProofsAreSound
    ReadsAreRight
    RootIsCanonical
PROPERTY
    ImplementsMap
