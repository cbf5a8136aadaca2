\* Two users, two receipts, two tokens, a validator of the genesis and another.
SPECIFICATION Spec
CONSTANTS
    Users = {alice, bob}
    Mints = {wsol, msol}
    Receipts = {r1, r2}
    PubKey = {1, 2}
    Amounts = {0, 1, 2}
    Caps = {1, 2}
    Genesis <- MCGenesis
    MaxValidators = 1
    Configs <- MCConfigs
    Wallet = 2
    UnbondingPeriod = 1
    MaxTime = 2
    MaxEpoch = 2
    MaxOther = 1
    U128Max = 20
SYMMETRY Interchangeable
INVARIANTS
    VaultsAreBacked
    StakeIsDelegated
    RecordsAgree
    MaturedWithdrawalsGoThrough
PROPERTY
    UnbondsInFull
CHECK_DEADLOCK FALSE
