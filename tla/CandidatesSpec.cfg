\* Four candidates with stakes 1..3, any two of them or all but one in an epoch.
SPECIFICATION Spec
CONSTANTS
    PubKey = {1, 2, 3, 4}
    U128Max = 8
    StakeValues = {1, 2, 3}
    MaxCounts = {1, 2, 3}
    min_validators = 2
    min_validator_stake = 1
    min_total_stake = 3
INVARIANTS
    VerifyState
PROPERTIES
    ImplementsTable
