\* Two native denominations, one foreign, three packets; an amount that is
\* less than a unit of the mint, and one that overflows unless converted and
\* then takes up the whole supply.
SPECIFICATION Spec
CONSTANTS
    a = a
    b = b
    Native = {"sol", "usdc"}
    Foreign = {"atom"}
    WSOL = "sol"
    Hooked = {"usdc", "atom"}
    Ten = 2
    U64Max = 1
    MINIMUM_FEE_ACCOUNT_BALANCE = 1
    Admins = {a, b}
    Decimals <- DecimalPairs
    Amounts = {1, 3}
    Fees = {0, 1}
    Coins = 6
    MaxPackets = 3
SYMMETRY Symmetry
INVARIANTS
    TokensAreBacked
    RefundsGoThrough
PROPERTIES
    CollectorConsents
CHECK_DEADLOCK FALSE
