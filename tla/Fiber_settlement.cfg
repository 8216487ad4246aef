SPECIFICATION Spec
CONSTANTS
    i1 = i1
    i2 = i2
    Intents = {i1, i2}
    Historical = {i2}
    Checkers = {k1}
    Settlers = {s1, s2}
    None = None
    MaxSettling = 2
    MaxCredits = 2
    MaxFaults = 1
INVARIANTS
    TypeOK
    PaidIsGenuine
    SettledOnce
    WalletMatchesLedger
CHECK_DEADLOCK FALSE
