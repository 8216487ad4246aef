SPECIFICATION FairSpec
CONSTANTS
    w1 = w1
    w2 = w2
    Wallets = {w1, w2}
    Calls = {c1, c2}
    Amounts <- MCAmounts
    Queries <- MCQueries
    None = None
INVARIANTS
    TypeOK
    OutcomeMatchesLedger
PROPERTIES
    ImplementsAccount
    EveryCallSettles
CHECK_DEADLOCK FALSE
