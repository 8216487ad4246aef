SPECIFICATION FairSpec
CONSTANTS
    i1 = i1
    i2 = i2
    Intents = {i1, i2}
    Historical = {i2}
    Checkers = {k1}
    Settlers = {s1, s2}
    None = None
    MaxSettling = 1
    MaxCredits = 0
    MaxFaults = 0
PROPERTIES
    PaidIsSettled
CHECK_DEADLOCK FALSE
