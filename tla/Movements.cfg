SPECIFICATION MCSpec
CONSTANTS
    u1 = u1
    u2 = u2
    Wallets = {u1, u2}
    Business = u1
    Amounts <- MCAmounts
    MaxDeposits = 4
    MaxInFlight = 2
    MaxFaults = 1
    Transfers = {t1, t2}
    Cancellers = {k1}
    Orders <- MCOrders
    NoOrder <- MCNoOrder
    NoTransfer = NoTransfer
    Earning = {u1}
    Fee = 1
    Runs = {r1}
    Methods = {"bank", "wallet", "own"}
    MaxDays = 2
SYMMETRY MCSymmetry
INVARIANTS
    TypeOK
    CompletedWasHandedOver
    CancelledWasKept
    NeverOverpaid
PROPERTIES
    FollowsBank
CHECK_DEADLOCK FALSE
