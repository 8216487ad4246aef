SPECIFICATION MCSpec
CONSTANTS
    Requests = {r1, r2, r3}
    MaxInFlight = 2
    MaxFaults = 1
    Intents = {i1, i2}
    ChildWallets = {c1, c2, c3}
    Links = {l1}
    References = {a, b}
    EvmNetworks = {evm}
    KeyNetworks = {key}
    FiberNetworks = {fiber}
    Limits <- MCLimits
    None = None
    Invoice = Invoice
SYMMETRY MCSymmetry
INVARIANTS
    TypeOK
    PaidWhereWatched
    SharedOnlyAfterPayment
PROPERTIES
    CheckoutWithinLimit
    DeactivationHolds
CHECK_DEADLOCK FALSE
