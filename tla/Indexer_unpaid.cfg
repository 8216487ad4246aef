SPECIFICATION Spec
CONSTANTS
    i1 = i1
    i2 = i2
    w1 = w1
    w2 = w2
    Intents = {i1, i2}
    ChildWallets = {w1, w2}
    WalletOf <- MCOwnWallets
    Handlers = {h1}
    Reconcilers = {r1}
    Creditable = {i1, i2}
    None = None
    Limit = 1000
    MaxDeliveries = 1
    MaxInFlight = 1
    MaxFaults = 0
    UsePolling = TRUE
INVARIANTS
    CompletedWasPaid
CHECK_DEADLOCK FALSE
