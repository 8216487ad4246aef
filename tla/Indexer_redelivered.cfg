SPECIFICATION Spec
CONSTANTS
    i1 = i1
    i2 = i2
    w1 = w1
    w2 = w2
    Intents = {i1, i2}
    ChildWallets = {w1}
    WalletOf <- MCSharedWallet
    Handlers = {h1, h2}
    Reconcilers = {r1}
    Creditable = {i1, i2}
    None = None
    Limit = 1000
    MaxDeliveries = 2
    MaxInFlight = 2
    MaxFaults = 0
    UsePolling = FALSE
INVARIANTS
    CreditedOnce
CHECK_DEADLOCK FALSE
