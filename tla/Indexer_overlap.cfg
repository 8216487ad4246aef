SPECIFICATION MCSpec
CONSTANTS
    i1 = i1
    i2 = i2
    w1 = w1
    w2 = w2
    Intents = {i1, i2}
    ChildWallets = {w1}
    WalletOf <- MCSharedWallet
    Creditable = {i1}
    Handlers = {h1, h2}
    Reconcilers = {r1}
    None = None
    Limit = 1
    MaxDeliveries = 1
    MaxInFlight = 2
    MaxFaults = 1
    UsePolling = TRUE
INVARIANTS
    TypeOK
    CompletedWasCredited
    ReceiptIsBacked
    CreditedAgainOnlyIf
PROPERTIES
    CompletionIsFinal
    PaidIsCompleted
    CompletedIsRepaired
CHECK_DEADLOCK FALSE
