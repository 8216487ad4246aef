SPECIFICATION Spec
CONSTANTS
    Otps = {o1, o2}
    Calls = {c1, c2}
    Kinds = {"chain", "ckb", "fiat"}
    Amounts <- MCAmounts
    NoOtp = NoOtp
    MaxDeposits = 2
    MaxInFlight = 2
    MaxFaults = 1
    UseRepair = TRUE
SYMMETRY MCSymmetry
INVARIANTS
    TypeOK
    NeverOverpaid
    OtpPaysOnceInSeries
CHECK_DEADLOCK FALSE
