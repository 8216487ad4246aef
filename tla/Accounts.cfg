SPECIFICATION MCSpec
CONSTANTS
    Requests = {r1, r2, r3}
    MaxInFlight = 2
    MaxFaults = 1
    Subjects = {w1}
    Challenges = {c1, c2}
    Members = {m1, m2}
    NoOne = NoOne
    Businesses = {b1}
    CacFiles = {cac}
    Letter = letter
    Admins = {admin}
    Empty = Empty
    MaxRetries = 2
    MaxTicks = 2
    MaxReads = 2
    MaxTabs = 2
    MaxWatches = 1
SYMMETRY MCSymmetry
INVARIANTS
    TypeOK
    SignInWorks
    BusinessIsWhole
    
    
PROPERTIES
    SignInHolds
CHECK_DEADLOCK FALSE
