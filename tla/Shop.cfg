SPECIFICATION MCSpec
CONSTANTS
    Requests = {r1, r2, r3}
    MaxInFlight = 2
    MaxFaults = 1
    p1 = p1
    p2 = p2
    p3 = p3
    s1 = s1
    s2 = s2
    m1 = m1
    m2 = m2
    a = a
    Products = {p1, p2, p3}
    Shops = {s1, s2}
    ShopOf <- MCShopOf
    Users = {user}
    Guests = {guest}
    Carts = {k1, k2}
    Items = {x1, x2}
    o1 = o1
    o2 = o2
    Orders = {o1, o2}
    Quantities = {2}
    Stocks = {0, 1}
    GuestLines <- MCGuestLines
    Stages = {"shipped"}
    MaxProducts = 1
    None = None
    Sites = {m1, m2}
    Subdomains = {a, b}
    Deposits = {d1}
    References = {x}
    Pictures = {logo}
    Albums = {album}
    MaxImages = 2
    NoFile = NoFile
    BufferSize = 1
    Null = Null
SYMMETRY MCSymmetry
INVARIANTS
    TypeOK
    OrdersAreSound
    
    LimitsHold
    NothingIsLost
PROPERTIES
    StatusStays
CHECK_DEADLOCK FALSE
