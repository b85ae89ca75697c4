SPECIFICATION Spec
CONSTANTS
    u1 = u1
    u2 = u2
    c1 = c1
    c2 = c2
    c3 = c3
    p1 = p1
    p2 = p2
    None = None
    Users = {u1, u2}
    Checkouts = {c1, c2, c3}
    CustomerOf <- MCCustomerOf
    Seats = 1
    Milestones = {1}
    Ttl = 1
    MaxNumber = 2
    Web = {p1, p2}
    Workers = {p1, p2}
    LockWait = FALSE
    UnpaidStatus = TRUE
    MaxTime = 1
    MaxClosed = 1
SYMMETRY MCSymmetry
CHECK_DEADLOCK FALSE
INVARIANTS TypeOK ActiveWithinOffer OnePerAccount NumbersDense
PROPERTIES NumbersNeverReused ImplementsLedger
