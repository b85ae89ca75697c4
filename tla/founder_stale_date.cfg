SPECIFICATION Spec
CONSTANTS
    u1 = u1
    u2 = u2
    c1 = c1
    c2 = c2
    c3 = c3
    p1 = p1
    p2 = p2
    None = None
    Users = {u1, u2}
    Checkouts = {c1, c2, c3}
    CustomerOf <- MCCustomerOf
    Seats = 1
    Milestones = {1}
    Ttl = 1
    MaxNumber = 2
    Web = {p1}
    Workers = {p2}
    LockWait = TRUE
    UnpaidStatus = FALSE
    MaxTime = 1
    MaxClosed = 1
CHECK_DEADLOCK FALSE
INVARIANTS ActiveWithinOffer
