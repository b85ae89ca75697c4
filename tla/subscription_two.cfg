SPECIFICATION Spec
CONSTANTS
    sA = sA
    sB = sB
    w1 = w1
    w2 = w2
    None = None
    Subs = {sA, sB}
    Founder = {sB}
    Workers = {w1}
    StripeFails = FALSE
    MaxEvents = 2
    MaxTouches = 1
CHECK_DEADLOCK FALSE
INVARIANTS NeverTwo
