SPECIFICATION Spec
CONSTANTS
    c1 = c1
    c2 = c2
    p1 = p1
    p2 = p2
    t1 = t1
    t2 = t2
    t3 = t3
    t4 = t4
    Conns = {c1, c2}
    Calls = {p1, p2}
    Tokens = {t1, t2, t3, t4}
    None = None
SYMMETRY Symmetry
INVARIANTS TypeOK UnwrittenIsCurrent NeverLost NotCondemnedByRace Revivable
