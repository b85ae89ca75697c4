SPECIFICATION Spec
CONSTANTS
    b = b
    p1 = p1
    p2 = p2
    o1 = o1
    o2 = o2
    Fills = {b}
    Contracts <- MCContracts
    Batches <- MCBatches
    Imports = {p1, p2}
    Cleaners = {d1, d2}
    Own = {o1, o2}
    MaxActs = 2
SYMMETRY Symmetry
INVARIANTS TypeOK CreatesTheShortfall NothingLost
PROPERTIES NothingTwice KeepsOneOfEach
