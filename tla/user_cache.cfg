SPECIFICATION Spec
CONSTANTS
    r1 = r1
    r2 = r2
    Readers = {r1, r2}
    EntryTtl = 2
    VersionTtl = 3
    VersionExpires = FALSE
    SlowRequests = TRUE
    MaxWrites = 2
INVARIANTS TypeOK ReadsAreFresh
PROPERTIES EventuallyCurrent
