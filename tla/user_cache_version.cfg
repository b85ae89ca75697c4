SPECIFICATION Spec
CONSTANTS
    r1 = r1
    r2 = r2
    Readers = {r1}
    EntryTtl = 2
    VersionTtl = 3
    VersionExpires = TRUE
    SlowRequests = FALSE
    MaxWrites = 2
INVARIANTS ReadsAreFresh
