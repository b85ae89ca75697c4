SPECIFICATION MCSpec
CONSTANTS
    e1 = e1
    e2 = e2
    d1 = d1
    d2 = d2
    inv = inv
    Events = {e1, e2}
    Deliveries = {d1, d2}
    MaxSends = 3
    Attempts = 2
    Slow = {e1}
    Crashes = {e1}
    DbFails = {e1}
    AddsLost = {e1}
    MaxJobs = 2
    Letters = {inv}
    MaxMails = 2
    Tries = 2
    DirectTries = 1
    MaxWorkers = 3
    InvoiceOf <- MCInvoiceOf
    MaxFaults = 1
CHECK_DEADLOCK FALSE
INVARIANTS NoticeTypeOK OneJobPerEvent CleanAckedIsQueued NoticeOnce HandledIsPosted
PROPERTIES JobsEnd
