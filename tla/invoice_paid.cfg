SPECIFICATION MCSpec
CONSTANTS
    x = x
    y = y
    Users = {x, y}
    MaxRedemptions = 1
    Periods = {1, 2}
    None = None
    Invoices <- MCInvoices
    Filleul = x
    Attempts = 2
    MaxFaults = 2
INVARIANTS TypeOK QuotaKept OneCredit AppliedIsCredited
PROPERTIES EndedUseStays Rewarded
