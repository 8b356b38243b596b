SPECIFICATION Spec
CONSTANTS
    c1 = c1
    c2 = c2
    m1 = m1
    r1 = r1
    Charges = {c1, c2}
    Receipts = {}
    Remittances = {}
    Gateway <- BothGoCardless
    Total = 1
    MaxPaid = 2
    ErrorIds = FALSE
    Debits = {c1, c2}
    Actors = {}
    Crashable = {}
    MaxCrashes = 0
INVARIANT
    CapturedOnce
CHECK_DEADLOCK FALSE
