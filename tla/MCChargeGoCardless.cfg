SPECIFICATION Spec
CONSTANTS
    c1 = c1
    c2 = c2
    m1 = m1
    r1 = r1
    Charges = {c1, c2}
    Receipts = {m1}
    Remittances = {r1}
    Gateway <- BothGoCardless
    Total = 1
    MaxPaid = 2
    ErrorIds = FALSE
    Debits = {c1, c2}
    Actors = {"dispute", "void", "tick"}
    Crashable = {"call"}
    MaxCrashes = 1
INVARIANTS
    PaidIsCollected
    BookedWasCaptured
    OneLiveCharge
CHECK_DEADLOCK FALSE
