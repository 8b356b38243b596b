SPECIFICATION Spec
CONSTANTS
    c1 = c1
    c2 = c2
    m1 = m1
    r1 = r1
    Charges = {c1, c2}
    Receipts = {m1}
    Remittances = {}
    Gateway <- BothStripe
    Total = 1
    MaxPaid = 2
    ErrorIds = TRUE
    Debits = {c2}
    Actors = {"dispute"}
    Crashable = {"call", "handler", "sweep"}
    MaxCrashes = 1
INVARIANTS
    ChargingTypeOK
    CapturedOnce
    CaptureHoldsItsRow
    PaidIsCollected
PROPERTIES
    CollectionSpec
CHECK_DEADLOCK FALSE
