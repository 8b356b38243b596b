SPECIFICATION FairSpec
CONSTANTS
    c1 = c1
    c2 = c2
    m1 = m1
    r1 = r1
    Charges = {c1, c2}
    Receipts = {}
    Remittances = {}
    Gateway <- BothStripe
    Total = 1
    MaxPaid = 2
    ErrorIds = FALSE
    Debits = {}
    Actors = {"refund"}
    Crashable = {"call"}
    MaxCrashes = 1
PROPERTIES
    CapturedIsBooked
    EveryChargeIsResolved
CHECK_DEADLOCK FALSE
