SPECIFICATION Spec
CONSTANTS
    c1 = c1
    c2 = c2
    m1 = m1
    r1 = r1
    Charges = {c1}
    Receipts = {}
    Remittances = {r1}
    Gateway <- OneStripe
    Total = 1
    MaxPaid = 2
    ErrorIds = FALSE
    Debits = {}
    Actors = {}
    Crashable = {}
    MaxCrashes = 0
INVARIANT
    ChargedOrRemitted
CHECK_DEADLOCK FALSE
