SPECIFICATION FairSpec
CONSTANTS
    c1 = c1
    c2 = c2
    o1 = o1
    o2 = o2
    m1 = m1
    m2 = m2
    m3 = m3
    Charges = {c1}
    Receipts = {m1, m2}
    Remittances = {}
    Gateway <- OneRedsys
    Total = 2
    MaxPaid = 2
    Redirects = {o1, o2}
    Cash = {m2}
    Crashable = {"call", "handler", "sweep"}
    MaxCrashes = 1
INVARIANTS
    RedsysTypeOK
    OrderBookedOnce
    BookedWasApproved
    PaidIsBooked
    AccountedAtRest
PROPERTIES
    EveryReservationCloses
CHECK_DEADLOCK FALSE
