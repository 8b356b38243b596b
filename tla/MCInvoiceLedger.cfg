SPECIFICATION BoundedSpec
CONSTANTS
    c1 = c1
    c2 = c2
    m1 = m1
    Charges = {c1, c2}
    Receipts = {m1}
    Remittances = {}
    Gateway <- StripeAndRedsys
    Total = 2
    MaxPaid = 2
INVARIANTS
    TypeOK
    PaidMeansCovered
    RefundsBounded
    

    
