SPECIFICATION Spec
CONSTANTS
    k1 = k1
    k2 = k2
    k3 = k3
    s1 = s1
    s2 = s2
    m1 = m1
    m2 = m2
    m3 = m3
    r1 = r1
    r2 = r2
    Charges = {}
    Receipts = {m1, m2, m3}
    Remittances = {r1, r2}
    Gateway <- NoGateway
    Total = 2
    MaxPaid = 2
    Confirms = {k1, k2, k3}
    Returns = {s1, s2}
    Cash = {m3}
    NoRemittance = NoRemittance
    MaxStops = 1
SYMMETRY Symmetry
INVARIANTS
    SepaTypeOK
    ReceiptedOnce
    
    RemittedOnce
    ReturnedOnce
CHECK_DEADLOCK FALSE
