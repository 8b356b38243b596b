SPECIFICATION Spec
CONSTANTS
    a = a
    b = b
    c = c
    s1 = s1
    s2 = s2
    self = self
    q1 = q1
    q2 = q2
    Invoices = {a, b}
    SeriesSet = {s1, s2}
    Series <- SeriesOf
    Issuers = {self}
    Issuer <- IssuerOf
    Requests = {q1, q2}
    NoInvoice = NoInvoice
    MaxJobs = 2
    MaxTroubles = 2
SYMMETRY Symmetry
INVARIANTS
    VerifactuTypeOK
    
    OneChain
    SentInOrder
    AgencyAgrees
    NobodyForgotten
