SPECIFICATION Spec
CONSTANTS
    u1 = u1
    u2 = u2
    A = A
    B = B
    k1 = k1
    k2 = k2
    q1 = q1
    q2 = q2
    r1 = r1
    e1 = e1
    Units = {u1, u2}
    Customers = {A, B}
    Contracts = {k1, k2}
    Reservations = {r1}
    Entries = {e1}
    Requests = {}
    Slow = {}
    Customer <- OneEach
    NoUnit = NoUnit
    NoContract = NoContract
    NoOne = NoOne
    MaxStops = 1
SYMMETRY Symmetry
INVARIANTS
    OccupancyTypeOK
    
    ReservedForSomeone
CHECK_DEADLOCK FALSE
