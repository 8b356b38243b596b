SPECIFICATION Spec
CONSTANTS
    u1 = u1
    u2 = u2
    A = A
    B = B
    k1 = k1
    k2 = k2
    q1 = q1
    q2 = q2
    r1 = r1
    e1 = e1
    Units = {u1, u2}
    Customers = {A, B}
    Contracts = {k1, k2}
    Reservations = {}
    Entries = {}
    Requests = {q1}
    Slow = {"sign", "requestEnd", "reactivate", "end", "cancel", "changeUnit", "schedule", "cancelMove"}
    Customer <- OneEach
    NoUnit = NoUnit
    NoContract = NoContract
    NoOne = NoOne
    MaxStops = 0
SYMMETRY Symmetry
INVARIANTS
    OneLiveContract
    UnitTellsTheTruth
CHECK_DEADLOCK FALSE
