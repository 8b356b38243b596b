SPECIFICATION Spec
CONSTANTS
    s1 = s1
    s2 = s2
    s3 = s3
    s4 = s4
    d1 = d1
    q1 = q1
    q2 = q2
    Sessions = {s1, s2, s3, s4}
    Devices = {d1}
    Requests = {q1, q2}
    NoSession = NoSession
    NoDevice = NoDevice
    MaxForks = 1
SYMMETRY Symmetry
INVARIANTS
    SessionsTypeOK
    NoFalseAlarm
    ReplacedIsLost
CHECK_DEADLOCK FALSE
