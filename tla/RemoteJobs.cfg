SPECIFICATION Spec
CONSTANTS
    Jobs = {j1, j2}
    Callers = {c1, c2, c3}
    Principals = {p1, p2}
    Servers = {s1}
    Keys = {k1}
    Bindings = {b1, b2}
    MaxRecords = 2
    None = None
SYMMETRY Interchangeable
INVARIANTS
    TypeOK
    OneLaunchPerKey
    LocalFollowsRemote
    AnsweredStartIsKnown
PROPERTIES
    RecordsArePermanent
CHECK_DEADLOCK FALSE
