SPECIFICATION Spec
CONSTANTS
    Servers = {p1, p2}
    Operators = {o1}
    Tokens = {t1, t2, t3}
    Bindings = {b1}
    MaxRecords = 2
    None = None
SYMMETRY Interchangeable
INVARIANTS
    ConsumedOnce
    CopyIsFile
PROPERTIES
    ImplementsLedger
CHECK_DEADLOCK FALSE
