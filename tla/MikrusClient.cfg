SPECIFICATION Spec
CONSTANTS
    Reads = {r1, r2}
    Mutations = {m1}
    TTL = 2
    Interval = 1
    Deadline = 2
    MaxTime = 6
    MaxVersion = 2
    None = None
INVARIANTS
    DefiniteMeansUntouched
    StalenessIsBounded
CHECK_DEADLOCK FALSE
