SPECIFICATION CronSpec
CONSTANTS
    Callers = {c1, c2, c3}
    Profiles = {p1}
    CronContents = {v1}
    Foreign = {f1}
    MaxRecords = 1
    MaxEdits = 0
    Nil = Nil
SYMMETRY Interchangeable
INVARIANT
    JobsAreListed
CHECK_DEADLOCK FALSE
