SPECIFICATION CronSpec
CONSTANTS
    Callers = {c1, c2, c3}
    Profiles = {p1, p2}
    CronContents = {v1, v2}
    Foreign = {f1}
    MaxRecords = 1
    MaxEdits = 1
    Nil = Nil
SYMMETRY Interchangeable
INVARIANTS
    CronTypeOK
    PairsStayWhole
    RecordsMatchCrontab

    
CHECK_DEADLOCK FALSE
