SPECIFICATION PlanSpec
CONSTANTS
    Callers = {c1, c2}
    plain = plain
    inherited = inherited
    setting = setting
    t1 = t1
    t2 = t2
    Cores = {plain, inherited}
    ImageCores = {inherited}
    Specs <- Definitions
    Tags = {t1, t2}
    Images = {t2}
    Digests = {d1, d2}
    FileSets = {f1, f2}
    MaxPlanRecords = 1
    MaxChanges = 1
    MaxReceipts = 1
    Nil = Nil
SYMMETRY Interchangeable
INVARIANTS
    PlanTypeOK
    RecreateFollowsPlan
    AlreadyAppliedMatchesPlan
    RefusedMeansUntouched
CHECK_DEADLOCK FALSE
