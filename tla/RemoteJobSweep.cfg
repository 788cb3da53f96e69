SPECIFICATION SweepSpec
CONSTANTS
    Helpers = {h1, h2}
    Shards <- MCShards
    Leaves <- MCLeaves
    Bucket <- MCBucket
    Content <- MCContent
    Legacy <- MCLegacy
    Entries <- MCEntries
    New = {"j2"}
    Junk = {"junk", "file"}
    Ageing = {"j2"}
    Overdue = {"stuck", "j3", "j4", "flat2"}
    Stuck = {"stuck"}
    RemovalBudget = 2
    VisitBudget = 2
    IterBudget = 4
    MaxFaults = 1
    Odd = Odd
    None = None
INVARIANTS
    SweepTypeOK
PROPERTIES
    LegacySweepIsComplete
    StaleIsCollected
CHECK_DEADLOCK FALSE
