SPECIFICATION Spec
CONSTANTS
    Paths = {"f", "g"}
    Patches = {"p1", "p2", "p3"}
    Writes = {"w1"}
    Target <- MCTarget
    Expected <- MCExpected
    New <- MCNew
    Initially <- MCInitially
    Contents = {"a", "b", "c", "d"}
    Absent = "-"
    MaxCrashes = 1
    None = None
INVARIANTS
    PatchesAreSerial
    AnsweredIsDurable
CHECK_DEADLOCK FALSE
