SPECIFICATION Spec
CONSTANTS
    MaxJobs = 2
    Callers = {c1}
    Capacity = 1
    None = None
INVARIANTS
    AnswersStayTrue
    NoProgramIsLeft
PROPERTIES
    CancellationEnds
CHECK_DEADLOCK FALSE
