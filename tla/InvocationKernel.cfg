SPECIFICATION FairSpec
CONSTANTS
    Mutations = {m1, m2}
    Reads = {q1}
    Resources = {r1}
    HostKeys = {h1}
    MaxClients = 2
    MaxApprovals = 1
    MaxDeadline = 2
    Budget = 2
    AdapterBound = 2
    MaxDelay = 1
    MaxAttempts = 2
    None = None
INVARIANTS
    TypeOK
    OneMutationPerResource
    OneRequestPerApproval
    TimeoutMeansUntouched
PROPERTIES
    EveryCallEnds
CHECK_DEADLOCK FALSE
