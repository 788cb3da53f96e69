SPECIFICATION FairSpec
CONSTANTS
    j1 = j1
    Jobs <- MCJobs
INVARIANTS
    HonestTermination
PROPERTIES
    OutcomeFrozen
    CollectionSparesLiveJobs
    CancelledGroupDies
    ExitIsRecorded
    ImplementsLifecycle
CHECK_DEADLOCK FALSE
