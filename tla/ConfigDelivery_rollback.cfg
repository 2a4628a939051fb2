\* Approvals with automatic rollback, failures repeated after a reconnect, restarts.
CONSTANTS
    NumConfigs = 2
    Hash <- DistinctHash
    Callers = {c1}
    c1 = c1
    ConfigLoop = cl
    DriftLoop = dl
    Operations = {"approve"}
    DriftPolicy = "report_only"
    Faults = {"crash", "disconnect"}
    MaxFaults = 1
    MaxLocalChanges = 0
    MaxDeployments = 3
    ChannelCap = 1
SPECIFICATION FairSpec
INVARIANTS
    RollbackRestoresWorking
    RollbackOnce
PROPERTIES
    HistoryAppendOnly
CHECK_DEADLOCK FALSE
PROPERTY FailureIsClaimed
