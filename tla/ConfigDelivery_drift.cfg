\* Drift enforcement, local edits and failing stores.
CONSTANTS
    NumConfigs = 2
    Hash <- DistinctHash
    Callers = {c1}
    c1 = c1
    ConfigLoop = cl
    DriftLoop = dl
    Operations = {"direct", "rollback"}
    DriftPolicy = "enforce"
    Faults = {"store", "send"}
    MaxFaults = 1
    MaxLocalChanges = 1
    MaxDeployments = 2
    ChannelCap = 2
SPECIFICATION Spec
INVARIANTS
    OfferedIsRecorded
    ReconcileNeverIntroduces
CHECK_DEADLOCK FALSE
