\* Two workers that take over from one another, two synchronisers.
CONSTANTS
    Workers = {w1, w2}
    Syncs = {s1, s2}
    Admin = admin
    Nobody = nobody
    Adapters = {"github", "noop"}
    MaxAttempts = 2
    MaxFaults = 1
    MaxReopens = 1
SPECIFICATION FairSpec
INVARIANTS
    LeaseNamesClaim
    WorkIsApproved
    TimelineIsTrue
PROPERTIES
    RefinesLifecycle
    Settles
    MergeNoticed
CHECK_DEADLOCK FALSE
