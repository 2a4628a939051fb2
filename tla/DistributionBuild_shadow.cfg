\* Two handlers of the retry form, without crashes.
CONSTANTS
    NumPlans = 1
    Admins = {a1, a2}
    Requesters = {a1}
    RetryHandlers = {h1, h2}
    Publishers = {w1}
    MaxAutomatic = 2
    MaxRetries = 2
    MaxFaults = 0
    Nobody = Nobody
SPECIFICATION DistributionFairSpec
PROPERTY EveryRetryRuns
CHECK_DEADLOCK FALSE
