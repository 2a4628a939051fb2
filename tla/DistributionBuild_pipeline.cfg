\* One plan from its creation to its release, with two publishers.
CONSTANTS
    NumPlans = 1
    Admins = {a1, a2}
    Requesters = {a1}
    RetryHandlers = {h1, h2}
    Publishers = {w1, w2}
    MaxAutomatic = 2
    MaxRetries = 2
    MaxFaults = 1
    Nobody = Nobody
SPECIFICATION DistributionFairSpec
INVARIANTS
    BuildsAreAuthorised
    PublicationsAreAuthorised
PROPERTIES
    RetryRuns
    PublicationEnds
CHECK_DEADLOCK FALSE
