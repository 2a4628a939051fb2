\* One proposal on its way to the outbox, with two handlers.
CONSTANTS
    ann = ann
    bob = bob
    g1 = g1
    Agents = {a1}
    Reports <- MCReports
    Groups = {g1}
    Ruled = {g1}
    Specs <- MCSpecs
    Connections <- MCConnections
    Decisions = {"approved", "rejected", "sent_back"}
    Users = {ann, bob}
    InitRank <- Accounts
    NewRanks <- MCNewRanks
    Handlers = {h1, h2}
    MaxRequests = 1
    MaxValidations = 1
    MaxTests = 2
    MaxChanges = 1
    MaxCrashes = 1
SPECIFICATION Spec
SYMMETRY Symmetry
INVARIANTS
    QueuedIsApproved
    QueuedOnce
    QueuedTargetsFit
CHECK_DEADLOCK FALSE
