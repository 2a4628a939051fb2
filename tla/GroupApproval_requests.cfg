\* One request next to changes of the group, a deployment without a request, a restart.
\* The content of c2 is delivered with its secrets.
CONSTANTS
    owner = owner
    admin = admin
    Users = {owner, admin}
    Agents = {a1}
    Configs = {c1, c2}
    Secret = {c2}
    NumRequests = 1
    Handlers = {h1, h2}
    Selectors = {s1}
    InitRank <- Roles
    NewRanks = {"disabled"}
    MaxChanges = 1
    MaxCrashes = 1
    Nobody = nobody
    None = None
SPECIFICATION FairSpec
INVARIANTS
    AttemptsAreApproved
    DeliveredOnce
    CompletedIsApplied
PROPERTIES
    RefinesDecision
    
CHECK_DEADLOCK FALSE
