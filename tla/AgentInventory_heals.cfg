\* The event loop next to a request or a retirement, with a failed save and a restart.
CONSTANTS
    Loop = loop
    Retirer = retirer
    Handlers = {h1}
    Groups = {g1}
    RuleGroup = g1
    Running = {loop, h1, retirer}
    MaxRequests = 1
    MaxCloses = 1
    MaxFaults = 1
    QueueCap = 1
    Absent = Absent
    Empty = Empty
    Torn = Torn
SPECIFICATION FairSpec
INVARIANTS
    ConnectedIsHeard
PROPERTIES
    PresenceHeals
CHECK_DEADLOCK FALSE
