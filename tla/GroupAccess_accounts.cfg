\* Two administrators' requests at once, any of which a restart or a failed
\* statement may cut short.
CONSTANTS
    Users = {u1, u2}
    Groups = {g1, g2}
    Absent = absent
    Handlers = {h1, h2}
    RoleSets <- MCRoleSets
    Selectors <- MCSelectors
    Collectors <- MCCollectors
    MaxRequests = 2
    MaxFaults = 1
SPECIFICATION Spec
INVARIANTS
    AdministratorRemains
    GroupIDsMatch
    OverlapNeedsRace
SYMMETRY Symmetry
CHECK_DEADLOCK FALSE
