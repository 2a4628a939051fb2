\* Versions of one group, written by an administrator, an operator and a group owner.
CONSTANTS
    ann = ann
    bob = bob
    cyn = cyn
    g1 = g1
    Users = {ann, bob, cyn}
    Role <- Roles
    Groups = {g1}
    RolesIn <- MCRolesIn
    Enabled = {g1}
    Agents = {a1}
    Reports <- MCReports
    Default <- MCDefault
    Edits <- MCEdits
    Texts <- MCTexts
    ConfigNames = {"base"}
    Versions = {1, 2}
    Keys = {"k1"}
    Value <- MCValue
    Shipped <- MCShipped
    Offered <- MCOffered
    Publishable <- MCPublishable
    Handlers = {h1}
    Submitters = {s1, s2}
    MaxRows = 2
    MaxChanges = 1
    Migrants = {bob}
    Policed = {"receivers", "service_pipelines"}
    Definitions <- MCDefinitions
    Overlays <- MCOverlays
    MaxPreviews = 2
SPECIFICATION PackageSpec
INVARIANTS
    LockedSectionsStand
    VersionsResolve
    MigrationKeeps
    HandoffsAreExact
CHECK_DEADLOCK FALSE
