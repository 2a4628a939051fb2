\* Two changes side by side, or one next to a write by somebody else, and one fault.
CONSTANTS
    NumAgents = 2
    NumChanges = 2
    Groups = {g1}
    Configs = {c1}
    Handlers = {h1, h2}
    Selections <- MCSelections
    MaxFaults = 1
    MaxRequests = 2
    NoGroup = NoGroup
    None = None
SPECIFICATION Spec
SYMMETRY Symmetry
INVARIANTS
    ExecutedOnce
    
    RestoredConfiguration
CHECK_DEADLOCK FALSE
