CONSTANTS
    Text <- MCText
    Empty = ""
    Trim <- MCTrim
    Usable <- MCUsable
    MaxRoutes = 2
    MCLength = 5
    Inputs <- MCInputs
SPECIFICATION LoopSpec
INVARIANTS
    LoopIsSetEndpoints
    SavedListIsStable
CHECK_DEADLOCK FALSE
