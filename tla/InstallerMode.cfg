SPECIFICATION Spec
CONSTANTS
    MaxInstalls = 1
    MaxTries = 3
INVARIANT
    ModeRequestedRuns
CHECK_DEADLOCK FALSE
