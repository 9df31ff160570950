SPECIFICATION FairSpec
CONSTANTS
    MaxInstalls = 1
    MaxTries = 3
INVARIANTS
    TypeOK
    RollbackRestores
    BindingKept
    NothingRunsMixed
    IncomingServes
PROPERTIES
    InstallationEnds
CHECK_DEADLOCK FALSE
