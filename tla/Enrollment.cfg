CONSTANTS
    Keys = {k1, k2, k3}
    NoKey = NoKey
    Url <- MCUrl
    Clean <- MCClean
    Empty = ""
    Given <- MCGiven
    Answering <- MCAnswering
SPECIFICATION FairSpec
INVARIANTS
    TypeOK
    FileKeyIsBound
    TokenSpentForNothing
PROPERTY
    CalmEnrols
