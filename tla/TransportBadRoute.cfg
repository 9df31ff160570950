CONSTANTS
    A = A
    B = B
    Junk = Junk
    NoText = NoText
    Text <- MCText
    Empty = NoText
    Trim <- MCTrim
    Usable <- MCUsable
    MaxRoutes = 2
    Enrolments <- MCBothEnrolments
    Extras <- MCExtras
    Lists <- MCBothLists
    Answering <- MCWebSocketB
    Malformed <- MCMalformedA
    MaxLevel = 2
SPECIFICATION FairSpec
PROPERTY
    WorkingRouteIsReached
CHECK_DEADLOCK FALSE
