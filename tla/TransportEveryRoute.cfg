CONSTANTS
    A = A
    B = B
    Junk = Junk
    NoText = NoText
    Text <- MCText
    Empty = NoText
    Trim <- MCTrim
    Usable <- MCUsable
    MaxRoutes = 2
    Enrolments <- MCEnrolments
    Extras <- MCExtras
    Lists <- MCLists
    Answering <- MCNone
    Malformed <- MCNone
    MaxLevel = 2
SPECIFICATION Spec
INVARIANT
    EveryKnownRouteRefused
