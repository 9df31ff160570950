CONSTANTS
    Text <- MCText
    Empty = ""
    Trim <- MCTrim
    Usable <- MCUsable
    MaxRoutes = 3
    Enrolments <- MCEnrolments
    Extras <- MCExtras
    Lists <- MCLists
SPECIFICATION Spec
INVARIANTS
    RoutesNormal
    FileFollowsMemory
PROPERTIES
    FirstRouteSticky
    StartKeepsRoutes
