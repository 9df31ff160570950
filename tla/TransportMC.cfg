CONSTANTS
    A = A
    B = B
    Junk = Junk
    NoText = NoText
    Text <- MCText
    Empty = NoText
    Trim <- MCTrim
    Usable <- MCUsable
    MaxRoutes = 2
    Enrolments <- MCJunkEnrolments
    Extras <- MCExtras
    Lists <- MCAllLists
    Answering <- MCEitherB
    Malformed <- MCNone
    MaxLevel = 2
SPECIFICATION FairSpec
INVARIANTS
    RejectionIsUnanimous
    NoBusyLoop
    BackoffAfterContact
PROPERTIES
    RoundsAreVotes
    ListHasHistory
    WorkingRouteIsReached
    WebSocketIsHeld
    SignalEndsProcess
CHECK_DEADLOCK FALSE
