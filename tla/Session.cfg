CONSTANTS
    MaxInbox = 2
SPECIFICATION FairSpec
INVARIANTS
    OutcomeIsThePanels
    PostNeverBlocks
PROPERTIES
    KeepsContract
    NoGoroutineLeft
    SessionEnds
