SPECIFICATION FairSpec
CONSTANTS
    Links <- MCLinks
    NoLink = NoLink
    Requests = {r1, r2, r3}
    Slots = 2
    OpenTicks = 2
    BodyTicks = 2
    ProbeTicks = 5
    WriteTicks = 6
    NewTicks = 1
    GraceTicks = 1
INVARIANTS
    SlotsAreCounted
    ResultArrives
    StopIsClean
    InstancesVerify
PROPERTIES
    SlotComesBack
CHECK_DEADLOCK FALSE
