SPECIFICATION FairSpec
CONSTANTS
    Aheads = {1}
    MaxAhead = 1
    MaxRow = 1
    MaxTraj = 2
    MaxQueue = 2
    Tags <- MCTags
    AutoRuns = TRUE
    OneShot = TRUE
    MaxEpoch = 2
    MaxSeq = 1
INVARIANTS
    HaltsWithinOneWaypoint
    OneLateAppend
PROPERTIES
    EStopSettles
CHECK_DEADLOCK FALSE
