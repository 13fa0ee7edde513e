SPECIFICATION Spec
CONSTANTS
    Aheads = {1}
    MaxAhead = 1
    MaxRow = 1
    MaxTraj = 2
    MaxQueue = 2
    Tags <- MCTags
    AutoRuns = TRUE
    OneShot = FALSE
    MaxEpoch = 2
    MaxSeq = 0
PROPERTIES NothingQueuedWhileLatched
CHECK_DEADLOCK FALSE
