SPECIFICATION ManualTrialsSpec
CONSTANTS
    Aheads = {1}
    MaxAhead = 1
    MaxRow = 0
    MaxTraj = 2
    MaxQueue = 4
    Tags <- MCTags
    AutoRuns = FALSE
    OneShot = FALSE
    MaxEpoch = 2
    MaxSeq = 3
    Digits = {"1"}
    MaxLines = 3
    MaxKeys = 2
    MaxStarts = 2
    MaxRotations = 1
INVARIANTS ManualInOrder NoSubstepLost ResumeAgrees ScoredInOrder MissesBelong
CHECK_DEADLOCK FALSE
