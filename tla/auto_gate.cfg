SPECIFICATION FairSpec
CONSTANTS
    Ahead = 1
    Lock = 2
    MaxRow = 1
    MaxGrasp = 1
    Monitors = {"pkg"}
    Switches = {"pkg"}
    CommitCount = 1
    AbsentToPause = 1
    PresentToResume = 2
INVARIANT PausedQueueEmpty
PROPERTIES AutoDisarms StopReturns PauseDropped
