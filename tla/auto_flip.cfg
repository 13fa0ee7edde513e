SPECIFICATION Spec
CONSTANTS
    Ahead = 1
    Lock = 3
    MaxRow = 4
    MaxGrasp = 2
    Monitors = {"nfp", "flip", "rec"}
    Switches = {}
    CommitCount = 1
    AbsentToPause = 1
    PresentToResume = 1
PROPERTY FlipMeasuresThisGrasp
