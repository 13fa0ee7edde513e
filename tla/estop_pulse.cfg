SPECIFICATION Spec
CONSTANTS
    Ahead = 1
    Lock = 2
    MaxRow = 1
    MaxGrasp = 1
    Monitors = {"flip"}
    Switches = {}
    CommitCount = 1
    AbsentToPause = 1
    PresentToResume = 1
PROPERTY NoSilentResume
