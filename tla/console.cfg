SPECIFICATION FairSpec
CONSTANTS
    Workers = {"w"}
    Looper = "auto"
    Callers <- MCCallers
    MaxSim = 2
    N = 2
    MaxPolls = 1
INVARIANTS
    RowsInStep
    TunedOutsideCycle
PROPERTIES
    TkComesBack
\* The auto loop may wait for a job of a preview that was closed by hand while
\* Tk joins it: then nothing moves (see README.md).
CHECK_DEADLOCK FALSE
