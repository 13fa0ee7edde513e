SPECIFICATION Spec
CONSTANTS
    Aheads <- MCAheads
    MaxAhead = 2
    MaxRow = 4
    MaxTraj = 4
    MaxQueue = 4
    Tags = {"t"}
    ChunkLen = 3
    Radii = {0, 1, 3}
    Depths = {1, 2}
INVARIANTS
    StreamOrder
    CursorTruthful
    PendingIsFrozen
    RunSpansSeam
PROPERTIES
    StreamSpec
