SPECIFICATION LinksSpec
CONSTANTS
    Messages <- MCMessages
    MaxConns = 2
    MaxInbox = 1
    MaxRequests = 2
    MaxPlans = 1
    MaxPoses = 3
    MaxLinks = 3
    MaxWire = 2
    MaxLaunches = 2
    MaxPictures = 2
    MaxViews = 2
    MaxFrames = 2
INVARIANTS PlannedOnce OwnAnswer FreezeHolds
PROPERTIES DeadGuiDropped PosesInOrder NewestArrives
CHECK_DEADLOCK FALSE
