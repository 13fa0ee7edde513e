SPECIFICATION DispatchSpec
CONSTANTS
    Lower = 0
    Upper = 4
    Targets <- MCTargets
    Subs <- MCSubs
    Paths <- MCPaths
    MaxJointStep = 2
    RampJointStep = 1
    HomeJointStep = 1
    MaxJointJump = 3
    SafeRegion <- MCSafeRegion
    MaxQueue = 4
PROPERTIES NeverOverCap
