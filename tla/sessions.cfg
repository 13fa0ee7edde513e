SPECIFICATION SessionsSpec
CONSTANTS
    Cams = {"head"}
    MaxSessions = 2
    MaxRows = 1
    QueueMax = 2
INVARIANTS NoStaleFrame PinsHold PanelInStep OneThread NoBacklog DeadMan
PROPERTIES DeadProducerSeen SilenceStops JoinReturns
