SPECIFICATION FairSpec
CONSTANTS
    w1 = w1
    w2 = w2
    Workers = {w1, w2}
    None = None
    Capacity = 1
    MaxSegments = 2
    MaxFrames = 2
    Faults = {"error", "hang", "slow"}
INVARIANTS
    OneDecoder
    FinishedIsHandedOver
PROPERTIES
    ImplementsTape
    WaitsEnd
CHECK_DEADLOCK FALSE
