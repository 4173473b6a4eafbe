SPECIFICATION FairSpec
CONSTANTS
    Conns = {c1}
    None = None
    FrameBytes = 2
    PipeBytes = 2
    RecvBytes = 3
    QueueCapacity = 1
    RingCapacity = 1
    MaxFrames = 2
    Faults = {"crash", "death", "timeout"}
INVARIANTS
    FramesWhole
PROPERTIES
    ImplementsLink
    AudioReturns
    StopEnds
CHECK_DEADLOCK FALSE
