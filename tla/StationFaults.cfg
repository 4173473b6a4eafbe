SPECIFICATION FairSpec
CONSTANTS
    i1 = i1
    i2 = i2
    i3 = i3
    Intents = {i1, i2, i3}
    NoId = NoId
    Faults = {"think", "decode", "empty", "timeout"}
INVARIANTS
    OneBreakInQueue
    SignOffIsLast
PROPERTIES
    BreaksAreAired
    ImplementsBroadcast
    StopEnds
CHECK_DEADLOCK FALSE
