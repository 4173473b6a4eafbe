SPECIFICATION FairSpec
CONSTANTS
    i1 = i1
    i2 = i2
    i3 = i3
    Intents = {i1, i2, i3}
    NoId = NoId
    Faults = {}
INVARIANTS
    ReportMatchesAir
    NeverCutOff
PROPERTIES
    OnAirUntilClosed
CHECK_DEADLOCK FALSE
