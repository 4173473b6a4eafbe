SPECIFICATION FairSpec
CONSTANTS
    p1 = p1
    p2 = p2
    d1 = d1
    d2 = d2
    w1 = w1
    Procs = {p1, p2}
    Drains = {d1, d2}
    Workers = {w1}
    None = None
    MaxRestarts = 2
    MaxFailures = 3
    MaxRecoveries = 2
    Faults = {"crash", "nostart", "spawn"}
INVARIANTS
    OneReader
    NoDeadEnd
PROPERTIES
    EncoderReturns
    StopEnds
CHECK_DEADLOCK FALSE
