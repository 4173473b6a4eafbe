SPECIFICATION FairSpec
CONSTANTS
    p1 = p1
    p2 = p2
    d1 = d1
    d2 = d2
    w1 = w1
    Procs = {p1, p2}
    Drains = {d1, d2}
    Workers = {w1}
    None = None
    MaxRestarts = 5
    MaxFailures = 1
    MaxRecoveries = 2
    Faults = {"hang"}
PROPERTIES
    StallIsReplaced
CHECK_DEADLOCK FALSE
