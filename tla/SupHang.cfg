SPECIFICATION Spec
CONSTANTS
    p1 = p1
    p2 = p2
    d1 = d1
    w1 = w1
    w2 = w2
    Procs = {p1, p2}
    Drains = {d1}
    Workers = {w1, w2}
    None = None
    MaxRestarts = 1
    MaxFailures = 2
    MaxRecoveries = 1
    Faults = {"crash", "nostart", "spawn", "firstspawn", "hang", "slow", "race"}
SYMMETRY Symmetry
INVARIANTS
    OneEncoder
CHECK_DEADLOCK FALSE
