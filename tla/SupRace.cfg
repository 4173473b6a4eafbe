SPECIFICATION Spec
CONSTANTS
    p1 = p1
    p2 = p2
    d1 = d1
    d2 = d2
    w1 = w1
    w2 = w2
    Procs = {p1, p2}
    Drains = {d1, d2}
    Workers = {w1, w2}
    None = None
    MaxRestarts = 2
    MaxFailures = 2
    MaxRecoveries = 1
    Faults = {"crash", "race"}
SYMMETRY Symmetry
INVARIANTS
    OneEncoderPerTower
CHECK_DEADLOCK FALSE
