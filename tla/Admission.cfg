SPECIFICATION FairSpec
CONSTANTS
    Threshold = 2
    LossTicks = 2
    GraceTicks = 3
    Late = FALSE
INVARIANTS
    LossIsNoticed
    ProgramIsEarned
    EveryTickFed
PROPERTIES
    SoundSettles
