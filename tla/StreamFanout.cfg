SPECIFICATION FairSpec
CONSTANTS
    c1 = c1
    c2 = c2
    Clients = {c1, c2}
    Readers = {c1}
    NoClient = NoClient
    MaxClients = 1
    FrameBytes = 2
    SendBuffer = 2
    QueueSize = 2
    Frames = 2
INVARIANTS
    RegistryIsTrue
PROPERTIES
    StreamUnbroken
    OnlySlowAreDropped
    LostAreForgotten
    ReaderGoesOn
CHECK_DEADLOCK FALSE
