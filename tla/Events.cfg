SPECIFICATION FairSpec
CONSTANTS
    c1 = c1
    i1 = i1
    i2 = i2
    Clients = {c1}
    Readers = {c1}
    Posts = {"station_shutdown", "song_playing"}
    SongOnly = {c1}
    Ingests = {i1, i2}
    NoClient = NoClient
    FrameBytes = 2
    SendBuffer = 3
INVARIANTS
    RegistryIsTrue
    EventsReachAll
PROPERTIES
    OnlyStalledAreDropped
    IdleIsKept
    IngestAnswered
    GoneAreForgotten
CHECK_DEADLOCK FALSE
