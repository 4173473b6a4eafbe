SPECIFICATION FairSpec
CONSTANTS
    r1 = r1
    h1 = h1
    h2 = h2
    o1 = o1
    Regular = {r1}
    Holiday = {h1, h2}
    Own = {r1}
    Intros = {}
    Outros = {o1}
    Ids = {"legal", "generic"}
    Boot = Boot
    Announcement = Announcement
    None = None
    LegalIdInterval = 3
    GenericIdMin = 1
    MaxTalkSilence = 2
    MaxHistory = 1
    HistorySize = 2
    SavedHistory = 1
    CooldownLen = 1
INVARIANTS
    SpacingKept
    HistoriesAgree
PROPERTIES
    NextSongIsFit
    LegalIdReturns
