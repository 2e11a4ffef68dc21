SPECIFICATION FairLifeSpec
CONSTANTS
    u1 = u1
    u2 = u2
    p1 = p1
    p2 = p2
    j1 = j1
    j2 = j2
    Users <- OneUser
    Posts <- OnePost
    Uploads <- OneUpload
    Window = 2
    DayTicks = 1
    Skew = 0
    Castable = {TRUE, FALSE}
    FaultyCalls = {"recalculate"}
    MaxRows = 1
    MaxNow = 1
    BatchSize = 2
    MaxLines = 2
    FileTimes = {0}
    MaxCrashes = 1
INVARIANTS
    NothingMeetsAClosedPool
PROPERTIES
    UploadsAreAnswered
    RebuildsEnd
    ShutdownEnds
