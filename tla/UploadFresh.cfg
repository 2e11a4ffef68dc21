SPECIFICATION ReadSpec
CONSTANTS
    u1 = u1
    u2 = u2
    p1 = p1
    p2 = p2
    j1 = j1
    j2 = j2
    c1 = c1
    Users <- OneUser
    Posts <- NoOne
    Uploads <- OneUpload
    Window = 2
    DayTicks = 9
    Skew = 0
    Castable = {TRUE}
    FaultyCalls = {}
    MaxRows = 4
    MaxNow = 0
    BatchSize = 2
    MaxLines = 4
    FileTimes = {1, 2}
    MaxCrashes = 0
    Readers <- OneReader
    Limits = {0, 1, 4}
    DefaultLimit = 2
    Int32Size = 8
INVARIANTS
    BulkProfileFresh
    PagesMissNothing
    QuietPagesRepeatNothing
