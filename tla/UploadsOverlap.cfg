SPECIFICATION Spec
CONSTANTS
    u1 = u1
    u2 = u2
    p1 = p1
    p2 = p2
    j1 = j1
    j2 = j2
    Users <- OneUser
    Posts <- NoOne
    Uploads <- TwoUploads
    Window = 2
    DayTicks = 9
    Skew = 0
    Castable = {TRUE}
    FaultyCalls = {}
    MaxRows = 2
    MaxNow = 0
    BatchSize = 2
    MaxLines = 1
    FileTimes = {0}
    MaxCrashes = 0
INVARIANTS
    SettledUploadsCounted
