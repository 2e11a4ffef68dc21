SPECIFICATION Spec
CONSTANTS
    u1 = u1
    u2 = u2
    p1 = p1
    p2 = p2
    j1 = j1
    j2 = j2
    Users <- OneUser
    Posts <- OnePost
    Uploads <- NoOne
    Window = 2
    DayTicks = 2
    Skew = 0
    Castable = {TRUE}
    FaultyCalls = {}
    MaxRows = 3
    MaxNow = 3
    BatchSize = 2
    MaxLines = 3
    FileTimes = {0}
    MaxCrashes = 0
INVARIANTS
    NightlyUpdatesCounts
