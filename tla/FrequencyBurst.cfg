SPECIFICATION Spec
CONSTANTS
    u1 = u1
    u2 = u2
    p1 = p1
    p2 = p2
    j1 = j1
    j2 = j2
    Users <- OneUser
    Posts <- TwoPosts
    Uploads <- NoOne
    Window = 2
    DayTicks = 3
    Skew = 0
    Castable = {TRUE}
    FaultyCalls = {}
    MaxRows = 3
    MaxNow = 2
    BatchSize = 2
    MaxLines = 3
    FileTimes = {0}
    MaxCrashes = 0
INVARIANTS
    EachTransactionAdds
