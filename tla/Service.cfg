SPECIFICATION Spec
CONSTANTS
    u1 = u1
    u2 = u2
    p1 = p1
    p2 = p2
    j1 = j1
    j2 = j2
    Users <- TwoUsers
    Posts <- OnePost
    Uploads <- OneUpload
    Window = 2
    DayTicks = 1
    Skew = 0
    Castable = {TRUE}
    FaultyCalls = {"createTransaction"}
    MaxRows = 2
    MaxNow = 1
    BatchSize = 1
    MaxLines = 1
    FileTimes = {0}
    MaxCrashes = 1
SYMMETRY Customers
INVARIANTS
    TypeOK
    UploadAccounting
    SettledUploadsCounted
    ProfilesAreSnapshots
PROPERTIES
    LedgerSpec
