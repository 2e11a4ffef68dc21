SPECIFICATION Spec
CONSTANTS
    e1 = e1
    w1 = w1
    w2 = w2
    t1 = t1
    t2 = t2
    r1 = r1
    r2 = r2
    Emails <- MCEmails
    Passwords <- MCPasswords
    Tokens <- MCTokens
    Requests <- MCRequests
    TokenLife = 4
    SecondTicks = 4
    MsTicks = 2
    Outages = {"database", "redis"}
    MaxClock = 5
SYMMETRY Interchangeable
INVARIANTS
    TypeOK
    LogoutEndsSession
    RefusalHasReason
    SignupIsKept
PROPERTIES
    OverIsOver
