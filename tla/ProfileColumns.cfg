SPECIFICATION Spec
CONSTANTS
    m1 = m1
    m2 = m2
    p1 = p1
    j1 = j1
    Modes <- MCModes
    MaxInt32 = 20
    Posts = {p1}
    Uploads = {j1}
    Payments <- MCPayments
    Moments <- MCMoments
    Lines <- MCLines
    BatchSize = 2
    MaxRows = 6
CHECK_DEADLOCK FALSE
INVARIANTS
    TypeOK
    HabitIsAllowed
    HoursOfOneDayAreUsual
    EstablishedHasHabit
    FilesAreAllowed
