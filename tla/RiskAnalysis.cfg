SPECIFICATION Spec
CONSTANTS
    m1 = m1
    m2 = m2
    Modes <- MCModes
    MaxInt32 = 1000
    Profiles <- MCProfiles
    Amounts <- MCAmounts
    Counts <- MCCounts
INVARIANTS
    TypeOK
    ScoresOnScale
    BlockNeedsOutlierAndSpike
    ChallengeHasReason
    TrustedIsNeverChallenged
    BulkIsNeverBlocked
    TrustNeverHurts
    MoreIsNeverSafer
    UsualHoursWrap
