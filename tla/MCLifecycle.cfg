SPECIFICATION FairSpec
CONSTANTS
    r1 = r1
    r2 = r2
    Requests <- TwoRequests
    Drain = 2
    Timeout = 3
    MaxTime = 3
INVARIANTS
    TypeOK
    ExitIsHonest
    CutOnlyAfterDrain
    ShortWaitsAnswered
PROPERTIES
    EndsWhenAsked
