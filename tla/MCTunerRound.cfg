SPECIFICATION FairSpec
CONSTANTS
    Cohorts = {1, 2}
    Parts <- MCParts
    PartCohort <- MCPartCohort
    PartWindow <- MCTwoInAWindow
    EmptyParts = {3}
    Configs <- MCOneConfig
    WindowSeconds = 2
    DurationSeconds = 2
    FaultKinds = {"database"}
    MaxTime = 4
    MaxRounds = 2
    MaxFaults = 2
    MaxStarts = 1
    None = None
INVARIANTS
    TypeOK
    NoPartialRound
PROPERTIES
    RoundsEnd
    CachedCohortsPublish
CHECK_DEADLOCK FALSE
