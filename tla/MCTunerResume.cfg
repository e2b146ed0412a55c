SPECIFICATION Spec
CONSTANTS
    Cohorts = {1}
    Parts <- MCOnePart
    PartCohort <- MCOnePartCohort
    PartWindow <- MCOnePartWindow
    EmptyParts = {}
    Configs <- MCAllConfigs
    WindowSeconds = 2
    DurationSeconds = 2
    FaultKinds = {"store"}
    MaxTime = 2
    MaxRounds = 4
    MaxFaults = 2
    MaxStarts = 3
    None = None
INVARIANTS
    PairsFromOneAttempt
    EffectiveConsistent
    HistoryFirst
PROPERTIES
    UsablePairsKept
    EffectiveNotLost
CHECK_DEADLOCK FALSE
