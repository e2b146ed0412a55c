SPECIFICATION Spec
CONSTANTS
    Cohorts = {1}
    Parts <- MCOnePart
    PartCohort <- MCOnePartCohort
    PartWindow <- MCOnePartWindow
    EmptyParts = {}
    Configs <- MCOneConfig
    WindowSeconds = 2
    DurationSeconds = 2
    FaultKinds = {"body"}
    MaxTime = 4
    MaxRounds = 2
    MaxFaults = 1
    MaxStarts = 1
    None = None
PROPERTIES
    EffectiveNotLost
CHECK_DEADLOCK FALSE
