SPECIFICATION Spec
CONSTANTS
    Cohorts = {1}
    Parts <- MCOnePart
    PartCohort <- MCOnePartCohort
    PartWindow <- MCOnePartWindow
    EmptyParts = {}
    Configs <- MCTwoConfigs
    WindowSeconds = 2
    DurationSeconds = 2
    FaultKinds = {}
    MaxTime = 4
    MaxRounds = 2
    MaxFaults = 0
    MaxStarts = 2
    None = None
INVARIANTS
    NeverForAnotherIndex
CHECK_DEADLOCK FALSE
