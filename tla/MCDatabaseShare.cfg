SPECIFICATION ShareSpec
CONSTANTS
    Interval = 3
    ClientTimeout = 2
    StatementTimeout = 2
    CloseTimeout = 1
    Rest = 2
    CohortsPerRound = 1
    SamplesPerCohort = 1
    Statements = 2
    MaxBacklog = 6
INVARIANT BackendWithinShare
CHECK_DEADLOCK FALSE
