SPECIFICATION ComponentsSpec
CONSTANTS
    a = a
    b = b
    c = c
    d = d
    Slots = {a, b, c, d}
    Bytes <- MCBytes
    MaxBytes = 3
    Limit = 5

    Cohort <- MCCohort
    CaptureNames <- MCNames
    DTypes = {1, 2}
    Dimensions = {0, 1, 2}
    Vectors <- MCVectors
    Noise = {0, 1, 2, 7, 8, 9}
    MaxRecords = 2
    MaxDropped = 1

    Ulids = {1, 2, 3}
    PartStart <- MCPartStart
    Width = 2
    Duration = 4
    MaxEnd = 8
    Hashes = {1, 2, 3}
    TrainHashes = {1, 2}
    EfGrid <- MCEfGrid
    Num = 1
    Den = 2
    Selection = 7
    Approval = 6
    GtKeys <- MCGtKeys
    Answers <- MCAnswers
    Value = 2
    MaxSamples = 3

    Characters = {"w", "=", ".", "/", "?", "e'"}
    Allowed = {"w", "=", "."}
    Marker <- MCMarker
    CharBytes <- MCCharBytes
    LongestName = 5
    MostSegments = 2
    LongestSegment = 3
    MaxTyped = 5

    Segments = {"a", "ab", "", ".", "..", "w0", "w1", "?", "long"}
    SegmentBytes <- MCSegmentBytes
    Dots = {".", ".."}
    Windows = {"w0", "w1"}
    Foreign = {"?"}
    OpenWindows = {"w0", "w1"}
    MaxNameBytes = 5
    MaxSegments = 2
    MaxSegmentBytes = 2
    MaxObjects = 3

    BaseConfig <- MCConfig
    FieldValues <- MCFieldValues
    Malformed = {"a4"}
    RoundEnd = 360
    MaxEdits = 2

    BucketSeconds = 2
    MaxIdleZeroUpdates = 1
    Target = 1
    Buckets = 5
    MaxCalls = 3

    WindowWidth = 2520
    LastYear = 2110

    Interval = 5
    ClientTimeout = 2
    StatementTimeout = 3
    CloseTimeout = 1
    Rest = 2
    CohortsPerRound = 2
    SamplesPerCohort = 1
    Statements = 2

    Frames = 3
    FrameBytes <- MCFrameBytes
    MaxQueueBytes = 4
    MaxBatchBytes = 2
    MaxStarts = 2
    MaxStops = 2
    Callers = {a1, a2}
    Sockets = {s1, s2}
    NoSocket = NoSocket
INVARIANTS
    SegmentsReadBack
    PopulationIsExact VerdictIsSound
    GrammarsAgree
    NamesKeptApart
    AcceptedRuns
    LazyRolloverIsExact
    WindowNamesExact
    DatabaseSpared RoundsOnGrid
    QueueExact LifecycleClean
PROPERTIES
    ImplementsBudget FreshIsEarned
    DaemonProgresses
    FramesWholeInOrder SenderHeedsStop
CHECK_DEADLOCK FALSE
