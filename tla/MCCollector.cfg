SPECIFICATION Spec
CONSTANTS
    f1 = f1
    f2 = f2
    f3 = f3
    f4 = f4
    big = big
    small = small
    c1 = c1
    c2 = c2
    Conns = {c1, c2}
    Frames = {f1, f2, f4}
    Cohorts = {big, small}
    CohortOf <- MCCohort
    RecordBytes <- MCBytes
    MaxRecordBytes = 3
    ChannelCapacity = 1
    PerCohortMemoryBytes = 3
    SegmentOverheadBytes = 1
    GlobalMemoryBytes = 9
    MaxConnections = 2
    WindowSeconds = 2
    StartTime = 1
    MaxTime = 2
    MaxAdjust = 0
    WriterMayPanic = FALSE
    NoFrame = NoFrame
    NoBatch = NoBatch
SYMMETRY Interchangeable
INVARIANTS
    TypeOK
    MemoryIsExact
    MemoryWithinGlobal
    FramesAccountedOnce
    DrainedAtExit
