SPECIFICATION Spec
CONSTANTS
    f1 = f1
    f2 = f2
    f3 = f3
    f4 = f4
    big = big
    small = small
    c1 = c1
    c2 = c2
    Conns = {c1, c2}
    Frames = {f1, f2, f3}
    Cohorts = {big, small}
    CohortOf <- MCCohort
    RecordBytes <- MCBytes
    MaxRecordBytes = 2
    ChannelCapacity = 3
    PerCohortMemoryBytes = 3
    SegmentOverheadBytes = 1
    GlobalMemoryBytes = 8
    MaxConnections = 2
    WindowSeconds = 2
    StartTime = 1
    MaxTime = 1
    MaxAdjust = 0
    WriterMayPanic = FALSE
    NoFrame = NoFrame
    NoBatch = NoBatch
PROPERTY
    GlobalPressureFlushes
