CONSTANTS
    Conns = {c1, c2, c3}
    Cohorts = {k1}
    Names = {k1}
    Asked = {k1, k2}
    Artifacts <- MCPresence
    MaxConcurrentRequests = 2
    LookupTimeout = 1
    RequestHeadTimeout = 1
    ShutdownDrainTimeout = 2
    CacheTTL = 2
    CoalesceTTL = 1
    MaxPublish = 1
    Horizon = 4
    Threads = {t1, t2}
    AnswerStaleness = 2
    MaxCohorts = 1
    ClientTTL = 2
    MaxFetch = 2
SPECIFICATION RecommendationSpec
INVARIANTS AnswersFresh DrainCutsNoEarlierLookup ServedFresh
PROPERTY ServerStops
