SPECIFICATION ClientSpec
CONSTANTS
    Cohorts = {k1}
    Names = {k1}
    Asked = {k1, k2, k3}
    Artifacts <- MCArtifacts
    MaxPublish = 2
    Horizon = 4
    Threads = {t1, t2}
    AnswerStaleness = 2
    MaxCohorts = 1
    ClientTTL = 2
    MaxFetch = 2
SYMMETRY ThreadSymmetry
INVARIANT CacheWithinMaximum
