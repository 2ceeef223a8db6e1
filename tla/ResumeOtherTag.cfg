SPECIFICATION Spec
CONSTANTS
    Jobs = {"cascade"}
    Models = {m1, m2}
    Tags = {"A", "B"}
    NRounds = 2
    ChildJudges = TRUE
    JudgeFrom = 2
    MaxPhases = 2
    Entrants = {m1, m2}
    NEntries = 3
    ModelOf <- MCModelOf
    Concurrency = 2
    Tasks = {t1, t2}
    Keys = {k1, k2}
    MaxCandidates = 5
    Families = {f1, f2}
    Names = {"a", "b", "c"}
    NoParent = NoParent
    MaxStages = 3
    MaxOutput = 2
    MinContext = 2
    Penalty = 115
    Requests <- MCRequests
    EndpointLists <- MCEndpointLists
    StageOps <- MCStageOps
    Profile <- MCProfile
    Ops = {o1, o2, o3}
    Closers = {c1}
    Processes = {p1, p2}
    Build <- MCBuild
    Callers = {q1, q2, q3}
    ProcessOf <- MCProcessOf
    MaxConnections = 1
INVARIANT ResumedIsRanked
CHECK_DEADLOCK FALSE
