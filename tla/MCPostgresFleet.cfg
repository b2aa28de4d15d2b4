SPECIFICATION FairFleetSpec
CONSTANTS
    r1 = r1
    r2 = r2
    w1 = w1
    w2 = w2
    NULL = NULL
    TaskIds <- MCOneTask
    Workers = {w1, w2}
    Runners = {r1, r2}
    Reapers = {s1}
    Sessions = {r1, r2, s1}
    WorkerOf <- MCDistinct
    Keys = {}
    RetryLimits <- MCOneOrTwo
    LeaseSeconds = 1
    MaxSkew = 0
    MaxNow = 9
    MaxClaims = 3
    MaxResumes = 1
    SlackUntil = 2
INVARIANTS AttemptBudget
PROPERTIES EveryTaskSettles StaleWorkerCannotFinish
CHECK_DEADLOCK FALSE
