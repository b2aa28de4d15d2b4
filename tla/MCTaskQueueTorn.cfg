SPECIFICATION Spec
CONSTANTS
    TaskIds <- MCTaskIds
    Workers = {w1}
    Keys = {k1}
    NULL = NULL
    HeartbeatTimeout = 0
    RuntimeTimeout = NULL
    Torn <- MCTornUpdates
    MaxNow = 1
    BeatsUntil = 1
    MaxClaims = 2
INVARIANTS AckedIsDurable KeyLeadsToItsTask
CHECK_DEADLOCK FALSE
