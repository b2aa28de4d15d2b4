SPECIFICATION FairSpec
CONSTANTS
    TaskIds <- MCTaskIds
    Workers = {w1}
    Keys = {}
    NULL = NULL
    HeartbeatTimeout = 1
    RuntimeTimeout = 2
    Torn = {}
    MaxNow = 6
    BeatsUntil = 1
    MaxClaims = 1
PROPERTIES OrphansTimeOut FollowsLifecycle
CHECK_DEADLOCK FALSE
