SPECIFICATION QueueSpec
CONSTANTS
    TaskIds <- MCOneTask
    Workers = {w1, w2}
    Sessions = {s1, s2}
    Keys = {k1}
    NULL = NULL
    LeaseSeconds = 2
    MaxSkew = 1
    RetryLimits <- MCOneOrTwo
    MaxNow = 4
    MaxClaims = 3
INVARIANTS LockMatchesStatus ClaimsAreExclusive
PROPERTIES FollowsLifecycle NoEarlyReclaim
SYMMETRY MCSymmetry
CHECK_DEADLOCK FALSE
