SPECIFICATION FairSpec
CONSTANTS
    N = 3
    Keyed = {1}
    Needs <- MCNeeds
    MaxRuns = 3
INVARIANTS UndoneOrReported VerifiedStepsStand KeyedStepsVerifyOnce FirstRunOutcome
PROPERTIES ExecutionEnds
CHECK_DEADLOCK FALSE
