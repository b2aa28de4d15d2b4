SPECIFICATION Spec
CONSTANTS
    N = 3
    Keyed = {1}
    Needs <- MCNeeds
    MaxRuns = 2
INVARIANTS VerifiedFactsHold
CHECK_DEADLOCK FALSE
