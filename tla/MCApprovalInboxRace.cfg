SPECIFICATION Spec
CONSTANTS
    Reviewers = {r1, r2}
    Allowed = {r1}
    MaxPackets = 1
INVARIANTS OneDecision
CHECK_DEADLOCK FALSE
