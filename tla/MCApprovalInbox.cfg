SPECIFICATION Spec
CONSTANTS
    Reviewers = {r1, r2}
    Allowed = {r1}
    MaxPackets = 2
INVARIANTS GrantIsApproved AcceptedIsReadable
CHECK_DEADLOCK FALSE
