SPECIFICATION Spec
CONSTANTS
    Plans = {v1, v2}
    Base = Base
    Bundles = {b1, b2}
    Applies = {a1, a2}
    ShaGuarded = {v1}
    Decisions = {"approve", "narrow_scope"}
    ExpiresIn = 0
    NULL = NULL
    MaxNow = 1
INVARIANTS ApprovalUsedOnce OneApplyPerBundle ApprovedContentOnly ReplayIsHarmless RefusedLeavesNothing
SYMMETRY MCSymmetry
CHECK_DEADLOCK FALSE
