SPECIFICATION Spec
CONSTANTS
    Plans = {v1}
    Base = Base
    Bundles = {b1, b2}
    Applies = {a1, a2}
    ShaGuarded = {}
    Decisions = {"approve"}
    ExpiresIn = 0
    NULL = NULL
    MaxNow = 0
INVARIANTS ReviewSurvives
CHECK_DEADLOCK FALSE
