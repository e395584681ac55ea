SPECIFICATION Spec
CONSTANTS
    Challenges = {h}
    Calls = {c1, c2}
    MaxAttempts = 3
    Faults = FALSE
    None = None
INVARIANT ConsumedOnce
CHECK_DEADLOCK FALSE
