SPECIFICATION Spec
CONSTANTS
    Challenges = {h}
    Calls = {c1, c2, c3, c4}
    MaxAttempts = 3
    Faults = TRUE
    None = None
SYMMETRY Symmetry
INVARIANTS GuessesBounded RefusedForCause CodeExpires
CHECK_DEADLOCK FALSE
