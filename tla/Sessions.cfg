SPECIFICATION Spec
CONSTANTS
    Users = {u, v}
    Devices = {d1, d2}
    Calls = {c1, c2}
    MaxTime = 1
    MaxHeld = 4
    Faults = TRUE
    Empty = Empty
    Null = Null
    None = None
CONSTRAINT HeldBound
SYMMETRY Symmetry
INVARIANTS TypeOK OutStaysOut SpentIsRefused TokensNameOwner
CHECK_DEADLOCK FALSE
