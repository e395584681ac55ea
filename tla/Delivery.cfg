SPECIFICATION Spec
CONSTANTS
    phone = phone
    tablet = tablet
    alice = alice
    bob = bob
    Requests = {r1, r2}
    Devices = {phone, tablet}
    Users = {alice, bob}
    UserOf <- MCUserOf
    MaxMsgs = 1
    PageSize = 1
    Ops = {"send", "group", "fetch", "ack"}
    Routes <- ToBob
    Guests = {tablet}
    Online = {phone, tablet}
    Faults = TRUE
    None = None
SYMMETRY Symmetry
INVARIANTS TypeOK HeardIsStored OkMeansStored ReceiptIsTrue
PROPERTIES RowsOnlyGain ImplementsMailbox
CHECK_DEADLOCK FALSE
