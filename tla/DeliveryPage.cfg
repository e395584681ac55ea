SPECIFICATION FairSpec
CONSTANTS
    phone = phone
    tablet = tablet
    alice = alice
    bob = bob
    Requests = {r1}
    Devices = {phone, tablet}
    Users = {alice, bob}
    UserOf <- MCUserOf
    MaxMsgs = 2
    PageSize = 1
    Ops = {"send", "group", "forward", "fetch", "ack"}
    Routes <- ToBob
    Guests = {}
    Online = {phone, tablet}
    Faults = FALSE
    None = None
INVARIANT OkMeansStored
PROPERTY MailboxDrains
CHECK_DEADLOCK FALSE
