SPECIFICATION Spec
CONSTANTS
    m1 = m1
    m2 = m2
    m3 = m3
    m4 = m4
    alice = alice
    bob = bob
    c1 = c1
    c2 = c2
    Changes = {m1, m2}
    Users = {alice, bob}
    UserOf <- MCUserOf
    ChatOf <- MCChatOf
    Made <- MCMade
    Clients = {c1}
    ClientUser <- MCClientUser
    Limit = 2
    Faults = FALSE
INVARIANT CursorCoversLog
CHECK_DEADLOCK FALSE
