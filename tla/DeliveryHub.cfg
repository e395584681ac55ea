SPECIFICATION FairSpec
CONSTANTS
    a1 = a1
    a2 = a2
    b1 = b1
    phone = phone
    tablet = tablet
    alice = alice
    bob = bob
    Conns = {a1, a2}
    Callers = {s}
    Devices = {phone, tablet}
    Users = {alice, bob}
    Groups = {friends}
    DeviceOf <- MCDeviceOf
    UserOf <- MCUserOf
    ChanCap = 1
    None = None
INVARIANTS TypeOK IndexAgrees IndexBounded RegisteredIsLive
PROPERTIES FreezeIsForever CallsFinish
CHECK_DEADLOCK FALSE
