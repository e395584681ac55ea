SPECIFICATION Spec
CONSTANTS
    a1 = a1
    a2 = a2
    b1 = b1
    phone = phone
    tablet = tablet
    alice = alice
    bob = bob
    Conns = {a1, a2}
    Callers = {}
    Devices = {phone, tablet}
    Users = {alice, bob}
    Groups = {friends}
    DeviceOf <- MCDeviceOf
    UserOf <- MCUserOf
    ChanCap = 1
    None = None
INVARIANT CurrentIsRegistered
CHECK_DEADLOCK FALSE
