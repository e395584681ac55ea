SPECIFICATION ServicesSpec
CONSTANTS
    None = None
    Calls = {c1, c2}
    Devices = {d1, d2}
    Batch = 1
    MaxUploads = 2
    Conns = {k1, k2}
    TTL = 2
    Uploads = {u1}
    MaxSize = 2
    MaxBody = 4
    Requests = {r1, r2}
    Profile = {name, avatar}
    Texts = {hello}
    Flags = {pinned, muted}
    Peers = {carol}
    MaxRows = 4
    Times = {1, 2, 3}
    Asked = {None, 0, 1, 3}
    DefaultLimit = 1
    SearchLimit = 2
    Cap = 2
    Users = {alice, bob}
    Msgs = {msg}
    Ids = {msg, other}
    Emojis = {smile, frown}
    MaxBegun = 3
    Plus = Plus
    Zero = Zero
    Seven = Seven
    Other = Other
    Digits <- MCDigits
    Typed <- MCTyped
    MinDigits = 1
    MaxUsers = 2
SYMMETRY Symmetry
INVARIANTS
    TypesHold KeysAreSpentOnce NotAheadOfRow PresenceIsTrue SoleWriter
    UploadIsTold LostByOverlapOnly SkippedOnlyByTie LogIsRight NumberNamesUser
PROPERTIES GoesBackButForOwn MarksAreOnesOwn
CHECK_DEADLOCK FALSE
