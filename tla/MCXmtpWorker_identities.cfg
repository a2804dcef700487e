CONSTANTS
    a = a
    b = b
    c = c
    h1 = h1
    h2 = h2
    Ids = {a, b, c}
    NoId = NoId
    Slots = {h1, h2}
    MaxRounds = 1
    InitKeys <- MCInitKeys
    UserRequests <- IdentityRequests
    MaxRequests = 3
    MaxInbox = 1
SPECIFICATION Spec
SYMMETRY SlotSymmetry
CHECK_DEADLOCK FALSE
INVARIANTS
    TypeOK
    ActiveInRange
    PostedActiveInRange
    CurrentListIsExact
PROPERTIES
    ImplementsStore
    PanicFreezesIdentities
