CONSTANTS
    Inboxes = {i1, i2, x1}
    Addresses = {x1}
    NoInbox = NoInbox
    Groups = {g1, g2}
    NoGroup = NoGroup
    Devices = {d1, d2}
    NoDevice = NoDevice
    NotifyFields = {"given", "missing"}
    Slots = {s1, s2}
    MaxCalls = 3
SPECIFICATION Spec
SYMMETRY Symmetry
CHECK_DEADLOCK FALSE
INVARIANTS
    TypeOK
    BlockListExact
    LeftAreSkipped
PROPERTIES
    SubscriptionKept
