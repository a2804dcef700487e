CONSTANTS
    a = a
    b = b
    c = c
    h1 = h1
    h2 = h2
    Ids = {a, b, c}
    NoId = NoId
    NoDialog = NoDialog
    Slots = {h1, h2}
    MaxRounds = 0
    InitKeys <- MCInitKeys
    UserRequests <- MCRequests
    MaxRequests = 2
    MaxInbox = 1
    MaxReloads = 1
SPECIFICATION PageSpec
SYMMETRY SlotSymmetry
CHECK_DEADLOCK FALSE
INVARIANTS
    PageTypeOK
    SettlesUnlessTorn
    SelectionRestored
PROPERTIES
    KeysKept
