CONSTANTS
    a = a
    b = b
    c = c
    h1 = h1
    h2 = h2
    Ids = {a, b, c}
    NoId = NoId
    Slots = {h1, h2}
    MaxRounds = 1
    InitKeys <- MCInitKeys
    UserRequests <- AllRequests
    MaxRequests = 2
    MaxInbox = 1
SPECIFICATION FairSpec
CHECK_DEADLOCK FALSE
PROPERTIES
    HandlersReport
    InitAnswered
    ChangesAnnounced
