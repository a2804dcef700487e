CONSTANTS
    ann = ann
    ben = ben
    NoInbox = NoInbox
    Inboxes = {ann, ben}
    MaxCalls = 3
    MaxTurns = 4
SPECIFICATION Spec
CHECK_DEADLOCK FALSE
INVARIANTS
    TypeOK
    RegisteredIsLive
    RegisteredWhenDone
