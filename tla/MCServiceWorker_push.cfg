CONSTANTS
    ann = ann
    ben = ben
    team = team
    club = club
    NoInbox = NoInbox
    Inboxes = {ann, ben}
    Chats = {team, club}
    Owner <- MCOwner
    MaxJobs = 2
    MaxMail = 1
    MaxMessages = 2
    MaxTurns = 1
SPECIFICATION Spec
CHECK_DEADLOCK FALSE
INVARIANTS
    TypeOK
    BadgeCountsAll
PROPERTIES
    PushNotifies
    PushMarksInbox
