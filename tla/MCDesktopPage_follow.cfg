CONSTANTS
    ann = ann
    ben = ben
    xia = xia
    team = team
    club = club
    NoOne = NoOne
    Ids = {ann, ben}
    First = ann
    Others = {xia}
    GroupIds = {team, club}
    InitRoster <- MCRoster
    InitLog <- MCSpoken
    MaxTasks = 2
    MaxLog = 1
    Authors = {}
    Guests = {ann}
    MaxOps = 1
    MaxReloads = 0
SPECIFICATION DeskSpec
CHECK_DEADLOCK FALSE
INVARIANTS
    DeskTypeOK
    OpenIsListed
PROPERTIES
    PendingAcceptedOnReturn
