CONSTANTS
    ann = ann
    ben = ben
    xia = xia
    team = team
    club = club
    NoOne = NoOne
    Ids = {ann, ben}
    First = ann
    Others = {xia}
    GroupIds = {team, club}
    InitRoster <- MCRoster
    InitLog <- MCSpoken
    MaxTasks = 2
    MaxLog = 2
    Authors = {xia, ann}
    Guests = {}
    MaxOps = 1
    MaxReloads = 1
SPECIFICATION Spec
CHECK_DEADLOCK FALSE
INVARIANTS
    TypeOK
    UnreadNotMissed
