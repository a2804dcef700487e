CONSTANTS
    ann = ann
    ben = ben
    xia = xia
    team = team
    club = club
    NoOne = NoOne
    Ids = {ann, ben}
    Others = {xia}
    GroupIds = {club}
    InitRoster <- MCAlone
    InitLog <- MCSilent
    MaxTasks = 2
    MaxLog = 2
    Authors = {}
    MaxOps = 3
    MaxReloads = 0
SPECIFICATION Spec
CHECK_DEADLOCK FALSE
INVARIANTS
    PendingNotPushed
