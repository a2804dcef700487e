CONSTANTS
    ann = ann
    ben = ben
    xia = xia
    team = team
    club = club
    NoOne = NoOne
    Ids = {ann, ben}
    Others = {xia}
    GroupIds = {team}
    InitRoster <- MCTogether
    InitLog <- MCSilent
    MaxTasks = 2
    MaxLog = 3
    Authors = {ann}
    MaxOps = 2
    MaxReloads = 1
SPECIFICATION Spec
CHECK_DEADLOCK FALSE
INVARIANTS
    TypeOK
    PushedOnce
    HistoryNotPushed
