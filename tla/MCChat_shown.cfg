CONSTANTS
    ann = ann
    ben = ben
    xia = xia
    team = team
    club = club
    NoOne = NoOne
    Ids = {ann, ben}
    Others = {xia}
    GroupIds = {team, club}
    InitRoster <- MCRoster
    InitLog <- MCSilent
    MaxTasks = 2
    MaxLog = 1
    Authors = {xia}
    MaxOps = 2
    MaxReloads = 0
SPECIFICATION Spec
CHECK_DEADLOCK FALSE
PROPERTIES
    ShownSettles
