CONSTANTS
    ann = ann
    ben = ben
    xia = xia
    team = team
    club = club
    NoOne = NoOne
    Ids = {ann, ben}
    First = ann
    Others = {xia}
    GroupIds = {team, club}
    InitRoster <- MCApart
    InitLog <- MCSpoken
    MaxTasks = 2
    MaxLog = 1
    Authors = {}
    Guests = {ann}
    MaxOps = 1
    MaxReloads = 0
SPECIFICATION Spec
CHECK_DEADLOCK FALSE
INVARIANTS
    BlockedHasLeft
PROPERTIES
    PendingIsAccepted
    ListSettles
    LeaveIsBlocked
    IndicatorSettles
