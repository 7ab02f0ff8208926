SPECIFICATION MCSpec
CONSTANTS
    t1 = t1
    t2 = t2
    i1 = i1
    i2 = i2
    i3 = i3
    v1 = v1
    v2 = v2
    Tasks = {t1, t2}
    Ids = {i1, i2, i3}
    Viewers = {v1, v2}
    Scenes = {"east", "west"}
    Groups = {"group"}
    Messages <- AllMessages
    MaxSessions = 2
    IntRange = 4
    Admins = {"a1", "a2"}
    AdminRequests <- MCAdminRequests
    Speakers = {"s"}
    Levels = {0, 1, 2}
    Threshold = 1
    LastDay = 50000
INVARIANTS
    ReplacedIsGone
    ErrorLeavesNothing
    PeopleMeet
PROPERTIES
    LogTellsTheTruth
SYMMETRY Alike
CHECK_DEADLOCK FALSE
