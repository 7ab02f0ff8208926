SPECIFICATION Spec
CONSTANTS
    s1 = s1
    s2 = s2
    s3 = s3
    s4 = s4
    a1 = a1
    a2 = a2
    r1 = r1
    r2 = r2
    q1 = q1
    q2 = q2
    mixer = mixer
    Sessions = {s1, s2, s3, s4}
    Agents = {a1, a2}
    Rooms = {r1, r2}
    AgentOf <- AgentOf3
    RoomOf <- TwoRooms
    Requests = {q1, q2}
    Mixer = mixer
    Readers = {q1, q2, mixer}
    MaxSessions = 2
    Hangups = {q2}
    Logouts = {}
    Failures = {s1, s2}
    LossBeforeReply = FALSE
INVARIANTS
    CapacityBound
    DepartedIsGone
PROPERTIES
    LeaveOnlyIfGone
CHECK_DEADLOCK FALSE
