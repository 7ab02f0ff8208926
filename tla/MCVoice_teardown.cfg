SPECIFICATION FairSpec
CONSTANTS
    s1 = s1
    s2 = s2
    s3 = s3
    s4 = s4
    a1 = a1
    a2 = a2
    r1 = r1
    r2 = r2
    q1 = q1
    mixer = mixer
    Sessions = {s1, s2}
    Agents = {a1, a2}
    Rooms = {r1}
    AgentOf <- OneAgent
    RoomOf <- OneRoom
    Requests = {q1}
    Mixer = mixer
    Readers = {q1, mixer}
    MaxSessions = 2
    Hangups = {q1}
    Logouts = {s1}
    Failures = {s1, s2}
    LossBeforeReply = FALSE
INVARIANTS
    TypeOK
    EndpointIsBacked
    RegisteredHasEndpoint
    NoOverlap
    TornDownOnce
PROPERTIES
    DeadIsReaped
    JoinIsBuilt
CHECK_DEADLOCK FALSE
