SPECIFICATION RegistrySpec
CONSTANTS
    s1 = s1
    s2 = s2
    s3 = s3
    r1 = r1
    r2 = r2
    Sessions = {s1, s2, s3}
    Agents = {a1}
    Rooms = {r1, r2}
    Readers = {"mixer"}
    AgentOf <- MCAgentOf
    RoomOf <- MCRoomOf
INVARIANTS
    RegisteredIsListed
    IndexesAgree
PROPERTIES
    MembersComplete
CHECK_DEADLOCK FALSE
