SPECIFICATION ClientSpec
CONSTANTS
    Conns = {n1, n2, n3}
    Rooms = {r1, r2}
    Agents = {a1, a2}
    Join = join
    Leave = leave
    Overlap = FALSE
    N = 3
    Positions = {1, 2}
    Peers = {"a"}
INVARIANTS
    NothingOutlives
    SessionsEnded
    CandidatesArrive
    RosterIsCurrent
    PositionsFollow
PROPERTIES
    PositionIsTold
CHECK_DEADLOCK FALSE
