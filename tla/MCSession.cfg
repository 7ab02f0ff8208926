SPECIFICATION SessionSpec
CONSTANTS
    Transports = {t1, t2, t3}
    Lo = 5
    Hi = 8
    Width = 11
    MaxSessions = 3
    MaxAge = 5
    PacketUnits = 4
    MaxFrames = 4
    MaxDelay = 14
    MayBeAlone = TRUE
    Candidates = {"host", "relay"}
    GatherTimeout = 3
    Preferred = 111
    Offers <- MCOffers
    Sessions = {"s1", "s2"}
    Agents = {"a1", "a2"}
    AgentOf <- MCAgentOf
    Channels = {"c1", "c2"}
    Owner <- MCOwner
    Primary = {"c1"}
    Spatial = TRUE
    MaxFloat = 21
    PositionScale = 2
    MaxAudioDist = 2
    RefDistance = 1
    MaxDistance = 4
    Unit = 10
    RawPlaces <- MCRawPlaces
    RawTurns <- MCRawTurns
    Samples <- MCSamples
INVARIANTS
    InRange
    ReuseIsLate
    LatencyBounded
    Contiguous
    LossOnlyWhenLate
    AnswerIsRight
    SlotIsPolled
    RosterIsTrue
    BoundsSurviveOverflow
PROPERTIES
    OfferIsSettled
    LostIsClosed
    TalkerIsShown
