SPECIFICATION MixingSpec
CONSTANTS
    l1 = l1
    l2 = l2
    a1 = a1
    a2 = a2
    Sessions = {l1, l2}
    Agents = {a1, a2}
    AgentOf <- MCAgentOf
    Places <- MCPlaces
    MaxAudioDist = 1
    MaxDistance = 2
    MaxEntries = 1
    MaxGain = 1
    RawGains <- MCRawGains
    Messages <- MCMessages
    MaxTaken = 2
    U32 = 4
INVARIANTS
    EarIsTethered
    HearingIsLocal
    MapsBounded
PROPERTIES
    SectionsAreSteps
