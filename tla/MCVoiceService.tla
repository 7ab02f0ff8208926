--------------------------- MODULE MCVoiceService ---------------------------
(* Instances of VoiceService for TLC: a1 may hold two sessions, a2 one.    *)
EXTENDS VoicePresence

CONSTANTS s1, s2, s3, s4, a1, a2, r1, r2

AgentOf3 == [s \in Sessions |-> IF s \in {s3, s4} THEN a2 ELSE a1]
OneRoom  == [s \in Sessions |-> r1]
AgentOf2 == [s \in Sessions |-> IF s = s2 THEN a2 ELSE a1]
OneAgent == [s \in Sessions |-> a1]
TwoRooms == [s \in Sessions |-> IF s = s4 THEN r2 ELSE r1]

=============================================================================
