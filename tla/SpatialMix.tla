----------------------------- MODULE SpatialMix -----------------------------
(***************************************************************************)
(* What one session's viewer has told the server through the data channel  *)
(* (Session::apply_data) and who mix_room lets a listener hear because of  *)
(* it.  Positions are points on a line: the code scales the offset of the  *)
(* ear from the avatar, so only its length and its side matter here.       *)
(*                                                                         *)
(* A message is applied in sections under a lock each (state, gains,       *)
(* mutes), and the mixer may run between two of them, so every section is  *)
(* an action.                                                              *)
(***************************************************************************)
EXTENDS Integers, FiniteSets

CONSTANTS
    Sessions,       \* the sessions of one spatial room
    Agents,         \* agent ids gains and mutes may name
    AgentOf,        \* Session::agent_id
    Places,         \* finite positions a viewer may report
    MaxAudioDist,   \* MAX_AUDIO_DIST, the tether
    MaxDistance,    \* MAX_DISTANCE, where attenuation reaches zero
    MaxEntries,     \* MAX_PEER_ENTRIES
    MaxGain,        \* MAX_PEER_GAIN
    RawGains        \* `ug` values, in units of PEER_GAIN_CONVERSION_FACTOR

ASSUME SpatialAssumption ==
    /\ AgentOf \in [Sessions -> Agents]
    /\ Places \subseteq Int /\ 0 \in Places
    /\ MaxAudioDist \in Nat /\ MaxDistance \in Nat \ {0}
    /\ MaxEntries \in Nat
    /\ MaxGain \in Nat /\ RawGains \subseteq Nat

VARIABLES
    avatar,     \* SpatialState::avatar_pos
    ear,        \* SpatialState::listener_pos
    known,      \* SpatialState::known
    gains,      \* Session::gains
    mutes       \* Session::mutes

vars == <<avatar, ear, known, gains, mutes>>

-----------------------------------------------------------------------------

Dist(x, y) == IF x > y THEN x - y ELSE y - x

(* mixer::tether *)
Tether(e, a) ==
    IF Dist(e, a) <= MaxAudioDist THEN e
    ELSE IF e > a THEN a + MaxAudioDist ELSE a - MaxAudioDist

(* distance_gain is positive below MAX_DISTANCE *)
InRange(d) == d < MaxDistance

Clamped(raw) == IF raw > MaxGain THEN MaxGain ELSE raw

(* A full map still takes a new value for a peer it has *)
Accepts(map, p) == Cardinality(DOMAIN map) < MaxEntries \/ p \in DOMAIN map

With(map, p, v) == [q \in DOMAIN map \cup {p} |-> IF q = p THEN v ELSE map[q]]

PartialFunctions(S, T) == UNION {[D -> T] : D \in SUBSET S}

TypeOK ==
    /\ avatar \in [Sessions -> Int]
    /\ ear \in [Sessions -> Int]
    /\ known \in [Sessions -> BOOLEAN]
    /\ gains \in [Sessions -> PartialFunctions(Agents, 0 .. MaxGain)]
    /\ mutes \in [Sessions -> PartialFunctions(Agents, BOOLEAN)]

Init ==
    /\ avatar = [s \in Sessions |-> 0]
    /\ ear = [s \in Sessions |-> 0]
    /\ known = [s \in Sessions |-> FALSE]
    /\ gains = [s \in Sessions |-> << >>]
    /\ mutes = [s \in Sessions |-> << >>]

-----------------------------------------------------------------------------
(* Session::apply_data *)

(* Fault: the ear is tethered only when it moves. *)
MoveAvatarFreely(s, a) ==
    /\ avatar' = [avatar EXCEPT ![s] = a]
    /\ known' = [known EXCEPT ![s] = TRUE]
    /\ UNCHANGED <<ear, gains, mutes>>

MoveAvatar(s, a) ==
    /\ avatar' = [avatar EXCEPT ![s] = a]
    /\ known' = [known EXCEPT ![s] = TRUE]
    /\ ear' = [ear EXCEPT ![s] = Tether(@, a)]
    /\ UNCHANGED <<gains, mutes>>

(* An ear position that comes before the avatar's is kept as it is *)
MoveEar(s, e) ==
    /\ ear' = [ear EXCEPT ![s] = IF known[s] THEN Tether(e, avatar[s]) ELSE e]
    /\ UNCHANGED <<avatar, known, gains, mutes>>

MoveBoth(s, a, e) ==
    /\ avatar' = [avatar EXCEPT ![s] = a]
    /\ known' = [known EXCEPT ![s] = TRUE]
    /\ ear' = [ear EXCEPT ![s] = Tether(e, a)]
    /\ UNCHANGED <<gains, mutes>>

(* Fault: only the size of the map is looked at after inserting. *)
SetGainLate(s, p, raw) ==
    /\ Cardinality(DOMAIN gains[s]) <= MaxEntries
    /\ gains' = [gains EXCEPT ![s] = With(@, p, Clamped(raw))]
    /\ UNCHANGED <<avatar, ear, known, mutes>>

SetGain(s, p, raw) ==
    /\ Accepts(gains[s], p)
    /\ gains' = [gains EXCEPT ![s] = With(@, p, Clamped(raw))]
    /\ UNCHANGED <<avatar, ear, known, mutes>>

SetMute(s, p, muted) ==
    /\ Accepts(mutes[s], p)
    /\ mutes' = [mutes EXCEPT ![s] = With(@, p, muted)]
    /\ UNCHANGED <<avatar, ear, known, gains>>

Next == \E s \in Sessions :
    \/ \E a \in Places : MoveAvatar(s, a)
    \/ \E e \in Places : MoveEar(s, e)
    \/ \E a, e \in Places : MoveBoth(s, a, e)
    \/ \E p \in Agents, raw \in RawGains : SetGain(s, p, raw)
    \/ \E p \in Agents, muted \in BOOLEAN : SetMute(s, p, muted)

Spec == Init /\ [][Next]_vars

-----------------------------------------------------------------------------
(* mix_room: whether listener l is given speaker s's frame, and how loud   *)

PeerGain(l, a) ==
    IF a \in DOMAIN mutes[l] /\ mutes[l][a] THEN 0
    ELSE IF a \in DOMAIN gains[l] THEN gains[l][a] ELSE 1

(* Fault: distance is measured between the ears. *)
HearsByEar(l, s) ==
    /\ s # l
    /\ PeerGain(l, AgentOf[s]) > 0
    /\ known[s] /\ known[l]
    /\ InRange(Dist(ear[s], ear[l]))

Hears(l, s) ==
    /\ s # l
    /\ PeerGain(l, AgentOf[s]) > 0
    /\ known[s] /\ known[l]
    /\ InRange(Dist(avatar[s], ear[l]))

-----------------------------------------------------------------------------
(* Properties *)

(* The tether is enforced on the server (room.rs:200-205): wherever the    *)
(* messages moved avatar and ear, in whatever order, the ear of a session  *)
(* whose avatar has a position is within MAX_AUDIO_DIST of it.             *)
EarIsTethered == \A s \in Sessions : known[s] => Dist(ear[s], avatar[s]) <= MaxAudioDist

(* So no viewer hears an avatar further from its own than the tether and   *)
(* the attenuation allow together, wherever it puts its ear.               *)
HearingIsLocal == \A l, s \in Sessions :
    Hears(l, s) => Dist(avatar[s], avatar[l]) < MaxAudioDist + MaxDistance

(* The per-peer maps never outgrow their ceiling (proto.rs:312-314).       *)
MapsBounded == \A s \in Sessions :
    Cardinality(DOMAIN gains[s]) <= MaxEntries /\ Cardinality(DOMAIN mutes[s]) <= MaxEntries

(* A full mute list does not lock its owner out: who is muted in it can    *)
(* always be unmuted, so a silenced peer can be heard again.               *)
MutedCanBeUnmuted == \A l \in Sessions : \A p \in Agents :
    p \in DOMAIN mutes[l] /\ mutes[l][p] => ENABLED SetMute(l, p, FALSE)
=============================================================================
