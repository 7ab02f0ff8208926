---------------------------- MODULE MixingProofs ----------------------------
(***************************************************************************)
(* What a listener hears, for every distance and position, every ceiling   *)
(* of the per-peer maps and every set of messages: the tether and what     *)
(* follows from it, the maps, and that messages do what sections do.       *)
(***************************************************************************)
EXTENDS DataMessage, FiniteSetTheorems, SequenceTheorems, TLAPS

-----------------------------------------------------------------------------
(* SpatialMix: the tether                                                  *)

(* What the tether returns is within MaxAudioDist of the avatar. *)
LEMMA TetherBound ==
    ASSUME NEW e \in Int, NEW a \in Int
    PROVE  Tether(e, a) \in Int /\ Dist(Tether(e, a), a) <= MaxAudioDist
BY SpatialAssumption DEF Tether, Dist

(* Distance on a line obeys the triangle inequality. *)
LEMMA DistTriangle ==
    ASSUME NEW x \in Int, NEW y \in Int, NEW z \in Int
    PROVE  Dist(x, z) <= Dist(x, y) + Dist(y, z)
BY DEF Dist

PlaceOK ==
    /\ avatar \in [Sessions -> Int]
    /\ ear \in [Sessions -> Int]
    /\ known \in [Sessions -> BOOLEAN]

TetherInv == PlaceOK /\ EarIsTethered

-----------------------------------------------------------------------------

(* Every section of apply_data leaves a placed session's ear tethered. *)
LEMMA TetherStep ==
    ASSUME TetherInv, [Next]_vars
    PROVE  TetherInv'
<1> USE DEF TetherInv, PlaceOK, EarIsTethered
<1>1. ASSUME NEW s \in Sessions, NEW a \in Places, MoveAvatar(s, a) PROVE TetherInv'
  <2>1. a \in Int
    BY SpatialAssumption
  <2>2. Tether(ear[s], a) \in Int /\ Dist(Tether(ear[s], a), a) <= MaxAudioDist
    BY <2>1, TetherBound
  <2> QED BY <1>1, <2>1, <2>2 DEF MoveAvatar
<1>2. ASSUME NEW s \in Sessions, NEW e \in Places, MoveEar(s, e) PROVE TetherInv'
  <2>1. e \in Int
    BY SpatialAssumption
  <2>2. Tether(e, avatar[s]) \in Int /\ Dist(Tether(e, avatar[s]), avatar[s]) <= MaxAudioDist
    BY <2>1, TetherBound
  <2> QED BY <1>2, <2>1, <2>2 DEF MoveEar
<1>3. ASSUME NEW s \in Sessions, NEW a \in Places, NEW e \in Places, MoveBoth(s, a, e)
      PROVE  TetherInv'
  <2>1. a \in Int /\ e \in Int
    BY SpatialAssumption
  <2>2. Tether(e, a) \in Int /\ Dist(Tether(e, a), a) <= MaxAudioDist
    BY <2>1, TetherBound
  <2> QED BY <1>3, <2>1, <2>2 DEF MoveBoth
<1>4. ASSUME UNCHANGED <<avatar, ear, known>> PROVE TetherInv'
  BY <1>4
<1>5. CASE UNCHANGED vars
  BY <1>4, <1>5 DEF vars
<1>6. CASE Next
  BY <1>1, <1>2, <1>3, <1>4, <1>6 DEF Next, SetGain, SetMute
<1> QED BY <1>5, <1>6

(* The inductive invariant of the two theorems below. *)
LEMMA TetherInvariant == Spec => []TetherInv
<1>1. Init => TetherInv
  BY SpatialAssumption DEF Init, TetherInv, PlaceOK, EarIsTethered
<1>2. TetherInv /\ [Next]_vars => TetherInv'
  BY TetherStep
<1> QED BY <1>1, <1>2, PTL DEF Spec

(* The ear of a placed session is always tethered (room.rs:200-205).       *)
THEOREM EarAlwaysTethered == Spec => []EarIsTethered
<1>1. TetherInv => EarIsTethered
  BY DEF TetherInv
<1> QED BY <1>1, TetherInvariant, PTL

(* Nobody hears an avatar at MaxAudioDist + MaxDistance or more from its   *)
(* own, whatever positions its viewer reports.                             *)
THEOREM HearingAlwaysLocal == Spec => []HearingIsLocal
<1>1. TetherInv => HearingIsLocal
  <2> SUFFICES ASSUME TetherInv, NEW l \in Sessions, NEW s \in Sessions, Hears(l, s)
               PROVE  Dist(avatar[s], avatar[l]) < MaxAudioDist + MaxDistance
    BY DEF HearingIsLocal
  <2>1. avatar[s] \in Int /\ avatar[l] \in Int /\ ear[l] \in Int
    BY DEF TetherInv, PlaceOK
  <2>2. Dist(avatar[s], ear[l]) < MaxDistance
    BY DEF Hears, InRange
  <2>3. Dist(ear[l], avatar[l]) <= MaxAudioDist
    BY DEF Hears, TetherInv, EarIsTethered
  <2>4. Dist(avatar[s], avatar[l]) <= Dist(avatar[s], ear[l]) + Dist(ear[l], avatar[l])
    BY <2>1, DistTriangle
  <2> QED BY <2>1, <2>2, <2>3, <2>4, SpatialAssumption DEF Dist
<1> QED BY <1>1, TetherInvariant, PTL

-----------------------------------------------------------------------------

Bounded(map) == IsFiniteSet(DOMAIN map) /\ Cardinality(DOMAIN map) <= MaxEntries

(* A size is known of finite sets only, so they have to stay finite too. *)
MapsInv ==
    /\ DOMAIN gains = Sessions /\ DOMAIN mutes = Sessions
    /\ \A s \in Sessions : Bounded(gains[s]) /\ Bounded(mutes[s])

(* What apply_data puts in a map that accepts it leaves the map bounded. *)
LEMMA AcceptedIsBounded ==
    ASSUME NEW map, NEW p, NEW v, Bounded(map), Accepts(map, p)
    PROVE  Bounded(With(map, p, v))
<1>1. DOMAIN With(map, p, v) = DOMAIN map \cup {p}
  BY DEF With
<1>2. Cardinality(DOMAIN map) \in Nat
  BY FS_CardinalityType DEF Bounded
<1>3. CASE p \in DOMAIN map
  <2>1. DOMAIN map \cup {p} = DOMAIN map
    BY <1>3
  <2> QED BY <1>1, <2>1 DEF Bounded
<1>4. CASE p \notin DOMAIN map
  <2>1. /\ IsFiniteSet(DOMAIN map \cup {p})
        /\ Cardinality(DOMAIN map \cup {p}) = Cardinality(DOMAIN map) + 1
    BY <1>4, FS_AddElement DEF Bounded
  <2>2. Cardinality(DOMAIN map) < MaxEntries
    BY <1>4 DEF Accepts
  <2>3. Cardinality(DOMAIN map) + 1 <= MaxEntries
    BY <1>2, <2>2, SpatialAssumption
  <2> QED BY <1>1, <2>1, <2>3 DEF Bounded
<1> QED BY <1>3, <1>4

(* The per-peer maps never outgrow MAX_PEER_ENTRIES (proto.rs:312-314),    *)
(* whatever gains and mutes come in whatever order.                        *)
THEOREM MapsAlwaysBounded == Spec => []MapsBounded
<1>1. Init => MapsInv
  <2>1. DOMAIN << >> = {}
    OBVIOUS
  <2>2. Bounded(<< >>)
    BY <2>1, FS_EmptySet, SpatialAssumption DEF Bounded
  <2> QED BY <2>2 DEF Init, MapsInv
<1>2. MapsInv /\ [Next]_vars => MapsInv'
  <2> SUFFICES ASSUME MapsInv, [Next]_vars PROVE MapsInv'
    OBVIOUS
  <2>1. ASSUME NEW s \in Sessions, NEW p \in Agents, NEW raw \in RawGains, SetGain(s, p, raw)
        PROVE  MapsInv'
    <3>1. Bounded(With(gains[s], p, Clamped(raw)))
      BY <2>1, AcceptedIsBounded DEF SetGain, MapsInv
    <3>2. gains' = [gains EXCEPT ![s] = With(gains[s], p, Clamped(raw))] /\ mutes' = mutes
      BY <2>1 DEF SetGain
    <3> QED BY <3>1, <3>2 DEF MapsInv, Bounded
  <2>2. ASSUME NEW s \in Sessions, NEW p \in Agents, NEW muted \in BOOLEAN, SetMute(s, p, muted)
        PROVE  MapsInv'
    <3>1. Bounded(With(mutes[s], p, muted))
      BY <2>2, AcceptedIsBounded DEF SetMute, MapsInv
    <3>2. mutes' = [mutes EXCEPT ![s] = With(mutes[s], p, muted)] /\ gains' = gains
      BY <2>2 DEF SetMute
    <3> QED BY <3>1, <3>2 DEF MapsInv, Bounded
  <2>3. ASSUME UNCHANGED <<gains, mutes>> PROVE MapsInv'
    BY <2>3 DEF MapsInv, Bounded
  <2>4. CASE Next
    BY <2>1, <2>2, <2>3, <2>4 DEF Next, MoveAvatar, MoveEar, MoveBoth
  <2> QED BY <2>3, <2>4 DEF vars
<1>3. MapsInv => MapsBounded
  BY DEF MapsInv, MapsBounded, Bounded
<1> QED BY <1>1, <1>2, <1>3, PTL DEF Spec

-----------------------------------------------------------------------------
(* DataMessage                                                             *)

GainEntries == [id : Agents, value : SUBSET Nat]
MuteEntries == [id : Agents, value : SUBSET BOOLEAN]

Applications == [step : {"poll", "state", "gains", "mutes"},
                 sp : SUBSET Places, lp : SUBSET Places,
                 ug : Seq(GainEntries), m : Seq(MuteEntries)]

(* What is being applied was parsed, so each of its entries can be applied *)
ApplyingOK == applying \in [Sessions -> Applications]

-----------------------------------------------------------------------------

(* The entries taken from a map are entries of the map. *)
LEMMA TakenIsSeq ==
    ASSUME NEW S, NEW map \in Seq(S)
    PROVE  Taken(map) \in Seq(S)
<1> DEFINE n == IF Len(map) < MaxTaken THEN Len(map) ELSE MaxTaken
<1>1. Len(map) \in Nat /\ MaxTaken \in Nat
  BY LenProperties, MessageAssumption
<1>2. n \in Nat /\ n <= Len(map)
  BY <1>1
<1>3. \A i \in 1 .. n : map[i] \in S
  BY <1>1, <1>2, ElementOfSeq
<1>4. SubSeq(map, 1, n) \in Seq(S)
  BY <1>1, <1>2, <1>3, SubSeqProperties
<1> QED BY <1>4 DEF Taken

(* A gain fits in 32 bits after it is cut. *)
LEMMA CutGain ==
    ASSUME NEW raw \in Nat
    PROVE  raw % U32 \in RawGains
<1>1. U32 \in Nat /\ U32 > 0 /\ 0 .. U32 - 1 \subseteq RawGains
  BY MessageAssumption
<1>2. raw % U32 \in 0 .. U32 - 1
  BY <1>1
<1> QED BY <1>1, <1>2

(* Receiving and applying keep what is applied well formed. *)
LEMMA ApplyingStep ==
    ASSUME ApplyingOK, [MessageNext]_allVars
    PROVE  ApplyingOK'
<1> USE DEF ApplyingOK
<1>1. ASSUME NEW s \in Sessions, NEW r \in Messages, Receive(s, r) PROVE ApplyingOK'
  <2>1. r \in Message
    BY MessageAssumption
  <2>2. Taken(r.ug) \in Seq(GainEntries)
    BY <2>1, TakenIsSeq DEF Message, GainEntries
  <2>3. Taken(r.m) \in Seq(MuteEntries)
    BY <2>1, TakenIsSeq DEF Message, MuteEntries
  <2> HIDE DEF GainEntries, MuteEntries
  <2>4. [step |-> "state", sp |-> r.sp, lp |-> r.lp, ug |-> Taken(r.ug), m |-> Taken(r.m)]
           \in Applications
    BY <2>1, <2>2, <2>3 DEF Applications, Message
  <2> QED BY <1>1, <2>4 DEF Receive
<1>2. ASSUME NEW s \in Sessions, ApplyState(s) PROVE ApplyingOK'
  <2>1. applying[s] \in Applications
    OBVIOUS
  <2>2. [applying[s] EXCEPT !.step = "gains"] \in Applications
    BY <2>1 DEF Applications
  <2>3. applying' = [applying EXCEPT ![s] = [applying[s] EXCEPT !.step = "gains"]]
    BY <1>2 DEF ApplyState
  <2> QED BY <2>2, <2>3
<1>3. ASSUME NEW s \in Sessions, ApplyGain(s) PROVE ApplyingOK'
  <2>1. applying[s] \in Applications
    OBVIOUS
  <2>2. CASE applying[s].ug = <<>>
    <3>1. [applying[s] EXCEPT !.step = "mutes"] \in Applications
      BY <2>1 DEF Applications
    <3>2. applying' = [applying EXCEPT ![s] = [applying[s] EXCEPT !.step = "mutes"]]
      BY <1>3, <2>2 DEF ApplyGain
    <3> QED BY <3>1, <3>2
  <2>3. CASE applying[s].ug # <<>>
    <3>1. applying[s].ug \in Seq(GainEntries)
      BY <2>1 DEF Applications
    <3>2. Tail(applying[s].ug) \in Seq(GainEntries)
      BY <3>1, <2>3, HeadTailProperties
    <3>3. [applying[s] EXCEPT !.ug = Tail(applying[s].ug)] \in Applications
      BY <2>1, <3>2 DEF Applications
    <3>4. applying' = [applying EXCEPT ![s] = [applying[s] EXCEPT !.ug = Tail(applying[s].ug)]]
      BY <1>3, <2>3 DEF ApplyGain
    <3> QED BY <3>3, <3>4
  <2> QED BY <2>2, <2>3
<1>4. ASSUME NEW s \in Sessions, ApplyMute(s) PROVE ApplyingOK'
  <2>1. applying[s] \in Applications
    OBVIOUS
  <2>2. CASE applying[s].m = <<>>
    <3>1. NoMessage \in Applications
      BY EmptySeq DEF NoMessage, Applications
    <3>2. applying' = [applying EXCEPT ![s] = NoMessage]
      BY <1>4, <2>2 DEF ApplyMute
    <3> QED BY <3>1, <3>2
  <2>3. CASE applying[s].m # <<>>
    <3>1. applying[s].m \in Seq(MuteEntries)
      BY <2>1 DEF Applications
    <3>2. Tail(applying[s].m) \in Seq(MuteEntries)
      BY <3>1, <2>3, HeadTailProperties
    <3>3. [applying[s] EXCEPT !.m = Tail(applying[s].m)] \in Applications
      BY <2>1, <3>2 DEF Applications
    <3>4. applying' = [applying EXCEPT ![s] = [applying[s] EXCEPT !.m = Tail(applying[s].m)]]
      BY <1>4, <2>3 DEF ApplyMute
    <3> QED BY <3>3, <3>4
  <2> QED BY <2>2, <2>3
<1>5. CASE UNCHANGED allVars
  BY <1>5 DEF allVars, messageVars
<1>6. CASE MessageNext
  BY <1>1, <1>2, <1>3, <1>4, <1>6 DEF MessageNext
<1> QED BY <1>5, <1>6

(* Each section of a message is a section of SpatialMix, or nothing. *)
LEMMA SectionIsStep ==
    ASSUME ApplyingOK, [MessageNext]_allVars
    PROVE  [Next]_vars
<1>1. ASSUME NEW s \in Sessions, ApplyState(s) PROVE [Next]_vars
  <2>1. applying[s].sp \subseteq Places /\ applying[s].lp \subseteq Places
    BY DEF ApplyingOK, Applications
  <2> QED BY <1>1, <2>1 DEF ApplyState, Next
<1>2. ASSUME NEW s \in Sessions, ApplyGain(s) PROVE [Next]_vars
  <2>1. applying[s].ug \in Seq(GainEntries)
    BY DEF ApplyingOK, Applications
  <2>2. CASE applying[s].ug = <<>>
    BY <1>2, <2>2 DEF ApplyGain
  <2>3. CASE applying[s].ug # <<>>
    <3> DEFINE e == Head(applying[s].ug)
    <3>1. e \in GainEntries
      BY <2>1, <2>3, HeadTailProperties
    <3>2. e.id \in Agents /\ \A raw \in e.value : raw % U32 \in RawGains
      BY <3>1, CutGain DEF GainEntries
    <3>3. UNCHANGED vars \/ \E raw \in e.value : SetGain(s, e.id, raw % U32)
      BY <1>2, <2>3 DEF ApplyGain
    <3> QED BY <3>2, <3>3 DEF Next
  <2> QED BY <2>2, <2>3
<1>3. ASSUME NEW s \in Sessions, ApplyMute(s) PROVE [Next]_vars
  <2>1. applying[s].m \in Seq(MuteEntries)
    BY DEF ApplyingOK, Applications
  <2>2. CASE applying[s].m = <<>>
    BY <1>3, <2>2 DEF ApplyMute
  <2>3. CASE applying[s].m # <<>>
    <3> DEFINE e == Head(applying[s].m)
    <3>1. e \in MuteEntries
      BY <2>1, <2>3, HeadTailProperties
    <3>2. e.id \in Agents /\ e.value \subseteq BOOLEAN
      BY <3>1 DEF MuteEntries
    <3>3. UNCHANGED vars \/ \E muted \in e.value : SetMute(s, e.id, muted)
      BY <1>3, <2>3 DEF ApplyMute
    <3> QED BY <3>2, <3>3, Zenon DEF Next
  <2> QED BY <2>2, <2>3
<1>4. CASE UNCHANGED allVars
  BY <1>4 DEF allVars
<1>5. CASE MessageNext
  BY <1>1, <1>2, <1>3, <1>5 DEF MessageNext, Receive
<1> QED BY <1>4, <1>5

(* Messages, with any combination of keys and any entries, do what         *)
(* SpatialMix's sections do (room.rs:160-227).                             *)
THEOREM MessagesImplementSections == MessageSpec => SectionsAreSteps
<1>1. MessageInit => Init /\ ApplyingOK
  <2>1. NoMessage \in Applications
    BY EmptySeq DEF NoMessage, Applications
  <2> QED BY <2>1 DEF MessageInit, ApplyingOK
<1>2. ApplyingOK /\ [MessageNext]_allVars => ApplyingOK'
  BY ApplyingStep
<1>3. ApplyingOK /\ [MessageNext]_allVars => [Next]_vars
  BY SectionIsStep
<1> QED BY <1>1, <1>2, <1>3, PTL DEF MessageSpec, SectionsAreSteps, Spec

(* So no message moves an ear out of its tether or overfills a map, while  *)
(* it is applied either.                                                   *)
THEOREM MessagesKeepBounds == MessageSpec => [](EarIsTethered /\ MapsBounded)
BY MessagesImplementSections, EarAlwaysTethered, MapsAlwaysBounded, PTL DEF SectionsAreSteps
=============================================================================
