--------------------------- MODULE MixArithmetic ---------------------------
(***************************************************************************)
(* The floating-point arithmetic between a reported position or rotation   *)
(* and a sample handed to the encoder: tether, distance, rotation into the *)
(* listener's frame, panning, summing and soft clipping.  A float is an    *)
(* integer up to MaxFloat, an infinity or NaN, with the rules IEEE 754 has *)
(* for them; rounding is left out.  Positions lie on the x axis, rotations *)
(* are quaternions.                                                        *)
(***************************************************************************)
EXTENDS Integers, Sequences, FiniteSets

CONSTANTS
    MaxFloat,       \* the largest finite float
    PositionScale,  \* POSITION_SCALE, the divisor of what a viewer reports
    MaxAudioDist,   \* MAX_AUDIO_DIST
    RefDistance,    \* REF_DISTANCE
    MaxDistance,    \* MAX_DISTANCE
    Unit,           \* the float 1.0 of samples, gains and weights
    RawPlaces,      \* numbers a viewer may report as a coordinate
    RawTurns,       \* quaternions it may report
    Samples         \* samples speakers may send

(* A number of a message is a float that is finite, and the tether is      *)
(* short: its square is a float, and so is a place that far from any that  *)
(* can be reported.                                                        *)
ASSUME ArithmeticAssumption ==
    /\ {MaxFloat, MaxAudioDist, RefDistance, MaxDistance} \subseteq Nat
    /\ {PositionScale, Unit} \subseteq Nat \ {0}
    /\ RefDistance < MaxDistance
    /\ MaxAudioDist * MaxAudioDist <= MaxFloat
    /\ (MaxFloat \div PositionScale) + MaxAudioDist <= MaxFloat
    /\ RawPlaces \subseteq -MaxFloat .. MaxFloat
    /\ RawTurns \subseteq [1 .. 4 -> -MaxFloat .. MaxFloat]
    /\ Samples \subseteq Int

VARIABLES
    known,      \* of whom SpatialState::known holds: "speaker", "listener"
    speaker,    \* avatar_pos of the speaker
    avatar,     \* avatar_pos of the listener
    ear,        \* its listener_pos
    turn,       \* its listener_rot
    sample      \* the sample of each of two equally placed speakers

arithmeticVars == <<known, speaker, avatar, ear, turn, sample>>

-----------------------------------------------------------------------------
(* Floats                                                                  *)

Inf == MaxFloat + 1
NaN == MaxFloat + 2
Finite == -MaxFloat .. MaxFloat
IsInf(x) == x \in {Inf, -Inf}
Floats == Finite \cup {Inf, -Inf, NaN}

Rounded(n) == IF n > MaxFloat THEN Inf ELSE IF n < -MaxFloat THEN -Inf ELSE n

Add(x, y) ==
    IF NaN \in {x, y} \/ {x, y} = {Inf, -Inf} THEN NaN
    ELSE IF IsInf(x) THEN x ELSE IF IsInf(y) THEN y ELSE Rounded(x + y)
Sub(x, y) == IF y = NaN THEN NaN ELSE Add(x, -y)
Mul(x, y) ==
    IF NaN \in {x, y} \/ (0 \in {x, y} /\ (IsInf(x) \/ IsInf(y))) THEN NaN
    ELSE IF IsInf(x) \/ IsInf(y) THEN IF (x > 0) = (y > 0) THEN Inf ELSE -Inf
    ELSE Rounded(x * y)

Magnitude(x) == IF x = NaN THEN NaN ELSE IF x < 0 THEN -x ELSE x

(* The length of an offset by way of its square, which may overflow *)
Length(off) == LET sq == Mul(off, off) IN IF sq \in {Inf, NaN} THEN sq ELSE Magnitude(off)

-----------------------------------------------------------------------------
(* mixer::tether, distance_gain, pan_weights, mix_stereo                   *)

(* Fault: an offset too long to square is taken to be near. *)
TetherIfFinite(e, a) ==
    LET off == Sub(e, a)
        d == Length(off)
    IN  IF d = Inf \/ d <= MaxAudioDist THEN e
        ELSE Add(a, IF off > 0 THEN MaxAudioDist ELSE -MaxAudioDist)

(* The offset is scaled by 50 / d: by 0 if d is infinite *)
Tether(e, a) ==
    LET off == Sub(e, a)
        d == Length(off)
    IN  IF d <= MaxAudioDist THEN e
        ELSE Add(a, IF d = Inf THEN 0 ELSE IF off > 0 THEN MaxAudioDist ELSE -MaxAudioDist)

DistanceGain(d) ==
    IF d <= RefDistance THEN Unit
    ELSE IF d >= MaxDistance THEN 0
    ELSE Unit - (Unit * (d - RefDistance)) \div (MaxDistance - RefDistance)

(* The x and y components, in the frame turned by q, of a vector along x *)
WorldToLocal(v, q) ==
    LET ty == Mul(2, Mul(-q[3], v))
        tz == Mul(2, Sub(0, Mul(-q[2], v)))
    IN  <<Add(v, Sub(Mul(-q[2], tz), Mul(-q[3], ty))),
          Add(Mul(q[4], ty), Sub(0, Mul(-q[1], tz)))>>

(* The lateral component, -Unit to Unit: 0 over 0 is avoided, infinity     *)
(* over infinity is not.                                                   *)
Lateral(local) ==
    LET x == local[1]
        y == local[2]
        sq == Add(Mul(x, x), Mul(y, y))
    IN  CASE sq = NaN -> NaN
          [] sq = 0 -> 0
          [] sq = Inf -> IF IsInf(x) THEN NaN ELSE 0
          [] OTHER -> IF x = 0 THEN 0 ELSE IF x > 0 THEN Unit ELSE -Unit

(* Weight of the right ear: sin of an angle between 0 and a right one *)
PanWeight(lateral) ==
    IF lateral = NaN THEN NaN
    ELSE IF lateral > 0 THEN Unit ELSE IF lateral < 0 THEN 0 ELSE (7 * Unit) \div 10

(* In tenths: tanh 1.1 is 0.80, tanh 1.5 is 0.905, and 1 is not reached *)
Tanh(x) ==
    LET t == (10 * Magnitude(x)) \div Unit
        y == (Unit * (IF t < 15 THEN 8 ELSE 9)) \div 10
    IN  IF x > 0 THEN y ELSE -y

(* Fault: only one side of the wave is clipped. *)
SoftClipAbove(x) == IF x # NaN /\ x > Unit THEN Tanh(x) ELSE x

SoftClip(x) == IF x # NaN /\ (x > Unit \/ x < -Unit) THEN Tanh(x) ELSE x

(* The right sample two speakers of gain g make together *)
MixStereo(x, g, w) ==
    LET one == IF w = NaN THEN NaN ELSE (x * g * w) \div (Unit * Unit)
    IN  SoftClip(Add(one, one))

(* What mix_room makes of the two for the listener, if their samples are   *)
(* x: nobody is mixed who, or for whom the listener, has no position yet.  *)
Heard(x) ==
    LET d == Length(Sub(speaker, ear))
        g == DistanceGain(d)
    IN  IF known # {"speaker", "listener"} \/ g = 0 THEN 0
        ELSE MixStereo(x, g, PanWeight(Lateral(WorldToLocal(Sub(speaker, ear), turn))))

Out == Heard(sample)

-----------------------------------------------------------------------------
(* Session::apply_data                                                     *)

(* Reported numbers are divided, and kept if they are finite *)
Scaled(raw) == IF raw < 0 THEN -((-raw) \div PositionScale) ELSE raw \div PositionScale
Accepted(raw) == Scaled(raw) \in Finite

ArithmeticTypeOK ==
    /\ known \subseteq {"speaker", "listener"}
    /\ {speaker, avatar, ear} \subseteq Finite
    /\ turn \in [1..4 -> Finite]
    /\ sample \in Samples

ArithmeticInit ==
    /\ known = {}
    /\ speaker = 0 /\ avatar = 0 /\ ear = 0
    /\ turn = <<0, 0, 0, 1>>
    /\ sample \in Samples

MoveSpeaker(raw) ==
    /\ Accepted(raw)
    /\ known' = known \cup {"speaker"}
    /\ speaker' = Scaled(raw)
    /\ UNCHANGED <<avatar, ear, turn, sample>>

MoveListener(raw) ==
    /\ Accepted(raw)
    /\ known' = known \cup {"listener"}
    /\ avatar' = Scaled(raw)
    /\ ear' = Tether(ear, Scaled(raw))
    /\ UNCHANGED <<speaker, turn, sample>>

MoveEar(raw) ==
    /\ Accepted(raw)
    /\ ear' = IF "listener" \in known THEN Tether(Scaled(raw), avatar) ELSE Scaled(raw)
    /\ UNCHANGED <<known, speaker, avatar, turn, sample>>

Turn(q) ==
    /\ \A i \in 1..4 : Accepted(q[i])
    /\ turn' = [i \in 1..4 |-> Scaled(q[i])]
    /\ UNCHANGED <<known, speaker, avatar, ear, sample>>

Speak(x) == sample' = x /\ UNCHANGED <<known, speaker, avatar, ear, turn>>

ArithmeticNext ==
    \/ \E raw \in RawPlaces : MoveSpeaker(raw) \/ MoveListener(raw) \/ MoveEar(raw)
    \/ \E q \in RawTurns : Turn(q)
    \/ \E x \in Samples : Speak(x)

ArithmeticSpec == ArithmeticInit /\ [][ArithmeticNext]_arithmeticVars

-----------------------------------------------------------------------------
(* Properties *)

(* The tether holds for coordinates whose squares overflow as well         *)
(* (mixer.rs:68-84): the ear of a listener whose place is known is then    *)
(* put where the avatar is, and the distance that decides who is heard is  *)
(* a number.                                                               *)
TetherSurvivesOverflow ==
    /\ "listener" \in known => Length(Sub(ear, avatar)) <= MaxAudioDist
    /\ Length(Sub(speaker, ear)) # NaN

(* No sample leaves the mix above full scale, whatever is summed           *)
(* (mixer.rs:168-172).                                                     *)
WithinFullScale == Out # NaN => Out \in -Unit .. Unit

(* Coordinates whose squares overflow leave the ear on its tether, and no  *)
(* sample that is a number leaves full scale.                              *)
BoundsSurviveOverflow == TetherSurvivesOverflow /\ WithinFullScale

(* Numbers are checked "before [they] reach the mixer", as NaN "would then *)
(* be summed into the mix and handed to the Opus encoder" (room.rs:166):   *)
(* what is mixed from accepted reports is a number.                        *)
MixIsANumber == Out # NaN

(* "Soft clipping rather than hard clamping so a crowded room degrades      *)
(* gracefully" (mixer.rs:152): what is heard of speakers does not get       *)
(* softer when they speak louder.                                          *)
LouderIsLouder ==
    \A x \in Samples : 0 <= x /\ x <= sample => Heard(x) <= Out
=============================================================================
