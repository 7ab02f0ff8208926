--------------------------- MODULE ClientMessages ---------------------------
(***************************************************************************)
(* What the reference browser client says and hears on its data channels:  *)
(* the join message, positions and the memory and timer they are sent by,  *)
(* the saved volumes, and the roster.  Module Client has the connections   *)
(* these run over; here one follows the other, each closed by a teardown   *)
(* that awaits its logout.                                                 *)
(***************************************************************************)
EXTENDS Integers

CONSTANTS
    N,              \* bound on the connections made
    Positions,      \* places the avatar may be in
    Peers           \* avatars the server may report

Connections == 1 .. N
None == 0

ASSUME MessagesAssumption == N \in Nat /\ None \notin Positions

VARIABLES
    made,       \* connections made so far
    dc,         \* this.dc, None without one
    opened,     \* its channel has opened
    named,      \* this.viewerSession is set
    awaiting,   \* a teardown awaits its logout
    late,       \* history: the connection that last opened while awaiting
    timers,     \* interval timers that run; this._posTimer is the last
    lastPos,    \* this._lastPosJson
    position,   \* where avatar and camera are
    told,       \* the position the session in use was told last
    unsent,     \* history: its last position could not be sent
    joined,     \* it was sent the join message
    participants,   \* this.roster
    left,       \* history: agents last reported as having left
    saved,      \* agents whose volume the user has changed
    asked       \* agents the session in use was sent a volume for

connVars == <<made, dc, opened, named, awaiting, late>>
posVars == <<timers, lastPos, position, told, unsent>>
peerVars == <<joined, participants, left, saved, asked>>
messageVars == <<connVars, posVars, peerVars>>

MessagesTypeOK ==
    /\ made \in 0 .. N /\ dc \in {None, made} /\ late \in 0 .. made
    /\ {opened, named, awaiting, unsent, joined} \subseteq BOOLEAN
    /\ timers \in Nat
    /\ {lastPos, told} \subseteq Positions \cup {None} /\ position \in Positions
    /\ {participants, left, saved, asked} \subseteq SUBSET Peers

MessagesInit ==
    /\ made = 0 /\ dc = None /\ late = None
    /\ opened = FALSE /\ named = FALSE /\ awaiting = FALSE
    /\ timers = 0 /\ lastPos = None /\ position \in Positions
    /\ told = None /\ unsent = FALSE /\ joined = FALSE
    /\ participants = {} /\ left = {} /\ saved = {} /\ asked = {}

-----------------------------------------------------------------------------

Negotiate ==
    /\ dc = None /\ made < N
    /\ made' = made + 1 /\ dc' = made + 1
    /\ UNCHANGED <<opened, named, awaiting, late, posVars, peerVars>>

SessionNamed ==
    /\ dc # None /\ ~named /\ named' = TRUE
    /\ UNCHANGED <<made, dc, opened, awaiting, late, posVars, peerVars>>

(* _sendPosition, with the channel open: only a change is sent.  It is     *)
(* remembered first, and stays so if the send throws.                      *)
SendPosition ==
    IF position = lastPos THEN UNCHANGED <<lastPos, told, unsent>>
    ELSE /\ lastPos' = position
         /\ \/ told' = position /\ unsent' = FALSE
            \/ unsent' = TRUE /\ UNCHANGED told

(* Fault: the position is sent, and no timer is started. *)
StartPositionUpdatesOnce == SendPosition /\ UNCHANGED timers

(* Fault: it is not looked whether a timer runs. *)
StartPositionUpdatesAgain == timers' = timers + 1 /\ SendPosition

StartPositionUpdates ==
    IF timers > 0 THEN UNCHANGED <<timers, lastPos, told, unsent>>
    ELSE timers' = timers + 1 /\ SendPosition

(* _onDataChannelOpen, with _resendLocalPreferences; each send may throw.  *)
(* A channel may also open while its logout is awaited.                    *)
OnChannelOpen ==
    /\ dc # None /\ ~opened /\ named
    /\ opened' = TRUE
    /\ late' = IF awaiting THEN dc ELSE late
    /\ joined' \in BOOLEAN
    /\ StartPositionUpdates
    /\ asked' \in SUBSET (participants \cap saved)
    /\ UNCHANGED <<made, dc, named, awaiting, position, participants, left, saved>>

TimerFires ==
    /\ timers > 0
    /\ IF opened THEN SendPosition ELSE UNCHANGED <<lastPos, told, unsent>>
    /\ UNCHANGED <<connVars, timers, position, peerVars>>

Move(p) ==
    /\ position' = p
    /\ UNCHANGED <<connVars, timers, lastPos, told, unsent, peerVars>>

(* The agent's slider: saved by the manager, and sent if it can be *)
SetPeerVolume(a, normal) ==
    /\ saved' = IF normal THEN saved \ {a} ELSE saved \cup {a}
    /\ \/ UNCHANGED asked
       \/ opened /\ asked' = asked \cup {a}
    /\ UNCHANGED <<connVars, posVars, joined, participants, left>>

(* _onDataChannelMessage makes every agent named a participant *)
OnMessage(a, leaves) ==
    /\ opened
    /\ participants' = participants \cup {a}
    /\ left' = IF leaves THEN left \cup {a} ELSE left \ {a}
    /\ UNCHANGED <<connVars, posVars, joined, saved, asked>>

(* What the session in use was told ends with it *)
CloseChannel ==
    /\ dc' = None /\ opened' = FALSE /\ named' = FALSE /\ awaiting' = FALSE
    /\ told' = None /\ unsent' = FALSE /\ joined' = FALSE
    /\ participants' = {} /\ left' = {} /\ asked' = {}

AwaitLogout ==
    /\ awaiting' = TRUE
    /\ UNCHANGED <<dc, opened, named, told, unsent, joined, participants, left, asked>>

(* Fault: the last position is not forgotten. *)
TeardownRemembering ==
    /\ dc # None /\ ~awaiting
    /\ timers' = 0
    /\ IF named THEN AwaitLogout ELSE CloseChannel
    /\ UNCHANGED <<made, late, lastPos, position, saved>>

(* _teardown: timer and memory are given up before the logout is awaited *)
TeardownChannel ==
    /\ dc # None /\ ~awaiting
    /\ timers' = 0 /\ lastPos' = None
    /\ IF named THEN AwaitLogout ELSE CloseChannel
    /\ UNCHANGED <<made, late, position, saved>>

ChannelLoggedOut ==
    /\ awaiting
    /\ CloseChannel
    /\ UNCHANGED <<made, late, timers, lastPos, position, saved>>

MessagesNext ==
    \/ Negotiate \/ SessionNamed \/ OnChannelOpen \/ TimerFires
    \/ TeardownChannel \/ ChannelLoggedOut
    \/ \E p \in Positions : Move(p)
    \/ \E a \in Peers, b \in BOOLEAN : SetPeerVolume(a, b) \/ OnMessage(a, b)

(* setInterval keeps firing *)
MessagesSpec == MessagesInit /\ [][MessagesNext]_messageVars /\ WF_messageVars(TimerFires)

-----------------------------------------------------------------------------
(* Properties *)

(* A session that has been told nothing yet, after a channel that opened   *)
(* when it was no longer wanted and left its timer and memory behind.      *)
Inherits == late # None /\ dc = late + 1 /\ told = None

(* What is remembered as sent, and so not sent again, the session in use   *)
(* was told, unless that send threw or the memory is one left behind by a  *)
(* late channel; and from the next change on it is right again             *)
(* (voice_llwebrtc.js:362-371, 543-548).                                    *)
RememberedIsTold ==
    opened /\ lastPos # None => told = lastPos \/ unsent \/ Inherits

(* One timer sends the positions of a channel in use, neither none nor a   *)
(* second one that no teardown would end, also if a late channel has left  *)
(* its own running (voice_llwebrtc.js:496-501, 669).                        *)
OneTimer == timers <= 1 /\ (opened /\ ~awaiting => timers = 1)

(* What decides whether a position is sent, the memory and the timer, is   *)
(* right for the channel in use although both outlive channels.            *)
PositionsFollow == RememberedIsTold /\ OneTimer

(* "Position. Sent on change" (docs/PROTOCOL.md:146): where the avatar     *)
(* comes to rest is told the session in use (voice_llwebrtc.js:496-548),   *)
(* unless the place was remembered already or the send of it threw.        *)
PositionIsTold == \A n \in Connections, p \in Positions :
    dc = n /\ opened /\ position = p /\ lastPos # p
        ~> told = p \/ (unsent /\ lastPos = p) \/ position # p \/ dc # n \/ awaiting

(* The same without exception.  A session that was told no position is     *)
(* "deliberately not mixed" (docs/TROUBLESHOOTING.md:61).                   *)
RestIsTold == \A n \in Connections, p \in Positions :
    dc = n /\ opened /\ position = p
        ~> told = p \/ position # p \/ dc # n \/ awaiting

(* "Re-assert the user's saved choices once a channel exists to send them  *)
(* on" (voice_llwebrtc.js:596): of the participants shown.                  *)
ChoicesAreSent == opened => participants \cap saved \subseteq asked

(* "Parsing the roster, including l for leave" (docs/CLIENT.md:38): who    *)
(* has left is not shown.                                                  *)
LeaversAreRemoved == participants \cap left = {}
=============================================================================
