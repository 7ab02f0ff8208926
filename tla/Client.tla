------------------------------- MODULE Client -------------------------------
(***************************************************************************)
(* The reference browser client, class VoiceLLWebRTC: one object whose     *)
(* fields are shared by the asynchronous calls of its manager (start,      *)
(* switchRoom, stop) and by the callbacks of its peer connections.  What   *)
(* a call does between two awaits is an action.                            *)
(*                                                                         *)
(* this.dc is always the data channel of this.pc: both are assigned and    *)
(* nulled in the same section, so `pc` stands for both.  Each negotiation  *)
(* makes a new connection, and a session of the server is known by the     *)
(* connection whose offer it answers.                                      *)
(***************************************************************************)
EXTENDS Naturals, FiniteSets

CONSTANTS
    Conns,      \* RTCPeerConnection objects
    Rooms,      \* room keys
    Agents,     \* avatars the server may report
    Join, Leave,    \* the manager's two calls that may be in progress
    Overlap     \* whether the manager may stop before a start has returned,
                \* and start before a stop has come to its end

ASSUME ClientAssumption == Join # Leave /\ Overlap \in BOOLEAN

VARIABLES
    pc,             \* this.pc, this.dc
    state,          \* connectionState of each connection, "none" before it exists
    open,           \* connections whose data channel is open
    answered,       \* connections that were given their answer
    viewerSession,  \* this.viewerSession
    connected,      \* this.connected
    closing,        \* this._closing
    roomKey,        \* this._roomKey
    mic,            \* this.localStream is not null
    roster,         \* this.roster, each with the connection that reported it
    pending,        \* this._pendingCandidates, as the connections they are of
    iceTimer,       \* this._iceTimer is running
    call,           \* progress of the calls
    on,             \* whether the manager wants voice
    posted,         \* history: candidates posted, with the session named
    learned,        \* history: session ids received
    ended, unheard  \* history: those whose logout reached the server, or did not

fields == <<pc, viewerSession, connected, closing, roomKey, mic, roster, pending, iceTimer>>
network == <<state, open, answered>>
history == <<posted, learned, ended, unheard>>
vars == <<fields, network, call, on, history>>

NoCall == [step |-> "idle", room |-> {}, conn |-> {}]

Call == [step : {"idle", "start", "mic", "offer", "provision", "answer", "logout"},
         room : SUBSET Rooms,   \* where switchRoom goes after its teardown
         conn : SUBSET Conns]   \* the connection negotiated, or of the session logged out of

TypeOK ==
    /\ pc \subseteq Conns /\ viewerSession \subseteq Conns
    /\ state \in [Conns -> {"none", "new", "connected", "lost", "closed"}]
    /\ open \subseteq Conns /\ answered \subseteq Conns
    /\ connected \in BOOLEAN /\ closing \in BOOLEAN /\ mic \in BOOLEAN
    /\ roomKey \subseteq Rooms
    /\ roster \subseteq Agents \X Conns
    /\ pending \subseteq Conns /\ iceTimer \in BOOLEAN
    /\ call \in [{Join, Leave} -> Call]
    /\ on \in BOOLEAN
    /\ posted \subseteq Conns \X Conns
    /\ {learned, ended, unheard} \subseteq SUBSET Conns

Init ==
    /\ pc = {} /\ viewerSession = {}
    /\ state = [n \in Conns |-> "none"]
    /\ open = {} /\ answered = {}
    /\ connected = FALSE /\ closing = FALSE /\ mic = FALSE
    /\ roomKey = {} /\ roster = {} /\ pending = {} /\ iceTimer = FALSE
    /\ call = [c \in {Join, Leave} |-> NoCall]
    /\ on = FALSE
    /\ posted = {} /\ learned = {} /\ ended = {} /\ unheard = {}

Live(n) == state[n] \notin {"none", "closed"}

Return(c) == call' = [call EXCEPT ![c] = NoCall]

-----------------------------------------------------------------------------
(* _teardown: up to the logout request, and from its answer on.  The       *)
(* manager's stop is the one teardown that gives up the microphone.        *)

(* Fault: the roster is left as it is. *)
CloseKeepingRoster(keepMic) ==
    /\ pc' = {}
    /\ state' = [n \in Conns |-> IF n \in pc THEN "closed" ELSE state[n]]
    /\ open' = open \ pc
    /\ mic' = (mic /\ keepMic)
    /\ UNCHANGED roster

(* Fault: a connection that has not come up is dropped and not closed. *)
CloseConnected(keepMic) ==
    /\ pc' = {} /\ roster' = {}
    /\ state' = [n \in Conns |-> IF n \in pc /\ state[n] # "new" THEN "closed" ELSE state[n]]
    /\ open' = open \ pc
    /\ mic' = (mic /\ keepMic)

Close(keepMic) ==
    /\ pc' = {} /\ roster' = {}
    /\ state' = [n \in Conns |-> IF n \in pc THEN "closed" ELSE state[n]]
    /\ open' = open \ pc
    /\ mic' = (mic /\ keepMic)

(* switchRoom goes on with start, everything else returns *)
Continue(c, room) ==
    call' = [call EXCEPT ![c] =
               IF room = {} THEN NoCall ELSE [step |-> "start", room |-> room, conn |-> {}]]

(* The request that ends the session in use is made, and awaited *)
Logout(c, room) ==
    call' = [call EXCEPT ![c] = [step |-> "logout", room |-> room, conn |-> viewerSession]]

(* Fault: with no session to log out of there is nothing to tear down. *)
TeardownSession(c, room) ==
    /\ closing' = TRUE /\ connected' = FALSE
    /\ pending' = {} /\ iceTimer' = FALSE
    /\ IF viewerSession # {} THEN Logout(c, room) ELSE Continue(c, room)
    /\ UNCHANGED <<pc, state, open, mic, roster, viewerSession, roomKey, answered, history>>

(* Fault: only a session that is connected is logged out. *)
TeardownConnected(c, room) ==
    /\ closing' = TRUE /\ connected' = FALSE
    /\ pending' = {} /\ iceTimer' = FALSE
    /\ IF viewerSession # {} /\ connected
         THEN /\ Logout(c, room)
              /\ UNCHANGED <<pc, state, open, mic, roster, viewerSession>>
         ELSE /\ viewerSession' = {}
              /\ Close(c = Join) /\ Continue(c, room)
    /\ UNCHANGED <<roomKey, answered, history>>

Teardown(c, room) ==
    /\ closing' = TRUE /\ connected' = FALSE
    /\ pending' = {} /\ iceTimer' = FALSE
    /\ IF viewerSession # {}
         THEN Logout(c, room) /\ UNCHANGED <<pc, state, open, mic, roster>>
         ELSE Close(c = Join) /\ Continue(c, room)
    /\ UNCHANGED <<viewerSession, roomKey, answered, history>>

(* The client goes on as if the session had ended also when it has not:    *)
(* the capability is not granted and nothing is sent, or the request fails *)
LoggedOut(c) ==
    /\ call[c].step = "logout"
    /\ \/ ended' = ended \cup call[c].conn /\ UNCHANGED unheard
       \/ unheard' = unheard \cup call[c].conn /\ UNCHANGED ended
    /\ viewerSession' = {}
    /\ Close(c = Join) /\ Continue(c, call[c].room)
    /\ UNCHANGED <<connected, closing, roomKey, pending, iceTimer, answered, on, posted, learned>>

-----------------------------------------------------------------------------
(* start and _negotiate *)

(* Candidates are kept until the session they belong to has a name *)
Flush ==
    IF viewerSession = {} THEN UNCHANGED <<pending, posted>>
    ELSE pending' = {} /\ posted' = posted \cup (pending \X viewerSession)

NewConnection(c) == \E n \in Conns :
    /\ state[n] = "none"
    /\ pc' = {n}
    /\ state' = [state EXCEPT ![n] = "new"]
    /\ call' = [call EXCEPT ![c] = [step |-> "offer", room |-> {}, conn |-> {n}]]

(* Fault: _closing is not reset. *)
StartClosing(c, room) ==
    /\ roomKey' = room
    /\ \/ Return(c) /\ UNCHANGED <<pc, state>>
       \/ mic /\ NewConnection(c)
       \/ /\ ~mic
          /\ call' = [call EXCEPT ![c] = [step |-> "mic", room |-> {}, conn |-> {}]]
          /\ UNCHANGED <<pc, state>>
    /\ UNCHANGED <<closing, viewerSession, connected, mic, roster, pending, iceTimer, open, answered, history>>

(* The region may not have granted the capability yet: start throws *)
StartIn(c, room) ==
    /\ closing' = FALSE
    /\ roomKey' = room
    /\ \/ Return(c) /\ UNCHANGED <<pc, state>>
       \/ mic /\ NewConnection(c)
       \/ /\ ~mic
          /\ call' = [call EXCEPT ![c] = [step |-> "mic", room |-> {}, conn |-> {}]]
          /\ UNCHANGED <<pc, state>>
    /\ UNCHANGED <<viewerSession, connected, mic, roster, pending, iceTimer, open, answered, history>>

MicGranted(c) ==
    /\ call[c].step = "mic"
    /\ mic' = TRUE
    /\ NewConnection(c)
    /\ UNCHANGED <<viewerSession, connected, closing, roomKey, roster, pending, iceTimer,
                   open, answered, on, history>>

(* createOffer is resumed with whatever connection is current by then *)
Offered(c) ==
    /\ call[c].step = "offer"
    /\ IF pc = call[c].conn
         THEN call' = [call EXCEPT ![c].step = "provision"]
         ELSE Return(c)
    /\ UNCHANGED <<fields, network, on, history>>

Refused(c) ==
    /\ call[c].step = "provision"
    /\ Teardown(c, {})
    /\ UNCHANGED on

(* With this.pc gone, the call of setRemoteDescription throws *)
Answered(c) ==
    /\ call[c].step = "provision"
    /\ viewerSession' = call[c].conn
    /\ learned' = learned \cup call[c].conn
    /\ IF pc = {} THEN Return(c) ELSE call' = [call EXCEPT ![c].step = "answer"]
    /\ UNCHANGED <<pc, connected, closing, roomKey, mic, roster, pending, iceTimer,
                   network, on, posted, ended, unheard>>

Negotiated(c) ==
    /\ call[c].step = "answer"
    /\ answered' = answered \cup (call[c].conn \cap pc)
    /\ Flush
    /\ Return(c)
    /\ UNCHANGED <<pc, viewerSession, connected, closing, roomKey, mic, roster, iceTimer,
                   state, open, on, learned, ended, unheard>>

(* Whatever was awaited is rejected, and the call with it *)
Rejected(c) ==
    /\ call[c].step \in {"mic", "offer", "provision", "answer"}
    /\ Return(c)
    /\ UNCHANGED <<fields, network, on, history>>

-----------------------------------------------------------------------------
(* The manager, of which only the calls it makes are known: it switches    *)
(* rooms as the agent moves, and retries a switchRoom that was rejected.   *)

Start(room) ==
    /\ ~on /\ call[Join].step = "idle"
    /\ Overlap \/ call[Leave].step = "idle"
    /\ on' = TRUE
    /\ StartIn(Join, {room})

Restart ==
    /\ call[Join].step = "start"
    /\ StartIn(Join, call[Join].room)
    /\ UNCHANGED on

SwitchRoom(room) ==
    /\ on /\ call[Join].step = "idle"
    /\ ~(roomKey = {room} /\ connected)
    /\ Teardown(Join, {room})
    /\ UNCHANGED on

Stop ==
    /\ on /\ call[Leave].step = "idle"
    /\ Overlap \/ call[Join].step = "idle"
    /\ on' = FALSE
    /\ Teardown(Leave, {})

-----------------------------------------------------------------------------
(* Callbacks; each looks at the object's fields as they are, whichever     *)
(* connection it comes from.                                               *)

(* Fault: candidates are taken while closing. *)
CandidateAlways(n) ==
    /\ Live(n)
    /\ pending' = pending \cup {n} /\ iceTimer' = TRUE
    /\ UNCHANGED <<pc, viewerSession, connected, closing, roomKey, mic, roster, network, call, on, history>>

Candidate(n) ==
    /\ Live(n)
    /\ ~closing
    /\ pending' = pending \cup {n} /\ iceTimer' = TRUE
    /\ UNCHANGED <<pc, viewerSession, connected, closing, roomKey, mic, roster, network, call, on, history>>

IceTimer ==
    /\ iceTimer
    /\ iceTimer' = FALSE
    /\ Flush
    /\ UNCHANGED <<pc, viewerSession, connected, closing, roomKey, mic, roster,
                   network, call, on, learned, ended, unheard>>

(* _onConnectionState reads the state of this.pc *)
ConnectionState(n, s) ==
    /\ Live(n) /\ state[n] # s
    /\ s = "connected" => n \in answered
    /\ state' = [state EXCEPT ![n] = s]
    /\ connected' = IF \E p \in pc : state'[p] = "connected" THEN TRUE
                    ELSE IF \E p \in pc : state'[p] = "lost" THEN FALSE ELSE connected
    /\ UNCHANGED <<pc, viewerSession, closing, roomKey, mic, roster, pending, iceTimer,
                   open, answered, call, on, history>>

ChannelOpens(n) ==
    /\ Live(n) /\ n \in answered \ open
    /\ open' = open \cup {n}
    /\ UNCHANGED <<fields, state, answered, call, on, history>>

(* Every entry makes its agent a participant, whatever else it says *)
RosterMessage(n, a) ==
    /\ n \in open
    /\ \A e \in roster : e[1] # a
    /\ roster' = roster \cup {<<a, n>>}
    /\ UNCHANGED <<pc, viewerSession, connected, closing, roomKey, mic, pending, iceTimer,
                   network, call, on, history>>

-----------------------------------------------------------------------------

CallStep(c) ==
    \/ LoggedOut(c) \/ MicGranted(c) \/ Offered(c) \/ Refused(c)
    \/ Answered(c) \/ Negotiated(c) \/ Rejected(c)

Next ==
    \/ \E room \in Rooms : Start(room) \/ SwitchRoom(room)
    \/ Restart \/ Stop \/ IceTimer
    \/ CallStep(Join) \/ LoggedOut(Leave)
    \/ \E n \in Conns :
         \/ Candidate(n) \/ ChannelOpens(n)
         \/ \E s \in {"connected", "lost"} : ConnectionState(n, s)
         \/ \E a \in Agents : RosterMessage(n, a)

Spec == Init /\ [][Next]_vars

-----------------------------------------------------------------------------
(* Properties *)

AtRest == \A c \in {Join, Leave} : call[c].step = "idle"

(* "ONE peer connection to a server" (voice_llwebrtc.js:7): a connection   *)
(* is never abandoned open by a switch, a refusal or a retry.              *)
OneConnection == \A n \in Conns : Live(n) => n \in pc

(* The client forgets a session whose id it was given only after it was    *)
(* told off, and if that did not reach the server, only with the           *)
(* connection closed, by which the server finds out (voice_llwebrtc.js:    *)
(* 666-703, session.rs:195): no ghost is left that neither side ends.      *)
SessionsEnded ==
    learned \subseteq viewerSession \cup ended \cup {n \in unheard : state[n] = "closed"}

(* "Tell the server first, while the session still exists"                 *)
(* (voice_llwebrtc.js:674): of every session it gives up.                  *)
SessionsLoggedOut == learned \subseteq viewerSession \cup ended

(* Candidates are posted for the session of the connection that gathered   *)
(* them (voice_llwebrtc.js:300-346), although they are kept in one list,   *)
(* batched by a timer and posted under whatever session is current.        *)
CandidatesMatch == \A e \in posted : e[1] = e[2]

(* While a connection is in use and nothing tears it down, its candidates  *)
(* are not taken for those of a closing one (voice_llwebrtc.js:301).       *)
CandidatesTaken ==
    pc # {} /\ (\A c \in {Join, Leave} : call[c].step # "logout") => ~closing

(* The participants shown are those of the room the client is in: none     *)
(* reported by an earlier connection survives it (voice_llwebrtc.js:709).  *)
RosterIsCurrent == \A e \in roster : e[2] \in pc

(* Once voice is switched off and the calls have ended, microphone,        *)
(* connection and session are given up.                                    *)
QuietWhenOff == ~on /\ AtRest => ~mic /\ pc = {} /\ viewerSession = {}

(* No connection outlives the one in use, nor, with microphone and         *)
(* session, the use of voice.                                              *)
NothingOutlives == OneConnection /\ QuietWhenOff

(* Candidates are posted under the session they are of, and those of a     *)
(* connection in use are not discarded as a closing one's.                 *)
CandidatesArrive == CandidatesMatch /\ CandidatesTaken

(* switchRoom skips a room "only when we are ALREADY CONNECTED" to it      *)
(* (voice_llwebrtc.js:649): the flag it tests is not set without a         *)
(* connection.                                                             *)
ConnectedHasConnection == connected => pc # {}
=============================================================================
