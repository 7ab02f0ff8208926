------------------------------ MODULE Requests ------------------------------
(***************************************************************************)
(* The JSON-RPC requests the region forwards: their envelope, their        *)
(* fields, the order in which they are judged, and what is left behind     *)
(* when one is refused, abandoned or repeated.                             *)
(*                                                                         *)
(* VoiceService takes a session apart lock by lock; here drop_session is   *)
(* one step, followed by an await, and requests are detailed instead.      *)
(***************************************************************************)
EXTENDS Integers, FiniteSets, Functions

CONSTANTS
    Tasks,          \* HTTP connections, one request each at a time
    Ids,            \* session ids
    Viewers,        \* agents, and the viewers they use
    Scenes, Groups, \* regions, and channels of group calls
    Messages,       \* requests that may arrive
    MaxSessions,    \* MAX_SESSIONS
    IntRange        \* 2^32, the number of values of an i32

Optional(S) == {{}} \cup {{x} : x \in S}

(* A field that is absent, of the wrong type or filtered out by the parser *)
(* is an empty set, or the default the parser gives it.                    *)
Message == [
    form : {"get", "put", "oversize", "garbled", "unknown", "provision", "signaling"},
    from : Viewers,             \* the viewer the region speaks for
    userID : Optional(Viewers), \* empty when the region leaves it out
    scene : Scenes,
    server : {"absent", "webrtc", "other"},     \* voice_server_type
    logout : BOOLEAN,
    named : BOOLEAN,            \* whether it names a viewer_session
    jsep : {"absent", "offer", "answer", "no sdp"},
    channelType : {"absent", "local", "multiagent", "other"},
    parcel : Int,               \* parcel_local_id, a JSON integer
    channel : Optional(Groups)]

ASSUME RequestsAssumption ==
    /\ Messages \subseteq Message
    /\ \A m \in Messages : m.userID \subseteq {m.from}
    /\ MaxSessions \in Nat \ {0}
    /\ IntRange \in Nat \ {0}

VARIABLES
    live,       \* registered sessions, with what is known of them
    task,       \* the request each task works on
    reply,      \* each task's answer to its last request
    told,       \* sessions each viewer has been told of
    used        \* session ids drawn so far

vars == <<live, task, reply, told, used>>

NoTask == [step |-> "idle", msg |-> {}, old |-> {}, dropped |-> {}, new |-> {}]
NoReply == [status |-> 0, kind |-> "none", new |-> {}]

TypeOK ==
    /\ DOMAIN live \subseteq used /\ used \subseteq Ids
    /\ \A s \in DOMAIN live : live[s].wanted \in Messages /\ live[s].old \in Optional(Ids)
    /\ \A t \in Tasks :
         /\ task[t].step \in {"idle", "drop", "dropped", "check", "establish", "signal"}
         /\ task[t].msg \in Optional(Messages)
         /\ task[t].old \in Optional(Ids) /\ task[t].new \in Optional(Ids)
         /\ task[t].dropped \subseteq task[t].old
         /\ reply[t].status \in {0, 200, 405} /\ reply[t].kind \in {"none", "result", "error"}
         /\ reply[t].new \in Optional(Ids)
    /\ told \in [Viewers -> SUBSET Ids]

Init ==
    /\ live = [s \in {} |-> {}]
    /\ task = [t \in Tasks |-> NoTask]
    /\ reply = [t \in Tasks |-> NoReply]
    /\ told = [v \in Viewers |-> {}]
    /\ used = {}

-----------------------------------------------------------------------------
(* Envelope and fields                                                     *)

(* ProvisionRequest::parse refuses; an offer without sdp is no offer *)
Malformed(m) == m.server = "other" \/ m.jsep = "answer"

ParcelIn32Bits(n) == ((n + IntRange \div 2) % IntRange) - (IntRange \div 2)

IsMultiAgent(m) == m.channelType = "multiagent"

(* Fault: the channel of a spatial request counts too. *)
RoomKeyMixed(m) ==
    IF m.channel # {} THEN [channel |-> m.channel]
    ELSE [region |-> m.scene, parcel |-> ParcelIn32Bits(m.parcel)]

(* An unknown channel type is taken for local *)
RoomKey(m) ==
    IF IsMultiAgent(m) THEN [channel |-> m.channel]
    ELSE [region |-> m.scene, parcel |-> ParcelIn32Bits(m.parcel)]

-----------------------------------------------------------------------------

Answer(t, kind) ==
    /\ task' = [task EXCEPT ![t] = NoTask]
    /\ reply' = [reply EXCEPT ![t] = [status |-> 200, kind |-> kind, new |-> task[t].new]]

(* handle and rpc_response: a health query and everything that is no known *)
(* call is answered at once.                                               *)
Receive(t, m) ==
    /\ task[t].step = "idle"
    /\ m.form \notin {"provision", "signaling"}
    /\ reply' = [reply EXCEPT ![t] =
         [status |-> IF m.form = "put" THEN 405 ELSE 200,
          kind |-> CASE m.form = "get" -> "result" [] m.form = "put" -> "none" [] OTHER -> "error",
          new |-> {}]]
    /\ UNCHANGED <<live, task, told, used>>

Begin(t, m, old, step) ==
    /\ task' = [task EXCEPT ![t] = [NoTask EXCEPT !.step = step, !.msg = {m}, !.old = old]]
    /\ reply' = [reply EXCEPT ![t] = NoReply]

(* A viewer names a session it has been told of *)
Naming(m) == IF m.named THEN {{s} : s \in told[m.from]} ELSE {{}}

Refuse(t) ==
    /\ reply' = [reply EXCEPT ![t] = [status |-> 200, kind |-> "error", new |-> {}]]
    /\ UNCHANGED task

(* Fault: the old transport is kept until the new one is up. *)
BeginProvisionKeeping(t, m) == \E old \in Naming(m) :
    /\ task[t].step = "idle" /\ m.form = "provision"
    /\ CASE Malformed(m) \/ (m.logout /\ old = {}) -> Refuse(t)
         [] ~Malformed(m) /\ m.logout /\ old # {} -> Begin(t, m, old, "drop")
         [] ~Malformed(m) /\ ~m.logout /\ m.jsep # "offer" -> Refuse(t)
         [] OTHER -> Begin(t, m, old, "check")
    /\ UNCHANGED <<live, told, used>>

BeginProvision(t, m) == \E old \in Naming(m) :
    /\ task[t].step = "idle" /\ m.form = "provision"
    /\ CASE Malformed(m) \/ (m.logout /\ old = {}) -> Refuse(t)
         [] ~Malformed(m) /\ m.logout /\ old # {} -> Begin(t, m, old, "drop")
         [] ~Malformed(m) /\ ~m.logout /\ m.jsep # "offer" -> Refuse(t)
         [] OTHER -> Begin(t, m, old, IF old \subseteq DOMAIN live /\ old # {} THEN "drop" ELSE "check")
    /\ UNCHANGED <<live, told, used>>

(* drop_session up to its first await, for a logout or a renegotiation *)
Drop(t) ==
    /\ task[t].step = "drop"
    /\ live' = Restrict(live, DOMAIN live \ task[t].old)
    /\ task' = [task EXCEPT ![t].step = "dropped", ![t].dropped = task[t].old \cap DOMAIN live]
    /\ UNCHANGED <<reply, told, used>>

Dropped(t) == \E m \in task[t].msg :
    /\ task[t].step = "dropped"
    /\ IF m.logout THEN Answer(t, "result")
       ELSE task' = [task EXCEPT ![t].step = "check"] /\ UNCHANGED reply
    /\ UNCHANGED <<live, told, used>>

AtCapacity == Cardinality(DOMAIN live) >= MaxSessions

(* The rest of the judgement, up to the wait in establish *)
Check(t) == \E m \in task[t].msg :
    /\ task[t].step = "check"
    /\ IF AtCapacity \/ m.userID = {} \/ (IsMultiAgent(m) /\ m.channel = {})
         THEN Answer(t, "error") /\ UNCHANGED used
         ELSE \E s \in Ids \ used :
                /\ used' = used \cup {s}
                /\ task' = [task EXCEPT ![t].step = "establish", ![t].new = {s}]
                /\ UNCHANGED reply
    /\ UNCHANGED <<live, told>>

Registered(t, m) == [s \in task[t].new |->
    [agent |-> m.userID, room |-> RoomKey(m), wanted |-> m, old |-> task[t].old]]

(* Fault: the session is registered before its answer is read back. *)
EstablishFirst(t) == \E m \in task[t].msg :
    /\ task[t].step = "establish"
    /\ \/ /\ live' = [s \in DOMAIN live \cup task[t].new |->
                        IF s \in task[t].new THEN Registered(t, m)[s] ELSE live[s]]
          /\ Answer(t, "result")
          /\ told' \in {told, [told EXCEPT ![m.from] = @ \cup task[t].new]}
       \/ /\ live' = [s \in DOMAIN live \cup task[t].new |->
                        IF s \in task[t].new THEN Registered(t, m)[s] ELSE live[s]]
          /\ Answer(t, "error")
          /\ UNCHANGED told
    /\ UNCHANGED used

(* establish or answer_sdp may fail; the answer may be lost on its way *)
Establish(t) == \E m \in task[t].msg :
    /\ task[t].step = "establish"
    /\ \/ /\ live' = [s \in DOMAIN live \cup task[t].new |->
                        IF s \in task[t].new THEN Registered(t, m)[s] ELSE live[s]]
          /\ Answer(t, "result")
          /\ told' \in {told, [told EXCEPT ![m.from] = @ \cup task[t].new]}
       \/ /\ Answer(t, "error")
          /\ UNCHANGED <<live, told>>
    /\ UNCHANGED used

(* Candidates go to an endpoint that is there, or the call is refused *)
Signal(t, m) == \E id \in Naming(m) :
    /\ task[t].step = "idle" /\ m.form = "signaling"
    /\ reply' = [reply EXCEPT ![t] =
         [status |-> 200, kind |-> IF id # {} /\ id \subseteq DOMAIN live THEN "result" ELSE "error",
          new |-> {}]]
    /\ UNCHANGED <<live, task, told, used>>

(* The region gives up; the request stops at the await it is in *)
HangUp(t) ==
    /\ task[t].step \in {"dropped", "establish"}
    /\ task' = [task EXCEPT ![t] = NoTask]
    /\ UNCHANGED <<live, reply, told, used>>

Next ==
    \/ \E t \in Tasks : Drop(t) \/ Dropped(t) \/ Check(t) \/ Establish(t) \/ HangUp(t)
    \/ \E t \in Tasks, m \in Messages : Receive(t, m) \/ BeginProvision(t, m) \/ Signal(t, m)

Spec == Init /\ [][Next]_vars

-----------------------------------------------------------------------------
(* Properties *)

(* "Drop the old transport first so we never leave two peer connections    *)
(* fighting over one agent" (main.rs:150): a session is never live         *)
(* together with the one its request named.                                *)
ReplacedIsGone == \A s \in DOMAIN live : live[s].old \cap DOMAIN live = {}

(* A request that was answered with an error leaves no session behind, at  *)
(* whichever of its steps it failed (main.rs:201-216): the viewer has no   *)
(* id to end it with.                                                      *)
ErrorLeavesNothing == \A t \in Tasks :
    reply[t].kind = "error" => reply[t].new \cap DOMAIN live = {}

(* People meet exactly if they ask for the same place: the same parcel of  *)
(* the same region, or the same group whatever the region (room.rs:28-30). *)
SamePlace(m, n) ==
    IF IsMultiAgent(m) \/ IsMultiAgent(n)
      THEN IsMultiAgent(m) /\ IsMultiAgent(n) /\ m.channel = n.channel
      ELSE m.scene = n.scene /\ m.parcel = n.parcel
PeopleMeet == \A r, s \in DOMAIN live :
    live[r].room = live[s].room <=> SamePlace(live[r].wanted, live[s].wanted)

(* The same sentence of main.rs:150, of the sessions that came after: a    *)
(* renegotiation leaves one session in place of the old one.               *)
OneSuccessor == \A r, s \in DOMAIN live :
    live[r].old = live[s].old /\ live[r].old # {} => r = s

(* "Refuse politely ... instead of taking the service down for everyone    *)
(* already connected" (main.rs:159-161): who is refused for want of        *)
(* capacity was not connected when it asked.                               *)
CapacityRefusal(t) == task[t].step = "check" /\ AtCapacity /\ task'[t].step = "idle"
RefusalCostsNothing ==
    [][\A t \in Tasks : CapacityRefusal(t) => task[t].dropped = {}]_vars
=============================================================================
