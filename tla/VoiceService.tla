---------------------------- MODULE VoiceService ----------------------------
(***************************************************************************)
(* The server as a whole: concurrent provision and logout requests, the    *)
(* mixer loop that reaps dead transports and spawns one task per room, the *)
(* listener tasks those spawn, and drop_session, which requests and the    *)
(* mixer loop both execute.  It composes the registry of module Registry,  *)
(* one lock section per action, with the endpoint table.                   *)
(*                                                                         *)
(* A viewer is what its data channel has told it: `viewer[l]` is the set   *)
(* of avatars the viewer behind session l shows as present.                *)
(***************************************************************************)
EXTENDS Registry

CONSTANTS
    Requests,       \* concurrent JSON-RPC requests
    Mixer,          \* the mixer loop
    MaxSessions,    \* MAX_SESSIONS
    Hangups,        \* requests whose connection may go away
    Logouts,        \* sessions whose viewer may log out or re-provision
    Failures,       \* sessions whose transport may fail
    LossBeforeReply \* whether it may fail before the session is registered

ASSUME ServiceAssumption ==
    /\ Mixer \notin Requests
    /\ Readers = Requests \cup {Mixer}
    /\ MaxSessions \in Nat \ {0}
    /\ Hangups \subseteq Requests
    /\ Logouts \subseteq Sessions
    /\ Failures \subseteq Sessions
    /\ LossBeforeReply \in BOOLEAN

VARIABLES
    endpoints,  \* keys of App::endpoints
    channel,    \* each session's "SLData" data channel
    viewer,     \* avatars the viewer of a session shows
    request,    \* progress of provision, per request
    drop,       \* progress of drop_session, per task that may execute it
    mixer,      \* progress of the mixer loop
    inflight,   \* counter of unfinished room tasks
    roomTasks,  \* spawned room tasks
    jobs        \* their listener tasks, from the building of the output on

serviceVars == <<endpoints, channel, viewer, request, drop, mixer, inflight, roomTasks, jobs>>
vars == <<registryVars, serviceVars>>

-----------------------------------------------------------------------------

NoRequest == [step |-> "idle", new |-> {}]

RequestState == [step : {"idle", "check", "establish", "endpoint", "list", "register"},
                 new  : SUBSET Sessions]

NoDrop == [step |-> "idle", id |-> {}, ep |-> FALSE, gone |-> FALSE, todo |-> {}]

DropState == [step : {"idle", "endpoint", "registry", "removing", "close", "members", "notify"},
              id   : SUBSET Sessions,   \* the session dropped
              ep   : BOOLEAN,           \* endpoints.remove returned Some
              gone : BOOLEAN,           \* sessions.remove returned Some
              todo : SUBSET Sessions]   \* members still to be told

MixerState == [step : {"wait", "reap", "rooms"},
               dead : SUBSET Sessions,  \* still to be reaped
               keys : SUBSET Rooms,     \* still to be mixed
               pass : {0, 1}]           \* parity of the tick, to tell two apart

RoomTask == [room : Rooms, pass : {0, 1}, members : SUBSET Sessions, todo : SUBSET Sessions]

Job == [room : Rooms, pass : {0, 1}, listener : Sessions, joins : SUBSET Agents,
        step : {"lookup", "roster", "mix"}]

TypeOK ==
    /\ RegistryTypeOK
    /\ endpoints \subseteq Sessions
    /\ channel \in [Sessions -> {"none", "open", "closed"}]
    /\ viewer \in [Sessions -> SUBSET Agents]
    /\ request \in [Requests -> RequestState]
    /\ drop \in [Readers -> DropState]
    /\ mixer \in MixerState
    /\ inflight \in Nat
    /\ roomTasks \subseteq RoomTask
    /\ jobs \subseteq Job

Init ==
    /\ RegistryInit
    /\ endpoints = {}
    /\ channel = [s \in Sessions |-> "none"]
    /\ viewer = [s \in Sessions |-> {}]
    /\ request = [t \in Requests |-> NoRequest]
    /\ drop = [d \in Readers |-> NoDrop]
    /\ mixer = [step |-> "wait", dead |-> {}, keys |-> {}, pass |-> 0]
    /\ inflight = 0
    /\ roomTasks = {}
    /\ jobs = {}

CanReach(l) == l \in endpoints /\ channel[l] = "open"

-----------------------------------------------------------------------------
(* App::drop_session, executed by d *)

StartDrop(d, s) ==
    drop' = [drop EXCEPT ![d] = [NoDrop EXCEPT !.step = "endpoint", !.id = {s}]]

(* Fault: the endpoint is looked up, and removed after a pause. *)
RemoveLookedUpEndpoint(d, s) ==
    /\ drop[d].id = {s}
    /\ \/ /\ drop[d].step = "endpoint" /\ ~drop[d].ep /\ s \in endpoints
          /\ drop' = [drop EXCEPT ![d].ep = TRUE]
          /\ UNCHANGED endpoints
       \/ /\ drop[d].step = "endpoint" /\ (drop[d].ep \/ s \notin endpoints)
          /\ endpoints' = endpoints \ {s}
          /\ drop' = [drop EXCEPT ![d].step = "registry"]
    /\ UNCHANGED <<registryVars, channel, viewer, request, mixer, inflight, roomTasks, jobs>>

(* Fault: endpoints.get instead of endpoints.remove. *)
GetEndpoint(d, s) ==
    /\ drop[d].step = "endpoint" /\ drop[d].id = {s}
    /\ drop' = [drop EXCEPT ![d].step = "registry", ![d].ep = s \in endpoints]
    /\ UNCHANGED <<registryVars, endpoints, channel, viewer, request, mixer, inflight, roomTasks, jobs>>

RemoveEndpoint(d, s) ==
    /\ drop[d].step = "endpoint" /\ drop[d].id = {s}
    /\ endpoints' = endpoints \ {s}
    /\ drop' = [drop EXCEPT ![d].step = "registry", ![d].ep = s \in endpoints]
    /\ UNCHANGED <<registryVars, channel, viewer, request, mixer, inflight, roomTasks, jobs>>

(* Fault: nothing is removed for a session already marked closed. *)
RemoveUnlessClosed(d, s) ==
    /\ drop[d].step = "registry" /\ drop[d].id = {s}
    /\ \/ /\ s \notin closed
          /\ TakeSession(s)
          /\ drop' = [drop EXCEPT ![d].step = "removing"]
       \/ /\ s \notin bySession \/ s \in closed
          /\ drop' = [drop EXCEPT ![d].step = "close"]
          /\ UNCHANGED registryVars
    /\ UNCHANGED <<endpoints, channel, viewer, request, mixer, inflight, roomTasks, jobs>>

RemoveSession(d, s) ==
    /\ drop[d].step = "registry" /\ drop[d].id = {s}
    /\ \/ /\ TakeSession(s)
          /\ drop' = [drop EXCEPT ![d].step = "removing"]
       \/ /\ s \notin bySession
          /\ ~BySessionReadLocked
          /\ drop' = [drop EXCEPT ![d].step = "close"]
          /\ UNCHANGED registryVars
    /\ UNCHANGED <<endpoints, channel, viewer, request, mixer, inflight, roomTasks, jobs>>

ContinueRemove(d, s) ==
    /\ drop[d].step = "removing" /\ drop[d].id = {s}
    /\ \/ /\ RetainOthers(s) \/ BeginForget(s) \/ \E o \in Sessions : ForgetAt(s, o)
          /\ UNCHANGED drop
       \/ /\ FinishRemove(s)
          /\ drop' = [drop EXCEPT ![d].step = "close", ![d].gone = TRUE]
    /\ UNCHANGED <<endpoints, channel, viewer, request, mixer, inflight, roomTasks, jobs>>

CloseEndpoint(d, s) ==
    /\ drop[d].step = "close" /\ drop[d].id = {s}
    /\ IF drop[d].ep
         THEN ConnectionLost(s) /\ channel' = [channel EXCEPT ![s] = "closed"]
         ELSE UNCHANGED <<registryVars, channel>>
    /\ drop' = [drop EXCEPT ![d] = IF drop[d].gone THEN [@ EXCEPT !.step = "members"] ELSE NoDrop]
    /\ UNCHANGED <<endpoints, viewer, request, mixer, inflight, roomTasks, jobs>>

ReadRemaining(d, s) ==
    /\ drop[d].step = "members" /\ drop[d].id = {s}
    /\ MembersIds(d, RoomOf[s]) \/ MembersFilter(d)
    /\ UNCHANGED serviceVars

StillPresent(s, remaining) == \E m \in remaining : AgentOf[m] = AgentOf[s]

DecideNotice(d, s) ==
    /\ drop[d].step = "members" /\ drop[d].id = {s}
    /\ ReleaseSnap(d)
    /\ drop' = [drop EXCEPT ![d] =
                  IF StillPresent(s, snap[d].found)
                    THEN NoDrop
                    ELSE [@ EXCEPT !.step = "notify", !.todo = snap[d].found]]
    /\ UNCHANGED <<endpoints, channel, viewer, request, mixer, inflight, roomTasks, jobs>>

SendLeave(d, s, m) ==
    /\ drop[d].step = "notify" /\ drop[d].id = {s}
    /\ m \in drop[d].todo
    /\ viewer' = IF CanReach(m) THEN [viewer EXCEPT ![m] = @ \ {AgentOf[s]}] ELSE viewer
    /\ drop' = [drop EXCEPT ![d].todo = @ \ {m}]
    /\ UNCHANGED <<registryVars, endpoints, channel, request, mixer, inflight, roomTasks, jobs>>

FinishDrop(d) ==
    /\ drop[d].step = "notify" /\ drop[d].todo = {}
    /\ drop' = [drop EXCEPT ![d] = NoDrop]
    /\ UNCHANGED <<registryVars, endpoints, channel, viewer, request, mixer, inflight, roomTasks, jobs>>

DropStep(d) ==
    \/ \E s \in Sessions :
         \/ RemoveEndpoint(d, s) \/ RemoveSession(d, s) \/ ContinueRemove(d, s)
         \/ CloseEndpoint(d, s) \/ ReadRemaining(d, s) \/ DecideNotice(d, s)
         \/ \E m \in Sessions : SendLeave(d, s, m)
    \/ FinishDrop(d)

-----------------------------------------------------------------------------
(* App::provision *)

Idle(t) == request[t].step = "idle" /\ drop[t].step = "idle"

(* A uuid nothing in the server knows yet *)
Fresh(s) == stage[s] = "new" /\ \A t \in Requests : s \notin request[t].new

Logout(t, s) ==
    /\ Idle(t)
    /\ s \in Logouts /\ stage[s] \notin {"new", "pushed"}
    /\ StartDrop(t, s)
    /\ UNCHANGED <<registryVars, endpoints, channel, viewer, request, mixer, inflight, roomTasks, jobs>>

(* A viewer that names a session it holds already re-provisions it *)
Provision(t, s) ==
    /\ Idle(t) /\ Fresh(s)
    /\ request' = [request EXCEPT ![t] = [step |-> "check", new |-> {s}]]
    /\ \/ UNCHANGED drop
       \/ \E old \in Logouts \cap endpoints :
            /\ AgentOf[old] = AgentOf[s] /\ stage[old] \notin {"new", "pushed"}
            /\ StartDrop(t, old)
    /\ UNCHANGED <<registryVars, endpoints, channel, viewer, mixer, inflight, roomTasks, jobs>>

(* Fault: one session too many is let in. *)
CheckCapacityLate(t) ==
    /\ request[t].step = "check" /\ drop[t].step = "idle"
    /\ request' = [request EXCEPT ![t] =
                     IF Cardinality(bySession) > MaxSessions
                       THEN NoRequest ELSE [@ EXCEPT !.step = "establish"]]
    /\ UNCHANGED <<registryVars, endpoints, channel, viewer, drop, mixer, inflight, roomTasks, jobs>>

CheckCapacity(t) ==
    /\ request[t].step = "check" /\ drop[t].step = "idle"
    /\ request' = [request EXCEPT ![t] =
                     IF Cardinality(bySession) >= MaxSessions
                       THEN NoRequest ELSE [@ EXCEPT !.step = "establish"]]
    /\ UNCHANGED <<registryVars, endpoints, channel, viewer, drop, mixer, inflight, roomTasks, jobs>>

(* session::establish either brings a transport up or fails the request *)
Establish(t) ==
    /\ request[t].step = "establish"
    /\ \/ request' = [request EXCEPT ![t].step = "endpoint"]
       \/ request' = [request EXCEPT ![t] = NoRequest]
    /\ UNCHANGED <<registryVars, endpoints, channel, viewer, drop, mixer, inflight, roomTasks, jobs>>

InsertEndpoint(t, s) ==
    /\ request[t].step = "endpoint" /\ request[t].new = {s}
    /\ endpoints' = endpoints \cup {s}
    /\ request' = [request EXCEPT ![t].step = "list"]
    /\ UNCHANGED <<registryVars, channel, viewer, drop, mixer, inflight, roomTasks, jobs>>

InsertInRegistry(t, s) ==
    /\ request[t].new = {s}
    /\ \/ /\ request[t].step = "list"
          /\ PushToRoom(s)
          /\ request' = [request EXCEPT ![t].step = "register"]
       \/ /\ request[t].step = "register"
          /\ InsertSession(s)
          /\ request' = [request EXCEPT ![t] = NoRequest]
    /\ UNCHANGED <<endpoints, channel, viewer, drop, mixer, inflight, roomTasks, jobs>>

(* The http server drops the future of a request whose connection has      *)
(* gone; it stops at the await it is in, in establish or in drop_session.  *)
Abandon(t) ==
    /\ t \in Hangups
    /\ request[t].step = "establish" \/ drop[t].step \in {"close", "notify"}
    /\ request' = [request EXCEPT ![t] = NoRequest]
    /\ drop' = [drop EXCEPT ![t] = NoDrop]
    /\ UNCHANGED <<registryVars, endpoints, channel, viewer, mixer, inflight, roomTasks, jobs>>

RequestStep(t) ==
    \/ CheckCapacity(t) \/ Establish(t)
    \/ \E s \in Sessions : InsertEndpoint(t, s) \/ InsertInRegistry(t, s)

-----------------------------------------------------------------------------
(* The transport's callbacks (Handler) *)

Established(s) == \E t \in Requests :
    request[t].new = {s} /\ request[t].step \in {"endpoint", "list", "register"}

(* The viewer cannot complete the handshake before it has the answer *)
ChannelOpens(s) ==
    /\ channel[s] = "none"
    /\ stage[s] \notin {"new", "pushed"} /\ s \notin closed
    /\ channel' = [channel EXCEPT ![s] = "open"]
    /\ UNCHANGED <<registryVars, endpoints, viewer, request, drop, mixer, inflight, roomTasks, jobs>>

ConnectionFails(s) ==
    /\ s \in Failures \ closed
    /\ stage[s] \notin {"new", "pushed"} \/ (LossBeforeReply /\ Established(s))
    /\ ConnectionLost(s)
    /\ UNCHANGED serviceVars

-----------------------------------------------------------------------------
(* mixer_loop; a tick that finds a room task unfinished is skipped and     *)
(* changes nothing.                                                        *)

(* Fault: no tick is skipped. *)
TickAlways ==
    /\ mixer.step = "wait"
    /\ mixer' = [mixer EXCEPT !.step = "reap", !.dead = endpoints \cap closed, !.pass = 1 - @]
    /\ UNCHANGED <<registryVars, endpoints, channel, viewer, request, drop, inflight, roomTasks, jobs>>

(* Fault: only endpoints with an open data channel are looked at. *)
TickOpenOnly ==
    /\ mixer.step = "wait"
    /\ inflight = 0
    /\ mixer' = [mixer EXCEPT !.step = "reap", !.pass = 1 - @,
                              !.dead = {s \in endpoints \cap closed : channel[s] = "open"}]
    /\ UNCHANGED <<registryVars, endpoints, channel, viewer, request, drop, inflight, roomTasks, jobs>>

Tick ==
    /\ mixer.step = "wait"
    /\ inflight = 0
    /\ mixer' = [mixer EXCEPT !.step = "reap", !.dead = endpoints \cap closed, !.pass = 1 - @]
    /\ UNCHANGED <<registryVars, endpoints, channel, viewer, request, drop, inflight, roomTasks, jobs>>

Reap(s) ==
    /\ mixer.step = "reap" /\ drop[Mixer].step = "idle"
    /\ s \in mixer.dead
    /\ mixer' = [mixer EXCEPT !.dead = @ \ {s}]
    /\ StartDrop(Mixer, s)
    /\ UNCHANGED <<registryVars, endpoints, channel, viewer, request, inflight, roomTasks, jobs>>

ListRooms ==
    /\ mixer.step = "reap" /\ drop[Mixer].step = "idle"
    /\ mixer.dead = {}
    /\ mixer' = [mixer EXCEPT !.step = "rooms", !.keys = RoomKeys]
    /\ UNCHANGED <<registryVars, endpoints, channel, viewer, request, drop, inflight, roomTasks, jobs>>

ReadMembers(r) ==
    /\ mixer.step = "rooms"
    /\ \/ /\ r \in mixer.keys
          /\ MembersIds(Mixer, r)
          /\ mixer' = [mixer EXCEPT !.keys = @ \ {r}]
       \/ /\ snap[Mixer].room = {r}
          /\ MembersFilter(Mixer)
          /\ UNCHANGED mixer
    /\ UNCHANGED <<endpoints, channel, viewer, request, drop, inflight, roomTasks, jobs>>

(* Fault: a room of two is taken for a lone participant's. *)
DrainUpToTwo(r) ==
    /\ mixer.step = "rooms" /\ snap[Mixer].room = {r}
    /\ ReleaseSnap(Mixer)
    /\ IF Cardinality(snap[Mixer].found) <= 2
         THEN UNCHANGED <<inflight, roomTasks>>
         ELSE /\ inflight' = inflight + 1
              /\ roomTasks' = roomTasks \cup
                   {[room |-> r, pass |-> mixer.pass,
                     members |-> snap[Mixer].found, todo |-> snap[Mixer].found]}
    /\ UNCHANGED <<endpoints, channel, viewer, request, drop, mixer, jobs>>

(* Fault: the task is spawned without counting it. *)
MixUncounted(r) ==
    /\ mixer.step = "rooms" /\ snap[Mixer].room = {r}
    /\ ReleaseSnap(Mixer)
    /\ roomTasks' = IF Cardinality(snap[Mixer].found) < 2 THEN roomTasks
                    ELSE roomTasks \cup
                      {[room |-> r, pass |-> mixer.pass,
                        members |-> snap[Mixer].found, todo |-> snap[Mixer].found]}
    /\ UNCHANGED <<endpoints, channel, viewer, request, drop, mixer, inflight, jobs>>

(* A room with nobody to mix for is drained and gets no task *)
MixOrDrain(r) ==
    /\ mixer.step = "rooms" /\ snap[Mixer].room = {r}
    /\ ReleaseSnap(Mixer)
    /\ IF Cardinality(snap[Mixer].found) < 2
         THEN UNCHANGED <<inflight, roomTasks>>
         ELSE /\ inflight' = inflight + 1
              /\ roomTasks' = roomTasks \cup
                   {[room |-> r, pass |-> mixer.pass,
                     members |-> snap[Mixer].found, todo |-> snap[Mixer].found]}
    /\ UNCHANGED <<endpoints, channel, viewer, request, drop, mixer, jobs>>

EndPass ==
    /\ mixer.step = "rooms" /\ mixer.keys = {} /\ snap[Mixer].phase = "idle"
    /\ mixer' = [mixer EXCEPT !.step = "wait"]
    /\ UNCHANGED <<registryVars, endpoints, channel, viewer, request, drop, inflight, roomTasks, jobs>>

MixerStep ==
    \/ Tick \/ ListRooms \/ EndPass
    \/ \E s \in Sessions : Reap(s)
    \/ \E r \in Rooms : ReadMembers(r) \/ MixOrDrain(r)

-----------------------------------------------------------------------------
(* A room task: mix_room and build_roster for one listener after another,  *)
(* then one task per listener, then the end of the inflight period.        *)

JobsOf(task) == {j \in jobs : j.room = task.room /\ j.pass = task.pass}

BuildOutput(task, l) ==
    /\ l \in task.todo
    /\ MarkAnnounced(l, task.members)
    /\ roomTasks' = (roomTasks \ {task}) \cup {[task EXCEPT !.todo = @ \ {l}]}
    /\ jobs' = jobs \cup
         {[room |-> task.room, pass |-> task.pass, listener |-> l, step |-> "lookup",
           joins |-> {AgentOf[s] : s \in task.members} \ announced[l]]}
    /\ UNCHANGED <<endpoints, channel, viewer, request, drop, mixer, inflight>>

(* The endpoint may have gone since, or its channel not be open yet *)
LookUp(task, j) ==
    /\ task.todo = {}
    /\ j.step = "lookup"
    /\ jobs' = (jobs \ {j}) \cup
         (IF ~CanReach(j.listener) THEN {}
          ELSE {[j EXCEPT !.step = IF j.joins = {} THEN "mix" ELSE "roster"]})
    /\ UNCHANGED <<registryVars, endpoints, channel, viewer, request, drop, mixer, inflight, roomTasks>>

SendRoster(task, j) ==
    /\ j.step = "roster"
    /\ viewer' = IF channel[j.listener] = "open"
                   THEN [viewer EXCEPT ![j.listener] = @ \cup j.joins] ELSE viewer
    /\ jobs' = (jobs \ {j}) \cup {[j EXCEPT !.step = "mix"]}
    /\ UNCHANGED <<registryVars, endpoints, channel, request, drop, mixer, inflight, roomTasks>>

SendMix(task, j) ==
    /\ j.step = "mix"
    /\ jobs' = jobs \ {j}
    /\ UNCHANGED <<registryVars, endpoints, channel, viewer, request, drop, mixer, inflight, roomTasks>>

FinishRoom(task) ==
    /\ task.todo = {} /\ JobsOf(task) = {}
    /\ roomTasks' = roomTasks \ {task}
    /\ inflight' = inflight - 1
    /\ UNCHANGED <<registryVars, endpoints, channel, viewer, request, drop, mixer, jobs>>

RoomStep(task) ==
    \/ \E l \in Sessions : BuildOutput(task, l)
    \/ \E j \in JobsOf(task) : LookUp(task, j) \/ SendRoster(task, j) \/ SendMix(task, j)
    \/ FinishRoom(task)

-----------------------------------------------------------------------------

Next ==
    \/ \E d \in Readers : DropStep(d)
    \/ \E t \in Requests :
         \/ RequestStep(t) \/ Abandon(t)
         \/ \E s \in Sessions : Logout(t, s) \/ Provision(t, s)
    \/ \E s \in Sessions : ChannelOpens(s) \/ ConnectionFails(s)
    \/ MixerStep
    \/ \E task \in roomTasks : RoomStep(task)

Spec == Init /\ [][Next]_vars

(* Every spawned task is polled until it ends, and a send completes; no    *)
(* request has to arrive, no channel to open, no connection to fail.       *)
Fairness ==
    /\ WF_vars(MixerStep)
    /\ \A d \in Readers : WF_vars(DropStep(d))
    /\ \A t \in Requests : WF_vars(RequestStep(t))
    /\ WF_vars(\E task \in roomTasks : RoomStep(task))

FairSpec == Spec /\ Fairness

-----------------------------------------------------------------------------
(* Properties *)

(* An endpoint in the table belongs to a registered session or to one      *)
(* whose registration is under way: drop_session takes the endpoint out    *)
(* first (main.rs:96-97) and provision puts it in first (main.rs:215-216), *)
(* so a transport is never left that no logout or reap could find.         *)
EndpointIsBacked ==
    \A s \in endpoints : s \in bySession \/ Established(s)

(* drop_session tears a session down completely (main.rs:93): a registered *)
(* session has an endpoint, or the task dropping it has yet to take it out *)
(* of the registry.  A session without an endpoint would never be reaped,  *)
(* as the reaper looks for dead endpoints (main.rs:306-313).               *)
RegisteredHasEndpoint ==
    \A s \in bySession :
        s \in endpoints \/ \E d \in Readers : drop[d].id = {s} /\ drop[d].step = "registry"

(* Outstanding work for one endpoint never overlaps itself                 *)
(* (main.rs:272-277): a listener has at most one task, over all rooms and  *)
(* ticks.                                                                  *)
NoOverlap ==
    \A j, k \in jobs : j.listener = k.listener => j = k

(* drop_session may run twice at once for a session, by a logout and by    *)
(* the reaper; only one of the two closes its transport and only one tells *)
(* the room.                                                               *)
TornDownOnce ==
    \A d, e \in Readers : d # e /\ drop[d].id = drop[e].id =>
        ~(drop[d].ep /\ drop[e].ep) /\ ~(drop[d].gone /\ drop[e].gone)

(* The ceiling on sessions is checked at one time and used at another      *)
(* (main.rs:162, 216); what can be relied on is that every request in      *)
(* progress overshoots it by at most one.                                  *)
Provisioning == {t \in Requests : request[t].step \in {"establish", "endpoint", "list", "register"}}
CapacityBound ==
    Cardinality(bySession) + Cardinality(Provisioning) < MaxSessions + Cardinality(Requests)

Present(a, r) == \E s \in bySession : AgentOf[s] = a /\ RoomOf[s] = r

(* drop_session has not decided yet whom to tell, or is about to tell l *)
LeaveUnderWay(a, l) == \E d \in Readers, s \in Sessions :
    /\ drop[d].id = {s} /\ AgentOf[s] = a /\ RoomOf[s] = RoomOf[l]
    /\ drop[d].step \in {"removing", "close", "members"} \/ l \in drop[d].todo

(* No departed avatar stays in a viewer's voice panel (main.rs:103-105):   *)
(* what a connected, registered listener shows is in its room, unless the  *)
(* notice of its departure is still to be sent.                            *)
ShownIsPresent ==
    \A l \in bySession : CanReach(l) =>
        \A a \in viewer[l] : Present(a, RoomOf[l]) \/ LeaveUnderWay(a, l)

(* A departed avatar is shown to no viewer once its leave is sent, and no  *)
(* listener counts it as announced any more (room.rs:241-247), so it is     *)
(* announced anew when it comes back.                                      *)
DepartedIsGone == ShownIsPresent /\ DepartedIsForgotten

(* A departure is announced only if the agent has no other session still   *)
(* in the room (main.rs:107-109): no viewer is made to drop an avatar that *)
(* is registered in its room and is marked as announced to it, for nothing *)
(* would ever announce it again.                                           *)
LeaveOnlyIfGone ==
    [][\A l \in Sessions : \A a \in viewer[l] \ viewer'[l] :
          ~(a \in announced[l] /\ Present(a, RoomOf[l]))]_vars

(* `announced` holds the "agents we have already announced to this         *)
(* listener" (room.rs:90): a present agent marked so is shown by the       *)
(* viewer, or its join is on its way.                                      *)
JoinUnderWay(a, l) == \E j \in jobs : j.listener = l /\ a \in j.joins
AnnouncedIsShown ==
    \A l \in bySession : channel[l] = "open" =>
        \A a \in announced[l] : Present(a, RoomOf[l]) => a \in viewer[l] \/ JoinUnderWay(a, l)

(* The reaper reaches every endpoint whose transport has failed            *)
(* (main.rs:306-316), whatever the rooms are doing.                        *)
DeadIsReaped == \A s \in Sessions :
    s \in endpoints /\ s \in closed ~> s \notin endpoints

(* Rooms are never starved: of two registered sessions of a room each is   *)
(* eventually marked as announced to the other, unless one leaves.         *)
JoinIsBuilt == \A s, l \in Sessions : RoomOf[s] = RoomOf[l] /\ s # l =>
    (s \in bySession /\ l \in bySession
        ~> AgentOf[s] \in announced[l] \/ s \notin bySession \/ l \notin bySession)
=============================================================================
