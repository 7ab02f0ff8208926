--------------------------- MODULE PresenceProofs ---------------------------
(***************************************************************************)
(* What holds of the viewers' participant lists, for any number of         *)
(* sessions, requests and rooms, as long as every session ends by the      *)
(* reaper (Logouts = {}).  Then only the mixer loop executes drop_session, *)
(* between two ticks' room tasks: the members it tells are all the viewers *)
(* that show the avatar, and none of them has it marked as announced.      *)
(***************************************************************************)
EXTENDS VoicePresence, VoiceServiceProofs

(* The invariant *)

OnlyMixerDrops == \A t \in Requests : drop[t] = NoDrop

Leaving(s) == stage[s] \in {"taken", "unlisted", "sweeping"}

(* A session leaves the registry in the removing step of its drop, and     *)
(* that drop alone tells of its departure.                                 *)
DropShape ==
    LET m == drop[Mixer]
    IN  /\ m.step # "idle" => mixer.step = "reap" /\ \E s \in Sessions : m.id = {s}
        /\ m.step = "idle" => m = NoDrop
        /\ m.step \in {"members", "notify"} => m.gone
        /\ m.gone => m.step \in {"close", "members", "notify"}
        /\ m.todo # {} => m.step = "notify"
        /\ \A s \in m.id : m.step = "removing" => Leaving(s)
        /\ \A s \in Sessions : Leaving(s) => m.id = {s} /\ m.step = "removing"

(* What the mixer loop works on between two reaps is registered, for       *)
(* nobody leaves meanwhile.                                                *)
Working ==
    /\ \A x \in roomTasks : x.members \subseteq bySession
    /\ \A j \in jobs : \A a \in j.joins : Present(a, j.room)
    /\ snap[Mixer].phase = "done" => snap[Mixer].found \subseteq bySession
    /\ drop[Mixer].todo \subseteq bySession

DropRoom ==
    /\ drop[Mixer].step = "members" /\ snap[Mixer].phase # "idle" =>
         \A s \in drop[Mixer].id : snap[Mixer].room = {RoomOf[s]}
    /\ \A s \in drop[Mixer].id, l \in drop[Mixer].todo : RoomOf[l] = RoomOf[s]

(* Nothing has been shown to a viewer without a session and a channel.     *)
Unreached ==
    /\ \A l \in Sessions : stage[l] \in {"new", "pushed"} =>
         viewer[l] = {} /\ announced[l] = {} /\ channel[l] # "open"
    /\ \A l \in Sessions : channel[l] = "none" => viewer[l] = {}

(* A listener that the members call of a drop misses shows nobody.         *)
Asked ==
    drop[Mixer].step = "members" => \A s \in drop[Mixer].id, l \in bySession :
        RoomOf[l] = RoomOf[s] /\ viewer[l] # {} =>
            /\ snap[Mixer].phase = "ids" => l \in snap[Mixer].ids
            /\ snap[Mixer].phase = "done" => l \in snap[Mixer].found

(* The drop under way is to tell l of the departure of a, or may be.       *)
LeaveDue(a, l) == \E s \in Sessions :
    /\ drop[Mixer].id = {s} /\ AgentOf[s] = a /\ RoomOf[s] = RoomOf[l]
    /\ \/ drop[Mixer].step = "removing"
       \/ drop[Mixer].step \in {"close", "members"} /\ drop[Mixer].gone
       \/ l \in drop[Mixer].todo

ShownOrDue == \A l \in bySession : CanReach(l) =>
    \A a \in viewer[l] : Present(a, RoomOf[l]) \/ LeaveDue(a, l)

(* An avatar whose session has been removed is marked by no listener, and  *)
(* until then by those only that its removal has yet to visit.             *)
Forgetting ==
    /\ \A s \in Sessions, l \in bySession : stage[s] = "sweeping" =>
         l \in sweep[s] \/ AgentOf[s] \notin announced[l]
    /\ drop[Mixer].gone => \A s \in drop[Mixer].id, l \in bySession : AgentOf[s] \notin announced[l]
    /\ DepartedIsForgotten

PresenceInv ==
    /\ OnlyMixerDrops /\ DropShape /\ Working /\ DropRoom /\ Unreached /\ Asked
    /\ ShownOrDue /\ Forgetting

AllInv == ServiceInv /\ MixInv /\ MoreTypes /\ PresenceInv

-----------------------------------------------------------------------------

(* A drop is the mixer loop's, and no room task runs beside it.            *)
LEMMA DropByMixer ==
    ASSUME AllInv, NEW d \in Readers, drop[d].step # "idle"
    PROVE  /\ d = Mixer
           /\ mixer.step = "reap" /\ roomTasks = {} /\ jobs = {}
<1>1. d = Mixer
  BY ServiceAssumption DEF AllInv, PresenceInv, OnlyMixerDrops, NoDrop
<1>2. mixer.step = "reap"
  BY <1>1 DEF AllInv, PresenceInv, DropShape
<1>3. roomTasks = {}
  BY <1>2 DEF AllInv, MixInv, TasksCounted
<1>4. jobs = {}
  BY <1>3 DEF AllInv, MixInv, JobsBelong
<1> QED BY <1>1, <1>2, <1>3, <1>4

(* No drop starts elsewhere.                                               *)
LEMMA OnlyMixerStep ==
    ASSUME AllInv, Logouts = {}, [Next]_vars
    PROVE  OnlyMixerDrops'
<1> USE ServiceAssumption DEF AllInv, ServiceInv, ServiceTypes, PresenceInv, OnlyMixerDrops
<1>1. ASSUME NEW d \in Readers, DropStep(d) PROVE OnlyMixerDrops'
  <2>1. drop[d].step # "idle"
    BY <1>1 DEF DropStep, RemoveEndpoint, RemoveSession, ContinueRemove, CloseEndpoint,
                ReadRemaining, DecideNotice, SendLeave, FinishDrop
  <2>2. d = Mixer
    BY <2>1, DropByMixer
  <2>3. \A e \in Readers : e # d => drop'[e] = drop[e]
    BY <1>1 DEF DropStep, RemoveEndpoint, RemoveSession, ContinueRemove, CloseEndpoint,
                ReadRemaining, DecideNotice, SendLeave, FinishDrop, serviceVars
  <2> QED BY <2>2, <2>3
<1>2. ASSUME NEW t \in Requests, RequestStep(t) PROVE drop' = drop
  BY <1>2 DEF RequestStep, CheckCapacity, Establish, InsertEndpoint, InsertInRegistry
<1>3. ASSUME NEW t \in Requests, Abandon(t) PROVE OnlyMixerDrops'
  BY <1>3 DEF Abandon
<1>4. ASSUME NEW t \in Requests, NEW s \in Sessions, Logout(t, s) \/ Provision(t, s)
      PROVE  drop' = drop
  BY <1>4 DEF Logout, Provision
<1>5. ASSUME NEW s \in Sessions, ChannelOpens(s) \/ ConnectionFails(s) PROVE drop' = drop
  BY <1>5 DEF ChannelOpens, ConnectionFails, serviceVars
<1>6. CASE MixerStep
  BY <1>6 DEF MixerStep, Tick, ListRooms, EndPass, Reap, StartDrop, ReadMembers, MixOrDrain
<1>7. ASSUME NEW task \in roomTasks, RoomStep(task) PROVE drop' = drop
  BY <1>7 DEF RoomStep, BuildOutput, LookUp, SendRoster, SendMix, FinishRoom
<1> QED BY <1>1, <1>2, <1>3, <1>4, <1>5, <1>6, <1>7 DEF Next, vars, serviceVars

(* Steps that leave a drop, the lists and the registry's contents alone    *)
LEMMA PresenceFrame ==
    ASSUME AllInv, OnlyMixerDrops',
           UNCHANGED <<drop, stage, bySession, viewer, announced, channel, sweep>>,
           snap'[Mixer] = snap[Mixer],
           \A l \in bySession : l \in endpoints' => l \in endpoints,
           drop[Mixer].step # "idle" => mixer'.step = "reap",
           \A x \in roomTasks' : \E y \in roomTasks : x.members = y.members,
           \A j \in jobs' : \E k \in jobs : j.room = k.room /\ j.joins = k.joins
    PROVE  PresenceInv'
<1> USE DEF AllInv, PresenceInv
<1>1. DropShape'
  BY DEF DropShape, Leaving
<1>2. Working' /\ DropRoom'
  BY DEF Working, DropRoom, Present
<1>3. Unreached' /\ Asked'
  BY DEF Unreached, Asked
<1>4. ShownOrDue'
  BY DEF ShownOrDue, Present, LeaveDue, CanReach
<1>5. Forgetting'
  BY DEF Forgetting, DepartedIsForgotten
<1> QED BY <1>1, <1>2, <1>3, <1>4, <1>5

-----------------------------------------------------------------------------
(* The registry's insert and the transport                                 *)

(* A session enters a registry that no removal is in, with an empty list.  *)
LEMMA InsertPresence ==
    ASSUME AllInv, OnlyMixerDrops', NEW t \in Requests, NEW s \in Sessions, InsertInRegistry(t, s)
    PROVE  PresenceInv'
<1> USE DEF AllInv, PresenceInv, ServiceInv, ServiceTypes, RegistryTypeOK
<1>1. UNCHANGED <<drop, endpoints, channel, viewer, announced, sweep, snap, mixer, roomTasks, jobs>>
  BY DEF InsertInRegistry, PushToRoom, InsertSession
<1>2. \/ /\ PushToRoom(s) /\ bySession' = bySession /\ stage[s] = "new"
         /\ stage' = [stage EXCEPT ![s] = "pushed"]
      \/ /\ InsertSession(s) /\ bySession' = bySession \cup {s} /\ stage[s] = "pushed"
         /\ stage' = [stage EXCEPT ![s] = "live"]
         /\ \A o \in Sessions : stage[o] # "sweeping"
  BY DEF InsertInRegistry, PushToRoom, InsertSession, BySessionReadLocked
<1>3. \A o \in Sessions : o # s => stage'[o] = stage[o]
  BY <1>2
<1>4. DropShape'
  BY <1>1, <1>2, <1>3 DEF DropShape, Leaving
<1>5. Working' /\ DropRoom'
  BY <1>1, <1>2 DEF Working, DropRoom, Present
<1>6. Unreached'
  BY <1>1, <1>2, <1>3 DEF Unreached
<1>7. viewer[s] = {} /\ announced[s] = {}
  BY <1>2 DEF Unreached
<1>8. Asked'
  BY <1>1, <1>2, <1>7 DEF Asked
<1>9. ShownOrDue'
  BY <1>1, <1>2, <1>7 DEF ShownOrDue, CanReach, LeaveDue, Present
<1>10. Forgetting'
  BY <1>1, <1>2, <1>3, <1>7 DEF Forgetting, DepartedIsForgotten
<1> QED BY <1>4, <1>5, <1>6, <1>8, <1>9, <1>10

(* A viewer connects with an empty list.                                   *)
LEMMA ChannelPresence ==
    ASSUME AllInv, OnlyMixerDrops', NEW s \in Sessions, ChannelOpens(s)
    PROVE  PresenceInv'
<1> USE DEF AllInv, PresenceInv, MoreTypes
<1>1. /\ UNCHANGED <<drop, endpoints, viewer, announced, sweep, snap, mixer, roomTasks, jobs,
                     stage, bySession>>
      /\ channel[s] = "none" /\ stage[s] \notin {"new", "pushed"}
      /\ channel' = [channel EXCEPT ![s] = "open"]
  BY DEF ChannelOpens, registryVars
<1>2. viewer[s] = {}
  BY <1>1 DEF Unreached
<1>3. DropShape' /\ Working' /\ DropRoom' /\ Asked' /\ Forgetting'
  BY <1>1 DEF DropShape, Leaving, Working, DropRoom, Present, Asked, Forgetting, DepartedIsForgotten
<1>4. Unreached'
  BY <1>1, <1>2 DEF Unreached
<1>5. ShownOrDue'
  BY <1>1, <1>2 DEF ShownOrDue, CanReach, LeaveDue, Present
<1> QED BY <1>3, <1>4, <1>5

-----------------------------------------------------------------------------
(* drop_session, step by step                                              *)

LEMMA EndpointPresence ==
    ASSUME AllInv, OnlyMixerDrops', NEW s \in Sessions, RemoveEndpoint(Mixer, s)
    PROVE  PresenceInv'
<1> USE DEF AllInv, PresenceInv, ServiceInv, ServiceTypes
<1>1. /\ UNCHANGED <<channel, viewer, announced, sweep, snap, mixer, roomTasks, jobs, stage, bySession>>
      /\ endpoints' \subseteq endpoints
      /\ drop[Mixer].step = "endpoint"
  BY DEF RemoveEndpoint, registryVars
<1>2. /\ drop'[Mixer].step = "registry" /\ drop'[Mixer].id = drop[Mixer].id
      /\ drop'[Mixer].gone = drop[Mixer].gone /\ drop'[Mixer].todo = drop[Mixer].todo
  BY ServiceAssumption DEF RemoveEndpoint, DropState
<1>3. drop[Mixer].gone = FALSE /\ drop[Mixer].todo = {}
  BY <1>1, ServiceAssumption DEF DropShape, DropState
<1>4. DropShape'
  BY <1>1, <1>2, <1>3 DEF DropShape, Leaving
<1>5. Working' /\ DropRoom' /\ Unreached' /\ Asked'
  BY <1>1, <1>2, <1>3 DEF Working, DropRoom, Present, Unreached, Asked
<1>6. ShownOrDue'
  BY <1>1, <1>2, <1>3 DEF ShownOrDue, CanReach, LeaveDue, Present
<1>7. Forgetting'
  BY <1>1, <1>2, <1>3 DEF Forgetting, DepartedIsForgotten
<1> QED BY <1>4, <1>5, <1>6, <1>7

(* Taken from the registry, a session's avatar is gone or due to be told.  *)
LEMMA TakePresence ==
    ASSUME AllInv, OnlyMixerDrops', NEW s \in Sessions, RemoveSession(Mixer, s)
    PROVE  PresenceInv'
<1> USE DEF AllInv, PresenceInv, ServiceInv, ServiceTypes, RegistryTypeOK
<1>1. /\ UNCHANGED <<endpoints, channel, viewer, announced, sweep, snap, mixer, roomTasks, jobs>>
      /\ drop[Mixer].step = "registry" /\ drop[Mixer].id = {s}
  BY DEF RemoveSession, TakeSession, registryVars
<1>2. /\ drop[Mixer].gone = FALSE /\ drop[Mixer].todo = {}
      /\ mixer.step = "reap" /\ roomTasks = {} /\ jobs = {}
  BY <1>1, DropByMixer, ServiceAssumption DEF DropShape, DropState
<1>3. snap[Mixer].phase = "idle"
  BY <1>1, <1>2 DEF MixInv, MixerReads
<1>4. \A o \in Sessions : ~Leaving(o)
  BY <1>1 DEF DropShape
<1>5. CASE TakeSession(s)
  <2>1. /\ drop' = [drop EXCEPT ![Mixer].step = "removing"]
        /\ bySession' = bySession \ {s} /\ s \in bySession
        /\ stage' = [stage EXCEPT ![s] = "taken"]
    BY <1>5 DEF RemoveSession, TakeSession
  <2>2. /\ drop'[Mixer].step = "removing" /\ drop'[Mixer].id = {s}
        /\ drop'[Mixer].gone = FALSE /\ drop'[Mixer].todo = {}
    BY <1>1, <1>2, <2>1, ServiceAssumption DEF DropState
  <2>3. stage'[s] = "taken" /\ \A o \in Sessions : o # s => stage'[o] = stage[o]
    BY <2>1
  <2>4. DropShape'
    BY <1>1, <1>2, <1>4, <2>2, <2>3 DEF DropShape, Leaving
  <2>5. Working' /\ DropRoom' /\ Asked'
    BY <1>1, <1>2, <1>3, <2>2 DEF Working, DropRoom, Asked
  <2>6. Unreached'
    BY <1>1, <2>3 DEF Unreached
  <2>7. ShownOrDue'
    <3> SUFFICES ASSUME NEW l \in bySession, l # s, CanReach(l), NEW a \in viewer[l]
                 PROVE  Present(a, RoomOf[l])' \/ LeaveDue(a, l)'
      BY <1>1, <2>1 DEF ShownOrDue, CanReach
    <3>1. ~LeaveDue(a, l)
      BY <1>1, <1>2 DEF LeaveDue
    <3>2. PICK o \in bySession : AgentOf[o] = a /\ RoomOf[o] = RoomOf[l]
      BY <3>1 DEF ShownOrDue, Present
    <3>3. CASE o = s
      BY <2>2, <3>2, <3>3 DEF LeaveDue
    <3>4. CASE o # s
      BY <2>1, <3>2, <3>4 DEF Present
    <3> QED BY <3>3, <3>4
  <2>8. Forgetting'
    BY <1>1, <2>1, <2>2, <2>3 DEF Forgetting, DepartedIsForgotten
  <2> QED BY <2>4, <2>5, <2>6, <2>7, <2>8
<1>6. CASE ~TakeSession(s)
  <2>1. /\ drop' = [drop EXCEPT ![Mixer].step = "close"]
        /\ UNCHANGED <<stage, bySession>>
    BY <1>6 DEF RemoveSession, registryVars
  <2>2. /\ drop'[Mixer].step = "close" /\ drop'[Mixer].id = {s}
        /\ drop'[Mixer].gone = FALSE /\ drop'[Mixer].todo = {}
    BY <1>1, <1>2, <2>1, ServiceAssumption DEF DropState
  <2>3. DropShape'
    BY <1>1, <1>2, <1>4, <2>1, <2>2 DEF DropShape, Leaving
  <2>4. Working' /\ DropRoom' /\ Asked' /\ Unreached' /\ Forgetting'
    BY <1>1, <1>2, <1>3, <2>1, <2>2
    DEF Working, DropRoom, Asked, Unreached, Forgetting, DepartedIsForgotten
  <2>5. ShownOrDue'
    BY <1>1, <1>2, <2>1, <2>2 DEF ShownOrDue, CanReach, LeaveDue, Present
  <2> QED BY <2>3, <2>4, <2>5
<1> QED BY <1>5, <1>6

(* Lists that follow the rooms do so after a step that changes no list, no *)
(* registration and no departure that is due.                              *)
LEMMA DueFrame ==
    ASSUME ShownOrDue, UNCHANGED <<viewer, bySession>>,
           \A l \in bySession : CanReach(l)' => CanReach(l),
           \A l \in bySession : \A a \in viewer[l] : LeaveDue(a, l) => LeaveDue(a, l)'
    PROVE  ShownOrDue'
BY DEF ShownOrDue, Present

(* The rest of remove: once every listener has been visited, none has the  *)
(* avatar marked.                                                          *)
LEMMA RemovePresence ==
    ASSUME AllInv, OnlyMixerDrops', NEW s \in Sessions, ContinueRemove(Mixer, s)
    PROVE  PresenceInv'
<1> USE DEF AllInv, PresenceInv, ServiceInv, ServiceTypes, RegistryTypeOK
<1>1. /\ UNCHANGED <<endpoints, channel, viewer, snap, mixer, roomTasks, jobs, bySession>>
      /\ drop[Mixer].step = "removing" /\ drop[Mixer].id = {s}
  BY DEF ContinueRemove, RetainOthers, BeginForget, ForgetAt, FinishRemove
<1>2. /\ drop[Mixer].gone = FALSE /\ drop[Mixer].todo = {}
      /\ mixer.step = "reap" /\ roomTasks = {} /\ jobs = {}
  BY <1>1, DropByMixer, ServiceAssumption DEF DropShape, DropState
<1>3. snap[Mixer].phase = "idle"
  BY <1>1, <1>2 DEF MixInv, MixerReads
<1>4. Leaving(s) /\ \A o \in Sessions : o # s => ~Leaving(o)
  BY <1>1 DEF DropShape
<1>5. CASE FinishRemove(s)
  <2>1. /\ drop' = [drop EXCEPT ![Mixer].step = "close", ![Mixer].gone = TRUE]
        /\ stage' = [stage EXCEPT ![s] = "gone"] /\ sweep[s] = {} /\ stage[s] = "sweeping"
        /\ announced' = announced /\ sweep' = sweep
    BY <1>5 DEF ContinueRemove, FinishRemove, RetainOthers, BeginForget, ForgetAt
  <2>2. /\ drop'[Mixer].step = "close" /\ drop'[Mixer].id = {s}
        /\ drop'[Mixer].gone = TRUE /\ drop'[Mixer].todo = {}
    BY <1>1, <1>2, <2>1, ServiceAssumption DEF DropState
  <2>3. stage'[s] = "gone" /\ \A o \in Sessions : o # s => stage'[o] = stage[o]
    BY <2>1
  <2>4. DropShape'
    BY <1>1, <1>2, <1>4, <2>2, <2>3 DEF DropShape, Leaving
  <2>5. Working' /\ DropRoom' /\ Asked'
    BY <1>1, <1>2, <1>3, <2>2 DEF Working, DropRoom, Asked
  <2>6. Unreached'
    BY <1>1, <2>1, <2>3 DEF Unreached
  <2>7. ShownOrDue'
    <3>1. \A l \in bySession : CanReach(l)' => CanReach(l)
      BY <1>1 DEF CanReach
    <3>2. \A l \in bySession : \A a \in viewer[l] : LeaveDue(a, l) => LeaveDue(a, l)'
      BY <1>1, <1>2, <2>2 DEF LeaveDue
    <3> QED BY <1>1, <3>1, <3>2, DueFrame
  <2>8. \A l \in bySession : AgentOf[s] \notin announced[l]
    BY <2>1 DEF Forgetting
  <2>9. DepartedIsForgotten'
    BY <1>1, <2>1, <2>3, <2>8 DEF Forgetting, DepartedIsForgotten
  <2>10. \A o \in Sessions : stage'[o] # "sweeping"
    BY <1>4, <2>3 DEF Leaving
  <2>11. Forgetting'
    BY <1>1, <2>1, <2>2, <2>8, <2>9, <2>10 DEF Forgetting
  <2> QED BY <2>4, <2>5, <2>6, <2>7, <2>11
<1>6. CASE ~FinishRemove(s)
  <2>1. /\ drop' = drop
        /\ RetainOthers(s) \/ BeginForget(s) \/ \E o \in Sessions : ForgetAt(s, o)
    BY <1>6 DEF ContinueRemove
  <2>2. /\ \A o \in Sessions : o # s => stage'[o] = stage[o]
        /\ stage'[s] \in {"unlisted", "sweeping"} /\ stage[s] \in {"taken", "unlisted", "sweeping"}
    BY <2>1 DEF RetainOthers, BeginForget, ForgetAt
  <2>3. \A l \in Sessions : announced'[l] \subseteq announced[l]
    BY <2>1 DEF RetainOthers, BeginForget, ForgetAt
  <2>4. DropShape'
    BY <1>1, <1>2, <1>4, <2>1, <2>2 DEF DropShape, Leaving
  <2>5. Working' /\ DropRoom' /\ Asked'
    BY <1>1, <1>2, <1>3, <2>1 DEF Working, DropRoom, Asked
  <2>6. Unreached'
    BY <1>1, <2>2, <2>3 DEF Unreached
  <2>7. ShownOrDue'
    <3>1. \A l \in bySession : CanReach(l)' => CanReach(l)
      BY <1>1 DEF CanReach
    <3>2. \A l \in bySession : \A a \in viewer[l] : LeaveDue(a, l) => LeaveDue(a, l)'
      BY <2>1 DEF LeaveDue
    <3> QED BY <1>1, <3>1, <3>2, DueFrame
  <2>8. ASSUME NEW l \in bySession, stage'[s] = "sweeping"
        PROVE  l \in sweep'[s] \/ AgentOf[s] \notin announced'[l]
    <3>1. CASE RetainOthers(s)
      BY <2>8, <3>1 DEF RetainOthers
    <3>2. CASE BeginForget(s)
      BY <3>2 DEF BeginForget
    <3>3. ASSUME NEW o \in Sessions, ForgetAt(s, o)
          PROVE  l \in sweep'[s] \/ AgentOf[s] \notin announced'[l]
      BY <3>3 DEF ForgetAt, Forgetting
    <3> QED BY <2>1, <3>1, <3>2, <3>3
  <2>9. DepartedIsForgotten'
    BY <1>1, <2>2, <2>3 DEF Forgetting, DepartedIsForgotten
  <2>10. \A o \in Sessions : stage'[o] = "sweeping" => o = s
    BY <1>4, <2>2 DEF Leaving
  <2>11. Forgetting'
    BY <1>1, <1>2, <2>1, <2>8, <2>9, <2>10 DEF Forgetting
  <2> QED BY <2>4, <2>5, <2>6, <2>7, <2>11
<1> QED BY <1>5, <1>6

LEMMA ClosePresence ==
    ASSUME AllInv, OnlyMixerDrops', NEW s \in Sessions, CloseEndpoint(Mixer, s)
    PROVE  PresenceInv'
<1> USE DEF AllInv, PresenceInv, ServiceInv, ServiceTypes, RegistryTypeOK
<1>1. /\ UNCHANGED <<endpoints, viewer, announced, sweep, snap, mixer, roomTasks, jobs, stage, bySession>>
      /\ drop[Mixer].step = "close" /\ drop[Mixer].id = {s}
  BY DEF CloseEndpoint, ConnectionLost, registryVars
<1>2. /\ drop[Mixer].todo = {} /\ drop[Mixer].gone \in BOOLEAN
      /\ mixer.step = "reap" /\ roomTasks = {} /\ jobs = {}
  BY <1>1, DropByMixer, ServiceAssumption DEF DropShape, DropState
<1>3. snap[Mixer].phase = "idle"
  BY <1>1, <1>2 DEF MixInv, MixerReads
<1>4. \A o \in Sessions : ~Leaving(o)
  BY <1>1 DEF DropShape
<1>5. \A l \in Sessions : channel'[l] = channel[l] \/ channel'[l] = "closed"
  <2>1. channel' = channel \/ channel' = [channel EXCEPT ![s] = "closed"]
    BY DEF CloseEndpoint
  <2>2. channel \in [Sessions -> {"none", "open", "closed"}]
    BY DEF MoreTypes
  <2> QED BY <2>1, <2>2
<1>6. /\ \A l \in Sessions : channel'[l] = "open" => channel[l] = "open"
      /\ \A l \in Sessions : channel'[l] = "none" => channel[l] = "none"
  BY <1>5
<1>7. drop' = [drop EXCEPT ![Mixer] = IF drop[Mixer].gone
                 THEN [drop[Mixer] EXCEPT !.step = "members"] ELSE NoDrop]
  BY DEF CloseEndpoint
<1>8. CASE drop[Mixer].gone
  <2>1. /\ drop'[Mixer].step = "members" /\ drop'[Mixer].id = {s}
        /\ drop'[Mixer].gone /\ drop'[Mixer].todo = {}
    BY <1>1, <1>2, <1>7, <1>8, ServiceAssumption DEF DropState
  <2>2. DropShape'
    BY <1>1, <1>2, <1>4, <2>1 DEF DropShape, Leaving
  <2>3. Working' /\ DropRoom' /\ Asked' /\ Unreached'
    BY <1>1, <1>2, <1>3, <1>6, <2>1 DEF Working, DropRoom, Asked, Unreached
  <2>4. ShownOrDue'
    <3>1. \A l \in bySession : CanReach(l)' => CanReach(l)
      BY <1>1, <1>6 DEF CanReach
    <3>2. \A l \in bySession : \A a \in viewer[l] : LeaveDue(a, l) => LeaveDue(a, l)'
      BY <1>1, <1>2, <1>8, <2>1 DEF LeaveDue
    <3> QED BY <1>1, <3>1, <3>2, DueFrame
  <2>5. Forgetting'
    BY <1>1, <1>8, <2>1 DEF Forgetting, DepartedIsForgotten
  <2> QED BY <2>2, <2>3, <2>4, <2>5
<1>9. CASE ~drop[Mixer].gone
  <2>1. drop'[Mixer] = NoDrop
    BY <1>7, <1>9, ServiceAssumption
  <2>2. DropShape'
    BY <1>1, <1>2, <1>4, <2>1 DEF DropShape, Leaving, NoDrop
  <2>3. Working' /\ DropRoom' /\ Asked' /\ Unreached'
    BY <1>1, <1>2, <1>3, <1>6, <2>1 DEF Working, DropRoom, Asked, Unreached, NoDrop
  <2>4. ShownOrDue'
    <3>1. \A l \in bySession : CanReach(l)' => CanReach(l)
      BY <1>1, <1>6 DEF CanReach
    <3>2. \A l \in bySession : \A a \in viewer[l] : LeaveDue(a, l) => LeaveDue(a, l)'
      BY <1>1, <1>2, <1>9, <2>1 DEF LeaveDue
    <3> QED BY <1>1, <3>1, <3>2, DueFrame
  <2>5. Forgetting'
    BY <1>1, <2>1 DEF Forgetting, DepartedIsForgotten, NoDrop
  <2> QED BY <2>2, <2>3, <2>4, <2>5
<1> QED BY <1>8, <1>9

(* The members call asks every viewer that shows anybody.                  *)
LEMMA RemainingPresence ==
    ASSUME AllInv, OnlyMixerDrops', NEW s \in Sessions, ReadRemaining(Mixer, s)
    PROVE  PresenceInv'
<1> USE DEF AllInv, PresenceInv, ServiceInv, ServiceTypes, RegistryTypeOK
<1>1. /\ UNCHANGED <<endpoints, channel, viewer, announced, sweep, mixer, roomTasks, jobs, stage,
                     bySession, drop>>
      /\ drop[Mixer].step = "members" /\ drop[Mixer].id = {s}
  BY DEF ReadRemaining, MembersIds, MembersFilter, serviceVars
<1>2. /\ drop[Mixer].todo = {}
      /\ mixer.step = "reap" /\ roomTasks = {} /\ jobs = {}
  BY <1>1, DropByMixer, ServiceAssumption DEF DropShape
<1>3. DropShape'
  BY <1>1 DEF DropShape, Leaving
<1>4. Unreached'
  BY <1>1 DEF Unreached
<1>5. ShownOrDue'
  <2>1. \A l \in bySession : CanReach(l)' => CanReach(l)
    BY <1>1 DEF CanReach
  <2>2. \A l \in bySession : \A a \in viewer[l] : LeaveDue(a, l) => LeaveDue(a, l)'
    BY <1>1 DEF LeaveDue
  <2> QED BY <1>1, <2>1, <2>2, DueFrame
<1>6. Forgetting'
  BY <1>1 DEF Forgetting, DepartedIsForgotten
<1>7. CASE MembersIds(Mixer, RoomOf[s])
  <2>1. /\ snap'[Mixer].phase = "ids" /\ snap'[Mixer].room = {RoomOf[s]}
        /\ snap'[Mixer].ids = byRoom[RoomOf[s]]
    BY <1>7, ServiceAssumption DEF MembersIds
  <2>2. \A l \in bySession : l \in byRoom[RoomOf[l]]
    BY ConstantsAssumption DEF RegistryInv, Indexed, ListedStages
  <2>3. Asked'
    BY <1>1, <2>1, <2>2 DEF Asked
  <2>4. Working' /\ DropRoom'
    BY <1>1, <1>2, <2>1 DEF Working, DropRoom
  <2> QED BY <1>3, <1>4, <1>5, <1>6, <2>3, <2>4
<1>8. CASE MembersFilter(Mixer)
  <2>1. /\ snap[Mixer].phase = "ids" /\ snap'[Mixer].phase = "done"
        /\ snap'[Mixer].room = snap[Mixer].room
        /\ snap'[Mixer].found = snap[Mixer].ids \cap bySession
    BY <1>8, ServiceAssumption DEF MembersFilter
  <2>2. Asked'
    BY <1>1, <2>1 DEF Asked
  <2>3. Working' /\ DropRoom'
    BY <1>1, <1>2, <2>1 DEF Working, DropRoom
  <2> QED BY <1>3, <1>4, <1>5, <1>6, <2>2, <2>3
<1> QED BY <1>7, <1>8 DEF ReadRemaining

(* Either the avatar has another session in the room, or every viewer that *)
(* shows it is told.                                                       *)
LEMMA NoticePresence ==
    ASSUME AllInv, OnlyMixerDrops', NEW s \in Sessions, DecideNotice(Mixer, s)
    PROVE  PresenceInv'
<1> USE DEF AllInv, PresenceInv, ServiceInv, ServiceTypes, RegistryTypeOK
<1>1. /\ UNCHANGED <<endpoints, channel, viewer, announced, sweep, mixer, roomTasks, jobs, stage,
                     bySession>>
      /\ drop[Mixer].step = "members" /\ drop[Mixer].id = {s}
      /\ snap[Mixer].phase = "done" /\ snap'[Mixer] = NoSnap
  BY ServiceAssumption DEF DecideNotice, ReleaseSnap
<1>2. /\ drop[Mixer].todo = {} /\ drop[Mixer].gone
      /\ mixer.step = "reap" /\ roomTasks = {} /\ jobs = {}
  BY <1>1, DropByMixer, ServiceAssumption DEF DropShape
<1>3. \A o \in Sessions : ~Leaving(o)
  BY <1>1 DEF DropShape
<1>4. /\ snap[Mixer].found \subseteq bySession
      /\ \A m \in snap[Mixer].found : RoomOf[m] = RoomOf[s]
  BY <1>1 DEF Working, DropRoom, MixInv, MixerReads
<1>5. Unreached'
  BY <1>1 DEF Unreached
<1>6. \A l \in bySession : CanReach(l)' => CanReach(l)
  BY <1>1 DEF CanReach
<1>7. CASE StillPresent(s, snap[Mixer].found)
  <2>1. drop'[Mixer] = NoDrop
    BY <1>7, ServiceAssumption DEF DecideNotice
  <2>2. DropShape'
    BY <1>1, <1>3, <2>1 DEF DropShape, Leaving, NoDrop
  <2>3. Working' /\ DropRoom' /\ Asked'
    BY <1>1, <1>2, <2>1 DEF Working, DropRoom, Asked, NoDrop, NoSnap
  <2>4. Forgetting'
    BY <1>1, <2>1 DEF Forgetting, DepartedIsForgotten, NoDrop
  <2>5. PICK m \in snap[Mixer].found : AgentOf[m] = AgentOf[s]
    BY <1>7 DEF StillPresent
  <2>6. ASSUME NEW l \in bySession, NEW a \in viewer[l], CanReach(l)
        PROVE  Present(a, RoomOf[l])
    <3>1. CASE LeaveDue(a, l)
      BY <1>1, <1>4, <2>5, <3>1 DEF LeaveDue, Present
    <3> QED BY <2>6, <3>1 DEF ShownOrDue
  <2>7. ShownOrDue'
    BY <1>1, <1>6, <2>6 DEF ShownOrDue, Present
  <2> QED BY <1>5, <2>2, <2>3, <2>4, <2>7
<1>8. CASE ~StillPresent(s, snap[Mixer].found)
  <2>1. drop' = [drop EXCEPT ![Mixer] = [drop[Mixer] EXCEPT !.step = "notify", !.todo = snap[Mixer].found]]
    BY <1>8 DEF DecideNotice
  <2>2. /\ drop'[Mixer].step = "notify" /\ drop'[Mixer].id = {s}
        /\ drop'[Mixer].gone /\ drop'[Mixer].todo = snap[Mixer].found
    <3>1. drop[Mixer] \in DropState
      BY ServiceAssumption
    <3>2. drop'[Mixer] = [drop[Mixer] EXCEPT !.step = "notify", !.todo = snap[Mixer].found]
      BY <2>1, ServiceAssumption
    <3> QED BY <1>1, <1>2, <3>1, <3>2 DEF DropState
  <2>3. DropShape'
    BY <1>1, <1>2, <1>3, <2>2 DEF DropShape, Leaving
  <2>4. Working' /\ DropRoom' /\ Asked'
    BY <1>1, <1>2, <1>4, <2>2 DEF Working, DropRoom, Asked, NoSnap
  <2>5. Forgetting'
    BY <1>1, <1>2, <2>2 DEF Forgetting, DepartedIsForgotten
  <2>6. ASSUME NEW l \in bySession, NEW a \in viewer[l], LeaveDue(a, l)
        PROVE  LeaveDue(a, l)'
    <3>1. AgentOf[s] = a /\ RoomOf[s] = RoomOf[l]
      BY <1>1, <2>6 DEF LeaveDue
    <3>2. l \in snap[Mixer].found
      BY <1>1, <3>1 DEF Asked
    <3> QED BY <2>2, <3>1, <3>2 DEF LeaveDue
  <2>7. ShownOrDue'
    BY <1>1, <1>6, <2>6, DueFrame
  <2> QED BY <1>5, <2>3, <2>4, <2>5, <2>7
<1> QED BY <1>7, <1>8

(* A viewer that is told, or cannot be, has nothing due any more.          *)
LEMMA LeavePresence ==
    ASSUME AllInv, OnlyMixerDrops', NEW s \in Sessions, NEW m \in Sessions, SendLeave(Mixer, s, m)
    PROVE  PresenceInv'
<1> USE DEF AllInv, PresenceInv, ServiceInv, ServiceTypes, RegistryTypeOK
<1>1. /\ UNCHANGED <<endpoints, channel, announced, sweep, snap, mixer, roomTasks, jobs, stage,
                     bySession>>
      /\ drop[Mixer].step = "notify" /\ drop[Mixer].id = {s} /\ m \in drop[Mixer].todo
      /\ viewer' = IF CanReach(m) THEN [viewer EXCEPT ![m] = @ \ {AgentOf[s]}] ELSE viewer
  BY DEF SendLeave, registryVars
<1>2. /\ drop[Mixer].gone
      /\ mixer.step = "reap" /\ roomTasks = {} /\ jobs = {}
  BY <1>1, DropByMixer, ServiceAssumption DEF DropShape
<1>3. /\ drop'[Mixer].step = "notify" /\ drop'[Mixer].id = {s}
      /\ drop'[Mixer].gone /\ drop'[Mixer].todo = drop[Mixer].todo \ {m}
  BY <1>1, <1>2, ServiceAssumption DEF SendLeave, DropState
<1>4. snap[Mixer].phase = "idle"
  BY <1>1, <1>2 DEF MixInv, MixerReads
<1>5. \A l \in Sessions : viewer'[l] \subseteq viewer[l] /\ (l # m => viewer'[l] = viewer[l])
  BY <1>1 DEF MoreTypes
<1>6. DropShape'
  BY <1>1, <1>2, <1>3 DEF DropShape, Leaving
<1>7. Working' /\ DropRoom' /\ Asked'
  BY <1>1, <1>2, <1>3, <1>4 DEF Working, DropRoom, Asked
<1>8. Unreached'
  BY <1>1, <1>5 DEF Unreached
<1>9. Forgetting'
  BY <1>1, <1>2, <1>3 DEF Forgetting, DepartedIsForgotten
<1>10. ShownOrDue'
  <2> SUFFICES ASSUME NEW l \in bySession, CanReach(l), NEW a \in viewer'[l]
               PROVE  Present(a, RoomOf[l]) \/ LeaveDue(a, l)'
    BY <1>1 DEF ShownOrDue, CanReach, Present
  <2>1. a \in viewer[l]
    BY <1>5
  <2>2. CASE Present(a, RoomOf[l])
    BY <2>2
  <2>3. CASE LeaveDue(a, l)
    <3>1. AgentOf[s] = a /\ RoomOf[s] = RoomOf[l] /\ l \in drop[Mixer].todo
      BY <1>1, <2>3 DEF LeaveDue
    <3>2. l # m
      BY <1>1, <3>1 DEF MoreTypes
    <3> QED BY <1>3, <3>1, <3>2 DEF LeaveDue
  <2> QED BY <2>1, <2>2, <2>3 DEF ShownOrDue
<1> QED BY <1>6, <1>7, <1>8, <1>9, <1>10

LEMMA FinishPresence ==
    ASSUME AllInv, OnlyMixerDrops', FinishDrop(Mixer)
    PROVE  PresenceInv'
<1> USE DEF AllInv, PresenceInv, ServiceInv, ServiceTypes, RegistryTypeOK
<1>1. /\ UNCHANGED <<endpoints, channel, viewer, announced, sweep, snap, mixer, roomTasks, jobs, stage,
                     bySession>>
      /\ drop[Mixer].step = "notify" /\ drop[Mixer].todo = {} /\ drop'[Mixer] = NoDrop
  BY ServiceAssumption DEF FinishDrop, registryVars
<1>2. \A o \in Sessions : ~Leaving(o)
  BY <1>1 DEF DropShape
<1>3. DropShape'
  BY <1>1, <1>2 DEF DropShape, Leaving, NoDrop
<1>4. Working' /\ DropRoom' /\ Asked' /\ Unreached'
  BY <1>1 DEF Working, DropRoom, Asked, Unreached, NoDrop, Present
<1>5. Forgetting'
  BY <1>1 DEF Forgetting, DepartedIsForgotten, NoDrop
<1>6. ShownOrDue'
  <2>1. \A l \in bySession : CanReach(l)' => CanReach(l)
    BY <1>1 DEF CanReach
  <2>2. \A l \in bySession : \A a \in viewer[l] : ~LeaveDue(a, l)
    BY <1>1 DEF LeaveDue
  <2> QED BY <1>1, <2>1, <2>2, DueFrame
<1> QED BY <1>3, <1>4, <1>5, <1>6

-----------------------------------------------------------------------------
(* The mixer loop and its room tasks                                       *)

LEMMA ReapPresence ==
    ASSUME AllInv, OnlyMixerDrops', NEW s \in Sessions, Reap(s)
    PROVE  PresenceInv'
<1> USE DEF AllInv, PresenceInv, ServiceInv, ServiceTypes, RegistryTypeOK
<1>1. /\ UNCHANGED <<endpoints, channel, viewer, announced, sweep, snap, roomTasks, jobs, stage,
                     bySession>>
      /\ mixer.step = "reap" /\ mixer'.step = "reap" /\ drop[Mixer].step = "idle"
  BY DEF Reap, registryVars, MixerState
<1>2. drop[Mixer] = NoDrop
  BY <1>1 DEF DropShape
<1>3. /\ drop'[Mixer].step = "endpoint" /\ drop'[Mixer].id = {s}
      /\ drop'[Mixer].gone = FALSE /\ drop'[Mixer].todo = {}
  BY ServiceAssumption DEF Reap, StartDrop, NoDrop
<1>4. \A o \in Sessions : ~Leaving(o)
  BY <1>1 DEF DropShape
<1>5. DropShape'
  BY <1>1, <1>3, <1>4 DEF DropShape, Leaving
<1>6. Working' /\ DropRoom' /\ Asked' /\ Unreached'
  BY <1>1, <1>3 DEF Working, DropRoom, Asked, Unreached, Present
<1>7. Forgetting'
  BY <1>1, <1>3 DEF Forgetting, DepartedIsForgotten
<1>8. ShownOrDue'
  <2>1. \A l \in bySession : CanReach(l)' => CanReach(l)
    BY <1>1 DEF CanReach
  <2>2. \A l \in bySession : \A a \in viewer[l] : ~LeaveDue(a, l)
    BY <1>2 DEF LeaveDue, NoDrop
  <2> QED BY <1>1, <2>1, <2>2, DueFrame
<1> QED BY <1>5, <1>6, <1>7, <1>8

(* What a tick finds in a room is registered as long as it works on it.    *)
LEMMA TickPresence ==
    ASSUME AllInv, OnlyMixerDrops', NEW r \in Rooms, ReadMembers(r) \/ MixOrDrain(r)
    PROVE  PresenceInv'
<1> USE DEF AllInv, PresenceInv, ServiceInv, ServiceTypes, RegistryTypeOK
<1>1. /\ UNCHANGED <<endpoints, channel, viewer, announced, sweep, drop, jobs, stage, bySession>>
      /\ mixer.step = "rooms" /\ mixer'.step = "rooms"
  BY DEF ReadMembers, MembersIds, MembersFilter, MixOrDrain, ReleaseSnap, MixerState
<1>2. drop[Mixer] = NoDrop
  BY <1>1 DEF MixInv, MixerReads, DropShape
<1>3. DropShape' /\ Asked' /\ Unreached' /\ DropRoom'
  BY <1>1, <1>2 DEF DropShape, Leaving, Asked, Unreached, DropRoom, NoDrop
<1>4. Forgetting'
  BY <1>1 DEF Forgetting, DepartedIsForgotten
<1>5. ShownOrDue'
  <2>1. \A l \in bySession : CanReach(l)' => CanReach(l)
    BY <1>1 DEF CanReach
  <2>2. \A l \in bySession : \A a \in viewer[l] : ~LeaveDue(a, l)
    BY <1>2 DEF LeaveDue, NoDrop
  <2> QED BY <1>1, <2>1, <2>2, DueFrame
<1>6. snap'[Mixer].phase = "done" => snap'[Mixer].found \subseteq bySession
  BY ServiceAssumption DEF ReadMembers, MembersIds, MembersFilter, MixOrDrain, ReleaseSnap, NoSnap
<1>7. \A x \in roomTasks' : x.members \subseteq bySession
  <2>1. CASE ReadMembers(r)
    BY <2>1 DEF ReadMembers, Working
  <2>2. CASE MixOrDrain(r)
    <3> DEFINE task == [room |-> r, pass |-> mixer.pass, members |-> snap[Mixer].found,
                        todo |-> snap[Mixer].found]
    <3>1. roomTasks' = roomTasks \/ roomTasks' = roomTasks \cup {task}
      BY <2>2 DEF MixOrDrain
    <3>2. task.members \subseteq bySession
      BY <2>2 DEF MixOrDrain, ReleaseSnap, Working
    <3> QED BY <3>1, <3>2 DEF Working
  <2> QED BY <2>1, <2>2
<1>8. Working'
  BY <1>1, <1>2, <1>6, <1>7 DEF Working, Present, NoDrop
<1> QED BY <1>3, <1>4, <1>5, <1>8

(* A room task marks registered speakers only, for a registered listener.  *)
LEMMA BuildPresence ==
    ASSUME AllInv, OnlyMixerDrops', NEW task \in roomTasks, NEW l \in Sessions, BuildOutput(task, l)
    PROVE  PresenceInv'
<1> USE DEF AllInv, PresenceInv, ServiceInv, ServiceTypes, RegistryTypeOK
<1>1. UNCHANGED <<endpoints, channel, viewer, sweep, drop, stage, bySession, snap, mixer>>
  BY DEF BuildOutput, MarkAnnounced
<1>2. drop[Mixer] = NoDrop
  BY DropByMixer, ServiceAssumption DEF DropShape
<1>3. /\ task.members \subseteq bySession /\ task \in RoomTask
      /\ \A s \in task.members : RoomOf[s] = task.room
  BY DEF Working, MixInv, TasksCounted
<1>4. l \in bySession
  BY <1>3 DEF BuildOutput, MixInv, TasksCounted
<1>5. announced' = [announced EXCEPT ![l] = @ \cup {AgentOf[s] : s \in task.members}]
  BY DEF BuildOutput, MarkAnnounced
<1>6. DropShape' /\ Asked' /\ DropRoom'
  BY <1>1, <1>2 DEF DropShape, Leaving, Asked, DropRoom, NoDrop
<1>7. \A s \in bySession : stage[s] = "live"
  BY DEF RegistryInv, Indexed
<1>8. Unreached'
  BY <1>1, <1>4, <1>5, <1>7 DEF Unreached
<1>9. ShownOrDue'
  <2>1. \A k \in bySession : CanReach(k)' => CanReach(k)
    BY <1>1 DEF CanReach
  <2>2. \A k \in bySession : \A a \in viewer[k] : ~LeaveDue(a, k)
    BY <1>2 DEF LeaveDue, NoDrop
  <2> QED BY <1>1, <2>1, <2>2, DueFrame
<1>10. Forgetting'
  <2>1. \A s \in Sessions : stage[s] # "sweeping"
    BY <1>2 DEF DropShape, Leaving, NoDrop
  <2>2. ASSUME NEW k \in bySession, NEW a \in announced'[k]
        PROVE  \E s \in Sessions : AgentOf[s] = a /\ stage[s] \notin {"new", "pushed", "gone"}
    <3>1. CASE a \in announced[k]
      BY <3>1 DEF Forgetting, DepartedIsForgotten
    <3>2. CASE a \notin announced[k]
      <4>1. PICK s \in task.members : a = AgentOf[s]
        BY <1>5, <2>2, <3>2
      <4> QED BY <1>3, <1>7, <4>1
    <3> QED BY <3>1, <3>2
  <2> QED BY <1>1, <1>2, <2>1, <2>2 DEF Forgetting, DepartedIsForgotten, NoDrop
<1>11. Working'
  <2> DEFINE job == [room |-> task.room, pass |-> task.pass, listener |-> l, step |-> "lookup",
                     joins |-> {AgentOf[s] : s \in task.members} \ announced[l]]
             left == [task EXCEPT !.todo = @ \ {l}]
  <2>1. jobs' = jobs \cup {job} /\ roomTasks' = (roomTasks \ {task}) \cup {left}
    BY DEF BuildOutput
  <2>2. left.members \subseteq bySession
    BY <1>3 DEF RoomTask
  <2>3. \A a \in job.joins : Present(a, job.room)
    BY <1>3 DEF Present
  <2> HIDE DEF job, left
  <2>4. \A x \in roomTasks' : x.members \subseteq bySession
    BY <2>1, <2>2 DEF Working
  <2>5. \A j \in jobs' : \A a \in j.joins : Present(a, j.room)
    BY <2>1, <2>3 DEF Working
  <2> QED BY <1>1, <2>4, <2>5 DEF Working, Present
<1> QED BY <1>6, <1>8, <1>9, <1>10, <1>11

(* A viewer is told of the join of an avatar that is in its room.          *)
LEMMA RosterPresence ==
    ASSUME AllInv, OnlyMixerDrops', NEW task \in roomTasks, NEW j \in JobsOf(task),
           SendRoster(task, j)
    PROVE  PresenceInv'
<1> USE DEF AllInv, PresenceInv, ServiceInv, ServiceTypes, RegistryTypeOK
<1>1. /\ UNCHANGED <<endpoints, channel, announced, sweep, drop, stage, bySession, snap, mixer,
                     roomTasks>>
      /\ j \in jobs /\ j \in Job
  BY DEF SendRoster, JobsOf, registryVars, MoreTypes
<1>2. drop[Mixer] = NoDrop
  BY DropByMixer, ServiceAssumption DEF DropShape
<1>3. PICK x \in roomTasks : Belongs(j, x)
  BY <1>1 DEF MixInv, JobsBelong
<1>4. j.listener \in bySession /\ RoomOf[j.listener] = j.room
  BY <1>3 DEF Belongs, Working, MixInv, TasksCounted
<1>5. \A a \in j.joins : Present(a, j.room)
  BY <1>1 DEF Working
<1>6. \/ viewer' = viewer
      \/ channel[j.listener] = "open" /\ viewer' = [viewer EXCEPT ![j.listener] = @ \cup j.joins]
  BY DEF SendRoster
<1>7. \A l \in Sessions : viewer'[l] = viewer[l] \/
        (l = j.listener /\ channel[l] = "open" /\ viewer'[l] = viewer[l] \cup j.joins)
  BY <1>6 DEF MoreTypes
<1>8. DropShape' /\ Asked' /\ DropRoom'
  BY <1>1, <1>2 DEF DropShape, Leaving, Asked, DropRoom, NoDrop
<1>9. stage[j.listener] = "live"
  BY <1>4 DEF RegistryInv, Indexed
<1>10. Unreached'
  BY <1>1, <1>7, <1>9 DEF Unreached
<1>11. Forgetting'
  BY <1>1 DEF Forgetting, DepartedIsForgotten
<1>12. ShownOrDue'
  <2> SUFFICES ASSUME NEW l \in bySession, CanReach(l), NEW a \in viewer'[l]
               PROVE  Present(a, RoomOf[l])
    BY <1>1 DEF ShownOrDue, CanReach, Present
  <2>1. CASE a \in viewer[l]
    BY <1>2, <2>1 DEF ShownOrDue, LeaveDue, NoDrop
  <2>2. CASE a \notin viewer[l]
    BY <1>4, <1>5, <1>7, <2>2
  <2> QED BY <2>1, <2>2
<1>13. Working'
  <2>1. [j EXCEPT !.step = "mix"].room = j.room /\ [j EXCEPT !.step = "mix"].joins = j.joins
    BY <1>1 DEF Job
  <2>2. jobs' = (jobs \ {j}) \cup {[j EXCEPT !.step = "mix"]}
    BY DEF SendRoster
  <2>3. \A k \in jobs' : \E i \in jobs : i.room = k.room /\ i.joins = k.joins
    BY <1>1, <2>1, <2>2
  <2>4. \A k \in jobs' : \A a \in k.joins : Present(a, k.room)
    BY <2>3 DEF Working
  <2> QED BY <1>1, <2>4 DEF Working, Present
<1> QED BY <1>8, <1>10, <1>11, <1>12, <1>13

-----------------------------------------------------------------------------
(* Every step keeps the invariant.                                         *)

LEMMA PresenceStep ==
    ASSUME AllInv, Logouts = {}, [Next]_vars
    PROVE  PresenceInv'
<1> USE ServiceAssumption
<1>0. OnlyMixerDrops'
  BY OnlyMixerStep
<1>1. /\ \A d \in Readers : drop[d].step # "idle" => d = Mixer /\ mixer.step = "reap"
      /\ \A t \in Requests : drop[t] = NoDrop
  BY DropByMixer DEF AllInv, PresenceInv, OnlyMixerDrops
<1>2. ASSUME NEW d \in Readers, DropStep(d) PROVE PresenceInv'
  <2>1. d = Mixer
    BY <1>1, <1>2 DEF DropStep, RemoveEndpoint, RemoveSession, ContinueRemove, CloseEndpoint,
                      ReadRemaining, DecideNotice, SendLeave, FinishDrop
  <2> QED
    BY <1>0, <1>2, <2>1, EndpointPresence, TakePresence, RemovePresence, ClosePresence,
       RemainingPresence, NoticePresence, LeavePresence, FinishPresence
    DEF DropStep
<1>3. ASSUME NEW t \in Requests, RequestStep(t) \/ Abandon(t) PROVE PresenceInv'
  <2>1. ASSUME NEW s \in Sessions, InsertInRegistry(t, s) PROVE PresenceInv'
    BY <1>0, <2>1, InsertPresence
  <2>2. ASSUME NEW s \in Sessions, InsertEndpoint(t, s) PROVE PresenceInv'
    <3>1. s \notin bySession
      BY <2>2 DEF InsertEndpoint, AllInv, ServiceInv, RequestInv, RegistryInv, Indexed
    <3> QED BY <1>0, <1>1, <2>2, <3>1, PresenceFrame DEF InsertEndpoint, registryVars
  <2>3. CASE CheckCapacity(t) \/ Establish(t)
    BY <1>0, <1>1, <2>3, PresenceFrame DEF CheckCapacity, Establish, registryVars
  <2>4. CASE Abandon(t)
    <3>1. drop' = drop
      BY <1>1, <2>4 DEF Abandon, AllInv, ServiceInv, ServiceTypes
    <3> QED BY <1>0, <1>1, <2>4, <3>1, PresenceFrame DEF Abandon, registryVars
  <2> QED BY <1>3, <2>1, <2>2, <2>3, <2>4 DEF RequestStep
<1>4. ASSUME NEW t \in Requests, NEW s \in Sessions, Logout(t, s) \/ Provision(t, s)
      PROVE  PresenceInv'
  BY <1>0, <1>1, <1>4, PresenceFrame DEF Logout, Provision, registryVars
<1>5. ASSUME NEW s \in Sessions, ChannelOpens(s) \/ ConnectionFails(s) PROVE PresenceInv'
  BY <1>0, <1>1, <1>5, ChannelPresence, PresenceFrame
  DEF ConnectionFails, ConnectionLost, serviceVars
<1>6. CASE MixerStep
  <2>1. CASE Tick \/ ListRooms \/ EndPass
    BY <1>0, <1>1, <2>1, PresenceFrame
    DEF Tick, ListRooms, EndPass, registryVars
  <2> QED BY <1>0, <1>6, <2>1, ReapPresence, TickPresence DEF MixerStep
<1>7. ASSUME NEW task \in roomTasks, RoomStep(task) PROVE PresenceInv'
  <2>1. ASSUME NEW j \in JobsOf(task), LookUp(task, j) \/ SendMix(task, j) PROVE PresenceInv'
    <3>1. j \in jobs /\ j \in Job
      BY DEF JobsOf, AllInv, MoreTypes
    <3>2. \A st : [j EXCEPT !.step = st].room = j.room /\ [j EXCEPT !.step = st].joins = j.joins
      BY <3>1 DEF Job
    <3>3. \A k \in jobs' : \E i \in jobs : k.room = i.room /\ k.joins = i.joins
      BY <2>1, <3>1, <3>2 DEF LookUp, SendMix
    <3> QED BY <1>0, <1>1, <2>1, <3>3, PresenceFrame DEF LookUp, SendMix, registryVars
  <2>2. CASE FinishRoom(task)
    BY <1>0, <1>1, <2>2, PresenceFrame DEF FinishRoom, registryVars
  <2> QED BY <1>0, <1>7, <2>1, <2>2, BuildPresence, RosterPresence DEF RoomStep
<1>8. CASE UNCHANGED vars
  BY <1>0, <1>1, <1>8, PresenceFrame DEF vars, registryVars, serviceVars
<1> QED BY <1>2, <1>3, <1>4, <1>5, <1>6, <1>7, <1>8 DEF Next

LEMMA PresenceInit == Init => PresenceInv
<1> SUFFICES ASSUME Init PROVE PresenceInv
  OBVIOUS
<1> USE ServiceAssumption DEF Init, RegistryInit
<1>1. OnlyMixerDrops /\ drop[Mixer] = NoDrop
  BY DEF OnlyMixerDrops
<1>2. DropShape /\ DropRoom /\ Asked
  BY <1>1 DEF DropShape, Leaving, DropRoom, Asked, NoDrop
<1>3. Working /\ Unreached
  BY <1>1 DEF Working, Unreached, NoDrop, NoSnap
<1>4. ShownOrDue /\ Forgetting
  BY <1>1 DEF ShownOrDue, Forgetting, DepartedIsForgotten, NoDrop
<1> QED BY <1>1, <1>2, <1>3, <1>4 DEF PresenceInv

LEMMA PresenceInvariance ==
    ASSUME Logouts = {} PROVE Spec => []AllInv
<1>1. ServiceInv /\ MixInv /\ MoreTypes /\ PresenceInv /\ [Next]_vars => PresenceInv'
  BY PresenceStep DEF AllInv
<1>2. ServiceInv /\ MixInv /\ MoreTypes /\ PresenceInv => AllInv
  BY DEF AllInv
<1> QED BY <1>1, <1>2, PresenceInit, ServiceInvariant, MixInvariance, PTL DEF Spec

(* As long as sessions end by the reaper, no departed avatar stays in the  *)
(* voice panel of a connected viewer once its leave is sent                *)
(* (main.rs:103-105), and it is announced anew when it comes back          *)
(* (room.rs:241-247), for any number of sessions, agents and rooms.        *)
THEOREM DepartedAlwaysGone ==
    ASSUME Logouts = {} PROVE Spec => []DepartedIsGone
<1>1. ASSUME AllInv PROVE DepartedIsGone
  <2>1. ASSUME NEW l \in Sessions, NEW a, LeaveDue(a, l) PROVE LeaveUnderWay(a, l)
    BY <2>1, ServiceAssumption DEF LeaveDue, LeaveUnderWay
  <2>2. bySession \subseteq Sessions
    BY <1>1 DEF AllInv, ServiceInv, ServiceTypes, RegistryTypeOK
  <2>3. ShownIsPresent
    BY <1>1, <2>1, <2>2 DEF AllInv, PresenceInv, ShownOrDue, ShownIsPresent
  <2> QED BY <1>1, <2>3 DEF AllInv, PresenceInv, Forgetting, DepartedIsGone
<1> QED BY <1>1, PresenceInvariance, PTL

(* Nor is an avatar taken from a viewer for nothing (main.rs:107-109): one *)
(* that is in the room and marked as announced stays in the list.          *)
THEOREM LeaveAlwaysDeserved ==
    ASSUME Logouts = {} PROVE Spec => LeaveOnlyIfGone
<1> DEFINE Deserved == \A l \in Sessions : \A a \in viewer[l] \ viewer'[l] :
                          ~(a \in announced[l] /\ Present(a, RoomOf[l]))
<1>1. ASSUME AllInv, Next PROVE Deserved
  <2> SUFFICES ASSUME NEW l \in Sessions, NEW a \in viewer[l], a \notin viewer'[l]
               PROVE  a \notin announced[l]
    OBVIOUS
  <2> USE <1>1 DEF AllInv, ServiceInv, ServiceTypes, MoreTypes
  <2>1. viewer' # viewer
    OBVIOUS
  <2>2. ASSUME NEW task \in roomTasks, RoomStep(task) PROVE FALSE
    <3>1. \A j \in jobs : j.listener \in Sessions
      BY DEF Job
    <3> QED BY <2>1, <2>2, <3>1
            DEF RoomStep, BuildOutput, LookUp, SendRoster, SendMix, FinishRoom, JobsOf
  <2>3. PICK d \in Readers : DropStep(d)
    BY <2>1, <2>2 DEF Next, RequestStep, CheckCapacity, Establish, InsertEndpoint, InsertInRegistry,
                Abandon, Logout, Provision, ChannelOpens, ConnectionFails, serviceVars,
                MixerStep, Tick, ListRooms, EndPass, Reap, ReadMembers, MixOrDrain
  <2>4. PICK s \in Sessions, m \in Sessions : SendLeave(d, s, m)
    BY <2>1, <2>3 DEF DropStep, RemoveEndpoint, RemoveSession, ContinueRemove, CloseEndpoint,
                ReadRemaining, DecideNotice, FinishDrop, serviceVars
  <2>5. /\ d = Mixer /\ drop[Mixer].step = "notify" /\ drop[Mixer].id = {s}
        /\ m \in drop[Mixer].todo
    BY <2>4, DropByMixer DEF SendLeave
  <2>6. l = m /\ a = AgentOf[s]
    BY <2>4 DEF SendLeave
  <2>7. drop[Mixer].gone /\ m \in bySession
    BY <2>5 DEF PresenceInv, DropShape, Working
  <2> QED BY <2>5, <2>6, <2>7 DEF PresenceInv, Forgetting
<1>2. AllInv /\ [Next]_vars => [Deserved]_vars
  BY <1>1
<1> QED BY <1>2, PresenceInvariance, PTL DEF Spec, LeaveOnlyIfGone

-----------------------------------------------------------------------------
(* The service implements Presence, step by step                           *)

(* Only the mixer loop's drop can owe a removal.                           *)
Owing(a, l) == \E s \in Sessions : AgentOf[s] = a /\ Owes(Mixer, s, l)
OwedByMixer == [l \in Sessions |-> IF CanReach(l) THEN {a \in viewer[l] : Owing(a, l)} ELSE {}]

LEMMA OwedIsByMixer ==
    ASSUME OnlyMixerDrops, OnlyMixerDrops'
    PROVE  Owed = OwedByMixer /\ Owed' = OwedByMixer'
<1>1. ASSUME NEW l \in Sessions PROVE Owed[l] = OwedByMixer[l]
  <2>1. ASSUME NEW d \in Readers, NEW s \in Sessions, Owes(d, s, l) PROVE d = Mixer
    BY <2>1, ServiceAssumption DEF Owes, OnlyMixerDrops, NoDrop
  <2>2. Mixer \in Readers
    BY ServiceAssumption
  <2>3. \A a : (\E d \in Readers, s \in Sessions : AgentOf[s] = a /\ Owes(d, s, l)) <=> Owing(a, l)
    BY <2>1, <2>2 DEF Owing
  <2> QED BY <2>3 DEF Owed, OwedByMixer, Shown
<1>2. ASSUME NEW l \in Sessions PROVE Owed'[l] = OwedByMixer'[l]
  <2>1. ASSUME NEW d \in Readers, NEW s \in Sessions, Owes(d, s, l)' PROVE d = Mixer
    BY <2>1, ServiceAssumption DEF Owes, OnlyMixerDrops, NoDrop
  <2>2. Mixer \in Readers
    BY ServiceAssumption
  <2>3. \A a : (\E d \in Readers, s \in Sessions : AgentOf[s] = a /\ Owes(d, s, l)') <=> Owing(a, l)'
    BY <2>1, <2>2 DEF Owing
  <2> QED BY <2>3 DEF Owed, OwedByMixer, Shown
<1> QED BY <1>1, <1>2 DEF Owed, OwedByMixer

(* A step that connects and disconnects nobody, shows and hides nothing    *)
(* and leaves what is owed                                                 *)
LEMMA SameLists ==
    ASSUME OnlyMixerDrops, OnlyMixerDrops',
           \A l \in Sessions : CanReach(l)' <=> CanReach(l),
           \A l \in Sessions : CanReach(l) => viewer'[l] = viewer[l],
           \A l \in Sessions : CanReach(l) => \A a \in viewer[l] : Owing(a, l)' <=> Owing(a, l)
    PROVE  UNCHANGED <<Reachable, Shown, Owed>>
<1>1. Reachable' = Reachable
  BY DEF Reachable
<1>2. Shown' = Shown
  BY DEF Shown
<1>3. OwedByMixer' = OwedByMixer
  BY DEF OwedByMixer
<1> QED BY <1>1, <1>2, <1>3, OwedIsByMixer

(* Whoever can be reached is registered.                                   *)
LEMMA ReachableRegistered ==
    ASSUME AllInv, EndpointIsBacked, NEW l \in Sessions, CanReach(l)
    PROVE  l \in bySession
<1>1. CASE Established(l)
  <2>1. stage[l] \in {"new", "pushed"}
    BY <1>1 DEF Established, AllInv, ServiceInv, RequestInv
  <2> QED BY <2>1 DEF AllInv, PresenceInv, Unreached, CanReach
<1> QED BY <1>1 DEF EndpointIsBacked, CanReach

(* Nothing is owed outside of a departure.                                 *)
LEMMA NothingOwed ==
    ASSUME AllInv, drop[Mixer].step \notin {"removing", "close", "members", "notify"},
           NEW a, NEW l
    PROVE  ~Owing(a, l)
BY DEF AllInv, PresenceInv, DropShape, Owing, Owes

(* insert: an avatar comes back before its departure has been told, and    *)
(* the drop that reads the room's members after that tells nobody.         *)
LEMMA InsertArrives ==
    ASSUME AllInv, OnlyMixerDrops', NEW s \in Sessions, InsertSession(s),
           UNCHANGED <<endpoints, channel, viewer, drop>>
    PROVE  Promise!Arrive(s)
<1> USE DEF AllInv, PresenceInv, ServiceInv, ServiceTypes, RegistryTypeOK
<1>1. bySession' = bySession \cup {s} /\ snap' = snap /\ s \notin bySession
  BY DEF InsertSession, RegistryInv, Indexed
<1>2. UNCHANGED <<Reachable, Shown>>
  BY DEF Reachable, Shown, CanReach
<1>3. Owed = OwedByMixer /\ Owed' = OwedByMixer'
  BY OwedIsByMixer
<1>4. snap[Mixer].phase \in {"idle", "ids", "done"}
  BY ServiceAssumption DEF Snap
<1>5. \/ Seen(Mixer)' = Seen(Mixer)
      \/ Seen(Mixer)' = Seen(Mixer) \cup {s}
  <2>1. CASE snap[Mixer].phase = "idle"
    BY <1>1, <2>1 DEF Seen
  <2>2. CASE snap[Mixer].phase = "ids"
    BY <1>1, <2>2 DEF Seen
  <2>3. CASE snap[Mixer].phase = "done"
    BY <1>1, <2>3 DEF Seen
  <2> QED BY <1>4, <2>1, <2>2, <2>3
<1>6. Owed' \in {Owed, Promise!Without(Owed, AgentOf[s], RoomOf[s])}
  <2>1. CASE /\ Seen(Mixer)' = Seen(Mixer) \cup {s}
             /\ drop[Mixer].step \in {"removing", "close", "members"}
             /\ \E o \in drop[Mixer].id : AgentOf[o] = AgentOf[s] /\ RoomOf[o] = RoomOf[s]
    <3>1. PICK o \in Sessions : /\ drop[Mixer].id = {o}
                                /\ AgentOf[o] = AgentOf[s] /\ RoomOf[o] = RoomOf[s]
      BY <2>1 DEF DropShape
    <3>2. drop[Mixer].todo = {}
      BY <2>1 DEF DropShape
    <3>3. \A a, l : ~Owing(a, l)'
      BY <2>1, <3>1, <3>2 DEF Owing, Owes
    <3>4. \A a, l : Owing(a, l) => a = AgentOf[s] /\ RoomOf[l] = RoomOf[s]
      BY <3>1 DEF Owing, Owes
    <3>5. ASSUME NEW l \in Sessions
          PROVE  Owed'[l] = Promise!Without(Owed, AgentOf[s], RoomOf[s])[l]
      BY <1>3, <3>3, <3>4 DEF OwedByMixer, Promise!Without
    <3> QED BY <1>3, <3>5 DEF OwedByMixer, Promise!Without
  <2>2. CASE ~(/\ Seen(Mixer)' = Seen(Mixer) \cup {s}
               /\ drop[Mixer].step \in {"removing", "close", "members"}
               /\ \E o \in drop[Mixer].id : AgentOf[o] = AgentOf[s] /\ RoomOf[o] = RoomOf[s])
    <3>1. \A a, l : Owing(a, l)' <=> Owing(a, l)
      BY <1>5, <2>2 DEF Owing, Owes
    <3>2. \A l \in Sessions : CanReach(l)' <=> CanReach(l)
      BY DEF CanReach
    <3>3. Owed' = Owed
      BY <3>1, <3>2, SameLists
    <3> QED BY <3>3
  <2> QED BY <2>1, <2>2
<1> QED BY <1>1, <1>2, <1>6 DEF Promise!Arrive

(* remove, by drop_session: the avatar's last session goes, and its removal *)
(* from the lists that show it is owed; or the call finds nothing.         *)
LEMMA TakeDeparts ==
    ASSUME AllInv, OnlyMixerDrops', EndpointIsBacked, NEW s \in Sessions, RemoveSession(Mixer, s)
    PROVE  Promise!Depart(s) \/ UNCHANGED <<bySession, Reachable, Shown, Owed>>
<1> USE DEF AllInv, PresenceInv, ServiceInv, ServiceTypes, RegistryTypeOK
<1>1. /\ UNCHANGED <<endpoints, channel, viewer, snap>>
      /\ drop[Mixer].step = "registry" /\ drop[Mixer].id = {s}
  BY DEF RemoveSession, TakeSession, registryVars
<1>2. /\ drop[Mixer].gone = FALSE /\ drop[Mixer].todo = {} /\ mixer.step = "reap"
  BY <1>1, DropByMixer, ServiceAssumption DEF DropShape, DropState
<1>3. snap[Mixer].phase = "idle"
  BY <1>1, <1>2 DEF MixInv, MixerReads
<1>4. \A a, l : ~Owing(a, l)
  BY <1>1, NothingOwed
<1>5. UNCHANGED <<Reachable, Shown>>
  BY <1>1 DEF Reachable, Shown, CanReach
<1>6. CASE TakeSession(s)
  <2>1. /\ drop' = [drop EXCEPT ![Mixer].step = "removing"]
        /\ bySession' = bySession \ {s} /\ s \in bySession
    BY <1>6 DEF RemoveSession, TakeSession
  <2>2. /\ drop'[Mixer].step = "removing" /\ drop'[Mixer].id = {s} /\ drop'[Mixer].todo = {}
    BY <1>1, <1>2, <2>1, ServiceAssumption DEF DropState
  <2>3. Seen(Mixer)' = bySession'
    BY <1>1, <1>3 DEF Seen
  <2>4. \A a, l : Owing(a, l)' <=> /\ a = AgentOf[s] /\ RoomOf[s] = RoomOf[l]
                                   /\ ~Promise!InRoom(a, RoomOf[s], bySession')
    BY <2>2, <2>3 DEF Owing, Owes, Promise!InRoom
  <2>5. ASSUME NEW l \in Sessions
        PROVE  OwedByMixer'[l] =
                 IF RoomOf[l] # RoomOf[s] \/ Promise!InRoom(AgentOf[s], RoomOf[s], bySession')
                   THEN OwedByMixer[l] ELSE OwedByMixer[l] \cup ({AgentOf[s]} \cap Shown[l])
    BY <1>1, <1>4, <2>4 DEF OwedByMixer, Shown, CanReach
  <2>6. OwedByMixer' = [l \in Sessions |->
                 IF RoomOf[l] # RoomOf[s] \/ Promise!InRoom(AgentOf[s], RoomOf[s], bySession')
                   THEN OwedByMixer[l] ELSE OwedByMixer[l] \cup ({AgentOf[s]} \cap Shown[l])]
    BY <2>5 DEF OwedByMixer
  <2> QED BY <1>5, <2>1, <2>6, OwedIsByMixer DEF Promise!Depart
<1>7. CASE ~TakeSession(s)
  <2>1. drop' = [drop EXCEPT ![Mixer].step = "close"] /\ bySession' = bySession
    BY <1>7 DEF RemoveSession, registryVars
  <2>2. /\ drop'[Mixer].step = "close" /\ drop'[Mixer].id = {s} /\ drop'[Mixer].todo = {}
    BY <1>1, <1>2, <2>1, ServiceAssumption DEF DropState
  <2>3. Seen(Mixer)' = bySession
    BY <1>1, <1>3, <2>1 DEF Seen
  <2>4. ASSUME NEW l \in Sessions, CanReach(l), NEW a \in viewer[l] PROVE ~Owing(a, l)'
    <3>1. l \in bySession
      BY <2>4, ReachableRegistered
    <3>2. ~LeaveDue(a, l)
      BY <1>1, <1>2 DEF LeaveDue
    <3>3. Present(a, RoomOf[l])
      BY <2>4, <3>1, <3>2 DEF ShownOrDue
    <3> QED BY <2>2, <2>3, <3>3 DEF Owing, Owes, Present
  <2> QED BY <1>1, <1>4, <2>1, <2>4, SameLists DEF CanReach
<1> QED BY <1>6, <1>7

(* The steps of drop_session between them change nothing that is promised. *)
LEMMA RemoveStutters ==
    ASSUME AllInv, OnlyMixerDrops', NEW s \in Sessions, ContinueRemove(Mixer, s)
    PROVE  UNCHANGED <<bySession, Reachable, Shown, Owed>>
<1> USE DEF AllInv, PresenceInv, ServiceInv, ServiceTypes, RegistryTypeOK
<1>1. /\ UNCHANGED <<endpoints, channel, viewer, snap, bySession>>
      /\ drop[Mixer].step = "removing"
  BY DEF ContinueRemove, RetainOthers, BeginForget, ForgetAt, FinishRemove
<1>2. /\ drop'[Mixer].step \in {"removing", "close"}
      /\ drop'[Mixer].id = drop[Mixer].id /\ drop'[Mixer].todo = drop[Mixer].todo
  <2>1. drop' = drop \/ drop' = [drop EXCEPT ![Mixer].step = "close", ![Mixer].gone = TRUE]
    BY DEF ContinueRemove
  <2> QED BY <1>1, <2>1, ServiceAssumption DEF DropState
<1>3. Seen(Mixer)' = Seen(Mixer)
  BY <1>1 DEF Seen
<1>4. \A a, l : Owing(a, l)' <=> Owing(a, l)
  BY <1>1, <1>2, <1>3 DEF Owing, Owes
<1> QED BY <1>1, <1>4, SameLists DEF CanReach

LEMMA CloseStutters ==
    ASSUME AllInv, OnlyMixerDrops', EndpointIsBacked, NEW s \in Sessions, CloseEndpoint(Mixer, s)
    PROVE  UNCHANGED <<bySession, Reachable, Shown, Owed>>
<1> USE DEF AllInv, PresenceInv, ServiceInv, ServiceTypes, RegistryTypeOK
<1>1. /\ UNCHANGED <<endpoints, viewer, snap, bySession>>
      /\ drop[Mixer].step = "close" /\ drop[Mixer].id = {s} /\ drop[Mixer].todo = {}
  BY DEF CloseEndpoint, ConnectionLost, registryVars, DropShape
<1>2. \A l \in Sessions : CanReach(l)' <=> CanReach(l)
  <2>1. CASE drop[Mixer].ep
    <3>1. s \notin endpoints
      BY <1>1, <2>1, ServiceAssumption DEF DropInv
    <3>2. channel' = [channel EXCEPT ![s] = "closed"]
      BY <2>1 DEF CloseEndpoint
    <3>3. \A l \in Sessions : l # s => channel'[l] = channel[l]
      BY <3>2 DEF MoreTypes
    <3> QED BY <1>1, <3>1, <3>3 DEF CanReach
  <2>2. CASE ~drop[Mixer].ep
    BY <1>1, <2>2 DEF CloseEndpoint, CanReach
  <2> QED BY <2>1, <2>2
<1>3. drop' = [drop EXCEPT ![Mixer] = IF drop[Mixer].gone
                 THEN [drop[Mixer] EXCEPT !.step = "members"] ELSE NoDrop]
  BY DEF CloseEndpoint
<1>4. CASE drop[Mixer].gone
  <2>1. drop'[Mixer].step = "members" /\ drop'[Mixer].id = {s} /\ drop'[Mixer].todo = {}
    BY <1>1, <1>3, <1>4, ServiceAssumption DEF DropState
  <2>2. Seen(Mixer)' = Seen(Mixer)
    BY <1>1 DEF Seen
  <2>3. \A a, l : Owing(a, l)' <=> Owing(a, l)
    BY <1>1, <2>1, <2>2 DEF Owing, Owes
  <2> QED BY <1>1, <1>2, <2>3, SameLists
<1>5. CASE ~drop[Mixer].gone
  <2>1. drop'[Mixer] = NoDrop
    BY <1>3, <1>5, ServiceAssumption
  <2>2. \A a, l : ~Owing(a, l)'
    BY <2>1 DEF Owing, Owes, NoDrop
  <2>3. snap[Mixer].phase = "idle"
    BY <1>1, DropByMixer, ServiceAssumption DEF MixInv, MixerReads
  <2>4. Seen(Mixer) = bySession
    BY <2>3 DEF Seen
  <2>5. ASSUME NEW l \in Sessions, CanReach(l), NEW a \in viewer[l] PROVE ~Owing(a, l)
    <3>1. l \in bySession
      BY <2>5, ReachableRegistered
    <3>2. ~LeaveDue(a, l)
      BY <1>1, <1>5 DEF LeaveDue
    <3>3. Present(a, RoomOf[l])
      BY <2>5, <3>1, <3>2 DEF ShownOrDue
    <3> QED BY <1>1, <2>4, <3>3 DEF Owing, Owes, Present
  <2> QED BY <1>1, <1>2, <2>2, <2>5, SameLists
<1> QED BY <1>4, <1>5

LEMMA RemainingStutters ==
    ASSUME AllInv, OnlyMixerDrops', NEW s \in Sessions, ReadRemaining(Mixer, s)
    PROVE  UNCHANGED <<bySession, Reachable, Shown, Owed>>
<1> USE DEF AllInv, PresenceInv, ServiceInv, ServiceTypes, RegistryTypeOK
<1>1. /\ UNCHANGED <<endpoints, channel, viewer, bySession, drop>>
      /\ drop[Mixer].step = "members" /\ drop[Mixer].id = {s}
  BY DEF ReadRemaining, MembersIds, MembersFilter, serviceVars
<1>2. \A m : RoomOf[m] = RoomOf[s] => (m \in Seen(Mixer)' <=> m \in Seen(Mixer))
  <2>1. CASE MembersIds(Mixer, RoomOf[s])
    <3>1. /\ snap[Mixer].phase = "idle" /\ snap'[Mixer].phase = "ids"
          /\ snap'[Mixer].ids = byRoom[RoomOf[s]] /\ bySession' = bySession
      BY <2>1, ServiceAssumption DEF MembersIds
    <3>2. Seen(Mixer) = bySession /\ Seen(Mixer)' = byRoom[RoomOf[s]] \cap bySession
      BY <3>1 DEF Seen
    <3> QED BY <3>2, ConstantsAssumption DEF RegistryInv, Indexed, ListedStages
  <2>2. CASE MembersFilter(Mixer)
    <3>1. /\ snap[Mixer].phase = "ids" /\ snap'[Mixer].phase = "done"
          /\ snap'[Mixer].found = snap[Mixer].ids \cap bySession
      BY <2>2, ServiceAssumption DEF MembersFilter
    <3> QED BY <3>1 DEF Seen
  <2> QED BY <2>1, <2>2 DEF ReadRemaining
<1>3. ASSUME NEW a, NEW l PROVE Owing(a, l)' <=> Owing(a, l)
  <2>1. ASSUME NEW o \in Sessions PROVE Owes(Mixer, o, l)' <=> Owes(Mixer, o, l)
    BY <1>1, <1>2 DEF Owes
  <2> QED BY <2>1 DEF Owing
<1> QED BY <1>1, <1>3, SameLists DEF CanReach

LEMMA NoticeStutters ==
    ASSUME AllInv, OnlyMixerDrops', EndpointIsBacked, NEW s \in Sessions, DecideNotice(Mixer, s)
    PROVE  UNCHANGED <<bySession, Reachable, Shown, Owed>>
<1> USE DEF AllInv, PresenceInv, ServiceInv, ServiceTypes, RegistryTypeOK
<1>1. /\ UNCHANGED <<endpoints, channel, viewer, bySession>>
      /\ drop[Mixer].step = "members" /\ drop[Mixer].id = {s}
      /\ snap[Mixer].phase = "done"
  BY DEF DecideNotice, ReleaseSnap
<1>2. drop[Mixer].todo = {}
  BY <1>1 DEF DropShape
<1>3. /\ Seen(Mixer) = snap[Mixer].found
      /\ \A m \in snap[Mixer].found : RoomOf[m] = RoomOf[s]
  BY <1>1 DEF Seen, DropRoom, MixInv, MixerReads
<1>4. CASE StillPresent(s, snap[Mixer].found)
  <2>1. drop'[Mixer] = NoDrop
    BY <1>4, ServiceAssumption DEF DecideNotice
  <2>2. \A a, l : ~Owing(a, l)'
    BY <2>1 DEF Owing, Owes, NoDrop
  <2>3. \A a, l : ~Owing(a, l)
    BY <1>1, <1>2, <1>3, <1>4 DEF Owing, Owes, StillPresent
  <2> QED BY <1>1, <2>2, <2>3, SameLists DEF CanReach
<1>5. CASE ~StillPresent(s, snap[Mixer].found)
  <2>1. drop' = [drop EXCEPT ![Mixer] = [drop[Mixer] EXCEPT !.step = "notify", !.todo = snap[Mixer].found]]
    BY <1>5 DEF DecideNotice
  <2>2. /\ drop'[Mixer].step = "notify" /\ drop'[Mixer].id = {s}
        /\ drop'[Mixer].todo = snap[Mixer].found
    <3>1. drop[Mixer] \in DropState
      BY ServiceAssumption
    <3>2. drop'[Mixer] = [drop[Mixer] EXCEPT !.step = "notify", !.todo = snap[Mixer].found]
      BY <2>1, ServiceAssumption
    <3> QED BY <1>1, <3>1, <3>2 DEF DropState
  <2>3. ASSUME NEW l \in Sessions, CanReach(l), NEW a \in viewer[l]
        PROVE  Owing(a, l)' <=> Owing(a, l)
    <3>1. l \in bySession
      BY <2>3, ReachableRegistered
    <3>2. RoomOf[l] = RoomOf[s] => l \in snap[Mixer].found
      BY <1>1, <3>1 DEF Asked
    <3>3. Owing(a, l)' <=> AgentOf[s] = a /\ RoomOf[s] = RoomOf[l]
      BY <2>2, <3>2 DEF Owing, Owes
    <3>4. Owing(a, l) <=> AgentOf[s] = a /\ RoomOf[s] = RoomOf[l]
      BY <1>1, <1>2, <1>3, <1>5 DEF Owing, Owes, StillPresent
    <3> QED BY <3>3, <3>4
  <2> QED BY <1>1, <2>3, SameLists DEF CanReach
<1> QED BY <1>4, <1>5

(* A viewer that shows the avatar is owed the removal it is sent.          *)
LEMMA LeaveHides ==
    ASSUME AllInv, OnlyMixerDrops', NEW s \in Sessions, NEW m \in Sessions, SendLeave(Mixer, s, m)
    PROVE  /\ bySession' = bySession
           /\ Promise!Hide(m, AgentOf[s]) \/ UNCHANGED <<Reachable, Shown, Owed>>
<1> USE DEF AllInv, PresenceInv, ServiceInv, ServiceTypes, RegistryTypeOK
<1>1. /\ UNCHANGED <<endpoints, channel, bySession>>
      /\ drop[Mixer].step = "notify" /\ drop[Mixer].id = {s} /\ m \in drop[Mixer].todo
      /\ viewer' = IF CanReach(m) THEN [viewer EXCEPT ![m] = @ \ {AgentOf[s]}] ELSE viewer
  BY DEF SendLeave, registryVars
<1>2. /\ drop'[Mixer].step = "notify" /\ drop'[Mixer].id = {s}
      /\ drop'[Mixer].todo = drop[Mixer].todo \ {m}
  BY <1>1, ServiceAssumption DEF SendLeave, DropState
<1>3. \A a, l : Owing(a, l) <=> AgentOf[s] = a /\ RoomOf[s] = RoomOf[l] /\ l \in drop[Mixer].todo
  BY <1>1 DEF Owing, Owes
<1>4. \A a, l : Owing(a, l)' <=>
        AgentOf[s] = a /\ RoomOf[s] = RoomOf[l] /\ l \in drop[Mixer].todo /\ l # m
  BY <1>2 DEF Owing, Owes
<1>5. \A l \in Sessions : CanReach(l)' <=> CanReach(l)
  BY <1>1 DEF CanReach
<1>6. CASE CanReach(m) /\ AgentOf[s] \in viewer[m]
  <2>1. RoomOf[s] = RoomOf[m]
    BY <1>1 DEF DropRoom
  <2>2. \A l \in Sessions : viewer'[l] = IF l = m THEN viewer[l] \ {AgentOf[s]} ELSE viewer[l]
    BY <1>1, <1>6 DEF MoreTypes
  <2>3. AgentOf[s] \in OwedByMixer[m]
    BY <1>1, <1>3, <1>6, <2>1 DEF OwedByMixer
  <2>4. Shown' = [Shown EXCEPT ![m] = @ \ {AgentOf[s]}]
    BY <1>5, <1>6, <2>2 DEF Shown
  <2>5. ASSUME NEW l \in Sessions
        PROVE  OwedByMixer'[l] = [OwedByMixer EXCEPT ![m] = @ \ {AgentOf[s]}][l]
    <3>1. CASE l = m
      BY <1>3, <1>4, <1>5, <2>2, <3>1 DEF OwedByMixer
    <3>2. CASE l # m
      BY <1>3, <1>4, <1>5, <2>2, <3>2 DEF OwedByMixer
    <3> QED BY <3>1, <3>2
  <2>6. OwedByMixer' = [OwedByMixer EXCEPT ![m] = @ \ {AgentOf[s]}]
    BY <2>5 DEF OwedByMixer
  <2>7. Reachable' = Reachable
    BY <1>5 DEF Reachable
  <2> QED BY <1>1, <2>3, <2>4, <2>6, <2>7, OwedIsByMixer DEF Promise!Hide
<1>7. CASE ~(CanReach(m) /\ AgentOf[s] \in viewer[m])
  <2>1. \A l \in Sessions : viewer'[l] = viewer[l]
    BY <1>1, <1>7 DEF MoreTypes
  <2>2. ASSUME NEW l \in Sessions, CanReach(l), NEW a \in viewer[l]
        PROVE  Owing(a, l)' <=> Owing(a, l)
    BY <1>3, <1>4, <1>7, <2>2
  <2> QED BY <1>1, <1>5, <2>1, <2>2, SameLists
<1> QED BY <1>6, <1>7

(* A drop begins by cutting the viewer off.                                *)
LEMMA EndpointDisconnects ==
    ASSUME AllInv, OnlyMixerDrops', NEW s \in Sessions, RemoveEndpoint(Mixer, s)
    PROVE  Promise!Disconnect(s) \/ UNCHANGED <<bySession, Reachable, Shown, Owed>>
<1> USE DEF AllInv, PresenceInv, ServiceInv, ServiceTypes
<1>1. /\ UNCHANGED <<channel, viewer, bySession>>
      /\ endpoints' = endpoints \ {s} /\ drop[Mixer].step = "endpoint"
  BY DEF RemoveEndpoint, registryVars
<1>2. drop'[Mixer].step = "registry" /\ drop'[Mixer].todo = {}
  BY <1>1, ServiceAssumption DEF RemoveEndpoint, DropState, DropShape
<1>3. \A a, l : ~Owing(a, l) /\ ~Owing(a, l)'
  BY <1>1, <1>2, NothingOwed DEF Owing, Owes
<1>4. \A l \in Sessions : CanReach(l)' <=> CanReach(l) /\ l # s
  BY <1>1 DEF CanReach
<1>5. CASE CanReach(s)
  <2>1. s \in Reachable /\ Reachable' = Reachable \ {s}
    BY <1>4, <1>5 DEF Reachable
  <2>2. Shown' = [Shown EXCEPT ![s] = {}]
    BY <1>1, <1>4 DEF Shown
  <2>3. OwedByMixer' = [OwedByMixer EXCEPT ![s] = {}]
    BY <1>3 DEF OwedByMixer
  <2> QED BY <1>1, <2>1, <2>2, <2>3, OwedIsByMixer DEF Promise!Disconnect
<1>6. CASE ~CanReach(s)
  BY <1>1, <1>3, <1>4, <1>6, SameLists
<1> QED BY <1>5, <1>6

(* A viewer connects when its channel opens, if its endpoint is there.     *)
LEMMA ChannelConnects ==
    ASSUME AllInv, OnlyMixerDrops', NEW s \in Sessions, ChannelOpens(s)
    PROVE  Promise!Connect(s) \/ UNCHANGED <<bySession, Reachable, Shown, Owed>>
<1> USE DEF AllInv, PresenceInv, MoreTypes
<1>1. /\ UNCHANGED <<endpoints, viewer, drop, bySession, snap>> /\ channel[s] = "none"
      /\ channel' = [channel EXCEPT ![s] = "open"]
  BY DEF ChannelOpens, registryVars
<1>2. viewer[s] = {}
  BY <1>1 DEF Unreached
<1>3. \A a, l : Owing(a, l)' <=> Owing(a, l)
  BY <1>1 DEF Owing, Owes, Seen
<1>4. \A l \in Sessions : CanReach(l)' <=> CanReach(l) \/ (l = s /\ s \in endpoints)
  BY <1>1 DEF CanReach
<1>5. CASE s \in endpoints
  <2>1. s \notin Reachable /\ Reachable' = Reachable \cup {s}
    BY <1>1, <1>4, <1>5 DEF Reachable, CanReach
  <2>2. Shown' = Shown
    BY <1>1, <1>2, <1>4 DEF Shown
  <2>3. OwedByMixer' = OwedByMixer
    BY <1>1, <1>2, <1>3, <1>4 DEF OwedByMixer
  <2> QED BY <1>1, <2>1, <2>2, <2>3, OwedIsByMixer DEF Promise!Connect
<1>6. CASE s \notin endpoints
  BY <1>1, <1>3, <1>4, <1>6, SameLists
<1> QED BY <1>5, <1>6

(* A roster names avatars of the room, when no removal is owed to anybody. *)
LEMMA RosterShows ==
    ASSUME AllInv, OnlyMixerDrops', NEW task \in roomTasks, NEW j \in JobsOf(task),
           SendRoster(task, j)
    PROVE  Promise!Show(j.listener, j.joins) \/ UNCHANGED <<bySession, Reachable, Shown, Owed>>
<1> USE DEF AllInv, PresenceInv, ServiceInv, ServiceTypes, RegistryTypeOK
<1>1. /\ UNCHANGED <<endpoints, channel, drop, bySession>>
      /\ j \in jobs /\ j \in Job
  BY DEF SendRoster, JobsOf, registryVars, MoreTypes
<1>2. drop[Mixer].step = "idle"
  BY DropByMixer, ServiceAssumption
<1>3. PICK x \in roomTasks : Belongs(j, x)
  BY <1>1 DEF MixInv, JobsBelong
<1>4. j.listener \in Sessions /\ RoomOf[j.listener] = j.room
  BY <1>3 DEF Belongs, Working, MixInv, TasksCounted
<1>5. \A a \in j.joins : Promise!InRoom(a, j.room, bySession)
  BY <1>1 DEF Working, Present, Promise!InRoom
<1>6. \A a, l : ~Owing(a, l)
  BY <1>2, NothingOwed
<1>7. \A a, l : ~Owing(a, l)'
  BY <1>1, <1>2 DEF DropShape, Owing, Owes, NoDrop
<1>8. \A l \in Sessions : CanReach(l)' <=> CanReach(l)
  BY <1>1 DEF CanReach
<1>9. CASE CanReach(j.listener)
  <2>1. viewer' = [viewer EXCEPT ![j.listener] = @ \cup j.joins]
    BY <1>9 DEF SendRoster, CanReach
  <2>2. Shown' = [Shown EXCEPT ![j.listener] = @ \cup j.joins]
    BY <1>4, <1>8, <1>9, <2>1 DEF Shown, MoreTypes
  <2>3. OwedByMixer' = OwedByMixer /\ \A a : a \notin OwedByMixer[j.listener]
    BY <1>4, <1>6, <1>7 DEF OwedByMixer
  <2>4. Reachable' = Reachable /\ j.listener \in Reachable
    BY <1>4, <1>8, <1>9 DEF Reachable
  <2> QED BY <1>1, <1>4, <1>5, <2>2, <2>3, <2>4, OwedIsByMixer DEF Promise!Show
<1>10. CASE ~CanReach(j.listener)
  <2>1. \A l \in Sessions : CanReach(l) => viewer'[l] = viewer[l]
    BY <1>10 DEF SendRoster, MoreTypes
  <2> QED BY <1>1, <1>6, <1>7, <1>8, <2>1, SameLists
<1> QED BY <1>9, <1>10

(* Steps in which no drop takes part leave the promise alone.              *)
LEMMA OthersStutter ==
    ASSUME AllInv, OnlyMixerDrops', UNCHANGED <<channel, viewer, bySession>>,
           \A l \in Sessions : channel[l] = "open" => (l \in endpoints' <=> l \in endpoints),
           \/ drop' = drop /\ snap'[Mixer] = snap[Mixer]
           \/ /\ drop[Mixer].step \in {"idle", "notify"} /\ drop[Mixer].todo = {}
              /\ drop'[Mixer].step \in {"idle", "endpoint"} /\ drop'[Mixer].todo = {}
    PROVE  UNCHANGED <<bySession, Reachable, Shown, Owed>>
<1>1. ASSUME NEW a, NEW l PROVE Owing(a, l)' <=> Owing(a, l)
  <2>1. CASE drop' = drop /\ snap'[Mixer] = snap[Mixer]
    BY <2>1 DEF Owing, Owes, Seen
  <2>2. CASE ~(drop' = drop /\ snap'[Mixer] = snap[Mixer])
    BY <2>2 DEF Owing, Owes
  <2> QED BY <2>1, <2>2
<1> QED BY <1>1, SameLists DEF CanReach, AllInv, PresenceInv

LEMMA PromiseStep ==
    ASSUME AllInv, EndpointIsBacked, Logouts = {}, [Next]_vars
    PROVE  [Promise!Next]_(Promise!presenceVars)
<1> USE ServiceAssumption DEF Promise!presenceVars
<1>0. OnlyMixerDrops'
  BY OnlyMixerStep
<1>1. /\ \A d \in Readers : drop[d].step # "idle" => d = Mixer /\ mixer.step = "reap"
      /\ \A t \in Requests : drop[t] = NoDrop
      /\ drop[Mixer].step = "idle" => drop[Mixer] = NoDrop
  BY DropByMixer DEF AllInv, PresenceInv, OnlyMixerDrops, DropShape
<1> DEFINE Mapped == Promise!Next \/ UNCHANGED <<bySession, Reachable, Shown, Owed>>
<1>2. ASSUME NEW d \in Readers, DropStep(d) PROVE Mapped
  <2>1. d = Mixer
    BY <1>1, <1>2 DEF DropStep, RemoveEndpoint, RemoveSession, ContinueRemove, CloseEndpoint,
                      ReadRemaining, DecideNotice, SendLeave, FinishDrop
  <2>2. ASSUME NEW s \in Sessions, RemoveEndpoint(Mixer, s) \/ RemoveSession(Mixer, s) PROVE Mapped
    BY <1>0, <2>2, EndpointDisconnects, TakeDeparts DEF Promise!Next
  <2>3. ASSUME NEW s \in Sessions, NEW m \in Sessions, SendLeave(Mixer, s, m) PROVE Mapped
    <3>1. AgentOf[s] \in Agents
      BY ConstantsAssumption
    <3> QED BY <1>0, <2>3, <3>1, LeaveHides DEF Promise!Next
  <2>4. CASE FinishDrop(Mixer)
    <3>1. drop'[Mixer] = NoDrop
      BY <2>4 DEF FinishDrop, AllInv, ServiceInv, ServiceTypes
    <3> QED BY <1>0, <2>4, <3>1, OthersStutter DEF FinishDrop, registryVars, NoDrop
  <2> QED
    BY <1>0, <1>2, <2>1, <2>2, <2>3, <2>4, RemoveStutters, CloseStutters, RemainingStutters,
       NoticeStutters
    DEF DropStep
<1>3. ASSUME NEW t \in Requests, NEW s \in Sessions, InsertInRegistry(t, s) PROVE Mapped
  <2>1. UNCHANGED <<endpoints, channel, viewer, drop, snap>>
    BY <1>3 DEF InsertInRegistry, PushToRoom, InsertSession
  <2>2. CASE InsertSession(s)
    BY <1>0, <2>1, <2>2, InsertArrives DEF Promise!Next
  <2>3. CASE PushToRoom(s)
    BY <1>0, <2>1, <2>3, OthersStutter DEF PushToRoom
  <2> QED BY <1>3, <2>2, <2>3 DEF InsertInRegistry
<1>4. ASSUME NEW t \in Requests, NEW s \in Sessions, InsertEndpoint(t, s) PROVE Mapped
  <2>1. channel[s] # "open"
    BY <1>4 DEF InsertEndpoint, AllInv, PresenceInv, Unreached, ServiceInv, RequestInv
  <2> QED BY <1>0, <1>4, <2>1, OthersStutter DEF InsertEndpoint, registryVars
<1>5. ASSUME NEW t \in Requests,
             \/ CheckCapacity(t) \/ Establish(t) \/ Abandon(t)
             \/ \E s \in Sessions : Logout(t, s) \/ Provision(t, s)
      PROVE  Mapped
  <2>1. /\ UNCHANGED <<channel, viewer, bySession, endpoints, snap>>
        /\ drop' = drop
    BY <1>1, <1>5
    DEF CheckCapacity, Establish, Abandon, Logout, Provision, registryVars, AllInv, ServiceInv,
        ServiceTypes
  <2> QED BY <1>0, <2>1, OthersStutter
<1>6. ASSUME NEW s \in Sessions, ChannelOpens(s) \/ ConnectionFails(s) PROVE Mapped
  <2>1. CASE ChannelOpens(s)
    BY <1>0, <2>1, ChannelConnects DEF Promise!Next
  <2>2. CASE ConnectionFails(s)
    BY <1>0, <2>2, OthersStutter DEF ConnectionFails, ConnectionLost, serviceVars
  <2> QED BY <1>6, <2>1, <2>2
<1>7. CASE MixerStep
  <2>1. CASE Tick \/ ListRooms \/ EndPass
    BY <1>0, <2>1, OthersStutter DEF Tick, ListRooms, EndPass, registryVars
  <2>2. ASSUME NEW s \in Sessions, Reap(s) PROVE Mapped
    <3>1. drop'[Mixer].step = "endpoint" /\ drop'[Mixer].todo = {}
      BY <2>2 DEF Reap, StartDrop, NoDrop, AllInv, ServiceInv, ServiceTypes
    <3> QED BY <1>0, <1>1, <2>2, <3>1, OthersStutter DEF Reap, registryVars, NoDrop
  <2>3. ASSUME NEW r \in Rooms, ReadMembers(r) \/ MixOrDrain(r) PROVE Mapped
    <3>1. drop[Mixer] = NoDrop
      BY <1>1, <2>3 DEF ReadMembers, MixOrDrain
    <3> QED BY <1>0, <2>3, <3>1, OthersStutter
            DEF ReadMembers, MembersIds, MembersFilter, MixOrDrain, ReleaseSnap, NoDrop
  <2> QED BY <1>7, <2>1, <2>2, <2>3 DEF MixerStep
<1>8. ASSUME NEW task \in roomTasks, RoomStep(task) PROVE Mapped
  <2>1. ASSUME NEW j \in JobsOf(task), SendRoster(task, j) PROVE Mapped
    <3>1. j.listener \in Sessions /\ j.joins \in SUBSET Agents
      BY DEF JobsOf, AllInv, MoreTypes, Job
    <3> QED BY <1>0, <2>1, <3>1, RosterShows DEF Promise!Next
  <2>2. ASSUME \/ \E l \in Sessions : BuildOutput(task, l)
               \/ \E j \in JobsOf(task) : LookUp(task, j) \/ SendMix(task, j)
               \/ FinishRoom(task)
        PROVE  Mapped
    BY <1>0, <2>2, OthersStutter
    DEF BuildOutput, MarkAnnounced, LookUp, SendMix, FinishRoom, registryVars
  <2> QED BY <1>8, <2>1, <2>2 DEF RoomStep
<1>9. CASE UNCHANGED vars
  BY <1>0, <1>9, OthersStutter DEF vars, registryVars, serviceVars
<1> QED BY <1>2, <1>3, <1>4, <1>5, <1>6, <1>7, <1>8, <1>9 DEF Next, RequestStep

(* What the service promises the people in a room (module Presence), it    *)
(* keeps, for any number of sessions, agents, rooms and requests, as long  *)
(* as sessions end by the reaper: the participant list of a viewer grows   *)
(* by avatars of its room only, an avatar leaves it only by a removal that *)
(* is owed, and one is owed exactly to those who show it when its last     *)
(* session goes (main.rs:93-123).                                          *)
THEOREM ServiceKeepsPromise ==
    ASSUME Logouts = {} PROVE Spec => Promise!Spec
<1>1. Init => Promise!Init
  <2> SUFFICES ASSUME Init PROVE Promise!Init
    OBVIOUS
  <2>1. bySession = {} /\ Reachable = {} /\ Shown = [l \in Sessions |-> {}]
    BY DEF Init, RegistryInit, Reachable, Shown, CanReach
  <2>2. Owed = [l \in Sessions |-> {}]
    BY <2>1 DEF Owed
  <2> QED BY <2>1, <2>2 DEF Promise!Init
<1>2. AllInv /\ EndpointIsBacked /\ [Next]_vars => [Promise!Next]_(Promise!presenceVars)
  BY PromiseStep
<1> QED BY <1>1, <1>2, PresenceInvariance, EndpointAlwaysBacked, PTL DEF Spec, Promise!Spec
=============================================================================
