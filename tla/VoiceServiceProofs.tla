------------------------- MODULE VoiceServiceProofs -------------------------
(***************************************************************************)
(* What holds of the server for any number of sessions, requests and       *)
(* rooms.  Its tasks use the registry only through the operations of       *)
(* module Registry, so the service implements RegistrySpec and what        *)
(* RegistryProofs shows of the registry holds of the service.              *)
(***************************************************************************)
EXTENDS VoiceService, RegistryProofs, FiniteSetTheorems

ServiceTypes ==
    /\ RegistryTypeOK
    /\ endpoints \subseteq Sessions
    /\ request \in [Requests -> RequestState]
    /\ drop \in [Readers -> DropState]
    /\ mixer \in MixerState
    /\ roomTasks \subseteq RoomTask

(* Every step of the service is a step of the registry, or leaves it be.   *)
LEMMA RegistryStep ==
    ASSUME ServiceTypes, [Next]_vars
    PROVE  [RegistryNext]_registryVars
<1> USE ConstantsAssumption, ServiceAssumption
<1> USE DEF ServiceTypes, RegistryTypeOK
<1>1. ASSUME NEW d \in Readers, DropStep(d) PROVE [RegistryNext]_registryVars
  <2>1. ASSUME NEW s \in Sessions, ReadRemaining(d, s) PROVE RegistryNext
    BY <2>1 DEF ReadRemaining, RegistryNext
  <2>2. ASSUME NEW s \in Sessions, RemoveSession(d, s) PROVE [RegistryNext]_registryVars
    BY <2>2 DEF RemoveSession, RegistryNext
  <2>3. ASSUME NEW s \in Sessions, ContinueRemove(d, s) PROVE RegistryNext
    BY <2>3 DEF ContinueRemove, RegistryNext
  <2>4. ASSUME NEW s \in Sessions, CloseEndpoint(d, s) PROVE [RegistryNext]_registryVars
    BY <2>4 DEF CloseEndpoint, RegistryNext
  <2>5. ASSUME NEW s \in Sessions, DecideNotice(d, s) PROVE RegistryNext
    BY <2>5 DEF DecideNotice, RegistryNext
  <2>6. ASSUME NEW s \in Sessions, RemoveEndpoint(d, s) PROVE UNCHANGED registryVars
    BY <2>6 DEF RemoveEndpoint
  <2>7. ASSUME NEW s \in Sessions, NEW m \in Sessions, SendLeave(d, s, m) PROVE UNCHANGED registryVars
    BY <2>7 DEF SendLeave
  <2>8. ASSUME FinishDrop(d) PROVE UNCHANGED registryVars
    BY <2>8 DEF FinishDrop
  <2> QED BY <1>1, <2>1, <2>2, <2>3, <2>4, <2>5, <2>6, <2>7, <2>8 DEF DropStep
<1>2. ASSUME NEW t \in Requests, NEW s \in Sessions, InsertInRegistry(t, s) PROVE RegistryNext
  BY <1>2 DEF InsertInRegistry, RegistryNext
<1>3. ASSUME NEW t \in Requests, RequestStep(t) PROVE [RegistryNext]_registryVars
  BY <1>2, <1>3 DEF RequestStep, CheckCapacity, Establish, InsertEndpoint
<1>4. ASSUME NEW t \in Requests, Abandon(t) PROVE UNCHANGED registryVars
  BY <1>4 DEF Abandon
<1>5. ASSUME NEW t \in Requests, NEW s \in Sessions, Logout(t, s) \/ Provision(t, s)
      PROVE  UNCHANGED registryVars
  BY <1>5 DEF Logout, Provision
<1>6. ASSUME NEW s \in Sessions, ChannelOpens(s) \/ ConnectionFails(s)
      PROVE  [RegistryNext]_registryVars
  BY <1>6 DEF ChannelOpens, ConnectionFails, RegistryNext
<1>7. ASSUME MixerStep PROVE [RegistryNext]_registryVars
  <2>1. ASSUME NEW r \in Rooms, ReadMembers(r) PROVE RegistryNext
    BY <2>1 DEF ReadMembers, RegistryNext
  <2>2. ASSUME NEW r \in Rooms, MixOrDrain(r) PROVE RegistryNext
    BY <2>2 DEF MixOrDrain, RegistryNext
  <2> QED BY <1>7, <2>1, <2>2 DEF MixerStep, Tick, ListRooms, EndPass, Reap
<1>8. ASSUME NEW task \in roomTasks, RoomStep(task) PROVE [RegistryNext]_registryVars
  <2>1. ASSUME NEW l \in Sessions, BuildOutput(task, l) PROVE RegistryNext
    <3>1. task.members \subseteq Sessions
      BY DEF RoomTask
    <3> QED BY <2>1, <3>1 DEF BuildOutput, RegistryNext
  <2> QED BY <1>8, <2>1 DEF RoomStep, LookUp, SendRoster, SendMix, FinishRoom
<1> QED
  BY <1>1, <1>3, <1>4, <1>5, <1>6, <1>7, <1>8 DEF Next, vars
-----------------------------------------------------------------------------

(* Whatever a task has written down stays well formed.                     *)
LEMMA ServiceTypesStep ==
    ASSUME ServiceTypes, [Next]_vars
    PROVE  ServiceTypes'
<1> USE ConstantsAssumption, ServiceAssumption
<1> USE DEF ServiceTypes
<1>1. RegistryTypeOK'
  BY RegistryStep, TypeStep
<1>2. NoDrop \in DropState /\ NoRequest \in RequestState
  BY DEF NoDrop, DropState, NoRequest, RequestState
<1>3. ASSUME NEW d \in Readers, NEW s \in Sessions, StartDrop(d, s)
      PROVE  drop' \in [Readers -> DropState]
  BY <1>3 DEF StartDrop, NoDrop, DropState
<1>4. ASSUME NEW d \in Readers, DropStep(d) PROVE ServiceTypes'
  <2>1. ASSUME NEW s \in Sessions, RemoveEndpoint(d, s) PROVE ServiceTypes'
    BY <1>1, <2>1 DEF RemoveEndpoint, DropState
  <2>2. ASSUME NEW s \in Sessions, RemoveSession(d, s) PROVE ServiceTypes'
    BY <1>1, <2>2 DEF RemoveSession, DropState
  <2>3. ASSUME NEW s \in Sessions, ContinueRemove(d, s) PROVE ServiceTypes'
    BY <1>1, <2>3 DEF ContinueRemove, DropState
  <2>4. ASSUME NEW s \in Sessions, CloseEndpoint(d, s) PROVE ServiceTypes'
    <3>1. [drop[d] EXCEPT !.step = "members"] \in DropState
      BY DEF DropState
    <3> QED BY <1>1, <1>2, <2>4, <3>1 DEF CloseEndpoint
  <2>5. ASSUME NEW s \in Sessions, ReadRemaining(d, s) PROVE ServiceTypes'
    BY <1>1, <2>5 DEF ReadRemaining, serviceVars
  <2>6. ASSUME NEW s \in Sessions, DecideNotice(d, s) PROVE ServiceTypes'
    <3>1. snap[d].found \subseteq Sessions
      BY DEF RegistryTypeOK, Snap
    <3>2. ASSUME NEW w \in DropState, NEW rest \in SUBSET Sessions
          PROVE  [w EXCEPT !.step = "notify", !.todo = rest] \in DropState
      BY DEF DropState
    <3>3. [drop[d] EXCEPT !.step = "notify", !.todo = snap[d].found] \in DropState
      BY <3>1, <3>2
    <3> QED BY <1>1, <1>2, <2>6, <3>3 DEF DecideNotice
  <2>7. ASSUME NEW s \in Sessions, NEW m \in Sessions, SendLeave(d, s, m) PROVE ServiceTypes'
    BY <1>1, <2>7 DEF SendLeave, DropState
  <2>8. ASSUME FinishDrop(d) PROVE ServiceTypes'
    BY <1>1, <1>2, <2>8 DEF FinishDrop
  <2> QED BY <1>4, <2>1, <2>2, <2>3, <2>4, <2>5, <2>6, <2>7, <2>8 DEF DropStep
<1>5. ASSUME NEW t \in Requests, RequestStep(t) PROVE ServiceTypes'
  <2>1. ASSUME CheckCapacity(t) PROVE ServiceTypes'
    <3>1. [request[t] EXCEPT !.step = "establish"] \in RequestState
      BY DEF RequestState
    <3>2. \E v \in RequestState : request' = [request EXCEPT ![t] = v]
      BY <1>2, <2>1, <3>1 DEF CheckCapacity
    <3> QED BY <1>1, <2>1, <3>2 DEF CheckCapacity
  <2>2. ASSUME Establish(t) PROVE ServiceTypes'
    BY <1>1, <1>2, <2>2 DEF Establish, RequestState
  <2>3. ASSUME NEW s \in Sessions, InsertEndpoint(t, s) PROVE ServiceTypes'
    BY <1>1, <2>3 DEF InsertEndpoint, RequestState
  <2>4. ASSUME NEW s \in Sessions, InsertInRegistry(t, s) PROVE ServiceTypes'
    BY <1>1, <1>2, <2>4 DEF InsertInRegistry, RequestState
  <2> QED BY <1>5, <2>1, <2>2, <2>3, <2>4 DEF RequestStep
<1>6. ASSUME NEW t \in Requests, Abandon(t) PROVE ServiceTypes'
  BY <1>1, <1>2, <1>6 DEF Abandon
<1>7. ASSUME NEW t \in Requests, NEW s \in Sessions, Logout(t, s) PROVE ServiceTypes'
  BY <1>1, <1>3, <1>7 DEF Logout
<1>8. ASSUME NEW t \in Requests, NEW s \in Sessions, Provision(t, s) PROVE ServiceTypes'
  BY <1>1, <1>3, <1>8 DEF Provision, RequestState
<1>9. ASSUME NEW s \in Sessions, ChannelOpens(s) \/ ConnectionFails(s) PROVE ServiceTypes'
  BY <1>1, <1>9 DEF ChannelOpens, ConnectionFails, serviceVars
<1>10. ASSUME MixerStep PROVE ServiceTypes'
  <2> USE DEF MixerState
  <2>1. CASE Tick
    <3>1. 1 - mixer.pass \in {0, 1}
      OBVIOUS
    <3>2. endpoints \cap closed \subseteq Sessions
      OBVIOUS
    <3>3. [mixer EXCEPT !.step = "reap", !.dead = endpoints \cap closed, !.pass = 1 - @] \in MixerState
      BY <3>1, <3>2
    <3> QED BY <1>1, <2>1, <3>3 DEF Tick
  <2>2. CASE ListRooms
    BY <1>1, <2>2 DEF ListRooms, RoomKeys
  <2>3. CASE EndPass
    BY <1>1, <2>3 DEF EndPass
  <2>4. ASSUME NEW s \in Sessions, Reap(s) PROVE ServiceTypes'
    BY <1>1, <1>3, <2>4 DEF Reap
  <2>5. ASSUME NEW r \in Rooms, ReadMembers(r) PROVE ServiceTypes'
    BY <1>1, <2>5 DEF ReadMembers
  <2>6. ASSUME NEW r \in Rooms, MixOrDrain(r) PROVE ServiceTypes'
    <3>1. snap[Mixer].found \subseteq Sessions
      BY DEF RegistryTypeOK, Snap
    <3>2. [room |-> r, pass |-> mixer.pass, members |-> snap[Mixer].found,
           todo |-> snap[Mixer].found] \in RoomTask
      BY <3>1 DEF RoomTask
    <3> QED BY <1>1, <2>6, <3>2 DEF MixOrDrain
  <2> QED BY <1>10, <2>1, <2>2, <2>3, <2>4, <2>5, <2>6 DEF MixerStep
<1>11. ASSUME NEW task \in roomTasks, RoomStep(task) PROVE ServiceTypes'
  <2>1. ASSUME NEW l \in Sessions, BuildOutput(task, l) PROVE ServiceTypes'
    <3>1. [task EXCEPT !.todo = @ \ {l}] \in RoomTask
      BY DEF RoomTask
    <3> QED BY <1>1, <2>1, <3>1 DEF BuildOutput
  <2> QED BY <1>1, <1>11, <2>1 DEF RoomStep, LookUp, SendRoster, SendMix, FinishRoom
<1>12. CASE UNCHANGED vars
  BY <1>1, <1>12 DEF vars, serviceVars
<1> QED
  BY <1>4, <1>5, <1>6, <1>7, <1>8, <1>9, <1>10, <1>11, <1>12 DEF Next

-----------------------------------------------------------------------------
(* The invariant *)

(* A provision has its id to itself; the id is unknown to the registry     *)
(* until the provision lists it.                                           *)
RequestInv ==
    /\ \A t \in Requests : drop[t].step # "idle" => request[t].step \in {"idle", "check"}
    /\ \A t, u \in Requests, s \in Sessions :
          s \in request[t].new /\ s \in request[u].new => t = u
    /\ \A t \in Requests, s \in Sessions : s \in request[t].new =>
          stage[s] = IF request[t].step = "register" THEN "pushed" ELSE "new"

(* The endpoint of s has been in the table *)
Started(s) ==
    \/ stage[s] # "new"
    \/ \E t \in Requests : s \in request[t].new /\ request[t].step = "list"

(* Only a session that has had an endpoint can be found and dropped; after *)
(* a drop has seen to the endpoint, the session has none.                  *)
DropInv ==
    /\ \A s \in endpoints \cup mixer.dead : Started(s)
    /\ \A d \in Readers : \A s \in drop[d].id : Started(s)
    /\ \A d \in Readers : \A s \in drop[d].id :
          drop[d].ep \/ drop[d].step = "registry" => s \notin endpoints
    /\ \A d \in Readers : \A s \in drop[d].id : drop[d].gone => stage[s] = "gone"

ServiceInv == ServiceTypes /\ RegistryInv /\ RequestInv /\ DropInv

(* Nothing but a provision lists a session, and a listed session is never  *)
(* again unknown.                                                          *)
LEMMA StageStep ==
    ASSUME ServiceInv, RegistryNext, NEW s \in Sessions
    PROVE  /\ stage[s] = "new" => stage'[s] = "new" \/ (PushToRoom(s) /\ stage'[s] = "pushed")
           /\ stage[s] = "pushed" => stage'[s] = "pushed" \/ (InsertSession(s) /\ stage'[s] = "live")
           /\ stage[s] \notin {"new", "pushed"} => stage'[s] \notin {"new", "pushed"}
           /\ stage[s] = "gone" => stage'[s] = "gone"
<1> USE DEF ServiceInv, ServiceTypes, RegistryTypeOK, RegistryInv, Indexed
<1>1. ASSUME NEW o \in Sessions, PushToRoom(o) PROVE
        /\ stage[s] = "new" => stage'[s] = "new" \/ (PushToRoom(s) /\ stage'[s] = "pushed")
        /\ stage[s] # "new" => stage'[s] = stage[s]
  BY <1>1 DEF PushToRoom
<1>2. ASSUME NEW o \in Sessions, InsertSession(o) PROVE
        /\ stage[s] = "pushed" => stage'[s] = "pushed" \/ (InsertSession(s) /\ stage'[s] = "live")
        /\ stage[s] # "pushed" => stage'[s] = stage[s]
  BY <1>2 DEF InsertSession
<1>3. ASSUME NEW o \in Sessions,
             TakeSession(o) \/ RetainOthers(o) \/ BeginForget(o) \/ FinishRemove(o)
      PROVE  /\ stage[s] \in {"new", "pushed", "gone"} => stage'[s] = stage[s]
             /\ stage[s] \notin {"new", "pushed"} => stage'[s] \notin {"new", "pushed"}
  BY <1>3 DEF TakeSession, RetainOthers, BeginForget, FinishRemove
<1>4. CASE UNCHANGED stage
  BY <1>4
<1> QED
  BY <1>1, <1>2, <1>3, <1>4
  DEF RegistryNext, ForgetAt, ConnectionLost, MembersIds, MembersFilter, MarkAnnounced, ReleaseSnap

(* Which steps there are to consider: all others leave provisions, drops   *)
(* and the endpoint table alone.                                           *)
LEMMA FrameStep ==
    ASSUME ServiceInv, [Next]_vars
    PROVE  \/ \E d \in Readers : DropStep(d)
           \/ \E t \in Requests :
                \/ RequestStep(t) \/ Abandon(t)
                \/ \E s \in Sessions : Logout(t, s) \/ Provision(t, s)
           \/ Tick
           \/ \E s \in Sessions : Reap(s)
           \/ UNCHANGED <<endpoints, request, drop, stage, bySession, mixer.dead>>
<1> USE DEF ServiceInv, ServiceTypes, MixerState
<1>1. ASSUME NEW s \in Sessions, ChannelOpens(s) \/ ConnectionFails(s)
      PROVE  UNCHANGED <<endpoints, request, drop, stage, bySession, mixer.dead>>
  BY <1>1 DEF ChannelOpens, ConnectionFails, ConnectionLost, registryVars, serviceVars
<1>2. CASE ListRooms \/ EndPass
  BY <1>2 DEF ListRooms, EndPass, registryVars
<1>3. ASSUME NEW r \in Rooms, ReadMembers(r) \/ MixOrDrain(r)
      PROVE  UNCHANGED <<endpoints, request, drop, stage, bySession, mixer.dead>>
  BY <1>3 DEF ReadMembers, MixOrDrain, MembersIds, MembersFilter, ReleaseSnap
<1>4. ASSUME NEW task \in roomTasks, RoomStep(task)
      PROVE  UNCHANGED <<endpoints, request, drop, stage, bySession, mixer.dead>>
  BY <1>4 DEF RoomStep, BuildOutput, MarkAnnounced, LookUp, SendRoster, SendMix, FinishRoom, registryVars
<1>5. CASE UNCHANGED vars
  BY <1>5 DEF vars, registryVars, serviceVars
<1> QED BY <1>1, <1>2, <1>3, <1>4, <1>5 DEF Next, MixerStep

(* The drop of d keeps what it has written down or is done.                *)
Keeps(d) ==
    \/ drop'[d] = NoDrop
    \/ /\ drop'[d].id = drop[d].id
       /\ drop'[d].ep = drop[d].ep
       /\ drop'[d].gone = drop[d].gone
       /\ drop'[d].step = "registry" => drop[d].step = "registry"
       /\ drop'[d].step # "idle" => drop[d].step # "idle"

(* Every step of drop_session but RemoveEndpoint and ContinueRemove does.  *)
LEMMA DropKeeps ==
    ASSUME ServiceTypes, NEW d \in Readers,
           \/ \E s \in Sessions :
                \/ RemoveSession(d, s) \/ CloseEndpoint(d, s) \/ ReadRemaining(d, s)
                \/ DecideNotice(d, s) \/ \E m \in Sessions : SendLeave(d, s, m)
           \/ FinishDrop(d)
    PROVE  /\ Keeps(d)
           /\ \A e \in Readers : e # d => drop'[e] = drop[e]
           /\ UNCHANGED <<endpoints, mixer, request>>
<1> USE DEF ServiceTypes, RegistryTypeOK
<1> DEFINE Goal == /\ Keeps(d)
                   /\ \A e \in Readers : e # d => drop'[e] = drop[e]
                   /\ UNCHANGED <<endpoints, mixer, request>>
<1>1. ASSUME NEW s \in Sessions, RemoveSession(d, s) PROVE Goal
  <2>1. \E next \in {"removing", "close"} : drop' = [drop EXCEPT ![d].step = next]
    BY <1>1 DEF RemoveSession
  <2>2. Keeps(d)
    BY <1>1, <2>1 DEF RemoveSession, DropState, Keeps
  <2> QED BY <1>1, <2>1, <2>2 DEF RemoveSession
<1>2. ASSUME NEW s \in Sessions, CloseEndpoint(d, s) PROVE Goal
  <2>1. drop' = [drop EXCEPT ![d].step = "members"] \/ drop' = [drop EXCEPT ![d] = NoDrop]
    BY <1>2 DEF CloseEndpoint
  <2>2. CASE drop' = [drop EXCEPT ![d].step = "members"]
    BY <1>2, <2>2 DEF CloseEndpoint, DropState, Keeps
  <2>3. CASE drop' = [drop EXCEPT ![d] = NoDrop]
    BY <1>2, <2>3 DEF CloseEndpoint, Keeps
  <2> QED BY <2>1, <2>2, <2>3
<1>3. ASSUME NEW s \in Sessions, ReadRemaining(d, s) PROVE Goal
  BY <1>3 DEF ReadRemaining, serviceVars, Keeps
<1>4. ASSUME NEW s \in Sessions, DecideNotice(d, s) PROVE Goal
  <2>1. ASSUME NEW w \in DropState, NEW rest \in SUBSET Sessions
        PROVE  LET v == [w EXCEPT !.step = "notify", !.todo = rest]
               IN  v.id = w.id /\ v.ep = w.ep /\ v.gone = w.gone /\ v.step = "notify"
    BY DEF DropState
  <2>2. snap[d].found \subseteq Sessions
    BY DEF Snap
  <2>3. drop' = [drop EXCEPT ![d] = NoDrop]
        \/ drop' = [drop EXCEPT ![d] = [drop[d] EXCEPT !.step = "notify", !.todo = snap[d].found]]
    BY <1>4 DEF DecideNotice
  <2>4. CASE drop' = [drop EXCEPT ![d] = NoDrop]
    BY <1>4, <2>4 DEF DecideNotice, Keeps
  <2>5. CASE drop' = [drop EXCEPT ![d] = [drop[d] EXCEPT !.step = "notify", !.todo = snap[d].found]]
    <3>1. /\ drop'[d].id = drop[d].id /\ drop'[d].ep = drop[d].ep
          /\ drop'[d].gone = drop[d].gone /\ drop'[d].step = "notify"
      BY <2>1, <2>2, <2>5
    <3> QED BY <1>4, <2>5, <3>1 DEF DecideNotice, Keeps
  <2> QED BY <2>3, <2>4, <2>5
<1>5. ASSUME NEW s \in Sessions, NEW m \in Sessions, SendLeave(d, s, m) PROVE Goal
  BY <1>5 DEF SendLeave, DropState, Keeps
<1>6. ASSUME FinishDrop(d) PROVE Goal
  BY <1>6 DEF FinishDrop, Keeps
<1> QED BY <1>1, <1>2, <1>3, <1>4, <1>5, <1>6

(* drop_session leaves provisions alone and never starts another drop      *)
LEMMA DropFrame ==
    ASSUME ServiceInv, NEW d \in Readers, DropStep(d)
    PROVE  /\ UNCHANGED request
           /\ \A s \in Sessions : stage[s] \in {"new", "pushed"} => stage'[s] = stage[s]
           /\ \A e \in Readers : /\ drop'[e].step # "idle" => drop[e].step # "idle"
                                 /\ drop'[e].id \subseteq drop[e].id
           /\ endpoints' \subseteq endpoints /\ UNCHANGED mixer
<1> USE DEF ServiceInv, ServiceTypes, RegistryTypeOK, RegistryInv, Indexed
<1> DEFINE Later == /\ UNCHANGED request
                    /\ \A e \in Readers : /\ drop'[e].step # "idle" => drop[e].step # "idle"
                                          /\ drop'[e].id \subseteq drop[e].id
                    /\ endpoints' \subseteq endpoints /\ UNCHANGED mixer
<1> DEFINE Listed == \A s \in Sessions : stage[s] \in {"new", "pushed"} => stage'[s] = stage[s]
<1>1. ASSUME NEW s \in Sessions, RemoveEndpoint(d, s) PROVE Later /\ Listed
  BY <1>1 DEF RemoveEndpoint, DropState, registryVars
<1>2. ASSUME NEW s \in Sessions, ContinueRemove(d, s) PROVE Later /\ Listed
  <2>1. Later
    <3>1. drop' = drop \/ drop' = [drop EXCEPT ![d].step = "close", ![d].gone = TRUE]
      BY <1>2 DEF ContinueRemove
    <3>2. drop[d].step = "removing"
      BY <1>2 DEF ContinueRemove
    <3> QED BY <1>2, <3>1, <3>2 DEF ContinueRemove, DropState
  <2>2. Listed
    BY <1>2 DEF ContinueRemove, RetainOthers, BeginForget, ForgetAt, FinishRemove
  <2> QED BY <2>1, <2>2
<1>3. ASSUME NEW s \in Sessions, RemoveSession(d, s) PROVE Later /\ Listed
  <2>1. Later
    BY <1>3, DropKeeps DEF Keeps, NoDrop
  <2>2. Listed
    BY <1>3 DEF RemoveSession, TakeSession, registryVars
  <2> QED BY <2>1, <2>2
<1>4. ASSUME \/ \E s \in Sessions :
                  \/ CloseEndpoint(d, s) \/ ReadRemaining(d, s) \/ DecideNotice(d, s)
                  \/ \E m \in Sessions : SendLeave(d, s, m)
             \/ FinishDrop(d)
      PROVE  Later /\ Listed
  <2>1. Later
    BY <1>4, DropKeeps DEF Keeps, NoDrop
  <2>2. Listed
    BY <1>4 DEF CloseEndpoint, ConnectionLost, ReadRemaining, MembersIds, MembersFilter,
                DecideNotice, ReleaseSnap, SendLeave, FinishDrop, registryVars
  <2> QED BY <2>1, <2>2
<1> QED BY <1>1, <1>2, <1>3, <1>4 DEF DropStep

(* Requests keep their ids apart.                                          *)
LEMMA RequestInvStep ==
    ASSUME ServiceInv, [Next]_vars
    PROVE  RequestInv'
<1> USE ConstantsAssumption, ServiceAssumption
<1> USE DEF ServiceInv, ServiceTypes, RegistryTypeOK, RequestInv, NoRequest, NoDrop
<1>1. ASSUME NEW d \in Readers, DropStep(d) PROVE RequestInv'
  BY <1>1, DropFrame
<1>2. ASSUME NEW t \in Requests, CheckCapacity(t) PROVE RequestInv'
  <2>1. [request[t] EXCEPT !.step = "establish"].step = "establish"
        /\ [request[t] EXCEPT !.step = "establish"].new = request[t].new
    BY DEF RequestState
  <2> QED BY <1>2, <2>1 DEF CheckCapacity, registryVars
<1>3. ASSUME NEW t \in Requests, Establish(t) PROVE RequestInv'
  <2>1. CASE request' = [request EXCEPT ![t].step = "endpoint"]
    BY <1>3, <2>1 DEF Establish, RequestState, registryVars
  <2>2. CASE request' = [request EXCEPT ![t] = NoRequest]
    BY <1>3, <2>2 DEF Establish, registryVars
  <2> QED BY <1>3, <2>1, <2>2 DEF Establish
<1>4. ASSUME NEW t \in Requests, NEW s \in Sessions, InsertEndpoint(t, s) PROVE RequestInv'
  BY <1>4 DEF InsertEndpoint, RequestState, registryVars
<1>5. ASSUME NEW t \in Requests, NEW s \in Sessions, InsertInRegistry(t, s) PROVE RequestInv'
  <2>1. CASE PushToRoom(s)
    <3>1. request[t].step = "list" /\ request' = [request EXCEPT ![t].step = "register"]
      BY <1>5, <2>1 DEF InsertInRegistry, PushToRoom, InsertSession
    <3>2. request[t].new = {s}
      BY <1>5 DEF InsertInRegistry
    <3>3. \A u \in Requests : /\ request'[u].new = request[u].new
                              /\ u # t => request'[u] = request[u]
      BY <3>1 DEF RequestState
    <3>4. request'[t].step = "register"
      BY <3>1 DEF RequestState
    <3>5. /\ \A o \in Sessions : stage'[o] = IF o = s THEN "pushed" ELSE stage[o]
          /\ stage[s] = "new"
      BY <2>1 DEF PushToRoom
    <3>6. drop' = drop
      BY <1>5 DEF InsertInRegistry
    <3>7. ASSUME NEW u \in Requests, NEW o \in Sessions, o \in request'[u].new
          PROVE  stage'[o] = IF request'[u].step = "register" THEN "pushed" ELSE "new"
      BY <3>2, <3>3, <3>4, <3>5, <3>7
    <3>8. drop[t].step = "idle"
      BY <3>1
    <3> QED BY <3>3, <3>6, <3>7, <3>8
  <2>2. CASE InsertSession(s)
    <3>1. request[t].new = {s} /\ request[t].step = "register" /\ drop' = drop
      BY <1>5, <2>2 DEF InsertInRegistry, PushToRoom, InsertSession
    <3>2. /\ request'[t] = [step |-> "idle", new |-> {}]
          /\ \A u \in Requests : u # t => request'[u] = request[u]
      BY <1>5, <2>2 DEF InsertInRegistry, PushToRoom, InsertSession
    <3>3. \A o \in Sessions : o # s => stage'[o] = stage[o]
      BY <2>2 DEF InsertSession
    <3>4. \A u \in Requests : u # t => s \notin request[u].new
      BY <3>1
    <3> QED BY <3>1, <3>2, <3>3, <3>4
  <2> QED BY <1>5, <2>1, <2>2 DEF InsertInRegistry
<1>6. ASSUME NEW t \in Requests, Abandon(t) PROVE RequestInv'
  BY <1>6 DEF Abandon, registryVars
<1>7. ASSUME NEW t \in Requests, NEW s \in Sessions, Logout(t, s) PROVE RequestInv'
  BY <1>7 DEF Logout, StartDrop, Idle, DropState, registryVars
<1>8. ASSUME NEW t \in Requests, NEW s \in Sessions, Provision(t, s) PROVE RequestInv'
  <2>1. \A u \in Readers : u # t => drop'[u].step = drop[u].step
    BY <1>8 DEF Provision, StartDrop
  <2>2. request'[t] = [step |-> "check", new |-> {s}]
        /\ \A u \in Requests : u # t => request'[u] = request[u]
    BY <1>8 DEF Provision
  <2>3. stage' = stage
    BY <1>8 DEF Provision, registryVars
  <2> QED BY <1>8, <2>1, <2>2, <2>3 DEF Provision, Fresh
<1>9. CASE Tick
  BY <1>9 DEF Tick, registryVars
<1>10. ASSUME NEW s \in Sessions, Reap(s) PROVE RequestInv'
  BY <1>10 DEF Reap, StartDrop, DropState, registryVars
<1>11. CASE UNCHANGED <<endpoints, request, drop, stage, bySession, mixer.dead>>
  BY <1>11
<1> QED
  BY <1>1, <1>2, <1>3, <1>4, <1>5, <1>6, <1>7, <1>8, <1>9, <1>10, <1>11, FrameStep DEF RequestStep

(* A session stays known from its endpoint's insertion on: a provision     *)
(* that has got that far is not abandoned.                                 *)
LEMMA StartedStep ==
    ASSUME ServiceInv, [Next]_vars, NEW s \in Sessions, Started(s)
    PROVE  Started(s)'
<1> USE ConstantsAssumption, ServiceAssumption
<1> USE DEF ServiceInv, ServiceTypes, RegistryTypeOK
<1>1. stage[s] # "new" => stage'[s] # "new"
  BY RegistryStep, StageStep DEF registryVars, Stages
<1>2. CASE stage[s] # "new"
  BY <1>1, <1>2 DEF Started
<1>3. ASSUME NEW t \in Requests, s \in request[t].new, request[t].step = "list"
      PROVE  Started(s)'
  <2>1. CASE request'[t] = request[t]
    BY <1>3, <2>1 DEF Started
  <2>2. ASSUME NEW u \in Requests, NEW o \in Sessions, InsertInRegistry(u, o), request'[t] # request[t]
        PROVE  Started(s)'
    <3>1. u = t
      BY <2>2 DEF InsertInRegistry
    <3>2. o = s
      BY <1>3, <2>2, <3>1 DEF InsertInRegistry
    <3>3. PushToRoom(s)
      BY <1>3, <2>2, <3>1, <3>2 DEF InsertInRegistry
    <3> QED BY <3>3 DEF PushToRoom, Started
  <2>3. ASSUME NEW u \in Requests,
               CheckCapacity(u) \/ Establish(u) \/ \E o \in Sessions : InsertEndpoint(u, o)
        PROVE  request'[t] = request[t]
    BY <1>3, <2>3 DEF CheckCapacity, Establish, InsertEndpoint
  <2>4. ASSUME NEW u \in Requests, Abandon(u) PROVE request'[t] = request[t]
    BY <1>3, <2>4 DEF Abandon, RequestInv
  <2>5. ASSUME NEW u \in Requests, NEW o \in Sessions, Logout(u, o) \/ Provision(u, o)
        PROVE  request'[t] = request[t]
    BY <1>3, <2>5 DEF Logout, Provision, Idle
  <2>6. ASSUME NEW d \in Readers, DropStep(d) PROVE request'[t] = request[t]
    BY <2>6, DropFrame
  <2>7. ASSUME Tick \/ (\E o \in Sessions : Reap(o)) PROVE request'[t] = request[t]
    BY <2>7 DEF Tick, Reap
  <2> QED
    BY <2>1, <2>2, <2>3, <2>4, <2>5, <2>6, <2>7, FrameStep DEF RequestStep
<1> QED BY <1>2, <1>3 DEF Started

(* The guarded fields of a drop move together with the table and the       *)
(* registry.                                                               *)
LEMMA DropInvStep ==
    ASSUME ServiceInv, [Next]_vars
    PROVE  DropInv'
<1> USE ConstantsAssumption, ServiceAssumption
<1> USE DEF ServiceInv, ServiceTypes, RegistryTypeOK
<1>1. \A s \in Sessions : Started(s) => Started(s)'
  BY StartedStep
<1>2. \A s \in Sessions : stage[s] = "gone" => stage'[s] = "gone"
  BY RegistryStep, StageStep DEF registryVars
<1>3. \A d \in Readers : drop[d].id \subseteq Sessions
  BY DEF DropState
<1>4. mixer.dead \subseteq Sessions
  BY DEF MixerState
<1>5. ASSUME NEW d \in Readers, NEW s \in Sessions, StartDrop(d, s), Started(s),
             endpoints' = endpoints, mixer'.dead \subseteq mixer.dead
      PROVE  DropInv'
  <2>1. drop'[d] = [step |-> "endpoint", id |-> {s}, ep |-> FALSE, gone |-> FALSE, todo |-> {}]
        /\ \A e \in Readers : e # d => drop'[e] = drop[e]
    BY <1>5 DEF StartDrop, NoDrop
  <2>2. \A o \in endpoints' \cup mixer'.dead : Started(o)'
    BY <1>1, <1>4, <1>5 DEF DropInv
  <2>3. \A e \in Readers : \A o \in drop'[e].id : Started(o)'
    BY <1>1, <1>3, <1>5, <2>1 DEF DropInv
  <2>4. \A e \in Readers : \A o \in drop'[e].id :
          drop'[e].ep \/ drop'[e].step = "registry" => o \notin endpoints'
    BY <1>5, <2>1 DEF DropInv
  <2>5. \A e \in Readers : \A o \in drop'[e].id : drop'[e].gone => stage'[o] = "gone"
    BY <1>2, <1>3, <2>1 DEF DropInv
  <2> QED BY <2>2, <2>3, <2>4, <2>5 DEF DropInv
<1>6. ASSUME endpoints' \subseteq endpoints, mixer'.dead \subseteq mixer.dead \cup endpoints,
             \A d \in Readers : \A o \in drop'[d].id :
                /\ o \in drop[d].id
                /\ drop'[d].ep => drop[d].ep
                /\ drop'[d].step = "registry" => drop[d].step = "registry"
                /\ drop'[d].gone => drop[d].gone
      PROVE  DropInv'
  <2>1. \A o \in endpoints' \cup mixer'.dead : Started(o)'
    BY <1>1, <1>4, <1>6 DEF DropInv
  <2>2. \A d \in Readers : \A o \in drop'[d].id : Started(o)'
    BY <1>1, <1>3, <1>6 DEF DropInv
  <2>3. \A d \in Readers : \A o \in drop'[d].id :
          drop'[d].ep \/ drop'[d].step = "registry" => o \notin endpoints'
    BY <1>6 DEF DropInv
  <2>4. \A d \in Readers : \A o \in drop'[d].id : drop'[d].gone => stage'[o] = "gone"
    BY <1>2, <1>3, <1>6 DEF DropInv
  <2> QED BY <2>1, <2>2, <2>3, <2>4 DEF DropInv
<1>7. ASSUME NEW d \in Readers, NEW s \in Sessions, RemoveEndpoint(d, s) PROVE DropInv'
  <2>1. /\ drop'[d].id = {s} /\ drop'[d].gone = drop[d].gone
        /\ \A e \in Readers : e # d => drop'[e] = drop[e]
    BY <1>7 DEF RemoveEndpoint, DropState
  <2>2. endpoints' = endpoints \ {s} /\ mixer' = mixer /\ drop[d].id = {s}
    BY <1>7 DEF RemoveEndpoint
  <2>3. \A o \in endpoints' \cup mixer'.dead : Started(o)'
    BY <1>1, <1>4, <2>2 DEF DropInv
  <2>4. \A e \in Readers : \A o \in drop'[e].id : Started(o)'
    BY <1>1, <1>3, <2>1, <2>2 DEF DropInv
  <2>5. \A e \in Readers : \A o \in drop'[e].id :
          drop'[e].ep \/ drop'[e].step = "registry" => o \notin endpoints'
    BY <2>1, <2>2 DEF DropInv
  <2>6. \A e \in Readers : \A o \in drop'[e].id : drop'[e].gone => stage'[o] = "gone"
    BY <1>2, <1>3, <2>1, <2>2 DEF DropInv
  <2> QED BY <2>3, <2>4, <2>5, <2>6 DEF DropInv
<1>8. ASSUME NEW d \in Readers, Keeps(d), UNCHANGED <<endpoints, mixer>>,
             \A e \in Readers : e # d => drop'[e] = drop[e]
      PROVE  DropInv'
  BY <1>6, <1>8 DEF Keeps, NoDrop
<1>9. ASSUME NEW d \in Readers, NEW s \in Sessions, ContinueRemove(d, s) PROVE DropInv'
  <2>1. endpoints' = endpoints /\ mixer' = mixer
    BY <1>9 DEF ContinueRemove
  <2>2. CASE drop' = drop
    BY <1>6, <2>1, <2>2
  <2>3. CASE FinishRemove(s) /\ drop' = [drop EXCEPT ![d].step = "close", ![d].gone = TRUE]
    <3>1. /\ drop[d].id = {s} /\ drop'[d].id = {s} /\ drop'[d].step = "close"
          /\ drop'[d].ep = drop[d].ep
          /\ \A e \in Readers : e # d => drop'[e] = drop[e]
      BY <1>9, <2>3 DEF ContinueRemove, DropState
    <3>2. stage'[s] = "gone"
      BY <2>3 DEF FinishRemove
    <3>3. \A o \in endpoints' \cup mixer'.dead : Started(o)'
      BY <1>1, <1>4, <2>1 DEF DropInv
    <3>4. \A e \in Readers : \A o \in drop'[e].id : Started(o)'
      BY <1>1, <1>3, <3>1 DEF DropInv
    <3>5. \A e \in Readers : \A o \in drop'[e].id :
            drop'[e].ep \/ drop'[e].step = "registry" => o \notin endpoints'
      BY <2>1, <3>1 DEF DropInv
    <3>6. \A e \in Readers : \A o \in drop'[e].id : drop'[e].gone => stage'[o] = "gone"
      BY <1>2, <1>3, <3>1, <3>2 DEF DropInv
    <3> QED BY <3>3, <3>4, <3>5, <3>6 DEF DropInv
  <2> QED BY <1>9, <2>2, <2>3 DEF ContinueRemove
<1>13. ASSUME NEW d \in Readers, DropStep(d) PROVE DropInv'
  BY <1>7, <1>8, <1>9, <1>13, DropKeeps DEF DropStep
<1>14. ASSUME NEW t \in Requests, NEW s \in Sessions, InsertEndpoint(t, s) PROVE DropInv'
  <2>1. request[t].step = "endpoint" /\ request[t].new = {s}
    BY <1>14 DEF InsertEndpoint
  <2>2. ~Started(s)
    BY <2>1 DEF RequestInv, Started
  <2>3. Started(s)'
    BY <1>14, <2>1 DEF InsertEndpoint, RequestState, Started
  <2>4. endpoints' = endpoints \cup {s} /\ mixer' = mixer /\ drop' = drop
    BY <1>14 DEF InsertEndpoint
  <2>5. \A o \in endpoints' \cup mixer'.dead : Started(o)'
    BY <1>1, <1>4, <2>3, <2>4 DEF DropInv
  <2>6. \A e \in Readers : \A o \in drop'[e].id : Started(o)' /\ o # s
    BY <1>1, <1>3, <2>2, <2>4 DEF DropInv
  <2> QED BY <1>2, <1>3, <2>4, <2>5, <2>6 DEF DropInv
<1>15. ASSUME NEW t \in Requests, RequestStep(t) PROVE DropInv'
  BY <1>6, <1>14, <1>15 DEF RequestStep, CheckCapacity, Establish, InsertInRegistry
<1>16. ASSUME NEW t \in Requests, Abandon(t) PROVE DropInv'
  BY <1>6, <1>16 DEF Abandon, NoDrop
<1>17. ASSUME NEW t \in Requests, NEW s \in Sessions, Logout(t, s) PROVE DropInv'
  BY <1>5, <1>17 DEF Logout, Started
<1>18. ASSUME NEW t \in Requests, NEW s \in Sessions, Provision(t, s) PROVE DropInv'
  <2>1. endpoints' = endpoints /\ mixer' = mixer
    BY <1>18 DEF Provision
  <2>2. CASE drop' = drop
    BY <1>6, <2>1, <2>2
  <2>3. ASSUME NEW old \in Sessions, stage[old] \notin {"new", "pushed"}, StartDrop(t, old)
        PROVE  DropInv'
    BY <1>5, <2>1, <2>3 DEF Started
  <2> QED BY <1>18, <2>2, <2>3 DEF Provision
<1>19. CASE Tick
  <2>1. mixer'.dead = endpoints \cap closed
    BY <1>19 DEF Tick, MixerState
  <2> QED BY <1>6, <1>19, <2>1 DEF Tick
<1>20. ASSUME NEW s \in Sessions, Reap(s) PROVE DropInv'
  <2>1. mixer'.dead \subseteq mixer.dead
    BY <1>20 DEF Reap, MixerState
  <2> QED BY <1>5, <1>20, <2>1 DEF Reap, DropInv
<1>21. CASE UNCHANGED <<endpoints, request, drop, stage, bySession, mixer.dead>>
  BY <1>6, <1>21
<1> QED
  BY <1>13, <1>15, <1>16, <1>17, <1>18, <1>19, <1>20, <1>21, FrameStep

(* Every step of the service keeps its invariant.                          *)
LEMMA ServiceInvStep ==
    ASSUME ServiceInv, [Next]_vars
    PROVE  ServiceInv'
<1>1. ServiceTypes'
  BY ServiceTypesStep DEF ServiceInv
<1>2. RegistryInv'
  BY RegistryStep, TypeStep, IndexStep, SnapStep DEF ServiceInv, RegistryInv
<1> QED BY <1>1, <1>2, RequestInvStep, DropInvStep DEF ServiceInv

(* The server starts with nothing.                                         *)
LEMMA ServiceInit == Init => ServiceInv
<1> SUFFICES ASSUME Init PROVE ServiceInv
  OBVIOUS
<1> USE ConstantsAssumption, ServiceAssumption
<1>1. RegistryInv /\ RegistryTypeOK
  BY InitInv DEF Init, RegistryInv
<1>2. NoDrop \in DropState /\ NoRequest \in RequestState
  BY DEF NoDrop, DropState, NoRequest, RequestState
<1>3. ServiceTypes
  BY <1>1, <1>2 DEF Init, ServiceTypes, MixerState
<1>4. RequestInv
  BY DEF Init, RequestInv, NoRequest, NoDrop
<1>5. DropInv
  BY DEF Init, DropInv, NoDrop
<1> QED BY <1>1, <1>3, <1>4, <1>5 DEF ServiceInv

-----------------------------------------------------------------------------
(* Theorems *)

(* The inductive invariant of the service.                                 *)
THEOREM ServiceInvariant == Spec => []ServiceInv
<1> QED BY ServiceInit, ServiceInvStep, PTL DEF Spec

(* The service uses the registry as module Registry describes: whatever    *)
(* requests, mixer loop and room tasks do, they do by insert, remove,      *)
(* members and mark_announced, lock section by lock section.               *)
THEOREM ServiceImplementsRegistry == Spec => RegistrySpec
<1>1. Init => RegistryInit
  BY DEF Init
<1>2. ServiceInv /\ [Next]_vars => [RegistryNext]_registryVars
  BY RegistryStep DEF ServiceInv
<1> QED BY <1>1, <1>2, ServiceInvariant, PTL DEF Spec, RegistrySpec

(* An endpoint in the table is that of a registered session or of one      *)
(* whose provision is about to register it, for any number of requests     *)
(* and whichever of them are abandoned (main.rs:96, 215).                  *)
THEOREM EndpointAlwaysBacked == Spec => []EndpointIsBacked
<1> USE ConstantsAssumption, ServiceAssumption
<1>1. Init => EndpointIsBacked
  BY DEF Init, EndpointIsBacked
<1>2. ASSUME ServiceInv, EndpointIsBacked, [Next]_vars PROVE EndpointIsBacked'
  <2> USE <1>2 DEF ServiceInv, ServiceTypes, RegistryTypeOK
  <2>1. ASSUME NEW d \in Readers, DropStep(d) PROVE EndpointIsBacked'
    <3>1. request' = request /\ endpoints' \subseteq endpoints
      BY <2>1, DropFrame
    <3>2. ASSUME NEW s \in endpoints' PROVE s \in bySession => s \in bySession'
      <4>1. ASSUME NEW o \in Sessions, RemoveSession(d, o), s \in bySession PROVE s \in bySession'
        <5>1. o # s
          BY <3>1, <3>2, <4>1 DEF RemoveSession, DropInv
        <5> QED BY <4>1, <5>1 DEF RemoveSession, TakeSession, registryVars
      <4>2. ASSUME NEW o \in Sessions, ContinueRemove(d, o) PROVE bySession' = bySession
        BY <4>2 DEF ContinueRemove, RetainOthers, BeginForget, ForgetAt, FinishRemove
      <4>3. ASSUME NEW o \in Sessions, CloseEndpoint(d, o) \/ ReadRemaining(d, o) \/ DecideNotice(d, o)
            PROVE  bySession' = bySession
        BY <4>3 DEF CloseEndpoint, ConnectionLost, ReadRemaining, MembersIds, MembersFilter,
                    DecideNotice, ReleaseSnap, registryVars
      <4>4. ASSUME NEW o \in Sessions, RemoveEndpoint(d, o) \/ \E m \in Sessions : SendLeave(d, o, m)
            PROVE  bySession' = bySession
        BY <4>4 DEF RemoveEndpoint, SendLeave, registryVars
      <4>5. ASSUME FinishDrop(d) PROVE bySession' = bySession
        BY <4>5 DEF FinishDrop, registryVars
      <4> QED BY <2>1, <4>1, <4>2, <4>3, <4>4, <4>5 DEF DropStep
    <3> QED BY <3>1, <3>2 DEF EndpointIsBacked, Established
  <2>2. ASSUME NEW t \in Requests, NEW s \in Sessions, InsertInRegistry(t, s)
        PROVE  EndpointIsBacked'
    <3>1. request[t].new = {s} /\ endpoints' = endpoints
      BY <2>2 DEF InsertInRegistry
    <3>2. \A u \in Requests : u # t => request'[u] = request[u]
      BY <2>2 DEF InsertInRegistry
    <3>3. CASE PushToRoom(s)
      <4>1. request[t].step = "list" /\ request' = [request EXCEPT ![t].step = "register"]
        BY <2>2, <3>3 DEF InsertInRegistry, PushToRoom, InsertSession
      <4>2. request'[t].new = {s} /\ request'[t].step = "register"
        BY <3>1, <4>1 DEF RequestState
      <4>3. bySession' = bySession
        BY <3>3 DEF PushToRoom
      <4> QED BY <3>1, <3>2, <4>2, <4>3 DEF EndpointIsBacked, Established
    <3>4. CASE InsertSession(s)
      <4>1. s \in bySession' /\ bySession \subseteq bySession'
        BY <3>4 DEF InsertSession
      <4>2. \A o \in Sessions \ {s} : Established(o) => Established(o)'
        BY <3>1, <3>2 DEF Established
      <4> QED BY <3>1, <4>1, <4>2 DEF EndpointIsBacked
    <3> QED BY <2>2, <3>3, <3>4 DEF InsertInRegistry
  <2>3. ASSUME NEW t \in Requests, NEW s \in Sessions, InsertEndpoint(t, s)
        PROVE  EndpointIsBacked'
    <3>1. request'[t].new = {s} /\ request'[t].step = "list"
      BY <2>3 DEF InsertEndpoint, RequestState
    <3>2. /\ endpoints' = endpoints \cup {s} /\ bySession' = bySession
          /\ \A u \in Requests : u # t => request'[u] = request[u]
      BY <2>3 DEF InsertEndpoint, registryVars
    <3>3. request[t].new = {s}
      BY <2>3 DEF InsertEndpoint
    <3> QED BY <3>1, <3>2, <3>3 DEF EndpointIsBacked, Established
  <2>4. ASSUME endpoints' = endpoints, bySession' = bySession,
               NEW t \in Requests, request[t].step \in {"idle", "check", "establish"},
               \A u \in Requests : u # t => request'[u] = request[u]
        PROVE  EndpointIsBacked'
    BY <2>4 DEF EndpointIsBacked, Established
  <2>5. ASSUME NEW t \in Requests, CheckCapacity(t) \/ Establish(t) PROVE EndpointIsBacked'
    BY <2>4, <2>5 DEF CheckCapacity, Establish, registryVars
  <2>6. ASSUME NEW t \in Requests, Abandon(t) PROVE EndpointIsBacked'
    BY <2>4, <2>6 DEF Abandon, RequestInv, registryVars
  <2>7. ASSUME NEW t \in Requests, NEW s \in Sessions, Logout(t, s) \/ Provision(t, s)
        PROVE  EndpointIsBacked'
    BY <2>4, <2>7 DEF Logout, Provision, Idle, registryVars
  <2>8. ASSUME UNCHANGED <<endpoints, request, bySession>> PROVE EndpointIsBacked'
    BY <2>8 DEF EndpointIsBacked, Established
  <2>9. CASE Tick \/ \E s \in Sessions : Reap(s)
    BY <2>8, <2>9 DEF Tick, Reap, registryVars
  <2> QED BY <2>1, <2>2, <2>3, <2>5, <2>6, <2>7, <2>8, <2>9, FrameStep DEF RequestStep
<1> QED BY <1>1, <1>2, ServiceInvariant, PTL DEF Spec

(* However many tasks drop one session at once, one closes its transport   *)
(* and one tells the room (main.rs:95-125).                                *)
THEOREM TornDownAlwaysOnce == Spec => []TornDownOnce
<1> USE ConstantsAssumption, ServiceAssumption
<1> DEFINE Inv == /\ \A d \in Readers : drop[d].id = {} => ~drop[d].ep /\ ~drop[d].gone
                  /\ TornDownOnce
<1>1. Init => Inv
  BY DEF Init, TornDownOnce, NoDrop
<1>2. ASSUME ServiceInv, Inv, [Next]_vars PROVE Inv'
  <2> USE <1>2 DEF ServiceInv, ServiceTypes, RegistryTypeOK
  <2>1. ASSUME NEW d \in Readers, \A e \in Readers : e # d => drop'[e] = drop[e],
               \/ ~drop'[d].ep /\ ~drop'[d].gone
               \/ /\ drop'[d].id = drop[d].id
                  /\ drop'[d].ep = drop[d].ep
                  /\ drop'[d].gone = drop[d].gone
        PROVE  Inv'
    BY <2>1 DEF TornDownOnce
  <2>11. ASSUME NEW d \in Readers, NEW s \in Sessions, drop'[d].id = {s},
                \A e \in Readers : e # d => drop'[e] = drop[e],
                \A e \in Readers : e # d /\ drop'[e].id = {s} => ~(drop'[d].ep /\ drop'[e].ep),
                \A e \in Readers : e # d /\ drop'[e].id = {s} => ~(drop'[d].gone /\ drop'[e].gone)
         PROVE  Inv'
    <3>1. \A e \in Readers : drop'[e].id = {} => ~drop'[e].ep /\ ~drop'[e].gone
      <4> SUFFICES ASSUME NEW e \in Readers, drop'[e].id = {} PROVE ~drop'[e].ep /\ ~drop'[e].gone
        OBVIOUS
      <4>1. e # d
        BY <2>11
      <4> QED BY <2>11, <4>1
    <3>2. ASSUME NEW a \in Readers, NEW b \in Readers, a # b, drop'[a].id = drop'[b].id
          PROVE  ~(drop'[a].ep /\ drop'[b].ep) /\ ~(drop'[a].gone /\ drop'[b].gone)
      <4>1. CASE a = d
        BY <2>11, <3>2, <4>1
      <4>2. CASE b = d
        BY <2>11, <3>2, <4>2
      <4>3. CASE a # d /\ b # d
        BY <2>11, <3>2, <4>3 DEF TornDownOnce
      <4> QED BY <4>1, <4>2, <4>3
    <3> QED BY <3>1, <3>2 DEF TornDownOnce
  <2>2. ASSUME NEW d \in Readers, NEW s \in Sessions, RemoveEndpoint(d, s) PROVE Inv'
    <3>1. /\ drop[d].id = {s} /\ drop'[d].id = {s} /\ drop'[d].gone = drop[d].gone
          /\ drop'[d].ep => s \in endpoints
          /\ \A e \in Readers : e # d => drop'[e] = drop[e]
      BY <2>2 DEF RemoveEndpoint, DropState
    <3>2. \A e \in Readers : drop[e].id = {s} /\ drop[e].ep => s \notin endpoints
      BY DEF DropInv
    <3>3. \A e \in Readers : e # d /\ drop'[e].id = {s} => ~(drop'[d].ep /\ drop'[e].ep)
      BY <3>1, <3>2
    <3>4. \A e \in Readers : e # d /\ drop'[e].id = {s} => ~(drop'[d].gone /\ drop'[e].gone)
      BY <3>1 DEF TornDownOnce
    <3>5. drop'[d].id = {s} /\ \A e \in Readers : e # d => drop'[e] = drop[e]
      BY <3>1
    <3> HIDE DEF Inv
    <3> QED BY <2>11, <3>3, <3>4, <3>5, ZenonT(60)
  <2>3. ASSUME NEW d \in Readers, NEW s \in Sessions, ContinueRemove(d, s) PROVE Inv'
    <3>1. CASE drop' = drop
      BY <3>1 DEF TornDownOnce
    <3>2. CASE FinishRemove(s) /\ drop' = [drop EXCEPT ![d].step = "close", ![d].gone = TRUE]
      <4>1. /\ drop[d].id = {s} /\ drop'[d].id = {s} /\ drop'[d].ep = drop[d].ep
            /\ \A e \in Readers : e # d => drop'[e] = drop[e]
        BY <2>3, <3>2 DEF ContinueRemove, DropState
      <4>2. \A e \in Readers : drop[e].id = {s} => ~drop[e].gone
        BY <3>2 DEF FinishRemove, DropInv
      <4>3. \A e \in Readers : e # d /\ drop'[e].id = {s} => ~(drop'[d].gone /\ drop'[e].gone)
        BY <4>1, <4>2
      <4>4. \A e \in Readers : e # d /\ drop'[e].id = {s} => ~(drop'[d].ep /\ drop'[e].ep)
        BY <4>1 DEF TornDownOnce
      <4>5. drop'[d].id = {s} /\ \A e \in Readers : e # d => drop'[e] = drop[e]
        BY <4>1
      <4> HIDE DEF Inv
      <4> QED BY <2>11, <4>3, <4>4, <4>5, ZenonT(60)
    <3> QED BY <2>3, <3>1, <3>2 DEF ContinueRemove
  <2>4. ASSUME NEW d \in Readers, DropStep(d) PROVE Inv'
    BY <2>1, <2>2, <2>3, <2>4, DropKeeps DEF DropStep, Keeps, NoDrop
  <2>5. ASSUME NEW d \in Readers, NEW s \in Sessions, StartDrop(d, s) PROVE Inv'
    <3>1. drop'[d] = [step |-> "endpoint", id |-> {s}, ep |-> FALSE, gone |-> FALSE, todo |-> {}]
          /\ \A e \in Readers : e # d => drop'[e] = drop[e]
      BY <2>5 DEF StartDrop, NoDrop
    <3> QED BY <2>1, <3>1
  <2>6. ASSUME NEW t \in Requests, Abandon(t) PROVE Inv'
    BY <2>1, <2>6 DEF Abandon, NoDrop
  <2>7. ASSUME drop' = drop PROVE Inv'
    BY <2>7 DEF TornDownOnce
  <2>8. ASSUME NEW t \in Requests, RequestStep(t) PROVE Inv'
    BY <2>7, <2>8 DEF RequestStep, CheckCapacity, Establish, InsertEndpoint, InsertInRegistry
  <2>9. ASSUME NEW t \in Requests, NEW s \in Sessions, Logout(t, s) \/ Provision(t, s) PROVE Inv'
    BY <2>5, <2>7, <2>9 DEF Logout, Provision
  <2>10. CASE Tick \/ \E s \in Sessions : Reap(s)
    BY <2>5, <2>7, <2>10 DEF Tick, Reap
  <2> QED BY <2>4, <2>6, <2>7, <2>8, <2>9, <2>10, FrameStep
<1>3. Inv => TornDownOnce
  OBVIOUS
<1> QED BY <1>1, <1>2, <1>3, ServiceInvariant, PTL DEF Spec

(* A registered session has an endpoint or is about to leave the registry, *)
(* so the reaper, which looks at endpoints, can reach every session        *)
(* (main.rs:93-97, 306-313); for transports that do not fail before their  *)
(* session is registered.                                                  *)
THEOREM RegisteredAlwaysHasEndpoint ==
    ASSUME ~LossBeforeReply
    PROVE  Spec => []RegisteredHasEndpoint
<1> USE ConstantsAssumption, ServiceAssumption
<1> DEFINE Listed(s) == stage[s] \notin {"new", "pushed"}
<1> DEFINE Inv ==
      /\ \A s \in Sessions : s \in closed \cup mixer.dead => Listed(s)
      /\ \A d \in Readers : \A s \in drop[d].id : Listed(s)
      /\ \A t \in Requests, s \in Sessions :
            s \in request[t].new /\ request[t].step \in {"list", "register"} => s \in endpoints
      /\ RegisteredHasEndpoint
<1>1. Init => Inv
  BY DEF Init, RegistryInit, RegisteredHasEndpoint, NoDrop, NoRequest
<1>2. ASSUME ServiceInv, Inv, [Next]_vars PROVE Inv'
  <2> USE <1>2 DEF ServiceInv, ServiceTypes, RegistryTypeOK
  <2>1. \A s \in Sessions : Listed(s) => Listed(s)'
    BY RegistryStep, StageStep DEF registryVars
  <2>2. ASSUME NEW s \in Sessions, s \in closed' PROVE Listed(s)'
    <3>1. CASE closed' = closed
      BY <2>1, <2>2, <3>1
    <3>2. ASSUME NEW d \in Readers, NEW o \in Sessions, CloseEndpoint(d, o), closed' # closed
          PROVE  Listed(s)'
      <4>1. drop[d].id = {o} /\ closed' = closed \cup {o}
        BY <3>2 DEF CloseEndpoint, ConnectionLost, registryVars
      <4> QED BY <2>1, <2>2, <4>1
    <3>3. ASSUME NEW d \in Readers, NEW o \in Sessions, ContinueRemove(d, o), closed' # closed
          PROVE  Listed(s)'
      <4>1. FinishRemove(o)
        BY <3>3 DEF ContinueRemove, RetainOthers, BeginForget, ForgetAt
      <4> QED BY <2>1, <2>2, <4>1 DEF FinishRemove
    <3>4. ASSUME NEW d \in Readers, DropStep(d), closed' # closed PROVE Listed(s)'
      BY <3>2, <3>3, <3>4
      DEF DropStep, RemoveEndpoint, RemoveSession, TakeSession, ReadRemaining, MembersIds,
          MembersFilter, DecideNotice, ReleaseSnap, SendLeave, FinishDrop, registryVars
    <3>5. ASSUME NEW o \in Sessions, ConnectionFails(o) PROVE Listed(s)'
      <4>1. Listed(o) /\ closed' = closed \cup {o}
        BY <3>5 DEF ConnectionFails, ConnectionLost
      <4> QED BY <2>1, <2>2, <4>1
    <3>6. ASSUME NEW t \in Requests,
                 \/ RequestStep(t) \/ Abandon(t)
                 \/ \E o \in Sessions : Logout(t, o) \/ Provision(t, o)
          PROVE  closed' = closed
      BY <3>6 DEF RequestStep, CheckCapacity, Establish, InsertEndpoint, InsertInRegistry,
                  PushToRoom, InsertSession, Abandon, Logout, Provision, registryVars
    <3>7. ASSUME MixerStep PROVE closed' = closed
      BY <3>7 DEF MixerStep, Tick, ListRooms, EndPass, Reap, ReadMembers, MixOrDrain,
                  MembersIds, MembersFilter, ReleaseSnap, registryVars
    <3>8. ASSUME NEW task \in roomTasks, RoomStep(task) PROVE closed' = closed
      BY <3>8 DEF RoomStep, BuildOutput, MarkAnnounced, LookUp, SendRoster, SendMix,
                  FinishRoom, registryVars
    <3>9. ASSUME NEW o \in Sessions, ChannelOpens(o) PROVE closed' = closed
      BY <3>9 DEF ChannelOpens, registryVars
    <3>10. CASE UNCHANGED vars
      BY <3>1, <3>10 DEF vars, registryVars
    <3> QED BY <3>1, <3>4, <3>5, <3>6, <3>7, <3>8, <3>9, <3>10 DEF Next
  <2>3. ASSUME NEW s \in Sessions, s \in mixer'.dead PROVE Listed(s)'
    <3>1. CASE mixer'.dead \subseteq mixer.dead
      BY <2>1, <2>3, <3>1
    <3>2. CASE Tick
      BY <2>1, <2>3, <3>2 DEF Tick, MixerState
    <3>3. ASSUME NEW o \in Sessions, Reap(o) PROVE mixer'.dead \subseteq mixer.dead
      BY <3>3 DEF Reap, MixerState
    <3>4. ASSUME NEW d \in Readers, DropStep(d) PROVE mixer' = mixer
      BY <3>4, DropFrame
    <3>5. ASSUME NEW t \in Requests,
                 \/ RequestStep(t) \/ Abandon(t)
                 \/ \E o \in Sessions : Logout(t, o) \/ Provision(t, o)
          PROVE  mixer' = mixer
      BY <3>5 DEF RequestStep, CheckCapacity, Establish, InsertEndpoint, InsertInRegistry,
                  Abandon, Logout, Provision
    <3> QED BY <3>1, <3>2, <3>3, <3>4, <3>5, FrameStep
  <2>4. ASSUME NEW d \in Readers, NEW s \in drop'[d].id PROVE s \in Sessions /\ Listed(s)'
    <3>1. drop[d].id \subseteq Sessions
      BY DEF DropState
    <3>2. CASE drop'[d].id \subseteq drop[d].id
      BY <2>1, <2>4, <3>1, <3>2
    <3>3. ASSUME NEW e \in Readers, NEW o \in Sessions, StartDrop(e, o), Listed(o)
          PROVE  s \in Sessions /\ Listed(s)'
      <4>1. drop'[d] = drop[d] \/ drop'[d].id = {o}
        BY <3>3 DEF StartDrop, NoDrop
      <4> QED BY <2>1, <2>4, <3>2, <3>3, <4>1
    <3>4. ASSUME NEW e \in Readers, DropStep(e) PROVE drop'[d].id \subseteq drop[d].id
      BY <3>4, DropFrame
    <3>5. ASSUME NEW t \in Requests, RequestStep(t) PROVE drop' = drop
      BY <3>5 DEF RequestStep, CheckCapacity, Establish, InsertEndpoint, InsertInRegistry
    <3>6. ASSUME NEW t \in Requests, Abandon(t) PROVE drop'[d].id \subseteq drop[d].id
      BY <3>6 DEF Abandon, NoDrop
    <3>7. ASSUME NEW t \in Requests, NEW o \in Sessions, Logout(t, o) \/ Provision(t, o)
          PROVE  s \in Sessions /\ Listed(s)'
      BY <3>2, <3>3, <3>7 DEF Logout, Provision
    <3>8. ASSUME NEW o \in Sessions, Reap(o) PROVE s \in Sessions /\ Listed(s)'
      BY <3>3, <3>8 DEF Reap
    <3>9. ASSUME Tick PROVE drop' = drop
      BY <3>9 DEF Tick
    <3> QED BY <3>2, <3>4, <3>5, <3>6, <3>7, <3>8, <3>9, FrameStep
  <2> DEFINE Kept == \A t \in Requests, s \in Sessions :
        s \in request[t].new /\ request[t].step \in {"list", "register"} => s \in endpoints
  <2> DEFINE Leaving(o) == \E e \in Readers : drop[e].id = {o} /\ drop[e].step = "registry"
  <2>17. ASSUME NEW o \in bySession, o \notin endpoints, NEW d,
                \A e \in Readers : e # d => drop'[e] = drop[e],
                drop[d].id = {o} => drop[d].step # "registry"
         PROVE  Leaving(o)'
    <3>1. PICK e \in Readers : drop[e].id = {o} /\ drop[e].step = "registry"
      BY <2>17 DEF RegisteredHasEndpoint
    <3>2. drop'[e] = drop[e]
      BY <2>17, <3>1
    <3> QED BY <3>1, <3>2
  <2>18. (\A o \in bySession' : o \in endpoints' \/ Leaving(o)') => RegisteredHasEndpoint'
    BY DEF RegisteredHasEndpoint
  <2>5. ASSUME NEW d \in Readers, DropStep(d) PROVE Kept' /\ RegisteredHasEndpoint'
    <3>1. request' = request
      BY <2>5, DropFrame
    <3>2. ASSUME NEW s \in Sessions, RemoveEndpoint(d, s) PROVE Kept' /\ RegisteredHasEndpoint'
      <4>1. endpoints' = endpoints \ {s} /\ bySession' = bySession
        BY <3>2 DEF RemoveEndpoint, registryVars
      <4>2. Listed(s) /\ drop[d].step = "endpoint"
        BY <3>2 DEF RemoveEndpoint
      <4>3. Kept'
        BY <3>1, <4>1, <4>2 DEF RequestInv
      <4>4. drop'[d].id = {s} /\ drop'[d].step = "registry"
            /\ \A e \in Readers : e # d => drop'[e] = drop[e]
        BY <3>2 DEF RemoveEndpoint, DropState
      <4>5. ASSUME NEW o \in bySession', o \notin endpoints' PROVE Leaving(o)'
        <5>1. CASE o = s
          BY <4>4, <5>1
        <5>2. CASE o # s
          <6>1. o \in bySession /\ o \notin endpoints /\ drop[d].step # "registry"
            BY <4>1, <4>2, <4>5, <5>2
          <6>2. \A e \in Readers : e # d => drop'[e] = drop[e]
            BY <4>4
          <6> QED BY <2>17, <6>1, <6>2
        <5> QED BY <5>1, <5>2
      <4> QED BY <2>18, <4>3, <4>5
    <3>3. ASSUME NEW s \in Sessions, RemoveSession(d, s) PROVE Kept' /\ RegisteredHasEndpoint'
      <4>1. endpoints' = endpoints /\ bySession' = bySession \ {s}
        BY <3>3 DEF RemoveSession, TakeSession, registryVars
      <4>2. drop[d].id = {s} /\ \A e \in Readers : e # d => drop'[e] = drop[e]
        BY <3>3 DEF RemoveSession
      <4>3. ASSUME NEW o \in bySession', o \notin endpoints' PROVE Leaving(o)'
        <5>1. o \in bySession /\ o \notin endpoints /\ drop[d].id # {o}
          BY <4>1, <4>2, <4>3
        <5> QED BY <2>17, <4>2, <5>1
      <4> QED BY <2>18, <3>1, <4>1, <4>3
    <3>4. ASSUME endpoints' = endpoints, bySession' = bySession, drop[d].step # "registry",
                 \A e \in Readers : e # d => drop'[e] = drop[e]
          PROVE  Kept' /\ RegisteredHasEndpoint'
      BY <2>17, <2>18, <3>1, <3>4
    <3>5. ASSUME NEW s \in Sessions, ContinueRemove(d, s) PROVE Kept' /\ RegisteredHasEndpoint'
      <4>1. bySession' = bySession
        BY <3>5 DEF ContinueRemove, RetainOthers, BeginForget, ForgetAt, FinishRemove
      <4>2. endpoints' = endpoints /\ drop[d].step # "registry"
            /\ \A e \in Readers : e # d => drop'[e] = drop[e]
        BY <3>5 DEF ContinueRemove
      <4> QED BY <3>4, <4>1, <4>2
    <3>6. ASSUME \/ \E s \in Sessions :
                      \/ CloseEndpoint(d, s) \/ ReadRemaining(d, s) \/ DecideNotice(d, s)
                      \/ \E m \in Sessions : SendLeave(d, s, m)
                 \/ FinishDrop(d)
          PROVE  Kept' /\ RegisteredHasEndpoint'
      <4>1. bySession' = bySession
        BY <3>6 DEF CloseEndpoint, ConnectionLost, ReadRemaining, MembersIds, MembersFilter,
                    DecideNotice, ReleaseSnap, SendLeave, FinishDrop, registryVars
      <4>2. drop[d].step # "registry"
        BY <3>6 DEF CloseEndpoint, ReadRemaining, DecideNotice, SendLeave, FinishDrop
      <4> QED BY <3>4, <3>6, <4>1, <4>2, DropKeeps
    <3> QED BY <2>5, <3>2, <3>3, <3>5, <3>6 DEF DropStep
  <2>6. ASSUME NEW t \in Requests, NEW s \in Sessions, InsertEndpoint(t, s)
        PROVE  Kept' /\ RegisteredHasEndpoint'
    <3>1. /\ endpoints' = endpoints \cup {s} /\ bySession' = bySession /\ drop' = drop
          /\ request[t].new = {s} /\ request'[t].new = {s}
          /\ \A u \in Requests : u # t => request'[u] = request[u]
      BY <2>6 DEF InsertEndpoint, RequestState, registryVars
    <3> QED BY <3>1 DEF RegisteredHasEndpoint
  <2>7. ASSUME NEW t \in Requests, NEW s \in Sessions, InsertInRegistry(t, s)
        PROVE  Kept' /\ RegisteredHasEndpoint'
    <3>1. /\ endpoints' = endpoints /\ drop' = drop /\ s \in request[t].new
          /\ request[t].step \in {"list", "register"}
          /\ bySession' \subseteq bySession \cup {s}
      BY <2>7 DEF InsertInRegistry, PushToRoom, InsertSession
    <3>2. request' = [request EXCEPT ![t].step = "register"] \/ request' = [request EXCEPT ![t] = NoRequest]
      BY <2>7 DEF InsertInRegistry
    <3>3. ASSUME request' = [request EXCEPT ![t].step = "register"] PROVE Kept'
      <4>1. \A u \in Requests : /\ request'[u].new = request[u].new
                                /\ u # t => request'[u] = request[u]
        BY <3>3 DEF RequestState
      <4> QED BY <3>1, <4>1
    <3>4. ASSUME request' = [request EXCEPT ![t] = NoRequest] PROVE Kept'
      BY <3>1, <3>4 DEF NoRequest
    <3>5. s \in endpoints'
      BY <3>1
    <3>6. ASSUME NEW o \in bySession', o \notin endpoints' PROVE Leaving(o)'
      <4>1. o \in bySession /\ o \notin endpoints
        BY <3>1, <3>5, <3>6
      <4>2. Leaving(o)
        BY <4>1 DEF RegisteredHasEndpoint
      <4> QED BY <3>1, <4>2
    <3> QED BY <2>18, <3>2, <3>3, <3>4, <3>6
  <2>8. ASSUME UNCHANGED <<endpoints, bySession>>, NEW d \in Readers,
               drop[d].step # "registry", \A e \in Readers : e # d => drop'[e] = drop[e]
        PROVE  RegisteredHasEndpoint'
    BY <2>8, <2>17, <2>18
  <2>9. ASSUME endpoints' = endpoints, NEW t \in Requests,
               request'[t].step \notin {"list", "register"},
               \A u \in Requests : u # t => request'[u] = request[u]
        PROVE  Kept'
    BY <2>9
  <2>10. ASSUME NEW t \in Requests, CheckCapacity(t) \/ Establish(t)
         PROVE  Kept' /\ RegisteredHasEndpoint'
    <3>1. request'[t].step \notin {"list", "register"}
      <4>1. CASE request' = [request EXCEPT ![t] = NoRequest]
        BY <4>1 DEF NoRequest
      <4>2. ASSUME NEW next \in {"establish", "endpoint"}, request' = [request EXCEPT ![t].step = next]
            PROVE  request'[t].step \notin {"list", "register"}
        BY <4>2 DEF RequestState
      <4> QED BY <2>10, <4>1, <4>2 DEF CheckCapacity, Establish
    <3>2. UNCHANGED <<endpoints, bySession, drop>>
          /\ \A u \in Requests : u # t => request'[u] = request[u]
      BY <2>10 DEF CheckCapacity, Establish, registryVars
    <3> QED BY <2>9, <3>1, <3>2 DEF RegisteredHasEndpoint
  <2>11. ASSUME NEW t \in Requests, Abandon(t) PROVE Kept' /\ RegisteredHasEndpoint'
    <3>1. drop[t].step # "registry"
      BY <2>11 DEF Abandon, RequestInv
    <3> QED BY <2>8, <2>9, <2>11, <3>1 DEF Abandon, NoRequest, registryVars
  <2>12. ASSUME NEW t \in Requests, NEW s \in Sessions, Logout(t, s) \/ Provision(t, s)
         PROVE  Kept' /\ RegisteredHasEndpoint'
    <3>1. drop[t].step = "idle" /\ UNCHANGED <<endpoints, bySession>>
      BY <2>12 DEF Logout, Provision, Idle, registryVars
    <3>2. \A e \in Readers : e # t => drop'[e] = drop[e]
      BY <2>12 DEF Logout, Provision, StartDrop
    <3>3. request' = request \/ (/\ request'[t].step = "check"
                                 /\ \A u \in Requests : u # t => request'[u] = request[u])
      BY <2>12 DEF Logout, Provision
    <3> QED BY <2>8, <2>9, <3>1, <3>2, <3>3
  <2>13. ASSUME NEW s \in Sessions, Reap(s) PROVE Kept' /\ RegisteredHasEndpoint'
    <3>1. \A e \in Readers : e # Mixer => drop'[e] = drop[e]
      BY <2>13 DEF Reap, StartDrop
    <3> QED BY <2>8, <2>13, <3>1 DEF Reap, registryVars
  <2>14. ASSUME UNCHANGED <<endpoints, request, drop, bySession>> PROVE Kept' /\ RegisteredHasEndpoint'
    BY <2>14 DEF RegisteredHasEndpoint
  <2>15. ASSUME Tick PROVE Kept' /\ RegisteredHasEndpoint'
    BY <2>14, <2>15 DEF Tick, registryVars
  <2>16. Kept' /\ RegisteredHasEndpoint'
    BY <2>5, <2>6, <2>7, <2>10, <2>11, <2>12, <2>13, <2>14, <2>15, FrameStep DEF RequestStep
  <2> QED BY <2>2, <2>3, <2>4, <2>16
<1>3. Inv => RegisteredHasEndpoint
  OBVIOUS
<1> QED BY <1>1, <1>2, <1>3, ServiceInvariant, PTL DEF Spec

-----------------------------------------------------------------------------
(* The ceiling on sessions                                                 *)

(* A step adds to the sessions registered or about to be only by a         *)
(* request that has found room, or by making a session of one about to be. *)
LEMMA CountStep ==
    ASSUME ServiceInv, [Next]_vars
    PROVE  \/ bySession' \subseteq bySession /\ Provisioning' \subseteq Provisioning
           \/ /\ bySession' = bySession
              /\ ~(Cardinality(bySession) >= MaxSessions)
              /\ \E t \in Requests \ Provisioning : Provisioning' = Provisioning \cup {t}
           \/ \E t \in Provisioning, s \in Sessions :
                bySession' = bySession \cup {s} /\ Provisioning' = Provisioning \ {t}
<1> DEFINE Same == bySession' \subseteq bySession /\ Provisioning' \subseteq Provisioning
<1> USE ServiceAssumption
<1> USE DEF ServiceInv, ServiceTypes
<1>1. ASSUME NEW d \in Readers, DropStep(d) PROVE Same
  <2>1. UNCHANGED request
    BY <1>1, DropFrame
  <2>2. bySession' \subseteq bySession
    BY <1>1 DEF DropStep, RemoveEndpoint, RemoveSession, ContinueRemove, CloseEndpoint,
                ReadRemaining, DecideNotice, SendLeave, FinishDrop, registryVars, TakeSession,
                RetainOthers, BeginForget, ForgetAt, FinishRemove, ConnectionLost, MembersIds,
                MembersFilter, ReleaseSnap
  <2> QED BY <2>1, <2>2 DEF Provisioning
<1>2. ASSUME NEW t \in Requests, CheckCapacity(t)
      PROVE  \/ Same
             \/ /\ bySession' = bySession
                /\ ~(Cardinality(bySession) >= MaxSessions)
                /\ \E u \in Requests \ Provisioning : Provisioning' = Provisioning \cup {u}
  <2>1. request[t].step = "check" /\ bySession' = bySession /\ t \notin Provisioning
    BY <1>2 DEF CheckCapacity, Provisioning, registryVars
  <2>2. CASE Cardinality(bySession) >= MaxSessions
    <3>1. request' = [request EXCEPT ![t] = NoRequest]
      BY <1>2, <2>2 DEF CheckCapacity
    <3>2. Provisioning' \subseteq Provisioning
      BY <3>1 DEF Provisioning, NoRequest
    <3> QED BY <2>1, <3>2
  <2>3. CASE ~(Cardinality(bySession) >= MaxSessions)
    <3>1. request' = [request EXCEPT ![t] = [@ EXCEPT !.step = "establish"]]
      BY <1>2, <2>3 DEF CheckCapacity
    <3>2. \A u \in Requests : request'[u].step = IF u = t THEN "establish" ELSE request[u].step
      BY <3>1 DEF RequestState
    <3>3. Provisioning' = Provisioning \cup {t}
      BY <3>2 DEF Provisioning
    <3> QED BY <2>1, <2>3, <3>3
  <2> QED BY <2>2, <2>3
<1>3. ASSUME NEW t \in Requests, Establish(t) PROVE Same
  BY <1>3 DEF Establish, Provisioning, NoRequest, RequestState, registryVars
<1>4. ASSUME NEW t \in Requests, NEW s \in Sessions, InsertEndpoint(t, s) PROVE Same
  BY <1>4 DEF InsertEndpoint, Provisioning, RequestState, registryVars
<1>5. ASSUME NEW t \in Requests, NEW s \in Sessions, InsertInRegistry(t, s)
      PROVE  \/ Same
             \/ \E u \in Provisioning : bySession' = bySession \cup {s} /\ Provisioning' = Provisioning \ {u}
  <2>1. CASE request[t].step = "list" /\ PushToRoom(s) /\ request' = [request EXCEPT ![t].step = "register"]
    BY <2>1 DEF Provisioning, RequestState, PushToRoom
  <2>2. CASE request[t].step = "register" /\ InsertSession(s) /\ request' = [request EXCEPT ![t] = NoRequest]
    <3>1. t \in Provisioning /\ Provisioning' = Provisioning \ {t}
      BY <2>2 DEF Provisioning, NoRequest
    <3>2. bySession' = bySession \cup {s}
      BY <2>2 DEF InsertSession
    <3> QED BY <3>1, <3>2
  <2> QED BY <1>5, <2>1, <2>2 DEF InsertInRegistry
<1>6. ASSUME NEW t \in Requests, Abandon(t) PROVE Same
  BY <1>6 DEF Abandon, Provisioning, NoRequest, registryVars
<1>7. ASSUME NEW t \in Requests, NEW s \in Sessions, Logout(t, s) \/ Provision(t, s) PROVE Same
  BY <1>7 DEF Logout, Provision, Provisioning, registryVars, Idle
<1>8. ASSUME UNCHANGED <<bySession, request>> PROVE Same
  BY <1>8 DEF Provisioning
<1>9. CASE Tick
  BY <1>8, <1>9 DEF Tick, registryVars
<1>10. ASSUME NEW s \in Sessions, Reap(s) PROVE Same
  BY <1>8, <1>10 DEF Reap, registryVars
<1> HIDE DEF ServiceInv, ServiceTypes
<1>11. \/ \E d \in Readers : DropStep(d)
       \/ \E t \in Requests :
            \/ RequestStep(t) \/ Abandon(t)
            \/ \E s \in Sessions : Logout(t, s) \/ Provision(t, s)
       \/ Tick
       \/ \E s \in Sessions : Reap(s)
       \/ UNCHANGED <<endpoints, request, drop, stage, bySession, mixer.dead>>
  BY FrameStep
<1>12. ASSUME NEW t \in Requests, RequestStep(t)
       PROVE  CheckCapacity(t) \/ Establish(t) \/ \E s \in Sessions : InsertEndpoint(t, s) \/ InsertInRegistry(t, s)
  BY <1>12 DEF RequestStep
<1> QED BY <1>1, <1>2, <1>3, <1>4, <1>5, <1>6, <1>7, <1>8, <1>9, <1>10, <1>11, <1>12

(* Every request in progress overshoots the ceiling by at most one         *)
(* (main.rs:162, 216), for any ceiling and any number of requests.         *)
THEOREM CapacityAlwaysBounded ==
    ASSUME IsFiniteSet(Requests)
    PROVE  Spec => []CapacityBound
<1> DEFINE Inv == IsFiniteSet(bySession) /\ CapacityBound
<1>1. Init => Inv
  <2> SUFFICES ASSUME Init PROVE Inv
    OBVIOUS
  <2>1. bySession = {} /\ Provisioning = {}
    BY DEF Init, RegistryInit, Provisioning, NoRequest
  <2> QED BY <2>1, FS_EmptySet, FS_CardinalityType, ServiceAssumption DEF CapacityBound
<1>2. ASSUME ServiceInv, Inv, [Next]_vars PROVE Inv'
  <2> DEFINE n == Cardinality(bySession)
             p == Cardinality(Provisioning)
             r == Cardinality(Requests)
  <2>1. IsFiniteSet(Provisioning) /\ Provisioning \subseteq Requests
    <3>1. Provisioning \subseteq Requests
      BY DEF Provisioning
    <3> QED BY <3>1, FS_Subset
  <2>2. n \in Nat /\ p \in Nat /\ r \in Nat /\ MaxSessions \in Nat /\ n + p < MaxSessions + r
    BY <1>2, <2>1, FS_CardinalityType, ServiceAssumption DEF CapacityBound
  <2>3. CASE bySession' \subseteq bySession /\ Provisioning' \subseteq Provisioning
    <3>1. IsFiniteSet(bySession') /\ Cardinality(bySession') <= n
      BY <1>2, <2>3, FS_Subset
    <3>2. IsFiniteSet(Provisioning') /\ Cardinality(Provisioning') <= p
      BY <2>1, <2>3, FS_Subset
    <3>3. Cardinality(bySession') \in Nat /\ Cardinality(Provisioning') \in Nat
      BY <3>1, <3>2, FS_CardinalityType
    <3> HIDE DEF n, p, r
    <3> QED BY <3>1, <3>2, <3>3, <2>2 DEF CapacityBound, r
  <2>4. ASSUME NEW t \in Requests \ Provisioning, bySession' = bySession,
               ~(n >= MaxSessions), Provisioning' = Provisioning \cup {t}
        PROVE  Inv'
    <3>1. IsFiniteSet(Provisioning') /\ Cardinality(Provisioning') = p + 1
      BY <2>1, <2>4, FS_AddElement
    <3>2. Provisioning' \subseteq Requests
      BY <2>1, <2>4
    <3>3. p + 1 <= r
      BY <3>1, <3>2, FS_Subset
    <3>4. n + (p + 1) < MaxSessions + r
      <4> HIDE DEF n, p, r
      <4> QED BY <2>2, <2>4, <3>3
    <3> QED BY <1>2, <2>4, <3>1, <3>4 DEF CapacityBound
  <2>5. ASSUME NEW t \in Provisioning, NEW s \in Sessions,
               bySession' = bySession \cup {s}, Provisioning' = Provisioning \ {t}
        PROVE  Inv'
    <3>1. Cardinality(Provisioning') = p - 1
      BY <2>1, <2>5, FS_RemoveElement
    <3>2. IsFiniteSet(bySession') /\ (Cardinality(bySession') = n \/ Cardinality(bySession') = n + 1)
      BY <1>2, <2>5, FS_AddElement
    <3> HIDE DEF n, p, r
    <3> QED BY <2>2, <3>1, <3>2 DEF CapacityBound, r
  <2> QED BY <2>3, <2>4, <2>5, <1>2, CountStep
<1>3. Inv => CapacityBound
  OBVIOUS
<1> QED BY <1>1, <1>2, <1>3, ServiceInvariant, PTL DEF Spec

-----------------------------------------------------------------------------
(* The tasks of a tick                                                     *)

(* The mixer loop reads a room's members with no other use of its snapshot *)
(* under way.                                                              *)
MixerReads ==
    /\ mixer.step = "rooms" => drop[Mixer].step = "idle"
    /\ snap[Mixer].phase # "idle" => mixer.step = "rooms" \/ drop[Mixer].step = "members"
    /\ snap[Mixer].phase = "idle" => snap[Mixer].room = {}
    /\ snap[Mixer].phase = "done" => \A s \in snap[Mixer].found : {RoomOf[s]} = snap[Mixer].room

(* inflight counts the tasks, of which a room has at most one; a room      *)
(* still to be mixed has none.                                             *)
TasksCounted ==
    /\ IsFiniteSet(roomTasks) /\ inflight = Cardinality(roomTasks)
    /\ \A x, y \in roomTasks : x.room = y.room => x = y
    /\ mixer.step = "reap" => roomTasks = {}
    /\ mixer.step = "rooms" =>
         /\ \A x \in roomTasks : x.room \notin mixer.keys /\ x.room \notin snap[Mixer].room
         /\ mixer.keys \cap snap[Mixer].room = {}
    /\ \A x \in roomTasks : \A s \in x.members : RoomOf[s] = x.room
    /\ \A x \in roomTasks : x.todo \subseteq x.members

(* A listener's task belongs to a task of its room, which has built its    *)
(* output.                                                                 *)
Belongs(j, x) ==
    j.room = x.room /\ j.pass = x.pass /\ j.listener \in x.members /\ j.listener \notin x.todo
JobsBelong == \A j \in jobs : \E x \in roomTasks : Belongs(j, x)

MixInv == MixerReads /\ TasksCounted /\ JobsBelong /\ NoOverlap

(* What drop_session and the mixer loop do with the mixer's snapshot       *)
LEMMA MixerReadsStep ==
    ASSUME ServiceInv, MixerReads, [Next]_vars
    PROVE  MixerReads'
<1> USE ConstantsAssumption, ServiceAssumption
<1> USE DEF ServiceInv, ServiceTypes, RegistryTypeOK
<1>1. ASSUME UNCHANGED <<mixer, snap>>, drop'[Mixer].step = drop[Mixer].step PROVE MixerReads'
  BY <1>1 DEF MixerReads
<1>2. ASSUME NEW d \in Readers, DropStep(d), d # Mixer PROVE MixerReads'
  <2>1. mixer' = mixer /\ snap'[Mixer] = snap[Mixer] /\ drop'[Mixer] = drop[Mixer]
    BY <1>2 DEF DropStep, RemoveEndpoint, RemoveSession, ContinueRemove, CloseEndpoint,
                ReadRemaining, DecideNotice, SendLeave, FinishDrop, registryVars, serviceVars,
                TakeSession, RetainOthers, BeginForget, ForgetAt, FinishRemove, ConnectionLost,
                MembersIds, MembersFilter, ReleaseSnap
  <2> QED BY <2>1 DEF MixerReads
<1>3. CASE DropStep(Mixer)
  <2>1. mixer' = mixer /\ drop[Mixer].step # "idle" /\ mixer.step # "rooms"
    BY <1>3 DEF DropStep, RemoveEndpoint, RemoveSession, ContinueRemove, CloseEndpoint,
                ReadRemaining, DecideNotice, SendLeave, FinishDrop, registryVars, serviceVars,
                MixerReads
  <2>2. ASSUME NEW s \in Sessions, ReadRemaining(Mixer, s) PROVE MixerReads'
    <3>1. drop' = drop /\ drop[Mixer].step = "members"
      BY <2>2 DEF ReadRemaining, serviceVars
    <3>2. CASE MembersIds(Mixer, RoomOf[s])
      BY <3>1, <3>2, <2>1 DEF MembersIds, MixerReads
    <3>3. CASE MembersFilter(Mixer)
      <4>1. \A u \in snap[Mixer].ids : {RoomOf[u]} = snap[Mixer].room
        BY <3>3 DEF MembersFilter, RegistryInv, SnapInv
      <4> QED BY <3>1, <3>3, <4>1, <2>1 DEF MembersFilter, MixerReads
    <3> QED BY <2>2, <3>2, <3>3 DEF ReadRemaining
  <2>3. ASSUME NEW s \in Sessions, DecideNotice(Mixer, s) PROVE MixerReads'
    <3>1. snap'[Mixer] = NoSnap
      BY <2>3 DEF DecideNotice, ReleaseSnap
    <3> QED BY <3>1, <2>1 DEF MixerReads, NoSnap
  <2>4. ASSUME snap' = snap, drop[Mixer].step # "members" PROVE MixerReads'
    BY <2>1, <2>4 DEF MixerReads
  <2>5. ASSUME NEW s \in Sessions,
               \/ RemoveEndpoint(Mixer, s) \/ RemoveSession(Mixer, s) \/ ContinueRemove(Mixer, s)
               \/ CloseEndpoint(Mixer, s) \/ \E m \in Sessions : SendLeave(Mixer, s, m)
        PROVE  snap' = snap /\ drop[Mixer].step # "members"
    BY <2>5 DEF RemoveEndpoint, RemoveSession, ContinueRemove, CloseEndpoint, SendLeave,
                registryVars, TakeSession, RetainOthers, BeginForget, ForgetAt, FinishRemove,
                ConnectionLost
  <2>6. CASE FinishDrop(Mixer)
    BY <2>6, <2>4 DEF FinishDrop, registryVars
  <2> QED BY <1>3, <2>2, <2>3, <2>4, <2>5, <2>6 DEF DropStep
<1>4. ASSUME NEW t \in Requests,
             \/ RequestStep(t) \/ Abandon(t)
             \/ \E s \in Sessions : Logout(t, s) \/ Provision(t, s)
      PROVE  UNCHANGED <<mixer, snap>> /\ drop'[Mixer].step = drop[Mixer].step
  BY <1>4 DEF RequestStep, CheckCapacity, Establish, InsertEndpoint, InsertInRegistry, PushToRoom,
              InsertSession, Abandon, Logout, Provision, StartDrop, registryVars
<1>5. ASSUME NEW s \in Sessions, ChannelOpens(s) \/ ConnectionFails(s)
      PROVE  UNCHANGED <<mixer, snap>> /\ drop'[Mixer].step = drop[Mixer].step
  BY <1>5 DEF ChannelOpens, ConnectionFails, ConnectionLost, registryVars, serviceVars
<1>6. CASE MixerStep
  <2> USE DEF MixerState
  <2>1. CASE Tick
    BY <2>1 DEF Tick, MixerReads, registryVars
  <2>2. ASSUME NEW s \in Sessions, Reap(s) PROVE MixerReads'
    BY <2>2 DEF Reap, StartDrop, NoDrop, MixerReads, registryVars
  <2>3. CASE ListRooms
    BY <2>3 DEF ListRooms, MixerReads, registryVars
  <2>4. ASSUME NEW r \in Rooms, ReadMembers(r) PROVE MixerReads'
    <3>1. mixer.step = "rooms" /\ mixer'.step = "rooms" /\ drop' = drop
      BY <2>4 DEF ReadMembers
    <3>2. CASE MembersIds(Mixer, r)
      BY <3>1, <3>2 DEF MembersIds, MixerReads
    <3>3. CASE MembersFilter(Mixer)
      <4>1. \A u \in snap[Mixer].ids : {RoomOf[u]} = snap[Mixer].room
        BY <3>3 DEF MembersFilter, RegistryInv, SnapInv
      <4> QED BY <3>1, <3>3, <4>1 DEF MembersFilter, MixerReads
    <3> QED BY <2>4, <3>2, <3>3 DEF ReadMembers
  <2>5. ASSUME NEW r \in Rooms, MixOrDrain(r) PROVE MixerReads'
    <3>1. snap'[Mixer] = NoSnap /\ mixer' = mixer /\ drop' = drop
      BY <2>5 DEF MixOrDrain, ReleaseSnap
    <3> QED BY <3>1 DEF MixerReads, NoSnap
  <2>6. CASE EndPass
    BY <2>6 DEF EndPass, MixerReads, registryVars
  <2> QED BY <1>6, <2>1, <2>2, <2>3, <2>4, <2>5, <2>6 DEF MixerStep
<1>7. ASSUME NEW task \in roomTasks, RoomStep(task)
      PROVE  UNCHANGED <<mixer, snap>> /\ drop'[Mixer].step = drop[Mixer].step
  BY <1>7 DEF RoomStep, BuildOutput, MarkAnnounced, LookUp, SendRoster, SendMix, FinishRoom, registryVars
<1>8. CASE UNCHANGED vars
  BY <1>1, <1>8 DEF vars, registryVars, serviceVars
<1> HIDE DEF ServiceInv, ServiceTypes, RegistryTypeOK
<1> QED BY <1>1, <1>2, <1>3, <1>4, <1>5, <1>6, <1>7, <1>8 DEF Next

Tasks == TasksCounted /\ JobsBelong /\ NoOverlap

(* A step that leaves the tasks alone and starts or ends no tick.         *)
LEMMA TasksUntouched ==
    ASSUME Tasks, UNCHANGED <<roomTasks, jobs, inflight>>,
           mixer'.step = "reap" => roomTasks = {},
           mixer'.step = "rooms" =>
             /\ \A x \in roomTasks : x.room \notin mixer'.keys /\ x.room \notin snap'[Mixer].room
             /\ mixer'.keys \cap snap'[Mixer].room = {}
    PROVE  Tasks'
BY DEF Tasks, TasksCounted, JobsBelong, NoOverlap, Belongs

(* The room task is known by its room.                                     *)
LEMMA JobOfTask ==
    ASSUME Tasks, NEW x \in roomTasks, NEW j \in jobs, j.listener \in x.members
    PROVE  Belongs(j, x)
<1>1. PICK y \in roomTasks : Belongs(j, y)
  BY DEF Tasks, JobsBelong
<1>2. RoomOf[j.listener] = x.room /\ RoomOf[j.listener] = y.room
  BY <1>1 DEF Tasks, TasksCounted, Belongs
<1> QED BY <1>1, <1>2 DEF Tasks, TasksCounted

(* A tick starts with no task left, and spawns one for a room it has read. *)
LEMMA MixerStepTasks ==
    ASSUME ServiceInv, MixInv, MixerStep
    PROVE  Tasks'
<1> USE DEF MixInv, ServiceInv, ServiceTypes, RegistryTypeOK
<1>0. Tasks /\ mixer \in MixerState
  BY DEF Tasks
<1>1. CASE Tick
  <2>1. inflight = 0 /\ UNCHANGED <<roomTasks, jobs, inflight>> /\ mixer'.step = "reap"
    BY <1>1 DEF Tick, MixerState
  <2>2. roomTasks = {}
    BY <2>1, FS_EmptySet DEF TasksCounted
  <2> QED BY <1>0, <2>1, <2>2, TasksUntouched
<1>2. ASSUME NEW s \in Sessions, Reap(s) PROVE Tasks'
  <2>1. UNCHANGED <<roomTasks, jobs, inflight>> /\ mixer.step = "reap" /\ mixer'.step = "reap"
    BY <1>2 DEF Reap, MixerState
  <2> QED BY <1>0, <2>1, TasksUntouched DEF TasksCounted
<1>3. CASE ListRooms
  <2>1. /\ UNCHANGED <<roomTasks, jobs, inflight, snap>>
        /\ mixer.step = "reap" /\ mixer'.step = "rooms" /\ drop[Mixer].step = "idle"
    BY <1>3 DEF ListRooms, MixerState, registryVars
  <2>2. roomTasks = {} /\ snap'[Mixer].room = {}
    BY <2>1 DEF TasksCounted, MixerReads
  <2> QED BY <1>0, <2>1, <2>2, TasksUntouched
<1>4. ASSUME NEW r \in Rooms, ReadMembers(r) PROVE Tasks'
  <2>1. UNCHANGED <<roomTasks, jobs, inflight>> /\ mixer.step = "rooms" /\ mixer'.step = "rooms"
    BY <1>4 DEF ReadMembers, MixerState
  <2>2. CASE r \in mixer.keys /\ MembersIds(Mixer, r) /\ mixer' = [mixer EXCEPT !.keys = @ \ {r}]
    <3>1. mixer'.keys = mixer.keys \ {r} /\ snap'[Mixer].room = {r}
      BY <2>2, <1>0, ServiceAssumption DEF MembersIds, MixerState
    <3> QED BY <1>0, <2>1, <2>2, <3>1, TasksUntouched DEF TasksCounted
  <2>3. CASE MembersFilter(Mixer) /\ UNCHANGED mixer
    <3>1. snap'[Mixer].room = snap[Mixer].room
      BY <2>3, ServiceAssumption DEF MembersFilter
    <3> QED BY <1>0, <2>1, <2>3, <3>1, TasksUntouched DEF TasksCounted
  <2> QED BY <1>4, <2>2, <2>3 DEF ReadMembers
<1>5. ASSUME NEW r \in Rooms, MixOrDrain(r) PROVE Tasks'
  <2> DEFINE task == [room |-> r, pass |-> mixer.pass, members |-> snap[Mixer].found,
                      todo |-> snap[Mixer].found]
  <2>1. /\ mixer.step = "rooms" /\ mixer' = mixer /\ jobs' = jobs
        /\ snap[Mixer].room = {r} /\ snap[Mixer].phase = "done" /\ snap'[Mixer].room = {}
    BY <1>5, ServiceAssumption DEF MixOrDrain, ReleaseSnap, NoSnap
  <2>2. CASE UNCHANGED <<inflight, roomTasks>>
    BY <1>0, <2>1, <2>2, TasksUntouched DEF TasksCounted
  <2>3. CASE inflight' = inflight + 1 /\ roomTasks' = roomTasks \cup {task}
    <3>1. task.room = r /\ task.members = snap[Mixer].found /\ task.todo = snap[Mixer].found
      OBVIOUS
    <3> HIDE DEF task
    <3>2. \A x \in roomTasks : x.room # r
      BY <2>1 DEF TasksCounted
    <3>3. task \notin roomTasks
      BY <3>1, <3>2
    <3>4. IsFiniteSet(roomTasks') /\ inflight' = Cardinality(roomTasks')
      BY <2>3, <3>3, FS_AddElement DEF TasksCounted
    <3>5. \A s \in task.members : RoomOf[s] = task.room
      BY <2>1, <3>1 DEF MixerReads
    <3>6. r \notin mixer.keys
      BY <2>1 DEF TasksCounted
    <3>7. \A x, y \in roomTasks' : x.room = y.room => x = y
      BY <2>3, <3>1, <3>2 DEF TasksCounted
    <3>8. TasksCounted'
      BY <2>1, <2>3, <3>1, <3>4, <3>5, <3>6, <3>7 DEF TasksCounted
    <3>9. JobsBelong' /\ NoOverlap'
      BY <2>1, <2>3 DEF JobsBelong, NoOverlap, Belongs
    <3> QED BY <3>8, <3>9 DEF Tasks
  <2> QED BY <1>5, <2>2, <2>3 DEF MixOrDrain
<1>6. CASE EndPass
  <2>1. UNCHANGED <<roomTasks, jobs, inflight>> /\ mixer'.step = "wait"
    BY <1>6 DEF EndPass, MixerState
  <2> QED BY <1>0, <2>1, TasksUntouched
<1> QED BY <1>1, <1>2, <1>3, <1>4, <1>5, <1>6 DEF MixerStep

(* A room task builds the output of each member once.                      *)
LEMMA BuildKeepsTasks ==
    ASSUME ServiceInv, Tasks, NEW task \in roomTasks, NEW l \in Sessions, BuildOutput(task, l)
    PROVE  Tasks'
<1> DEFINE left == [task EXCEPT !.todo = @ \ {l}]
           job == [room |-> task.room, pass |-> task.pass, listener |-> l, step |-> "lookup",
                   joins |-> {AgentOf[s] : s \in task.members} \ announced[l]]
<1>1. /\ l \in task.todo /\ roomTasks' = (roomTasks \ {task}) \cup {left}
      /\ jobs' = jobs \cup {job} /\ mixer' = mixer /\ snap' = snap /\ inflight' = inflight
  BY DEF BuildOutput, MarkAnnounced
<1>2. /\ left.room = task.room /\ left.pass = task.pass /\ left.members = task.members
      /\ left.todo = task.todo \ {l}
  BY DEF ServiceInv, ServiceTypes, RoomTask
<1>3. job.room = task.room /\ job.pass = task.pass /\ job.listener = l
  OBVIOUS
<1> HIDE DEF left, job
<1>4. \A x \in roomTasks \ {task} : x.room # task.room
  BY DEF Tasks, TasksCounted
<1>5. IsFiniteSet(roomTasks') /\ inflight' = Cardinality(roomTasks')
  <2>1. /\ IsFiniteSet(roomTasks) /\ inflight = Cardinality(roomTasks)
        /\ Cardinality(roomTasks) \in Nat
    BY FS_CardinalityType DEF Tasks, TasksCounted
  <2>2. /\ IsFiniteSet(roomTasks \ {task})
        /\ Cardinality(roomTasks \ {task}) = Cardinality(roomTasks) - 1
    BY <2>1, FS_RemoveElement
  <2>3. left \notin roomTasks \ {task}
    BY <1>2, <1>4
  <2>4. /\ IsFiniteSet((roomTasks \ {task}) \cup {left})
        /\ Cardinality((roomTasks \ {task}) \cup {left}) = Cardinality(roomTasks \ {task}) + 1
    BY <2>2, <2>3, FS_AddElement
  <2> QED BY <2>1, <2>2, <2>4, <1>1
<1>6. l \in task.members
  BY <1>1 DEF Tasks, TasksCounted
<1>7. TasksCounted'
  <2>1. \A x, y \in roomTasks' : x.room = y.room => x = y
    BY <1>1, <1>2, <1>4 DEF Tasks, TasksCounted
  <2>2. mixer.step # "reap"
    BY DEF Tasks, TasksCounted
  <2>3. \A x \in roomTasks' : \E y \in roomTasks :
           x.room = y.room /\ x.members = y.members /\ x.todo \subseteq y.todo
    BY <1>1, <1>2
  <2> QED BY <1>1, <1>5, <2>1, <2>2, <2>3 DEF Tasks, TasksCounted
<1>8. ASSUME NEW j \in jobs PROVE j.listener # l /\ \E x \in roomTasks' : Belongs(j, x)
  <2>1. PICK x \in roomTasks : Belongs(j, x)
    BY DEF Tasks, JobsBelong
  <2>2. j.listener # l
    BY <1>1, <1>6, JobOfTask DEF Belongs
  <2>3. CASE x = task
    BY <2>1, <2>3, <1>1, <1>2 DEF Belongs
  <2>4. CASE x # task
    BY <2>1, <2>2, <2>4, <1>1
  <2> QED BY <2>3, <2>4
<1>9. Belongs(job, left)
  BY <1>2, <1>3, <1>6 DEF Belongs
<1>10. JobsBelong'
  <2>1. \A j \in jobs' : \E x \in roomTasks' : Belongs(j, x)
    BY <1>1, <1>8, <1>9
  <2> QED BY <2>1 DEF JobsBelong, Belongs
<1>11. NoOverlap'
  BY <1>1, <1>3, <1>8 DEF Tasks, NoOverlap
<1> QED BY <1>7, <1>10, <1>11 DEF Tasks

(* A listener's task goes on or ends, and stays one task.                  *)
LEMMA SendKeepsTasks ==
    ASSUME Tasks, NEW j \in jobs, NEW new,
           \A k \in new : k.room = j.room /\ k.pass = j.pass /\ k.listener = j.listener,
           \A k, m \in new : k = m,
           jobs' = (jobs \ {j}) \cup new, UNCHANGED <<roomTasks, inflight, mixer, snap>>
    PROVE  Tasks'
<1>1. TasksCounted'
  BY DEF Tasks, TasksCounted
<1>2. JobsBelong'
  BY DEF Tasks, JobsBelong, Belongs
<1>3. NoOverlap'
  BY DEF Tasks, NoOverlap
<1> QED BY <1>1, <1>2, <1>3 DEF Tasks

(* A room task ends after its listeners' tasks.                            *)
LEMMA RoomStepTasks ==
    ASSUME ServiceInv, Tasks, jobs \subseteq Job, NEW task \in roomTasks, RoomStep(task)
    PROVE  Tasks'
<1>1. ASSUME NEW l \in Sessions, BuildOutput(task, l) PROVE Tasks'
  BY <1>1, BuildKeepsTasks
<1>2. ASSUME NEW j \in JobsOf(task), LookUp(task, j) \/ SendRoster(task, j) \/ SendMix(task, j)
      PROVE  Tasks'
  <2>1. j \in jobs /\ j \in Job
    BY DEF JobsOf
  <2>2. \A st : /\ [j EXCEPT !.step = st].room = j.room /\ [j EXCEPT !.step = st].pass = j.pass
                /\ [j EXCEPT !.step = st].listener = j.listener
    BY <2>1 DEF Job
  <2>3. CASE LookUp(task, j)
    <3> DEFINE new == IF ~CanReach(j.listener) THEN {}
                      ELSE {[j EXCEPT !.step = IF j.joins = {} THEN "mix" ELSE "roster"]}
    <3>1. jobs' = (jobs \ {j}) \cup new /\ UNCHANGED <<roomTasks, inflight, mixer, snap>>
      BY <2>3 DEF LookUp, registryVars
    <3>2. /\ \A k \in new : k.room = j.room /\ k.pass = j.pass /\ k.listener = j.listener
          /\ \A k, m \in new : k = m
      BY <2>2
    <3> HIDE DEF new
    <3> QED BY <2>1, <3>1, <3>2, SendKeepsTasks
  <2>4. CASE SendRoster(task, j)
    <3> DEFINE new == {[j EXCEPT !.step = "mix"]}
    <3>1. jobs' = (jobs \ {j}) \cup new /\ UNCHANGED <<roomTasks, inflight, mixer, snap>>
      BY <2>4 DEF SendRoster, registryVars
    <3>2. /\ \A k \in new : k.room = j.room /\ k.pass = j.pass /\ k.listener = j.listener
          /\ \A k, m \in new : k = m
      BY <2>2
    <3> HIDE DEF new
    <3> QED BY <2>1, <3>1, <3>2, SendKeepsTasks
  <2>5. CASE SendMix(task, j)
    <3> DEFINE new == {}
    <3>1. jobs' = (jobs \ {j}) \cup new /\ UNCHANGED <<roomTasks, inflight, mixer, snap>>
      BY <2>5 DEF SendMix, registryVars
    <3>2. /\ \A k \in new : k.room = j.room /\ k.pass = j.pass /\ k.listener = j.listener
          /\ \A k, m \in new : k = m
      OBVIOUS
    <3> HIDE DEF new
    <3> QED BY <2>1, <3>1, <3>2, SendKeepsTasks
  <2> QED BY <1>2, <2>3, <2>4, <2>5
<1>3. CASE FinishRoom(task)
  <2>1. /\ JobsOf(task) = {} /\ roomTasks' = roomTasks \ {task} /\ inflight' = inflight - 1
        /\ UNCHANGED <<jobs, mixer, snap>>
    BY <1>3 DEF FinishRoom, registryVars
  <2>2. IsFiniteSet(roomTasks') /\ inflight' = Cardinality(roomTasks')
    BY <2>1, FS_RemoveElement DEF Tasks, TasksCounted
  <2>3. TasksCounted'
    BY <2>1, <2>2 DEF Tasks, TasksCounted
  <2>4. JobsBelong'
    <3>1. \A j \in jobs : ~Belongs(j, task)
      BY <2>1 DEF JobsOf, Belongs
    <3> QED BY <2>1, <3>1 DEF Tasks, JobsBelong, Belongs
  <2> QED BY <2>1, <2>3, <2>4 DEF Tasks, NoOverlap
<1> QED BY <1>1, <1>2, <1>3 DEF RoomStep

(* The rest of the service's types: listeners' tasks, channels, viewers    *)
MoreTypes ==
    /\ jobs \subseteq Job /\ inflight \in Nat
    /\ channel \in [Sessions -> {"none", "open", "closed"}]
    /\ viewer \in [Sessions -> SUBSET Agents]

(* Each step keeps them.                                                   *)
LEMMA MoreTypesStep ==
    ASSUME ServiceInv, MixInv, MoreTypes, [Next]_vars
    PROVE  MoreTypes'
<1> USE ConstantsAssumption, ServiceAssumption
<1> USE DEF ServiceInv, ServiceTypes, RegistryTypeOK, MoreTypes
<1>1. ASSUME NEW d \in Readers, DropStep(d) PROVE MoreTypes'
  <2>1. UNCHANGED <<jobs, inflight>>
    BY <1>1 DEF DropStep, RemoveEndpoint, RemoveSession, ContinueRemove, CloseEndpoint,
                ReadRemaining, DecideNotice, SendLeave, FinishDrop, serviceVars
  <2>2. channel' \in [Sessions -> {"none", "open", "closed"}]
    BY <1>1 DEF DropStep, RemoveEndpoint, RemoveSession, ContinueRemove, CloseEndpoint,
                ReadRemaining, DecideNotice, SendLeave, FinishDrop, serviceVars
  <2>3. viewer' \in [Sessions -> SUBSET Agents]
    BY <1>1 DEF DropStep, RemoveEndpoint, RemoveSession, ContinueRemove, CloseEndpoint,
                ReadRemaining, DecideNotice, SendLeave, FinishDrop, serviceVars
  <2> QED BY <2>1, <2>2, <2>3
<1>2. ASSUME NEW t \in Requests,
             \/ RequestStep(t) \/ Abandon(t)
             \/ \E s \in Sessions : Logout(t, s) \/ Provision(t, s)
      PROVE  MoreTypes'
  BY <1>2 DEF RequestStep, CheckCapacity, Establish, InsertEndpoint, InsertInRegistry, Abandon,
              Logout, Provision
<1>3. ASSUME NEW s \in Sessions, ChannelOpens(s) \/ ConnectionFails(s) PROVE MoreTypes'
  BY <1>3 DEF ChannelOpens, ConnectionFails, serviceVars
<1>4. CASE MixerStep
  BY <1>4 DEF MixerStep, Tick, ListRooms, EndPass, Reap, ReadMembers, MixOrDrain
<1>5. ASSUME NEW task \in roomTasks, RoomStep(task) PROVE MoreTypes'
  <2>1. ASSUME NEW l \in Sessions, BuildOutput(task, l) PROVE MoreTypes'
    <3>1. task \in RoomTask /\ \A s \in task.members : AgentOf[s] \in Agents
      BY DEF RoomTask
    <3>2. [room |-> task.room, pass |-> task.pass, listener |-> l, step |-> "lookup",
           joins |-> {AgentOf[s] : s \in task.members} \ announced[l]] \in Job
      BY <3>1 DEF Job, RoomTask
    <3> QED BY <2>1, <3>2 DEF BuildOutput
  <2>2. ASSUME NEW j \in JobsOf(task), LookUp(task, j) \/ SendRoster(task, j) \/ SendMix(task, j)
        PROVE  MoreTypes'
    <3>1. j \in Job
      BY DEF JobsOf
    <3>2. \A st \in {"lookup", "roster", "mix"} : [j EXCEPT !.step = st] \in Job
      BY <3>1 DEF Job
    <3>3. j.listener \in Sessions /\ j.joins \subseteq Agents
      BY <3>1 DEF Job
    <3> QED BY <2>2, <3>2, <3>3 DEF LookUp, SendRoster, SendMix
  <2>3. CASE FinishRoom(task)
    <3>1. inflight = Cardinality(roomTasks) /\ IsFiniteSet(roomTasks)
      BY DEF MixInv, TasksCounted
    <3>2. inflight' = Cardinality(roomTasks \ {task})
      BY <2>3, <3>1, FS_RemoveElement DEF FinishRoom
    <3>3. inflight' \in Nat
      BY <3>1, <3>2, FS_RemoveElement, FS_CardinalityType
    <3> QED BY <2>3, <3>3 DEF FinishRoom
  <2> QED BY <1>5, <2>1, <2>2, <2>3 DEF RoomStep
<1>6. CASE UNCHANGED vars
  BY <1>6 DEF vars, serviceVars
<1> QED BY <1>1, <1>2, <1>3, <1>4, <1>5, <1>6 DEF Next

(* Requests and drops leave the tasks of a tick alone.                     *)
LEMMA TasksStep ==
    ASSUME ServiceInv, MixInv, MoreTypes, [Next]_vars
    PROVE  Tasks'
<1>1. Tasks
  BY DEF MixInv, Tasks
<1>2. ASSUME NEW d \in Readers, DropStep(d) PROVE Tasks'
  <2>1. UNCHANGED <<roomTasks, jobs, inflight, mixer>>
    BY <1>2 DEF DropStep, RemoveEndpoint, RemoveSession, ContinueRemove, CloseEndpoint,
                ReadRemaining, DecideNotice, SendLeave, FinishDrop, serviceVars
  <2>2. snap'[Mixer] = snap[Mixer] \/ mixer.step # "rooms"
    <3>1. CASE d = Mixer
      <4>1. drop[Mixer].step # "idle"
        BY <1>2, <3>1 DEF DropStep, RemoveEndpoint, RemoveSession, ContinueRemove, CloseEndpoint,
                    ReadRemaining, DecideNotice, SendLeave, FinishDrop
      <4> QED BY <4>1 DEF MixInv, MixerReads
    <3>2. CASE d # Mixer
      BY <1>2, <3>2, ServiceAssumption
         DEF DropStep, RemoveEndpoint, RemoveSession, ContinueRemove, CloseEndpoint,
             ReadRemaining, DecideNotice, SendLeave, FinishDrop, registryVars, serviceVars,
             TakeSession, RetainOthers, BeginForget, ForgetAt, FinishRemove, ConnectionLost,
             MembersIds, MembersFilter, ReleaseSnap, ServiceInv, ServiceTypes, RegistryTypeOK
    <3> QED BY <3>1, <3>2
  <2> QED BY <1>1, <2>1, <2>2, TasksUntouched DEF MixInv, TasksCounted
<1>3. ASSUME UNCHANGED <<roomTasks, jobs, inflight, mixer, snap>> PROVE Tasks'
  BY <1>1, <1>3, TasksUntouched DEF MixInv, TasksCounted
<1>4. ASSUME NEW t \in Requests,
             \/ RequestStep(t) \/ Abandon(t)
             \/ \E s \in Sessions : Logout(t, s) \/ Provision(t, s)
      PROVE  UNCHANGED <<roomTasks, jobs, inflight, mixer, snap>>
  BY <1>4 DEF RequestStep, CheckCapacity, Establish, InsertEndpoint, InsertInRegistry, PushToRoom,
              InsertSession, Abandon, Logout, Provision, registryVars
<1>5. ASSUME NEW s \in Sessions, ChannelOpens(s) \/ ConnectionFails(s)
      PROVE  UNCHANGED <<roomTasks, jobs, inflight, mixer, snap>>
  BY <1>5 DEF ChannelOpens, ConnectionFails, ConnectionLost, registryVars, serviceVars
<1>6. CASE UNCHANGED vars
  BY <1>3, <1>6 DEF vars, registryVars, serviceVars
<1> QED BY <1>1, <1>2, <1>3, <1>4, <1>5, <1>6, MixerStepTasks, RoomStepTasks DEF Next, MoreTypes

(* All of it together is inductive.                                        *)
LEMMA MixInvariance == Spec => [](MixInv /\ MoreTypes)
<1>1. Init => MixInv /\ MoreTypes
  <2> SUFFICES ASSUME Init PROVE MixInv /\ MoreTypes
    OBVIOUS
  <2> USE ServiceAssumption DEF Init, RegistryInit
  <2>1. MixerReads
    BY DEF MixerReads, NoSnap
  <2>2. TasksCounted
    BY FS_EmptySet DEF TasksCounted
  <2>3. JobsBelong /\ NoOverlap
    BY DEF JobsBelong, NoOverlap
  <2>4. MoreTypes
    BY DEF MoreTypes
  <2> QED BY <2>1, <2>2, <2>3, <2>4 DEF MixInv
<1>2. ServiceInv /\ MixInv /\ MoreTypes /\ [Next]_vars => MixInv' /\ MoreTypes'
  <2> SUFFICES ASSUME ServiceInv, MixInv, MoreTypes, [Next]_vars PROVE MixInv' /\ MoreTypes'
    OBVIOUS
  <2>1. MixerReads' /\ Tasks' /\ MoreTypes'
    BY MixerReadsStep, TasksStep, MoreTypesStep DEF MixInv
  <2> QED BY <2>1 DEF MixInv, Tasks
<1> QED BY <1>1, <1>2, ServiceInvariant, PTL DEF Spec

(* Two mixes of one listener never run at once (main.rs:272-290), over all *)
(* rooms and ticks, for any number of either.                              *)
THEOREM NeverOverlap == Spec => []NoOverlap
<1>1. MixInv => NoOverlap
  BY DEF MixInv
<1> QED BY <1>1, MixInvariance, PTL

(* Every variable of the service keeps its type, the counter of unfinished *)
(* room tasks among them, which never falls below zero (main.rs:366).      *)
THEOREM ServiceTypeCorrect == Spec => []TypeOK
<1>1. ServiceInv /\ MoreTypes => TypeOK
  BY DEF ServiceInv, ServiceTypes, MoreTypes, TypeOK
<1> QED BY <1>1, MixInvariance, ServiceInvariant, PTL
=============================================================================
