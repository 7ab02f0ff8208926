------------------------------ MODULE Registry ------------------------------
(***************************************************************************)
(* room::Registry: the live sessions, indexed by id and by room, and what  *)
(* each listener has already been told (Session::announced).               *)
(*                                                                         *)
(* The two indexes have a lock each and no operation holds both while it   *)
(* writes, so insert, remove and members are sequences of lock sections    *)
(* that other tasks interleave with.  One action is one lock section.      *)
(*                                                                         *)
(* A session id is a fresh UUID: an id is inserted once and, because       *)
(* by_session.remove hands the session to one caller only, removed once.   *)
(* `stage` says how far its insert and its remove have come; it stands for *)
(* the program counters of the tasks executing them.                       *)
(***************************************************************************)
EXTENDS Naturals, FiniteSets

CONSTANTS
    Sessions,   \* session ids
    Agents,     \* avatars
    Rooms,      \* RoomKey values
    AgentOf,    \* Session::agent_id
    RoomOf,     \* Session::room
    Readers     \* tasks that may be inside Registry::members

ASSUME ConstantsAssumption ==
    /\ AgentOf \in [Sessions -> Agents]
    /\ RoomOf \in [Sessions -> Rooms]

VARIABLES
    bySession,  \* keys of by_session
    byRoom,     \* by_room; an empty entry is an absent one
    announced,  \* Session::announced, per listener
    closed,     \* sessions whose `closed` flag is set
    stage,      \* progress of insert and remove, per session
    sweep,      \* sessions the remove of s has still to make forget its agent
    snap        \* progress and result of members, per reader

registryVars == <<bySession, byRoom, announced, closed, stage, sweep, snap>>

-----------------------------------------------------------------------------

(* "gone" is after remove has returned; before that, in order:             *)
(* new -insert-> pushed -> live -remove-> taken -> unlisted -> sweeping.   *)
Stages == {"new", "pushed", "live", "taken", "unlisted", "sweeping", "gone"}

NoSnap == [phase |-> "idle", room |-> {}, ids |-> {}, found |-> {}, before |-> {}]

(* `before` is history: the sessions registered when the call read by_room *)
Snap == [phase  : {"idle", "ids", "done"},
         room   : SUBSET Rooms,
         ids    : SUBSET Sessions,
         found  : SUBSET Sessions,
         before : SUBSET Sessions]

RegistryTypeOK ==
    /\ bySession \subseteq Sessions
    /\ byRoom \in [Rooms -> SUBSET Sessions]
    /\ announced \in [Sessions -> SUBSET Agents]
    /\ closed \subseteq Sessions
    /\ stage \in [Sessions -> Stages]
    /\ sweep \in [Sessions -> SUBSET Sessions]
    /\ snap \in [Readers -> Snap]

RegistryInit ==
    /\ bySession = {}
    /\ byRoom = [r \in Rooms |-> {}]
    /\ announced = [s \in Sessions |-> {}]
    /\ closed = {}
    /\ stage = [s \in Sessions |-> "new"]
    /\ sweep = [s \in Sessions |-> {}]
    /\ snap = [t \in Readers |-> NoSnap]

(* remove holds by_session.read() while it visits every other session, so  *)
(* the writers of by_session wait for it.                                  *)
BySessionReadLocked == \E s \in Sessions : stage[s] = "sweeping"

RoomKeys == {r \in Rooms : byRoom[r] # {}}

-----------------------------------------------------------------------------
(* Registry::insert *)

PushToRoom(s) ==
    /\ stage[s] = "new"
    /\ byRoom' = [byRoom EXCEPT ![RoomOf[s]] = @ \cup {s}]
    /\ stage' = [stage EXCEPT ![s] = "pushed"]
    /\ UNCHANGED <<bySession, announced, closed, sweep, snap>>

(* Fault: the two indexes are written in the other order. *)
InsertSessionFirst(s) ==
    /\ ~BySessionReadLocked
    /\ \/ /\ stage[s] = "new"
          /\ bySession' = bySession \cup {s}
          /\ stage' = [stage EXCEPT ![s] = "pushed"]
          /\ UNCHANGED byRoom
       \/ /\ stage[s] = "pushed"
          /\ byRoom' = [byRoom EXCEPT ![RoomOf[s]] = @ \cup {s}]
          /\ bySession' = bySession \cup {s}
          /\ stage' = [stage EXCEPT ![s] = "live"]
    /\ UNCHANGED <<announced, closed, sweep, snap>>

InsertSession(s) ==
    /\ stage[s] = "pushed"
    /\ ~BySessionReadLocked
    /\ bySession' = bySession \cup {s}
    /\ stage' = [stage EXCEPT ![s] = "live"]
    /\ UNCHANGED <<byRoom, announced, closed, sweep, snap>>

-----------------------------------------------------------------------------
(* Registry::remove; a remove of an id by_session does not hold returns    *)
(* None and changes nothing, so it has no action here.                     *)

TakeSession(s) ==
    /\ s \in bySession
    /\ ~BySessionReadLocked
    /\ bySession' = bySession \ {s}
    /\ stage' = [stage EXCEPT ![s] = "taken"]
    /\ UNCHANGED <<byRoom, announced, closed, sweep, snap>>

(* Fault: the room keeps the id. *)
RetainAll(s) ==
    /\ stage[s] = "taken"
    /\ stage' = [stage EXCEPT ![s] = "unlisted"]
    /\ UNCHANGED <<bySession, byRoom, announced, closed, sweep, snap>>

RetainOthers(s) ==
    /\ stage[s] = "taken"
    /\ byRoom' = [byRoom EXCEPT ![RoomOf[s]] = @ \ {s}]
    /\ stage' = [stage EXCEPT ![s] = "unlisted"]
    /\ UNCHANGED <<bySession, announced, closed, sweep, snap>>

(* Fault: nobody forgets the agent. *)
BeginForgetNone(s) ==
    /\ stage[s] = "unlisted"
    /\ stage' = [stage EXCEPT ![s] = "sweeping"]
    /\ UNCHANGED <<bySession, byRoom, announced, closed, sweep, snap>>

BeginForget(s) ==
    /\ stage[s] = "unlisted"
    /\ sweep' = [sweep EXCEPT ![s] = bySession]
    /\ stage' = [stage EXCEPT ![s] = "sweeping"]
    /\ UNCHANGED <<bySession, byRoom, announced, closed, snap>>

(* forget_announced on one other session, of whatever room *)
ForgetAt(s, o) ==
    /\ stage[s] = "sweeping"
    /\ o \in sweep[s]
    /\ announced' = [announced EXCEPT ![o] = @ \ {AgentOf[s]}]
    /\ sweep' = [sweep EXCEPT ![s] = @ \ {o}]
    /\ UNCHANGED <<bySession, byRoom, closed, stage, snap>>

FinishRemove(s) ==
    /\ stage[s] = "sweeping"
    /\ sweep[s] = {}
    /\ closed' = closed \cup {s}
    /\ stage' = [stage EXCEPT ![s] = "gone"]
    /\ UNCHANGED <<bySession, byRoom, announced, sweep, snap>>

-----------------------------------------------------------------------------
(* Registry::members: the ids under by_room's lock, then, after its        *)
(* release, the sessions under by_session's.                               *)

MembersIds(t, r) ==
    /\ snap[t].phase = "idle"
    /\ snap' = [snap EXCEPT ![t] =
                  [phase  |-> "ids",
                   room   |-> {r},
                   ids    |-> byRoom[r],
                   found  |-> {},
                   before |-> {s \in bySession : RoomOf[s] = r}]]
    /\ UNCHANGED <<bySession, byRoom, announced, closed, stage, sweep>>

MembersFilter(t) ==
    /\ snap[t].phase = "ids"
    /\ snap' = [snap EXCEPT ![t] =
                  [phase  |-> "done",
                   room   |-> snap[t].room,
                   ids    |-> snap[t].ids,
                   found  |-> snap[t].ids \cap bySession,
                   before |-> snap[t].before]]
    /\ UNCHANGED <<bySession, byRoom, announced, closed, stage, sweep>>

ReleaseSnap(t) ==
    /\ snap[t].phase = "done"
    /\ snap' = [snap EXCEPT ![t] = NoSnap]
    /\ UNCHANGED <<bySession, byRoom, announced, closed, stage, sweep>>

(* build_roster for one listener marks every member of the snapshot it     *)
(* works on, whatever has become of them since.                            *)
MarkAnnounced(l, speakers) ==
    /\ announced' = [announced EXCEPT ![l] = @ \cup {AgentOf[s] : s \in speakers}]
    /\ UNCHANGED <<bySession, byRoom, closed, stage, sweep, snap>>

(* on_connection_state_change: Failed, Closed or Disconnected *)
ConnectionLost(s) ==
    /\ closed' = closed \cup {s}
    /\ UNCHANGED <<bySession, byRoom, announced, stage, sweep, snap>>

-----------------------------------------------------------------------------

RegistryNext ==
    \/ \E s \in Sessions :
         \/ PushToRoom(s) \/ InsertSession(s)
         \/ TakeSession(s) \/ RetainOthers(s) \/ BeginForget(s) \/ FinishRemove(s)
         \/ \E o \in Sessions : ForgetAt(s, o)
         \/ ConnectionLost(s)
    \/ \E t \in Readers :
         \/ \E r \in Rooms : MembersIds(t, r)
         \/ MembersFilter(t) \/ ReleaseSnap(t)
    \/ \E l \in Sessions, speakers \in SUBSET Sessions : MarkAnnounced(l, speakers)

RegistrySpec == RegistryInit /\ [][RegistryNext]_registryVars

-----------------------------------------------------------------------------
(* Properties *)

(* A session that can be found by id can be found through its room:        *)
(* insert lists it first (room.rs:258-263) and remove unlists it last      *)
(* (room.rs:267-274), so no tick misses a registered speaker or listener.  *)
RegisteredIsListed ==
    \A s \in bySession : s \in byRoom[RoomOf[s]]

(* When no insert or remove is half done the two indexes say the same: no  *)
(* id is left in a room whose session has gone.                            *)
Settled == \A s \in Sessions : stage[s] \in {"new", "live", "gone"}
IndexesAgree ==
    Settled => \A r \in Rooms : byRoom[r] = {s \in bySession : RoomOf[s] = r}

(* Registry::members is not one atomic read, yet it returns every session  *)
(* of the room that was registered during the whole call, and nothing of   *)
(* another room (room.rs:289-296).  An id is never reinserted, so a        *)
(* session registered at both ends was registered throughout.              *)
MembersComplete ==
    [][\A t \in Readers :
          snap[t].phase = "ids" /\ snap'[t].phase = "done" =>
             /\ snap[t].before \cap bySession \subseteq snap'[t].found
             /\ \A s \in snap'[t].found : {RoomOf[s]} = snap[t].room]_registryVars

(* "Everyone who had been told about this agent should hear about them     *)
(* again if they come back" (room.rs:276-277): what a registered listener  *)
(* has marked as announced is an agent with a session not yet removed.     *)
DepartedIsForgotten ==
    \A l \in bySession : \A a \in announced[l] :
        \E s \in Sessions : AgentOf[s] = a /\ stage[s] \notin {"new", "pushed", "gone"}
=============================================================================
