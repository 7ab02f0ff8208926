------------------------------- MODULE Roster -------------------------------
(***************************************************************************)
(* What a viewer learns about the people of one room: the data channel and *)
(* the slot it is kept in, the viewer's own join message, the level of     *)
(* each speaker, and the roster messages built from them on each tick.     *)
(*                                                                         *)
(* VoiceService treats a roster as a set of joins and a data channel as a  *)
(* state of its session; here nobody leaves, and the rest is detailed.     *)
(***************************************************************************)
EXTENDS Naturals, Sequences, FiniteSets, FiniteSetsExt

CONSTANTS
    Sessions,   \* all of one room
    Agents,
    AgentOf,    \* agent_id
    Channels,   \* data channels the viewers open
    Owner,      \* the session a channel is opened on
    Primary,    \* channels whose join message says "p": true
    Spatial     \* Session::spatial

ASSUME RosterAssumption ==
    /\ AgentOf \in [Sessions -> Agents]
    /\ Owner \in [Channels -> Sessions]
    /\ Primary \subseteq Channels
    /\ Spatial \in BOOLEAN

VARIABLES
    members,    \* the room's list, in the order of arrival
    chan,       \* state of each channel and of the task that polls it
    inbox,      \* channels whose join message is still to be applied
    slot,       \* Endpoint::dc, at most one channel
    primary,    \* sessions with the flag Session::primary
    level,      \* Session::level: 0, audible (1) or above the threshold (2)
    announced,  \* Session::announced
    frames,     \* the members the current tick works on
    todo,       \* listeners whose output is still to be built
    outs,       \* rosters on their way to a listener
    listed,     \* agents in the participant list of each viewer
    speaking,   \* agents it shows as speaking
    told, missed    \* history: agents whose join was sent, and discarded unsent

viewers == <<listed, speaking, told, missed>>
channels == <<chan, inbox, slot, primary>>
rosterVars == <<members, channels, level, announced, frames, todo, outs, viewers>>

Entry == [j : BOOLEAN, p : BOOLEAN, v : BOOLEAN]
IsRoster(r) == DOMAIN r \in SUBSET Agents /\ \A a \in DOMAIN r : r[a] \in Entry
PerViewer == [Sessions -> SUBSET Agents]

RosterTypeOK ==
    /\ members \in Seq(Sessions) /\ frames \in Seq(Sessions)
    /\ chan \in [Channels -> {"new", "open", "closed", "ended"}]
    /\ inbox \subseteq Channels
    /\ slot \in [Sessions -> SUBSET Channels]
    /\ \A s \in Sessions : \A c, d \in slot[s] : c = d /\ Owner[c] = s
    /\ primary \subseteq Sessions
    /\ level \in [Sessions -> 0..2]
    /\ todo \subseteq Sessions
    /\ \A o \in outs : o.to \in Sessions /\ IsRoster(o.roster)
    /\ announced \in PerViewer /\ listed \in PerViewer /\ speaking \in PerViewer
    /\ told \in PerViewer /\ missed \in PerViewer

RosterInit ==
    /\ members = <<>> /\ frames = <<>>
    /\ chan = [c \in Channels |-> "new"]
    /\ inbox = {} /\ slot = [s \in Sessions |-> {}]
    /\ primary = {} /\ level = [s \in Sessions |-> 0]
    /\ todo = {} /\ outs = {}
    /\ announced = [l \in Sessions |-> {}]
    /\ listed = [l \in Sessions |-> {}] /\ speaking = [l \in Sessions |-> {}]
    /\ told = [l \in Sessions |-> {}] /\ missed = [l \in Sessions |-> {}]

People(list) == {list[i] : i \in DOMAIN list}
AgentsIn(list) == {AgentOf[s] : s \in People(list)}

Enter(s) ==
    /\ s \notin People(members)
    /\ members' = Append(members, s)
    /\ UNCHANGED <<channels, level, announced, frames, todo, outs, viewers>>

-----------------------------------------------------------------------------
(* The data channel (Handler::on_data_channel)                             *)

(* Fault: the slot is filled after the task has started to poll. *)
AcceptLate(c) ==
    /\ Owner[c] \in People(members)
    /\ \/ /\ chan[c] = "new"
          /\ chan' = [chan EXCEPT ![c] = "open"]
          /\ inbox' = inbox \cup {c}
          /\ UNCHANGED slot
       \/ /\ chan[c] # "new" /\ slot[Owner[c]] = {}
          /\ slot' = [slot EXCEPT ![Owner[c]] = {c}]
          /\ UNCHANGED <<chan, inbox>>
    /\ UNCHANGED <<members, primary, level, announced, frames, todo, outs, viewers>>

(* The viewer says "j" as soon as the channel is open *)
Accept(c) ==
    /\ chan[c] = "new" /\ Owner[c] \in People(members)
    /\ chan' = [chan EXCEPT ![c] = "open"]
    /\ inbox' = inbox \cup {c}
    /\ slot' = [slot EXCEPT ![Owner[c]] = {c}]
    /\ UNCHANGED <<members, primary, level, announced, frames, todo, outs, viewers>>

ApplyJoin(c) ==
    /\ c \in inbox /\ chan[c] \in {"open", "closed"}
    /\ inbox' = inbox \ {c}
    /\ primary' = IF c \in Primary THEN primary \cup {Owner[c]} ELSE primary \ {Owner[c]}
    /\ UNCHANGED <<members, chan, slot, level, announced, frames, todo, outs, viewers>>

(* What has not arrived when the channel closes is lost *)
CloseChannel(c) ==
    /\ chan[c] = "open"
    /\ chan' = [chan EXCEPT ![c] = "closed"]
    /\ inbox' \in {inbox, inbox \ {c}}
    /\ UNCHANGED <<members, slot, primary, level, announced, frames, todo, outs, viewers>>

(* The poll task ends, and clears the slot whatever it holds *)
PollEnds(c) ==
    /\ chan[c] = "closed" /\ c \notin inbox
    /\ chan' = [chan EXCEPT ![c] = "ended"]
    /\ slot' = [slot EXCEPT ![Owner[c]] = {}]
    /\ UNCHANGED <<members, inbox, primary, level, announced, frames, todo, outs, viewers>>

-----------------------------------------------------------------------------
(* mix_room and build_roster                                               *)

(* Every member's next frame sets its level, also in a room that is only   *)
(* drained; the previous tick's tasks have ended.                          *)
Tick ==
    /\ todo = {} /\ outs = {}
    /\ \E f \in [People(members) -> 0..2] :
         level' = [s \in Sessions |-> IF s \in DOMAIN f THEN f[s] ELSE level[s]]
    /\ IF Len(members) < 2
         THEN UNCHANGED <<frames, todo>>
         ELSE frames' = members /\ todo' = People(members)
    /\ UNCHANGED <<members, channels, announced, outs, viewers>>

(* mark_announced answers true to the first session of an agent only *)
Joined(l, i) ==
    /\ AgentOf[frames[i]] \notin announced[l]
    /\ \A k \in 1..(i - 1) : AgentOf[frames[k]] # AgentOf[frames[i]]

(* Fault: levels are reported to nobody who knows the agent. *)
EmitsJoins(l, i) == Joined(l, i)

(* Fault: the silent are left out, newcomers or not. *)
EmitsAudible(l, i) == level[frames[i]] > 0

Emits(l, i) == Joined(l, i) \/ level[frames[i]] > 0

(* Fault: the flag of the listener, not of the speaker. *)
EntryOfListener(l, i) ==
    [j |-> Joined(l, i), p |-> l \in primary, v |-> level[frames[i]] = 2]

EntryOf(l, i) ==
    [j |-> Joined(l, i), p |-> frames[i] \in primary, v |-> level[frames[i]] = 2]

(* A message has one entry for an agent, the last one written *)
RosterFor(l) ==
    LET emitted == {i \in DOMAIN frames : Emits(l, i)}
        Last(a) == Max({i \in emitted : AgentOf[frames[i]] = a})
    IN  [a \in {AgentOf[frames[i]] : i \in emitted} |-> EntryOf(l, Last(a))]

BuildRoster(l) ==
    /\ l \in todo
    /\ todo' = todo \ {l}
    /\ announced' = [announced EXCEPT ![l] = @ \cup AgentsIn(frames)]
    /\ outs' = IF DOMAIN RosterFor(l) = {} THEN outs
               ELSE outs \cup {[to |-> l, roster |-> RosterFor(l)]}
    /\ UNCHANGED <<members, channels, level, frames, viewers>>

Joins(r) == {a \in DOMAIN r : r[a].j}

(* An empty slot discards the roster.  What is sent reaches the viewer if  *)
(* its channel is still open, and the viewer lists whom it is told to be   *)
(* primary here, or anybody in a room that is not spatial.                 *)
Deliver(o) ==
    /\ todo = {} /\ o \in outs
    /\ outs' = outs \ {o}
    /\ IF slot[o.to] = {}
         THEN /\ missed' = [missed EXCEPT ![o.to] = @ \cup Joins(o.roster)]
              /\ UNCHANGED <<listed, speaking, told>>
         ELSE /\ told' = [told EXCEPT ![o.to] = @ \cup Joins(o.roster)]
              /\ IF \E c \in slot[o.to] : chan[c] = "open"
                   THEN /\ listed' = [listed EXCEPT ![o.to] =
                             @ \cup {a \in Joins(o.roster) : o.roster[a].p \/ ~Spatial}]
                        /\ speaking' = [speaking EXCEPT ![o.to] =
                             (@ \ DOMAIN o.roster) \cup {a \in DOMAIN o.roster : o.roster[a].v}]
                   ELSE UNCHANGED <<listed, speaking>>
              /\ UNCHANGED missed
    /\ UNCHANGED <<members, channels, level, announced, frames, todo>>

-----------------------------------------------------------------------------

RoomStep ==
    \/ Tick
    \/ \E l \in Sessions : BuildRoster(l)
    \/ \E o \in outs : Deliver(o)

RosterNext ==
    \/ \E s \in Sessions : Enter(s)
    \/ \E c \in Channels : Accept(c) \/ ApplyJoin(c) \/ CloseChannel(c) \/ PollEnds(c)
    \/ RoomStep

RosterSpec == RosterInit /\ [][RosterNext]_rosterVars

(* The mixer loop ticks, and the tasks it spawns come to their end. *)
RosterFairSpec == RosterSpec /\ WF_rosterVars(RoomStep)

-----------------------------------------------------------------------------
(* Properties *)

(* data_channel_open answers from the slot (session.rs:143): a channel is  *)
(* in the slot only as long as a task polls it, so a roster is never sent  *)
(* into a channel that is known to have ended.                             *)
SlotIsPolled == \A s \in Sessions : \A c \in slot[s] : chan[c] \in {"open", "closed"}

(* "The viewer deliberately ignores joins announced by non-primary servers *)
(* so a neighbour cannot duplicate a participant" (room.rs:7-9): in a      *)
(* spatial room a viewer lists an agent only if a session of that very     *)
(* agent in this room said it was primary.                                 *)
NeighbourNotListed == Spatial => \A l \in Sessions : \A a \in listed[l] :
    \E c \in Primary : AgentOf[Owner[c]] = a /\ Owner[c] \in People(members)

(* `announced` holds the agents "already announced to this listener, so a  *)
(* join is sent once" (room.rs:90): an agent marked so has had its join    *)
(* sent, or discarded for want of a channel, or has it on its way.         *)
AnnouncedIsTold == \A l \in Sessions : \A a \in announced[l] :
    a \in told[l] \cup missed[l] \/ \E o \in outs : o.to = l /\ a \in Joins(o.roster)

(* Both together: what the server takes a viewer to know it was told, and  *)
(* what the viewer lists is true.                                          *)
RosterIsTrue == AnnouncedIsTold /\ NeighbourNotListed

(* Whoever keeps talking above the threshold is shown as speaking by every *)
(* viewer of the room whose data channel stays open.                       *)
Hearing(l) == \E c \in slot[l] : chan[c] = "open"
TalkerIsShown == \A s, l \in Sessions :
    <>[](level[s] = 2 /\ Hearing(l) /\ Len(members) > 1) => <>(AgentOf[s] \in speaking[l])

(* "A participant is only added when a join arrives and it is either the   *)
(* primary connection or a non-spatial channel" (PROTOCOL.md:198): a       *)
(* viewer that was sent the join of an agent whose every connection here   *)
(* is primary lists that agent.                                            *)
PrimaryIsListed == \A l \in Sessions : Hearing(l) => \A a \in told[l] :
    (\A c \in Channels : AgentOf[Owner[c]] = a => c \in Primary) => a \in listed[l]

(* "Our roster and the viewer's own local reading of its own voice agree"  *)
(* (proto.rs:409): between ticks a viewer shows as speaking only agents    *)
(* whose level is above the threshold.                                     *)
SilenceIsShown ==
    todo = {} /\ outs = {} => \A l \in Sessions : Hearing(l) =>
        \A a \in speaking[l] : \E s \in People(frames) : AgentOf[s] = a /\ level[s] = 2

(* A roster goes "down the data channel, if it is open yet"                *)
(* (session.rs:133): an open channel leaves its session's slot filled.     *)
OpenIsUsable == \A c \in Channels : chan[c] = "open" => slot[Owner[c]] # {}
=============================================================================
