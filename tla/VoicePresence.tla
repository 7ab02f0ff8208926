--------------------------- MODULE VoicePresence ---------------------------
(***************************************************************************)
(* VoiceService as an implementation of Presence.  A session is present    *)
(* while it is registered, a viewer is connected while its endpoint is in  *)
(* the table and its channel open, and a removal is owed while the task    *)
(* that took the last session of the avatar out of the registry is bound   *)
(* to tell the viewer.                                                     *)
(***************************************************************************)
EXTENDS VoiceService

(* Whether the drop_session of d will find another session of s's avatar,  *)
(* as far as it has read the room's members.                               *)
Seen(d) ==
    CASE snap[d].phase = "idle" -> bySession
      [] snap[d].phase = "ids" -> snap[d].ids \cap bySession
      [] snap[d].phase = "done" -> snap[d].found

Owes(d, s, l) ==
    /\ drop[d].id = {s} /\ RoomOf[s] = RoomOf[l]
    /\ \/ l \in drop[d].todo
       \/ /\ drop[d].step \in {"removing", "close", "members"}
          /\ ~\E m \in Seen(d) : AgentOf[m] = AgentOf[s] /\ RoomOf[m] = RoomOf[s]

Reachable == {l \in Sessions : CanReach(l)}
Shown == [l \in Sessions |-> IF CanReach(l) THEN viewer[l] ELSE {}]
Owed == [l \in Sessions |->
    {a \in Shown[l] : \E d \in Readers, s \in Sessions : AgentOf[s] = a /\ Owes(d, s, l)}]

Promise == INSTANCE Presence WITH
    present <- bySession, connected <- Reachable, shown <- Shown, owed <- Owed

(* No departed avatar stays in a viewer's voice panel and none is taken    *)
(* from it for nothing (main.rs:103-109): the lists of the viewers follow  *)
(* the rooms, and every removal owed is made, as long as sessions end by   *)
(* the reaper.                                                             *)
ViewersFollowRooms == Promise!FairSpec
=============================================================================
