------------------------------ MODULE Presence ------------------------------
(***************************************************************************)
(* What the service promises to the people in a room: the participant list *)
(* of a connected viewer follows the room's membership.  An avatar is      *)
(* shown only while it has a session in the room; when its last one goes,  *)
(* the list owes the viewer a removal; the removal comes, unless the       *)
(* avatar has come back in the meantime; and an avatar that has come back  *)
(* is not shown anew before the removal that is owed.                      *)
(***************************************************************************)
CONSTANTS Sessions, Agents, Rooms, AgentOf, RoomOf

VARIABLES
    present,    \* sessions in their rooms
    connected,  \* sessions whose viewer can be reached
    shown,      \* avatars a connected viewer shows
    owed        \* avatars it still has to be told the departure of

presenceVars == <<present, connected, shown, owed>>

PresenceTypeOK ==
    /\ present \subseteq Sessions
    /\ connected \subseteq Sessions
    /\ shown \in [Sessions -> SUBSET Agents]
    /\ owed \in [Sessions -> SUBSET Agents]
    /\ \A l \in Sessions : owed[l] \subseteq shown[l]

Init ==
    /\ present = {}
    /\ connected = {}
    /\ shown = [l \in Sessions |-> {}]
    /\ owed = [l \in Sessions |-> {}]

InRoom(a, r, people) == \E s \in people : AgentOf[s] = a /\ RoomOf[s] = r

Without(lists, a, r) ==
    [l \in Sessions |-> IF RoomOf[l] = r THEN lists[l] \ {a} ELSE lists[l]]

(* A removal that is owed may be spared the viewers when the avatar returns. *)
Arrive(s) ==
    /\ s \notin present
    /\ present' = present \cup {s}
    /\ owed' \in {owed, Without(owed, AgentOf[s], RoomOf[s])}
    /\ UNCHANGED <<connected, shown>>

Depart(s) ==
    /\ s \in present
    /\ present' = present \ {s}
    /\ owed' = [l \in Sessions |->
                  IF RoomOf[l] # RoomOf[s] \/ InRoom(AgentOf[s], RoomOf[s], present')
                    THEN owed[l] ELSE owed[l] \cup ({AgentOf[s]} \cap shown[l])]
    /\ UNCHANGED <<connected, shown>>

Connect(l) ==
    /\ l \notin connected
    /\ connected' = connected \cup {l}
    /\ UNCHANGED <<present, shown, owed>>

Disconnect(l) ==
    /\ l \in connected
    /\ connected' = connected \ {l}
    /\ shown' = [shown EXCEPT ![l] = {}]
    /\ owed' = [owed EXCEPT ![l] = {}]
    /\ UNCHANGED present

Show(l, joins) ==
    /\ l \in connected
    /\ \A a \in joins : InRoom(a, RoomOf[l], present) /\ a \notin owed[l]
    /\ shown' = [shown EXCEPT ![l] = @ \cup joins]
    /\ UNCHANGED <<present, connected, owed>>

Hide(l, a) ==
    /\ a \in owed[l]
    /\ shown' = [shown EXCEPT ![l] = @ \ {a}]
    /\ owed' = [owed EXCEPT ![l] = @ \ {a}]
    /\ UNCHANGED <<present, connected>>

Next ==
    \/ \E s \in Sessions : Arrive(s) \/ Depart(s) \/ Connect(s) \/ Disconnect(s)
    \/ \E l \in Sessions : \E joins \in SUBSET Agents : Show(l, joins)
    \/ \E l \in Sessions, a \in Agents : Hide(l, a)

Spec == Init /\ [][Next]_presenceVars

(* A removal that stays owed is made. *)
FairSpec == Spec /\ \A l \in Sessions, a \in Agents : WF_presenceVars(Hide(l, a))
=============================================================================
