--------------------------- MODULE RegistryProofs ---------------------------
(***************************************************************************)
(* What holds of room::Registry for any sessions, rooms and readers.  The  *)
(* invariant Indexed ties both indexes to how far the insert or the remove *)
(* of a session has come; the properties of module Registry follow from it *)
(* and from SnapInv, which describes a members call between its two reads. *)
(***************************************************************************)
EXTENDS Registry, TLAPS

ListedStages == {"pushed", "live", "taken"}

Indexed ==
    /\ \A s \in Sessions : s \in bySession <=> stage[s] = "live"
    /\ \A r \in Rooms, s \in Sessions :
          s \in byRoom[r] <=> r = RoomOf[s] /\ stage[s] \in ListedStages

SnapInv ==
    \A t \in Readers : snap[t].phase = "ids" =>
        /\ \E r \in Rooms : snap[t].room = {r}
        /\ \A s \in snap[t].ids : {RoomOf[s]} = snap[t].room
        /\ snap[t].before \subseteq snap[t].ids

RegistryInv == RegistryTypeOK /\ Indexed /\ SnapInv

-----------------------------------------------------------------------------

(* Every lock section keeps the registry's state well formed. *)
LEMMA TypeStep ==
    ASSUME RegistryTypeOK, [RegistryNext]_registryVars
    PROVE  RegistryTypeOK'
<1> USE ConstantsAssumption
<1> USE DEF RegistryTypeOK
<1>1. CASE UNCHANGED registryVars
  BY <1>1 DEF registryVars
<1>2. ASSUME NEW s \in Sessions, PushToRoom(s) PROVE RegistryTypeOK'
  BY <1>2 DEF PushToRoom, Stages
<1>3. ASSUME NEW s \in Sessions, InsertSession(s) PROVE RegistryTypeOK'
  BY <1>3 DEF InsertSession, Stages
<1>4. ASSUME NEW s \in Sessions, TakeSession(s) PROVE RegistryTypeOK'
  BY <1>4 DEF TakeSession, Stages
<1>5. ASSUME NEW s \in Sessions, RetainOthers(s) PROVE RegistryTypeOK'
  BY <1>5 DEF RetainOthers, Stages
<1>6. ASSUME NEW s \in Sessions, BeginForget(s) PROVE RegistryTypeOK'
  BY <1>6 DEF BeginForget, Stages
<1>7. ASSUME NEW s \in Sessions, FinishRemove(s) PROVE RegistryTypeOK'
  BY <1>7 DEF FinishRemove, Stages
<1>8. ASSUME NEW s \in Sessions, NEW o \in Sessions, ForgetAt(s, o) PROVE RegistryTypeOK'
  BY <1>8 DEF ForgetAt
<1>9. ASSUME NEW s \in Sessions, ConnectionLost(s) PROVE RegistryTypeOK'
  BY <1>9 DEF ConnectionLost
<1>10. ASSUME NEW t \in Readers, NEW r \in Rooms, MembersIds(t, r) PROVE RegistryTypeOK'
  <2>1. [phase |-> "ids", room |-> {r}, ids |-> byRoom[r], found |-> {},
         before |-> {s \in bySession : RoomOf[s] = r}] \in Snap
    BY DEF Snap
  <2> QED BY <1>10, <2>1 DEF MembersIds
<1>11. ASSUME NEW t \in Readers, MembersFilter(t) PROVE RegistryTypeOK'
  <2>1. [phase |-> "done", room |-> snap[t].room, ids |-> snap[t].ids,
         found |-> snap[t].ids \cap bySession, before |-> snap[t].before] \in Snap
    BY DEF Snap
  <2> QED BY <1>11, <2>1 DEF MembersFilter
<1>12. ASSUME NEW l \in Sessions, NEW speakers \in SUBSET Sessions, MarkAnnounced(l, speakers)
       PROVE  RegistryTypeOK'
  <2>1. {AgentOf[s] : s \in speakers} \subseteq Agents
    OBVIOUS
  <2> QED BY <1>12, <2>1 DEF MarkAnnounced
<1>13. ASSUME NEW t \in Readers, ReleaseSnap(t) PROVE RegistryTypeOK'
  BY <1>13 DEF ReleaseSnap, NoSnap, Snap
<1> QED
  BY <1>1, <1>2, <1>3, <1>4, <1>5, <1>6, <1>7, <1>8, <1>9, <1>10, <1>11, <1>12, <1>13
  DEF RegistryNext

-----------------------------------------------------------------------------

(* Each lock section moves an id in an index exactly when it moves the     *)
(* progress of the id's insert or remove past that index.                  *)
LEMMA IndexStep ==
    ASSUME RegistryInv, [RegistryNext]_registryVars
    PROVE  Indexed'
<1> USE ConstantsAssumption
<1> USE DEF RegistryInv, RegistryTypeOK, Indexed, ListedStages
<1>1. ASSUME UNCHANGED <<bySession, byRoom, stage>> PROVE Indexed'
  BY <1>1
<1>2. ASSUME NEW s \in Sessions, PushToRoom(s) PROVE Indexed'
  BY <1>2 DEF PushToRoom
<1>3. ASSUME NEW s \in Sessions, InsertSession(s) PROVE Indexed'
  BY <1>3 DEF InsertSession
<1>4. ASSUME NEW s \in Sessions, TakeSession(s) PROVE Indexed'
  BY <1>4 DEF TakeSession
<1>5. ASSUME NEW s \in Sessions, RetainOthers(s) PROVE Indexed'
  BY <1>5 DEF RetainOthers
<1>6. ASSUME NEW s \in Sessions, BeginForget(s) PROVE Indexed'
  BY <1>6 DEF BeginForget
<1>7. ASSUME NEW s \in Sessions, FinishRemove(s) PROVE Indexed'
  BY <1>7 DEF FinishRemove
<1>8. CASE UNCHANGED registryVars
  BY <1>1, <1>8 DEF registryVars
<1>9. CASE RegistryNext
  BY <1>1, <1>2, <1>3, <1>4, <1>5, <1>6, <1>7, <1>9
  DEF RegistryNext, ForgetAt, ConnectionLost, MembersIds, MembersFilter,
      MarkAnnounced, ReleaseSnap
<1> QED BY <1>8, <1>9

(* A members call reads, in its first lock section, an id list with every  *)
(* registered session of the room in it.                                   *)
LEMMA SnapStep ==
    ASSUME RegistryInv, [RegistryNext]_registryVars
    PROVE  SnapInv'
<1> USE ConstantsAssumption
<1> USE DEF RegistryInv, RegistryTypeOK, SnapInv
<1>1. ASSUME UNCHANGED snap PROVE SnapInv'
  BY <1>1
<1>2. ASSUME NEW t \in Readers, NEW r \in Rooms, MembersIds(t, r) PROVE SnapInv'
  <2>1. \A s \in byRoom[r] : RoomOf[s] = r
    BY DEF Indexed
  <2>2. {s \in bySession : RoomOf[s] = r} \subseteq byRoom[r]
    BY DEF Indexed, ListedStages
  <2>3. SUFFICES ASSUME NEW u \in Readers, snap'[u].phase = "ids"
                 PROVE  /\ \E q \in Rooms : snap'[u].room = {q}
                        /\ \A s \in snap'[u].ids : {RoomOf[s]} = snap'[u].room
                        /\ snap'[u].before \subseteq snap'[u].ids
    BY DEF SnapInv
  <2>4. CASE u = t
    BY <1>2, <2>1, <2>2, <2>4 DEF MembersIds
  <2>5. CASE u # t
    BY <1>2, <2>3, <2>5 DEF MembersIds
  <2> QED BY <2>4, <2>5
<1>3. ASSUME NEW t \in Readers, MembersFilter(t) PROVE SnapInv'
  BY <1>3 DEF MembersFilter, Snap
<1>4. ASSUME NEW t \in Readers, ReleaseSnap(t) PROVE SnapInv'
  BY <1>4 DEF ReleaseSnap, NoSnap
<1>5. CASE UNCHANGED registryVars
  BY <1>1, <1>5 DEF registryVars
<1>6. CASE RegistryNext
  BY <1>1, <1>2, <1>3, <1>4, <1>6
  DEF RegistryNext, PushToRoom, InsertSession, TakeSession, RetainOthers, BeginForget,
      FinishRemove, ForgetAt, ConnectionLost, MarkAnnounced
<1> QED BY <1>5, <1>6

(* The registry starts empty. *)
LEMMA InitInv == RegistryInit => RegistryInv
BY ConstantsAssumption
DEF RegistryInit, RegistryInv, RegistryTypeOK, Indexed, SnapInv, ListedStages, Stages, NoSnap, Snap

-----------------------------------------------------------------------------

(* The inductive invariant, from which the theorems below follow. *)
THEOREM RegistryInvariant == RegistrySpec => []RegistryInv
<1>1. RegistryInit => RegistryInv
  BY InitInv
<1>2. RegistryInv /\ [RegistryNext]_registryVars => RegistryInv'
  BY TypeStep, IndexStep, SnapStep DEF RegistryInv
<1> QED BY <1>1, <1>2, PTL DEF RegistrySpec

(* Type correctness of the registry. *)
THEOREM RegistryTypeCorrect == RegistrySpec => []RegistryTypeOK
<1>1. RegistryInv => RegistryTypeOK
  BY DEF RegistryInv
<1> QED BY <1>1, RegistryInvariant, PTL

(* No lookup through the room misses a registered session, whatever        *)
(* inserts and removes are under way (room.rs:258-274).                    *)
THEOREM RegisteredAlwaysListed == RegistrySpec => []RegisteredIsListed
<1>1. RegistryInv => RegisteredIsListed
  BY ConstantsAssumption
  DEF RegistryInv, RegistryTypeOK, Indexed, ListedStages, RegisteredIsListed
<1> QED BY <1>1, RegistryInvariant, PTL

(* The indexes agree whenever no insert and no remove is half done.        *)
THEOREM IndexesAgreeAtRest == RegistrySpec => []IndexesAgree
<1>1. RegistryInv => IndexesAgree
  BY ConstantsAssumption
  DEF RegistryInv, RegistryTypeOK, Indexed, ListedStages, IndexesAgree, Settled
<1> QED BY <1>1, RegistryInvariant, PTL

(* Registry::members returns every session of its room that is registered  *)
(* during the whole call (room.rs:289-296).                                *)
THEOREM MembersAreComplete == RegistrySpec => MembersComplete
<1> DEFINE Complete ==
      \A t \in Readers :
          snap[t].phase = "ids" /\ snap'[t].phase = "done" =>
             /\ snap[t].before \cap bySession \subseteq snap'[t].found
             /\ \A s \in snap'[t].found : {RoomOf[s]} = snap[t].room
<1>1. RegistryInv /\ [RegistryNext]_registryVars => [Complete]_registryVars
  <2> SUFFICES ASSUME RegistryInv, RegistryNext, NEW t \in Readers,
                      snap[t].phase = "ids", snap'[t].phase = "done"
               PROVE  /\ snap[t].before \cap bySession \subseteq snap'[t].found
                      /\ \A s \in snap'[t].found : {RoomOf[s]} = snap[t].room
    OBVIOUS
  <2> USE DEF RegistryInv, RegistryTypeOK, SnapInv
  <2>1. MembersFilter(t)
    <3>1. snap' # snap
      OBVIOUS
    <3>2. ASSUME NEW u \in Readers, NEW r \in Rooms PROVE ~MembersIds(u, r)
      BY DEF MembersIds
    <3>3. ASSUME NEW u \in Readers, ReleaseSnap(u) PROVE FALSE
      BY <3>3 DEF ReleaseSnap, NoSnap
    <3>4. PICK u \in Readers : MembersFilter(u)
      BY <3>1, <3>2, <3>3
      DEF RegistryNext, PushToRoom, InsertSession, TakeSession, RetainOthers, BeginForget,
          FinishRemove, ForgetAt, ConnectionLost, MarkAnnounced
    <3>5. u = t
      BY <3>4 DEF MembersFilter
    <3> QED BY <3>4, <3>5
  <2>2. snap'[t].found = snap[t].ids \cap bySession
    BY <2>1 DEF MembersFilter, Snap
  <2> QED BY <2>2
<1> QED BY <1>1, RegistryInvariant, PTL DEF RegistrySpec, MembersComplete
=============================================================================
