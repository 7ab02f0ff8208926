---------------------------- MODULE DataMessage ----------------------------
(***************************************************************************)
(* The viewer's data-channel messages as they arrive: which keys           *)
(* ViewerDataMessage::parse takes from them and in which sections          *)
(* apply_data applies what it took.  Every section is a step of            *)
(* SpatialMix, which is how that module stands for whole messages.         *)
(***************************************************************************)
EXTENDS SpatialMix, Sequences

CONSTANTS
    Messages,       \* messages that may arrive
    MaxTaken,       \* entries taken from one map (MAX_PEER_ENTRIES)
    U32             \* 2^32

(* A key that is absent or no value of its type is an empty set, and so is *)
(* a vector that lacks a component.  A map is a sequence in key order.     *)
Message == [j : SUBSET BOOLEAN,     \* the join message, and its flag "p"
            sp : SUBSET Places, lp : SUBSET Places,
            ug : Seq([id : Agents, value : SUBSET Nat]),
            m : Seq([id : Agents, value : SUBSET BOOLEAN])]

ASSUME MessageAssumption ==
    /\ Messages \subseteq Message
    /\ \A r \in Messages :
         Cardinality(r.j) <= 1 /\ Cardinality(r.sp) <= 1 /\ Cardinality(r.lp) <= 1
    /\ MaxTaken \in Nat /\ U32 \in Nat \ {0}
    /\ 0 .. U32 - 1 \subseteq RawGains

VARIABLES
    primary,    \* Session::joined and Session::primary: empty before a join
    applying    \* the message each session's poll task is applying

messageVars == <<primary, applying>>
allVars == <<vars, messageVars>>

NoMessage == [step |-> "poll", sp |-> {}, lp |-> {}, ug |-> <<>>, m |-> <<>>]

MessageInit ==
    /\ Init
    /\ primary = [s \in Sessions |-> {}]
    /\ applying = [s \in Sessions |-> NoMessage]

-----------------------------------------------------------------------------

(* The first entries; those whose value has no right type are passed over *)
Taken(map) == SubSeq(map, 1, IF Len(map) < MaxTaken THEN Len(map) ELSE MaxTaken)

Receive(s, r) ==
    /\ applying[s].step = "poll"
    /\ primary' = [primary EXCEPT ![s] = IF r.j = {} THEN @ ELSE r.j]
    /\ applying' = [applying EXCEPT ![s] =
         [step |-> "state", sp |-> r.sp, lp |-> r.lp, ug |-> Taken(r.ug), m |-> Taken(r.m)]]
    /\ UNCHANGED vars

(* Fault: the ear is tethered to where the avatar was. *)
ApplyStateEarFirst(s) ==
    /\ applying[s].step = "state"
    /\ \/ applying[s].sp = {} /\ applying[s].lp = {} /\ UNCHANGED vars
       \/ applying[s].lp = {} /\ \E a \in applying[s].sp : MoveAvatar(s, a)
       \/ applying[s].sp = {} /\ \E e \in applying[s].lp : MoveEar(s, e)
       \/ \E a \in applying[s].sp, e \in applying[s].lp :
            /\ avatar' = [avatar EXCEPT ![s] = a]
            /\ ear' = [ear EXCEPT ![s] = IF known[s] THEN Tether(e, avatar[s]) ELSE e]
            /\ known' = [known EXCEPT ![s] = TRUE]
            /\ UNCHANGED <<gains, mutes>>
    /\ applying' = [applying EXCEPT ![s].step = "gains"]
    /\ UNCHANGED primary

ApplyState(s) ==
    /\ applying[s].step = "state"
    /\ \/ applying[s].sp = {} /\ applying[s].lp = {} /\ UNCHANGED vars
       \/ applying[s].lp = {} /\ \E a \in applying[s].sp : MoveAvatar(s, a)
       \/ applying[s].sp = {} /\ \E e \in applying[s].lp : MoveEar(s, e)
       \/ \E a \in applying[s].sp, e \in applying[s].lp : MoveBoth(s, a, e)
    /\ applying' = [applying EXCEPT ![s].step = "gains"]
    /\ UNCHANGED primary

(* A gain is cut to 32 bits when it is parsed *)
ApplyGain(s) ==
    /\ applying[s].step = "gains"
    /\ IF applying[s].ug = <<>>
         THEN applying' = [applying EXCEPT ![s].step = "mutes"] /\ UNCHANGED vars
         ELSE /\ applying' = [applying EXCEPT ![s].ug = Tail(@)]
              /\ LET e == Head(applying[s].ug)
                 IN  IF e.value # {} /\ Accepts(gains[s], e.id)
                       THEN \E raw \in e.value : SetGain(s, e.id, raw % U32)
                       ELSE UNCHANGED vars
    /\ UNCHANGED primary

ApplyMute(s) ==
    /\ applying[s].step = "mutes"
    /\ IF applying[s].m = <<>>
         THEN applying' = [applying EXCEPT ![s] = NoMessage] /\ UNCHANGED vars
         ELSE /\ applying' = [applying EXCEPT ![s].m = Tail(@)]
              /\ LET e == Head(applying[s].m)
                 IN  IF e.value # {} /\ Accepts(mutes[s], e.id)
                       THEN \E muted \in e.value : SetMute(s, e.id, muted)
                       ELSE UNCHANGED vars
    /\ UNCHANGED primary

MessageNext == \E s \in Sessions :
    \/ \E r \in Messages : Receive(s, r)
    \/ ApplyState(s) \/ ApplyGain(s) \/ ApplyMute(s)

MessageSpec == MessageInit /\ [][MessageNext]_allVars

-----------------------------------------------------------------------------
(* Properties *)

(* Whatever combination of keys a message carries, and wherever the mixer  *)
(* reads in between, its effect on a session is a sequence of SpatialMix's *)
(* steps (room.rs:160-227); so what holds of those holds of messages.      *)
SectionsAreSteps == Spec
=============================================================================
