------------------------------ MODULE MCMixing ------------------------------
(***************************************************************************)
(* What a listener hears: two sessions told by single sections of a        *)
(* message, and, in other behaviours, one of them told by whole messages.  *)
(***************************************************************************)
EXTENDS DataMessage, TLC

CONSTANTS l1, l2, a1, a2

VARIABLES part

MCAgentOf == l1 :> a1 @@ l2 :> a2
MCPlaces == -2 .. 2
MCRawGains == 0 .. 3

Entry(id, v) == [id |-> id, value |-> v]
GainMaps == {<<>>, <<Entry(a1, {5}), Entry(a2, {3})>>, <<Entry(a1, {}), Entry(a2, {2})>>,
             <<Entry(a2, {0})>>}
MuteMaps == {<<>>, <<Entry(a1, {TRUE}), Entry(a2, {})>>,
             <<Entry(a2, {TRUE}), Entry(a1, {FALSE})>>}
MCMessages ==
    [j : {{}, {TRUE}}, sp : {{}, {-2}, {0}, {1}}, lp : {{}, {2}, {0}},
     ug : GainMaps, m : MuteMaps]

-----------------------------------------------------------------------------

MixingInit == part \in {"sections", "messages"} /\ MessageInit

MixingNext ==
    \/ part = "sections" /\ Next /\ UNCHANGED <<part, messageVars>>
    \/ part = "messages" /\ MessageNext /\ UNCHANGED <<part, applying[l2]>>

MixingSpec == MixingInit /\ [][MixingNext]_<<part, allVars>>
=============================================================================
