----------------------------- MODULE MCRegistry -----------------------------
(* Instance of Registry for TLC: two sessions in one room, one in another. *)
(* Which avatars they are of plays no part in what the registry returns,   *)
(* so there is one.                                                        *)
EXTENDS Registry, TLC

CONSTANTS s1, s2, s3, r1, r2

MCAgentOf == [s \in Sessions |-> CHOOSE a \in Agents : TRUE]
MCRoomOf  == s1 :> r1 @@ s2 :> r2 @@ s3 :> r1
=============================================================================
