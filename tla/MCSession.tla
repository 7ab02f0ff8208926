----------------------------- MODULE MCSession -----------------------------
(***************************************************************************)
(* The parts of a session and of the room it is in that do not wait for    *)
(* each other: the port it gets, its queue of audio, the negotiation of    *)
(* its transport, the roster over its data channels and the arithmetic of  *)
(* its mix.  They share no state, so one of them runs in a behaviour while *)
(* the others rest.                                                        *)
(***************************************************************************)
EXTENDS PortPool, JitterBuffer, Transport, Roster, MixArithmetic, TLC

VARIABLES part

-----------------------------------------------------------------------------
(* Values of the constants                                                 *)

Rtpmap(n, c) == [rtpmap |-> TRUE, spaced |-> TRUE, pt |-> n, codec |-> c]
Fmtp(n) == [rtpmap |-> FALSE, spaced |-> TRUE, pt |-> n, codec |-> "other"]

MCOffers ==
    {<<Rtpmap(111, "opus"), Fmtp(111)>>, <<Fmtp(96), Rtpmap(96, "OPUS")>>,
     <<Rtpmap(0, "other"), Rtpmap(109, "opus")>>, <<Fmtp(111)>>}

(* Both channels are of one session, which opens the second in the place   *)
(* of the first.                                                           *)
MCAgentOf == "s1" :> "a1" @@ "s2" :> "a2"
MCOwner == "c1" :> "s1" @@ "c2" :> "s1"

(* MaxFloat, 21, is the square of 4.6: offsets of 5 and more overflow when *)
(* squared.                                                                *)
MCRawPlaces == {-20, -6, -3, 0, 2, 4, 8, 20}
MCRawTurns == {<<0, 0, 0, 2>>, <<0, 0, 2, 0>>, <<20, 0, 0, 2>>, <<0, 20, 20, 20>>}
MCSamples == {-10, 0, 5, 8, 10}

-----------------------------------------------------------------------------

allVars == <<part, poolVars, queueVars, transportVars, rosterVars, arithmeticVars>>

SessionInit ==
    /\ part \in {"port", "queue", "transport", "roster", "mix"}
    /\ PoolInit /\ QueueInit /\ TransportInit /\ RosterInit /\ ArithmeticInit
    /\ part # "transport" => offer = <<Fmtp(111)>>
    /\ part # "mix" => sample = 0

(* A session that was closed, or failed before it was answered *)
Ended == step \in {"gone", "failed"} /\ UNCHANGED allVars

SessionNext ==
    \/ /\ part = "port" /\ PoolNext
       /\ UNCHANGED <<part, queueVars, transportVars, rosterVars, arithmeticVars>>
    \/ /\ part = "queue" /\ QueueNext
       /\ UNCHANGED <<part, poolVars, transportVars, rosterVars, arithmeticVars>>
    \/ /\ part = "transport" /\ TransportNext
       /\ UNCHANGED <<part, poolVars, queueVars, rosterVars, arithmeticVars>>
    \/ /\ part = "roster" /\ RosterNext
       /\ UNCHANGED <<part, poolVars, queueVars, transportVars, arithmeticVars>>
    \/ /\ part = "mix" /\ ArithmeticNext
       /\ UNCHANGED <<part, poolVars, queueVars, transportVars, rosterVars>>
    \/ Ended

SessionSpec ==
    /\ SessionInit /\ [][SessionNext]_allVars
    /\ TransportFairness /\ WF_rosterVars(RoomStep)
=============================================================================
