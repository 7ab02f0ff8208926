------------------------------ MODULE MCClient ------------------------------
(***************************************************************************)
(* The reference client: how it makes and ends connections, and, in other  *)
(* behaviours, what it says on the data channels of connections that       *)
(* follow each other.                                                      *)
(***************************************************************************)
EXTENDS Client, ClientMessages

VARIABLES part

ClientInit ==
    /\ part \in {"connections", "messages"}
    /\ Init /\ MessagesInit

ClientNext ==
    \/ part = "connections" /\ Next /\ UNCHANGED <<part, messageVars>>
    \/ part = "messages" /\ MessagesNext /\ UNCHANGED <<part, vars>>

ClientSpec ==
    /\ ClientInit /\ [][ClientNext]_<<part, vars, messageVars>>
    /\ WF_messageVars(TimerFires)
=============================================================================
