----------------------------- MODULE MCRequests -----------------------------
(***************************************************************************)
(* What the HTTP connections ask of the service: the voice requests of the *)
(* region, and, in other behaviours, an admin's requests for the log       *)
(* settings while speakers' transitions are logged, and the date a line    *)
(* is given.                                                               *)
(***************************************************************************)
EXTENDS Requests, LogControl, TLC

CONSTANTS t1, t2, i1, i2, i3, v1, v2

VARIABLES part

-----------------------------------------------------------------------------
(* Values of the constants                                                 *)

Offer(v) == [form |-> "provision", from |-> v, userID |-> {v}, scene |-> "east",
             server |-> "webrtc", logout |-> FALSE, named |-> FALSE, jsep |-> "offer",
             channelType |-> "local", parcel |-> 0, channel |-> {}]
Named(M) == {[m EXCEPT !.named = TRUE] : m \in M}

Places(v) ==
    {Offer(v),
     [Offer(v) EXCEPT !.scene = "west", !.channelType = "other", !.channel = {"group"}],
     [Offer(v) EXCEPT !.parcel = -2],
     [Offer(v) EXCEPT !.parcel = 1, !.channelType = "absent", !.server = "absent"],
     [Offer(v) EXCEPT !.channelType = "multiagent", !.channel = {"group"}],
     [Offer(v) EXCEPT !.channelType = "multiagent", !.channel = {"group"},
                      !.scene = "west", !.parcel = 1]}

Bad(v) ==
    {[Offer(v) EXCEPT !.userID = {}],
     [Offer(v) EXCEPT !.channelType = "multiagent"]}
    \cup {[Offer(v) EXCEPT !.jsep = j] : j \in {"absent", "answer", "no sdp"}}
    \cup {[Offer(v) EXCEPT !.server = "other"], [Offer(v) EXCEPT !.logout = TRUE]}

Rest(v) ==
    {[Offer(v) EXCEPT !.form = f] : f \in {"get", "put", "oversize", "garbled", "unknown"}}
    \cup {[Offer(v) EXCEPT !.form = "signaling", !.named = n] : n \in BOOLEAN}

Logout(v) == [Offer(v) EXCEPT !.logout = TRUE, !.named = TRUE]

AllMessages == Places(v1) \cup Bad(v1) \cup Rest(v1) \cup Named({Offer(v1)}) \cup {Logout(v1)}
               \cup {Offer(v2), [Offer(v2) EXCEPT !.parcel = 1],
                     [Offer(v2) EXCEPT !.channelType = "multiagent", !.channel = {"group"}]}
Calls == {Offer(v1), Offer(v2)} \cup Named({Offer(v1)})

-----------------------------------------------------------------------------

Post(p, v) == [post |-> TRUE, path |-> p, large |-> FALSE, value |-> {v}]

MCAdminRequests ==
    {Post("/log-level", "info"), Post("/mic-log-mode", "all"), Post("other", "off"),
     Post("/log-level", "warn"), Post("/log-level", "all"), Post("/mic-log-mode", "loud"),
     [Post("/mic-log-mode", "off") EXCEPT !.large = TRUE],
     [Post("/status", "off") EXCEPT !.post = FALSE]}

-----------------------------------------------------------------------------

MCInit ==
    /\ part \in {"voice", "log", "date"}
    /\ Init /\ LogInit /\ DateInit

MCNext ==
    \/ part = "voice" /\ Next /\ UNCHANGED <<part, logVars, dateVars>>
    \/ part = "log" /\ LogNext /\ UNCHANGED <<part, vars, dateVars>>
    \/ part = "date" /\ DateNext /\ UNCHANGED <<part, vars, logVars>>

MCSpec == MCInit /\ [][MCNext]_<<part, vars, logVars, dateVars>>

Alike == Permutations(Ids) \cup Permutations(Tasks)
=============================================================================
