---------------------------- MODULE ClientProofs ----------------------------
(***************************************************************************)
(* The reference client, for any number of connections, rooms and avatars  *)
(* and a manager that does not let its calls overlap.                      *)
(***************************************************************************)
EXTENDS Client, ClientMessages, TLAPS

-----------------------------------------------------------------------------
(* Client: the inductive invariant                                         *)

Negotiating == call[Join].step \in {"offer", "provision", "answer"}
LoggingOut == \E c \in {Join, Leave} : call[c].step = "logout"

Types ==
    /\ call \in [{Join, Leave} -> Call]
    /\ state \in [Conns -> {"none", "new", "connected", "lost", "closed"}]
    /\ pc \subseteq Conns /\ viewerSession \subseteq Conns /\ unheard \subseteq Conns

(* One call at a time, and voice is wanted while start or switchRoom runs. *)
CallsInTurn ==
    /\ call[Leave].step \in {"idle", "logout"} /\ call[Leave].room = {}
    /\ call[Join].step # "idle" => on /\ call[Leave].step = "idle"
    /\ call[Leave].step # "idle" => ~on

(* The connection under negotiation is the one in use, and before there is *)
(* one there is no session.                                                *)
UnderNegotiation ==
    /\ Negotiating => call[Join].conn = pc /\ pc # {}
    /\ call[Join].step \in {"start", "mic"} => pc = {}
    /\ call[Join].step \in {"start", "mic", "offer", "provision"} => viewerSession = {}
    /\ call[Join].step = "mic" \/ (pc # {} /\ ~LoggingOut) => ~closing

(* The session in use is the one of the connection in use; it is the one a *)
(* logout under way is for, and that takes in no more candidates.          *)
SessionOfConnection ==
    /\ \A m, n \in pc : m = n
    /\ viewerSession # {} => viewerSession = pc
    /\ \A c \in {Join, Leave} : call[c].step = "logout" =>
         closing /\ pending = {} /\ viewerSession = call[c].conn

(* What the callbacks add is of the connection in use. *)
OfConnection == pending \subseteq pc /\ open \subseteq pc

Quiet == ~on /\ call[Leave].step = "idle" => ~mic /\ pc = {} /\ viewerSession = {}

ClientInv ==
    /\ Types /\ CallsInTurn /\ UnderNegotiation /\ SessionOfConnection
    /\ OneConnection /\ OfConnection /\ Quiet
    /\ SessionsEnded /\ CandidatesMatch /\ RosterIsCurrent

(* A closed connection stays closed, so a session stays accounted for.     *)
LEMMA EndedStays ==
    ASSUME SessionsEnded, UNCHANGED learned, viewerSession \subseteq viewerSession' \cup ended',
           ended \subseteq ended', unheard \subseteq unheard',
           \A n \in Conns : state[n] = "closed" => state'[n] = "closed",
           unheard \subseteq Conns
    PROVE  SessionsEnded'
BY DEF SessionsEnded

(* A teardown by either call, up to the logout request, or to its end if   *)
(* there is no session to log out of.                                      *)
LEMMA TeardownKeeps ==
    ASSUME ClientInv, on, call[Leave].step = "idle",
           NEW c \in {Join, Leave}, NEW room \in SUBSET Rooms, Teardown(c, room),
           c = Join => on' = on /\ call[Join].step \in {"idle", "provision"},
           c = Leave => ~on' /\ call[Join].step = "idle" /\ room = {}
    PROVE  ClientInv'
<1> USE ClientAssumption DEF ClientInv, Types, Call, NoCall
<1>1. CASE viewerSession # {}
  <2>1. /\ call' = [call EXCEPT ![c] = [step |-> "logout", room |-> room, conn |-> viewerSession]]
        /\ UNCHANGED <<pc, state, open, mic, roster, viewerSession, posted, learned, ended, unheard>>
        /\ closing' /\ pending' = {}
    BY <1>1 DEF Teardown, Logout, history
  <2>2. Types' /\ CallsInTurn'
    BY <2>1 DEF CallsInTurn
  <2>3. call[Join].step = "idle"
    BY <1>1 DEF UnderNegotiation
  <2>4. UnderNegotiation' /\ Quiet'
    BY <2>1, <2>3 DEF UnderNegotiation, Negotiating, LoggingOut, Quiet
  <2>5. SessionOfConnection' /\ OfConnection'
    BY <2>1 DEF SessionOfConnection, OfConnection, LoggingOut
  <2>6. OneConnection' /\ SessionsEnded' /\ CandidatesMatch' /\ RosterIsCurrent'
    BY <2>1 DEF OneConnection, Live, SessionsEnded, CandidatesMatch, RosterIsCurrent
  <2> QED BY <2>2, <2>4, <2>5, <2>6
<1>2. CASE viewerSession = {}
  <2>1. /\ call' = [call EXCEPT ![c] = IF room = {} THEN NoCall
                       ELSE [step |-> "start", room |-> room, conn |-> {}]]
        /\ pc' = {} /\ roster' = {} /\ open' = open \ pc /\ pending' = {}
        /\ state' = [n \in Conns |-> IF n \in pc THEN "closed" ELSE state[n]]
        /\ mic' = (mic /\ c = Join)
        /\ UNCHANGED <<viewerSession, posted, learned, ended, unheard>>
    BY <1>2 DEF Teardown, Close, Continue, history
  <2>2. Types' /\ CallsInTurn'
    BY <2>1 DEF CallsInTurn
  <2>3. UnderNegotiation' /\ Quiet'
    BY <1>2, <2>1 DEF UnderNegotiation, Negotiating, LoggingOut, Quiet, CallsInTurn
  <2>4. SessionOfConnection' /\ OfConnection'
    BY <1>2, <2>1 DEF SessionOfConnection, OfConnection, LoggingOut, CallsInTurn
  <2>5. OneConnection' /\ CandidatesMatch' /\ RosterIsCurrent'
    BY <1>2, <2>1 DEF OneConnection, Live, CandidatesMatch, RosterIsCurrent
  <2>6. SessionsEnded'
    BY <2>1, EndedStays
  <2> QED BY <2>2, <2>3, <2>4, <2>5, <2>6
<1> QED BY <1>1, <1>2

(* A connection is made by a client that has none.                         *)
LEMMA ConnectionMade ==
    ASSUME ClientInv, NewConnection(Join), pc = {}, viewerSession = {},
           call[Leave].step = "idle", on', ~closing',
           UNCHANGED <<viewerSession, roster, pending, open, posted, learned, ended, unheard>>
    PROVE  ClientInv'
<1> USE ClientAssumption DEF ClientInv, Types, Call, NoCall
<1> PICK n \in Conns :
      /\ state[n] = "none" /\ pc' = {n} /\ state' = [state EXCEPT ![n] = "new"]
      /\ call' = [call EXCEPT ![Join] = [step |-> "offer", room |-> {}, conn |-> {n}]]
  BY DEF NewConnection
<1>1. Types' /\ CallsInTurn' /\ ~LoggingOut'
  BY DEF CallsInTurn, LoggingOut
<1>2. UnderNegotiation' /\ Quiet'
  BY DEF UnderNegotiation, Negotiating, LoggingOut, Quiet
<1>3. SessionOfConnection' /\ OfConnection'
  BY <1>1 DEF SessionOfConnection, OfConnection
<1>4. OneConnection' /\ SessionsEnded' /\ CandidatesMatch' /\ RosterIsCurrent'
  BY DEF OneConnection, Live, SessionsEnded, CandidatesMatch, RosterIsCurrent
<1> QED BY <1>1, <1>2, <1>3, <1>4

(* start, called or gone on with, by a client without a connection.        *)
LEMMA StartKeeps ==
    ASSUME ClientInv, NEW room \in SUBSET Rooms, StartIn(Join, room),
           pc = {}, viewerSession = {}, ~LoggingOut, call[Leave].step = "idle", on'
    PROVE  ClientInv'
<1> USE ClientAssumption DEF ClientInv, Types, Call, NoCall
<1>1. /\ ~closing'
      /\ UNCHANGED <<viewerSession, roster, pending, open, posted, learned, ended, unheard>>
  BY DEF StartIn, history
<1>2. \/ Return(Join) /\ UNCHANGED <<pc, state>>
      \/ NewConnection(Join)
      \/ call' = [call EXCEPT ![Join] = [step |-> "mic", room |-> {}, conn |-> {}]] /\ UNCHANGED <<pc, state>>
  BY DEF StartIn
<1>3. ASSUME UNCHANGED <<pc, state>>,
             call' = [call EXCEPT ![Join] = NoCall]
               \/ call' = [call EXCEPT ![Join] = [step |-> "mic", room |-> {}, conn |-> {}]]
      PROVE  ClientInv'
  <2>1. Types' /\ CallsInTurn' /\ call'[Join].step \in {"idle", "mic"}
    BY <1>1, <1>3 DEF CallsInTurn
  <2>2. UnderNegotiation' /\ Quiet' /\ ~LoggingOut'
    BY <1>1, <1>3, <2>1 DEF UnderNegotiation, Negotiating, LoggingOut, Quiet
  <2>3. SessionOfConnection' /\ OfConnection'
    BY <1>1, <1>3, <2>2 DEF SessionOfConnection, OfConnection
  <2>4. OneConnection' /\ SessionsEnded' /\ CandidatesMatch' /\ RosterIsCurrent'
    BY <1>1, <1>3 DEF OneConnection, Live, SessionsEnded, CandidatesMatch, RosterIsCurrent
  <2> QED BY <2>1, <2>2, <2>3, <2>4
<1>4. CASE NewConnection(Join)
  BY <1>1, <1>4, ConnectionMade
<1> QED BY <1>2, <1>3, <1>4 DEF Return

-----------------------------------------------------------------------------
(* The steps of the calls, of the manager and of the callbacks             *)

(* After the logout, with whatever the call was torn down for.             *)
LEMMA LogoutKeeps ==
    ASSUME ClientInv, NEW c \in {Join, Leave}, LoggedOut(c)
    PROVE  ClientInv'
<1> USE ClientAssumption DEF ClientInv, Types, Call, NoCall
<1>1. /\ call[c].step = "logout"
      /\ call' = [call EXCEPT ![c] = IF call[c].room = {} THEN NoCall
                     ELSE [step |-> "start", room |-> call[c].room, conn |-> {}]]
      /\ pc' = {} /\ roster' = {} /\ open' = open \ pc /\ viewerSession' = {}
      /\ state' = [n \in Conns |-> IF n \in pc THEN "closed" ELSE state[n]]
      /\ mic' = (mic /\ c = Join)
      /\ \/ ended' = ended \cup call[c].conn /\ unheard' = unheard
         \/ ended' = ended /\ unheard' = unheard \cup call[c].conn
      /\ UNCHANGED <<closing, pending, on, posted, learned>>
  BY DEF LoggedOut, Close, Continue
<1>2. LoggingOut /\ (c = Join => on)
  BY <1>1 DEF LoggingOut, CallsInTurn
<1>3. Types' /\ CallsInTurn' /\ ~LoggingOut'
  BY <1>1 DEF CallsInTurn, LoggingOut
<1>4. UnderNegotiation' /\ Quiet'
  BY <1>1, <1>2, <1>3 DEF UnderNegotiation, Negotiating, LoggingOut, Quiet, CallsInTurn
<1>5. SessionOfConnection' /\ OfConnection'
  BY <1>1, <1>2, <1>3 DEF SessionOfConnection, OfConnection, LoggingOut
<1>6. OneConnection' /\ CandidatesMatch' /\ RosterIsCurrent'
  BY <1>1, <1>2 DEF OneConnection, Live, CandidatesMatch, RosterIsCurrent
<1>7. SessionsEnded'
  <2>1. viewerSession = call[c].conn /\ (viewerSession # {} => viewerSession = pc)
    BY <1>1 DEF SessionOfConnection
  <2>2. \A n \in pc : state'[n] = "closed"
    BY <1>1
  <2>3. \A n \in Conns : state[n] = "closed" => state'[n] = "closed"
    BY <1>1
  <2>4. CASE ended' = ended \cup call[c].conn /\ unheard' = unheard
    BY <1>1, <2>1, <2>3, <2>4, EndedStays
  <2>5. CASE ended' = ended /\ unheard' = unheard \cup call[c].conn
    BY <1>1, <2>1, <2>2, <2>3, <2>5 DEF SessionsEnded
  <2> QED BY <1>1, <2>4, <2>5
<1> QED BY <1>3, <1>4, <1>5, <1>6, <1>7

(* Posting what is pending, with or without the end of the negotiation.    *)
LEMMA FlushKeeps ==
    ASSUME ClientInv, Flush
    PROVE  CandidatesMatch' /\ pending' \subseteq pending
BY DEF Flush, ClientInv, CandidatesMatch, OfConnection, SessionOfConnection

(* The other steps of start and switchRoom.                                *)
LEMMA CallKeeps ==
    ASSUME ClientInv, CallStep(Join)
    PROVE  ClientInv'
<1> USE ClientAssumption DEF ClientInv, Types, Call, NoCall
<1>1. CASE MicGranted(Join)
  <2>1. UNCHANGED <<viewerSession, closing, roster, pending, open, on, posted, learned, ended, unheard>>
    BY <1>1 DEF MicGranted, history
  <2>2. /\ NewConnection(Join) /\ pc = {} /\ viewerSession = {} /\ ~closing
        /\ call[Leave].step = "idle" /\ on
    BY <1>1 DEF MicGranted, UnderNegotiation, CallsInTurn
  <2> QED BY <2>1, <2>2, ConnectionMade
<1>2. CASE Offered(Join) \/ Rejected(Join)
  <2>1. /\ call[Join].step \in {"mic", "offer", "provision", "answer"}
        /\ \/ call' = [call EXCEPT ![Join] = NoCall]
           \/ call[Join].step = "offer" /\ call' = [call EXCEPT ![Join].step = "provision"]
        /\ UNCHANGED <<pc, viewerSession, closing, mic, roster, pending, state, open, on,
                       posted, learned, ended, unheard>>
    BY <1>2 DEF Offered, Rejected, Return, fields, network, history
  <2>2. Types' /\ CallsInTurn' /\ ~LoggingOut /\ ~LoggingOut'
    BY <2>1 DEF CallsInTurn, LoggingOut
  <2>3. UnderNegotiation' /\ Quiet'
    BY <2>1, <2>2 DEF UnderNegotiation, Negotiating, Quiet
  <2>4. SessionOfConnection' /\ OfConnection'
    BY <2>1, <2>2 DEF SessionOfConnection, OfConnection, LoggingOut
  <2>5. OneConnection' /\ SessionsEnded' /\ CandidatesMatch' /\ RosterIsCurrent'
    BY <2>1 DEF OneConnection, Live, SessionsEnded, CandidatesMatch, RosterIsCurrent
  <2> QED BY <2>2, <2>3, <2>4, <2>5
<1>3. CASE Refused(Join)
  <2>1. on /\ call[Leave].step = "idle"
    BY <1>3 DEF Refused, CallsInTurn
  <2> QED BY <1>3, <2>1, TeardownKeeps DEF Refused
<1>4. CASE Answered(Join)
  <2>1. /\ call[Join].step = "provision" /\ call[Join].conn = pc /\ pc # {}
        /\ viewerSession = {} /\ viewerSession' = pc /\ learned' = learned \cup pc
        /\ call' = [call EXCEPT ![Join].step = "answer"]
        /\ UNCHANGED <<pc, closing, mic, roster, pending, state, open, on, posted, ended, unheard>>
    BY <1>4 DEF Answered, UnderNegotiation, Negotiating, network
  <2>2. Types' /\ CallsInTurn' /\ ~LoggingOut /\ ~LoggingOut' /\ on
    BY <2>1 DEF CallsInTurn, LoggingOut
  <2>3. UnderNegotiation' /\ Quiet'
    BY <2>1, <2>2 DEF UnderNegotiation, Negotiating, Quiet
  <2>4. SessionOfConnection' /\ OfConnection'
    BY <2>1, <2>2 DEF SessionOfConnection, OfConnection, LoggingOut
  <2>5. OneConnection' /\ SessionsEnded' /\ CandidatesMatch' /\ RosterIsCurrent'
    BY <2>1 DEF OneConnection, Live, SessionsEnded, CandidatesMatch, RosterIsCurrent
  <2> QED BY <2>2, <2>3, <2>4, <2>5
<1>5. CASE Negotiated(Join)
  <2>1. /\ call[Join].step = "answer"
        /\ call' = [call EXCEPT ![Join] = NoCall]
        /\ UNCHANGED <<pc, viewerSession, closing, mic, roster, state, open, on, learned, ended, unheard>>
    BY <1>5 DEF Negotiated, Return
  <2>2. Types' /\ CallsInTurn' /\ ~LoggingOut /\ ~LoggingOut'
    BY <2>1 DEF CallsInTurn, LoggingOut
  <2>3. UnderNegotiation' /\ Quiet'
    BY <2>1, <2>2 DEF UnderNegotiation, Negotiating, Quiet
  <2>4. CandidatesMatch' /\ SessionOfConnection' /\ OfConnection'
    BY <1>5, <2>1, <2>2, FlushKeeps DEF Negotiated, SessionOfConnection, OfConnection
  <2>5. OneConnection' /\ SessionsEnded' /\ RosterIsCurrent'
    BY <2>1 DEF OneConnection, Live, SessionsEnded, RosterIsCurrent
  <2> QED BY <2>2, <2>3, <2>4, <2>5
<1> QED BY <1>1, <1>2, <1>3, <1>4, <1>5, LogoutKeeps DEF CallStep

(* What the manager calls when no other call is in progress.               *)
LEMMA ManagerKeeps ==
    ASSUME ~Overlap, ClientInv,
           Restart \/ Stop \/ \E room \in Rooms : Start(room) \/ SwitchRoom(room)
    PROVE  ClientInv'
<1> USE ClientAssumption DEF ClientInv
<1>1. ASSUME NEW room \in Rooms, Start(room) PROVE ClientInv'
  <2>1. /\ pc = {} /\ viewerSession = {} /\ ~LoggingOut /\ call[Leave].step = "idle" /\ on'
        /\ StartIn(Join, {room})
    BY <1>1 DEF Start, Quiet, LoggingOut
  <2> QED BY <2>1, StartKeeps
<1>2. ASSUME NEW room \in Rooms, SwitchRoom(room) PROVE ClientInv'
  <2>1. /\ on /\ on' /\ call[Join].step = "idle" /\ call[Leave].step = "idle"
        /\ Teardown(Join, {room})
    BY <1>2 DEF SwitchRoom, CallsInTurn
  <2> QED BY <2>1, TeardownKeeps
<1>3. CASE Restart
  <2>1. /\ pc = {} /\ viewerSession = {} /\ ~LoggingOut /\ call[Leave].step = "idle" /\ on'
        /\ StartIn(Join, call[Join].room)
    BY <1>3 DEF Restart, UnderNegotiation, LoggingOut, CallsInTurn
  <2>2. call[Join].room \in SUBSET Rooms
    BY DEF Types, Call
  <2> QED BY <2>1, <2>2, StartKeeps
<1>4. CASE Stop
  <2>1. /\ on /\ ~on' /\ call[Join].step = "idle" /\ call[Leave].step = "idle"
        /\ Teardown(Leave, {})
    BY <1>4 DEF Stop
  <2> QED BY <2>1, TeardownKeeps
<1> QED BY <1>1, <1>2, <1>3, <1>4

(* Callbacks, of whichever connection.                                     *)
LEMMA CallbackKeeps ==
    ASSUME ClientInv,
           IceTimer \/ \E n \in Conns :
             \/ Candidate(n) \/ ChannelOpens(n)
             \/ \E s \in {"connected", "lost"} : ConnectionState(n, s)
             \/ \E a \in Agents : RosterMessage(n, a)
    PROVE  ClientInv'
<1> USE DEF ClientInv
<1>1. UNCHANGED <<pc, viewerSession, closing, mic, call, on, learned, ended, unheard>>
  BY DEF IceTimer, Candidate, ChannelOpens, ConnectionState, RosterMessage, fields, network, history
<1>2. CallsInTurn' /\ Quiet' /\ UnderNegotiation' /\ SessionsEnded'
  <2>1. \A n \in Conns : state[n] = "closed" => state'[n] = "closed"
    BY DEF Types, IceTimer, Candidate, ChannelOpens, ConnectionState, RosterMessage, Live, network
  <2>2. SessionsEnded'
    BY <1>1, <2>1, EndedStays DEF Types
  <2> QED BY <1>1, <2>2 DEF CallsInTurn, Quiet, UnderNegotiation, Negotiating, LoggingOut
<1>3. CASE IceTimer
  <2>1. UNCHANGED <<roster, state, open>>
    BY <1>3 DEF IceTimer, network
  <2>2. CandidatesMatch' /\ SessionOfConnection' /\ OfConnection'
    BY <1>1, <1>3, <2>1, FlushKeeps DEF IceTimer, SessionOfConnection, OfConnection, LoggingOut
  <2>3. Types' /\ OneConnection' /\ RosterIsCurrent'
    BY <1>1, <2>1 DEF Types, OneConnection, Live, RosterIsCurrent
  <2> QED BY <1>2, <2>2, <2>3
<1>4. ASSUME NEW n \in Conns, Candidate(n) PROVE ClientInv'
  <2>1. /\ n \in pc /\ ~closing /\ pending' = pending \cup {n}
        /\ UNCHANGED <<roster, state, open, posted>>
    BY <1>4 DEF Candidate, OneConnection, network, history
  <2>2. SessionOfConnection' /\ OfConnection'
    BY <1>1, <2>1 DEF SessionOfConnection, OfConnection, LoggingOut
  <2>3. Types' /\ OneConnection' /\ CandidatesMatch' /\ RosterIsCurrent'
    BY <1>1, <2>1 DEF Types, OneConnection, Live, CandidatesMatch, RosterIsCurrent
  <2> QED BY <1>2, <2>2, <2>3
<1>5. ASSUME NEW n \in Conns, ChannelOpens(n) PROVE ClientInv'
  <2>1. /\ n \in pc /\ open' = open \cup {n}
        /\ UNCHANGED <<pending, roster, state, posted>>
    BY <1>5 DEF ChannelOpens, OneConnection, fields, history
  <2>2. SessionOfConnection' /\ OfConnection'
    BY <1>1, <2>1 DEF SessionOfConnection, OfConnection, LoggingOut
  <2>3. Types' /\ OneConnection' /\ CandidatesMatch' /\ RosterIsCurrent'
    BY <1>1, <2>1 DEF Types, OneConnection, Live, CandidatesMatch, RosterIsCurrent
  <2> QED BY <1>2, <2>2, <2>3
<1>6. ASSUME NEW n \in Conns, NEW s \in {"connected", "lost"}, ConnectionState(n, s)
      PROVE  ClientInv'
  <2>1. /\ n \in pc /\ state' = [state EXCEPT ![n] = s]
        /\ UNCHANGED <<pending, roster, open, posted>>
    BY <1>6 DEF ConnectionState, OneConnection, history
  <2>2. SessionOfConnection' /\ OfConnection'
    BY <1>1, <2>1 DEF SessionOfConnection, OfConnection, LoggingOut
  <2>3. Types' /\ OneConnection' /\ CandidatesMatch' /\ RosterIsCurrent'
    BY <1>1, <2>1 DEF Types, OneConnection, Live, CandidatesMatch, RosterIsCurrent
  <2> QED BY <1>2, <2>2, <2>3
<1>7. ASSUME NEW n \in Conns, NEW a \in Agents, RosterMessage(n, a) PROVE ClientInv'
  <2>1. /\ n \in pc /\ roster' = roster \cup {<<a, n>>}
        /\ UNCHANGED <<pending, state, open, posted>>
    BY <1>7 DEF RosterMessage, OfConnection, network, history
  <2>2. SessionOfConnection' /\ OfConnection'
    BY <1>1, <2>1 DEF SessionOfConnection, OfConnection, LoggingOut
  <2>3. Types' /\ OneConnection' /\ CandidatesMatch' /\ RosterIsCurrent'
    BY <1>1, <2>1 DEF Types, OneConnection, Live, CandidatesMatch, RosterIsCurrent
  <2> QED BY <1>2, <2>2, <2>3
<1> QED BY <1>3, <1>4, <1>5, <1>6, <1>7

(* The invariant, if the manager lets a stop and a start end before it     *)
(* makes the next call.                                                    *)
LEMMA ClientInvariance ==
    ASSUME ~Overlap
    PROVE  Spec => []ClientInv
<1>1. Init => ClientInv
  BY ClientAssumption
  DEF Init, ClientInv, Types, Call, NoCall, CallsInTurn, UnderNegotiation, Negotiating, LoggingOut,
      SessionOfConnection, OneConnection, Live, OfConnection, Quiet, SessionsEnded,
      CandidatesMatch, RosterIsCurrent
<1>2. ClientInv /\ [Next]_vars => ClientInv'
  <2>1. ClientInv /\ UNCHANGED vars => ClientInv'
    BY DEF vars, fields, network, history, ClientInv, Types, CallsInTurn, UnderNegotiation,
           Negotiating, LoggingOut, SessionOfConnection, OneConnection, Live, OfConnection, Quiet,
           SessionsEnded, CandidatesMatch, RosterIsCurrent
  <2> QED BY <2>1, CallKeeps, LogoutKeeps, ManagerKeeps, CallbackKeeps DEF Next
<1> QED BY <1>1, <1>2, PTL DEF Spec

(* No connection is left open by a switch, a refusal, a failure or a       *)
(* retry, and none nor the microphone once voice is switched off           *)
(* (voice_llwebrtc.js:7, 661-713).                                         *)
THEOREM NothingEverOutlives ==
    ASSUME ~Overlap
    PROVE  Spec => []NothingOutlives
<1>1. ClientInv => NothingOutlives
  BY DEF ClientInv, NothingOutlives, Quiet, QuietWhenOff, AtRest
<1> QED BY <1>1, ClientInvariance, PTL

(* A session the client was given is forgotten only when the server was    *)
(* told or, if the logout did not reach it, when the connection is closed  *)
(* (voice_llwebrtc.js:666-703), wherever the negotiation failed.           *)
THEOREM SessionsAlwaysEnded ==
    ASSUME ~Overlap
    PROVE  Spec => []SessionsEnded
<1>1. ClientInv => SessionsEnded
  BY DEF ClientInv
<1> QED BY <1>1, ClientInvariance, PTL

(* One list, one timer and whatever session is current: still every        *)
(* candidate is posted for the connection it is of, and none of a          *)
(* connection in use is taken for a closing one's                          *)
(* (voice_llwebrtc.js:300-346).                                            *)
THEOREM CandidatesAlwaysArrive ==
    ASSUME ~Overlap
    PROVE  Spec => []CandidatesArrive
<1>1. ClientInv => CandidatesArrive
  BY DEF ClientInv, CandidatesArrive, CandidatesTaken, UnderNegotiation, LoggingOut
<1> QED BY <1>1, ClientInvariance, PTL

(* No participant reported by an earlier connection is shown               *)
(* (voice_llwebrtc.js:709).                                                *)
THEOREM RosterAlwaysCurrent ==
    ASSUME ~Overlap
    PROVE  Spec => []RosterIsCurrent
<1>1. ClientInv => RosterIsCurrent
  BY DEF ClientInv
<1> QED BY <1>1, ClientInvariance, PTL

-----------------------------------------------------------------------------
(* ClientMessages: the memory of the position sent last, and its timer     *)

(* A timer, and with it a memory, is only there for a channel that opened  *)
(* and whose teardown has not begun, or was left behind by a late one.     *)
MemoryInv ==
    /\ made \in Nat /\ dc \in {None, made} /\ late \in 0 .. made
    /\ None \notin Positions /\ position \in Positions
    /\ opened \in BOOLEAN /\ awaiting \in BOOLEAN
    /\ timers \in {0, 1}
    /\ opened /\ ~awaiting => timers = 1
    /\ timers = 0 => lastPos = None
    /\ opened \/ awaiting => dc # None /\ dc = made
    /\ ~opened => told = None /\ ~unsent
    /\ ~opened /\ dc # None => late # dc
    /\ timers = 1 /\ ~opened =>
         late # None /\ IF dc = None THEN late = made ELSE ~awaiting /\ dc = late + 1
    /\ timers = 1 /\ opened /\ awaiting => late = dc
    /\ RememberedIsTold

(* One step on the data channel of one connection after the other.         *)
LEMMA MemoryStep ==
    ASSUME MemoryInv, [MessagesNext]_messageVars
    PROVE  MemoryInv'
<1> USE MessagesAssumption DEF MemoryInv, None, RememberedIsTold, Inherits
<1>1. CASE Negotiate
  BY <1>1 DEF Negotiate, posVars, peerVars
<1>2. CASE SessionNamed
  BY <1>2 DEF SessionNamed, posVars, peerVars
<1>3. CASE OnChannelOpen
  BY <1>3 DEF OnChannelOpen, StartPositionUpdates, SendPosition
<1>4. CASE TimerFires
  BY <1>4 DEF TimerFires, SendPosition, connVars
<1>5. CASE TeardownChannel
  <2>1. /\ dc # None /\ ~awaiting /\ timers' = 0 /\ lastPos' = None
        /\ UNCHANGED <<made, late, position>>
    BY <1>5 DEF TeardownChannel
  <2>2. CASE AwaitLogout
    BY <2>1, <2>2 DEF AwaitLogout
  <2>3. CASE CloseChannel
    <3>1. /\ ~opened' /\ ~awaiting' /\ ~unsent'
          /\ opened' \in BOOLEAN /\ awaiting' \in BOOLEAN
      BY <2>3 DEF CloseChannel
    <3>2. dc' = None /\ told' = None
      BY <2>3 DEF CloseChannel
    <3> QED BY <2>1, <3>1, <3>2
  <2> QED BY <1>5, <2>2, <2>3 DEF TeardownChannel
<1>6. CASE ChannelLoggedOut
  BY <1>6 DEF ChannelLoggedOut, CloseChannel
<1>7. ASSUME NEW p \in Positions, Move(p) PROVE MemoryInv'
  BY <1>7 DEF Move, connVars
<1>8. ASSUME NEW a \in Peers, NEW b \in BOOLEAN, SetPeerVolume(a, b) \/ OnMessage(a, b)
      PROVE  MemoryInv'
  <2>1. UNCHANGED connVars /\ UNCHANGED posVars
    BY <1>8, Zenon DEF SetPeerVolume, OnMessage
  <2> QED BY <2>1 DEF connVars, posVars
<1>9. CASE UNCHANGED messageVars
  BY <1>9 DEF messageVars, connVars, posVars
<1> QED BY <1>1, <1>2, <1>3, <1>4, <1>5, <1>6, <1>7, <1>8, <1>9 DEF MessagesNext

(* Memory and timer outlive the channels they serve, and a channel that is *)
(* no longer wanted may open and start both again.  Still a channel in use *)
(* has one timer, and what is remembered it was told, up to a send that    *)
(* threw and a memory left behind (voice_llwebrtc.js:362-371, 496-548).     *)
THEOREM PositionsAlwaysFollow == MessagesSpec => []PositionsFollow
<1>1. MessagesInit => MemoryInv
  <2> SUFFICES ASSUME MessagesInit PROVE MemoryInv
    OBVIOUS
  <2>1. ~opened /\ ~awaiting /\ ~unsent /\ opened \in BOOLEAN /\ awaiting \in BOOLEAN
    BY DEF MessagesInit
  <2>2. /\ made = 0 /\ dc = None /\ late = None /\ timers = 0 /\ lastPos = None /\ told = None
        /\ position \in Positions
    BY DEF MessagesInit
  <2> QED BY <2>1, <2>2, MessagesAssumption DEF MemoryInv, RememberedIsTold, Inherits, None
<1>2. MemoryInv => PositionsFollow
  BY DEF MemoryInv, PositionsFollow, OneTimer
<1> QED BY <1>1, <1>2, MemoryStep, PTL DEF MessagesSpec
=============================================================================
