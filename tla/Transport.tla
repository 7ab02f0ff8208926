----------------------------- MODULE Transport -----------------------------
(***************************************************************************)
(* One viewer's transport from its offer to its end: establish and its     *)
(* wait for ICE gathering, the answer, the connection states and the       *)
(* reaper.  VoiceService has many sessions and takes all this as a step.   *)
(***************************************************************************)
EXTENDS Integers, Sequences, FiniteSets

CONSTANTS
    Candidates,     \* the candidates gathering will find
    GatherTimeout,  \* GATHER_TIMEOUT in polls of 20 ms
    Preferred,      \* OPUS_PT_PREFERRED
    Offers          \* rtpmap lines of the answers to the offers that may come

(* A line of the answer: "rtpmap" or another one, whether a codec follows  *)
(* the number, the number, and the codec as written.                       *)
Line == [rtpmap : BOOLEAN, spaced : BOOLEAN, pt : Nat, codec : {"opus", "OPUS", "other"}]

ASSUME TransportAssumption ==
    /\ GatherTimeout \in Nat /\ Preferred \in 0 .. 255
    /\ Offers \subseteq Seq(Line)

VARIABLES
    step,       \* where provision is with this session
    offer,      \* the lines the answer to its offer will have
    waited,     \* polls since the local description was set
    found,      \* candidates in the local description
    complete,   \* whether gathering has ended
    gathered,   \* Handler::gathered
    sent,       \* candidates in the answer the viewer was sent
    outPt,      \* Endpoint::out_pt
    state,      \* RTCPeerConnectionState
    reported,   \* the state last reported to the handler
    closed      \* Session::closed

iceVars == <<found, complete, gathered>>
answerVars == <<offer, waited, sent, outPt>>
stateVars == <<state, reported, closed>>
transportVars == <<step, iceVars, answerVars, stateVars>>

TransportTypeOK ==
    /\ step \in {"build", "wait", "read", "insert", "served", "closing", "gone", "failed"}
    /\ offer \in Offers
    /\ waited \in 0 .. GatherTimeout
    /\ found \subseteq Candidates /\ sent \subseteq Candidates
    /\ {complete, gathered, closed} \subseteq BOOLEAN
    /\ outPt \in 0 .. 255
    /\ {state, reported} \subseteq {"new", "connected", "disconnected", "failed", "closed"}

TransportInit ==
    /\ step = "build" /\ offer \in Offers
    /\ waited = 0 /\ found = {} /\ complete = FALSE /\ gathered = FALSE
    /\ sent = {} /\ outPt = Preferred
    /\ state = "new" /\ reported = "new" /\ closed = FALSE

-----------------------------------------------------------------------------
(* Gathering *)

Gathering == step \in {"wait", "read", "insert", "served"} /\ ~complete

FindCandidate(c) ==
    /\ Gathering
    /\ found' = found \cup {c}
    /\ UNCHANGED <<step, complete, gathered, answerVars, stateVars>>

EndGathering ==
    /\ Gathering /\ found = Candidates
    /\ complete' = TRUE
    /\ UNCHANGED <<step, found, gathered, answerVars, stateVars>>

GatheringReported ==
    /\ complete /\ gathered' = TRUE
    /\ UNCHANGED <<step, found, complete, answerVars, stateVars>>

-----------------------------------------------------------------------------
(* establish and the rest of provision *)

(* Everything up to the local description; any of it may fail *)
Build ==
    /\ step = "build"
    /\ step' \in {"wait", "failed"}
    /\ UNCHANGED <<iceVars, answerVars, stateVars>>

(* Fault: the deadline is not looked at. *)
PollForever ==
    /\ step = "wait"
    /\ IF gathered THEN step' = "read" /\ UNCHANGED waited
       ELSE step' = step /\ waited' = IF waited < GatherTimeout THEN waited + 1 ELSE waited
    /\ UNCHANGED <<iceVars, offer, sent, outPt, stateVars>>

(* Fault: one look, no wait. *)
PollOnce ==
    /\ step = "wait"
    /\ step' = "read"
    /\ UNCHANGED <<iceVars, answerVars, stateVars>>

Poll ==
    /\ step = "wait"
    /\ IF gathered \/ waited >= GatherTimeout THEN step' = "read" /\ UNCHANGED waited
       ELSE step' = step /\ waited' = waited + 1
    /\ UNCHANGED <<iceVars, offer, sent, outPt, stateVars>>

Opus(l) == l.codec \in {"opus", "OPUS"}

(* The number of the first line for Opus, if it is one of 8 bits; a line   *)
(* that names no codec ends the search.                                    *)
NegotiatedPt(lines) ==
    {lines[i].pt : i \in {i \in 1 .. Len(lines) :
        /\ lines[i].rtpmap /\ lines[i].spaced /\ Opus(lines[i]) /\ lines[i].pt < 256
        /\ \A j \in 1 .. i - 1 : lines[j].rtpmap => lines[j].spaced /\ ~Opus(lines[j])}}

(* Fault: codec names are compared as they are written. *)
OutPtCased(lines) ==
    IF \E i \in 1 .. Len(lines) : lines[i].codec = "opus" THEN CHOOSE n \in NegotiatedPt(lines) : TRUE
    ELSE Preferred

OutPt(lines) ==
    IF NegotiatedPt(lines) = {} THEN Preferred ELSE CHOOSE n \in NegotiatedPt(lines) : TRUE

ReadDescription ==
    /\ step = "read"
    /\ \/ step' = "insert" /\ outPt' = OutPt(offer)
       \/ step' = "failed" /\ UNCHANGED outPt
    /\ UNCHANGED <<iceVars, offer, waited, sent, stateVars>>

(* answer_sdp reads the description again, and may find none; with one the *)
(* endpoint enters the table                                               *)
Answer ==
    /\ step = "insert"
    /\ \/ step' = "served" /\ sent' = found
       \/ step' = "failed" /\ UNCHANGED sent
    /\ UNCHANGED <<iceVars, offer, waited, outPt, stateVars>>

-----------------------------------------------------------------------------
(* The connection *)

(* Nothing connects before there is an answer to connect to *)
StateChange(st) ==
    /\ step \in {"served", "closing"} /\ reported = state
    /\ \/ state = "new" /\ st \in {"connected", "failed"}
       \/ state = "connected" /\ st = "disconnected"
       \/ state = "disconnected" /\ st \in {"connected", "failed"}
    /\ state' = st
    /\ UNCHANGED <<step, iceVars, answerVars, reported, closed>>

(* Fault: a connection that recovers is open again. *)
StateReportedAnew ==
    /\ reported # state /\ reported' = state
    /\ closed' = (state \in {"disconnected", "failed", "closed"})
    /\ UNCHANGED <<step, iceVars, answerVars, state>>

(* on_connection_state_change *)
StateReported ==
    /\ reported # state /\ reported' = state
    /\ closed' = (closed \/ state \in {"disconnected", "failed", "closed"})
    /\ UNCHANGED <<step, iceVars, answerVars, state>>

(* The mixer loop finds the session marked and drops it; a logout may too *)
Reap ==
    /\ step = "served" /\ closed
    /\ step' = "closing"
    /\ UNCHANGED <<iceVars, answerVars, stateVars>>
Logout ==
    /\ step = "served"
    /\ step' = "closing"
    /\ UNCHANGED <<iceVars, answerVars, stateVars>>

CloseTransport ==
    /\ step = "closing"
    /\ step' = "gone" /\ state' = "closed"
    /\ UNCHANGED <<iceVars, answerVars, reported, closed>>

TransportNext ==
    \/ Build \/ Poll \/ ReadDescription \/ Answer
    \/ \E c \in Candidates : FindCandidate(c)
    \/ EndGathering \/ GatheringReported
    \/ \E st \in {"connected", "disconnected", "failed"} : StateChange(st)
    \/ StateReported \/ Reap \/ Logout \/ CloseTransport

(* The service's tasks and the library's callbacks run; gathering, the     *)
(* network and the viewer need not do anything.                            *)
TransportFairness ==
    /\ WF_transportVars(Poll) /\ WF_transportVars(ReadDescription) /\ WF_transportVars(Answer)
    /\ WF_transportVars(StateReported) /\ WF_transportVars(Reap) /\ WF_transportVars(CloseTransport)

TransportSpec == TransportInit /\ [][TransportNext]_transportVars /\ TransportFairness

-----------------------------------------------------------------------------
(* Properties *)

(* "Our candidate list has to be complete in the SDP answer" (main.rs:44): *)
(* an answer lacks a candidate only if gathering took the whole timeout,   *)
(* whatever the order of its end, its report and the polls                 *)
(* (session.rs:404-437).                                                    *)
PartialOnlyLate == step = "served" /\ sent # Candidates => waited = GatherTimeout

(* An offer is answered or refused even if gathering never ends            *)
(* (session.rs:420-424).                                                    *)
OfferIsSettled == step = "wait" ~> step # "wait"

(* "We must send with the number the viewer expects" (session.rs:293): the *)
(* first number the answer gives to Opus, however it is written.           *)
SendsAsAnswered ==
    step = "served" =>
        \A i \in 1 .. Len(offer) :
            /\ offer[i].rtpmap /\ Opus(offer[i])
            /\ \A j \in 1 .. i - 1 : ~(offer[j].rtpmap /\ Opus(offer[j]))
            => outPt = offer[i].pt

(* What the viewer is answered and sent is what it needs: every candidate  *)
(* the wait could find, and audio under the number of the answer           *)
(* (session.rs:293-475).                                                    *)
AnswerIsRight == PartialOnlyLate /\ SendsAsAnswered

(* Disconnected is final: a connection that was once reported as lost is   *)
(* closed by the service also if it recovers meanwhile, as it no longer    *)
(* counts as open (session.rs:195-202, main.rs:306-316).                    *)
LostIsClosed == reported = "disconnected" ~> state = "closed"
=============================================================================
