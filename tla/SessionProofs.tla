--------------------------- MODULE SessionProofs ----------------------------
(***************************************************************************)
(* The parts a session is made of, for any number of sessions, transports  *)
(* and data channels: the port pool, the negotiation and the roster.       *)
(***************************************************************************)
EXTENDS PortPool, Transport, Roster, SequenceTheorems, TLAPS

-----------------------------------------------------------------------------
(* PortPool, for every media range and every width of the counter          *)

(* take returns a port of the range for every value of the counter, below  *)
(* Lo too, where the u16 subtraction wraps.                                *)
LEMMA PortAtInRange ==
    ASSUME NEW n \in 0 .. Width - 1
    PROVE  PortAt(n) \in Lo .. Hi
<1> USE PortAssumption
<1>1. (n - Lo) % Width \in 0 .. Width - 1
  OBVIOUS
<1> DEFINE offset == (n - Lo) % Width
           span == Hi - Lo + 1
<1>2. offset \in Int /\ span \in Nat \ {0}
  BY <1>1
<1> HIDE DEF offset, span
<1>3. offset % span \in 0 .. span - 1
  BY <1>2
<1>4. PortAt(n) = Lo + (offset % span)
  BY DEF PortAt, offset, span, Span
<1> DEFINE m == offset % span
<1>5. m \in 0 .. Hi - Lo
  BY <1>3 DEF span
<1>6. PortAt(n) = Lo + m
  BY <1>4
<1> HIDE DEF m
<1> QED BY <1>5, <1>6

PoolInv == PoolTypeOK /\ InRange

(* One opening or closing keeps every bound port in the range. *)
LEMMA PoolStep ==
    ASSUME PoolInv, [PoolNext]_poolVars
    PROVE  PoolInv'
<1> USE PortAssumption DEF PoolInv, PoolTypeOK, InRange, InUse, Live
<1>1. ASSUME NEW t \in Transports, OpenPort(t) PROVE PoolInv'
  <2>1. (next + 1) % Width \in 0 .. Width - 1
    OBVIOUS
  <2>2. PortAt(next) \in Lo .. Hi
    BY PortAtInRange
  <2>3. Older \in [Transports -> 0 .. MaxAge]
    BY DEF Older
  <2>4. age' \in [Transports -> 0 .. MaxAge]
    BY <1>1, <2>3 DEF OpenPort
  <2>5. next' \in 0 .. Width - 1
    BY <1>1, <2>1 DEF OpenPort
  <2>6. \A u \in Transports : port'[u] \in Nat /\ (port'[u] # 0 => port'[u] \in Lo .. Hi)
    BY <1>1, <2>2 DEF OpenPort
  <2>7. port' \in [Transports -> Nat]
    BY <1>1, <2>2 DEF OpenPort
  <2> QED BY <2>4, <2>5, <2>6, <2>7
<1>2. ASSUME NEW t \in Transports, ClosePort(t) PROVE PoolInv'
  BY <1>2 DEF ClosePort
<1>3. CASE UNCHANGED poolVars
  BY <1>3 DEF poolVars
<1> QED BY <1>1, <1>2, <1>3 DEF PoolNext

(* Every port a transport is bound to is one the firewall lets through     *)
(* (session.rs:56-81), however often the counter has wrapped.              *)
THEOREM PortsAlwaysInRange == PoolSpec => []InRange
<1>1. PoolInit => PoolInv
  BY PortAssumption DEF PoolInit, PoolInv, PoolTypeOK, InRange, InUse, Live
<1>2. PoolInv /\ [PoolNext]_poolVars => PoolInv'
  BY PoolStep
<1>3. PoolInv => InRange
  BY DEF PoolInv
<1> QED BY <1>1, <1>2, <1>3, PTL DEF PoolSpec

(* Quotient and remainder, and that no others divide.                      *)
LEMMA DivMod ==
    ASSUME NEW s \in Nat \ {0}, NEW n \in Int
    PROVE  n \div s \in Int /\ n % s \in 0 .. s - 1 /\ n = s * (n \div s) + (n % s)
OBVIOUS

LEMMA ModUnique ==
    ASSUME NEW s \in Nat \ {0}, NEW q \in Int, NEW r \in 0 .. s - 1
    PROVE  (s * q + r) % s = r
<1> DEFINE n == s * q + r
           p == n \div s
           m == n % s
<1>1. p \in Int /\ m \in 0 .. s - 1 /\ s * q + r = s * p + m
  BY DivMod
<1> HIDE DEF p, m
<1>2. s * (q - p) = m - r /\ q - p \in Int
  BY <1>1
<1>3. CASE q - p >= 1
  <2>1. s * (q - p) >= s
    BY <1>2, <1>3
  <2> QED BY <1>1, <1>2, <2>1
<1>4. CASE q - p <= -1
  <2>1. s * (q - p) <= -s
    BY <1>2, <1>4
  <2> QED BY <1>1, <1>2, <2>1
<1>5. CASE q - p = 0
  BY <1>1, <1>5 DEF m
<1> QED BY <1>2, <1>3, <1>4, <1>5

(* Two numbers less than a whole round apart have different ports.         *)
LEMMA ModDiffers ==
    ASSUME NEW s \in Nat \ {0}, NEW n \in Int, NEW k \in 1 .. s - 1
    PROVE  (n + k) % s # n % s
<1> SUFFICES ASSUME (n + k) % s = n % s PROVE FALSE
  OBVIOUS
<1> DEFINE r == n % s
           p == (n + k) \div s
           q == n \div s
<1>1. r \in 0 .. s - 1 /\ q \in Int /\ p \in Int /\ n = s * q + r /\ n + k = s * p + r
  BY DivMod
<1> HIDE DEF r, p, q
<1>2. k = s * (p - q) + 0 /\ p - q \in Int
  BY <1>1
<1>3. k % s = 0
  BY <1>2, ModUnique
<1>4. k = s * 0 + k /\ k \in 0 .. s - 1
  OBVIOUS
<1>5. k % s = k
  BY <1>4, ModUnique
<1> QED BY <1>3, <1>5

(* Two numbers of one round differ by as much as their remainders.         *)
LEMMA SameRound ==
    ASSUME NEW s \in Nat \ {0}, NEW w \in Int, NEW d \in Int, d <= w, (d % s) + (w - d) < s
    PROVE  w % s = (d % s) + (w - d)
<1> DEFINE q == d \div s
           r == d % s
<1>1. q \in Int /\ d = s * q + r /\ r \in 0 .. s - 1
  BY DivMod
<1> HIDE DEF q, r
<1>2. r + (w - d) < s
  BY DEF r
<1> DEFINE m == r + (w - d)
<1>3. w = s * q + m /\ m \in 0 .. s - 1
  BY <1>1, <1>2
<1> HIDE DEF m
<1>4. w % s = m
  BY <1>1, <1>3, ModUnique
<1> QED BY <1>4 DEF m, r

-----------------------------------------------------------------------------
(* PortPool: when a port comes up again                                    *)

(* How far the counter is from Lo, and where it was k ports ago.           *)
Offset(n) == IF n >= Lo THEN n - Lo ELSE n - Lo + Width
Ago(o, k) == IF o >= k THEN o - k ELSE o - k + Width

LEMMA PortAtOffset ==
    ASSUME NEW n \in 0 .. Width - 1
    PROVE  Offset(n) \in 0 .. Width - 1 /\ PortAt(n) = Lo + (Offset(n) % Span)
<1> USE PortAssumption
<1>1. Offset(n) \in 0 .. Width - 1
  BY DEF Offset
<1>2. n - Lo = Width * (IF n >= Lo THEN 0 ELSE -1) + Offset(n)
  BY DEF Offset
<1>3. (n - Lo) % Width = Offset(n)
  BY <1>1, <1>2, ModUnique
<1> QED BY <1>1, <1>3 DEF PortAt

(* A transport that got its port k ports ago has the port of that time.    *)
AgeIsDistance == \A t \in Live : age[t] < ReuseDistance - 1 =>
    port[t] = Lo + (Ago(Offset(next), age[t] + 1) % Span)

LEMMA DistanceBound == ReuseDistance \in 1 .. Span /\ Span \in Nat \ {0} /\ Span <= Width
<1> USE PortAssumption
<1>1. Span \in Nat \ {0} /\ Span <= Width
  BY DEF Span
<1>2. Width % Span \in 0 .. Span - 1
  BY <1>1, DivMod
<1> QED BY <1>1, <1>2 DEF ReuseDistance

(* One more port handed out.                                               *)
LEMMA CounterStep ==
    ASSUME NEW n \in 0 .. Width - 1
    PROVE  (n + 1) % Width = IF n = Width - 1 THEN 0 ELSE n + 1
<1> USE PortAssumption
<1>1. n + 1 = Width * (IF n = Width - 1 THEN 1 ELSE 0) + (IF n = Width - 1 THEN 0 ELSE n + 1)
  OBVIOUS
<1>2. (IF n = Width - 1 THEN 0 ELSE n + 1) \in 0 .. Width - 1
  OBVIOUS
<1> QED BY <1>1, <1>2, ModUnique

LEMMA OneAgo ==
    ASSUME NEW n \in 0 .. Width - 1
    PROVE  Ago(Offset((n + 1) % Width), 1) = Offset(n)
<1>1. (n + 1) % Width = IF n = Width - 1 THEN 0 ELSE n + 1
  BY CounterStep
<1> QED BY <1>1, PortAssumption DEF Ago, Offset

LEMMA AgoStep ==
    ASSUME NEW n \in 0 .. Width - 1, NEW k \in Nat, k + 2 <= Width
    PROVE  Ago(Offset((n + 1) % Width), k + 2) = Ago(Offset(n), k + 1)
<1>1. (n + 1) % Width = IF n = Width - 1 THEN 0 ELSE n + 1
  BY CounterStep
<1> QED BY <1>1, PortAssumption DEF Ago, Offset

LEMMA DistanceStep ==
    ASSUME PoolInv, AgeIsDistance, [PoolNext]_poolVars
    PROVE  AgeIsDistance'
<1> USE PortAssumption DEF PoolInv, PoolTypeOK
<1>1. ASSUME NEW t \in Transports, OpenPort(t) PROVE AgeIsDistance'
  <2> SUFFICES ASSUME NEW u \in Transports, u \in Live', age'[u] < ReuseDistance - 1
               PROVE  port'[u] = Lo + (Ago(Offset(next'), age'[u] + 1) % Span)
    BY DEF AgeIsDistance, Live
  <2>1. next' = (next + 1) % Width /\ ReuseDistance \in Nat /\ ReuseDistance <= Width
        /\ ReuseDistance - 1 <= MaxAge
    BY <1>1, DistanceBound DEF OpenPort, Span
  <2>2. CASE u = t
    <3>1. port' = [port EXCEPT ![t] = PortAt(next)] /\ age' = [Older EXCEPT ![t] = 0]
      BY <1>1, <2>2 DEF OpenPort, Live
    <3>2. age'[u] = 0 /\ port'[u] = PortAt(next)
      BY <2>2, <3>1 DEF Older
    <3>3. Ago(Offset(next'), 1) = Offset(next)
      BY <2>1, OneAgo
    <3> QED BY <3>2, <3>3, PortAtOffset
  <2>3. CASE u # t
    <3>1. port'[u] = port[u] /\ u \in Live /\ age'[u] = Older[u]
      BY <1>1, <2>3 DEF OpenPort, Live, Older
    <3>2. age'[u] = age[u] + 1 /\ age[u] \in Nat
      BY <2>1, <3>1 DEF Older, Live
    <3>3. age[u] + 2 <= Width /\ age[u] < ReuseDistance - 1
      BY <2>1, <3>2
    <3>4. Ago(Offset(next'), age[u] + 2) = Ago(Offset(next), age[u] + 1)
      BY <2>1, <3>2, <3>3, AgoStep
    <3> QED BY <3>1, <3>2, <3>3, <3>4 DEF AgeIsDistance
  <2> QED BY <2>2, <2>3
<1>2. ASSUME NEW t \in Transports, ClosePort(t) PROVE AgeIsDistance'
  BY <1>2 DEF ClosePort, AgeIsDistance, Live
<1>3. CASE UNCHANGED poolVars
  BY <1>3 DEF poolVars, AgeIsDistance, Live
<1> QED BY <1>1, <1>2, <1>3 DEF PoolNext

(* A port does not come up again before a whole round of the range, or,    *)
(* over the wrap of the counter, what is left of its width after whole     *)
(* rounds (session.rs:76-81): for MAX_SESSIONS below that, the port of a   *)
(* session is handed out again only after as many others.                  *)
THEOREM ReuseAlwaysLate == PoolSpec => []ReuseIsLate
<1>1. PoolInit => AgeIsDistance
  BY PortAssumption DEF PoolInit, AgeIsDistance, Live
<1>2. PoolInv /\ AgeIsDistance => ReuseIsLate
  <2> SUFFICES ASSUME PoolInv, AgeIsDistance, NEW t \in Live, port[t] = PortAt(next),
                      age[t] < ReuseDistance - 1
               PROVE  FALSE
    BY DistanceBound DEF ReuseIsLate, PoolInv, PoolTypeOK, Live
  <2> DEFINE o == Offset(next)
             k == age[t] + 1
  <2>1. /\ next \in 0 .. Width - 1 /\ k \in Nat \ {0} /\ k < ReuseDistance /\ o \in 0 .. Width - 1
        /\ Span \in Nat \ {0} /\ ReuseDistance \in 1 .. Span /\ Span <= Width /\ Width \in Nat
    BY DistanceBound, PortAtOffset, PortAssumption DEF PoolInv, PoolTypeOK, Live
  <2>2. o % Span = Ago(o, k) % Span
    <3>1. Lo + (o % Span) = Lo + (Ago(o, k) % Span)
      BY <2>1, PortAtOffset DEF AgeIsDistance
    <3>2. Ago(o, k) \in Int
      BY <2>1 DEF Ago
    <3>3. o % Span \in Int /\ Ago(o, k) % Span \in Int
      BY <2>1, <3>2, DivMod
    <3> QED BY <3>1, <3>3, PortAssumption
  <2> HIDE DEF o, k
  <2>3. CASE o >= k
    <3>1. o = (o - k) + k /\ o - k \in Int /\ k \in 1 .. Span - 1 /\ Ago(o, k) = o - k
      BY <2>1, <2>3 DEF Ago
    <3>2. ((o - k) + k) % Span # (o - k) % Span
      BY <2>1, <3>1, ModDiffers
    <3> QED BY <2>2, <3>1, <3>2
  <2>4. CASE o < k
    <3> DEFINE d == Ago(o, k)
    <3>1. /\ d \in Int /\ d <= Width /\ o + (Width - d) < Span /\ o + (Width - d) = k
          /\ o \in 0 .. Span - 1 /\ o = Span * 0 + o
      BY <2>1, <2>4 DEF Ago
    <3>2. o % Span = o
      <4>1. o \in Int /\ Span \in Nat \ {0} /\ o = Span * 0 + o /\ o \in 0 .. Span - 1
        BY <2>1, <3>1
      <4> QED BY <4>1, ModUnique
    <3> HIDE DEF d
    <3>3. d % Span = o
      BY <2>2, <3>2 DEF d
    <3>4. Width % Span = o + (Width - d)
      <4>1. Width \in Int /\ Span \in Nat \ {0} /\ (d % Span) + (Width - d) < Span
        BY <2>1, <3>1, <3>3
      <4> QED BY <4>1, <3>1, <3>3, SameRound
    <3> QED BY <2>1, <3>1, <3>4 DEF ReuseDistance
  <2> QED BY <2>1, <2>3, <2>4
<1>3. PoolInit => PoolInv
  BY PortAssumption DEF PoolInit, PoolInv, PoolTypeOK, InRange, InUse, Live
<1> QED BY <1>1, <1>2, <1>3, PoolStep, DistanceStep, PTL DEF PoolSpec

-----------------------------------------------------------------------------
(* Transport: what the answer holds                                        *)

(* The answers the library generates name a codec on every rtpmap line and *)
(* give Opus a payload type, which has 8 bits at most.                     *)
WellWritten(lines) ==
    \A i \in 1 .. Len(lines) : lines[i].rtpmap =>
        lines[i].spaced /\ (Opus(lines[i]) => lines[i].pt < 256)

FirstOpus(lines, i) ==
    /\ i \in 1 .. Len(lines) /\ lines[i].rtpmap /\ Opus(lines[i])
    /\ \A j \in 1 .. i - 1 : ~(lines[j].rtpmap /\ Opus(lines[j]))

(* The number taken from an answer is the one of its first line for Opus.  *)
LEMMA FirstIsNegotiated ==
    ASSUME NEW lines \in Seq(Line), WellWritten(lines), NEW i, FirstOpus(lines, i)
    PROVE  OutPt(lines) = lines[i].pt
<1>1. i \in 1 .. Len(lines) /\ Len(lines) \in Nat
  BY LenProperties DEF FirstOpus
<1> DEFINE taken == {k \in 1 .. Len(lines) :
        /\ lines[k].rtpmap /\ lines[k].spaced /\ Opus(lines[k]) /\ lines[k].pt < 256
        /\ \A j \in 1 .. k - 1 : lines[j].rtpmap => lines[j].spaced /\ ~Opus(lines[j])}
<1>2. i \in taken
  BY <1>1 DEF FirstOpus, WellWritten
<1>3. ASSUME NEW k \in taken PROVE k = i
  <2>1. CASE k < i
    BY <1>1, <2>1 DEF FirstOpus
  <2>2. CASE i < k
    BY <1>1, <1>2, <2>2
  <2> QED BY <1>1, <2>1, <2>2
<1>4. NegotiatedPt(lines) = {lines[i].pt}
  <2>1. NegotiatedPt(lines) = {lines[k].pt : k \in taken}
    BY DEF NegotiatedPt
  <2>2. taken = {i}
    BY <1>2, <1>3
  <2> HIDE DEF taken
  <2> QED BY <2>1, <2>2
<1>5. (CHOOSE n \in {lines[i].pt} : TRUE) = lines[i].pt
  OBVIOUS
<1> QED BY <1>4, <1>5 DEF OutPt

(* Before the timeout only a complete set of candidates is read.           *)
Settled == found = Candidates \/ waited = GatherTimeout

TransportInv ==
    /\ waited \in 0 .. GatherTimeout
    /\ offer \in Offers
    /\ gathered => complete
    /\ complete => found = Candidates
    /\ step \in {"read", "insert"} => Settled
    /\ step = "served" => sent = Candidates \/ waited = GatherTimeout
    /\ step \in {"insert", "served"} => outPt = OutPt(offer)

LEMMA TransportStep ==
    ASSUME TransportInv, [TransportNext]_transportVars
    PROVE  TransportInv'
<1> USE TransportAssumption DEF TransportInv, Settled
<1>1. CASE Build
  BY <1>1 DEF Build, iceVars, answerVars, stateVars
<1>2. CASE Poll
  BY <1>2 DEF Poll, iceVars, stateVars
<1>3. CASE ReadDescription
  BY <1>3 DEF ReadDescription, iceVars, stateVars
<1>4. CASE Answer
  BY <1>4 DEF Answer, iceVars, stateVars
<1>5. ASSUME NEW c \in Candidates, FindCandidate(c) PROVE TransportInv'
  <2>1. found = Candidates => found' = Candidates
    BY <1>5 DEF FindCandidate
  <2> QED BY <1>5, <2>1 DEF FindCandidate, Gathering, answerVars, stateVars
<1>6. CASE EndGathering
  BY <1>6 DEF EndGathering, Gathering, answerVars, stateVars
<1>7. CASE GatheringReported
  BY <1>7 DEF GatheringReported, answerVars, stateVars
<1>8. ASSUME NEW st, StateChange(st) PROVE TransportInv'
  BY <1>8 DEF StateChange, iceVars, answerVars
<1>9. CASE StateReported
  BY <1>9 DEF StateReported, iceVars, answerVars
<1>10. CASE Reap \/ Logout
  BY <1>10 DEF Reap, Logout, iceVars, answerVars, stateVars
<1>11. CASE CloseTransport
  BY <1>11 DEF CloseTransport, iceVars, answerVars
<1>12. CASE UNCHANGED transportVars
  BY <1>12 DEF transportVars, iceVars, answerVars, stateVars
<1> QED BY <1>1, <1>2, <1>3, <1>4, <1>5, <1>6, <1>7, <1>8, <1>9, <1>10, <1>11, <1>12
        DEF TransportNext

(* An answer lacks a candidate only if gathering took the whole timeout    *)
(* (session.rs:404-437), and the voice goes out under the number its first *)
(* line for Opus gives (session.rs:293): for every set of candidates,      *)
(* every timeout and all answers written as the library writes them.       *)
THEOREM AnswerAlwaysRight ==
    ASSUME \A lines \in Offers : WellWritten(lines)
    PROVE  TransportSpec => []AnswerIsRight
<1>1. TransportInit => TransportInv
  BY TransportAssumption DEF TransportInit, TransportInv
<1>2. TransportInv => AnswerIsRight
  <2>1. TransportInv => PartialOnlyLate
    BY DEF TransportInv, PartialOnlyLate
  <2>2. ASSUME TransportInv, step = "served", NEW i \in 1 .. Len(offer), FirstOpus(offer, i)
        PROVE  outPt = offer[i].pt
    <3>1. offer \in Seq(Line) /\ WellWritten(offer) /\ outPt = OutPt(offer)
      BY <2>2, TransportAssumption DEF TransportInv
    <3> QED BY <2>2, <3>1, FirstIsNegotiated
  <2>3. TransportInv => SendsAsAnswered
    BY <2>2 DEF SendsAsAnswered, FirstOpus
  <2> QED BY <2>1, <2>3 DEF AnswerIsRight
<1> QED BY <1>1, <1>2, TransportStep, PTL DEF TransportSpec

-----------------------------------------------------------------------------
(* Roster, for any number of sessions and of data channels on each         *)

OneSessionEach == \A s, t \in Sessions : AgentOf[s] = AgentOf[t] => s = t

-----------------------------------------------------------------------------
(* The slot                                                                *)

SlotInv ==
    /\ slot \in [Sessions -> SUBSET Channels]
    /\ chan \in [Channels -> {"new", "open", "closed", "ended"}]
    /\ \A s \in Sessions : \A c \in slot[s] : Owner[c] = s /\ chan[c] \in {"open", "closed"}

(* Each step that fills a slot or ends a task keeps the two together.      *)
LEMMA SlotStep ==
    ASSUME SlotInv, [RosterNext]_rosterVars
    PROVE  SlotInv'
<1> USE RosterAssumption DEF SlotInv
<1>1. ASSUME NEW c \in Channels, Accept(c) PROVE SlotInv'
  BY <1>1 DEF Accept
<1>2. ASSUME NEW c \in Channels, CloseChannel(c) PROVE SlotInv'
  BY <1>2 DEF CloseChannel
<1>3. ASSUME NEW c \in Channels, PollEnds(c) PROVE SlotInv'
  BY <1>3 DEF PollEnds
<1>4. ASSUME UNCHANGED <<chan, slot>> PROVE SlotInv'
  BY <1>4
<1>5. CASE UNCHANGED rosterVars
  BY <1>4, <1>5 DEF rosterVars, channels
<1> QED BY <1>1, <1>2, <1>3, <1>4, <1>5
        DEF RosterNext, RoomStep, Enter, ApplyJoin, Tick, BuildRoster, Deliver, channels

(* Whatever channels a viewer opens and closes, and however their tasks    *)
(* end, no slot holds a channel whose task has ended (session.rs:143).     *)
THEOREM SlotAlwaysPolled == RosterSpec => []SlotIsPolled
<1>1. RosterInit => SlotInv
  BY DEF RosterInit, SlotInv
<1>2. SlotInv /\ [RosterNext]_rosterVars => SlotInv'
  BY SlotStep
<1>3. SlotInv => SlotIsPolled
  BY DEF SlotInv, SlotIsPolled
<1> QED BY <1>1, <1>2, <1>3, PTL DEF RosterSpec

-----------------------------------------------------------------------------
(* Joins                                                                   *)

Distinct(list) == \A i, k \in 1 .. Len(list) : list[i] = list[k] => i = k

(* An agent a session of which has joined this room as its primary one     *)
Vouched(a) == \E c \in Primary : AgentOf[Owner[c]] = a /\ Owner[c] \in People(members)

Lists ==
    /\ members \in Seq(Sessions) /\ Distinct(members)
    /\ frames \in Seq(Sessions) /\ Distinct(frames)
    /\ People(frames) \subseteq People(members)
    /\ todo \subseteq Sessions
    /\ announced \in [Sessions -> SUBSET Agents] /\ told \in [Sessions -> SUBSET Agents]
    /\ missed \in [Sessions -> SUBSET Agents] /\ listed \in [Sessions -> SUBSET Agents]

Vouching ==
    /\ inbox \subseteq Channels /\ \A c \in inbox : Owner[c] \in People(members)
    /\ primary \subseteq Sessions /\ \A s \in primary : Vouched(AgentOf[s])
    /\ \A o \in outs : /\ o.to \in Sessions /\ DOMAIN o.roster \subseteq Agents
                       /\ \A a \in DOMAIN o.roster : o.roster[a].p => Vouched(a)

JoinInv == Lists /\ Vouching /\ AnnouncedIsTold /\ NeighbourNotListed

(* The people of a list of sessions.                                       *)
LEMMA PeopleIn ==
    ASSUME NEW list \in Seq(Sessions)
    PROVE  /\ DOMAIN list = 1 .. Len(list) /\ Len(list) \in Nat
           /\ People(list) \subseteq Sessions
<1>1. DOMAIN list = 1 .. Len(list) /\ Len(list) \in Nat
  BY LenProperties
<1>2. \A i \in 1 .. Len(list) : list[i] \in Sessions
  BY ElementOfSeq
<1> QED BY <1>1, <1>2 DEF People

(* With one session of each agent, an agent's entry is that of its frame.  *)
LEMMA EntryIsOwn ==
    ASSUME OneSessionEach, frames \in Seq(Sessions), Distinct(frames),
           NEW l \in Sessions, NEW i \in DOMAIN frames, Emits(l, i)
    PROVE  /\ AgentOf[frames[i]] \in DOMAIN RosterFor(l)
           /\ RosterFor(l)[AgentOf[frames[i]]] = EntryOf(l, i)
<1> DEFINE a == AgentOf[frames[i]]
           emitted == {k \in DOMAIN frames : Emits(l, k)}
           mine == {k \in emitted : AgentOf[frames[k]] = a}
<1>1. i \in 1 .. Len(frames) /\ DOMAIN frames = 1 .. Len(frames)
      /\ \A k \in 1 .. Len(frames) : frames[k] \in Sessions
  BY PeopleIn, ElementOfSeq
<1>2. \A k \in mine : k = i
  BY <1>1 DEF OneSessionEach, Distinct
<1>3. mine = {i}
  BY <1>2
<1>4. i \in Int
  BY <1>1
<1>5. Max({i}) = i
  BY <1>4 DEF Max
<1>6. RosterFor(l) = [b \in {AgentOf[frames[k]] : k \in emitted} |->
                        EntryOf(l, Max({k \in emitted : AgentOf[frames[k]] = b}))]
  BY DEF RosterFor
<1>7. a \in {AgentOf[frames[k]] : k \in emitted}
  OBVIOUS
<1>8. RosterFor(l)[a] = EntryOf(l, Max(mine))
  BY <1>6, <1>7
<1> QED BY <1>3, <1>5, <1>6, <1>7, <1>8

(* Every entry of a roster is the entry of a frame.                        *)
LEMMA EntriesAreOfFrames ==
    ASSUME NEW l, NEW a \in DOMAIN RosterFor(l)
    PROVE  \E i \in DOMAIN frames : Emits(l, i) /\ a = AgentOf[frames[i]]
<1>1. DOMAIN RosterFor(l) =
        {AgentOf[frames[k]] : k \in {i \in DOMAIN frames : Emits(l, i)}}
  BY DEF RosterFor
<1> QED BY <1>1

(* Whoever is marked as announced has its join in the same message.        *)
LEMMA BuildKeepsJoins ==
    ASSUME OneSessionEach, JoinInv, NEW l \in Sessions, BuildRoster(l)
    PROVE  JoinInv'
<1> DEFINE new == [to |-> l, roster |-> RosterFor(l)]
<1>1. /\ todo' = todo \ {l} /\ announced' = [announced EXCEPT ![l] = @ \cup AgentsIn(frames)]
      /\ outs' = IF DOMAIN RosterFor(l) = {} THEN outs ELSE outs \cup {new}
      /\ UNCHANGED <<members, channels, level, frames, viewers>>
  BY DEF BuildRoster
<1>2. \A i \in DOMAIN frames : frames[i] \in Sessions /\ AgentOf[frames[i]] \in Agents
  BY PeopleIn, ElementOfSeq, RosterAssumption DEF JoinInv, Lists
<1>3. AgentsIn(frames) \subseteq Agents
  BY <1>2 DEF AgentsIn, People
<1>4. Lists'
  BY <1>1, <1>3 DEF JoinInv, Lists, viewers
<1>5. ASSUME NEW a \in DOMAIN RosterFor(l), RosterFor(l)[a].p PROVE Vouched(a)
  <2>1. PICK i \in DOMAIN frames : Emits(l, i) /\ a = AgentOf[frames[i]]
    BY EntriesAreOfFrames
  <2>2. RosterFor(l)[a] = EntryOf(l, i)
    BY <2>1, EntryIsOwn DEF JoinInv, Lists
  <2>3. EntryOf(l, i).p = (frames[i] \in primary)
    BY DEF EntryOf
  <2>4. frames[i] \in primary
    BY <2>2, <2>3, <1>5
  <2> QED BY <2>1, <2>4 DEF JoinInv, Vouching
<1>6. Vouching'
  <2>1. \A a : Vouched(a)' <=> Vouched(a)
    BY <1>1 DEF Vouched, People
  <2>2. DOMAIN RosterFor(l) \subseteq Agents
    BY <1>2, EntriesAreOfFrames
  <2>3. \A o \in outs' : /\ o.to \in Sessions /\ DOMAIN o.roster \subseteq Agents
                         /\ \A a \in DOMAIN o.roster : o.roster[a].p => Vouched(a)
    BY <1>1, <1>5, <2>2 DEF JoinInv, Vouching
  <2> QED BY <1>1, <2>1, <2>3 DEF JoinInv, Vouching, channels, People
<1>7. ASSUME NEW a \in AgentsIn(frames), a \notin announced[l]
      PROVE  new \in outs' /\ a \in Joins(new.roster)
  <2>1. PICK i \in DOMAIN frames : a = AgentOf[frames[i]]
    BY DEF AgentsIn, People
  <2>2. /\ DOMAIN frames = 1 .. Len(frames)
        /\ \A k \in 1 .. (i - 1) : k \in DOMAIN frames /\ k # i
    BY PeopleIn DEF JoinInv, Lists
  <2>3. Joined(l, i)
    BY <1>2, <1>7, <2>1, <2>2 DEF Joined, JoinInv, Lists, Distinct, OneSessionEach
  <2>4. a \in DOMAIN RosterFor(l) /\ RosterFor(l)[a] = EntryOf(l, i)
    BY <2>1, <2>3, EntryIsOwn DEF Emits, JoinInv, Lists
  <2>5. RosterFor(l)[a].j
    BY <2>3, <2>4 DEF EntryOf
  <2> QED BY <1>1, <2>4, <2>5 DEF Joins
<1>8. AnnouncedIsTold'
  <2> SUFFICES ASSUME NEW m \in Sessions, NEW a \in announced'[m]
               PROVE  a \in told'[m] \cup missed'[m] \/ \E o \in outs' : o.to = m /\ a \in Joins(o.roster)
    BY DEF AnnouncedIsTold, Joins
  <2>1. told' = told /\ missed' = missed /\ outs \subseteq outs'
    BY <1>1 DEF viewers
  <2>2. CASE a \in announced[m]
    BY <2>1, <2>2 DEF JoinInv, AnnouncedIsTold
  <2>3. CASE a \notin announced[m]
    <3>1. m = l /\ a \in AgentsIn(frames)
      BY <1>1, <2>3 DEF JoinInv, Lists
    <3> QED BY <3>1, <2>3, <1>7
  <2> QED BY <2>2, <2>3
<1>9. NeighbourNotListed'
  BY <1>1 DEF JoinInv, NeighbourNotListed, viewers, People
<1> QED BY <1>4, <1>6, <1>8, <1>9 DEF JoinInv

(* A message is sent or discarded, never forgotten.                        *)
LEMMA DeliverKeepsJoins ==
    ASSUME JoinInv, NEW o \in outs, Deliver(o)
    PROVE  JoinInv'
<1>1. /\ outs' = outs \ {o}
      /\ UNCHANGED <<members, channels, level, announced, frames, todo>>
  BY DEF Deliver
<1>2. o.to \in Sessions /\ Joins(o.roster) \subseteq Agents
  BY DEF JoinInv, Vouching, Joins
<1>3. /\ told' = [told EXCEPT ![o.to] = @ \cup Joins(o.roster)] \/ told' = told
      /\ missed' = [missed EXCEPT ![o.to] = @ \cup Joins(o.roster)] \/ missed' = missed
      /\ Joins(o.roster) \subseteq told'[o.to] \cup missed'[o.to]
      /\ \/ listed' = listed
         \/ listed' = [listed EXCEPT ![o.to] =
              @ \cup {a \in Joins(o.roster) : o.roster[a].p \/ ~Spatial}]
  BY <1>2 DEF Deliver, JoinInv, Lists
<1>4. Lists'
  BY <1>1, <1>2, <1>3 DEF JoinInv, Lists
<1>5. \A a : Vouched(a)' <=> Vouched(a)
  BY <1>1 DEF Vouched, People
<1>6. Vouching'
  BY <1>1, <1>5 DEF JoinInv, Vouching, channels, People
<1>7. AnnouncedIsTold'
  <2> SUFFICES ASSUME NEW m \in Sessions, NEW a \in announced[m]
               PROVE  a \in told'[m] \cup missed'[m] \/ \E q \in outs' : q.to = m /\ a \in Joins(q.roster)
    BY <1>1 DEF AnnouncedIsTold, Joins
  <2>1. told[m] \subseteq told'[m] /\ missed[m] \subseteq missed'[m]
    BY <1>2, <1>3 DEF JoinInv, Lists
  <2>2. CASE a \in told[m] \cup missed[m]
    BY <2>1, <2>2
  <2>3. CASE \E q \in outs : q.to = m /\ a \in Joins(q.roster)
    <3>1. PICK q \in outs : q.to = m /\ a \in Joins(q.roster)
      BY <2>3
    <3>2. CASE q = o
      BY <3>1, <3>2, <1>3
    <3>3. CASE q # o
      BY <3>1, <3>3, <1>1
    <3> QED BY <3>2, <3>3
  <2> QED BY <2>2, <2>3 DEF JoinInv, AnnouncedIsTold
<1>8. NeighbourNotListed'
  <2> SUFFICES ASSUME Spatial, NEW m \in Sessions, NEW a \in listed'[m]
               PROVE  Vouched(a)
    BY <1>5 DEF NeighbourNotListed, Vouched
  <2>1. CASE a \in listed[m]
    BY <2>1 DEF JoinInv, NeighbourNotListed, Vouched
  <2>2. CASE a \notin listed[m]
    <3>1. a \in Joins(o.roster) /\ o.roster[a].p
      BY <1>2, <1>3, <2>2 DEF JoinInv, Lists
    <3> QED BY <3>1 DEF JoinInv, Vouching, Joins
  <2> QED BY <2>1, <2>2
<1> QED BY <1>4, <1>6, <1>7, <1>8 DEF JoinInv

(* A newcomer is nobody the list has.                                      *)
LEMMA EnterKeepsJoins ==
    ASSUME JoinInv, NEW s \in Sessions, Enter(s)
    PROVE  JoinInv'
<1>1. /\ s \notin People(members) /\ members' = Append(members, s)
      /\ UNCHANGED <<channels, level, announced, frames, todo, outs, viewers>>
  BY DEF Enter
<1>2. /\ members' \in Seq(Sessions) /\ Len(members') = Len(members) + 1
      /\ \A i \in 1 .. Len(members) : members'[i] = members[i]
      /\ members'[Len(members) + 1] = s
  BY <1>1, AppendProperties DEF JoinInv, Lists
<1>3. /\ DOMAIN members = 1 .. Len(members) /\ DOMAIN members' = 1 .. Len(members')
      /\ Len(members) \in Nat
  BY <1>2, LenProperties DEF JoinInv, Lists
<1>4. \A i \in 1 .. Len(members) : members[i] # s
  BY <1>1, <1>3 DEF People
<1>5. Distinct(members')
  <2> SUFFICES ASSUME NEW i \in 1 .. Len(members) + 1, NEW k \in 1 .. Len(members) + 1,
                      members'[i] = members'[k]
               PROVE  i = k
    BY <1>2 DEF Distinct
  <2>1. CASE i = Len(members) + 1 /\ k # Len(members) + 1
    <3>1. k \in 1 .. Len(members)
      BY <2>1, <1>3
    <3> QED BY <2>1, <3>1, <1>2, <1>4
  <2>2. CASE i # Len(members) + 1 /\ k = Len(members) + 1
    <3>1. i \in 1 .. Len(members)
      BY <2>2, <1>3
    <3> QED BY <2>2, <3>1, <1>2, <1>4
  <2>3. CASE i # Len(members) + 1 /\ k # Len(members) + 1
    <3>1. i \in 1 .. Len(members) /\ k \in 1 .. Len(members)
      BY <2>3, <1>3
    <3> QED BY <3>1, <1>2 DEF JoinInv, Lists, Distinct
  <2> QED BY <2>1, <2>2, <2>3
<1>6. People(members) \subseteq People(members')
  <2> SUFFICES ASSUME NEW i \in 1 .. Len(members)
               PROVE  members[i] \in People(members')
    BY <1>3 DEF People
  <2>1. i \in 1 .. Len(members')
    BY <1>2, <1>3
  <2> QED BY <2>1, <1>2, <1>3 DEF People
<1>7. Lists'
  <2>1. People(frames') = People(frames)
    BY <1>1 DEF People
  <2> QED BY <1>1, <1>2, <1>5, <1>6, <2>1 DEF JoinInv, Lists, viewers, Distinct
<1>8. \A a : Vouched(a) => Vouched(a)'
  BY <1>6 DEF Vouched
<1>9. Vouching'
  BY <1>1, <1>6, <1>8 DEF JoinInv, Vouching, channels
<1>10. AnnouncedIsTold'
  BY <1>1 DEF JoinInv, AnnouncedIsTold, viewers, Joins
<1>11. NeighbourNotListed'
  <2> SUFFICES ASSUME Spatial, NEW m \in Sessions, NEW a \in listed[m]
               PROVE  Vouched(a)'
    BY <1>1 DEF NeighbourNotListed, Vouched, viewers
  <2> QED BY <1>8 DEF JoinInv, NeighbourNotListed, Vouched
<1> QED BY <1>7, <1>9, <1>10, <1>11 DEF JoinInv

(* Only a join message on a primary channel makes a session primary.       *)
LEMMA ChannelKeepsJoins ==
    ASSUME JoinInv, NEW c \in Channels,
           Accept(c) \/ ApplyJoin(c) \/ CloseChannel(c) \/ PollEnds(c)
    PROVE  JoinInv'
<1>1. UNCHANGED <<members, announced, frames, todo, outs, viewers>>
  BY DEF Accept, ApplyJoin, CloseChannel, PollEnds
<1>2. Lists'
  BY <1>1 DEF JoinInv, Lists, viewers
<1>3. AnnouncedIsTold' /\ NeighbourNotListed'
  BY <1>1 DEF JoinInv, AnnouncedIsTold, NeighbourNotListed, viewers, Joins
<1>4. \A a : Vouched(a)' <=> Vouched(a)
  BY <1>1 DEF Vouched, People
<1>5. inbox' \subseteq Channels /\ \A b \in inbox' : Owner[b] \in People(members)
  BY DEF JoinInv, Vouching, Accept, ApplyJoin, CloseChannel, PollEnds
<1>6. primary' \subseteq Sessions /\ \A s \in primary' : Vouched(AgentOf[s])
  <2>1. CASE primary' \subseteq primary
    BY <2>1 DEF JoinInv, Vouching
  <2>2. CASE ApplyJoin(c) /\ c \in Primary
    <3>1. primary' = primary \cup {Owner[c]} /\ Owner[c] \in People(members)
      BY <2>2 DEF ApplyJoin, JoinInv, Vouching
    <3> QED BY <2>2, <3>1, RosterAssumption DEF JoinInv, Vouching, Vouched
  <2> QED BY <2>1, <2>2 DEF Accept, ApplyJoin, CloseChannel, PollEnds
<1>7. Vouching'
  BY <1>1, <1>4, <1>5, <1>6 DEF JoinInv, Vouching, People
<1> QED BY <1>2, <1>3, <1>7 DEF JoinInv

(* A tick takes the list as it is.                                         *)
LEMMA TickKeepsJoins ==
    ASSUME JoinInv, Tick
    PROVE  JoinInv'
<1>1. /\ UNCHANGED <<members, channels, announced, outs, viewers>>
      /\ \/ frames' = frames /\ todo' = todo
         \/ frames' = members /\ todo' = People(members)
  BY DEF Tick
<1>2. People(members) \subseteq Sessions
  BY PeopleIn DEF JoinInv, Lists
<1>3. Lists'
  BY <1>1, <1>2 DEF JoinInv, Lists, viewers
<1>4. Vouching' /\ AnnouncedIsTold' /\ NeighbourNotListed'
  BY <1>1 DEF JoinInv, Vouching, Vouched, AnnouncedIsTold, NeighbourNotListed,
              channels, viewers, People, Joins
<1> QED BY <1>3, <1>4 DEF JoinInv

(* All of it together is inductive.                                        *)
LEMMA JoinInvariance ==
    ASSUME OneSessionEach
    PROVE  RosterSpec => []JoinInv
<1>1. RosterInit => JoinInv
  BY EmptySeq DEF RosterInit, JoinInv, Lists, Vouching, AnnouncedIsTold, NeighbourNotListed,
                  Distinct, People
<1>2. JoinInv /\ [RosterNext]_rosterVars => JoinInv'
  <2> SUFFICES ASSUME JoinInv, [RosterNext]_rosterVars PROVE JoinInv'
    OBVIOUS
  <2>1. CASE UNCHANGED rosterVars
    <3>1. Lists'
      BY <2>1 DEF rosterVars, viewers, JoinInv, Lists
    <3>2. Vouching' /\ AnnouncedIsTold' /\ NeighbourNotListed'
      BY <2>1 DEF rosterVars, channels, viewers, JoinInv, Vouching, Vouched,
                  AnnouncedIsTold, NeighbourNotListed, Joins
    <3> QED BY <3>1, <3>2 DEF JoinInv
  <2>2. CASE RoomStep
    BY <2>2, TickKeepsJoins, BuildKeepsJoins, DeliverKeepsJoins DEF RoomStep
  <2> QED BY <2>1, <2>2, EnterKeepsJoins, ChannelKeepsJoins DEF RosterNext
<1> QED BY <1>1, <1>2, PTL DEF RosterSpec

(* Whoever counts as announced to a listener (room.rs:90) was sent as a    *)
(* join, discarded for want of a channel, or is in a message on its way.   *)
THEOREM AnnouncedAlwaysTold ==
    ASSUME OneSessionEach
    PROVE  RosterSpec => []AnnouncedIsTold
<1>1. JoinInv => AnnouncedIsTold
  BY DEF JoinInv
<1> QED BY <1>1, JoinInvariance, PTL

(* In a spatial room nobody is listed but who joined it as the primary one *)
(* (room.rs:7-9).                                                          *)
THEOREM NeighbourNeverListed ==
    ASSUME OneSessionEach
    PROVE  RosterSpec => []NeighbourNotListed
<1>1. JoinInv => NeighbourNotListed
  BY DEF JoinInv
<1> QED BY <1>1, JoinInvariance, PTL

(* With one session of each agent in a room, what the server takes a       *)
(* viewer to know was sent to it, or discarded, and what the viewer lists  *)
(* is true (room.rs:7-9, 90).                                              *)
THEOREM RosterAlwaysTrue ==
    ASSUME OneSessionEach
    PROVE  RosterSpec => []RosterIsTrue
<1>1. AnnouncedIsTold /\ NeighbourNotListed <=> RosterIsTrue
  BY DEF RosterIsTrue
<1> QED BY <1>1, AnnouncedAlwaysTold, NeighbourNeverListed, PTL
=============================================================================
