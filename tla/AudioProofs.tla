---------------------------- MODULE AudioProofs -----------------------------
(***************************************************************************)
(* Audio on its way from the network to the encoder: the jitter buffer for *)
(* every size of packets and of the queue and every lateness of the        *)
(* network, and the arithmetic of the mix for every range of floats.       *)
(***************************************************************************)
EXTENDS JitterBuffer, MixArithmetic, SequenceTheorems, TLAPS

-----------------------------------------------------------------------------
(* JitterBuffer                                                            *)

Frame == [age : Int, wait : Int]
PerPacket == (PacketUnits + 1) \div 2

-----------------------------------------------------------------------------
(* The operators                                                           *)

(* The length of what is left of n after the first k.                      *)
LEMMA SpanOf ==
    ASSUME NEW n \in Nat, NEW k \in Nat, k <= n
    PROVE  (IF k + 1 <= n THEN n - (k + 1) + 1 ELSE 0) = n - k
OBVIOUS

(* Even and odd alternate.                                                 *)
LEMMA Parity ==
    ASSUME NEW n \in Nat
    PROVE  n % 2 \in {0, 1} /\ (n + 1) % 2 = 1 - (n % 2)
OBVIOUS

(* A count that has reached p starts again.                                *)
LEMMA Wraps ==
    ASSUME NEW p \in Nat \ {0}, NEW n \in 0 .. p
    PROVE  n % p = IF n = p THEN 0 ELSE n
<1>1. CASE n = p
  BY <1>1
<1>2. CASE n < p
  BY <1>2
<1> QED BY <1>1, <1>2

(* The members of a queue are frames.                                      *)
LEMMA FramesOfQueue ==
    ASSUME NEW q \in Seq(Frame), NEW i \in 1 .. Len(q)
    PROVE  q[i] \in Frame /\ q[i].age \in Int /\ q[i].wait \in Int
<1>1. q[i] \in Frame
  BY ElementOfSeq
<1> QED BY <1>1 DEF Frame

(* Time passes for every frame of a queue and every packet alike.          *)
LEMMA QueueAges ==
    ASSUME NEW q \in Seq(Frame), NEW r,
           r = [i \in DOMAIN q |-> [age |-> q[i].age + 1, wait |-> q[i].wait + 1]]
    PROVE  /\ r \in Seq(Frame) /\ Len(r) = Len(q)
           /\ \A i \in 1 .. Len(q) : r[i].age = q[i].age + 1 /\ r[i].wait = q[i].wait + 1
<1>1. DOMAIN q = 1 .. Len(q) /\ Len(q) \in Nat
  BY LenProperties
<1>2. r \in [1 .. Len(q) -> Frame]
  BY <1>1, FramesOfQueue DEF Frame
<1>3. r \in Seq(Frame)
  BY <1>1, <1>2, SeqDef
<1>4. Len(r) = Len(q)
  BY <1>1, <1>2, <1>3, LenProperties
<1> QED BY <1>1, <1>3, <1>4

(* The packets under way grow older together.                              *)
LEMMA NetworkAges ==
    ASSUME NEW q \in Seq(Int), NEW r, r = [i \in DOMAIN q |-> q[i] + 1]
    PROVE  /\ r \in Seq(Int) /\ Len(r) = Len(q)
           /\ \A i \in 1 .. Len(q) : r[i] = q[i] + 1 /\ q[i] \in Int
<1>1. DOMAIN q = 1 .. Len(q) /\ Len(q) \in Nat
  BY LenProperties
<1>2. \A i \in 1 .. Len(q) : q[i] \in Int
  BY ElementOfSeq
<1>3. r \in [1 .. Len(q) -> Int]
  BY <1>1, <1>2
<1>4. r \in Seq(Int)
  BY <1>1, <1>3, SeqDef
<1>5. Len(r) = Len(q)
  BY <1>1, <1>3, <1>4, LenProperties
<1> QED BY <1>1, <1>2, <1>4, <1>5

(* A packet is cut into PerPacket frames, 20 ms apart.                     *)
LEMMA FramesAreCut ==
    ASSUME PacketUnits \in Nat \ {0}, NEW age \in Int
    PROVE  /\ Frames(age) \in Seq(Frame)
           /\ PerPacket \in Nat \ {0}
           /\ Len(Frames(age)) = PerPacket
           /\ \A i \in 1 .. PerPacket :
                Frames(age)[i] = [age |-> age - 2 * (i - 1), wait |-> 0]
<1>1. PerPacket \in Nat \ {0}
  BY DEF PerPacket
<1>2. Frames(age) = [i \in 1 .. PerPacket |-> [age |-> age - 2 * (i - 1), wait |-> 0]]
  BY DEF Frames, PerPacket, FrameUnits
<1>3. Frames(age) \in [1 .. PerPacket -> Frame]
  BY <1>1, <1>2 DEF Frame
<1>4. Frames(age) \in Seq(Frame)
  BY <1>1, <1>3, SeqDef
<1>5. Len(Frames(age)) = PerPacket
  BY <1>1, <1>3, <1>4, LenProperties
<1> QED BY <1>1, <1>2, <1>4, <1>5

Dropped(queue, frames) ==
    IF Len(queue) + Len(frames) > MaxFrames THEN Len(queue) + Len(frames) - MaxFrames ELSE 0

(* Pushing keeps the last MaxFrames of the queue and the new frames.       *)
LEMMA PushKeepsLast ==
    ASSUME MaxFrames \in Nat,
           NEW queue \in Seq(Frame), NEW frames \in Seq(Frame),
           NEW d, d = Dropped(queue, frames)
    PROVE  /\ d \in Nat /\ d <= Len(queue) + Len(frames)
           /\ Len(queue) + Len(frames) - d <= MaxFrames
           /\ Push(queue, frames) \in Seq(Frame)
           /\ Len(Push(queue, frames)) = Len(queue) + Len(frames) - d
           /\ \A i \in 1 .. Len(Push(queue, frames)) : Push(queue, frames)[i] =
                IF i + d <= Len(queue) THEN queue[i + d] ELSE frames[i + d - Len(queue)]
<1> DEFINE all == queue \o frames
           total == Len(queue) + Len(frames)
<1>1. /\ all \in Seq(Frame) /\ Len(all) = total
      /\ \A i \in 1 .. total : all[i] =
           IF i <= Len(queue) THEN queue[i] ELSE frames[i - Len(queue)]
  BY ConcatProperties
<1>2. total \in Nat /\ d \in Nat /\ d <= total /\ total - d <= MaxFrames
  BY LenProperties DEF Dropped
<1>3. \A i \in d + 1 .. total : all[i] \in Frame
  BY <1>1, <1>2, ElementOfSeq
<1>4. Push(queue, frames) = SubSeq(all, d + 1, total)
  BY <1>1, <1>2 DEF Push, Dropped
<1> HIDE DEF all, total
<1>5. /\ SubSeq(all, d + 1, total) \in Seq(Frame)
      /\ Len(SubSeq(all, d + 1, total)) = total - d
      /\ \A i \in 1 .. total - d : SubSeq(all, d + 1, total)[i] = all[i + d]
  <2> DEFINE m == d + 1
  <2>1. m \in Int /\ total \in Int /\ \A i \in m .. total : all[i] \in Frame
    BY <1>2, <1>3
  <2> HIDE DEF m
  <2>2. SubSeq(all, m, total) \in Seq(Frame)
    BY <2>1, SubSeqProperties
  <2>3. Len(SubSeq(all, m, total)) = total - d
    <3>1. Len(SubSeq(all, m, total)) = IF m <= total THEN total - m + 1 ELSE 0
      BY <2>1, SubSeqProperties
    <3>2. (IF m <= total THEN total - m + 1 ELSE 0) = total - d
      BY <1>2, SpanOf DEF m
    <3> QED BY <3>1, <3>2, Zenon
  <2>4. ASSUME NEW i \in 1 .. total - d PROVE SubSeq(all, m, total)[i] = all[i + d]
    <3>1. i \in 1 .. total - m + 1 /\ m + i - 1 = i + d
      BY <1>2 DEF m
    <3>2. SubSeq(all, m, total)[i] = all[m + i - 1]
      BY <2>1, <3>1, SubSeqProperties
    <3> QED BY <3>1, <3>2
  <2> QED BY <2>2, <2>3, <2>4 DEF m
<1>6. \A i \in 1 .. total - d : all[i + d] =
           IF i + d <= Len(queue) THEN queue[i + d] ELSE frames[i + d - Len(queue)]
  BY <1>1, <1>2
<1>7. Len(Push(queue, frames)) = total - d
  BY <1>4, <1>5
<1>8. ASSUME NEW i \in 1 .. total - d
      PROVE  Push(queue, frames)[i] =
               IF i + d <= Len(queue) THEN queue[i + d] ELSE frames[i + d - Len(queue)]
  <2>1. Push(queue, frames)[i] = all[i + d]
    BY <1>4, <1>5
  <2> QED BY <2>1, <1>6
<1>9. Push(queue, frames) \in Seq(Frame)
  BY <1>4, <1>5
<1> QED BY <1>2, <1>7, <1>8, <1>9 DEF total

(* The time within two periods of the sender.                              *)
LEMMA Remainder ==
    ASSUME PacketUnits \in Nat \ {0}, NEW n \in 0 .. Period - 1
    PROVE  n % PacketUnits = IF n < PacketUnits THEN n ELSE n - PacketUnits
<1>1. Period = 2 * PacketUnits
  BY DEF Period, FrameUnits
<1>2. CASE n < PacketUnits
  BY <1>1, <1>2
<1>3. CASE n >= PacketUnits
  BY <1>1, <1>3
<1> QED BY <1>2, <1>3

-----------------------------------------------------------------------------
(* Waiting                                                                 *)

(* How much longer than up to the next tick a frame may have waited        *)
Slack == (now % FrameUnits) + (IF "tick" \in due THEN FrameUnits ELSE 0)

Shape ==
    /\ now \in 0 .. Period - 1
    /\ due \subseteq {"packet", "tick"}
    /\ network \in Seq(Int)
    /\ inbound \in Seq(Frame)
    /\ Len(inbound) <= MaxFrames

(* The frame with MaxFrames - i places behind it will be pushed out or     *)
(* played by the time so many ticks have passed.                           *)
WaitBounded ==
    /\ "tick" \in due => now % FrameUnits = 0
    /\ \A i \in 1 .. Len(inbound) :
         inbound[i].wait <= FrameUnits * (MaxFrames - i) + Slack

WaitInv == Shape /\ WaitBounded

(* Sending a packet does not touch the queue.                              *)
LEMMA EmitKeepsWait ==
    ASSUME PacketUnits \in Nat \ {0}, MaxFrames \in Nat, WaitInv, Emit
    PROVE  WaitInv'
<1>1. network' \in Seq(Int)
  BY AppendProperties DEF Emit, WaitInv, Shape
<1>2. Shape'
  BY <1>1 DEF Emit, WaitInv, Shape
<1>3. Slack' = Slack
  BY DEF Emit, Slack
<1>4. WaitBounded'
  BY <1>3 DEF Emit, WaitInv, WaitBounded
<1> QED BY <1>2, <1>4 DEF WaitInv

(* A new frame has not waited; the others move up or stay.                 *)
LEMMA ReceiveKeepsWait ==
    ASSUME PacketUnits \in Nat \ {0}, MaxFrames \in Nat, WaitInv, Receive
    PROVE  WaitInv'
<1> USE DEF WaitInv, Shape
<1>1. network # << >> /\ Head(network) \in Int /\ network' \in Seq(Int)
  BY HeadTailProperties DEF Receive
<1> DEFINE frames == Frames(Head(network))
           d == Dropped(inbound, frames)
<1>2. /\ frames \in Seq(Frame) /\ Len(frames) \in Nat
      /\ \A i \in 1 .. Len(frames) : frames[i].wait = 0
  <2>1. /\ frames \in Seq(Frame) /\ PerPacket \in Nat /\ Len(frames) = PerPacket
        /\ \A i \in 1 .. PerPacket :
             frames[i] = [age |-> Head(network) - 2 * (i - 1), wait |-> 0]
    BY <1>1, FramesAreCut
  <2> HIDE DEF frames
  <2> QED BY <2>1
<1>3. inbound' = Push(inbound, frames)
  BY DEF Receive
<1> HIDE DEF frames, d
<1>4. /\ d \in Nat /\ Len(inbound) + Len(frames) - d <= MaxFrames
      /\ inbound' \in Seq(Frame)
      /\ Len(inbound') = Len(inbound) + Len(frames) - d
      /\ \A i \in 1 .. Len(inbound') : inbound'[i] =
           IF i + d <= Len(inbound) THEN inbound[i + d] ELSE frames[i + d - Len(inbound)]
  BY <1>2, <1>3, PushKeepsLast DEF d
<1>5. Len(inbound) \in Nat /\ d \in Nat /\ Len(inbound') <= MaxFrames
  BY <1>2, <1>4, LenProperties
<1>6. Slack' = Slack /\ now' = now /\ due' = due /\ Slack \in Nat
  BY DEF Receive, Slack, FrameUnits, Period
<1>7. ASSUME NEW i \in 1 .. Len(inbound')
      PROVE  inbound'[i].wait <= FrameUnits * (MaxFrames - i) + Slack
  <2>1. CASE i + d <= Len(inbound)
    <3>1. i + d \in 1 .. Len(inbound) /\ inbound'[i] = inbound[i + d]
      BY <2>1, <1>4, <1>5
    <3>2. inbound[i + d].wait <= FrameUnits * (MaxFrames - (i + d)) + Slack
      BY <3>1 DEF WaitBounded
    <3>3. inbound[i + d].wait \in Int
      BY <3>1, FramesOfQueue
    <3> QED BY <3>1, <3>2, <3>3, <1>5, <1>6 DEF FrameUnits
  <2>2. CASE i + d > Len(inbound)
    <3>1. i + d - Len(inbound) \in 1 .. Len(frames)
      BY <2>2, <1>2, <1>4, <1>5
    <3>2. inbound'[i] = frames[i + d - Len(inbound)]
      BY <2>2, <1>4, <1>5
    <3>3. inbound'[i].wait = 0
      BY <3>1, <3>2, <1>2
    <3> QED BY <3>3, <1>5, <1>6 DEF FrameUnits
  <2> QED BY <2>1, <2>2, <1>5
<1>8. WaitBounded'
  BY <1>6, <1>7 DEF WaitBounded
<1> QED BY <1>1, <1>4, <1>5, <1>6, <1>8

(* Each tick moves every frame up by one place.                            *)
LEMMA TakeKeepsWait ==
    ASSUME PacketUnits \in Nat \ {0}, MaxFrames \in Nat, WaitInv, Take \/ Drain
    PROVE  WaitInv'
<1> USE DEF WaitInv, Shape
<1>1. /\ "tick" \in due /\ due' = due \ {"tick"} /\ now' = now /\ network' = network
      /\ inbound' = << >> \/ (inbound # << >> /\ inbound' = Tail(inbound))
  BY DEF Take, Drain
<1>2. Slack = FrameUnits /\ Slack' = 0
  BY <1>1 DEF Slack, WaitBounded, FrameUnits
<1>3. CASE inbound' = << >>
  BY <1>1, <1>3 DEF WaitBounded
<1>4. CASE inbound # << >> /\ inbound' = Tail(inbound)
  <2>1. /\ inbound' \in Seq(Frame) /\ Len(inbound') = Len(inbound) - 1
        /\ \A i \in 1 .. Len(inbound') : inbound'[i] = inbound[i + 1]
    BY <1>4, HeadTailProperties
  <2>2. Len(inbound) \in Nat
    BY LenProperties
  <2>3. ASSUME NEW i \in 1 .. Len(inbound')
        PROVE  inbound'[i].wait <= FrameUnits * (MaxFrames - i)
    <3>1. i + 1 \in 1 .. Len(inbound) /\ inbound'[i] = inbound[i + 1]
      BY <2>1, <2>2
    <3>2. inbound[i + 1].wait <= FrameUnits * (MaxFrames - (i + 1)) + FrameUnits
      BY <3>1, <1>2 DEF WaitBounded
    <3>3. inbound[i + 1].wait \in Int
      BY <3>1, FramesOfQueue
    <3> QED BY <3>1, <3>2, <3>3, <2>2 DEF FrameUnits
  <2>4. WaitBounded'
    <3>1. ASSUME NEW i \in 1 .. Len(inbound')
          PROVE  inbound'[i].wait <= FrameUnits * (MaxFrames - i) + Slack'
      <4>1. inbound'[i].wait \in Int
        BY <2>1, FramesOfQueue
      <4> QED BY <4>1, <2>1, <2>2, <2>3, <1>2 DEF FrameUnits
    <3> QED BY <3>1, <1>1 DEF WaitBounded
  <2> QED BY <1>1, <2>1, <2>2, <2>4
<1> QED BY <1>1, <1>3, <1>4

(* A tick falls due every second unit.                                     *)
LEMMA AdvanceSlack ==
    ASSUME PacketUnits \in Nat \ {0}, WaitInv, Advance
    PROVE  /\ now' \in 0 .. Period - 1
           /\ due = {} /\ due' \subseteq {"packet", "tick"}
           /\ "tick" \in due' <=> now' % 2 = 0
           /\ Slack' = Slack + 1
<1> USE DEF WaitInv, Shape
<1>1. /\ now \in Nat /\ now' \in Nat /\ now' \in 0 .. Period - 1
      /\ now' % 2 = (now + 1) % 2
  <2>1. Period = 2 * PacketUnits /\ now' = (now + 1) % Period
    BY DEF Advance, Period, FrameUnits
  <2>2. now' = IF now + 1 = Period THEN 0 ELSE now + 1
    <3>1. Period \in Nat \ {0} /\ now + 1 \in 0 .. Period
      BY <2>1
    <3> QED BY <2>1, <3>1, Wraps
  <2> QED BY <2>1, <2>2
<1>2. due' \subseteq {"packet", "tick"} /\ ("tick" \in due' <=> now' % 2 = 0) /\ due = {}
  BY DEF Advance, DueAt, FrameUnits
<1>3. Slack' = Slack + 1
  <2> HIDE DEF WaitInv, Shape
  <2>1. now % 2 \in {0, 1} /\ now' % 2 = 1 - (now % 2)
    BY <1>1, Parity
  <2>2. CASE now % 2 = 0
    BY <2>1, <2>2, <1>2 DEF Slack, FrameUnits
  <2>3. CASE now % 2 = 1
    BY <2>1, <2>3, <1>2 DEF Slack, FrameUnits
  <2> QED BY <2>1, <2>2, <2>3
<1> QED BY <1>1, <1>2, <1>3

(* All frames wait together.                                               *)
LEMMA AdvanceKeepsWait ==
    ASSUME PacketUnits \in Nat \ {0}, MaxFrames \in Nat, WaitInv, Advance
    PROVE  WaitInv'
<1> USE DEF WaitInv, Shape
<1>1. /\ now' \in 0 .. Period - 1
      /\ due' \subseteq {"packet", "tick"} /\ ("tick" \in due' <=> now' % 2 = 0)
      /\ due = {} /\ Slack' = Slack + 1
  BY AdvanceSlack
<1>3. network' \in Seq(Int)
  BY NetworkAges DEF Advance
<1>4. /\ inbound' \in Seq(Frame) /\ Len(inbound') = Len(inbound)
      /\ \A i \in 1 .. Len(inbound) : inbound'[i].wait = inbound[i].wait + 1
  BY QueueAges DEF Advance
<1>6. ASSUME NEW i \in 1 .. Len(inbound')
      PROVE  inbound'[i].wait <= FrameUnits * (MaxFrames - i) + Slack'
  <2>1. inbound[i].wait \in Int /\ Slack \in Int /\ i \in Int
    BY <1>4, FramesOfQueue DEF Slack, FrameUnits
  <2>2. inbound[i].wait <= FrameUnits * (MaxFrames - i) + Slack
    BY <1>4 DEF WaitBounded
  <2> QED BY <2>1, <2>2, <1>4, <1>1 DEF FrameUnits
<1>7. WaitBounded'
  BY <1>1, <1>6 DEF WaitBounded, FrameUnits
<1> QED BY <1>1, <1>3, <1>4, <1>7

(* No frame waits longer than a full queue takes to play (room.rs:20-23),  *)
(* for every size of the queue and of packets and every lateness.          *)
THEOREM LatencyAlwaysBounded == QueueSpec => []LatencyBounded
<1> USE QueueAssumption
<1>1. QueueInit => WaitInv
  BY EmptySeq DEF QueueInit, WaitInv, Shape, WaitBounded, DueAt, Period, FrameUnits
<1>2. WaitInv /\ [QueueNext]_queueVars => WaitInv'
  <2>1. WaitInv /\ UNCHANGED queueVars => WaitInv'
    BY DEF queueVars, WaitInv, Shape, WaitBounded, Slack
  <2> QED BY <2>1, EmitKeepsWait, ReceiveKeepsWait, TakeKeepsWait, AdvanceKeepsWait DEF QueueNext
<1>3. WaitInv => LatencyBounded
  <2> SUFFICES ASSUME WaitInv, NEW i \in DOMAIN inbound
               PROVE  inbound[i].wait <= FrameUnits * MaxFrames
    BY DEF LatencyBounded
  <2>1. i \in 1 .. Len(inbound) /\ inbound[i].wait \in Int
    BY LenProperties, FramesOfQueue DEF WaitInv, Shape
  <2>2. Slack <= FrameUnits /\ Slack \in Int
    BY DEF WaitInv, Shape, WaitBounded, Slack, FrameUnits
  <2>3. inbound[i].wait <= FrameUnits * (MaxFrames - i) + Slack
    BY <2>1 DEF WaitInv, WaitBounded
  <2> QED BY <2>1, <2>2, <2>3, LenProperties DEF FrameUnits
<1> QED BY <1>1, <1>2, <1>3, PTL DEF QueueSpec

-----------------------------------------------------------------------------
(* Continuity, for a sender of whole frames                                *)

(* How long ago the last packet was sent                                   *)
Since == (now % PacketUnits) + (IF "packet" \in due THEN PacketUnits ELSE 0)

(* Queue, network and what the sender has yet to send are one run of audio *)
QueueRuns == \A i \in 1 .. Len(inbound) - 1 : inbound[i].age - inbound[i + 1].age = 2
NetworkRuns == \A j \in 1 .. Len(network) - 1 : network[j] - network[j + 1] = PacketUnits
NetworkMeetsSender == network # << >> => network[Len(network)] = PacketUnits + Since
QueueMeetsNetwork == inbound # << >> =>
    inbound[Len(inbound)].age = 2 + (IF network = << >> THEN Since ELSE network[1])

Run == QueueRuns /\ NetworkRuns /\ NetworkMeetsSender /\ QueueMeetsNetwork

RunInv == Shape /\ ("packet" \in due => now % PacketUnits = 0) /\ Run

(* What is used of sequences below.                                        *)
LEMMA Lengths ==
    ASSUME NEW S, NEW q \in Seq(S)
    PROVE  /\ Len(q) \in Nat /\ (q = << >> <=> Len(q) = 0)
           /\ \A i \in 1 .. Len(q) : q[i] \in S
BY LenProperties, EmptySeq, ElementOfSeq

IsRun(q) == \A i \in 1 .. Len(q) - 1 : q[i].age - q[i + 1].age = 2

(* The frames of a packet are a run from its age to that of its last part. *)
LEMMA FramesRun ==
    ASSUME PacketUnits \in Nat \ {0}, PacketUnits % 2 = 0, NEW age \in Int
    PROVE  /\ Frames(age) \in Seq(Frame) /\ Len(Frames(age)) \in Nat \ {0}
           /\ IsRun(Frames(age))
           /\ Frames(age)[1].age = age
           /\ Frames(age)[Len(Frames(age))].age = age - PacketUnits + 2
<1> DEFINE f == Frames(age)
<1>1. /\ f \in Seq(Frame) /\ PerPacket \in Nat \ {0} /\ Len(f) = PerPacket
      /\ \A i \in 1 .. PerPacket : f[i] = [age |-> age - 2 * (i - 1), wait |-> 0]
  BY FramesAreCut
<1>2. 2 * PerPacket = PacketUnits
  BY DEF PerPacket
<1> HIDE DEF f
<1>3. \A i \in 1 .. PerPacket : f[i].age = age - 2 * (i - 1)
  BY <1>1
<1>4. ASSUME NEW i \in 1 .. PerPacket - 1 PROVE f[i].age - f[i + 1].age = 2
  <2>1. i \in 1 .. PerPacket /\ i + 1 \in 1 .. PerPacket
    BY <1>1
  <2>2. f[i].age = age - 2 * (i - 1) /\ f[i + 1].age = age - 2 * ((i + 1) - 1)
    BY <2>1, <1>3
  <2> QED BY <2>1, <2>2
<1>5. f[1].age = age
  <2>1. f[1].age = age - 2 * (1 - 1)
    BY <1>1, <1>3
  <2> QED BY <2>1
<1>6. f[PerPacket].age = age - PacketUnits + 2
  <2>1. f[PerPacket].age = age - 2 * (PerPacket - 1)
    BY <1>1, <1>3
  <2> QED BY <2>1, <1>1, <1>2
<1> QED BY <1>1, <1>4, <1>5, <1>6 DEF f, IsRun

(* Pushing what continues the queue gives a run with the same end.         *)
LEMMA PushRuns ==
    ASSUME MaxFrames \in Nat,
           NEW q \in Seq(Frame), NEW f \in Seq(Frame), Len(f) # 0,
           IsRun(q), IsRun(f), Len(q) # 0 => q[Len(q)].age = 2 + f[1].age
    PROVE  /\ IsRun(Push(q, f))
           /\ Len(Push(q, f)) # 0 => Push(q, f)[Len(Push(q, f))].age = f[Len(f)].age
<1> DEFINE d == Dropped(q, f)
           p == Push(q, f)
           At(i) == IF i <= Len(q) THEN q[i] ELSE f[i - Len(q)]
<1>1. /\ d \in Nat /\ d <= Len(q) + Len(f)
      /\ Len(p) = Len(q) + Len(f) - d
      /\ \A i \in 1 .. Len(p) : p[i] = At(i + d)
  BY PushKeepsLast
<1>2. /\ Len(q) \in Nat /\ Len(f) \in Nat
      /\ \A i \in 1 .. Len(f) : f[i].age \in Int
  BY LenProperties, FramesOfQueue
<1> HIDE DEF d, p
<1>3. ASSUME NEW k \in 1 .. Len(q) + Len(f) - 1 PROVE At(k).age - At(k + 1).age = 2
  <2>1. CASE k < Len(q)
    <3>1. k \in 1 .. Len(q) - 1 /\ At(k) = q[k] /\ At(k + 1) = q[k + 1]
      BY <2>1, <1>2
    <3> QED BY <3>1 DEF IsRun
  <2>2. CASE k = Len(q)
    <3>1. k <= Len(q) /\ ~(k + 1 <= Len(q)) /\ (k + 1) - Len(q) = 1 /\ Len(q) # 0
      BY <2>2, <1>2
    <3>2. At(k) = q[Len(q)] /\ At(k + 1) = f[1]
      BY <3>1, <2>2
    <3>3. f[1].age \in Int
      BY <1>2
    <3>4. q[Len(q)].age = 2 + f[1].age
      BY <3>1
    <3> HIDE DEF At
    <3> QED BY <3>2, <3>3, <3>4
  <2>3. CASE k > Len(q)
    <3> DEFINE j == k - Len(q)
    <3>1. j \in 1 .. Len(f) - 1 /\ (k + 1) - Len(q) = j + 1 /\ ~(k <= Len(q)) /\ ~(k + 1 <= Len(q))
      BY <2>3, <1>2
    <3>2. At(k) = f[j] /\ At(k + 1) = f[j + 1]
      BY <3>1
    <3> HIDE DEF j, At
    <3>3. f[j].age - f[j + 1].age = 2
      BY <3>1 DEF IsRun
    <3> QED BY <3>2, <3>3
  <2> QED BY <2>1, <2>2, <2>3, <1>2
<1> HIDE DEF At
<1>4. ASSUME NEW i \in 1 .. Len(p) - 1 PROVE p[i].age - p[i + 1].age = 2
  <2>1. /\ i \in 1 .. Len(p) /\ i + 1 \in 1 .. Len(p)
        /\ i + d \in 1 .. Len(q) + Len(f) - 1 /\ (i + 1) + d = (i + d) + 1
    BY <1>1, <1>2
  <2>2. p[i] = At(i + d) /\ p[i + 1] = At((i + d) + 1)
    BY <2>1, <1>1
  <2> QED BY <2>1, <2>2, <1>3
<1>5. ASSUME Len(p) # 0 PROVE p[Len(p)].age = f[Len(f)].age
  <2>1. Len(p) \in 1 .. Len(p) /\ Len(p) + d = Len(q) + Len(f)
    <3> DEFINE l == Len(p)
    <3>1. l = Len(q) + Len(f) - d /\ l # 0
      BY <1>1, <1>5
    <3> HIDE DEF l
    <3>2. l \in 1 .. l /\ l + d = Len(q) + Len(f)
      BY <3>1, <1>1, <1>2
    <3> QED BY <3>2 DEF l
  <2>2. p[Len(p)] = At(Len(q) + Len(f))
    BY <2>1, <1>1
  <2>3. ~(Len(q) + Len(f) <= Len(q)) /\ Len(q) + Len(f) - Len(q) = Len(f)
    BY <1>2
  <2>4. At(Len(q) + Len(f)) = f[Len(f)]
    BY <2>3 DEF At
  <2> QED BY <2>2, <2>4
<1> QED BY <1>4, <1>5 DEF p, IsRun

(* The time since the last packet is a number.                             *)
LEMMA SinceIsNat ==
    ASSUME PacketUnits \in Nat \ {0}, Shape
    PROVE  Since \in Nat
<1>1. now \in Nat
  BY DEF Shape, Period, FrameUnits
<1>2. now % PacketUnits \in Nat
  BY <1>1
<1> QED BY <1>2 DEF Since

(* A new packet continues what was sent before.                            *)
LEMMA EmitKeepsRun ==
    ASSUME PacketUnits \in Nat \ {0}, MaxFrames \in Nat, RunInv, Emit
    PROVE  RunInv'
<1> USE DEF RunInv, Shape
<1>1. /\ "packet" \in due /\ due' = due \ {"packet"} /\ now' = now
      /\ inbound' = inbound /\ network' = Append(network, PacketUnits)
  BY DEF Emit
<1>2. /\ network' \in Seq(Int) /\ Len(network') = Len(network) + 1
      /\ \A j \in 1 .. Len(network) : network'[j] = network[j]
      /\ network'[Len(network) + 1] = PacketUnits
  BY <1>1, AppendProperties
<1>3. Since = PacketUnits /\ Since' = 0
  BY <1>1 DEF Since
<1>4. Len(network) \in Nat /\ Len(inbound) \in Nat /\ (network = << >> <=> Len(network) = 0)
  BY Lengths
<1>5. QueueRuns'
  BY <1>1 DEF Run, QueueRuns
<1>6. NetworkRuns'
  <2> SUFFICES ASSUME NEW j \in 1 .. Len(network)
               PROVE  network'[j] - network'[j + 1] = PacketUnits
    BY <1>2, <1>4 DEF NetworkRuns
  <2>1. CASE j = Len(network)
    <3>1. network[j] = PacketUnits + PacketUnits
      BY <2>1, <1>3, <1>4 DEF Run, NetworkMeetsSender
    <3> QED BY <2>1, <3>1, <1>2
  <2>2. CASE j < Len(network)
    <3>1. j \in 1 .. Len(network) - 1 /\ j + 1 \in 1 .. Len(network)
      BY <2>2, <1>4
    <3>2. network[j] - network[j + 1] = PacketUnits
      BY <3>1 DEF Run, NetworkRuns
    <3> QED BY <3>1, <3>2, <1>2
  <2> QED BY <2>1, <2>2, <1>4
<1>7. NetworkMeetsSender'
  BY <1>2, <1>3 DEF NetworkMeetsSender
<1>8. QueueMeetsNetwork'
  <2>1. network' # << >>
    BY <1>2, <1>4, Lengths
  <2>2. network'[1] = IF network = << >> THEN PacketUnits ELSE network[1]
    BY <1>2, <1>4
  <2> QED BY <2>1, <2>2, <1>1, <1>3 DEF Run, QueueMeetsNetwork
<1> QED BY <1>1, <1>2, <1>5, <1>6, <1>7, <1>8 DEF Run

(* The oldest packet under way continues the queue.                        *)
LEMMA ReceiveKeepsRun ==
    ASSUME PacketUnits \in Nat \ {0}, PacketUnits % 2 = 0, MaxFrames \in Nat,
           RunInv, Receive
    PROVE  RunInv'
<1> USE DEF RunInv, Shape
<1> DEFINE age == Head(network)
           frames == Frames(age)
           d == Dropped(inbound, frames)
           old == Len(inbound)
<1>1. /\ network # << >> /\ network' = Tail(network) /\ inbound' = Push(inbound, frames)
      /\ now' = now /\ due' = due
  BY DEF Receive
<1>2. /\ age \in Int /\ age = network[1]
      /\ network' \in Seq(Int) /\ Len(network') = Len(network) - 1
      /\ \A j \in 1 .. Len(network') : network'[j] = network[j + 1]
  BY <1>1, HeadTailProperties
<1>3. /\ Len(network) \in Nat \ {0} /\ old \in Nat
      /\ (network' = << >> <=> Len(network) = 1)
      /\ \A j \in 1 .. Len(network) : network[j] \in Int
      /\ (inbound # << >> <=> old # 0)
  <2>1. Len(network) \in Nat /\ Len(network) # 0 /\ \A j \in 1 .. Len(network) : network[j] \in Int
    BY <1>1, Lengths
  <2>2. old \in Nat /\ (inbound # << >> <=> old # 0)
    BY Lengths
  <2>3. network' = << >> <=> Len(network') = 0
    BY <1>2, Lengths
  <2> QED BY <2>1, <2>2, <2>3, <1>2
<1>4. /\ frames \in Seq(Frame) /\ Len(frames) \in Nat \ {0} /\ IsRun(frames)
      /\ frames[1].age = age
      /\ frames[Len(frames)].age = age - PacketUnits + 2
  BY <1>2, FramesRun
<1> HIDE DEF frames, age
<1>5. inbound' \in Seq(Frame) /\ Len(inbound') <= MaxFrames
  <2>1. d \in Nat /\ d <= old + Len(frames) /\ old + Len(frames) - d <= MaxFrames
    BY <1>4, PushKeepsLast
  <2>2. Push(inbound, frames) \in Seq(Frame) /\ Len(Push(inbound, frames)) = old + Len(frames) - d
    BY <1>4, PushKeepsLast
  <2> QED BY <2>1, <2>2, <1>1
<1>6. IsRun(inbound)
  BY DEF Run, QueueRuns, IsRun
<1>7. old # 0 => inbound[old].age = 2 + frames[1].age
  BY <1>1, <1>2, <1>3, <1>4 DEF Run, QueueMeetsNetwork
<1>8. Since' = Since /\ Since \in Nat
  BY <1>1, SinceIsNat DEF Since
<1>9. /\ QueueRuns'
      /\ Len(inbound') # 0 => inbound'[Len(inbound')].age = age - PacketUnits + 2
  <2>1. /\ IsRun(Push(inbound, frames))
        /\ Len(Push(inbound, frames)) # 0 =>
             Push(inbound, frames)[Len(Push(inbound, frames))].age = frames[Len(frames)].age
    BY <1>4, <1>6, <1>7, PushRuns
  <2> QED BY <2>1, <1>1, <1>4 DEF IsRun, QueueRuns
<1>10. NetworkRuns'
  <2> SUFFICES ASSUME NEW j \in 1 .. Len(network') - 1
               PROVE  network'[j] - network'[j + 1] = PacketUnits
    BY DEF NetworkRuns
  <2>1. j + 1 \in 1 .. Len(network) - 1 /\ j \in 1 .. Len(network') /\ j + 1 \in 1 .. Len(network')
    BY <1>2, <1>3
  <2>2. network[j + 1] - network[(j + 1) + 1] = PacketUnits
    BY <2>1 DEF Run, NetworkRuns
  <2> QED BY <2>1, <2>2, <1>2
<1>11. NetworkMeetsSender'
  <2> SUFFICES ASSUME network' # << >>
               PROVE  network'[Len(network')] = PacketUnits + Since
    BY <1>8 DEF NetworkMeetsSender
  <2>1. Len(network') \in 1 .. Len(network') /\ Len(network') + 1 = Len(network)
    BY <1>2, <1>3
  <2>2. network'[Len(network')] = network[Len(network)]
    BY <2>1, <1>2
  <2> QED BY <2>2, <1>1 DEF Run, NetworkMeetsSender
<1>12. QueueMeetsNetwork'
  <2> SUFFICES ASSUME inbound' # << >>
               PROVE  inbound'[Len(inbound')].age =
                        2 + (IF network' = << >> THEN Since ELSE network'[1])
    BY <1>8 DEF QueueMeetsNetwork
  <2>1. inbound'[Len(inbound')].age = age - PacketUnits + 2
    BY <1>5, <1>9, Lengths
  <2>3. CASE network' = << >>
    <3>1. age = PacketUnits + Since
      BY <2>3, <1>1, <1>2, <1>3 DEF Run, NetworkMeetsSender
    <3> QED BY <3>1, <2>1, <2>3, <1>8
  <2>4. CASE network' # << >>
    <3>1. 1 \in 1 .. Len(network) - 1 /\ network'[1] = network[2]
      BY <2>4, <1>2, <1>3
    <3>2. network[1] - network[1 + 1] = PacketUnits
      BY <3>1 DEF Run, NetworkRuns
    <3>3. network[1] \in Int /\ network[2] \in Int
      BY <3>1, <1>3
    <3>4. network'[1] = age - PacketUnits
      BY <3>1, <3>2, <3>3, <1>2
    <3> HIDE DEF Run
    <3>5. age - PacketUnits + 2 = 2 + (age - PacketUnits)
      BY <1>2
    <3> QED BY <3>4, <3>5, <2>1, <2>4
  <2> QED BY <2>3, <2>4
<1> QED BY <1>1, <1>2, <1>5, <1>9, <1>10, <1>11, <1>12 DEF Run

(* Taking from the front leaves the rest of the run.                       *)
LEMMA TakeKeepsRun ==
    ASSUME PacketUnits \in Nat \ {0}, MaxFrames \in Nat, RunInv, Take \/ Drain
    PROVE  RunInv'
<1> USE DEF RunInv, Shape
<1>1. /\ due' = due \ {"tick"} /\ now' = now /\ network' = network
      /\ inbound' = << >> \/ (inbound # << >> /\ inbound' = Tail(inbound))
  BY DEF Take, Drain
<1>2. Since' = Since
  BY <1>1 DEF Since
<1>3. NetworkRuns' /\ NetworkMeetsSender'
  BY <1>1, <1>2 DEF Run, NetworkRuns, NetworkMeetsSender
<1>4. CASE inbound' = << >>
  BY <1>1, <1>3, <1>4, EmptySeq DEF Run, QueueRuns, QueueMeetsNetwork
<1>5. CASE inbound # << >> /\ inbound' = Tail(inbound)
  <2>1. /\ inbound' \in Seq(Frame) /\ Len(inbound') = Len(inbound) - 1
        /\ \A i \in 1 .. Len(inbound') : inbound'[i] = inbound[i + 1]
    BY <1>5, HeadTailProperties
  <2>2. Len(inbound) \in Nat /\ (inbound' = << >> <=> Len(inbound') = 0)
    BY <2>1, Lengths
  <2>3. ASSUME NEW i \in 1 .. Len(inbound') - 1
        PROVE  inbound'[i].age - inbound'[i + 1].age = 2
    <3>1. /\ i + 1 \in 1 .. Len(inbound) - 1
          /\ i \in 1 .. Len(inbound') /\ i + 1 \in 1 .. Len(inbound')
      BY <2>1, <2>2
    <3>2. inbound[i + 1].age - inbound[(i + 1) + 1].age = 2
      BY <3>1 DEF Run, QueueRuns
    <3> QED BY <3>1, <3>2, <2>1
  <2>4. QueueMeetsNetwork'
    <3> SUFFICES ASSUME inbound' # << >>
                 PROVE  inbound'[Len(inbound')].age =
                          2 + (IF network = << >> THEN Since ELSE network[1])
      BY <1>1, <1>2 DEF QueueMeetsNetwork
    <3>1. Len(inbound') \in 1 .. Len(inbound') /\ Len(inbound') + 1 = Len(inbound)
      BY <2>1, <2>2
    <3>2. inbound'[Len(inbound')] = inbound[Len(inbound)]
      BY <3>1, <2>1
    <3> QED BY <3>2, <1>5 DEF Run, QueueMeetsNetwork
  <2> QED BY <1>1, <1>3, <2>1, <2>2, <2>3, <2>4 DEF Run, QueueRuns
<1> QED BY <1>1, <1>4, <1>5

(* The sender goes on capturing.                                           *)
LEMMA AdvanceSince ==
    ASSUME PacketUnits \in Nat \ {0}, RunInv, Advance
    PROVE  /\ now' \in 0 .. Period - 1
           /\ due = {} /\ due' \subseteq {"packet", "tick"}
           /\ "packet" \in due' <=> now' % PacketUnits = 0
           /\ Since \in Nat /\ Since' = Since + 1
<1> USE DEF RunInv, Shape
<1>1. Period = 2 * PacketUnits /\ now \in 0 .. Period - 1 /\ now' = (now + 1) % Period
  BY DEF Advance, Period, FrameUnits
<1>2. now' = IF now + 1 = Period THEN 0 ELSE now + 1
  <2>1. Period \in Nat \ {0} /\ now + 1 \in 0 .. Period
    BY <1>1
  <2> QED BY <2>1, <1>1, Wraps
<1>3. now' \in 0 .. Period - 1
  BY <1>1, <1>2
<1>4. /\ now % PacketUnits = IF now < PacketUnits THEN now ELSE now - PacketUnits
      /\ now' % PacketUnits = IF now' < PacketUnits THEN now' ELSE now' - PacketUnits
  BY <1>1, <1>3, Remainder
<1>5. /\ due = {} /\ due' \subseteq {"packet", "tick"}
      /\ ("packet" \in due' <=> now' % PacketUnits = 0)
  BY DEF Advance, DueAt
<1>6. Since \in Nat /\ Since' = Since + 1
  <2>1. now' % PacketUnits = IF now % PacketUnits = PacketUnits - 1 THEN 0 ELSE (now % PacketUnits) + 1
    BY <1>1, <1>2, <1>3, <1>4
  <2>2. Since = now % PacketUnits
    BY <1>5, <1>4, <1>1 DEF Since
  <2>3. CASE now % PacketUnits = PacketUnits - 1
    <3>1. "packet" \in due' /\ now' % PacketUnits = 0
      BY <2>1, <2>3, <1>5
    <3>2. Since' = 0 + PacketUnits
      BY <3>1 DEF Since
    <3> QED BY <3>2, <2>2, <2>3, SinceIsNat
  <2>4. CASE now % PacketUnits # PacketUnits - 1
    <3>1. now % PacketUnits \in Nat
      BY <1>1, <1>4
    <3>2. now' % PacketUnits = (now % PacketUnits) + 1 /\ "packet" \notin due'
      BY <2>1, <2>4, <3>1, <1>5
    <3>3. Since' = ((now % PacketUnits) + 1) + 0
      BY <3>2 DEF Since
    <3> QED BY <3>1, <3>3, <2>2, SinceIsNat
  <2> QED BY <2>3, <2>4
<1> QED BY <1>3, <1>5, <1>6

(* Everything grows older together.                                        *)
LEMMA AdvanceKeepsRun ==
    ASSUME PacketUnits \in Nat \ {0}, MaxFrames \in Nat, RunInv, Advance
    PROVE  RunInv'
<1> USE DEF RunInv, Shape
<1>6. /\ now' \in 0 .. Period - 1 /\ due' \subseteq {"packet", "tick"}
      /\ "packet" \in due' <=> now' % PacketUnits = 0
      /\ Since \in Nat /\ Since' = Since + 1
  BY AdvanceSince
<1>7. /\ network' \in Seq(Int) /\ Len(network') = Len(network)
      /\ \A j \in 1 .. Len(network) : network'[j] = network[j] + 1 /\ network[j] \in Int
  BY NetworkAges DEF Advance
<1>8. /\ inbound' \in Seq(Frame) /\ Len(inbound') = Len(inbound)
      /\ \A i \in 1 .. Len(inbound) : inbound'[i].age = inbound[i].age + 1
      /\ \A i \in 1 .. Len(inbound) : inbound[i].age \in Int
  BY QueueAges, FramesOfQueue DEF Advance
<1>9. /\ Len(network) \in Nat /\ Len(inbound) \in Nat
      /\ (network = << >> <=> Len(network) = 0) /\ (network' = << >> <=> Len(network) = 0)
      /\ (inbound = << >> <=> Len(inbound) = 0) /\ (inbound' = << >> <=> Len(inbound) = 0)
  <2>1. Len(network) \in Nat /\ (network = << >> <=> Len(network) = 0)
    BY Lengths
  <2>2. Len(inbound) \in Nat /\ (inbound = << >> <=> Len(inbound) = 0)
    BY Lengths
  <2>3. network' = << >> <=> Len(network) = 0
    BY <1>7, Lengths
  <2>4. inbound' = << >> <=> Len(inbound) = 0
    BY <1>8, Lengths
  <2> QED BY <2>1, <2>2, <2>3, <2>4
<1>10. QueueRuns'
  <2> SUFFICES ASSUME NEW i \in 1 .. Len(inbound) - 1
               PROVE  inbound'[i].age - inbound'[i + 1].age = 2
    BY <1>8 DEF QueueRuns
  <2>1. i \in 1 .. Len(inbound) /\ i + 1 \in 1 .. Len(inbound)
    BY <1>9
  <2>2. inbound[i].age - inbound[i + 1].age = 2
    BY DEF Run, QueueRuns
  <2>3. inbound'[i].age = inbound[i].age + 1 /\ inbound'[i + 1].age = inbound[i + 1].age + 1
    BY <2>1, <1>8
  <2>4. inbound[i].age \in Int /\ inbound[i + 1].age \in Int
    BY <2>1, <1>8
  <2> QED BY <2>2, <2>3, <2>4
<1>11. NetworkRuns'
  <2> SUFFICES ASSUME NEW j \in 1 .. Len(network) - 1
               PROVE  network'[j] - network'[j + 1] = PacketUnits
    BY <1>7 DEF NetworkRuns
  <2>1. j \in 1 .. Len(network) /\ j + 1 \in 1 .. Len(network)
    BY <1>9
  <2>2. network[j] - network[j + 1] = PacketUnits
    BY DEF Run, NetworkRuns
  <2> QED BY <2>1, <2>2, <1>7
<1>12. NetworkMeetsSender'
  <2> SUFFICES ASSUME Len(network) # 0
               PROVE  network'[Len(network)] = PacketUnits + (Since + 1)
    BY <1>6, <1>7, <1>9 DEF NetworkMeetsSender
  <2>1. Len(network) \in 1 .. Len(network)
    BY <1>9
  <2>2. network[Len(network)] = PacketUnits + Since
    BY <1>9 DEF Run, NetworkMeetsSender
  <2> QED BY <2>1, <2>2, <1>6, <1>7
<1>13. QueueMeetsNetwork'
  <2> SUFFICES ASSUME Len(inbound) # 0
               PROVE  inbound'[Len(inbound)].age =
                        2 + (IF network' = << >> THEN Since + 1 ELSE network'[1])
    BY <1>6, <1>8, <1>9 DEF QueueMeetsNetwork
  <2>1. inbound'[Len(inbound)].age = inbound[Len(inbound)].age + 1
    BY <1>8, <1>9
  <2>2. inbound[Len(inbound)].age = 2 + (IF network = << >> THEN Since ELSE network[1])
    BY <1>9 DEF Run, QueueMeetsNetwork
  <2>3. CASE Len(network) = 0
    BY <2>1, <2>2, <2>3, <1>6, <1>9
  <2>4. CASE Len(network) # 0
    <3>1. network'[1] = network[1] + 1 /\ network[1] \in Int
      BY <2>4, <1>7, <1>9
    <3> QED BY <2>1, <2>2, <2>4, <3>1, <1>9
  <2> QED BY <2>3, <2>4
<1> QED BY <1>6, <1>7, <1>8, <1>10, <1>11, <1>12, <1>13 DEF Run

(* The queue of a sender of whole frames has neither gap nor repeat        *)
(* (room.rs:145-152), for every size of its packets and every lateness.    *)
THEOREM AudioAlwaysContiguous ==
    ASSUME PacketUnits % 2 = 0
    PROVE  QueueSpec => []Contiguous
<1> USE QueueAssumption
<1>1. QueueInit => RunInv
  BY EmptySeq DEF QueueInit, RunInv, Shape, Run, QueueRuns, NetworkRuns, NetworkMeetsSender,
                  QueueMeetsNetwork, DueAt, Period, FrameUnits
<1>2. RunInv /\ [QueueNext]_queueVars => RunInv'
  <2>1. RunInv /\ UNCHANGED queueVars => RunInv'
    BY DEF queueVars, RunInv, Shape, Run, QueueRuns, NetworkRuns, NetworkMeetsSender,
           QueueMeetsNetwork, Since
  <2> QED BY <2>1, EmitKeepsRun, ReceiveKeepsRun, TakeKeepsRun, AdvanceKeepsRun DEF QueueNext
<1>3. RunInv => Contiguous
  BY DEF RunInv, Run, QueueRuns, Contiguous, FrameUnits
<1> QED BY <1>1, <1>2, <1>3, PTL DEF QueueSpec

-----------------------------------------------------------------------------
(* Loss, for a sender of whole frames                                      *)

(* The age of the audio that continues the queue                           *)
Edge == IF network = << >> THEN Since ELSE network[1]

(* The oldest audio of the queue, which is as old as what continues it and *)
(* the length of the queue make it, is no older than the latest packet     *)
(* made it, up to the next tick; and nothing was lost before a packet was  *)
(* late enough.                                                            *)
OldestBounded == Len(inbound) # 0 => Edge + 2 * Len(inbound) <= latest + PacketUnits + Slack

LossInv ==
    /\ WaitInv /\ RunInv
    /\ latest \in Nat
    /\ \A j \in 1 .. Len(network) : network[j] >= PacketUnits
    /\ OldestBounded
    /\ LossOnlyWhenLate

LEMMA SlackIsSmall ==
    ASSUME WaitInv
    PROVE  Slack \in 0 .. 2
BY DEF WaitInv, Shape, WaitBounded, Slack, FrameUnits

LEMMA EdgeIsNat ==
    ASSUME PacketUnits \in Nat \ {0}, LossInv
    PROVE  /\ Edge \in Nat
           /\ Len(network) \in Nat /\ (network = << >> <=> Len(network) = 0)
           /\ Len(inbound) \in Nat
           /\ \A j \in 1 .. Len(network) : network[j] \in Int
<1> USE DEF LossInv, RunInv, Shape
<1>1. /\ Len(network) \in Nat /\ (network = << >> <=> Len(network) = 0)
      /\ Len(inbound) \in Nat
      /\ \A j \in 1 .. Len(network) : network[j] \in Int
  BY Lengths
<1>2. CASE network = << >>
  BY <1>1, <1>2, SinceIsNat DEF Edge
<1>3. CASE network # << >>
  <2>1. 1 \in 1 .. Len(network)
    BY <1>1, <1>3
  <2>2. network[1] \in Int /\ network[1] >= PacketUnits
    BY <2>1, <1>1
  <2> QED BY <1>1, <1>3, <2>2 DEF Edge
<1> QED BY <1>1, <1>2, <1>3

(* What continues the queue is the same audio when a packet is sent, the   *)
(* packet behind when one has come, and older as time goes on.             *)
LEMMA EmitEdge ==
    ASSUME PacketUnits \in Nat \ {0}, LossInv, Emit
    PROVE  /\ Edge' = Edge
           /\ \A j \in 1 .. Len(network') : network'[j] >= PacketUnits
<1> USE DEF LossInv, RunInv, Shape
<1>1. /\ network' = Append(network, PacketUnits)
      /\ network' \in Seq(Int) /\ Len(network') = Len(network) + 1
      /\ \A j \in 1 .. Len(network) : network'[j] = network[j]
      /\ network'[Len(network) + 1] = PacketUnits
  BY AppendProperties DEF Emit
<1>2. Len(network) \in Nat /\ (network = << >> <=> Len(network) = 0) /\ network' # << >>
  BY <1>1, EdgeIsNat, Lengths
<1>3. Since = PacketUnits
  BY DEF Emit, Since
<1>4. Edge' = Edge
  BY <1>1, <1>2, <1>3 DEF Edge
<1>5. ASSUME NEW j \in 1 .. Len(network') PROVE network'[j] >= PacketUnits
  BY <1>1, <1>2
<1> QED BY <1>4, <1>5

LEMMA ReceiveEdge ==
    ASSUME PacketUnits \in Nat \ {0}, LossInv, Receive
    PROVE  /\ Edge = Head(network) /\ Edge' = Edge - PacketUnits
           /\ \A j \in 1 .. Len(network') : network'[j] >= PacketUnits
<1> USE DEF LossInv, RunInv, Shape
<1>1. /\ network # << >> /\ network' = Tail(network) /\ Head(network) = network[1]
      /\ network' \in Seq(Int) /\ Len(network') = Len(network) - 1
      /\ \A j \in 1 .. Len(network') : network'[j] = network[j + 1]
  BY HeadTailProperties DEF Receive
<1>2. Len(network) \in Nat \ {0} /\ \A j \in 1 .. Len(network) : network[j] \in Int
  BY <1>1, EdgeIsNat
<1>3. network' = << >> <=> Len(network) = 1
  <2>1. network' = << >> <=> Len(network') = 0
    BY <1>1, Lengths
  <2> QED BY <2>1, <1>1, <1>2
<1>4. Since' = Since /\ Since \in Nat
  BY SinceIsNat DEF Since, Receive
<1>5. Edge = network[1]
  BY <1>1 DEF Edge
<1>6. CASE network' = << >>
  <2>1. network[1] = PacketUnits + Since
    BY <1>1, <1>2, <1>3, <1>6 DEF Run, NetworkMeetsSender
  <2>2. Edge' = Since
    BY <1>4, <1>6 DEF Edge
  <2> QED BY <1>1, <1>4, <1>5, <1>6, <2>1, <2>2, Lengths
<1>7. CASE network' # << >>
  <2>1. 1 \in 1 .. Len(network) - 1 /\ 1 \in 1 .. Len(network') /\ 1 + 1 \in 1 .. Len(network)
    BY <1>1, <1>2, <1>3, <1>7
  <2>2. network[1] - network[1 + 1] = PacketUnits
    BY <2>1 DEF Run, NetworkRuns
  <2>3. Edge' = network[1 + 1]
    BY <1>1, <1>7, <2>1 DEF Edge
  <2>4. Edge' = Edge - PacketUnits
    BY <1>2, <1>5, <2>1, <2>2, <2>3
  <2>5. ASSUME NEW j \in 1 .. Len(network') PROVE network'[j] >= PacketUnits
    <3>1. j + 1 \in 1 .. Len(network)
      BY <1>1, <1>2
    <3> QED BY <1>1, <3>1
  <2> QED BY <1>1, <1>5, <2>4, <2>5
<1> QED BY <1>6, <1>7

LEMMA AdvanceEdge ==
    ASSUME PacketUnits \in Nat \ {0}, LossInv, Advance
    PROVE  /\ Edge' = Edge + 1 /\ Slack' = Slack + 1 /\ Len(inbound') = Len(inbound)
           /\ \A j \in 1 .. Len(network') : network'[j] >= PacketUnits
<1> USE DEF LossInv, RunInv, Shape
<1>1. /\ network' \in Seq(Int) /\ Len(network') = Len(network)
      /\ \A j \in 1 .. Len(network) : network'[j] = network[j] + 1 /\ network[j] \in Int
  BY NetworkAges DEF Advance
<1>2. /\ Len(network) \in Nat /\ (network = << >> <=> Len(network) = 0)
      /\ (network' = << >> <=> Len(network) = 0)
  BY <1>1, EdgeIsNat, Lengths
<1>3. Since \in Nat /\ Since' = Since + 1
  BY AdvanceSince
<1>4. Slack' = Slack + 1
  BY AdvanceSlack
<1>5. Len(inbound') = Len(inbound)
  BY QueueAges DEF Advance
<1>6. Edge' = Edge + 1
  <2>1. CASE Len(network) = 0
    BY <2>1, <1>2, <1>3 DEF Edge
  <2>2. CASE Len(network) # 0
    <3>1. 1 \in 1 .. Len(network)
      BY <1>2, <2>2
    <3> QED BY <2>2, <3>1, <1>1, <1>2 DEF Edge
  <2> QED BY <2>1, <2>2
<1>7. ASSUME NEW j \in 1 .. Len(network') PROVE network'[j] >= PacketUnits
  BY <1>1
<1> QED BY <1>4, <1>5, <1>6, <1>7

(* A packet pushes frames out only if the queue was so full, and thus its  *)
(* oldest frame so old, that a packet must have been late.                 *)
LEMMA ReceiveKeepsLoss ==
    ASSUME PacketUnits \in Nat \ {0}, PacketUnits % 2 = 0, MaxFrames \in Nat, LossInv, Receive
    PROVE  latest' \in Nat /\ OldestBounded' /\ LossOnlyWhenLate'
<1> DEFINE age == Head(network)
           frames == Frames(age)
           d == Dropped(inbound, frames)
           old == Len(inbound)
<1>1. Edge \in Nat /\ old \in Nat /\ age = Edge /\ Edge' = Edge - PacketUnits
  BY EdgeIsNat, ReceiveEdge
<1>2. Edge >= PacketUnits
  <2>1. network # << >> /\ age = network[1]
    BY HeadTailProperties DEF Receive, LossInv, RunInv, Shape
  <2>2. 1 \in 1 .. Len(network)
    BY <2>1, EdgeIsNat
  <2> QED BY <2>1, <2>2, <1>1 DEF LossInv
<1>3. /\ frames \in Seq(Frame) /\ PerPacket \in Nat \ {0} /\ Len(frames) = PerPacket
  BY <1>1, FramesAreCut
<1>4. 2 * PerPacket = PacketUnits
  BY DEF PerPacket
<1>5. Len(inbound') = old + PerPacket - d /\ d \in Nat
  <2>1. inbound' = Push(inbound, frames)
    BY DEF Receive
  <2>2. inbound \in Seq(Frame)
    BY DEF LossInv, RunInv, Shape
  <2> QED BY <2>1, <2>2, <1>3, PushKeepsLast
<1>6. lost' = (lost \/ old + PerPacket > MaxFrames)
  BY <1>3 DEF Receive
<1>7. latest' = IF age - PacketUnits > latest THEN age - PacketUnits ELSE latest
  BY DEF Receive
<1>8. Slack' = Slack /\ Slack \in 0 .. 2
  BY SlackIsSmall DEF Receive, Slack, LossInv
<1>9. latest \in Nat /\ (old # 0 => Edge + 2 * old <= latest + PacketUnits + Slack)
  BY DEF LossInv, OldestBounded
<1>10. lost => latest >= 2 * MaxFrames - PacketUnits
  BY DEF LossInv, LossOnlyWhenLate, FrameUnits
<1> HIDE DEF age, frames, d, old
<1>11. latest' \in Nat /\ latest' >= latest /\ latest' + PacketUnits >= Edge
  BY <1>1, <1>2, <1>7, <1>9
<1>12. OldestBounded'
  <2> DEFINE e == Edge
             l == Len(inbound')
             e2 == Edge'
             s == Slack
             la == latest'
  <2>1. e2 = e - PacketUnits /\ l = old + PerPacket - d /\ s \in 0 .. 2 /\ Slack' = s
        /\ e \in Nat /\ old \in Nat /\ d \in Nat /\ PerPacket \in Nat /\ 2 * PerPacket = PacketUnits
        /\ la \in Nat /\ latest \in Nat /\ la >= latest /\ la + PacketUnits >= e
        /\ (old # 0 => e + 2 * old <= latest + PacketUnits + s)
    BY <1>1, <1>3, <1>4, <1>5, <1>8, <1>9, <1>11
  <2> HIDE DEF e, l, e2, s, la
  <2>2. e2 + 2 * l = e + 2 * old - 2 * d
    BY <2>1
  <2>3. old = 0 => e + 2 * old - 2 * d <= la + PacketUnits + s
    BY <2>1
  <2>4. old # 0 => e + 2 * old - 2 * d <= la + PacketUnits + s
    BY <2>1
  <2>5. e2 + 2 * l <= la + PacketUnits + s
    BY <2>2, <2>3, <2>4
  <2> QED BY <2>1, <2>5 DEF OldestBounded, e2, l, la, s
<1>13. old + PerPacket > MaxFrames => latest' >= 2 * MaxFrames - PacketUnits
  <2> DEFINE e == Edge
             s == Slack
             la == latest'
  <2>1. /\ s \in 0 .. 2 /\ e \in Nat /\ e >= PacketUnits /\ old \in Nat
        /\ PerPacket \in Nat /\ 2 * PerPacket = PacketUnits
        /\ la \in Nat /\ latest \in Nat /\ la >= latest
        /\ (old # 0 => e + 2 * old <= latest + PacketUnits + s)
    BY <1>1, <1>2, <1>3, <1>4, <1>8, <1>9, <1>11
  <2> HIDE DEF e, s, la
  <2>2. old + PerPacket > MaxFrames => la >= 2 * MaxFrames - PacketUnits
    BY <2>1
  <2> QED BY <2>2 DEF la
<1>14. LossOnlyWhenLate'
  <2>1. lost \/ old + PerPacket > MaxFrames => latest' >= 2 * MaxFrames - PacketUnits
    BY <1>9, <1>10, <1>11, <1>13
  <2> QED BY <1>6, <2>1 DEF LossOnlyWhenLate, FrameUnits
<1> QED BY <1>11, <1>12, <1>14

(* Each tick takes a frame from a queue that is not empty.                 *)
LEMMA TakeKeepsLoss ==
    ASSUME PacketUnits \in Nat \ {0}, MaxFrames \in Nat, LossInv, Take \/ Drain
    PROVE  OldestBounded'
<1>1. /\ "tick" \in due /\ due' = due \ {"tick"} /\ now' = now /\ network' = network
      /\ latest' = latest
      /\ inbound' = << >> \/ (inbound # << >> /\ inbound' = Tail(inbound))
  BY DEF Take, Drain
<1>2. Slack = 2 /\ Slack' = 0
  BY <1>1 DEF Slack, LossInv, WaitInv, WaitBounded, FrameUnits
<1>3. Edge' = Edge /\ Edge \in Nat
  <2>1. Since' = Since
    BY <1>1 DEF Since
  <2> QED BY <1>1, <2>1, EdgeIsNat DEF Edge
<1>4. CASE inbound' = << >>
  BY <1>4, EmptySeq DEF OldestBounded
<1>5. CASE inbound # << >> /\ inbound' = Tail(inbound)
  <2>1. Len(inbound') = Len(inbound) - 1 /\ Len(inbound) \in Nat /\ Len(inbound) # 0
    BY <1>5, HeadTailProperties, Lengths DEF LossInv, RunInv, Shape
  <2>2. Edge + 2 * Len(inbound) <= latest + PacketUnits + Slack
    BY <2>1 DEF LossInv, OldestBounded
  <2> QED BY <1>1, <1>2, <1>3, <2>1, <2>2 DEF OldestBounded, LossInv
<1> QED BY <1>1, <1>4, <1>5

(* Nothing of a sender of whole frames is dropped until a packet was later *)
(* than the queue can make up for (room.rs:145-152), for every size of its *)
(* packets and of the queue, whatever the network does and whoever leaves. *)
THEOREM LossAlwaysLate ==
    ASSUME PacketUnits % 2 = 0
    PROVE  QueueSpec => []LossOnlyWhenLate
<1> USE QueueAssumption
<1>1. QueueInit => LossInv
  BY EmptySeq DEF QueueInit, LossInv, WaitInv, RunInv, Shape, WaitBounded, Run, QueueRuns,
                  NetworkRuns, NetworkMeetsSender, QueueMeetsNetwork, DueAt, Period, FrameUnits,
                  OldestBounded, LossOnlyWhenLate
<1>2. ASSUME LossInv, [QueueNext]_queueVars PROVE LossInv'
  <2>1. CASE Emit
    <3>1. WaitInv' /\ RunInv'
      BY <1>2, <2>1, EmitKeepsWait, EmitKeepsRun DEF LossInv
    <3>2. Slack' = Slack /\ inbound' = inbound /\ latest' = latest /\ lost' = lost
      BY <2>1 DEF Emit, Slack
    <3> QED BY <1>2, <2>1, <3>1, <3>2, EmitEdge DEF LossInv, OldestBounded, LossOnlyWhenLate
  <2>2. CASE Receive
    <3>1. WaitInv' /\ RunInv'
      BY <1>2, <2>2, ReceiveKeepsWait, ReceiveKeepsRun DEF LossInv
    <3> QED BY <1>2, <2>2, <3>1, ReceiveEdge, ReceiveKeepsLoss DEF LossInv
  <2>3. CASE Take \/ Drain
    <3>1. WaitInv' /\ RunInv'
      BY <1>2, <2>3, TakeKeepsWait, TakeKeepsRun DEF LossInv
    <3>2. network' = network /\ latest' = latest /\ lost' = lost
      BY <2>3 DEF Take, Drain
    <3> QED BY <1>2, <2>3, <3>1, <3>2, TakeKeepsLoss DEF LossInv, LossOnlyWhenLate
  <2>4. CASE Advance
    <3>1. WaitInv' /\ RunInv'
      BY <1>2, <2>4, AdvanceKeepsWait, AdvanceKeepsRun DEF LossInv
    <3>2. latest' = latest /\ lost' = lost
      BY <2>4 DEF Advance
    <3>3. OldestBounded'
      BY <1>2, <2>4, <3>2, AdvanceEdge, EdgeIsNat, SlackIsSmall DEF LossInv, OldestBounded
    <3> QED BY <1>2, <2>4, <3>1, <3>2, <3>3, AdvanceEdge DEF LossInv, LossOnlyWhenLate
  <2>5. CASE UNCHANGED queueVars
    BY <1>2, <2>5 DEF queueVars, LossInv, WaitInv, RunInv, Shape, WaitBounded, Run, QueueRuns,
           NetworkRuns, NetworkMeetsSender, QueueMeetsNetwork, Since, Slack, Edge,
           OldestBounded, LossOnlyWhenLate
  <2> QED BY <1>2, <2>1, <2>2, <2>3, <2>4, <2>5 DEF QueueNext
<1>3. LossInv => LossOnlyWhenLate
  BY DEF LossInv
<1> QED BY <1>1, <1>2, <1>3, PTL DEF QueueSpec

-----------------------------------------------------------------------------
(* MixArithmetic: the tether and full scale                                *)

(* Dividing keeps the order.                                               *)
LEMMA DivMonotone ==
    ASSUME NEW s \in Nat \ {0}, NEW m \in Nat, NEW n \in Nat, m <= n
    PROVE  m \div s \in 0 .. n \div s
<1> DEFINE p == m \div s
           q == n \div s
<1>1. /\ p \in Int /\ s * p <= m /\ m < s * p + s
      /\ q \in Int /\ s * q <= n /\ n < s * q + s
  OBVIOUS
<1> HIDE DEF p, q
<1>3. CASE p < 0
  <2>1. p <= -1
    BY <1>1, <1>3
  <2>2. s * p <= -s
    BY <1>1, <2>1
  <2> QED BY <1>1, <2>2
<1>4. CASE p > q
  <2>1. p = q + 1 + (p - (q + 1)) /\ p - (q + 1) \in Nat
    BY <1>1, <1>4
  <2>2. s * p = s * q + s + s * (p - (q + 1)) /\ s * (p - (q + 1)) >= 0
    BY <1>1, <2>1
  <2> QED BY <1>1, <2>2
<1>5. p \in 0 .. q
  BY <1>1, <1>3, <1>4
<1> QED BY <1>5 DEF p, q

(* The places that can be reported.                                        *)
Places == -(MaxFloat \div PositionScale) .. MaxFloat \div PositionScale

LEMMA ScaledIsPlace ==
    ASSUME NEW raw \in -MaxFloat .. MaxFloat
    PROVE  Scaled(raw) \in Places /\ Scaled(raw) \in Finite
<1> DEFINE top == MaxFloat \div PositionScale
<1>1. MaxFloat \in Nat /\ PositionScale \in Nat \ {0}
  BY ArithmeticAssumption
<1>2. ASSUME NEW m \in 0 .. MaxFloat PROVE m \div PositionScale \in 0 .. top
  BY <1>1, DivMonotone
<1>3. top \in 0 .. MaxFloat
  BY <1>1, <1>2, ArithmeticAssumption
<1> HIDE DEF top
<1>4. Scaled(raw) \in -top .. top
  <2>1. CASE raw < 0
    <3>1. -raw \in 0 .. MaxFloat
      BY <1>1, <2>1
    <3> QED BY <1>2, <1>3, <2>1, <3>1 DEF Scaled
  <2>2. CASE raw >= 0
    BY <1>1, <1>2, <1>3, <2>2 DEF Scaled
  <2> QED BY <2>1, <2>2
<1> QED BY <1>1, <1>3, <1>4 DEF Places, Finite, top

(* The difference of two floats that are finite is not NaN.                *)
LEMMA SubFinite ==
    ASSUME NEW x \in Finite, NEW y \in Finite
    PROVE  Sub(x, y) = Rounded(x - y) /\ Rounded(x - y) \in Finite \cup {Inf, -Inf}
<1>1. MaxFloat \in Nat
  BY ArithmeticAssumption
<1>2. y # NaN /\ -y \in Finite /\ Sub(x, y) = Add(x, -y)
  BY <1>1 DEF Finite, NaN, Sub
<1>3. /\ NaN \notin {x, -y} /\ {x, -y} # {Inf, -Inf} /\ ~IsInf(x) /\ ~IsInf(-y)
      /\ x + (-y) = x - y
  BY <1>1, <1>2 DEF Finite, NaN, Inf, IsInf
<1>4. Add(x, -y) = Rounded(x - y)
  BY <1>3 DEF Add
<1> QED BY <1>1, <1>2, <1>4 DEF Rounded, Finite, Inf

(* A short offset is as long as it is; no offset is of a length that is    *)
(* not a number.                                                           *)
LEMMA LengthOf ==
    ASSUME NEW off \in Finite \cup {Inf, -Inf}
    PROVE  /\ Length(off) \in Nat /\ Length(off) # NaN
           /\ off \in -MaxAudioDist .. MaxAudioDist => Length(off) <= MaxAudioDist
<1>1. MaxFloat \in Nat /\ MaxAudioDist \in Nat /\ MaxAudioDist * MaxAudioDist <= MaxFloat
  BY ArithmeticAssumption
<1> DEFINE sq == Mul(off, off)
<1>2. CASE IsInf(off)
  <2>1. sq = Inf /\ Length(off) = sq
    BY <1>1, <1>2 DEF IsInf, Mul, Inf, NaN, Length
  <2>2. off \notin -MaxAudioDist .. MaxAudioDist
    <3>1. MaxAudioDist <= MaxFloat
      <4>1. MaxAudioDist = 0 \/ MaxAudioDist >= 1
        BY <1>1
      <4>2. CASE MaxAudioDist >= 1
        <5>1. MaxAudioDist * MaxAudioDist >= MaxAudioDist
          BY <1>1, <4>2
        <5> QED BY <1>1, <5>1
      <4> QED BY <1>1, <4>1, <4>2
    <3> QED BY <1>1, <1>2, <3>1 DEF IsInf, Inf
  <2> QED BY <1>1, <2>1, <2>2 DEF Inf, NaN
<1>3. CASE ~IsInf(off)
  <2>1. off \in Finite /\ off \in Int /\ off # NaN
    BY <1>1, <1>3 DEF IsInf, Finite, NaN
  <2>2. sq = Rounded(off * off) /\ off * off \in Int
    BY <1>3, <2>1 DEF Mul
  <2>3. sq \in Int /\ sq # NaN
    BY <1>1, <2>2 DEF Rounded, Inf, NaN
  <2>4. Magnitude(off) \in Nat /\ Magnitude(off) <= MaxFloat
    BY <1>1, <2>1 DEF Magnitude, Finite
  <2>5. Length(off) = IF sq = Inf THEN sq ELSE Magnitude(off)
    BY <2>3 DEF Length
  <2>6. ASSUME off \in -MaxAudioDist .. MaxAudioDist PROVE sq # Inf
    <3>1. off * off <= MaxAudioDist * MaxAudioDist
      <4>1. CASE off >= 0
        BY <1>1, <2>1, <2>6, <4>1
      <4>2. CASE off < 0
        BY <1>1, <2>1, <2>6, <4>2
      <4> QED BY <2>1, <4>1, <4>2
    <3> QED BY <1>1, <2>2, <3>1 DEF Rounded, Inf
  <2> HIDE DEF sq
  <2>7. off \in -MaxAudioDist .. MaxAudioDist => Magnitude(off) <= MaxAudioDist
    BY <1>1, <2>1 DEF Magnitude
  <2> QED BY <1>1, <2>4, <2>5, <2>6, <2>7 DEF Inf, NaN
<1> QED BY <1>2, <1>3

(* The tether holds whatever the ear was set to.                           *)
LEMMA TetherHolds ==
    ASSUME NEW e \in Finite, NEW a \in Places
    PROVE  Tether(e, a) \in Finite /\ Length(Sub(Tether(e, a), a)) <= MaxAudioDist
<1> DEFINE off == Sub(e, a)
           d == Length(off)
           k == IF d = Inf THEN 0 ELSE IF off > 0 THEN MaxAudioDist ELSE -MaxAudioDist
<1>1. /\ MaxFloat \in Nat /\ MaxAudioDist \in Nat
      /\ MaxFloat \div PositionScale \in Nat /\ MaxFloat \div PositionScale + MaxAudioDist <= MaxFloat
  BY DivMonotone, ArithmeticAssumption
<1>2. a \in Finite
  BY <1>1 DEF Places, Finite
<1>3. CASE d <= MaxAudioDist
  BY <1>3 DEF Tether
<1>4. CASE ~(d <= MaxAudioDist)
  <2>1. Tether(e, a) = Add(a, k)
    BY <1>4 DEF Tether
  <2>2. k \in -MaxAudioDist .. MaxAudioDist
    BY <1>1
  <2> HIDE DEF k
  <2>3. a + k \in Finite /\ k \in Finite
    BY <1>1, <2>2 DEF Places, Finite
  <2>4. /\ NaN \notin {a, k} /\ {a, k} # {Inf, -Inf} /\ ~IsInf(a) /\ ~IsInf(k)
    <3>1. \A n \in Finite : n # NaN /\ n # Inf /\ n # -Inf
      BY <1>1 DEF Finite, NaN, Inf
    <3> QED BY <1>2, <2>3, <3>1 DEF IsInf
  <2>5. Add(a, k) = a + k
    BY <1>1, <2>3, <2>4 DEF Add, Rounded, Finite
  <2>6. Sub(a + k, a) = k
    <3>1. Sub(a + k, a) = Rounded((a + k) - a)
      BY <1>2, <2>3, SubFinite
    <3>2. (a + k) - a = k
      BY <1>1, <2>2 DEF Places
    <3> QED BY <1>1, <2>3, <3>1, <3>2 DEF Rounded, Finite
  <2> QED BY <2>1, <2>2, <2>3, <2>5, <2>6, LengthOf
<1> QED BY <1>3, <1>4

-----------------------------------------------------------------------------
(* The behaviours                                                          *)

ArithmeticInv ==
    /\ speaker \in Finite /\ avatar \in Places /\ ear \in Finite
    /\ sample \in Int
    /\ "listener" \in known => Length(Sub(ear, avatar)) <= MaxAudioDist

LEMMA ArithmeticStep ==
    ASSUME ArithmeticInv, [ArithmeticNext]_arithmeticVars
    PROVE  ArithmeticInv'
<1> USE DEF ArithmeticInv
<1>1. ASSUME NEW raw \in RawPlaces, MoveSpeaker(raw) PROVE ArithmeticInv'
  <2>1. Scaled(raw) \in Finite
    BY ScaledIsPlace, ArithmeticAssumption
  <2> QED BY <1>1, <2>1 DEF MoveSpeaker
<1>2. ASSUME NEW raw \in RawPlaces, MoveListener(raw) PROVE ArithmeticInv'
  <2>1. Scaled(raw) \in Places
    BY ScaledIsPlace, ArithmeticAssumption
  <2> QED BY <1>2, <2>1, TetherHolds DEF MoveListener
<1>3. ASSUME NEW raw \in RawPlaces, MoveEar(raw) PROVE ArithmeticInv'
  <2>1. Scaled(raw) \in Finite
    BY ScaledIsPlace, ArithmeticAssumption
  <2> QED BY <1>3, <2>1, TetherHolds DEF MoveEar
<1>4. ASSUME NEW q, Turn(q) PROVE ArithmeticInv'
  BY <1>4 DEF Turn
<1>5. ASSUME NEW x \in Samples, Speak(x) PROVE ArithmeticInv'
  BY <1>5, ArithmeticAssumption DEF Speak
<1>6. CASE UNCHANGED arithmeticVars
  BY <1>6 DEF arithmeticVars
<1> QED BY <1>1, <1>2, <1>3, <1>4, <1>5, <1>6 DEF ArithmeticNext

(* Whatever the gain and the pan, a sum that is a number is clipped.       *)
LEMMA ClippedOut ==
    ASSUME ArithmeticInv
    PROVE  WithinFullScale
<1>1. Unit \in Nat \ {0} /\ MaxFloat \in Nat
  BY ArithmeticAssumption
<1>2. ASSUME NEW x \in Int PROVE SoftClip(x) = NaN \/ SoftClip(x) \in -Unit .. Unit
  <2>1. CASE x # NaN /\ (x > Unit \/ x < -Unit)
    <3> DEFINE t == (10 * Magnitude(x)) \div Unit
               y == (Unit * (IF t < 15 THEN 8 ELSE 9)) \div 10
    <3>1. y \in 0 .. Unit
      BY <1>1
    <3>2. SoftClip(x) = IF x > 0 THEN y ELSE -y
      BY <2>1 DEF SoftClip, Tanh
    <3> HIDE DEF y
    <3> QED BY <1>1, <3>1, <3>2
  <2>2. CASE ~(x # NaN /\ (x > Unit \/ x < -Unit))
    BY <1>1, <2>2 DEF SoftClip
  <2> QED BY <2>1, <2>2
<1>3. ASSUME NEW x \in Int PROVE Add(x, x) \in Int
  BY <1>1, <1>3 DEF Add, Rounded, NaN, Inf, IsInf
<1>4. ASSUME NEW x \in Int, NEW g \in Int, NEW w \in Int
      PROVE  MixStereo(x, g, w) = NaN \/ MixStereo(x, g, w) \in -Unit .. Unit
  <2> DEFINE one == IF w = NaN THEN NaN ELSE (x * g * w) \div (Unit * Unit)
  <2>1. one \in Int
    <3>1. Unit * Unit \in Nat \ {0} /\ x * g * w \in Int
      BY <1>1
    <3> QED BY <1>1, <3>1 DEF NaN
  <2>2. MixStereo(x, g, w) = SoftClip(Add(one, one))
    BY DEF MixStereo
  <2> HIDE DEF one
  <2> QED BY <1>2, <1>3, <2>1, <2>2
<1>5. ASSUME NEW d \in Int PROVE DistanceGain(d) \in Int
  BY ArithmeticAssumption DEF DistanceGain
<1>6. ASSUME NEW l PROVE PanWeight(l) \in Int
  BY <1>1 DEF PanWeight, NaN
<1>7. Length(Sub(speaker, ear)) \in Int
  BY SubFinite, LengthOf DEF ArithmeticInv
<1> DEFINE g == DistanceGain(Length(Sub(speaker, ear)))
           w == PanWeight(Lateral(WorldToLocal(Sub(speaker, ear), turn)))
<1>8. Out = 0 \/ Out = MixStereo(sample, g, w)
  BY DEF Out, Heard
<1>9. sample \in Int /\ g \in Int /\ w \in Int
  BY <1>5, <1>6, <1>7 DEF ArithmeticInv
<1> HIDE DEF g, w
<1> QED BY <1>1, <1>4, <1>8, <1>9 DEF WithinFullScale

(* Places whose squares overflow leave the ear of a listener on its tether *)
(* and every distance a number (mixer.rs:68-84), and no sample that is a   *)
(* number leaves full scale (mixer.rs:168-172): for every range of floats  *)
(* and all places and rotations that may be reported.                      *)
THEOREM BoundsAlwaysSurvive == ArithmeticSpec => []BoundsSurviveOverflow
<1>1. ArithmeticInit => ArithmeticInv
  <2>1. 0 \in Places /\ 0 \in Finite
    <3>1. MaxFloat \in Nat /\ MaxFloat \div PositionScale \in Nat
      BY DivMonotone, ArithmeticAssumption
    <3> QED BY <3>1 DEF Places, Finite
  <2> QED BY <2>1, ArithmeticAssumption DEF ArithmeticInit, ArithmeticInv
<1>2. ArithmeticInv => BoundsSurviveOverflow
  <2>1. ArithmeticInv => Length(Sub(speaker, ear)) # NaN
    BY SubFinite, LengthOf DEF ArithmeticInv
  <2> QED BY <2>1, ClippedOut DEF BoundsSurviveOverflow, TetherSurvivesOverflow, ArithmeticInv
<1> QED BY <1>1, <1>2, ArithmeticStep, PTL DEF ArithmeticSpec

=============================================================================
