---------------------------- MODULE JitterBuffer ----------------------------
(***************************************************************************)
(* One speaker's audio on its way from the network to the mixer: on_track  *)
(* cuts each decoded packet into 20 ms frames, push_frame queues them and  *)
(* drops the oldest when the queue is full, the mixer takes one per tick,  *)
(* or all of them when nobody else is in the room.                         *)
(*                                                                         *)
(* Time and audio are counted in units of 10 ms, half a frame.  The sender *)
(* captures in real time and emits a packet whenever it has PacketUnits of *)
(* audio; the network delivers packets in order, each at most MaxDelay     *)
(* units late.  A frame is known by the age of its first sample and by how *)
(* long it has been in the queue.                                          *)
(***************************************************************************)
EXTENDS Integers, Sequences

CONSTANTS
    PacketUnits,    \* length of the sender's packets, 1 for 10 ms
    MaxFrames,      \* JITTER_MAX_FRAMES
    MaxDelay,       \* how late a packet may be
    MayBeAlone      \* whether the room may hold nobody else at a tick

ASSUME QueueAssumption ==
    /\ PacketUnits \in Nat \ {0}
    /\ MaxFrames \in Nat /\ MaxDelay \in Nat
    /\ MayBeAlone \in BOOLEAN

FrameUnits == 2     \* FRAME_SAMPLES
Period == PacketUnits * FrameUnits

VARIABLES
    now,        \* time, modulo Period
    due,        \* what is to happen before time goes on
    network,    \* ages of the packets under way
    inbound,    \* Session::inbound, as ages and waiting times
    lost,       \* history: whether push_frame has dropped a frame
    latest      \* history: how late a packet has been

queueVars == <<now, due, network, inbound, lost, latest>>

DueAt(t) == {e \in {"packet", "tick"} :
    t % (IF e = "packet" THEN PacketUnits ELSE FrameUnits) = 0}

QueueTypeOK ==
    /\ now \in 0 .. Period - 1
    /\ due \subseteq {"packet", "tick"}
    /\ network \in Seq(Nat)
    /\ inbound \in Seq([age : Nat, wait : Nat])
    /\ lost \in BOOLEAN
    /\ latest \in 0 .. MaxDelay

QueueInit ==
    /\ now = 0
    /\ due = DueAt(0)
    /\ network = << >>
    /\ inbound = << >>
    /\ lost = FALSE
    /\ latest = 0

-----------------------------------------------------------------------------

(* on_track: whole frames, then what is left padded to one *)
Frames(age) ==
    [i \in 1 .. (PacketUnits + FrameUnits - 1) \div FrameUnits |->
        [age |-> age - FrameUnits * (i - 1), wait |-> 0]]

(* Fault: a full queue refuses the new frame. *)
PushRefusing(queue, frames) ==
    SubSeq(queue \o frames, 1, IF Len(queue \o frames) > MaxFrames THEN MaxFrames
                               ELSE Len(queue \o frames))

(* Fault: the queue has no limit. *)
PushUncapped(queue, frames) == queue \o frames

(* push_frame for each frame in turn: the oldest make room *)
Push(queue, frames) ==
    LET all == queue \o frames
    IN SubSeq(all, IF Len(all) > MaxFrames THEN Len(all) - MaxFrames + 1 ELSE 1, Len(all))

Emit ==
    /\ "packet" \in due
    /\ network' = Append(network, PacketUnits)
    /\ due' = due \ {"packet"}
    /\ UNCHANGED <<now, inbound, lost, latest>>

Receive ==
    /\ network # << >>
    /\ LET frames == Frames(Head(network))
       IN /\ inbound' = Push(inbound, frames)
          /\ lost' = (lost \/ Len(inbound) + Len(frames) > MaxFrames)
    /\ network' = Tail(network)
    /\ latest' = IF Head(network) - PacketUnits > latest THEN Head(network) - PacketUnits ELSE latest
    /\ UNCHANGED <<now, due>>

(* Fault: every second tick takes nothing. *)
TakeEverySecond ==
    /\ "tick" \in due
    /\ inbound' = IF inbound = << >> \/ now % (2 * FrameUnits) # 0 THEN inbound ELSE Tail(inbound)
    /\ due' = due \ {"tick"}
    /\ UNCHANGED <<now, network, lost, latest>>

(* take_frame, by mix_room; an empty queue is a tick of silence *)
Take ==
    /\ "tick" \in due
    /\ inbound' = IF inbound = << >> THEN inbound ELSE Tail(inbound)
    /\ due' = due \ {"tick"}
    /\ UNCHANGED <<now, network, lost, latest>>

(* mixer_loop, for a lone participant *)
Drain ==
    /\ MayBeAlone
    /\ "tick" \in due
    /\ inbound' = << >>
    /\ due' = due \ {"tick"}
    /\ UNCHANGED <<now, network, lost, latest>>

Advance ==
    /\ due = {}
    /\ network # << >> => Head(network) < PacketUnits + MaxDelay
    /\ now' = (now + 1) % Period
    /\ due' = DueAt((now + 1) % Period)
    /\ network' = [i \in DOMAIN network |-> network[i] + 1]
    /\ inbound' = [i \in DOMAIN inbound |->
                     [age |-> inbound[i].age + 1, wait |-> inbound[i].wait + 1]]
    /\ UNCHANGED <<lost, latest>>

QueueNext == Emit \/ Receive \/ Take \/ Drain \/ Advance

QueueSpec == QueueInit /\ [][QueueNext]_queueVars

-----------------------------------------------------------------------------
(* Properties *)

(* The queue delays no frame by more than it takes to play a full queue,   *)
(* whatever bursts have gone before: once the network is prompt again, so  *)
(* is the audio (room.rs:20-23).                                           *)
LatencyBounded == \A i \in DOMAIN inbound : inbound[i].wait <= FrameUnits * MaxFrames

(* The queue is one run of audio without a gap or a repeat, for a sender   *)
(* of whole frames: dropping the oldest cuts audio at its start only       *)
(* (room.rs:145-152), however bursts and ticks interleave.                 *)
Contiguous == \A i \in 1 .. Len(inbound) - 1 :
    inbound[i].age - inbound[i + 1].age = FrameUnits

(* Nothing is dropped of a sender that keeps real time until a packet is   *)
(* later than the queue, with that packet in it, can make up for.  Padding *)
(* the tail of a packet is to give a 10 ms sender the same: "continuous    *)
(* audio" (session.rs:241-242).                                            *)
LossOnlyWhenLate == lost => latest >= FrameUnits * MaxFrames - PacketUnits
=============================================================================
