------------------------------ MODULE PortPool ------------------------------
(***************************************************************************)
(* session::PortPool: the media port of each transport, handed out round   *)
(* robin by a counter of fixed width that wraps, and held by the transport *)
(* until it closes.  Nothing is ever given back to the pool.               *)
(***************************************************************************)
EXTENDS Integers, FiniteSets

CONSTANTS
    Transports,     \* peer connections that come and go
    Lo, Hi,         \* MEDIA_PORT_LO, MEDIA_PORT_HI
    Width,          \* number of values of the counter, 2^16 for AtomicU16
    MaxSessions,    \* MAX_SESSIONS
    MaxAge          \* how long the age of a transport is counted

ASSUME PortAssumption ==
    /\ Width \in Nat /\ Lo \in Nat /\ Hi \in Nat
    /\ Lo <= Hi /\ Hi < Width
    /\ 0 < Lo
    /\ MaxSessions \in Nat
    /\ MaxAge \in Nat /\ MaxAge >= Hi - Lo

VARIABLES
    next,   \* PortPool::next
    port,   \* the UDP port each live transport is bound to, 0 if it has none
    age     \* history: ports handed out since a transport got its own

poolVars == <<next, port, age>>

Span == Hi - Lo + 1

(* Fault: the range is one port short. *)
PortShort(n) == Lo + (((n - Lo) % Width) % (Hi - Lo))

(* Fault: the offset of the counter is not reduced to the range. *)
PortUnreduced(n) == Lo + ((n - Lo) % Width)

(* take: the port for the counter value n; n - lo is a subtraction of u16  *)
(* values, which wraps below lo in a release build.                        *)
PortAt(n) == Lo + (((n - Lo) % Width) % Span)

Live == {t \in Transports : port[t] # 0}
InUse == {port[t] : t \in Live}

PoolTypeOK ==
    /\ next \in 0 .. Width - 1
    /\ port \in [Transports -> Nat]
    /\ age \in [Transports -> 0 .. MaxAge]

PoolInit ==
    /\ next = Lo
    /\ port = [t \in Transports |-> 0]
    /\ age = [t \in Transports |-> 0]

Older == [t \in Transports |-> IF port[t] # 0 /\ age[t] < MaxAge THEN age[t] + 1 ELSE age[t]]

(* provision takes a port and establish binds it; a port another transport *)
(* still holds makes the bind, and with it the request, fail.              *)
OpenPort(t) ==
    /\ port[t] = 0
    /\ Cardinality(Live) < MaxSessions
    /\ next' = (next + 1) % Width
    /\ IF PortAt(next) \in InUse
         THEN port' = port /\ age' = Older
         ELSE /\ port' = [port EXCEPT ![t] = PortAt(next)]
              /\ age' = [Older EXCEPT ![t] = 0]

ClosePort(t) ==
    /\ port[t] # 0
    /\ port' = [port EXCEPT ![t] = 0]
    /\ age' = [age EXCEPT ![t] = 0]
    /\ UNCHANGED next

PoolNext == \E t \in Transports : OpenPort(t) \/ ClosePort(t)

PoolSpec == PoolInit /\ [][PoolNext]_poolVars

-----------------------------------------------------------------------------
(* Properties *)

(* Every port handed out is inside the firewalled media range              *)
(* (session.rs:56-61), also after the counter has wrapped.                 *)
InRange == InUse \subseteq Lo .. Hi

(* How soon a port can come up again: after a whole round, except that the *)
(* wrap of the counter cuts a round short when the range does not divide   *)
(* its width (65536 = 65 * 1000 + 536, so after 536 ports, not 1000).      *)
ReuseDistance == IF Width % Span = 0 THEN Span ELSE Width % Span
ReuseIsLate ==
    \A t \in Live : port[t] = PortAt(next) => age[t] >= ReuseDistance - 1

(* "port allocation cannot wrap onto a port still in use" (main.rs:76-77): *)
(* below the session ceiling the next port is free.                        *)
NextIsFree == Cardinality(Live) < MaxSessions => PortAt(next) \notin InUse
=============================================================================
