--------------------------- MODULE RequestsProofs ---------------------------
(* Nothing is left behind by a request that replaces a session or that is  *)
(* refused, for any number of connections, viewers, ids and messages; and  *)
(* the log that requests control tells the truth, with the right date.     *)
EXTENDS Requests, LogControl, TLAPS

TaskRecords ==
    [step : {"idle", "drop", "dropped", "check", "establish", "signal"},
     msg : SUBSET Messages, old : SUBSET Ids, dropped : SUBSET Ids, new : SUBSET Ids]

ReplyRecords ==
    [status : {0, 200, 405}, kind : {"none", "result", "error"}, new : SUBSET Ids]

Shape ==
    /\ task \in [Tasks -> TaskRecords]
    /\ reply \in [Tasks -> ReplyRecords]
    /\ told \in [Viewers -> SUBSET Ids]

(* Ids are drawn once: nobody knows of an id before it is drawn. *)
Drawn ==
    /\ used \subseteq Ids
    /\ DOMAIN live \subseteq used
    /\ \A s \in DOMAIN live : live[s].old \subseteq used
    /\ \A t \in Tasks : task[t].new \cup task[t].old \cup reply[t].new \subseteq used
    /\ \A v \in Viewers : told[v] \subseteq used

(* And until its session is registered, nobody but the request knows of it *)
Secret ==
    /\ \A t \in Tasks : task[t].step # "establish" => task[t].new = {}
    /\ \A t \in Tasks :
         /\ task[t].new \cap DOMAIN live = {}
         /\ \A s \in DOMAIN live : live[s].old \cap task[t].new = {}
         /\ \A v \in Viewers : told[v] \cap task[t].new = {}
    /\ \A t, u \in Tasks :
         /\ t # u => task[t].new \cap task[u].new = {}
         /\ task[t].old \cap task[u].new = {}
         /\ reply[t].kind = "error" => reply[t].new \cap task[u].new = {}

(* A request that is past its drop has no old session any more. *)
PastDrop == \A t \in Tasks :
    task[t].step \in {"dropped", "check", "establish"} => task[t].old \cap DOMAIN live = {}

RequestsInv == Shape /\ Drawn /\ Secret /\ PastDrop /\ ReplacedIsGone /\ ErrorLeavesNothing

-----------------------------------------------------------------------------

(* The named session is one its viewer was told of. *)
LEMMA NamingTold ==
    ASSUME Shape, NEW m \in Messages, NEW old \in Naming(m)
    PROVE  \/ old = {}
           \/ m.from \in Viewers /\ \E s \in told[m.from] : old = {s}
BY RequestsAssumption DEF Naming, Message

(* A request that begins or ends: the record of the task is replaced, and  *)
(* what it then names is known already and, past a drop, not live.         *)
LEMMA TaskReplaced ==
    ASSUME RequestsInv, NEW t \in Tasks, NEW r \in TaskRecords, NEW a \in ReplyRecords,
           task' = [task EXCEPT ![t] = r], reply' = [reply EXCEPT ![t] = a],
           UNCHANGED <<live, told, used>>,
           r.new = {}, r.old \subseteq used,
           \A u \in Tasks : r.old \cap task[u].new = {},
           r.step \in {"dropped", "check", "establish"} => r.old \cap DOMAIN live = {},
           a.new \subseteq used,
           a.kind = "error" => /\ a.new \cap DOMAIN live = {}
                               /\ \A u \in Tasks : u # t => a.new \cap task[u].new = {}
    PROVE  RequestsInv'
<1> USE DEF RequestsInv
<1>1. \A u \in Tasks : /\ task'[u] = IF u = t THEN r ELSE task[u]
                       /\ reply'[u] = IF u = t THEN a ELSE reply[u]
  BY DEF Shape
<1>2. Shape'
  BY DEF Shape
<1>3. Drawn'
  BY <1>1 DEF Drawn
<1>4. Secret'
  BY <1>1 DEF Secret
<1>5. PastDrop'
  BY <1>1 DEF PastDrop
<1>6. ReplacedIsGone'
  BY DEF ReplacedIsGone
<1>7. ErrorLeavesNothing'
  BY <1>1 DEF ErrorLeavesNothing
<1> QED BY <1>2, <1>3, <1>4, <1>5, <1>6, <1>7

(* A request that is answered at once. *)
LEMMA ReplyReplaced ==
    ASSUME RequestsInv, NEW t \in Tasks, NEW a \in ReplyRecords, a.new = {},
           reply' = [reply EXCEPT ![t] = a], UNCHANGED <<live, task, told, used>>
    PROVE  RequestsInv'
<1> USE DEF RequestsInv
<1>1. \A u \in Tasks : reply'[u] = IF u = t THEN a ELSE reply[u]
  BY DEF Shape
<1>2. Shape'
  BY DEF Shape
<1>3. Drawn'
  BY <1>1 DEF Drawn
<1>4. Secret'
  BY <1>1 DEF Secret
<1>5. PastDrop' /\ ReplacedIsGone'
  BY DEF PastDrop, ReplacedIsGone
<1>6. ErrorLeavesNothing'
  BY <1>1 DEF ErrorLeavesNothing
<1> QED BY <1>2, <1>3, <1>4, <1>5, <1>6

(* The types of what the actions write. *)
LEMMA RecordTypes ==
    /\ NoTask \in TaskRecords /\ NoReply \in ReplyRecords
    /\ \A k \in {"result", "error", "none"}, n \in SUBSET Ids, c \in {200, 405} :
         [status |-> c, kind |-> k, new |-> n] \in ReplyRecords
BY DEF NoTask, TaskRecords, NoReply, ReplyRecords

-----------------------------------------------------------------------------
(* One lemma for each action                                               *)

LEMMA ReceiveStep ==
    ASSUME RequestsInv, NEW t \in Tasks, NEW m \in Messages, Receive(t, m)
    PROVE  RequestsInv'
<1> DEFINE a == [status |-> IF m.form = "put" THEN 405 ELSE 200,
                 kind |-> CASE m.form = "get" -> "result" [] m.form = "put" -> "none"
                            [] OTHER -> "error",
                 new |-> {}]
<1>1. a \in ReplyRecords /\ a.new = {}
  BY DEF ReplyRecords
<1>2. reply' = [reply EXCEPT ![t] = a] /\ UNCHANGED <<live, task, told, used>>
  BY DEF Receive
<1> HIDE DEF a
<1> QED BY <1>1, <1>2, ReplyReplaced

LEMMA SignalStep ==
    ASSUME RequestsInv, NEW t \in Tasks, NEW m \in Messages, Signal(t, m)
    PROVE  RequestsInv'
<1>1. PICK id \in Naming(m) : reply' = [reply EXCEPT ![t] =
         [status |-> 200, kind |-> IF id # {} /\ id \subseteq DOMAIN live THEN "result" ELSE "error",
          new |-> {}]]
  BY DEF Signal
<1> DEFINE a == [status |-> 200,
                 kind |-> IF id # {} /\ id \subseteq DOMAIN live THEN "result" ELSE "error",
                 new |-> {}]
<1>2. a \in ReplyRecords /\ a.new = {}
  BY DEF ReplyRecords
<1>3. reply' = [reply EXCEPT ![t] = a] /\ UNCHANGED <<live, task, told, used>>
  BY <1>1 DEF Signal
<1> HIDE DEF a
<1> QED BY <1>2, <1>3, ReplyReplaced

LEMMA BeginStep ==
    ASSUME RequestsInv, NEW t \in Tasks, NEW m \in Messages, NEW old \in Naming(m),
           NEW step \in {"drop", "check"}, step = "check" => old \cap DOMAIN live = {},
           Begin(t, m, old, step), UNCHANGED <<live, told, used>>
    PROVE  RequestsInv'
<1> DEFINE r == [NoTask EXCEPT !.step = step, !.msg = {m}, !.old = old]
<1>1. \/ old = {}
      \/ m.from \in Viewers /\ \E s \in told[m.from] : old = {s}
  BY NamingTold DEF RequestsInv
<1>2. old \subseteq used /\ \A u \in Tasks : old \cap task[u].new = {}
  BY <1>1 DEF RequestsInv, Drawn, Secret
<1>3. old \subseteq Ids
  BY <1>2 DEF RequestsInv, Drawn
<1> DEFINE r1 == [NoTask EXCEPT !.step = step]
           r2 == [r1 EXCEPT !.msg = {m}]
<1>4. r1 = [step |-> step, msg |-> {}, old |-> {}, dropped |-> {}, new |-> {}]
  BY DEF NoTask
<1>5. r2 = [step |-> step, msg |-> {m}, old |-> {}, dropped |-> {}, new |-> {}]
  <2> HIDE DEF r1
  <2> QED BY <1>4
<1>6. r = [step |-> step, msg |-> {m}, old |-> old, dropped |-> {}, new |-> {}]
  <2>1. r = [r2 EXCEPT !.old = old]
    OBVIOUS
  <2> HIDE DEF r1, r2, r
  <2> QED BY <1>5, <2>1
<1>7. r \in TaskRecords /\ r.new = {} /\ r.old = old /\ r.step = step
  BY <1>3, <1>6 DEF TaskRecords
<1>8. task' = [task EXCEPT ![t] = r] /\ reply' = [reply EXCEPT ![t] = NoReply]
  BY DEF Begin
<1>9. NoReply \in ReplyRecords /\ NoReply.new = {} /\ NoReply.kind # "error"
  BY RecordTypes DEF NoReply
<1> HIDE DEF r
<1> QED BY <1>2, <1>7, <1>8, <1>9, TaskReplaced

LEMMA RefuseStep ==
    ASSUME RequestsInv, NEW t \in Tasks, Refuse(t), UNCHANGED <<live, told, used>>
    PROVE  RequestsInv'
<1> DEFINE a == [status |-> 200, kind |-> "error", new |-> {}]
<1>1. a \in ReplyRecords /\ a.new = {}
  BY RecordTypes
<1>2. reply' = [reply EXCEPT ![t] = a] /\ UNCHANGED <<live, task, told, used>>
  BY DEF Refuse
<1> HIDE DEF a
<1> QED BY <1>1, <1>2, ReplyReplaced

LEMMA BeginProvisionStep ==
    ASSUME RequestsInv, NEW t \in Tasks, NEW m \in Messages, BeginProvision(t, m)
    PROVE  RequestsInv'
<1>1. PICK old \in Naming(m) :
        CASE Malformed(m) \/ (m.logout /\ old = {}) -> Refuse(t)
          [] ~Malformed(m) /\ m.logout /\ old # {} -> Begin(t, m, old, "drop")
          [] ~Malformed(m) /\ ~m.logout /\ m.jsep # "offer" -> Refuse(t)
          [] OTHER -> Begin(t, m, old,
                        IF old \subseteq DOMAIN live /\ old # {} THEN "drop" ELSE "check")
  BY DEF BeginProvision
<1>2. UNCHANGED <<live, told, used>>
  BY DEF BeginProvision
<1>3. \/ Refuse(t)
      \/ Begin(t, m, old, "drop")
      \/ ~(old \subseteq DOMAIN live /\ old # {}) /\ Begin(t, m, old, "check")
  BY <1>1, Zenon
<1>4. ~(old \subseteq DOMAIN live /\ old # {}) => old \cap DOMAIN live = {}
  BY NamingTold DEF RequestsInv
<1> QED BY <1>2, <1>3, <1>4, RefuseStep, BeginStep

LEMMA DropStep ==
    ASSUME RequestsInv, NEW t \in Tasks, Drop(t)
    PROVE  RequestsInv'
<1> USE DEF RequestsInv
<1> DEFINE d == task[t].old \cap DOMAIN live
           r1 == [task[t] EXCEPT !.step = "dropped"]
           r == [r1 EXCEPT !.dropped = d]
<1>1. task[t] \in TaskRecords
  BY DEF Shape
<1>2. r1 \in TaskRecords /\ r1.new = task[t].new /\ r1.old = task[t].old /\ r1.step = "dropped"
  BY <1>1 DEF TaskRecords
<1>3. d \subseteq Ids
  BY <1>1 DEF TaskRecords
<1>4. r \in TaskRecords /\ r.new = task[t].new /\ r.old = task[t].old /\ r.step = "dropped"
  <2> HIDE DEF r1, d
  <2> QED BY <1>2, <1>3 DEF TaskRecords
<1>5. task' = [task EXCEPT ![t] = r]
  BY DEF Drop, Shape
<1>6. DOMAIN live' = DOMAIN live \ task[t].old /\ \A s \in DOMAIN live' : live'[s] = live[s]
  BY DEF Drop, Restrict
<1>7. task[t].new = {} /\ UNCHANGED <<reply, told, used>>
  BY DEF Drop, Secret
<1> HIDE DEF r1, d, r
<1>8. \A u \in Tasks : task'[u] = IF u = t THEN r ELSE task[u]
  BY <1>5 DEF Shape
<1>9. Shape'
  BY <1>4, <1>5, <1>7 DEF Shape
<1>10. Drawn'
  BY <1>4, <1>6, <1>7, <1>8 DEF Drawn
<1>11. Secret'
  BY <1>4, <1>6, <1>7, <1>8 DEF Secret
<1>12. PastDrop'
  BY <1>4, <1>6, <1>8 DEF PastDrop
<1>13. ReplacedIsGone'
  BY <1>6 DEF ReplacedIsGone
<1>14. ErrorLeavesNothing'
  BY <1>6, <1>7 DEF ErrorLeavesNothing
<1> QED BY <1>9, <1>10, <1>11, <1>12, <1>13, <1>14

(* A request that has drawn no id and ends, with whatever answer. *)
LEMMA EndStep ==
    ASSUME RequestsInv, NEW t \in Tasks, NEW k \in {"result", "error"},
           Answer(t, k), UNCHANGED <<live, told, used>>
    PROVE  RequestsInv'
<1> DEFINE a == [status |-> 200, kind |-> k, new |-> task[t].new]
<1>1. task[t].new \subseteq Ids
  BY DEF RequestsInv, Shape, TaskRecords
<1>2. a \in ReplyRecords /\ a.new = task[t].new
  BY <1>1, RecordTypes
<1>3. task' = [task EXCEPT ![t] = NoTask] /\ reply' = [reply EXCEPT ![t] = a]
  BY DEF Answer
<1>4. NoTask \in TaskRecords /\ NoTask.new = {} /\ NoTask.old = {} /\ NoTask.step = "idle"
  BY RecordTypes DEF NoTask
<1>5. /\ task[t].new \subseteq used /\ task[t].new \cap DOMAIN live = {}
      /\ \A u \in Tasks : u # t => task[t].new \cap task[u].new = {}
  BY DEF RequestsInv, Drawn, Secret
<1> HIDE DEF a
<1> QED BY <1>2, <1>3, <1>4, <1>5, TaskReplaced

(* A request that changes nothing but its own record. *)
LEMMA SilentStep ==
    ASSUME RequestsInv, NEW t \in Tasks, NEW r \in TaskRecords,
           task' = [task EXCEPT ![t] = r], UNCHANGED <<live, reply, told, used>>,
           r.new = {}, r.old = {} \/ r.old = task[t].old,
           r.step \in {"dropped", "check", "establish"} => r.old \cap DOMAIN live = {}
    PROVE  RequestsInv'
<1>1. reply[t] \in ReplyRecords /\ reply' = [reply EXCEPT ![t] = reply[t]]
  BY DEF RequestsInv, Shape
<1>2. r.old \subseteq used /\ \A u \in Tasks : r.old \cap task[u].new = {}
  BY DEF RequestsInv, Drawn, Secret
<1>3. /\ reply[t].new \subseteq used
      /\ reply[t].kind = "error" => /\ reply[t].new \cap DOMAIN live = {}
                                     /\ \A u \in Tasks : reply[t].new \cap task[u].new = {}
  BY DEF RequestsInv, Drawn, Secret, ErrorLeavesNothing
<1> QED BY <1>1, <1>2, <1>3, TaskReplaced

LEMMA DroppedStep ==
    ASSUME RequestsInv, NEW t \in Tasks, Dropped(t)
    PROVE  RequestsInv'
<1> DEFINE r == [task[t] EXCEPT !.step = "check"]
<1>1. task[t] \in TaskRecords /\ task[t].step = "dropped"
  BY DEF Dropped, RequestsInv, Shape
<1>2. task[t].new = {} /\ task[t].old \cap DOMAIN live = {}
  BY <1>1 DEF RequestsInv, Secret, PastDrop
<1>3. r \in TaskRecords /\ r.new = {} /\ r.old = task[t].old
  BY <1>1, <1>2 DEF TaskRecords
<1>4. CASE Answer(t, "result")
  BY <1>4, EndStep DEF Dropped
<1>5. CASE task' = [task EXCEPT ![t] = r] /\ UNCHANGED reply
  BY <1>2, <1>3, <1>5, SilentStep DEF Dropped
<1> QED BY <1>4, <1>5 DEF Dropped

LEMMA HangUpStep ==
    ASSUME RequestsInv, NEW t \in Tasks, HangUp(t)
    PROVE  RequestsInv'
<1>1. NoTask \in TaskRecords /\ NoTask.new = {} /\ NoTask.old = {} /\ NoTask.step = "idle"
  BY RecordTypes DEF NoTask
<1> QED BY <1>1, SilentStep DEF HangUp

LEMMA CheckStep ==
    ASSUME RequestsInv, NEW t \in Tasks, Check(t)
    PROVE  RequestsInv'
<1> USE DEF RequestsInv
<1>1. CASE Answer(t, "error") /\ UNCHANGED used
  BY <1>1, EndStep DEF Check
<1>2. ASSUME NEW s \in Ids \ used, used' = used \cup {s},
             task' = [task EXCEPT ![t].step = "establish", ![t].new = {s}], UNCHANGED reply
      PROVE  RequestsInv'
  <2> DEFINE r1 == [task[t] EXCEPT !.step = "establish"]
             r == [r1 EXCEPT !.new = {s}]
  <2>1. task[t] \in TaskRecords
    BY DEF Shape
  <2>2. r1 \in TaskRecords /\ r1.old = task[t].old /\ r1.step = "establish"
    BY <2>1 DEF TaskRecords
  <2>3. r \in TaskRecords /\ r.old = task[t].old /\ r.step = "establish" /\ r.new = {s}
    <3> HIDE DEF r1
    <3> QED BY <2>2 DEF TaskRecords
  <2>4. task' = [task EXCEPT ![t] = r]
    BY <1>2 DEF Shape
  <2>5. task[t].step = "check" /\ UNCHANGED <<live, told>>
    BY DEF Check
  <2> HIDE DEF r1, r
  <2>6. \A u \in Tasks : task'[u] = IF u = t THEN r ELSE task[u]
    BY <2>4 DEF Shape
  <2>7. Shape'
    BY <1>2, <2>3, <2>4, <2>5 DEF Shape
  <2>8. Drawn'
    BY <1>2, <2>3, <2>5, <2>6 DEF Drawn
  <2>9. Secret'
    <3>1. \A u \in Tasks : task'[u].step # "establish" => task'[u].new = {}
      BY <2>3, <2>6 DEF Secret
    <3>2. \A u \in Tasks : /\ task'[u].new \cap DOMAIN live' = {}
                           /\ \A i \in DOMAIN live' : live'[i].old \cap task'[u].new = {}
      BY <2>3, <2>5, <2>6 DEF Secret, Drawn
    <3>3. \A u \in Tasks : \A v \in Viewers : told'[v] \cap task'[u].new = {}
      BY <2>3, <2>5, <2>6 DEF Secret, Drawn
    <3>4. \A u, w \in Tasks : /\ u # w => task'[u].new \cap task'[w].new = {}
                              /\ task'[u].old \cap task'[w].new = {}
      BY <2>3, <2>6 DEF Secret, Drawn
    <3>5. \A u, w \in Tasks : reply'[u].kind = "error" => reply'[u].new \cap task'[w].new = {}
      <4>1. ASSUME NEW u \in Tasks, NEW w \in Tasks, reply[u].kind = "error"
            PROVE  reply[u].new \cap task'[w].new = {}
        <5>1. reply[u].new \subseteq used
          BY DEF Drawn
        <5>2. CASE w = t
          BY <2>3, <2>6, <5>1, <5>2
        <5>3. CASE w # t
          BY <2>6, <4>1, <5>3 DEF Secret
        <5> QED BY <5>2, <5>3
      <4> QED BY <1>2, <4>1
    <3> QED BY <3>1, <3>2, <3>3, <3>4, <3>5 DEF Secret
  <2>10. PastDrop'
    BY <2>3, <2>5, <2>6 DEF PastDrop
  <2>11. ReplacedIsGone' /\ ErrorLeavesNothing'
    BY <1>2, <2>5 DEF ReplacedIsGone, ErrorLeavesNothing
  <2> QED BY <2>7, <2>8, <2>9, <2>10, <2>11
<1> QED BY <1>1, <1>2 DEF Check

LEMMA EstablishStep ==
    ASSUME RequestsInv, NEW t \in Tasks, Establish(t)
    PROVE  RequestsInv'
<1> USE DEF RequestsInv
<1>1. PICK m \in task[t].msg :
        \/ /\ live' = [s \in DOMAIN live \cup task[t].new |->
                          IF s \in task[t].new THEN Registered(t, m)[s] ELSE live[s]]
           /\ Answer(t, "result")
           /\ told' \in {told, [told EXCEPT ![m.from] = @ \cup task[t].new]}
        \/ Answer(t, "error") /\ UNCHANGED <<live, told>>
  BY DEF Establish
<1>2. task[t].step = "establish" /\ UNCHANGED used
  BY DEF Establish
<1>3. CASE Answer(t, "error") /\ UNCHANGED <<live, told>>
  BY <1>2, <1>3, EndStep
<1>4. CASE /\ live' = [s \in DOMAIN live \cup task[t].new |->
                          IF s \in task[t].new THEN Registered(t, m)[s] ELSE live[s]]
           /\ Answer(t, "result")
           /\ told' \in {told, [told EXCEPT ![m.from] = @ \cup task[t].new]}
  <2> DEFINE n == task[t].new
             a == [status |-> 200, kind |-> "result", new |-> n]
  <2>1. task[t] \in TaskRecords /\ n \subseteq Ids
    BY DEF Shape, TaskRecords
  <2>2. a \in ReplyRecords /\ a.new = n /\ a.kind = "result"
    BY <2>1, RecordTypes
  <2>3. \A u \in Tasks : /\ task'[u] = IF u = t THEN NoTask ELSE task[u]
                         /\ reply'[u] = IF u = t THEN a ELSE reply[u]
    BY <1>4 DEF Answer, Shape
  <2>4. NoTask \in TaskRecords /\ NoTask.new = {} /\ NoTask.old = {} /\ NoTask.step = "idle"
    BY RecordTypes DEF NoTask
  <2>5. /\ DOMAIN live' = DOMAIN live \cup n
        /\ \A s \in n : live'[s].old = task[t].old
        /\ \A s \in DOMAIN live \ n : live'[s] = live[s]
    BY <1>4 DEF Registered
  <2>6. told' \in [Viewers -> SUBSET Ids] /\ \A v \in Viewers : told'[v] \subseteq told[v] \cup n
    BY <1>4, <2>1 DEF Shape
  <2>7. /\ n \subseteq used /\ n \cap DOMAIN live = {}
        /\ task[t].old \subseteq used /\ task[t].old \cap DOMAIN live = {} /\ task[t].old \cap n = {}
    BY <1>2 DEF Drawn, Secret, PastDrop
  <2> HIDE DEF a
  <2>8. Shape'
    <3>1. task' \in [Tasks -> TaskRecords] /\ reply' \in [Tasks -> ReplyRecords]
      BY <1>4, <2>2, <2>4 DEF Answer, Shape, a
    <3> QED BY <2>6, <3>1 DEF Shape
  <2>9. Drawn'
    BY <1>2, <2>2, <2>3, <2>4, <2>5, <2>6, <2>7 DEF Drawn
  <2>10. Secret'
    <3>1. \A u \in Tasks : task'[u].step # "establish" => task'[u].new = {}
      BY <2>3, <2>4 DEF Secret
    <3>2. \A u \in Tasks : task'[u].new \cap DOMAIN live' = {}
      BY <2>3, <2>4, <2>5 DEF Secret
    <3>3. \A u \in Tasks : \A s \in DOMAIN live' : live'[s].old \cap task'[u].new = {}
      BY <2>3, <2>4, <2>5 DEF Secret
    <3>4. \A u \in Tasks : \A v \in Viewers : told'[v] \cap task'[u].new = {}
      BY <2>3, <2>4, <2>6 DEF Secret
    <3>5. \A u, w \in Tasks : /\ u # w => task'[u].new \cap task'[w].new = {}
                              /\ task'[u].old \cap task'[w].new = {}
      BY <2>3, <2>4 DEF Secret
    <3>6. \A u, w \in Tasks : reply'[u].kind = "error" => reply'[u].new \cap task'[w].new = {}
      BY <2>2, <2>3, <2>4 DEF Secret
    <3> QED BY <3>1, <3>2, <3>3, <3>4, <3>5, <3>6 DEF Secret
  <2>11. PastDrop'
    BY <2>3, <2>4, <2>5 DEF PastDrop, Secret
  <2>12. ReplacedIsGone'
    BY <2>5, <2>7 DEF ReplacedIsGone, Secret
  <2>13. ErrorLeavesNothing'
    BY <2>2, <2>3, <2>5 DEF ErrorLeavesNothing, Secret
  <2> QED BY <2>8, <2>9, <2>10, <2>11, <2>12, <2>13
<1> QED BY <1>1, <1>3, <1>4

-----------------------------------------------------------------------------

(* Every step of every request keeps the invariant. *)
LEMMA RequestsInvariant == Spec => []RequestsInv
<1>1. Init => RequestsInv
  BY RecordTypes DEF Init, RequestsInv, Shape, Drawn, Secret, PastDrop, ReplacedIsGone,
                     ErrorLeavesNothing, NoTask, NoReply
<1>2. RequestsInv /\ [Next]_vars => RequestsInv'
  <2> SUFFICES ASSUME RequestsInv, [Next]_vars PROVE RequestsInv'
    OBVIOUS
  <2>1. CASE UNCHANGED vars
    BY <2>1 DEF vars, RequestsInv, Shape, Drawn, Secret, PastDrop, ReplacedIsGone,
                ErrorLeavesNothing
  <2>2. CASE \E t \in Tasks : Drop(t) \/ Dropped(t) \/ Check(t) \/ Establish(t) \/ HangUp(t)
    BY <2>2, DropStep, DroppedStep, CheckStep, EstablishStep, HangUpStep
  <2>3. CASE \E t \in Tasks, m \in Messages :
               Receive(t, m) \/ BeginProvision(t, m) \/ Signal(t, m)
    BY <2>3, ReceiveStep, BeginProvisionStep, SignalStep
  <2> QED BY <2>1, <2>2, <2>3 DEF Next
<1> QED BY <1>1, <1>2, PTL DEF Spec

(* A session is never live together with the one its request named         *)
(* (main.rs:150): the drop comes first, and no id is named before it is    *)
(* told to a viewer.                                                       *)
THEOREM ReplacedAlwaysGone == Spec => []ReplacedIsGone
<1>1. RequestsInv => ReplacedIsGone
  BY DEF RequestsInv
<1> QED BY <1>1, RequestsInvariant, PTL

(* A request answered with an error has left no session behind             *)
(* (main.rs:201-216), nor will another request register the id it drew.    *)
THEOREM ErrorsLeaveNothing == Spec => []ErrorLeavesNothing
<1>1. RequestsInv => ErrorLeavesNothing
  BY DEF RequestsInv
<1> QED BY <1>1, RequestsInvariant, PTL

-----------------------------------------------------------------------------
(* Rooms                                                                   *)

(* The narrowing to an i32 keeps what fits in one.                         *)
LEMMA ParcelKept ==
    ASSUME NEW n \in Int, -(IntRange \div 2) <= n, n < IntRange - (IntRange \div 2)
    PROVE  ParcelIn32Bits(n) = n
<1> DEFINE h == IntRange \div 2
           x == n + h
           q == x \div IntRange
           r == x % IntRange
<1>1. IntRange \in Nat \ {0} /\ h \in Int
  BY RequestsAssumption
<1>2. x \in Int /\ 0 <= x /\ x < IntRange
  BY <1>1
<1>3. q \in Int /\ r \in 0 .. IntRange - 1 /\ x = IntRange * q + r
  BY <1>1, <1>2
<1>4. ParcelIn32Bits(n) = r - h
  BY DEF ParcelIn32Bits
<1> HIDE DEF q, r
<1>5. q = 0
  <2>1. CASE q >= 1
    <3>1. IntRange * q >= IntRange
      BY <1>1, <1>3, <2>1
    <3> QED BY <1>1, <1>2, <1>3, <3>1
  <2>2. CASE q <= -1
    <3>1. IntRange * q <= -IntRange
      BY <1>1, <1>3, <2>2
    <3> QED BY <1>1, <1>2, <1>3, <3>1
  <2> QED BY <1>3, <2>1, <2>2
<1>6. r = x
  BY <1>1, <1>3, <1>5
<1> QED BY <1>1, <1>4, <1>6

(* A room key tells places apart, and only places.                         *)
LEMMA RoomIsPlace ==
    ASSUME NEW m \in Messages, NEW n \in Messages,
           ParcelIn32Bits(m.parcel) = m.parcel, ParcelIn32Bits(n.parcel) = n.parcel
    PROVE  RoomKey(m) = RoomKey(n) <=> SamePlace(m, n)
<1> DEFINE Local(k) == [region |-> k.scene, parcel |-> k.parcel]
           Group(k) == [channel |-> k.channel]
<1>1. /\ RoomKey(m) = IF IsMultiAgent(m) THEN Group(m) ELSE Local(m)
      /\ RoomKey(n) = IF IsMultiAgent(n) THEN Group(n) ELSE Local(n)
  BY DEF RoomKey
<1>2. \A k, l : Group(k) # Local(l)
  <2>1. \A k, l : "region" \notin DOMAIN Group(k) /\ "region" \in DOMAIN Local(l)
    OBVIOUS
  <2> HIDE DEF Group, Local
  <2> QED BY <2>1
<1>3. Group(m) = Group(n) <=> m.channel = n.channel
  OBVIOUS
<1>4. Local(m) = Local(n) <=> m.scene = n.scene /\ m.parcel = n.parcel
  OBVIOUS
<1> HIDE DEF Group, Local
<1> QED BY <1>1, <1>2, <1>3, <1>4 DEF SamePlace

(* A session's room is the one its request asked for.                      *)
RoomAsAsked == \A s \in DOMAIN live :
    live[s].wanted \in Messages /\ live[s].room = RoomKey(live[s].wanted)

LEMMA RoomAsAskedStep ==
    ASSUME RequestsInv, RoomAsAsked, [Next]_vars
    PROVE  RoomAsAsked'
<1>1. ASSUME NEW t \in Tasks, Drop(t) PROVE RoomAsAsked'
  <2>1. DOMAIN live' \subseteq DOMAIN live /\ \A s \in DOMAIN live' : live'[s] = live[s]
    BY <1>1 DEF Drop, Restrict
  <2> QED BY <2>1 DEF RoomAsAsked
<1>2. ASSUME NEW t \in Tasks, Establish(t) PROVE RoomAsAsked'
  <2>1. PICK m \in task[t].msg : \/ live' = live
                                 \/ live' = [s \in DOMAIN live \cup task[t].new |->
                                       IF s \in task[t].new THEN Registered(t, m)[s] ELSE live[s]]
    BY <1>2 DEF Establish
  <2>2. m \in Messages
    BY <2>1 DEF RequestsInv, Shape, TaskRecords
  <2>3. \A s \in task[t].new :
          Registered(t, m)[s].wanted = m /\ Registered(t, m)[s].room = RoomKey(m)
    BY DEF Registered
  <2> HIDE DEF Registered
  <2> QED BY <2>1, <2>2, <2>3 DEF RoomAsAsked
<1>3. ASSUME UNCHANGED live PROVE RoomAsAsked'
  BY <1>3 DEF RoomAsAsked
<1>4. ASSUME NEW t \in Tasks, Dropped(t) \/ Check(t) \/ HangUp(t) PROVE UNCHANGED live
  BY <1>4 DEF Dropped, Check, HangUp
<1>5. ASSUME NEW t \in Tasks, NEW m \in Messages,
             Receive(t, m) \/ BeginProvision(t, m) \/ Signal(t, m)
      PROVE  UNCHANGED live
  BY <1>5 DEF Receive, BeginProvision, Signal
<1> QED BY <1>1, <1>2, <1>3, <1>4, <1>5 DEF Next, vars

(* People meet exactly if they ask for the same place (room.rs:28-30), for *)
(* any regions, groups and parcels, as long as the parcels that are asked  *)
(* for have numbers that fit in the i32 they are narrowed to.              *)
THEOREM PeopleAlwaysMeet ==
    ASSUME \A m \in Messages : -(IntRange \div 2) <= m.parcel
                               /\ m.parcel < IntRange - (IntRange \div 2)
    PROVE  Spec => []PeopleMeet
<1>1. \A m \in Messages : ParcelIn32Bits(m.parcel) = m.parcel
  <2>1. \A m \in Messages : m.parcel \in Int
    BY RequestsAssumption DEF Message
  <2> QED BY <2>1, ParcelKept
<1>2. Init => RoomAsAsked
  BY DEF Init, RoomAsAsked
<1>3. RequestsInv /\ RoomAsAsked /\ [Next]_vars => RoomAsAsked'
  BY RoomAsAskedStep
<1>4. RoomAsAsked => PeopleMeet
  BY <1>1, RoomIsPlace DEF RoomAsAsked, PeopleMeet
<1> QED BY <1>2, <1>3, <1>4, RequestsInvariant, PTL DEF Spec

-----------------------------------------------------------------------------
(* Timestamp: the computed date follows the calendar                       *)

(* Days of an era before the year y, which begins in March                 *)
DaysBefore(y) == 365 * y + y \div 4 - y \div 100

LEMMA Div4 == ASSUME NEW n \in Nat PROVE n \div 4 \in Nat /\ 4 * (n \div 4) <= n /\ n < 4 * (n \div 4) + 4
OBVIOUS
LEMMA Div100 == ASSUME NEW n \in Nat PROVE n \div 100 \in Nat /\ 100 * (n \div 100) <= n /\ n < 100 * (n \div 100) + 100
OBVIOUS

(* The formula for the year of an era finds the year a day is in.          *)
LEMMA YearIsFound ==
    ASSUME NEW doe \in Nat, doe <= 146096
    PROVE  /\ YearOfEra(doe) \in Nat /\ YearOfEra(doe) <= 399
           /\ DaysBefore(YearOfEra(doe)) <= doe
           /\ YearOfEra(doe) < 399 => doe < DaysBefore(YearOfEra(doe) + 1)
<1> DEFINE a == doe \div 1460
           b == doe \div 36524
           c == doe \div 146096
           e == doe - a + b - c
           y == e \div 365
<1>1. a \in Nat /\ 1460 * a <= doe /\ doe < 1460 * a + 1460
  OBVIOUS
<1>2. b \in Nat /\ 36524 * b <= doe /\ doe < 36524 * b + 36524
  OBVIOUS
<1>3. c \in Nat /\ 146096 * c <= doe /\ doe < 146096 * c + 146096
  OBVIOUS
<1> HIDE DEF a, b, c
<1>4. e \in Nat
  BY <1>1, <1>2, <1>3
<1>5. e = doe - a + b - c
  OBVIOUS
<1> HIDE DEF e
<1>6. y \in Nat /\ 365 * y <= e /\ e < 365 * y + 365
  BY <1>4
<1> HIDE DEF y
<1>7. y \div 4 \in Nat /\ 4 * (y \div 4) <= y /\ y < 4 * (y \div 4) + 4
  BY <1>6, Div4
<1>8. y \div 100 \in Nat /\ 100 * (y \div 100) <= y /\ y < 100 * (y \div 100) + 100
  BY <1>6, Div100
<1>9. (y + 1) \div 4 \in Nat /\ 4 * ((y + 1) \div 4) <= y + 1 /\ y + 1 < 4 * ((y + 1) \div 4) + 4
  BY <1>6, Div4
<1>10. (y + 1) \div 100 \in Nat /\ 100 * ((y + 1) \div 100) <= y + 1 /\ y + 1 < 100 * ((y + 1) \div 100) + 100
  BY <1>6, Div100
<1> DEFINE u == y \div 4
           v == y \div 100
           u1 == (y + 1) \div 4
           v1 == (y + 1) \div 100
<1>11. /\ u \in Nat /\ 4 * u <= y /\ y < 4 * u + 4
       /\ v \in Nat /\ 100 * v <= y /\ y < 100 * v + 100
       /\ u1 \in Nat /\ 4 * u1 <= y + 1 /\ y + 1 < 4 * u1 + 4
       /\ v1 \in Nat /\ 100 * v1 <= y + 1 /\ y + 1 < 100 * v1 + 100
  BY <1>7, <1>8, <1>9, <1>10
<1> HIDE DEF u, v, u1, v1
<1>12. y <= 399 /\ 365 * y + u - v <= doe /\ (y < 399 => doe < 365 * (y + 1) + u1 - v1)
  BY <1>1, <1>2, <1>3, <1>5, <1>6, <1>11
<1> QED BY <1>6, <1>12 DEF y, e, a, b, c, u, v, u1, v1, YearOfEra, DaysBefore

LEMMA NextQuotient ==
    ASSUME NEW n \in Nat
    PROVE  /\ (n + 1) \div 4 = n \div 4 + (IF (n + 1) % 4 = 0 THEN 1 ELSE 0)
           /\ (n + 1) \div 100 = n \div 100 + (IF (n + 1) % 100 = 0 THEN 1 ELSE 0)
OBVIOUS

(* The length of a year from March to the end of February                  *)
LEMMA YearLength ==
    ASSUME NEW y \in Nat, y < 399
    PROVE  DaysBefore(y + 1) = DaysBefore(y) + (IF LeapYear(y + 1) THEN 366 ELSE 365)
<1>1. y \div 4 \in Nat /\ y \div 100 \in Nat
  BY Div4, Div100
<1>2. (y + 1) % 400 # 0
  OBVIOUS
<1>3. (y + 1) % 100 = 0 => (y + 1) % 4 = 0
  OBVIOUS
<1> QED BY <1>1, <1>2, <1>3, NextQuotient DEF DaysBefore, LeapYear

LEMMA YearsGrow ==
    ASSUME NEW x \in Nat, NEW y \in Nat, x <= y
    PROVE  DaysBefore(x) \in Int /\ DaysBefore(x) <= DaysBefore(y)
<1> DEFINE a == x \div 4
           b == x \div 100
           c == y \div 4
           d == y \div 100
<1>1. /\ a \in Nat /\ 4 * a <= x /\ x < 4 * a + 4
      /\ b \in Nat /\ 100 * b <= x /\ x < 100 * b + 100
      /\ c \in Nat /\ 4 * c <= y /\ y < 4 * c + 4
      /\ d \in Nat /\ 100 * d <= y /\ y < 100 * d + 100
  BY Div4, Div100
<1> HIDE DEF a, b, c, d
<1>2. 365 * x + a - b \in Int /\ 365 * x + a - b <= 365 * y + c - d
  BY <1>1
<1> QED BY <1>2 DEF a, b, c, d, DaysBefore

LEMMA OnlyYear ==
    ASSUME NEW doe \in Nat, doe <= 146096, NEW y \in Nat, y <= 399,
           DaysBefore(y) <= doe, y < 399 => doe < DaysBefore(y + 1)
    PROVE  YearOfEra(doe) = y
<1> DEFINE w == YearOfEra(doe)
<1>1. /\ w \in Nat /\ w <= 399 /\ DaysBefore(w) <= doe
      /\ w < 399 => doe < DaysBefore(w + 1)
  BY YearIsFound
<1> HIDE DEF w
<1>2. CASE w < y
  <2>1. w + 1 \in Nat /\ w + 1 <= y
    BY <1>1, <1>2
  <2>2. DaysBefore(w + 1) <= DaysBefore(y) /\ DaysBefore(w + 1) \in Int /\ DaysBefore(y) \in Int
    BY <2>1, YearsGrow
  <2> QED BY <1>1, <1>2, <2>2
<1>3. CASE y < w
  <2>1. y + 1 \in Nat /\ y + 1 <= w
    BY <1>1, <1>3
  <2>2. DaysBefore(y + 1) <= DaysBefore(w) /\ DaysBefore(y + 1) \in Int /\ DaysBefore(w) \in Int
    BY <2>1, <1>1, YearsGrow
  <2> QED BY <1>1, <1>3, <2>2
<1> QED BY <1>1, <1>2, <1>3 DEF w

LEMMA DayIsFound ==
    ASSUME NEW doe \in Nat, doe <= 146096
    PROVE  /\ DayOfYear(doe) = doe - DaysBefore(YearOfEra(doe))
           /\ DayOfYear(doe) \in Nat /\ DayOfYear(doe) <= 365
           /\ DayOfYear(doe) = 365 => LeapYear(YearOfEra(doe) + 1)
<1> DEFINE y == YearOfEra(doe)
<1>1. y \in Nat /\ y <= 399 /\ DaysBefore(y) <= doe /\ (y < 399 => doe < DaysBefore(y + 1))
  BY YearIsFound
<1>2. DayOfYear(doe) = doe - DaysBefore(y)
  BY DEF DayOfYear, DaysBefore
<1>3. DaysBefore(y) \in Int
  BY <1>1, YearsGrow
<1> HIDE DEF y
<1>4. CASE y = 399
  <2>1. DaysBefore(y) = 145731 /\ LeapYear(y + 1)
    BY <1>4 DEF DaysBefore, LeapYear
  <2> QED BY <1>1, <1>2, <2>1 DEF y
<1>5. CASE y < 399
  <2>1. DaysBefore(y + 1) = DaysBefore(y) + (IF LeapYear(y + 1) THEN 366 ELSE 365)
    BY <1>1, <1>5, YearLength
  <2> QED BY <1>1, <1>2, <1>3, <1>5, <2>1 DEF y
<1> QED BY <1>1, <1>4, <1>5

(* An era's years have the lengths of those of the first one.              *)
LEMMA LeapInEra ==
    ASSUME NEW w \in Nat, NEW e \in Nat
    PROVE  LeapYear(w + e * 400 + 1) <=> LeapYear(w + 1)
<1>1. /\ (w + e * 400 + 1) % 4 = (w + 1) % 4
      /\ (w + e * 400 + 1) % 100 = (w + 1) % 100
      /\ (w + e * 400 + 1) % 400 = (w + 1) % 400
  OBVIOUS
<1> QED BY <1>1 DEF LeapYear

(* The year, from March on, and the day of it, of a day since 1970         *)
YearFromMarch(n) == YearOfEra(DayOfEra(n)) + Era(n) * 400
DayFromMarch(n) == DayOfYear(DayOfEra(n))

LEMMA EraAndDay ==
    ASSUME NEW n \in Nat
    PROVE  /\ Era(n) \in Nat /\ DayOfEra(n) \in Nat /\ DayOfEra(n) <= 146096
           /\ IF DayOfEra(n) = 146096
                THEN Era(n + 1) = Era(n) + 1 /\ DayOfEra(n + 1) = 0
                ELSE Era(n + 1) = Era(n) /\ DayOfEra(n + 1) = DayOfEra(n) + 1
BY DEF Era, DayOfEra

LEMMA OneDayOn ==
    ASSUME NEW n \in Nat
    PROVE  /\ YearFromMarch(n) \in Nat
           /\ DayFromMarch(n) \in Nat /\ DayFromMarch(n) <= 365
           /\ DayFromMarch(n) = 365 => LeapYear(YearFromMarch(n) + 1)
           /\ IF DayFromMarch(n) < 364 \/ (DayFromMarch(n) = 364 /\ LeapYear(YearFromMarch(n) + 1))
                THEN /\ YearFromMarch(n + 1) = YearFromMarch(n)
                     /\ DayFromMarch(n + 1) = DayFromMarch(n) + 1
                ELSE /\ YearFromMarch(n + 1) = YearFromMarch(n) + 1
                     /\ DayFromMarch(n + 1) = 0
<1> DEFINE e == Era(n)
           doe == DayOfEra(n)
           w == YearOfEra(doe)
           d == DayOfYear(doe)
<1>1. e \in Nat /\ doe \in Nat /\ doe <= 146096
  BY EraAndDay
<1>2. /\ w \in Nat /\ w <= 399 /\ DaysBefore(w) <= doe
      /\ w < 399 => doe < DaysBefore(w + 1)
  BY <1>1, YearIsFound
<1>3. d = doe - DaysBefore(w) /\ d \in Nat /\ d <= 365 /\ (d = 365 => LeapYear(w + 1))
  BY <1>1, DayIsFound
<1>4. YearFromMarch(n) = w + e * 400 /\ DayFromMarch(n) = d
  BY DEF YearFromMarch, DayFromMarch
<1>6. DaysBefore(w) \in Int
  BY <1>2, YearsGrow
<1>7. w < 399 => DaysBefore(w + 1) = DaysBefore(w) + (IF LeapYear(w + 1) THEN 366 ELSE 365)
  BY <1>2, YearLength
<1>8. DaysBefore(399) = 145731 /\ LeapYear(400) /\ DaysBefore(0) = 0 /\ DaysBefore(1) = 365
  BY DEF DaysBefore, LeapYear
<1> HIDE DEF e, doe, w, d
<1>5. LeapYear(YearFromMarch(n) + 1) <=> LeapYear(w + 1)
  BY <1>1, <1>2, <1>4, LeapInEra
<1>9. CASE doe = 146096
  <2>1. Era(n + 1) = e + 1 /\ DayOfEra(n + 1) = 0
    BY <1>9, EraAndDay DEF e, doe
  <2>2. YearOfEra(0) = 0
    BY <1>8, OnlyYear
  <2>3. DayOfYear(0) = 0
    BY <2>2, <1>8, DayIsFound
  <2>4. w = 399
    <3>1. w < 399 => w + 1 \in Nat /\ w + 1 <= 399
      BY <1>2
    <3>2. w < 399 => DaysBefore(w + 1) <= DaysBefore(399)
      BY <3>1, YearsGrow
    <3> QED BY <1>2, <1>8, <1>9, <1>7, <1>6, <3>2
  <2>5. d = 365
    BY <1>3, <1>8, <1>9, <2>4
  <2> QED BY <1>1, <1>3, <1>4, <1>5, <2>1, <2>2, <2>3, <2>4, <2>5 DEF YearFromMarch, DayFromMarch
<1>10. CASE doe # 146096
  <2>1. Era(n + 1) = e /\ DayOfEra(n + 1) = doe + 1 /\ doe + 1 \in Nat /\ doe + 1 <= 146096
    BY <1>1, <1>10, EraAndDay DEF e, doe
  <2>2. CASE d < 364 \/ (d = 364 /\ LeapYear(w + 1))
    <3>1. w < 399 => doe + 1 < DaysBefore(w + 1)
      BY <1>1, <1>3, <1>6, <1>7, <2>2
    <3>2. YearOfEra(doe + 1) = w
      <4>1. DaysBefore(w) <= doe + 1
        BY <1>1, <1>2, <1>6
      <4> QED BY <2>1, <1>2, <3>1, <4>1, OnlyYear
    <3>3. DayOfYear(doe + 1) = d + 1
      BY <2>1, <3>2, <1>1, <1>3, <1>6, DayIsFound
    <3> QED BY <1>1, <1>2, <1>3, <1>4, <1>5, <2>1, <2>2, <3>2, <3>3 DEF YearFromMarch, DayFromMarch
  <2>3. CASE ~(d < 364 \/ (d = 364 /\ LeapYear(w + 1)))
    <3>1. w # 399
      BY <1>1, <1>3, <1>8, <1>10, <2>3
    <3>2. w < 399 /\ w + 1 \in Nat /\ w + 1 <= 399
      BY <1>2, <3>1
    <3>3. DaysBefore(w + 1) = doe + 1
      BY <1>1, <1>3, <1>6, <1>7, <2>3, <3>2
    <3>4. w + 1 < 399 => DaysBefore(w + 1) < DaysBefore((w + 1) + 1)
      <4>1. w + 1 < 399 => DaysBefore((w + 1) + 1) = DaysBefore(w + 1)
                             + (IF LeapYear((w + 1) + 1) THEN 366 ELSE 365)
        BY <3>2, YearLength
      <4> QED BY <4>1, <3>3, <1>1
    <3>5. YearOfEra(doe + 1) = w + 1
      <4>1. DaysBefore(w + 1) <= doe + 1 /\ (w + 1 < 399 => doe + 1 < DaysBefore((w + 1) + 1))
        BY <3>3, <3>4, <1>1
      <4> QED BY <2>1, <3>2, <4>1, OnlyYear
    <3>6. DayOfYear(doe + 1) = 0
      BY <2>1, <3>3, <3>5, <1>1, DayIsFound
    <3>7. YearFromMarch(n + 1) = (w + 1) + e * 400 /\ DayFromMarch(n + 1) = 0
      BY <2>1, <3>5, <3>6 DEF YearFromMarch, DayFromMarch
    <3> QED BY <1>1, <1>2, <1>3, <1>4, <1>5, <2>3, <3>7
  <2> QED BY <2>2, <2>3
<1> QED BY <1>9, <1>10

-----------------------------------------------------------------------------
(* The date of a day of a year from March on                               *)
Civil(y, d) ==
    LET mp == (5 * d + 2) \div 153
        m == IF mp < 10 THEN mp + 3 ELSE mp - 9
    IN  [year |-> IF m <= 2 THEN y + 1 ELSE y, month |-> m, day |-> d - (153 * mp + 2) \div 5 + 1]

LEMMA MonthIsFound ==
    ASSUME NEW d \in Nat, d <= 365
    PROVE  LET mp == (5 * d + 2) \div 153
           IN  /\ mp \in Nat /\ mp <= 11
               /\ (153 * mp + 2) \div 5 <= d /\ d < (153 * (mp + 1) + 2) \div 5
<1> DEFINE mp == (5 * d + 2) \div 153
           f == (153 * mp + 2) \div 5
           g == (153 * (mp + 1) + 2) \div 5
<1>1. mp \in Nat /\ 153 * mp <= 5 * d + 2 /\ 5 * d + 2 < 153 * mp + 153
  OBVIOUS
<1> HIDE DEF mp
<1>2. f \in Nat /\ 5 * f <= 153 * mp + 2 /\ 153 * mp + 2 < 5 * f + 5
  BY <1>1
<1>3. g \in Nat /\ 5 * g <= 153 * (mp + 1) + 2 /\ 153 * (mp + 1) + 2 < 5 * g + 5
  BY <1>1
<1> HIDE DEF f, g
<1>4. mp <= 11 /\ f <= d /\ d < g
  BY <1>1, <1>2, <1>3
<1> QED BY <1>1, <1>4 DEF mp, f, g

FirstDay(k) == (153 * k + 2) \div 5
MonthOf(k) == IF k < 10 THEN k + 3 ELSE k - 9

LEMMA FirstDays ==
    /\ FirstDay(0) = 0 /\ FirstDay(1) = 31 /\ FirstDay(2) = 61 /\ FirstDay(3) = 92
    /\ FirstDay(4) = 122 /\ FirstDay(5) = 153 /\ FirstDay(6) = 184 /\ FirstDay(7) = 214
    /\ FirstDay(8) = 245 /\ FirstDay(9) = 275 /\ FirstDay(10) = 306 /\ FirstDay(11) = 337
    /\ FirstDay(12) = 367
BY DEF FirstDay

LEMMA MonthsGrow ==
    ASSUME NEW j \in Nat, NEW k \in Nat, j <= k
    PROVE  FirstDay(j) \in Nat /\ FirstDay(j) <= FirstDay(k)
BY DEF FirstDay

LEMMA CivilIs ==
    ASSUME NEW y \in Nat, NEW d \in Nat, d <= 365, NEW k \in Nat, k <= 11,
           FirstDay(k) <= d, d < FirstDay(k + 1)
    PROVE  Civil(y, d) = [year |-> IF k < 10 THEN y ELSE y + 1, month |-> MonthOf(k),
                          day |-> d - FirstDay(k) + 1]
<1> DEFINE mp == (5 * d + 2) \div 153
<1>1. mp \in Nat /\ mp <= 11 /\ FirstDay(mp) <= d /\ d < FirstDay(mp + 1)
  BY MonthIsFound DEF FirstDay
<1>2. Civil(y, d) = [year |-> IF MonthOf(mp) <= 2 THEN y + 1 ELSE y, month |-> MonthOf(mp),
                     day |-> d - FirstDay(mp) + 1]
  BY DEF Civil, MonthOf, FirstDay
<1> HIDE DEF mp
<1>3. CASE mp < k
  <2>1. mp + 1 \in Nat /\ mp + 1 <= k
    BY <1>1, <1>3
  <2>2. FirstDay(mp + 1) \in Nat /\ FirstDay(mp + 1) <= FirstDay(k) /\ FirstDay(k) \in Nat
    BY <2>1, MonthsGrow
  <2> QED BY <1>1, <2>2
<1>4. CASE k < mp
  <2>1. k + 1 \in Nat /\ k + 1 <= mp
    BY <1>1, <1>4
  <2>2. FirstDay(k + 1) \in Nat /\ FirstDay(k + 1) <= FirstDay(mp) /\ FirstDay(mp) \in Nat
    BY <2>1, <1>1, MonthsGrow
  <2> QED BY <1>1, <2>2
<1>5. CASE mp = k
  BY <1>2, <1>5 DEF MonthOf
<1> QED BY <1>1, <1>3, <1>4, <1>5

(* The months from March to January have the lengths the table says.       *)
LEMMA MonthsAreLong ==
    ASSUME NEW year \in Nat, NEW k \in Nat, k <= 10
    PROVE  /\ MonthLength(year, MonthOf(k)) = FirstDay(k + 1) - FirstDay(k)
           /\ MonthOf(k + 1) = IF k = 9 THEN 1 ELSE MonthOf(k) + 1
           /\ MonthOf(k) <= 12 /\ (MonthOf(k) = 12 <=> k = 9)
<1>1. k = 0 \/ k = 1 \/ k = 2 \/ k = 3 \/ k = 4 \/ k = 5 \/ k = 6 \/ k = 7 \/ k = 8 \/ k = 9 \/ k = 10
  OBVIOUS
<1> QED BY <1>1, FirstDays DEF MonthLength, MonthOf

LEMMA TomorrowOf ==
    ASSUME NEW y, NEW m, NEW d
    PROVE  Tomorrow([year |-> y, month |-> m, day |-> d]) =
             IF d < MonthLength(y, m) THEN [year |-> y, month |-> m, day |-> d + 1]
             ELSE IF m < 12 THEN [year |-> y, month |-> m + 1, day |-> 1]
             ELSE [year |-> y + 1, month |-> 1, day |-> 1]
BY DEF Tomorrow

LEMMA TomorrowIsFound ==
    ASSUME NEW y \in Nat, NEW d \in Nat, d <= 365, d = 365 => LeapYear(y + 1)
    PROVE  Tomorrow(Civil(y, d)) =
             IF d < 364 \/ (d = 364 /\ LeapYear(y + 1)) THEN Civil(y, d + 1) ELSE Civil(y + 1, 0)
<1> DEFINE k == (5 * d + 2) \div 153
<1>1. k \in Nat /\ k <= 11 /\ FirstDay(k) <= d /\ d < FirstDay(k + 1)
  BY MonthIsFound DEF FirstDay
<1> HIDE DEF k
<1>2. FirstDay(k) \in Nat /\ FirstDay(k + 1) \in Nat
  BY <1>1, MonthsGrow
<1> DEFINE year == IF k < 10 THEN y ELSE y + 1
<1>3. Civil(y, d) = [year |-> year, month |-> MonthOf(k), day |-> d - FirstDay(k) + 1]
  BY <1>1, CivilIs
<1>4. CASE k <= 10
  <2>0. year \in Nat
    OBVIOUS
  <2>1. /\ MonthLength(year, MonthOf(k)) = FirstDay(k + 1) - FirstDay(k)
        /\ MonthOf(k + 1) = IF k = 9 THEN 1 ELSE MonthOf(k) + 1
        /\ MonthOf(k) <= 12 /\ (MonthOf(k) = 12 <=> k = 9)
    BY <1>1, <1>4, <2>0, MonthsAreLong
  <2>2. FirstDay(k + 1) <= 337
    BY <1>1, <1>4, FirstDays, MonthsGrow
  <2>3. d < 364 /\ d + 1 \in Nat /\ d + 1 <= 365
    BY <1>1, <1>2, <2>2
  <2>4. CASE d + 1 < FirstDay(k + 1)
    <3>1. Civil(y, d + 1) = [year |-> year, month |-> MonthOf(k), day |-> d + 1 - FirstDay(k) + 1]
      BY <1>1, <1>2, <2>3, <2>4, CivilIs
    <3> QED BY <1>2, <1>3, <2>1, <2>3, <2>4, <3>1 DEF Tomorrow
  <2>5. CASE d + 1 = FirstDay(k + 1)
    <3>1. k + 1 \in Nat /\ k + 1 <= 11 /\ FirstDay(k + 1) < FirstDay(k + 1 + 1)
      <4>1. k = 0 \/ k = 1 \/ k = 2 \/ k = 3 \/ k = 4 \/ k = 5 \/ k = 6 \/ k = 7 \/ k = 8 \/ k = 9 \/ k = 10
        BY <1>1, <1>4
      <4> QED BY <4>1, FirstDays
    <3>2. Civil(y, d + 1) = [year |-> IF k + 1 < 10 THEN y ELSE y + 1, month |-> MonthOf(k + 1),
                             day |-> d + 1 - FirstDay(k + 1) + 1]
      BY <2>3, <2>5, <3>1, CivilIs
    <3>3. d - FirstDay(k) + 1 = MonthLength(year, MonthOf(k)) /\ d + 1 - FirstDay(k + 1) + 1 = 1
      BY <1>2, <2>1, <2>5
    <3>4. Tomorrow(Civil(y, d)) =
            IF MonthOf(k) < 12 THEN [year |-> year, month |-> MonthOf(k) + 1, day |-> 1]
            ELSE [year |-> year + 1, month |-> 1, day |-> 1]
      <4>1. ~(d - FirstDay(k) + 1 < MonthLength(year, MonthOf(k)))
        BY <1>2, <2>1, <3>3
      <4> QED BY <1>3, <4>1, TomorrowOf
    <3>5. CASE k = 9
      BY <2>0, <2>1, <2>3, <3>2, <3>3, <3>4, <3>5
    <3>6. CASE k # 9
      <4>1. MonthOf(k) < 12 /\ year = IF k + 1 < 10 THEN y ELSE y + 1
        BY <1>1, <1>4, <2>1, <3>6 DEF MonthOf
      <4> QED BY <2>1, <2>3, <3>2, <3>3, <3>4, <3>6, <4>1
    <3> QED BY <3>5, <3>6
  <2> QED BY <1>1, <1>2, <2>4, <2>5
<1>5. CASE k = 11
  <2>1. FirstDay(k) = 337 /\ MonthOf(k) = 2 /\ year = y + 1
    BY <1>5, FirstDays DEF MonthOf
  <2>2. MonthLength(y + 1, 2) = IF LeapYear(y + 1) THEN 29 ELSE 28
    BY DEF MonthLength
  <2>3. CASE d < 364 \/ (d = 364 /\ LeapYear(y + 1))
    <3>1. d + 1 \in Nat /\ d + 1 <= 365 /\ d + 1 < FirstDay(k + 1)
      BY <1>5, <2>3, FirstDays
    <3>2. Civil(y, d + 1) = [year |-> year, month |-> MonthOf(k), day |-> d + 1 - FirstDay(k) + 1]
      BY <1>1, <1>2, <3>1, CivilIs
    <3> QED BY <1>3, <2>1, <2>2, <2>3, <3>2 DEF Tomorrow
  <2>4. CASE ~(d < 364 \/ (d = 364 /\ LeapYear(y + 1)))
    <3>1. Civil(y + 1, 0) = [year |-> y + 1, month |-> 3, day |-> 1]
      <4>1. y + 1 \in Nat /\ 0 \in Nat /\ 0 <= 365 /\ 0 <= 11
        OBVIOUS
      <4>0. 0 + 1 = 1
        OBVIOUS
      <4>2. FirstDay(0) <= 0 /\ 0 < FirstDay(0 + 1) /\ 0 - FirstDay(0) + 1 = 1 /\ MonthOf(0) = 3
        BY <4>0, FirstDays DEF MonthOf
      <4>3. Civil(y + 1, 0) = [year |-> IF 0 < 10 THEN y + 1 ELSE y + 1 + 1, month |-> MonthOf(0),
                               day |-> 0 - FirstDay(0) + 1]
        BY <4>1, <4>2, CivilIs
      <4> QED BY <4>2, <4>3
    <3>2. ~(d - 337 + 1 < MonthLength(y + 1, 2))
      BY <2>2, <2>4
    <3>3. Tomorrow(Civil(y, d)) = [year |-> y + 1, month |-> 3, day |-> 1]
      <4>1. Civil(y, d) = [year |-> y + 1, month |-> 2, day |-> d - 337 + 1]
        BY <1>3, <2>1
      <4>2. 2 < 12 /\ 2 + 1 = 3
        OBVIOUS
      <4> QED BY <3>2, <4>1, <4>2, TomorrowOf
    <3> QED BY <2>4, <3>1, <3>3
  <2> QED BY <2>3, <2>4
<1> QED BY <1>1, <1>4, <1>5

(* Each day the computed date is the one after yesterday's.                *)
LEMMA CivilFollows ==
    ASSUME NEW n \in Nat
    PROVE  CivilFromDays(n + 1) = Tomorrow(CivilFromDays(n))
<1>1. \A i \in Nat : CivilFromDays(i) = Civil(YearFromMarch(i), DayFromMarch(i))
  BY DEF CivilFromDays, Civil, YearFromMarch, DayFromMarch
<1>2. n + 1 \in Nat
  OBVIOUS
<1> DEFINE y == YearFromMarch(n)
           d == DayFromMarch(n)
<1>3. /\ y \in Nat /\ d \in Nat /\ d <= 365 /\ (d = 365 => LeapYear(y + 1))
      /\ IF d < 364 \/ (d = 364 /\ LeapYear(y + 1))
           THEN YearFromMarch(n + 1) = y /\ DayFromMarch(n + 1) = d + 1
           ELSE YearFromMarch(n + 1) = y + 1 /\ DayFromMarch(n + 1) = 0
  BY OneDayOn
<1> HIDE DEF y, d
<1>4. Tomorrow(Civil(y, d)) =
        IF d < 364 \/ (d = 364 /\ LeapYear(y + 1)) THEN Civil(y, d + 1) ELSE Civil(y + 1, 0)
  BY <1>3, TomorrowIsFound
<1> QED BY <1>1, <1>2, <1>3, <1>4 DEF y, d

LEMMA FirstDate == CivilFromDays(0) = [year |-> 1970, month |-> 1, day |-> 1]
<1>1. Era(0) = 4 /\ DayOfEra(0) = 135080
  BY DEF Era, DayOfEra
<1>2. YearOfEra(135080) = 369
  BY DEF YearOfEra
<1>3. DayOfYear(135080) = 306
  BY <1>2 DEF DayOfYear
<1> QED BY <1>1, <1>2, <1>3 DEF CivilFromDays

DateInv == days \in Nat /\ DateIsCivil

LEMMA DateInvariance ==
    /\ DateInit => DateInv
    /\ DateInv /\ [DateNext]_dateVars => DateInv'
<1>1. DateInit => DateInv
  BY FirstDate DEF DateInit, DateInv, DateIsCivil
<1>2. DateInv /\ [DateNext]_dateVars => DateInv'
  BY CivilFollows DEF DateInv, DateIsCivil, DateNext, NextDay, dateVars
<1> QED BY <1>1, <1>2

-----------------------------------------------------------------------------
(* LogControl: the settings and the lines about microphones                *)

(* A status that is being read has read, or is about to read, values that  *)
(* were in force since its request took effect.                            *)
StatusCurrent == \A a \in Admins :
    /\ admin[a].step = "status" => level \in admin[a].levels
    /\ admin[a].step = "mode" => admin[a].level \in admin[a].levels
    /\ admin[a].step \in {"status", "mode"} => micMode \in admin[a].modes

(* was_speaking follows the level, and the last line follows was_speaking. *)
LineFollows == \A s \in Speakers :
    /\ wasSpeaking[s] <=> heard[s] > Threshold
    /\ ~hidden[s] => (line[s] = "started" <=> wasSpeaking[s])

LogInv == LogTypeOK /\ StatusCurrent /\ LineFollows

AdminRecords ==
    [step : {"idle", "body", "status", "mode"}, req : SUBSET AdminRequests,
     level : LogLevels, levels : SUBSET LogLevels, modes : SUBSET MicModes]
Answers == [status : {0, 200, 400, 404, 413}, level : LogLevels, mode : MicModes]

LEMMA LogRecords ==
    /\ \A step \in {"idle", "body", "status", "mode"}, req \in SUBSET AdminRequests,
          l \in LogLevels, levels \in SUBSET LogLevels, modes \in SUBSET MicModes :
         At(step, req, l, levels, modes) \in AdminRecords
    /\ Idle \in AdminRecords /\ NoAnswer \in Answers
    /\ \A n \in {400, 404, 413} : [NoAnswer EXCEPT !.status = n] \in Answers
    /\ \A l \in LogLevels, m \in MicModes : [status |-> 200, level |-> l, mode |-> m] \in Answers
    /\ {"error", "off"} \subseteq LogLevels
BY DEF At, Idle, NoAnswer, AdminRecords, Answers, LogLevels, MicModes, Severity

(* What a request that parses stores is a setting.                         *)
LEMMA StoredIsSetting ==
    ASSUME level \in LogLevels, micMode \in MicModes, NEW r, Parses(r), Sets(r)
    PROVE  level' \in LogLevels /\ micMode' \in MicModes
BY DEF Parses, Sets

(* An answer ends what its connection was at, and touches nothing else.    *)
LEMMA ReplyKeeps ==
    ASSUME LogInv, NEW a \in Admins, NEW ans \in Answers, Reply(a, ans), UNCHANGED <<settings, micVars>>
    PROVE  LogInv'
<1>1. LogTypeOK
  BY DEF LogInv
<1>2. LogTypeOK'
  BY <1>1, LogRecords DEF LogTypeOK, Reply, settings, micVars, AdminRecords, Answers
<1>3. /\ admin'[a].step = "idle"
      /\ \A b \in Admins : b # a => admin'[b] = admin[b]
  BY <1>1 DEF LogTypeOK, Reply, Idle, At
<1>4. StatusCurrent' /\ LineFollows'
  BY <1>3 DEF LogInv, StatusCurrent, LineFollows, settings, micVars
<1> QED BY <1>2, <1>4 DEF LogInv

(* The value is stored, and every status being read takes note of it.      *)
LEMMA ApplyKeeps ==
    ASSUME LogInv, NEW a \in Admins, Apply(a)
    PROVE  LogInv'
<1>1. PICK r \in admin[a].req :
        /\ UNCHANGED micVars
        /\ \/ /\ Parses(r) /\ Sets(r) /\ UNCHANGED answer
              /\ admin' = [b \in Admins |->
                   IF b = a THEN At("status", {r}, "off", {level'}, {micMode'})
                   ELSE At(admin[b].step, admin[b].req, admin[b].level,
                           admin[b].levels \cup {level'}, admin[b].modes \cup {micMode'})]
           \/ \E n \in {400, 413} : Decline(a, n)
  BY DEF Apply
<1>2. /\ level \in LogLevels /\ micMode \in MicModes
      /\ \A b \in Admins : /\ admin[b].step \in {"idle", "body", "status", "mode"}
                           /\ admin[b].req \in SUBSET AdminRequests
                           /\ admin[b].level \in LogLevels
                           /\ admin[b].levels \in SUBSET LogLevels
                           /\ admin[b].modes \in SUBSET MicModes
  BY DEF LogInv, LogTypeOK
<1>3. CASE /\ Parses(r) /\ Sets(r) /\ UNCHANGED answer
           /\ admin' = [b \in Admins |->
                IF b = a THEN At("status", {r}, "off", {level'}, {micMode'})
                ELSE At(admin[b].step, admin[b].req, admin[b].level,
                        admin[b].levels \cup {level'}, admin[b].modes \cup {micMode'})]
  <2>1. level' \in LogLevels /\ micMode' \in MicModes
    BY <1>2, <1>3, StoredIsSetting
  <2>2. At("status", {r}, "off", {level'}, {micMode'}) \in AdminRecords
    BY <1>1, <1>2, <2>1, LogRecords
  <2>3. \A b \in Admins : At(admin[b].step, admin[b].req, admin[b].level,
                             admin[b].levels \cup {level'}, admin[b].modes \cup {micMode'}) \in AdminRecords
    BY <1>2, <2>1, LogRecords
  <2>4. admin' \in [Admins -> AdminRecords]
    BY <1>3, <2>2, <2>3
  <2>5. LogTypeOK'
    BY <1>1, <1>3, <2>1, <2>4 DEF LogInv, LogTypeOK, micVars, AdminRecords
  <2>6. \A b \in Admins :
          /\ b = a => admin'[b].step = "status" /\ admin'[b].levels = {level'} /\ admin'[b].modes = {micMode'}
          /\ b # a => /\ admin'[b].step = admin[b].step /\ admin'[b].level = admin[b].level
                      /\ admin'[b].levels = admin[b].levels \cup {level'}
                      /\ admin'[b].modes = admin[b].modes \cup {micMode'}
    BY <1>3 DEF At
  <2>7. StatusCurrent'
    BY <2>6 DEF LogInv, StatusCurrent
  <2>8. LineFollows'
    BY <1>1 DEF LogInv, LineFollows, micVars
  <2> QED BY <2>5, <2>7, <2>8 DEF LogInv
<1>4. CASE \E n \in {400, 413} : Decline(a, n)
  BY <1>1, <1>4, ReplyKeeps, LogRecords DEF Decline
<1> QED BY <1>1, <1>3, <1>4

LEMMA AdminKeeps ==
    ASSUME LogInv, NEW a \in Admins,
           \/ StatusLevel(a) \/ StatusMode(a)
           \/ \E r \in AdminRequests : AdminRequest(a, r)
    PROVE  LogInv'
<1>1. /\ level \in LogLevels /\ micMode \in MicModes /\ admin[a] \in AdminRecords
      /\ admin \in [Admins -> AdminRecords] /\ answer \in [Admins -> Answers]
  BY DEF LogInv, LogTypeOK, AdminRecords, Answers
<1>2. ASSUME NEW x \in AdminRecords, admin' = [admin EXCEPT ![a] = x], answer' \in [Admins -> Answers],
             UNCHANGED <<settings, micVars>>,
             x.step = "status" => level \in x.levels,
             x.step = "mode" => x.level \in x.levels,
             x.step \in {"status", "mode"} => micMode \in x.modes
      PROVE  LogInv'
  <2>1. LogTypeOK'
    BY <1>1, <1>2 DEF LogInv, LogTypeOK, settings, micVars, AdminRecords, Answers
  <2>2. \A b \in Admins : admin'[b] = IF b = a THEN x ELSE admin[b]
    BY <1>1, <1>2
  <2>3. StatusCurrent' /\ LineFollows'
    BY <1>2, <2>2 DEF LogInv, StatusCurrent, LineFollows, settings, micVars
  <2> QED BY <2>1, <2>3 DEF LogInv
<1>3. CASE StatusLevel(a)
  <2> DEFINE x == At("mode", admin[a].req, level, admin[a].levels, admin[a].modes)
  <2>1. x \in AdminRecords
    BY <1>1, LogRecords DEF AdminRecords
  <2>2. admin' = [admin EXCEPT ![a] = x] /\ UNCHANGED <<settings, answer, micVars>> /\ admin[a].step = "status"
    BY <1>3 DEF StatusLevel
  <2>3. x.step = "mode" /\ x.level = level /\ x.levels = admin[a].levels /\ x.modes = admin[a].modes
    BY DEF At
  <2>4. level \in admin[a].levels /\ micMode \in admin[a].modes
    BY <2>2 DEF LogInv, StatusCurrent
  <2> HIDE DEF x
  <2> QED BY <1>1, <1>2, <2>1, <2>2, <2>3, <2>4
<1>4. CASE StatusMode(a)
  <2>1. admin[a].level \in LogLevels
    BY <1>1 DEF AdminRecords
  <2> QED BY <1>1, <1>4, <2>1, ReplyKeeps, LogRecords DEF StatusMode
<1>5. ASSUME NEW r \in AdminRequests, AdminRequest(a, r) PROVE LogInv'
  <2>1. CASE Decline(a, 404)
    BY <1>5, <2>1, ReplyKeeps, LogRecords DEF Decline, AdminRequest
  <2>2. CASE ~Decline(a, 404)
    <3>1. PICK x \in {At("body", {r}, "off", {}, {}), At("status", {r}, "off", {level}, {micMode})} :
            admin' = [admin EXCEPT ![a] = x]
      BY <1>5, <2>2 DEF AdminRequest
    <3>2. answer' = [answer EXCEPT ![a] = NoAnswer] /\ UNCHANGED <<settings, micVars>>
      BY <1>5, <2>2 DEF AdminRequest
    <3>3. x \in AdminRecords
      BY <1>1, <3>1, LogRecords
    <3>4. x.step # "mode" /\ (x.step = "status" => level \in x.levels /\ micMode \in x.modes)
      BY <3>1 DEF At
    <3>5. answer' \in [Admins -> Answers]
      BY <1>1, <3>2, LogRecords
    <3> QED BY <1>2, <3>1, <3>2, <3>3, <3>4, <3>5
  <2> QED BY <2>1, <2>2
<1> QED BY <1>3, <1>4, <1>5

(* The flag follows every level, a line only one that is let through.      *)
LEMMA LevelKeeps ==
    ASSUME LogInv, NEW s \in Speakers, NEW l \in Levels, NEW mixed \in BOOLEAN, UpdateLevel(s, l, mixed)
    PROVE  LogInv'
<1> DEFINE speaking == l > Threshold
           changed == speaking # wasSpeaking[s]
           written == changed /\ MicLogAllowed(mixed) /\ Enabled("info")
<1>1. /\ heard' = [heard EXCEPT ![s] = l]
      /\ wasSpeaking' = [wasSpeaking EXCEPT ![s] = speaking]
      /\ line' = [line EXCEPT ![s] = IF ~written THEN line[s] ELSE IF speaking THEN "started" ELSE "stopped"]
      /\ hidden' = [hidden EXCEPT ![s] = ~written /\ (hidden[s] \/ changed)]
      /\ UNCHANGED <<settings, adminVars>>
  BY DEF UpdateLevel
<1>2. /\ heard \in [Speakers -> Levels \cup {0}] /\ line \in [Speakers -> {"none", "started", "stopped"}]
      /\ wasSpeaking \in [Speakers -> BOOLEAN] /\ hidden \in [Speakers -> BOOLEAN]
  BY DEF LogInv, LogTypeOK
<1>3. written => changed
  OBVIOUS
<1>4. speaking \in BOOLEAN /\ changed \in BOOLEAN /\ written \in BOOLEAN
  OBVIOUS
<1>5. changed <=> ~(speaking <=> wasSpeaking[s])
  BY <1>2
<1> HIDE DEF changed, written
<1>6. LogTypeOK'
  BY <1>1, <1>2, <1>4 DEF LogInv, LogTypeOK, settings, adminVars
<1>7. StatusCurrent'
  BY <1>1 DEF LogInv, StatusCurrent, settings, adminVars
<1>8. ASSUME NEW t \in Speakers
      PROVE  /\ wasSpeaking'[t] <=> heard'[t] > Threshold
             /\ ~hidden'[t] => (line'[t] = "started" <=> wasSpeaking'[t])
  <2>1. CASE t # s
    BY <1>1, <1>2, <2>1 DEF LogInv, LineFollows
  <2>2. CASE t = s
    <3>1. ~hidden[s] => (line[s] = "started" <=> wasSpeaking[s])
      BY DEF LogInv, LineFollows
    <3>2. /\ heard'[s] = l /\ (wasSpeaking'[s] <=> speaking)
          /\ hidden'[s] <=> ~written /\ (hidden[s] \/ changed)
          /\ line'[s] = IF ~written THEN line[s] ELSE IF speaking THEN "started" ELSE "stopped"
      BY <1>1, <1>2
    <3> HIDE DEF speaking
    <3>3. ~hidden'[s] => (line'[s] = "started" <=> wasSpeaking'[s])
      BY <1>3, <1>5, <3>1, <3>2
    <3> QED BY <2>2, <3>2, <3>3 DEF speaking
  <2> QED BY <2>1, <2>2
<1> QED BY <1>6, <1>7, <1>8 DEF LogInv, LineFollows

LEMMA LogInvariance ==
    /\ LogInit => LogInv
    /\ LogInv /\ [LogNext]_logVars => LogInv'
<1>1. LogInit => LogInv
  <2> SUFFICES ASSUME LogInit PROVE LogInv
    OBVIOUS
  <2>1. LogTypeOK
    BY LogRecords DEF LogInit, LogTypeOK, AdminRecords, Answers, MicModes
  <2>2. StatusCurrent
    BY DEF LogInit, StatusCurrent, Idle, At
  <2>3. LineFollows
    BY LogAssumption DEF LogInit, LineFollows
  <2> QED BY <2>1, <2>2, <2>3 DEF LogInv
<1>2. LogInv /\ UNCHANGED logVars => LogInv'
  BY DEF LogInv, LogTypeOK, StatusCurrent, LineFollows, logVars, settings, adminVars, micVars
<1>3. LogInv /\ LogNext => LogInv'
  BY ApplyKeeps, AdminKeeps, LevelKeeps DEF LogNext
<1> QED BY <1>1, <1>2, <1>3

(* A request is answered with 200 by the last step of reading a status.    *)
LEMMA AnswerFollows ==
    ASSUME LogInv, [LogNext]_logVars
    PROVE  AnswerIsCurrent
<1> SUFFICES ASSUME NEW a \in Admins, admin[a].step # "idle", answer'[a].status = 200, admin'[a].step = "idle"
             PROVE  answer'[a].level \in admin[a].levels /\ answer'[a].mode \in admin[a].modes
  BY DEF AnswerIsCurrent
<1>1. admin \in [Admins -> AdminRecords] /\ answer \in [Admins -> Answers]
  BY DEF LogInv, LogTypeOK, AdminRecords, Answers
<1>2. ~UNCHANGED admin
  OBVIOUS
<1>3. ASSUME NEW b \in Admins, NEW n \in {400, 404, 413}, Decline(b, n) PROVE FALSE
  BY <1>1, <1>3 DEF Decline, Reply, NoAnswer
<1>4. ASSUME NEW b \in Admins, Apply(b) PROVE FALSE
  <2>1. PICK r \in admin[b].req :
          /\ admin[b].step = "body"
          /\ IF ~r.large /\ Parses(r)
               THEN /\ Sets(r)
                    /\ admin' = [c \in Admins |->
                         IF c = b THEN At("status", {r}, "off", {level'}, {micMode'})
                         ELSE At(admin[c].step, admin[c].req, admin[c].level,
                                 admin[c].levels \cup {level'}, admin[c].modes \cup {micMode'})]
                    /\ UNCHANGED answer
               ELSE Decline(b, IF r.large THEN 413 ELSE 400)
          /\ UNCHANGED micVars
    BY <1>4, Zenon DEF Apply
  <2>2. CASE ~r.large /\ Parses(r)
    BY <2>1, <2>2 DEF At
  <2>3. CASE ~(~r.large /\ Parses(r))
    <3>1. CASE r.large
      BY <1>3, <2>1, <2>3, <3>1
    <3>2. CASE ~r.large
      BY <1>3, <2>1, <2>3, <3>2
    <3> QED BY <3>1, <3>2
  <2> QED BY <2>2, <2>3
<1>5. ASSUME NEW b \in Admins, NEW r \in AdminRequests, AdminRequest(b, r) PROVE FALSE
  BY <1>1, <1>3, <1>5 DEF AdminRequest, At
<1>6. ASSUME NEW b \in Admins, StatusLevel(b) PROVE FALSE
  BY <1>1, <1>6 DEF StatusLevel, At
<1>7. PICK b \in Admins : StatusMode(b)
  BY <1>2, <1>4, <1>5, <1>6 DEF LogNext, UpdateLevel, adminVars, logVars
<1>8. b = a
  BY <1>1, <1>7 DEF StatusMode, Reply
<1>9. /\ answer'[a] = [status |-> 200, level |-> admin[a].level, mode |-> micMode]
      /\ admin[a].step = "mode"
  BY <1>1, <1>7, <1>8 DEF StatusMode, Reply
<1> QED BY <1>9 DEF LogInv, StatusCurrent

(* An admin is answered with settings that were in force after the request *)
(* took effect (main.rs:383-385), the last line about a microphone says    *)
(* what it does unless a change was kept out of the log (room.rs:121-142), *)
(* and the date of a line is the calendar's (logctl.rs:163-186): for all   *)
(* requests, speakers and levels and however many admins, on any day.      *)
THEOREM LogAlwaysTrue == LogSpec /\ DateSpec => LogTellsTheTruth
<1>1. LogInv => LastLineIsTrue
  BY DEF LogInv, LineFollows, LastLineIsTrue
<1>2. LogInv /\ LogInv' /\ [LogNext]_logVars /\ DateInv'
        => [AnswerIsCurrent /\ LastLineIsTrue' /\ (UNCHANGED dateVars \/ DateIsCivil')]_<<logVars, dateVars>>
  <2>1. LogInv' => LastLineIsTrue'
    BY DEF LogInv, LineFollows, LastLineIsTrue
  <2>2. DateInv' => DateIsCivil'
    BY DEF DateInv
  <2> QED BY <2>1, <2>2, AnswerFollows
<1> QED BY <1>1, <1>2, LogInvariance, DateInvariance, PTL DEF LogSpec, DateSpec, LogTellsTheTruth
=============================================================================
