----------------------------- MODULE LogControl -----------------------------
(***************************************************************************)
(* What the service writes to its log and how that is set at run time: the *)
(* admin endpoint, the two settings of logctl, and the lines that report   *)
(* when a microphone starts and stops.                                     *)
(***************************************************************************)
EXTENDS Timestamp

CONSTANTS
    Admins,         \* connections to the admin endpoint
    AdminRequests,  \* requests that may arrive on them
    Speakers,       \* sessions
    Levels,         \* levels a frame may have
    Threshold       \* SPEAKING_AUDIO_LEVEL on the same scale

Severity == [off |-> 0, error |-> 1, warn |-> 2, info |-> 3, debug |-> 4, trace |-> 5]
LogLevels == DOMAIN Severity
MicModes == {"off", "mixed", "solo", "all"}

(* A request, as far as admin_handle looks at it; no value means a body    *)
(* that is no JSON or lacks the field, "loud" is none of the known words.  *)
Request == [post : BOOLEAN, path : {"/status", "/log-level", "/mic-log-mode", "other"},
            large : BOOLEAN, value : {{}} \cup {{v} : v \in LogLevels \cup MicModes \cup {"loud"}}]

ASSUME LogAssumption ==
    /\ AdminRequests \subseteq Request
    /\ Levels \subseteq Nat /\ Threshold \in Nat

VARIABLES
    level, micMode,     \* LOG_LEVEL and MIC_LOG_MODE
    admin,              \* the request each connection is at
    answer,             \* its last answer
    heard,              \* Session::level
    wasSpeaking,        \* Session::was_speaking
    line,               \* the last line written about each speaker
    hidden              \* history: a later change was kept out of the log

settings == <<level, micMode>>
adminVars == <<admin, answer>>
micVars == <<heard, wasSpeaking, line, hidden>>
logVars == <<settings, adminVars, micVars>>

NoAnswer == [status |-> 0, level |-> "off", mode |-> "off"]

(* Where a connection is with its request, the level it has read, and the  *)
(* values the settings have had since the request took effect (history).   *)
At(step, req, l, levels, modes) ==
    [step |-> step, req |-> req, level |-> l, levels |-> levels, modes |-> modes]
Idle == At("idle", {}, "off", {}, {})

LogTypeOK ==
    /\ level \in LogLevels /\ micMode \in MicModes
    /\ admin \in [Admins -> [step : {"idle", "body", "status", "mode"}, req : SUBSET AdminRequests,
                              level : LogLevels, levels : SUBSET LogLevels, modes : SUBSET MicModes]]
    /\ answer \in [Admins -> [status : {0, 200, 400, 404, 413}, level : LogLevels, mode : MicModes]]
    /\ heard \in [Speakers -> Levels \cup {0}]
    /\ wasSpeaking \in [Speakers -> BOOLEAN] /\ hidden \in [Speakers -> BOOLEAN]
    /\ line \in [Speakers -> {"none", "started", "stopped"}]

LogInit ==
    /\ level = "error" /\ micMode = "mixed"
    /\ admin = [a \in Admins |-> Idle] /\ answer = [a \in Admins |-> NoAnswer]
    /\ heard = [s \in Speakers |-> 0] /\ wasSpeaking = [s \in Speakers |-> FALSE]
    /\ line = [s \in Speakers |-> "none"] /\ hidden = [s \in Speakers |-> FALSE]

-----------------------------------------------------------------------------
(* The admin endpoint *)

Reply(a, ans) ==
    /\ admin' = [admin EXCEPT ![a] = Idle]
    /\ answer' = [answer EXCEPT ![a] = ans]
Decline(a, status) == Reply(a, [NoAnswer EXCEPT !.status = status]) /\ UNCHANGED settings

(* The path is looked at before the body is awaited *)
AdminRequest(a, r) ==
    /\ admin[a].step = "idle"
    /\ LET settable == r.post /\ r.path \in {"/log-level", "/mic-log-mode"}
       IN  IF settable \/ (~r.post /\ r.path = "/status")
             THEN /\ admin' = [admin EXCEPT ![a] = IF settable THEN At("body", {r}, "off", {}, {})
                                   ELSE At("status", {r}, "off", {level}, {micMode})]
                  /\ answer' = [answer EXCEPT ![a] = NoAnswer] /\ UNCHANGED settings
             ELSE Decline(a, 404)
    /\ UNCHANGED micVars

Sets(r) == IF r.path = "/log-level" THEN level' \in r.value /\ UNCHANGED micMode
                                    ELSE micMode' \in r.value /\ UNCHANGED level

(* What set_level and set_mic_mode know *)
Parses(r) == r.value # {} /\ r.value \subseteq IF r.path = "/log-level" THEN LogLevels ELSE MicModes

(* Fault: the status is read before the value is stored. *)
ApplyLate(a) == \E r \in admin[a].req :
    /\ admin[a].step = "body"
    /\ IF ~r.large /\ Parses(r)
         THEN Sets(r) /\ Reply(a, [status |-> 200, level |-> level, mode |-> micMode])
         ELSE Decline(a, IF r.large THEN 413 ELSE 400)
    /\ UNCHANGED micVars

(* The value is stored; every status being read may see it *)
Apply(a) == \E r \in admin[a].req :
    /\ admin[a].step = "body"
    /\ IF ~r.large /\ Parses(r)
         THEN /\ Sets(r)
              /\ admin' = [b \in Admins |->
                   IF b = a THEN At("status", {r}, "off", {level'}, {micMode'})
                   ELSE At(admin[b].step, admin[b].req, admin[b].level,
                           admin[b].levels \cup {level'}, admin[b].modes \cup {micMode'})]
              /\ UNCHANGED answer
         ELSE Decline(a, IF r.large THEN 413 ELSE 400)
    /\ UNCHANGED micVars

(* status_json loads one setting after the other *)
StatusLevel(a) ==
    /\ admin[a].step = "status"
    /\ admin' = [admin EXCEPT ![a] = At("mode", @.req, level, @.levels, @.modes)]
    /\ UNCHANGED <<settings, answer, micVars>>
StatusMode(a) ==
    /\ admin[a].step = "mode"
    /\ Reply(a, [status |-> 200, level |-> admin[a].level, mode |-> micMode])
    /\ UNCHANGED <<settings, micVars>>

-----------------------------------------------------------------------------

Enabled(severity) == Severity[severity] <= Severity[level]
MicLogAllowed(mixed) == micMode \in {"all", IF mixed THEN "mixed" ELSE "solo"}

(* Fault: the flag is raised when speech starts and not taken back. *)
UpdateLevelSticky(s, l, mixed) ==
    LET speaking == l > Threshold
        changed == speaking # (heard[s] > Threshold)
        written == speaking # wasSpeaking[s] /\ MicLogAllowed(mixed) /\ Enabled("info")
    IN  /\ heard' = [heard EXCEPT ![s] = l]
        /\ wasSpeaking' = [wasSpeaking EXCEPT ![s] = @ \/ speaking]
        /\ line' = [line EXCEPT ![s] = IF ~written THEN @ ELSE IF speaking THEN "started" ELSE "stopped"]
        /\ hidden' = [hidden EXCEPT ![s] = ~written /\ (@ \/ (changed /\ ~(MicLogAllowed(mixed) /\ Enabled("info"))))]
        /\ UNCHANGED <<settings, adminVars>>

UpdateLevel(s, l, mixed) ==
    LET speaking == l > Threshold
        changed == speaking # wasSpeaking[s]
        allowed == MicLogAllowed(mixed) /\ Enabled("info")
        written == changed /\ allowed
    IN  /\ heard' = [heard EXCEPT ![s] = l]
        /\ wasSpeaking' = [wasSpeaking EXCEPT ![s] = speaking]
        /\ line' = [line EXCEPT ![s] = IF ~written THEN @ ELSE IF speaking THEN "started" ELSE "stopped"]
        /\ hidden' = [hidden EXCEPT ![s] = ~written /\ (@ \/ changed)]
        /\ UNCHANGED <<settings, adminVars>>

LogNext ==
    \/ \E a \in Admins : Apply(a) \/ StatusLevel(a) \/ StatusMode(a)
    \/ \E a \in Admins, r \in AdminRequests : AdminRequest(a, r)
    \/ \E s \in Speakers, l \in Levels, mixed \in BOOLEAN : UpdateLevel(s, l, mixed)

LogSpec == LogInit /\ [][LogNext]_logVars

-----------------------------------------------------------------------------
(* Properties *)

(* The answer to a request tells settings that held after it had taken     *)
(* effect, although others may be changing them (main.rs:383-385, 419-421): *)
(* never those from before a change of its own.                            *)
AnswerIsCurrent == \A a \in Admins :
    admin[a].step # "idle" /\ answer'[a].status = 200 /\ admin'[a].step = "idle"
    => answer'[a].level \in admin[a].levels /\ answer'[a].mode \in admin[a].modes

(* Whatever was filtered out, the last line about a microphone tells what  *)
(* it does now, unless a change since was itself filtered (room.rs:121).   *)
LastLineIsTrue == \A s \in Speakers :
    ~hidden[s] => ((line[s] = "started") <=> (heard[s] > Threshold))

(* An admin is answered with settings that were in force, the last line    *)
(* about a microphone says what it does unless a change was kept out of    *)
(* the log, and the date of a line is the calendar's.                      *)
LogTellsTheTruth ==
    [][AnswerIsCurrent /\ LastLineIsTrue' /\ (UNCHANGED dateVars \/ DateIsCivil')]_<<logVars, dateVars>>
=============================================================================
