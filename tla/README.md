# wolfvoice: specifications

TLA+ models of the wolfvoice server and of its reference browser client, the TLC
runs that check them and the TLAPS proofs about them. Paths such as `main.rs:95` are
relative to `src/src/` (the crate's `src` directory); `client/` and `docs/` are the
repository's directories.

## 1. The system

wolfvoice answers WebRTC voice requests that an OpenSimulator region forwards as
JSON-RPC, terminates the media, and mixes one stereo stream per listener every
20 ms. Everything runs in one process on a multi-threaded tokio runtime; nothing
is persisted, so a restart is a new start and crash recovery does not arise.

| component | state | operations | interacts through |
|---|---|---|---|
| Registry (`room.rs:247-296`) | `by_session`, `by_room` | insert, remove, get, members, rooms, session_count | two RwLocks, never held together for writing |
| Session (`room.rs:60-245`) | positions, gains, mutes, inbound queue, `announced`, `closed`, join flags, level | apply_data, push_frame, take_frame, mark/forget_announced, update_level | a lock or an atomic per field |
| App (`main.rs:80-255`) | the endpoint table, the port pool | provision, logout, signal, drop_session | called from HTTP tasks; drop_session from the mixer loop too |
| Mixer loop (`main.rs:278-370`) | `inflight` | tick, reap, one task per room, one task per listener | registry, endpoint table, data channels, tracks |
| Endpoint and Handler (`session.rs`) | data-channel slot, gathering flag, RTP state | establish, callbacks for state, track and data channel, send_mix, send_roster, close | called by the WebRTC stack on its own tasks |
| PortPool (`session.rs:56-83`) | a 16-bit counter | take | provision |
| Mixing (`mixer.rs`, `room.rs:298-415`) | none | mix_room, build_roster, tether, distance_gain, panning, clipping | pure functions on a snapshot of the room |
| Protocol (`proto.rs`) | none | parsing and formatting of JSON | strings |
| HTTP front end (`main.rs:440-662`) | none | routing, TLS, one task per connection | drops a request's future when the peer hangs up |
| Log control (`logctl.rs`, `main.rs:372-440`) | log level, microphone mode | set either, read both, format a line | two atomics, loopback HTTP |
| Browser client (`client/voice_llwebrtc.js`) | connection, session id, candidates, roster, position memory, timers | start, switchRoom, stop, signalling, data channel | promises; HTTP to the region; the data channel |

### What is hard in it

The state of one session is spread over the registry's two indexes, the endpoint
table, the `announced` sets of every other session and the viewers' own
participant lists. No lock covers two of them. Four kinds of task change them:

* HTTP tasks: provision (with an await of up to 2.5 s in `establish`), logout,
  and a provision that names an existing session. All but plain provision call
  `drop_session`, and every one of them may be abandoned at an await when the
  region closes the connection.
* The mixer loop, which reaps dead endpoints with the same `drop_session` and
  spawns a task per room over a snapshot of its members. The loop skips ticks
  while such a task is unfinished, but a logout does not wait for it.
* Listener tasks, which look the endpoint up again and send the join built earlier.
* Callbacks of the transport: gathering ended, connection lost, data channel open,
  message, packet; and for each data channel a task that polls it.

What makes each part correct, and what the properties below are about:

* Registry: whoever is registered is in its room's member list; no id is left
  behind; `members` misses nobody although it reads the indexes one after the other.
* App and mixer loop: an endpoint and its registry entry live and die together; a
  session is torn down once; the number of sessions stays bounded; mixes of one
  listener do not overlap; dead transports are reaped; viewers show exactly the
  avatars that are present.
* Requests: a request refused at any of its steps leaves nothing behind, one that
  replaces a session leaves the new one only, and people meet exactly if they ask for
  the same place.
* Transport: every offer is answered or refused, with all candidates unless gathering
  took too long; a connection once lost is closed.
* Roster: a join goes out once and only to those who may list the avatar, and whoever
  talks is shown.
* PortPool: ports stay inside the firewalled range, also when the counter wraps,
  and come up again late.
* Session control and mixing: no order of messages, no combination of keys and no
  size of coordinates moves an ear out of its tether; the maps are bounded.
* Audio ingest: the queue neither grows old nor has gaps, and loses audio only
  when the network was too late.
* Log control: what an admin is told was in force, and the last line about a
  microphone says what it does.
* Browser client: nothing of an earlier connection (the connection itself, its
  session on the server, its candidates, its participants, what it was told) is left
  when a switch, a refusal or a stop is over.

## 2. Modules

| module | models | composed of |
|---|---|---|
| `Registry`, `RegistryProofs` | `room::Registry` and `Session::announced`, one action per lock section | |
| `VoiceService`, `VoiceServiceProofs` | provision, logout, drop_session, mixer loop, room and listener tasks, connection callbacks | `Registry` |
| `Presence` | what viewers are promised: an abstract specification | |
| `VoicePresence`, `PresenceProofs` | `VoiceService` as an implementation of `Presence` | both |
| `Requests`, `RequestsProofs` | the JSON-RPC requests: envelope, fields, order of judgement, refusals, repeats; what is proved of them and of `LogControl` | |
| `Transport` | one viewer's transport: establish, gathering, answer, connection states, close | |
| `Roster` | data channels and their slot, join messages, levels, build_roster, what the viewer lists | |
| `PortPool` | `PortPool::take` and the sockets bound to its ports | |
| `SessionProofs` | what is proved of `PortPool`, `Transport` and `Roster` | these |
| `SpatialMix` | `Session::apply_data` (positions, gains, mutes) and who hears whom | |
| `DataMessage`, `MixingProofs` | whole data-channel messages: `ViewerDataMessage::parse` and the sections of apply_data; what is proved of them and of `SpatialMix` | `SpatialMix` |
| `MixArithmetic` | tether, distance, rotation, panning, summing and clipping in floating point with overflow | |
| `JitterBuffer` | `on_track`, `push_frame`, `take_frame`, draining of a lone participant | |
| `AudioProofs` | what is proved of `JitterBuffer` and `MixArithmetic` | these |
| `LogControl` | the admin endpoint, the two settings, the lines about microphones | `Timestamp` |
| `Timestamp` | the calendar of the log's timestamps | |
| `Client` | the browser client's start, switchRoom, stop, negotiation, teardown and callbacks | |
| `ClientMessages`, `ClientProofs` | what the client says and hears on its data channels; what is proved of it and of `Client` | |
| `MCRegistry`, `MCVoiceService` | instances for TLC | the module, `VoicePresence` |
| `MCSession`, `MCMixing`, `MCClient`, `MCRequests` | instances of several parts for TLC, see "Runs" | |

An operator preceded by a comment that starts with `Fault:` is not part of the
model. It is a definition of the model with a plausible bug, kept next to the one
it varies; `PROJECT.json` says which property each must violate, so that every
property is known to be able to fail.

Modules that share an instance or a proof module name their formulas after the part
they describe (`PoolInit`, `QueueNext`, `TransportSpec`, `rosterVars`); elsewhere they
are `Init`, `Next`, `Spec` and `vars`.

### Registry

`bySession` and `byRoom` are the key sets of the two maps (an empty list in the
code is removed, an absent room here has the empty set). `insert` is
`PushToRoom` then `InsertSession`; `remove` is `TakeSession`, `RetainOthers`,
`BeginForget`, `ForgetAt` for each other session, `FinishRemove`. `stage` is the
program counter of the task doing it: session ids are fresh UUIDs and
`by_session.remove` gives the session to one caller, so one counter per session is
enough. During `BeginForget..FinishRemove` the code holds `by_session.read()`,
so writers of `bySession` wait (`BySessionReadLocked`) and readers do not.
`members` is `MembersIds` and `MembersFilter`, with the lock released between.
`before` in a snapshot is a history variable. On its own the module lets anybody
mark any set of sessions as announced; `VoiceService` says which.

### VoiceService

Each request and the mixer loop has a program counter: `request[t]` for
`provision`, `drop[d]` for a `drop_session` executed by a request or by the
mixer, `mixer` for the loop. An action is the code between two points where other
tasks can be seen to act: a lock release or an await.

* `drop_session` (`main.rs:95-125`): `RemoveEndpoint`, `RemoveSession` and
  `ContinueRemove` (Registry's lock sections), `CloseEndpoint`, `ReadRemaining`,
  `DecideNotice` (is another session of the agent still there?), `SendLeave` for
  each remaining member with an await each, `FinishDrop`.
* `provision` (`main.rs:131-231`): `Logout`, `Provision` (which first drops the
  session the request names, if the server has it), `CheckCapacity`,
  `Establish` (succeeds or fails), `InsertEndpoint`, `InsertInRegistry`.
  `Abandon` is the loss of the region's connection, possible only at an await.
* `mixer_loop`: `Tick` (only with `inflight = 0`; a skipped tick changes nothing but
  the count for a warning, which is left out),
  `Reap` for each dead endpoint, `ListRooms`, `ReadMembers` and `MixOrDrain` for
  each room, `EndPass`. A room task is a record in `roomTasks`: `BuildOutput`
  marks the members as announced and computes the joins for one listener; each
  output becomes a record in `jobs`, which goes through `LookUp`, `SendRoster`,
  `SendMix`; `FinishRoom` decrements `inflight`. `pass` is the parity of the tick
  and only serves to tell two tasks of one room apart should they ever coexist.
* `viewer[l]` stands for the participant list of the viewer behind session `l`: a
  join adds, a leave removes (`docs/PROTOCOL.md:194-196`). It is external to `src/`.
* `ConnectionFails` sets `closed`; `ChannelOpens` opens the session's data channel.
  One data channel per session is modelled here, several in `Roster`.

SDP, candidates, audio and levels are left out; they are in `Transport`,
`JitterBuffer` and `Roster`, which have one session or one room and take from
`VoiceService` what happens around it as an input. They share no variable with it
or with each other.

### Presence and VoicePresence

`Presence` is the promise in terms of viewers and rooms only: `Arrive`, `Depart`,
`Connect`, `Disconnect`, `Show`, `Hide`. A departure of an avatar's last session
owes a removal to each viewer that shows it, and weak fairness of `Hide` says the
removal is made. `VoicePresence` maps the service to it. `present` is
`bySession`; `connected` are the sessions a send can reach; `shown` is what those
show. `owed` has to be read off a program counter: a removal is owed while a
`drop_session` has taken the last session of the avatar from the registry and has
either not decided yet, and will find nobody (`Seen` is what it will see of the
room's members, given how far it has read), or has the viewer on its list of
those still to be told. `ViewersFollowRooms` is `Presence` with its fairness.

### Requests

A message is a record with the fields the parser takes, each absent or of the wrong
type where the code tells the difference. `BeginProvision` is the order in which
provision judges: type of server, logout, offer, and then whether the session it names
has an endpoint. `Drop` is `drop_session` up to its first await, all in one
step (its interior is `VoiceService`'s); `Check` has the ceiling, the missing user id and the channel of a
group call; `Establish` succeeds or fails and its answer may be lost. `HangUp` is
possible at the awaits only. `told` are the ids a viewer has been answered with,
and a viewer names no other. `RoomKey` has the parcel id cut to an `i32`.

### Transport

`step` is where provision is with one session. `Poll` is the loop in `establish`
that sleeps 20 ms at a time until `gathered` or the deadline; gathering
(`FindCandidate`, `EndGathering`) and its report (`GatheringReported`) are
actions of the stack. The local description is read twice, by `ReadDescription`
for the payload number and by `Answer` for the viewer, and candidates may come between.
`StateChange` and `StateReported` separate the state of a connection from the callback:
only the callback sets `closed`.

### Roster

One room nobody leaves. A channel is `Accept`ed into the slot of its session, and
polled by a task that applies its messages (`ApplyJoin`) and, when the channel has
closed (`Close`), empties the slot (`PollEnds`). `Tick` takes a level from every
member, `BuildRoster` is `build_roster` for one listener, `Deliver` is
`send_roster` and the viewer's rule for listing participants (`PROTOCOL.md:188-200`).
`RosterFor` has one entry for an agent, the last one written, as the JSON object has.

### PortPool, SpatialMix, DataMessage, MixArithmetic, JitterBuffer

`PortPool` keeps the width of the counter: `PortAt` is the code's arithmetic modulo
`Width`, including the subtraction below `lo`. (In a debug build that subtraction
panics; the model is of the release build the installer ships.) `Open` takes a
port and binds it; when the port is still bound, the bind and with it the request
fail, but the counter has moved.

`SpatialMix` puts positions on a line. `tether` scales the offset of the ear from
the avatar and `distance_gain` looks at a length, so direction does not matter to
the properties. A message that carries several keys is applied under one lock per
key, so `MoveAvatar`, `MoveEar`, `MoveBoth`, `SetGain` and `SetMute` are actions of
their own. `Hears` is the chain of conditions in `mix_room` that gives a listener
another's frame in a spatial room.

`DataMessage` is whole messages: `Receive` parses one (`Taken` are the first entries
of a map), `ApplyState`, `ApplyGain` and `ApplyMute` are the sections.
`SectionsAreSteps` says that `DataMessage` implements `SpatialMix`, under the identity.

`MixArithmetic` is about sizes. A float is an integer up to `MaxFloat`, an infinity
or NaN, with the rules of IEEE 754 for them and without rounding. Positions lie on
the x axis and rotations are quaternions. Gains fall linearly and the pan
has three values: what the properties tell apart is whether a value is a number, zero,
or within full scale. `known` says for whom `SpatialState::known` holds: the ear of a listener
whose own place is not known is not tethered, and nobody is mixed for it.

`JitterBuffer` counts time in units of 10 ms, half a frame. A frame has an age, since
it was sent, and a wait, since it was queued. The
sender and the network are the environment: a packet every `PacketUnits`, in order,
each at most `MaxDelay` late. `Frames` is on_track's cutting (the tail padded to a
whole frame), `Push` the bounded queue. A tick and a packet due at the same moment
come in either order.

### LogControl and Timestamp

An admin request is judged by its path (`AdminRequest`), its body awaited and applied
(`Apply`), and the status then read one setting after the other (`StatusLevel`,
`StatusMode`). `levels` and `modes` of a request are history: the values the settings
have had since it took effect. `UpdateLevel` is the line about a microphone in
`room.rs:121-143`: the flag `was_speaking` follows speech also when the line is filtered out.
`Timestamp`, which it extends, has `iso_timestamp`'s arithmetic next to a calendar that
counts days; `LogTellsTheTruth` is about both.

### Client and ClientMessages

The variables `pc` to `iceTimer` are the object's fields; a nullable field is a
set of at most one element. `this.dc` is always the channel of `this.pc`, so `pc`
stands for both. `state`, `open` and `answered` are what the browser knows of each
connection. `call` has a program counter for each of the two calls that can be
in progress: `Join` for start and switchRoom (the manager awaits one before the
next), `Leave` for stop. A step is what a call does between two awaits:

* `Start`, `SwitchRoom`, `Restart` (the start inside switchRoom), `MicGranted`
  (getUserMedia), `Offered` (createOffer and setLocalDescription), `Answered` and
  `Refused` (the POST), `Negotiated` (setRemoteDescription), `Rejected` for any await that
  throws.
* `_teardown` has two halves: `Teardown` resets the fields before the logout is
  awaited and `LoggedOut` those after it, or `Teardown` does both when there is
  no session to log out of. Between the halves the old connection is alive and its
  callbacks (`Candidate`, `ConnectionState`, `ChannelOpens`, `RosterMessage`,
  `IceTimer`) run.

The logout may come to nothing: the region has not granted the capability and nothing
is sent, or the request fails (`voice_llwebrtc.js:104-118, 684-686`). The code goes on all
the same and forgets the id. So `LoggedOut` has two outcomes, `ended` (it reached the
server) and `unheard`, and `SessionsEnded` says of a session in `unheard` that its connection is
closed: that is how the server finds out, as `LostIsClosed` of `Transport` says.

The server and the manager are the environment. `learned`, `ended`, `unheard` and
`posted` are history. `Overlap` says whether the manager may call stop before a start has
returned and start before a stop has. It is FALSE in the run. With TRUE TLC violates
every property about `Client`: `start` goes on after a `stop` that came
during the microphone prompt or the negotiation, and a `stop` waiting for its logout
closes the connection of the start that came meanwhile. The
repository does not contain the manager, so which of the two is the program is
not decided here.

`ClientMessages` has connections that follow each other, each closed by a teardown
that awaits its logout, and on them the join message, the position with its timer
and its memory (`SendPosition`), the volumes, and the roster with its leave entries.
A channel may open while its logout is awaited, as nothing in the code prevents it; the
handler then starts the timer again and remembers a position, both for a channel that is
about to be closed (`late` is that connection). Each send may throw: `_sendData` swallows it, and
`SendPosition` has already remembered the position (`unsent`). What the session in use was
told (`told`, `joined`, `asked`) ends with its channel. That the client knows no region or no
avatar yet, and sends nothing, is left out: `position` is the place once known. Left out of both: `replaceLocalTrack`, the audio graph, names of
avatars, and the end-of-candidates marker (it changes no field).

## 3. Runs

| run | configuration | checks | shows |
|---|---|---|---|
| `registry` | 3 sessions in 2 rooms, one avatar, one reader | RegisteredIsListed, IndexesAgree, MembersComplete | the two indexes and the split read of `members`, under every interleaving of lock sections |
| `reap` | 4 sessions in 2 rooms, 2 requests, ceiling 2, sessions end by failure | CapacityBound, DepartedIsGone, LeaveOnlyIfGone | as long as only the mixer loop removes sessions, no viewer shows a departed avatar, no set of announced agents keeps one, and no viewer loses a present one: the loop cannot overtake its own room tasks. Concurrent provisions overshoot the ceiling by less than their number |
| `teardown` | 2 sessions of one agent, 1 request, ceiling 2, logout, re-provision, failure, hang-up, fair | TypeOK, EndpointIsBacked, RegisteredHasEndpoint, NoOverlap, TornDownOnce, DeadIsReaped, JoinIsBuilt | endpoint table and registry stay consistent whoever tears down, and only one task does it; the reaper reaches every dead endpoint and rooms are not starved |
| `presence` | 3 sessions of 2 agents, 1 request, sessions end by failure, fair | ViewersFollowRooms | the service implements `Presence`, its fairness included |
| `session` | a port range of 4 and 3 transports; 40 ms packets up to 140 ms late and a queue of 4 frames; 2 candidates and a time limit of 3 polls; 2 sessions and 2 data channels; coordinates whose squares overflow | InRange, ReuseIsLate, LatencyBounded, Contiguous, LossOnlyWhenLate, AnswerIsRight, OfferIsSettled, LostIsClosed, SlotIsPolled, RosterIsTrue, TalkerIsShown, BoundsSurviveOverflow | what a session is made of: ports when the counter wraps, the queue under every pattern of delays, an answer with gathering that may never end, rosters over channels that replace each other, and which bounds of the mix survive infinities |
| `mixing` | places -2..2, tether 1, range 2, maps of 1 entry; gains 0..3 clamped to 1; one session with messages of up to 2 entries a map | EarIsTethered, HearingIsLocal, MapsBounded, SectionsAreSteps | every order of sections on two sessions, and every combination of keys on one |
| `client` | 3 connections, 2 rooms, 2 avatars, one call at a time; 3 channels and 2 positions | NothingOutlives, SessionsEnded, CandidatesArrive, RosterIsCurrent, PositionsFollow, PositionIsTold | no call, callback or failed logout leaves anything of an earlier connection behind, and a session is told each change of position, also after late channels and failed sends |
| `requests` | 2 connections, 3 session ids, 2 viewers, ceiling 2; 2 admins and a microphone; each day of 1970–2106 | ReplacedIsGone, ErrorLeavesNothing, PeopleMeet, LogTellsTheTruth | every shape of request with hang-ups, lost answers and repeats; the two log settings read and set at once |
| `ghost` | 3 sessions with logouts | ShownIsPresent violated | see finding 1 |
| `rejoin` | 3 sessions, 2 requests, a logout | LeaveOnlyIfGone violated | see finding 2 |
| `lost_join` | 2 sessions | AnnouncedIsShown violated | see finding 3 |
| `requests_refusal` | as `requests`, ceiling 1, spatial calls only | RefusalCostsNothing violated | see finding 4 |

`session`, `mixing`, `client` and `requests` each check several parts that share no
state. Their modules have a variable `part`, chosen in the initial state, and only
that part moves while the others rest in their initial states: the states add up
where a product would multiply them, and nothing is lost, because a step of one
part changes nothing another part reads.

### What the less obvious properties say

* `DepartedIsGone`: an avatar whose last session left the registry and whose leaves
  are sent is shown to no viewer, and no listener counts it as announced.
* `RosterIsTrue`: whoever is marked as announced was sent as a join, is on the way, or was
  discarded for want of a channel; and in a spatial room nobody is listed who did not join
  this room as primary.
* `AnswerIsRight`: an answer lacks candidates only after the whole wait for them, and the
  server sends Opus under the number it answered with, wherever in the offer it stands.
* `LostIsClosed`: a connection once reported as disconnected is closed by the service, also if it
  recovers meanwhile.
* `ReuseIsLate`: between two uses of a port lie all the other ports, except that a wrap of
  the counter cuts a round short.
* `LossOnlyWhenLate`: a sender that keeps real time loses audio only if a packet was later
  than the queue, with that packet in it, can make up for.
* `SectionsAreSteps`: whole messages implement the single sections, so what `SpatialMix`
  promises holds between the sections of a message too.
* `BoundsSurviveOverflow`: coordinates whose squares overflow leave the ear on its tether, and
  no sample that is a number exceeds full scale. That a sample is a number is not so, see
  "Statements that do not hold".
* `PeopleMeet`: two sessions are in one room exactly if their requests asked for the same place.
* `PositionIsTold`: where the avatar comes to rest is told the session in use, unless the
  place was remembered already or the send of it threw. `PositionsFollow`: a channel in use has
  one timer, and what the client remembers as sent was told to the session in use, except
  after a throw, and after a late channel until the first change. `RestIsTold`, without the
  exceptions, does not hold (section 5).
* `SessionsEnded`: a session is forgotten after a logout that reached the server, or with its
  connection closed. `SessionsLoggedOut`, without the second half, does not hold.
* `CandidatesArrive`: candidates are posted for the session of the connection that gathered
  them, and those of a connection in use are not taken for those of a closing one. `NothingOutlives`: no connection outlives the one in use, nor, with microphone
  and session, the use of voice.
* `LogTellsTheTruth`: a status answers with values that were in force at some time
  during the request, a microphone's last line says what it does unless a change was kept out of the
  log, and the date of a line is the calendar's.

### Bounds, and why they are enough

* Sessions: a session id is used once, so the number of ids bounds the length of
  a behaviour. Four ids allow an agent with two sessions, a second agent to tell,
  and a session in another room (`forget_announced` and the reaper reach across
  rooms). Two ids are enough for tear-down, which concerns one session; the second
  lets it be re-provisioned and be in a room with somebody. `presence` needs an agent
  that leaves and comes back and one that looks on.
* Requests: a race needs two tasks. `teardown` and `presence` have one request and the mixer loop,
  which both run `drop_session`; `reap`, `rejoin` and `requests` have two requests, and
  in `reap` one of them may be abandoned.
* `MaxSessions`, `MaxEntries`, the port range and the counter's width are far
  smaller than in the code, with the relations that matter kept: the range
  does not divide the width (65536 = 65 * 1000 + 536; here 11 = 2 * 4 + 3), the
  range does not start at a multiple of its length, the ceiling is below the range
  and within reach of the ids there are.
* `Places` reaches beyond the tether on both sides, and two avatars can be in and
  out of hearing range. Messages have maps of two entries where one is taken.
* `MaxFloat` is 21: coordinates of 5 and more have squares beyond it, those below do not.
* The queue overflows: a delay of 14 units is more than 4 frames hold.
* Gathering may end before the time limit, at it, after it, or never; two candidates
  allow one before and one after each read of the description.
* Two data channels of one session are enough for the old one to end after the new
  one came.
* `IntRange` is 4, and the parcels of one scene are its least value, its greatest
  and 0; `LastDay` is in 2106, so that 2000 (a leap year) and 2100 (none) are passed.
* `client` has three connections: the one before a switch, the one after, and
  one more for the retry or the next start.
* `MaxAge` caps the history counter of PortPool at a value above any the
  property compares it with.
* `Logouts`, `Failures`, `Hangups` choose which sessions may end how and which
  requests may be abandoned. `reap` and `presence` have no logouts: with them
  `DepartedIsGone`, `LeaveOnlyIfGone` and `ViewersFollowRooms` do not hold, which is
  what `ghost` and `rejoin` show, so the runs together delimit the fault.
* `LossBeforeReply` is FALSE in all runs: a transport fails at the earliest when
  its session is registered. The time between `establish` and
  `sessions.insert` is a few instructions, while the WebRTC stack needs seconds
  without an answer to declare a failure.
* Deadlock checking is off where the session ids or connections of the instance can run out
  (Registry, VoiceService, Client, Requests); the program itself would go on to new ones.
  `DeadIsReaped` and `OfferIsSettled` cover the question whether loop and requests can hang.

### Fairness

* `VoiceService` (`teardown`, `presence`): weak fairness of the mixer loop, of each
  `drop_session` and each request once begun, and of the room tasks taken together.
  All are tokio tasks that are runnable until they wait for a lock that is held for
  a bounded time or for a send that completes or fails. Nothing is assumed of
  viewers, regions and networks: no request need come, no channel open, no
  connection fail. A weakly fair `drop_session` does not stop a request from being
  abandoned.
* `Presence`: weak fairness of each `Hide`; `presence` shows that the fairness of the service gives it.
* `Transport`: weak fairness of the polls and reads of provision, of the callback for a
  state, of reaping and close; none of gathering, the network or the viewer, so
  `OfferIsSettled` rests on the time limit alone.
* `Roster`: weak fairness of the room's tick, its rosters and their delivery. `TalkerIsShown`
  is for those who go on talking on a channel that stays open.
* `ClientMessages`: the browser's timer fires as long as it is set; no send need succeed.

## 4. Proofs

All theorems are about the specifications TLC checks and hold for any values of
the constants that satisfy the modules' assumptions. Where a theorem assumes more, the
assumption is named below, with what happens without it.

### Registry and service

* `RegistryProofs`. `RegisteredIsListed` and `IndexesAgree` are not inductive: that
  a session is in its room now says nothing of the next lock section. The
  invariant `Indexed` ties each index to `stage` (`s` is in `bySession` exactly when it is live, and
  in `byRoom[RoomOf[s]]`, and in no other room, exactly when it is pushed, live or
  taken), and from it both follow. `SnapInv` adds that a reader between its two
  reads holds the ids of one room and all that were registered at its first read;
  with `Indexed` it gives the action property `MembersComplete`
  (theorem `MembersAreComplete`). `RegistryTypeCorrect` is type correctness.
* `VoiceServiceProofs`, for any number of sessions, requests and rooms.
  * `ServiceImplementsRegistry`: every step of the service is a lock section of `Registry`
    or leaves the registry alone (the refinement mapping is the identity), so the theorems
    of `RegistryProofs` hold of the service.
  * `EndpointAlwaysBacked`, `TornDownAlwaysOnce` and `RegisteredAlwaysHasEndpoint` rest on
    `ServiceInv`: a provision has its id to itself and the registry does not know the id
    before the provision lists it (`RequestInv`); what is in the table, on the reaper's list or being dropped
    has had its endpoint inserted; and a drop that has passed the endpoint table leaves
    no endpoint behind (`DropInv`). The first needs
    all three: a drop takes a session from the registry only when its endpoint is gone, and no provision
    can insert that endpoint afterwards. The last assumes `~LossBeforeReply` (see the bounds).
  * `NeverOverlap`: `MixInv` says that `inflight` counts the room tasks, that a pass
    spawns one task for each room at most and over members of that room, and that the jobs of
    a task are for its members. Two mixes of one listener would need two tasks of its room, or of
    two passes, and a pass starts with `inflight = 0`.
  * `ServiceTypeCorrect` takes from `MixInv` that `inflight` does not fall below zero.
  * `CapacityAlwaysBounded`, for a finite set of requests: sessions and provisions past
    the check number less than the ceiling and the requests together; by facts about
    cardinality, since a step past the check turns at most one request into a session.
* `PresenceProofs` assumes `Logouts = {}`: sessions end because their transport fails, and none is
  logged out of or replaced. With logouts the three results are false, as `ghost` and
  `rejoin` show, so they say how far the faults reach and what a repair would have to restore.
  Their invariant `PresenceInv` says why: only the mixer loop executes
  `drop_session` (`OnlyMixerDrops`), it does so between two ticks' room tasks, and so whatever a room
  task or a job works on is registered for as long as it works on it (`Working`).
  * `DepartedAlwaysGone`: a viewer shows only avatars that are in its room or whose leave is
    due to it from the drop under way (`ShownOrDue`). That needs more of each step of the drop: the `members` call
    misses no viewer that shows anybody, for a viewer that shows somebody was
    listed before the call began (`Asked`, `Unreached`); and while `remove` visits the listeners, those it
    has visited do not mark the avatar again (`Forgetting`).
  * `LeaveAlwaysDeserved`: the viewer of a leave never has the avatar marked as announced,
    because by the time leaves are sent no listener does, and none can until the next tick.
  * `ServiceKeepsPromise`: `Init` maps to the initial state of `Presence` and every step of the service to a
    step of it or to a stutter, under the mapping of `VoicePresence`. `RemoveSession` is `Depart`,
    `InsertInRegistry` is `Arrive`, a join sent is `Show` for each of its avatars at once, a leave is
    `Hide`; the other steps of a drop and of the mixer loop have to be
    shown to leave `Owed`, which is read off the program counter, as it is. The fairness of
    `Presence`, the other half of `ViewersFollowRooms`, is left to TLC.

### Requests

* `RequestsProofs`. `ReplacedAlwaysGone` and `ErrorsLeaveNothing` from one invariant: an id
  a request has drawn is its own, a viewer cannot name it before the answer, and
  a request past its drop has no replaced session left.
  `PeopleAlwaysMeet` assumes that the parcels asked for fit in the `i32` they are narrowed to (a larger
  number of the JSON would be cut to that of another parcel; viewers send an S32,
  `proto.rs:102-115`). `RoomIsPlace` is the lemma that a room key tells places
  apart and only places, `RoomAsAsked` the invariant that a session's room is still the one asked for.

  `LogAlwaysTrue`, about `LogControl` and `Timestamp`, needs no assumption beyond the types of
  requests and levels (`LogAssumption`).
  * Settings and lines: `StatusCurrent` (what a connection has read of the settings is among
    the values they have had since its request took effect) and `LineFollows`
    (`was_speaking` follows the level whether or not a line is written, and the last line agrees
    with it unless a change was hidden).
  * Calendar: `YearIsFound` bounds the year of an era that the formula finds by the days before
    it and before the next (`DaysBefore`), `OnlyYear` says that no other year fits, so the
    next day is in the same year or the next (`OneDayOn`), and `TomorrowIsFound` compares the date
    computed for it with the calendar's. Then `DateIsCivil` is inductive, whatever `LastDay` is.

### What a session is made of

* `SessionProofs`.
  * `PortsAlwaysInRange`: the lemma `PortAtInRange` is about the arithmetic,
    for every counter value and every width; the invariant is `InRange` with types.
  * `ReuseAlwaysLate`: `AgeIsDistance` says that a port taken `k` provisions ago is the
    one the counter, moved back by `k` and unwrapped if need be, stood at. Two counter values
    less than a round apart have different remainders (`ModDiffers`), and a wrap is
    where the bound of `ReuseDistance` comes from.
  * `AnswerAlwaysRight` assumes that the answers, which the WebRTC library writes, have a space and
    a codec on each `rtpmap` line and a payload number below 256 for Opus (`WellWritten`). The
    invariant: nothing is read from the description before gathering is complete or the
    limit reached, and what is found only grows.
  * `SlotAlwaysPolled`, for any number of channels of a session.
  * `RosterAlwaysTrue`, with its halves `AnnouncedAlwaysTold` and `NeighbourNeverListed`, assumes one session for
    each agent in the room; with two the first half does not hold (section 5). `JoinInv`
    follows a join from the set of announced agents through the roster under way to
    what the viewer lists; that an agent's entry is that of its own frame (`EntryIsOwn`) is where the
    assumption is used.
* `AudioProofs`, on `JitterBuffer`.
  * `LatencyAlwaysBounded`: the frame at place `i` of the queue
    has waited no longer than the places it has moved up account for.
  * `AudioAlwaysContiguous` and `LossAlwaysLate` assume that packets are whole frames; for half
    frames the second does not hold (section 5). `RunInv`: what is queued, on the network and not yet sent is
    one unbroken run of audio. So the age of the oldest frame follows from the length of the queue, and
    `OldestBounded` says that it is never older than the latest packet made it: a queue that
    overflows is evidence of a packet as late.
* `AudioProofs`, on `MixArithmetic`. `BoundsAlwaysSurvive`: for every range of floats and all places and
  rotations, `TetherHolds` takes the cases of an offset that is short, long or whose
  square overflows. The run tries eight places.
* `MixingProofs`.
  * `EarAlwaysTethered`: from the lemma that `Tether` returns a point within the
    tether. `HearingAlwaysLocal` follows by the triangle inequality. Both hold for all
    sets of integer positions, any tether and range. `MapsAlwaysBounded`: for any ceiling.
  * `MessagesImplementSections`: each section of a message is a
    step of `SpatialMix`, parsing is a stutter; so `MessagesKeepBounds` takes the bounds from the
    theorems about `SpatialMix`.

### Browser client

* `ClientProofs`. The four theorems about `Client` (`NothingEverOutlives`, `SessionsAlwaysEnded`,
  `CandidatesAlwaysArrive`, `RosterAlwaysCurrent`) assume `~Overlap`, as the run does, and share
  `ClientInv`: the connection under negotiation is the one in use
  (`UnderNegotiation`); the session in use is the one of that connection and the one a logout under way
  names, and while that is awaited `closing` is set and no candidate is taken in
  (`SessionOfConnection`); what callbacks
  add belongs to the connection in use (`OfConnection`). The properties do not carry themselves: a
  candidate is posted for `viewerSession`, and only the invariant says that this is the
  session of the connection it was gathered on.
* `PositionsAlwaysFollow` has no assumption on channels and sends. Its invariant `MemoryInv` says where
  a timer without an open channel comes from: there is a memory only with a timer, and a timer only for
  a channel that opened and is not being torn down, for the one that opened late, or for the next
  connection until its teardown.

### Model-checked only

* Liveness (`DeadIsReaped`, `JoinIsBuilt`, `OfferIsSettled`, `LostIsClosed`, `TalkerIsShown`, `PositionIsTold`, and
  the fairness in `ViewersFollowRooms`): the prover has no rule for fairness and `ENABLED`.

## 5. Findings, and statements that do not hold

Each finding is a counterexample of a run, against a sentence of the code's own comments
(quoted in `PROJECT.json`).

1. `ghost`. A room task sends the join of a member it was spawned with after a
   logout has removed that member and sent its leave. The viewer keeps the avatar.
2. `rejoin`. `drop_session` decides once that the agent is gone, then awaits a send
   for each member. A new session of the agent may be registered and announced
   meanwhile; the late leave removes it from the viewer, and `announced` prevents
   another join.
3. `lost_join`. `build_roster` marks a join as announced before the listener task
   finds the data channel not open and discards it.
4. `requests_refusal`. Provision drops the session it replaces before it checks the ceiling.
   Another provision takes the place, and an agent that was connected is refused.

### Statements that do not hold

Formulas that TLC violates are defined next to the properties of their modules, with
no run of their own: each says what a comment or document claims, or a condition a
property above needs. To see a counterexample, put the name in a configuration of the module's
run.

| formula | module | what happens |
|---|---|---|
| `NextIsFree` | PortPool | the pool counts provisions, not sessions, so after one round it meets the port of a long-lived session, however few there are (`main.rs:76-77`, `session.rs:60-61` say otherwise) |
| `PrimaryIsListed` | Roster | a session is announced before its own join has come and the join says `"p": false`; it is not built again, so a viewer that keeps to `PROTOCOL.md:198-199` never lists it in a spatial room |
| `SilenceIsShown` | Roster | the tick on which a level falls to 0 sends nothing, so the last `"v"` a viewer has is true (`proto.rs:409-410`) |
| `OpenIsUsable` | Roster | the poll task of an old channel empties the slot after a newer one was put there (`session.rs:285`) |
| `AnnouncedIsTold` with two sessions of one agent | Roster | an entry without `"j"` replaces the one with it (`proto.rs:440`, `room.rs:90`) |
| `OneSuccessor` | Requests | a renegotiation sent twice drops once and provisions twice (`main.rs:150-152`) |
| `MixIsANumber` | MixArithmetic | finite coordinates overflow in the rotation, infinity over infinity is NaN, and NaN passes the clamp (`room.rs:166-168`) |
| `LouderIsLouder` | MixArithmetic | samples up to 1 are kept and those above become their tanh, 0.76 just above 1 (`mixer.rs:152-153`) |
| `ConnectedHasConnection` | Client | `_teardown` clears `connected` and awaits the logout; the old connection may come up meanwhile and set it again (`voice_llwebrtc.js:649-652`) |
| `RestIsTold` | ClientMessages | a position is remembered before it is sent, so one whose send throws is not sent again; and a channel that opens during its logout leaves its memory to the next session, which is told nothing until the avatar moves (`PROTOCOL.md:146`) |
| `SessionsLoggedOut` | Client | without the capability, or when the request fails, the id is forgotten all the same (`voice_llwebrtc.js:104-118, 684-687`); the server has the session until its transport is lost |
| `ChoicesAreSent` | ClientMessages | saved volumes are sent for the roster as it is when the channel opens, and it is empty then (`voice_llwebrtc.js:596`) |
| `LeaversAreRemoved` | ClientMessages | `l` is never looked at: a leave keeps, or adds, the participant (`CLIENT.md:38`) |
| `LossOnlyWhenLate` with `PacketUnits = 1`, `MaxFrames = 10` | JitterBuffer | padding makes two frames of 20 ms of audio, and the queue fills at twice the rate it is emptied |
| `RegisteredHasEndpoint` with `LossBeforeReply = TRUE` | VoiceService | a transport reaped before its session is registered leaves the session without an endpoint for good |
| the properties about `Client` with `Overlap = TRUE` | Client | see "Client and ClientMessages" |

The warning about skipped ticks is outside the models. Read with the others: its count is reset
only by a warning and not by time, although the line says "in the last 10s" (`main.rs:295`), and at
the default level Error (`logctl.rs:24`) the line is not written.

## 6. Not modelled, and the plan

Not modelled: TLS, sockets and accept loops; JSON as text (its fields and their
types are in `Requests` and `DataMessage`); the interior of the webrtc library; rounding of
floating point, and the curves of gain and panning between their ends; the client's
audio elements, avatar names and the replacement of a microphone track; the
examples, which are test harnesses that act as viewers; deployment scripts. They hold
no state that the parts modelled depend on.

What would come next, in this order:

1. Type correctness of the modules that state it only as part of an invariant.
2. Step properties that the liveness results rest on and that need no fairness, such as that a
   `drop_session` once begun only goes forward.
