# Verification of open-rtc

TLA+ models of open-rtc's call engine, signaling transports, room service and
SFU gateway, checked with TLC and, for the properties that matter most, proved
with TLAPS. The modules follow the TypeScript implementation (`packages/`,
`protocol/`); the Dart, Kotlin, Swift and Rust ports are not covered.
`PROJECT.json` lists, for every definition, the source lines it models.

Contents: [1 the system](#1-the-system), [2 modules](#2-modules-and-how-they-follow-the-code),
[3 runs](#3-what-the-runs-check), [4 proofs](#4-what-is-proved),
[5 disagreements found](#5-where-code-and-documentation-disagree),
[6 limits](#6-what-is-not-covered), [7 plan](#7-plan).

## 1. The system

A call is a room. Every participant runs a `Room` (packages/core), which talks
to the others through a signaling transport (packages/transport over a hosted
backend, or the bundled server's WebSocket) and exchanges media over one
`RTCPeerConnection` per other participant (mesh) or one to an SFU.

```
 application, React hooks
   |  join/leave/publish/record        ^ events, snapshot
 +---------+  envelopes   +----------------------+   frames   +---------+
 |  Room   |<------------>| transport: coalescer,|<---------->| backend |
 +---------+  (window)    | chunker, reorder     |            | or      |
   |     |                +----------------------+            | server  |
 mesh   sfu                                                   +---------+
   |     |                                                    Store, RoomHub,
 PeerConnectionManager x n      sfu-gateway router            relay, tokens
```

Everything is single-threaded JavaScript: the concurrency is between
asynchronous handlers, each of which can be suspended at every `await`, and
between processes that exchange envelopes.

| Component | State it keeps | What makes it hard | What makes it correct | Module |
|---|---|---|---|---|
| `ReorderBuffer` (transport/internal) | per sender: next seq, frames waiting | reordering, duplicates, loss, a window, a sender that comes back | releases in order, each once; bounded | `ReorderBuffer` |
| `OrderedMessageBuffer` (core) | newest seq per session | runs after the buffer, with another key and rule | nothing handled twice or out of order | `InboundPath` |
| base transport, chunker, ICE coalescer, heartbeat | room, callbacks; partial groups; queue, timer, flushing | eviction, a timer that fires during a flush, beats that overlap a leave | no candidate or chunk lost; presence goes with the leave | `BackendTransport` |
| composite, reconnecting transports | newest seq; reconnecting, last seq | two paths of different speed; leave or emit during a reconnect | each envelope once and in order; a left room stays left | `SignalingPaths` |
| hosted backends | presence rows, cursors, seen ids | at-least-once queries, disconnect hooks, sweeps | presence and frames end as promised | `CloudBackends` |
| `Room`, mesh transport | joined/joining/closed, participants, subscriptions, peers | join against leave against envelopes; roster replies that cross leaves | participants shown are those in the room; leave ends everything | `RoomMesh` |
| `PeerConnectionManager` | makingOffer, idempotency guard, pending candidates, restart flags | glare; descriptions handled while others still are; rejections | glare ends with both stable; candidates and restarts get through | `PeerNegotiation`, `IceTrickle` |
| SFU transport, topology | session, published tracks, negotiating flag | awaits between test and update; a switch during a publish | one session; every track produced once | `SfuSession` |
| SFU router, reference adapter | two session maps, tracks, consumers | the maps are kept in step across awaits | they agree; subscribers get what they asked for | `SfuRouting` |
| egress, transcription workers | child process, chunk index; audio buffer | ends and answers that come at any time | every chunk and all audio once | `EgressWorkers`, `Transcription` |
| data channel bus, E2EE, WHIP | adopted channels; keys and transforms; one connection | four channel ends; setup that awaits; overlapping publishes | heard once; nothing live in the clear; published is carried | `DataChannels`, `E2ee`, `WhipIngest` |
| controls, devices | publications, mute flags, device lists | overlapping calls that await the browser | mute is honoured, no capture unseen | `LocalMedia`, `DeviceControls` |
| snapshot store | cached snapshot, listeners | re-entrant listeners; changes without an event | the snapshot shows the room | `ClientView` |
| recording (core/recording, server/recording.ts) | recorders, chunk indices; rows, chunk files | stop against late chunks; uploads that overtake | a finalized manifest is complete | `RecordingClient`, `RoomAdmin` |
| adaptive quality | tier, counters, stability window | hysteresis over long histories; applications that await | senders follow the tier; upgrades are earned; it recovers | `AdaptiveQuality` |
| server core, WebSocket relay, HTTP routes | room and participant rows, log, hub bindings | every Store call is an await: read-modify-write across handlers | roster, views, bans, capacity agree | `RoomServer`, `RoomAdmin` |
| stores and relays | tables, indices, channels | several statements per call, several processes | every envelope once; tables survive crossing calls | `StoreTables`, `SharedServers` |
| tokens | secrets, revocations per process | clocks, deployments, rotation, checks spread over awaits | revoked and excluded participants stay out | `Tokens` |
| in-process tables | bans, lobby, hands, polls, egress | arguments, lapses | they empty as they should | `ProcessTables` |
| fake peer connection (test-utils) | signaling state, microtasks, channels | the engine's tests stand on it | fires as a connection does | `FakePeer` |

Interactions: Room -> transport by `emit`; transport -> Room by the subscribed
callbacks, synchronously and without waiting for the handler; Room -> mesh ->
PeerConnectionManager by calls; PeerConnectionManager -> Room -> transport by
`onSignal`; client -> server by WebSocket or REST; server core -> Store by
awaited calls; server -> clients by `RoomHub.broadcast`, synchronously after an
awaited `handleSignal`; server -> server by a relay.

The hazards found while reading, each at its line and with the properties that
would notice it going wrong, are in `PROJECT.json` under `hazards`. Parts that
have no module are listed there under `components`, with the reason.

## 2. Modules and how they follow the code

An `async` method is cut at its awaits: one action per awaited call, with the
synchronous code that follows it. A suspended handler is a member of a task
variable. Things outside the repository (the browser, mediasoup, a database, a
channel) are marked external in `PROJECT.json` and do what the code relies on.
Variables marked *history* are read by properties only.

Some definitions are preceded by a *faulty variant*: the same definition with a
plausible mistake (a dropped guard, an off-by-one, a forgotten reset). They are
not part of any specification. Each property of each passing run is violated
when one of them takes the place of the definition it varies
(`PROJECT.json`, `mutants`), which shows that the property depends on the code.

Components that share no state are checked side by side: the modules
`MCTransport`, `MCMedia` and `MCServerParts` instantiate several specifications
on one set of variables, next to the components they extend (`SignalingPaths`, in
`MCMedia` `E2ee` and `SfuSession`, in `MCServerParts` `Tokens`, `SfuRouting`,
`EgressWorkers` and `Transcription`), whose properties they check by their own
names and which have theorems; `MCClient` extends all of its four. `part` says
which of them a behaviour is of, and a property of the run is the conjunction of
that part's own properties. The state graph is the disjoint union of the parts' graphs. The
bounds are in the `INSTANCE`s and in the configuration.

Where a documented promise does not hold, the property says when it does, by a
history variable that records the race (`rushed`, `crossed`, `raced`,
`overlap`, `mixed`, ...); section 5 lists what those exceptions stand for.

| Module | Models | Role |
|---|---|---|
| `FifoDelivery` | | abstract specification: an ordering stage hands the consumer a prefix of each sender's stream |
| `ReorderBuffer` | transport/internal/reorder.ts, Room's numbering | detailed specification; implements `FifoDelivery` |
| `InboundPath` | base.ts `deliverFrame` + core/ordering.ts + room.ts `handleEnvelope` | composition: extends `ReorderBuffer` with the engine's window |
| `PeerNegotiation` | core/peer-connection-manager.ts, core/sdp.ts, mesh `publish` | two managers and the connection between them |
| `RoomServer` | server/core.ts, ws.ts, http.ts on the Store contract | one room on the server, per Store call |
| `RoomMesh` | core/room.ts, base.ts, media/mesh-transport.ts | composition of life cycle, roster and mesh of two Rooms |
| the modules named in section 1 | the component named there | one component each |
| `MC...` | | instances for model checking |
| `InboundPathProofs`, `PeerNegotiationProofs`, `RoomServerProofs`, `RoomMeshProofs`, `SignalingPathsProofs` | | theorems about the module named; the first also has those about `ReorderBuffer` |
| `MediaProofs`, `ClientProofs`, `ServerPartsProofs` | | theorems about the components `MCMedia`, `MCClient` and `MCServerParts` extend; `ClientProofs` also has those about `AdaptiveQuality` |

### ReorderBuffer

A frame is `[from, sess, seq, kind]`. `held` and `next` are `SenderState.buffer`
and `.next`; `tracked` is the key set of `senders`. `push` is three actions, by
its early returns: a plain kind is returned at once (`PushPlain`), a number below
`next` or already waiting is discarded (`PushDuplicate`), any other frame is
stored, the contiguous run is released and, if the largest number waiting is
`maxGap` or more ahead, everything is flushed (`PushOrdered`). `sweep` may find
a sender idle at any moment: real time is abstracted to that choice. `released`
and `dropped` are history. The remote Rooms (`Emit`, one counter for all kinds;
`Rejoin`, a new session from 0; `FairSpec` is the steps of one session, `Stream`) are modelled from room.ts; the channel is
external and may reorder, duplicate and lose, as the constants say.

### InboundPath

`deliverFrame` fans each frame that `push` returns out to the Room in the same
turn, so `Receive` is one action: a `Push` together with `accept` and the
dispatch (`Dispatch`). `lastSeq` is the window of `OrderedMessageBuffer`, keyed
by session and sender where the reorder buffer is keyed by sender only.

### PeerNegotiation

Every `await` of a connection method queues an operation on the connection's
operations chain. `chain[p]` is that chain; each entry also stands for the
handler suspended at it, so the model needs no separate program counters:
`createOffer` and `setOffer` are the two awaits of `negotiate`, `rollback`,
`setRemote` and `setAnswer` those of `handleRemoteDescription`. Each completion
is an action, with the code up to the next await in it; each rejection is
another (`OfferFails` is the `finally` of `negotiate`; `RollbackFails` and
`AnswerFails` lose the description, as the exception ends in `reportError`).
`Receive` takes the next envelope whether or not earlier handlers are done,
because `Room` calls `handleEnvelope` without awaiting it (room.ts:1165-1167).
The WebRTC stack is external and modelled as the manager relies on it: `setRemoteDescription`
of an offer in have-local-offer rolls back implicitly, an argument-less
`setLocalDescription()` answers in have-remote-offer and *offers* otherwise, and
`negotiationneeded` fires in stable with an empty chain. An SDP is reduced to
its kind, its session-version and the number of tracks it describes. `rushed` is
history: some description was handled while the handler of an earlier one was
still suspended.

### RoomServer

One action per Store call together with the synchronous code that follows it;
`task[h]` is the suspended handler with what it has read (`row`, `seen`,
`list`). So `joinRoom` is `JoinRoom` (getRoom), `JoinSeen` (getParticipant),
`JoinCount` (listParticipants), `JoinPut`, `JoinTouch` (putRoom of the row read
at the start) and `JoinList`. Requests run on a `Worker`; the close handler of a
socket runs on the socket itself. An attached socket sends any envelope, and as
anybody: ws.ts does not compare the sender with the participant the socket is
bound to, and what `leave` detaches is the socket it came over. `joinSignal` and
`leaveSignal` are the join and the leave that `handleSignal` takes as signals,
over `POST /signal` or (the join) a socket that is attached already: they need no
membership or leave the row in place, and are told to everyone. `told` and `got`
are what the relay has sent each socket: the participants it was told of and the
log entries it was sent (`to` is an entry's `targetSenderId`). The Store contract
(each call atomic, `putSignal` numbering the log) is InMemoryStore's. Tokens are
reduced to the set `Privileged`.

Three history variables name what the code lets slip, and the properties read
them: `astray` (rows written after the connection had gone or the ban been
recorded, or from an older row, and those of a connection that was bound to
somebody else when it went), `hearsay` (participants of whom the last announcement
was not true of the roster), `ghosts` (connections attached by a join that was
under way when they went). Each is emptied again by what repairs it: a
participant is no longer `astray` once a leave, a kick or a join has written its row,
nor `hearsay` once something true was told of it.

### RoomMesh

Two Rooms, each over a base transport with a mesh. `life[p]` is joined, joining
and closed with the point a join or a leave is suspended at; `tasks[p]` holds
`handleRemoteJoin`, `ensurePeer` and publish at their awaits. Left out: answers
and candidates (`PeerNegotiation`, `IceTrickle`), presence and the snapshot
(`ClientView`). Envelopes keep the order of one sender; a crashed tab's leave is
sent by the server with seq 0. The application opens a Room again only when
everything settled. Concurrent unpublish is atomic.

Three history variables record what may lead two peers apart; only the
properties read them: `crossed` (a leave or an unpublish
crossed a handler that was setting up a connection), `gone` (the last leave
handled of each peer) and `early` (peers whose offer came when they were not in
the roster).

### SignalingPaths, BackendTransport, CloudBackends

`SignalingPaths` stacks a composite over a reconnecting and a plain path, with
refused joins, emits that fail before or after delivery, dropped connections,
and the replay after a reconnect. Backends keep the order of what they carry.
`BackendTransport` is one transport over Appwrite's hooks moving from room to
room while its coalescer, chunker and heartbeat have calls under way; one
receiver stays behind. `CloudBackends` has the five other adapters as hooks of
one base transport: `kind` chooses the adapter of a behaviour. Awaited
statements take effect when issued; a live peer's beats are within the sweeper's
timeout; echo filtering and the libSQL log are left out.

### SfuSession, SfuRouting, EgressWorkers, Transcription

`SfuSession` follows one participant through `init`, publish, negotiation, the
automatic migration and `close`, with each offer reaching the gateway twice, as
it does in the code. One kind of track; unpublish, subscribe and restartIce are
left out. `SfuRouting` has the router's and the adapter's maps with any
interleaving of handler stages, one track per participant; layer changes and
keyframes are left out. `EgressWorkers` has ffmpeg sessions as external
processes and the adapter's egress handles; `Transcription` the buffer, the
timer and answers in any order.

### IceTrickle, DataChannels, E2ee, WhipIngest, FakePeer

`IceTrickle` is one manager against a peer that sends any legal sequence of
descriptions and candidates; a *generation* stands for the ICE credentials of a
description. `fires` says whether the stack fires `negotiationneeded`, which
the restart's timer makes up for; `restarting` says what a restart waits for, the
timer or the offer it then makes. `DataChannels` has both sides' channels, with
adoption, and transcripts that also travel through signaling. `E2ee` says which
ends of which connections carry a transform (insertable streams; one rotation
at a time). A Room made without a key has no `processor`: connections are set up
without transforms (`Ready`), and the first `setE2eeKey` makes the processor and
returns (`bare`, history). `WhipIngest` lets publishes and unpublishes of one connection
overlap. `FakePeer` is the fake of the tests: its microtasks in order, and a
test that calls it between any two of them.

### LocalMedia, DeviceControls, RecordingClient, ClientView

`LocalMedia` has `ControlsManager` over publish and unpublish and the senders of
the mesh: start, stop, mute, share and device switches overlap while peers come
and go. `DeviceControls` has enumerations that answer out of order, facing
modes set track by track, and the raised hand. `RecordingClient` joins facade,
composite hook, recorders, uploads in any order, and the disk storage's
`saveChunk` and `finalize`; its uploader passes every index on.
`ClientView` has the snapshot store with listeners that throw, subscribe,
unsubscribe and change the room while they are called.

### RoomAdmin, SharedServers, StoreTables, Tokens, ProcessTables

`RoomAdmin` has the routes that create, close and delete rooms, move
participants and keep recordings, per Store and storage call over
InMemoryStore. `SharedServers` has two server processes over each store and its
relay, one step per statement or command, with the clients' windows at the end.
`StoreTables` has the remaining tables as programs of statements, for each of
the five stores. `Tokens` has issue, verify, rotate and revoke over two
processes that share no memory. A join is cut at its verification, the two checks of
`handleJoin` and the Store calls of `joinRoom`, with the row of the room as it read
it (the two reads of the roster are one step, as only their refusal matters); beside it each process may have one more call between reading that row and
writing it back (`edit`), which changes the policy or, as leave, kick and others'
joins do, puts back what it read. A policy is *in force* (`InForce`) when it is in
the row and no call under way will write an older row or lift it; the property is
about joins presented from then on. `setAuthToken` comes at any time, with any
token.
`ProcessTables` has the maps core.ts keeps in the process, reached through the
routes as they are called (see section 5), and the egress registry.

### AdaptiveQuality

`Evaluate` is the policy engine's `evaluate` in the order of its tests; `Tick`
samples, decides and begins an application. Applications are not awaited, so
they run beside each other (`applying`, one slot each), every one through the
senders there were, a setter at a time and in any order; a later one may
overtake an earlier one. A setter takes effect when it is called, or rejects, which
is caught and leaves the sender as it was (`Refuses`; the failed set-up of
simulcast ends the turn of its sender, in `Attach`). A duration is a number of
ticks up to the stability window. CPU pressure is an input; the screen-share cap
and manual override are left out.

`SendersFollow` has two exceptions, which last until the tier next changes:
`late` connections, which came after the publication or whose own setter
rejected, and `stray` senders or tracks, which an application of an older tier set
after the one of the present tier had.

## 3. What the runs check

| Run | Instance | Shows |
|---|---|---|
| `reorder_fifo` | 2 senders, 3 ordered frames each, reordering and duplicating channel, gap never reached, fair delivery | the buffer implements `FifoDelivery`; everything sent is released |
| `inbound_unordered` | 1 sender, 2 sessions, frames of both kinds, maxGap 2, loss, duplication, sweeps | the window is bounded; releases rise until the sender idles out; the Room handles nothing twice or out of order, and its window stands at the last envelope handled |
| `server_room` | 3 participants, 2 workers, 2 sockets of which one goes, 11 operations, 3 requests, capacity 1 | who is dropped or banned is out of the roster; clients' views agree with it; the overshoot is bounded; the relay sends what the log holds; a drop detaches |
| `peer_glare` | 2 peers, 3 tracks each, fair | the impolite peer never yields; every glare settles unless rushed |
| `room_call` | 2 Rooms, 2 sessions, 2 join attempts each, a microphone, 2 disturbances | one connection per participant and publication; leaving is final and leaves no ghost; at rest everyone sees and hears everyone |
| `transport_parts` | paths: 2 peers, 2 envelopes each and 3 in all, 2 faults, 1 reconnect attempt; stages: 2 rooms, 3 messages of 2 parts, 1 group; cloud: 5 adapters, 3 frames, 6 events | handed over once and in order; a replay misses only what is old; candidates, chunks and presence kept |
| `media_parts` | session: 2 tracks, 2 transports; whip: 3 tracks, 1 failure; e2ee: 2 connections, 2 keys; channels: 2 messages a side; ice: 3 generations, 2 candidates; fake: 2 tracks, 1 channel, 5 calls | sessions owned, tracks forwarded, ends encrypted, negotiation completed, channel ends agree |
| `client_parts` | media: 2 peers, 2 overlapping tasks, 4 calls; recording: 2 streams, 3 recorders, 2 chunks; view: 1 remote, 2 connections, 2 listeners, 6 events; devices: 2 devices, 2 cameras, 4 calls | mute honoured, captures accounted for, recordings as asked and complete, snapshots true, devices settled |
| `server_parts` | admin: 2 participants, 2 handlers, 4 calls; shared: 3 clients on 2 processes, 4 calls; tables: 5 stores, 2 callers; tokens: 2 servers, 3 tokens, 3 ticks; process, routing, egress, transcription likewise | deletions final, envelopes reach once, tables survive crossing calls, tokens obeyed, router and workers consistent |
| `quality_tiers` | 2 connections, 2 disturbances, one application at a time, window of 2 ticks, fair | upgrades are earned; the tier recovers |
| `quality_senders` | 2 connections, 3 disturbances, 2 applications at a time | senders follow the tier, `late` and `stray` ones excepted |
| `quality_muted` (violation) | the same | a tier change switches a muted camera on |

*Bounds.* Three frames per sender show every order of arrival around one gap;
two sessions are one more than rules that key by sender can tell apart, and with
maxGap 2 the flush happens with frames on both sides of it. Three tracks per
peer let each side offer, be overtaken and offer again while the first answer is
on its way. In `server_room` the third request overlaps two that
already do, over a room that one participant fills; two connections show what a
broadcast reaches and what another connection's sender does, and of the two one may
go (`OneLives`): what goes is met by a join, a leave, a kick, a ban and a signal of
its participant. `closeRoom` and `unlock` are left out of its `Ops`: they write the
room's row only, and the proofs cover them. In `quality_senders` the reports are
those that make the tier fall and rise (`FallAndRise`) on one device, and the two
connections are interchangeable; two applications are what it takes for one to
overtake another. `quality_tiers` has one at a time, since the policy does not
look at them, and two disturbances. Elsewhere the bound is on calls and disturbances together:
two overlapping calls and two more to start from and to look at afterwards are
what each of the races in the hazard list needs; a third frame, recorder, token
or generation is one more than a window, cap or pair distinguishes. The named
bounds `SmallSecondSwitch` (SfuSession), `FewChunks` (RecordingClient) and
`StoreStart` (RoomAdmin) cut what repeats: events after a second switch, chunks
of a third recorder, start states that a call would reach. The proofs of
section 4 remove the bounds for the properties they cover.

*Symmetry* is used where participants, tracks, calls or clients are
interchangeable and no liveness is checked.

*Deadlock* is not checked: every model stops once its bound of frames, tracks or
calls is used up. What must still happen before that is stated as liveness, or
as a property of the states at rest.

*Fairness.* `reorder_fifo`: weak fairness of the delivery of each frame, over a
channel that loses nothing (the backends redeliver or are TCP). `peer_glare`:
operations complete, envelopes arrive, and the browser fires
`negotiationneeded`; nothing is assumed of the application. `quality_tiers`: the
poll interval fires again and again, sampling and setParameters end. None of
these assumes anything of the order in which handlers run.

## 4. What is proved

All theorems hold for every value of the constants allowed by the named
assumptions (`ConstantsAssumption`, `NegotiationAssumption`, `ServerAssumption`,
`RoomAssumption`, `RotationApart`, `QualityAssumption`, `TokenAssumption`,
`RoutingAssumption`, `EgressAssumption`, `SessionAssumption`,
`RecordingAssumption`, `DevicesAssumption`, `MediaAssumption`), which TLC also evaluates on each run.
They say that the bounds are natural numbers, the sets are finite where
something is counted, and that the names the models use are distinct. Each
inductive invariant was checked with TLC before it was proved.

**InboundPathProofs.** About `ReorderBuffer`: `TypeCorrect` is inductive by itself: the work is in
`PushOrdered`, whose new `next` must stay within the numbers in use.
`WindowSafe` proves `WindowBounded` from `WindowInv` (types, untracked senders
hold nothing, the window). `OrderSafe` proves the action property
`ReleasedRising` with `OrderInv`, which adds that everything released lies below
`next`; without it nothing relates a release to earlier ones. Two theorems have
the hypothesis `OneStream` (one session of ordered frames, `MaxGap` beyond
reach). `ImplementsFifo` proves the refinement `Spec => FifoSpec` from
`PrefixInv`: the released numbers are exactly `0 .. next - 1`, and `next` is at
most what was emitted. `DropsSafe` proves `DropsAreDuplicates`: every frame
thrown away is one that was released or still waits.

About `InboundPath`: `HandledInOrder` proves `HandledRising` for any mix of
sessions, kinds, sweeps, loss and duplication: the Room handles the envelopes of
a session in rising order, none twice. The reorder buffer does not give this (it
is keyed by sender and forgets an idle one); what does is `HandledInv`, that
the window of each session stands at the newest envelope handled from it.

**PeerNegotiationProofs.** The inductive invariant is `TypeOK /\ Chains /\ Calm`.
`Chains`: at most one operation of an offer is on a peer's chain, and one is
exactly when `makingOffer` is up. `OfferGuarded` (`OneOfferAtATime`) is its
consequence. `Calm`: while no description has been rushed, the impolite peer's
chain holds at most one operation of a description, never a rollback, and an
offer it applies or answers finds the signaling state its handler relies on; it
is needed because the test of a description and its effect are different steps. `ImpoliteKeepsOffer` proves `ImpoliteNeverYields` from it, for any number
of tracks. Facts about appending to and taking from a chain are lemmas of their
own; each action then has a step.

**RoomServerProofs.** The inductive invariant is `TypeOK /\ TaskInv`, where
`TaskInv` says what each suspended handler must have read by the point it is at
(a handler at `joinTouch` has a row to write back). `TypeCorrect` follows. `CapacityOvershoot` proves
`OvershootBounded`: over any capacity and any number of concurrent requests, the
room exceeds its capacity by at most the other requests in progress. The
argument counts members together with pending writers, as a set of participants,
and bounds what a new writer adds by the workers not yet past their check.
`RelaySound` proves `RelayMatchesLog`: `RelayInv` says that an entry an attached
socket lacks is the one a handler between `putSignal` and its broadcast holds,
whoever it was sent as.

`RosterKept`, `ViewsKept` and `SocketsDetached` prove `RosterHolds`, `ViewsAgree` and
`DropDetaches`, for concurrent requests too. The properties speak of an idle
server; the invariants say what is owed while handlers are suspended. `RosterInv`: a
row of a connection that is gone has the close handler of that connection at
work on it (`Removing`), and a banned participant in the room a ban that has yet to
take it out (`Expelling`), unless the row is `astray`. `ViewInv`: of whom a client has
been told otherwise than the roster, there is a handler that has written or
deleted the row and will say so (`Untold`), unless that is `hearsay`. `HubInv`: a
connection that is gone and still in the hub has its close handler at work,
unless it is a ghost; and the one join of a connection finds it unattached. Each
kind of handler has a lemma per invariant (`JoinRoster`, `LeaveViews`, ...), on
frame lemmas that say what a step of one handler leaves to the others.

**RoomMeshProofs.** `RoomInv` is types, `LifeInv` and `MeshInv`. `LifeInv` says
which combinations of joined, joining and the suspension points of `runJoin` and
`leave` occur, and what the transport tracks at each. `MeshInv` ties the tables
of the mesh to the calls under way: a track has one publish at most, and none
once it is published (`PublishOK`); for each other participant that nothing
crossed, a call that is setting up the connection is the only one, with what the
connection has so far (`Making`), and when there is none the stored connection
is exact (`Exact`). `PeersExact` is not inductive: `ensurePeer` and `publish`
await between the entry and the connection it promises. `ConnectionsExact`
follows.

`LeavesHeld` proves `LeaveHolds` (`NoGhost`, `LeaveIsFinal`) with `GhostInv`,
which follows a leave along the wire: behind it in the channel there are only
leaves of its session, and once it has been accepted neither the roster nor a
call under way names that session. What is sent after a leave goes to a peer
that the exceptions of the property name (`crossed`, `raced`).

`CallSettles` proves `CallAtRest`: what holds when everything
is quiet rests on what each envelope still on its way, and each call still
running, is going to do. The argument is about pairs. `End(p, q)` is all that p
holds about q together with the wire from p to q, and `Pair` says of two ends
what was sent and accepted in which order (`Roots`: numbers rise, an earlier
session ends with a leave, who is in a roster has not left) and what is owed
(`Links`): whoever is known will know (`Mutual`); two that announced themselves
have each other or a join is on its way that will be answered (`Greeted`); a
track that is published has reached the other, is on the wire in an offer, or a
call is running that will offer it (`Fed`). `CallInv` claims `Pair` of every two
peers that nothing led apart (`Fair`, which is what the property excepts, plus
two states on the way there). A step of one peer does to such a pair one of
twelve things (`Moves`: announce, hear, greet, part, post, ...). The `...Meet`
lemmas show that each of the twelve keeps `Pair`, over ends alone and without
the specification; the `...Moves` lemmas, one for each action, that the action
is one of the twelve. With the wires empty and no call running nothing can be
owed, and `CallAtRest` is what is left (`CallRest`).

**SignalingPathsProofs.** `RisesAlways` proves `HandedRising` and
`RecoversAlways` proves `PathsRecover` (`OneOwner`, `MissingIsOld`,
`LeftIsGone`), with no assumption on the constants. `PathsInv` says that until
the Room leaves its window stands at or above all it was handed (`Handed`);
where it may be subscribed at each point of its life, and that a leave no
reconnect overlapped has ended both (`Seats`); that each running reconnect has
the one call that waits for it (`OneEach`); and that each envelope logged while a
connected, synced Room was in is on its way, in the window, or below what the
last replay asked for (`AllCaught`). A replay hands over a set in order:
`RankTaken` shows, by counting, that every rank up to the size of a finite set of
integers is taken, so the ascending enumeration and the maximum exist (`Bounded`:
the log is finite).

**MediaProofs.** `KeyChangeCovers` proves `AllCovered` from `CoverInv`. Its part
`Turns` says of each end the rotation owes that it carries a transform already,
or that its turn is to come: its connection is in `rest`, or is the one at hand
and its senders, or its receivers, have not been gone through. `Rounds` adds that
a rotation under way has a key and owes only ends that connections in the mesh's
map have, so that no connection is made anew under an end that is owed. The key
change that makes the processor is excepted (`bare`, section 5); the ends it left
without a transform are owed by the next one.

`SessionOwned` proves `SessionsOwned`, and `TracksProducedOnce` proves
`TracksForwarded`, for any set of tracks and any number of transports from one
(`SessionAssumption`). `OwnerInv` has the stages of a transport (`Stages`: nothing
is known of one that has not joined, an open session has a live connection), the
accounts of the gateway (`Listed`), and of a transport no overlap touched that it
is the participant's only one (`Only`), with what `init()` has still to publish at
each point: what waits is in the Room's list, and is put on the connection before
the transport becomes the Room's. `ForwardInv` adds, for a session all exceptions
leave out: one `handleOffer()` at a time, whose list holds only what is not
produced (`Orderly`), and of each listed track that it is produced, or pending
with a `Chance` (an offer is being made or handled, `negotiationneeded` is queued,
or the answer on its way will find the track missing from the offer), or that
`init()` or an announcement under way has it (`Feeding`).

**ClientProofs.** The four components of `MCClient`, each by its own invariant,
and the quality policy.

`RecordingObeys` proves `RecordingAsAsked`, from a finite set of streams
(`RecordingAssumption`). `KeyInv` says that, until start is called again, what
records does so under the key that was asked for and a chunk on its way is as
secret as its recorder; `ActiveInv` that a recorder that goes on is in the hook's
map, so that `stop()` reaches it, and that none goes on while `stop()` is awaited.

`DevicesEndAsAsked` proves `DevicesSettle`, from one camera at least
(`DevicesAssumption`). `ListInv`: the newest enumeration of a reader holds the
devices there are; `InTurn`: of overlapping `switchCamera` calls a later one is
never ahead of an earlier one, so the last to write a camera is the last that was
made, and `FacingInv` says what it has yet to write.

`SnapshotTold` proves `SnapshotTrue`, with no assumption on the constants.
`ToldInv` says that a subscriber has been called with the current snapshot or is
in what is left of the innermost notify loop: an outer loop may hold an older
copy of the subscriptions, but the loop that a re-entrant change starts has them
all. `SwapInv` follows `restartTrack`, while nothing crosses it, through its two
awaits: until the new track is there the publication is as it was (`Waiting`);
then senders still to be replaced carry the old track and the others the new one,
and the publication changes with the first (`Replacing`).

`MuteObeyed` proves `MuteHonoured`, from a natural number of calls
(`MediaAssumption`). The property is about what is published and what is sent; the
invariant `MediaInv` adds what the calls under way hold, for each microphone or
camera whose calls did not overlap: it has one call and one publication at most
(`Single`), the call is at work on that one, and nothing is listed while a start
goes on (`InHand`), every live track of it is published or in the hands of the call
(`Captured`), and, unless the flag changed under a call that had read it, what is
published, about to be listed or read before the switch agrees with the flag
(`AsFlagged`).

`CaptureObeyed` proves `CaptureServed`, from the same assumption. The property
speaks of the moments at which no call is under way; `CaptureInv`, beside
`MediaInv`, says what is owed in between. A live display track is shared, or in the
hands of the one call that will share or stop it (`ScreenOK`); what is published,
or about to be, captures (`LiveOK`). While calls that look at one another do not
overlap, the camera a share replaces stays published, and a share whose flag is off
but whose stop is not yet announced has the call that will do so (`ApartOK`); what a
connection is sent differs from what is wanted by exactly the tracks of the calls
that have not, or have already, been at it: `Extra` and `Lacks` name them for each
step of a publish, swap and removal loop (`PeerOK`). When the loop has been through
all connections, the step that lists the track, adopts it or shows it in the
camera's place makes wanted what is sent, and the removal or the camera's return
leaves nothing over. A participant that comes is sent what is listed, which is what
is wanted unless a track stands in for a listed one; `PeersServed` leaves out just
those (`races.came`).

`UpgradesEarned` proves `UpgradeEarned` from
`WindowInv` (while the tier has not been the same for the whole window, the
engine has counted fewer stable ticks than have passed). `SendersHeld` proves
`SendersFollow` for any number of connections and of applications beside each other.
`SendersInv`: a sender is held to the policy's tier, or an application of that
tier or `attachTrack` has it still to come (`Due`), or an older application set it
last (`Astray`). The work is in the steps of an older application, which may set a
sender at any time after a newer one has (`Obeys`), and in the rejections, after
which nobody is due (`Missed`).

**ServerPartsProofs.** Four components, each by its own invariant.

`TokensObeyed` proves `AccessHolds`. `Outlasts` says that an entry made for the
rest of a token's life lasts as long as the token, which is what a rotation, a
clock step or another revocation must not undo; `Refreshing` that a refresh under
way brings a token newer than the one held, unless the application set that one.
`Firm` says of a flag that was in force when the join was presented that it is up in
the row and in every copy of the row that is still to be written, the join's own
included; `Passed` and `HasRole` what the checks of the join established, for the
awaits between them.

`GatewayAgrees` proves `GatewayHolds` (`SessionsAgree`, `Served`). Both properties
are about states at rest, so the invariant has to say what each suspended handler
still owes. `Settled` says of a participant whose joins and leaves never
overlapped that it has one session, named by both maps, and one handler at most
that is about to change that; `Found` that what is registered under its name
lives; `Paid` that a subscriber that was promised a producer consumes it or is
served by a handler that will get there (`Serves`: the target is at hand, or
still in the handler's list with nothing consumed under its name), which needs
that one subscribe of the session is under way (`Alone`) and that what it asks
for it did not hold (`Asking`). The proof corrected the property: `Served` had
not excepted a *target* whose joins overlapped. Such a target has two sessions,
and a subscriber promised the producer of one consumes that of the other; it
takes more requests than the run allows.

`EgressEnds` proves the first two parts of `WorkersEnd`: `SessionOk` ties the
numbers handed on to the next index at each point of an ffmpeg session, and
`AdapterInv` the open transport to the handle while no two calls overlapped.
`AudioTranscribedOnce` proves `AudioOnce`: `Once` says of a chunk that the places it
can be in (the buffer, a batch under way, a transcript, silence) exclude one
another, and that one of them has it while its worker goes on; `Heard` that
starts, batches and transcripts speak of what there was, so that a late answer
takes nothing of a later start.

**Only model-checked:** the liveness properties (`AllReleased`,
`SettlesUnlessRushed`, `Recovers`), since fairness and ENABLED
are outside what the proof system handles; what the four merged runs check
besides `HandedRising`, `PathsRecover`, `AllCovered`, `SessionsOwned`,
`TracksForwarded`, `RecordingAsAsked`, `DevicesSettle`, `SnapshotTrue`, `MuteHonoured`,
`CaptureServed`, `AccessHolds`, `GatewayHolds` and `WorkersEnd`. `ManifestComplete`
among them adds up a fold over a set, which is induction over data. `MutedIsDark`
does not hold (`quality_muted`).

## 5. Where code and documentation disagree

`PROJECT.json` has the finding that a run demonstrates (`quality_muted`): a
quality tier enables the track of a muted camera (room-quality.ts:516 against
ControlsManager.ts:362-363). The other disagreements met while modelling
follow; where one lies in the way of a property, the property names it as an
exception.

*Ordering and delivery.* After a quick rejoin the new session's frames below the
old one's position are dropped (reorder.ts:68; the buffer is keyed by sender).
All kinds share one counter but only ordered kinds advance it, so an ordered
frame behind plain ones is held and then stale for the engine (reorder.ts:59
against 11-12). ConvexBackend hands old frames over again once its set of 4096
ids has forgotten them (against "deliver only frames we have not seen").
Supabase's `untrack()` after `unsubscribe()` has no effect; Firebase's
`selfPresenceRef` is never reset after a leave. The coalescer's batch goes out
after a leave (base.ts:38-39).

*Negotiation.* An offer that arrives while the impolite peer still applies an
answer is ignored as a collision (peer-connection-manager.ts:262 against 7-11).
On a stack that never fires `negotiationneeded`, a restart asked for while an
offer is being made, or whose offer is refused or rolled back, is lost; a
rollback in stable throws and the remote offer goes with it.

*Room.* A join that fails after subscribing splices its unsubscribers without
calling them (room.ts:1642 against 1179-1180; use-join.ts:7-10 counts on "exactly
one clean join survives"). An offer to a session that has ended meets the next one
when its peer comes back at once; the shell participant it creates
(mesh-transport.ts:271) makes the room take the offerer's own join for a repeat,
so it neither replies nor offers its tracks (room.ts:1642 against 1662-1663 and
1674). Muting and switching a track change publications
without an event of the snapshot's list (ControlsManager.ts:296, 370, 663;
room.ts:743 against 1429-1434). Transcripts are delivered twice in a mesh call;
typing and moderation are sent as chat. `restartTrack` undoes a mute made
meanwhile, misses peers that joined and replaces the screen share too.

*Local media.* A mute during a publish or a switch is lost; overlapping
`startCamera` calls leak one; an `ended` before its listener is missed; a device
switch leaves the quality controller on the old track, and the new track of a
muted device is audible during `replaceTrack`. Two overlapping `switchCamera`
calls read the same mode; device lists keep whichever answer comes last;
`lowerHand` tells nobody.

*Quality.* The sampler "takes the worst value across peers" but the available
bitrate is the best one and the limitation reason the last peer's. Simulcast
caps are minima with what was there, so an upgrade never raises them. The
constraint of a departed single-encoding sender stays on the track; a late
joiner's sender gets no tier until the next change. Applications are not awaited
(room-quality.ts:402): one of an older tier may set a sender after the newer one
has, and a setter that rejects (421-423) is not called again, so a sender keeps
another tier than the policy's.

*Encryption, data channels, WHIP.* `setE2eeKey` "re-sets transform on all
senders/receivers" (room.ts:817), but the first key of a Room made without one only
makes the processor and returns (819-828): every sender and receiver there is goes
on in the clear until the next key change. A key change leaves transforms on the old
key, which they captured (e2ee.ts:189), and tracks after the set-up get none until
the next change. `open()` may resolve while the adopted
channel is still connecting. `unpublish()` PATCHes a route the server lacks and
never applies the answer; each POST leaves an egress record nothing ends
(http.ts:735).

*SFU.* A stale consumer entry hides a track published again
(mediasoup-adapter.ts:298); two joins of one participant both pass (93-104); one
failing target drops the rest of a subscribe (sfu-router.ts:349-352); the router
forgets a participant only after an awaited leave (394). A publish before
`init()` is done throws; `close()` during `init()` leaves a session. An ffmpeg
that ends before `stop()` reports no chunk, without the placeholder of
sfu-egress.ts:87; overlapping `startEgress` calls leak a transport.
Transcripts are numbered in the order of answers, and a restart during an
answer sends it to the other room.

*Recording.* `FetchRecordingUploader` sends headers the server does not read;
"chunk.index is monotonic per session" (recording-uploader.ts:17) holds per
recorder, so streams overwrite each other's chunks; finalize does not wait for
uploads; a refused second start has already replaced uploader, mode and key.

*Server.* An envelope with a `targetSenderId` is for "that member only"
(core.ts:466, server/src/types.ts:119-124); both relays broadcast it to all
(ws.ts:306, http.ts:283) and leave it to the clients to ignore it. `POST /signal` is
the place for signals, and takes a join without entering the participant and a leave
without removing it (core.ts:481-490): both are logged and told to everyone. A
socket sends as anybody: ws.ts:293-308 does not compare the sender with the
participant the socket is bound to, and a leave sent as another one removes that
one and detaches the socket it came over. The joins over REST, kicks and locks are
broadcast without an entry in the signal log (http.ts:223, 636-637, 648-649), so who
replays the log misses them. Counting and writing a join are separate Store calls, so concurrent
joins exceed `maxParticipants` (core.ts:368; by how much is bounded, section 4).
Join, leave and kick write back the room row they read, which undoes a close
(core.ts:383 against 147) and a lock or a demand for encryption that was set
meanwhile; a join that read the room before a lock is let in. A socket that closes while its join is in progress
leaves its participant in the room (ws.ts:439 against 22-23). The lobby, ban,
poll and hand routes pass the Store first (http.ts:847, 850, 864, 873, 894, 912,
930-932 against core.ts:233-274): admission always answers 400, lists are empty,
one hand queue serves all rooms. A ban ttl of 0 is permanent. `deleteRoom`
clears the store's bans while bans live in the process, and leaves recording
bytes without a row. A revocation without exp lapses after the default ttl while
the token lives (auth.ts:313) and is lost on a deployment; a token set by
`setAuthToken` is overwritten by a refresh that was under way (room.ts:1048-1051,
1102-1114); policy checks fail
open when a token lapses between verifications (ws.ts:365, 385).

*Stores.* "Every other store must behave identically" (store.ts): InMemory's
lobby keeps a re-put participant's place, the others move it; `votePoll` loses
concurrent votes in Redis, Postgres and MySQL, and Redis resurrects a deleted
poll; RedisStore passes seconds to `pexpire`; a signal's number is handed out
before its row can be read.

*The fake connection* differs from a real one: a channel closed before its
queued open reopens; `close()` leaves channels open; `setLocalDescription` of an
offer is allowed in have-remote-offer; a replaced track fires `track` again at
the next offer; `stop()` fires `ended`.

## 6. What is not covered

- Not modelled, with the reason in `PROJECT.json`: SDP text, media processors,
  active-speaker detection (which pairs connections with ids by position,
  active-speaker.ts:45-48), webhooks, push, TURN, the plugin, framework
  adapters, React bindings, the other ports, the remaining test utilities.
- Left out on purpose: media, codecs, cryptography and statistics gathering;
  text formats (SDP, SigV4, wire framing) beyond what a property tells apart;
  hosted services and SQL drivers, of which only the contract is used.
- Abstractions to keep in mind: no real time, any timeout may fire whenever its
  state allows; Store calls succeed in `RoomServer`; peer envelopes arrive once
  and in order in `PeerNegotiation` (what `InboundPath` ensures for envelopes
  that are not lost); one upload, rotation or migration at a time where section
  2 says so. The modules checked side by side do not act on one another: a
  failure that needs, say, a reconnect during a migration is not explored.
- Store failures: the WebSocket join has no step that makes up for one
  (ws.ts:405), so there is nothing to check.
- Out of the prover's reach: liveness under fairness, ENABLED, induction over
  data, recursive operators. No module that is proved about uses the latter.

## 7. Plan

The model covers the parts with a protocol of their own. What remains, in order:

1. Proofs. `HandsInOrder` and the SQL parts of `TablesHold`, statement by
   statement.
2. Composition. `RoomMesh` over `SignalingPaths`: a reconnect during a join.
   `SfuSession` with `SfuRouting`: subscribers of a participant that migrates.
   `RoomServer` with `Tokens`: a join whose token lapses between its checks.
3. The manual override, `start` and `stop` of the quality controller; layer
   selection in the router.
