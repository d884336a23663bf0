# Verification of the MMO server demo

TLA+ modules, TLC configurations and machine-checked proofs about
`MMOServer-Demo`, a Go server that keeps a world of players in a tick loop and
tells each client about the players near it. File names below are relative to
the repository (`src/`).

Contents: [the system](#the-system) ·
[modules](#modules-and-the-code) · [runs](#what-the-runs-check) ·
[bounds](#bounds) · [fairness](#fairness) · [proofs](#what-is-proved) ·
[findings](#findings) · [plan](#plan) · [limits](#what-is-not-modelled)

To check: `tlc -workers 2 -config X.cfg M` for a row of the table of runs (`M`
is the module column), `tlapm M.tla` for each module of proofs (`M` ends in
`Proofs` or `Lemmas`).

## The system

| component | state | operations | made correct by |
|---|---|---|---|
| AOI manager, `internal/aoi` | cells: sets of player ids | `Enter`, `Leave`, `Move`, `ViewPlayers` | a player is in the cell of its position and no other; sight is mutual; border cells do not wrap |
| Scene, `internal/scene` | table of players, AOI manager, `inCh`, three rates, `aoiEnabled`, tick counter | `Join`, `Leave`, `Move` (append to `inCh`), `tick` (drain, `broadcastAOI`, `broadcastAll`), `SetAOIEnabled`, `SetRates` | table and index agree; what the notifier is told adds up to who sees whom |
| Gateway, `internal/gateway/server.go` | `inbound`, `conns`, `spectators`, `lastSnapshot` | accept, watchdogs, `logicLoop` and its handlers, `DisconnectPlayers`, the notifier's methods | whoever leaves is forgotten everywhere; nobody else is |
| Connection, `internal/gateway/conn.go` | `sendCh`, `done` | `readLoop`, `writeloop`, `Send`, `Close` | a slow client costs frames, never blocks the tick |
| Client, `internal/client`, `cmd/client` | mirror of the players, minimap; what is on the screen | `Login`, `Run`/`handle`, `Move`, `Spectate`; `updateSelf`, `interpolate` | mirror and screen converge to what the server shows, in spite of lost frames |
| Codec, `internal/protocol` | none | `Encode`, `ReadFrame` | a stream of frames is read as it was written |
| Distributed gateway, `internal/gwserver` | `upstream`, the session's stream, `conns` | `sendLoop`, `recvLoop`, `logicLoop`, watchdogs | as the gateway, across a process boundary |
| Scene service, `internal/sceneserver` | a scene, `out` (the current session's channel) | `Session`, the notifier's methods | `out` belongs to the live session; players of an ended one leave |
| Admin API, `internal/api` | `bots` | spawn, move, load test, rates, AOI, clear | the table has the bots that are connected |
| Load test, `cmd/loadtest` | its bots' goroutines, `stop`, `wg` | spawn, stop, wait | it ends, and leaves no connection behind |
| the rest of `cmd/`, `pkg/pb`, `internal/config` | flags, generated code, constants | | |

How they interact. Each connection has a reader, a writer and a watchdog
goroutine. Readers push frames into the one channel `inbound`; `logicLoop`
takes them out and calls `scene.Join` and `scene.Move`, which append to the
scene's channel `inCh`; watchdogs call `scene.Leave`, which appends to `inCh`
too, *beside* `inbound`. The tick goroutine drains `inCh`, changes table and
index, and calls the notifier (the gateway) at once, in its own goroutine; the
notifier looks the connection up in `conns` and puts a frame into its `sendCh`,
or drops it when that is full. HTTP handlers call `DisconnectPlayers`,
`SetAOIEnabled`, `SetRates` and `Snapshot` from goroutines of their own. In the
distributed deployment a gRPC stream takes the place of the calls between
gateway and scene.

What is hard about it:

- two ways lead into `inCh` (through `inbound`, and straight from the
  watchdog), and nothing orders them;
- enter and leave notifications are *increments*, computed from an index that
  is updated by separate calls, and never repeated; snapshots are *absolute*,
  and may be lost;
- `aoiEnabled` can change between two players of one broadcast;
- channels are bounded: `Join`, `Move`, `Leave` block, `Send` drops;
- connection tables are read under a lock and used after it is released.

`PROJECT.json` lists every such hazard with its line and the properties that
would catch it going wrong.

## Modules and the code

| module | models | state and actions |
|---|---|---|
| `Aoi` | `internal/aoi/aoi.go` | Pure operators. An index is a function from cells to sets of players; `GridID`, `SurroundCellIDs`, `PlayersAround` are the methods of those names; `Enter`, `Leave` and `Move` are each an index (`EnterIndex`, ...) and a list returned (`EnterView`, ...). `GoDiv` rounds towards zero, as Go does. `InView`, touching cells, is the reference that nothing else is computed from. |
| `Scene` | `internal/scene/scene.go` | `players`, `index`, `inCh`, `aoiEnabled`, `tickCount`, and the tick goroutine's place `pc`/`todo`. One action per call from outside (`Join`, `Leave`, `Move`, `SetAOIEnabled`) and per step of a tick (`TickStart`, `DrainOne`, `DrainDone`, `SyncOne`, `SyncDone`, `BroadcastAll`, `SkipAll`). The notifier's calls are the operators `Appear`, `Vanish`, `Snapshot`. |
| `World` | (abstract) | What the scene promises: positions, and who sees whom recomputed from them at each step. |
| `SceneView` | scene, its producers, the clients' tables | Adds `known`, what each client has been told over a perfect channel, and `again`, a history variable: the players that joined when they were in the scene (`Rejoin` is the set of the players whose connections may log in more than once). Refines `World` when it is empty. |
| `Uplink` | (abstract) | What the way from the connections up to the scene promises, in one process or in two: per connection, requests arrive in order and once; nothing is lost but one request, the last, of a connection that has ended (`lost`); a connection that has ended, and no other, is sent one leave at most; and only a join that it overtakes leaves a player behind. `Cut` is the end of a process or of the stream. |
| `Requests` | what `LoginReq`, `MoveReq` and the watchdog ask of the scene | `Asks(c, q)`: what a queue of frames or inputs asks for connection `c`, the oldest first. `Gateway` and `Session` say by it what implements `way` of `Uplink`. |
| `Gateway` | `internal/gateway/server.go`, `conn.go` | Scene plus connections: their stages, readers (`held`: the frame that a reader has read and not pushed, or `"dropped"` once it has given one up), `inbound`, `logicLoop` (`job`), watchdogs, tables, snapshot, running `DisconnectPlayers`. `Quitters` are the connections that may end, `Kicks` those that a `DisconnectPlayers` may find (it is called when there is no other player). `raced` is a history variable: the connections whose watchdog overtook one of their own frames. Refines `Uplink` through `WayOf`, what a connection has in its reader's hands, `inbound`, `job` and `inCh`. |
| `Downlink` | the notifiers in `internal/gateway/server.go` and `internal/sceneserver/server.go`, `recvLoop` of `internal/gwserver/server.go`, `conn.Send`, `Backlogged`, `client.go`, `cmd/client/main.go` | Scene plus one connection downwards, in one of three setups that `setup` chooses: the client of a player, of a spectator, and of a player of the distributed deployment. `out` holds the frames of the current handler or broadcast not yet sent, `relay` those between the session's channel and `recvLoop`, `sendCh` the buffer and the link; then the client's mode, `mirror` and `minimap`, and `Drawn`, what `interpolate` leaves on the screen. `perfect` is a history variable: no frame lost so far, AOI always on. |
| `Session` | `internal/gwserver/server.go`, `internal/sceneserver/server.go` | Scene plus two processes and the streams between them. The gateway's memory (`conns`, `held`, `inbound`, `job`, `upstream`, ...) is lost in `Crash`, the scene's in `SceneRestart`; each stream has a handler, a channel, and `wireUp`/`wireDown`, what gRPC holds of it; `out` says whose channel the notifier uses. `overlap` and `raced` are history variables. Refines `Uplink` when there is one run of the gateway. |
| `TickRate` | `SetRates`, `Run`, `tick` of `internal/scene/scene.go` | The three rates, stored one by one by handlers (`SetRate`) and loaded one by one by a tick (`TickStart`, `BroadcastAOI`, `BroadcastAll`, `Reset`). `sends` is a history of what the last second of ticks sent. |
| `AdminApi` | `internal/api/api.go` | `bots` against the steps of `spawnBot`, of `handleClear` (`ListConns`, `CloseOne`, `Forget`) and of the gateway's end of the connections. |
| `LoadTest` | `cmd/loadtest/main.go` | `AdminApi` plus the load test's own bots, which dial and log in by the same steps: the goroutine of each (`Go`, `GiveUp`, `LoggedIn`, `Leaves`) and the main one (`SpawnsDone`, `Deadline`, `Done`). |
| `Codec` | `internal/protocol/codec.go` | `Encode`, and `ReadFrame` as the steps between two `Read`s (`Read`, `TakeLength`, `TakeFrame`, `ReadFails`) over a stream of bytes; `Put` and `Uint` are the big-endian numbers. |
| `SceneViewMC`, `GatewayMC`, `DownlinkMC`, `SessionMC`, `CodecMC` | | Constants and symmetry for TLC; the other modules need none. |
| `SceneLemmas` | | Lemmas on queues and on the operators of `Requests`, `Aoi` and `Scene`, for the proofs about the modules that extend `Scene` to cite. |
| `SceneProofs`, `GatewayProofs`, `SessionProofs`, `DownlinkProofs`, `TickRateProofs`, `LoadTestProofs`, `CodecProofs` | | The theorems about `SceneView`, `Gateway`, `Session`, `Downlink`, `TickRate`, `LoadTest`, `Codec`. |

`SceneView`, `Gateway`, `Downlink` and `Session` each extend `Scene` and so
contain the whole tick goroutine; they differ in what surrounds it. `TickRate`
is the same goroutine with the world left out and the rates variable;
`AdminApi`, with `LoadTest` around it, and `Codec` stand beside them. `Uplink`
is to `Gateway` and `Session` what `World` is to `SceneView`.

Grain of atomicity. A step is what no other goroutine can observe in the
middle: a channel operation, a critical section, one iteration of the drain
(the table and the index belong to one goroutine), one iteration of
`broadcastAOI` (`aoiEnabled` may change between two). In `Downlink` the frames
of one handler are sent one by one, because the writer runs in between. A
handler of the gateway that decodes and then sends to `inCh` is one step that
waits for room: nothing it does before can be seen from outside, except the
login's answer, which `Downlink` makes a step of its own (`LoginResp`, then
`LoginJoin`).

A player's id is its connection's. Ids are never used twice, which the modules
keep to: in `Gateway` a closed connection never comes back, in `SceneView` an
id that has left may join again only when no input of the kind `join` is
queued, and stands for the next new one.

Definitions marked `MUTANT` are not part of the model. Each one is a plausible
mistake in the definition after it; with it in place of that definition, TLC
finds the property that `PROJECT.json` names violated. They show that the
properties depend on the code.

## What the runs check

| run (module) | what it shows |
|---|---|
| `scene_aoi` (`SceneViewMC`) | AOI on, one login per connection, three players on a 3×2 grid that the cell size does not divide, positions outside the map included. `KnownExact`: clients know exactly whom they see at every moment, from increments alone. `ImplementsWorld`: refinement of `World`. |
| `scene_toggle` (`SceneViewMC`) | AOI switched at any moment, and one of the connections logs in as often as it likes. `StaleOnlyIfAgain`: every player of the table is indexed in its cell, and only a player that joined while it was in the scene is indexed elsewhere. Of the players that did not do that, `NeverBlind`: a client may know too many, never too few; and `Converges`: once AOI stays on, and ticks still come to an end, whoever it knows beyond its view is gone for good. |
| `downlink` (`DownlinkMC`) | A player, a spectator, a player of the distributed deployment. `OnlyMinimapPrecedes`: only the minimap can arrive before the login's answer. `PendingExact`: until a frame is lost or AOI switched, the mirror plus the frames on their way is whom the player sees. `Heals`: after any loss (a full buffer, a full session channel, a backlogged connection) and any switch, the mirror becomes exact, for good, once the world stands still and snapshots find room. `ScreenHeals`: and so does the screen, made of mirror and minimap, if minimaps find room too. `TicksGoOn`: a tick waits for nobody; only producers that never let the drain find `inCh` empty keep it from ending, and a client that never reads does not. |
| `gateway` (`GatewayMC`) | Two connections of players. `ImplementsUplink`: refinement of `Uplink`, whatever they do. `GhostOnlyIfRaced`: a player is left behind only if its own frame was overtaken by its watchdog. |
| `gateway_live` (`GatewayMC`) | Two connections of players or spectators, one of which may end while the other goes on sending. `LeakOnlyIfRaced`: a spectator stays in the tables only if its own frame was overtaken. `Deregistered`: connections that end, and those on the list of a running `DisconnectPlayers`, are forgotten by the tables. `SnapshotsForget`: and by the snapshots, unless the login was overtaken - provided that ticks come to an end, which the other connection can prevent. `LogicLives`: `logicLoop` does not wait for room for ever. |
| `gateway_ghost` (`GatewayMC`) | `NoGhost` is violated (finding). |
| `session` (`SessionMC`) | One run of the gateway, which may crash, lose its stream or lose its scene process. `ImplementsUplink`: the same refinement across the process boundary, where four channels and the stream stand between a connection and the scene. `LoginsReachScene`, `Deregistered`, `LogicLives`: while the stream lasts, the channels in both directions do not wait for each other in a circle, and ended connections are forgotten. |
| `session_restart` (`SessionMC`) | Two runs of the gateway with crashes, broken streams and restarts of the scene process. `GhostOnlyIfRaced`: what an earlier run left in the scene goes when a connection of the later one with the same id ends. `OutServing`: frames never go to an ended session. `SilentOnlyIfOverlapped`: a session is only cut off by one that served at the same time. |
| `session_silent` (`SessionMC`) | `NilWithoutSession` is violated (finding). |
| `rates` (`TickRate`) | Rates set at any moment, in the middle of ticks too. `NotTooRarely`, `NotTwiceTooOften`: in any second of ticks with the same rates, whatever the tick counter was, a feed of rate `r` sends at least `r` times (or at every tick) and at most `2r`. `TickerFollows`: the ticker comes to run at the last rate. |
| `api` (`LoadTest`) | `LostOnlyIfRaced`: a connected bot is only missing from the table if it was entered in the middle of a clear. `HandlersEnd`, `TestEnds`: requests and the load test end, although `Login` has no timeout and anybody may close connections. `NothingLeftOpen`: the load test leaves no connection on the server. |
| `codec` (`CodecMC`) | `ReadsWhatWasSent`, `FailsOnlyWhenBroken`, `Delivered`: frames of every legal length survive any cutting of the stream, and none waits for the next. |

One run of each module also checks its `TypeOK`.
`CHECK_DEADLOCK` is on in every run.

## Bounds

- Players: three where exact sight matters (two that see each other and one
  that is out of view of one of them), two in `scene_toggle` and `downlink`.
  Views are a relation between pairs, and a handler relates its player to each
  other player on its own. In `scene_toggle` one of the two logs in again; that a
  third player, who does, spoils nothing between the other two is proved
  (`ClientsNeverBlind`).
- Grid: 3 by 2 cells of side 3 over a map of 7 by 4, from -2: a negative
  origin, a cell beyond the border, an index at which `g+1` is not a
  neighbour, two columns that do not touch. `Downlink` uses a row of cells.
- `InCap`, `InboundCap`, `sendCap` are 1 to 3 instead of 1024, 1024 and 64:
  small enough to be full often, so that blocking, dropping and overtaking all
  occur. Two inputs in `inCh` are enough for one to overtake another.
- Rates: `scene_aoi` and `scene_toggle` have broadcasts that are not due at
  every tick; the others have them at every tick, which only adds frames, or
  not at all: in `gateway` no broadcast is due, since all that one changes there
  is `lastSnapshot`, which `gateway_live` looks at. `tickCount` is kept modulo `TickPeriod`, a common multiple of the
  periods (`PeriodAssumption`), so that it decides the same broadcasts.
- `downlink`: the observer and one other player. A player or spectator has one
  place in `sendCh`; the distributed setup has two, being backlogged at one, and
  one in the session's channel, and its players come and go but stay in sight
  (moving out of view and back is what the first setup has).
- Connections in `gateway`: two, symmetric, both of players: what `Uplink` and
  the table of players are about. `gateway_live` has two as well, because what one
  of them has to wait for depends on the other, who takes the room in both
  channels and keeps ticks from ending. Liveness rules symmetry out, so only one
  of them may hang up, `DisconnectPlayers` is only called while the other is no
  player of the tables (it may log in while the list is worked off), and both
  channels have one place. `LeakOnlyIfRaced` is proved for any number.
- `scene_toggle` has positions in one row of cells and one place in `inCh`: the
  handlers are applied one at a time whatever the length of the queue.
- `session`: one connection on one run, with two places in `upstream` so that
  what a connection sends can change places with its `Leave`; AOI frames come
  back on every tick and fill the channels of the way down. `session_restart`
  and `session_silent`: two runs with one connection each, enough for a handler
  to outlive its gateway and for an id to be used again. Every other channel of
  the way has one place.
- `rates`: rates 2 and 5 (5/2 is rounded), 0, which is ignored, and 6, which
  stands for a rate above 10^9: a second is 5 units, so that its interval is 0.
  `tickCount` is kept modulo `TickPeriod` = 6, a multiple of every quotient. One
  handler sets rates: since a store of 0 leaves its rate alone, it can make any
  sequence of stores that two handlers make.
- `codec`: bytes of one bit, a length of two bytes and a type of one, packets
  of at most 3 (the largest that the length field can say, and one less than
  would overflow), bodies from empty to one byte too long, three packets in a
  row (`MaxSent`, the only bound on a counter in the project; `tickCount` wraps, and
  every other quantity is bounded by the capacities of the channels and the
  sizes of the sets).
- `api`: one bot of the console, one of the load test and two handlers that
  clear. Each bot is dialled once, as in the code, and a bot's steps depend on
  no other bot's; what they meet is the clearing, the network and the tables.
- `scene_aoi` and `gateway` use symmetry (players and connections are
  interchangeable there, in `World` and `Uplink` too, which state no fairness);
  no run with a liveness property does.

## Fairness

- The tick goroutine always has a step to take and the runtime schedules it:
  weak fairness of `Tick`.
- A goroutine that waits to send to a Go channel stands in a first-in
  first-out queue of senders and is handed the next free place. Other senders
  may take room before it but not for ever: strong fairness of `Logic`,
  `PushFrame` and `WatchdogLeave` in `Gateway`. The rest of the goroutines of a
  connection have weak fairness.
- In `Session` the same holds of whoever waits for room in `upstream`, on the
  stream or in `inCh`: strong fairness of `SendUp`, `SessionRecv`, `Logic`,
  `PushFrame` and `WatchdogLeave`; the rest is weakly fair. Nothing has to fail, and nothing
  that has failed has to be started again: the properties are conditional on
  the stream.
- In `AdminApi` and `LoadTest` the steps of each bot are weakly fair together,
  each being taken at most once; so are those of a clear, and the main
  goroutine. That the gateway answers a login is `LogicLives` of `Gateway`.
  `LoginMistaken` and `ConnEnds` are not fair, so that nothing ends only thanks
  to a minimap frame or to the network.
- In `Downlink` `Tick` and `RecvLoop` are weakly fair: neither ever waits for
  room. Nothing is asked of the client or of the
  link: `Heals` is conditional on snapshots that find room again and again,
  which they only do when the client reads, and `TicksGoOn` covers the client
  that never does. The same goes for administrators.
- In `TickRate` the tick goroutine is weakly fair, in `Codec` the reader;
  handlers that set rates and the sender are not.
- The code does not bound a drain: producers that never let `drainInputs` find
  the channel empty stop the snapshots, and one connection that keeps moving is
  enough. `Converges` and `SnapshotsForget` therefore have `[]<>(pc = "wait")`,
  ticks come to an end, for a premise, and do not hold without it. `TicksGoOn`
  says what that premise excludes: a tick that does not end drains inputs for
  ever, and a tick that has begun its broadcasts ends. The liveness properties
  of `Gateway` and `Session` need no such premise, since what they wait for is
  room in `inCh`, which a drain makes. `TickRate` takes it for granted
  (`TickerFollows`). `Heals` assumes that snapshots find room
  in the buffer again and again: the buffer drops the newest frame, and a link
  on which the minimap takes every free place heals nothing.

## What is proved

TLAPS proves these for every value of the constants that the modules' `ASSUME`s
allow: any map and cell size, any number of players, connections, gateways and
handlers, any capacities and rates. A theorem that assumes more says so in the
table, and its run has the same assumption.

| theorem | statement |
|---|---|
| `SceneProofs`: `TypeCorrect` | `Spec => []TypeOK` |
| `OnlyRejoinedStale` | `Spec => []StaleOnlyIfAgain`, however often connections log in |
| `ClientsNeverBlind` | `Spec => []NeverBlind`, however AOI is switched and however often connections log in |
| `ClientsKnowExactly` | `Spec => []KnownExact`, if no connection logs in twice and AOI is always on |
| `SceneImplementsWorld` | `Spec => ImplementsWorld`, under the assumptions of `ClientsKnowExactly` |
| `SceneLemmas`: `SurroundIsView` | the nine cells computed from a cell number are exactly the cells that touch it |
| `GatewayProofs`: `TypeCorrect` | `Spec => []TypeOK` |
| `GhostsAreRaced`, `LeaksAreRaced` | `Spec => []GhostOnlyIfRaced`, `Spec => []LeakOnlyIfRaced` |
| `GatewayImplementsUplink` | `Spec => ImplementsUplink` |
| `SessionProofs`: `TypeCorrect` | `Spec => []TypeOK` |
| `NeverEmitsToEnded`, `SilentAreOverlapped` | `Spec => []OutServing`, `Spec => []SilentOnlyIfOverlapped` |
| `GhostsAreRaced` | `Spec => []GhostOnlyIfRaced` |
| `SessionImplementsUplink` | `Spec => ImplementsUplink`, with one run of the gateway |
| `DownlinkProofs`: `TypeCorrect` | `Spec => []TypeOK` |
| `AnswerComesFirst` | `Spec => []OnlyMinimapPrecedes` |
| `MirrorFollowsSight` | `Spec => []PendingExact` |
| `LoadTestProofs`: `TypeCorrect` | `Spec => []TypeOK` |
| `LostAreRaced` | `Spec => []LostOnlyIfRaced` |
| `TickRateProofs`: `TypeCorrect` | `Spec => []TypeOK` |
| `OftenEnough`, `NotMoreThanTwice` | `Spec => []NotTooRarely`, `Spec => []NotTwiceTooOften` |
| `CodecProofs`: `TypeCorrect` | `Spec => []TypeOK` |
| `ReturnsWhatWasSent`, `AcceptsWhatWasEncoded` | `Spec => []ReadsWhatWasSent`, `Spec => []FailsOnlyWhenBroken` |
| `PutAndBack` | a number that fits into its field comes back from it, for any base and width |

Every invariant that holds in a run is the property of one of these theorems, and
so are the three refinements (`ImplementsUplink` of `Session` for one run of the
gateway).

`TypeCorrect` says in each module that no channel, buffer or stream ever holds
more than its capacity. The proofs about modules that extend `Scene` share the
lemmas of `SceneLemmas`: queues one behind the other, and `Asks`; cells and views;
the types of the scene's steps; what becomes of the inputs in a queue when one is
put behind the others or taken off; and whom the notifier tells what
(`DrainChangeBut`: as far as the players are concerned whom the index holds in
their cells only, the notifications of an input are exactly the changes of sight
that it makes; `DrainChange` when the index is exact).

### The scene

`StaleOnlyIfAgain` is inductive with `TypeOK`, and its proof assumes nothing of
the clients: an entry of the index that no handler is about to move or to take
out belongs to somebody in `again`, who never leaves that set.

It says, too, for whom the index can be relied on: `IndexesBut(index, players,
again)`. That is all that `NeverBlind` needs. An input tells two players outside
`again` of each other what has changed between them (`DrainFollowsOn`), whatever
the index holds of a third, and a snapshot leaves nobody out that is in view
(`SnapshotHolds`). For each handler a lemma of `SceneLemmas` (`JoinChange`,
`LeaveChange`, `MoveChange`) computes `Appear` and `Vanish` of such a pair from
positions, through `SurroundIsView`, and shows that the view after the step is the
view before, plus `Appear`, minus `Vanish`.

The exact theorems (`ClientsKnowExactly`, `SceneImplementsWorld`) need an index
that is exact for everybody, and `IndexExact` is not inductive as it stands: a
second `join` for a player that is in the table breaks it. They assume one login
per connection (`Rejoin = {}`), as their run does, and the inductive invariant `IInv` is

    TypeOK /\ IndexExact /\ JoinOnce /\ TodoJoined /\ FreshUnknown

`JoinOnce` says that a `join` waits in `inCh` at most once, and only for
players that are not in the table; `TodoJoined`, that a broadcast only visits
players of the table (so that a snapshot is taken at a position); and
`FreshUnknown`, that whoever is not in the scene knows nobody, without which a
newcomer might inherit an old ledger. They also assume `AoiModes = {TRUE}`, since
with the switch a client may know too many. The refinement uses the same lemmas:
a drained input is a step of `World` or leaves everything as it is, any other step
is a stutter.

### The gateway

    IInv == TypeOK /\ LeftClosed /\ PipelineRaced /\ LeavesFollow /\ LeakOnlyIfRaced

`GhostOnlyIfRaced` looks at the scene's table, which a join changes long after
the watchdog's `Leave` was sent. What holds at every step is `LeavesFollow`:
for a connection whose `Leave` has been sent and that was not raced,
`WillBeGone(inCh, c, Joined)`: when the inputs now in the channel have been
drained, the player is not in the table, since behind every join of it, and
behind the player itself, there is a leave. Nothing can spoil that but a login
handled later, so `PipelineRaced` says that a connection with a frame left in
the pipeline after its `Leave` (or its removal) is one of the raced, and
`LeftClosed` that no frame is read any more. `LeakOnlyIfRaced` needs the same
two for the table of spectators.

### The distributed deployment

For the notifier's channel, `OInv == TypeOK /\ OutServing /\ BesideOverlap /\
SilentOnlyIfOverlapped`: handlers that serve at the same time are all in
`overlap`, so that a handler outside of it has the scene to itself, and it is
its channel that its end clears.

For ghosts, `GInv` adds `Lives` (one run of the gateway is up, a gateway that
begins has no connections, a handler does not end before its stream),
`LeftClosed`, `LoginRaced` (a login that is still in the reader's hands, in
`inbound` or in the job when the `Leave` has been sent is one of the raced), and
a `LeavesFollow` over the whole way of a
connection: what gRPC holds, `upstream` and `inCh` taken as one queue. It has two
parts. While the stream is served, the queue in front of the scene leaves
nobody of the connection behind, unless handlers overlapped. Before it is, the
handlers of *earlier* streams may still put joins of the same ids into `inCh`,
as often as they like; then it is enough that the part of the queue that has
not left the stream ends in the leave, whatever the scene has meanwhile
(`WillBeGone(.., c, {c})`).

### The way down

`OnlyMinimapPrecedes` is about frames that were sent long ago; the reason is
the order of two calls. `IInv` says where the frames of a client in `Login` can
be: `Kinds`, which frames each buffer holds; `Unheard`, that until the login is
handled the scene has not heard of the player (`Absent`: neither in the table,
nor in `inCh`, nor in the index, nor in a broadcast under way), so that nobody's notification
names its connection as the receiver; `Answered`, that after that the answer is
in the queue in front of everything else.

`PendingExact` compares a set of players with a fold: `Handled`, the client's
handler of one frame, over everything between the notifier and the mirror.
`EInv` adds to `IInv` the invariants of the scene (`SceneInv`: the index is
exact, a `join` waits once, ...) and `Exact`, the property with the frames of the
current handler (`out`) included. That a fold over a queue does what its
name says is proved first, by induction over the queue: `PlayBehind` (two queues
one behind the other), `PlayFirst` (the client takes the first frame),
`PlayLast` (one more is sent). With these, a frame that moves from one buffer to
the next changes nothing. A drained input puts the frames of its `Appear`
and `Vanish` into `out`, in an order that the model leaves open:
`PlayEnters` and `PlayLeaves` show that the order is of no consequence, and
`DrainChange` that what they add up to is the new sight. A snapshot is
`SnapshotSees`. Only `Exact` as a whole survives a step: the mirror by itself
is wrong most of the time.

### The way up

`Uplink` speaks of one queue of requests per connection. In `Gateway` it is
`Asks` of four things in a row (`inCh`, the job in hand, `inbound`, the frame
that the reader holds), in `Session` of six (`inCh`, the stream, `upstream`, the
job, `inbound`, the frame that the reader holds). What all connections have in
common of these is one queue (`All`); what a reader holds is its connection's own
tip of the way (`Tip`), behind it. `Asks` is defined by recursion over the queue; `SceneLemmas`
shows that it goes along with putting queues together, with an element at the
end and with taking one from the front (`AsksConcat`, `AsksAppend`, `AsksHead`),
by induction over sets of sequences (`SequenceInduction`). With that each action
is one of `Uplink`'s:

- moving a frame from one queue to the next, and turning it into an input, leave
  the way as it is (`PipePush`, `PipeTake`, `PipeHandle`; `ChainAppend`,
  `ChainSendUp`, `ChainTake`, `ChainHandle`): a stutter;
- reading a frame is `Speak`, closing a connection `End`, giving up a frame that
  is held `Discard`, a drained input `Arrive`;
- the watchdog's leave goes to the end of `inCh` (in `Session`, of `upstream`),
  which is the middle of the way: `Leave` with the place behind what that queue
  holds. A join is behind that place exactly if the login is still in the
  pipeline (`LoginBehind`), the reader's hands included, which is when `raced`
  records it;
- in `Session` whatever breaks the stream or ends a process is `Cut`, and the way
  after it a beginning of the way before it.

In `Gateway` this needs `MapInv` besides `IInv`: `RolesAgree` (only a player's
frames ask for anything, and only a spectator's are `Spectate`) and
`RacedClosed`. In `Session` it needs `GInv` and `UInv`: an id that `nextID` has
not reached is unused, so that accepting a connection ends none and takes back
no leave; and a scene whose stream is yet to be opened is empty, so that its
restart loses nothing.

### The load test

`ToBeClosed` says of a handler that clears what it has in hand: each connected
bot of the table is on its list or was entered since (`raced`); `Accepted`, that
a bot that has logged in was dialled. Without the first `LostOnlyIfRaced`
would not survive the step in which the handler forgets the table.

### The rates

`NotTooRarely` and `NotTwiceTooOften` count in a window of past ticks. `RInv`
says what each remembered tick was: `Remembered`, that the `i`-th of them sent
exactly if the count that it was taken at, so many before the present one, is a
multiple of the period; that a feed has nothing remembered while a change is
`changed`; and that otherwise the tick's copy `hz` is the rate. A step of the counter
keeps this although it wraps, because the period divides `TickPeriod`
(`CountOn`). The rest is arithmetic: `HitsCounted` counts the multiples of `e`
among `n` consecutive numbers by numbering them, `HitsBounded` compares that
with the rate when `e` is its quotient, and with a rate beyond the ticks'
(`SecondIsAll`) every tick sends.

### The codec

`ReadsWhatWasSent` only speaks of what has been returned. `SInv` says where the
reader stands in the stream: there is a `rest`, for each number of packets what
those behind them make together (`Stream`), and the buffer and the wire hold the
`rest` behind the frames returned, or its payload if the length has been taken,
up to what a broken connection has lost (`InStep`). Because `rest` is a function
that exists, not one that is computed, no step needs an induction: a write
appends to each of its values, a frame moves on by one. That a full buffer then
is the length or the payload of the next packet is `SameCut` (a sequence is cut
at one place in one way), and that it reads as the same number `PutAndBack`. Without
`Accepted`, that packets sent are within the maximum, `ReadFrame` might refuse one.

`PutAndBack` is about a fold of the community modules, as is `Play` in
`DownlinkProofs`, and about `Power`, which is recursive. Such a definition chooses a
function with a recursive equation, and says nothing before one is known to
exist. `FoldExists` and `PowersExist` show that by induction over *sets* of
numbers (`NumberInduction`), which the provers can apply where the library's
theorems, with an operator for a parameter, cannot be.

### Assumptions on constants

Each is in the `ASSUME` of its module, and TLC evaluates it on every run.
Apart from positive capacities and rates they are: `Nil` is none of the values
that it stands beside; `Player` is finite where frames are counted (ids are
`uint64`); the runs of a gateway are numbered by naturals; `TickPeriod` is a
common multiple of the periods; `Rates` has a largest (they are Go's `int`).

### Only model-checked

- Every liveness property: fairness and `ENABLED` are out of the prover's reach.
- `Session` with several runs of the gateway is not said to implement `Uplink`:
  ids that are used again do not have one way each. `GhostOnlyIfRaced` says what
  holds of them.


## Findings

1. `gateway_ghost`: a `LoginReq` still in `inbound` when its connection ends
   joins the scene after the watchdog's `Leave` (`internal/gateway/server.go:78`)
   and stays for good; line 128 says that the watchdog takes the player out.
   `GhostOnlyIfRaced` shows that nothing else leaves a player behind.
2. `session_silent`: the handler of a broken stream sets `out` to nil when it
   ends (`internal/sceneserver/server.go:137`), even when a later session has set
   it since; that session gets no frames. Line 33 says that `out` is the current
   session's channel, nil only when there is none. `SilentOnlyIfOverlapped`
   shows that only sessions that served at the same time are cut off: in this
   way, or when the broken stream's handler *begins* after the next one's and
   puts its own channel into `out` (line 114).

Also seen while modelling, with no run of their own; where a checked property
says how far the effect goes, it is named.

- `handleJoin` (`internal/scene/scene.go:208`) does not look whether the player is
  in the table; a player that has moved to another cell and logs in again is
  indexed in two, though `docs/design-aoi.md:22` says that each player lives in
  exactly one. `StaleOnlyIfAgain` shows that nothing else does that, and
  `NeverBlind` that only views of and by such a player suffer.
- `SyncAll` (`internal/gateway/server.go:250`) sends the minimap to connections
  that have not logged in, too; the first frame of one may then not be the
  `LoginResp` that `internal/gateway/server_test.go:40` is certain of, and
  `Client.Login` fails (`internal/client/client.go:73`). `OnlyMinimapPrecedes`
  shows that nothing but the minimap gets there first.
- `DisconnectPlayers` (`internal/gateway/server.go:140`) closes a connection
  that became a spectator after the list was made; line 126 says that
  spectators are kept. The comment of `handleClear` (`internal/api/api.go:315`)
  says the opposite, that spectators are removed as well.
- An ended session leaves its players in the scene
  (`internal/sceneserver/server.go:141`), and the next gateway's connections
  get the same ids (`internal/gwserver/server.go:66`), so that frames about
  those players are written to connections of others.
- A `tickHz` above 10^9 makes `tickInterval` (`internal/scene/scene.go:106`) 0
  and `ticker.Reset` panic; no other rate stops the ticker (`TickerFollows`).
- When the scene's process is started again, a gateway that stays never opens a
  second stream (`internal/gwserver/server.go:43`): it goes on answering logins
  whose players no scene has, until `upstream` and `inbound` are full.
- The distributed gateway does not know `Spectate`
  (`internal/gwserver/server.go:162`; `internal/sceneserver/server.go:64` says
  so): a spectator then sees the minimap's players only, all drawn as far.
- `config.go:24` gives the default preset as 30/10/5, and `AllHz` is 3.
- The load test reports as connected whoever has ever logged in
  (`cmd/loadtest/main.go:53`); line 84 calls it the number online.
- A bot that is entered while `handleClear` runs is dropped from the table
  (`internal/api/api.go:323`) but is not closed (`LostOnlyIfRaced`).

## Plan

Done, in this order: `Aoi`, `World`, `Scene`, `SceneView` with their proofs (the
world model everything else rests on), `Gateway` (the concurrency), `Downlink`
(delivery), `Session` (the distributed deployment), `TickRate`, `AdminApi`,
`Codec`; then `Downlink` for spectators, the minimap and the distributed
deployment, `Uplink` with its two implementations, the restart of the scene
process, `LoadTest`.

All invariants and refinements that runs check are proved. To do: the coupling of
`Session` with several runs of the gateway to an abstract specification, which
needs one that speaks of ids used again.

## What is not modelled

- Coordinates are integers: only their integer parts decide anything on the
  server. NaN and values beyond the range of `int` are left out; what Go makes
  of them depends on the machine.
- Encoding and decoding, which fail only for malformed bodies (the handler
  returns at once) or packets over 1 MiB (the frame is not sent).
- Unknown message types, which are logged; byte and frame counters.
- In `Session`: the contents of frames and what becomes of them at a
  connection, which are `Downlink`'s, where the way from the session's channel
  to `recvLoop` is one queue that does not break. `emit` reads `out` and sends in one step: what it would
  send to a session that ended in between is lost as well.
- In `Codec`: the number of bits of a byte and the sizes of the fields are
  constants; streams that no `Encode` wrote are left out, so that `ReadFrame`'s
  errors about lengths are there but never taken.
- What happens after a stream has broken, in a gateway that stays up: `sendLoop`
  returns at the first error (`internal/gwserver/server.go:106`), and `upstream`,
  `inbound` and whoever sends to them are stuck. `Session` models it, but its
  liveness properties are about the time before (`~Up`), and no property of this
  project catches it.
- Ticks in which a rate changes: `TickRate` leaves them out of its history.
- A failure of `Accept` (`internal/gateway/server.go:66`), which ends the server:
  file descriptors are not counted.
- The API's metrics, positions and launcher; the counters of the load test.
- In the visual client: the interpolation between two positions, which is
  floating point, the drawing, and the window's closing.
- Flags, the web page, generated code. Nothing of them changes a state that the
  modules have.
