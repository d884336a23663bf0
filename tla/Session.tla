------------------------------- MODULE Session -------------------------------
(***************************************************************************)
(* The distributed deployment: a gateway process (internal/gwserver) and a *)
(* scene process (internal/sceneserver) with a gRPC stream between them.   *)
(* A gateway may crash and be started again, so may the scene process, and *)
(* a stream may break; while the scene process lasts, it has a handler for *)
(* each stream that was opened.                                            *)
(*                                                                         *)
(* Gw numbers the runs of the gateway, one after the other.  Each of them  *)
(* gives its connections the ids 1, 2, ... again, and they are the ids of  *)
(* the players.  A frame is who it is for; its contents are left out, and   *)
(* so is what becomes of it once it is handed to the connection (Send or   *)
(* Backlogged: module Downlink).                                           *)
(***************************************************************************)
EXTENDS Scene, Requests, SequencesExt

CONSTANTS Gw,          \* runs of the gateway process
          Failures,    \* what may fail: "crash" (a gateway), "link" (a
                       \* stream), "scene" (the scene process)
          InboundCap,  \* capacity of inbound (1024 in the code)
          UpCap,       \* capacity of upstream (1024 in the code)
          WireCap,     \* what gRPC holds in each direction of a stream
          OutCap       \* capacity of a session's channel (1024 in the code)

BroadcastTarget == 0

Request == {"login", "move"}
Inbound == [id : Player, kind : Request]
Frame   == Player \cup {BroadcastTarget}

\* Ids are of type uint64: there are finitely many.
ASSUME SessionAssumption ==
  /\ Player \subseteq Nat \ {0} /\ IsFiniteSet(Player)
  /\ Gw \subseteq Nat \ {0}
  /\ Nil \notin Gw \cup Inbound /\ Nil \notin Request \cup {"dropped"}
  /\ Failures \subseteq {"crash", "link", "scene"}
  /\ {InboundCap, UpCap, WireCap, OutCap} \subseteq Nat \ {0}

VARIABLES
  gateway,    \* of each run: "new", "up", "down"
  \* The memory of the gateway that is up.
  nextID,     \* s.nextID
  conns,      \* s.conns
  stage,      \* of a connection: "new", "up", "closed"
  loggedIn,   \* the connections that have sent LoginReq
  held,       \* of a connection: the request that its reader is about to push,
              \* Nil, or "dropped": it has given one up and returned
  inbound,    \* the inbound channel
  job,        \* what logicLoop is handling, or Nil
  watchdog,   \* "off", "wait", "remove" (Leave is in upstream), "end"
  upstream,   \* the upstream channel
  sendLoop,   \* "run", "gone"
  raced,      \* history: the connections whose watchdog overtook their login
  \* The streams.
  link,       \* "none", "ok", "broken"
  wireUp, wireDown,
  \* The scene process.
  handler,    \* of each stream: "none", "serving", "ended"
  channel,    \* the channel out of each handler
  out,        \* s.out: whose channel, or Nil
  calls,      \* the frames of the current call of the notifier, not yet sent
  overlap     \* history: the streams whose handlers served at the same time

table    == <<nextID, conns, stage, loggedIn>>
pipe     == <<held, inbound, job>>
memory   == <<table, pipe, watchdog, upstream, sendLoop, raced>>
service  == <<handler, channel, out, overlap>>
streams  == <<link, wireUp, wireDown>>
outside  == <<sceneVars, gateway, streams, service, calls>>
vars     == <<outside, memory>>

TypeOK ==
  /\ SceneTypeOK
  /\ gateway \in [Gw -> {"new", "up", "down"}]
  /\ nextID \in Player \cup {0}
  /\ conns \cup loggedIn \cup raced \subseteq Player
  /\ stage \in [Player -> {"new", "up", "closed"}]
  /\ held \in [Player -> Request \cup {Nil, "dropped"}]
  /\ inbound \in Seq(Inbound) /\ Len(inbound) <= InboundCap
  /\ job \in Inbound \cup {Nil}
  /\ watchdog \in [Player -> {"off", "wait", "remove", "end"}]
  /\ upstream \in Seq(Input) /\ Len(upstream) <= UpCap
  /\ sendLoop \in {"run", "gone"}
  /\ link \in [Gw -> {"none", "ok", "broken"}]
  /\ wireUp \in [Gw -> Seq(Input)]
  /\ wireDown \in [Gw -> Seq(Frame)] /\ channel \in [Gw -> Seq(Frame)]
  /\ \A g \in Gw : /\ Len(wireUp[g]) <= WireCap /\ Len(wireDown[g]) <= WireCap
                   /\ Len(channel[g]) <= OutCap
  /\ handler \in [Gw -> {"none", "serving", "ended"}]
  /\ out \in Gw \cup {Nil}
  /\ calls \in Seq(Frame)
  /\ overlap \in SUBSET Gw

Init ==
  /\ SceneInit
  /\ gateway = [g \in Gw |-> "new"]
  /\ nextID = 0 /\ conns = {} /\ loggedIn = {}
  /\ stage = [c \in Player |-> "new"]
  /\ held = [c \in Player |-> Nil] /\ inbound = <<>> /\ job = Nil
  /\ watchdog = [c \in Player |-> "off"]
  /\ upstream = <<>> /\ sendLoop = "run" /\ raced = {}
  /\ link = [g \in Gw |-> "none"] /\ handler = [g \in Gw |-> "none"]
  /\ wireUp = [g \in Gw |-> <<>>] /\ wireDown = [g \in Gw |-> <<>>]
  /\ channel = [g \in Gw |-> <<>>] /\ out = Nil
  /\ calls = <<>> /\ overlap = {}

-----------------------------------------------------------------------------
(* The gateway process.                                                    *)

\* New: the stream is open for the gateway before the scene serves it.
Start(g) ==
  /\ gateway[g] = "new" /\ \A h \in Gw : h < g => gateway[h] = "down"
  /\ gateway' = [gateway EXCEPT ![g] = "up"]
  /\ link' = [link EXCEPT ![g] = "ok"]
  /\ UNCHANGED <<sceneVars, memory, wireUp, wireDown, service, calls>>

\* The process ends and its memory with it.
Crash(g) ==
  /\ "crash" \in Failures /\ gateway[g] = "up"
  /\ gateway' = [gateway EXCEPT ![g] = "down"]
  /\ link' = [link EXCEPT ![g] = "broken"]
  /\ nextID' = 0 /\ conns' = {} /\ loggedIn' = {}
  /\ stage' = [c \in Player |-> "new"]
  /\ held' = [c \in Player |-> Nil] /\ inbound' = <<>> /\ job' = Nil
  /\ watchdog' = [c \in Player |-> "off"]
  /\ upstream' = <<>> /\ sendLoop' = "run" /\ raced' = {}
  /\ wireDown' = [wireDown EXCEPT ![g] = <<>>]
  /\ UNCHANGED <<sceneVars, wireUp, service, calls>>

LinkFails(g) ==
  /\ "link" \in Failures /\ link[g] = "ok"
  /\ link' = [link EXCEPT ![g] = "broken"]
  /\ UNCHANGED <<sceneVars, gateway, memory, wireUp, wireDown, service, calls>>

\* The process begins to accept once New has opened its stream.
Running == \E g \in Gw : gateway[g] = "up"

\* The accept loop: addConn, Start and the go statement of the watchdog.
Accept(c) ==
  /\ Running
  /\ c = nextID + 1
  /\ nextID' = c
  /\ conns' = conns \cup {c}
  /\ stage' = [stage EXCEPT ![c] = "up"]
  /\ watchdog' = [watchdog EXCEPT ![c] = "wait"]
  /\ UNCHANGED <<outside, loggedIn, pipe, upstream, sendLoop, raced>>

\* The client or the network ends the connection; the reader, unless it has a
\* request to push, or the writer notices and closes it.
CloseConn(c) ==
  /\ stage[c] = "up"
  /\ stage' = [stage EXCEPT ![c] = "closed"]
  /\ UNCHANGED <<outside, nextID, conns, loggedIn, pipe, watchdog, upstream,
                 sendLoop, raced>>

\* ReadFrame returns a frame: the client logs in once, then moves.
ReadFrame(c) ==
  /\ stage[c] = "up" /\ held[c] = Nil
  /\ held' = [held EXCEPT ![c] = IF c \in loggedIn THEN "move" ELSE "login"]
  /\ loggedIn' = loggedIn \cup {c}
  /\ UNCHANGED <<outside, nextID, conns, stage, inbound, job, watchdog, upstream,
                 sendLoop, raced>>

\* The two cases of the reader's select, as in module Gateway: both may be taken
\* after the connection has been closed.
PushFrame(c) ==
  /\ held[c] \in Request /\ Len(inbound) < InboundCap
  /\ inbound' = Append(inbound, [id |-> c, kind |-> held[c]])
  /\ held' = [held EXCEPT ![c] = Nil]
  /\ UNCHANGED <<outside, table, job, watchdog, upstream, sendLoop, raced>>

ReaderDone(c) ==
  /\ held[c] \in Request /\ stage[c] = "closed"
  /\ held' = [held EXCEPT ![c] = "dropped"]
  /\ UNCHANGED <<outside, table, inbound, job, watchdog, upstream, sendLoop, raced>>

\* logicLoop.
TakeInbound ==
  /\ job = Nil /\ inbound # <<>>
  /\ job' = Head(inbound)
  /\ inbound' = Tail(inbound)
  /\ UNCHANGED <<outside, table, held, watchdog, upstream, sendLoop, raced>>

\* MUTANT: the channel grows without bound.
UpstreamUnbounded(in) == upstream' = Append(upstream, in)

\* MUTANT: an event that finds upstream full is dropped.
UpstreamOrDrop(in) ==
  upstream' = IF Len(upstream) < UpCap THEN Append(upstream, in) ELSE upstream

\* A send to upstream waits for room.
Upstream(in) ==
  /\ Len(upstream) < UpCap
  /\ upstream' = Append(upstream, in)

\* MUTANT: a login is only handled while its connection is registered.
UpJoinRegistered(c) ==
  c \in conns /\ Upstream([kind |-> "join", id |-> c, pos |-> Spawn])

UpJoin(c) == Upstream([kind |-> "join", id |-> c, pos |-> Spawn])

HandleLogin ==
  /\ job # Nil /\ job.kind = "login"
  /\ UpJoin(job.id)
  /\ job' = Nil
  /\ UNCHANGED <<outside, table, held, inbound, watchdog, sendLoop, raced>>

HandleMoveReq ==
  /\ job # Nil /\ job.kind = "move"
  /\ \E pos \in Pos : Upstream([kind |-> "move", id |-> job.id, pos |-> pos])
  /\ job' = Nil
  /\ UNCHANGED <<outside, table, held, inbound, watchdog, sendLoop, raced>>

\* MUTANT: only the watchdog of a connection that has logged in does its work.
WatchdogDueLoggedIn(c) ==
  stage[c] = "closed" /\ watchdog[c] = "wait" /\ c \in loggedIn

WatchdogDue(c) == stage[c] = "closed" /\ watchdog[c] = "wait"

\* The login of c has been read but not yet handled.
InPipeline(c) ==
  \/ held[c] = "login"
  \/ [id |-> c, kind |-> "login"] \in ToSet(inbound) \cup {job}

\* The watchdog: <-c.Done(), the Leave to upstream, removeConn.
WatchdogLeave(c) ==
  /\ WatchdogDue(c)
  /\ Upstream([kind |-> "leave", id |-> c])
  /\ watchdog' = [watchdog EXCEPT ![c] = "remove"]
  /\ raced' = IF InPipeline(c) THEN raced \cup {c} ELSE raced
  /\ UNCHANGED <<outside, table, pipe, sendLoop>>

RemoveConn(c) ==
  /\ watchdog[c] = "remove"
  /\ watchdog' = [watchdog EXCEPT ![c] = "end"]
  /\ conns' = conns \ {c}
  /\ UNCHANGED <<outside, nextID, stage, loggedIn, pipe, upstream, sendLoop,
                 raced>>

\* sendLoop: Send waits for room on the stream, and fails when it is broken.
SendUp(g) ==
  /\ gateway[g] = "up" /\ link[g] = "ok" /\ sendLoop = "run"
  /\ Len(wireUp[g]) < WireCap
  /\ upstream # <<>>
  /\ wireUp' = [wireUp EXCEPT ![g] = Append(@, Head(upstream))]
  /\ upstream' = Tail(upstream)
  /\ UNCHANGED <<sceneVars, gateway, table, pipe, watchdog, sendLoop, raced,
                 link, wireDown, service, calls>>

SendFails(g) ==
  /\ gateway[g] = "up" /\ link[g] = "broken" /\ sendLoop = "run"
  /\ upstream # <<>>
  /\ upstream' = Tail(upstream)
  /\ sendLoop' = "gone"
  /\ UNCHANGED <<outside, table, pipe, watchdog, raced>>

\* recvLoop: the frame goes to the connections it is for, if there are any.
RecvDown(g) ==
  /\ gateway[g] = "up" /\ wireDown[g] # <<>>
  /\ wireDown' = [wireDown EXCEPT ![g] = Tail(@)]
  /\ UNCHANGED <<sceneVars, gateway, memory, link, wireUp, service, calls>>

-----------------------------------------------------------------------------
(* The scene process: the handlers of the streams.                         *)

Serving == { g \in Gw : handler[g] = "serving" }

\* MUTANT: the channel of the first session is kept for the later ones.
OutOnce(g) == out' = IF \E h \in Gw : handler[h] = "ended" THEN out ELSE g

OutOf(g) == out' = g

\* Session begins; a stream that is broken already has its handler all the same.
SessionOpens(g) ==
  /\ link[g] # "none" /\ handler[g] = "none"
  /\ handler' = [handler EXCEPT ![g] = "serving"]
  /\ OutOf(g)
  /\ overlap' = IF Serving = {} THEN overlap ELSE overlap \cup Serving \cup {g}
  /\ UNCHANGED <<sceneVars, gateway, memory, streams, channel, calls>>

\* MUTANT: an event that finds inCh full is dropped.
SendOrDrop(in) == IF Len(inCh) < InCap THEN Send(in) ELSE UNCHANGED sceneVars

\* Join, Move or Leave of the scene waits for room in inCh.
Forward(in) == Send(in)

\* Recv returns an event.
SessionRecv(g) ==
  /\ handler[g] = "serving" /\ wireUp[g] # <<>>
  /\ Forward(Head(wireUp[g]))
  /\ wireUp' = [wireUp EXCEPT ![g] = Tail(@)]
  /\ UNCHANGED <<gateway, memory, link, wireDown, service, calls>>

\* MUTANT: the handler forgets to take back its channel.
OutKept == UNCHANGED out

OutNone == out' = Nil

\* Recv fails; what the stream still held may be lost.  The goroutine that
\* sends returns on done, and the channel is left to itself.
SessionEnds(g) ==
  /\ handler[g] = "serving" /\ link[g] = "broken"
  /\ handler' = [handler EXCEPT ![g] = "ended"]
  /\ OutNone
  /\ wireUp' = [wireUp EXCEPT ![g] = <<>>]
  /\ channel' = [channel EXCEPT ![g] = <<>>]
  /\ UNCHANGED <<sceneVars, gateway, memory, link, wireDown, overlap, calls>>

\* The goroutine that drains the channel to stream.Send.
SendDown(g) ==
  /\ handler[g] = "serving" /\ link[g] = "ok"
  /\ channel[g] # <<>> /\ Len(wireDown[g]) < WireCap
  /\ wireDown' = [wireDown EXCEPT ![g] = Append(@, Head(channel[g]))]
  /\ channel' = [channel EXCEPT ![g] = Tail(@)]
  /\ UNCHANGED <<sceneVars, gateway, memory, link, wireUp, handler, out,
                 overlap, calls>>

\* The process ends and is started again, with an empty world; the streams end
\* with it, those whose handlers had yet to begin as well, and no gateway opens
\* a second one.
SceneRestart ==
  /\ "scene" \in Failures
  /\ players' = [p \in Player |-> Nil] /\ index' = EmptyIndex /\ inCh' = <<>>
  /\ aoiEnabled' \in AoiModes
  /\ tickCount' = 0 /\ pc' = "wait" /\ todo' = {}
  /\ link' = [g \in Gw |-> IF link[g] = "ok" THEN "broken" ELSE link[g]]
  /\ wireUp' = [g \in Gw |-> <<>>]
  /\ handler' = [g \in Gw |-> IF link[g] = "none" THEN "none" ELSE "ended"]
  /\ channel' = [g \in Gw |-> <<>>]
  /\ out' = Nil /\ calls' = <<>>
  /\ UNCHANGED <<gateway, memory, wireDown, overlap>>

-----------------------------------------------------------------------------
(* The scene process: the tick goroutine and its notifier.                 *)

\* NotifyEnter and NotifyLeave, in any order: what they say is left out.
Drain ==
  /\ calls = <<>>
  /\ DrainOne
  /\ \E pairs \in SetToSeqs(Appear(Head(inCh)) \cup Vanish(Head(inCh))) :
       calls' = [i \in DOMAIN pairs |-> pairs[i][1]]
  /\ UNCHANGED <<gateway, memory, streams, service>>

SyncState(id) ==
  /\ calls = <<>>
  /\ SyncOne(id)
  /\ calls' = <<id>>
  /\ UNCHANGED <<gateway, memory, streams, service>>

\* SyncAll says nothing about an empty world.
SyncAll ==
  /\ calls = <<>>
  /\ BroadcastAll
  /\ calls' = IF Joined = {} THEN <<>> ELSE <<BroadcastTarget>>
  /\ UNCHANGED <<gateway, memory, streams, service>>

\* emit, and the end of SyncAll: dropped if there is no session or no room.
\* That out is read before the frame is sent makes no difference: what is sent
\* to the channel of a session that ended in between is lost as well.
Emit ==
  /\ calls # <<>>
  /\ calls' = Tail(calls)
  /\ channel' = IF out # Nil /\ Len(channel[out]) < OutCap
                THEN [channel EXCEPT ![out] = Append(@, Head(calls))] ELSE channel
  /\ UNCHANGED <<sceneVars, gateway, memory, streams, handler, out, overlap>>

OtherStep ==
  /\ calls = <<>>
  /\ TickStart \/ DrainDone \/ SyncDone \/ SkipAll
  /\ UNCHANGED <<gateway, memory, streams, service, calls>>

Tick == Drain \/ SyncAll \/ Emit \/ OtherStep \/ \E id \in Player : SyncState(id)

-----------------------------------------------------------------------------
Logic == TakeInbound \/ HandleLogin \/ HandleMoveReq

Next ==
  \/ \E g \in Gw :
       \/ Start(g) \/ Crash(g) \/ LinkFails(g)
       \/ SendUp(g) \/ SendFails(g) \/ RecvDown(g)
       \/ SessionOpens(g) \/ SessionRecv(g) \/ SessionEnds(g) \/ SendDown(g)
  \/ \E c \in Player :
       \/ Accept(c) \/ CloseConn(c)
       \/ ReadFrame(c) \/ PushFrame(c) \/ ReaderDone(c)
       \/ WatchdogLeave(c) \/ RemoveConn(c)
  \/ Logic
  \/ SceneRestart
  \/ Tick

Spec == Init /\ [][Next]_vars

\* As in module Gateway: every goroutine that can take a step does, and a
\* sender that waits for room in a channel, or on a stream, is served in turn.
\* Nothing obliges a client to act, or anything to fail or to be started.
Fairness ==
  /\ WF_vars(Tick)
  /\ SF_vars(Logic)
  /\ \A c \in Player :
       /\ SF_vars(PushFrame(c))
       /\ SF_vars(WatchdogLeave(c)) /\ WF_vars(RemoveConn(c))
  /\ \A g \in Gw :
       /\ SF_vars(SendUp(g)) /\ WF_vars(SendFails(g)) /\ WF_vars(RecvDown(g))
       /\ WF_vars(SessionOpens(g)) /\ WF_vars(SessionEnds(g))
       /\ SF_vars(SessionRecv(g)) /\ WF_vars(SendDown(g))

FairSpec == Spec /\ Fairness

-----------------------------------------------------------------------------
(***************************************************************************)
(* Properties                                                              *)
(***************************************************************************)

\* The run of the gateway that is up and has its stream.
Connected(g) == gateway[g] = "up" /\ link[g] = "ok"

\* The events of run g on their way to the scene, the oldest first.
UpWay(g) == inCh \o wireUp[g] \o upstream

\* Across the process boundary too, a connection that has ended only leaves
\* its player behind if its Leave overtook its login: the login was still in
\* the reader's hands, in inbound or in logicLoop's when the Leave went to
\* upstream.  That holds for the players which a run that has crashed left in
\* the scene, too: they are there until a connection of a later run that has
\* the same id ends.  But a late event of the earlier run may come after it, if
\* both handlers served at the same time.
GhostOnlyIfRaced ==
  \A g \in Gw, c \in Player :
    Connected(g) /\ watchdog[c] \in {"remove", "end"} /\ c \in Joined =>
      \/ c \in raced \/ g \in overlap
      \/ \E i \in DOMAIN UpWay(g) : UpWay(g)[i].kind = "leave" /\ UpWay(g)[i].id = c

Only    == CHOOSE g \in Gw : TRUE
Severed == link[Only] = "broken"

\* What connection c asks of the scene in everything that may still arrive.
Slot(x) == IF x = Nil THEN <<>> ELSE <<x>>
Held(c) ==
  IF held[c] \in Request THEN <<[id |-> c, kind |-> held[c]]>> ELSE <<>>
Beyond(c) ==
  IF Severed THEN <<>> ELSE upstream \o Slot(job) \o inbound \o Held(c)
WayOf(c) == Asks(c, inCh \o wireUp[Only] \o Beyond(c))

\* With a single run of the gateway, its channels, the stream and the scene's
\* inCh together are the way that module Uplink describes, as they are in a
\* single process (module Gateway): of what one connection sends nothing is lost
\* but the request that its reader gives up once it has ended, nothing changes
\* places and no player is left behind but by its own Leave; a crash or a broken
\* stream cuts the way.
UplinkOf == INSTANCE Uplink WITH
  Conn <- Player,
  way <- [c \in Player |-> WayOf(c)],
  spoken <- IF Severed THEN {} ELSE loggedIn,
  ended <- IF Severed THEN {} ELSE { c \in Player : stage[c] = "closed" },
  gone <- IF Severed THEN {}
          ELSE { c \in Player : watchdog[c] \in {"remove", "end"} },
  lost <- IF Severed THEN {} ELSE { c \in Player : held[c] = "dropped" },
  inScene <- Joined,
  overtaken <- IF Severed THEN {} ELSE raced,
  cut <- Severed

ImplementsUplink == UplinkOf!Spec

\* internal/sceneserver/server.go, line 33: out is the channel of the current
\* session, and nil when there is none.  The code does not ensure it: the handler
\* of a stream that has broken may end after the next gateway's has begun, and
\* sets out to nil all the same; the new gateway gets no frame any more.
NilWithoutSession ==
  \A g \in Gw : Connected(g) /\ handler[g] = "serving" => out # Nil

\* Only then: a session whose handler never served beside another one has its
\* channel in out as long as it lasts.
SilentOnlyIfOverlapped ==
  \A g \in Serving : out = g \/ g \in overlap

\* What the tick goroutine emits never goes to a session that has ended.
OutServing == out # Nil => out \in Serving

Up == \E g \in Gw : Connected(g)

\* A login that the gateway handles puts its player in the scene, unless the
\* stream breaks: four channels are waited for in turn on the way, and the
\* frames that come back are in nobody's way.
LoginsReachScene ==
  \A c \in Player :
    job = [id |-> c, kind |-> "login"] ~> c \in Joined \/ ~Up

\* A connection that ends is forgotten, unless the stream breaks: then
\* upstream may be full for good.
Deregistered ==
  \A c \in Player : stage[c] = "closed" ~> c \notin conns \/ ~Up

\* logicLoop is never stuck for good while the stream lasts.
LogicLives == []<>(job = Nil \/ ~Up)
=============================================================================
