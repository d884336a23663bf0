------------------------------ MODULE Gateway ------------------------------
(***************************************************************************)
(* The single-process server of internal/gateway: connections come and go  *)
(* while four kinds of goroutine work on them.  Each connection has a      *)
(* reader (readLoop), which pushes its frames into the inbound channel,    *)
(* and a watchdog, which waits for the connection to end and takes its     *)
(* player out of the scene; one logicLoop serves the inbound channel, one  *)
(* tick goroutine the scene's.                                             *)
(*                                                                         *)
(* A player's id is its connection's, so Player is the set of connections. *)
(* What is sent down to the clients is not modelled here: Send never       *)
(* blocks (module Downlink).  Nor is the lock mu: no goroutine blocks      *)
(* while it holds it, so that each critical section is one step.           *)
(***************************************************************************)
EXTENDS Scene, Requests, SequencesExt

CONSTANTS InboundCap,  \* capacity of inbound (1024 in the code)
          Roles,       \* what clients use connections for
          Quitters,    \* the connections that the client or the link ends
          Kicks        \* whom DisconnectPlayers may find: it is called when there is
                       \* no other player's connection

Frame   == {"login", "move", "spectate"}
Inbound == [id : Player, kind : Frame]

ASSUME GatewayAssumption ==
  /\ InboundCap \in Nat \ {0}
  /\ Roles \subseteq {"player", "spectator"} /\ Roles # {}
  /\ Quitters \subseteq Player /\ Kicks \subseteq Player
  /\ Nil \notin Frame \cup Inbound /\ Nil # "dropped"

VARIABLES
  stage,        \* of a connection: "new", "up", "hung" (the reader's next
                \* read fails, the server has not noticed), "closed"
  role,         \* what the client does with its connection
  held,         \* the frame that the reader is about to push, Nil, or "dropped":
                \* it has given one up and returned
  inbound,      \* the inbound channel
  job,          \* what logicLoop is handling, or Nil
  watchdog,     \* "off", "wait", "remove" (Leave sent), "end"
  conns,        \* s.conns
  spectators,   \* s.spectators
  lastSnapshot, \* the players in s.lastSnapshot
  victims,      \* whom running DisconnectPlayers have yet to close
  raced         \* history: the connections whose watchdog overtook one of
                \* their own frames

reader   == <<role, held>>
pipe     == <<inbound, job>>
tables   == <<conns, spectators, lastSnapshot, victims>>
connVars == <<stage, reader, watchdog, tables, raced>>
vars     == <<sceneVars, connVars, pipe>>

TypeOK ==
  /\ SceneTypeOK
  /\ stage \in [Player -> {"new", "up", "hung", "closed"}]
  /\ role \in [Player -> Roles \cup {"none"}]
  /\ held \in [Player -> Frame \cup {Nil, "dropped"}]
  /\ inbound \in Seq(Inbound) /\ Len(inbound) <= InboundCap
  /\ job \in Inbound \cup {Nil}
  /\ watchdog \in [Player -> {"off", "wait", "remove", "end"}]
  /\ conns \cup spectators \cup lastSnapshot \cup victims \cup raced \subseteq Player

Init ==
  /\ SceneInit
  /\ stage = [c \in Player |-> "new"]
  /\ role = [c \in Player |-> "none"]
  /\ held = [c \in Player |-> Nil]
  /\ inbound = <<>> /\ job = Nil
  /\ watchdog = [c \in Player |-> "off"]
  /\ conns = {} /\ spectators = {} /\ lastSnapshot = {}
  /\ victims = {} /\ raced = {}

\* The frame f of connection c has been read but not yet handled.
InPipeline(c, f) ==
  \/ held[c] = f
  \/ [id |-> c, kind |-> f] \in ToSet(inbound) \cup {job}

-----------------------------------------------------------------------------
(* The accept loop and the clients.                                        *)

\* addConn, Start and the watchdog's go statement: a Close in between has the
\* effect of one just after.
Accept(c) ==
  /\ stage[c] = "new"
  /\ stage' = [stage EXCEPT ![c] = "up"]
  /\ conns' = conns \cup {c}
  /\ watchdog' = [watchdog EXCEPT ![c] = "wait"]
  /\ UNCHANGED <<sceneVars, pipe, reader, spectators, lastSnapshot, victims, raced>>

\* The client closes its end, or the link fails.
Hangup(c) ==
  /\ c \in Quitters /\ stage[c] = "up"
  /\ stage' = [stage EXCEPT ![c] = "hung"]
  /\ UNCHANGED <<sceneVars, pipe, reader, watchdog, tables, raced>>

-----------------------------------------------------------------------------
(* The connection's own goroutines.                                        *)

\* conn.Close, through closeOnce.
Close(c) == stage' = [stage EXCEPT ![c] = "closed"]

\* ReadFrame returns a frame: a client begins as a player with LoginReq or
\* as a spectator with Spectate, and only a player goes on to send more.
ReadFrame(c) ==
  /\ stage[c] = "up" /\ held[c] = Nil
  /\ \/ /\ role[c] = "none"
        /\ \E r \in Roles :
             /\ role' = [role EXCEPT ![c] = r]
             /\ held' = [held EXCEPT ![c] =
                           IF r = "player" THEN "login" ELSE "spectate"]
     \/ /\ role[c] = "player"
        /\ held' = [held EXCEPT ![c] = "move"]
        /\ UNCHANGED role
  /\ UNCHANGED <<sceneVars, pipe, stage, watchdog, tables, raced>>

\* ReadFrame fails and the deferred Close runs.
ReadFails(c) ==
  /\ stage[c] = "hung" /\ held[c] = Nil
  /\ Close(c)
  /\ UNCHANGED <<sceneVars, pipe, reader, watchdog, tables, raced>>

\* The writer's Write fails; the reader may be blocked on inbound meanwhile.
WriteFails(c) ==
  /\ stage[c] = "hung"
  /\ Close(c)
  /\ UNCHANGED <<sceneVars, pipe, reader, watchdog, tables, raced>>

\* MUTANT: the reader drops a frame that finds inbound full.
PushOrDrop(c) ==
  inbound' = IF Len(inbound) < InboundCap
             THEN Append(inbound, [id |-> c, kind |-> held[c]]) ELSE inbound

Push(c) ==
  /\ Len(inbound) < InboundCap
  /\ inbound' = Append(inbound, [id |-> c, kind |-> held[c]])

\* The two cases of the reader's select.  Once the connection is closed both
\* may be ready, and Go then picks either.
PushFrame(c) ==
  /\ held[c] \in Frame
  /\ Push(c)
  /\ held' = [held EXCEPT ![c] = Nil]
  /\ UNCHANGED <<sceneVars, job, stage, role, watchdog, tables, raced>>

ReaderDone(c) ==
  /\ held[c] \in Frame /\ stage[c] = "closed"
  /\ held' = [held EXCEPT ![c] = "dropped"]
  /\ UNCHANGED <<sceneVars, pipe, stage, role, watchdog, tables, raced>>

-----------------------------------------------------------------------------
(* logicLoop.                                                              *)

TakeInbound ==
  /\ job = Nil /\ inbound # <<>>
  /\ job' = Head(inbound)
  /\ inbound' = Tail(inbound)
  /\ UNCHANGED <<sceneVars, connVars>>

\* MUTANT: a login is only handled while its connection is registered.
JoinRegistered(c) == c \in conns /\ Join(c)

\* The handlers look neither at done nor at the tables of connections.
LoginJoin(c) == Join(c)

HandleLogin ==
  /\ job # Nil /\ job.kind = "login"
  /\ LoginJoin(job.id)
  /\ job' = Nil
  /\ UNCHANGED <<connVars, inbound>>

HandleMoveReq ==
  /\ job # Nil /\ job.kind = "move"
  /\ \E pos \in Pos : Move(job.id, pos)
  /\ job' = Nil
  /\ UNCHANGED <<connVars, inbound>>

HandleSpectate ==
  /\ job # Nil /\ job.kind = "spectate"
  /\ spectators' = spectators \cup {job.id}
  /\ job' = Nil
  /\ UNCHANGED <<sceneVars, inbound, stage, reader, watchdog, conns,
                 lastSnapshot, victims, raced>>

-----------------------------------------------------------------------------
(* The watchdog: <-c.Done(), scene.Leave, removeConn.                      *)

WatchdogDue(c) == stage[c] = "closed" /\ watchdog[c] = "wait"

LeaveSent(c) ==
  /\ watchdog' = [watchdog EXCEPT ![c] = "remove"]
  /\ raced' = IF InPipeline(c, "login") THEN raced \cup {c} ELSE raced
  /\ UNCHANGED <<pipe, stage, reader, tables>>

\* MUTANT: the Leave is dropped when the scene's channel is full.
WatchdogLeaveNoWait(c) ==
  /\ WatchdogDue(c)
  /\ IF Len(inCh) < InCap THEN Leave(c) ELSE UNCHANGED sceneVars
  /\ LeaveSent(c)

\* MUTANT: the watchdog waits for the player to be in the scene.
WatchdogLeaveJoined(c) ==
  WatchdogDue(c) /\ c \in Joined /\ Leave(c) /\ LeaveSent(c)

WatchdogLeave(c) == WatchdogDue(c) /\ Leave(c) /\ LeaveSent(c)

\* MUTANT: removeConn forgets the table of spectators.
DropConn(c) == conns' = conns \ {c} /\ UNCHANGED spectators

DeleteConn(c) == conns' = conns \ {c} /\ spectators' = spectators \ {c}

RemoveConn(c) ==
  /\ watchdog[c] = "remove"
  /\ watchdog' = [watchdog EXCEPT ![c] = "end"]
  /\ DeleteConn(c)
  /\ raced' = IF InPipeline(c, "spectate") THEN raced \cup {c} ELSE raced
  /\ UNCHANGED <<sceneVars, pipe, stage, reader, lastSnapshot, victims>>

-----------------------------------------------------------------------------
(* DisconnectPlayers: whom to close is read under the lock, the closing is *)
(* done after it is released.  Several calls may be at it at a time.       *)

Disconnect ==
  /\ conns \ spectators \subseteq Kicks
  /\ victims' = victims \cup (conns \ spectators)
  /\ UNCHANGED <<sceneVars, pipe, stage, reader, watchdog, conns, spectators,
                 lastSnapshot, raced>>

CloseVictim(c) ==
  /\ c \in victims
  /\ victims' = victims \ {c}
  /\ Close(c)
  /\ UNCHANGED <<sceneVars, pipe, reader, watchdog, conns, spectators,
                 lastSnapshot, raced>>

-----------------------------------------------------------------------------
(* The tick goroutine.  SyncAll keeps the snapshot for the HTTP API.       *)

\* MUTANT: an empty world is not reported.
SyncAllNonEmpty ==
  /\ BroadcastAll
  /\ lastSnapshot' = IF Joined = {} THEN lastSnapshot ELSE Joined
  /\ UNCHANGED <<pipe, stage, reader, watchdog, conns, spectators, victims, raced>>

SyncAll ==
  /\ BroadcastAll
  /\ lastSnapshot' = Joined
  /\ UNCHANGED <<pipe, stage, reader, watchdog, conns, spectators, victims, raced>>

SceneStep ==
  /\ \/ TickStart \/ DrainOne \/ DrainDone \/ SyncDone \/ SkipAll
     \/ \E id \in Player : SyncOne(id)
  /\ UNCHANGED <<connVars, pipe>>

Tick == SceneStep \/ SyncAll

-----------------------------------------------------------------------------
Logic == TakeInbound \/ HandleLogin \/ HandleMoveReq \/ HandleSpectate

Next ==
  \/ \E c \in Player :
       \/ Accept(c) \/ Hangup(c)
       \/ ReadFrame(c) \/ ReadFails(c) \/ WriteFails(c)
       \/ PushFrame(c) \/ ReaderDone(c)
       \/ WatchdogLeave(c) \/ RemoveConn(c)
       \/ CloseVictim(c)
  \/ Disconnect
  \/ Logic
  \/ Tick

Spec == Init /\ [][Next]_vars

\* Every goroutine that can take a step does.  A sender that waits for room
\* in a channel is served in turn by the runtime, however often the room is
\* taken before it: strong fairness.  Nothing is asked of the clients, nor
\* of whoever calls DisconnectPlayers.
Fairness ==
  /\ WF_vars(Tick)
  /\ SF_vars(Logic)
  /\ \A c \in Player :
       /\ SF_vars(PushFrame(c)) /\ WF_vars(ReadFails(c))
       /\ SF_vars(WatchdogLeave(c)) /\ WF_vars(RemoveConn(c))
       /\ WF_vars(CloseVictim(c))

FairSpec == Spec /\ Fairness

-----------------------------------------------------------------------------
(***************************************************************************)
(* Properties                                                              *)
(***************************************************************************)

LeaveQueued(c) ==
  \E i \in DOMAIN inCh : inCh[i].kind = "leave" /\ inCh[i].id = c

\* internal/gateway/server.go, line 128: once a connection is closed, its
\* watchdog triggers scene.Leave and takes the player out of the world.  The
\* code does not ensure it: a LoginReq that is still on its way through
\* inbound when the connection ends joins the scene after the Leave.
NoGhost ==
  \A c \in Player : watchdog[c] = "end" /\ c \in Joined => LeaveQueued(c)

\* That race is the only way to leave a player behind: the watchdog's Leave
\* takes every other player out, whatever the channels held.
GhostOnlyIfRaced ==
  \A c \in Player :
    watchdog[c] \in {"remove", "end"} /\ c \in Joined
      => LeaveQueued(c) \/ c \in raced

\* Likewise a connection is only left among the spectators, where SyncAll
\* keeps on encoding snapshots for it, if its Spectate was overtaken.
LeakOnlyIfRaced ==
  \A c \in spectators : watchdog[c] = "end" => c \in raced

\* What connection c asks of the scene in everything that has been read and has
\* not been handled by the scene, the oldest first.
Slot(x) == IF x = Nil THEN <<>> ELSE <<x>>
Held(c) ==
  IF held[c] \in Frame THEN <<[id |-> c, kind |-> held[c]]>> ELSE <<>>
WayOf(c) == Asks(c, inCh \o Slot(job) \o inbound \o Held(c))

\* Reader, inbound, logicLoop and inCh together are the way that module Uplink
\* describes: no request is lost, doubled or out of order (a move in front of
\* its join would be thrown away as an unknown player's), except that the reader
\* of an ended connection may give up the one it holds; such a connection, and
\* no other, is sent a Leave, once at most; and only a join that it has
\* overtaken leaves a player behind.
UplinkOf == INSTANCE Uplink WITH
  Conn <- Player,
  way <- [c \in Player |-> WayOf(c)],
  spoken <- { c \in Player : role[c] = "player" },
  ended <- { c \in Player : stage[c] = "closed" },
  gone <- { c \in Player : watchdog[c] \in {"remove", "end"} },
  lost <- { c \in Player : role[c] = "player" /\ held[c] = "dropped" },
  inScene <- Joined,
  overtaken <- { c \in raced : role[c] = "player" },
  cut <- FALSE

ImplementsUplink == UplinkOf!Spec

\* A connection that ends is forgotten by the server, though its watchdog has
\* to wait for room in the scene's channel; and so is every connection on the
\* list that DisconnectPlayers made under the lock, whatever became of the
\* connection before it is closed.
Deregistered ==
  \A c \in Player : stage[c] = "hung" \/ c \in victims ~> c \notin conns

\* The full snapshots stop showing a player whose connection is gone, and
\* never show it again, unless its login was overtaken - provided that ticks come
\* to an end: while the others send so much that the drain never finds inCh
\* empty, there is no snapshot, and the last one keeps the player.
SnapshotsForget ==
  []<>(pc = "wait") =>
    \A c \in Player :
      <>(stage[c] = "closed") => <>[](c \notin lastSnapshot \/ c \in raced)

\* logicLoop is never stuck on a full channel for good.
LogicLives == []<>(job = Nil)
=============================================================================
