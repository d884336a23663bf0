------------------------------ MODULE Downlink ------------------------------
(***************************************************************************)
(* One connection from the scene down to the client: the frames that the   *)
(* scene's calls put into the connection's sendCh (internal/gateway) or    *)
(* lose when it is full, and the mirror of the world that the client keeps *)
(* from those that arrive (internal/client).  Its setup is one of          *)
(*   - "player": the client of a player, a single process;                 *)
(*   - "spectator": a client that has sent Spectate instead of LoginReq;   *)
(*   - "split": the client of a player of the distributed deployment,      *)
(*     where frames reach the gateway through a session's channel and a    *)
(*     stream (internal/sceneserver, internal/gwserver), here one relay.   *)
(*                                                                         *)
(* The other players are in the scene from elsewhere: they are sent to it  *)
(* as in module SceneView with Rejoin = {}.  A handler or a broadcast      *)
(* sends its frames one after the other, and everybody else runs in        *)
(* between: out holds the frames for the connection that the tick          *)
(* goroutine has yet to send, and it does nothing else meanwhile.  What    *)
(* the link holds is counted as part of sendCh.                            *)
(***************************************************************************)
EXTENDS Scene, SequencesExt

CONSTANTS Me,       \* the player of this connection, if it has one
          Setups,   \* the setups to look at
          RelayCap  \* capacity of a session's channel (1024 in the code)

\* sendCap is sendBufSize (64 in the code), and a connection with backlogAt
\* frames to send is Backlogged (48); going is where players go.
Setup == [kind : {"player", "spectator", "split"}, sendCap : Nat \ {0},
          backlogAt : Nat \ {0}, going : SUBSET Pos]

\* Ids are of type uint64: there are finitely many.
ASSUME DownlinkAssumption ==
  /\ Me \in Player /\ IsFiniteSet(Player)
  /\ Setups # {} /\ \A s \in Setups : s \in Setup
  /\ RelayCap \in Nat \ {0}

VARIABLES setup,   \* never changes
          login,   \* logicLoop on the client's request: "none", "resp",
                   \* "join", "done", or "spectator"
          out,     \* the frames of the current call, not yet sent
          relay,   \* from the session's channel to recvLoop
          sendCh,  \* the send buffer and the link
          client,  \* "login" (Login waits), "run", "failed"
          mirror,  \* the client's players: a position, or Nil
          minimap, \* the client's minimap
          perfect  \* history: no frame was lost and AOI has always been on

tables   == <<mirror, minimap>>
linkVars == <<setup, login, out, relay, sendCh, client, tables, perfect>>
vars     == <<sceneVars, linkVars>>

Table == [Player -> Pos \cup {Nil}]
Empty == [p \in Player |-> Nil]

Message ==
  [type : {"loginResp"}]
    \cup [type : {"enter"}, id : Player, pos : Pos]
    \cup [type : {"leave"}, id : Player]
    \cup [type : {"sync"}, states : Table]
    \cup [type : {"minimap"}, ids : SUBSET Player]

TypeOK ==
  /\ SceneTypeOK
  /\ setup \in Setups
  /\ login \in {"none", "resp", "join", "done", "spectator"}
  /\ out \in Seq(Message)
  /\ relay \in Seq(Message) /\ Len(relay) <= RelayCap
  /\ sendCh \in Seq(Message) /\ Len(sendCh) <= setup.sendCap
  /\ client \in {"login", "run", "failed"}
  /\ mirror \in Table /\ minimap \in SUBSET Player
  /\ perfect \in BOOLEAN

Init ==
  /\ SceneInit
  /\ setup \in Setups /\ (setup.kind = "split" => aoiEnabled)
  /\ login = "none" /\ out = <<>> /\ relay = <<>> /\ sendCh = <<>>
  /\ client = IF setup.kind = "spectator" THEN "run" ELSE "login"
  /\ mirror = Empty /\ minimap = {}
  /\ perfect = aoiEnabled

-----------------------------------------------------------------------------
(* Sends that never wait: a frame that finds no room is lost.              *)

\* MUTANT: a full buffer blocks the sender.
SendBlocking(m) ==
  /\ Len(sendCh) < setup.sendCap
  /\ sendCh' = Append(sendCh, m)
  /\ UNCHANGED perfect

\* conn.Send.
SendFrame(m) ==
  IF Len(sendCh) < setup.sendCap
  THEN sendCh' = Append(sendCh, m) /\ UNCHANGED perfect
  ELSE perfect' = FALSE /\ UNCHANGED sendCh

\* emit of the scene service.
Emit(m) ==
  IF Len(relay) < RelayCap
  THEN relay' = Append(relay, m) /\ UNCHANGED perfect
  ELSE perfect' = FALSE /\ UNCHANGED relay

Backlogged == Len(sendCh) >= setup.backlogAt

-----------------------------------------------------------------------------
(* The other players, and the login of this one.                           *)

JoinQueued(p) ==
  \E i \in DOMAIN inCh : inCh[i].kind = "join" /\ inCh[i].id = p

OtherJoins(p) ==
  /\ p # Me /\ players[p] = Nil /\ ~JoinQueued(p)
  /\ Join(p)
  /\ UNCHANGED linkVars

OtherLeaves(p) == p # Me /\ Leave(p) /\ UNCHANGED linkVars

Moves(p, pos) ==
  /\ p = Me => client = "run" /\ setup.kind # "spectator"
  /\ pos \in setup.going
  /\ Move(p, pos)
  /\ UNCHANGED linkVars

\* There is no console in the distributed deployment.
Toggle ==
  /\ setup.kind # "split"
  /\ \E enabled \in AoiModes \ {aoiEnabled} : SetAOIEnabled(enabled)
  /\ perfect' = FALSE
  /\ UNCHANGED <<setup, login, out, relay, sendCh, client, tables>>

\* logicLoop takes the client's LoginReq or Spectate from inbound.
TakeRequest ==
  /\ login = "none"
  /\ login' = IF setup.kind = "spectator" THEN "spectator" ELSE "resp"
  /\ UNCHANGED <<sceneVars, setup, out, relay, sendCh, client, tables, perfect>>

\* handleLogin: first the answer, which the gateway gives itself in both
\* deployments, then the scene.
LoginResp ==
  /\ login = "resp"
  /\ SendFrame([type |-> "loginResp"])
  /\ login' = "join"
  /\ UNCHANGED <<sceneVars, setup, out, relay, client, tables>>

\* MUTANT: the player joins the scene before the answer is sent.
JoinEarly ==
  /\ login = "none" /\ setup.kind # "spectator"
  /\ Join(Me)
  /\ login' = "resp"
  /\ UNCHANGED <<setup, out, relay, sendCh, client, tables, perfect>>

LoginJoin ==
  /\ login = "join"
  /\ Join(Me)
  /\ login' = "done"
  /\ UNCHANGED <<setup, out, relay, sendCh, client, tables, perfect>>

-----------------------------------------------------------------------------
(* The tick goroutine, with the frames of its calls for Me.                *)

EnterFrames(in) ==
  { [type |-> "enter", id |-> p, pos |-> (players')[p]] :
      p \in { q \in Player : <<Me, q>> \in Appear(in) } }

LeaveFrames(in) ==
  { [type |-> "leave", id |-> p] :
      p \in { q \in Player : <<Me, q>> \in Vanish(in) } }

\* A call of the notifier begins, with the frames it is to send.
Call(frames) ==
  /\ out = <<>>
  /\ out' = frames
  /\ UNCHANGED <<setup, login, relay, sendCh, client, tables, perfect>>

\* The calls of one loop are made in the order of a Go map, those of
\* handleMove's first loop before those of its second.
Drain ==
  /\ DrainOne
  /\ \E first \in SetToSeqs(EnterFrames(Head(inCh))),
        then \in SetToSeqs(LeaveFrames(Head(inCh))) : Call(first \o then)

StatesFor(id) == [p \in Player |-> IF p \in Snapshot(id) THEN players[p] ELSE Nil]

Sync(id) ==
  /\ SyncOne(id)
  /\ Call(IF id = Me THEN <<[type |-> "sync", states |-> StatesFor(id)]>> ELSE <<>>)

\* SyncAll sends the minimap to every registered connection, logged in or not,
\* and the same again as a StateSync to a spectator.  The scene service's says
\* nothing about an empty world.  Me's own entry is left out of the minimap:
\* nothing looks at it (see Drawn).
FullFrames ==
  CASE setup.kind = "split" /\ Joined = {} -> <<>>
    [] login = "spectator" -> <<[type |-> "minimap", ids |-> Joined \ {Me}],
                                [type |-> "sync", states |-> players]>>
    [] OTHER -> <<[type |-> "minimap", ids |-> Joined \ {Me}]>>

SyncAll == BroadcastAll /\ Call(FullFrames)

OtherStep ==
  /\ TickStart \/ DrainDone \/ SyncDone \/ SkipAll
  /\ Call(<<>>)

\* sendToPlayer or emit, for the next of the frames.
SendNext ==
  /\ out # <<>>
  /\ IF setup.kind = "split"
     THEN Emit(Head(out)) /\ UNCHANGED sendCh
     ELSE SendFrame(Head(out)) /\ UNCHANGED relay
  /\ out' = Tail(out)
  /\ UNCHANGED <<sceneVars, setup, login, client, tables>>

Tick ==
  Drain \/ OtherStep \/ SyncAll \/ SendNext \/ \E id \in Player : Sync(id)

\* A frame for one player is skipped when its connection is Backlogged; a
\* broadcast is not.
Skipped(m) == m.type # "minimap" /\ Backlogged

\* recvLoop of the distributed gateway.
RecvLoop ==
  /\ relay # <<>>
  /\ relay' = Tail(relay)
  /\ IF Skipped(Head(relay))
     THEN perfect' = FALSE /\ UNCHANGED sendCh
     ELSE SendFrame(Head(relay))
  /\ UNCHANGED <<sceneVars, setup, login, out, client, tables>>

-----------------------------------------------------------------------------
(* The client.                                                             *)

\* MUTANT: a snapshot updates the players it lists and removes nobody.
HandledMerge(at, m) ==
  CASE m.type = "enter" -> [at EXCEPT ![m.id] = m.pos]
    [] m.type = "leave" -> [at EXCEPT ![m.id] = Nil]
    [] m.type = "sync"  -> [p \in Player |-> IF m.states[p] = Nil THEN at[p]
                                             ELSE m.states[p]]
    [] OTHER -> at

\* MUTANT: an enter notification only updates a player that is known already.
HandledUpdate(at, m) ==
  CASE m.type = "enter" -> [at EXCEPT ![m.id] = IF @ = Nil THEN Nil ELSE m.pos]
    [] m.type = "leave" -> [at EXCEPT ![m.id] = Nil]
    [] m.type = "sync"  -> m.states
    [] OTHER -> at

\* handle: the players after frame m.  Run ignores a LoginResp.
Handled(at, m) ==
  CASE m.type = "enter" -> [at EXCEPT ![m.id] = m.pos]
    [] m.type = "leave" -> [at EXCEPT ![m.id] = Nil]
    [] m.type = "sync"  -> m.states
    [] OTHER -> at

\* MUTANT: the minimap adds players and forgets nobody.
MinimapMerge(at, m) ==
  IF m.type = "minimap"
  THEN at \cup m.ids ELSE at

\* handle: the minimap after frame m.
MinimapAfter(at, m) == IF m.type = "minimap" THEN m.ids ELSE at

\* Login reads one frame: it must be the LoginResp.
ClientLogin ==
  /\ client = "login" /\ sendCh # <<>>
  /\ client' = IF Head(sendCh).type = "loginResp" THEN "run" ELSE "failed"
  /\ sendCh' = Tail(sendCh)
  /\ UNCHANGED <<sceneVars, setup, login, out, relay, tables, perfect>>

ClientHandle ==
  /\ client = "run" /\ sendCh # <<>>
  /\ mirror' = Handled(mirror, Head(sendCh))
  /\ minimap' = MinimapAfter(minimap, Head(sendCh))
  /\ sendCh' = Tail(sendCh)
  /\ UNCHANGED <<sceneVars, setup, login, out, relay, client, perfect>>

\* What the next frame of cmd/client draws: everybody that either table has
\* but oneself, bright when near.  PlayerID is 0 for a spectator.
Drawn ==
  [p \in Player |->
    CASE p = Me /\ setup.kind # "spectator" -> "self"
      [] mirror[p] # Nil -> "near"
      [] mirror[p] = Nil /\ p \in minimap -> "far"
      [] OTHER -> "nobody"]

Client == ClientLogin \/ ClientHandle

-----------------------------------------------------------------------------
Env ==
  \/ \E p \in Player : OtherJoins(p) \/ OtherLeaves(p)
  \/ \E p \in Player, pos \in Pos : Moves(p, pos)
  \/ Toggle

Next == Env \/ TakeRequest \/ LoginResp \/ LoginJoin \/ Tick \/ RecvLoop \/ Client

Spec == Init /\ [][Next]_vars

\* The tick goroutine and recvLoop run, whatever the client does.
FairSpec == Spec /\ WF_vars(Tick) /\ WF_vars(RecvLoop)

-----------------------------------------------------------------------------
(***************************************************************************)
(* Properties                                                              *)
(***************************************************************************)

\* The minimap, which SyncAll sends to connections that have not logged in
\* too, is the only frame that can get in front of the LoginResp, as long as
\* no frame is lost: whatever the scene says to a client that is still in
\* Login comes after the answer that Login waits for.
OnlyMinimapPrecedes ==
  LET way == sendCh \o relay \o out
  IN  perfect /\ client = "login" =>
        \A i \in DOMAIN way :
          \/ way[i].type \in {"loginResp", "minimap"}
          \/ \E j \in 1 .. i-1 : way[j].type = "loginResp"

\* The frames on their way, played to the client's mirror.
Pending == FoldLeft(Handled, mirror, sendCh \o relay \o out)

\* As long as no frame is lost and AOI stays on, the mirror and the frames on
\* their way together always say exactly whom Me sees: notifications and
\* snapshots are sent in the order in which the scene changes.
PendingExact ==
  perfect /\ client = "run" /\ Me \in Joined =>
    \A p \in Player :
      Pending[p] # Nil <=> /\ p \in Joined \ {Me}
                           /\ InView(players[Me], players[p])

\* Nobody moves, joins, leaves or switches AOI any more.
Quiet == [][~Env]_vars

\* A frame of the given type gets to sendCh.
Delivered(type) ==
  /\ sendCh' # sendCh /\ Len(sendCh') > Len(sendCh)
  /\ Last(sendCh').type = type

\* What the client should know: everyone it is to see, where they are.
MirrorExact ==
  mirror = IF setup.kind = "spectator" THEN players ELSE StatesFor(Me)

Settles == <>Quiet /\ <>(client = "run")

\* After frames were lost - a leave that would stay as a ghost, an enter, a
\* move within the view, whatever was skipped for a connection three quarters
\* full - the mirror heals once the world stands still: the next snapshots
\* that are delivered make it exact for good.  A link on which every snapshot
\* finds no room (the minimap taking each free place) heals nothing.  That the
\* client reads need not be said: if it did not, sendCh would soon be full.
Heals ==
  (Settles /\ []<><<Delivered("sync")>>_vars)
    => <>[](Me \in Joined \/ setup.kind = "spectator" => MirrorExact)

Near(p) ==
  setup.kind = "spectator" \/ ~aoiEnabled \/ InView(players[Me], players[p])

\* What should be drawn, from positions alone.
ToDraw ==
  [p \in Player |->
    IF p = Me /\ setup.kind # "spectator" THEN "self"
    ELSE IF players[p] = Nil THEN "nobody"
    ELSE IF Near(p) THEN "near" ELSE "far"]

\* With minimaps delivered as well, what is drawn from the two tables heals
\* too: nobody who has left stays on the screen, and who is near is bright.
ScreenHeals ==
  (Settles /\ []<><<Delivered("sync")>>_vars /\ []<><<Delivered("minimap")>>_vars)
    => <>[](Me \in Joined \/ setup.kind = "spectator" => Drawn = ToDraw)

\* A client that stops reading never stops the world, whatever the others do: a
\* tick that has begun its broadcasts comes to an end, and one that never gets
\* there drains inputs for ever, since producers never let it find inCh empty.
\* The tick goroutine waits for nothing else.
TicksGoOn ==
  /\ pc \in {"aoi", "all"} ~> pc = "wait"
  /\ []<>(pc = "wait") \/ []<><<Drain>>_vars
=============================================================================
