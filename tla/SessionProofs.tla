--------------------------- MODULE SessionProofs ---------------------------
(***************************************************************************)
(* The invariants of Session, proved for any number of runs of the gateway *)
(* and of connections, for every capacity of the six kinds of channels,    *)
(* and whatever fails; and that a single run implements module Uplink.     *)
(***************************************************************************)
EXTENDS Session, SceneLemmas, FiniteSetTheorems

-----------------------------------------------------------------------------
(* Type correctness.                                                       *)

\* A queue with room for another element, and one whose head is taken.
LEMMA QueueAppend ==
  ASSUME NEW S, NEW q \in Seq(S), NEW x \in S, NEW cap \in Nat, Len(q) < cap
  PROVE  Append(q, x) \in Seq(S) /\ Len(Append(q, x)) <= cap
OBVIOUS

LEMMA QueueTail ==
  ASSUME NEW S, NEW q \in Seq(S), q # <<>>
  PROVE  /\ Head(q) \in S /\ Tail(q) \in Seq(S)
         /\ \A cap \in Nat : Len(q) <= cap => Len(Tail(q)) <= cap
OBVIOUS

LEMMA Seqs ==
  ASSUME NEW S, NEW n \in Nat, NEW q \in [1 .. n -> S]
  PROVE  q \in Seq(S)
OBVIOUS

LEMMA Capacities ==
  InboundCap \in Nat /\ UpCap \in Nat /\ WireCap \in Nat /\ OutCap \in Nat
BY SessionAssumption

LEMMA TypeInit == Init => TypeOK
BY SceneInitType, Capacities DEF Init, TypeOK

\* What a step of the gateway process leaves alone.
LEMMA OutsideType ==
  ASSUME TypeOK, UNCHANGED outside
  PROVE  /\ SceneTypeOK'
         /\ UNCHANGED <<gateway, link, wireUp, wireDown, handler, channel, out,
                        calls, overlap>>
BY SceneSame DEF TypeOK, outside, streams, service

LEMMA GatewayType ==
  ASSUME TypeOK,
         \/ \E c \in Player : \/ Accept(c) \/ CloseConn(c)
                              \/ ReadFrame(c) \/ PushFrame(c) \/ ReaderDone(c)
                              \/ WatchdogLeave(c) \/ RemoveConn(c)
         \/ Logic
  PROVE  TypeOK'
<1> USE Capacities DEF TypeOK, table, pipe
<1>1. ASSUME NEW c \in Player, Accept(c) PROVE TypeOK'
  BY <1>1, OutsideType DEF Accept
<1>2. ASSUME NEW c \in Player, CloseConn(c) PROVE TypeOK'
  BY <1>2, OutsideType DEF CloseConn
<1>3. ASSUME NEW c \in Player, ReadFrame(c) PROVE TypeOK'
  BY <1>3, OutsideType DEF ReadFrame, Request
<1>10. ASSUME NEW c \in Player, PushFrame(c) PROVE TypeOK'
  <2>1. [id |-> c, kind |-> held[c]] \in Inbound
    BY <1>10 DEF PushFrame, Inbound
  <2>2. inbound' \in Seq(Inbound) /\ Len(inbound') <= InboundCap
    BY <1>10, <2>1, QueueAppend DEF PushFrame
  <2> QED BY <1>10, <2>2, OutsideType DEF PushFrame
<1>11. ASSUME NEW c \in Player, ReaderDone(c) PROVE TypeOK'
  BY <1>11, OutsideType DEF ReaderDone
<1>4. CASE TakeInbound
  <2>1. job' \in Inbound /\ inbound' \in Seq(Inbound) /\ Len(inbound') <= InboundCap
    BY <1>4, QueueTail DEF TakeInbound
  <2> QED BY <1>4, <2>1, OutsideType DEF TakeInbound
<1>5. ASSUME NEW in \in Input, Upstream(in)
      PROVE  upstream' \in Seq(Input) /\ Len(upstream') <= UpCap
  BY <1>5, QueueAppend DEF Upstream
<1>6. CASE HandleLogin
  <2>1. job.id \in Player
    BY <1>6 DEF HandleLogin, Inbound
  <2>2. upstream' \in Seq(Input) /\ Len(upstream') <= UpCap
    BY <1>5, <1>6, <2>1, Inputs DEF HandleLogin, UpJoin
  <2> QED BY <1>6, <2>2, OutsideType DEF HandleLogin
<1>7. CASE HandleMoveReq
  <2>1. job.id \in Player
    BY <1>7 DEF HandleMoveReq, Inbound
  <2>2. upstream' \in Seq(Input) /\ Len(upstream') <= UpCap
    BY <1>5, <1>7, <2>1, Inputs DEF HandleMoveReq
  <2> QED BY <1>7, <2>2, OutsideType DEF HandleMoveReq
<1>8. ASSUME NEW c \in Player, WatchdogLeave(c) PROVE TypeOK'
  <2>1. upstream' \in Seq(Input) /\ Len(upstream') <= UpCap
    BY <1>5, <1>8, Inputs DEF WatchdogLeave
  <2> QED BY <1>8, <2>1, OutsideType DEF WatchdogLeave
<1>9. ASSUME NEW c \in Player, RemoveConn(c) PROVE TypeOK'
  BY <1>9, OutsideType DEF RemoveConn
<1> QED BY <1>1, <1>2, <1>3, <1>4, <1>6, <1>7, <1>8, <1>9, <1>10, <1>11 DEF Logic

LEMMA StreamType ==
  ASSUME TypeOK, NEW g \in Gw,
         \/ Start(g) \/ Crash(g) \/ LinkFails(g)
         \/ SendUp(g) \/ SendFails(g) \/ RecvDown(g)
  PROVE  TypeOK'
<1> USE Capacities DEF TypeOK, table, pipe, memory, service
<1>1. CASE Start(g)
  BY <1>1, SceneSame DEF Start
<1>2. CASE Crash(g)
  BY <1>2, SceneSame DEF Crash
<1>3. CASE LinkFails(g)
  BY <1>3, SceneSame DEF LinkFails
<1>4. CASE SendUp(g)
  <2>1. Head(upstream) \in Input /\ upstream' \in Seq(Input) /\ Len(upstream') <= UpCap
    BY <1>4, QueueTail DEF SendUp
  <2>2. /\ Append(wireUp[g], Head(upstream)) \in Seq(Input)
        /\ Len(Append(wireUp[g], Head(upstream))) <= WireCap
    BY <1>4, <2>1, QueueAppend DEF SendUp
  <2>3. /\ wireUp' \in [Gw -> Seq(Input)]
        /\ \A h \in Gw : Len(wireUp'[h]) <= WireCap
    BY <1>4, <2>2 DEF SendUp
  <2> QED BY <1>4, <2>1, <2>3, SceneSame DEF SendUp
<1>5. CASE SendFails(g)
  <2>1. upstream' \in Seq(Input) /\ Len(upstream') <= UpCap
    BY <1>5, QueueTail DEF SendFails
  <2> QED BY <1>5, <2>1, OutsideType DEF SendFails
<1>6. CASE RecvDown(g)
  <2>1. Tail(wireDown[g]) \in Seq(Frame) /\ Len(Tail(wireDown[g])) <= WireCap
    BY <1>6, QueueTail DEF RecvDown
  <2>2. /\ wireDown' \in [Gw -> Seq(Frame)]
        /\ \A h \in Gw : Len(wireDown'[h]) <= WireCap
    BY <1>6, <2>1 DEF RecvDown
  <2> QED BY <1>6, <2>2, SceneSame DEF RecvDown
<1> QED BY <1>1, <1>2, <1>3, <1>4, <1>5, <1>6

LEMMA ServiceType ==
  ASSUME TypeOK, NEW g \in Gw,
         SessionOpens(g) \/ SessionRecv(g) \/ SessionEnds(g) \/ SendDown(g)
  PROVE  TypeOK'
<1> USE Capacities DEF TypeOK, table, pipe, memory, service, streams
<1>1. CASE SessionOpens(g)
  BY <1>1, SceneSame DEF SessionOpens, OutOf, Serving
<1>2. CASE SessionRecv(g)
  <2>1. Head(wireUp[g]) \in Input /\ Tail(wireUp[g]) \in Seq(Input)
        /\ Len(Tail(wireUp[g])) <= WireCap
    BY <1>2, QueueTail DEF SessionRecv
  <2>2. SceneTypeOK'
    BY <1>2, <2>1, SendType DEF SessionRecv, Forward
  <2>3. /\ wireUp' \in [Gw -> Seq(Input)]
        /\ \A h \in Gw : Len(wireUp'[h]) <= WireCap
    BY <1>2, <2>1 DEF SessionRecv
  <2> QED BY <1>2, <2>2, <2>3 DEF SessionRecv
<1>3. CASE SessionEnds(g)
  BY <1>3, SceneSame DEF SessionEnds, OutNone
<1>4. CASE SendDown(g)
  <2>1. Head(channel[g]) \in Frame /\ Tail(channel[g]) \in Seq(Frame)
        /\ Len(Tail(channel[g])) <= OutCap
    BY <1>4, QueueTail DEF SendDown
  <2>2. /\ Append(wireDown[g], Head(channel[g])) \in Seq(Frame)
        /\ Len(Append(wireDown[g], Head(channel[g]))) <= WireCap
    BY <1>4, <2>1, QueueAppend DEF SendDown
  <2>3. /\ wireDown' \in [Gw -> Seq(Frame)] /\ channel' \in [Gw -> Seq(Frame)]
        /\ \A h \in Gw : Len(wireDown'[h]) <= WireCap /\ Len(channel'[h]) <= OutCap
    BY <1>4, <2>1, <2>2 DEF SendDown
  <2> QED BY <1>4, <2>3, SceneSame DEF SendDown
<1> QED BY <1>1, <1>2, <1>3, <1>4

LEMMA RestartType ==
  ASSUME TypeOK, SceneRestart
  PROVE  TypeOK'
<1>1. SceneTypeOK'
  BY SceneAssumption, GridAssumption DEF SceneRestart, SceneTypeOK, EmptyIndex
<1> QED BY <1>1, Capacities DEF SceneRestart, TypeOK, table, pipe, memory

LEMMA TickType ==
  ASSUME TypeOK, Tick
  PROVE  TypeOK'
<1> USE Capacities DEF TypeOK, table, pipe, memory, service, streams
<1>1. CASE Drain
  <2>1. Head(inCh) \in Input /\ SceneTypeOK'
    BY <1>1, HeadInput, DrainType DEF Drain, DrainOne
  <2> DEFINE P == Appear(Head(inCh)) \cup Vanish(Head(inCh))
  <2>2. P \subseteq Player \X Player
    BY <2>1, NotifierPlayers
  <2>3. IsFiniteSet(Player \X Player)
    BY SessionAssumption, FS_Product
  <2>4. Cardinality(P) \in Nat
    BY <2>2, <2>3, FS_Subset, FS_CardinalityType
  <2>5. PICK pairs \in SetToSeqs(P) : calls' = [i \in DOMAIN pairs |-> pairs[i][1]]
    BY <1>1 DEF Drain
  <2> HIDE DEF P
  <2>6. pairs \in [1 .. Cardinality(P) -> P]
    BY <2>5 DEF SetToSeqs
  <2>7. calls' \in [1 .. Cardinality(P) -> Frame]
    BY <2>2, <2>5, <2>6 DEF Frame
  <2>8. calls' \in Seq(Frame)
    BY <2>4, <2>7, Seqs
  <2> QED BY <1>1, <2>1, <2>8 DEF Drain
<1>2. ASSUME NEW id \in Player, SyncState(id) PROVE TypeOK'
  <2>1. SceneTypeOK'
    BY <1>2, StillType DEF SyncState, StillStep
  <2>2. <<id>> \in Seq(Frame)
    BY DEF Frame
  <2> QED BY <1>2, <2>1, <2>2 DEF SyncState
<1>3. CASE SyncAll
  <2>1. SceneTypeOK'
    BY <1>3, StillType DEF SyncAll, StillStep, BroadcastAll
  <2>2. <<BroadcastTarget>> \in Seq(Frame)
    BY DEF Frame
  <2> QED BY <1>3, <2>1, <2>2 DEF SyncAll
<1>4. CASE Emit
  <2>1. Head(calls) \in Frame /\ Tail(calls) \in Seq(Frame)
    BY <1>4, QueueTail DEF Emit
  <2>2. CASE out # Nil /\ Len(channel[out]) < OutCap
    <3>1. out \in Gw /\ channel' = [channel EXCEPT ![out] = Append(@, Head(calls))]
      BY <1>4, <2>2 DEF Emit
    <3>2. /\ Append(channel[out], Head(calls)) \in Seq(Frame)
          /\ Len(Append(channel[out], Head(calls))) <= OutCap
      BY <2>1, <2>2, <3>1, QueueAppend
    <3>3. /\ channel' \in [Gw -> Seq(Frame)]
          /\ \A h \in Gw : Len(channel'[h]) <= OutCap
      BY <3>1, <3>2
    <3> QED BY <1>4, <2>1, <3>3, SceneSame DEF Emit
  <2>3. CASE ~ (out # Nil /\ Len(channel[out]) < OutCap)
    BY <1>4, <2>1, <2>3, SceneSame DEF Emit
  <2> QED BY <2>2, <2>3
<1>5. CASE OtherStep
  <2>1. SceneTypeOK'
    BY <1>5, StillType DEF OtherStep, StillStep, SkipAll
  <2> QED BY <1>5, <2>1 DEF OtherStep
<1> QED BY <1>1, <1>2, <1>3, <1>4, <1>5 DEF Tick

LEMMA SameType == TypeOK /\ UNCHANGED vars => TypeOK'
BY SceneSame DEF vars, outside, memory, table, pipe, service, streams, TypeOK

LEMMA TypeStep == TypeOK /\ [Next]_vars => TypeOK'
BY GatewayType, StreamType, ServiceType, RestartType, TickType, SameType DEF Next

\* The state keeps its types: in particular no channel and no stream ever holds
\* more than its capacity, whatever process ends when.
THEOREM TypeCorrect == Spec => []TypeOK
BY TypeInit, TypeStep, PTL DEF Spec

-----------------------------------------------------------------------------
(* Whose channel the notifier uses.                                        *)

\* Handlers that serve beside each other are all in overlap, so that what is
\* not in overlap has the scene to itself.
BesideOverlap ==
  \A g \in Serving : g \in overlap \/ Serving = {g}

OInv == TypeOK /\ OutServing /\ BesideOverlap /\ SilentOnlyIfOverlapped

LEMMA OInvInit == Init => OInv
<1> SUFFICES ASSUME Init PROVE OInv
  OBVIOUS
<1>1. Serving = {} /\ out = Nil
  BY DEF Init, Serving
<1> QED BY <1>1, TypeInit DEF OInv, OutServing, BesideOverlap, SilentOnlyIfOverlapped

LEMMA OInvOpens ==
  ASSUME OInv, NEW g \in Gw, SessionOpens(g)
  PROVE  OutServing' /\ BesideOverlap' /\ SilentOnlyIfOverlapped'
<1>1. Serving' = Serving \cup {g} /\ out' = g
  BY DEF SessionOpens, Serving, OInv, TypeOK, OutOf
<1>2. CASE Serving = {}
  BY <1>1, <1>2 DEF OutServing, BesideOverlap, SilentOnlyIfOverlapped
<1>3. CASE Serving # {}
  <2>1. Serving' \subseteq overlap'
    BY <1>1, <1>3 DEF SessionOpens
  <2> QED BY <1>1, <2>1 DEF OutServing, BesideOverlap, SilentOnlyIfOverlapped
<1> QED BY <1>2, <1>3

LEMMA OInvEnds ==
  ASSUME OInv, NEW g \in Gw, SessionEnds(g)
  PROVE  OutServing' /\ BesideOverlap' /\ SilentOnlyIfOverlapped'
<1>1. Serving' = Serving \ {g} /\ out' = Nil /\ overlap' = overlap /\ g \in Serving
  BY DEF SessionEnds, Serving, OInv, TypeOK, OutNone
<1>2. Serving' \subseteq overlap'
  BY <1>1 DEF OInv, BesideOverlap
<1> QED BY <1>1, <1>2 DEF OutServing, BesideOverlap, SilentOnlyIfOverlapped

LEMMA OInvRestart ==
  ASSUME OInv, SceneRestart
  PROVE  OutServing' /\ BesideOverlap' /\ SilentOnlyIfOverlapped'
<1>1. \A g \in Gw : handler'[g] # "serving"
  BY DEF SceneRestart
<1>2. Serving' = {} /\ out' = Nil
  BY <1>1 DEF SceneRestart, Serving
<1> QED BY <1>2 DEF OutServing, BesideOverlap, SilentOnlyIfOverlapped

\* The other steps do not touch handlers, out or overlap.
LEMMA ServiceSame ==
  ASSUME [Next]_vars, ~ SceneRestart,
         \A g \in Gw : ~ SessionOpens(g) /\ ~ SessionEnds(g)
  PROVE  UNCHANGED <<handler, out, overlap>>
<1> USE DEF outside, service
<1>1. ASSUME NEW g \in Gw,
             \/ Start(g) \/ Crash(g) \/ LinkFails(g)
             \/ SendUp(g) \/ SendFails(g) \/ RecvDown(g)
             \/ SessionRecv(g) \/ SendDown(g)
      PROVE  UNCHANGED <<handler, out, overlap>>
  BY <1>1 DEF Start, Crash, LinkFails, SendUp, SendFails, RecvDown, SessionRecv, SendDown
<1>2. ASSUME NEW c \in Player,
             \/ Accept(c) \/ CloseConn(c)
             \/ ReadFrame(c) \/ PushFrame(c) \/ ReaderDone(c)
             \/ WatchdogLeave(c) \/ RemoveConn(c)
      PROVE  UNCHANGED <<handler, out, overlap>>
  BY <1>2 DEF Accept, CloseConn, ReadFrame, PushFrame, ReaderDone, WatchdogLeave,
              RemoveConn
<1>3. CASE Logic
  BY <1>3 DEF Logic, TakeInbound, HandleLogin, HandleMoveReq
<1>4. CASE Tick
  BY <1>4 DEF Tick, Drain, SyncAll, Emit, OtherStep, SyncState
<1>5. CASE UNCHANGED vars
  BY <1>5 DEF vars
<1> QED BY <1>1, <1>2, <1>3, <1>4, <1>5 DEF Next

LEMMA OInvStep == OInv /\ [Next]_vars => OInv'
<1> SUFFICES ASSUME OInv, [Next]_vars
             PROVE  OutServing' /\ BesideOverlap' /\ SilentOnlyIfOverlapped'
  BY TypeStep DEF OInv
<1>1. CASE SceneRestart
  BY <1>1, OInvRestart
<1>2. CASE \E g \in Gw : SessionOpens(g)
  BY <1>2, OInvOpens
<1>3. CASE \E g \in Gw : SessionEnds(g)
  BY <1>3, OInvEnds
<1>4. CASE UNCHANGED <<handler, out, overlap>>
  BY <1>4 DEF OInv, OutServing, BesideOverlap, SilentOnlyIfOverlapped, Serving
<1> QED BY <1>1, <1>2, <1>3, <1>4, ServiceSame

LEMMA OInvHolds == Spec => []OInv
BY OInvInit, OInvStep, PTL DEF Spec

\* What the tick goroutine emits never goes to the channel of a session that
\* has ended: out is cleared whenever a handler ends.
THEOREM NeverEmitsToEnded == Spec => []OutServing
<1>1. OInv => OutServing
  BY DEF OInv
<1> QED BY <1>1, OInvHolds, PTL

\* And it does go to the session that serves, unless another handler has served
\* at the same time.
THEOREM SilentAreOverlapped == Spec => []SilentOnlyIfOverlapped
<1>1. OInv => SilentOnlyIfOverlapped
  BY DEF OInv
<1> QED BY <1>1, OInvHolds, PTL

-----------------------------------------------------------------------------
(* Whom an ended connection leaves behind in the scene.                    *)

Left(c) == watchdog[c] \in {"remove", "end"}

\* One run of the gateway is up at a time: the earlier ones are down, the later
\* ones are yet to begin.
OneUp == \A g, h \in Gw : g < h /\ gateway[h] # "new" => gateway[g] = "down"

\* A gateway that begins finds no connection of an earlier run.
IdleMemory == \A c \in Player : ~ Running => watchdog[c] = "off"

\* The handler of a stream does not end before the stream does.
HandlerLink ==
  \A g \in Gw : /\ gateway[g] = "new" => link[g] = "none"
                /\ link[g] = "none"   => handler[g] = "none"
                /\ link[g] = "ok"     => handler[g] # "ended"

\* The Leave of a connection comes after its end, so that nothing is read from
\* it any more; what of its login is still in the gateway then was overtaken.
LeftClosed == \A c \in Player : Left(c) => stage[c] = "closed"

LoginRaced == \A c \in Player : Left(c) /\ InPipeline(c) => c \in raced

\* Otherwise a Leave is behind every join of it that is on its way to the scene,
\* and behind its player.  Until the scene serves the stream, the handlers of
\* earlier streams may have it join as often as they like: it is enough that
\* the Leave has not yet left the stream.
LeavesFollow ==
  \A g \in Gw, c \in Player : Connected(g) /\ Left(c) /\ c \notin raced =>
    /\ handler[g] = "serving" => g \in overlap \/ WillBeGone(UpWay(g), c, Joined)
    /\ handler[g] = "none"    => WillBeGone(wireUp[g] \o upstream, c, {c})

Lives == OneUp /\ IdleMemory /\ HandlerLink
GInv  == OInv /\ Lives /\ LeftClosed /\ LoginRaced /\ LeavesFollow

LEMMA GInvInit == Init => GInv
<1> SUFFICES ASSUME Init PROVE GInv
  OBVIOUS
<1>1. \A c \in Player : watchdog[c] = "off"
  BY DEF Init
<1>2. \A g \in Gw : gateway[g] = "new" /\ link[g] = "none" /\ handler[g] = "none"
  BY DEF Init
<1> QED BY <1>1, <1>2, OInvInit
        DEF GInv, Lives, OneUp, IdleMemory, HandlerLink, LeftClosed, LoginRaced,
            LeavesFollow, Left

\* The steps that begin or end a run, a stream or a handler.
LEMMA LivesProcess ==
  ASSUME TypeOK, Lives, NEW g \in Gw,
         Start(g) \/ Crash(g) \/ LinkFails(g) \/ SessionOpens(g) \/ SessionEnds(g)
  PROVE  Lives'
<1>0. /\ gateway \in [Gw -> {"new", "up", "down"}] /\ link \in [Gw -> {"none", "ok", "broken"}]
      /\ handler \in [Gw -> {"none", "serving", "ended"}] /\ Gw \subseteq Nat
      /\ watchdog \in [Player -> {"off", "wait", "remove", "end"}]
  BY SessionAssumption DEF TypeOK
<1> USE <1>0 DEF Lives, OneUp, IdleMemory, HandlerLink, Running
<1>1. CASE Start(g)
  <2>1. /\ gateway' = [gateway EXCEPT ![g] = "up"] /\ link' = [link EXCEPT ![g] = "ok"]
        /\ UNCHANGED <<watchdog, handler>> /\ gateway[g] = "new"
        /\ \A h \in Gw : h < g => gateway[h] = "down"
    BY <1>1 DEF Start, memory, service
  <2>2. OneUp'
    BY <2>1
  <2>3. IdleMemory'
    BY <2>1
  <2>4. HandlerLink'
    BY <2>1
  <2> QED BY <2>2, <2>3, <2>4
<1>2. CASE Crash(g)
  <2>1. /\ gateway' = [gateway EXCEPT ![g] = "down"] /\ gateway[g] = "up"
        /\ link' = [link EXCEPT ![g] = "broken"] /\ UNCHANGED handler
        /\ watchdog' = [c \in Player |-> "off"]
    BY <1>2 DEF Crash, service
  <2>2. OneUp'
    BY <2>1
  <2>3. IdleMemory'
    BY <2>1
  <2>4. HandlerLink'
    BY <2>1
  <2> QED BY <2>2, <2>3, <2>4
<1>3. CASE LinkFails(g)
  BY <1>3 DEF LinkFails, memory, service
<1>4. CASE SessionOpens(g)
  BY <1>4 DEF SessionOpens, memory, streams
<1>5. CASE SessionEnds(g)
  BY <1>5 DEF SessionEnds, memory
<1> QED BY <1>1, <1>2, <1>3, <1>4, <1>5

LEMMA LivesRestart ==
  ASSUME TypeOK, Lives, SceneRestart
  PROVE  Lives'
BY DEF SceneRestart, memory, TypeOK, Lives, OneUp, IdleMemory, HandlerLink, Running

\* The others leave the processes and the streams as they are, and only a
\* gateway that is up has watchdogs.
LEMMA LivesSame ==
  ASSUME TypeOK, Lives, UNCHANGED <<gateway, link, handler>>,
         \A c \in Player : watchdog'[c] = "off" \/ Running \/ watchdog[c] # "off"
  PROVE  Lives'
BY DEF Lives, OneUp, IdleMemory, HandlerLink, Running

LEMMA LoneGateway ==
  ASSUME TypeOK, Lives, NEW g \in Gw, gateway[g] = "up", NEW h \in Gw, Connected(h)
  PROVE  h = g
BY SessionAssumption DEF Lives, OneUp, Connected

\* What becomes of the three parts when the inputs on their way, the scene and
\* the handlers stay as they are.
LEMMA QuietStep ==
  ASSUME GInv, UNCHANGED <<players, inCh, wireUp, upstream, handler, overlap>>,
         \A g \in Gw : Connected(g)' => Connected(g),
         \A c \in Player : Left(c)' => /\ Left(c) /\ stage'[c] = stage[c]
                                       /\ c \in raced => c \in raced'
  PROVE  LeftClosed' /\ LeavesFollow'
BY DEF GInv, LeftClosed, LeavesFollow, UpWay, Joined

\* An input that is put behind the others in upstream.
LEMMA UpstreamKeeps ==
  ASSUME GInv, NEW in \in Input, Upstream(in),
         UNCHANGED outside, raced \subseteq raced',
         in.kind = "join" => in.id \in raced \/ ~ Left(in.id),
         \A c \in Player : Left(c)' => Left(c) \/ in = [kind |-> "leave", id |-> c]
  PROVE  LeavesFollow'
<1> SUFFICES ASSUME NEW g \in Gw, NEW c \in Player,
                    Connected(g)', Left(c)', c \notin raced'
             PROVE  /\ handler'[g] = "serving"
                         => g \in overlap' \/ WillBeGone(UpWay(g)', c, Joined')
                    /\ handler'[g] = "none"
                         => WillBeGone(wireUp'[g] \o upstream', c, {c})
  BY DEF LeavesFollow
<1>1. /\ UNCHANGED <<players, inCh, wireUp, handler, overlap, gateway, link>>
      /\ c \notin raced
  BY DEF outside, sceneVars, streams, service
<1>2. /\ inCh \in Seq(Input) /\ wireUp[g] \in Seq(Input) /\ upstream \in Seq(Input)
      /\ upstream' = Append(upstream, in)
  BY DEF GInv, OInv, TypeOK, SceneTypeOK, Upstream
<1> DEFINE sent == inCh \o wireUp[g]
<1>a. sent \in Seq(Input) /\ sent' = sent /\ UpWay(g) = sent \o upstream
  BY <1>1, <1>2 DEF UpWay
<1>b. UpWay(g)' = sent' \o upstream'
  BY DEF UpWay
<1> HIDE DEF sent
<1>3. UpWay(g) \in Seq(Input) /\ UpWay(g)' = Append(UpWay(g), in)
  BY <1>2, <1>a, <1>b, JoinedQueues
<1> DEFINE wire == wireUp[g]
<1>c. wire \in Seq(Input) /\ wire' = wire
  BY <1>1, <1>2
<1> HIDE DEF wire
<1>d. /\ wire \o upstream \in Seq(Input)
      /\ wire \o Append(upstream, in) = Append(wire \o upstream, in)
  BY <1>2, <1>c, JoinedQueues
<1>4. /\ wireUp[g] \o upstream \in Seq(Input)
      /\ wireUp'[g] \o upstream' = Append(wireUp[g] \o upstream, in)
  BY <1>2, <1>c, <1>d DEF wire
<1>5. Joined' = Joined /\ Connected(g)
  BY <1>1 DEF Joined, Connected
<1>6. CASE in = [kind |-> "leave", id |-> c]
  BY <1>3, <1>4, <1>6, GoneAfterLeave
<1>7. CASE Left(c)
  <2>1. in.kind = "join" => in.id # c
    BY <1>1, <1>7
  <2>2. /\ handler[g] = "serving" => g \in overlap \/ WillBeGone(UpWay(g), c, Joined)
        /\ handler[g] = "none"    => WillBeGone(wireUp[g] \o upstream, c, {c})
    BY <1>1, <1>5, <1>7 DEF GInv, LeavesFollow
  <2> QED BY <1>1, <1>3, <1>4, <1>5, <2>1, <2>2, GoneAfterSend
<1> QED BY <1>6, <1>7

\* An input that goes from upstream to the stream, or from there to inCh, does
\* not change places with any other.
LEMMA SendUpKeeps ==
  ASSUME GInv, NEW g \in Gw, SendUp(g)
  PROVE  LeavesFollow'
<1> DEFINE wire == wireUp[g]
           rest == Tail(upstream)
           next == Head(upstream)
<1>1. /\ wireUp' = [wireUp EXCEPT ![g] = Append(@, next)] /\ upstream' = rest
      /\ UNCHANGED <<players, inCh, gateway, link, handler, overlap, watchdog, raced>>
      /\ gateway[g] = "up" /\ upstream # <<>>
  BY DEF SendUp, sceneVars, service
<1>2. /\ inCh \in Seq(Input) /\ upstream \in Seq(Input) /\ wire \in Seq(Input)
      /\ wireUp \in [Gw -> Seq(Input)]
  BY DEF GInv, OInv, TypeOK, SceneTypeOK
<1>3. wireUp'[g] = Append(wire, next) /\ next \in Input /\ rest \in Seq(Input)
  BY <1>1, <1>2
<1>4. Append(wire, next) \in Seq(Input)
  BY <1>2, <1>3
<1> HIDE DEF wire
<1>5. Append(wire, next) \o rest = wire \o upstream
  BY <1>1, <1>2, JoinedQueues
<1> HIDE DEF rest, next
<1>6. (inCh \o Append(wire, next)) \o rest = (inCh \o wire) \o upstream
  <2> DEFINE more == Append(wire, next)
  <2>1. more \o rest = wire \o upstream
    BY <1>5
  <2>4. inCh \in Seq(Input) /\ more \in Seq(Input) /\ rest \in Seq(Input)
    BY <1>2, <1>3, <1>4
  <2> HIDE DEF more
  <2>2. (inCh \o more) \o rest = inCh \o (more \o rest)
    BY <2>4, QueuesAssociate
  <2>3. (inCh \o wire) \o upstream = inCh \o (wire \o upstream)
    BY <1>2, QueuesAssociate
  <2>5. (inCh \o more) \o rest = (inCh \o wire) \o upstream
    BY <2>1, <2>2, <2>3
  <2> QED BY <2>5 DEF more
<1>7. wireUp'[g] \o upstream' = wireUp[g] \o upstream
  BY <1>1, <1>3, <1>5 DEF wire
<1>8. UpWay(g)' = UpWay(g)
  BY <1>1, <1>3, <1>6 DEF UpWay, wire
<1>9. \A h \in Gw : Connected(h)' => h = g /\ Connected(h)
  BY <1>1, LoneGateway DEF Connected, GInv, OInv
<1> QED BY <1>1, <1>7, <1>8, <1>9 DEF GInv, LeavesFollow, Left, Joined

LEMMA RecvKeeps ==
  ASSUME GInv, NEW g \in Gw, SessionRecv(g)
  PROVE  LeavesFollow'
<1> DEFINE wire == wireUp[g]
           rest == Tail(wire)
           next == Head(wire)
<1>1. /\ inCh' = Append(inCh, next) /\ wireUp' = [wireUp EXCEPT ![g] = rest]
      /\ UNCHANGED <<players, gateway, link, handler, overlap, watchdog, raced, upstream>>
      /\ handler[g] = "serving" /\ wire # <<>>
  BY DEF SessionRecv, Forward, Send, service, memory
<1>2. /\ inCh \in Seq(Input) /\ upstream \in Seq(Input) /\ wire \in Seq(Input)
      /\ wireUp \in [Gw -> Seq(Input)]
  BY DEF GInv, OInv, TypeOK, SceneTypeOK
<1>3. wireUp'[g] = rest /\ \A h \in Gw \ {g} : wireUp'[h] = wireUp[h]
  BY <1>1, <1>2
<1> HIDE DEF wire
<1>4. Append(inCh, next) \o rest = inCh \o wire
  BY <1>1, <1>2, JoinedQueues
<1>5. UpWay(g)' = UpWay(g)
  BY <1>1, <1>3, <1>4 DEF UpWay, wire
<1> HIDE DEF rest, next
<1>6. Joined' = Joined
  BY <1>1 DEF Joined
<1> SUFFICES ASSUME NEW h \in Gw, NEW c \in Player,
                    Connected(h)', Left(c)', c \notin raced'
             PROVE  /\ handler'[h] = "serving"
                         => h \in overlap' \/ WillBeGone(UpWay(h)', c, Joined')
                    /\ handler'[h] = "none"
                         => WillBeGone(wireUp'[h] \o upstream', c, {c})
  BY DEF LeavesFollow
<1>7. /\ handler[h] = "serving" => h \in overlap \/ WillBeGone(UpWay(h), c, Joined)
      /\ handler[h] = "none"    => WillBeGone(wireUp[h] \o upstream, c, {c})
  BY <1>1 DEF GInv, LeavesFollow, Connected, Left
<1>8. CASE h = g
  BY <1>1, <1>5, <1>6, <1>7, <1>8
<1>9. CASE h # g
  <2>1. handler[h] = "serving" => h \in overlap
    BY <1>1, <1>9 DEF GInv, OInv, BesideOverlap, Serving
  <2>2. wireUp'[h] \o upstream' = wireUp[h] \o upstream
    BY <1>1, <1>3, <1>9
  <2> QED BY <1>1, <1>7, <2>1, <2>2
<1> QED BY <1>8, <1>9

\* When the scene begins to serve a stream, what other streams have put in inCh
\* is ahead of what this one holds.
LEMMA OpensKeeps ==
  ASSUME GInv, NEW g \in Gw, SessionOpens(g)
  PROVE  LeavesFollow'
<1>1. /\ UNCHANGED <<players, inCh, wireUp, upstream, gateway, link, watchdog, raced>>
      /\ handler' = [handler EXCEPT ![g] = "serving"] /\ handler[g] = "none"
      /\ overlap \subseteq overlap'
  BY DEF SessionOpens, sceneVars, memory, streams
<1>2. Joined' = Joined /\ \A h \in Gw : UpWay(h)' = UpWay(h)
  BY <1>1 DEF Joined, UpWay
<1> SUFFICES ASSUME NEW h \in Gw, NEW c \in Player,
                    Connected(h)', Left(c)', c \notin raced'
             PROVE  /\ handler'[h] = "serving"
                         => h \in overlap' \/ WillBeGone(UpWay(h), c, Joined)
                    /\ handler'[h] = "none"
                         => WillBeGone(wireUp[h] \o upstream, c, {c})
  BY <1>1, <1>2 DEF LeavesFollow
<1>3. /\ handler[h] = "serving" => h \in overlap \/ WillBeGone(UpWay(h), c, Joined)
      /\ handler[h] = "none"    => WillBeGone(wireUp[h] \o upstream, c, {c})
  BY <1>1 DEF GInv, LeavesFollow, Connected, Left
<1>4. handler \in [Gw -> {"none", "serving", "ended"}]
  BY DEF GInv, OInv, TypeOK
<1>5. CASE h # g
  BY <1>1, <1>3, <1>4, <1>5
<1>6. CASE h = g
  <2> DEFINE wire == wireUp[g]
  <2>1. inCh \in Seq(Input) /\ wire \in Seq(Input) /\ upstream \in Seq(Input)
    BY DEF GInv, OInv, TypeOK, SceneTypeOK
  <2>2. WillBeGone(wire \o upstream, c, {c})
    BY <1>1, <1>3, <1>6
  <2>3. UpWay(h) = (inCh \o wire) \o upstream
    BY <1>6 DEF UpWay
  <2> HIDE DEF wire
  <2>4. wire \o upstream \in Seq(Input)
    BY <2>1, JoinedQueues
  <2>5. WillBeGone(inCh \o (wire \o upstream), c, Joined)
    BY <2>1, <2>2, <2>4, GoneBehind
  <2>6. UpWay(h) = inCh \o (wire \o upstream)
    BY <2>1, <2>3, QueuesAssociate
  <2> QED BY <1>1, <1>4, <1>6, <2>5, <2>6
<1> QED BY <1>5, <1>6

LEMMA DrainKeeps ==
  ASSUME GInv, Drain
  PROVE  LeavesFollow'
<1>1. /\ DrainOne /\ SceneTypeOK /\ inCh' \in Seq(Input)
      /\ UNCHANGED <<wireUp, upstream, gateway, link, handler, overlap, watchdog, raced>>
  BY DrainType DEF Drain, memory, streams, service, GInv, OInv, TypeOK, SceneTypeOK
<1>2. ASSUME NEW g \in Gw, NEW c \in Player, WillBeGone(UpWay(g), c, Joined)
      PROVE  WillBeGone(UpWay(g)', c, Joined')
  <2> DEFINE wire == wireUp[g]
  <2>1. inCh \in Seq(Input) /\ wire \in Seq(Input) /\ upstream \in Seq(Input)
    BY DEF GInv, OInv, TypeOK, SceneTypeOK
  <2>2. UpWay(g) = (inCh \o wire) \o upstream
    BY DEF UpWay
  <2>3. UpWay(g)' = (inCh' \o wire) \o upstream
    BY <1>1 DEF UpWay
  <2> HIDE DEF wire
  <2>4. wire \o upstream \in Seq(Input)
    BY <2>1, JoinedQueues
  <2>5. UpWay(g) = inCh \o (wire \o upstream)
    BY <2>1, <2>2, QueuesAssociate
  <2>6. UpWay(g)' = inCh' \o (wire \o upstream)
    BY <1>1, <2>1, <2>3, QueuesAssociate
  <2>7. WillBeGone(inCh' \o (wire \o upstream), c, Joined')
    BY <1>1, <1>2, <2>4, <2>5, GoneAfterDrain
  <2> QED BY <2>6, <2>7
<1> QED BY <1>1, <1>2 DEF GInv, LeavesFollow, Left, Connected

\* The login of a connection in the gateway, at the steps that pass it on.
Login(c) == [id |-> c, kind |-> "login"]

LEMMA SamePipeline ==
  ASSUME UNCHANGED <<inbound, job>>, NEW c \in Player,
         held'[c] = held[c] \/ held'[c] # "login"
  PROVE  InPipeline(c)' => InPipeline(c)
BY DEF InPipeline

LEMMA TakeKeeps ==
  ASSUME TypeOK, TakeInbound, NEW c \in Player
  PROVE  InPipeline(c)' => InPipeline(c)
<1>1. inbound \in Seq(Inbound) /\ inbound # <<>> /\ job' = Head(inbound)
      /\ inbound' = Tail(inbound) /\ held' = held
  BY DEF TakeInbound, TypeOK
<1>2. ToSet(inbound) = ToSet(Tail(inbound)) \cup {Head(inbound)}
  BY <1>1, TailHolds DEF ToSet
<1> QED BY <1>1, <1>2 DEF InPipeline

LEMMA PushKeeps ==
  ASSUME TypeOK, NEW d \in Player, PushFrame(d), NEW c \in Player
  PROVE  InPipeline(c)' => InPipeline(c)
<1> DEFINE new == [id |-> d, kind |-> held[d]]
<1>1. inbound \in Seq(Inbound) /\ inbound' = Append(inbound, new) /\ new \in Inbound
      /\ job' = job
  BY DEF PushFrame, TypeOK, Inbound
<1>2. new = Login(c) => held[c] = "login"
  BY DEF Login
<1>3. held'[c] = "login" => held[c] = "login"
  BY SessionAssumption DEF PushFrame, TypeOK, Request
<1> HIDE DEF new
<1>4. ToSet(inbound') = ToSet(inbound) \cup {new}
  BY <1>1, AppendHolds DEF ToSet
<1> QED BY <1>1, <1>2, <1>3, <1>4 DEF InPipeline, Login

LEMMA HandledKeeps ==
  ASSUME job' = Nil, UNCHANGED <<held, inbound>>, NEW c \in Player
  PROVE  InPipeline(c)' => InPipeline(c)
<1>1. Login(c) # Nil
  BY SessionAssumption DEF Login, Inbound, Request
<1> QED BY <1>1 DEF InPipeline, Login

LEMMA ConnectionStep ==
  ASSUME GInv, NEW d \in Player,
         \/ Accept(d) \/ CloseConn(d) \/ RemoveConn(d)
         \/ ReadFrame(d) \/ PushFrame(d) \/ ReaderDone(d)
  PROVE  Lives' /\ LeftClosed' /\ LoginRaced' /\ LeavesFollow'
<1>0. /\ TypeOK /\ Lives
  BY DEF GInv, OInv
<1>1. /\ UNCHANGED <<players, inCh, wireUp, upstream, handler, overlap, raced, gateway, link>>
      /\ \A g \in Gw : Connected(g)' <=> Connected(g)
  BY DEF Accept, CloseConn, ReadFrame, PushFrame, ReaderDone, RemoveConn, outside,
         sceneVars, streams, service, Connected
<1>2. \A c \in Player : watchdog'[c] = "off" \/ Running \/ watchdog[c] # "off"
  BY <1>0 DEF Accept, CloseConn, ReadFrame, PushFrame, ReaderDone, RemoveConn, table,
              TypeOK
<1>3. Lives'
  BY <1>0, <1>1, <1>2, LivesSame
<1>4. \A c \in Player : Left(c)' => Left(c)
  BY <1>0 DEF Accept, CloseConn, ReadFrame, PushFrame, ReaderDone, RemoveConn, table,
              TypeOK, Left
<1>5. \A c \in Player : Left(c) /\ Left(c)' => stage'[c] = stage[c]
  BY <1>0 DEF GInv, LeftClosed, Accept, CloseConn, ReadFrame, PushFrame, ReaderDone,
              RemoveConn, table, TypeOK, Left
<1>6. LeftClosed' /\ LeavesFollow'
  BY <1>1, <1>4, <1>5, QuietStep
<1>7. ASSUME NEW c \in Player, Left(c) PROVE InPipeline(c)' => InPipeline(c)
  <2>1. CASE PushFrame(d)
    BY <1>0, <2>1, PushKeeps
  <2>2. CASE ReadFrame(d)
    <3>1. c # d
      BY <1>7, <2>2 DEF GInv, LeftClosed, ReadFrame
    <3> QED BY <1>0, <2>2, <3>1, SamePipeline DEF ReadFrame, TypeOK
  <2>3. CASE ReaderDone(d)
    BY <1>0, <2>3, SamePipeline DEF ReaderDone, TypeOK
  <2>4. CASE Accept(d) \/ CloseConn(d) \/ RemoveConn(d)
    BY <2>4, SamePipeline DEF Accept, CloseConn, RemoveConn, pipe
  <2> QED BY <2>1, <2>2, <2>3, <2>4
<1>8. LoginRaced'
  BY <1>1, <1>4, <1>7 DEF GInv, LoginRaced
<1> QED BY <1>3, <1>6, <1>8

LEMMA LogicStep ==
  ASSUME GInv, Logic
  PROVE  Lives' /\ LeftClosed' /\ LoginRaced' /\ LeavesFollow'
<1>0. /\ TypeOK /\ Lives
  BY DEF GInv, OInv
<1>1. /\ UNCHANGED outside /\ UNCHANGED <<raced, watchdog, stage>>
      /\ UNCHANGED <<players, inCh, wireUp, handler, overlap, gateway, link>>
  BY DEF Logic, TakeInbound, HandleLogin, HandleMoveReq, outside, sceneVars,
         streams, service, table
<1>2. \A c \in Player : Left(c)' <=> Left(c)
  BY <1>1 DEF Left
<1>3. Lives' /\ LeftClosed'
  BY <1>0, <1>1, <1>2, LivesSame DEF GInv, LeftClosed
<1>4. CASE TakeInbound
  <2>1. upstream' = upstream /\ \A g \in Gw : Connected(g)' <=> Connected(g)
    BY <1>1, <1>4 DEF TakeInbound, Connected
  <2>2. LeavesFollow'
    BY <1>1, <1>2, <2>1, QuietStep
  <2>3. LoginRaced'
    BY <1>0, <1>1, <1>2, <1>4, TakeKeeps DEF GInv, LoginRaced
  <2> QED BY <1>3, <2>2, <2>3
<1>5. ASSUME HandleLogin \/ HandleMoveReq
      PROVE  job \in Inbound /\ job.id \in Player /\ LoginRaced'
  <2>1. job \in Inbound /\ job' = Nil /\ UNCHANGED <<held, inbound>>
    BY <1>0, <1>5 DEF HandleLogin, HandleMoveReq, TypeOK
  <2>2. LoginRaced'
    BY <1>1, <1>2, <2>1, HandledKeeps DEF GInv, LoginRaced
  <2> QED BY <2>1, <2>2 DEF Inbound
<1>6. CASE HandleLogin
  <2> DEFINE in == [kind |-> "join", id |-> job.id, pos |-> Spawn]
  <2>1. in \in Input /\ Upstream(in)
    BY <1>5, <1>6, Inputs DEF HandleLogin, UpJoin
  <2>2. job = Login(job.id)
    BY <1>5, <1>6 DEF HandleLogin, Login, Inbound
  <2>3. job.id \in raced \/ ~ Left(job.id)
    BY <1>5, <1>6, <2>2 DEF GInv, LoginRaced, InPipeline, Login
  <2>4. in.kind = "join" /\ in.id = job.id
    OBVIOUS
  <2> HIDE DEF in
  <2>5. LeavesFollow'
    BY <1>1, <1>2, <2>1, <2>3, <2>4, UpstreamKeeps
  <2> QED BY <1>3, <1>5, <1>6, <2>5
<1>7. CASE HandleMoveReq
  <2>1. PICK pos \in Pos : Upstream([kind |-> "move", id |-> job.id, pos |-> pos])
    BY <1>7 DEF HandleMoveReq
  <2> DEFINE in == [kind |-> "move", id |-> job.id, pos |-> pos]
  <2>2. in \in Input /\ Upstream(in) /\ in.kind # "join"
    BY <1>5, <1>7, <2>1, Inputs
  <2> HIDE DEF in
  <2>3. LeavesFollow'
    BY <1>1, <1>2, <2>2, UpstreamKeeps
  <2> QED BY <1>3, <1>5, <1>7, <2>3
<1> QED BY <1>4, <1>6, <1>7 DEF Logic

LEMMA WatchdogStep ==
  ASSUME GInv, NEW d \in Player, WatchdogLeave(d)
  PROVE  Lives' /\ LeftClosed' /\ LoginRaced' /\ LeavesFollow'
<1>0. /\ TypeOK /\ Lives
  BY DEF GInv, OInv
<1>1. /\ UNCHANGED outside /\ UNCHANGED <<stage, held, inbound, job, gateway, link, handler>>
      /\ stage[d] = "closed" /\ watchdog[d] = "wait"
      /\ watchdog' = [watchdog EXCEPT ![d] = "remove"]
      /\ raced \subseteq raced'
      /\ InPipeline(d) => d \in raced'
  BY DEF WatchdogLeave, WatchdogDue, outside, table, pipe, streams, service
<1>3. \A c \in Player : Left(c)' => Left(c) \/ c = d
  BY <1>0, <1>1 DEF TypeOK, Left
<1>4. Lives'
  <2>1. \A c \in Player : watchdog'[c] = "off" \/ Running \/ watchdog[c] # "off"
    BY <1>0, <1>1 DEF TypeOK
  <2> QED BY <1>0, <1>1, <2>1, LivesSame
<1>5. LeftClosed' /\ LoginRaced'
  BY <1>1, <1>3 DEF GInv, LeftClosed, LoginRaced, InPipeline
<1> DEFINE in == [kind |-> "leave", id |-> d]
<1>6. in \in Input /\ Upstream(in) /\ in.kind # "join"
  BY Inputs DEF WatchdogLeave
<1>7. \A c \in Player : Left(c)' => Left(c) \/ in = [kind |-> "leave", id |-> c]
  BY <1>3
<1> HIDE DEF in
<1>8. LeavesFollow'
  BY <1>1, <1>6, <1>7, UpstreamKeeps
<1> QED BY <1>4, <1>5, <1>8

\* A gateway that begins or crashes has no connection, and one whose stream
\* breaks is not connected.
LEMMA ProcessStep ==
  ASSUME GInv, NEW g \in Gw,
         Start(g) \/ Crash(g) \/ LinkFails(g) \/ SessionEnds(g)
  PROVE  Lives' /\ LeftClosed' /\ LoginRaced' /\ LeavesFollow'
<1>0. TypeOK /\ Lives /\ Lives'
  BY LivesProcess DEF GInv, OInv
<1>1. CASE Start(g)
  <2>1. \A c \in Player : watchdog[c] = "off" /\ watchdog'[c] = "off"
    <3>1. /\ watchdog' = watchdog /\ gateway[g] = "new"
          /\ \A h \in Gw : h < g => gateway[h] = "down"
      BY <1>1 DEF Start, memory
    <3>2. \A h \in Gw : g < h => gateway[h] = "new"
      BY <1>0, <3>1 DEF Lives, OneUp
    <3>3. \A h \in Gw : h = g \/ h < g \/ g < h
      BY SessionAssumption
    <3>4. ~ Running
      BY <3>1, <3>2, <3>3 DEF Running
    <3> QED BY <1>0, <3>1, <3>4 DEF Lives, IdleMemory
  <2> QED BY <1>0, <2>1 DEF LeftClosed, LoginRaced, LeavesFollow, Left
<1>2. CASE Crash(g)
  <2>1. \A c \in Player : watchdog'[c] = "off"
    BY <1>2 DEF Crash
  <2> QED BY <1>0, <2>1 DEF LeftClosed, LoginRaced, LeavesFollow, Left
<1>3. CASE LinkFails(g)
  <2>1. /\ UNCHANGED <<players, inCh, wireUp, upstream, handler, overlap,
                       stage, watchdog, raced, held, inbound, job>>
        /\ \A h \in Gw : Connected(h)' => Connected(h)
    BY <1>0, <1>3 DEF LinkFails, sceneVars, memory, table, pipe, service, Connected, TypeOK
  <2>2. LeftClosed' /\ LeavesFollow'
    BY <2>1, QuietStep DEF Left
  <2>3. LoginRaced'
    BY <2>1 DEF GInv, LoginRaced, InPipeline, Left
  <2> QED BY <1>0, <2>2, <2>3
<1>4. CASE SessionEnds(g)
  <2>1. /\ UNCHANGED <<players, inCh, upstream, overlap, stage, watchdog, raced,
                       held, inbound, job, gateway, link>>
        /\ link[g] = "broken"
    BY <1>4 DEF SessionEnds, sceneVars, memory, table, pipe
  <2>2. /\ \A h \in Gw : h # g => wireUp'[h] = wireUp[h] /\ handler'[h] = handler[h]
        /\ \A h \in Gw : Connected(h)' => Connected(h) /\ h # g
    BY <1>0, <1>4, <2>1 DEF SessionEnds, Connected, TypeOK
  <2>3. LeavesFollow'
    BY <2>1, <2>2 DEF GInv, LeavesFollow, UpWay, Joined, Left
  <2>4. LoginRaced' /\ LeftClosed'
    BY <2>1 DEF GInv, LoginRaced, InPipeline, LeftClosed, Left
  <2> QED BY <1>0, <2>3, <2>4
<1> QED BY <1>1, <1>2, <1>3, <1>4

LEMMA StreamStep ==
  ASSUME GInv, NEW g \in Gw,
         \/ SendUp(g) \/ SendFails(g) \/ RecvDown(g)
         \/ SessionOpens(g) \/ SessionRecv(g) \/ SendDown(g)
  PROVE  Lives' /\ LeftClosed' /\ LoginRaced' /\ LeavesFollow'
<1>0. /\ TypeOK /\ Lives
  BY DEF GInv, OInv
<1>1. UNCHANGED <<stage, watchdog, raced, held, inbound, job, gateway, link>>
  BY DEF SendUp, SendFails, RecvDown, SessionOpens, SessionRecv, SendDown,
         outside, memory, table, pipe, streams
<1>2. LeftClosed' /\ LoginRaced'
  BY <1>1 DEF GInv, LeftClosed, LoginRaced, InPipeline, Left
<1>3. Lives'
  <2>1. CASE SessionOpens(g)
    BY <1>0, <2>1, LivesProcess
  <2>2. CASE UNCHANGED handler
    BY <1>0, <1>1, <2>2, LivesSame
  <2>3. SessionOpens(g) \/ UNCHANGED handler
    BY DEF SendUp, SendFails, RecvDown, SessionRecv, SendDown, outside, service
  <2> QED BY <2>1, <2>2, <2>3
<1>4. CASE SendUp(g)
  BY <1>2, <1>3, <1>4, SendUpKeeps
<1>5. CASE SessionOpens(g)
  BY <1>2, <1>3, <1>5, OpensKeeps
<1>6. CASE SessionRecv(g)
  BY <1>2, <1>3, <1>6, RecvKeeps
<1>7. CASE SendFails(g)
  <2>1. ~ Connected(g)' /\ \A h \in Gw : Connected(h)' => Connected(h) /\ h = g
    BY <1>0, <1>1, <1>7, LoneGateway DEF SendFails, Connected
  <2> QED BY <1>2, <1>3, <2>1 DEF LeavesFollow
<1>8. CASE RecvDown(g) \/ SendDown(g)
  <2>1. /\ UNCHANGED <<players, inCh, wireUp, upstream, handler, overlap>>
        /\ \A h \in Gw : Connected(h)' <=> Connected(h)
    BY <1>1, <1>8 DEF RecvDown, SendDown, sceneVars, memory, service, Connected
  <2> QED BY <1>1, <1>2, <1>3, <2>1, QuietStep DEF Left
<1> QED BY <1>4, <1>5, <1>6, <1>7, <1>8

LEMMA SceneSteps ==
  ASSUME GInv, SceneRestart \/ Tick \/ UNCHANGED vars
  PROVE  Lives' /\ LeftClosed' /\ LoginRaced' /\ LeavesFollow'
<1>0. /\ TypeOK /\ Lives
  BY DEF GInv, OInv
<1>1. UNCHANGED <<stage, watchdog, raced, held, inbound, job, gateway, upstream>>
  BY DEF SceneRestart, Tick, Drain, SyncState, SyncAll, Emit, OtherStep, vars,
         outside, memory, table, pipe
<1>2. LeftClosed' /\ LoginRaced'
  BY <1>1 DEF GInv, LeftClosed, LoginRaced, InPipeline, Left
<1>3. CASE SceneRestart
  <2>1. \A h \in Gw : ~ Connected(h)'
    BY <1>0, <1>3 DEF SceneRestart, Connected, TypeOK
  <2> QED BY <1>0, <1>2, <1>3, <2>1, LivesRestart DEF LeavesFollow
<1>4. CASE Tick \/ UNCHANGED vars
  <2>1. UNCHANGED <<link, wireUp, handler, overlap>>
    BY <1>4 DEF Tick, Drain, SyncState, SyncAll, Emit, OtherStep, vars, outside,
                streams, service
  <2>2. Lives'
    BY <1>0, <1>1, <2>1, LivesSame
  <2>3. CASE Drain
    BY <1>2, <2>2, <2>3, DrainKeeps
  <2>4. CASE UNCHANGED <<players, inCh>>
    <3>1. \A h \in Gw : Connected(h)' <=> Connected(h)
      BY <1>1, <2>1 DEF Connected
    <3> QED BY <1>1, <1>2, <2>1, <2>2, <2>4, <3>1, QuietStep DEF Left
  <2>5. Drain \/ UNCHANGED <<players, inCh>>
    BY <1>4 DEF Tick, SyncState, SyncOne, SyncAll, BroadcastAll, EndTick, Emit,
                OtherStep, TickStart, DrainDone, SyncDone, SkipAll, vars, outside, sceneVars
  <2> QED BY <2>3, <2>4, <2>5
<1> QED BY <1>3, <1>4

LEMMA GInvStep == GInv /\ [Next]_vars => GInv'
<1> SUFFICES ASSUME GInv, [Next]_vars
             PROVE  Lives' /\ LeftClosed' /\ LoginRaced' /\ LeavesFollow'
  BY OInvStep DEF GInv
<1> QED BY ConnectionStep, LogicStep, WatchdogStep, ProcessStep, StreamStep,
           SceneSteps DEF Next

\* A player in the scene whose connection has ended has the Leave still to come.
LEMMA GhostFollows == GInv => GhostOnlyIfRaced
<1> SUFFICES ASSUME GInv, NEW g \in Gw, NEW c \in Player,
                    Connected(g), Left(c), c \in Joined,
                    c \notin raced, g \notin overlap
             PROVE  \E i \in DOMAIN UpWay(g) :
                      UpWay(g)[i].kind = "leave" /\ UpWay(g)[i].id = c
  BY DEF GhostOnlyIfRaced, Left
<1> DEFINE wire == wireUp[g]
<1>1. inCh \in Seq(Input) /\ wire \in Seq(Input) /\ upstream \in Seq(Input)
  BY DEF GInv, OInv, TypeOK, SceneTypeOK
<1>2. UpWay(g) = (inCh \o wire) \o upstream
  BY DEF UpWay
<1>3. WillBeGone(UpWay(g), c, Joined)
  <2>1. CASE handler[g] = "serving"
    BY <2>1 DEF GInv, LeavesFollow
  <2>2. CASE handler[g] = "none"
    <3>1. WillBeGone(wire \o upstream, c, {c})
      BY <2>2 DEF GInv, LeavesFollow
    <3> HIDE DEF wire
    <3>2. wire \o upstream \in Seq(Input)
      BY <1>1, JoinedQueues
    <3>3. WillBeGone(inCh \o (wire \o upstream), c, Joined)
      BY <1>1, <3>1, <3>2, GoneBehind
    <3>4. UpWay(g) = inCh \o (wire \o upstream)
      BY <1>1, <1>2, QueuesAssociate
    <3> QED BY <3>3, <3>4
  <2>3. handler[g] \in {"serving", "none"}
    BY DEF GInv, OInv, TypeOK, Lives, HandlerLink, Connected
  <2> QED BY <2>1, <2>2, <2>3
<1>4. UpWay(g) \in Seq(Input)
  <2> HIDE DEF wire
  <2>1. inCh \o wire \in Seq(Input)
    BY <1>1, JoinedQueues
  <2> QED BY <1>1, <1>2, <2>1, JoinedQueues
<1> DEFINE u == UpWay(g)
<1>5. u \in Seq(Input) /\ WillBeGone(u, c, Joined)
  BY <1>3, <1>4
<1> HIDE DEF u
<1>6. 0 \in 0 .. Len(u) /\ DOMAIN u = 1 .. Len(u)
  BY <1>5
<1>7. \E i \in 0+1 .. Len(u) : u[i].kind = "leave" /\ u[i].id = c
  BY <1>5, <1>6 DEF WillBeGone
<1> QED BY <1>6, <1>7 DEF u

LEMMA GInvHolds == Spec => []GInv
BY GInvInit, GInvStep, PTL DEF Spec

\* Through three queues, two processes and whatever fails between them, the
\* Leave of a connection that has ended takes its player out of the scene,
\* unless it overtook the connection's login or two handlers of the scene
\* served at the same time.
THEOREM GhostsAreRaced == Spec => []GhostOnlyIfRaced
BY GInvHolds, GhostFollows, PTL

-----------------------------------------------------------------------------
(* The way that module Uplink describes, of a single run of the gateway.   *)

Alone == Gw = {Only}

\* No id has been given that nextID has not reached.
StageKnown == \A c \in Player : stage[c] # "new" => c <= nextID

\* Before the stream is opened, the scene has nothing and nobody.
SceneIdle == link[Only] = "none" => inCh = <<>> /\ wireUp[Only] = <<>> /\ Joined = {}

UInv == StageKnown /\ SceneIdle

LEMMA UInvInit == Alone /\ Init => UInv
BY DEF Alone, Init, UInv, StageKnown, SceneIdle, SceneInit, Joined

LEMMA StageStep == GInv /\ StageKnown /\ [Next]_vars => StageKnown'
<1> SUFFICES ASSUME GInv, StageKnown, [Next]_vars PROVE StageKnown'
  OBVIOUS
<1>0. TypeOK /\ \A c \in Player : c \in Nat
  BY SessionAssumption DEF GInv, OInv
<1>1. ASSUME NEW d \in Player, Accept(d) PROVE StageKnown'
  <2>1. /\ nextID' = nextID + 1 /\ d = nextID + 1 /\ nextID \in Nat
        /\ \A c \in Player \ {d} : stage'[c] = stage[c]
    BY <1>0, <1>1 DEF Accept, TypeOK
  <2>2. ASSUME NEW c \in Player, stage'[c] # "new" PROVE c <= nextID'
    <3>1. CASE c = d
      BY <1>0, <2>1, <3>1
    <3>2. CASE c # d
      <4>1. c <= nextID
        BY <2>1, <2>2, <3>2 DEF StageKnown
      <4> QED BY <1>0, <2>1, <4>1
    <3> QED BY <3>1, <3>2
  <2> QED BY <2>2 DEF StageKnown
<1>2. ASSUME NEW d \in Player, CloseConn(d) PROVE StageKnown'
  BY <1>0, <1>2 DEF CloseConn, StageKnown, TypeOK
<1>3. ASSUME NEW g \in Gw, Crash(g) PROVE StageKnown'
  BY <1>3 DEF Crash, StageKnown
<1>4. CASE UNCHANGED <<stage, nextID>>
  BY <1>4 DEF StageKnown
<1>5. \/ \E d \in Player : Accept(d) \/ CloseConn(d)
      \/ \E g \in Gw : Crash(g)
      \/ UNCHANGED <<stage, nextID>>
  BY DEF Next, Start, LinkFails, SendUp, SendFails, RecvDown, SessionOpens, SessionRecv,
         SessionEnds, SendDown, ReadFrame, PushFrame, ReaderDone, WatchdogLeave, RemoveConn,
         Logic, TakeInbound, HandleLogin, HandleMoveReq, SceneRestart, Tick, Drain, SyncState, SyncAll,
         Emit, OtherStep, memory, table, vars
<1> QED BY <1>1, <1>2, <1>3, <1>4, <1>5

LEMMA IdleStep == Alone /\ GInv /\ SceneIdle /\ [Next]_vars => SceneIdle'
<1> SUFFICES ASSUME Alone, GInv, SceneIdle, [Next]_vars, link'[Only] = "none"
             PROVE  inCh' = <<>> /\ wireUp'[Only] = <<>> /\ Joined' = {}
  BY DEF SceneIdle
<1>0. TypeOK /\ Lives /\ Only \in Gw /\ \A g \in Gw : g = Only
  BY DEF GInv, OInv, Alone
<1>1. CASE UNCHANGED <<players, inCh, wireUp, link>>
  BY <1>1 DEF SceneIdle, Joined
<1>2. ASSUME NEW g \in Gw, Start(g) \/ Crash(g) \/ LinkFails(g) PROVE FALSE
  <2>1. g = Only
    BY <1>0
  <2>2. link'[g] # "none"
    BY <1>0, <1>2 DEF Start, Crash, LinkFails, TypeOK
  <2> QED BY <2>1, <2>2
<1>3. ASSUME NEW g \in Gw, SendUp(g) \/ SessionRecv(g) \/ SessionEnds(g) PROVE FALSE
  <2>1. g = Only /\ UNCHANGED link
    BY <1>0, <1>3 DEF SendUp, SessionRecv, SessionEnds
  <2>2. link[g] = "none" /\ handler[g] = "none"
    BY <1>0, <2>1 DEF Lives, HandlerLink
  <2> QED BY <1>3, <2>2 DEF SendUp, SessionRecv, SessionEnds
<1>4. CASE SceneRestart
  BY <1>0, <1>4 DEF SceneRestart, Joined
<1>5. CASE Drain
  <2>1. UNCHANGED link /\ inCh # <<>>
    BY <1>5 DEF Drain, DrainOne, streams
  <2> QED BY <2>1 DEF SceneIdle
<1>6. \/ \E g \in Gw : \/ Start(g) \/ Crash(g) \/ LinkFails(g)
                       \/ SendUp(g) \/ SessionRecv(g) \/ SessionEnds(g)
      \/ SceneRestart \/ Drain
      \/ UNCHANGED <<players, inCh, wireUp, link>>
  <2>1. CASE Tick \/ UNCHANGED vars
    BY <2>1 DEF Tick, SyncState, SyncOne, SyncAll, BroadcastAll, EndTick, Emit,
         OtherStep, TickStart, DrainDone, SyncDone, SkipAll, vars, outside, sceneVars, streams
  <2>2. ASSUME NEW g \in Gw, SendFails(g) \/ RecvDown(g) \/ SessionOpens(g) \/ SendDown(g)
        PROVE  UNCHANGED <<players, inCh, wireUp, link>>
    BY <2>2 DEF SendFails, RecvDown, SessionOpens, SendDown, outside, sceneVars, streams
  <2>3. ASSUME NEW c \in Player,
               \/ Accept(c) \/ CloseConn(c)
               \/ ReadFrame(c) \/ PushFrame(c) \/ ReaderDone(c)
               \/ WatchdogLeave(c) \/ RemoveConn(c)
        PROVE  UNCHANGED <<players, inCh, wireUp, link>>
    BY <2>3 DEF Accept, CloseConn, ReadFrame, PushFrame, ReaderDone, WatchdogLeave,
                RemoveConn, outside, sceneVars, streams
  <2>4. CASE Logic
    BY <2>4 DEF Logic, TakeInbound, HandleLogin, HandleMoveReq, outside, sceneVars, streams
  <2> QED BY <2>1, <2>2, <2>3, <2>4 DEF Next
<1> QED BY <1>1, <1>2, <1>3, <1>4, <1>5, <1>6

LEMMA UInvHolds ==
  ASSUME Alone
  PROVE  Spec => [](GInv /\ UInv)
<1>1. Init => GInv /\ UInv
  BY GInvInit, UInvInit
<1>2. GInv /\ UInv /\ [Next]_vars => GInv' /\ UInv'
  BY GInvStep, StageStep, IdleStep DEF UInv
<1> QED BY <1>1, <1>2, PTL DEF Spec

-----------------------------------------------------------------------------
(* All that may still arrive: one queue for all connections, and what the  *)
(* reader of each of them has in its hands.                                *)

Passing == Input \cup Inbound
Chain(q, w, u, s, b) == (((q \o w) \o u) \o s) \o b
Queued == IF Severed THEN <<>> ELSE (upstream \o Slot(job)) \o inbound
All    == (inCh \o wireUp[Only]) \o Queued
Tip(c) == IF Severed THEN <<>> ELSE Asks(c, Held(c))

LEMMA PassingAsks == Asking(Passing)
BY DEF Asking, Passing, Input, Inbound, Request, Asked

LEMMA QueueTypes ==
  ASSUME TypeOK, Alone
  PROVE  /\ inCh \in Seq(Passing) /\ wireUp[Only] \in Seq(Passing)
         /\ upstream \in Seq(Passing) /\ inbound \in Seq(Passing)
         /\ Slot(job) \in Seq(Passing) /\ Slot(Nil) = <<>>
         /\ job # Nil => Slot(job) = <<job>>
<1>1. /\ inCh \in Seq(Input) /\ wireUp[Only] \in Seq(Input) /\ upstream \in Seq(Input)
      /\ inbound \in Seq(Inbound)
  BY DEF TypeOK, SceneTypeOK, Alone
<1>2. /\ inCh \in Seq(Passing) /\ wireUp[Only] \in Seq(Passing)
      /\ upstream \in Seq(Passing) /\ inbound \in Seq(Passing)
  BY <1>1, SeqMonotonic DEF Passing
<1>3. Slot(job) \in Seq(Passing)
  <2>1. CASE job = Nil
    BY <2>1 DEF Slot
  <2>2. CASE job # Nil
    <3>1. job \in Passing
      BY <2>2 DEF TypeOK, Passing
    <3> QED BY <2>2, <3>1 DEF Slot
  <2> QED BY <2>1, <2>2
<1> QED BY <1>2, <1>3 DEF Slot

LEMMA QueueTypesNext ==
  ASSUME TypeOK', Alone
  PROVE  /\ inCh' \in Seq(Passing) /\ wireUp'[Only] \in Seq(Passing)
         /\ upstream' \in Seq(Passing) /\ inbound' \in Seq(Passing)
         /\ Slot(job') \in Seq(Passing)
<1>1. /\ inCh' \in Seq(Input) /\ wireUp'[Only] \in Seq(Input) /\ upstream' \in Seq(Input)
      /\ inbound' \in Seq(Inbound) /\ job' \in Inbound \cup {Nil}
  BY DEF TypeOK, SceneTypeOK, Alone
<1>2. Slot(job') \in Seq(Passing)
  <2>1. CASE job' = Nil
    BY <2>1 DEF Slot
  <2>2. CASE job' # Nil
    <3>1. job' \in Passing
      BY <1>1, <2>2 DEF Passing
    <3> QED BY <2>2, <3>1 DEF Slot
  <2> QED BY <2>1, <2>2
<1>3. inCh' \in Seq(Passing) /\ upstream' \in Seq(Passing)
  BY <1>1, SeqMonotonic DEF Passing
<1>4. wireUp'[Only] \in Seq(Passing)
  BY <1>1, SeqMonotonic DEF Passing
<1>5. inbound' \in Seq(Passing)
  BY <1>1, SeqMonotonic DEF Passing
<1> QED BY <1>2, <1>3, <1>4, <1>5

\* A frame in a reader's hands is a frame like those in inbound.
InHand == Request \cup {Nil, "dropped"}
Carried(c, h) == IF h \in Request THEN <<[id |-> c, kind |-> h]>> ELSE <<>>

LEMMA Carrying ==
  ASSUME NEW c, NEW d \in Player, NEW h \in InHand
  PROVE  /\ Carried(d, h) \in Seq(Passing)
         /\ h \in Request => /\ [id |-> d, kind |-> h] \in Inbound
                             /\ Asks(c, Carried(d, h)) = Ask(c, [id |-> d, kind |-> h])
         /\ h \notin Request => Asks(c, Carried(d, h)) = <<>>
<1>1. CASE h \notin Request
  BY <1>1, AsksEmpty DEF Carried
<1>2. CASE h \in Request
  <2>1. PICK x \in Inbound : x = [id |-> d, kind |-> h]
    BY <1>2 DEF Inbound
  <2>2. x \in Passing /\ Carried(d, h) = <<x>>
    BY <1>2, <2>1 DEF Carried, Passing
  <2>3. Asks(c, <<x>>) = Ask(c, x)
    BY <2>2, PassingAsks, AsksSingle
  <2> QED BY <1>2, <2>1, <2>2, <2>3
<1> QED BY <1>1, <1>2

LEMMA TipCarried ==
  ASSUME NEW c \in Player
  PROVE  /\ Held(c)  = Carried(c, held[c])
         /\ Held(c)' = Carried(c, held'[c])
         /\ ~ Severed  => Tip(c)  = Asks(c, Carried(c, held[c]))
         /\ ~ Severed' => Tip(c)' = Asks(c, Carried(c, held'[c]))
         /\ Severed  => Tip(c)  = <<>>
         /\ Severed' => Tip(c)' = <<>>
<1>1. Held(c) = Carried(c, held[c]) /\ Held(c)' = Carried(c, held'[c])
  BY DEF Held, Carried
<1>2. Tip(c)' = IF Severed' THEN <<>> ELSE Asks(c, Held(c)')
  BY Zenon DEF Tip
<1> QED BY <1>1, <1>2 DEF Tip

LEMMA HandType == TypeOK => \A c \in Player : held[c] \in InHand
BY DEF TypeOK, InHand

LEMMA HandTypeNext == TypeOK' => \A c \in Player : held'[c] \in InHand
BY DEF TypeOK, InHand

LEMMA ChainType ==
  ASSUME NEW q \in Seq(Passing), NEW w \in Seq(Passing), NEW u \in Seq(Passing),
         NEW s \in Seq(Passing), NEW b \in Seq(Passing)
  PROVE  Chain(q, w, u, s, b) \in Seq(Passing)
BY ConcatProperties DEF Chain

ChainOf(x, q, w, u, s, b) ==
  x = (u \o s) \o b => (q \o w) \o x = Chain(q, w, u, s, b)

LEMMA ChainRegroups ==
  ASSUME NEW q \in Seq(Passing), NEW w \in Seq(Passing), NEW u \in Seq(Passing),
         NEW s \in Seq(Passing), NEW b \in Seq(Passing)
  PROVE  \A x : ChainOf(x, q, w, u, s, b)
<1>1. PICK p \in Seq(Passing) : p = q \o w
  BY ConcatProperties
<1>2. Regrouped(p, u, s, b)
  BY FourQueues
<1> QED BY <1>1, <1>2, Zenon DEF Regrouped, Chain, ChainOf

\* As long as the stream is not broken.
LEMMA AllOpen ==
  ASSUME TypeOK, Alone, ~ Severed
  PROVE  All = Chain(inCh, wireUp[Only], upstream, Slot(job), inbound)
<1>1. Queued = (upstream \o Slot(job)) \o inbound
  BY Zenon DEF Queued
<1>2. ChainOf(Queued, inCh, wireUp[Only], upstream, Slot(job), inbound)
  BY QueueTypes, ChainRegroups
<1> QED BY <1>1, <1>2, Zenon DEF All, ChainOf

LEMMA AllOpenNext ==
  ASSUME TypeOK', Alone, ~ Severed'
  PROVE  All' = Chain(inCh', wireUp'[Only], upstream', Slot(job'), inbound')
<1>1. Queued' = (upstream' \o Slot(job')) \o inbound'
  BY Zenon DEF Queued, Slot
<1>2. ChainOf(Queued', inCh', wireUp'[Only], upstream', Slot(job'), inbound')
  BY QueueTypesNext, ChainRegroups
<1>3. All' = (inCh' \o wireUp'[Only]) \o Queued'
  BY Zenon DEF All
<1> QED BY <1>1, <1>2, <1>3, Zenon DEF ChainOf

LEMMA AllType ==
  ASSUME TypeOK, Alone
  PROVE  /\ Queued \in Seq(Passing) /\ inCh \o wireUp[Only] \in Seq(Passing)
         /\ All \in Seq(Passing)
<1>1. (upstream \o Slot(job)) \o inbound \in Seq(Passing)
  BY QueueTypes, ConcatProperties
<1>2. Queued \in Seq(Passing)
  <2>1. CASE Severed
    BY <2>1 DEF Queued
  <2>2. CASE ~ Severed
    <3>1. Queued = (upstream \o Slot(job)) \o inbound
      BY <2>2, Zenon DEF Queued
    <3> QED BY <1>1, <3>1
  <2> QED BY <2>1, <2>2
<1>3. inCh \o wireUp[Only] \in Seq(Passing)
  BY QueueTypes, ConcatProperties
<1>4. All \in Seq(Passing)
  BY <1>2, <1>3, ConcatProperties DEF All
<1> QED BY <1>2, <1>3, <1>4

LEMMA AllTypeNext ==
  ASSUME TypeOK', Alone
  PROVE  /\ Queued' \in Seq(Passing) /\ inCh' \o wireUp'[Only] \in Seq(Passing)
         /\ All' \in Seq(Passing)
<1>1. (upstream' \o Slot(job')) \o inbound' \in Seq(Passing)
  BY QueueTypesNext, ConcatProperties
<1>2. Queued' \in Seq(Passing)
  <2>1. CASE Severed'
    BY <2>1 DEF Queued
  <2>2. CASE ~ Severed'
    <3>1. Queued' = (upstream' \o Slot(job')) \o inbound'
      BY <2>2, Zenon DEF Queued, Slot
    <3> QED BY <1>1, <3>1
  <2> QED BY <2>1, <2>2
<1>3. inCh' \o wireUp'[Only] \in Seq(Passing)
  BY QueueTypesNext, ConcatProperties
<1>4. All' = (inCh' \o wireUp'[Only]) \o Queued'
  BY Zenon DEF All
<1>5. All' \in Seq(Passing)
  BY <1>2, <1>3, <1>4, ConcatProperties
<1> QED BY <1>2, <1>3, <1>5

\* The way of a connection is what the queues hold of it, and then what its
\* reader holds.
TipLast(c, p, m, h) == Asks(c, p \o (m \o h)) = Asks(c, p \o m) \o Asks(c, h)

LEMMA TipsLast ==
  ASSUME NEW c, NEW p \in Seq(Passing), NEW m \in Seq(Passing), NEW h \in Seq(Passing)
  PROVE  TipLast(c, p, m, h)
<1>1. (p \o m) \o h = p \o (m \o h)
  BY QueuesAssociate
<1>2. PICK r \in Seq(Passing) : r = p \o m
  BY ConcatProperties
<1>3. Asks(c, r \o h) = Asks(c, r) \o Asks(c, h)
  BY PassingAsks, AsksConcat
<1> QED BY ONLY <1>1, <1>2, <1>3 DEF TipLast

LEMMA WayIsAll ==
  ASSUME TypeOK, Alone, NEW c \in Player
  PROVE  /\ WayOf(c) = Asks(c, All) \o Tip(c)
         /\ Asks(c, All) \in Seq(Asked) /\ Tip(c) \in Seq(Asked)
<1>1. PICK p \in Seq(Passing), m \in Seq(Passing), h \in Seq(Passing) :
        p = inCh \o wireUp[Only] /\ m = Queued /\ h = Carried(c, held[c])
  BY AllType, HandType, Carrying
<1>2. All = p \o m /\ Asks(c, All) \in Seq(Asked) /\ Asks(c, h) \in Seq(Asked)
  <2>1. All = p \o m
    BY <1>1, Zenon DEF All
  <2> QED BY <2>1, AllType, PassingAsks, AsksType
<1>3. CASE Severed
  <2>1. Beyond(c) = <<>> /\ Queued = <<>> /\ Tip(c) = <<>>
    BY <1>3 DEF Beyond, Queued, Tip
  <2>2. WayOf(c) = Asks(c, All)
    BY <2>1, Zenon DEF WayOf, All
  <2> QED BY <1>2, <2>1, <2>2, ConcatEmptySeq
<1>4. CASE ~ Severed
  <2>1. Beyond(c) = ((upstream \o Slot(job)) \o inbound) \o Held(c)
    BY <1>4, Zenon DEF Beyond
  <2>2. Queued = (upstream \o Slot(job)) \o inbound
    BY <1>4, Zenon DEF Queued
  <2>3. Held(c) = h /\ Tip(c) = Asks(c, h)
    BY <1>1, <1>4, TipCarried
  <2>4. WayOf(c) = Asks(c, p \o (m \o h))
    <3>1. WayOf(c) = Asks(c, (inCh \o wireUp[Only]) \o Beyond(c))
      BY Zenon DEF WayOf
    <3> QED BY ONLY <1>1, <2>1, <2>2, <2>3, <3>1
  <2>5. TipLast(c, p, m, h)
    BY TipsLast
  <2> QED BY ONLY <1>2, <2>3, <2>4, <2>5 DEF TipLast
<1> QED BY <1>3, <1>4

LEMMA WayIsAllNext ==
  ASSUME TypeOK', Alone, NEW c \in Player
  PROVE  /\ WayOf(c)' = Asks(c, All') \o Tip(c)'
         /\ Asks(c, All') \in Seq(Asked) /\ Tip(c)' \in Seq(Asked)
<1>1. PICK p \in Seq(Passing), m \in Seq(Passing), h \in Seq(Passing) :
        p = inCh' \o wireUp'[Only] /\ m = Queued' /\ h = Carried(c, held'[c])
  BY AllTypeNext, HandTypeNext, Carrying
<1>2. All' = p \o m /\ Asks(c, All') \in Seq(Asked) /\ Asks(c, h) \in Seq(Asked)
  <2>1. All' = p \o m
    BY <1>1, Zenon DEF All
  <2> QED BY <2>1, AllTypeNext, PassingAsks, AsksType
<1>3. CASE Severed'
  <2>1. Beyond(c)' = <<>> /\ Queued' = <<>> /\ Tip(c)' = <<>>
    BY <1>3 DEF Beyond, Queued, Tip
  <2>2. WayOf(c)' = Asks(c, All')
    BY <2>1, Zenon DEF WayOf, All
  <2> QED BY <1>2, <2>1, <2>2, ConcatEmptySeq
<1>4. CASE ~ Severed'
  <2>1. Beyond(c)' = ((upstream' \o Slot(job')) \o inbound') \o Held(c)'
    BY <1>4, Zenon DEF Beyond, Slot
  <2>2. Queued' = (upstream' \o Slot(job')) \o inbound'
    BY <1>4, Zenon DEF Queued, Slot
  <2>3. Held(c)' = h /\ Tip(c)' = Asks(c, h)
    BY <1>1, <1>4, TipCarried
  <2>4. WayOf(c)' = Asks(c, p \o (m \o h))
    <3>1. WayOf(c)' = Asks(c, (inCh' \o wireUp'[Only]) \o Beyond(c)')
      BY Zenon DEF WayOf
    <3> QED BY ONLY <1>1, <2>1, <2>2, <2>3, <3>1
  <2>5. TipLast(c, p, m, h)
    BY TipsLast
  <2> QED BY ONLY <1>2, <2>3, <2>4, <2>5 DEF TipLast
<1> QED BY <1>3, <1>4

\* The head of a queue goes to the end of the one in front of it.
LEMMA ChainSendUp ==
  ASSUME NEW q \in Seq(Passing), NEW w \in Seq(Passing), NEW u \in Seq(Passing),
         u # <<>>, NEW s, NEW b
  PROVE  Chain(q, Append(w, Head(u)), Tail(u), s, b) = Chain(q, w, u, s, b)
<1>1. PICK h \in Passing, t \in Seq(Passing) : h = Head(u) /\ t = Tail(u)
  BY HeadTailProperties
<1>2. PICK p \in Seq(Passing) : p = q \o w
  BY ConcatProperties
<1>3. q \o Append(w, h) = Append(p, h)
  BY <1>2, JoinedQueues
<1>4. Append(p, Head(u)) \o Tail(u) = p \o u
  BY JoinedQueues
<1>5. (q \o Append(w, Head(u))) \o Tail(u) = (q \o w) \o u
  BY <1>1, <1>2, <1>3, <1>4
<1> QED BY <1>5, Zenon DEF Chain

LEMMA ChainTake ==
  ASSUME NEW q \in Seq(Passing), NEW w \in Seq(Passing), NEW u \in Seq(Passing),
         NEW b \in Seq(Passing), b # <<>>
  PROVE  Chain(q, w, u, <<Head(b)>>, Tail(b)) = Chain(q, w, u, <<>>, b)
<1>1. PICK h \in Passing, t \in Seq(Passing) : h = Head(b) /\ t = Tail(b)
  BY HeadTailProperties
<1>2. PICK p \in Seq(Passing) : p = (q \o w) \o u
  BY ConcatProperties
<1>3. p \o <<>> = p /\ p \o <<h>> = Append(p, h)
  BY ConcatEmptySeq, AppendIsConcat
<1>4. Append(p, Head(b)) \o Tail(b) = p \o b
  <2>1. PICK r \in Seq(Passing) : r = b
    OBVIOUS
  <2>2. Append(p, Head(r)) \o Tail(r) = p \o r
    BY ONLY p \in Seq(Passing), r \in Seq(Passing), r = b, b # <<>>, JoinedQueues
  <2> QED BY ONLY <2>1, <2>2
<1>5. (p \o <<Head(b)>>) \o Tail(b) = (p \o <<>>) \o b
  BY ONLY <1>1, <1>3, <1>4
<1> QED BY ONLY <1>2, <1>5, Zenon DEF Chain

\* An event made of a frame is where the frame was.
LEMMA ChainHandle ==
  ASSUME NEW c \in Player, NEW q \in Seq(Passing), NEW w \in Seq(Passing),
         NEW u \in Seq(Passing), NEW b \in Seq(Passing),
         NEW j \in Inbound, NEW in \in Input,
         in.id = j.id, in.kind = IF j.kind = "login" THEN "join" ELSE j.kind
  PROVE  Asks(c, Chain(q, w, Append(u, in), <<>>, b)) = Asks(c, Chain(q, w, u, <<j>>, b))
<1>1. in \in Passing /\ j \in Passing
  BY DEF Passing
<1>2. PICK p \in Seq(Passing), h \in Seq(Passing) : p = q \o w /\ h = (q \o w) \o u
  BY ConcatProperties
<1>3. p \o Append(u, in) = Append(h, in) /\ h \o <<j>> = Append(h, j)
  BY <1>1, <1>2, JoinedQueues, AppendIsConcat
<1>4. Append(h, in) \in Seq(Passing) /\ Append(h, j) \in Seq(Passing)
  BY <1>1
<1>5. Append(h, in) \o <<>> = Append(h, in)
  BY <1>4, ConcatEmptySeq
<1>6. /\ Chain(q, w, Append(u, in), <<>>, b) = Append(h, in) \o b
      /\ Chain(q, w, u, <<j>>, b) = Append(h, j) \o b
  BY <1>2, <1>3, <1>5, Zenon DEF Chain
<1>7. Ask(c, in) = Ask(c, j)
  <2>1. in.kind # "login" /\ in.kind # "spectate" /\ j.kind # "spectate"
    BY DEF Input, Inbound
  <2> QED BY <2>1 DEF Ask
<1>8. /\ Asks(c, Append(h, in)) = Asks(c, h) \o Ask(c, in)
      /\ Asks(c, Append(h, j)) = Asks(c, h) \o Ask(c, j)
  BY <1>1, AsksAppend
<1>9. /\ Asks(c, Append(h, in) \o b) = Asks(c, Append(h, in)) \o Asks(c, b)
      /\ Asks(c, Append(h, j) \o b) = Asks(c, Append(h, j)) \o Asks(c, b)
  BY <1>4, PassingAsks, AsksConcat
<1> QED BY ONLY <1>6, <1>7, <1>8, <1>9

-----------------------------------------------------------------------------
(* The steps of Session as steps of Uplink.                                *)

Ways      == [c \in Player |-> WayOf(c)]
Spoken    == IF Severed THEN {} ELSE loggedIn
Ended     == IF Severed THEN {} ELSE { c \in Player : stage[c] = "closed" }
Gone      == IF Severed THEN {} ELSE { c \in Player : watchdog[c] \in {"remove", "end"} }
Lost      == IF Severed THEN {} ELSE { c \in Player : held[c] = "dropped" }
Overtaken == IF Severed THEN {} ELSE raced

LEMMA Stutters ==
  ASSUME \A c \in Player : WayOf(c)' = WayOf(c),
         UNCHANGED <<Spoken, Ended, Gone, Lost, Joined, Overtaken, Severed>>
  PROVE  [UplinkOf!Next]_(UplinkOf!vars)
<1>1. Ways' = Ways
  BY DEF Ways
<1> QED BY <1>1 DEF UplinkOf!vars, Ways, Spoken, Ended, Gone, Lost, Overtaken

\* Only the way of d changes.
LEMMA OneWay ==
  ASSUME NEW d \in Player, \A c \in Player \ {d} : WayOf(c)' = WayOf(c)
  PROVE  Ways' = [Ways EXCEPT ![d] = WayOf(d)'] /\ Ways[d] = WayOf(d)
BY DEF Ways

LEMMA SameAll ==
  ASSUME TypeOK, TypeOK', Alone, All' = All, UNCHANGED <<held, link>>
  PROVE  \A c \in Player : WayOf(c)' = WayOf(c)
<1> SUFFICES ASSUME NEW c \in Player PROVE WayOf(c)' = WayOf(c)
  OBVIOUS
<1>1. Tip(c)' = Tip(c)
  BY DEF Tip, Held, Severed
<1>2. /\ WayOf(c) = Asks(c, All) \o Tip(c)
      /\ WayOf(c)' = Asks(c, All') \o Tip(c)'
  BY WayIsAll, WayIsAllNext
<1> QED BY <1>1, <1>2

LEMMA SameWay ==
  ASSUME UNCHANGED <<inCh, wireUp, upstream, job, inbound, link>>,
         NEW c \in Player, held'[c] = held[c]
  PROVE  WayOf(c)' = WayOf(c)
BY DEF WayOf, Beyond, Held, Slot, Severed

\* Once the stream is broken, it only matters what the scene already has.
LEMMA SeveredStep ==
  ASSUME Severed, Severed', UNCHANGED <<players, inCh, wireUp>>
  PROVE  [UplinkOf!Next]_(UplinkOf!vars)
<1>1. \A c \in Player : WayOf(c)' = WayOf(c)
  BY DEF WayOf, Beyond
<1>2. UNCHANGED <<Spoken, Ended, Gone, Lost, Joined, Overtaken, Severed>>
  BY DEF Spoken, Ended, Gone, Lost, Joined, Overtaken
<1> QED BY <1>1, <1>2, Stutters

\* Steps that move what is on its way, no more.
LEMMA MovingStutters ==
  ASSUME TypeOK, TypeOK', Alone, All' = All,
         UNCHANGED <<players, held, loggedIn, stage, watchdog, raced, link>>
  PROVE  [UplinkOf!Next]_(UplinkOf!vars)
<1>1. UNCHANGED <<Spoken, Ended, Gone, Lost, Joined, Overtaken, Severed>>
  BY DEF Spoken, Ended, Gone, Lost, Joined, Overtaken, Severed
<1> QED BY <1>1, SameAll, Stutters

\* A stream that breaks, and what ends with it, keep what comes first.
LEMMA PrefixOfWhole ==
  ASSUME NEW S, NEW u \in Seq(S), NEW v \in Seq(S)
  PROVE  UplinkOf!IsPrefix(u, u \o v)
<1> DEFINE w == u \o v
<1>1. /\ w \in Seq(S) /\ Len(u) \in Nat /\ Len(u) <= Len(w)
      /\ \A j \in 1 .. Len(u) : w[j] = u[j]
  OBVIOUS
<1> HIDE DEF w
<1>2. SubSeq(w, 1, Len(u)) = SubSeq(u, 1, Len(u))
  <2> DEFINE s == SubSeq(w, 1, Len(u))
             t == SubSeq(u, 1, Len(u))
  <2>1. /\ s \in Seq(S) /\ Len(s) = Len(u) /\ \A j \in 1 .. Len(u) : s[j] = u[j]
        /\ t \in Seq(S) /\ Len(t) = Len(u) /\ \A j \in 1 .. Len(u) : t[j] = u[j]
    BY <1>1
  <2> HIDE DEF s, t
  <2>2. s = t
    BY <2>1, SeqEqual
  <2> QED BY <2>2 DEF s, t
<1> QED BY <1>1, <1>2 DEF UplinkOf!IsPrefix, w

LEMMA Cutting ==
  ASSUME TypeOK, Alone, NEW p \in Seq(Passing), NEW r \in Seq(Passing),
         All = p \o r, inCh' \o wireUp'[Only] = p, Severed', Joined' \subseteq Joined
  PROVE  [UplinkOf!Next]_(UplinkOf!vars)
<1>1. ASSUME NEW c \in Player PROVE UplinkOf!IsPrefix(WayOf(c)', WayOf(c))
  <2>1. PICK u \in Seq(Asked), v \in Seq(Asked), t \in Seq(Asked) :
          u = Asks(c, p) /\ v = Asks(c, r) /\ t = Tip(c)
    BY PassingAsks, AsksType, WayIsAll
  <2>2. Asks(c, p \o r) = u \o v
    BY <2>1, PassingAsks, AsksConcat
  <2>3. WayOf(c) = (u \o v) \o t
    <3>1. WayOf(c) = Asks(c, All) \o t
      BY <2>1, WayIsAll
    <3> QED BY <2>2, <3>1
  <2>4. WayOf(c)' = u
    <3>1. WayOf(c)' = Asks(c, p \o <<>>)
      BY DEF WayOf, Beyond
    <3> QED BY <2>1, <3>1, ConcatEmptySeq
  <2>5. PICK x \in Seq(Asked) : x = v \o t
    BY ConcatProperties
  <2>6. WayOf(c) = u \o x
    <3>1. (u \o v) \o t = u \o (v \o t)
      BY QueuesAssociate
    <3> QED BY ONLY <2>3, <2>5, <3>1
  <2>7. UplinkOf!IsPrefix(u, u \o x)
    BY PrefixOfWhole
  <2> QED BY <2>4, <2>6, <2>7
<1>2. \A c \in Player : UplinkOf!IsPrefix(Ways'[c], Ways[c])
  BY <1>1 DEF Ways
<1>3. UplinkOf!Cut
  BY <1>2 DEF UplinkOf!Cut, Ways, Spoken, Ended, Gone, Lost, Overtaken
<1> QED BY <1>3 DEF UplinkOf!Next

LEMMA BreakingCuts ==
  ASSUME TypeOK, Alone, Severed', UNCHANGED <<players, inCh, wireUp>>
  PROVE  [UplinkOf!Next]_(UplinkOf!vars)
<1>1. PICK p \in Seq(Passing), r \in Seq(Passing) : p = inCh \o wireUp[Only] /\ r = Queued
  BY AllType
<1>2. All = p \o r /\ inCh' \o wireUp'[Only] = p
  BY <1>1 DEF All
<1>3. Joined' = Joined
  BY DEF Joined
<1> QED BY <1>2, <1>3, Cutting

LEMMA EndingCuts ==
  ASSUME TypeOK, Alone, SessionEnds(Only)
  PROVE  [UplinkOf!Next]_(UplinkOf!vars)
<1>1. /\ UNCHANGED <<players, inCh, link>> /\ link[Only] = "broken"
      /\ wireUp'[Only] = <<>>
  BY DEF SessionEnds, sceneVars, TypeOK, Alone
<1>2. PICK q \in Seq(Passing), w \in Seq(Passing), r \in Seq(Passing) :
        q = inCh /\ w = wireUp[Only] /\ r = Queued
  BY AllType, QueueTypes
<1>3. Severed'
  BY <1>1 DEF Severed
<1>4. PICK x \in Seq(Passing) : x = w \o r
  BY ConcatProperties
<1>5. All = q \o x
  <2>1. (q \o w) \o r = q \o (w \o r)
    BY ONLY q \in Seq(Passing), w \in Seq(Passing), r \in Seq(Passing), QueuesAssociate
  <2>2. All = (q \o w) \o r
    BY <1>2, Zenon DEF All
  <2> QED BY ONLY <1>4, <2>1, <2>2
<1>6. inCh' \o wireUp'[Only] = q
  BY <1>1, <1>2, ConcatEmptySeq
<1>7. Joined' = Joined
  BY <1>1 DEF Joined
<1> QED BY <1>3, <1>5, <1>6, <1>7, Cutting

LEMMA RestartingCuts ==
  ASSUME GInv, SceneIdle, Alone, SceneRestart
  PROVE  [UplinkOf!Next]_(UplinkOf!vars)
<1>0. TypeOK /\ TypeOK' /\ Only \in Gw
  BY RestartType DEF GInv, OInv, Alone
<1>1. /\ inCh' = <<>> /\ wireUp'[Only] = <<>> /\ Joined' = {}
      /\ link'[Only] = IF link[Only] = "ok" THEN "broken" ELSE link[Only]
      /\ UNCHANGED <<loggedIn, stage, watchdog, raced, upstream, job, inbound, held>>
  BY <1>0 DEF SceneRestart, Joined, memory, table, pipe
<1>2. CASE link[Only] = "none"
  <2>1. inCh = <<>> /\ wireUp[Only] = <<>> /\ Joined = {}
    BY <1>2 DEF SceneIdle
  <2>2. ~ Severed /\ ~ Severed'
    BY <1>1, <1>2 DEF Severed
  <2>3. \A c \in Player : Beyond(c)' = Beyond(c)
    BY <1>1, <2>2 DEF Beyond, Slot, Held
  <2>4. \A c \in Player : WayOf(c)' = WayOf(c)
    BY <1>1, <2>1, <2>3 DEF WayOf
  <2>5. UNCHANGED <<Spoken, Ended, Gone, Lost, Overtaken>>
    BY <1>1, <2>2 DEF Spoken, Ended, Gone, Lost, Overtaken
  <2>6. UNCHANGED <<Joined, Severed>>
    BY <1>1, <1>2, <2>1 DEF Severed
  <2> QED BY <2>4, <2>5, <2>6, Stutters
<1>3. CASE link[Only] # "none"
  <2>1. Severed'
    BY <1>0, <1>1, <1>3 DEF Severed, TypeOK
  <2>2. PICK r \in Seq(Passing) : r = All
    BY <1>0, AllType
  <2>3. inCh' \o wireUp'[Only] = <<>>
    BY <1>1
  <2>4. <<>> \in Seq(Passing) /\ All = <<>> \o r
    BY <2>2, ConcatEmptySeq
  <2> QED BY <1>0, <1>1, <2>1, <2>3, <2>4, Cutting
<1> QED BY <1>2, <1>3

LEMMA SendingMoves ==
  ASSUME GInv, Alone, SendUp(Only)
  PROVE  [UplinkOf!Next]_(UplinkOf!vars)
<1>0. TypeOK /\ TypeOK'
  BY TypeStep DEF GInv, OInv, Next, Alone
<1>1. /\ UNCHANGED <<players, inCh, held, loggedIn, stage, watchdog, raced, link, job,
                      inbound>>
      /\ link[Only] = "ok" /\ upstream # <<>> /\ upstream' = Tail(upstream)
      /\ wireUp'[Only] = Append(wireUp[Only], Head(upstream))
  BY <1>0 DEF SendUp, sceneVars, table, pipe, TypeOK, Alone
<1>2. ~ Severed /\ ~ Severed'
  BY <1>1 DEF Severed
<1>3. Chain(inCh, Append(wireUp[Only], Head(upstream)), Tail(upstream), Slot(job), inbound)
        = Chain(inCh, wireUp[Only], upstream, Slot(job), inbound)
  BY <1>0, <1>1, QueueTypes, ChainSendUp
<1>4. Slot(job') = Slot(job)
  BY <1>1
<1>5. All = Chain(inCh, wireUp[Only], upstream, Slot(job), inbound)
  BY <1>0, <1>2, AllOpen
<1>6. All' = Chain(inCh', wireUp'[Only], upstream', Slot(job'), inbound')
  BY <1>0, <1>2, AllOpenNext
<1>7. All' = All
  BY <1>1, <1>3, <1>4, <1>5, <1>6, Zenon
<1> QED BY <1>0, <1>1, <1>7, MovingStutters

LEMMA ReceivingMoves ==
  ASSUME TypeOK, TypeOK', Alone, SessionRecv(Only)
  PROVE  [UplinkOf!Next]_(UplinkOf!vars)
<1>1. /\ UNCHANGED <<players, held, loggedIn, stage, watchdog, raced, link, upstream, job,
                      inbound>>
      /\ wireUp[Only] # <<>> /\ wireUp'[Only] = Tail(wireUp[Only])
      /\ inCh' = Append(inCh, Head(wireUp[Only]))
  BY DEF SessionRecv, Forward, Send, memory, table, pipe, TypeOK, Alone
<1>2. PICK w \in Seq(Passing), q \in Seq(Passing) : w = wireUp[Only] /\ q = inCh
  BY QueueTypes
<1>3. Append(q, Head(w)) \o Tail(w) = q \o w
  <2>1. w # <<>>
    BY <1>1, <1>2
  <2> QED BY ONLY q \in Seq(Passing), w \in Seq(Passing), <2>1, JoinedQueues
<1>4. Queued' = Queued
  BY <1>1 DEF Queued, Slot, Severed
<1>5. All' = All
  BY <1>1, <1>2, <1>3, <1>4, Zenon DEF All
<1> QED BY <1>1, <1>5, MovingStutters

LEMMA TakingMoves ==
  ASSUME TypeOK, TypeOK', Alone, TakeInbound
  PROVE  [UplinkOf!Next]_(UplinkOf!vars)
<1>1. /\ UNCHANGED <<players, inCh, wireUp, held, loggedIn, stage, watchdog, raced, link,
                      upstream>>
      /\ job = Nil /\ inbound # <<>> /\ job' = Head(inbound) /\ inbound' = Tail(inbound)
  BY DEF TakeInbound, outside, sceneVars, streams, table
<1>2. CASE Severed
  BY <1>1, <1>2, SeveredStep DEF Severed
<1>3. CASE ~ Severed
  <2>1. ~ Severed'
    BY <1>1, <1>3 DEF Severed
  <2>2. Chain(inCh, wireUp[Only], upstream, <<Head(inbound)>>, Tail(inbound))
          = Chain(inCh, wireUp[Only], upstream, <<>>, inbound)
    BY <1>1, QueueTypes, ChainTake
  <2>3. Slot(job) = <<>> /\ Slot(job') = <<Head(inbound)>>
    <3>1. inbound \in Seq(Inbound)
      BY DEF TypeOK
    <3>2. Head(inbound) \in Inbound
      BY <1>1, <3>1
    <3>3. Head(inbound) # Nil
      BY <3>2, SessionAssumption
    <3> QED BY <1>1, <3>3 DEF Slot
  <2>4. All = Chain(inCh, wireUp[Only], upstream, Slot(job), inbound)
    BY <1>3, AllOpen
  <2>5. All' = Chain(inCh', wireUp'[Only], upstream', Slot(job'), inbound')
    BY <2>1, AllOpenNext
  <2>6. All' = All
    BY <1>1, <2>2, <2>3, <2>4, <2>5, Zenon
  <2> QED BY <1>1, <2>6, MovingStutters
<1> QED BY <1>2, <1>3

LEMMA HandlingMoves ==
  ASSUME TypeOK, TypeOK', Alone, HandleLogin \/ HandleMoveReq
  PROVE  [UplinkOf!Next]_(UplinkOf!vars)
<1>1. /\ UNCHANGED <<players, inCh, wireUp, held, loggedIn, stage, watchdog, raced, link,
                      inbound>>
      /\ job \in Inbound /\ job' = Nil
  BY DEF HandleLogin, HandleMoveReq, outside, sceneVars, streams, table, TypeOK
<1>2. PICK in \in Input :
        /\ upstream' = Append(upstream, in) /\ in.id = job.id
        /\ in.kind = IF job.kind = "login" THEN "join" ELSE job.kind
  <2>1. job.id \in Player
    BY <1>1 DEF Inbound
  <2>2. CASE HandleLogin
    BY <2>1, <2>2, Inputs DEF HandleLogin, UpJoin, Upstream
  <2>3. CASE HandleMoveReq
    <3>1. PICK pos \in Pos : Upstream([kind |-> "move", id |-> job.id, pos |-> pos])
      BY <2>3 DEF HandleMoveReq
    <3> QED BY <2>1, <2>3, <3>1, Inputs DEF HandleMoveReq, Upstream
  <2> QED BY <2>2, <2>3
<1>3. CASE Severed
  BY <1>1, <1>3, SeveredStep DEF Severed
<1>4. CASE ~ Severed
  <2>1. ~ Severed'
    BY <1>1, <1>4 DEF Severed
  <2>2. \A c \in Player :
          Asks(c, Chain(inCh, wireUp[Only], Append(upstream, in), <<>>, inbound))
            = Asks(c, Chain(inCh, wireUp[Only], upstream, <<job>>, inbound))
    BY <1>1, <1>2, QueueTypes, ChainHandle
  <2>3. Slot(job) = <<job>> /\ Slot(job') = <<>>
    <3>1. job # Nil
      BY <1>1, SessionAssumption
    <3> QED BY <1>1, <3>1 DEF Slot
  <2>4. All = Chain(inCh, wireUp[Only], upstream, Slot(job), inbound)
    BY <1>4, AllOpen
  <2>5. All' = Chain(inCh', wireUp'[Only], upstream', Slot(job'), inbound')
    BY <2>1, AllOpenNext
  <2>6. All' = Chain(inCh, wireUp[Only], Append(upstream, in), <<>>, inbound)
    BY <1>1, <1>2, <2>3, <2>5, Zenon
  <2>7. ASSUME NEW c \in Player PROVE WayOf(c)' = WayOf(c)
    <3>1. Tip(c)' = Tip(c)
      BY <1>1 DEF Tip, Held, Severed
    <3>2. Asks(c, All') = Asks(c, All)
      BY <2>2, <2>3, <2>4, <2>6
    <3>3. WayOf(c) = Asks(c, All) \o Tip(c) /\ WayOf(c)' = Asks(c, All') \o Tip(c)'
      BY WayIsAll, WayIsAllNext
    <3> QED BY <3>1, <3>2, <3>3
  <2>8. UNCHANGED <<Spoken, Ended, Gone, Lost, Joined, Overtaken, Severed>>
    BY <1>1 DEF Spoken, Ended, Gone, Lost, Joined, Overtaken, Severed
  <2> QED BY <2>7, <2>8, Stutters
<1> QED BY <1>3, <1>4

LEMMA ClosingEnds ==
  ASSUME TypeOK, NEW d \in Player, CloseConn(d)
  PROVE  [UplinkOf!Next]_(UplinkOf!vars)
<1>1. /\ UNCHANGED <<players, inCh, wireUp, upstream, job, inbound, link, held,
                      loggedIn, watchdog, raced>>
      /\ stage[d] = "up" /\ stage' = [stage EXCEPT ![d] = "closed"]
  BY DEF CloseConn, outside, sceneVars, streams, pipe
<1>2. CASE Severed
  BY <1>1, <1>2, SeveredStep DEF Severed
<1>3. CASE ~ Severed
  <2>1. Ways' = Ways
    BY <1>1, SameWay DEF Ways
  <2>2. UNCHANGED <<Severed, Spoken, Gone, Lost, Joined, Overtaken>>
    BY <1>1 DEF Severed, Spoken, Gone, Lost, Joined, Overtaken
  <2>3. Ended' = Ended \cup {d} /\ d \notin Ended
    BY <1>1, <1>3, <2>2 DEF Ended, TypeOK
  <2>4. UplinkOf!End(d)
    BY <1>3, <2>1, <2>2, <2>3 DEF UplinkOf!End, Ways, Spoken, Ended, Gone, Lost, Overtaken
  <2> QED BY <2>4 DEF UplinkOf!Next
<1> QED BY <1>2, <1>3

\* What connection d asks of the others, and of itself, when it alone changes.
LEMMA Carries ==
  ASSUME NEW d \in Player, NEW k \in Request
  PROVE  /\ \A c \in Player \ {d} : Ask(c, [id |-> d, kind |-> k]) = <<>>
         /\ Ask(d, [id |-> d, kind |-> k]) = <<IF k = "login" THEN "join" ELSE k>>
         /\ (IF k = "login" THEN "join" ELSE k) \in Asked \ {"leave"}
BY DEF Ask, Request, Asked

\* What a frame asks of the scene while its reader holds it.
Wish(h) == IF h = "login" THEN "join" ELSE h
Wishes(d, h) ==
  /\ h \in Request    => Asks(d, Carried(d, h)) = <<Wish(h)>>
  /\ h \notin Request => Asks(d, Carried(d, h)) = <<>>

LEMMA InHandWishes ==
  ASSUME NEW d \in Player, NEW h \in InHand
  PROVE  Wishes(d, h)
<1>1. CASE h \in Request
  <2>1. Asks(d, Carried(d, h)) = Ask(d, [id |-> d, kind |-> h])
    BY <1>1, Carrying
  <2>2. Ask(d, [id |-> d, kind |-> h]) = <<Wish(h)>>
    BY <1>1, Carries DEF Wish
  <2> QED BY <1>1, <2>1, <2>2, Zenon DEF Wishes
<1>2. CASE h \notin Request
  <2>1. Asks(d, Carried(d, h)) = <<>>
    BY <1>2, Carrying
  <2> QED BY <1>2, <2>1, Zenon DEF Wishes
<1> QED BY <1>1, <1>2

LEMMA TipWishes ==
  ASSUME TypeOK, ~ Severed, NEW d \in Player
  PROVE  /\ held[d] \in Request    => Tip(d) = <<Wish(held[d])>>
         /\ held[d] \notin Request => Tip(d) = <<>>
<1>1. Wishes(d, held[d])
  BY HandType, InHandWishes
<1>2. Tip(d) = Asks(d, Carried(d, held[d]))
  BY TipCarried
<1> QED BY ONLY <1>1, <1>2, Zenon DEF Wishes

LEMMA TipWishesNext ==
  ASSUME TypeOK', ~ Severed', NEW d \in Player
  PROVE  /\ held'[d] \in Request    => Tip(d)' = <<Wish(held'[d])>>
         /\ held'[d] \notin Request => Tip(d)' = <<>>
<1>1. Wishes(d, held'[d])
  BY HandTypeNext, InHandWishes
<1>2. Tip(d)' = Asks(d, Carried(d, held'[d]))
  BY TipCarried
<1> QED BY ONLY <1>1, <1>2, Zenon DEF Wishes

\* A frame that is read is behind all the others.
LEMMA ReadingSpeaks ==
  ASSUME TypeOK, TypeOK', Alone, NEW d \in Player, ReadFrame(d)
  PROVE  [UplinkOf!Next]_(UplinkOf!vars)
<1>1. /\ UNCHANGED <<players, inCh, wireUp, upstream, job, inbound, link, stage, watchdog,
                      raced>>
      /\ stage[d] = "up" /\ held[d] = Nil /\ loggedIn' = loggedIn \cup {d}
      /\ held'[d] = IF d \in loggedIn THEN "move" ELSE "login"
      /\ \A c \in Player \ {d} : held'[c] = held[c]
  BY DEF ReadFrame, outside, sceneVars, streams, TypeOK
<1>2. CASE Severed
  BY <1>1, <1>2, SeveredStep DEF Severed
<1>3. CASE ~ Severed
  <2>1. UNCHANGED <<Severed, Ended, Gone, Joined, Overtaken>>
    BY <1>1 DEF Severed, Ended, Gone, Joined, Overtaken
  <2>2. Spoken = loggedIn /\ Spoken' = Spoken \cup {d} /\ d \notin Ended
    BY <1>1, <1>3, <2>1 DEF Spoken, Ended
  <2>3. Lost' = Lost
    <3>1. held[d] # "dropped" /\ held'[d] # "dropped"
      BY <1>1, SessionAssumption
    <3>2. \A c \in Player : held'[c] = "dropped" <=> held[c] = "dropped"
      BY <1>1, <3>1
    <3> QED BY <2>1, <3>2 DEF Lost
  <2>4. \A c \in Player \ {d} : WayOf(c)' = WayOf(c)
    BY <1>1, SameWay
  <2>5. held[d] \notin Request /\ held'[d] \in Request
    BY <1>1, SessionAssumption DEF Request
  <2>6. PICK r \in Asked : r = Wish(held'[d])
    BY <2>5, Carries DEF Wish
  <2>7. r = IF d \in Spoken THEN "move" ELSE "join"
    BY <1>1, <2>2, <2>6 DEF Wish
  <2>8. Tip(d) = <<>> /\ Tip(d)' = <<r>>
    <3>1. Tip(d) = <<>>
      BY <1>3, <2>5, TipWishes
    <3>2. Tip(d)' = <<Wish(held'[d])>>
      BY <1>3, <2>1, <2>5, TipWishesNext
    <3> QED BY ONLY <2>6, <3>1, <3>2
  <2>9. All' = All
    BY <1>1 DEF All, Queued, Slot, Severed
  <2>10. PICK u \in Seq(Asked) : u = Asks(d, All)
    BY WayIsAll
  <2>11. WayOf(d) = u \o <<>> /\ WayOf(d)' = u \o <<r>>
    <3>1. WayOf(d) = Asks(d, All) \o Tip(d) /\ WayOf(d)' = Asks(d, All') \o Tip(d)'
      BY WayIsAll, WayIsAllNext
    <3> QED BY <2>8, <2>9, <2>10, <3>1
  <2>12. WayOf(d)' = Append(WayOf(d), r)
    BY <2>11, ConcatEmptySeq, AppendIsConcat
  <2>13. Ways' = [Ways EXCEPT ![d] = Append(@, IF d \in Spoken THEN "move" ELSE "join")]
    BY <2>4, <2>7, <2>12, OneWay
  <2>14. UplinkOf!Speak(d)
    BY <1>3, <2>1, <2>2, <2>3, <2>13
       DEF UplinkOf!Speak, Ways, Spoken, Ended, Gone, Lost, Overtaken
  <2> QED BY <2>14 DEF UplinkOf!Next
<1> QED BY <1>2, <1>3

\* A frame that is pushed stays behind all the others.
PushedLast(q, w, u, s, b, x) ==
  Chain(q, w, u, s, Append(b, x)) = Append(Chain(q, w, u, s, b), x)

LEMMA ChainAppend ==
  ASSUME NEW q \in Seq(Passing), NEW w \in Seq(Passing), NEW u \in Seq(Passing),
         NEW s \in Seq(Passing), NEW b \in Seq(Passing), NEW x \in Passing
  PROVE  PushedLast(q, w, u, s, b, x)
<1>1. PICK p \in Seq(Passing) : p = ((q \o w) \o u) \o s
  BY ConcatProperties
<1>2. p \o Append(b, x) = Append(p \o b, x)
  BY JoinedQueues
<1> QED BY ONLY <1>1, <1>2, Zenon DEF Chain, PushedLast

LEMMA PushingMoves ==
  ASSUME TypeOK, TypeOK', Alone, NEW d \in Player, PushFrame(d)
  PROVE  [UplinkOf!Next]_(UplinkOf!vars)
<1>1. /\ UNCHANGED <<players, inCh, wireUp, upstream, job, link, loggedIn, stage, watchdog,
                      raced>>
      /\ held[d] \in Request /\ held'[d] = Nil
      /\ \A c \in Player \ {d} : held'[c] = held[c]
  BY DEF PushFrame, outside, sceneVars, streams, table, TypeOK
<1>2. PICK k \in Request : k = held[d]
  BY <1>1
<1> DEFINE x == [id |-> d, kind |-> k]
<1>3. inbound' = Append(inbound, x) /\ x \in Inbound /\ x \in Passing
  BY <1>2 DEF PushFrame, Inbound, Passing
<1>4. /\ \A c \in Player \ {d} : Ask(c, x) = <<>>
      /\ Ask(d, x) \in Seq(Asked)
      /\ Asks(d, Carried(d, k)) = Ask(d, x)
  <2>1. k \in InHand
    BY DEF InHand
  <2>2. Asks(d, Carried(d, k)) = Ask(d, x) /\ \A c \in Player \ {d} : Ask(c, x) = <<>>
    BY <2>1, Carrying, Carries
  <2>3. Ask(d, x) \in Seq(Asked)
    BY <1>3, PassingAsks, AskType
  <2> QED BY <2>2, <2>3
<1> HIDE DEF x
<1>5. CASE Severed
  BY <1>1, <1>5, SeveredStep DEF Severed
<1>6. CASE ~ Severed
  <2>1. UNCHANGED <<Spoken, Ended, Gone, Joined, Overtaken, Severed>>
    BY <1>1 DEF Spoken, Ended, Gone, Joined, Overtaken, Severed
  <2>2. Lost' = Lost
    <3>1. held[d] # "dropped" /\ held'[d] # "dropped"
      BY <1>1, SessionAssumption DEF Request
    <3>2. \A c \in Player : held'[c] = "dropped" <=> held[c] = "dropped"
      BY <1>1, <3>1
    <3> QED BY <2>1, <3>2 DEF Lost
  <2>3. All' = Append(All, x)
    <3>1. PushedLast(inCh, wireUp[Only], upstream, Slot(job), inbound, x)
      BY <1>3, QueueTypes, ChainAppend
    <3>2. All = Chain(inCh, wireUp[Only], upstream, Slot(job), inbound)
      BY <1>6, AllOpen
    <3>3. All' = Chain(inCh', wireUp'[Only], upstream', Slot(job'), inbound')
      BY <1>6, <2>1, AllOpenNext
    <3>4. All' = Chain(inCh, wireUp[Only], upstream, Slot(job), Append(inbound, x))
      BY <1>1, <1>3, <3>3, Zenon
    <3> QED BY ONLY <3>1, <3>2, <3>4 DEF PushedLast
  <2>4. ASSUME NEW c \in Player
        PROVE  /\ Asks(c, All') = Asks(c, All) \o Ask(c, x)
               /\ Asks(c, All) \in Seq(Asked) /\ Tip(c) \in Seq(Asked)
               /\ WayOf(c) = Asks(c, All) \o Tip(c)
               /\ WayOf(c)' = Asks(c, All') \o Tip(c)'
    BY <1>3, <2>3, AllType, AsksAppend, WayIsAll, WayIsAllNext
  <2>5. ASSUME NEW c \in Player \ {d} PROVE WayOf(c)' = WayOf(c)
    <3>1. Tip(c)' = Tip(c)
      BY <1>1, <2>1 DEF Tip, Held
    <3>2. Asks(c, All) \o <<>> = Asks(c, All)
      BY <2>4, ConcatEmptySeq
    <3> QED BY <1>4, <2>4, <3>1, <3>2
  <2>6. WayOf(d)' = WayOf(d)
    <3>1. /\ Tip(d) = Asks(d, Carried(d, held[d]))
          /\ Tip(d)' = Asks(d, Carried(d, held'[d]))
      BY <1>6, <2>1, TipCarried
    <3>2. Nil \notin Request /\ Nil \in InHand
      BY SessionAssumption DEF InHand
    <3>3. Tip(d) = Ask(d, x) /\ Tip(d)' = <<>>
      BY <1>1, <1>2, <1>4, <3>1, <3>2, Carrying
    <3>4. PICK u \in Seq(Asked), v \in Seq(Asked) : u = Asks(d, All) /\ v = Ask(d, x)
      BY <1>4, <2>4
    <3>5. (u \o v) \o <<>> = u \o v
      BY ConcatProperties, ConcatEmptySeq
    <3>6. /\ WayOf(d) = Asks(d, All) \o Tip(d)
          /\ WayOf(d)' = (Asks(d, All) \o Ask(d, x)) \o Tip(d)'
      BY <2>4
    <3> QED BY ONLY <3>3, <3>4, <3>5, <3>6
  <2> QED BY <2>1, <2>2, <2>5, <2>6, Stutters
<1> QED BY <1>5, <1>6

\* What the reader gives up is discarded.
LEMMA GivingUpDiscards ==
  ASSUME TypeOK, TypeOK', Alone, NEW d \in Player, ReaderDone(d)
  PROVE  [UplinkOf!Next]_(UplinkOf!vars)
<1>1. /\ UNCHANGED <<players, inCh, wireUp, upstream, job, inbound, link, loggedIn, stage,
                      watchdog, raced>>
      /\ stage[d] = "closed" /\ held[d] \in Request /\ held'[d] = "dropped"
      /\ \A c \in Player \ {d} : held'[c] = held[c]
  BY DEF ReaderDone, outside, sceneVars, streams, table, TypeOK
<1>2. CASE Severed
  BY <1>1, <1>2, SeveredStep DEF Severed
<1>3. CASE ~ Severed
  <2>1. UNCHANGED <<Severed, Spoken, Ended, Gone, Joined, Overtaken>>
    BY <1>1 DEF Severed, Spoken, Ended, Gone, Joined, Overtaken
  <2>2. d \notin Lost /\ Lost' = Lost \cup {d} /\ d \in Ended
    <3>1. held[d] # "dropped"
      BY <1>1 DEF Request
    <3>2. ~ Severed'
      BY <1>3, <2>1
    <3> QED BY <1>1, <1>3, <3>1, <3>2 DEF Lost, Ended
  <2>3. \A c \in Player \ {d} : WayOf(c)' = WayOf(c)
    BY <1>1, SameWay
  <2>4. held[d] \in Request /\ held'[d] \notin Request
    BY <1>1 DEF Request
  <2>5. PICK x \in Asked : x = Wish(held[d]) /\ x # "leave"
    BY <2>4, Carries DEF Wish
  <2>6. Tip(d) = <<x>> /\ Tip(d)' = <<>>
    <3>1. Tip(d) = <<Wish(held[d])>>
      BY <1>3, <2>4, TipWishes
    <3>2. Tip(d)' = <<>>
      BY <1>3, <2>1, <2>4, TipWishesNext
    <3> QED BY ONLY <2>5, <3>1, <3>2
  <2>7. All' = All
    BY <1>1 DEF All, Queued, Slot, Severed
  <2>8. PICK u \in Seq(Asked) : u = Asks(d, All)
    BY WayIsAll
  <2>9. WayOf(d) = u \o <<x>> /\ WayOf(d)' = u \o <<>>
    <3>1. WayOf(d) = Asks(d, All) \o Tip(d) /\ WayOf(d)' = Asks(d, All') \o Tip(d)'
      BY WayIsAll, WayIsAllNext
    <3> QED BY <2>6, <2>7, <2>8, <3>1
  <2>10. WayOf(d) # <<>> /\ Last(WayOf(d)) = x /\ Front(WayOf(d)) = u
    BY <2>9, TakeBack
  <2>11. WayOf(d)' = Front(WayOf(d))
    BY <2>9, <2>10, ConcatEmptySeq
  <2>12. Ways' = [Ways EXCEPT ![d] = Front(@)] /\ Ways[d] = WayOf(d)
    BY <2>3, <2>11, OneWay
  <2>13. UplinkOf!Last(Ways[d]) = x /\ UplinkOf!Front(Ways[d]) = Front(Ways[d])
    BY <2>10, <2>12, Zenon DEF UplinkOf!Last, UplinkOf!Front, Last, Front
  <2>14. Ways' = [Ways EXCEPT ![d] = UplinkOf!Front(@)]
    BY <2>12, <2>13
  <2>15. UplinkOf!Discard(d)
    BY <1>3, <2>1, <2>2, <2>5, <2>10, <2>12, <2>13, <2>14
       DEF UplinkOf!Discard, Ways, Spoken, Ended, Gone, Lost, Overtaken
  <2> QED BY <2>15 DEF UplinkOf!Next
<1> QED BY <1>2, <1>3

\* What is on the way in upstream and further on, and what is behind it.
Splits(c, q, w, u, s, b) ==
  Asks(c, Chain(q, w, u, s, b)) = Asks(c, (q \o w) \o u) \o Asks(c, s \o b)

InTwo(c, p, s, b) == Asks(c, (p \o s) \o b) = Asks(c, p) \o Asks(c, s \o b)

LEMMA SplitInTwo ==
  ASSUME NEW c, NEW p \in Seq(Passing), NEW s \in Seq(Passing), NEW b \in Seq(Passing)
  PROVE  InTwo(c, p, s, b)
<1>1. PICK r \in Seq(Passing) : r = s \o b
  BY ConcatProperties
<1>2. (p \o s) \o b = p \o r
  BY <1>1, QueuesAssociate
<1>3. Asks(c, p \o r) = Asks(c, p) \o Asks(c, r)
  BY PassingAsks, AsksConcat
<1> QED BY ONLY <1>1, <1>2, <1>3 DEF InTwo

LEMMA ChainSplit ==
  ASSUME NEW c, NEW q \in Seq(Passing), NEW w \in Seq(Passing), NEW u \in Seq(Passing),
         NEW s \in Seq(Passing), NEW b \in Seq(Passing)
  PROVE  Splits(c, q, w, u, s, b)
<1>1. PICK p \in Seq(Passing) : p = (q \o w) \o u
  BY ConcatProperties
<1>2. InTwo(c, p, s, b)
  BY SplitInTwo
<1> QED BY ONLY <1>1, <1>2, Zenon DEF InTwo, Splits, Chain

\* A leave that is put in upstream has all of that in front of it.
Pushes(c, q, w, u, in) ==
  Asks(c, (q \o w) \o Append(u, in)) = Asks(c, (q \o w) \o u) \o Ask(c, in)

LEMMA ChainPush ==
  ASSUME NEW c, NEW q \in Seq(Passing), NEW w \in Seq(Passing), NEW u \in Seq(Passing),
         NEW in \in Passing
  PROVE  Pushes(c, q, w, u, in)
<1>1. PICK p \in Seq(Passing) : p = q \o w
  BY ConcatProperties
<1>2. p \o Append(u, in) = Append(p \o u, in) /\ p \o u \in Seq(Passing)
  BY JoinedQueues
<1>3. Asks(c, Append(p \o u, in)) = Asks(c, p \o u) \o Ask(c, in)
  BY <1>2, AsksAppend
<1> QED BY ONLY <1>1, <1>2, <1>3 DEF Pushes

LEMMA LoginQueued ==
  ASSUME TypeOK, Alone, NEW d \in Player
  PROVE  Holds(Asks(d, Slot(job) \o inbound), "join")
           <=> Login(d) \in ToSet(inbound) \cup {job}
<1>1. PICK s \in Seq(Passing), b \in Seq(Passing) : s = Slot(job) /\ b = inbound
  BY QueueTypes
<1>2. Asks(d, s \o b) = Asks(d, s) \o Asks(d, b)
  BY PassingAsks, AsksConcat
<1>3. Asks(d, s) \in Seq(Asked) /\ Asks(d, b) \in Seq(Asked)
  BY PassingAsks, AsksType
<1>4. Holds(Asks(d, s \o b), "join")
        <=> Holds(Asks(d, s), "join") \/ Holds(Asks(d, b), "join")
  BY <1>2, <1>3, JoinedHold
<1>5. \A x \in Inbound : x.id = d /\ x.kind \in {"login", "join"} <=> x = Login(d)
  BY DEF Inbound, Login, Request
<1>6. Holds(Asks(d, b), "join") <=> Login(d) \in ToSet(inbound)
  <2>1. Holds(Asks(d, b), "join") <=> HoldsJoin(b, d)
    BY PassingAsks, AsksJoin
  <2>2. DOMAIN inbound = 1 .. Len(inbound) /\ \A i \in 1 .. Len(inbound) : inbound[i] \in Inbound
    BY DEF TypeOK
  <2> QED BY <1>1, <1>5, <2>1, <2>2 DEF HoldsJoin, ToSet
<1>7. Holds(Asks(d, s), "join") <=> Login(d) = job
  <2>1. Holds(Asks(d, s), "join") <=> HoldsJoin(s, d)
    BY PassingAsks, AsksJoin
  <2>2. CASE job = Nil
    <3>1. Login(d) # Nil
      BY SessionAssumption DEF Login, Inbound, Request
    <3>2. s = <<>>
      BY <1>1, <2>2 DEF Slot
    <3>3. ~ HoldsJoin(s, d)
      BY <3>2 DEF HoldsJoin
    <3> QED BY <2>1, <2>2, <3>1, <3>3
  <2>3. CASE job # Nil
    <3>1. job \in Inbound
      BY <2>3 DEF TypeOK
    <3>2. s = <<job>>
      BY <1>1, <2>3 DEF Slot
    <3>3. HoldsJoin(s, d) <=> job.id = d /\ job.kind \in {"login", "join"}
      BY <3>2 DEF HoldsJoin
    <3> QED BY <1>5, <2>1, <3>1, <3>3
  <2> QED BY <2>2, <2>3
<1> QED BY <1>1, <1>4, <1>6, <1>7

LEMMA LoginBehind ==
  ASSUME TypeOK, Alone, ~ Severed, NEW d \in Player
  PROVE  Holds(Asks(d, Slot(job) \o inbound) \o Tip(d), "join") <=> InPipeline(d)
<1>1. PICK r \in Seq(Passing) : r = Slot(job) \o inbound
  BY QueueTypes, ConcatProperties
<1>2. PICK u \in Seq(Asked), v \in Seq(Asked) : u = Asks(d, r) /\ v = Tip(d)
  BY PassingAsks, AsksType, WayIsAll
<1>3. Holds(u \o v, "join") <=> Holds(u, "join") \/ Holds(v, "join")
  BY JoinedHold
<1>4. Holds(u, "join") <=> Login(d) \in ToSet(inbound) \cup {job}
  BY <1>1, <1>2, LoginQueued
<1>5. Holds(v, "join") <=> held[d] = "login"
  <2>1. CASE held[d] \in Request
    <3>1. v = <<Wish(held[d])>>
      BY <1>2, <2>1, TipWishes
    <3> QED BY <2>1, <3>1 DEF Holds, Request, Wish
  <2>2. CASE held[d] \notin Request
    <3>1. v = <<>>
      BY <1>2, <2>2, TipWishes
    <3> QED BY <2>2, <3>1 DEF Holds, Request
  <2> QED BY <2>1, <2>2
<1> QED BY <1>1, <1>2, <1>3, <1>4, <1>5 DEF InPipeline, Login

\* A leave between what is in front of it and what is behind it.
LEMMA LeaveBetween ==
  ASSUME NEW a \in Seq(Asked), NEW b \in Seq(Asked), NEW t \in Seq(Asked)
  PROVE  /\ (a \o b) \o t = a \o (b \o t)
         /\ ((a \o <<"leave">>) \o b) \o t = (a \o <<"leave">>) \o (b \o t)
<1>1. PICK e \in Seq(Asked) : e = a \o <<"leave">>
  <2>1. <<"leave">> \in Seq(Asked)
    BY DEF Asked
  <2> QED BY <2>1, ConcatProperties
<1>2. (e \o b) \o t = e \o (b \o t)
  BY ONLY e \in Seq(Asked), b \in Seq(Asked), t \in Seq(Asked), QueuesAssociate
<1>3. (a \o b) \o t = a \o (b \o t)
  BY ONLY a \in Seq(Asked), b \in Seq(Asked), t \in Seq(Asked), QueuesAssociate
<1> QED BY ONLY <1>1, <1>2, <1>3

LEMMA LeavingOvertakes ==
  ASSUME TypeOK, TypeOK', Alone, NEW d \in Player, WatchdogLeave(d)
  PROVE  [UplinkOf!Next]_(UplinkOf!vars)
<1> DEFINE in == [kind |-> "leave", id |-> d]
<1>1. /\ UNCHANGED <<players, inCh, wireUp, job, inbound, held, link, loggedIn, stage>>
      /\ stage[d] = "closed" /\ watchdog[d] = "wait"
      /\ watchdog' = [watchdog EXCEPT ![d] = "remove"]
      /\ upstream' = Append(upstream, in)
      /\ raced' = IF InPipeline(d) THEN raced \cup {d} ELSE raced
  BY DEF WatchdogLeave, WatchdogDue, Upstream, outside, sceneVars, streams, table, pipe
<1>2. in \in Passing /\ \A c \in Player : Ask(c, in) = IF c = d THEN <<"leave">> ELSE <<>>
  BY Inputs DEF Passing, Ask
<1> HIDE DEF in
<1>3. CASE Severed
  BY <1>1, <1>3, SeveredStep DEF Severed
<1>4. CASE ~ Severed
  <2>1. UNCHANGED <<Severed, Spoken, Ended, Lost, Joined>> /\ d \in Ended
    BY <1>1, <1>4 DEF Severed, Spoken, Ended, Lost, Joined
  <2>2. Gone' = Gone \cup {d} /\ d \notin Gone
    BY <1>1, <1>4, <2>1 DEF Gone, TypeOK
  <2>3. PICK p \in Seq(Passing), r \in Seq(Passing) :
          p = (inCh \o wireUp[Only]) \o upstream /\ r = Slot(job) \o inbound
    BY AllType, QueueTypes, ConcatProperties
  <2>4. ASSUME NEW c \in Player
        PROVE  /\ WayOf(c) = (Asks(c, p) \o Asks(c, r)) \o Tip(c)
               /\ WayOf(c)' = ((Asks(c, p) \o Ask(c, in)) \o Asks(c, r)) \o Tip(c)
    <3>1. All = Chain(inCh, wireUp[Only], upstream, Slot(job), inbound)
      BY <1>4, AllOpen
    <3>2. All' = Chain(inCh', wireUp'[Only], upstream', Slot(job'), inbound')
      BY <1>4, <2>1, AllOpenNext
    <3>3. All' = Chain(inCh, wireUp[Only], Append(upstream, in), Slot(job), inbound)
      BY <1>1, <3>2, Zenon
    <3>4. Append(upstream, in) \in Seq(Passing)
      BY <1>2, QueueTypes
    <3>5. Splits(c, inCh, wireUp[Only], upstream, Slot(job), inbound)
      BY QueueTypes, ChainSplit
    <3>6. Splits(c, inCh, wireUp[Only], Append(upstream, in), Slot(job), inbound)
      BY <3>4, QueueTypes, ChainSplit
    <3>7. Pushes(c, inCh, wireUp[Only], upstream, in)
      BY <1>2, QueueTypes, ChainPush
    <3>8. WayOf(c) = Asks(c, All) \o Tip(c) /\ WayOf(c)' = Asks(c, All') \o Tip(c)'
      BY WayIsAll, WayIsAllNext
    <3>9. Tip(c)' = Tip(c)
      BY <1>1 DEF Tip, Held, Severed
    <3> QED BY ONLY <2>3, <3>1, <3>3, <3>5, <3>6, <3>7, <3>8, <3>9 DEF Splits, Pushes
  <2>5. \A c \in Player : /\ Asks(c, p) \in Seq(Asked) /\ Asks(c, r) \in Seq(Asked)
                          /\ Tip(c) \in Seq(Asked)
    BY PassingAsks, AsksType, WayIsAll
  <2>6. \A c \in Player \ {d} : WayOf(c)' = WayOf(c)
    <3> SUFFICES ASSUME NEW c \in Player, c # d PROVE WayOf(c)' = WayOf(c)
      OBVIOUS
    <3>1. Ask(c, in) = <<>>
      BY <1>2
    <3>2. Asks(c, p) \o <<>> = Asks(c, p)
      BY <2>5, ConcatEmptySeq
    <3>3. /\ WayOf(c) = (Asks(c, p) \o Asks(c, r)) \o Tip(c)
          /\ WayOf(c)' = ((Asks(c, p) \o Ask(c, in)) \o Asks(c, r)) \o Tip(c)
      BY <2>4
    <3> QED BY ONLY <3>1, <3>2, <3>3
  <2>7. PICK u \in Seq(Asked), v \in Seq(Asked) : u = Asks(d, p) /\ v = Asks(d, r) \o Tip(d)
    BY <2>5, ConcatProperties
  <2>8. WayOf(d) = u \o v /\ WayOf(d)' = (u \o <<"leave">>) \o v
    <3>1. Ask(d, in) = <<"leave">>
      BY <1>2
    <3>2. /\ WayOf(d) = (Asks(d, p) \o Asks(d, r)) \o Tip(d)
          /\ WayOf(d)' = ((Asks(d, p) \o Ask(d, in)) \o Asks(d, r)) \o Tip(d)
      BY <2>4
    <3>3. PICK a \in Seq(Asked), b \in Seq(Asked), t \in Seq(Asked) :
            a = Asks(d, p) /\ b = Asks(d, r) /\ t = Tip(d)
      BY <2>5
    <3>4. /\ (a \o b) \o t = a \o (b \o t)
          /\ ((a \o <<"leave">>) \o b) \o t = (a \o <<"leave">>) \o (b \o t)
      BY ONLY a \in Seq(Asked), b \in Seq(Asked), t \in Seq(Asked), LeaveBetween
    <3> QED BY ONLY <2>7, <3>1, <3>2, <3>3, <3>4
  <2>9. Holds(v, "join") <=> InPipeline(d)
    BY <1>4, <2>3, <2>7, LoginBehind
  <2>10. /\ InsertAt(u \o v, Len(u) + 1, "leave") = (u \o <<"leave">>) \o v
         /\ Len(u) + 1 \in 1 .. Len(u \o v) + 1
         /\ (\E j \in Len(u) + 1 .. Len(u \o v) : (u \o v)[j] = "join")
              <=> Holds(v, "join")
    <3>1. PICK x \in Asked : x = "leave"
      BY DEF Asked
    <3>2. /\ InsertAt(u \o v, Len(u) + 1, x) = (u \o <<x>>) \o v
          /\ Len(u) + 1 \in 1 .. Len(u \o v) + 1
          /\ \A y : (\E j \in Len(u) + 1 .. Len(u \o v) : (u \o v)[j] = y) <=> Holds(v, y)
      BY InsertBetween, Zenon
    <3> QED BY ONLY <3>1, <3>2
  <2>11. PICK i \in Nat : i = Len(u) + 1
    OBVIOUS
  <2>12. Ways' = [Ways EXCEPT ![d] = WayOf(d)'] /\ Ways[d] = WayOf(d)
    BY <2>6, OneWay
  <2>13. /\ i \in 1 .. Len(Ways[d]) + 1
         /\ InsertAt(Ways[d], i, "leave") = WayOf(d)'
         /\ (\E j \in i .. Len(Ways[d]) : Ways[d][j] = "join")
              <=> InPipeline(d)
    BY ONLY <2>8, <2>9, <2>10, <2>11, <2>12
  <2>14. Overtaken' = IF \E j \in i .. Len(Ways[d]) : Ways[d][j] = "join"
                      THEN Overtaken \cup {d} ELSE Overtaken
    BY <1>1, <1>4, <2>1, <2>13 DEF Overtaken
  <2>15. InsertAt(Ways[d], i, "leave") = UplinkOf!InsertAt(Ways[d], i, "leave")
    BY Zenon DEF InsertAt, UplinkOf!InsertAt
  <2>16. Ways' = [Ways EXCEPT ![d] = UplinkOf!InsertAt(@, i, "leave")]
    BY <2>12, <2>13, <2>15
  <2>17. UplinkOf!Leave(d)
    BY <1>4, <2>1, <2>2, <2>13, <2>14, <2>16
       DEF UplinkOf!Leave, Ways, Spoken, Ended, Gone, Lost, Overtaken
  <2> QED BY <2>17 DEF UplinkOf!Next
<1> QED BY <1>3, <1>4

LEMMA DrainingArrives ==
  ASSUME TypeOK, TypeOK', Alone, Drain
  PROVE  [UplinkOf!Next]_(UplinkOf!vars)
<1>1. /\ UNCHANGED <<wireUp, upstream, job, inbound, held, link, loggedIn, stage, watchdog,
                      raced>>
      /\ DrainOne /\ SceneTypeOK /\ inCh # <<>> /\ inCh' = Tail(inCh)
  BY DEF Drain, DrainOne, streams, memory, table, pipe, TypeOK
<1>2. PICK in \in Input : in = Head(inCh)
  BY <1>1, HeadInput
<1>3. /\ in.id \in Player /\ in.kind \in {"join", "move", "leave"}
      /\ in.kind = "join"  => Joined' = Joined \cup {in.id}
      /\ in.kind = "leave" => Joined' = Joined \ {in.id}
      /\ in.kind = "move"  => Joined' = Joined
  BY <1>1, <1>2, ApplyJoined DEF DrainOne
<1>4. UNCHANGED <<Severed, Spoken, Ended, Gone, Lost, Overtaken>>
  BY <1>1 DEF Severed, Spoken, Ended, Gone, Lost, Overtaken
<1>5. PICK q \in Seq(Passing), w \in Seq(Passing), r \in Seq(Passing) :
        q = inCh /\ w = wireUp[Only] /\ r = Queued
  BY AllType, QueueTypes
<1>6. All # <<>> /\ Head(All) = in /\ Tail(All) = All'
  <2>1. q # <<>> /\ Head(q) = in
    BY <1>1, <1>2, <1>5
  <2>2. PICK k \in Seq(Passing) : k = q \o w
    BY ConcatProperties
  <2>3. k # <<>> /\ Head(k) = in /\ Tail(k) = Tail(q) \o w
    BY ONLY q \in Seq(Passing), w \in Seq(Passing), <2>1, <2>2, JoinedQueues
  <2>4. k \o r # <<>> /\ Head(k \o r) = in /\ Tail(k \o r) = Tail(k) \o r
    BY ONLY k \in Seq(Passing), r \in Seq(Passing), <2>3, JoinedQueues
  <2>5. All = k \o r
    BY <1>5, <2>2, Zenon DEF All
  <2>6. Queued' = Queued
    BY <1>1 DEF Queued, Slot, Severed
  <2>7. All' = (Tail(q) \o w) \o r
    BY <1>1, <1>5, <2>6, Zenon DEF All
  <2> QED BY ONLY <2>3, <2>4, <2>5, <2>7
<1>7. ASSUME NEW c \in Player
      PROVE  WayOf(c) = Ask(c, in) \o WayOf(c)' /\ WayOf(c)' \in Seq(Asked)
  <2>1. All \in Seq(Passing) /\ All' \in Seq(Passing)
    BY AllType, AllTypeNext
  <2>2. Asks(c, All) = Ask(c, in) \o Asks(c, All')
    BY <1>6, <2>1, PassingAsks, AsksHead
  <2>3. Tip(c)' = Tip(c)
    BY <1>1 DEF Tip, Held, Severed
  <2>4. PICK a \in Seq(Asked), u \in Seq(Asked), t \in Seq(Asked) :
          a = Ask(c, in) /\ u = Asks(c, All') /\ t = Tip(c)
    <3>1. in \in Passing
      BY DEF Passing
    <3> QED BY <2>1, <3>1, PassingAsks, AskType, AsksType, WayIsAll
  <2>5. (a \o u) \o t = a \o (u \o t)
    BY QueuesAssociate
  <2>6. u \o t \in Seq(Asked)
    BY ConcatProperties
  <2>7. WayOf(c) = Asks(c, All) \o Tip(c) /\ WayOf(c)' = Asks(c, All') \o Tip(c)'
    BY WayIsAll, WayIsAllNext
  <2> QED BY ONLY <2>2, <2>3, <2>4, <2>5, <2>6, <2>7
<1>8. \A c \in Player : c # in.id => WayOf(c)' = WayOf(c)
  <2> SUFFICES ASSUME NEW c \in Player, c # in.id PROVE WayOf(c)' = WayOf(c)
    OBVIOUS
  <2>1. Ask(c, in) = <<>>
    BY DEF Ask
  <2> QED BY <1>7, <2>1, ConcatEmptySeq
<1>9. PICK d \in Player : d = in.id
  BY <1>3
<1>10. PICK k \in Asked : k = in.kind /\ Ask(d, in) = <<k>>
  BY <1>3, <1>9 DEF Ask, Asked
<1>11. WayOf(d) # <<>> /\ Head(WayOf(d)) = k /\ Tail(WayOf(d)) = WayOf(d)'
  <2>1. PICK u \in Seq(Asked) : u = WayOf(d)'
    BY <1>7
  <2>2. First(k, u, <<k>> \o u)
    BY ONLY k \in Asked, u \in Seq(Asked) DEF First
  <2>3. WayOf(d) = <<k>> \o u
    BY <1>7, <1>10, <2>1
  <2> QED BY ONLY <2>1, <2>2, <2>3 DEF First
<1>12. Ways' = [Ways EXCEPT ![d] = Tail(@)] /\ Ways[d] = WayOf(d)
  BY <1>8, <1>9, <1>11, OneWay
<1>13. UplinkOf!Arrive(d)
  <2>1. Joined' = CASE Head(Ways[d]) = "join"  -> Joined \cup {d}
                    [] Head(Ways[d]) = "leave" -> Joined \ {d}
                    [] OTHER                   -> Joined
    BY <1>3, <1>9, <1>10, <1>11, <1>12
  <2> QED BY <1>4, <1>11, <1>12, <2>1
          DEF UplinkOf!Arrive, Ways, Spoken, Ended, Gone, Lost, Overtaken
<1> QED BY <1>13 DEF UplinkOf!Next

LEMMA UplinkInit == Alone /\ Init => UplinkOf!Init
<1> SUFFICES ASSUME Alone, Init PROVE UplinkOf!Init
  OBVIOUS
<1>1. ~ Severed
  BY DEF Init, Severed, Alone
<1>2. \A c \in Player : WayOf(c) = <<>>
  <2> SUFFICES ASSUME NEW c \in Player PROVE WayOf(c) = <<>>
    OBVIOUS
  <2>1. /\ inCh = <<>> /\ wireUp[Only] = <<>> /\ upstream = <<>>
        /\ Slot(job) = <<>> /\ inbound = <<>> /\ Held(c) = <<>>
    BY SessionAssumption DEF Init, SceneInit, Slot, Held, Alone
  <2>2. (<<>> \o <<>>) \o (((<<>> \o <<>>) \o <<>>) \o <<>>) = <<>>
    OBVIOUS
  <2>3. Beyond(c) = ((upstream \o Slot(job)) \o inbound) \o Held(c)
    BY <1>1, Zenon DEF Beyond
  <2>4. WayOf(c) = Asks(c, (<<>> \o <<>>) \o (((<<>> \o <<>>) \o <<>>) \o <<>>))
    BY <2>1, <2>3, Zenon DEF WayOf
  <2> QED BY <2>2, <2>4, AsksEmpty
<1>3. Joined = {}
  BY DEF Init, SceneInit, Joined
<1>4. \A c \in Player : held[c] # "dropped"
  BY SessionAssumption DEF Init
<1> QED BY <1>1, <1>2, <1>3, <1>4 DEF UplinkOf!Init, Init

LEMMA UplinkStep ==
  ASSUME Alone, GInv, UInv, [Next]_vars
  PROVE  [UplinkOf!Next]_(UplinkOf!vars)
<1>0. TypeOK /\ TypeOK' /\ Lives /\ SceneIdle /\ StageKnown
  BY TypeStep DEF GInv, OInv, UInv
<1>1. ASSUME NEW g \in Gw,
             \/ Start(g) \/ Crash(g) \/ LinkFails(g)
             \/ SendUp(g) \/ SendFails(g) \/ RecvDown(g)
             \/ SessionOpens(g) \/ SessionRecv(g) \/ SessionEnds(g) \/ SendDown(g)
      PROVE  [UplinkOf!Next]_(UplinkOf!vars)
  <2>0. g = Only
    BY DEF Alone
  <2>1. CASE Start(g)
    <3>1. /\ UNCHANGED <<players, inCh, wireUp, upstream, job, inbound, held,
                         loggedIn, stage, watchdog, raced>>
          /\ gateway[Only] = "new" /\ link'[Only] = "ok"
      BY <1>0, <2>0, <2>1 DEF Start, sceneVars, memory, table, pipe, TypeOK
    <3>2. link[Only] = "none"
      BY <1>0, <2>0, <3>1 DEF Lives, HandlerLink
    <3>3. Severed' = Severed
      BY <3>1, <3>2 DEF Severed
    <3>4. \A c \in Player : WayOf(c)' = WayOf(c)
      BY <3>1, <3>3 DEF WayOf, Beyond, Held, Slot
    <3>5. UNCHANGED <<Spoken, Ended, Gone, Lost, Joined, Overtaken>>
      BY <3>1, <3>3 DEF Spoken, Ended, Gone, Lost, Joined, Overtaken
    <3> QED BY <3>3, <3>4, <3>5, Stutters
  <2>2. CASE Crash(g) \/ LinkFails(g)
    <3>1. UNCHANGED <<players, inCh, wireUp>> /\ Severed'
      BY <1>0, <2>0, <2>2 DEF Crash, LinkFails, sceneVars, Severed, TypeOK
    <3> QED BY <1>0, <3>1, BreakingCuts
  <2>3. CASE SendFails(g)
    <3>1. UNCHANGED <<players, inCh, wireUp>> /\ Severed /\ Severed'
      BY <2>0, <2>3 DEF SendFails, outside, sceneVars, streams, Severed
    <3> QED BY <3>1, SeveredStep
  <2>4. CASE RecvDown(g) \/ SessionOpens(g) \/ SendDown(g)
    <3>1. UNCHANGED <<players, inCh, wireUp, upstream, job, inbound, held, link,
                      loggedIn, stage, watchdog, raced>>
      BY <2>4 DEF RecvDown, SessionOpens, SendDown, sceneVars, memory, table, pipe, streams
    <3>2. All' = All
      BY <3>1 DEF All, Queued, Slot, Severed
    <3> QED BY <1>0, <3>1, <3>2, MovingStutters
  <2>5. CASE SendUp(g)
    BY <2>0, <2>5, SendingMoves
  <2>6. CASE SessionRecv(g)
    BY <1>0, <2>0, <2>6, ReceivingMoves
  <2>7. CASE SessionEnds(g)
    BY <1>0, <2>0, <2>7, EndingCuts
  <2> QED BY <1>1, <2>1, <2>2, <2>3, <2>4, <2>5, <2>6, <2>7
<1>2. ASSUME NEW d \in Player, Accept(d)
      PROVE  [UplinkOf!Next]_(UplinkOf!vars)
  <2>1. /\ UNCHANGED <<players, inCh, wireUp, upstream, job, inbound, held, link, loggedIn,
                        raced>>
        /\ d = nextID + 1 /\ nextID \in Nat
        /\ \A c \in Player \ {d} : stage'[c] = stage[c] /\ watchdog'[c] = watchdog[c]
        /\ stage'[d] = "up" /\ watchdog'[d] = "wait"
    BY <1>0, <1>2, SessionAssumption DEF Accept, outside, sceneVars, streams, pipe, TypeOK
  <2>2. stage[d] = "new"
    <3>1. ~ (d <= nextID)
      BY <2>1
    <3> QED BY <1>0, <3>1 DEF StageKnown
  <2>3. ~ Left(d)
    BY <2>2 DEF GInv, LeftClosed
  <2>4. UNCHANGED <<Severed, Spoken, Lost, Joined, Overtaken>>
    BY <2>1 DEF Severed, Spoken, Lost, Joined, Overtaken
  <2>5. UNCHANGED <<Ended, Gone>>
    BY <2>1, <2>2, <2>3, <2>4 DEF Ended, Gone, Left
  <2> QED BY <2>1, <2>4, <2>5, SameWay, Stutters
<1>3. ASSUME NEW d \in Player, RemoveConn(d)
      PROVE  [UplinkOf!Next]_(UplinkOf!vars)
  <2>1. /\ UNCHANGED <<players, inCh, wireUp, upstream, job, inbound, held, link,
                       loggedIn, stage, raced>>
        /\ watchdog[d] = "remove" /\ watchdog' = [watchdog EXCEPT ![d] = "end"]
    BY <1>3 DEF RemoveConn, outside, sceneVars, streams, pipe
  <2>2. UNCHANGED <<Severed, Spoken, Ended, Lost, Joined, Overtaken>>
    BY <2>1 DEF Severed, Spoken, Ended, Lost, Joined, Overtaken
  <2>3. \A c \in Player : watchdog'[c] \in {"remove", "end"}
                             <=> watchdog[c] \in {"remove", "end"}
    BY <1>0, <2>1 DEF TypeOK
  <2>4. Gone' = Gone
    BY <2>2, <2>3 DEF Gone
  <2> QED BY <2>1, <2>2, <2>4, SameWay, Stutters
<1>4. ASSUME NEW d \in Player,
             \/ CloseConn(d) \/ ReadFrame(d) \/ PushFrame(d) \/ ReaderDone(d)
             \/ WatchdogLeave(d)
      PROVE  [UplinkOf!Next]_(UplinkOf!vars)
  BY <1>0, <1>4, ClosingEnds, ReadingSpeaks, PushingMoves, GivingUpDiscards,
     LeavingOvertakes
<1>5. CASE Logic
  BY <1>0, <1>5, TakingMoves, HandlingMoves DEF Logic
<1>6. CASE SceneRestart
  BY <1>0, <1>6, RestartingCuts
<1>7. CASE Drain
  BY <1>0, <1>7, DrainingArrives
<1>8. CASE (Tick /\ ~ Drain) \/ UNCHANGED vars
  <2>1. UNCHANGED <<players, inCh, wireUp, upstream, job, inbound, held, link,
                    loggedIn, stage, watchdog, raced>>
    BY <1>8 DEF Tick, SyncState, SyncOne, SyncAll, BroadcastAll, EndTick, Emit,
                OtherStep, TickStart, DrainDone, SyncDone, SkipAll, vars, outside,
                sceneVars, streams, memory, table, pipe
  <2>2. All' = All
    BY <2>1 DEF All, Queued, Slot, Severed
  <2> QED BY <1>0, <2>1, <2>2, MovingStutters
<1> QED BY <1>1, <1>2, <1>3, <1>4, <1>5, <1>6, <1>7, <1>8 DEF Next

\* With a process boundary on the way, too, and for every capacity of the queues
\* between a connection's reader and the scene, the promise of module Uplink is
\* kept for as long as the stream lasts: for each connection what it asks arrives
\* in order and once, complete but for a last request that its reader gives up
\* when it has ended, and at most one Leave goes its way after its end.  Whatever
\* fails, what arrives is the beginning of it.
THEOREM SessionImplementsUplink ==
  ASSUME NEW g, Gw = {g}
  PROVE  Spec => ImplementsUplink
<1>0. Alone
  BY DEF Alone, Only
<1>1. Init => UplinkOf!Init
  BY <1>0, UplinkInit
<1>2. GInv /\ UInv /\ [Next]_vars => [UplinkOf!Next]_(UplinkOf!vars)
  BY <1>0, UplinkStep
<1>3. Spec => [](GInv /\ UInv)
  BY <1>0, UInvHolds
<1> QED BY <1>1, <1>2, <1>3, PTL DEF Spec, ImplementsUplink, UplinkOf!Spec

=============================================================================
