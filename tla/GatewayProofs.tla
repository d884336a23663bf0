--------------------------- MODULE GatewayProofs ---------------------------
(***************************************************************************)
(* The invariants of Gateway, proved for any number of connections, every  *)
(* capacity of the two channels and all rates.                             *)
(***************************************************************************)
EXTENDS Gateway, SceneLemmas

-----------------------------------------------------------------------------
(* Type correctness.                                                       *)

LEMMA TypeInit == Init => TypeOK
BY SceneInitType, GatewayAssumption DEF Init, TypeOK

LEMMA TypeStep == TypeOK /\ [Next]_vars => TypeOK'
<1> SUFFICES ASSUME TypeOK, [Next]_vars PROVE TypeOK'
  OBVIOUS
<1> USE DEF TypeOK, connVars, reader, pipe, tables
<1>1. ASSUME NEW c \in Player, Accept(c) PROVE TypeOK'
  BY <1>1, SceneSame DEF Accept
<1>2. ASSUME NEW c \in Player, Hangup(c) PROVE TypeOK'
  BY <1>2, SceneSame DEF Hangup
<1>3. ASSUME NEW c \in Player, ReadFrame(c) PROVE TypeOK'
  BY <1>3, SceneSame DEF ReadFrame, Frame
<1>4. ASSUME NEW c \in Player, ReadFails(c) \/ WriteFails(c) PROVE TypeOK'
  BY <1>4, SceneSame DEF ReadFails, WriteFails, Close
<1>5. ASSUME NEW c \in Player, PushFrame(c) PROVE TypeOK'
  <2>1. [id |-> c, kind |-> held[c]] \in Inbound
    BY <1>5 DEF PushFrame, Inbound
  <2>2. inbound' \in Seq(Inbound) /\ Len(inbound') = Len(inbound) + 1
    BY <1>5, <2>1 DEF PushFrame, Push
  <2>3. Len(inbound') <= InboundCap
    BY <1>5, <2>2, GatewayAssumption DEF PushFrame, Push
  <2> QED BY <1>5, <2>2, <2>3, SceneSame DEF PushFrame
<1>6. ASSUME NEW c \in Player, ReaderDone(c) PROVE TypeOK'
  BY <1>6, SceneSame DEF ReaderDone
<1>7. CASE TakeInbound
  <2>1. Head(inbound) \in Inbound /\ Tail(inbound) \in Seq(Inbound)
        /\ Len(Tail(inbound)) = Len(inbound) - 1
    BY <1>7 DEF TakeInbound
  <2>2. Len(Tail(inbound)) <= InboundCap
    BY <2>1, GatewayAssumption
  <2> QED BY <1>7, <2>1, <2>2, SceneSame DEF TakeInbound
<1>8. CASE HandleLogin
  <2>1. job.id \in Player
    BY <1>8 DEF HandleLogin, Inbound
  <2> QED BY <1>8, <2>1, CallType DEF HandleLogin, LoginJoin
<1>9. CASE HandleMoveReq
  <2>1. job.id \in Player
    BY <1>9 DEF HandleMoveReq, Inbound
  <2> QED BY <1>9, <2>1, CallType DEF HandleMoveReq
<1>10. CASE HandleSpectate
  <2>1. job.id \in Player
    BY <1>10 DEF HandleSpectate, Inbound
  <2> QED BY <1>10, <2>1, SceneSame DEF HandleSpectate
<1>11. ASSUME NEW c \in Player, WatchdogLeave(c) PROVE TypeOK'
  BY <1>11, CallType DEF WatchdogLeave, LeaveSent
<1>12. ASSUME NEW c \in Player, RemoveConn(c) PROVE TypeOK'
  BY <1>12, SceneSame DEF RemoveConn, DeleteConn
<1>13. CASE Disconnect
  BY <1>13, SceneSame DEF Disconnect
<1>14. ASSUME NEW c \in Player, CloseVictim(c) PROVE TypeOK'
  BY <1>14, SceneSame DEF CloseVictim, Close
<1>15. CASE SyncAll
  BY <1>15, StillType DEF SyncAll, BroadcastAll, StillStep, Joined
<1>16. CASE SceneStep
  <2>1. CASE DrainOne
    BY <1>16, <2>1, DrainType DEF SceneStep
  <2>2. CASE StillStep
    BY <1>16, <2>2, StillType DEF SceneStep
  <2> QED BY <1>16, <2>1, <2>2 DEF SceneStep, StillStep, SkipAll
<1>17. CASE UNCHANGED vars
  BY <1>17, SceneSame DEF vars
<1> QED BY <1>1, <1>2, <1>3, <1>4, <1>5, <1>6, <1>7, <1>8, <1>9, <1>10, <1>11,
           <1>12, <1>13, <1>14, <1>15, <1>16, <1>17 DEF Next, Logic, Tick

\* The state keeps its types: in particular neither inbound nor the scene's
\* channel ever holds more than its capacity.
THEOREM TypeCorrect == Spec => []TypeOK
BY TypeInit, TypeStep, PTL DEF Spec

-----------------------------------------------------------------------------
(* Nobody is left behind but by a race.                                    *)

\* The watchdog of c has sent its Leave.
Left(c) == watchdog[c] \in {"remove", "end"}

\* A watchdog begins its work once its connection is closed for good: no frame
\* is read from it any more.
LeftClosed == \A c \in Player : Left(c) => stage[c] = "closed"

\* What a connection has still in the pipeline at that time was overtaken.
PipelineRaced ==
  \A c \in Player :
    /\ Left(c) /\ InPipeline(c, "login") => c \in raced
    /\ watchdog[c] = "end" /\ InPipeline(c, "spectate") => c \in raced

\* The inputs in the scene's channel take everybody else out.
LeavesFollow ==
  \A c \in Player : Left(c) => c \in raced \/ WillBeGone(inCh, c, Joined)

IInv == TypeOK /\ LeftClosed /\ PipelineRaced /\ LeavesFollow /\ LeakOnlyIfRaced

LEMMA IInvInit == Init => IInv
<1> SUFFICES ASSUME Init PROVE IInv
  OBVIOUS
<1>1. \A c \in Player : ~ Left(c)
  BY DEF Init, Left
<1> QED BY <1>1, TypeInit
        DEF IInv, Init, Left, LeftClosed, PipelineRaced, LeavesFollow, LeakOnlyIfRaced

LEMMA GhostFollows == IInv => GhostOnlyIfRaced
<1> SUFFICES ASSUME IInv, NEW c \in Player, Left(c), c \in Joined, c \notin raced
             PROVE  LeaveQueued(c)
  BY DEF GhostOnlyIfRaced, Left
<1>1. WillBeGone(inCh, c, Joined) /\ inCh \in Seq(Input)
  BY DEF IInv, LeavesFollow, TypeOK, SceneTypeOK
<1>2. \E j \in 1 .. Len(inCh) : inCh[j].kind = "leave" /\ inCh[j].id = c
  BY <1>1 DEF WillBeGone
<1> QED BY <1>1, <1>2 DEF LeaveQueued

\* A step that leaves stages, watchdogs, raced, the scene and the pipeline's
\* contents alone, or removes from the latter.
LEMMA QuietStep ==
  ASSUME IInv, TypeOK',
         UNCHANGED <<players, inCh, watchdog, raced>>,
         \A c \in Player : stage[c] = "closed" => stage'[c] = "closed",
         \A c \in Player : stage[c] = "closed" =>
           \A f \in {"login", "spectate"} : InPipeline(c, f)' => InPipeline(c, f),
         \A c \in spectators' \ spectators : InPipeline(c, "spectate")
  PROVE  IInv'
<1>1. \A c \in Player : Left(c)' <=> Left(c)
  BY DEF Left
<1>2. LeftClosed'
  BY <1>1 DEF IInv, LeftClosed
<1>3. \A c \in Player : Left(c) => stage[c] = "closed"
  BY DEF IInv, LeftClosed
<1>4. \A c \in Player : watchdog[c] = "end" => Left(c)
  BY DEF Left
<1>5. PipelineRaced'
  BY <1>1, <1>3, <1>4 DEF IInv, PipelineRaced
<1>6. LeavesFollow'
  BY <1>1 DEF IInv, LeavesFollow, Joined
<1>7. LeakOnlyIfRaced'
  BY <1>4 DEF IInv, LeakOnlyIfRaced, PipelineRaced, TypeOK
<1> QED BY <1>2, <1>5, <1>6, <1>7 DEF IInv

\* Who has what in the pipeline after the steps that change it.
LEMMA PushKeeps ==
  ASSUME TypeOK, NEW d \in Player, PushFrame(d), NEW c \in Player, NEW f \in Frame
  PROVE  InPipeline(c, f)' <=> InPipeline(c, f)
<1> DEFINE new == [id |-> d, kind |-> held[d]]
           old == [id |-> c, kind |-> f]
<1>1. inbound \in Seq(Inbound) /\ inbound' = Append(inbound, new) /\ new \in Inbound
  BY DEF PushFrame, Push, TypeOK, Inbound
<1>2. ToSet(inbound') = ToSet(inbound) \cup {new}
  BY <1>1, AppendHolds DEF ToSet
<1>3. old = new <=> c = d /\ held[d] = f
  OBVIOUS
<1>4. held'[c] = f <=> held[c] = f /\ c # d
  BY GatewayAssumption DEF PushFrame, TypeOK
<1> QED BY <1>2, <1>3, <1>4 DEF InPipeline, PushFrame

LEMMA TakeKeeps ==
  ASSUME TypeOK, TakeInbound, NEW c \in Player, NEW f \in Frame
  PROVE  InPipeline(c, f)' <=> InPipeline(c, f)
<1> DEFINE old == [id |-> c, kind |-> f]
<1>1. inbound \in Seq(Inbound) /\ inbound # <<>> /\ old \in Inbound
  BY DEF TakeInbound, TypeOK, Inbound
<1>2. ToSet(inbound) = ToSet(Tail(inbound)) \cup {Head(inbound)}
  BY <1>1, TailHolds DEF ToSet
<1>3. held'[c] = held[c] /\ job = Nil /\ job' = Head(inbound) /\ inbound' = Tail(inbound)
  BY DEF TakeInbound, connVars, reader
<1>4. old # job
  BY <1>1, <1>3, GatewayAssumption
<1> QED BY <1>2, <1>3, <1>4 DEF InPipeline

\* When a handler is through, the pipeline has nothing that it did not have.
LEMMA HandledKeeps ==
  ASSUME job' = Nil, UNCHANGED <<inbound, held>>,
         NEW c \in Player, NEW f \in Frame, InPipeline(c, f)'
  PROVE  InPipeline(c, f)
<1>1. [id |-> c, kind |-> f] # Nil
  BY GatewayAssumption DEF Inbound
<1> QED BY <1>1 DEF InPipeline

LEMMA JobInPipeline ==
  ASSUME TypeOK, job # Nil
  PROVE  job.id \in Player /\ job.kind \in Frame /\ InPipeline(job.id, job.kind)
<1>1. job \in Inbound /\ job = [id |-> job.id, kind |-> job.kind]
  BY DEF TypeOK, Inbound
<1> QED BY <1>1 DEF InPipeline, Inbound

LEMMA SendKeeps ==
  ASSUME TypeOK, LeavesFollow, NEW in \in Input, Send(in),
         in.kind = "join" => in.id \in raced \/ ~ Left(in.id),
         raced \subseteq raced',
         \A c \in Player : Left(c)' => Left(c) \/ in = [kind |-> "leave", id |-> c]
  PROVE  LeavesFollow'
<1>1. inCh \in Seq(Input) /\ inCh' = Append(inCh, in) /\ Joined' = Joined
  BY DEF TypeOK, SceneTypeOK, Send, Joined
<1> SUFFICES ASSUME NEW c \in Player, Left(c)', c \notin raced'
             PROVE  WillBeGone(inCh', c, Joined')
  BY DEF LeavesFollow
<1>2. CASE Left(c)
  <2>1. WillBeGone(inCh, c, Joined)
    BY <1>2 DEF LeavesFollow
  <2>2. in.kind = "join" => in.id # c
    BY <1>2
  <2>3. WillBeGone(Append(inCh, in), c, Joined)
    BY <1>1, <2>1, <2>2, GoneAfterSend
  <2> QED BY <1>1, <2>3
<1>3. CASE in = [kind |-> "leave", id |-> c]
  BY <1>1, <1>3, GoneAfterLeave
<1> QED BY <1>2, <1>3

LEMMA IInvStep == IInv /\ [Next]_vars => IInv'
<1> SUFFICES ASSUME IInv, [Next]_vars PROVE IInv'
  OBVIOUS
<1> USE DEF IInv
<1>0. TypeOK /\ TypeOK'
  BY TypeStep
<1> HIDE DEF IInv
<1>a. UNCHANGED sceneVars => UNCHANGED <<players, inCh>>
  BY DEF sceneVars
<1>1. ASSUME NEW d \in Player, Accept(d) PROVE IInv'
  <2>1. \A c \in Player : Left(c)' => Left(c) /\ watchdog'[c] = watchdog[c]
    BY <1>0, <1>1 DEF Accept, Left, TypeOK
  <2>2. ~ Left(d)
    BY <1>1 DEF IInv, LeftClosed, Accept
  <2>3. LeftClosed'
    BY <1>0, <1>1, <2>1, <2>2 DEF IInv, LeftClosed, Accept, TypeOK
  <2>4. PipelineRaced'
    BY <1>1, <2>1 DEF IInv, PipelineRaced, Accept, InPipeline, pipe, reader, Left
  <2>5. LeavesFollow'
    BY <1>1, <2>1 DEF IInv, LeavesFollow, Accept, sceneVars, Joined
  <2>6. LeakOnlyIfRaced'
    BY <1>0, <1>1, <2>1 DEF IInv, LeakOnlyIfRaced, Accept, Left, TypeOK
  <2> QED BY <1>0, <2>3, <2>4, <2>5, <2>6 DEF IInv
<1>2. ASSUME NEW d \in Player, Hangup(d) PROVE IInv'
  BY <1>0, <1>a, <1>2, QuietStep
     DEF Hangup, InPipeline, pipe, reader, tables, TypeOK
<1>3. ASSUME NEW d \in Player, ReadFrame(d) PROVE IInv'
  <2>1. \A c \in Player : stage[c] = "closed" => c # d
    BY <1>3 DEF ReadFrame
  <2>2. \A c \in Player : stage[c] = "closed" => held'[c] = held[c]
    BY <1>0, <1>3, <2>1 DEF ReadFrame, TypeOK
  <2> QED BY <1>0, <1>a, <1>3, <2>2, QuietStep
          DEF ReadFrame, InPipeline, pipe, tables
<1>4. ASSUME NEW d \in Player, ReadFails(d) \/ WriteFails(d) PROVE IInv'
  BY <1>0, <1>a, <1>4, QuietStep
     DEF ReadFails, WriteFails, Close, InPipeline, pipe, reader, tables, TypeOK
<1>5. ASSUME NEW d \in Player, PushFrame(d) PROVE IInv'
  BY <1>0, <1>a, <1>5, PushKeeps, QuietStep DEF PushFrame, tables, Frame
<1>6. ASSUME NEW d \in Player, ReaderDone(d) PROVE IInv'
  <2>1. \A c \in Player, f \in Frame : held'[c] = f => held[c] = f
    BY <1>0, <1>6 DEF ReaderDone, TypeOK, Frame
  <2> QED BY <1>0, <1>a, <1>6, <2>1, QuietStep
          DEF ReaderDone, InPipeline, pipe, tables, Frame
<1>7. CASE TakeInbound
  BY <1>0, <1>a, <1>7, TakeKeeps, QuietStep
     DEF TakeInbound, connVars, tables, Frame
<1>8. CASE HandleLogin
  <2>1. job.id \in Player /\ InPipeline(job.id, "login")
    BY <1>0, <1>8, JobInPipeline DEF HandleLogin
  <2>2. Send([kind |-> "join", id |-> job.id, pos |-> Spawn])
    BY <1>8 DEF HandleLogin, LoginJoin, Join
  <2>3. job.id \in raced \/ ~ Left(job.id)
    BY <2>1 DEF IInv, PipelineRaced
  <2>4. UNCHANGED <<stage, held, watchdog, raced, spectators, inbound>> /\ job' = Nil
    BY <1>8 DEF HandleLogin, connVars, reader, tables
  <2>5. LeavesFollow'
    BY <1>0, <2>1, <2>2, <2>3, <2>4, SendKeeps, Inputs DEF IInv, Left
  <2>6. LeftClosed' /\ LeakOnlyIfRaced'
    BY <2>4 DEF IInv, LeftClosed, LeakOnlyIfRaced, Left
  <2>7. PipelineRaced'
    BY <2>4, HandledKeeps DEF IInv, PipelineRaced, Left, Frame
  <2> QED BY <1>0, <2>5, <2>6, <2>7 DEF IInv
<1>9. CASE HandleMoveReq
  <2>1. job.id \in Player
    BY <1>0, <1>9, JobInPipeline DEF HandleMoveReq
  <2>2. PICK pos \in Pos : Send([kind |-> "move", id |-> job.id, pos |-> pos])
    BY <1>9 DEF HandleMoveReq, Move
  <2>4. UNCHANGED <<stage, held, watchdog, raced, spectators, inbound>> /\ job' = Nil
    BY <1>9 DEF HandleMoveReq, connVars, reader, tables
  <2>5. LeavesFollow'
    BY <1>0, <2>1, <2>2, <2>4, SendKeeps, Inputs DEF IInv, Left
  <2>6. LeftClosed' /\ LeakOnlyIfRaced'
    BY <2>4 DEF IInv, LeftClosed, LeakOnlyIfRaced, Left
  <2>7. PipelineRaced'
    BY <2>4, HandledKeeps DEF IInv, PipelineRaced, Left, Frame
  <2> QED BY <1>0, <2>5, <2>6, <2>7 DEF IInv
<1>10. CASE HandleSpectate
  <2>1. job.id \in Player /\ InPipeline(job.id, "spectate")
    BY <1>0, <1>10, JobInPipeline DEF HandleSpectate
  <2> QED BY <1>0, <1>a, <1>10, <2>1, HandledKeeps, QuietStep
          DEF HandleSpectate, reader, Frame
<1>11. ASSUME NEW d \in Player, WatchdogLeave(d) PROVE IInv'
  <2>1. /\ stage[d] = "closed" /\ UNCHANGED <<stage, held, spectators, inbound, job>>
        /\ watchdog' = [watchdog EXCEPT ![d] = "remove"]
        /\ raced' = IF InPipeline(d, "login") THEN raced \cup {d} ELSE raced
    BY <1>11 DEF WatchdogLeave, WatchdogDue, LeaveSent, pipe, reader, tables
  <2>2. \A c \in Player \ {d} : watchdog'[c] = watchdog[c] /\ (Left(c)' <=> Left(c))
    BY <1>0, <2>1 DEF TypeOK, Left
  <2>3. watchdog'[d] = "remove"
    BY <1>0, <2>1 DEF TypeOK
  <2>4. \A c \in Player : \A f : InPipeline(c, f)' <=> InPipeline(c, f)
    BY <2>1 DEF InPipeline
  <2>5. LeavesFollow'
    <3>1. Send([kind |-> "leave", id |-> d])
      BY <1>11 DEF WatchdogLeave, Leave
    <3> QED BY <1>0, <2>1, <2>2, <3>1, SendKeeps, Inputs DEF IInv
  <2>6. LeftClosed'
    BY <2>1, <2>2 DEF IInv, LeftClosed
  <2>7. PipelineRaced'
    BY <2>1, <2>2, <2>3, <2>4 DEF IInv, PipelineRaced
  <2>8. LeakOnlyIfRaced'
    BY <1>0, <2>1, <2>2, <2>3 DEF IInv, LeakOnlyIfRaced, TypeOK
  <2> QED BY <1>0, <2>5, <2>6, <2>7, <2>8 DEF IInv
<1>12. ASSUME NEW d \in Player, RemoveConn(d) PROVE IInv'
  <2>1. /\ watchdog[d] = "remove"
        /\ UNCHANGED <<players, inCh, stage, held, inbound, job>>
        /\ watchdog' = [watchdog EXCEPT ![d] = "end"]
        /\ raced' = IF InPipeline(d, "spectate") THEN raced \cup {d} ELSE raced
        /\ spectators' = spectators \ {d}
    BY <1>12 DEF RemoveConn, DeleteConn, sceneVars, pipe, reader
  <2>2. \A c \in Player : Left(c)' <=> Left(c)
    BY <1>0, <2>1 DEF TypeOK, Left
  <2>3. \A c \in Player \ {d} : watchdog'[c] = watchdog[c]
    BY <1>0, <2>1 DEF TypeOK
  <2>4. \A c \in Player : \A f : InPipeline(c, f)' <=> InPipeline(c, f)
    BY <2>1 DEF InPipeline
  <2>5. LeavesFollow'
    BY <2>1, <2>2 DEF IInv, LeavesFollow, Joined
  <2>6. LeftClosed'
    BY <2>1, <2>2 DEF IInv, LeftClosed
  <2>7. PipelineRaced'
    BY <2>1, <2>2, <2>3, <2>4 DEF IInv, PipelineRaced, Left
  <2>8. LeakOnlyIfRaced'
    BY <1>0, <2>1, <2>3 DEF IInv, LeakOnlyIfRaced, TypeOK
  <2> QED BY <1>0, <2>5, <2>6, <2>7, <2>8 DEF IInv
<1>13. CASE Disconnect
  BY <1>0, <1>a, <1>13, QuietStep
     DEF Disconnect, InPipeline, pipe, reader, TypeOK
<1>14. ASSUME NEW d \in Player, CloseVictim(d) PROVE IInv'
  BY <1>0, <1>a, <1>14, QuietStep
     DEF CloseVictim, Close, InPipeline, pipe, reader, TypeOK
<1>15. CASE SyncAll
  <2>1. UNCHANGED <<players, inCh>>
    BY <1>15 DEF SyncAll, BroadcastAll, EndTick
  <2> QED BY <1>0, <1>15, <2>1, QuietStep
          DEF SyncAll, InPipeline, pipe, reader
<1>16. CASE SceneStep
  <2>1. UNCHANGED <<stage, held, watchdog, raced, spectators, inbound, job>>
    BY <1>16 DEF SceneStep, connVars, pipe, reader, tables
  <2>2. CASE DrainOne
    <3>1. \A c \in Player : WillBeGone(inCh, c, Joined) => WillBeGone(inCh', c, Joined')
      <4>1. /\ <<>> \in Seq(Input) /\ inCh \o <<>> = inCh
            /\ inCh' \o <<>> = inCh'
        BY <1>0 DEF TypeOK, SceneTypeOK
      <4> QED BY <1>0, <2>2, <4>1, GoneAfterDrain DEF TypeOK
    <3>2. LeavesFollow'
      BY <2>1, <3>1 DEF IInv, LeavesFollow, Left
    <3> QED BY <1>0, <2>1, <3>2
            DEF IInv, LeftClosed, PipelineRaced, LeakOnlyIfRaced, Left, InPipeline
  <2>3. CASE StillStep
    <3>1. UNCHANGED <<players, inCh>>
      BY <1>0, <2>3, StillType DEF TypeOK
    <3> QED BY <1>0, <2>1, <3>1, QuietStep DEF InPipeline
  <2> QED BY <1>16, <2>2, <2>3 DEF SceneStep, StillStep, SkipAll
<1>17. CASE UNCHANGED vars
  <2>1. UNCHANGED <<players, inCh, stage, held, watchdog, raced, spectators, inbound, job>>
    BY <1>17 DEF vars, sceneVars, connVars, pipe, reader, tables
  <2> QED BY <1>0, <2>1, QuietStep DEF InPipeline
<1> QED BY <1>1, <1>2, <1>3, <1>4, <1>5, <1>6, <1>7, <1>8, <1>9, <1>10, <1>11,
           <1>12, <1>13, <1>14, <1>15, <1>16, <1>17 DEF Next, Logic, Tick

LEMMA InvariantHolds == Spec => []IInv
BY IInvInit, IInvStep, PTL DEF Spec

\* The watchdog's Leave takes the player of an ended connection out of the
\* scene, whatever the channels hold and whoever else uses them, but for the
\* one race: that the Leave overtook the connection's own login.
THEOREM GhostsAreRaced == Spec => []GhostOnlyIfRaced
BY InvariantHolds, GhostFollows, PTL

\* removeConn takes an ended connection out of the table of spectators for good,
\* unless its Spectate was overtaken.
THEOREM LeaksAreRaced == Spec => []LeakOnlyIfRaced
<1>1. IInv => LeakOnlyIfRaced
  BY DEF IInv
<1> QED BY <1>1, InvariantHolds, PTL

-----------------------------------------------------------------------------
(* The way that module Uplink describes.                                   *)

\* What is still on its way was sent as what the connection is used for, and
\* only a connection that has ended can have been overtaken.
RolesAgree ==
  \A c \in Player :
    /\ InPipeline(c, "login") \/ InPipeline(c, "move") => role[c] = "player"
    /\ InPipeline(c, "spectate") => role[c] = "spectator"

RacedClosed == \A c \in raced : stage[c] = "closed"

MapInv == RolesAgree /\ RacedClosed

LEMMA MapInit == Init => MapInv
<1> SUFFICES ASSUME Init PROVE MapInv
  OBVIOUS
<1>1. \A c \in Player, f \in Frame : ~ InPipeline(c, f)
  <2>1. \A c \in Player, f \in Frame : [id |-> c, kind |-> f] # Nil /\ f # Nil
    BY GatewayAssumption DEF Inbound
  <2>2. ToSet(<<>>) = {}
    BY DEF ToSet
  <2> QED BY <2>1, <2>2 DEF Init, InPipeline
<1> QED BY <1>1 DEF Init, MapInv, RolesAgree, RacedClosed, Frame

\* A step that leaves the roles and raced alone and reads nothing.
LEMMA MapQuiet ==
  ASSUME MapInv, UNCHANGED <<role, raced>>,
         \A c \in Player : stage[c] = "closed" => stage'[c] = "closed",
         \A c \in Player, f \in Frame : InPipeline(c, f)' => InPipeline(c, f),
         TypeOK
  PROVE  MapInv'
<1>1. RolesAgree'
  BY DEF MapInv, RolesAgree, Frame
<1>2. RacedClosed'
  BY DEF MapInv, RacedClosed, TypeOK
<1> QED BY <1>1, <1>2 DEF MapInv

LEMMA MapStep == IInv /\ MapInv /\ [Next]_vars => MapInv'
<1> SUFFICES ASSUME IInv, MapInv, [Next]_vars PROVE MapInv'
  OBVIOUS
<1>0. TypeOK /\ TypeOK'
  BY TypeStep DEF IInv
<1>1. ASSUME NEW d \in Player, Accept(d) \/ Hangup(d) \/ ReadFails(d) \/ WriteFails(d)
                               \/ CloseVictim(d)
      PROVE  MapInv'
  BY <1>0, <1>1, MapQuiet
     DEF Accept, Hangup, ReadFails, WriteFails, CloseVictim, Close, InPipeline, pipe,
         reader, tables, TypeOK
<1>2. ASSUME NEW d \in Player, ReadFrame(d) PROVE MapInv'
  <2>1. /\ stage[d] # "closed" /\ UNCHANGED <<stage, raced, inbound, job>>
        /\ \A c \in Player \ {d} : held'[c] = held[c] /\ role'[c] = role[c]
        /\ \/ role[d] = "none" /\ role'[d] = "player" /\ held'[d] = "login"
           \/ role[d] = "none" /\ role'[d] = "spectator" /\ held'[d] = "spectate"
           \/ role[d] = "player" /\ role'[d] = "player" /\ held'[d] = "move"
    BY <1>0, <1>2, GatewayAssumption DEF ReadFrame, pipe, tables, TypeOK
  <2>2. \A c \in Player, f \in Frame : InPipeline(c, f)' =>
          InPipeline(c, f) \/ (c = d /\ held'[d] = f)
    BY <2>1 DEF InPipeline
  <2>3. RolesAgree'
    BY <2>1, <2>2 DEF MapInv, RolesAgree, Frame
  <2> QED BY <2>1, <2>3 DEF MapInv, RacedClosed
<1>3. ASSUME NEW d \in Player, PushFrame(d) PROVE MapInv'
  BY <1>0, <1>3, PushKeeps, MapQuiet DEF PushFrame, tables
<1>4. ASSUME NEW d \in Player, ReaderDone(d) PROVE MapInv'
  <2>1. \A c \in Player, f \in Frame : held'[c] = f => held[c] = f
    BY <1>0, <1>4 DEF ReaderDone, TypeOK, Frame
  <2> QED BY <1>0, <1>4, <2>1, MapQuiet DEF ReaderDone, InPipeline, pipe, tables
<1>5. CASE TakeInbound
  BY <1>0, <1>5, TakeKeeps, MapQuiet DEF TakeInbound, connVars, reader, tables
<1>6. CASE HandleLogin \/ HandleMoveReq \/ HandleSpectate
  BY <1>0, <1>6, HandledKeeps, MapQuiet
     DEF HandleLogin, HandleMoveReq, HandleSpectate, connVars, reader, tables
<1>7. ASSUME NEW d \in Player, WatchdogLeave(d) PROVE MapInv'
  <2>1. /\ stage[d] = "closed" /\ raced' \subseteq raced \cup {d}
        /\ UNCHANGED <<stage, role, held, inbound, job>>
    BY <1>7 DEF WatchdogLeave, WatchdogDue, LeaveSent, pipe, reader
  <2> QED BY <2>1 DEF MapInv, RolesAgree, RacedClosed, InPipeline
<1>8. ASSUME NEW d \in Player, RemoveConn(d) PROVE MapInv'
  <2>1. /\ watchdog[d] = "remove" /\ raced' \subseteq raced \cup {d}
        /\ UNCHANGED <<stage, role, held, inbound, job>>
    BY <1>8 DEF RemoveConn, pipe, reader
  <2>2. stage[d] = "closed"
    BY <2>1 DEF IInv, LeftClosed, Left
  <2> QED BY <2>1, <2>2 DEF MapInv, RolesAgree, RacedClosed, InPipeline
<1>9. CASE Disconnect \/ Tick \/ UNCHANGED vars
  <2>1. UNCHANGED <<stage, role, held, raced, inbound, job>>
    BY <1>9 DEF Disconnect, Tick, SyncAll, SceneStep, vars, connVars, pipe, reader, tables
  <2> QED BY <2>1 DEF MapInv, RolesAgree, RacedClosed, InPipeline
<1> QED BY <1>1, <1>2, <1>3, <1>4, <1>5, <1>6, <1>7, <1>8, <1>9 DEF Next, Logic

LEMMA MapHolds == Spec => [](IInv /\ MapInv)
<1>1. Init => IInv /\ MapInv
  BY IInvInit, MapInit
<1>2. IInv /\ MapInv /\ [Next]_vars => IInv' /\ MapInv'
  BY IInvStep, MapStep
<1> QED BY <1>1, <1>2, PTL DEF Spec

\* The way of c through the queue q, the job j, the queue b and the frame h.
Pipe(c, q, j, b, h) ==
  Asks(c, q \o Slot(j) \o b \o (IF h \in Frame THEN <<[id |-> c, kind |-> h]>> ELSE <<>>))

\* What the reader of a connection may have in its hands.
InHand == Frame \cup {Nil, "dropped"}

\* What a held frame asks for.
HeldAsks(c, h) == IF h \in Frame THEN Ask(c, [id |-> c, kind |-> h]) ELSE <<>>

LEMMA EmptyHand ==
  /\ Nil \in InHand /\ "dropped" \in InHand /\ Frame \subseteq InHand
  /\ \A c : HeldAsks(c, Nil) = <<>> /\ HeldAsks(c, "dropped") = <<>>
BY GatewayAssumption DEF InHand, HeldAsks, Frame

Passing == Input \cup Inbound

LEMMA PassingAsks == Asking(Passing)
BY DEF Asking, Passing, Input, Inbound, Frame, Asked

LEMMA SlotType ==
  ASSUME NEW c, NEW j \in Inbound \cup {Nil}
  PROVE  /\ Slot(j) \in Seq(Passing)
         /\ Asks(c, Slot(j)) = IF j = Nil THEN <<>> ELSE Ask(c, j)
<1>1. CASE j = Nil
  <2>1. Slot(j) = <<>>
    BY <1>1 DEF Slot
  <2> QED BY <1>1, <2>1, AsksEmpty
<1>2. CASE j # Nil
  <2>1. Slot(j) = <<j>> /\ j \in Passing
    BY <1>2 DEF Slot, Passing
  <2>2. <<j>> \in Seq(Passing) /\ Asks(c, <<j>>) = Ask(c, j)
    BY <2>1, PassingAsks, AsksSingle
  <2> QED BY <1>2, <2>1, <2>2
<1> QED BY <1>1, <1>2

LEMMA PipeParts ==
  ASSUME NEW c \in Player, NEW q \in Seq(Input), NEW j \in Inbound \cup {Nil},
         NEW b \in Seq(Inbound), NEW h \in InHand
  PROVE  /\ Pipe(c, q, j, b, h)
              = ((Asks(c, q) \o Asks(c, Slot(j))) \o Asks(c, b)) \o HeldAsks(c, h)
         /\ Asks(c, q) \in Seq(Asked) /\ Asks(c, Slot(j)) \in Seq(Asked)
         /\ Asks(c, b) \in Seq(Asked) /\ HeldAsks(c, h) \in Seq(Asked)
<1> DEFINE x == [id |-> c, kind |-> h]
           r == IF h \in Frame THEN <<x>> ELSE <<>>
<1>1. q \in Seq(Passing) /\ b \in Seq(Passing) /\ Slot(j) \in Seq(Passing)
  BY SlotType, SeqMonotonic DEF Passing
<1>2. r \in Seq(Passing) /\ Asks(c, r) = HeldAsks(c, h)
  <2>1. CASE h \notin Frame
    <3>1. r = <<>> /\ HeldAsks(c, h) = <<>>
      BY <2>1 DEF HeldAsks
    <3> HIDE DEF r
    <3> QED BY <3>1, AsksEmpty
  <2>2. CASE h \in Frame
    <3>1. x \in Passing /\ r = <<x>> /\ HeldAsks(c, h) = Ask(c, x)
      BY <2>2 DEF HeldAsks, Passing, Inbound
    <3> HIDE DEF r, x
    <3>2. <<x>> \in Seq(Passing) /\ Asks(c, <<x>>) = Ask(c, x)
      BY <3>1, PassingAsks, AsksSingle
    <3> QED BY <3>1, <3>2
  <2> QED BY <2>1, <2>2
<1>3. Pipe(c, q, j, b, h) = Asks(c, ((q \o Slot(j)) \o b) \o r)
  BY Zenon DEF Pipe
<1> HIDE DEF r
<1>4. q \o Slot(j) \in Seq(Passing) /\ (q \o Slot(j)) \o b \in Seq(Passing)
  BY <1>1, ConcatProperties
<1>5. Asks(c, ((q \o Slot(j)) \o b) \o r) = Asks(c, (q \o Slot(j)) \o b) \o Asks(c, r)
  BY <1>2, <1>4, PassingAsks, AsksConcat
<1>6. Asks(c, (q \o Slot(j)) \o b) = Asks(c, q \o Slot(j)) \o Asks(c, b)
  BY <1>1, <1>4, PassingAsks, AsksConcat
<1>7. Asks(c, q \o Slot(j)) = Asks(c, q) \o Asks(c, Slot(j))
  BY <1>1, PassingAsks, AsksConcat
<1>8. /\ Asks(c, q) \in Seq(Asked) /\ Asks(c, Slot(j)) \in Seq(Asked)
      /\ Asks(c, b) \in Seq(Asked) /\ Asks(c, r) \in Seq(Asked)
  BY <1>1, <1>2, PassingAsks, AsksType
<1>9. Pipe(c, q, j, b, h)
        = ((Asks(c, q) \o Asks(c, Slot(j))) \o Asks(c, b)) \o HeldAsks(c, h)
  BY <1>2, <1>3, <1>5, <1>6, <1>7
<1> QED BY <1>2, <1>8, <1>9

LEMMA EmptyPipe ==
  ASSUME NEW c \in Player, NEW q \in Seq(Input), NEW j \in Inbound \cup {Nil},
         NEW b \in Seq(Inbound)
  PROVE  Pipe(c, q, j, b, Nil) = ((Asks(c, q) \o Asks(c, Slot(j))) \o Asks(c, b)) \o <<>>
<1>1. Nil \in InHand /\ HeldAsks(c, Nil) = <<>>
  BY EmptyHand
<1>2. Pipe(c, q, j, b, Nil)
        = ((Asks(c, q) \o Asks(c, Slot(j))) \o Asks(c, b)) \o HeldAsks(c, Nil)
  BY <1>1, PipeParts
<1> QED BY ONLY <1>1, <1>2

LEMMA WayIsPipe ==
  /\ \A c \in Player : WayOf(c) = Pipe(c, inCh, job, inbound, held[c])
  /\ \A c \in Player : WayOf(c)' = Pipe(c, inCh', job', inbound', held'[c])
BY Zenon DEF WayOf, Pipe, Held, Slot

\* A frame that is pushed, a frame that logicLoop takes and an input made of a
\* frame are where they were.
LEMMA PipePush ==
  ASSUME NEW d \in Player, NEW c \in Player, NEW q \in Seq(Input),
         NEW j \in Inbound \cup {Nil}, NEW b \in Seq(Inbound), NEW h \in Frame
  PROVE  Pipe(c, q, j, Append(b, [id |-> d, kind |-> h]), Nil)
           = IF c = d THEN Pipe(c, q, j, b, h) ELSE Pipe(c, q, j, b, Nil)
<1> DEFINE x == [id |-> d, kind |-> h]
           y == Asks(c, q) \o Asks(c, Slot(j))
<1>1. x \in Inbound /\ Append(b, x) \in Seq(Inbound)
  BY DEF Inbound
<1>2. Pipe(c, q, j, Append(b, x), Nil) = (y \o Asks(c, Append(b, x))) \o <<>>
  BY <1>1, EmptyPipe
<1>3. Asks(c, Append(b, x)) = Asks(c, b) \o Ask(c, x)
  BY <1>1, AsksAppend
<1>4. /\ y \in Seq(Asked) /\ Asks(c, b) \in Seq(Asked)
      /\ Ask(c, x) \in Seq(Asked)
  <2>1. /\ Asks(c, q) \in Seq(Asked) /\ Asks(c, Slot(j)) \in Seq(Asked)
        /\ Asks(c, b) \in Seq(Asked)
    BY PipeParts, EmptyHand
  <2>2. x \in Passing
    BY <1>1 DEF Passing
  <2>3. Ask(c, x) \in Seq(Asked)
    BY <2>2, PassingAsks, AskType
  <2> QED BY <2>1, <2>3, ConcatProperties
<1>5. CASE c = d
  <2>2. HeldAsks(c, h) = Ask(c, x)
    BY <1>5 DEF HeldAsks
  <2>3. Pipe(c, q, j, b, h) = (y \o Asks(c, b)) \o Ask(c, x)
    <3>1. h \in InHand
      BY EmptyHand
    <3>2. Pipe(c, q, j, b, h) = (y \o Asks(c, b)) \o HeldAsks(c, h)
      BY <3>1, PipeParts
    <3> QED BY ONLY <2>2, <3>2
  <2> HIDE DEF x, y
  <2>4. (y \o (Asks(c, b) \o Ask(c, x))) \o <<>> = (y \o Asks(c, b)) \o Ask(c, x)
    <3>1. PICK k \in Seq(Asked), l \in Seq(Asked), m \in Seq(Asked) :
            k = y /\ l = Asks(c, b) /\ m = Ask(c, x)
      BY <1>4
    <3>2. (k \o l) \o m = k \o (l \o m)
      BY QueuesAssociate
    <3>3. (k \o l) \o m \in Seq(Asked)
      BY ConcatProperties
    <3>4. ((k \o l) \o m) \o <<>> = (k \o l) \o m
      BY <3>3, ConcatEmptySeq
    <3> QED BY ONLY <3>1, <3>2, <3>4
  <2> QED BY <1>2, <1>3, <1>5, <2>3, <2>4 DEF x
<1>6. CASE c # d
  <2>1. Ask(c, x) = <<>>
    BY <1>6 DEF Ask
  <2>2. Pipe(c, q, j, b, Nil) = (y \o Asks(c, b)) \o <<>>
    BY EmptyPipe
  <2> HIDE DEF x, y
  <2>3. Asks(c, b) \o <<>> = Asks(c, b)
    BY <1>4, ConcatEmptySeq
  <2> QED BY <1>2, <1>3, <1>6, <2>1, <2>2, <2>3 DEF x
<1> QED BY <1>5, <1>6

LEMMA PipeTake ==
  ASSUME NEW c, NEW q \in Seq(Input), NEW b \in Seq(Inbound), b # <<>>, NEW h
  PROVE  Pipe(c, q, Head(b), Tail(b), h) = Pipe(c, q, Nil, b, h)
<1>1. PICK x \in Inbound, t \in Seq(Inbound) : x = Head(b) /\ t = Tail(b)
  BY HeadTailProperties
<1>2. Slot(Nil) = <<>> /\ Slot(x) = <<x>>
  BY GatewayAssumption DEF Slot
<1>3. (q \o <<>>) \o b = (q \o <<x>>) \o t
  <2>1. q \in Seq(Passing) /\ b \in Seq(Passing) /\ t \in Seq(Passing) /\ x \in Passing
    BY SeqMonotonic DEF Passing
  <2>2. q \o <<>> = q /\ q \o <<x>> = Append(q, x)
    BY <2>1, ConcatEmptySeq, AppendIsConcat
  <2>3. Append(q, Head(b)) \o Tail(b) = q \o b
    BY <2>1, JoinedQueues
  <2> QED BY <1>1, <2>2, <2>3
<1> QED BY <1>1, <1>2, <1>3, Zenon DEF Pipe

LEMMA PipeHandle ==
  ASSUME NEW c \in Player, NEW q \in Seq(Input), NEW j \in Inbound, NEW in \in Input,
         in.id = j.id, in.kind = IF j.kind = "login" THEN "join" ELSE j.kind,
         j.kind # "spectate", NEW b \in Seq(Inbound), NEW h \in InHand
  PROVE  Pipe(c, Append(q, in), Nil, b, h) = Pipe(c, q, j, b, h)
<1>1. Append(q, in) \in Seq(Input) /\ q \in Seq(Input)
  OBVIOUS
<1>2. Asks(c, Append(q, in)) = Asks(c, q) \o Ask(c, in)
  BY AsksAppend
<1>3. Ask(c, in) = Ask(c, j)
  <2>1. in.kind # "spectate" /\ in.kind # "login"
    BY DEF Input
  <2> QED BY <2>1 DEF Ask
<1>4. Asks(c, Slot(Nil)) = <<>> /\ Asks(c, Slot(j)) = Ask(c, j)
  <2>1. j # Nil
    BY GatewayAssumption
  <2> QED BY <2>1, SlotType
<1>5. Asks(c, Append(q, in)) \o Asks(c, Slot(Nil)) = Asks(c, q) \o Asks(c, Slot(j))
  <2>1. Asks(c, Append(q, in)) \in Seq(Asked)
    BY <1>1, PipeParts
  <2> QED BY <1>2, <1>3, <1>4, <2>1, ConcatEmptySeq
<1>6. Pipe(c, Append(q, in), Nil, b, h)
        = ((Asks(c, Append(q, in)) \o Asks(c, Slot(Nil))) \o Asks(c, b)) \o HeldAsks(c, h)
  BY <1>1, PipeParts
<1>7. Pipe(c, q, j, b, h)
        = ((Asks(c, q) \o Asks(c, Slot(j))) \o Asks(c, b)) \o HeldAsks(c, h)
  BY PipeParts
<1> QED BY ONLY <1>5, <1>6, <1>7

LEMMA PipeSpectate ==
  ASSUME NEW c \in Player, NEW q \in Seq(Input), NEW j \in Inbound,
         j.kind = "spectate", NEW b \in Seq(Inbound), NEW h \in InHand
  PROVE  Pipe(c, q, Nil, b, h) = Pipe(c, q, j, b, h)
<1>1. Asks(c, Slot(Nil)) = <<>> /\ Asks(c, Slot(j)) = <<>>
  <2>1. j # Nil /\ Ask(c, j) = <<>>
    BY GatewayAssumption DEF Ask
  <2> QED BY <2>1, SlotType
<1>2. Pipe(c, q, Nil, b, h)
        = ((Asks(c, q) \o Asks(c, Slot(Nil))) \o Asks(c, b)) \o HeldAsks(c, h)
  BY PipeParts
<1>3. Pipe(c, q, j, b, h)
        = ((Asks(c, q) \o Asks(c, Slot(j))) \o Asks(c, b)) \o HeldAsks(c, h)
  BY PipeParts
<1> QED BY ONLY <1>1, <1>2, <1>3

-----------------------------------------------------------------------------
(* The steps of Gateway as steps of Uplink.                                *)

Ways      == [c \in Player |-> WayOf(c)]
Spoken    == { c \in Player : role[c] = "player" }
Ended     == { c \in Player : stage[c] = "closed" }
Gone      == { c \in Player : watchdog[c] \in {"remove", "end"} }
Lost      == { c \in Player : role[c] = "player" /\ held[c] = "dropped" }
Overtaken == { c \in raced : role[c] = "player" }

LEMMA Stutters ==
  ASSUME \A c \in Player : WayOf(c)' = WayOf(c),
         UNCHANGED <<Spoken, Ended, Gone, Lost, Joined, Overtaken>>
  PROVE  [UplinkOf!Next]_(UplinkOf!vars)
<1>1. Ways' = Ways
  BY DEF Ways
<1> QED BY <1>1 DEF UplinkOf!vars, Ways, Spoken, Ended, Gone, Lost, Overtaken

\* Only the way of d changes.
LEMMA OneWay ==
  ASSUME NEW d \in Player, \A c \in Player \ {d} : WayOf(c)' = WayOf(c)
  PROVE  Ways' = [Ways EXCEPT ![d] = WayOf(d)'] /\ Ways[d] = WayOf(d)
BY DEF Ways

LEMMA SameWays ==
  ASSUME UNCHANGED <<inCh, job, inbound>>, NEW c \in Player, held'[c] = held[c]
  PROVE  WayOf(c)' = WayOf(c)
BY WayIsPipe

LEMMA QueueTypes ==
  ASSUME TypeOK
  PROVE  /\ inCh \in Seq(Input) /\ job \in Inbound \cup {Nil} /\ inbound \in Seq(Inbound)
         /\ held \in [Player -> InHand] /\ \A c \in Player : held[c] \in InHand
BY DEF TypeOK, SceneTypeOK, InHand

\* Every close of a connection is the end of it, or no step if it has ended.
LEMMA ClosingEnds ==
  ASSUME TypeOK, NEW d \in Player, Close(d),
         UNCHANGED <<players, inCh, job, inbound, held, role, watchdog, raced>>
  PROVE  [UplinkOf!Next]_(UplinkOf!vars)
<1>1. \A c \in Player : WayOf(c)' = WayOf(c)
  BY SameWays
<1>2. UNCHANGED <<Spoken, Gone, Lost, Joined, Overtaken>>
  BY DEF Spoken, Gone, Lost, Joined, Overtaken
<1>3. Ended' = Ended \cup {d}
  BY DEF Ended, Close, TypeOK
<1>4. CASE stage[d] = "closed"
  <2>1. Ended' = Ended
    BY <1>3, <1>4 DEF Ended
  <2> QED BY <1>1, <1>2, <2>1, Stutters
<1>5. CASE stage[d] # "closed"
  <2>1. d \notin Ended /\ Ways' = Ways
    BY <1>1, <1>5 DEF Ended, Ways
  <2>2. UplinkOf!End(d)
    BY <1>2, <1>3, <2>1 DEF UplinkOf!End, Ways, Spoken, Ended, Gone, Lost, Overtaken
  <2> QED BY <2>2 DEF UplinkOf!Next
<1> QED BY <1>4, <1>5

\* What is read is spoken.
LEMMA ReadingSpeaks ==
  ASSUME IInv, MapInv, NEW d \in Player, ReadFrame(d)
  PROVE  [UplinkOf!Next]_(UplinkOf!vars)
<1>0. TypeOK
  BY DEF IInv
<1>1. /\ UNCHANGED <<players, inCh, job, inbound, stage, watchdog, raced>>
      /\ stage[d] = "up" /\ held[d] = Nil
      /\ \A c \in Player \ {d} : held'[c] = held[c] /\ role'[c] = role[c]
  BY <1>0 DEF ReadFrame, sceneVars, pipe, tables, TypeOK
<1>2. UNCHANGED <<Ended, Gone, Lost, Joined>>
  <2>1. held[d] # "dropped" /\ held'[d] # "dropped"
    BY <1>0, <1>1, GatewayAssumption DEF ReadFrame, TypeOK
  <2> QED BY <1>1, <2>1 DEF Ended, Gone, Lost, Joined
<1>3. d \notin raced /\ d \notin Ended
  BY <1>1 DEF MapInv, RacedClosed, Ended
<1>4. raced \subseteq Player
  BY <1>0 DEF TypeOK
<1>5. Overtaken' = Overtaken
  BY <1>1, <1>3, <1>4 DEF Overtaken
<1>6. \A c \in Player \ {d} : WayOf(c)' = WayOf(c)
  BY <1>1, SameWays
<1>7. PICK u \in Seq(Asked) :
        /\ WayOf(d) = u \o <<>>
        /\ held'[d] \in InHand => WayOf(d)' = u \o HeldAsks(d, held'[d])
  <2> DEFINE u == (Asks(d, inCh) \o Asks(d, Slot(job))) \o Asks(d, inbound)
  <2>1. u \in Seq(Asked)
    BY <1>0, QueueTypes, PipeParts, ConcatProperties
  <2>2. WayOf(d) = Pipe(d, inCh, job, inbound, Nil)
        /\ WayOf(d)' = Pipe(d, inCh, job, inbound, held'[d])
    BY <1>1, WayIsPipe
  <2>3. Pipe(d, inCh, job, inbound, Nil) = u \o <<>>
    BY <1>0, QueueTypes, EmptyPipe
  <2>4. ASSUME held'[d] \in InHand
        PROVE  Pipe(d, inCh, job, inbound, held'[d]) = u \o HeldAsks(d, held'[d])
    BY <1>0, <2>4, QueueTypes, PipeParts
  <2> HIDE DEF u
  <2> QED BY <2>1, <2>2, <2>3, <2>4
<1>8. u \o <<>> = u
  BY ConcatEmptySeq
<1>9. ASSUME NEW f \in {"login", "move"}, held'[d] = f, role'[d] = "player",
             IF f = "login" THEN d \notin Spoken ELSE d \in Spoken
      PROVE  [UplinkOf!Next]_(UplinkOf!vars)
  <2>1. HeldAsks(d, f) = << IF f = "login" THEN "join" ELSE f >>
    <3>1. f \in Frame /\ f # "spectate"
      BY DEF Frame
    <3> QED BY <3>1 DEF HeldAsks, Ask
  <2>2. WayOf(d)' = u \o << IF d \in Spoken THEN "move" ELSE "join" >>
    BY <1>7, <1>9, <2>1 DEF Frame, InHand
  <2>3. (IF d \in Spoken THEN "move" ELSE "join") \in Asked
    BY DEF Asked
  <2>4. WayOf(d)' = Append(WayOf(d), IF d \in Spoken THEN "move" ELSE "join")
    BY <1>7, <1>8, <2>2, <2>3, AppendIsConcat
  <2>5. Ways' = [Ways EXCEPT ![d] = Append(@, IF d \in Spoken THEN "move" ELSE "join")]
    BY <1>6, <2>4, OneWay
  <2>6. Spoken' = Spoken \cup {d}
    BY <1>1, <1>9 DEF Spoken
  <2>7. UplinkOf!Speak(d)
    BY <1>2, <1>3, <1>5, <2>5, <2>6
       DEF UplinkOf!Speak, Ways, Spoken, Ended, Gone, Lost, Overtaken
  <2> QED BY <2>7 DEF UplinkOf!Next
<1>10. ASSUME held'[d] = "spectate", role[d] = "none", role'[d] = "spectator"
       PROVE  [UplinkOf!Next]_(UplinkOf!vars)
  <2>1. HeldAsks(d, "spectate") = <<>>
    BY DEF HeldAsks, Ask
  <2>2. WayOf(d)' = WayOf(d)
    BY <1>7, <1>10, <2>1 DEF Frame, InHand
  <2>3. Spoken' = Spoken
    BY <1>1, <1>10 DEF Spoken
  <2> QED BY <1>2, <1>5, <1>6, <2>2, <2>3, Stutters
<1>11. \/ role[d] = "none" /\ role'[d] = "player" /\ held'[d] = "login"
       \/ role[d] = "none" /\ role'[d] = "spectator" /\ held'[d] = "spectate"
       \/ role[d] = "player" /\ role'[d] = "player" /\ held'[d] = "move"
  BY <1>0, GatewayAssumption DEF ReadFrame, TypeOK
<1> QED BY <1>9, <1>10, <1>11 DEF Spoken

\* What the reader gives up is discarded.
LEMMA GivingUpDiscards ==
  ASSUME TypeOK, RolesAgree, NEW d \in Player, ReaderDone(d)
  PROVE  [UplinkOf!Next]_(UplinkOf!vars)
<1>1. /\ UNCHANGED <<players, inCh, job, inbound, stage, role, watchdog, raced>>
      /\ stage[d] = "closed" /\ held[d] \in Frame /\ held'[d] = "dropped"
      /\ \A c \in Player \ {d} : held'[c] = held[c]
  BY DEF ReaderDone, sceneVars, pipe, tables, TypeOK
<1>2. UNCHANGED <<Spoken, Ended, Gone, Joined, Overtaken>>
  BY <1>1 DEF Spoken, Ended, Gone, Joined, Overtaken
<1>3. \A c \in Player \ {d} : WayOf(c)' = WayOf(c)
  BY <1>1, SameWays
<1>4. PICK u \in Seq(Asked) :
        WayOf(d) = u \o HeldAsks(d, held[d]) /\ WayOf(d)' = u \o <<>>
  <2> DEFINE u == (Asks(d, inCh) \o Asks(d, Slot(job))) \o Asks(d, inbound)
  <2>1. u \in Seq(Asked)
    BY QueueTypes, PipeParts, ConcatProperties
  <2>2. WayOf(d) = Pipe(d, inCh, job, inbound, held[d])
        /\ WayOf(d)' = Pipe(d, inCh, job, inbound, "dropped")
    BY <1>1, WayIsPipe
  <2>3. Pipe(d, inCh, job, inbound, "dropped") = u \o <<>>
    <3>1. Pipe(d, inCh, job, inbound, "dropped") = u \o HeldAsks(d, "dropped")
      BY QueueTypes, PipeParts, EmptyHand
    <3> QED BY <3>1, EmptyHand
  <2>4. Pipe(d, inCh, job, inbound, held[d]) = u \o HeldAsks(d, held[d])
    BY QueueTypes, PipeParts
  <2> HIDE DEF u
  <2> QED BY <2>1, <2>2, <2>3, <2>4
<1>5. CASE held[d] = "spectate"
  <2>1. HeldAsks(d, held[d]) = <<>>
    BY <1>5 DEF HeldAsks, Ask
  <2>2. role[d] # "player"
    BY <1>5 DEF RolesAgree, InPipeline
  <2>3. Lost' = Lost
    BY <1>1, <2>2 DEF Lost
  <2> QED BY <1>2, <1>3, <1>4, <2>1, <2>3, Stutters
<1>6. CASE held[d] # "spectate"
  <2>1. PICK x \in Asked : HeldAsks(d, held[d]) = <<x>> /\ x # "leave"
    <3>1. held[d] \in {"login", "move"}
      BY <1>1, <1>6 DEF Frame
    <3> QED BY <1>1, <3>1 DEF HeldAsks, Ask, Asked
  <2>2. WayOf(d) # <<>> /\ Last(WayOf(d)) = x /\ Front(WayOf(d)) = u
    BY <1>4, <2>1, TakeBack
  <2>3. WayOf(d)' = Front(WayOf(d))
    BY <1>4, <2>2, ConcatEmptySeq
  <2>4. Ways' = [Ways EXCEPT ![d] = Front(@)] /\ Ways[d] = WayOf(d)
    BY <1>3, <2>3, OneWay
  <2>5. d \in Ended
    BY <1>1 DEF Ended
  <2>6. UplinkOf!Last(Ways[d]) = x /\ UplinkOf!Front(Ways[d]) = Front(Ways[d])
    BY <2>2, <2>4, Zenon DEF UplinkOf!Last, UplinkOf!Front, Last, Front
  <2>7. Ways' = [Ways EXCEPT ![d] = UplinkOf!Front(@)]
    BY <2>4, <2>6
  <2>8. d \notin Lost /\ Lost' = Lost \cup {d}
    <3>1. role[d] = "player"
      BY <1>1, <1>6 DEF RolesAgree, InPipeline, Frame
    <3>2. held[d] # "dropped"
      BY <1>1 DEF Frame
    <3> QED BY <1>1, <3>1, <3>2 DEF Lost
  <2>9. UplinkOf!Discard(d)
    BY <1>2, <2>1, <2>2, <2>4, <2>5, <2>6, <2>7, <2>8
       DEF UplinkOf!Discard, Ways, Spoken, Ended, Gone, Lost, Overtaken
  <2> QED BY <2>9 DEF UplinkOf!Next
<1> QED BY <1>5, <1>6

\* A login is in the pipeline of d if and only if a join is on the way of d
\* behind the scene's channel.
LEMMA LoginBehind ==
  ASSUME TypeOK, NEW d \in Player
  PROVE  \E v \in Seq(Asked) :
           /\ v = (Asks(d, Slot(job)) \o Asks(d, inbound)) \o HeldAsks(d, held[d])
           /\ Holds(v, "join") <=> InPipeline(d, "login")
<1> DEFINE a == Asks(d, Slot(job))
           b == Asks(d, inbound)
           h == HeldAsks(d, held[d])
<1>1. a \in Seq(Asked) /\ b \in Seq(Asked) /\ h \in Seq(Asked)
  BY QueueTypes, PipeParts
<1>3. Holds(a, "join") <=> job # Nil /\ job.id = d /\ job.kind = "login"
  <2>1. a = IF job = Nil THEN <<>> ELSE Ask(d, job)
    BY QueueTypes, SlotType
  <2>2. job # Nil => job \in Inbound
    BY QueueTypes
  <2> HIDE DEF a
  <2>3. CASE job = Nil
    BY <2>1, <2>3 DEF Holds
  <2>4. CASE job # Nil
    BY <2>1, <2>2, <2>4 DEF Holds, Ask, Inbound, Frame
  <2> QED BY <2>3, <2>4
<1>4. Holds(h, "join") <=> held[d] = "login"
  <2>1. CASE held[d] \notin Frame
    <3>1. h = <<>> /\ held[d] # "login"
      BY <2>1 DEF HeldAsks, Frame
    <3> HIDE DEF h
    <3> QED BY <3>1 DEF Holds
  <2>2. CASE held[d] \in Frame
    <3>1. h = Ask(d, [id |-> d, kind |-> held[d]]) /\ held[d] \in Frame
      BY <2>2 DEF HeldAsks
    <3> HIDE DEF h
    <3> QED BY <3>1 DEF Holds, Ask, Frame
  <2> QED BY <2>1, <2>2
<1>5. Holds(b, "join") <=> HoldsJoin(inbound, d)
  <2>1. inbound \in Seq(Passing)
    BY QueueTypes, SeqMonotonic DEF Passing
  <2> QED BY <2>1, PassingAsks, AsksJoin
<1>6. HoldsJoin(inbound, d) <=> [id |-> d, kind |-> "login"] \in ToSet(inbound)
  <2>1. \A i \in 1 .. Len(inbound) : inbound[i] \in Inbound
    BY QueueTypes
  <2>2. \A x \in Inbound : x.id = d /\ x.kind \in {"login", "join"}
                             <=> x = [id |-> d, kind |-> "login"]
    BY DEF Inbound, Frame
  <2>3. DOMAIN inbound = 1 .. Len(inbound)
    BY QueueTypes
  <2> QED BY <2>1, <2>2, <2>3 DEF HoldsJoin, ToSet
<1>7. job = [id |-> d, kind |-> "login"] <=> job # Nil /\ job.id = d /\ job.kind = "login"
  <2>1. [id |-> d, kind |-> "login"] # Nil
    BY GatewayAssumption DEF Inbound, Frame
  <2> QED BY <2>1, QueueTypes DEF Inbound
<1>8. a \o b \in Seq(Asked) /\ (a \o b) \o h \in Seq(Asked)
  BY <1>1, ConcatProperties
<1> HIDE DEF a, b, h
<1>9. Holds((a \o b) \o h, "join") <=> InPipeline(d, "login")
  <2>1. Holds((a \o b) \o h, "join") <=> Holds(a, "join") \/ Holds(b, "join") \/ Holds(h, "join")
    BY <1>1, <1>8, JoinedHold
  <2> QED BY <1>3, <1>4, <1>5, <1>6, <1>7, <2>1 DEF InPipeline
<1> QED BY <1>8, <1>9 DEF a, b, h

\* The watchdog's Leave goes behind what the scene's channel holds and in front
\* of everything else.
LEMMA LeavingOvertakes ==
  ASSUME IInv, MapInv, NEW d \in Player, WatchdogLeave(d)
  PROVE  [UplinkOf!Next]_(UplinkOf!vars)
<1>0. TypeOK
  BY DEF IInv
<1> DEFINE in == [kind |-> "leave", id |-> d]
<1>1. /\ UNCHANGED <<players, job, inbound, held, stage, role>>
      /\ inCh' = Append(inCh, in) /\ in \in Input
      /\ stage[d] = "closed" /\ watchdog[d] = "wait"
      /\ watchdog' = [watchdog EXCEPT ![d] = "remove"]
      /\ raced' = IF InPipeline(d, "login") THEN raced \cup {d} ELSE raced
  BY Inputs DEF WatchdogLeave, WatchdogDue, LeaveSent, Leave, Send, pipe, reader
<1>2. UNCHANGED <<Spoken, Ended, Lost, Joined>> /\ d \in Ended
  BY <1>1 DEF Spoken, Ended, Lost, Joined
<1>3. Gone' = Gone \cup {d} /\ d \notin Gone
  BY <1>0, <1>1 DEF Gone, TypeOK
<1> HIDE DEF in
<1>4. \A c \in Player : Asks(c, inCh') = Asks(c, inCh) \o Ask(c, in)
  BY <1>0, <1>1, QueueTypes, AsksAppend
<1>5. \A c \in Player \ {d} : WayOf(c)' = WayOf(c)
  <2> SUFFICES ASSUME NEW c \in Player, c # d PROVE WayOf(c)' = WayOf(c)
    OBVIOUS
  <2>1. Ask(c, in) = <<>>
    BY DEF Ask, in
  <2>2. Asks(c, inCh) \in Seq(Asked)
    BY <1>0, QueueTypes, PipeParts
  <2>3. Asks(c, inCh') = Asks(c, inCh)
    BY <1>4, <2>1, <2>2, ConcatEmptySeq
  <2>4. Append(inCh, in) \in Seq(Input)
    BY <1>0, <1>1, QueueTypes
  <2>5. Pipe(c, inCh, job, inbound, held[c])
          = ((Asks(c, inCh) \o Asks(c, Slot(job))) \o Asks(c, inbound)) \o HeldAsks(c, held[c])
    BY <1>0, QueueTypes, PipeParts
  <2>6. Pipe(c, Append(inCh, in), job, inbound, held[c])
          = ((Asks(c, Append(inCh, in)) \o Asks(c, Slot(job))) \o Asks(c, inbound))
              \o HeldAsks(c, held[c])
    BY <1>0, <2>4, QueueTypes, PipeParts
  <2>7. Asks(c, Append(inCh, in)) = Asks(c, inCh)
    BY <1>1, <2>3
  <2>8. Pipe(c, Append(inCh, in), job, inbound, held[c])
          = Pipe(c, inCh, job, inbound, held[c])
    BY ONLY <2>5, <2>6, <2>7
  <2> QED BY <1>1, <2>8, WayIsPipe
<1>6. PICK v \in Seq(Asked) :
        /\ v = (Asks(d, Slot(job)) \o Asks(d, inbound)) \o HeldAsks(d, held[d])
        /\ Holds(v, "join") <=> InPipeline(d, "login")
  BY <1>0, LoginBehind
<1>7. PICK u \in Seq(Asked) : u = Asks(d, inCh)
  BY <1>0, QueueTypes, PipeParts
<1>8. "leave" \in Asked
  BY DEF Asked
<1>9. \A k \in Seq(Asked) :
        ((k \o Asks(d, Slot(job))) \o Asks(d, inbound)) \o HeldAsks(d, held[d]) = k \o v
  <2> SUFFICES ASSUME NEW k \in Seq(Asked)
               PROVE  ((k \o Asks(d, Slot(job))) \o Asks(d, inbound))
                        \o HeldAsks(d, held[d]) = k \o v
    OBVIOUS
  <2>1. PICK a \in Seq(Asked), b \in Seq(Asked), h \in Seq(Asked) :
          a = Asks(d, Slot(job)) /\ b = Asks(d, inbound) /\ h = HeldAsks(d, held[d])
    BY <1>0, QueueTypes, PipeParts
  <2>2. Regrouped(k, a, b, h)
    BY FourQueues
  <2> QED BY <1>6, <2>1, <2>2 DEF Regrouped
<1>10. WayOf(d) = u \o v
  <2>1. WayOf(d) = ((u \o Asks(d, Slot(job))) \o Asks(d, inbound)) \o HeldAsks(d, held[d])
    BY <1>0, <1>7, QueueTypes, PipeParts, WayIsPipe
  <2> QED BY <1>9, <2>1
<1>11. WayOf(d)' = (u \o <<"leave">>) \o v
  <2>1. Ask(d, in) = <<"leave">>
    BY DEF Ask, in
  <2>2. Append(inCh, in) \in Seq(Input)
    BY <1>0, <1>1, QueueTypes
  <2>3. PICK k \in Seq(Asked) : k = Asks(d, Append(inCh, in))
    BY <1>0, <2>2, QueueTypes, PipeParts
  <2>4. k = u \o <<"leave">>
    BY <1>1, <1>4, <1>7, <2>1, <2>3
  <2>5. WayOf(d)' = Pipe(d, Append(inCh, in), job, inbound, held[d])
    BY <1>1, WayIsPipe
  <2>6. Pipe(d, Append(inCh, in), job, inbound, held[d])
          = ((k \o Asks(d, Slot(job))) \o Asks(d, inbound)) \o HeldAsks(d, held[d])
    BY <1>0, <2>2, <2>3, QueueTypes, PipeParts
  <2> QED BY <1>9, <2>4, <2>5, <2>6
<1>12. /\ InsertAt(u \o v, Len(u) + 1, "leave") = (u \o <<"leave">>) \o v
       /\ Len(u) + 1 \in 1 .. Len(u \o v) + 1
       /\ (\E j \in Len(u) + 1 .. Len(u \o v) : (u \o v)[j] = "join")
            <=> Holds(v, "join")
  <2>1. PICK x \in Asked : x = "leave"
    BY <1>8
  <2>2. /\ InsertAt(u \o v, Len(u) + 1, x) = (u \o <<x>>) \o v
        /\ Len(u) + 1 \in 1 .. Len(u \o v) + 1
        /\ \A y : (\E j \in Len(u) + 1 .. Len(u \o v) : (u \o v)[j] = y) <=> Holds(v, y)
    BY InsertBetween, Zenon
  <2> QED BY <2>1, <2>2
<1>13. PICK i \in Nat : i = Len(u) + 1
  OBVIOUS
<1>14. /\ i \in 1 .. Len(Ways[d]) + 1
       /\ Ways' = [Ways EXCEPT ![d] = InsertAt(@, i, "leave")]
       /\ (\E j \in i .. Len(Ways[d]) : Ways[d][j] = "join") <=> InPipeline(d, "login")
  <2>1. Ways' = [Ways EXCEPT ![d] = WayOf(d)'] /\ Ways[d] = u \o v
    BY <1>5, <1>10, OneWay
  <2>2. InsertAt(Ways[d], i, "leave") = WayOf(d)'
    BY <1>11, <1>12, <1>13, <2>1
  <2> QED BY <1>6, <1>12, <1>13, <2>1, <2>2
<1>15. Overtaken' = IF \E j \in i .. Len(Ways[d]) : Ways[d][j] = "join"
                    THEN Overtaken \cup {d} ELSE Overtaken
  <2>1. InPipeline(d, "login") => role[d] = "player"
    BY DEF MapInv, RolesAgree
  <2> QED BY <1>1, <1>14, <2>1 DEF Overtaken
<1>16. InsertAt(Ways[d], i, "leave") = UplinkOf!InsertAt(Ways[d], i, "leave")
  BY Zenon DEF InsertAt, UplinkOf!InsertAt
<1>17. Ways' = [Ways EXCEPT ![d] = UplinkOf!InsertAt(@, i, "leave")]
  BY <1>14, <1>16
<1>18. UplinkOf!Leave(d)
  BY <1>2, <1>3, <1>14, <1>15, <1>17
     DEF UplinkOf!Leave, Ways, Spoken, Ended, Gone, Lost, Overtaken
<1> QED BY <1>18 DEF UplinkOf!Next

\* What the scene drains has arrived.
LEMMA DrainingArrives ==
  ASSUME TypeOK, DrainOne, UNCHANGED <<connVars, pipe>>
  PROVE  [UplinkOf!Next]_(UplinkOf!vars)
<1>1. /\ UNCHANGED <<job, inbound, held, stage, role, watchdog, raced>>
      /\ inCh # <<>> /\ inCh' = Tail(inCh)
  BY DEF DrainOne, connVars, pipe, reader
<1>2. PICK in \in Input : in = Head(inCh)
  BY <1>1, HeadInput DEF TypeOK
<1>3. Tail(inCh) \in Seq(Input)
  BY <1>1, HeadInput DEF TypeOK
<1>4. /\ in.id \in Player /\ in.kind \in {"join", "move", "leave"}
      /\ in.kind = "join"  => Joined' = Joined \cup {in.id}
      /\ in.kind = "leave" => Joined' = Joined \ {in.id}
      /\ in.kind = "move"  => Joined' = Joined
  BY <1>2, ApplyJoined DEF DrainOne, TypeOK
<1>5. UNCHANGED <<Spoken, Ended, Gone, Lost, Overtaken>>
  BY <1>1 DEF Spoken, Ended, Gone, Lost, Overtaken
<1>6. \A c \in Player : Asks(c, inCh) = Ask(c, in) \o Asks(c, Tail(inCh))
  <2>1. inCh \in Seq(Passing)
    BY QueueTypes, SeqMonotonic DEF Passing
  <2> QED BY <1>1, <1>2, <2>1, PassingAsks, AsksHead
<1>7. \A c \in Player :
        /\ WayOf(c) = ((Asks(c, inCh) \o Asks(c, Slot(job))) \o Asks(c, inbound))
                        \o HeldAsks(c, held[c])
        /\ WayOf(c)' = ((Asks(c, Tail(inCh)) \o Asks(c, Slot(job))) \o Asks(c, inbound))
                         \o HeldAsks(c, held[c])
  <2> SUFFICES ASSUME NEW c \in Player
               PROVE  /\ WayOf(c) = ((Asks(c, inCh) \o Asks(c, Slot(job)))
                                       \o Asks(c, inbound)) \o HeldAsks(c, held[c])
                      /\ WayOf(c)' = ((Asks(c, Tail(inCh)) \o Asks(c, Slot(job)))
                                        \o Asks(c, inbound)) \o HeldAsks(c, held[c])
    OBVIOUS
  <2>1. WayOf(c) = Pipe(c, inCh, job, inbound, held[c])
        /\ WayOf(c)' = Pipe(c, Tail(inCh), job, inbound, held[c])
    BY <1>1, WayIsPipe
  <2>2. Pipe(c, inCh, job, inbound, held[c])
          = ((Asks(c, inCh) \o Asks(c, Slot(job))) \o Asks(c, inbound))
              \o HeldAsks(c, held[c])
    BY QueueTypes, PipeParts
  <2>3. Pipe(c, Tail(inCh), job, inbound, held[c])
          = ((Asks(c, Tail(inCh)) \o Asks(c, Slot(job))) \o Asks(c, inbound))
              \o HeldAsks(c, held[c])
    BY <1>3, QueueTypes, PipeParts
  <2> QED BY ONLY <2>1, <2>2, <2>3
<1>8. ASSUME NEW c \in Player, c # in.id PROVE WayOf(c)' = WayOf(c)
  <2>1. Ask(c, in) = <<>>
    BY <1>8 DEF Ask
  <2>2. Asks(c, Tail(inCh)) \in Seq(Asked)
    BY <1>3, QueueTypes, PipeParts
  <2>3. Asks(c, inCh) = Asks(c, Tail(inCh))
    BY <1>6, <2>1, <2>2, ConcatEmptySeq
  <2> QED BY ONLY <1>7, <2>3, c \in Player
<1>9. PICK d \in Player : d = in.id
  BY <1>4
<1>10. PICK k \in Asked : k = in.kind /\ Ask(d, in) = <<k>>
  BY <1>4, <1>9 DEF Ask, Asked
<1>11. WayOf(d) # <<>> /\ Head(WayOf(d)) = k /\ Tail(WayOf(d)) = WayOf(d)'
  <2>1. PICK u \in Seq(Asked), a \in Seq(Asked), b \in Seq(Asked), h \in Seq(Asked) :
          /\ u = Asks(d, Tail(inCh)) /\ a = Asks(d, Slot(job))
          /\ b = Asks(d, inbound) /\ h = HeldAsks(d, held[d])
    BY <1>3, QueueTypes, PipeParts
  <2>2. WayOf(d) = (((<<k>> \o u) \o a) \o b) \o h /\ WayOf(d)' = ((u \o a) \o b) \o h
    BY <1>6, <1>7, <1>10, <2>1
  <2>3. First(k, ((u \o a) \o b) \o h, (((<<k>> \o u) \o a) \o b) \o h)
    BY FirstOfFour
  <2> QED BY ONLY <2>2, <2>3 DEF First
<1>12. Ways' = [Ways EXCEPT ![d] = Tail(@)] /\ Ways[d] = WayOf(d)
  BY <1>8, <1>9, <1>11, OneWay
<1>13. UplinkOf!Arrive(d)
  <2>1. Joined' = CASE Head(Ways[d]) = "join"  -> Joined \cup {d}
                    [] Head(Ways[d]) = "leave" -> Joined \ {d}
                    [] OTHER                   -> Joined
    BY <1>4, <1>9, <1>10, <1>11, <1>12
  <2> QED BY <1>5, <1>11, <1>12, <2>1
          DEF UplinkOf!Arrive, Ways, Spoken, Ended, Gone, Lost, Overtaken
<1> QED BY <1>13 DEF UplinkOf!Next

LEMMA UplinkInit == Init => UplinkOf!Init
<1> SUFFICES ASSUME Init PROVE UplinkOf!Init
  OBVIOUS
<1>1. \A c \in Player : WayOf(c) = <<>>
  <2> SUFFICES ASSUME NEW c \in Player PROVE WayOf(c) = <<>>
    OBVIOUS
  <2>1. inCh = <<>> /\ Slot(job) = <<>> /\ inbound = <<>> /\ Held(c) = <<>>
    BY GatewayAssumption DEF Init, SceneInit, Slot, Held
  <2>2. ((<<>> \o <<>>) \o <<>>) \o <<>> = <<>>
    OBVIOUS
  <2>3. WayOf(c) = Asks(c, ((<<>> \o <<>>) \o <<>>) \o <<>>)
    BY <2>1, Zenon DEF WayOf
  <2> QED BY <2>2, <2>3, AsksEmpty
<1>2. Joined = {}
  BY DEF Init, SceneInit, Joined
<1> QED BY <1>1, <1>2 DEF UplinkOf!Init, Init

LEMMA UplinkStep ==
  ASSUME IInv, MapInv, [Next]_vars
  PROVE  [UplinkOf!Next]_(UplinkOf!vars)
<1>0. TypeOK /\ TypeOK'
  BY TypeStep DEF IInv
<1>a. UNCHANGED players => UNCHANGED Joined
  BY DEF Joined
<1>b. ASSUME UNCHANGED <<players, inCh, job, inbound, held>>,
             UNCHANGED <<Spoken, Ended, Gone, Lost, Overtaken>>
      PROVE  [UplinkOf!Next]_(UplinkOf!vars)
  BY <1>a, <1>b, SameWays, Stutters
<1>1. ASSUME NEW d \in Player, Accept(d) PROVE [UplinkOf!Next]_(UplinkOf!vars)
  <2>1. ~ Left(d)
    BY <1>1 DEF IInv, LeftClosed, Accept
  <2>2. UNCHANGED <<Spoken, Ended, Gone, Lost, Overtaken>>
    BY <1>0, <1>1, <2>1 DEF Accept, Left, reader, Spoken, Ended, Gone, Lost, Overtaken, TypeOK
  <2> QED BY <1>1, <1>b, <2>2 DEF Accept, sceneVars, pipe, reader
<1>2. ASSUME NEW d \in Player, Hangup(d) PROVE [UplinkOf!Next]_(UplinkOf!vars)
  <2>1. UNCHANGED <<Spoken, Ended, Gone, Lost, Overtaken>>
    BY <1>0, <1>2 DEF Hangup, reader, Spoken, Ended, Gone, Lost, Overtaken, TypeOK
  <2> QED BY <1>2, <1>b, <2>1 DEF Hangup, sceneVars, pipe, reader
<1>3. ASSUME NEW d \in Player, ReadFrame(d) PROVE [UplinkOf!Next]_(UplinkOf!vars)
  BY <1>3, ReadingSpeaks
<1>4. ASSUME NEW d \in Player, ReadFails(d) \/ WriteFails(d) \/ CloseVictim(d)
      PROVE  [UplinkOf!Next]_(UplinkOf!vars)
  BY <1>0, <1>4, ClosingEnds
     DEF ReadFails, WriteFails, CloseVictim, sceneVars, pipe, reader, tables
<1>5. ASSUME NEW d \in Player, PushFrame(d) PROVE [UplinkOf!Next]_(UplinkOf!vars)
  <2>1. /\ UNCHANGED <<players, inCh, job, stage, role, watchdog, raced>>
        /\ inbound' = Append(inbound, [id |-> d, kind |-> held[d]])
        /\ held[d] \in Frame /\ held'[d] = Nil
        /\ \A c \in Player \ {d} : held'[c] = held[c]
    BY <1>0, <1>5 DEF PushFrame, Push, sceneVars, tables, TypeOK
  <2>2. UNCHANGED <<Spoken, Ended, Gone, Lost, Overtaken>>
    <3>1. held[d] # "dropped" /\ held'[d] # "dropped"
      BY <2>1, GatewayAssumption DEF Frame
    <3> QED BY <2>1, <3>1 DEF Spoken, Ended, Gone, Lost, Overtaken
  <2>3. ASSUME NEW c \in Player PROVE WayOf(c)' = WayOf(c)
    <3> DEFINE x == [id |-> d, kind |-> held[d]]
    <3>1. WayOf(c)' = Pipe(c, inCh, job, Append(inbound, x), held'[c])
          /\ WayOf(c) = Pipe(c, inCh, job, inbound, held[c])
      BY <2>1, WayIsPipe
    <3>2. Pipe(c, inCh, job, Append(inbound, x), Nil)
            = IF c = d THEN Pipe(c, inCh, job, inbound, held[d])
              ELSE Pipe(c, inCh, job, inbound, Nil)
      BY <1>0, <2>1, QueueTypes, PipePush
    <3> HIDE DEF x
    <3>3. CASE c = d
      BY <2>1, <3>1, <3>2, <3>3
    <3>4. CASE c # d
      <4>1. /\ \A r \in InHand :
                 Pipe(c, inCh, job, Append(inbound, x), r)
                   = ((Asks(c, inCh) \o Asks(c, Slot(job))) \o Asks(c, Append(inbound, x)))
                       \o HeldAsks(c, r)
            /\ \A r \in InHand :
                 Pipe(c, inCh, job, inbound, r)
                   = ((Asks(c, inCh) \o Asks(c, Slot(job))) \o Asks(c, inbound))
                       \o HeldAsks(c, r)
        <5>1. Append(inbound, x) \in Seq(Inbound)
          BY <1>0, <2>1, QueueTypes DEF x, Inbound
        <5> QED BY <1>0, <5>1, QueueTypes, PipeParts
      <4>2. Asks(c, Append(inbound, x)) = Asks(c, inbound)
        <5>1. x \in Inbound /\ Ask(c, x) = <<>>
          BY <2>1, <3>4 DEF x, Inbound, Ask
        <5>2. Asks(c, Append(inbound, x)) = Asks(c, inbound) \o Ask(c, x)
          BY <1>0, <5>1, QueueTypes, AsksAppend
        <5>3. Asks(c, inbound) \in Seq(Asked)
          BY <1>0, QueueTypes, PipeParts
        <5> QED BY <5>1, <5>2, <5>3, ConcatEmptySeq
      <4>3. held'[c] = held[c] /\ held[c] \in InHand
        BY <1>0, <2>1, <3>4, QueueTypes
      <4> QED BY ONLY <3>1, <4>1, <4>2, <4>3
    <3> QED BY <3>3, <3>4
  <2> QED BY <1>a, <2>1, <2>2, <2>3, Stutters
<1>6. ASSUME NEW d \in Player, ReaderDone(d) PROVE [UplinkOf!Next]_(UplinkOf!vars)
  BY <1>0, <1>6, GivingUpDiscards DEF MapInv
<1>7. CASE TakeInbound
  <2>1. /\ UNCHANGED <<players, inCh, held, stage, role, watchdog, raced>>
        /\ job = Nil /\ inbound # <<>> /\ job' = Head(inbound) /\ inbound' = Tail(inbound)
    BY <1>7 DEF TakeInbound, sceneVars, connVars, reader
  <2>2. UNCHANGED <<Spoken, Ended, Gone, Lost, Overtaken>>
    BY <2>1 DEF Spoken, Ended, Gone, Lost, Overtaken
  <2>3. \A c \in Player : WayOf(c)' = WayOf(c)
    BY <1>0, <2>1, QueueTypes, WayIsPipe, PipeTake
  <2> QED BY <1>a, <2>1, <2>2, <2>3, Stutters
<1>8. CASE HandleLogin \/ HandleMoveReq
  <2>1. /\ job \in Inbound /\ job # Nil /\ job' = Nil /\ job.kind # "spectate"
        /\ UNCHANGED <<players, inbound, held, stage, role, watchdog, raced>>
        /\ \E in \in Input : /\ inCh' = Append(inCh, in) /\ in.id = job.id
                             /\ in.kind = IF job.kind = "login" THEN "join" ELSE job.kind
    <3>1. job \in Inbound /\ job # Nil /\ job.id \in Player
      BY <1>0, <1>8, JobInPipeline DEF HandleLogin, HandleMoveReq, TypeOK
    <3>2. CASE HandleLogin
      BY <3>1, <3>2, Inputs DEF HandleLogin, LoginJoin, Join, Send, connVars, reader
    <3>3. CASE HandleMoveReq
      <4>1. PICK pos \in Pos : Move(job.id, pos)
        BY <3>3 DEF HandleMoveReq
      <4> QED BY <3>1, <3>3, <4>1, Inputs DEF HandleMoveReq, Move, Send, connVars, reader
    <3> QED BY <1>8, <3>2, <3>3
  <2>2. UNCHANGED <<Spoken, Ended, Gone, Lost, Overtaken>>
    BY <2>1 DEF Spoken, Ended, Gone, Lost, Overtaken
  <2>3. PICK in \in Input : /\ inCh' = Append(inCh, in) /\ in.id = job.id
                            /\ in.kind = IF job.kind = "login" THEN "join" ELSE job.kind
    BY <2>1
  <2>4. ASSUME NEW c \in Player PROVE WayOf(c)' = WayOf(c)
    <3>1. Pipe(c, Append(inCh, in), Nil, inbound, held[c])
            = Pipe(c, inCh, job, inbound, held[c])
      BY <1>0, <2>1, <2>3, QueueTypes, PipeHandle
    <3> QED BY <2>1, <2>3, <3>1, WayIsPipe
  <2> QED BY <1>a, <2>1, <2>2, <2>4, Stutters
<1>9. CASE HandleSpectate
  <2>1. /\ job \in Inbound /\ job' = Nil /\ job.kind = "spectate"
        /\ UNCHANGED <<players, inCh, inbound, held, stage, role, watchdog, raced>>
    BY <1>0, <1>9 DEF HandleSpectate, sceneVars, reader, TypeOK
  <2>2. UNCHANGED <<Spoken, Ended, Gone, Lost, Overtaken>>
    BY <2>1 DEF Spoken, Ended, Gone, Lost, Overtaken
  <2>3. ASSUME NEW c \in Player PROVE WayOf(c)' = WayOf(c)
    <3>1. Pipe(c, inCh, Nil, inbound, held[c]) = Pipe(c, inCh, job, inbound, held[c])
      BY <1>0, <2>1, QueueTypes, PipeSpectate
    <3> QED BY <2>1, <3>1, WayIsPipe
  <2> QED BY <1>a, <2>1, <2>2, <2>3, Stutters
<1>10. ASSUME NEW d \in Player, WatchdogLeave(d) PROVE [UplinkOf!Next]_(UplinkOf!vars)
  BY <1>10, LeavingOvertakes
<1>11. ASSUME NEW d \in Player, RemoveConn(d) PROVE [UplinkOf!Next]_(UplinkOf!vars)
  <2>1. /\ watchdog[d] = "remove" /\ watchdog' = [watchdog EXCEPT ![d] = "end"]
        /\ raced' = IF InPipeline(d, "spectate") THEN raced \cup {d} ELSE raced
        /\ UNCHANGED <<players, inCh, job, inbound, held, stage, role>>
    BY <1>11 DEF RemoveConn, sceneVars, pipe, reader
  <2>2. InPipeline(d, "spectate") => role[d] # "player"
    BY DEF MapInv, RolesAgree
  <2>3. UNCHANGED <<Spoken, Ended, Lost, Overtaken>>
    BY <2>1, <2>2 DEF Spoken, Ended, Lost, Overtaken
  <2>4. Gone' = Gone
    BY <1>0, <2>1 DEF Gone, TypeOK
  <2> QED BY <1>b, <2>1, <2>3, <2>4
<1>12. CASE Disconnect \/ UNCHANGED vars
  <2>1. UNCHANGED <<players, inCh, job, inbound, held, stage, role, watchdog, raced>>
    BY <1>12 DEF Disconnect, vars, sceneVars, connVars, pipe, reader
  <2> QED BY <1>b, <2>1 DEF Spoken, Ended, Gone, Lost, Overtaken
<1>13. CASE SyncAll
  <2>1. UNCHANGED <<players, inCh, job, inbound, held, stage, role, watchdog, raced>>
    BY <1>13 DEF SyncAll, BroadcastAll, EndTick, pipe, reader
  <2> QED BY <1>b, <2>1 DEF Spoken, Ended, Gone, Lost, Overtaken
<1>14. CASE SceneStep
  <2>1. CASE DrainOne
    BY <1>0, <1>14, <2>1, DrainingArrives DEF SceneStep
  <2>2. CASE StillStep
    <3>1. UNCHANGED <<players, inCh>>
      BY <1>0, <2>2, StillType DEF TypeOK
    <3>2. UNCHANGED <<job, inbound, held, stage, role, watchdog, raced>>
      BY <1>14 DEF SceneStep, connVars, pipe, reader
    <3> QED BY <1>b, <3>1, <3>2 DEF Spoken, Ended, Gone, Lost, Overtaken
  <2> QED BY <1>14, <2>1, <2>2 DEF SceneStep, StillStep, SkipAll
<1> QED BY <1>1, <1>2, <1>3, <1>4, <1>5, <1>6, <1>7, <1>8, <1>9, <1>10, <1>11,
           <1>12, <1>13, <1>14 DEF Next, Logic, Tick

\* Reader, inbound, logicLoop and the scene's channel keep the promise of module
\* Uplink, for any number of connections and every capacity: for each connection
\* what it asks arrives in order, once and complete, one Leave follows its end,
\* and nobody is left behind but a player whose join the Leave overtook.
THEOREM GatewayImplementsUplink == Spec => ImplementsUplink
BY UplinkInit, UplinkStep, MapHolds, PTL DEF Spec, ImplementsUplink, UplinkOf!Spec

=============================================================================
