--------------------------- MODULE DownlinkProofs ---------------------------
(***************************************************************************)
(* The invariants of Downlink, proved for any setup of the connection, any *)
(* number of players, and every capacity on the way.                       *)
(***************************************************************************)
EXTENDS Downlink, SceneLemmas, FiniteSetTheorems

-----------------------------------------------------------------------------
(* Type correctness.                                                       *)

LEMMA Capacities ==
  /\ RelayCap \in Nat \ {0} /\ Me \in Player
  /\ \A s \in Setups : s.sendCap \in Nat \ {0}
BY DownlinkAssumption DEF Setup

LEMMA TypeInit == Init => TypeOK
<1> SUFFICES ASSUME Init PROVE TypeOK
  OBVIOUS
<1>1. setup.sendCap \in Nat \ {0}
  BY Capacities DEF Init
<1>2. perfect \in BOOLEAN
  BY SceneAssumption DEF Init, SceneInit
<1> QED BY <1>1, <1>2, SceneInitType, Capacities DEF Init, TypeOK, Empty, Table

\* A queue of frames with room for another one, and one that loses its head.
LEMMA FrameQueues ==
  ASSUME NEW q \in Seq(Message)
  PROVE  /\ \A m \in Message : /\ Append(q, m) \in Seq(Message)
                               /\ Len(Append(q, m)) = Len(q) + 1
         /\ q # <<>> => /\ Head(q) \in Message /\ Tail(q) \in Seq(Message)
                        /\ Len(Tail(q)) <= Len(q)
OBVIOUS

LEMMA SendFrameType ==
  ASSUME TypeOK, UNCHANGED setup, NEW m \in Message, SendFrame(m)
  PROVE  /\ sendCh' \in Seq(Message) /\ Len(sendCh') <= (setup').sendCap
         /\ perfect' \in BOOLEAN
<1>1. sendCh \in Seq(Message) /\ Len(sendCh) <= setup.sendCap /\ setup.sendCap \in Nat
  BY Capacities DEF TypeOK
<1>2. Append(sendCh, m) \in Seq(Message) /\ Len(Append(sendCh, m)) = Len(sendCh) + 1
  BY <1>1, FrameQueues
<1>3. perfect \in BOOLEAN /\ (setup').sendCap = setup.sendCap
  BY DEF TypeOK
<1>4. CASE Len(sendCh) < setup.sendCap
  <2>1. sendCh' = Append(sendCh, m) /\ perfect' = perfect
    BY <1>4 DEF SendFrame
  <2>2. Len(sendCh) + 1 <= setup.sendCap
    BY <1>1, <1>4
  <2> QED BY <1>2, <1>3, <2>1, <2>2
<1>5. CASE ~ (Len(sendCh) < setup.sendCap)
  <2>1. sendCh' = sendCh /\ perfect' = FALSE
    BY <1>5 DEF SendFrame
  <2> QED BY <1>1, <1>3, <2>1
<1> QED BY <1>4, <1>5

\* The frames of a set, one after the other in whatever order.
LEMMA FramesInOrder ==
  ASSUME NEW S \in SUBSET Message, IsFiniteSet(S), NEW q \in SetToSeqs(S)
  PROVE  q \in Seq(Message) /\ (S = {} => q = <<>>)
<1>1. Cardinality(S) \in Nat /\ q \in [1 .. Cardinality(S) -> S]
  BY FS_CardinalityType DEF SetToSeqs
<1>2. q \in Seq(Message)
  BY <1>1
<1>3. ASSUME S = {} PROVE q = <<>>
  BY <1>1, <1>3, FS_EmptySet
<1> QED BY <1>2, <1>3

LEMMA DrainFrames ==
  ASSUME SceneTypeOK, NEW in \in Input, Apply(in)
  PROVE  /\ EnterFrames(in) \subseteq Message /\ IsFiniteSet(EnterFrames(in))
         /\ LeaveFrames(in) \subseteq Message /\ IsFiniteSet(LeaveFrames(in))
<1> DEFINE E == { q \in Player : <<Me, q>> \in Appear(in) }
           L == { q \in Player : <<Me, q>> \in Vanish(in) }
<1>1. IsFiniteSet(E) /\ IsFiniteSet(L)
  BY DownlinkAssumption, FS_Subset
<1>2. \A q \in E : players'[q] \in Pos
  BY AppearInTable
<1>3. E \subseteq Player /\ L \subseteq Player
  OBVIOUS
<1>4. EnterFrames(in) = { [type |-> "enter", id |-> p, pos |-> (players')[p]] : p \in E }
  BY DEF EnterFrames
<1>5. LeaveFrames(in) = { [type |-> "leave", id |-> p] : p \in L }
  BY DEF LeaveFrames
<1> HIDE DEF E, L
<1>6. EnterFrames(in) \subseteq Message
  BY <1>2, <1>3, <1>4 DEF Message
<1>7. LeaveFrames(in) \subseteq Message
  BY <1>3, <1>5 DEF Message
<1>8. IsFiniteSet(EnterFrames(in))
  <2> DEFINE f == [p \in E |-> [type |-> "enter", id |-> p, pos |-> (players')[p]]]
  <2>1. f \in Surjection(E, EnterFrames(in))
    BY <1>4 DEF Surjection
  <2> QED BY <1>1, <2>1, FS_Surjection
<1>9. IsFiniteSet(LeaveFrames(in))
  <2> DEFINE f == [p \in L |-> [type |-> "leave", id |-> p]]
  <2>1. f \in Surjection(L, LeaveFrames(in))
    BY <1>5 DEF Surjection
  <2> QED BY <1>1, <2>1, FS_Surjection
<1> QED BY <1>6, <1>7, <1>8, <1>9

LEMMA EnvType ==
  ASSUME TypeOK, Env
  PROVE  TypeOK'
<1> USE DEF TypeOK, linkVars, tables
<1>1. ASSUME NEW p \in Player, OtherJoins(p) \/ OtherLeaves(p) PROVE TypeOK'
  BY <1>1, CallType DEF OtherJoins, OtherLeaves
<1>2. ASSUME NEW p \in Player, NEW pos \in Pos, Moves(p, pos) PROVE TypeOK'
  BY <1>2, CallType DEF Moves
<1>3. CASE Toggle
  <2>1. SceneTypeOK'
    BY <1>3, ToggleType DEF Toggle
  <2> QED BY <1>3, <2>1 DEF Toggle
<1> QED BY <1>1, <1>2, <1>3 DEF Env

LEMMA LoginType ==
  ASSUME TypeOK, TakeRequest \/ LoginResp \/ LoginJoin
  PROVE  TypeOK'
<1>1. CASE TakeRequest
  BY <1>1, SceneSame DEF TakeRequest, TypeOK, tables
<1>2. CASE LoginResp
  <2>1. [type |-> "loginResp"] \in Message
    BY DEF Message
  <2>2. sendCh' \in Seq(Message) /\ Len(sendCh') <= (setup').sendCap
        /\ perfect' \in BOOLEAN
    BY <1>2, <2>1, SendFrameType DEF LoginResp
  <2> QED BY <1>2, <2>2, SceneSame DEF LoginResp, TypeOK, tables
<1>3. CASE LoginJoin
  BY <1>3, CallType, Capacities DEF LoginJoin, TypeOK, tables
<1> QED BY <1>1, <1>2, <1>3

LEMMA CallsType ==
  ASSUME TypeOK, SceneTypeOK', NEW frames \in Seq(Message), Call(frames)
  PROVE  TypeOK'
BY DEF Call, TypeOK, tables

LEMMA TickType ==
  ASSUME TypeOK, Tick
  PROVE  TypeOK'
<1>0. SceneTypeOK
  BY DEF TypeOK
<1>1. CASE Drain
  <2> DEFINE in == Head(inCh)
  <2>1. in \in Input /\ Apply(in) /\ SceneTypeOK'
    BY <1>0, <1>1, HeadInput, DrainType DEF Drain, DrainOne
  <2>2. PICK first \in SetToSeqs(EnterFrames(in)),
             then \in SetToSeqs(LeaveFrames(in)) : Call(first \o then)
    BY <1>1 DEF Drain
  <2> HIDE DEF in
  <2>3. first \in Seq(Message) /\ then \in Seq(Message)
    BY <1>0, <2>1, <2>2, DrainFrames, FramesInOrder
  <2>4. first \o then \in Seq(Message)
    BY <2>3
  <2> QED BY <2>1, <2>2, <2>4, CallsType
<1>2. CASE OtherStep
  <2>1. SceneTypeOK'
    BY <1>0, <1>2, StillType DEF OtherStep, StillStep, SkipAll
  <2>2. Call(<<>>) /\ <<>> \in Seq(Message)
    BY <1>2 DEF OtherStep
  <2> QED BY <2>1, <2>2, CallsType
<1>3. CASE SyncAll
  <2>1. SceneTypeOK'
    BY <1>0, <1>3, StillType DEF SyncAll, StillStep, BroadcastAll
  <2> DEFINE map  == [type |-> "minimap", ids |-> Joined \ {Me}]
             sync == [type |-> "sync", states |-> players]
  <2>2. map \in Message /\ sync \in Message
    BY <1>0 DEF Message, Joined, SceneTypeOK, Table
  <2>3. FullFrames \in {<<>>, <<map>>, <<map, sync>>}
    BY DEF FullFrames
  <2> HIDE DEF map, sync
  <2>4. <<>> \in Seq(Message) /\ <<map>> \in Seq(Message) /\ <<map, sync>> \in Seq(Message)
    BY <2>2
  <2>5. FullFrames \in Seq(Message)
    BY <2>3, <2>4
  <2> QED BY <1>3, <2>1, <2>5, CallsType DEF SyncAll
<1>4. ASSUME NEW id \in Player, Sync(id) PROVE TypeOK'
  <2>1. SceneTypeOK'
    BY <1>0, <1>4, StillType DEF Sync, StillStep
  <2>2. [type |-> "sync", states |-> StatesFor(id)] \in Message
    BY <1>0 DEF Message, StatesFor, SceneTypeOK, Table
  <2> DEFINE sync   == [type |-> "sync", states |-> StatesFor(id)]
             frames == IF id = Me THEN <<sync>> ELSE <<>>
  <2>3. Call(frames)
    BY <1>4 DEF Sync
  <2> HIDE DEF sync
  <2>4. frames \in Seq(Message)
    BY <2>2 DEF sync
  <2> HIDE DEF frames
  <2> QED BY <2>1, <2>3, <2>4, CallsType
<1>5. CASE SendNext
  <2>1. Head(out) \in Message /\ out' \in Seq(Message)
    BY <1>5, FrameQueues DEF SendNext, TypeOK
  <2>2. CASE setup.kind = "split"
    <3>1. /\ relay \in Seq(Message) /\ Len(relay) <= RelayCap /\ RelayCap \in Nat
          /\ perfect \in BOOLEAN
      BY Capacities DEF TypeOK
    <3>2. Append(relay, Head(out)) \in Seq(Message)
          /\ Len(Append(relay, Head(out))) = Len(relay) + 1
      BY <2>1, <3>1, FrameQueues
    <3>3. relay' \in Seq(Message) /\ Len(relay') <= RelayCap /\ perfect' \in BOOLEAN
      <4>1. Emit(Head(out))
        BY <1>5, <2>2 DEF SendNext
      <4>2. CASE Len(relay) < RelayCap
        <5>1. relay' = Append(relay, Head(out)) /\ perfect' = perfect
          BY <4>1, <4>2 DEF Emit
        <5>2. Len(relay) + 1 <= RelayCap
          BY <3>1, <4>2
        <5> QED BY <3>1, <3>2, <5>1, <5>2
      <4>3. CASE ~ (Len(relay) < RelayCap)
        BY <3>1, <4>1, <4>3 DEF Emit
      <4> QED BY <4>2, <4>3
    <3> QED BY <1>5, <2>1, <2>2, <3>3, SceneSame DEF SendNext, TypeOK, tables
  <2>3. CASE setup.kind # "split"
    <3>1. sendCh' \in Seq(Message) /\ Len(sendCh') <= (setup').sendCap
          /\ perfect' \in BOOLEAN
      BY <1>5, <2>1, <2>3, SendFrameType DEF SendNext
    <3> QED BY <1>5, <2>1, <2>3, <3>1, SceneSame DEF SendNext, TypeOK, tables
  <2> QED BY <2>2, <2>3
<1> QED BY <1>1, <1>2, <1>3, <1>4, <1>5 DEF Tick

LEMMA RecvType ==
  ASSUME TypeOK, RecvLoop
  PROVE  TypeOK'
<1>1. /\ Head(relay) \in Message /\ relay' \in Seq(Message)
      /\ Len(relay') <= Len(relay) /\ Len(relay) \in Nat /\ Len(relay') \in Nat
      /\ Len(relay) <= RelayCap
  BY FrameQueues DEF RecvLoop, TypeOK
<1>2. Len(relay') <= RelayCap
  BY <1>1, Capacities
<1>3. sendCh' \in Seq(Message) /\ Len(sendCh') <= (setup').sendCap /\ perfect' \in BOOLEAN
  <2>1. CASE Skipped(Head(relay))
    BY <2>1 DEF RecvLoop, TypeOK
  <2>2. CASE ~ Skipped(Head(relay))
    BY <1>1, <2>2, SendFrameType DEF RecvLoop
  <2> QED BY <2>1, <2>2
<1> QED BY <1>1, <1>2, <1>3, SceneSame DEF RecvLoop, TypeOK, tables

LEMMA HandledType ==
  ASSUME NEW at \in Table, NEW m \in Message
  PROVE  Handled(at, m) \in Table
<1> DEFINE next == Handled(at, m)
<1>1. CASE m.type = "enter"
  <2>1. m.pos \in Pos /\ next = [at EXCEPT ![m.id] = m.pos]
    BY <1>1 DEF Message, Handled
  <2> QED BY <2>1 DEF Table
<1>2. CASE m.type = "leave"
  <2>1. next = [at EXCEPT ![m.id] = Nil]
    BY <1>2 DEF Handled
  <2> QED BY <2>1 DEF Table
<1>3. CASE m.type = "sync"
  <2>1. m.states \in Table /\ next = m.states
    BY <1>3 DEF Message, Handled
  <2> QED BY <2>1
<1>4. CASE m.type \notin {"enter", "leave", "sync"}
  BY <1>4 DEF Handled
<1> QED BY <1>1, <1>2, <1>3, <1>4

LEMMA ClientType ==
  ASSUME TypeOK, Client
  PROVE  TypeOK'
<1>0. /\ sendCh # <<>> /\ sendCh' = Tail(sendCh) /\ setup' = setup
      /\ sendCh \in Seq(Message) /\ Len(sendCh) <= setup.sendCap
      /\ setup.sendCap \in Nat
  BY Capacities DEF Client, ClientLogin, ClientHandle, TypeOK
<1>1. /\ Head(sendCh) \in Message /\ sendCh' \in Seq(Message)
      /\ Len(sendCh') <= Len(sendCh) /\ Len(sendCh) \in Nat /\ Len(sendCh') \in Nat
  BY <1>0, FrameQueues
<1>2. Len(sendCh') <= (setup').sendCap
  BY <1>0, <1>1
<1>3. mirror' \in Table /\ minimap' \in SUBSET Player
  <2>1. CASE ClientLogin
    BY <2>1 DEF ClientLogin, tables, TypeOK
  <2>2. CASE ClientHandle
    <3>1. Head(sendCh).type = "minimap" => Head(sendCh).ids \in SUBSET Player
      BY <1>1 DEF Message
    <3>2. mirror' \in Table
      BY <1>1, <2>2, HandledType DEF ClientHandle, TypeOK
    <3> QED BY <2>2, <3>1, <3>2 DEF ClientHandle, MinimapAfter, TypeOK
  <2> QED BY <2>1, <2>2 DEF Client
<1> QED BY <1>1, <1>2, <1>3, SceneSame DEF Client, ClientLogin, ClientHandle, TypeOK

LEMMA TypeStep == TypeOK /\ [Next]_vars => TypeOK'
<1>1. TypeOK /\ UNCHANGED vars => TypeOK'
  BY SceneSame DEF vars, linkVars, tables, TypeOK
<1> QED BY <1>1, EnvType, LoginType, TickType, RecvType, ClientType DEF Next

\* The state keeps its types: no buffer on the way to the client ever holds more
\* than its capacity, although nobody waits for room in it.
THEOREM TypeCorrect == Spec => []TypeOK
BY TypeInit, TypeStep, PTL DEF Spec

-----------------------------------------------------------------------------
(* What a client in Login can find instead of its answer.                  *)

\* The answer is among the frames q.
Answers(q) == \E i \in DOMAIN q : q[i].type = "loginResp"

\* Nothing but minimaps is in front of the first answer in q.
Behaves(q) ==
  \A i \in DOMAIN q : \/ q[i].type \in {"loginResp", "minimap"}
                      \/ \E j \in 1 .. i-1 : q[j].type = "loginResp"

LEMMA BehavesBefore ==
  ASSUME NEW q \in Seq(Message), NEW r \in Seq(Message), Behaves(q),
         \/ Answers(q)
         \/ \A i \in DOMAIN r : r[i].type \in {"loginResp", "minimap"}
  PROVE  Behaves(q \o r)
<1> DEFINE u == q \o r
<1>1. /\ DOMAIN u = 1 .. Len(q) + Len(r) /\ Len(q) \in Nat /\ Len(r) \in Nat
      /\ DOMAIN q = 1 .. Len(q) /\ DOMAIN r = 1 .. Len(r)
      /\ \A i \in 1 .. Len(q) : u[i] = q[i]
      /\ \A i \in 1 .. Len(r) : u[Len(q) + i] = r[i]
  OBVIOUS
<1> HIDE DEF u
<1>2. ASSUME NEW i \in DOMAIN u
      PROVE  \/ u[i].type \in {"loginResp", "minimap"}
             \/ \E j \in 1 .. i-1 : u[j].type = "loginResp"
  <2>1. CASE i <= Len(q)
    <3>1. i \in DOMAIN q
      BY <1>1, <2>1
    <3>2. CASE q[i].type \in {"loginResp", "minimap"}
      BY <1>1, <3>1, <3>2
    <3>3. ASSUME NEW j \in 1 .. i-1, q[j].type = "loginResp"
          PROVE  u[j].type = "loginResp"
      <4>1. j \in 1 .. Len(q)
        BY <1>1, <2>1, <3>1
      <4> QED BY <1>1, <3>3, <4>1
    <3> QED BY <3>1, <3>2, <3>3 DEF Behaves
  <2>2. CASE i > Len(q)
    <3>1. CASE Answers(q)
      <4>1. PICK j \in DOMAIN q : q[j].type = "loginResp"
        BY <3>1 DEF Answers
      <4>2. j \in 1 .. i-1 /\ u[j] = q[j]
        BY <1>1, <2>2
      <4> QED BY <4>1, <4>2
    <3>2. CASE \A k \in DOMAIN r : r[k].type \in {"loginResp", "minimap"}
      <4>1. i - Len(q) \in DOMAIN r /\ Len(q) + (i - Len(q)) = i
        BY <1>1, <2>2
      <4> QED BY <1>1, <3>2, <4>1
    <3> QED BY <3>1, <3>2
  <2> QED BY <1>1, <2>1, <2>2
<1>3. Behaves(u)
  BY <1>2 DEF Behaves
<1> QED BY <1>3 DEF u

\* The answer may get in front of frames that were there before it.
LEMMA BehavesAnswered ==
  ASSUME NEW q \in Seq(Message), NEW r \in Seq(Message), NEW m \in Message,
         m.type = "loginResp", Behaves(q \o r)
  PROVE  Behaves(Append(q, m) \o r) /\ Answers(Append(q, m))
<1> DEFINE u == q \o r
           p == Append(q, m)
<1>1. /\ DOMAIN u = 1 .. Len(q) + Len(r) /\ Len(q) \in Nat /\ Len(r) \in Nat
      /\ \A i \in 1 .. Len(q) : u[i] = q[i]
  OBVIOUS
<1>2. /\ p \in Seq(Message) /\ DOMAIN p = 1 .. Len(q) + 1
      /\ \A i \in 1 .. Len(q) : p[i] = q[i]
      /\ p[Len(q) + 1] = m
  OBVIOUS
<1>3. DOMAIN q = 1 .. Len(q)
  OBVIOUS
<1> HIDE DEF u, p
<1>4. Answers(p)
  <2>1. Len(q) + 1 \in DOMAIN p
    BY <1>1, <1>2
  <2> QED BY <1>2, <2>1 DEF Answers
<1>5. Behaves(p)
  <2> SUFFICES ASSUME NEW i \in DOMAIN p
               PROVE  \/ p[i].type \in {"loginResp", "minimap"}
                      \/ \E j \in 1 .. i-1 : p[j].type = "loginResp"
    BY DEF Behaves
  <2>1. CASE i = Len(q) + 1
    BY <1>2, <2>1
  <2>2. CASE i # Len(q) + 1
    <3>1. i \in DOMAIN u /\ i \in 1 .. Len(q) /\ p[i] = u[i]
      BY <1>1, <1>2, <2>2
    <3>2. \A j \in 1 .. i-1 : p[j] = u[j]
      BY <1>1, <1>2, <3>1
    <3> QED BY <3>1, <3>2 DEF Behaves, u
  <2> QED BY <2>1, <2>2
<1>6. Behaves(p \o r)
  BY <1>2, <1>4, <1>5, BehavesBefore
<1> QED BY <1>4, <1>6 DEF p

LEMMA AnswersAppend ==
  ASSUME NEW q \in Seq(Message), NEW m \in Message, Answers(q)
  PROVE  Answers(Append(q, m))
<1> DEFINE p == Append(q, m)
<1>1. /\ DOMAIN q \subseteq DOMAIN p
      /\ \A i \in DOMAIN q : p[i] = q[i]
  OBVIOUS
<1> HIDE DEF p
<1>2. Answers(p)
  BY <1>1 DEF Answers
<1> QED BY <1>2 DEF p

Way == sendCh \o relay \o out

\* A client in Login is a player's, and only a spectator is a spectator; a
\* single process has no session between the scene and the connection.
Kinds ==
  /\ client = "login" => setup.kind # "spectator"
  /\ login = "spectator" => setup.kind = "spectator"
  /\ setup.kind # "split" => relay = <<>>

\* As long as the answer has not been sent, the scene has not heard of Me.
Unheard == client = "login" /\ login \in {"none", "resp"} => Absent(Me)

\* Once it has been sent, it waits in sendCh for the client to read it.
Answered ==
  perfect /\ client = "login" /\ login \in {"join", "done"} => Answers(sendCh)

IInv == TypeOK /\ Kinds /\ Unheard /\ Answered /\ OnlyMinimapPrecedes

LEMMA PrecedesIsBehaves ==
  OnlyMinimapPrecedes <=> (perfect /\ client = "login" => Behaves(Way))
BY DEF OnlyMinimapPrecedes, Behaves, Way

LEMMA IInvInit == Init => IInv
<1> SUFFICES ASSUME Init PROVE IInv
  OBVIOUS
<1>1. Way = <<>>
  BY DEF Init, Way
<1>2. Behaves(Way)
  BY <1>1 DEF Behaves
<1>3. Absent(Me)
  BY Capacities DEF Init, SceneInit, Absent, Joined, EmptyIndex
<1>4. Kinds /\ Answered
  BY DEF Init, Kinds, Answered
<1> QED BY <1>2, <1>3, <1>4, TypeInit, PrecedesIsBehaves DEF IInv, Unheard

\* What is left to show of a step that does not touch the frames on their way.
LEMMA QuietStep ==
  ASSUME IInv, TypeOK', UNCHANGED <<setup, login, client, relay, sendCh, out>>,
         perfect' => perfect,
         client = "login" /\ login \in {"none", "resp"} => Absent(Me)'
  PROVE  IInv'
<1>1. Way' = Way
  BY DEF Way
<1>2. Kinds' /\ Unheard' /\ Answered'
  BY DEF IInv, Kinds, Unheard, Answered
<1>3. (perfect /\ client = "login" => Behaves(Way))'
  BY <1>1, PrecedesIsBehaves DEF IInv
<1>4. OnlyMinimapPrecedes'
  BY <1>1, <1>3 DEF OnlyMinimapPrecedes, Behaves, Way
<1> QED BY <1>2, <1>4 DEF IInv

LEMMA EnvStep ==
  ASSUME IInv, Env
  PROVE  IInv'
<1>0. TypeOK' /\ SceneTypeOK /\ Me \in Player
  BY EnvType, Capacities DEF IInv, TypeOK
<1> USE Inputs DEF Join, Leave, Move
<1>1. ASSUME NEW p \in Player, OtherJoins(p) \/ OtherLeaves(p) PROVE IInv'
  <2>1. Absent(Me) => Absent(Me)'
    BY <1>0, <1>1, AbsentAfterSend DEF OtherJoins, OtherLeaves
  <2> QED BY <1>0, <1>1, <2>1, QuietStep
          DEF OtherJoins, OtherLeaves, linkVars, IInv, Unheard
<1>2. ASSUME NEW p \in Player, NEW pos \in Pos, Moves(p, pos) PROVE IInv'
  <2>1. client = "login" => p # Me
    BY <1>2 DEF Moves
  <2>2. client = "login" /\ Absent(Me) => Absent(Me)'
    BY <1>0, <1>2, <2>1, AbsentAfterSend DEF Moves
  <2> QED BY <1>0, <1>2, <2>2, QuietStep DEF Moves, linkVars, IInv, Unheard
<1>3. CASE Toggle
  <2>1. Absent(Me) => Absent(Me)'
    BY <1>3 DEF Toggle, SetAOIEnabled, Absent, Joined, tickVars
  <2> QED BY <1>0, <1>3, <2>1, QuietStep DEF Toggle, IInv, Unheard
<1> QED BY <1>1, <1>2, <1>3 DEF Env

\* The types of the three queues, and that the order they are joined in does not
\* matter.
LEMMA WayParts ==
  ASSUME TypeOK
  PROVE  /\ sendCh \in Seq(Message) /\ relay \in Seq(Message) /\ out \in Seq(Message)
         /\ sendCh \o relay \in Seq(Message) /\ relay \o out \in Seq(Message)
         /\ Way = sendCh \o (relay \o out)
<1>1. sendCh \in Seq(Message) /\ relay \in Seq(Message) /\ out \in Seq(Message)
  BY DEF TypeOK
<1>2. sendCh \o relay \in Seq(Message) /\ relay \o out \in Seq(Message)
  BY <1>1, JoinedQueues
<1>3. Way = sendCh \o (relay \o out)
  BY <1>1, QueuesAssociate DEF Way
<1> QED BY <1>1, <1>2, <1>3

LEMMA LoginStep ==
  ASSUME IInv, TakeRequest \/ LoginResp \/ LoginJoin
  PROVE  IInv'
<1>0. TypeOK' /\ TypeOK
  BY LoginType DEF IInv
<1>1. OnlyMinimapPrecedes' <=> (perfect' /\ client' = "login" => Behaves(Way'))
  BY DEF OnlyMinimapPrecedes, Behaves, Way
<1>2. CASE TakeRequest
  <2>1. UNCHANGED <<setup, client, relay, sendCh, out, perfect, players, index, inCh, todo>>
        /\ login = "none"
        /\ login' = IF setup.kind = "spectator" THEN "spectator" ELSE "resp"
    BY <1>2 DEF TakeRequest, sceneVars
  <2>2. Kinds' /\ Unheard' /\ Answered' /\ Way' = Way
    BY <2>1 DEF IInv, Kinds, Unheard, Answered, Way, Absent, Joined
  <2> QED BY <1>0, <1>1, <2>1, <2>2, PrecedesIsBehaves DEF IInv
<1>3. CASE LoginResp
  <2> DEFINE m == [type |-> "loginResp"]
  <2>1. /\ UNCHANGED <<setup, client, relay, out>> /\ login' = "join" /\ SendFrame(m)
    BY <1>3 DEF LoginResp
  <2>2. Kinds' /\ Unheard'
    BY <2>1 DEF IInv, Kinds, Unheard
  <2>3. m \in Message /\ m.type = "loginResp"
    BY DEF Message
  <2> HIDE DEF m
  <2>4. CASE ~ perfect'
    BY <1>0, <1>1, <2>2, <2>4 DEF IInv, Answered
  <2>5. CASE perfect'
    <3>1. sendCh' = Append(sendCh, m) /\ perfect
      BY <2>1, <2>5 DEF SendFrame
    <3>2. Way' = sendCh' \o (relay \o out)
      <4> DEFINE sent == sendCh'
      <4>1. sent \in Seq(Message) /\ relay \in Seq(Message) /\ out \in Seq(Message)
        BY <1>0 DEF TypeOK
      <4>2. Way' = (sent \o relay) \o out
        BY <2>1 DEF Way
      <4> HIDE DEF sent
      <4>3. (sent \o relay) \o out = sent \o (relay \o out)
        BY <4>1, QueuesAssociate
      <4> QED BY <4>2, <4>3 DEF sent
    <3>3. CASE client = "login"
      <4>1. Behaves(sendCh \o (relay \o out))
        BY <1>0, <3>1, <3>3, WayParts, PrecedesIsBehaves DEF IInv
      <4>2. Behaves(Way') /\ Answers(sendCh')
        BY <1>0, <2>3, <3>1, <3>2, <4>1, WayParts, BehavesAnswered
      <4> QED BY <1>0, <1>1, <2>2, <4>2 DEF IInv, Answered
    <3>4. CASE client # "login"
      BY <1>0, <1>1, <2>1, <2>2, <3>4 DEF IInv, Answered
    <3> QED BY <3>3, <3>4
  <2> QED BY <2>4, <2>5
<1>4. CASE LoginJoin
  <2>1. /\ UNCHANGED <<setup, client, relay, sendCh, out, perfect>>
        /\ login = "join" /\ login' = "done"
    BY <1>4 DEF LoginJoin
  <2>2. Kinds' /\ Unheard' /\ Answered' /\ Way' = Way
    BY <2>1 DEF IInv, Kinds, Unheard, Answered, Way
  <2> QED BY <1>0, <1>1, <2>1, <2>2, PrecedesIsBehaves DEF IInv
<1> QED BY <1>2, <1>3, <1>4

\* A call of the notifier says nothing to a client whose request has not been
\* answered, or only a minimap.
LEMMA CallStep ==
  ASSUME IInv, TypeOK', NEW frames \in Seq(Message), Call(frames),
         client = "login" /\ login \in {"none", "resp"} =>
           /\ Absent(Me)'
           /\ \A i \in DOMAIN frames : frames[i].type \in {"loginResp", "minimap"}
  PROVE  IInv'
<1>0. TypeOK
  BY DEF IInv
<1>1. OnlyMinimapPrecedes' <=> (perfect' /\ client' = "login" => Behaves(Way'))
  BY DEF OnlyMinimapPrecedes, Behaves, Way
<1>2. UNCHANGED <<setup, login, client, relay, sendCh, perfect>>
      /\ out = <<>> /\ out' = frames
  BY DEF Call
<1>3. Kinds' /\ Unheard' /\ Answered'
  BY <1>2 DEF IInv, Kinds, Unheard, Answered
<1>4. ASSUME perfect, client = "login"
      PROVE  Behaves(Way')
  <2> DEFINE sent == sendCh \o relay
  <2>1. sent \in Seq(Message) /\ sendCh \in Seq(Message) /\ relay \in Seq(Message)
    BY <1>0, WayParts
  <2>2. sent \o <<>> = sent
    BY <2>1
  <2>3. Way = sent /\ Way' = sent \o frames
    BY <1>2, <2>2 DEF Way
  <2>4. Behaves(sent)
    BY <1>4, <2>3, PrecedesIsBehaves DEF IInv
  <2>5. CASE login \in {"none", "resp"}
    <3> HIDE DEF sent
    <3> QED BY <1>4, <2>1, <2>3, <2>4, <2>5, BehavesBefore
  <2>6. CASE login \in {"join", "done"}
    <3>1. Answers(sendCh)
      BY <1>4, <2>6 DEF IInv, Answered
    <3>2. /\ DOMAIN sendCh \subseteq DOMAIN sent
          /\ \A i \in DOMAIN sendCh : sent[i] = sendCh[i]
      BY <2>1
    <3> HIDE DEF sent
    <3>3. Answers(sent)
      BY <3>1, <3>2 DEF Answers
    <3> QED BY <2>1, <2>3, <2>4, <3>3, BehavesBefore
  <2>7. login # "spectator"
    BY <1>4 DEF IInv, Kinds
  <2> QED BY <1>0, <2>5, <2>6, <2>7 DEF TypeOK
<1> QED BY <1>1, <1>2, <1>3, <1>4 DEF IInv

LEMMA TickStep ==
  ASSUME IInv, Drain \/ OtherStep \/ SyncAll \/ \E id \in Player : Sync(id)
  PROVE  IInv'
<1>0. TypeOK' /\ SceneTypeOK /\ Me \in Player
  BY TickType, Capacities DEF IInv, TypeOK, Tick
<1>1. client = "login" /\ login \in {"none", "resp"} => Absent(Me)
  BY DEF IInv, Unheard
<1>2. ASSUME StillStep
      PROVE  client = "login" /\ login \in {"none", "resp"} => Absent(Me)'
  BY <1>0, <1>1, <1>2, AbsentAfterStill
<1>3. <<>> \in Seq(Message)
      /\ \A i \in DOMAIN <<>> : <<>>[i].type \in {"loginResp", "minimap"}
  OBVIOUS
<1>4. CASE Drain
  <2> DEFINE in == Head(inCh)
  <2>1. in \in Input /\ Apply(in) /\ DrainOne
    BY <1>0, <1>4, HeadInput DEF Drain, DrainOne
  <2>2. PICK first \in SetToSeqs(EnterFrames(in)),
             then \in SetToSeqs(LeaveFrames(in)) : Call(first \o then)
    BY <1>4 DEF Drain
  <2>3. ASSUME client = "login", login \in {"none", "resp"}
        PROVE  Absent(Me)' /\ EnterFrames(in) = {} /\ LeaveFrames(in) = {}
    <3>1. Absent(Me)' /\ in.id # Me
      BY <1>0, <1>1, <2>1, <2>3, AbsentAfterDrain
    <3>2. \A q : <<Me, q>> \notin Appear(in) \cup Vanish(in)
      BY <1>0, <1>1, <2>1, <2>3, <3>1, AbsentNotTold
    <3> HIDE DEF in
    <3>3. EnterFrames(in) = {} /\ LeaveFrames(in) = {}
      BY <3>2 DEF EnterFrames, LeaveFrames
    <3> QED BY <3>1, <3>3
  <2> HIDE DEF in
  <2>4. /\ EnterFrames(in) \in SUBSET Message /\ IsFiniteSet(EnterFrames(in))
        /\ LeaveFrames(in) \in SUBSET Message /\ IsFiniteSet(LeaveFrames(in))
    BY <1>0, <2>1, DrainFrames
  <2>5. /\ first \in Seq(Message) /\ then \in Seq(Message)
        /\ EnterFrames(in) = {} => first = <<>>
        /\ LeaveFrames(in) = {} => then = <<>>
    BY <2>2, <2>4, FramesInOrder
  <2> DEFINE frames == first \o then
  <2>6. frames \in Seq(Message)
    BY <2>5
  <2>7. first = <<>> /\ then = <<>> => frames = <<>>
    BY <2>5
  <2> HIDE DEF frames
  <2>8. client = "login" /\ login \in {"none", "resp"} =>
          /\ Absent(Me)'
          /\ \A i \in DOMAIN frames : frames[i].type \in {"loginResp", "minimap"}
    BY <1>3, <2>3, <2>5, <2>7
  <2>9. Call(frames)
    BY <2>2 DEF frames
  <2> QED BY <1>0, <2>6, <2>8, <2>9, CallStep
<1>5. CASE OtherStep
  <2>1. Call(<<>>) /\ StillStep
    BY <1>5 DEF OtherStep, StillStep, SkipAll
  <2> QED BY <1>0, <1>2, <1>3, <2>1, CallStep
<1>6. CASE SyncAll
  <2> DEFINE map  == [type |-> "minimap", ids |-> Joined \ {Me}]
             sync == [type |-> "sync", states |-> players]
  <2>1. map \in Message /\ sync \in Message /\ map.type = "minimap"
    BY <1>0 DEF Message, Joined, SceneTypeOK, Table
  <2>2. FullFrames \in {<<>>, <<map>>, <<map, sync>>}
    BY DEF FullFrames
  <2>3. login # "spectator" => FullFrames \in {<<>>, <<map>>}
    BY DEF FullFrames
  <2> HIDE DEF map, sync
  <2>4. FullFrames \in Seq(Message)
    <3>1. <<map>> \in Seq(Message) /\ <<map, sync>> \in Seq(Message)
      BY <2>1
    <3> QED BY <1>3, <2>2, <3>1
  <2>5. login # "spectator" =>
          \A i \in DOMAIN FullFrames : FullFrames[i].type \in {"loginResp", "minimap"}
    <3>1. \A i \in DOMAIN <<map>> : <<map>>[i].type \in {"loginResp", "minimap"}
      BY <2>1
    <3> QED BY <1>3, <2>3, <3>1
  <2>6. StillStep /\ Call(FullFrames)
    BY <1>6 DEF SyncAll, StillStep, BroadcastAll
  <2> QED BY <1>0, <1>2, <2>4, <2>5, <2>6, CallStep
<1>7. ASSUME NEW id \in Player, Sync(id) PROVE IInv'
  <2> DEFINE sync   == [type |-> "sync", states |-> StatesFor(id)]
             frames == IF id = Me THEN <<sync>> ELSE <<>>
  <2>1. SyncOne(id) /\ StillStep /\ Call(frames)
    BY <1>7 DEF Sync, StillStep
  <2>2. sync \in Message
    BY <1>0 DEF Message, StatesFor, SceneTypeOK, Table
  <2> HIDE DEF sync
  <2>3. frames \in Seq(Message) /\ (id # Me => frames = <<>>)
    BY <2>2
  <2> HIDE DEF frames
  <2>4. Absent(Me) => id # Me
    BY <2>1 DEF SyncOne, Absent
  <2> QED BY <1>0, <1>1, <1>2, <1>3, <2>1, <2>3, <2>4, CallStep
<1> QED BY <1>4, <1>5, <1>6, <1>7

\* A frame goes from one queue to the next, unless it is lost.
LEMMA PassWay ==
  ASSUME TypeOK, Kinds, SendNext \/ RecvLoop, perfect'
  PROVE  /\ perfect /\ Way' = Way
         /\ sendCh' = sendCh \/ \E m \in Message : sendCh' = Append(sendCh, m)
<1>1. /\ sendCh \in Seq(Message) /\ relay \in Seq(Message) /\ out \in Seq(Message)
  BY DEF TypeOK
<1>2. ASSUME perfect', SendNext
      PROVE  perfect /\ Way' = Way
                     /\ (sendCh' = sendCh \/ \E m \in Message : sendCh' = Append(sendCh, m))
  <2> DEFINE next == Head(out)
             rest == Tail(out)
  <2>1. out # <<>> /\ out' = rest /\ next \in Message /\ rest \in Seq(Message)
    BY <1>1, <1>2 DEF SendNext
  <2>2. CASE setup.kind = "split"
    <3>1. perfect /\ sendCh' = sendCh /\ relay' = Append(relay, next)
      BY <1>2, <2>2 DEF SendNext, Emit
    <3> DEFINE sent == sendCh \o relay
    <3>2. sent \in Seq(Message) /\ sendCh' \o relay' = Append(sent, next)
      BY <1>1, <2>1, <3>1, JoinedQueues
    <3> HIDE DEF sent
    <3>3. Append(sent, next) \o rest = sent \o out
      BY <1>1, <2>1, <3>2, JoinedQueues
    <3> QED BY <2>1, <3>1, <3>2, <3>3 DEF Way, sent
  <2>3. CASE setup.kind # "split"
    <3>1. perfect /\ relay = <<>> /\ relay' = <<>> /\ sendCh' = Append(sendCh, next)
      BY <1>2, <2>3 DEF SendNext, SendFrame, Kinds
    <3>2. sendCh \o <<>> = sendCh /\ sendCh' \o <<>> = sendCh'
      BY <1>1
    <3>3. Append(sendCh, next) \o rest = sendCh \o out
      BY <1>1, <2>1, JoinedQueues
    <3> QED BY <2>1, <3>1, <3>2, <3>3 DEF Way
  <2> QED BY <2>2, <2>3
<1>3. ASSUME perfect', RecvLoop
      PROVE  perfect /\ Way' = Way /\ \E m \in Message : sendCh' = Append(sendCh, m)
  <2> DEFINE next == Head(relay)
  <2>1. /\ relay # <<>> /\ relay' = Tail(relay) /\ out' = out /\ next \in Message
    BY <1>1, <1>3 DEF RecvLoop
  <2>2. SendFrame(next)
    BY <1>3 DEF RecvLoop
  <2>3. perfect /\ sendCh' = Append(sendCh, next)
    BY <1>3, <2>2 DEF SendFrame
  <2>4. /\ relay # <<>> /\ relay' = Tail(relay) /\ out' = out /\ next \in Message
        /\ perfect /\ sendCh' = Append(sendCh, next)
    BY <2>1, <2>3
  <2>5. sendCh' \o relay' = sendCh \o relay
    BY <1>1, <2>4, JoinedQueues
  <2> QED BY <2>4, <2>5 DEF Way
<1> QED BY <1>2, <1>3

LEMMA PassStep ==
  ASSUME IInv, SendNext \/ RecvLoop
  PROVE  IInv'
<1>0. TypeOK /\ TypeOK'
  BY TickType, RecvType DEF IInv, Tick
<1>1. OnlyMinimapPrecedes' <=> (perfect' /\ client' = "login" => Behaves(Way'))
  BY DEF OnlyMinimapPrecedes, Behaves, Way
<1>2. /\ UNCHANGED <<players, index, inCh, todo, setup, login, client>>
  BY DEF SendNext, RecvLoop, sceneVars
<1>3. Kinds' /\ Unheard'
  BY <1>2 DEF SendNext, RecvLoop, IInv, Kinds, Unheard, Absent, Joined
<1>4. sendCh \in Seq(Message)
  BY <1>0 DEF TypeOK
<1>5. ASSUME perfect'
      PROVE  /\ perfect /\ Way' = Way
             /\ sendCh' = sendCh \/ \E m \in Message : sendCh' = Append(sendCh, m)
  BY <1>0, <1>5, PassWay DEF IInv
<1>6. Answered'
  BY <1>2, <1>4, <1>5, AnswersAppend DEF IInv, Answered
<1>7. OnlyMinimapPrecedes'
  BY <1>1, <1>2, <1>5, PrecedesIsBehaves DEF IInv
<1> QED BY <1>0, <1>3, <1>6, <1>7 DEF IInv

LEMMA ClientStep ==
  ASSUME IInv, Client
  PROVE  IInv'
<1>1. TypeOK' /\ client' # "login" /\ UNCHANGED <<setup, login, relay>>
  BY ClientType DEF Client, ClientLogin, ClientHandle, IInv
<1> QED BY <1>1 DEF IInv, Kinds, Unheard, Answered, OnlyMinimapPrecedes

LEMMA IInvStep == IInv /\ [Next]_vars => IInv'
<1>1. ASSUME IInv, UNCHANGED vars PROVE IInv'
  <2>1. TypeOK'
    BY <1>1, TypeStep DEF IInv
  <2>2. UNCHANGED <<setup, login, client, relay, sendCh, out, perfect, players, index,
                    inCh, todo>>
    BY <1>1 DEF vars, sceneVars, linkVars
  <2> QED BY <1>1, <2>1, <2>2, QuietStep DEF IInv, Unheard, Absent, Joined
<1> QED BY <1>1, EnvStep, LoginStep, TickStep, PassStep, ClientStep DEF Next, Tick

\* Whatever the scene has to say to a client that waits for its login's answer,
\* through however many buffers, it says behind that answer, the minimap alone
\* excepted: the gateway sends the answer before it tells the scene.
THEOREM AnswerComesFirst == Spec => []OnlyMinimapPrecedes
<1>1. IInv => OnlyMinimapPrecedes
  BY DEF IInv
<1> QED BY <1>1, IInvInit, IInvStep, PTL DEF Spec

-----------------------------------------------------------------------------
(* The frames on their way, played to the client's mirror one by one.      *)

Play(at, q) == FoldLeft(Handled, at, q)

Folds(at, q, f, n) ==
  f = [s \in SUBSET (1 .. n) |->
        IF s = {} THEN at ELSE Handled(f[s \ {Max(s)}], q[Max(s)])]

LEMMA FoldStep ==
  ASSUME NEW at, NEW q, NEW n \in Nat, NEW f, Folds(at, q, f, n)
  PROVE  \E g : Folds(at, q, g, n + 1)
<1> DEFINE g == [s \in SUBSET (1 .. n + 1) |->
                  IF n + 1 \in s THEN Handled(f[s \ {n + 1}], q[n + 1]) ELSE f[s]]
<1>1. ASSUME NEW s \in SUBSET (1 .. n + 1)
      PROVE  g[s] = IF s = {} THEN at ELSE Handled(g[s \ {Max(s)}], q[Max(s)])
  <2>1. CASE n + 1 \in s
    <3>1. Max(s) = n + 1
      <4>1. PICK k \in Nat : k = n + 1
        OBVIOUS
      <4>2. Max(s) \in s /\ Max(s) >= k
        BY <2>1, <4>1, LargestNumber
      <4>3. PICK x \in s : x = Max(s) /\ x >= k
        BY <4>2
      <4>4. x = k
        BY <4>1, <4>3
      <4> QED BY <4>1, <4>3, <4>4
    <3>2. s \ {n + 1} \in SUBSET (1 .. n + 1) /\ n + 1 \notin s \ {n + 1}
      OBVIOUS
    <3>3. g[s \ {n + 1}] = f[s \ {n + 1}]
      BY <3>2
    <3>4. g[s] = Handled(f[s \ {n + 1}], q[n + 1])
      BY <2>1
    <3>5. s # {}
      BY <2>1
    <3> HIDE DEF g
    <3> QED BY <3>1, <3>3, <3>4, <3>5
  <2>2. CASE n + 1 \notin s
    <3>1. s \in SUBSET (1 .. n) /\ g[s] = f[s]
      BY <2>2
    <3>2. f[s] = IF s = {} THEN at ELSE Handled(f[s \ {Max(s)}], q[Max(s)])
      BY <3>1 DEF Folds
    <3>3. g[s \ {Max(s)}] = f[s \ {Max(s)}]
      BY <2>2
    <3> HIDE DEF g
    <3> QED BY <3>1, <3>2, <3>3
  <2> QED BY <2>1, <2>2
<1>2. g = [s \in SUBSET (1 .. n + 1) |-> 
           IF s = {} THEN at ELSE Handled(g[s \ {Max(s)}], q[Max(s)])]
  <2>1. g = [s \in SUBSET (1 .. n + 1) |-> g[s]]
    OBVIOUS
  <2> HIDE DEF g
  <2> QED BY <1>1, <2>1
<1> HIDE DEF g
<1> QED BY <1>2 DEF Folds

LEMMA FoldExists ==
  ASSUME NEW at, NEW q, NEW m \in Nat
  PROVE  \E f : Folds(at, q, f, m)
<1> DEFINE N == { n \in Nat : \E f : Folds(at, q, f, n) }
<1>1. 0 \in N
  <2> DEFINE f == [s \in SUBSET (1 .. 0) |-> at]
  <2>1. Folds(at, q, f, 0)
    BY DEF Folds
  <2> HIDE DEF f
  <2> QED BY <2>1
<1>2. \A n \in N : n + 1 \in N
  BY FoldStep
<1>3. N \in SUBSET Nat
  OBVIOUS
<1> HIDE DEF N
<1>4. N = Nat
  BY <1>1, <1>2, <1>3, NumberInduction
<1> QED BY <1>4 DEF N

LEMMA PlayIsFold ==
  ASSUME NEW at, NEW S, NEW q \in Seq(S)
  PROVE  \E f : Folds(at, q, f, Len(q)) /\ Play(at, q) = f[1 .. Len(q)]
<1> DEFINE f == CHOOSE f : Folds(at, q, f, Len(q))
<1>1. Folds(at, q, f, Len(q))
  <2>1. \E g : Folds(at, q, g, Len(q))
    <3>1. Len(q) \in Nat
      OBVIOUS
    <3> QED BY <3>1, FoldExists
  <2> QED BY <2>1
<1>2. DOMAIN q = 1 .. Len(q)
  OBVIOUS
<1>3. Play(at, q) = f[1 .. Len(q)]
  BY <1>2, Zenon DEF Play, FoldLeft, MapThenFoldSet, Folds
<1> QED BY <1>1, <1>3

LEMMA FoldPrefix ==
  ASSUME NEW at, NEW q, NEW n \in Nat, NEW f, Folds(at, q, f, n)
  PROVE  /\ f[1 .. 0] = at
         /\ \A k \in 1 .. n : f[1 .. k] = Handled(f[1 .. k-1], q[k])
<1>1. 1 .. 0 \in SUBSET (1 .. n) /\ 1 .. 0 = {}
  OBVIOUS
<1>2. ASSUME NEW s \in SUBSET (1 .. n)
      PROVE  f[s] = IF s = {} THEN at ELSE Handled(f[s \ {Max(s)}], q[Max(s)])
  BY Zenon DEF Folds
<1>3. ASSUME NEW k \in 1 .. n
      PROVE  f[1 .. k] = Handled(f[1 .. k-1], q[k])
  <2> DEFINE s == 1 .. k
  <2>1. s \in SUBSET (1 .. n) /\ s # {} /\ k \in s /\ s \ {k} = 1 .. k-1
    OBVIOUS
  <2>2. Max(s) = k
    <3>1. PICK x \in s : x = Max(s) /\ x >= k
      BY <2>1, LargestNumber
    <3>2. x = k
      BY <3>1
    <3> QED BY <3>1, <3>2
  <2>3. f[s] = Handled(f[s \ {Max(s)}], q[Max(s)])
    BY <1>2, <2>1
  <2> HIDE DEF s
  <2>4. f[s] = Handled(f[1 .. k-1], q[k])
    BY <2>1, <2>2, <2>3
  <2> QED BY <2>4 DEF s
<1>4. f[1 .. 0] = at
  BY <1>1, <1>2
<1> QED BY <1>3, <1>4

LEMMA PlayNothing ==
  ASSUME NEW at
  PROVE  Play(at, <<>>) = at
<1>1. <<>> \in Seq({}) /\ Len(<<>>) = 0
  OBVIOUS
<1>2. PICK f : Folds(at, <<>>, f, 0) /\ Play(at, <<>>) = f[1 .. 0]
  BY <1>1, PlayIsFold
<1> QED BY <1>2, FoldPrefix

\* The frames are handled one after the other, from the first to the last.
LEMMA PlayLast ==
  ASSUME NEW at, NEW S, NEW q \in Seq(S), NEW m \in S
  PROVE  Play(at, Append(q, m)) = Handled(Play(at, q), m)
<1> DEFINE t == Append(q, m)
<1>1. PICK n \in Nat : n = Len(q)
  OBVIOUS
<1>2. PICK o \in Nat : o = n + 1
  OBVIOUS
<1>3. /\ t \in Seq(S) /\ Len(t) = o /\ t[o] = m
      /\ \A k \in 1 .. n : t[k] = q[k]
  BY <1>1, <1>2
<1> HIDE DEF t
<1>4. PICK f : Folds(at, q, f, n) /\ Play(at, q) = f[1 .. n]
  BY <1>1, PlayIsFold
<1>5. PICK g : Folds(at, t, g, o) /\ Play(at, t) = g[1 .. o]
  BY <1>3, PlayIsFold
<1> DEFINE K == { k \in Nat : k <= n => g[1 .. k] = f[1 .. k] }
<1> HIDE DEF K
<1>6. 0 \in K
  <2>1. f[1 .. 0] = at
    BY <1>4, FoldPrefix
  <2>2. g[1 .. 0] = at
    <3>1. Folds(at, t, g, o)
      BY <1>5
    <3> QED BY ONLY <3>1, o \in Nat, FoldPrefix
  <2> QED BY <2>1, <2>2 DEF K
<1>7. ASSUME NEW k \in K PROVE k + 1 \in K
  <2>1. PICK l \in Nat : l = k + 1 /\ l - 1 = k
    BY DEF K
  <2>2. ASSUME l <= n PROVE g[1 .. l] = f[1 .. l]
    <3>1. k \in Nat /\ g[1 .. k] = f[1 .. k] /\ l \in 1 .. n /\ l \in 1 .. o
      BY <1>2, <2>1, <2>2 DEF K
    <3>2. g[1 .. l] = Handled(g[1 .. l-1], t[l])
      BY <1>5, <3>1, FoldPrefix
    <3>3. f[1 .. l] = Handled(f[1 .. l-1], q[l])
      BY <1>4, <3>1, FoldPrefix
    <3> QED BY <1>3, <2>1, <3>1, <3>2, <3>3
  <2>3. k + 1 \in Nat
    BY DEF K
  <2> QED BY <2>1, <2>2, <2>3 DEF K
<1>8. K = Nat
  <2>1. K \in SUBSET Nat
    BY DEF K
  <2> QED BY <1>6, <1>7, <2>1, NumberInduction
<1>9. g[1 .. n] = f[1 .. n]
  BY <1>8 DEF K
<1>10. o \in 1 .. o /\ o - 1 = n
  BY <1>2
<1>11. g[1 .. o] = Handled(g[1 .. o-1], t[o])
  <2>1. \A k \in 1 .. o : g[1 .. k] = Handled(g[1 .. k-1], t[k])
    BY <1>5, FoldPrefix
  <2> QED BY <1>10, <2>1
<1>12. Play(at, t) = Handled(Play(at, q), m)
  BY <1>3, <1>4, <1>5, <1>9, <1>10, <1>11
<1> QED BY <1>12 DEF t

LEMMA PlayBehind ==
  ASSUME NEW at, NEW S, NEW q \in Seq(S), NEW r \in Seq(S)
  PROVE  Play(at, q \o r) = Play(Play(at, q), r)
<1> DEFINE P == { t \in Seq(S) : Play(at, q \o t) = Play(Play(at, q), t) }
<1>1. <<>> \in P
  <2>1. q \o <<>> = q /\ <<>> \in Seq(S)
    OBVIOUS
  <2>2. Play(Play(at, q), <<>>) = Play(at, q)
    BY PlayNothing
  <2> QED BY <2>1, <2>2
<1>2. ASSUME NEW t \in P, NEW m \in S PROVE Append(t, m) \in P
  <2>1. t \in Seq(S) /\ Play(at, q \o t) = Play(Play(at, q), t)
    OBVIOUS
  <2>2. /\ q \o Append(t, m) = Append(q \o t, m)
        /\ q \o t \in Seq(S) /\ Append(t, m) \in Seq(S)
    BY <2>1, JoinedQueues
  <2>3. Play(at, Append(q \o t, m)) = Handled(Play(at, q \o t), m)
    <3> DEFINE u == q \o t
    <3>1. u \in Seq(S)
      BY <2>2
    <3> HIDE DEF u
    <3>2. Play(at, Append(u, m)) = Handled(Play(at, u), m)
      BY <3>1, PlayLast
    <3> QED BY <3>2 DEF u
  <2>4. Play(Play(at, q), Append(t, m)) = Handled(Play(Play(at, q), t), m)
    BY <2>1, PlayLast
  <2> QED BY <2>1, <2>2, <2>3, <2>4
<1>3. P \in SUBSET Seq(S)
  OBVIOUS
<1> HIDE DEF P
<1>4. P = Seq(S)
  BY <1>1, <1>2, <1>3, SequenceInduction
<1> QED BY <1>4 DEF P

LEMMA PlayFirst ==
  ASSUME NEW at, NEW S, NEW q \in Seq(S), q # <<>>
  PROVE  Play(at, q) = Play(Handled(at, Head(q)), Tail(q))
<1> DEFINE m == Head(q)
           one == Append(<<>>, m)
           rest == Tail(q)
<1>1. m \in S /\ rest \in Seq(S) /\ <<>> \in Seq(S) /\ one \in Seq(S)
  OBVIOUS
<1>2. q = one \o rest
  OBVIOUS
<1>3. Play(at, one) = Handled(at, m)
  <2> HIDE DEF m
  <2>1. Play(at, Append(<<>>, m)) = Handled(Play(at, <<>>), m)
    BY <1>1, PlayLast
  <2>2. Play(at, <<>>) = at
    BY PlayNothing
  <2> QED BY <2>1, <2>2
<1> HIDE DEF m, one, rest
<1>4. Play(at, one \o rest) = Play(Play(at, one), rest)
  BY <1>1, PlayBehind
<1>5. Play(at, q) = Play(Handled(at, m), rest)
  BY <1>2, <1>3, <1>4
<1> QED BY <1>5 DEF m, rest

\* What a client knows after frames q is a table again.
LEMMA PlayType ==
  ASSUME NEW at \in Table, NEW q \in Seq(Message)
  PROVE  Play(at, q) \in Table
<1> DEFINE P == { t \in Seq(Message) : Play(at, t) \in Table }
<1>1. <<>> \in P
  BY PlayNothing
<1>2. ASSUME NEW t \in P, NEW m \in Message PROVE Append(t, m) \in P
  <2>1. Play(at, Append(t, m)) = Handled(Play(at, t), m)
    BY PlayLast
  <2>2. Handled(Play(at, t), m) \in Table
    BY HandledType
  <2> QED BY <2>1, <2>2
<1>3. P \in SUBSET Seq(Message)
  OBVIOUS
<1> HIDE DEF P
<1>4. P = Seq(Message)
  BY <1>1, <1>2, <1>3, SequenceInduction
<1> QED BY <1>4 DEF P

Enters == { m \in Message : m.type = "enter" }
Leaves == { m \in Message : m.type = "leave" }

Names(q, p) == \E i \in DOMAIN q : q[i].id = p

LEMMA NamesLast ==
  ASSUME NEW S, NEW q \in Seq(S), NEW m \in S, NEW p
  PROVE  Names(Append(q, m), p) <=> Names(q, p) \/ m.id = p
<1> DEFINE t == Append(q, m)
<1>1. /\ DOMAIN t = DOMAIN q \cup {Len(q) + 1} /\ t[Len(q) + 1] = m
      /\ \A i \in DOMAIN q : t[i] = q[i]
  OBVIOUS
<1> HIDE DEF t
<1>2. Names(t, p) <=> Names(q, p) \/ m.id = p
  BY <1>1 DEF Names
<1> QED BY <1>2 DEF t

\* Enter notifications, in any order, add whom they name.
LEMMA PlayEnters ==
  ASSUME NEW at \in Table, NEW q \in Seq(Enters), NEW p \in Player
  PROVE  Play(at, q)[p] # Nil <=> at[p] # Nil \/ Names(q, p)
<1> DEFINE P == { t \in Seq(Enters) :
                    /\ Play(at, t) \in Table
                    /\ Play(at, t)[p] # Nil <=> at[p] # Nil \/ Names(t, p) }
<1>1. <<>> \in P
  BY PlayNothing DEF Names
<1>2. ASSUME NEW t \in P, NEW m \in Enters PROVE Append(t, m) \in P
  <2> DEFINE old == Play(at, t)
             new == Play(at, Append(t, m))
  <2>1. /\ t \in Seq(Enters) /\ old \in Table
        /\ old[p] # Nil <=> at[p] # Nil \/ Names(t, p)
    OBVIOUS
  <2>2. new = Handled(old, m)
    BY <2>1, PlayLast
  <2>3. m \in Message /\ m.type = "enter" /\ m.id \in Player /\ m.pos \in Pos
    BY DEF Enters, Message
  <2>4. new = [old EXCEPT ![m.id] = m.pos]
    BY <2>2, <2>3 DEF Handled
  <2>5. new \in Table
    BY <2>1, <2>2, <2>3, HandledType
  <2> HIDE DEF old, new
  <2>6. new[p] # Nil <=> old[p] # Nil \/ m.id = p
    BY <2>1, <2>3, <2>4, SceneAssumption DEF Table
  <2>7. Names(Append(t, m), p) <=> Names(t, p) \/ m.id = p
    BY <2>1, NamesLast
  <2>8. Append(t, m) \in Seq(Enters)
    BY <2>1
  <2> QED BY <2>1, <2>5, <2>6, <2>7, <2>8 DEF new
<1>3. P \in SUBSET Seq(Enters)
  OBVIOUS
<1> HIDE DEF P
<1>4. P = Seq(Enters)
  BY <1>1, <1>2, <1>3, SequenceInduction
<1> QED BY <1>4 DEF P

\* Leave notifications remove whom they name.
LEMMA PlayLeaves ==
  ASSUME NEW at \in Table, NEW q \in Seq(Leaves), NEW p \in Player
  PROVE  Play(at, q)[p] # Nil <=> at[p] # Nil /\ ~Names(q, p)
<1> DEFINE P == { t \in Seq(Leaves) :
                    /\ Play(at, t) \in Table
                    /\ Play(at, t)[p] # Nil <=> at[p] # Nil /\ ~Names(t, p) }
<1>1. <<>> \in P
  BY PlayNothing DEF Names
<1>2. ASSUME NEW t \in P, NEW m \in Leaves PROVE Append(t, m) \in P
  <2> DEFINE old == Play(at, t)
             new == Play(at, Append(t, m))
  <2>1. /\ t \in Seq(Leaves) /\ old \in Table
        /\ old[p] # Nil <=> at[p] # Nil /\ ~Names(t, p)
    OBVIOUS
  <2>2. new = Handled(old, m)
    BY <2>1, PlayLast
  <2>3. m \in Message /\ m.type = "leave" /\ m.id \in Player
    BY DEF Leaves, Message
  <2>4. new = [old EXCEPT ![m.id] = Nil]
    BY <2>2, <2>3 DEF Handled
  <2>5. new \in Table
    BY <2>1, <2>2, <2>3, HandledType
  <2> HIDE DEF old, new
  <2>6. new[p] # Nil <=> old[p] # Nil /\ m.id # p
    BY <2>1, <2>3, <2>4 DEF Table
  <2>7. Names(Append(t, m), p) <=> Names(t, p) \/ m.id = p
    BY <2>1, NamesLast
  <2>8. Append(t, m) \in Seq(Leaves)
    BY <2>1
  <2> QED BY <2>1, <2>5, <2>6, <2>7, <2>8 DEF new
<1>3. P \in SUBSET Seq(Leaves)
  OBVIOUS
<1> HIDE DEF P
<1>4. P = Seq(Leaves)
  BY <1>1, <1>2, <1>3, SequenceInduction
<1> QED BY <1>4 DEF P

\* All the frames of a set, in whatever order, are all its frames.
LEMMA AllInOrder ==
  ASSUME NEW S, IsFiniteSet(S), NEW q \in SetToSeqs(S)
  PROVE  /\ q \in Seq(S)
         /\ \A x \in S : \E i \in DOMAIN q : q[i] = x
<1>1. PICK n \in Nat : n = Cardinality(S)
  BY FS_CardinalityType
<1>2. q \in [1 .. n -> S] /\ \A i, j \in 1 .. n : i # j => q[i] # q[j]
  BY <1>1 DEF SetToSeqs
<1>3. q \in Injection(1 .. n, S)
  BY <1>2 DEF Injection, IsInjective
<1>4. Cardinality(1 .. n) = n
  BY FS_Interval
<1>5. q \in Surjection(1 .. n, S)
  BY <1>1, <1>3, <1>4, FS_Injection
<1>6. q \in Seq(S)
  BY <1>2
<1>7. DOMAIN q = 1 .. n
  BY <1>2
<1> QED BY <1>5, <1>6, <1>7 DEF Surjection

\* After the frames of a call, the client knows those it knew before and those
\* who appear, without those who vanish.
LEMMA DrainPlayed ==
  ASSUME SceneTypeOK, NEW in \in Input, Apply(in),
         NEW first \in SetToSeqs(EnterFrames(in)),
         NEW then \in SetToSeqs(LeaveFrames(in)),
         NEW at \in Table, NEW p \in Player
  PROVE  Play(at, first \o then)[p] # Nil
           <=> /\ at[p] # Nil \/ <<Me, p>> \in Appear(in)
               /\ <<Me, p>> \notin Vanish(in)
<1>1. /\ EnterFrames(in) \subseteq Message /\ IsFiniteSet(EnterFrames(in))
      /\ LeaveFrames(in) \subseteq Message /\ IsFiniteSet(LeaveFrames(in))
  BY DrainFrames
<1>2. /\ \A m \in EnterFrames(in) : m.type = "enter"
      /\ (\E m \in EnterFrames(in) : m.id = p) <=> <<Me, p>> \in Appear(in)
  <2>1. ASSUME NEW m \in EnterFrames(in)
        PROVE  m.type = "enter" /\ <<Me, m.id>> \in Appear(in)
    <3>1. PICK q \in Player : /\ <<Me, q>> \in Appear(in)
                              /\ m = [type |-> "enter", id |-> q, pos |-> (players')[q]]
      BY DEF EnterFrames
    <3> QED BY <3>1
  <2>2. ASSUME <<Me, p>> \in Appear(in)
        PROVE  \E m \in EnterFrames(in) : m.id = p
    <3> DEFINE m == [type |-> "enter", id |-> p, pos |-> (players')[p]]
    <3>1. m \in EnterFrames(in) /\ m.id = p
      BY <2>2 DEF EnterFrames
    <3> QED BY <3>1
  <2> QED BY <2>1, <2>2
<1>3. /\ \A m \in LeaveFrames(in) : m.type = "leave"
      /\ (\E m \in LeaveFrames(in) : m.id = p) <=> <<Me, p>> \in Vanish(in)
  <2>1. ASSUME NEW m \in LeaveFrames(in)
        PROVE  m.type = "leave" /\ <<Me, m.id>> \in Vanish(in)
    <3>1. PICK q \in Player : /\ <<Me, q>> \in Vanish(in)
                              /\ m = [type |-> "leave", id |-> q]
      BY DEF LeaveFrames
    <3> QED BY <3>1
  <2>2. ASSUME <<Me, p>> \in Vanish(in)
        PROVE  \E m \in LeaveFrames(in) : m.id = p
    <3> DEFINE m == [type |-> "leave", id |-> p]
    <3>1. m \in LeaveFrames(in) /\ m.id = p
      BY <2>2 DEF LeaveFrames
    <3> QED BY <3>1
  <2> QED BY <2>1, <2>2
<1>4. /\ first \in Seq(EnterFrames(in))
      /\ \A x \in EnterFrames(in) : \E i \in DOMAIN first : first[i] = x
  BY <1>1, AllInOrder
<1>5. /\ then \in Seq(LeaveFrames(in))
      /\ \A x \in LeaveFrames(in) : \E i \in DOMAIN then : then[i] = x
  BY <1>1, AllInOrder
<1>6. /\ first \in Seq(Enters)
      /\ Names(first, p) <=> <<Me, p>> \in Appear(in)
  <2>1. \A i \in DOMAIN first : first[i] \in EnterFrames(in)
    BY <1>4
  <2>2. EnterFrames(in) \subseteq Enters
    BY <1>1, <1>2 DEF Enters
  <2>3. first \in Seq(Enters)
    BY <1>4, <2>2
  <2> QED BY <1>2, <1>4, <2>1, <2>3 DEF Names
<1>7. /\ then \in Seq(Leaves)
      /\ Names(then, p) <=> <<Me, p>> \in Vanish(in)
  <2>1. \A i \in DOMAIN then : then[i] \in LeaveFrames(in)
    BY <1>5
  <2>2. LeaveFrames(in) \subseteq Leaves
    BY <1>1, <1>3 DEF Leaves
  <2>3. then \in Seq(Leaves)
    BY <1>5, <2>2
  <2> QED BY <1>3, <1>5, <2>1, <2>3 DEF Names
<1>8. first \in Seq(Message) /\ then \in Seq(Message)
  BY <1>1, <1>4, <1>5
<1>9. Play(at, first) \in Table
  BY <1>8, PlayType
<1>10. Play(at, first \o then) = Play(Play(at, first), then)
  BY <1>8, PlayBehind
<1>11. Play(at, first)[p] # Nil <=> at[p] # Nil \/ <<Me, p>> \in Appear(in)
  BY <1>6, PlayEnters
<1>12. Play(Play(at, first), then)[p] # Nil
         <=> Play(at, first)[p] # Nil /\ <<Me, p>> \notin Vanish(in)
  BY <1>7, <1>9, PlayLeaves
<1> QED BY <1>10, <1>11, <1>12

-----------------------------------------------------------------------------
(***************************************************************************)
(* Why the mirror and the frames on their way are exact.  The scene tells  *)
(* Me of each change of its sight in a frame of its own, no frame gets in  *)
(* front of another that matters, and a snapshot says the same again.      *)
(***************************************************************************)

\* A spectator does not log in.
Roles == setup.kind = "spectator" => login \in {"none", "spectator"}

\* Me does not leave, and it joins once: not before LoginJoin.
Stays == \A i \in DOMAIN inCh : inCh[i].kind = "leave" => inCh[i].id # Me

Unjoined ==
  login # "done" =>
    /\ players[Me] = Nil
    /\ \A i \in DOMAIN inCh : inCh[i].kind = "join" => inCh[i].id # Me

AlwaysOn == perfect => aoiEnabled

Exact ==
  perfect /\ client # "failed" /\ setup.kind # "spectator" =>
    \A p \in Player : Play(mirror, Way)[p] # Nil <=> Sees(Me, p)

\* What the scene is like, and what is on its way to it.
SceneInv == Indexes(index, players) /\ JoinOnce /\ TodoJoined /\ Stays /\ Unjoined

EInv == Roles /\ AlwaysOn /\ SceneInv /\ Exact

LEMMA EInvInit == Init => EInv
<1> SUFFICES ASSUME Init PROVE EInv
  OBVIOUS
<1>1. /\ players = [p \in Player |-> Nil] /\ index = EmptyIndex /\ inCh = <<>>
      /\ pc = "wait"
  BY DEF Init, SceneInit
<1>2. SceneInv
  BY <1>1, Capacities
     DEF SceneInv, Indexes, EmptyIndex, JoinOnce, TodoJoined, Stays, Unjoined
<1>3. Way = <<>> /\ mirror = Empty
  BY DEF Init, Way
<1>4. Play(mirror, Way) = Empty
  BY <1>3, PlayNothing
<1>5. Exact
  BY <1>1, <1>4 DEF Exact, Empty, Sees, Joined
<1>6. Roles /\ AlwaysOn
  BY DEF Init, Roles, AlwaysOn
<1> QED BY <1>2, <1>5, <1>6 DEF EInv

\* An input is sent: any but a second join, or a leave of Me.
LEMMA SceneInvSend ==
  ASSUME SceneTypeOK, SceneInv, NEW in \in Input, Send(in),
         in.kind = "join" =>
           /\ players[in.id] = Nil
           /\ \A i \in DOMAIN inCh : inCh[i].kind = "join" => inCh[i].id # in.id,
         in.kind \in {"join", "leave"} /\ in.id = Me =>
           in.kind = "join" /\ login' = "done",
         login' = "done" \/ login' = login
  PROVE  SceneInv'
<1>1. /\ inCh \in Seq(Input) /\ inCh' = Append(inCh, in)
      /\ UNCHANGED <<players, index, pc, todo>>
  BY DEF SceneTypeOK, Send, tickVars
<1>2. \A i \in DOMAIN inCh' : \/ i \in DOMAIN inCh /\ inCh'[i] = inCh[i]
                              \/ inCh'[i] = in
  BY <1>1
<1>3. JoinOnce'
  BY SendJoinOnce DEF SceneInv
<1>4. Indexes(index, players)' /\ TodoJoined'
  BY <1>1 DEF SceneInv, Indexes, TodoJoined, Joined
<1>5. Stays' /\ Unjoined'
  BY <1>1, <1>2 DEF SceneInv, Stays, Unjoined
<1> QED BY <1>3, <1>4, <1>5 DEF SceneInv

\* The snapshots of a broadcast go to players of the table, from its start to
\* its end.
LEMMA SceneInvStill ==
  ASSUME SceneTypeOK, SceneInv, StillStep, UNCHANGED login
  PROVE  SceneInv'
<1>1. UNCHANGED <<players, index, inCh>>
  BY StillType
<1>2. TodoJoined'
  BY <1>1 DEF StillStep, TickStart, DrainDone, SyncDone, EndTick, SyncOne,
              SceneInv, TodoJoined, Joined
<1> QED BY <1>1, <1>2 DEF SceneInv, Indexes, JoinOnce, Stays, Unjoined

LEMMA SceneInvDrain ==
  ASSUME SceneTypeOK, SceneInv, DrainOne, UNCHANGED login
  PROVE  SceneInv'
<1> DEFINE in == Head(inCh)
<1>1. /\ in \in Input /\ inCh \in Seq(Input) /\ inCh # <<>> /\ inCh' = Tail(inCh)
      /\ Apply(in) /\ pc' = pc /\ pc = "drain"
  BY HeadInput DEF DrainOne, SceneTypeOK, tickVars
<1>2. in = inCh[1] /\ 1 \in DOMAIN inCh
  BY <1>1
<1>3. \A i \in DOMAIN inCh' : i + 1 \in DOMAIN inCh /\ inCh'[i] = inCh[i + 1]
  BY <1>1
<1>4. Indexes(index', players') /\ JoinOnce'
  BY DrainIndex, DrainJoinOnce DEF SceneInv
<1>5. Stays' /\ TodoJoined'
  BY <1>1, <1>3 DEF SceneInv, Stays, TodoJoined
<1> HIDE DEF in
<1>6. ASSUME login # "done"
      PROVE  /\ players'[Me] = Nil
             /\ \A i \in DOMAIN inCh' : inCh'[i].kind = "join" => inCh'[i].id # Me
  <2>1. /\ players[Me] = Nil /\ (in.kind = "join" => in.id # Me) /\ Me \in Player
        /\ \A i \in DOMAIN inCh : inCh[i].kind = "join" => inCh[i].id # Me
    BY <1>2, <1>6, Capacities DEF SceneInv, Unjoined
  <2>2. players'[Me] = Nil
    BY <1>1, <2>1, ApplyTable, ApplyAbsent
  <2> QED BY <1>3, <2>1, <2>2
<1> QED BY <1>4, <1>5, <1>6 DEF SceneInv, Unjoined

\* Frames that are handed on, or handled, are worth what they were.
LEMMA ExactKept ==
  ASSUME Exact, UNCHANGED <<setup, players>>,
         perfect' => perfect, client' # "failed" => client # "failed",
         perfect' /\ client' # "failed" /\ setup.kind # "spectator" =>
           Play(mirror', Way') = Play(mirror, Way)
  PROVE  Exact'
BY DEF Exact, Sees, Joined

LEMMA EnvExact ==
  ASSUME IInv, EInv, Env
  PROVE  EInv'
<1>0. TypeOK /\ SceneTypeOK /\ Me \in Player /\ SceneInv
  BY Capacities DEF IInv, TypeOK, EInv
<1>1. ASSUME NEW in \in Input, Send(in), UNCHANGED linkVars, SceneInv' PROVE EInv'
  <2>1. UNCHANGED <<setup, players, client, login, perfect, mirror, aoiEnabled>>
        /\ Way' = Way
    BY <1>1 DEF Send, linkVars, tables, Way
  <2>2. Exact'
    BY <2>1, ExactKept DEF EInv
  <2> QED BY <1>1, <2>1, <2>2 DEF EInv, Roles, AlwaysOn
<1>2. ASSUME NEW p \in Player, OtherJoins(p) PROVE EInv'
  <2> DEFINE in == [kind |-> "join", id |-> p, pos |-> Spawn]
  <2>1. in \in Input /\ in.kind = "join" /\ in.id = p /\ Send(in) /\ UNCHANGED linkVars
        /\ UNCHANGED login
    BY <1>2, Inputs DEF OtherJoins, Join, linkVars
  <2> HIDE DEF in
  <2>2. SceneInv'
    BY <1>0, <1>2, <2>1, SceneInvSend DEF OtherJoins, JoinQueued
  <2> QED BY <1>1, <2>1, <2>2
<1>3. ASSUME NEW p \in Player, OtherLeaves(p) PROVE EInv'
  <2> DEFINE in == [kind |-> "leave", id |-> p]
  <2>1. in \in Input /\ in.kind = "leave" /\ in.id = p /\ Send(in) /\ UNCHANGED linkVars
        /\ UNCHANGED login /\ p # Me
    BY <1>3, Inputs DEF OtherLeaves, Leave, linkVars
  <2> HIDE DEF in
  <2>2. SceneInv'
    BY <1>0, <2>1, SceneInvSend
  <2> QED BY <1>1, <2>1, <2>2
<1>4. ASSUME NEW p \in Player, NEW pos \in Pos, Moves(p, pos) PROVE EInv'
  <2> DEFINE in == [kind |-> "move", id |-> p, pos |-> pos]
  <2>1. in \in Input /\ in.kind = "move" /\ Send(in) /\ UNCHANGED linkVars
        /\ UNCHANGED login
    BY <1>4, Inputs DEF Moves, Move, linkVars
  <2> HIDE DEF in
  <2>2. SceneInv'
    BY <1>0, <2>1, SceneInvSend
  <2> QED BY <1>1, <2>1, <2>2
<1>5. CASE Toggle
  <2>1. ~perfect' /\ UNCHANGED <<setup, login, players, index, inCh, pc, todo>>
    BY <1>5 DEF Toggle, SetAOIEnabled, tickVars
  <2>2. SceneInv'
    BY <1>0, <2>1 DEF SceneInv, Indexes, JoinOnce, TodoJoined, Stays, Unjoined, Joined
  <2> QED BY <2>1, <2>2 DEF EInv, Roles, AlwaysOn, Exact
<1> QED BY <1>2, <1>3, <1>4, <1>5 DEF Env

LEMMA LoginExact ==
  ASSUME IInv, EInv, TakeRequest \/ LoginResp \/ LoginJoin
  PROVE  EInv'
<1>0. TypeOK /\ SceneTypeOK /\ Me \in Player /\ SceneInv /\ mirror \in Table
  BY Capacities DEF IInv, TypeOK, EInv
<1>1. CASE TakeRequest
  <2>1. /\ UNCHANGED <<setup, players, index, inCh, pc, todo, client, perfect, mirror,
                       aoiEnabled>>
        /\ Way' = Way /\ login = "none"
        /\ login' = IF setup.kind = "spectator" THEN "spectator" ELSE "resp"
    BY <1>1 DEF TakeRequest, sceneVars, tables, Way
  <2>2. Exact'
    BY <2>1, ExactKept DEF EInv
  <2>3. SceneInv'
    BY <1>0, <2>1 DEF SceneInv, Indexes, JoinOnce, TodoJoined, Stays, Unjoined, Joined
  <2> QED BY <2>1, <2>2, <2>3 DEF EInv, Roles, AlwaysOn
<1>2. CASE LoginResp
  <2> DEFINE m == [type |-> "loginResp"]
             rest == relay \o out
  <2>1. /\ UNCHANGED <<setup, players, index, inCh, pc, todo, client, mirror, relay, out,
                       aoiEnabled>>
        /\ login = "resp" /\ login' = "join" /\ SendFrame(m)
    BY <1>2 DEF LoginResp, sceneVars, tables
  <2>2. m \in Message /\ m.type = "loginResp"
    BY DEF Message
  <2> HIDE DEF m
  <2>3. perfect' => perfect /\ sendCh' = Append(sendCh, m)
    BY <2>1 DEF SendFrame
  <2>4. /\ sendCh \in Seq(Message) /\ relay \in Seq(Message) /\ out \in Seq(Message)
        /\ rest \in Seq(Message) /\ Way = sendCh \o rest
    BY <1>0, WayParts
  <2>5. ASSUME perfect'
        PROVE  Play(mirror', Way') = Play(mirror, Way)
    <3> DEFINE more == Append(sendCh, m)
    <3>1. more \in Seq(Message)
      BY <2>2, <2>4
    <3>2. Way' = (more \o relay) \o out
      BY <2>1, <2>3, <2>5 DEF Way
    <3>3. Play(mirror, more) = Play(mirror, sendCh)
      <4>1. Play(mirror, more) = Handled(Play(mirror, sendCh), m)
        BY <2>2, <2>4, PlayLast
      <4> QED BY <2>2, <4>1 DEF Handled
    <3> HIDE DEF more
    <3>4. (more \o relay) \o out = more \o rest
      BY <2>4, <3>1, QueuesAssociate
    <3> HIDE DEF rest
    <3>5. Play(mirror, more \o rest) = Play(Play(mirror, more), rest)
      BY <2>4, <3>1, PlayBehind
    <3>6. Play(mirror, sendCh \o rest) = Play(Play(mirror, sendCh), rest)
      BY <2>4, PlayBehind
    <3> QED BY <2>1, <2>4, <3>2, <3>3, <3>4, <3>5, <3>6
  <2>6. Exact'
    BY <2>1, <2>3, <2>5, ExactKept DEF EInv
  <2>7. SceneInv'
    BY <1>0, <2>1 DEF SceneInv, Indexes, JoinOnce, TodoJoined, Stays, Unjoined, Joined
  <2> QED BY <2>1, <2>3, <2>6, <2>7 DEF EInv, Roles, AlwaysOn
<1>3. CASE LoginJoin
  <2> DEFINE in == [kind |-> "join", id |-> Me, pos |-> Spawn]
  <2>1. /\ UNCHANGED <<setup, client, perfect, mirror>> /\ Way' = Way
        /\ login = "join" /\ login' = "done" /\ Send(in)
    BY <1>3 DEF LoginJoin, Join, tables, Way
  <2>2. in \in Input /\ in.kind = "join" /\ in.id = Me
    BY <1>0, Inputs
  <2> HIDE DEF in
  <2>3. UNCHANGED <<players, aoiEnabled>>
    BY <2>1 DEF Send
  <2>4. SceneInv'
    BY <1>0, <2>1, <2>2, SceneInvSend DEF SceneInv, Unjoined
  <2>5. Exact'
    BY <2>1, <2>3, ExactKept DEF EInv
  <2>6. setup.kind # "spectator"
    BY <2>1 DEF EInv, Roles
  <2> QED BY <2>1, <2>3, <2>4, <2>5, <2>6 DEF EInv, Roles, AlwaysOn
<1> QED BY <1>1, <1>2, <1>3

\* The frames of a call get behind those that are on their way.
LEMMA CallPlayed ==
  ASSUME TypeOK, NEW frames \in Seq(Message), Call(frames)
  PROVE  /\ Play(mirror', Way') = Play(Play(mirror, Way), frames)
         /\ UNCHANGED <<setup, login, client, perfect>>
         /\ Play(mirror, Way) \in Table
<1>1. /\ UNCHANGED <<setup, login, client, relay, sendCh, perfect, mirror>>
      /\ out = <<>> /\ out' = frames
  BY DEF Call, tables
<1> DEFINE sent == sendCh \o relay
<1>2. sent \in Seq(Message) /\ mirror \in Table
  BY WayParts DEF TypeOK
<1>3. sent \o <<>> = sent
  BY <1>2
<1>4. Way = sent /\ Way' = sent \o frames
  BY <1>1, <1>3 DEF Way
<1> HIDE DEF sent
<1>5. Play(mirror, sent \o frames) = Play(Play(mirror, sent), frames)
  BY <1>2, PlayBehind
<1>6. Play(mirror, sent) \in Table
  BY <1>2, PlayType
<1> QED BY <1>1, <1>4, <1>5, <1>6

\* A call that says nothing about the players, or of which Me is not told.
LEMMA CallKept ==
  ASSUME TypeOK, Exact, NEW frames \in Seq(Message), Call(frames), UNCHANGED players,
         setup.kind # "spectator" =>
           \A at \in Table : Play(at, frames) = at
  PROVE  Exact'
BY CallPlayed, ExactKept

LEMMA DrainExact ==
  ASSUME IInv, EInv, Drain
  PROVE  EInv'
<1>0. TypeOK /\ SceneTypeOK /\ Me \in Player /\ SceneInv /\ DrainOne
  BY Capacities DEF IInv, TypeOK, EInv, Drain
<1>1. PICK in \in Input : in = Head(inCh)
  BY <1>0, HeadInput DEF DrainOne
<1>2. PICK first \in SetToSeqs(EnterFrames(in)),
           then \in SetToSeqs(LeaveFrames(in)) : Call(first \o then)
  BY <1>1 DEF Drain
<1>3. Apply(in) /\ inCh # <<>> /\ aoiEnabled' = aoiEnabled
  BY <1>0, <1>1 DEF DrainOne
<1> DEFINE frames == first \o then
           at == Play(mirror, Way)
           next == Play(mirror', Way')
<1>4. frames \in Seq(Message)
  <2>1. /\ EnterFrames(in) \in SUBSET Message /\ IsFiniteSet(EnterFrames(in))
        /\ LeaveFrames(in) \in SUBSET Message /\ IsFiniteSet(LeaveFrames(in))
    BY <1>0, <1>3, DrainFrames
  <2>2. first \in Seq(Message) /\ then \in Seq(Message)
    BY <1>2, <2>1, FramesInOrder
  <2> QED BY <2>2
<1>5. Call(frames)
  BY <1>2
<1>6. /\ next = Play(at, frames)
      /\ UNCHANGED <<setup, login, client, perfect>> /\ at \in Table
  <2> HIDE DEF frames
  <2> QED BY <1>0, <1>4, <1>5, CallPlayed
<1> HIDE DEF at, next
<1>7. ASSUME NEW p \in Player
      PROVE  next[p] # Nil <=> /\ at[p] # Nil \/ <<Me, p>> \in Appear(in)
                               /\ <<Me, p>> \notin Vanish(in)
  BY <1>0, <1>2, <1>3, <1>6, DrainPlayed
<1>8. ~ (in.kind = "leave" /\ in.id = Me)
  <2>1. 1 \in DOMAIN inCh /\ in = inCh[1]
    BY <1>0, <1>1, <1>3 DEF SceneTypeOK
  <2> QED BY <1>0, <2>1 DEF SceneInv, Stays
<1>9. \A p \in Player : TellsChange(Me, p, in)
  BY <1>0, <1>1, <1>8, DrainChange DEF SceneInv
<1>10. Exact'
  <2> SUFFICES ASSUME perfect', client' # "failed", (setup').kind # "spectator",
                      NEW p \in Player
               PROVE  next[p] # Nil <=> Sees(Me, p)'
    BY DEF Exact, next
  <2>1. at[p] # Nil <=> Sees(Me, p)
    BY <1>6 DEF EInv, Exact, at
  <2> QED BY <1>7, <1>9, <2>1 DEF TellsChange
<1>11. SceneInv'
  BY <1>0, <1>6, SceneInvDrain
<1> QED BY <1>3, <1>6, <1>10, <1>11 DEF EInv, Roles, AlwaysOn

LEMMA StillExact ==
  ASSUME IInv, EInv, OtherStep \/ SyncAll \/ \E id \in Player : Sync(id)
  PROVE  EInv'
<1>0. TypeOK /\ SceneTypeOK /\ Me \in Player /\ SceneInv /\ <<>> \in Seq(Message)
  BY Capacities DEF IInv, TypeOK, EInv
<1>1. ASSUME StillStep, UNCHANGED <<setup, login, perfect>>, Exact' PROVE EInv'
  <2>1. SceneInv' /\ aoiEnabled' = aoiEnabled
    BY <1>0, <1>1, SceneInvStill, StillType
  <2> QED BY <1>1, <2>1 DEF EInv, Roles, AlwaysOn
<1>2. ASSUME Call(<<>>), StillStep PROVE EInv'
  <2>1. UNCHANGED players /\ \A at \in Table : Play(at, <<>>) = at
    BY <1>0, <1>2, StillType, PlayNothing
  <2>2. Exact'
    BY <1>0, <1>2, <2>1, CallKept DEF EInv
  <2> QED BY <1>1, <1>2, <2>2 DEF Call
<1>3. CASE OtherStep
  BY <1>2, <1>3 DEF OtherStep, StillStep, SkipAll
<1>4. CASE SyncAll
  <2> DEFINE map  == [type |-> "minimap", ids |-> Joined \ {Me}]
             sync == [type |-> "sync", states |-> players]
  <2>1. map \in Message /\ sync \in Message /\ map.type = "minimap"
    BY <1>0 DEF Message, Joined, SceneTypeOK, Table
  <2>2. FullFrames \in {<<>>, <<map>>, <<map, sync>>}
    BY DEF FullFrames
  <2>3. login # "spectator" => FullFrames \in {<<>>, <<map>>}
    BY DEF FullFrames
  <2> HIDE DEF map, sync
  <2>4. FullFrames \in Seq(Message)
    <3>1. <<map>> \in Seq(Message) /\ <<map, sync>> \in Seq(Message)
      BY <2>1
    <3> QED BY <1>0, <2>2, <3>1
  <2>5. ASSUME NEW at \in Table PROVE Play(at, <<map>>) = at
    <3>1. <<map>> = Append(<<>>, map)
      OBVIOUS
    <3>2. Play(at, Append(<<>>, map)) = Handled(Play(at, <<>>), map)
      BY <1>0, <2>1, PlayLast
    <3>3. Play(at, <<>>) = at
      BY PlayNothing
    <3> QED BY <2>1, <3>1, <3>2, <3>3 DEF Handled
  <2>6. setup.kind # "spectator" => login # "spectator"
    BY DEF IInv, Kinds
  <2>7. setup.kind # "spectator" => \A at \in Table : Play(at, FullFrames) = at
    BY <2>3, <2>5, <2>6, PlayNothing
  <2>8. StillStep /\ Call(FullFrames) /\ UNCHANGED players
    BY <1>0, <1>4, StillType DEF SyncAll, StillStep, BroadcastAll
  <2>9. Exact'
    BY <1>0, <2>4, <2>7, <2>8, CallKept DEF EInv
  <2> QED BY <1>1, <2>8, <2>9 DEF Call
<1>5. ASSUME NEW id \in Player, Sync(id) PROVE EInv'
  <2>1. SyncOne(id) /\ StillStep
    BY <1>5 DEF Sync, StillStep
  <2>2. CASE id # Me
    BY <1>2, <1>5, <2>1, <2>2 DEF Sync
  <2>3. CASE id = Me
    <3> DEFINE sync == [type |-> "sync", states |-> StatesFor(Me)]
               at == Play(mirror, Way)
    <3>1. Call(<<sync>>)
      BY <1>5, <2>3 DEF Sync
    <3>2. sync \in Message /\ sync.type = "sync" /\ sync.states = StatesFor(Me)
      BY <1>0 DEF Message, StatesFor, SceneTypeOK, Table
    <3> HIDE DEF sync
    <3>3. <<sync>> \in Seq(Message)
      BY <3>2
    <3>4. /\ Play(mirror', Way') = Play(at, <<sync>>)
          /\ UNCHANGED <<setup, login, client, perfect>> /\ at \in Table
      BY <1>0, <3>1, <3>3, CallPlayed
    <3> HIDE DEF at
    <3>5. Play(at, <<sync>>) = StatesFor(Me)
      <4>1. <<sync>> = Append(<<>>, sync)
        OBVIOUS
      <4>2. Play(at, Append(<<>>, sync)) = Handled(Play(at, <<>>), sync)
        BY <1>0, <3>2, PlayLast
      <4> QED BY <3>2, <4>1, <4>2 DEF Handled
    <3>6. UNCHANGED <<players, aoiEnabled>>
      BY <1>0, <2>1, StillType
    <3>7. Me \in Joined
      BY <1>0, <2>1, <2>3 DEF SyncOne, SceneInv, TodoJoined
    <3>8. /\ Snapshot(Me) \subseteq Joined
          /\ aoiEnabled => \A q \in Player : q \in Snapshot(Me) <=> Sees(Me, q)
      BY <1>0, <3>7, SnapshotSees DEF SceneInv
    <3>9. Exact'
      <4> SUFFICES ASSUME perfect', NEW p \in Player
                   PROVE  StatesFor(Me)[p] # Nil <=> Sees(Me, p)'
        BY <3>4, <3>5 DEF Exact
      <4>1. aoiEnabled
        BY <3>4 DEF EInv, AlwaysOn
      <4>2. StatesFor(Me)[p] # Nil <=> p \in Snapshot(Me)
        BY <3>8 DEF StatesFor, Joined
      <4>3. Sees(Me, p)' <=> Sees(Me, p)
        BY <3>6 DEF Sees, Joined
      <4> QED BY <3>8, <4>1, <4>2, <4>3
    <3> QED BY <1>1, <2>1, <3>4, <3>9
  <2> QED BY <2>2, <2>3
<1> QED BY <1>3, <1>4, <1>5

LEMMA PassExact ==
  ASSUME IInv, EInv, SendNext \/ RecvLoop
  PROVE  EInv'
<1>1. TypeOK /\ Kinds
  BY DEF IInv
<1>2. UNCHANGED <<sceneVars, setup, login, client, tables>>
  BY DEF SendNext, RecvLoop
<1>3. perfect' => perfect /\ Way' = Way
  BY <1>1, PassWay
<1>4. Exact'
  BY <1>2, <1>3, ExactKept DEF EInv, sceneVars, tables
<1>5. SceneInv'
  BY <1>2 DEF EInv, SceneInv, Indexes, JoinOnce, TodoJoined, Stays, Unjoined, Joined, sceneVars
<1> QED BY <1>2, <1>3, <1>4, <1>5 DEF EInv, Roles, AlwaysOn, sceneVars

\* The client handles the first of the frames.
LEMMA ClientExact ==
  ASSUME IInv, EInv, Client
  PROVE  EInv'
<1>1. /\ UNCHANGED <<sceneVars, setup, login, out, relay, perfect>>
      /\ sendCh # <<>> /\ sendCh' = Tail(sendCh)
  BY DEF Client, ClientLogin, ClientHandle
<1>2. /\ sendCh \in Seq(Message) /\ relay \in Seq(Message) /\ out \in Seq(Message)
      /\ sendCh \o relay \in Seq(Message) /\ relay \o out \in Seq(Message)
      /\ Way = sendCh \o (relay \o out)
  BY WayParts DEF IInv
<1>3. client' # "failed" => /\ client # "failed"
                            /\ mirror' = Handled(mirror, Head(sendCh))
  BY DEF Client, ClientLogin, ClientHandle, tables, Handled
<1>4. Way # <<>> /\ Head(Way) = Head(sendCh) /\ Way' = Tail(Way) /\ Way \in Seq(Message)
  <2> DEFINE rest == relay \o out
             less == Tail(sendCh)
  <2>1. rest \in Seq(Message) /\ less \in Seq(Message)
    BY <1>1, <1>2
  <2>2. Way' = (less \o relay) \o out
    BY <1>1 DEF Way
  <2> HIDE DEF less
  <2>3. (less \o relay) \o out = less \o rest
    BY <1>2, <2>1, QueuesAssociate
  <2> HIDE DEF rest
  <2>4. /\ sendCh \o rest # <<>> /\ Head(sendCh \o rest) = Head(sendCh)
        /\ Tail(sendCh \o rest) = Tail(sendCh) \o rest
        /\ sendCh \o rest \in Seq(Message)
    BY <1>1, <1>2, <2>1, JoinedQueues
  <2> QED BY <1>2, <2>2, <2>3, <2>4 DEF less, rest
<1>5. client' # "failed" => Play(mirror', Way') = Play(mirror, Way)
  <2>1. Play(mirror, Way) = Play(Handled(mirror, Head(Way)), Tail(Way))
    BY <1>4, PlayFirst
  <2> QED BY <1>3, <1>4, <2>1
<1>6. Exact'
  BY <1>1, <1>3, <1>5, ExactKept DEF EInv, sceneVars
<1>7. SceneInv'
  BY <1>1 DEF EInv, SceneInv, Indexes, JoinOnce, TodoJoined, Stays, Unjoined, Joined, sceneVars
<1> QED BY <1>1, <1>6, <1>7 DEF EInv, Roles, AlwaysOn, sceneVars

LEMMA EInvStep == IInv /\ EInv /\ [Next]_vars => EInv'
<1>1. ASSUME EInv, UNCHANGED vars PROVE EInv'
  <2>1. UNCHANGED <<players, index, inCh, pc, todo, aoiEnabled, setup, login, client,
                    perfect, mirror>> /\ Way' = Way
    BY <1>1 DEF vars, sceneVars, linkVars, tables, Way
  <2>2. Exact'
    BY <1>1, <2>1, ExactKept DEF EInv
  <2>3. SceneInv'
    BY <1>1, <2>1 DEF EInv, SceneInv, Indexes, JoinOnce, TodoJoined, Stays, Unjoined, Joined
  <2> QED BY <1>1, <2>1, <2>2, <2>3 DEF EInv, Roles, AlwaysOn
<1> QED BY <1>1, EnvExact, LoginExact, DrainExact, StillExact, PassExact, ClientExact
        DEF Next, Tick

\* As long as no frame is lost and AOI stays on, the client's mirror and the
\* frames on their way to it, handled in their order, say exactly whom the
\* player sees, whatever joins, moves, leaves and snapshots have happened: a
\* client that has read all its frames knows precisely its view.
THEOREM MirrorFollowsSight == Spec => []PendingExact
<1>1. TypeOK /\ EInv => PendingExact
  <2> SUFFICES ASSUME EInv, perfect, client = "run", Me \in Joined, NEW p \in Player
               PROVE  Pending[p] # Nil <=> /\ p \in Joined \ {Me}
                                           /\ InView(players[Me], players[p])
    BY DEF PendingExact
  <2>1. setup.kind # "spectator"
    BY DEF EInv, Roles, SceneInv, Unjoined, Joined
  <2>2. Pending = Play(mirror, Way)
    BY DEF Pending, Play, Way
  <2> QED BY <2>1, <2>2 DEF EInv, Exact, Sees
<1>2. IInv => TypeOK
  BY DEF IInv
<1> QED BY <1>1, <1>2, IInvInit, IInvStep, EInvInit, EInvStep, PTL DEF Spec

=============================================================================
