---------------------------- MODULE SceneProofs ----------------------------
(***************************************************************************)
(* The invariants of SceneView, proved for every map, every set of players *)
(* and positions, every channel capacity and all rates.                    *)
(***************************************************************************)
EXTENDS SceneView, SceneLemmas

-----------------------------------------------------------------------------
(* The inductive invariant.                                                *)

\* A player that is not in the scene has been told nothing.
FreshUnknown == \A p \in Player : players[p] = Nil => known[p] = {}

IInv == TypeOK /\ IndexExact /\ JoinOnce /\ TodoJoined /\ FreshUnknown

-----------------------------------------------------------------------------
(* Type correctness.                                                       *)

LEMMA TypeInit == Init => TypeOK
BY SceneInitType DEF Init, TypeOK

LEMMA TypeStep == TypeOK /\ [Next]_vars => TypeOK'
<1> SUFFICES ASSUME TypeOK, [Next]_vars PROVE TypeOK'
  OBVIOUS
<1> USE DEF TypeOK
<1>1. ASSUME NEW p \in Player, EnvJoin(p) PROVE TypeOK'
  BY <1>1, CallType DEF EnvJoin, viewVars
<1>2. ASSUME NEW p \in Player, EnvLeave(p) PROVE TypeOK'
  BY <1>2, CallType DEF EnvLeave, viewVars
<1>3. ASSUME NEW p \in Player, NEW pos \in Pos, EnvMove(p, pos) PROVE TypeOK'
  BY <1>3, CallType DEF EnvMove, viewVars
<1>4. CASE EnvToggle
  BY <1>4, ToggleType DEF EnvToggle, viewVars
<1>5. CASE ViewDrain
  <2>1. known' \in [Player -> SUBSET Player] /\ again' \in SUBSET Player
    BY <1>5 DEF ViewDrain, Tell, Recorded, Joined
  <2> QED BY <1>5, <2>1, DrainType DEF ViewDrain
<1>6. CASE ViewTick
  BY <1>6, StillType DEF ViewTick, viewVars, StillStep, BroadcastAll, SkipAll
<1>7. ASSUME NEW id \in Player, ViewSync(id) PROVE TypeOK'
  <2>1. Snapshot(id) \in SUBSET Player
    BY DEF Snapshot, Joined
  <2> QED BY <1>7, <2>1, StillType DEF ViewSync, StillStep
<1>8. CASE UNCHANGED vars
  BY <1>8, SceneSame DEF vars, viewVars
<1> QED BY <1>1, <1>2, <1>3, <1>4, <1>5, <1>6, <1>7, <1>8 DEF Next, Env, Tick

\* The state keeps its types: in particular the channel never holds more
\* than its capacity and the index has no cell that NewManager did not make.
THEOREM TypeCorrect == Spec => []TypeOK
BY TypeInit, TypeStep, PTL DEF Spec

-----------------------------------------------------------------------------
(* Effects of the handlers on the index and the table.                     *)

LEMMA ExactIndexes ==
  TypeOK => /\ players \in Places
            /\ IndexExact <=> Indexes(index, players)
BY DEF TypeOK, SceneTypeOK, Places, IndexExact, InItsCell, Indexes, Joined

LEMMA ExactIndexesPrimed ==
  TypeOK' => /\ players' \in Places
             /\ IndexExact' <=> Indexes(index', players')
BY DEF TypeOK, SceneTypeOK, Places, IndexExact, InItsCell, Indexes, Joined

\* Whom a player sees is the same said in two ways.
LEMMA SeesVisible ==
  ASSUME NEW o
  PROVE  /\ \A q \in Player : Sees(o, q) <=> q \in Visible(o)
         /\ Visible(o) \subseteq Player
BY DEF Sees, Visible, Joined

LEMMA SeesVisiblePrimed ==
  ASSUME NEW o
  PROVE  /\ \A q \in Player : Sees(o, q)' <=> q \in Visible(o)'
         /\ Visible(o)' \subseteq Player
BY DEF Sees, Visible, Joined

-----------------------------------------------------------------------------
(* When an input is applied, the ledger of a player that stays or arrives  *)
(* in the scene follows its sight, and is otherwise left alone.            *)

FollowsOn(o, q) ==
  /\ Sees(o, q)' /\ ~Sees(o, q) => q \in known'[o]
  /\ Sees(o, q) /\ ~Sees(o, q)' => q \notin known'[o]
  /\ (Sees(o, q)' <=> Sees(o, q)) => (q \in known'[o] <=> q \in known[o])

\* What o is told of q does not depend on the index of the players of S.
LEMMA DrainFollowsOn ==
  ASSUME TypeOK, NEW S, IndexesBut(index, players, S), ViewDrain,
         NEW o \in Joined' \ S, NEW q \in Player \ S,
         Head(inCh).kind = "join" /\ Head(inCh).id \in {o, q}
           => players[Head(inCh).id] = Nil
  PROVE  FollowsOn(o, q)
<1>1. PICK in \in Input : in = Head(inCh)
  BY HeadInput DEF ViewDrain, DrainOne, TypeOK
<1>2. Apply(in) /\ Tell(in) /\ SceneTypeOK /\ o \in Player
  BY <1>1 DEF ViewDrain, DrainOne, TypeOK, Joined
<1>3. ~ (in.kind = "leave" /\ in.id = o)
  BY <1>2, ApplyJoined
<1>4. TellsChange(o, q, in)
  BY <1>1, <1>2, <1>3, DrainChangeBut
<1>5. known'[o] = (known[o] \cup { s \in Player : <<o, s>> \in Appear(in) })
                    \ { s \in Player : <<o, s>> \in Vanish(in) }
  BY <1>2, <1>3 DEF Tell
<1> QED BY <1>4, <1>5 DEF FollowsOn, TellsChange

Follows(o) == \A q \in Player : FollowsOn(o, q)

LEMMA DrainFollows ==
  ASSUME IInv, ViewDrain, NEW o \in Joined'
  PROVE  Follows(o)
<1>1. TypeOK /\ IndexesBut(index, players, {})
  BY ExactIndexes, IndexesAll DEF IInv
<1>2. Head(inCh).kind = "join" => players[Head(inCh).id] = Nil
  BY HeadFresh DEF IInv, TypeOK, ViewDrain, DrainOne
<1> QED BY <1>1, <1>2, DrainFollowsOn DEF Follows

-----------------------------------------------------------------------------
(* The inductive invariant is preserved.                                   *)

LEMMA DrainFresh ==
  ASSUME TypeOK, FreshUnknown, ViewDrain
  PROVE  FreshUnknown'
<1> DEFINE in == Head(inCh)
<1>1. in \in Input /\ Apply(in) /\ Tell(in)
  BY HeadInput DEF ViewDrain, DrainOne, TypeOK
<1> HIDE DEF in
<1> SUFFICES ASSUME NEW o \in Player, players'[o] = Nil
             PROVE  known'[o] = {}
  BY DEF FreshUnknown
<1>2. CASE in.kind = "leave" /\ in.id = o
  BY <1>1, <1>2 DEF Tell
<1>3. CASE ~(in.kind = "leave" /\ in.id = o)
  <2>1. players[o] = Nil
    <3>1. in.id \in Player /\ (in.kind = "leave" \/ in.pos \in Pos)
      BY <1>1, SceneAssumption DEF Input
    <3> QED BY <1>1, <1>3, <3>1, SceneAssumption
            DEF Apply, HandleJoin, HandleLeave, HandleMove, IgnoreUnknown,
                TypeOK, SceneTypeOK
  <2>2. in.kind = "join" => o # in.id
    BY <1>1, SceneAssumption
       DEF Apply, HandleJoin, HandleLeave, HandleMove, IgnoreUnknown,
           TypeOK, SceneTypeOK, Input
  <2>3. \A q \in Player : <<o, q>> \notin Appear(in)
    BY <2>1, <2>2 DEF Appear, JoinAppear, MoveAppear, BothWays, Joined
  <2>4. known'[o] \subseteq known[o]
    BY <1>1, <1>3, <2>3 DEF Tell
  <2> QED BY <2>1, <2>4 DEF FreshUnknown
<1> QED BY <1>2, <1>3

LEMMA InvInit == Init => IInv
<1>1. Init => TypeOK
  BY TypeInit
<1>2. Init => IndexExact
  BY DEF Init, SceneInit, IndexExact, InItsCell, EmptyIndex, Joined
<1>3. Init => JoinOnce /\ TodoJoined /\ FreshUnknown
  BY DEF Init, SceneInit, JoinOnce, TodoJoined, FreshUnknown
<1> QED BY <1>1, <1>2, <1>3 DEF IInv

\* The parts of the invariant that a step leaves alone.
LEMMA SameScene ==
  ASSUME IInv, UNCHANGED <<players, index>>
  PROVE  IndexExact' /\ Joined' = Joined /\ \A o \in Player : Visible(o)' = Visible(o)
BY DEF IInv, IndexExact, InItsCell, Joined, Visible

LEMMA InvStep ==
  ASSUME Rejoin = {}, IInv, [Next]_vars
  PROVE  IInv'
<1>1. TypeOK'
  BY TypeStep DEF IInv
<1>2. ASSUME NEW in \in Input, Send(in), UNCHANGED known,
             in.kind = "join" => players[in.id] = Nil /\ ~JoinQueued(in.id)
      PROVE  IInv'
  <2>1. JoinOnce'
    BY <1>2, SendJoinOnce DEF IInv, TypeOK, JoinQueued
  <2>2. UNCHANGED <<players, index, pc, todo>>
    BY <1>2 DEF Send, tickVars
  <2> QED BY <1>1, <1>2, <2>1, <2>2, SameScene DEF IInv, TodoJoined, FreshUnknown
<1>3. ASSUME NEW p \in Player, EnvJoin(p) PROVE IInv'
  <2>1. [kind |-> "join", id |-> p, pos |-> Spawn] \in Input
    BY SceneAssumption DEF Input
  <2> QED BY <1>2, <1>3, <2>1 DEF EnvJoin, Join, viewVars
<1>4. ASSUME NEW p \in Player, EnvLeave(p) PROVE IInv'
  <2>1. [kind |-> "leave", id |-> p] \in Input
    BY DEF Input
  <2> QED BY <1>2, <1>4, <2>1 DEF EnvLeave, Leave, viewVars
<1>5. ASSUME NEW p \in Player, NEW pos \in Pos, EnvMove(p, pos) PROVE IInv'
  <2>1. [kind |-> "move", id |-> p, pos |-> pos] \in Input
    BY DEF Input
  <2> QED BY <1>2, <1>5, <2>1 DEF EnvMove, Move, viewVars
<1>6. ASSUME UNCHANGED <<players, index, inCh, known>>, TodoJoined' PROVE IInv'
  BY <1>1, <1>6, SameScene DEF IInv, JoinOnce, FreshUnknown
<1>7. CASE EnvToggle
  <2>1. TodoJoined'
    BY <1>7 DEF EnvToggle, SetAOIEnabled, tickVars, IInv, TodoJoined, Joined
  <2> QED BY <1>6, <1>7, <2>1 DEF EnvToggle, SetAOIEnabled, viewVars
<1>8. CASE ViewDrain
  <2>1. SceneTypeOK /\ Indexes(index, players) /\ JoinOnce /\ DrainOne
    BY <1>8, ExactIndexes DEF IInv, TypeOK, ViewDrain
  <2>2. Indexes(index', players') /\ JoinOnce'
    BY <2>1, DrainIndex, DrainJoinOnce
  <2>3. IndexExact' /\ FreshUnknown'
    BY <1>1, <1>8, <2>2, ExactIndexesPrimed, DrainFresh DEF IInv
  <2>4. TodoJoined'
    BY <1>8 DEF ViewDrain, DrainOne, tickVars, TodoJoined
  <2> QED BY <1>1, <2>2, <2>3, <2>4 DEF IInv
<1>9. CASE ViewTick
  <2>1. UNCHANGED <<players, index, inCh, known>>
    BY <1>9 DEF ViewTick, viewVars, TickStart, DrainDone, SyncDone, BroadcastAll, SkipAll,
                EndTick
  <2>2. TodoJoined'
    BY <1>9 DEF ViewTick, TickStart, DrainDone, SyncDone, BroadcastAll, SkipAll,
                EndTick, TodoJoined, Joined
  <2> QED BY <1>6, <2>1, <2>2
<1>10. ASSUME NEW id \in Player, ViewSync(id) PROVE IInv'
  <2>1. id \in Joined /\ TodoJoined'
    BY <1>10 DEF ViewSync, SyncOne, IInv, TodoJoined, Joined
  <2>2. FreshUnknown'
    BY <1>10, <2>1 DEF ViewSync, SyncOne, IInv, FreshUnknown, Joined, TypeOK
  <2>3. IndexExact' /\ JoinOnce'
    BY <1>10, SameScene DEF ViewSync, SyncOne, IInv, JoinOnce
  <2> QED BY <1>1, <2>1, <2>2, <2>3 DEF IInv
<1>11. CASE UNCHANGED vars
  <2>1. TodoJoined'
    BY <1>11 DEF vars, sceneVars, IInv, TodoJoined, Joined
  <2> QED BY <1>6, <1>11, <2>1 DEF vars, viewVars, sceneVars
<1> QED BY <1>3, <1>4, <1>5, <1>7, <1>8, <1>9, <1>10, <1>11 DEF Next, Env, Tick

THEOREM Inductive ==
  ASSUME Rejoin = {}
  PROVE  Spec => []IInv
BY InvInit, InvStep, PTL DEF Spec

-----------------------------------------------------------------------------
(* The index when clients log in as often as they like.                    *)

LEMMA StaleIndexes ==
  TypeOK => /\ players \in Places
            /\ StaleOnlyIfAgain <=> IndexesBut(index, players, again)
BY DEF TypeOK, SceneTypeOK, Places, StaleOnlyIfAgain, InItsCell, IndexesBut, Joined

LEMMA StaleIndexesPrimed ==
  TypeOK' => /\ players' \in Places
             /\ StaleOnlyIfAgain' <=> IndexesBut(index', players', again')
BY DEF TypeOK, SceneTypeOK, Places, StaleOnlyIfAgain, InItsCell, IndexesBut, Joined

LEMMA StaleStep ==
  ASSUME TypeOK, TypeOK', StaleOnlyIfAgain, [Next]_vars
  PROVE  StaleOnlyIfAgain'
<1>1. IndexesBut(index, players, again) /\ players \in Places
  BY StaleIndexes
<1>2. CASE ViewDrain
  <2> DEFINE in == Head(inCh)
  <2>1. in \in Input /\ Apply(in) /\ Recorded(in)
    BY <1>2, HeadInput DEF ViewDrain, DrainOne, TypeOK
  <2> HIDE DEF in
  <2>2. in.id \in Player
    BY <2>1 DEF Input
  <2>3. in.kind # "join" => again' = again
    BY <2>1 DEF Recorded
  <2>4. IndexesBut(index', players', again')
    <3>1. CASE HandleJoin(in)
      <4>1. in.pos \in Pos
        BY <2>1, <3>1, SceneAssumption DEF HandleJoin, Input
      <4>2. again \subseteq again' /\ (players[in.id] # Nil => in.id \in again')
        BY <2>1, <2>2, <3>1 DEF HandleJoin, Recorded, Joined
      <4> QED BY <1>1, <2>2, <3>1, <4>1, <4>2, EnterIndexesBut DEF HandleJoin
    <3>2. CASE HandleLeave(in)
      BY <1>1, <2>2, <2>3, <3>2, LeaveIndexesBut DEF HandleLeave
    <3>3. CASE HandleMove(in)
      <4>1. in.pos \in Pos
        BY <2>1, <3>3 DEF HandleMove, Input
      <4> QED BY <1>1, <2>2, <2>3, <3>3, <4>1, MoveIndexesBut DEF HandleMove
    <3>4. CASE IgnoreUnknown(in)
      BY <1>1, <2>3, <3>4 DEF IgnoreUnknown
    <3> QED BY <2>1, <3>1, <3>2, <3>3, <3>4 DEF Apply
  <2> QED BY <2>4, StaleIndexesPrimed
<1>3. ASSUME UNCHANGED <<players, index, again>> PROVE StaleOnlyIfAgain'
  BY <1>1, <1>3, StaleIndexesPrimed
<1>4. CASE Env
  BY <1>3, <1>4 DEF Env, EnvJoin, EnvLeave, EnvMove, EnvToggle, Join, Leave, Move, Send,
                    SetAOIEnabled, viewVars
<1>5. CASE ViewTick
  BY <1>3, <1>5 DEF ViewTick, viewVars, TickStart, DrainDone, SyncDone, BroadcastAll,
                    SkipAll, EndTick
<1>6. ASSUME NEW id \in Player, ViewSync(id) PROVE StaleOnlyIfAgain'
  BY <1>3, <1>6 DEF ViewSync, SyncOne
<1>7. CASE UNCHANGED vars
  BY <1>3, <1>7 DEF vars, viewVars, sceneVars
<1> QED BY <1>2, <1>4, <1>5, <1>6, <1>7 DEF Next, Tick

\* However often clients log in, and in whatever order joins, moves and leaves
\* are applied, each player of the table is indexed in the cell of its position,
\* and only players that have logged in again are indexed elsewhere.
THEOREM OnlyRejoinedStale == Spec => []StaleOnlyIfAgain
<1>1. Init => StaleOnlyIfAgain
  BY DEF Init, SceneInit, StaleOnlyIfAgain, InItsCell, EmptyIndex, Joined
<1> QED BY <1>1, StaleStep, TypeCorrect, PTL DEF Spec

-----------------------------------------------------------------------------
(* That nobody is blind, however often clients log in.                      *)

LEMMA BlindStep ==
  ASSUME TypeOK, TypeOK', StaleOnlyIfAgain, StaleOnlyIfAgain', NeverBlind, [Next]_vars
  PROVE  NeverBlind'
<1>1. IndexesBut(index, players, again)
  BY StaleIndexes
<1>2. CASE ViewDrain
  <2> SUFFICES ASSUME NEW o \in Joined' \ again', NEW q \in Visible(o)' \ again'
               PROVE  q \in known'[o]
    BY DEF NeverBlind
  <2> DEFINE in == Head(inCh)
  <2>1. again \subseteq again' /\ (in.kind = "join" /\ in.id \in Joined => in.id \in again')
    BY <1>2 DEF ViewDrain, Recorded
  <2>2. o \in Player \ again /\ q \in Player \ again /\ in \in Input
    BY <1>2, <2>1, HeadInput DEF Joined, Visible, ViewDrain, DrainOne, TypeOK
  <2>3. in.kind = "join" /\ in.id \in {o, q} => players[in.id] = Nil
    BY <2>1, <2>2 DEF Joined
  <2>4. FollowsOn(o, q)
    BY <1>1, <1>2, <2>2, <2>3, DrainFollowsOn
  <2>5. Sees(o, q) => q \in known[o]
    BY <2>2 DEF NeverBlind, Sees, Visible
  <2>6. Sees(o, q)'
    BY <2>2, SeesVisiblePrimed
  <2> QED BY <2>4, <2>5, <2>6 DEF FollowsOn
<1>3. ASSUME NEW id \in Player, ViewSync(id) PROVE NeverBlind'
  <2>1. /\ known' = [known EXCEPT ![id] = Snapshot(id)]
        /\ UNCHANGED <<players, again>>
    BY <1>3 DEF ViewSync, SyncOne
  <2>2. \A q \in Player : id \in Joined /\ Sees(id, q) => q \in Snapshot(id)
    BY <1>1, SnapshotHolds DEF TypeOK
  <2> SUFFICES ASSUME NEW o \in Joined \ again, NEW q \in Visible(o) \ again
               PROVE  q \in known'[o]
    BY <2>1 DEF NeverBlind, Joined, Visible
  <2>3. o \in Player /\ q \in Player /\ Sees(o, q)
    BY SeesVisible DEF Joined
  <2>4. CASE o = id
    BY <2>1, <2>2, <2>3, <2>4 DEF TypeOK
  <2>5. CASE o # id
    BY <2>1, <2>3, <2>5 DEF NeverBlind, TypeOK
  <2> QED BY <2>4, <2>5
<1>4. ASSUME UNCHANGED <<players, known, again>> PROVE NeverBlind'
  BY <1>4 DEF NeverBlind, Visible, Joined
<1>5. CASE Env
  BY <1>4, <1>5 DEF Env, EnvJoin, EnvLeave, EnvMove, EnvToggle, Join, Leave, Move, Send,
                    SetAOIEnabled, viewVars
<1>6. CASE ViewTick
  BY <1>4, <1>6 DEF ViewTick, viewVars, TickStart, DrainDone, SyncDone, BroadcastAll,
                    SkipAll, EndTick
<1>7. CASE UNCHANGED vars
  BY <1>4, <1>7 DEF vars, viewVars, sceneVars
<1> QED BY <1>2, <1>3, <1>5, <1>6, <1>7 DEF Next, Tick

\* Whatever the interleaving of producers, ticks and switches of AOI, and however
\* often clients log in, no client misses a player that it can see, those that
\* joined while they were in the scene excepted.
THEOREM ClientsNeverBlind == Spec => []NeverBlind
<1>1. Init => NeverBlind
  BY DEF Init, SceneInit, NeverBlind, Joined
<1> QED BY <1>1, BlindStep, OnlyRejoinedStale, TypeCorrect, PTL DEF Spec

-----------------------------------------------------------------------------
(* What the clients know.                                                  *)

LEMMA SnapshotExact ==
  ASSUME IInv, NEW id \in Joined
  PROVE  /\ aoiEnabled => Snapshot(id) = Visible(id)
         /\ Visible(id) \subseteq Snapshot(id)
<1>1. SceneTypeOK /\ Indexes(index, players)
  BY ExactIndexes DEF IInv, TypeOK
<1>2. /\ Snapshot(id) \subseteq Player
      /\ \A q \in Player : Sees(id, q) => q \in Snapshot(id)
      /\ aoiEnabled => \A q \in Player : q \in Snapshot(id) <=> Sees(id, q)
  BY <1>1, SnapshotSees DEF Joined
<1> QED BY <1>2, SeesVisible

\* Every step either follows the changes of sight, sends a snapshot, or
\* changes neither the table nor a ledger.
LEMMA StepKinds ==
  ASSUME IInv, [Next]_vars
  PROVE  \/ ViewDrain
         \/ \E id \in Joined : ViewSync(id)
         \/ UNCHANGED <<players, known>>
<1>1. ASSUME NEW id \in Player, ViewSync(id) PROVE id \in Joined
  BY <1>1 DEF ViewSync, SyncOne, IInv, TodoJoined
<1>2. Env => UNCHANGED <<players, known>>
  BY DEF Env, EnvJoin, EnvLeave, EnvMove, EnvToggle, Join, Leave, Move, Send,
         SetAOIEnabled, viewVars
<1>3. ViewTick => UNCHANGED <<players, known>>
  BY DEF ViewTick, viewVars, TickStart, DrainDone, SyncDone, BroadcastAll, SkipAll, EndTick
<1>4. UNCHANGED vars => UNCHANGED <<players, known>>
  BY DEF vars, viewVars, sceneVars
<1> QED BY <1>1, <1>2, <1>3, <1>4 DEF Next, Tick

LEMMA SyncKeeps ==
  ASSUME IInv, NEW id \in Joined, ViewSync(id)
  PROVE  /\ known'[id] = Snapshot(id)
         /\ \A o \in Player \ {id} : known'[o] = known[o]
         /\ UNCHANGED <<players, index>>
BY DEF ViewSync, SyncOne, IInv, TypeOK, Joined

LEMMA ExactStep ==
  ASSUME AoiModes = {TRUE}, IInv, KnownExact, [Next]_vars
  PROVE  KnownExact'
<1>1. CASE ViewDrain
  <2> SUFFICES ASSUME NEW o \in Joined'
               PROVE  known'[o] = Visible(o)'
    BY DEF KnownExact
  <2>1. Follows(o) /\ o \in Player
    BY <1>1, DrainFollows DEF Joined
  <2>2. known[o] \subseteq Player /\ known'[o] \subseteq Player
    BY <1>1, <2>1, TypeStep DEF IInv, TypeOK
  <2>3. \A q \in Player : q \in known[o] <=> Sees(o, q)
    BY <2>1 DEF KnownExact, Sees, Visible, IInv, FreshUnknown, Joined
  <2>4. \A q \in Player : q \in known'[o] <=> Sees(o, q)'
    BY <2>1, <2>3 DEF Follows, FollowsOn
  <2> QED BY <2>2, <2>4, SeesVisiblePrimed
<1>2. ASSUME NEW id \in Joined, ViewSync(id) PROVE KnownExact'
  <2>1. aoiEnabled
    BY DEF IInv, TypeOK, SceneTypeOK
  <2> QED BY <1>2, <2>1, SyncKeeps, SnapshotExact, SameScene DEF KnownExact, Joined
<1>3. CASE UNCHANGED <<players, known>>
  BY <1>3 DEF KnownExact, Visible, Joined
<1> QED BY <1>1, <1>2, <1>3, StepKinds

LEMMA ExactInit == Init => KnownExact
BY DEF Init, SceneInit, KnownExact, Joined

\* With AOI always on, enter and leave notifications alone tell each client
\* exactly whom it sees.
THEOREM ClientsKnowExactly ==
  ASSUME Rejoin = {}, AoiModes = {TRUE}
  PROVE  Spec => []KnownExact
BY ExactInit, ExactStep, Inductive, PTL DEF Spec

-----------------------------------------------------------------------------
(* The scene implements World.                                             *)

MappedSees == [o \in Player |-> IF o \in Joined THEN known[o] ELSE {}]

\* The instance's geometry is this module's.
LEMMA SameGeometry ==
  ASSUME NEW a, NEW b
  PROVE  Abstract!InView(a, b) <=> InView(a, b)
BY DEF Abstract!InView, Abstract!Col, Abstract!Row, Abstract!Clamp, Abstract!GoDiv,
       Abstract!CntX, Abstract!CntY, InView, Col, Row, Clamp, GoDiv, CntX, CntY

LEMMA SightMapped ==
  KnownExact => MappedSees = Abstract!Sight(players)
<1> SUFFICES ASSUME KnownExact PROVE MappedSees = Abstract!Sight(players)
  OBVIOUS
<1>1. \A o \in Joined : known[o] = Visible(o)
  BY DEF KnownExact
<1> QED BY <1>1, SameGeometry DEF MappedSees, Visible, Joined, Abstract!Sight

LEMMA SightMappedPrimed ==
  KnownExact' => MappedSees' = Abstract!Sight(players')
<1> SUFFICES ASSUME KnownExact' PROVE MappedSees' = Abstract!Sight(players')
  OBVIOUS
<1>1. \A o \in Joined' : known'[o] = Visible(o)'
  BY DEF KnownExact
<1> QED BY <1>1, SameGeometry DEF MappedSees, Visible, Joined, Abstract!Sight

LEMMA AbstractInit == Init => Abstract!Init
<1> SUFFICES ASSUME Init PROVE Abstract!Init
  OBVIOUS
<1>1. MappedSees = Abstract!Sight(players)
  BY ExactInit, SightMapped
<1> QED BY <1>1 DEF Abstract!Init, MappedSees, Init, SceneInit

LEMMA AbstractStep ==
  ASSUME Rejoin = {}, IInv, KnownExact, KnownExact', [Next]_vars
  PROVE  [Abstract!Next]_(Abstract!vars)
<1>1. MappedSees = Abstract!Sight(players) /\ MappedSees' = Abstract!Sight(players')
  BY SightMapped, SightMappedPrimed
<1>2. CASE UNCHANGED players
  BY <1>1, <1>2 DEF Abstract!vars, MappedSees
<1>3. CASE ViewDrain
  <2> DEFINE in == Head(inCh)
  <2>1. in \in Input /\ Apply(in)
    BY <1>3, HeadInput DEF ViewDrain, DrainOne, TypeOK, IInv
  <2>2. in.kind = "join" => players[in.id] = Nil /\ in.pos = Spawn
    BY <1>3, <2>1, HeadFresh DEF IInv, TypeOK, ViewDrain, DrainOne, Input
  <2> HIDE DEF in
  <2>3. PICK p \in Player : p = in.id
    BY <2>1 DEF Input
  <2>4. CASE HandleJoin(in)
    <3>1. Abstract!Arrive(p)
      BY <1>1, <2>2, <2>3, <2>4
         DEF HandleJoin, Abstract!Arrive, Abstract!Put, MappedSees
    <3> QED BY <3>1 DEF Abstract!Next
  <2>5. CASE HandleLeave(in)
    <3>1. Abstract!Depart(p)
      BY <1>1, <2>3, <2>5 DEF HandleLeave, Abstract!Depart, Abstract!Put, MappedSees
    <3> QED BY <3>1 DEF Abstract!Next
  <2>6. CASE HandleMove(in)
    <3>1. PICK pos \in Pos : pos = in.pos
      BY <2>1, <2>6 DEF Input, HandleMove
    <3>2. Abstract!Relocate(p, pos)
      BY <1>1, <2>3, <2>6, <3>1
         DEF HandleMove, Abstract!Relocate, Abstract!Put, MappedSees
    <3> QED BY <3>2 DEF Abstract!Next
  <2>7. CASE IgnoreUnknown(in)
    BY <1>2, <2>7 DEF IgnoreUnknown
  <2> QED BY <2>1, <2>4, <2>5, <2>6, <2>7 DEF Apply
<1> QED BY <1>2, <1>3, StepKinds, SyncKeeps

\* The scene, with its channel, its ticks and its incremental notifications,
\* implements the world in which sight is recomputed after every step.
THEOREM SceneImplementsWorld ==
  ASSUME Rejoin = {}, AoiModes = {TRUE}
  PROVE  Spec => ImplementsWorld
BY AbstractInit, AbstractStep, Inductive, ClientsKnowExactly, PTL
   DEF Spec, ImplementsWorld, Abstract!Spec

=============================================================================
