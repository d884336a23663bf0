------------------------------- MODULE Scene -------------------------------
(***************************************************************************)
(* The scene of internal/scene/scene.go: the table of players and the AOI  *)
(* index, owned by one tick goroutine, and the input channel through which *)
(* every other goroutine reaches them.                                     *)
(*                                                                         *)
(* A tick is not atomic.  Producers append to inCh at any moment, so that  *)
(* the drain may go on for as long as they do, and SetAOIEnabled flips its *)
(* flag between two iterations of the loop that broadcasts the snapshots.  *)
(* What the notifier does with the calls it gets is left to the modules    *)
(* that extend this one: the calls are the operators Appear and Vanish     *)
(* (NotifyEnter and NotifyLeave, as pairs <<observer, subject>>) and       *)
(* Snapshot (the argument of SyncState).                                   *)
(***************************************************************************)
EXTENDS Aoi, Sequences

CONSTANTS Player,       \* player ids
          Pos,          \* the positions clients ask for
          Spawn,        \* config.SpawnX, config.SpawnY
          Nil,          \* no such player
          InCap,        \* capacity of inCh (1024 in the code)
          TickHz, AoiHz, AllHz,  \* the rates; SetRates is not modelled here
          TickPeriod,   \* tickCount is kept modulo this number
          AoiModes      \* the values that aoiEnabled takes

Every(hz) == TickHz \div hz

ASSUME SceneAssumption ==
  /\ Pos \subseteq Position /\ Spawn \in Pos
  /\ Nil \notin Pos
  /\ InCap \in Nat \ {0}
  /\ TickHz \in Nat \ {0} /\ AoiHz \in Nat /\ AllHz \in Nat
  /\ TickPeriod \in Nat \ {0}
  /\ AoiModes \subseteq BOOLEAN /\ AoiModes # {}

\* tickCount modulo TickPeriod decides the same broadcasts as tickCount.
ASSUME PeriodAssumption ==
  \A hz \in {AoiHz, AllHz} :
    hz > 0 => Every(hz) < 1 \/ TickPeriod % Every(hz) = 0

VARIABLES players,     \* the player table: a position, or Nil
          index,       \* aoiMgr.cells
          inCh,        \* the input channel
          aoiEnabled,
          tickCount,
          pc,          \* where the tick goroutine is
          todo         \* what is left of broadcastAOI's range over players

tickVars  == <<tickCount, pc, todo>>
sceneVars == <<players, index, inCh, aoiEnabled, tickCount, pc, todo>>

Input == [kind : {"join"}, id : Player, pos : {Spawn}]
           \cup [kind : {"move"}, id : Player, pos : Pos]
           \cup [kind : {"leave"}, id : Player]

SceneTypeOK ==
  /\ players \in [Player -> Pos \cup {Nil}]
  /\ index \in [Cell -> SUBSET Player]
  /\ inCh \in Seq(Input) /\ Len(inCh) <= InCap
  /\ aoiEnabled \in AoiModes
  /\ tickCount \in 0 .. TickPeriod - 1
  /\ pc \in {"wait", "drain", "aoi", "all"}
  /\ todo \in SUBSET Player

SceneInit ==
  /\ players = [p \in Player |-> Nil]
  /\ index = EmptyIndex /\ inCh = <<>>
  /\ aoiEnabled \in AoiModes
  /\ tickCount = 0 /\ pc = "wait" /\ todo = {}

Joined == { p \in Player : players[p] # Nil }

-----------------------------------------------------------------------------
(* The operations other goroutines call.  A send to a full channel blocks. *)

\* MUTANT: the channel grows without bound.
SendUnbounded(in) ==
  /\ inCh' = Append(inCh, in)
  /\ UNCHANGED <<players, index, aoiEnabled, tickVars>>

Send(in) ==
  /\ Len(inCh) < InCap
  /\ inCh' = Append(inCh, in)
  /\ UNCHANGED <<players, index, aoiEnabled, tickVars>>

Join(p)      == Send([kind |-> "join", id |-> p, pos |-> Spawn])
Leave(p)     == Send([kind |-> "leave", id |-> p])
Move(p, pos) == Send([kind |-> "move", id |-> p, pos |-> pos])

SetAOIEnabled(enabled) ==
  /\ aoiEnabled' = enabled
  /\ UNCHANGED <<players, index, inCh, tickVars>>

-----------------------------------------------------------------------------
(* The handlers of the tick goroutine, one per kind of input.              *)

HandleJoin(in) ==
  /\ in.kind = "join"
  /\ players' = [players EXCEPT ![in.id] = in.pos]
  /\ index' = EnterIndex(index, in.id, in.pos)

HandleLeave(in) ==
  /\ in.kind = "leave" /\ players[in.id] # Nil
  /\ players' = [players EXCEPT ![in.id] = Nil]
  /\ index' = LeaveIndex(index, in.id, players[in.id])

\* MUTANT: the player's position is overwritten before it is saved as the
\* old position that the index needs.
HandleMoveOverwritten(in) ==
  /\ in.kind = "move" /\ players[in.id] # Nil
  /\ players' = [players EXCEPT ![in.id] = in.pos]
  /\ index' = MoveIndex(index, in.id, in.pos, in.pos)

HandleMove(in) ==
  /\ in.kind = "move" /\ players[in.id] # Nil
  /\ players' = [players EXCEPT ![in.id] = in.pos]
  /\ index' = MoveIndex(index, in.id, players[in.id], in.pos)

\* The early return of handleLeave and handleMove.
IgnoreUnknown(in) ==
  /\ in.kind \in {"leave", "move"} /\ players[in.id] = Nil
  /\ UNCHANGED <<players, index>>

Apply(in) ==
  HandleJoin(in) \/ HandleLeave(in) \/ HandleMove(in) \/ IgnoreUnknown(in)

-----------------------------------------------------------------------------
(* The calls that a handler makes to the notifier, from the state it       *)
(* starts in.                                                              *)

BothWays(p, others) == ({p} \X others) \cup (others \X {p})

\* MUTANT: only the newcomer is told.
JoinAppearOneWay(in) ==
  {in.id} \X { o \in EnterView(index, in.pos) : o \in Joined \cup {in.id} }

\* handleJoin has entered p in the table before it looks the others up.
JoinAppear(in) ==
  BothWays(in.id, { o \in EnterView(index, in.pos) : o \in Joined \cup {in.id} })

LeaveVanish(in) ==
  LeaveView(index, in.id, players[in.id]) \X {in.id}

MoveAppear(in) ==
  BothWays(in.id, MoveEntered(index, in.id, players[in.id], in.pos) \cap Joined)

\* MUTANT: only those left behind are told.
MoveVanishOneWay(in) ==
  MoveLeft(index, in.id, players[in.id], in.pos) \X {in.id}

\* The loop over left looks nobody up in the table.
MoveVanish(in) ==
  BothWays(in.id, MoveLeft(index, in.id, players[in.id], in.pos))

Appear(in) ==
  CASE in.kind = "join" -> JoinAppear(in)
    [] in.kind = "move" /\ in.id \in Joined -> MoveAppear(in)
    [] OTHER -> {}

Vanish(in) ==
  CASE in.kind = "leave" /\ in.id \in Joined -> LeaveVanish(in)
    [] in.kind = "move" /\ in.id \in Joined -> MoveVanish(in)
    [] OTHER -> {}

\* The players that broadcastAOI puts in the snapshot for id.
Snapshot(id) ==
  IF aoiEnabled
  THEN (PlayersAround(index, players[id]) \ {id}) \cap Joined
  ELSE Joined \ {id}

-----------------------------------------------------------------------------
(* The steps of a tick.                                                    *)

\* The ticker fires and tick enters drainInputs.
TickStart ==
  /\ pc = "wait"
  /\ pc' = "drain"
  /\ UNCHANGED <<players, index, inCh, aoiEnabled, tickCount, todo>>

\* One iteration of drainInputs.
DrainOne ==
  /\ pc = "drain" /\ inCh # <<>>
  /\ Apply(Head(inCh))
  /\ inCh' = Tail(inCh)
  /\ UNCHANGED <<aoiEnabled, tickVars>>

Due(hz, count) == hz > 0 /\ (Every(hz) < 1 \/ count % Every(hz) = 0)

\* drainInputs finds the channel empty; the count decides on the snapshots.
DrainDone ==
  /\ pc = "drain" /\ inCh = <<>>
  /\ tickCount' = (tickCount + 1) % TickPeriod
  /\ IF Due(AoiHz, tickCount')
     THEN pc' = "aoi" /\ todo' = Joined
     ELSE pc' = "all" /\ UNCHANGED todo
  /\ UNCHANGED <<players, index, inCh, aoiEnabled>>

\* One iteration of broadcastAOI: SyncState(id, Snapshot(id)).
SyncOne(id) ==
  /\ pc = "aoi" /\ id \in todo
  /\ todo' = todo \ {id}
  /\ UNCHANGED <<players, index, inCh, aoiEnabled, tickCount, pc>>

SyncDone ==
  /\ pc = "aoi" /\ todo = {}
  /\ pc' = "all"
  /\ UNCHANGED <<players, index, inCh, aoiEnabled, tickCount, todo>>

\* The end of a tick: broadcastAll calls SyncAll with the whole table, or is
\* not due.
EndTick ==
  /\ pc = "all"
  /\ pc' = "wait"
  /\ UNCHANGED <<players, index, inCh, aoiEnabled, tickCount, todo>>

BroadcastAll == EndTick /\ Due(AllHz, tickCount)
SkipAll      == EndTick /\ ~Due(AllHz, tickCount)
=============================================================================
