----------------------------- MODULE SceneView -----------------------------
(***************************************************************************)
(* The scene together with its producers and a ledger of what each player  *)
(* has been told, as the client of internal/client/client.go keeps it: an  *)
(* enter notification adds a player, a leave notification removes one, a   *)
(* snapshot replaces the whole set.  The channel to the client is perfect  *)
(* here, so that the ledger shows what the scene tells and not what the    *)
(* network loses; the lossy channel is in module Downlink.                 *)
(*                                                                         *)
(* The producers send any input at any time.  Only the players of Rejoin   *)
(* log in as often as they like.  For another player a Join is sent while  *)
(* it is neither in the scene nor on its way there: one LoginReq per       *)
(* connection, an id that departed standing for the new id that the next   *)
(* connection gets.                                                        *)
(***************************************************************************)
EXTENDS Scene

CONSTANT Rejoin  \* the players whose connections may log in again

ASSUME RejoinAssumption == Rejoin \subseteq Player

VARIABLES known,  \* the players that each player's client knows of
          again   \* history: the players that joined when they were in the scene

viewVars == <<known, again>>
vars     == <<sceneVars, viewVars>>

TypeOK ==
  /\ SceneTypeOK
  /\ known \in [Player -> SUBSET Player] /\ again \in SUBSET Player

Init == SceneInit /\ known = [p \in Player |-> {}] /\ again = {}

-----------------------------------------------------------------------------
JoinQueued(p) ==
  \E i \in DOMAIN inCh : inCh[i].kind = "join" /\ inCh[i].id = p

EnvJoin(p) ==
  /\ p \in Rejoin \/ (players[p] = Nil /\ ~JoinQueued(p))
  /\ Join(p)
  /\ UNCHANGED viewVars

EnvLeave(p)     == Leave(p) /\ UNCHANGED viewVars
EnvMove(p, pos) == Move(p, pos) /\ UNCHANGED viewVars

\* Only a change of the flag is a step.
EnvToggle ==
  /\ \E enabled \in AoiModes \ {aoiEnabled} : SetAOIEnabled(enabled)
  /\ UNCHANGED viewVars

\* A player leaves because its connection is gone, and its client with it.
Tell(in) ==
  known' = [o \in Player |->
    IF in.kind = "leave" /\ in.id = o
    THEN {}
    ELSE (known[o] \cup { s \in Player : <<o, s>> \in Appear(in) })
           \ { s \in Player : <<o, s>> \in Vanish(in) }]

Recorded(in) ==
  again' = IF in.kind = "join" /\ in.id \in Joined THEN again \cup {in.id} ELSE again

ViewDrain == DrainOne /\ Tell(Head(inCh)) /\ Recorded(Head(inCh))

\* MUTANT: no snapshot is sent to a player that sees nobody.
ViewSyncSkipEmpty(id) ==
  /\ SyncOne(id)
  /\ known' = IF Snapshot(id) = {}
              THEN known
              ELSE [known EXCEPT ![id] = Snapshot(id)]
  /\ UNCHANGED again

ViewSync(id) ==
  /\ SyncOne(id)
  /\ known' = [known EXCEPT ![id] = Snapshot(id)]
  /\ UNCHANGED again

ViewTick ==
  /\ TickStart \/ DrainDone \/ SyncDone \/ BroadcastAll \/ SkipAll
  /\ UNCHANGED viewVars

Env ==
  \/ \E p \in Player : EnvJoin(p) \/ EnvLeave(p)
  \/ \E p \in Player, pos \in Pos : EnvMove(p, pos)
  \/ EnvToggle

Tick == ViewDrain \/ ViewTick \/ \E id \in Player : ViewSync(id)

Next == Env \/ Tick

Spec == Init /\ [][Next]_vars

\* The tick goroutine always has a step to take, and the runtime schedules
\* it; nothing obliges a producer to do anything.
FairSpec == Spec /\ WF_vars(Tick)

-----------------------------------------------------------------------------
(***************************************************************************)
(* Properties                                                              *)
(***************************************************************************)

\* The players in the scene that o sees, from positions alone.
Visible(o) ==
  { q \in Joined \ {o} : o \in Joined /\ InView(players[o], players[q]) }

InItsCell(p, g) == p \in Joined /\ GridID(players[p]) = g

\* docs/design-aoi.md, line 22: each player lives in exactly one cell - the one
\* its position falls in -, and nobody else does.  A second LoginReq of one
\* connection breaks it: handleJoin enters a player that is in the table already
\* in the cell of its new position, and leaves the old one's entry behind.
IndexExact ==
  \A g \in Cell, p \in Player : p \in index[g] <=> InItsCell(p, g)

\* That is the only way to break it, however often clients log in.  handleJoin,
\* handleMove and handleLeave change the table and the index by separate calls,
\* which agree on the old position: every player of the table is indexed in its
\* cell, and whoever is indexed anywhere else, in the scene or not, has joined
\* when it was there.
StaleOnlyIfAgain ==
  \A g \in Cell, p \in Player :
    /\ InItsCell(p, g) => p \in index[g]
    /\ p \in index[g] => InItsCell(p, g) \/ p \in again

\* With AOI always on, enter and leave notifications alone keep each client
\* exactly informed between snapshots: it knows the players in the nine cells
\* around it and no other, whatever the order of joins, moves and leaves.
KnownExact ==
  \A o \in Joined : known[o] = Visible(o)

\* Even while AOI is switched on and off between and during broadcasts, no
\* client ever misses a player that it can see.  The players that joined when
\* they were in the scene are the exception, and only they: what others know of
\* each other does not suffer from the entries that those left in the index.
NeverBlind ==
  \A o \in Joined \ again : Visible(o) \ again \subseteq known[o]

\* What a client knows beyond its view (whoever a full-map snapshot told it
\* of) is gone for good once AOI stays on, provided that ticks still come to
\* an end: a producer that never lets the drain finish stops the snapshots.
\* Here, too, players that joined again do not count.
Converges ==
  (<>[]aoiEnabled /\ []<>(pc = "wait"))
    => <>[](\A o \in Joined \ again : known[o] \ again = Visible(o) \ again)

\* The scene with its channel, its ticks and its incremental notifications
\* implements the world in which sight is recomputed after every step.
Abstract ==
  INSTANCE World WITH
    where <- players,
    sees <- [o \in Player |-> IF o \in Joined THEN known[o] ELSE {}]

ImplementsWorld == Abstract!Spec
=============================================================================
