------------------------------- MODULE AdminApi -------------------------------
(***************************************************************************)
(* The table of bots of internal/api/api.go: HTTP handlers that spawn bots *)
(* and clear the world, beside the gateway that has the other end of their *)
(* connections.  A wandering bot is spawned the same way; the goroutine    *)
(* that then moves it until a Move fails leaves the table alone, and so    *)
(* does handleMove, which looks a bot up and moves it.                     *)
(*                                                                         *)
(* The dialling, the login and the gateway's part in them are those of the *)
(* load test's bots too (module LoadTest); Spawned are the ones that are   *)
(* the API's.                                                              *)
(***************************************************************************)
EXTENDS FiniteSets

CONSTANTS Bot,      \* the bots, each with the one connection that it dials
          Spawned,  \* those of spawnBot and spawnWanderingBot
          Admin     \* the handlers that run handleClear

ASSUME ApiAssumption == Spawned \subseteq Bot

VARIABLES spawn,     \* of each bot: "new", "login", "enter", "done", "failed",
                     \* or "refused" when it cannot dial
          conn,      \* the server's end: "none", "open", "closed"
          answered,  \* the bots whose LoginResp has been sent
          bots,      \* s.bots
          clear,     \* of each handler: "idle", "close"
          victims,   \* of each handler: connections that it is yet to close
          raced      \* history: entered in bots while a handleClear was running

table == <<bots, raced>>
clearing == <<clear, victims>>
apiVars == <<spawn, conn, answered, table, clearing>>

ApiTypeOK ==
  /\ spawn \in [Bot -> {"new", "login", "enter", "done", "failed", "refused"}]
  /\ conn \in [Bot -> {"none", "open", "closed"}]
  /\ answered \subseteq Bot /\ bots \cup raced \subseteq Spawned
  /\ clear \in [Admin -> {"idle", "close"}]
  /\ victims \in [Admin -> SUBSET Bot]
  /\ \A a \in Admin : clear[a] = "idle" => victims[a] = {}

ApiInit ==
  /\ spawn = [b \in Bot |-> "new"]
  /\ conn = [b \in Bot |-> "none"]
  /\ answered = {} /\ bots = {} /\ raced = {}
  /\ clear = [a \in Admin |-> "idle"]
  /\ victims = [a \in Admin |-> {}]

-----------------------------------------------------------------------------
(* spawnBot and spawnWanderingBot, and the gateway's part in them.         *)

\* Dial, and Login's request.
Dial(b) ==
  /\ spawn[b] = "new"
  /\ spawn' \in { [spawn EXCEPT ![b] = s] : s \in {"login", "refused"} }
  /\ UNCHANGED <<conn, answered, table, clearing>>

\* The gateway accepts the connection: from now on it is in conns.
Accept(b) ==
  /\ spawn[b] \notin {"new", "refused"} /\ conn[b] = "none"
  /\ conn' = [conn EXCEPT ![b] = "open"]
  /\ UNCHANGED <<spawn, answered, table, clearing>>

Answer(b) ==
  /\ conn[b] = "open" /\ b \notin answered
  /\ answered' = answered \cup {b}
  /\ UNCHANGED <<spawn, conn, table, clearing>>

\* The answer may be read after the server has closed its end.
LoginSucceeds(b) ==
  /\ spawn[b] = "login" /\ b \in answered
  /\ spawn' = [spawn EXCEPT ![b] = "enter"]
  /\ UNCHANGED <<conn, answered, table, clearing>>

\* MUTANT: Login waits for its answer even when the connection has ended.
HopelessAnswered(b) == conn[b] = "closed" /\ b \in answered

Hopeless(b) == conn[b] = "closed"

LoginFails(b) ==
  /\ spawn[b] = "login" /\ Hopeless(b)
  /\ spawn' = [spawn EXCEPT ![b] = "failed"]
  /\ UNCHANGED <<conn, answered, table, clearing>>

\* Login reads another frame than its answer: the minimap (module Downlink).
LoginMistaken(b) ==
  /\ spawn[b] = "login" /\ conn[b] # "none"
  /\ spawn' = [spawn EXCEPT ![b] = "failed"]
  /\ UNCHANGED <<conn, answered, table, clearing>>

\* s.bots[id] = c.
Enter(b) ==
  /\ b \in Spawned /\ spawn[b] = "enter"
  /\ spawn' = [spawn EXCEPT ![b] = "done"]
  /\ bots' = bots \cup {b}
  /\ raced' = IF \E a \in Admin : clear[a] # "idle" THEN raced \cup {b} ELSE raced
  /\ UNCHANGED <<conn, answered, clearing>>

EndConn(b) ==
  /\ conn[b] = "open" /\ conn' = [conn EXCEPT ![b] = "closed"]
  /\ UNCHANGED <<spawn, answered, table, clearing>>

\* The network ends a connection.
ConnEnds(b) == EndConn(b)

\* The gateway's reader notices that the bot, whose login has failed, has
\* closed its own end.
BotCloses(b) == spawn[b] = "failed" /\ EndConn(b)

-----------------------------------------------------------------------------
(* handleClear: clearAll, which is DisconnectPlayers, and an empty table.  *)

\* DisconnectPlayers makes its list under the gateway's lock.  Connections that
\* are closed but still in conns are left out: closing them does nothing.
ListConns(a) ==
  /\ clear[a] = "idle"
  /\ clear' = [clear EXCEPT ![a] = "close"]
  /\ victims' = [victims EXCEPT ![a] = { b \in Bot : conn[b] = "open" }]
  /\ UNCHANGED <<spawn, conn, answered, table>>

CloseOne(a, b) ==
  /\ clear[a] = "close" /\ b \in victims[a]
  /\ victims' = [victims EXCEPT ![a] = @ \ {b}]
  /\ conn' = [conn EXCEPT ![b] = "closed"]
  /\ UNCHANGED <<spawn, answered, table, clear>>

\* MUTANT: the table is emptied while the connections are being closed.
ClosingBegun(a) == clear[a] = "close"

AllClosed(a) == clear[a] = "close" /\ victims[a] = {}

Forget(a) ==
  /\ AllClosed(a)
  /\ clear' = [clear EXCEPT ![a] = "idle"]
  /\ bots' = {}
  /\ UNCHANGED <<spawn, conn, answered, raced, victims>>

Shared(b) ==
  \/ LoginSucceeds(b) \/ LoginFails(b) \/ LoginMistaken(b)
  \/ Accept(b) \/ Answer(b) \/ ConnEnds(b)

Clearing(a) == ListConns(a) \/ Forget(a) \/ \E b \in Bot : CloseOne(a, b)

ApiNext ==
  \/ \E b \in Spawned : Dial(b) \/ Shared(b) \/ Enter(b) \/ BotCloses(b)
  \/ \E a \in Admin : Clearing(a)

\* What the goroutines of both processes do for a bot by themselves, each of
\* these steps once; that the gateway answers a login is LogicLives of module
\* Gateway.  Nothing obliges anybody to call a handler, nor the network to end
\* a connection.
Progress(b) == Accept(b) \/ Answer(b) \/ LoginSucceeds(b) \/ LoginFails(b)

ClearProgress(a) == Forget(a) \/ \E b \in Bot : CloseOne(a, b)

-----------------------------------------------------------------------------
(***************************************************************************)
(* Properties                                                              *)
(***************************************************************************)

\* The table lacks no bot that has been spawned and is connected, but one that
\* was entered while a handleClear was running (line 323 takes it that the bots
\* it drops have been closed): that one is on the map but cannot be moved.
LostOnlyIfRaced ==
  \A b \in Spawned :
    spawn[b] = "done" /\ conn[b] = "open" => b \in bots \cup raced

\* Every request is answered, although Login waits without a timeout: whatever
\* ends a connection, a handleClear included, lets its Login return.
HandlersEnd ==
  /\ \A b \in Spawned :
       spawn[b] \in {"login", "enter"} ~> spawn[b] \in {"done", "failed"}
  /\ \A a \in Admin : clear[a] = "close" ~> clear[a] = "idle"
=============================================================================
