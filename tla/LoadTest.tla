------------------------------ MODULE LoadTest ------------------------------
(***************************************************************************)
(* cmd/loadtest beside the console of internal/api, on one gateway: each   *)
(* bot is a goroutine that logs in, wanders until it is told to stop or    *)
(* cannot move any more, and closes its connection.  The main goroutine    *)
(* starts them one after the other, lets the duration pass, tells them to  *)
(* stop and waits for all of them.  What they receive is not modelled.     *)
(***************************************************************************)
EXTENDS AdminApi

Virtual == Bot \ Spawned   \* the bots of the load test

VARIABLES main,       \* "spawn", "run", "stop" (wg.Wait), "done"
          running,    \* the goroutines that wg counts
          started,    \* those that have been started so far
          shut        \* the bots that have closed their connection

testVars == <<main, running, started, shut>>
vars     == <<apiVars, testVars>>

TypeOK ==
  /\ ApiTypeOK
  /\ main \in {"spawn", "run", "stop", "done"}
  /\ running \cup shut \subseteq started /\ started \subseteq Virtual

Init ==
  /\ ApiInit
  /\ main = "spawn"
  /\ running = {} /\ started = {} /\ shut = {}

-----------------------------------------------------------------------------
(* The main goroutine.                                                     *)

\* wg.Add and the go statement.
Go(b) ==
  /\ main = "spawn" /\ b \in Virtual \ started
  /\ running' = running \cup {b} /\ started' = started \cup {b}
  /\ UNCHANGED <<apiVars, main, shut>>

SpawnsDone ==
  /\ main = "spawn" /\ started = Virtual
  /\ main' = "run"
  /\ UNCHANGED <<apiVars, running, started, shut>>

\* The deadline: close(stop).
Deadline ==
  /\ main = "run"
  /\ main' = "stop"
  /\ UNCHANGED <<apiVars, running, started, shut>>

\* wg.Wait returns.
Done ==
  /\ main = "stop" /\ running = {}
  /\ main' = "done"
  /\ UNCHANGED <<apiVars, running, started, shut>>

-----------------------------------------------------------------------------
(* The goroutine of a bot.                                                 *)

BotDial(b) == b \in running /\ Dial(b) /\ UNCHANGED testVars

\* Dial or Login returns an error; Close where Dial had succeeded.
GiveUp(b) ==
  /\ b \in running /\ spawn[b] \in {"failed", "refused"}
  /\ shut' = IF spawn[b] = "failed" THEN shut \cup {b} ELSE shut
  /\ running' = running \ {b}
  /\ UNCHANGED <<apiVars, main, started>>

\* Login returns, and the first Move is sent.
LoggedIn(b) ==
  /\ b \in running /\ spawn[b] = "enter"
  /\ spawn' = [spawn EXCEPT ![b] = "done"]
  /\ UNCHANGED <<conn, answered, table, clearing, testVars>>

\* MUTANT: a bot that is told to stop leaves its connection open.
LeaveOpen(b) == UNCHANGED shut

Shut(b) == shut' = shut \cup {b}

\* <-stop, or a Move that returns an error.
Leaves(b) ==
  /\ b \in running /\ spawn[b] = "done"
  /\ main = "stop" \/ conn[b] = "closed"
  /\ Shut(b)
  /\ running' = running \ {b}
  /\ UNCHANGED <<apiVars, main, started>>

\* The gateway's reader notices.
Noticed(b) == b \in shut /\ EndConn(b) /\ UNCHANGED testVars

BotStep(b) ==
  \/ BotDial(b) \/ GiveUp(b) \/ LoggedIn(b) \/ Leaves(b) \/ Noticed(b)

Api == ApiNext /\ UNCHANGED testVars

Main == SpawnsDone \/ Deadline \/ Done \/ \E b \in Virtual : Go(b)

\* Login and the gateway are the same for every bot.
Next ==
  \/ Api \/ Main
  \/ \E b \in Virtual : BotStep(b) \/ (Shared(b) /\ UNCHANGED testVars)

Spec == Init /\ [][Next]_vars

\* The load test runs, and so do the gateway and the API.
FairSpec ==
  /\ Spec
  /\ WF_vars(Main)
  /\ \A b \in Virtual : WF_vars(BotStep(b) \/ (Progress(b) /\ UNCHANGED testVars))
  /\ \A b \in Spawned :
       WF_vars((Progress(b) \/ Enter(b) \/ BotCloses(b)) /\ UNCHANGED testVars)
  /\ \A a \in Admin : WF_vars(ClearProgress(a) /\ UNCHANGED testVars)

-----------------------------------------------------------------------------
(***************************************************************************)
(* Properties                                                              *)
(***************************************************************************)

\* The load test ends, whoever closes connections meanwhile and although Login
\* waits without a timeout.
TestEnds == <>(main = "done")

\* It leaves no connection behind on the server, neither a bot's that failed to
\* log in nor one's that the console's handleClear met on its way.
NothingLeftOpen == <>[](\A b \in Virtual : conn[b] # "open")
=============================================================================
