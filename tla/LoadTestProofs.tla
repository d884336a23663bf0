--------------------------- MODULE LoadTestProofs ---------------------------
(***************************************************************************)
(* The invariants of LoadTest and of the API beside it, proved for any     *)
(* number of bots, of the load test and of the console, and of handlers.   *)
(***************************************************************************)
EXTENDS LoadTest, TLAPS

-----------------------------------------------------------------------------
(* Type correctness.                                                       *)

LEMMA TypeInit == Init => TypeOK
BY ApiAssumption DEF Init, ApiInit, TypeOK, ApiTypeOK, Virtual

\* The steps of a bot's login, whoever the bot is.
LEMMA SharedType ==
  ASSUME ApiTypeOK, NEW b \in Bot, Shared(b)
  PROVE  ApiTypeOK'
<1> USE DEF ApiTypeOK, table, clearing
<1>1. CASE LoginSucceeds(b)  BY <1>1 DEF LoginSucceeds
<1>2. CASE LoginFails(b)     BY <1>2 DEF LoginFails
<1>3. CASE LoginMistaken(b)  BY <1>3 DEF LoginMistaken
<1>4. CASE Accept(b)         BY <1>4 DEF Accept
<1>5. CASE Answer(b)         BY <1>5 DEF Answer
<1>6. CASE ConnEnds(b)       BY <1>6 DEF ConnEnds, EndConn
<1> QED BY <1>1, <1>2, <1>3, <1>4, <1>5, <1>6 DEF Shared

LEMMA ApiStepType ==
  ASSUME ApiTypeOK, ApiNext
  PROVE  ApiTypeOK'
<1> USE DEF ApiTypeOK, table, clearing
<1>1. ASSUME NEW b \in Spawned, Dial(b) PROVE ApiTypeOK'
  BY <1>1 DEF Dial
<1>2. ASSUME NEW b \in Spawned, Shared(b) PROVE ApiTypeOK'
  BY <1>2, ApiAssumption, SharedType
<1>3. ASSUME NEW b \in Spawned, Enter(b) PROVE ApiTypeOK'
  BY <1>3 DEF Enter
<1>4. ASSUME NEW b \in Spawned, BotCloses(b) PROVE ApiTypeOK'
  BY <1>4 DEF BotCloses, EndConn
<1>5. ASSUME NEW a \in Admin, ListConns(a) PROVE ApiTypeOK'
  BY <1>5 DEF ListConns
<1>6. ASSUME NEW a \in Admin, Forget(a) PROVE ApiTypeOK'
  BY <1>6 DEF Forget, AllClosed
<1>7. ASSUME NEW a \in Admin, NEW b \in Bot, CloseOne(a, b) PROVE ApiTypeOK'
  BY <1>7 DEF CloseOne
<1> QED BY <1>1, <1>2, <1>3, <1>4, <1>5, <1>6, <1>7 DEF ApiNext, Clearing

LEMMA BotStepType ==
  ASSUME TypeOK, NEW b \in Virtual, BotStep(b)
  PROVE  TypeOK'
<1> USE DEF TypeOK, ApiTypeOK, apiVars, testVars, table, clearing, Virtual
<1>1. CASE BotDial(b)   BY <1>1 DEF BotDial, Dial
<1>2. CASE GiveUp(b)    BY <1>2 DEF GiveUp
<1>3. CASE LoggedIn(b)  BY <1>3 DEF LoggedIn
<1>4. CASE Leaves(b)    BY <1>4 DEF Leaves, Shut
<1>5. CASE Noticed(b)   BY <1>5 DEF Noticed, EndConn
<1> QED BY <1>1, <1>2, <1>3, <1>4, <1>5 DEF BotStep

LEMMA TypeStep == TypeOK /\ [Next]_vars => TypeOK'
<1> SUFFICES ASSUME TypeOK, [Next]_vars PROVE TypeOK'
  OBVIOUS
<1>1. CASE Api
  BY <1>1, ApiStepType DEF Api, testVars, TypeOK
<1>2. CASE Main
  BY <1>2 DEF Main, SpawnsDone, Deadline, Done, Go, TypeOK, ApiTypeOK, apiVars,
              table, clearing
<1>3. ASSUME NEW b \in Virtual, BotStep(b) PROVE TypeOK'
  BY <1>3, BotStepType
<1>4. ASSUME NEW b \in Virtual, Shared(b), UNCHANGED testVars PROVE TypeOK'
  BY <1>4, SharedType DEF testVars, TypeOK, Virtual
<1>5. CASE UNCHANGED vars
  BY <1>5 DEF vars, apiVars, testVars, table, clearing, TypeOK, ApiTypeOK
<1> QED BY <1>1, <1>2, <1>3, <1>4, <1>5 DEF Next

\* The state keeps its types: only goroutines that were started run, and only
\* they close connections; a handler that is done has nothing left to close.
THEOREM TypeCorrect == Spec => []TypeOK
BY TypeInit, TypeStep, PTL DEF Spec

-----------------------------------------------------------------------------
(* The table of bots.                                                      *)

\* The server has accepted every bot that has logged in.
Accepted ==
  /\ \A b \in answered : conn[b] # "none"
  /\ \A b \in Bot : spawn[b] \in {"enter", "done"} => b \in answered

\* A handleClear that is at work has yet to close every bot of the table that is
\* still connected, whichever handler put it there.
ToBeClosed ==
  \A a \in Admin, b \in Spawned :
    clear[a] = "close" /\ spawn[b] = "done" /\ conn[b] = "open"
      => b \in victims[a] \cup raced

IInv == TypeOK /\ Accepted /\ ToBeClosed /\ LostOnlyIfRaced

LEMMA IInvInit == Init => IInv
BY TypeInit, ApiAssumption
   DEF Init, ApiInit, IInv, Accepted, ToBeClosed, LostOnlyIfRaced

\* A step that takes no bot into the table or out of it, and begins no handler.
LEMMA QuietStep ==
  ASSUME IInv, UNCHANGED <<table, clearing>>,
         \A b \in Spawned : spawn'[b] = "done" /\ conn'[b] = "open"
                              => spawn[b] = "done" /\ conn[b] = "open"
  PROVE  ToBeClosed' /\ LostOnlyIfRaced'
BY DEF IInv, ToBeClosed, LostOnlyIfRaced, table, clearing

LEMMA SharedStep ==
  ASSUME IInv, NEW b \in Bot, Shared(b)
  PROVE  Accepted' /\ ToBeClosed' /\ LostOnlyIfRaced'
<1> USE ApiAssumption DEF Shared, LoginSucceeds, LoginFails, LoginMistaken, Accept, Answer,
                          ConnEnds, EndConn
<1>1. ApiTypeOK /\ Accepted
  BY DEF IInv, TypeOK
<1>2. Accepted'
  BY <1>1 DEF Accepted, ApiTypeOK
<1>3. \A c \in Spawned : spawn'[c] = "done" /\ conn'[c] = "open"
                           => spawn[c] = "done" /\ conn[c] = "open"
  BY <1>1 DEF Accepted, ApiTypeOK
<1> QED BY <1>2, <1>3, QuietStep

LEMMA ApiStep ==
  ASSUME IInv, ApiNext
  PROVE  Accepted' /\ ToBeClosed' /\ LostOnlyIfRaced'
<1>0. ApiTypeOK /\ Accepted
  BY DEF IInv, TypeOK
<1>1. ASSUME NEW b \in Spawned, Dial(b) \/ BotCloses(b)
      PROVE  Accepted' /\ ToBeClosed' /\ LostOnlyIfRaced'
  <2>1. Accepted'
    BY <1>0, <1>1, ApiAssumption DEF Dial, BotCloses, EndConn, Accepted, ApiTypeOK
  <2>2. \A c \in Spawned : spawn'[c] = "done" /\ conn'[c] = "open"
                             => spawn[c] = "done" /\ conn[c] = "open"
    BY <1>0, <1>1, ApiAssumption DEF Dial, BotCloses, EndConn, ApiTypeOK
  <2> QED BY <1>1, <2>1, <2>2, QuietStep DEF Dial, BotCloses, EndConn
<1>2. ASSUME NEW b \in Spawned, Shared(b)
      PROVE  Accepted' /\ ToBeClosed' /\ LostOnlyIfRaced'
  BY <1>2, ApiAssumption, SharedStep
<1>3. ASSUME NEW b \in Spawned, Enter(b)
      PROVE  Accepted' /\ ToBeClosed' /\ LostOnlyIfRaced'
  <2>1. Accepted'
    BY <1>0, <1>3, ApiAssumption DEF Enter, Accepted, ApiTypeOK
  <2>2. \A c \in Spawned \ {b} : spawn'[c] = spawn[c]
    BY <1>0, <1>3 DEF Enter, ApiTypeOK
  <2>3. /\ bots' = bots \cup {b} /\ UNCHANGED <<conn, clear, victims>>
        /\ raced \subseteq raced'
        /\ (\E a \in Admin : clear[a] # "idle") => b \in raced'
    BY <1>3 DEF Enter, clearing
  <2> QED BY <2>1, <2>2, <2>3 DEF IInv, ToBeClosed, LostOnlyIfRaced
<1>4. ASSUME NEW a \in Admin, ListConns(a)
      PROVE  Accepted' /\ ToBeClosed' /\ LostOnlyIfRaced'
  <2>1. /\ UNCHANGED <<spawn, conn, answered, bots, raced>>
        /\ victims'[a] = { b \in Bot : conn[b] = "open" }
        /\ \A c \in Admin \ {a} : clear'[c] = clear[c] /\ victims'[c] = victims[c]
    BY <1>0, <1>4 DEF ListConns, table, ApiTypeOK
  <2> QED BY <2>1, ApiAssumption DEF IInv, Accepted, ToBeClosed, LostOnlyIfRaced
<1>5. ASSUME NEW a \in Admin, Forget(a)
      PROVE  Accepted' /\ ToBeClosed' /\ LostOnlyIfRaced'
  <2>1. /\ UNCHANGED <<spawn, conn, answered, raced, victims>>
        /\ clear[a] = "close" /\ victims[a] = {}
        /\ \A c \in Admin : clear'[c] = "close" => clear[c] = "close"
    BY <1>0, <1>5 DEF Forget, AllClosed, ApiTypeOK
  <2> QED BY <2>1 DEF IInv, Accepted, ToBeClosed, LostOnlyIfRaced
<1>6. ASSUME NEW a \in Admin, NEW b \in Bot, CloseOne(a, b)
      PROVE  Accepted' /\ ToBeClosed' /\ LostOnlyIfRaced'
  <2>1. /\ UNCHANGED <<spawn, answered, bots, raced, clear>>
        /\ conn' = [conn EXCEPT ![b] = "closed"]
        /\ \A c \in Admin : victims[c] \subseteq victims'[c] \cup {b}
    BY <1>0, <1>6 DEF CloseOne, table, ApiTypeOK
  <2>2. \A c \in Bot : conn'[c] = "open" => conn[c] = "open" /\ c # b
    BY <1>0, <2>1 DEF ApiTypeOK
  <2>3. \A c \in Bot : conn'[c] = "none" => conn[c] = "none"
    BY <1>0, <2>1 DEF ApiTypeOK
  <2> QED BY <1>0, <2>1, <2>2, <2>3, ApiAssumption
          DEF IInv, Accepted, ToBeClosed, LostOnlyIfRaced, ApiTypeOK
<1> QED BY <1>1, <1>2, <1>3, <1>4, <1>5, <1>6 DEF ApiNext, Clearing

LEMMA BotStepKeeps ==
  ASSUME IInv, NEW b \in Virtual, BotStep(b)
  PROVE  Accepted' /\ ToBeClosed' /\ LostOnlyIfRaced'
<1> USE DEF BotStep, BotDial, Dial, GiveUp, LoggedIn, Leaves, Noticed, EndConn
<1>1. ApiTypeOK /\ Accepted /\ b \in Bot /\ b \notin Spawned
  BY DEF IInv, TypeOK, Virtual
<1>2. Accepted'
  BY <1>1 DEF Accepted, ApiTypeOK, apiVars
<1>3. \A c \in Spawned : spawn'[c] = spawn[c] /\ conn'[c] = conn[c]
  <2>1. CASE BotDial(b)
    <3>1. PICK then : spawn' = [spawn EXCEPT ![b] = then] /\ UNCHANGED conn
      BY <2>1
    <3> QED BY <1>1, <3>1 DEF ApiTypeOK
  <2>2. CASE LoggedIn(b)              BY <1>1, <2>2 DEF ApiTypeOK
  <2>3. CASE Noticed(b)               BY <1>1, <2>3 DEF ApiTypeOK
  <2>4. CASE GiveUp(b) \/ Leaves(b)   BY <2>4 DEF apiVars
  <2> QED BY <2>1, <2>2, <2>3, <2>4
<1>4. UNCHANGED <<table, clearing>>
  BY DEF apiVars
<1> QED BY <1>2, <1>3, <1>4, QuietStep

LEMMA IInvStep == IInv /\ [Next]_vars => IInv'
<1> SUFFICES ASSUME IInv, [Next]_vars
             PROVE  Accepted' /\ ToBeClosed' /\ LostOnlyIfRaced'
  BY TypeStep DEF IInv
<1>1. CASE Api
  BY <1>1, ApiStep DEF Api
<1>2. CASE Main \/ UNCHANGED vars
  BY <1>2 DEF Main, SpawnsDone, Deadline, Done, Go, vars, apiVars, table, clearing,
              IInv, Accepted, ToBeClosed, LostOnlyIfRaced
<1>3. ASSUME NEW b \in Virtual, BotStep(b)
      PROVE  Accepted' /\ ToBeClosed' /\ LostOnlyIfRaced'
  BY <1>3, BotStepKeeps
<1>4. ASSUME NEW b \in Virtual, Shared(b)
      PROVE  Accepted' /\ ToBeClosed' /\ LostOnlyIfRaced'
  BY <1>4, SharedStep DEF Virtual
<1> QED BY <1>1, <1>2, <1>3, <1>4 DEF Next

\* The table of the API lacks no bot that is connected, however many handlers
\* clear the world at the same time, but one that was entered while one of them
\* was at work.
THEOREM LostAreRaced == Spec => []LostOnlyIfRaced
<1>1. IInv => LostOnlyIfRaced
  BY DEF IInv
<1> QED BY <1>1, IInvInit, IInvStep, PTL DEF Spec

=============================================================================
