------------------------------- MODULE TickRate -------------------------------
(***************************************************************************)
(* The rates of internal/scene/scene.go while HTTP handlers change them:   *)
(* SetRates stores three atomics one after the other, and a tick loads     *)
(* them one after the other.  What a tick does to the world is module      *)
(* Scene's, in which the rates are constants; that a tick's drain comes to *)
(* an end, which producers decide, is taken for granted here.              *)
(***************************************************************************)
EXTENDS Integers, SequencesExt, FiniteSetsExt

CONSTANTS Rates,       \* what a handler may be asked to set
          Admin,       \* HTTP handlers
          Second,      \* time.Second, in the unit of intervals
          TickPeriod   \* tickCount is kept modulo this

Feed  == {"aoi", "all"}
Field == Feed \cup {"tick"}

ASSUME RateAssumption ==
  /\ Rates \subseteq Int /\ \E r \in Rates : r >= 1
  /\ \E largest \in Rates : \A r \in Rates : largest >= r
  /\ Second \in Nat \ {0}
  /\ TickPeriod \in Nat \ {0}
  \* tickCount decides each broadcast as the unbounded counter would.
  /\ \A h, r \in Rates \ {0} :
       h >= r /\ r >= 1 => TickPeriod % (h \div r) = 0

VARIABLES rate,     \* tickHz, aoiHz, allHz
          storing,  \* the rate that a handler stores next
          tickCount,
          pc,       \* of the tick goroutine; "gone" after a panic
          hz,       \* tick's local tickHz
          interval, \* the ticker's period (cur)
          sends,    \* history: of each feed, whether each of the last ticks sent
          changed   \* history: a rate has changed since the tick began

vars == <<rate, storing, tickCount, pc, hz, interval, sends, changed>>

MaxRate == Max(Rates)

TypeOK ==
  /\ rate \in [Field -> 1 .. MaxRate]
  /\ storing \in [Admin -> Field]
  /\ tickCount \in 0 .. TickPeriod - 1
  /\ pc \in {"wait", "aoi", "all", "reset", "gone"}
  /\ hz \in 1 .. MaxRate
  /\ interval \in 1 .. Second
  /\ sends \in [Feed -> Seq(BOOLEAN)] /\ \A f \in Feed : Len(sends[f]) <= MaxRate
  /\ changed \in BOOLEAN

\* tickInterval; SetRates keeps tickHz at 1 or more.
Interval(h) == Second \div h

\* What a server may be started with: -rates picks the preset.
Legal == { r \in Rates : r >= 1 }

Init ==
  /\ rate \in [Field -> Legal] /\ rate["tick"] <= Second
  /\ storing = [a \in Admin |-> "tick"]
  /\ tickCount = 0 /\ pc = "wait"
  /\ hz = rate["tick"] /\ interval = Interval(rate["tick"])
  /\ sends = [f \in Feed |-> <<>>] /\ changed = FALSE

-----------------------------------------------------------------------------
\* MUTANT: a rate below 1 is stored like any other.
StoredAlways(f, r) == IF r >= 0 THEN r ELSE rate[f]

\* Rates below 1 are ignored.
Stored(f, r) == IF r >= 1 THEN r ELSE rate[f]

\* One store of SetRates.  A handler only looks at a rate it is to set when it
\* stores it, so that it is chosen here.
SetRate(a) ==
  LET f == storing[a]
  IN  /\ pc # "gone"
      /\ \E r \in Rates :
        /\ rate' = [rate EXCEPT ![f] = Stored(f, r)]
        /\ IF rate' = rate THEN UNCHANGED <<sends, changed>>
           ELSE sends' = [g \in Feed |-> <<>>] /\ changed' = TRUE
      /\ storing' = [storing EXCEPT ![a] =
           CASE f = "tick" -> "aoi" [] f = "aoi" -> "all" [] f = "all" -> "tick"]
      /\ UNCHANGED <<tickCount, pc, hz, interval>>

\* The inputs have been drained; tickHz is loaded for both broadcasts.
TickStart ==
  /\ pc = "wait"
  /\ pc' = "aoi"
  /\ tickCount' = (tickCount + 1) % TickPeriod
  /\ hz' = rate["tick"]
  /\ changed' = FALSE
  /\ UNCHANGED <<rate, storing, interval, sends>>

\* MUTANT: the period is rounded up.
DueRoundedUp(f) == tickCount % ((hz + rate[f] - 1) \div rate[f]) = 0

\* MUTANT: the tick after a broadcast always sends another one.
DueTwice(f) == LET e == hz \div rate[f] IN e < 1 \/ tickCount % e \in {0, 1}

\* e := tickHz / rate; every tick if that is 0.
Due(f) ==
  /\ rate[f] > 0
  /\ LET e == hz \div rate[f] IN e < 1 \/ tickCount % e = 0

\* The last ticks with the present rates, one second of them at the most.
Remember(f, sent) ==
  sends' = IF changed THEN sends
           ELSE [sends EXCEPT ![f] =
             LET all == Append(@, sent)
             IN  IF Len(all) > rate["tick"] THEN Tail(all) ELSE all]

BroadcastAOI ==
  /\ pc = "aoi"
  /\ pc' = "all"
  /\ Remember("aoi", Due("aoi"))
  /\ UNCHANGED <<rate, storing, tickCount, hz, interval, changed>>

BroadcastAll ==
  /\ pc = "all"
  /\ pc' = "reset"
  /\ Remember("all", Due("all"))
  /\ UNCHANGED <<rate, storing, tickCount, hz, interval, changed>>

\* MUTANT: the new interval is kept, but the ticker is not reset.
ResetNever ==
  /\ pc = "reset"
  /\ pc' = IF Interval(rate["tick"]) = 0 THEN "gone" ELSE "wait"
  /\ UNCHANGED <<rate, storing, tickCount, hz, interval, sends, changed>>

\* Run, after the tick: ticker.Reset panics if the interval is 0.
Reset ==
  /\ pc = "reset"
  /\ LET want == Interval(rate["tick"])
     IN  IF want = 0 THEN pc' = "gone" /\ UNCHANGED interval
         ELSE pc' = "wait" /\ interval' = want
  /\ UNCHANGED <<rate, storing, tickCount, hz, sends, changed>>

Tick == TickStart \/ BroadcastAOI \/ BroadcastAll \/ Reset

\* The panic has ended the process.
Terminated == pc = "gone" /\ UNCHANGED vars

Next == Tick \/ (\E a \in Admin : SetRate(a)) \/ Terminated

Spec == Init /\ [][Next]_vars

\* The ticker fires and the goroutine runs; no handler has to be called.
FairSpec == Spec /\ WF_vars(Tick)

-----------------------------------------------------------------------------
(***************************************************************************)
(* Properties                                                              *)
(***************************************************************************)

Sent(f) == Cardinality({ i \in DOMAIN sends[f] : sends[f][i] })

\* internal/config/config.go, lines 8 to 10: so many ticks a second, so many
\* broadcasts a second.  In any second's worth of ticks with the same rates,
\* whatever the count was when they were set, each feed sends as often as its
\* rate says, or at each tick if its rate is beyond the ticks'.  It says nothing
\* about the tick in the middle of which a rate changes.
NotTooRarely ==
  \A f \in Feed : Len(sends[f]) = rate["tick"] =>
    Sent(f) >= Min({rate[f], rate["tick"]})

\* The integer quotient makes for more, but never for more than twice as many.
NotTwiceTooOften ==
  \A f \in Feed : Len(sends[f]) = rate["tick"] => Sent(f) <= 2 * rate[f]

\* The ticker comes to run at the rate that was stored last, whatever was
\* stored before: only a rate beyond one tick in a unit of time, which SetRates
\* lets pass, stops it.  Ticks are taken to end, as everywhere in this module.
TickerFollows ==
  \A h \in Legal :
    h <= Second => (<>[](rate["tick"] = h) => <>[](interval = Interval(h)))
=============================================================================
