--------------------------- MODULE TickRateProofs ---------------------------
(***************************************************************************)
(* How often a feed sends, for any rates and any place of the tick counter *)
(* when they were set.                                                     *)
(***************************************************************************)
EXTENDS TickRate, FiniteSetTheorems, TLAPS

-----------------------------------------------------------------------------
(* Quotients.                                                              *)

LEMMA QuotientBound ==
  ASSUME NEW e \in Nat \ {0}, NEW n \in Nat, NEW j \in Int
  PROVE  j <= n \div e <=> j * e <= n
<1> DEFINE q == n \div e
<1>1. q \in Nat /\ q * e <= n /\ n < (q + 1) * e
  OBVIOUS
<1> HIDE DEF q
<1>2. ASSUME j <= q PROVE j * e <= n
  <2>1. j * e <= q * e
    BY <1>1, <1>2
  <2> QED BY <1>1, <2>1
<1>3. ASSUME j > q PROVE j * e > n
  <2>1. j >= q + 1
    BY <1>1, <1>3
  <2>2. j * e >= (q + 1) * e
    BY <1>1, <2>1
  <2> QED BY <1>1, <2>2
<1>4. j \in Int /\ q \in Int
  BY <1>1
<1> QED BY <1>2, <1>3, <1>4 DEF q

\* Rates are positive here; the period is the integer quotient.
LEMMA Period ==
  ASSUME NEW h \in Nat \ {0}, NEW r \in Nat \ {0}, NEW e, e = h \div r
  PROVE  /\ e \in Nat /\ e * r <= h /\ h < (e + 1) * r
         /\ (e < 1) <=> (h < r)
<1>1. e \in Nat /\ e * r <= h /\ h < (e + 1) * r
  OBVIOUS
<1>2. 1 <= e <=> 1 * r <= h
  BY QuotientBound
<1> QED BY <1>1, <1>2

LEMMA Multiple ==
  ASSUME NEW e \in Nat \ {0}, NEW c \in Int
  PROVE  c % e = 0 <=> \E a \in Int : c = e * a
<1>1. ASSUME c % e = 0 PROVE \E a \in Int : c = e * a
  <2>1. c = e * (c \div e) + (c % e) /\ c \div e \in Int
    OBVIOUS
  <2> QED BY <1>1, <2>1
<1>2. ASSUME NEW a \in Int, c = e * a PROVE c % e = 0
  <2>1. (e * a) % e = 0
    OBVIOUS
  <2> QED BY <1>2, <2>1
<1> QED BY <1>1, <1>2

-----------------------------------------------------------------------------
(* Counting the multiples in a window.                                     *)

\* The places in a window of n numbers behind o that hold a multiple of e.
Hits(o, n, e) == { i \in 1 .. n : (o + i) % e = 0 }

\* They are as many as the distances from the first one to the end allow.
LEMMA HitsCounted ==
  ASSUME NEW o \in Int, NEW e \in Nat \ {0}, NEW n \in Nat, e <= n
  PROVE  \E s \in 1 .. e : /\ IsFiniteSet(Hits(o, n, e))
                           /\ Cardinality(Hits(o, n, e)) = (n - s) \div e + 1
<1> DEFINE s == e - (o % e)
           H == Hits(o, n, e)
<1>1. s \in 1 .. e /\ (o + s) % e = 0
  <2>1. o % e \in 0 .. e - 1 /\ o \div e \in Int /\ o = e * (o \div e) + (o % e)
    OBVIOUS
  <2>2. PICK d \in Int : d = o \div e
    BY <2>1
  <2>3. o + s = e * d + e
    BY <2>1, <2>2
  <2>4. PICK a \in Int : a = d + 1
    OBVIOUS
  <2>5. PICK c \in Int : c = o + s
    BY <2>1
  <2>6. c = e * a
    <3>1. e * a = e * d + e
      BY <2>4
    <3> QED BY <2>3, <2>5, <3>1
  <2>7. c % e = 0
    BY <2>6, Multiple
  <2> QED BY <2>1, <2>5, <2>7
<1> HIDE DEF s
<1>2. PICK b \in Int : o + s = e * b
  BY <1>1, Multiple
<1>3. PICK m \in Nat : m = n - s
  BY <1>1
<1>4. PICK q \in Nat : q = m \div e
  OBVIOUS
<1>5. \A j \in Int : j <= q <=> j * e <= m
  BY <1>4, QuotientBound
<1> DEFINE f == [j \in 0 .. q |-> s + j * e]
<1>6. ASSUME NEW j \in 0 .. q PROVE s + j * e \in H
  <2>1. j * e \in Nat /\ j * e <= m
    BY <1>5
  <2>2. s + j * e \in 1 .. n
    BY <1>1, <1>3, <2>1
  <2>3. o + (s + j * e) = e * (b + j)
    <3>1. e * (b + j) = e * b + j * e
      OBVIOUS
    <3> QED BY <1>1, <1>2, <2>1, <3>1
  <2>4. (o + (s + j * e)) % e = 0
    <3>1. o + (s + j * e) \in Int /\ b + j \in Int
      BY <1>1, <2>1
    <3> QED BY <2>3, <3>1, Multiple
  <2> QED BY <2>2, <2>4 DEF Hits
<1>7. ASSUME NEW i \in H PROVE \E j \in 0 .. q : s + j * e = i
  <2>1. i \in 1 .. n /\ (o + i) % e = 0
    BY DEF Hits
  <2>2. PICK a \in Int : o + i = e * a
    <3>1. PICK c \in Int : c = o + i
      BY <2>1
    <3>2. c % e = 0
      BY <2>1, <3>1
    <3> QED BY <3>1, <3>2, Multiple
  <2>3. PICK j \in Int : j = a - b
    OBVIOUS
  <2>4. i = s + j * e
    <3>1. e * a - e * b = j * e
      BY <2>3
    <3>2. i - s = e * a - e * b
      BY <1>1, <1>2, <2>1, <2>2
    <3>3. j * e \in Int
      OBVIOUS
    <3> QED BY <1>1, <2>1, <3>1, <3>2, <3>3
  <2>5. j >= 0
    <3> SUFFICES ASSUME j <= -1 PROVE FALSE
      OBVIOUS
    <3>1. j * e <= -e
      OBVIOUS
    <3> QED BY <1>1, <2>1, <2>4, <3>1
  <2>6. j * e <= m
    <3>1. j * e \in Int
      OBVIOUS
    <3> QED BY <1>1, <1>3, <2>1, <2>4, <3>1
  <2>7. j \in 0 .. q
    BY <1>5, <2>5, <2>6
  <2> QED BY <2>4, <2>7
<1>8. f \in Surjection(0 .. q, H)
  <2> HIDE DEF H
  <2>1. f \in [0 .. q -> H]
    BY <1>6
  <2> QED BY <1>7, <2>1 DEF Surjection
<1>9. f \in Injection(0 .. q, H)
  <2>1. ASSUME NEW j \in 0 .. q, NEW k \in 0 .. q, f[j] = f[k] PROVE j = k
    <3>1. s + j * e = s + k * e
      BY <2>1
    <3>2. j * e = k * e
      <4>1. j * e \in Int /\ k * e \in Int
        OBVIOUS
      <4> QED BY <1>1, <3>1, <4>1
    <3> QED BY <3>2
  <2>2. f \in [0 .. q -> H]
    BY <1>8 DEF Surjection
  <2> QED BY <2>1, <2>2 DEF Injection, IsInjective
<1>10. IsFiniteSet(0 .. q) /\ Cardinality(0 .. q) = q + 1
  BY FS_Interval
<1> HIDE DEF f, H
<1>11. IsFiniteSet(H) /\ Cardinality(H) = q + 1
  BY <1>8, <1>9, <1>10, FS_Surjection
<1> QED BY <1>1, <1>3, <1>4, <1>11 DEF H

\* At least as many as the rate says, and less than twice as many.
LEMMA HitsBounded ==
  ASSUME NEW h \in Nat \ {0}, NEW r \in Nat \ {0}, r <= h, NEW o \in Int
  PROVE  /\ IsFiniteSet(Hits(o, h, h \div r))
         /\ Cardinality(Hits(o, h, h \div r)) >= r
         /\ Cardinality(Hits(o, h, h \div r)) <= 2 * r
<1>1. PICK e \in Nat : e = h \div r
  BY Period
<1>2. e \in Nat \ {0} /\ e * r <= h /\ h < (e + 1) * r
  BY <1>1, Period
<1>3. e <= h
  <2>1. e * 1 <= e * r
    BY <1>2
  <2>2. e * r \in Nat
    BY <1>2
  <2> QED BY <1>2, <2>1, <2>2
<1>4. PICK s \in 1 .. e : /\ IsFiniteSet(Hits(o, h, e))
                          /\ Cardinality(Hits(o, h, e)) = (h - s) \div e + 1
  BY <1>2, <1>3, HitsCounted
<1>5. PICK m \in Nat : m = h - s
  BY <1>2, <1>3
<1>6. PICK q \in Nat : q = m \div e
  BY <1>2
<1>7. r - 1 <= q
  <2>1. (r - 1) * e = e * r - e
    BY <1>2
  <2>2. (r - 1) * e <= m
    <3>1. e * r \in Int
      BY <1>2
    <3> QED BY <1>2, <1>5, <2>1, <3>1
  <2> QED BY <1>2, <1>6, <2>2, QuotientBound
<1>8. q <= 2 * r - 1
  <2> SUFFICES ASSUME 2 * r <= q PROVE FALSE
    OBVIOUS
  <2>1. (2 * r) * e <= m
    BY <1>2, <1>6, QuotientBound
  <2>2. PICK k \in Nat : k = e * r
    BY <1>2
  <2>3. (2 * r) * e = 2 * k /\ (e + 1) * r = k + r /\ k >= r
    BY <1>2, <2>2
  <2> QED BY <1>2, <1>5, <2>1, <2>2, <2>3
<1> QED BY <1>1, <1>4, <1>5, <1>6, <1>7, <1>8

-----------------------------------------------------------------------------
(* Type correctness.                                                       *)

LEMMA Largest ==
  MaxRate \in Rates /\ \A r \in Rates : MaxRate >= r
BY RateAssumption DEF MaxRate, Max

LEMMA LegalRates ==
  ASSUME NEW r \in Legal
  PROVE  r \in Rates /\ r \in Nat \ {0} /\ r \in 1 .. MaxRate
BY Largest, RateAssumption DEF Legal

LEMMA IntervalType ==
  ASSUME NEW h \in Nat \ {0}
  PROVE  Interval(h) \in 0 .. Second /\ (h <= Second => Interval(h) # 0)
<1>1. Second \in Nat \ {0}
  BY RateAssumption
<1> QED BY <1>1 DEF Interval

\* What a feed has sent, and when: the i-th of the ticks remembered is so many
\* before the count that the tick goroutine is at.
Behind(f) == IF pc = "aoi" \/ (pc = "all" /\ f = "all") THEN 1 ELSE 0

DueAt(h, r, c) == h \div r < 1 \/ c % (h \div r) = 0

Remembered(f) ==
  \A i \in DOMAIN sends[f] :
    sends[f][i] <=> DueAt(rate["tick"], rate[f], tickCount - Behind(f) - Len(sends[f]) + i)

RInv ==
  /\ TypeOK
  /\ rate \in [Field -> Legal]
  /\ changed => \A f \in Feed : sends[f] = <<>>
  /\ pc \in {"aoi", "all"} /\ ~changed => hz = rate["tick"]
  /\ \A f \in Feed : Remembered(f)

LEMMA RInvInit == Init => RInv
<1> SUFFICES ASSUME Init PROVE RInv
  OBVIOUS
<1>1. rate \in [Field -> Legal] /\ rate["tick"] <= Second /\ hz = rate["tick"]
      /\ interval = Interval(rate["tick"])
  BY DEF Init
<1>2. rate["tick"] \in Legal
  BY <1>1 DEF Field
<1>3. hz \in 1 .. MaxRate /\ interval \in 1 .. Second
  BY <1>1, <1>2, LegalRates, IntervalType
<1>4. rate \in [Field -> 1 .. MaxRate]
  BY <1>1, LegalRates
<1>5. MaxRate \in Nat
  BY <1>2, LegalRates, Largest, RateAssumption
<1>6. TypeOK
  <2>1. tickCount \in 0 .. TickPeriod - 1
    BY RateAssumption DEF Init
  <2>2. storing \in [Admin -> Field]
    BY DEF Init, Field
  <2>3. sends \in [Feed -> Seq(BOOLEAN)] /\ \A f \in Feed : Len(sends[f]) <= MaxRate
    <3>1. \A f \in Feed : sends[f] = <<>>
      BY DEF Init
    <3>2. <<>> \in Seq(BOOLEAN) /\ Len(<<>>) = 0
      OBVIOUS
    <3>3. sends \in [Feed -> Seq(BOOLEAN)]
      BY <3>2 DEF Init
    <3> QED BY <1>5, <3>1, <3>2, <3>3
  <2> QED BY <1>3, <1>4, <2>1, <2>2, <2>3 DEF Init, TypeOK
<1>7. \A f \in Feed : sends[f] = <<>>
  BY DEF Init
<1> QED BY <1>1, <1>6, <1>7 DEF RInv, Remembered, Init

\* The tick counter may start again: the period is a multiple of each feed's.
LEMMA CountOn ==
  ASSUME NEW h \in Legal, NEW r \in Legal, NEW t \in 0 .. TickPeriod - 1, NEW d \in Int
  PROVE  DueAt(h, r, ((t + 1) % TickPeriod) + d) <=> DueAt(h, r, t + 1 + d)
<1>1. h \in Nat \ {0} /\ r \in Nat \ {0} /\ h \in Rates /\ r \in Rates
  BY LegalRates
<1>2. PICK e \in Nat : e = h \div r
  BY <1>1, Period
<1>3. CASE e < 1
  BY <1>2, <1>3 DEF DueAt
<1>4. CASE ~ (e < 1)
  <2>1. e \in Nat \ {0} /\ h >= r
    <3>1. (e < 1) <=> (h < r)
      BY ONLY <1>1, <1>2, Period
    <3> QED BY <1>1, <1>4, <3>1
  <2>2. TickPeriod \in Nat \ {0} /\ TickPeriod % e = 0
    BY <1>1, <1>2, <2>1, RateAssumption
  <2>3. PICK k \in Int : TickPeriod = e * k
    BY <2>1, <2>2, Multiple
  <2>4. PICK u \in Int : u = (t + 1) % TickPeriod
    BY <2>2
  <2>5. u = t + 1 \/ u = t + 1 - TickPeriod
    BY <2>2, <2>4
  <2>6. PICK c \in Int, x \in Int : c = t + 1 + d /\ x = u + d
    OBVIOUS
  <2>7. c % e = 0 <=> x % e = 0
    <3>1. CASE x = c
      BY <3>1
    <3>2. CASE x = c - e * k
      <4>1. ASSUME c % e = 0 PROVE x % e = 0
        <5>1. PICK a \in Int : c = e * a
          BY <2>1, <4>1, Multiple
        <5>2. PICK b \in Int : b = a - k
          OBVIOUS
        <5>3. x = e * b
          BY <3>2, <5>1, <5>2
        <5> QED BY <2>1, <5>3, Multiple
      <4>2. ASSUME x % e = 0 PROVE c % e = 0
        <5>1. PICK a \in Int : x = e * a
          BY <2>1, <4>2, Multiple
        <5>2. PICK b \in Int : b = a + k
          OBVIOUS
        <5>3. c = e * b
          BY <3>2, <5>1, <5>2
        <5> QED BY <2>1, <5>3, Multiple
      <4> QED BY <4>1, <4>2
    <3> QED BY <2>3, <2>5, <2>6, <3>1, <3>2
  <2> QED BY <1>2, <2>4, <2>6, <2>7 DEF DueAt
<1> QED BY <1>3, <1>4

LEMMA RatesLegal ==
  ASSUME RInv, NEW f \in Field
  PROVE  rate[f] \in Legal
BY DEF RInv

LEMMA SetRateStep ==
  ASSUME RInv, NEW a \in Admin, SetRate(a)
  PROVE  RInv'
<1>1. PICK f \in Field : f = storing[a]
  BY DEF RInv, TypeOK
<1>2. PICK r \in Rates : /\ rate' = [rate EXCEPT ![f] = Stored(f, r)]
                         /\ IF rate' = rate THEN UNCHANGED <<sends, changed>>
                            ELSE sends' = [g \in Feed |-> <<>>] /\ changed' = TRUE
  BY <1>1 DEF SetRate
<1>3. UNCHANGED <<tickCount, pc, hz, interval>>
  BY DEF SetRate
<1>4. Stored(f, r) \in Legal
  BY <1>1, RatesLegal DEF Stored, Legal
<1>5. rate' \in [Field -> Legal]
  BY <1>2, <1>4 DEF RInv
<1>6. rate' \in [Field -> 1 .. MaxRate]
  BY <1>5, LegalRates
<1>7. storing' \in [Admin -> Field]
  BY DEF SetRate, RInv, TypeOK, Field, Feed
<1>8. CASE rate' = rate
  <2>1. UNCHANGED <<rate, sends, changed>>
    BY <1>2, <1>8
  <2> QED BY <1>3, <1>7, <2>1 DEF RInv, TypeOK, Remembered, Behind
<1>9. CASE rate' # rate
  <2>1. sends' = [g \in Feed |-> <<>>] /\ changed' = TRUE
    BY <1>2, <1>9
  <2>2. sends' \in [Feed -> Seq(BOOLEAN)] /\ \A g \in Feed : sends'[g] = <<>>
    BY <2>1
  <2>3. \A g \in Feed : Len(sends'[g]) <= MaxRate
    <3>1. MaxRate \in Nat
      BY <1>4, LegalRates, Largest, RateAssumption
    <3> QED BY <2>2, <3>1
  <2>4. TypeOK'
    BY <1>3, <1>6, <1>7, <2>1, <2>2, <2>3 DEF RInv, TypeOK
  <2>5. \A g \in Feed : Remembered(g)'
    BY <2>2 DEF Remembered
  <2> QED BY <1>5, <2>1, <2>2, <2>4, <2>5 DEF RInv
<1> QED BY <1>8, <1>9

LEMMA TickStartStep ==
  ASSUME RInv, TickStart
  PROVE  RInv'
<1>1. /\ pc = "wait" /\ pc' = "aoi" /\ tickCount' = (tickCount + 1) % TickPeriod
      /\ hz' = rate["tick"] /\ changed' = FALSE
      /\ UNCHANGED <<rate, storing, interval, sends>>
  BY DEF TickStart
<1>2. rate["tick"] \in Legal
  BY RatesLegal DEF Field
<1>3. tickCount \in 0 .. TickPeriod - 1 /\ TickPeriod \in Nat \ {0}
  BY RateAssumption DEF RInv, TypeOK
<1>4. tickCount' \in 0 .. TickPeriod - 1
  BY <1>1, <1>3
<1>5. TypeOK'
  BY <1>1, <1>2, <1>4, LegalRates DEF RInv, TypeOK
<1>6. ASSUME NEW f \in Feed PROVE Remembered(f)'
  <2>1. rate[f] \in Legal
    BY RatesLegal DEF Field
  <2>2. Len(sends[f]) \in Nat
    BY DEF RInv, TypeOK
  <2>3. ASSUME NEW i \in DOMAIN sends[f]
        PROVE  sends[f][i] <=> DueAt(rate["tick"], rate[f], tickCount' - 1 - Len(sends[f]) + i)
    <3>1. i \in Nat
      <4>1. DOMAIN sends[f] = 1 .. Len(sends[f])
        BY DEF RInv, TypeOK
      <4> QED BY <2>2, <4>1
    <3>2. PICK n \in Nat : n = Len(sends[f])
      BY <2>2
    <3>3. PICK d \in Int : d = i - n - 1
      BY <3>1
    <3>4. sends[f][i] <=> DueAt(rate["tick"], rate[f], tickCount + 1 + d)
      <4>1. sends[f][i] <=> DueAt(rate["tick"], rate[f], tickCount - 0 - n + i)
        BY <1>1, <3>2 DEF RInv, Remembered, Behind
      <4>2. tickCount - 0 - n + i = tickCount + 1 + d
        BY <1>3, <3>1, <3>3
      <4> QED BY <4>1, <4>2
    <3>5. DueAt(rate["tick"], rate[f], tickCount' + d)
            <=> DueAt(rate["tick"], rate[f], tickCount + 1 + d)
      BY <1>1, <1>2, <1>3, <2>1, CountOn
    <3>6. tickCount' + d = tickCount' - 1 - n + i
      BY <1>3, <1>4, <3>1, <3>3
    <3> QED BY <3>2, <3>4, <3>5, <3>6
  <2>4. Behind(f)' = 1 /\ sends' = sends /\ rate' = rate
    BY <1>1 DEF Behind
  <2> QED BY <2>3, <2>4 DEF Remembered
<1> QED BY <1>1, <1>5, <1>6 DEF RInv

\* A tick goes on to one of its feeds.
LEMMA RememberStep ==
  ASSUME RInv, NEW f \in Feed, pc = f, Remember(f, Due(f)),
         pc' = IF f = "aoi" THEN "all" ELSE "reset",
         UNCHANGED <<rate, storing, tickCount, hz, interval, changed>>
  PROVE  RInv'
<1>1. sends \in [Feed -> Seq(BOOLEAN)] /\ \A g \in Feed : Len(sends[g]) <= MaxRate
  BY DEF RInv, TypeOK
<1>2. PICK h \in Legal, r \in Legal : h = rate["tick"] /\ r = rate[f]
  BY RatesLegal DEF Field
<1>3. h \in Nat \ {0} /\ h <= MaxRate /\ r > 0 /\ MaxRate \in Nat
  BY <1>2, LegalRates, Largest, RateAssumption
<1>4. pc' \in {"wait", "aoi", "all", "reset", "gone"}
  BY DEF Feed
<1>5. /\ Behind(f) = 1 /\ Behind(f)' = 0
      /\ \A g \in Feed : g # f => Behind(g)' = Behind(g)
  BY DEF Feed, Behind
<1>6. CASE changed
  <2>1. sends' = sends
    BY <1>6 DEF Remember
  <2>2. TypeOK'
    BY <1>4, <2>1 DEF RInv, TypeOK
  <2>3. \A g \in Feed : sends[g] = <<>>
    BY <1>6 DEF RInv
  <2>4. \A g \in Feed : Remembered(g)'
    BY <2>1, <2>3 DEF Remembered
  <2> QED BY <1>6, <2>1, <2>2, <2>3, <2>4 DEF RInv
<1>7. CASE ~changed
  <2> DEFINE all == Append(sends[f], Due(f))
             kept == IF Len(all) > rate["tick"] THEN Tail(all) ELSE all
  <2>1. sends' = [sends EXCEPT ![f] = kept]
    BY <1>7 DEF Remember
  <2>2. PICK n \in Nat, m \in Nat : n = Len(sends[f]) /\ m = n + 1
    BY <1>1
  <2>3. PICK t \in Nat : t = tickCount
    BY RateAssumption DEF RInv, TypeOK
  <2>4. hz = h /\ (Due(f) <=> DueAt(h, r, t))
    <3>1. hz = h
      BY <1>2, <1>7 DEF RInv, Feed
    <3>2. rate[f] = r /\ rate[f] > 0
      BY <1>2, <1>3
    <3> QED BY <2>3, <3>1, <3>2 DEF Due, DueAt
  <2>5. Due(f) \in BOOLEAN
    BY DEF Due
  <2>6. /\ all \in Seq(BOOLEAN) /\ Len(all) = m /\ all[m] = Due(f)
        /\ \A i \in 1 .. n : all[i] = sends[f][i]
    BY <1>1, <2>2, <2>5
  <2>7. \A i \in 1 .. n : sends[f][i] <=> DueAt(h, r, t - 1 - n + i)
    <3>1. DOMAIN sends[f] = 1 .. n
      BY <1>1, <2>2
    <3> QED BY <1>2, <1>5, <2>2, <2>3, <3>1 DEF RInv, Remembered
  <2> HIDE DEF all
  <2>8. ASSUME NEW i \in 1 .. m PROVE all[i] <=> DueAt(h, r, t - m + i)
    <3>1. CASE i = m
      <4>1. t - m + i = t
        BY ONLY <3>1, t \in Nat, m \in Nat
      <4> QED BY <2>4, <2>6, <3>1, <4>1
    <3>2. CASE i # m
      <4>1. i \in 1 .. n /\ t - 1 - n + i = t - m + i
        BY <2>2, <2>3, <3>2
      <4> QED BY <2>6, <2>7, <4>1
    <3> QED BY <3>1, <3>2
  <2>9. /\ kept \in Seq(BOOLEAN) /\ Len(kept) <= MaxRate
        /\ \A i \in 1 .. Len(kept) : kept[i] <=> DueAt(h, r, t - Len(kept) + i)
    <3>1. CASE m > h
      <4>1. kept = Tail(all)
        BY <1>2, <2>6, <3>1
      <4>2. /\ Tail(all) \in Seq(BOOLEAN) /\ Len(Tail(all)) = n
            /\ \A i \in 1 .. n : Tail(all)[i] = all[i + 1]
        BY <2>2, <2>6
      <4>3. ASSUME NEW i \in 1 .. n PROVE Tail(all)[i] <=> DueAt(h, r, t - n + i)
        <5>1. PICK k \in 1 .. m : k = i + 1 /\ t - m + k = t - n + i
          BY <2>2, <2>3
        <5> QED BY <2>8, <4>2, <5>1
      <4> HIDE DEF kept
      <4> QED BY <1>1, <2>2, <4>1, <4>2, <4>3
    <3>2. CASE ~ (m > h)
      <4>1. kept = all
        BY <1>2, <2>6, <3>2
      <4> HIDE DEF kept
      <4> QED BY <1>3, <2>6, <2>8, <3>2, <4>1
    <3> QED BY <3>1, <3>2
  <2> HIDE DEF kept
  <2>10. /\ sends' \in [Feed -> Seq(BOOLEAN)] /\ sends'[f] = kept
         /\ \A g \in Feed : g # f => sends'[g] = sends[g]
    BY <1>1, <2>1, <2>9
  <2>11. TypeOK'
    <3>1. \A g \in Feed : Len(sends'[g]) <= MaxRate
      BY <1>1, <2>9, <2>10
    <3> QED BY <1>4, <2>10, <3>1 DEF RInv, TypeOK
  <2>12. ASSUME NEW g \in Feed PROVE Remembered(g)'
    <3>1. CASE g = f
      <4>1. ASSUME NEW i \in 1 .. Len(kept)
            PROVE  kept[i] <=> DueAt(h, r, t - 0 - Len(kept) + i)
        <5>1. t - 0 - Len(kept) + i = t - Len(kept) + i
          BY <2>3, <2>9
        <5> QED BY <2>9, <5>1
      <4>2. DOMAIN kept = 1 .. Len(kept)
        BY <2>9
      <4>3. sends'[g] = kept /\ Behind(g)' = 0 /\ rate'["tick"] = h /\ rate'[g] = r
            /\ tickCount' = t
        BY <1>2, <1>5, <2>3, <2>10, <3>1
      <4> QED BY <4>1, <4>2, <4>3 DEF Remembered
    <3>2. CASE g # f
      <4>1. sends'[g] = sends[g] /\ Behind(g)' = Behind(g)
        BY <1>5, <2>10, <3>2
      <4>2. Remembered(g)
        BY DEF RInv
      <4> QED BY <4>1, <4>2 DEF Remembered
    <3> QED BY <3>1, <3>2
  <2> QED BY <1>7, <2>11, <2>12 DEF RInv
<1> QED BY <1>6, <1>7

LEMMA ResetStep ==
  ASSUME RInv, Reset
  PROVE  RInv'
<1>1. /\ pc = "reset" /\ pc' \in {"wait", "gone"}
      /\ UNCHANGED <<rate, storing, tickCount, hz, sends, changed>>
  BY DEF Reset
<1>2. rate["tick"] \in Nat \ {0}
  BY RatesLegal, LegalRates DEF Field
<1>3. interval' \in 1 .. Second
  <2>1. Interval(rate["tick"]) \in 0 .. Second /\ Second \in Nat
    BY <1>2, IntervalType, RateAssumption
  <2>2. interval' = interval \/ (Interval(rate["tick"]) # 0 /\ interval' = Interval(rate["tick"]))
    BY DEF Reset
  <2> QED BY <2>1, <2>2 DEF RInv, TypeOK
<1>4. TypeOK'
  BY <1>1, <1>3 DEF RInv, TypeOK
<1>5. \A f \in Feed : Behind(f)' = Behind(f)
  BY <1>1 DEF Behind
<1>6. ASSUME NEW f \in Feed PROVE Remembered(f)'
  BY <1>1, <1>5 DEF RInv, Remembered
<1> QED BY <1>1, <1>4, <1>6 DEF RInv

LEMMA RInvStep == RInv /\ [Next]_vars => RInv'
<1> SUFFICES ASSUME RInv, [Next]_vars PROVE RInv'
  OBVIOUS
<1>1. CASE UNCHANGED vars
  BY <1>1 DEF vars, RInv, TypeOK, Remembered, Behind
<1>2. ASSUME NEW a \in Admin, SetRate(a) PROVE RInv'
  BY <1>2, SetRateStep
<1>3. CASE TickStart
  BY <1>3, TickStartStep
<1>4. CASE BroadcastAOI
  BY <1>4, RememberStep DEF BroadcastAOI, Feed
<1>5. CASE BroadcastAll
  BY <1>5, RememberStep DEF BroadcastAll, Feed
<1>6. CASE Reset
  BY <1>6, ResetStep
<1>7. CASE Terminated
  BY <1>1, <1>7 DEF Terminated
<1> QED BY <1>1, <1>2, <1>3, <1>4, <1>5, <1>6, <1>7 DEF Next, Tick

-----------------------------------------------------------------------------
(* Theorems.                                                               *)

\* The rates, the counter and the ticker's period keep their types: no rate below
\* 1 is ever stored, and the ticker is never reset to nothing.
THEOREM TypeCorrect == Spec => []TypeOK
<1>1. RInv => TypeOK
  BY DEF RInv
<1> QED BY <1>1, RInvInit, RInvStep, PTL DEF Spec

\* What is remembered of a second are the ticks that are due.
LEMMA SecondIsHits ==
  ASSUME RInv, NEW f \in Feed, NEW h \in Nat \ {0}, h = rate["tick"], Len(sends[f]) = h,
         NEW r \in Nat \ {0}, r = rate[f], r <= h
  PROVE  \E o \in Int : { i \in DOMAIN sends[f] : sends[f][i] } = Hits(o, h, h \div r)
<1>1. DOMAIN sends[f] = 1 .. h /\ tickCount \in Nat
  BY RateAssumption DEF RInv, TypeOK
<1>2. PICK o \in Int : o = tickCount - Behind(f) - h
  BY <1>1 DEF Behind
<1>3. ~ (h \div r < 1)
  <2>1. PICK e \in Nat : e = h \div r
    BY Period
  <2>2. (e < 1) <=> (h < r)
    BY <2>1, Period
  <2> QED BY <2>1, <2>2
<1>4. \A i \in 1 .. h : sends[f][i] <=> (o + i) % (h \div r) = 0
  BY <1>1, <1>2, <1>3 DEF RInv, Remembered, DueAt
<1> QED BY <1>1, <1>4 DEF Hits

\* With a rate beyond the ticks' every tick sends.
LEMMA SecondIsAll ==
  ASSUME RInv, NEW f \in Feed, NEW h \in Nat \ {0}, h = rate["tick"], Len(sends[f]) = h,
         NEW r \in Nat \ {0}, r = rate[f], h < r
  PROVE  { i \in DOMAIN sends[f] : sends[f][i] } = 1 .. h
<1>1. DOMAIN sends[f] = 1 .. h
  BY DEF RInv, TypeOK
<1>2. h \div r < 1
  <2>1. PICK e \in Nat : e = h \div r
    BY Period
  <2>2. (e < 1) <=> (h < r)
    BY <2>1, Period
  <2> QED BY <2>1, <2>2
<1>3. \A i \in 1 .. h : sends[f][i]
  BY <1>1, <1>2 DEF RInv, Remembered, DueAt
<1> QED BY <1>1, <1>3

LEMMA Lesser ==
  ASSUME NEW a \in Int, NEW b \in Int
  PROVE  Min({a, b}) = IF a <= b THEN a ELSE b
<1> DEFINE m == IF a <= b THEN a ELSE b
<1>1. m \in {a, b} /\ \A y \in {a, b} : m <= y
  OBVIOUS
<1>2. \A x \in {a, b} : (\A y \in {a, b} : x <= y) => x = m
  OBVIOUS
<1> HIDE DEF m
<1>3. Min({a, b}) = m
  BY <1>1, <1>2 DEF Min
<1> QED BY <1>3 DEF m

LEMMA SecondBounded ==
  ASSUME RInv, NEW f \in Feed, Len(sends[f]) = rate["tick"]
  PROVE  Sent(f) >= Min({rate[f], rate["tick"]}) /\ Sent(f) <= 2 * rate[f]
<1>1. PICK h \in Nat \ {0}, r \in Nat \ {0} : h = rate["tick"] /\ r = rate[f]
  BY RatesLegal, LegalRates DEF Field
<1>2. Min({r, h}) = IF r <= h THEN r ELSE h
  BY Lesser
<1>3. CASE r <= h
  <2>1. PICK o \in Int : { i \in DOMAIN sends[f] : sends[f][i] } = Hits(o, h, h \div r)
    BY <1>1, <1>3, SecondIsHits
  <2>2. PICK n : n = Cardinality(Hits(o, h, h \div r))
    OBVIOUS
  <2>3. n >= r /\ n <= 2 * r
    BY <1>3, <2>2, HitsBounded
  <2>4. Sent(f) = n
    BY <2>1, <2>2 DEF Sent
  <2> QED BY <1>1, <1>2, <1>3, <2>3, <2>4
<1>4. CASE h < r
  <2>1. { i \in DOMAIN sends[f] : sends[f][i] } = 1 .. h
    BY <1>1, <1>4, SecondIsAll
  <2>2. Cardinality(1 .. h) = h
    BY FS_Interval
  <2>3. Sent(f) = h
    BY <2>1, <2>2 DEF Sent
  <2> QED BY <1>1, <1>2, <1>4, <2>3
<1> QED BY <1>3, <1>4

\* A feed sends as often as its rate says, or at every tick: whatever the counter
\* was when the rates were set, and where it starts again.
THEOREM OftenEnough == Spec => []NotTooRarely
<1>1. RInv => NotTooRarely
  BY SecondBounded DEF NotTooRarely
<1> QED BY <1>1, RInvInit, RInvStep, PTL DEF Spec

\* The integer quotient makes for more, but never for more than twice as many.
THEOREM NotMoreThanTwice == Spec => []NotTwiceTooOften
<1>1. RInv => NotTwiceTooOften
  BY SecondBounded DEF NotTwiceTooOften
<1> QED BY <1>1, RInvInit, RInvStep, PTL DEF Spec
=============================================================================
