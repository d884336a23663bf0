---------------------------- MODULE SceneLemmas ----------------------------
(***************************************************************************)
(* What the proofs about SceneView, Gateway, Session and Downlink share:   *)
(* lemmas on queues and on what they ask of the scene, on the operators of *)
(* Aoi, and on what the operations of Scene do to its variables, whatever  *)
(* surrounds the scene.                                                    *)
(***************************************************************************)
EXTENDS Scene, Requests, SequencesExt, SequenceTheorems, WellFoundedInduction, TLAPS

-----------------------------------------------------------------------------
(* Induction, for sets: a property of numbers or of sequences is the set of *)
(* those that have it.                                                     *)

LEMMA LeastNumber ==
  ASSUME NEW T \in SUBSET Nat, T # {}
  PROVE  \E x \in T : \A y \in T : x <= y
<1> DEFINE R == OpToRel(<, Nat)
<1>1. IsWellFoundedOn(R, Nat)
  BY NatLessThanWellFounded
<1>2. \A m, n \in Nat : m < n => <<m, n>> \in R
  BY DEF OpToRel
<1> HIDE DEF R
<1>3. PICK x \in T : \A y \in T : ~ (<<y, x>> \in R)
  BY <1>1, WFMin
<1>4. ASSUME NEW y \in T PROVE x <= y
  <2>1. ~ (<<y, x>> \in R)
    BY <1>3
  <2>2. ~ (y < x)
    BY <2>1, <1>2
  <2> QED BY <2>2
<1> QED BY <1>4

LEMMA LargestNumber ==
  ASSUME NEW n \in Nat, NEW s \in SUBSET (1 .. n), s # {}
  PROVE  Max(s) \in s /\ \A y \in s : Max(s) >= y
<1> DEFINE T == { n - y : y \in s }
<1>1. T \in SUBSET Nat /\ T # {}
  <2>1. \A y \in s : n - y \in Nat
    OBVIOUS
  <2> QED BY <2>1
<1>2. PICK t \in T : \A u \in T : t <= u
  <2> HIDE DEF T
  <2> QED BY <1>1, LeastNumber
<1>3. PICK x \in s : t = n - x
  BY <1>2
<1>4. ASSUME NEW y \in s PROVE x >= y
  <2>1. n - y \in T
    OBVIOUS
  <2>2. n - x <= n - y
    BY <1>2, <1>3, <2>1
  <2> QED BY <2>2
<1> QED BY <1>4 DEF Max

LEMMA NumberInduction ==
  ASSUME NEW P \in SUBSET Nat, 0 \in P, \A n \in P : n + 1 \in P
  PROVE  P = Nat
<1> SUFFICES ASSUME P # Nat PROVE FALSE
  OBVIOUS
<1>1. PICK x \in Nat \ P : \A y \in Nat \ P : x <= y
  BY LeastNumber
<1>2. x # 0 /\ x - 1 \in Nat
  OBVIOUS
<1>3. x - 1 \in P
  BY <1>1, <1>2
<1> QED BY <1>2, <1>3

LEMMA SequenceInduction ==
  ASSUME NEW S, NEW P \in SUBSET Seq(S), <<>> \in P,
         \A q \in P : \A x \in S : Append(q, x) \in P
  PROVE  P = Seq(S)
<1> DEFINE N == { n \in Nat : \A q \in Seq(S) : Len(q) = n => q \in P }
<1>1. 0 \in N
  <2>1. \A q \in Seq(S) : Len(q) = 0 => q = <<>>
    OBVIOUS
  <2> QED BY <2>1
<1>2. ASSUME NEW n \in N PROVE n + 1 \in N
  <2>1. ASSUME NEW q \in Seq(S), Len(q) = n + 1 PROVE q \in P
    <3> DEFINE r == SubSeq(q, 1, n)
    <3>1. r \in Seq(S) /\ Len(r) = n /\ q[n + 1] \in S
      BY <2>1
    <3>2. Append(r, q[n + 1]) = q
      <4> DEFINE t == Append(r, q[n + 1])
      <4>1. t \in Seq(S) /\ Len(t) = Len(q) /\ \A i \in 1 .. Len(t) : t[i] = q[i]
        BY <2>1, <3>1
      <4> HIDE DEF t
      <4>2. t = q
        BY <4>1, SeqEqual
      <4> QED BY <4>2 DEF t
    <3> QED BY <3>1, <3>2
  <2> QED BY <2>1
<1> HIDE DEF N
<1>3. N = Nat
  BY <1>1, <1>2, NumberInduction DEF N
<1>4. ASSUME NEW q \in Seq(S) PROVE q \in P
  <2>1. Len(q) \in N
    BY <1>3
  <2> QED BY <2>1 DEF N
<1> QED BY <1>4

-----------------------------------------------------------------------------
(* What a queue holds, when one enters it and when one leaves it.          *)

LEMMA AppendHolds ==
  ASSUME NEW S, NEW q \in Seq(S), NEW x \in S
  PROVE  { Append(q, x)[i] : i \in DOMAIN Append(q, x) }
           = { q[i] : i \in DOMAIN q } \cup {x}
<1> DEFINE t == Append(q, x)
<1>1. /\ DOMAIN t = DOMAIN q \cup {Len(q) + 1} /\ t[Len(q) + 1] = x
      /\ \A i \in DOMAIN q : t[i] = q[i]
  OBVIOUS
<1> HIDE DEF t
<1>2. { t[i] : i \in DOMAIN t } = { q[i] : i \in DOMAIN q } \cup {x}
  BY <1>1
<1> QED BY <1>2 DEF t

LEMMA TailHolds ==
  ASSUME NEW S, NEW q \in Seq(S), q # <<>>
  PROVE  { q[i] : i \in DOMAIN q }
           = { Tail(q)[i] : i \in DOMAIN Tail(q) } \cup {Head(q)}
<1>1. ASSUME NEW i \in DOMAIN q
      PROVE  q[i] \in { Tail(q)[j] : j \in DOMAIN Tail(q) } \cup {Head(q)}
  <2>1. CASE i = 1
    BY <2>1
  <2>2. CASE i # 1
    <3>1. i - 1 \in DOMAIN Tail(q) /\ Tail(q)[i - 1] = q[i]
      BY <2>2
    <3> QED BY <3>1
  <2> QED BY <2>1, <2>2
<1>2. ASSUME NEW i \in DOMAIN Tail(q)
      PROVE  i + 1 \in DOMAIN q /\ q[i + 1] = Tail(q)[i]
  OBVIOUS
<1>3. 1 \in DOMAIN q /\ q[1] = Head(q)
  OBVIOUS
<1> QED BY <1>1, <1>2, <1>3

\* Queues one behind the other are one long queue.
LEMMA JoinedQueues ==
  ASSUME NEW S, NEW q \in Seq(S), NEW r \in Seq(S)
  PROVE  /\ q \o r \in Seq(S)
         /\ \A x \in S : q \o Append(r, x) = Append(q \o r, x)
         /\ q # <<>> => /\ q \o r # <<>> /\ Head(q \o r) = Head(q)
                        /\ Tail(q \o r) = Tail(q) \o r
         /\ r # <<>> => Append(q, Head(r)) \o Tail(r) = q \o r
<1>1. \A x \in S : q \o Append(r, x) = Append(q \o r, x)
  OBVIOUS
<1>2. ASSUME q # <<>>
      PROVE  q \o r # <<>> /\ Head(q \o r) = Head(q) /\ Tail(q \o r) = Tail(q) \o r
  BY <1>2
<1>3. ASSUME r # <<>>
      PROVE  Append(q, Head(r)) \o Tail(r) = q \o r
  BY <1>3
<1>4. q \o r \in Seq(S)
  OBVIOUS
<1> QED BY <1>1, <1>2, <1>3, <1>4

LEMMA QueuesAssociate ==
  ASSUME NEW S, NEW q \in Seq(S), NEW r \in Seq(S), NEW t \in Seq(S)
  PROVE  (q \o r) \o t = q \o (r \o t)
OBVIOUS

Regrouped(q, r, t, w) == ((q \o r) \o t) \o w = q \o ((r \o t) \o w)

LEMMA FourQueues ==
  ASSUME NEW S, NEW q \in Seq(S), NEW r \in Seq(S), NEW t \in Seq(S), NEW w \in Seq(S)
  PROVE  Regrouped(q, r, t, w)
<1>1. PICK e \in Seq(S) : e = r \o t
  BY ConcatProperties
<1>2. (q \o r) \o t = q \o e
  BY <1>1, QueuesAssociate
<1>3. (q \o e) \o w = q \o (e \o w)
  OBVIOUS
<1> QED BY <1>1, <1>2, <1>3 DEF Regrouped

\* The queue all is x and behind it q.
First(x, q, all) == all # <<>> /\ Head(all) = x /\ Tail(all) = q

LEMMA FirstOfTwo ==
  ASSUME NEW S, NEW x \in S, NEW q \in Seq(S), NEW all \in Seq(S), First(x, q, all),
         NEW r \in Seq(S)
  PROVE  First(x, q \o r, all \o r)
<1>1. /\ all \o r # <<>> /\ Head(all \o r) = Head(all)
      /\ Tail(all \o r) = Tail(all) \o r
  BY JoinedQueues DEF First
<1> QED BY <1>1 DEF First

LEMMA FirstOfFour ==
  ASSUME NEW S, NEW x \in S, NEW q \in Seq(S), NEW r \in Seq(S), NEW t \in Seq(S),
         NEW w \in Seq(S)
  PROVE  First(x, ((q \o r) \o t) \o w, (((<<x>> \o q) \o r) \o t) \o w)
<1>1. \A k, l \in Seq(S) : k \o l \in Seq(S)
  BY ConcatProperties
<1>2. <<x>> \in Seq(S) /\ First(x, q, <<x>> \o q)
  BY DEF First
<1>3. PICK k \in Seq(S) : k = <<x>> \o q
  BY <1>1, <1>2
<1>4. PICK kr \in Seq(S), qr \in Seq(S) : kr = k \o r /\ qr = q \o r
  BY <1>1
<1>5. First(x, qr, kr)
  BY <1>2, <1>3, <1>4, FirstOfTwo
<1>6. PICK krt \in Seq(S), qrt \in Seq(S) : krt = kr \o t /\ qrt = qr \o t
  BY <1>1
<1>7. First(x, qrt, krt)
  BY <1>5, <1>6, FirstOfTwo
<1>8. First(x, qrt \o w, krt \o w)
  BY <1>7, FirstOfTwo
<1> QED BY <1>3, <1>4, <1>6, <1>8

Holds(q, x) == \E i \in 1 .. Len(q) : q[i] = x

\* Two queues hold together what each of them holds.
LEMMA JoinedHold ==
  ASSUME NEW S, NEW u \in Seq(S), NEW v \in Seq(S), NEW x
  PROVE  Holds(u \o v, x) <=> Holds(u, x) \/ Holds(v, x)
<1> DEFINE w == u \o v
<1>1. /\ Len(w) = Len(u) + Len(v) /\ Len(u) \in Nat /\ Len(v) \in Nat
      /\ \A i \in 1 .. Len(u) : w[i] = u[i]
      /\ \A i \in 1 .. Len(v) : w[Len(u) + i] = v[i]
      /\ \A i \in 1 .. Len(w) : i > Len(u) => i - Len(u) \in 1 .. Len(v)
                                              /\ w[i] = v[i - Len(u)]
  OBVIOUS
<1> HIDE DEF w
<1>2. Holds(u, x) => Holds(w, x)
  BY <1>1 DEF Holds
<1>3. Holds(v, x) => Holds(w, x)
  BY <1>1 DEF Holds
<1>4. ASSUME NEW i \in 1 .. Len(w), w[i] = x PROVE Holds(u, x) \/ Holds(v, x)
  <2>1. CASE i > Len(u)
    BY <1>1, <1>4, <2>1 DEF Holds
  <2>2. CASE ~ i > Len(u)
    <3>1. i \in 1 .. Len(u)
      BY <1>1, <2>2
    <3> QED BY <1>1, <1>4, <3>1 DEF Holds
  <2> QED BY <2>1, <2>2
<1>5. Holds(w, x) => Holds(u, x) \/ Holds(v, x)
  BY <1>4 DEF Holds
<1> QED BY <1>2, <1>3, <1>5 DEF w

-----------------------------------------------------------------------------
(* Asks.                                                                   *)

\* f is the function that Asks is defined by, up to n.
FirstAsks(c, q, n, f) ==
  f = [m \in 0 .. n |-> IF m = 0 THEN <<>> ELSE f[m - 1] \o Ask(c, q[m])]

\* In other words:
AskByAsk(c, q, n, f) ==
  f[0] = <<>> /\ \A k \in 1 .. n : f[k] = f[k - 1] \o Ask(c, q[k])

LEMMA FirstAsksStep ==
  ASSUME NEW c, NEW q, NEW n \in Nat, NEW f, FirstAsks(c, q, n, f)
  PROVE  AskByAsk(c, q, n, f)
<1>0. f[0] = <<>>
  BY DEF FirstAsks
<1> SUFFICES ASSUME NEW k \in 1 .. n PROVE f[k] = f[k - 1] \o Ask(c, q[k])
  BY <1>0 DEF AskByAsk
<1> DEFINE Step(j) == IF j = 0 THEN <<>> ELSE f[j - 1] \o Ask(c, q[j])
<1>1. f = [j \in 0 .. n |-> Step(j)]
  BY Zenon DEF FirstAsks
<1>2. k # 0 /\ k \in 0 .. n
  OBVIOUS
<1> HIDE DEF Step
<1>3. f[k] = Step(k)
  BY <1>1, <1>2
<1> QED BY <1>2, <1>3, Zenon DEF Step

\* A recursive definition is worth nothing before such a function exists.
LEMMA FirstAsksExist ==
  ASSUME NEW c, NEW q, NEW N \in Nat
  PROVE  \E f : FirstAsks(c, q, N, f)
<1> DEFINE P == { n \in Nat : \E f : FirstAsks(c, q, n, f) }
<1>1. 0 \in P
  <2> DEFINE f == [m \in 0 .. 0 |-> <<>>]
  <2>1. FirstAsks(c, q, 0, f)
    BY DEF FirstAsks
  <2> QED BY <2>1
<1>2. ASSUME NEW n \in P PROVE n + 1 \in P
  <2>1. PICK f : FirstAsks(c, q, n, f)
    OBVIOUS
  <2> DEFINE Step(g, m) == IF m = 0 THEN <<>> ELSE g[m - 1] \o Ask(c, q[m])
             h == [m \in 0 .. n + 1 |-> IF m = n + 1 THEN Step(f, n + 1) ELSE f[m]]
  <2>2. f = [m \in 0 .. n |-> Step(f, m)]
    BY <2>1 DEF FirstAsks
  <2> HIDE DEF Step
  <2>3. ASSUME NEW m \in 0 .. n + 1 PROVE h[m] = Step(h, m)
    <3>1. h[m] = Step(f, m)
      <4>1. CASE m = n + 1
        BY <4>1
      <4>2. CASE m # n + 1
        <5>1. m \in 0 .. n
          BY <4>2
        <5> QED BY <2>2, <4>2, <5>1
      <4> QED BY <4>1, <4>2
    <3>2. m # 0 => h[m - 1] = f[m - 1]
      OBVIOUS
    <3>3. Step(f, m) = Step(h, m)
      BY <3>2 DEF Step
    <3> QED BY <3>1, <3>3
  <2>4. h = [m \in 0 .. n + 1 |-> Step(h, m)]
    <3> DEFINE k == [m \in 0 .. n + 1 |-> Step(h, m)]
    <3>1. \A m \in 0 .. n + 1 : h[m] = k[m]
      BY <2>3
    <3> QED BY <3>1
  <2>5. FirstAsks(c, q, n + 1, h)
    BY <2>4 DEF FirstAsks, Step
  <2> QED BY <2>5
<1> HIDE DEF P
<1>3. P = Nat
  BY <1>1, <1>2, NumberInduction DEF P
<1> QED BY <1>3 DEF P

LEMMA AsksByFirst ==
  ASSUME NEW c, NEW q, Len(q) \in Nat
  PROVE  \E f : AskByAsk(c, q, Len(q), f) /\ Asks(c, q) = f[Len(q)]
<1>1. Asks(c, q) = (CHOOSE f : FirstAsks(c, q, Len(q), f))[Len(q)]
  BY Zenon DEF Asks, FirstAsks
<1>2. PICK f : FirstAsks(c, q, Len(q), f) /\ Asks(c, q) = f[Len(q)]
  BY <1>1, FirstAsksExist
<1>3. AskByAsk(c, q, Len(q), f)
  BY <1>2, FirstAsksStep
<1> QED BY <1>2, <1>3

\* Two queues that begin alike.
LEMMA AskByAskUnique ==
  ASSUME NEW c, NEW q, NEW r, NEW n \in Nat, NEW l \in Nat, n <= l,
         \A m \in 1 .. n : q[m] = r[m],
         NEW f, AskByAsk(c, q, n, f), NEW g, AskByAsk(c, r, l, g)
  PROVE  f[n] = g[n]
<1> DEFINE P == { m \in Nat : m <= n => f[m] = g[m] }
<1>1. 0 \in P
  BY DEF AskByAsk
<1>2. ASSUME NEW m \in P PROVE m + 1 \in P
  <2> SUFFICES ASSUME m + 1 <= n PROVE f[m + 1] = g[m + 1]
    OBVIOUS
  <2>1. PICK k \in Nat : k = m + 1
    OBVIOUS
  <2>2. k \in 1 .. n /\ k \in 1 .. l /\ k - 1 = m /\ f[m] = g[m]
    BY <2>1
  <2>3. f[k] = f[m] \o Ask(c, q[k]) /\ g[k] = g[m] \o Ask(c, r[k])
    BY <2>2 DEF AskByAsk
  <2> QED BY <2>1, <2>2, <2>3
<1> HIDE DEF P
<1>3. P = Nat
  BY <1>1, <1>2, NumberInduction DEF P
<1> QED BY <1>3 DEF P

LEMMA AsksEmpty ==
  ASSUME NEW c
  PROVE  Asks(c, <<>>) = <<>>
<1>1. Len(<<>>) = 0
  OBVIOUS
<1>2. PICK f : AskByAsk(c, <<>>, 0, f) /\ Asks(c, <<>>) = f[0]
  BY <1>1, AsksByFirst
<1> QED BY <1>2 DEF AskByAsk

LEMMA AsksAppend ==
  ASSUME NEW c, NEW S, NEW q \in Seq(S), NEW x \in S
  PROVE  Asks(c, Append(q, x)) = Asks(c, q) \o Ask(c, x)
<1> DEFINE r == Append(q, x)
<1>1. PICK n \in Nat, k \in Nat : n = Len(q) /\ k = n + 1
  OBVIOUS
<1>2. Len(r) = k /\ r[k] = x /\ \A m \in 1 .. n : q[m] = r[m]
  BY <1>1
<1> HIDE DEF r
<1>3. PICK f : AskByAsk(c, q, n, f) /\ Asks(c, q) = f[n]
  BY <1>1, AsksByFirst
<1>4. PICK g : AskByAsk(c, r, k, g) /\ Asks(c, r) = g[k]
  BY <1>2, AsksByFirst
<1>5. f[n] = g[n]
  BY <1>1, <1>2, <1>3, <1>4, AskByAskUnique
<1>6. k \in 1 .. k /\ k - 1 = n
  BY <1>1
<1>7. g[k] = g[n] \o Ask(c, r[k])
  BY <1>4, <1>6 DEF AskByAsk
<1> QED BY <1>2, <1>3, <1>4, <1>5, <1>7 DEF r

\* What can be asked of the scene, and the frames and inputs that ask it.
Asked == {"join", "leave", "move"}
Asking(S) == \A x \in S : x.kind \in Asked \cup {"login", "spectate"}

LEMMA AskType ==
  ASSUME NEW c, NEW S, Asking(S), NEW x \in S
  PROVE  Ask(c, x) \in Seq(Asked)
<1>1. CASE x.id # c \/ x.kind = "spectate"
  BY <1>1 DEF Ask
<1>2. CASE ~ (x.id # c \/ x.kind = "spectate")
  <2> DEFINE k == IF x.kind = "login" THEN "join" ELSE x.kind
  <2>1. Ask(c, x) = <<k>>
    BY <1>2, Zenon DEF Ask
  <2>2. k \in Asked
    BY <1>2 DEF Asking, Asked
  <2> HIDE DEF k
  <2> QED BY <2>1, <2>2
<1> QED BY <1>1, <1>2

LEMMA AsksType ==
  ASSUME NEW c, NEW S, Asking(S), NEW q \in Seq(S)
  PROVE  Asks(c, q) \in Seq(Asked)
<1> DEFINE P == { r \in Seq(S) : Asks(c, r) \in Seq(Asked) }
<1>1. <<>> \in P
  <2>1. <<>> \in Seq(S) /\ <<>> \in Seq(Asked)
    OBVIOUS
  <2> QED BY <2>1, AsksEmpty
<1>2. ASSUME NEW r \in P, NEW x \in S PROVE Append(r, x) \in P
  <2>1. Asks(c, Append(r, x)) = Asks(c, r) \o Ask(c, x)
    BY AsksAppend
  <2>2. r \in Seq(S) /\ Asks(c, r) \in Seq(Asked) /\ Ask(c, x) \in Seq(Asked)
    BY AskType
  <2>3. Asks(c, r) \o Ask(c, x) \in Seq(Asked)
    BY <2>2, ConcatProperties
  <2>4. Append(r, x) \in Seq(S)
    BY <2>2
  <2> QED BY <2>1, <2>3, <2>4
<1> HIDE DEF P
<1>3. P = Seq(S)
  BY <1>1, <1>2, SequenceInduction DEF P
<1> QED BY <1>3 DEF P

LEMMA AsksConcat ==
  ASSUME NEW c, NEW S, Asking(S), NEW q \in Seq(S), NEW r \in Seq(S)
  PROVE  Asks(c, q \o r) = Asks(c, q) \o Asks(c, r)
<1> DEFINE P == { t \in Seq(S) : Asks(c, q \o t) = Asks(c, q) \o Asks(c, t) }
<1>1. <<>> \in P
  <2>1. Asks(c, q) \in Seq(Asked)
    BY AsksType
  <2>2. q \o <<>> = q /\ Asks(c, q) \o <<>> = Asks(c, q) /\ <<>> \in Seq(S)
    BY <2>1, ConcatEmptySeq
  <2> QED BY <2>2, AsksEmpty
<1>2. ASSUME NEW t \in P, NEW x \in S PROVE Append(t, x) \in P
  <2>1. /\ q \o t \in Seq(S) /\ q \o Append(t, x) = Append(q \o t, x)
        /\ Append(t, x) \in Seq(S)
    BY JoinedQueues
  <2>2. Asks(c, Append(q \o t, x)) = (Asks(c, q) \o Asks(c, t)) \o Ask(c, x)
    BY <2>1, AsksAppend
  <2>3. Asks(c, Append(t, x)) = Asks(c, t) \o Ask(c, x)
    BY AsksAppend
  <2>4. /\ Asks(c, q) \in Seq(Asked) /\ Asks(c, t) \in Seq(Asked)
        /\ Ask(c, x) \in Seq(Asked)
    BY AsksType, AskType
  <2>5. (Asks(c, q) \o Asks(c, t)) \o Ask(c, x) = Asks(c, q) \o (Asks(c, t) \o Ask(c, x))
    BY <2>4, QueuesAssociate
  <2> QED BY <2>1, <2>2, <2>3, <2>5
<1> HIDE DEF P
<1>3. P = Seq(S)
  BY <1>1, <1>2, SequenceInduction DEF P
<1> QED BY <1>3 DEF P

LEMMA AsksSingle ==
  ASSUME NEW c, NEW S, Asking(S), NEW x \in S
  PROVE  Asks(c, <<x>>) = Ask(c, x)
<1>1. <<>> \in Seq(S) /\ Append(<<>>, x) = <<x>>
  OBVIOUS
<1>2. Asks(c, Append(<<>>, x)) = <<>> \o Ask(c, x)
  BY <1>1, AsksAppend, AsksEmpty
<1>3. <<>> \o Ask(c, x) = Ask(c, x)
  BY AskType, ConcatEmptySeq
<1> QED BY <1>1, <1>2, <1>3

LEMMA AsksHead ==
  ASSUME NEW c, NEW S, Asking(S), NEW q \in Seq(S), q # <<>>
  PROVE  Asks(c, q) = Ask(c, Head(q)) \o Asks(c, Tail(q))
<1>1. Head(q) \in S /\ Tail(q) \in Seq(S)
  OBVIOUS
<1>2. PICK h \in S, t \in Seq(S) : h = Head(q) /\ t = Tail(q)
  BY <1>1
<1>3. <<h>> \in Seq(S)
  OBVIOUS
<1>4. q = <<h>> \o t
  BY <1>2
<1>5. Asks(c, <<h>> \o t) = Asks(c, <<h>>) \o Asks(c, t)
  BY <1>3, AsksConcat
<1>6. Asks(c, <<h>>) = Ask(c, h)
  BY AsksSingle
<1> QED BY <1>2, <1>4, <1>5, <1>6

\* Whether a join is asked for.
HoldsJoin(q, c) == \E i \in 1 .. Len(q) : q[i].id = c /\ q[i].kind \in {"login", "join"}

LEMMA AsksJoin ==
  ASSUME NEW c, NEW S, Asking(S), NEW q \in Seq(S)
  PROVE  Holds(Asks(c, q), "join") <=> HoldsJoin(q, c)
<1> DEFINE P == { r \in Seq(S) : Holds(Asks(c, r), "join") <=> HoldsJoin(r, c) }
<1>1. <<>> \in P
  <2>1. <<>> \in Seq(S) /\ ~ Holds(<<>>, "join") /\ ~ HoldsJoin(<<>>, c)
    BY DEF Holds, HoldsJoin
  <2> QED BY <2>1, AsksEmpty
<1>2. ASSUME NEW r \in P, NEW x \in S PROVE Append(r, x) \in P
  <2>1. Append(r, x) \in Seq(S)
    OBVIOUS
  <2>2. HoldsJoin(Append(r, x), c)
          <=> HoldsJoin(r, c) \/ (x.id = c /\ x.kind \in {"login", "join"})
    <3>1. /\ Len(Append(r, x)) = Len(r) + 1 /\ Append(r, x)[Len(r) + 1] = x
          /\ \A i \in 1 .. Len(r) : Append(r, x)[i] = r[i]
          /\ Len(r) \in Nat
      OBVIOUS
    <3> QED BY <3>1 DEF HoldsJoin
  <2>3. Holds(Ask(c, x), "join") <=> x.id = c /\ x.kind \in {"login", "join"}
    BY DEF Holds, Ask, Asking, Asked
  <2>4. Asks(c, r) \in Seq(Asked) /\ Ask(c, x) \in Seq(Asked)
    BY AsksType, AskType
  <2>5. Asks(c, Append(r, x)) = Asks(c, r) \o Ask(c, x)
    BY AsksAppend
  <2>6. r \in Seq(S) /\ (Holds(Asks(c, r), "join") <=> HoldsJoin(r, c))
    OBVIOUS
  <2>7. Holds(Asks(c, r) \o Ask(c, x), "join")
          <=> Holds(Asks(c, r), "join") \/ Holds(Ask(c, x), "join")
    BY <2>4, JoinedHold
  <2> QED BY <2>1, <2>2, <2>3, <2>5, <2>6, <2>7
<1> HIDE DEF P
<1>3. P = Seq(S)
  BY <1>1, <1>2, SequenceInduction DEF P
<1> QED BY <1>3 DEF P

-----------------------------------------------------------------------------
(* Where a request enters or leaves the way of a connection.               *)

LEMMA InsertBetween ==
  ASSUME NEW S, NEW u \in Seq(S), NEW v \in Seq(S), NEW x \in S
  PROVE  /\ InsertAt(u \o v, Len(u) + 1, x) = (u \o <<x>>) \o v
         /\ Len(u) + 1 \in 1 .. Len(u \o v) + 1
         /\ \A y : (\E j \in Len(u) + 1 .. Len(u \o v) : (u \o v)[j] = y)
                    <=> Holds(v, y)
<1> DEFINE w == u \o v
<1>1. PICK n \in Nat, k \in Nat : n = Len(u) /\ k = Len(v)
  OBVIOUS
<1>2. /\ w \in Seq(S) /\ Len(w) = n + k
      /\ \A j \in 1 .. n : w[j] = u[j]
      /\ \A j \in 1 .. k : w[n + j] = v[j]
  BY <1>1
<1> HIDE DEF w
<1>3. SubSeq(w, 1, n) = u
  <2> DEFINE t == SubSeq(w, 1, n)
  <2>1. t \in Seq(S) /\ Len(t) = n /\ \A j \in 1 .. n : t[j] = u[j]
    BY <1>2
  <2> HIDE DEF t
  <2>2. t = u
    BY <1>1, <2>1, SeqEqual
  <2> QED BY <2>2 DEF t
<1>4. SubSeq(w, n + 1, Len(w)) = v
  <2> DEFINE t == SubSeq(w, n + 1, n + k)
  <2>1. \A j \in n + 1 .. n + k : w[j] \in S
    BY <1>2
  <2>2. /\ t \in Seq(S) /\ Len(t) = IF n + 1 <= n + k THEN n + k - (n + 1) + 1 ELSE 0
        /\ \A j \in 1 .. n + k - (n + 1) + 1 : t[j] = w[n + 1 + j - 1]
    BY <2>1, SubSeqProperties
  <2> HIDE DEF t
  <2>3. Len(t) = k
    BY <2>2
  <2>4. \A j \in 1 .. k : t[j] = v[j]
    <3> SUFFICES ASSUME NEW j \in 1 .. k PROVE t[j] = v[j]
      OBVIOUS
    <3>1. j \in 1 .. n + k - (n + 1) + 1 /\ n + 1 + j - 1 = n + j
      OBVIOUS
    <3> QED BY <1>2, <2>2, <3>1
  <2>5. t = v
    BY <1>1, <2>2, <2>3, <2>4, SeqEqual
  <2> QED BY <1>2, <2>5 DEF t
<1>5. InsertAt(w, n + 1, x) = (u \o <<x>>) \o v
  <2>1. PICK p \in Nat : p = n + 1 /\ n = p - 1
    OBVIOUS
  <2>2. InsertAt(w, p, x) = (SubSeq(w, 1, n) \o <<x>>) \o SubSeq(w, p, Len(w))
    BY <2>1, Zenon DEF InsertAt
  <2>3. SubSeq(w, p, Len(w)) = v
    BY <1>4, <2>1
  <2>4. InsertAt(w, p, x) = (u \o <<x>>) \o v
    BY ONLY <1>3, <2>2, <2>3, Zenon
  <2> QED BY <2>1, <2>4
<1>6. n + 1 \in 1 .. Len(w) + 1
  BY <1>2
<1>7. ASSUME NEW y
      PROVE  (\E j \in n + 1 .. Len(w) : w[j] = y) <=> Holds(v, y)
  <2>1. ASSUME NEW j \in n + 1 .. Len(w), w[j] = y PROVE Holds(v, y)
    <3>1. j - n \in 1 .. k /\ n + (j - n) = j
      BY <1>2
    <3> QED BY <1>1, <1>2, <2>1, <3>1 DEF Holds
  <2>2. ASSUME NEW j \in 1 .. k, v[j] = y
        PROVE  \E i \in n + 1 .. Len(w) : w[i] = y
    <3>1. n + j \in n + 1 .. Len(w)
      BY <1>2
    <3> QED BY <1>2, <2>2, <3>1
  <2> QED BY <1>1, <2>1, <2>2 DEF Holds
<1> QED BY <1>1, <1>5, <1>6, <1>7 DEF w

LEMMA TakeBack ==
  ASSUME NEW S, NEW u \in Seq(S), NEW x \in S
  PROVE  /\ u \o <<x>> = Append(u, x) /\ u \o <<x>> # <<>>
         /\ Last(u \o <<x>>) = x /\ Front(u \o <<x>>) = u
<1> DEFINE w == Append(u, x)
<1>1. u \o <<x>> = w
  BY AppendIsConcat
<1>2. PICK n \in Nat : n = Len(u)
  OBVIOUS
<1>3. w \in Seq(S) /\ w # <<>> /\ Len(w) = n + 1 /\ w[n + 1] = x
      /\ \A j \in 1 .. n : w[j] = u[j]
  BY <1>2
<1> HIDE DEF w
<1>4. SubSeq(w, 1, n) = u
  <2> DEFINE t == SubSeq(w, 1, n)
  <2>1. t \in Seq(S) /\ Len(t) = n /\ \A j \in 1 .. n : t[j] = u[j]
    BY <1>3
  <2> HIDE DEF t
  <2>2. t = u
    BY <1>2, <2>1, SeqEqual
  <2> QED BY <2>2 DEF t
<1>5. Front(w) = u
  <2>1. Len(w) - 1 = n
    BY <1>3
  <2> QED BY <1>4, <2>1 DEF Front
<1>6. Last(w) = x
  BY <1>3 DEF Last
<1> QED BY <1>1, <1>3, <1>5, <1>6 DEF w

-----------------------------------------------------------------------------
(* Cells, for every map and cell size.                                     *)

\* NewManager builds at least one column and one row.
LEMMA CountsPositive == CntX \in Nat \ {0} /\ CntY \in Nat \ {0}
<1>1. ASSUME NEW d \in Nat \ {0}, NEW s \in Nat \ {0}
      PROVE  (d + s - 1) \div s \in Nat \ {0}
  <2>1. d + s - 1 >= s  OBVIOUS
  <2> QED BY <2>1
<1>2. MaxX - MinX \in Nat \ {0} /\ MaxY - MinY \in Nat \ {0}
  BY GridAssumption
<1> QED BY <1>1, <1>2, GridAssumption DEF CntX, CntY

\* The column and the row can be read back from a cell id.
LEMMA Decode ==
  ASSUME NEW n \in Nat \ {0}, NEW c \in 0 .. n-1, NEW r \in Nat
  PROVE  (r * n + c) % n = c /\ (r * n + c) \div n = r
OBVIOUS

\* clamp returns a value between its bounds, whatever it is given.
LEMMA ClampRange ==
  ASSUME NEW v \in Int, NEW n \in Nat \ {0}
  PROVE  Clamp(v, 0, n - 1) \in 0 .. n - 1
BY DEF Clamp

LEMMA GoDivInt ==
  ASSUME NEW a \in Int, NEW b \in Nat \ {0}
  PROVE  GoDiv(a, b) \in Int
BY DEF GoDiv

LEMMA ColRow ==
  ASSUME NEW pos \in Position
  PROVE  Col(pos[1]) \in 0 .. CntX - 1 /\ Row(pos[2]) \in 0 .. CntY - 1
<1>1. pos[1] - MinX \in Int /\ pos[2] - MinY \in Int
  BY GridAssumption DEF Position
<1> QED BY <1>1, GoDivInt, ClampRange, CountsPositive, GridAssumption DEF Col, Row

LEMMA CellOf ==
  ASSUME NEW r \in 0 .. CntY - 1, NEW c \in 0 .. CntX - 1
  PROVE  r * CntX + c \in Cell
<1>1. CntX \in Nat \ {0} /\ CntY \in Nat \ {0}  BY CountsPositive
<1>2. r * CntX <= (CntY - 1) * CntX  BY <1>1
<1>3. (CntY - 1) * CntX + CntX = CntX * CntY  BY <1>1
<1> QED BY <1>1, <1>2, <1>3 DEF Cell

LEMMA GridIDCell ==
  ASSUME NEW pos \in Position
  PROVE  GridID(pos) \in Cell
BY ColRow, CellOf DEF GridID

\* gridID and surroundCellIDs agree with the geometry: the nine cells around
\* a position are those of the positions that it sees, at the borders and
\* outside the map too.
THEOREM SurroundIsView ==
  ASSUME NEW a \in Position, NEW b \in Position
  PROVE  GridID(b) \in SurroundCellIDs(GridID(a)) <=> InView(a, b)
<1> DEFINE ca == Col(a[1])  ra == Row(a[2])
           cb == Col(b[1])  rb == Row(b[2])
<1>1. CntX \in Nat \ {0} /\ CntY \in Nat \ {0}  BY CountsPositive
<1>2. /\ ca \in 0 .. CntX - 1 /\ cb \in 0 .. CntX - 1
      /\ ra \in 0 .. CntY - 1 /\ rb \in 0 .. CntY - 1
  BY ColRow
<1>3. GridID(a) % CntX = ca /\ GridID(a) \div CntX = ra
  BY <1>1, <1>2, Decode DEF GridID
<1> HIDE DEF ca, ra, cb, rb
<1>4. SurroundCellIDs(GridID(a)) =
        { r * CntX + c : r \in (ra-1 .. ra+1) \cap (0 .. CntY-1),
                         c \in (ca-1 .. ca+1) \cap (0 .. CntX-1) }
  BY <1>3 DEF SurroundCellIDs
<1>5. GridID(b) = rb * CntX + cb
  BY DEF GridID, rb, cb
<1>6. InView(a, b) <=> ca - cb \in -1 .. 1 /\ ra - rb \in -1 .. 1
  BY DEF InView, ca, cb, ra, rb
<1>7. ASSUME InView(a, b)
      PROVE  GridID(b) \in SurroundCellIDs(GridID(a))
  <2>1. /\ rb \in (ra-1 .. ra+1) \cap (0 .. CntY-1)
        /\ cb \in (ca-1 .. ca+1) \cap (0 .. CntX-1)
    BY <1>1, <1>2, <1>6, <1>7
  <2> QED BY <1>4, <1>5, <2>1
<1>8. ASSUME GridID(b) \in SurroundCellIDs(GridID(a))
      PROVE  InView(a, b)
  <2>1. PICK r \in (ra-1 .. ra+1) \cap (0 .. CntY-1),
             c \in (ca-1 .. ca+1) \cap (0 .. CntX-1) :
               rb * CntX + cb = r * CntX + c
    BY <1>4, <1>5, <1>8
  <2>2. r \in Nat /\ rb \in Nat /\ c \in 0 .. CntX - 1
    BY <1>1, <1>2, <2>1
  <2>3. r = rb /\ c = cb
    BY <1>1, <1>2, <2>1, <2>2, Decode
  <2> QED BY <1>1, <1>2, <1>6, <2>1, <2>3
<1> QED BY <1>7, <1>8

\* Two players see each other or neither sees the other: handleJoin notifies
\* both without asking the index a second time.
THEOREM ViewSymmetric ==
  ASSUME NEW a \in Position, NEW b \in Position
  PROVE  InView(a, b) <=> InView(b, a)
BY ColRow, CountsPositive DEF InView

\* Positions of one cell see the same positions.
LEMMA SameCellSameView ==
  ASSUME NEW a \in Position, NEW b \in Position, NEW c \in Position,
         GridID(a) = GridID(b)
  PROVE  InView(a, c) <=> InView(b, c)
BY SurroundIsView

LEMMA SurroundCells ==
  ASSUME NEW g \in Cell
  PROVE  SurroundCellIDs(g) \subseteq Cell
BY CellOf DEF SurroundCellIDs

-----------------------------------------------------------------------------
(* Types.                                                                  *)

LEMMA SceneInitType == SceneInit => SceneTypeOK
BY SceneAssumption, GridAssumption DEF SceneInit, SceneTypeOK, EmptyIndex

LEMMA SceneSame ==
  ASSUME SceneTypeOK, UNCHANGED sceneVars
  PROVE  SceneTypeOK'
BY DEF SceneTypeOK, sceneVars

\* A send that finds room leaves the channel within its capacity.
LEMMA SendType ==
  ASSUME SceneTypeOK, NEW in \in Input, Send(in)
  PROVE  SceneTypeOK'
<1>1. inCh' \in Seq(Input) /\ Len(inCh') = Len(inCh) + 1
  BY DEF SceneTypeOK, Send
<1>2. Len(inCh') <= InCap
  BY <1>1, SceneAssumption DEF SceneTypeOK, Send
<1> QED BY <1>1, <1>2 DEF SceneTypeOK, Send, tickVars

LEMMA Inputs ==
  ASSUME NEW p \in Player
  PROVE  /\ [kind |-> "join", id |-> p, pos |-> Spawn] \in Input
         /\ [kind |-> "leave", id |-> p] \in Input
         /\ \A pos \in Pos : [kind |-> "move", id |-> p, pos |-> pos] \in Input
BY SceneAssumption DEF Input

LEMMA CallType ==
  ASSUME SceneTypeOK, NEW p \in Player,
         Join(p) \/ Leave(p) \/ \E pos \in Pos : Move(p, pos)
  PROVE  SceneTypeOK'
<1>1. CASE Join(p)   BY <1>1, Inputs, SendType DEF Join
<1>2. CASE Leave(p)  BY <1>2, Inputs, SendType DEF Leave
<1>3. ASSUME NEW pos \in Pos, Move(p, pos) PROVE SceneTypeOK'
  BY <1>3, Inputs, SendType DEF Move
<1> QED BY <1>1, <1>2, <1>3

LEMMA ToggleType ==
  ASSUME SceneTypeOK, NEW enabled \in AoiModes, SetAOIEnabled(enabled)
  PROVE  SceneTypeOK'
BY DEF SetAOIEnabled, SceneTypeOK, tickVars

LEMMA ApplyType ==
  ASSUME SceneTypeOK, NEW in \in Input, Apply(in)
  PROVE  /\ players' \in [Player -> Pos \cup {Nil}]
         /\ index' \in [Cell -> SUBSET Player]
<1> USE DEF SceneTypeOK
<1>1. CASE HandleJoin(in)
  BY <1>1, SceneAssumption DEF HandleJoin, EnterIndex, Input
<1>2. CASE HandleLeave(in)
  BY <1>2 DEF HandleLeave, LeaveIndex, Input
<1>3. CASE HandleMove(in)
  <2>1. in.pos \in Pos /\ in.id \in Player
    BY <1>3 DEF HandleMove, Input
  <2>2. index' \in [Cell -> SUBSET Player]
    BY <1>3, <2>1 DEF HandleMove, MoveIndex
  <2> QED BY <1>3, <2>1, <2>2 DEF HandleMove
<1>4. CASE IgnoreUnknown(in)
  BY <1>4 DEF IgnoreUnknown
<1> QED BY <1>1, <1>2, <1>3, <1>4 DEF Apply

LEMMA HeadInput ==
  ASSUME SceneTypeOK, inCh # <<>>
  PROVE  Head(inCh) \in Input /\ Tail(inCh) \in Seq(Input)
         /\ Len(Tail(inCh)) = Len(inCh) - 1
BY DEF SceneTypeOK

LEMMA DrainType ==
  ASSUME SceneTypeOK, DrainOne
  PROVE  SceneTypeOK'
<1>1. Head(inCh) \in Input /\ Tail(inCh) \in Seq(Input)
      /\ Len(Tail(inCh)) = Len(inCh) - 1
  BY HeadInput DEF DrainOne
<1>2. players' \in [Player -> Pos \cup {Nil}] /\ index' \in [Cell -> SUBSET Player]
  BY <1>1, ApplyType DEF DrainOne
<1>3. inCh' \in Seq(Input) /\ Len(inCh') <= InCap
  BY <1>1, SceneAssumption DEF DrainOne, SceneTypeOK
<1> QED BY <1>2, <1>3 DEF DrainOne, SceneTypeOK, tickVars

\* The other steps of a tick change neither the world nor the channel.
StillStep ==
  \/ TickStart \/ DrainDone \/ SyncDone \/ EndTick
  \/ \E id \in Player : SyncOne(id)

LEMMA StillType ==
  ASSUME SceneTypeOK, StillStep
  PROVE  SceneTypeOK' /\ UNCHANGED <<players, index, inCh, aoiEnabled>>
<1> USE DEF SceneTypeOK
<1>1. CASE TickStart   BY <1>1 DEF TickStart
<1>2. CASE DrainDone
  <2>1. (tickCount + 1) % TickPeriod \in 0 .. TickPeriod - 1
    BY SceneAssumption
  <2>2. Joined \in SUBSET Player
    BY DEF Joined
  <2> QED BY <1>2, <2>1, <2>2 DEF DrainDone
<1>3. CASE SyncDone    BY <1>3 DEF SyncDone
<1>4. CASE EndTick     BY <1>4 DEF EndTick
<1>5. ASSUME NEW id \in Player, SyncOne(id)
      PROVE  SceneTypeOK' /\ UNCHANGED <<players, index, inCh, aoiEnabled>>
  BY <1>5 DEF SyncOne
<1> QED BY <1>1, <1>2, <1>3, <1>4, <1>5 DEF StillStep

-----------------------------------------------------------------------------
(* Whom the notifier is called for, and about.                             *)

LEMMA AroundPlayers ==
  ASSUME NEW f \in [Cell -> SUBSET Player], NEW pos \in Position
  PROVE  PlayersAround(f, pos) \subseteq Player
<1>1. SurroundCellIDs(GridID(pos)) \subseteq Cell
  BY GridIDCell, SurroundCells
<1> QED BY <1>1 DEF PlayersAround

LEMMA NotifierPlayers ==
  ASSUME SceneTypeOK, NEW in \in Input
  PROVE  Appear(in) \cup Vanish(in) \subseteq Player \X Player
<1>1. /\ index \in [Cell -> SUBSET Player] /\ in.id \in Player
      /\ Joined \subseteq Player
  BY DEF SceneTypeOK, Input, Joined
<1>2. \A others \in SUBSET Player : BothWays(in.id, others) \subseteq Player \X Player
  BY <1>1 DEF BothWays
<1>3. ASSUME in.kind = "join"
      PROVE  Appear(in) \cup Vanish(in) \subseteq Player \X Player
  <2>1. { o \in EnterView(index, in.pos) : o \in Joined \cup {in.id} } \in SUBSET Player
    BY <1>1
  <2>2. JoinAppear(in) \subseteq Player \X Player
    BY <1>2, <2>1 DEF JoinAppear
  <2>3. Appear(in) = JoinAppear(in) /\ Vanish(in) = {}
    BY <1>3 DEF Appear, Vanish
  <2> QED BY <2>2, <2>3
<1>4. ASSUME in.id \in Joined
      PROVE  /\ players[in.id] \in Position
             /\ \A pos \in Position :
                  LeaveIndex(index, in.id, pos) \in [Cell -> SUBSET Player]
  BY <1>1, <1>4, SceneAssumption DEF Joined, SceneTypeOK, LeaveIndex
<1>5. ASSUME in.kind = "leave", in.id \in Joined
      PROVE  Appear(in) \cup Vanish(in) \subseteq Player \X Player
  <2>1. LeaveView(index, in.id, players[in.id]) \subseteq Player
    BY <1>4, <1>5, AroundPlayers DEF LeaveView
  <2>2. Appear(in) = {} /\ Vanish(in) = LeaveVanish(in)
    BY <1>5 DEF Appear, Vanish
  <2> QED BY <1>1, <2>1, <2>2 DEF LeaveVanish
<1>6. ASSUME in.kind = "move", in.id \in Joined
      PROVE  Appear(in) \cup Vanish(in) \subseteq Player \X Player
  <2>1. MoveEntered(index, in.id, players[in.id], in.pos) \cap Joined \in SUBSET Player
    BY <1>1
  <2>2. MoveLeft(index, in.id, players[in.id], in.pos) \in SUBSET Player
    <3>1. PlayersAround(index, players[in.id]) \subseteq Player
      BY <1>1, <1>4, <1>6, AroundPlayers
    <3> QED BY <3>1 DEF MoveLeft
  <2>3. MoveAppear(in) \subseteq Player \X Player /\ MoveVanish(in) \subseteq Player \X Player
    BY <1>2, <2>1, <2>2 DEF MoveAppear, MoveVanish
  <2>4. Appear(in) = MoveAppear(in) /\ Vanish(in) = MoveVanish(in)
    BY <1>6 DEF Appear, Vanish
  <2> QED BY <2>3, <2>4
<1>7. ASSUME in.kind \in {"leave", "move"}, in.id \notin Joined
      PROVE  Appear(in) = {} /\ Vanish(in) = {}
  BY <1>7 DEF Appear, Vanish
<1>8. in.kind \in {"join", "move", "leave"}
  BY DEF Input
<1> QED BY <1>3, <1>5, <1>6, <1>7, <1>8

-----------------------------------------------------------------------------
(* What an input does to the table.                                        *)

\* A handler changes the table at the input's player only.
LEMMA ApplyTable ==
  ASSUME SceneTypeOK, NEW in \in Input, Apply(in)
  PROVE  \A p \in Player \ {in.id} : players'[p] = players[p]
<1> USE DEF SceneTypeOK
<1>1. CASE HandleJoin(in)     BY <1>1 DEF HandleJoin
<1>2. CASE HandleLeave(in)    BY <1>2 DEF HandleLeave
<1>3. CASE HandleMove(in)     BY <1>3 DEF HandleMove
<1>4. CASE IgnoreUnknown(in)  BY <1>4 DEF IgnoreUnknown
<1> QED BY <1>1, <1>2, <1>3, <1>4 DEF Apply

\* Only a join makes a player appear in the table.
LEMMA ApplyAbsent ==
  ASSUME SceneTypeOK, NEW in \in Input, Apply(in), in.kind # "join"
  PROVE  \A p \in Player : players[p] = Nil => players'[p] = Nil
<1> USE DEF SceneTypeOK
<1>1. CASE HandleLeave(in)    BY <1>1 DEF HandleLeave, Input
<1>2. CASE HandleMove(in)     BY <1>2 DEF HandleMove
<1>3. CASE IgnoreUnknown(in)  BY <1>3 DEF IgnoreUnknown
<1> QED BY <1>1, <1>2, <1>3 DEF Apply, HandleJoin

\* What each kind of input makes of the set of players.
LEMMA ApplyJoined ==
  ASSUME SceneTypeOK, NEW in \in Input, Apply(in)
  PROVE  /\ in.id \in Player /\ in.kind \in {"join", "move", "leave"}
         /\ in.kind = "join"  => Joined' = Joined \cup {in.id}
         /\ in.kind = "leave" => Joined' = Joined \ {in.id}
         /\ in.kind = "move"  => Joined' = Joined
<1>1. in.id \in Player /\ in.kind \in {"join", "move", "leave"}
  BY DEF Input
<1>2. in.kind = "join" => in.pos \in Pos /\ in.pos # Nil
  BY SceneAssumption DEF Input
<1>3. in.kind = "move" => in.pos \in Pos /\ in.pos # Nil
  BY SceneAssumption DEF Input
<1>4. players \in [Player -> Pos \cup {Nil}]
  BY DEF SceneTypeOK
<1>5. CASE HandleJoin(in)     BY <1>1, <1>2, <1>4, <1>5 DEF HandleJoin, Joined
<1>6. CASE HandleLeave(in)    BY <1>1, <1>4, <1>6 DEF HandleLeave, Joined
<1>7. CASE HandleMove(in)     BY <1>1, <1>3, <1>4, <1>7 DEF HandleMove, Joined
<1>8. CASE IgnoreUnknown(in)  BY <1>1, <1>4, <1>8 DEF IgnoreUnknown, Joined
<1> QED BY <1>1, <1>5, <1>6, <1>7, <1>8 DEF Apply

\* Those who are said to appear are in the table when it is said.
LEMMA AppearInTable ==
  ASSUME SceneTypeOK, NEW in \in Input, Apply(in), NEW o, NEW q \in Player,
         <<o, q>> \in Appear(in)
  PROVE  players'[q] \in Pos
<1>1. /\ in.id \in Player /\ in.kind \in {"join", "move", "leave"}
      /\ players' \in [Player -> Pos \cup {Nil}]
  BY ApplyJoined, ApplyType
<1>2. q \in Joined' => players'[q] \in Pos
  BY <1>1 DEF Joined
<1>3. CASE in.kind = "join"
  <2>1. q \in Joined \cup {in.id}
    BY <1>3 DEF Appear, JoinAppear, BothWays
  <2> QED BY <1>2, <1>3, <2>1, ApplyJoined
<1>4. CASE in.kind = "move" /\ in.id \in Joined
  <2>1. <<o, q>> \in MoveAppear(in)
    BY <1>4 DEF Appear
  <2>2. q \in Joined
    BY <1>4, <2>1 DEF MoveAppear, BothWays
  <2>3. Joined' = Joined
    BY <1>4, ApplyJoined
  <2> QED BY <1>2, <2>2, <2>3
<1>5. CASE in.kind = "leave" \/ (in.kind = "move" /\ in.id \notin Joined)
  BY <1>5 DEF Appear
<1> QED BY <1>1, <1>3, <1>4, <1>5

-----------------------------------------------------------------------------
(* The index and the operations of the manager, on any table.              *)

Places == [Player -> Pos \cup {Nil}]

\* f indexes exactly the players of the table at, each in its cell.
Indexes(f, at) ==
  /\ f \in [Cell -> SUBSET Player]
  /\ \A g \in Cell, p \in Player :
       p \in f[g] <=> at[p] # Nil /\ GridID(at[p]) = g

\* f indexes the players of the table at, each in its cell, and beyond that
\* only players of S.
IndexesBut(f, at, S) ==
  /\ f \in [Cell -> SUBSET Player]
  /\ \A g \in Cell, p \in Player :
       /\ at[p] # Nil /\ GridID(at[p]) = g => p \in f[g]
       /\ p \in f[g] => (at[p] # Nil /\ GridID(at[p]) = g) \/ p \in S

LEMMA IndexesAll ==
  ASSUME NEW f, NEW at, Indexes(f, at)
  PROVE  IndexesBut(f, at, {})
BY DEF Indexes, IndexesBut

LEMMA Positions ==
  ASSUME NEW at \in Places, NEW p \in Player, at[p] # Nil
  PROVE  at[p] \in Pos /\ at[p] \in Position /\ GridID(at[p]) \in Cell
BY SceneAssumption, GridIDCell DEF Places

\* playersAround finds the players that pos sees, and beyond that only some of S.
LEMMA AroundBut ==
  ASSUME NEW f, NEW at \in Places, NEW S, IndexesBut(f, at, S), NEW pos \in Position,
         NEW q \in Player
  PROVE  /\ at[q] # Nil /\ InView(pos, at[q]) => q \in PlayersAround(f, pos)
         /\ q \in PlayersAround(f, pos) \ S => at[q] # Nil /\ InView(pos, at[q])
<1>1. SurroundCellIDs(GridID(pos)) \subseteq Cell
  BY GridIDCell, SurroundCells
<1>2. ASSUME q \in PlayersAround(f, pos) \ S
      PROVE  at[q] # Nil /\ InView(pos, at[q])
  <2>1. PICK g \in SurroundCellIDs(GridID(pos)) : q \in f[g]
    BY <1>2 DEF PlayersAround
  <2>2. at[q] # Nil /\ GridID(at[q]) = g
    BY <1>1, <1>2, <2>1 DEF IndexesBut
  <2> QED BY <2>1, <2>2, Positions, SurroundIsView
<1>3. ASSUME at[q] # Nil, InView(pos, at[q])
      PROVE  q \in PlayersAround(f, pos)
  <2>1. at[q] \in Position /\ GridID(at[q]) \in Cell
    BY <1>3, Positions
  <2>2. GridID(at[q]) \in SurroundCellIDs(GridID(pos))
    BY <1>3, <2>1, SurroundIsView
  <2>3. q \in f[GridID(at[q])]
    BY <1>3, <2>1 DEF IndexesBut
  <2> QED BY <2>2, <2>3 DEF PlayersAround
<1> QED BY <1>2, <1>3

\* A player that is in the table already becomes one of S.
LEMMA EnterIndexesBut ==
  ASSUME NEW f, NEW at \in Places, NEW S, IndexesBut(f, at, S),
         NEW p \in Player, NEW pos \in Pos, NEW T, S \subseteq T,
         at[p] # Nil => p \in T
  PROVE  IndexesBut(EnterIndex(f, p, pos), [at EXCEPT ![p] = pos], T)
<1>1. pos # Nil /\ GridID(pos) \in Cell
  BY SceneAssumption, GridIDCell
<1> QED BY <1>1 DEF IndexesBut, EnterIndex, Places

LEMMA LeaveIndexesBut ==
  ASSUME NEW f, NEW at \in Places, NEW S, IndexesBut(f, at, S),
         NEW p \in Player, at[p] # Nil
  PROVE  IndexesBut(LeaveIndex(f, p, at[p]), [at EXCEPT ![p] = Nil], S)
<1>1. GridID(at[p]) \in Cell
  BY Positions
<1> QED BY <1>1 DEF IndexesBut, LeaveIndex, Places

LEMMA MoveIndexesBut ==
  ASSUME NEW f, NEW at \in Places, NEW S, IndexesBut(f, at, S),
         NEW p \in Player, at[p] # Nil, NEW pos \in Pos
  PROVE  IndexesBut(MoveIndex(f, p, at[p], pos), [at EXCEPT ![p] = pos], S)
<1>1. pos # Nil /\ GridID(pos) \in Cell /\ GridID(at[p]) \in Cell
  BY SceneAssumption, GridIDCell, Positions
<1>2. CASE GridID(at[p]) = GridID(pos)
  BY <1>1, <1>2 DEF IndexesBut, MoveIndex, Places
<1>3. CASE GridID(at[p]) # GridID(pos)
  BY <1>1, <1>3 DEF IndexesBut, MoveIndex, Places
<1> QED BY <1>2, <1>3

LEMMA EnterIndexes ==
  ASSUME NEW f, NEW at \in Places, Indexes(f, at),
         NEW p \in Player, NEW pos \in Pos, at[p] = Nil
  PROVE  Indexes(EnterIndex(f, p, pos), [at EXCEPT ![p] = pos])
<1>1. pos # Nil /\ GridID(pos) \in Cell
  BY SceneAssumption, GridIDCell
<1> QED BY <1>1 DEF Indexes, EnterIndex, Places

LEMMA LeaveIndexes ==
  ASSUME NEW f, NEW at \in Places, Indexes(f, at),
         NEW p \in Player, at[p] # Nil
  PROVE  Indexes(LeaveIndex(f, p, at[p]), [at EXCEPT ![p] = Nil])
<1>1. GridID(at[p]) \in Cell
  BY Positions
<1> QED BY <1>1 DEF Indexes, LeaveIndex, Places

LEMMA MoveIndexes ==
  ASSUME NEW f, NEW at \in Places, Indexes(f, at),
         NEW p \in Player, at[p] # Nil, NEW pos \in Pos
  PROVE  Indexes(MoveIndex(f, p, at[p], pos), [at EXCEPT ![p] = pos])
<1>1. pos # Nil /\ GridID(pos) \in Cell /\ GridID(at[p]) \in Cell
  BY SceneAssumption, GridIDCell, Positions
<1>2. CASE GridID(at[p]) = GridID(pos)
  BY <1>1, <1>2 DEF Indexes, MoveIndex, Places
<1>3. CASE GridID(at[p]) # GridID(pos)
  BY <1>1, <1>3 DEF Indexes, MoveIndex, Places
<1> QED BY <1>2, <1>3

-----------------------------------------------------------------------------
(* Joins that are sent once, and snapshots for players of the table.        *)

\* A Join is only on its way for a player that is not in the scene, and only
\* once.  Without it a second Join would enter the player in a second cell.
JoinOnce ==
  \A i \in DOMAIN inCh : inCh[i].kind = "join" =>
    /\ players[inCh[i].id] = Nil
    /\ \A j \in DOMAIN inCh :
         inCh[j].kind = "join" /\ inCh[j].id = inCh[i].id => j = i

\* The snapshots of a broadcast go to players of the table: no input is
\* applied while it lasts.
TodoJoined == pc = "aoi" => todo \subseteq Joined

\* What the head of the channel is when a Join is only queued once.
LEMMA HeadFresh ==
  ASSUME SceneTypeOK, JoinOnce, inCh # <<>>, Head(inCh).kind = "join"
  PROVE  players[Head(inCh).id] = Nil
<1>1. 1 \in DOMAIN inCh /\ inCh[1] = Head(inCh)
  BY DEF SceneTypeOK
<1> QED BY <1>1 DEF JoinOnce

\* Each handler's calls to the manager keep the index in step with the table.
LEMMA DrainIndex ==
  ASSUME SceneTypeOK, Indexes(index, players), JoinOnce, DrainOne
  PROVE  Indexes(index', players')
<1> DEFINE in == Head(inCh)
<1>1. in \in Input /\ inCh # <<>> /\ Apply(in) /\ players \in Places
  BY HeadInput DEF DrainOne, SceneTypeOK, Places
<1>2. in.kind = "join" => players[in.id] = Nil
  BY <1>1, HeadFresh
<1> HIDE DEF in
<1>3. CASE HandleJoin(in)
  <2>1. in.id \in Player /\ in.pos \in Pos
    BY <1>1, <1>3, SceneAssumption DEF HandleJoin, Input
  <2> QED BY <1>1, <1>2, <1>3, <2>1, EnterIndexes DEF HandleJoin
<1>4. CASE HandleLeave(in)
  <2>1. in.id \in Player
    BY <1>1 DEF Input
  <2> QED BY <1>1, <1>4, <2>1, LeaveIndexes DEF HandleLeave
<1>5. CASE HandleMove(in)
  <2>1. in.id \in Player /\ in.pos \in Pos
    BY <1>1, <1>5 DEF HandleMove, Input
  <2> QED BY <1>1, <1>5, <2>1, MoveIndexes DEF HandleMove
<1>6. CASE IgnoreUnknown(in)
  BY <1>6 DEF IgnoreUnknown
<1> QED BY <1>1, <1>3, <1>4, <1>5, <1>6 DEF Apply

LEMMA DrainJoinOnce ==
  ASSUME SceneTypeOK, JoinOnce, DrainOne
  PROVE  JoinOnce'
<1> DEFINE in == Head(inCh)
<1>1. in \in Input /\ inCh # <<>> /\ Apply(in) /\ inCh' = Tail(inCh)
  BY HeadInput DEF DrainOne
<1>2. inCh \in Seq(Input) /\ in = inCh[1] /\ 1 \in DOMAIN inCh
  BY <1>1 DEF SceneTypeOK
<1> HIDE DEF in
<1>3. \A i \in DOMAIN inCh' : i + 1 \in DOMAIN inCh /\ i + 1 # 1
                              /\ i \in Nat /\ inCh'[i] = inCh[i + 1]
  BY <1>1, <1>2
<1>4. ASSUME NEW i \in DOMAIN inCh', inCh'[i].kind = "join"
      PROVE  players'[inCh'[i].id] = Nil
  <2> DEFINE q == inCh'[i].id
  <2>1. inCh'[i] = inCh[i + 1] /\ i + 1 \in DOMAIN inCh /\ i + 1 # 1
    BY <1>3
  <2>2. players[q] = Nil /\ q \in Player
    BY <1>2, <1>4, <2>1 DEF JoinOnce, Input
  <2>3. CASE in.kind = "join"
    <3>1. q # in.id
      BY <1>2, <1>4, <2>1, <2>3 DEF JoinOnce
    <3> QED BY <1>1, <2>2, <3>1, ApplyTable
  <2>4. CASE in.kind # "join"
    BY <1>1, <2>2, <2>4, ApplyAbsent
  <2> QED BY <2>3, <2>4
<1>5. ASSUME NEW i \in DOMAIN inCh', NEW j \in DOMAIN inCh',
             inCh'[i].kind = "join", inCh'[j].kind = "join",
             inCh'[j].id = inCh'[i].id
      PROVE  j = i
  BY <1>3, <1>5 DEF JoinOnce
<1> QED BY <1>4, <1>5 DEF JoinOnce

LEMMA SendJoinOnce ==
  ASSUME SceneTypeOK, JoinOnce, NEW in \in Input, Send(in),
         in.kind = "join" =>
           /\ players[in.id] = Nil
           /\ \A i \in DOMAIN inCh : inCh[i].kind = "join" => inCh[i].id # in.id
  PROVE  JoinOnce'
<1>1. inCh \in Seq(Input) /\ inCh' = Append(inCh, in) /\ players' = players
  BY DEF SceneTypeOK, Send
<1>2. \A i \in DOMAIN inCh' : \/ i \in DOMAIN inCh /\ inCh'[i] = inCh[i]
                              \/ i = Len(inCh) + 1 /\ inCh'[i] = in
  BY <1>1
<1>3. ASSUME NEW i \in DOMAIN inCh', inCh'[i].kind = "join"
      PROVE  players'[inCh'[i].id] = Nil
  BY <1>1, <1>2, <1>3 DEF JoinOnce
<1>4. ASSUME NEW i \in DOMAIN inCh', NEW j \in DOMAIN inCh',
             inCh'[i].kind = "join", inCh'[j].kind = "join",
             inCh'[j].id = inCh'[i].id
      PROVE  j = i
  <2>1. CASE i \in DOMAIN inCh /\ j \in DOMAIN inCh
    BY <1>1, <1>2, <1>4, <2>1 DEF JoinOnce
  <2>2. CASE i \notin DOMAIN inCh
    BY <1>2, <1>4, <2>2
  <2>3. CASE j \notin DOMAIN inCh
    BY <1>2, <1>4, <2>3
  <2> QED BY <2>1, <2>2, <2>3
<1> QED BY <1>3, <1>4 DEF JoinOnce

-----------------------------------------------------------------------------
(* What the two lists of a call to the manager hold.                       *)

LEMMA JoinTells ==
  ASSUME SceneTypeOK, NEW S, IndexesBut(index, players, S), NEW pos \in Pos,
         NEW q \in Player \ S
  PROVE  q \in EnterView(index, pos) <=> q \in Joined /\ InView(pos, players[q])
<1>1. players \in Places /\ pos \in Position
  BY SceneAssumption DEF SceneTypeOK, Places
<1> QED BY <1>1, AroundBut DEF EnterView, Joined

LEMMA LeaveTells ==
  ASSUME SceneTypeOK, NEW S, IndexesBut(index, players, S), NEW p \in Joined,
         NEW q \in Player \ S
  PROVE  q \in LeaveView(index, p, players[p])
           <=> q \in Joined \ {p} /\ InView(players[p], players[q])
<1> DEFINE at == [players EXCEPT ![p] = Nil]
<1>1. p \in Player /\ players[p] # Nil /\ players \in Places
  BY DEF Joined, SceneTypeOK, Places
<1>2. at \in Places /\ players[p] \in Position
  BY <1>1, Positions DEF Places
<1>3. IndexesBut(LeaveIndex(index, p, players[p]), at, S)
  BY <1>1, LeaveIndexesBut
<1>4. q \in PlayersAround(LeaveIndex(index, p, players[p]), players[p])
        <=> at[q] # Nil /\ InView(players[p], at[q])
  <2> HIDE DEF at
  <2> QED BY <1>2, <1>3, AroundBut
<1>5. at[p] = Nil /\ (q # p => at[q] = players[q])
  BY <1>1 DEF Places
<1> QED BY <1>4, <1>5 DEF LeaveView, Joined

\* The two lists that Move returns, from positions alone.
LEMMA MoveTells ==
  ASSUME SceneTypeOK, NEW S, IndexesBut(index, players, S), NEW p \in Joined,
         NEW pos \in Pos, NEW q \in Player \ S
  PROVE  /\ q \in MoveEntered(index, p, players[p], pos)
              <=> q \in Joined \ {p} /\ InView(pos, players[q])
                                     /\ ~InView(players[p], players[q])
         /\ q \in MoveLeft(index, p, players[p], pos)
              <=> q \in Joined \ {p} /\ InView(players[p], players[q])
                                     /\ ~InView(pos, players[q])
<1> DEFINE at == [players EXCEPT ![p] = pos]
           old == players[p]
<1>0. players \in Places
  BY DEF SceneTypeOK, Places
<1>1. /\ p \in Player /\ old # Nil /\ players \in Places
      /\ old \in Position /\ pos \in Position
  BY <1>0, Positions, SceneAssumption DEF Joined
<1>2. CASE GridID(old) = GridID(pos)
  <2>1. q \in Joined => (InView(pos, players[q]) <=> InView(old, players[q]))
    BY <1>1, <1>2, Positions, SameCellSameView DEF Joined
  <2> QED BY <1>2, <2>1 DEF MoveEntered, MoveLeft
<1>3. CASE GridID(old) # GridID(pos)
  <2>1. at \in Places
    BY <1>1 DEF Places
  <2>2. IndexesBut(MoveIndex(index, p, old, pos), at, S)
    BY <1>1, MoveIndexesBut
  <2>3. q # p => at[q] = players[q]
    BY <1>1 DEF Places
  <2> HIDE DEF at, old
  <2>4. q \in PlayersAround(MoveIndex(index, p, old, pos), pos)
          <=> at[q] # Nil /\ InView(pos, at[q])
    BY <1>1, <2>1, <2>2, AroundBut
  <2>5. q \in PlayersAround(index, old)
          <=> players[q] # Nil /\ InView(old, players[q])
    BY <1>1, AroundBut
  <2>6. /\ q \in MoveEntered(index, p, old, pos)
             <=> /\ q # p /\ q \in PlayersAround(MoveIndex(index, p, old, pos), pos)
                 /\ q \notin PlayersAround(index, old)
        /\ q \in MoveLeft(index, p, old, pos)
             <=> /\ q # p /\ q \in PlayersAround(index, old)
                 /\ q \notin PlayersAround(MoveIndex(index, p, old, pos), pos)
    BY <1>3 DEF MoveEntered, MoveLeft
  <2> QED BY <2>3, <2>4, <2>5, <2>6 DEF old, Joined
<1> QED BY <1>2, <1>3

-----------------------------------------------------------------------------
(***************************************************************************)
(* The notifications are exactly the changes of sight.  When an input is   *)
(* applied, a player that stays or arrives in the scene is told of those   *)
(* who come into its sight and of those who go out of it, and of nobody    *)
(* else; all this as far as the players outside S are concerned, and those *)
(* of S are the only ones that the index holds in a wrong cell.            *)
(***************************************************************************)

\* o and q are in the scene and o sees q.
Sees(o, q) == o \in Joined /\ q \in Joined \ {o} /\ InView(players[o], players[q])

TellsChange(o, q, in) ==
  /\ <<o, q>> \in Appear(in) <=> Sees(o, q)' /\ ~Sees(o, q)
  /\ <<o, q>> \in Vanish(in) <=> Sees(o, q) /\ ~Sees(o, q)'

\* What Sees says, spelled out for the proofs below.
LEMMA SeesSpelled ==
  ASSUME NEW o \in Player, NEW q \in Player
  PROVE  /\ Sees(o, q) <=> /\ o \in Joined /\ q \in Joined /\ q # o
                           /\ InView(players[o], players[q])
         /\ Sees(o, q)' <=> /\ o \in Joined' /\ q \in Joined' /\ q # o
                            /\ InView(players'[o], players'[q])
BY DEF Sees, Joined

\* Two players that are not the input's own keep their places.
LEMMA OthersSame ==
  ASSUME SceneTypeOK, NEW in \in Input, Apply(in),
         NEW o \in Player \ {in.id}, NEW q \in Player \ {in.id}
  PROVE  TellsChange(o, q, in)
<1>1. in.id \in Player /\ players \in [Player -> Pos \cup {Nil}]
  BY DEF Input, SceneTypeOK
<1>2. players'[o] = players[o] /\ players'[q] = players[q]
  BY <1>1 DEF Apply, HandleJoin, HandleLeave, HandleMove, IgnoreUnknown
<1>3. Sees(o, q)' <=> Sees(o, q)
  BY <1>2 DEF Sees, Joined
<1>4. <<o, q>> \notin Appear(in) /\ <<o, q>> \notin Vanish(in)
  BY DEF Appear, Vanish, JoinAppear, MoveAppear, LeaveVanish, MoveVanish, BothWays
<1> QED BY <1>3, <1>4 DEF TellsChange

LEMMA JoinChange ==
  ASSUME SceneTypeOK, NEW S, IndexesBut(index, players, S),
         NEW in \in Input, HandleJoin(in), players[in.id] = Nil,
         NEW o \in Player \ S, NEW q \in Player \ S, in.id \in {o, q}
  PROVE  TellsChange(o, q, in)
<1> DEFINE p == in.id
           near(r) == r \in Joined /\ InView(in.pos, players[r])
<1>1. /\ in.kind = "join" /\ p \in Player /\ in.pos \in Pos /\ in.pos \in Position
      /\ in.pos # Nil /\ players \in Places
  BY SceneAssumption DEF HandleJoin, Input, SceneTypeOK, Places
<1>2. /\ o \in EnterView(index, in.pos) <=> near(o)
      /\ q \in EnterView(index, in.pos) <=> near(q)
  BY <1>1, JoinTells
<1>3. Joined' = Joined \cup {p} /\ p \notin Joined
      /\ players'[p] = in.pos /\ \A r \in Player \ {p} : players'[r] = players[r]
  BY <1>1 DEF HandleJoin, Joined, Places
<1>4. \A r \in Joined : InView(in.pos, players[r]) <=> InView(players[r], in.pos)
  BY <1>1, Positions, ViewSymmetric DEF Joined
<1>5. /\ <<o, q>> \in Appear(in) <=> (o = p /\ near(q)) \/ (q = p /\ near(o))
      /\ Vanish(in) = {}
  BY <1>1, <1>2 DEF Appear, Vanish, JoinAppear, BothWays
<1> HIDE DEF p
<1>6. CASE o = p
  BY <1>3, <1>5, <1>6, SeesSpelled DEF TellsChange
<1>7. CASE o # p /\ q = p
  BY <1>3, <1>4, <1>5, <1>7, SeesSpelled DEF TellsChange
<1> QED BY <1>6, <1>7 DEF p

LEMMA LeaveChange ==
  ASSUME SceneTypeOK, NEW S, IndexesBut(index, players, S),
         NEW in \in Input, HandleLeave(in),
         NEW o \in Player \ (S \cup {in.id})
  PROVE  TellsChange(o, in.id, in)
<1> DEFINE p == in.id
<1>1. in.kind = "leave" /\ p \in Player /\ p \in Joined /\ players \in Places
  BY DEF HandleLeave, Input, Joined, SceneTypeOK, Places
<1>2. o \in LeaveView(index, p, players[p])
        <=> o \in Joined \ {p} /\ InView(players[p], players[o])
  BY <1>1, LeaveTells
<1>3. Joined' = Joined \ {p} /\ \A r \in Player \ {p} : players'[r] = players[r]
  BY <1>1 DEF HandleLeave, Joined, Places
<1>4. o \in Joined => (InView(players[p], players[o]) <=> InView(players[o], players[p]))
  BY <1>1, Positions, ViewSymmetric DEF Joined
<1>5. /\ Appear(in) = {}
      /\ <<o, p>> \in Vanish(in) <=> o \in LeaveView(index, p, players[p])
  BY <1>1 DEF Appear, Vanish, LeaveVanish
<1> HIDE DEF p
<1>6. TellsChange(o, p, in)
  BY <1>1, <1>2, <1>3, <1>4, <1>5, SeesSpelled DEF TellsChange
<1> QED BY <1>6 DEF p

LEMMA MoveChange ==
  ASSUME SceneTypeOK, NEW S, IndexesBut(index, players, S),
         NEW in \in Input, HandleMove(in),
         NEW o \in Player \ S, NEW q \in Player \ S, in.id \in {o, q}
  PROVE  TellsChange(o, q, in)
<1> DEFINE p == in.id
           old == players[p]
           new == in.pos
           entered(r) == /\ r \in Joined \ {p} /\ InView(new, players[r])
                         /\ ~InView(old, players[r])
           left(r) == /\ r \in Joined \ {p} /\ InView(old, players[r])
                      /\ ~InView(new, players[r])
<1>1. /\ in.kind = "move" /\ p \in Player /\ p \in Joined /\ players \in Places
      /\ new \in Pos /\ new \in Position /\ new # Nil
  BY SceneAssumption DEF HandleMove, Input, Joined, SceneTypeOK, Places
<1>2. \A r \in {o, q} :
        /\ r \in MoveEntered(index, p, old, new) \cap Joined <=> entered(r)
        /\ r \in MoveLeft(index, p, old, new) <=> left(r)
  <2>1. \A r \in Player \ S :
          /\ r \in MoveEntered(index, p, old, new) <=> entered(r)
          /\ r \in MoveLeft(index, p, old, new) <=> left(r)
    BY <1>1, MoveTells
  <2> QED BY <2>1
<1>3. /\ Joined' = Joined
      /\ players'[p] = new /\ \A r \in Player \ {p} : players'[r] = players[r]
  BY <1>1 DEF HandleMove, Joined, Places
<1>4. \A r \in Joined : /\ InView(old, players[r]) <=> InView(players[r], old)
                        /\ InView(new, players[r]) <=> InView(players[r], new)
  BY <1>1, Positions, ViewSymmetric DEF Joined
<1>5. /\ <<o, q>> \in Appear(in) <=> (o = p /\ entered(q)) \/ (q = p /\ entered(o))
      /\ <<o, q>> \in Vanish(in) <=> (o = p /\ left(q)) \/ (q = p /\ left(o))
  BY <1>1, <1>2 DEF Appear, Vanish, MoveAppear, MoveVanish, BothWays
<1> HIDE DEF p, new
<1>6. CASE o = p
  BY <1>1, <1>3, <1>5, <1>6, SeesSpelled DEF TellsChange
<1>7. CASE o # p /\ q = p
  BY <1>1, <1>3, <1>4, <1>5, <1>7, SeesSpelled DEF TellsChange
<1> QED BY <1>6, <1>7 DEF p

\* It is so for every input but a player's own leave, of which nobody tells it,
\* and a join of a player that is in the table, which has to be counted in S.
LEMMA DrainChangeBut ==
  ASSUME SceneTypeOK, NEW S, IndexesBut(index, players, S),
         NEW in \in Input, Apply(in),
         NEW o \in Player \ S, NEW q \in Player \ S,
         ~ (in.kind = "leave" /\ in.id = o),
         in.kind = "join" /\ in.id \in {o, q} => players[in.id] = Nil
  PROVE  TellsChange(o, q, in)
<1>1. CASE in.id \notin {o, q}
  BY <1>1, OthersSame
<1>2. CASE in.id \in {o, q} /\ HandleJoin(in)
  BY <1>2, JoinChange DEF HandleJoin
<1>3. CASE in.id \in {o, q} /\ HandleLeave(in)
  <2>1. in.id = q /\ o # q
    BY <1>3 DEF HandleLeave
  <2> QED BY <1>3, <2>1, LeaveChange
<1>4. CASE in.id \in {o, q} /\ HandleMove(in)
  BY <1>4, MoveChange
<1>5. CASE IgnoreUnknown(in)
  <2>1. Appear(in) = {} /\ Vanish(in) = {}
    BY <1>5 DEF IgnoreUnknown, Appear, Vanish, Joined
  <2>2. Sees(o, q)' <=> Sees(o, q)
    BY <1>5 DEF IgnoreUnknown, Sees, Joined
  <2> QED BY <2>1, <2>2 DEF TellsChange
<1> QED BY <1>1, <1>2, <1>3, <1>4, <1>5 DEF Apply

LEMMA DrainChange ==
  ASSUME SceneTypeOK, Indexes(index, players), JoinOnce, DrainOne,
         NEW in \in Input, in = Head(inCh),
         NEW o \in Player, ~ (in.kind = "leave" /\ in.id = o), NEW q \in Player
  PROVE  TellsChange(o, q, in)
<1>1. inCh # <<>> /\ Apply(in) /\ IndexesBut(index, players, {})
  BY IndexesAll DEF DrainOne
<1>2. in.kind = "join" => players[in.id] = Nil
  BY <1>1, HeadFresh
<1> QED BY <1>1, <1>2, DrainChangeBut

\* A snapshot holds whom the player sees, whatever S is, ...
LEMMA SnapshotHolds ==
  ASSUME SceneTypeOK, NEW S, IndexesBut(index, players, S), NEW id \in Joined,
         NEW q \in Player, Sees(id, q)
  PROVE  q \in Snapshot(id)
<1>1. id \in Player /\ players[id] # Nil /\ players \in Places
  BY DEF Joined, SceneTypeOK, Places
<1>2. players[id] \in Position
  BY <1>1, Positions
<1> QED BY <1>1, <1>2, AroundBut DEF Snapshot, Sees, Joined

\* ... and others only while AOI is off, when the index is exact.
LEMMA SnapshotSees ==
  ASSUME SceneTypeOK, Indexes(index, players), NEW id \in Joined
  PROVE  /\ Snapshot(id) \subseteq Joined
         /\ \A q \in Player : Sees(id, q) => q \in Snapshot(id)
         /\ aoiEnabled => \A q \in Player : q \in Snapshot(id) <=> Sees(id, q)
<1>1. id \in Player /\ players[id] # Nil /\ players \in Places
  BY DEF Joined, SceneTypeOK, Places
<1>2. players[id] \in Position /\ IndexesBut(index, players, {})
  BY <1>1, Positions, IndexesAll
<1>3. \A q \in Player : q \in PlayersAround(index, players[id])
                          <=> players[q] # Nil /\ InView(players[id], players[q])
  BY <1>1, <1>2, AroundBut
<1> QED BY <1>1, <1>2, <1>3, SnapshotHolds DEF Snapshot, Sees, Joined

-----------------------------------------------------------------------------
(* A player that the scene has not heard of.                               *)

\* It is neither in the table nor in the index, nor is it to get a snapshot, and
\* no input is about it.
Absent(p) ==
  /\ p \notin Joined \cup todo
  /\ \A g \in Cell : p \notin index[g]
  /\ \A i \in DOMAIN inCh : inCh[i].id # p

LEMMA AroundAbsent ==
  ASSUME NEW f, NEW p, \A g \in Cell : p \notin f[g], NEW pos \in Position
  PROVE  p \notin PlayersAround(f, pos)
<1>1. SurroundCellIDs(GridID(pos)) \subseteq Cell
  BY GridIDCell, SurroundCells
<1> QED BY <1>1 DEF PlayersAround

\* Nobody is told anything on its account: it is no observer.
LEMMA AbsentNotTold ==
  ASSUME SceneTypeOK, NEW p \in Player, Absent(p), NEW in \in Input, in.id # p
  PROVE  \A q : <<p, q>> \notin Appear(in) \cup Vanish(in)
<1>1. in.kind \in {"join", "move", "leave"} /\ p \notin Joined /\ in.id \in Player
  BY DEF Input, Absent
<1>2. ASSUME in.id \in Joined
      PROVE  /\ players[in.id] \in Position
             /\ p \notin PlayersAround(index, players[in.id])
             /\ p \notin LeaveView(index, in.id, players[in.id])
  <2>1. players[in.id] \in Position
    BY <1>1, <1>2, SceneAssumption DEF Joined, SceneTypeOK
  <2>2. \A g \in Cell : p \notin LeaveIndex(index, in.id, players[in.id])[g]
    BY <2>1, GridIDCell DEF LeaveIndex, Absent, SceneTypeOK
  <2> QED BY <2>1, <2>2, AroundAbsent DEF LeaveView, Absent
<1>3. CASE in.kind = "join"
  <2>1. \A q : <<p, q>> \notin JoinAppear(in)
    BY <1>1 DEF JoinAppear, BothWays
  <2> QED BY <1>3, <2>1 DEF Appear, Vanish
<1>4. CASE in.kind = "leave" /\ in.id \in Joined
  <2>1. \A q : <<p, q>> \notin LeaveVanish(in)
    BY <1>2, <1>4 DEF LeaveVanish
  <2> QED BY <1>4, <2>1 DEF Appear, Vanish
<1>5. CASE in.kind = "move" /\ in.id \in Joined
  <2>1. p \notin MoveLeft(index, in.id, players[in.id], in.pos)
    BY <1>2, <1>5 DEF MoveLeft
  <2>2. \A q : <<p, q>> \notin MoveAppear(in)
    BY <1>1 DEF MoveAppear, BothWays
  <2>3. \A q : <<p, q>> \notin MoveVanish(in)
    BY <2>1 DEF MoveVanish, BothWays
  <2> QED BY <1>5, <2>2, <2>3 DEF Appear, Vanish
<1>6. CASE in.kind \in {"leave", "move"} /\ in.id \notin Joined
  BY <1>6 DEF Appear, Vanish
<1> QED BY <1>1, <1>3, <1>4, <1>5, <1>6

\* It stays so as long as the inputs that are sent are about others.
LEMMA AbsentAfterSend ==
  ASSUME SceneTypeOK, NEW p \in Player, Absent(p), NEW in \in Input, in.id # p,
         Send(in)
  PROVE  Absent(p)'
<1>1. /\ inCh \in Seq(Input) /\ inCh' = Append(inCh, in)
      /\ UNCHANGED <<players, index, todo>>
  BY DEF SceneTypeOK, Send, tickVars
<1>2. \A i \in DOMAIN inCh' : inCh'[i].id # p
  BY <1>1 DEF Absent
<1> QED BY <1>1, <1>2 DEF Absent, Joined

LEMMA AbsentAfterDrain ==
  ASSUME SceneTypeOK, NEW p \in Player, Absent(p), DrainOne
  PROVE  Absent(p)' /\ Head(inCh).id # p
<1> DEFINE in == Head(inCh)
<1>1. /\ in \in Input /\ inCh \in Seq(Input) /\ inCh # <<>> /\ inCh' = Tail(inCh)
      /\ Apply(in) /\ todo' = todo
  BY HeadInput DEF DrainOne, SceneTypeOK, tickVars
<1>2. in.id # p
  BY <1>1 DEF Absent
<1>3. \A i \in DOMAIN inCh' : inCh'[i].id # p
  <2>1. \A i \in DOMAIN inCh' : i + 1 \in DOMAIN inCh /\ inCh'[i] = inCh[i + 1]
    BY <1>1
  <2> QED BY <2>1 DEF Absent
<1> HIDE DEF in
<1>4. p \notin Joined'
  BY <1>1, <1>2, ApplyJoined DEF Absent
<1>5. \A g \in Cell : p \notin index'[g]
  <2> USE DEF SceneTypeOK, Absent
  <2>1. CASE HandleJoin(in)     BY <1>2, <2>1 DEF HandleJoin, EnterIndex
  <2>2. CASE HandleLeave(in)    BY <2>2 DEF HandleLeave, LeaveIndex
  <2>3. CASE HandleMove(in)     BY <1>2, <2>3 DEF HandleMove, MoveIndex
  <2>4. CASE IgnoreUnknown(in)  BY <2>4 DEF IgnoreUnknown
  <2> QED BY <1>1, <2>1, <2>2, <2>3, <2>4 DEF Apply
<1> QED BY <1>1, <1>2, <1>3, <1>4, <1>5 DEF Absent, in

LEMMA AbsentAfterStill ==
  ASSUME SceneTypeOK, NEW p \in Player, Absent(p), StillStep
  PROVE  Absent(p)'
<1>1. UNCHANGED <<players, index, inCh>>
  BY StillType
<1>2. todo' \subseteq todo \cup Joined
  BY DEF StillStep, TickStart, DrainDone, SyncDone, EndTick, SyncOne
<1> QED BY <1>1, <1>2 DEF Absent, Joined

-----------------------------------------------------------------------------
(* Whether inputs on their way take a player out of the scene.             *)

\* When inputs s have been applied to a scene with players in, c is not in it:
\* each of its joins in s has a leave behind it, and so has c if it is there.
WillBeGone(s, c, in) ==
  \A i \in 0 .. Len(s) :
    (i = 0 /\ c \in in) \/ (i > 0 /\ s[i].kind = "join" /\ s[i].id = c)
      => \E j \in i+1 .. Len(s) : s[j].kind = "leave" /\ s[j].id = c

LEMMA GoneAfterLeave ==
  ASSUME NEW s \in Seq(Input), NEW c \in Player, NEW in
  PROVE  WillBeGone(Append(s, [kind |-> "leave", id |-> c]), c, in)
<1> DEFINE last == [kind |-> "leave", id |-> c]
           t    == Append(s, last)
<1>1. /\ last \in Input /\ last.kind = "leave" /\ last.id = c
  BY Inputs
<1> HIDE DEF last
<1>2. Len(t) = Len(s) + 1 /\ Len(s) \in Nat /\ t[Len(t)] = last
  BY <1>1
<1> HIDE DEF t
<1>3. ASSUME NEW i \in 0 .. Len(t),
             i > 0 => t[i].kind = "join"
      PROVE  \E j \in i+1 .. Len(t) : t[j].kind = "leave" /\ t[j].id = c
  <2>1. i # Len(t)
    BY <1>1, <1>2, <1>3
  <2>2. Len(t) \in i+1 .. Len(t)
    BY <1>2, <2>1
  <2> QED BY <1>1, <1>2, <2>2
<1>4. WillBeGone(t, c, in)
  BY <1>3 DEF WillBeGone
<1> QED BY <1>4 DEF t, last

\* An input of somebody else, or one that is no join, changes nothing about it.
LEMMA GoneAfterSend ==
  ASSUME NEW s \in Seq(Input), NEW c \in Player, NEW in,
         NEW next \in Input, next.kind = "join" => next.id # c,
         WillBeGone(s, c, in)
  PROVE  WillBeGone(Append(s, next), c, in)
<1> DEFINE t == Append(s, next)
<1>1. /\ Len(t) = Len(s) + 1 /\ Len(s) \in Nat /\ t[Len(t)] = next
      /\ \A i \in 1 .. Len(s) : t[i] = s[i]
  OBVIOUS
<1> HIDE DEF t
<1>2. ASSUME NEW i \in 0 .. Len(t),
             (i = 0 /\ c \in in) \/ (i > 0 /\ t[i].kind = "join" /\ t[i].id = c)
      PROVE  \E j \in i+1 .. Len(t) : t[j].kind = "leave" /\ t[j].id = c
  <2>1. i \in 0 .. Len(s)
    BY <1>1, <1>2
  <2>2. PICK j \in i+1 .. Len(s) : s[j].kind = "leave" /\ s[j].id = c
    BY <1>1, <1>2, <2>1 DEF WillBeGone
  <2>3. j \in i+1 .. Len(t) /\ j \in 1 .. Len(s)
    BY <1>1, <2>1, <2>2
  <2> QED BY <1>1, <2>2, <2>3
<1>3. WillBeGone(t, c, in)
  BY <1>2 DEF WillBeGone
<1> QED BY <1>3 DEF t

\* Applying the first of the inputs keeps it true of the others.
LEMMA GoneAfterHead ==
  ASSUME NEW s \in Seq(Input), s # <<>>, NEW c \in Player, NEW in, NEW then,
         c \in then => \/ Head(s).kind = "join" /\ Head(s).id = c
                       \/ c \in in /\ ~ (Head(s).kind = "leave" /\ Head(s).id = c),
         WillBeGone(s, c, in)
  PROVE  WillBeGone(Tail(s), c, then)
<1> DEFINE t == Tail(s)
<1>1. /\ Len(s) = Len(t) + 1 /\ Len(t) \in Nat /\ Head(s) = s[1]
      /\ \A i \in 1 .. Len(t) : t[i] = s[i + 1]
  OBVIOUS
<1> HIDE DEF t
<1>2. ASSUME NEW k \in 1 .. Len(s), s[k].kind = "join", s[k].id = c
      PROVE  \E j \in k .. Len(t) : t[j].kind = "leave" /\ t[j].id = c
  <2>1. PICK j \in k+1 .. Len(s) : s[j].kind = "leave" /\ s[j].id = c
    BY <1>1, <1>2 DEF WillBeGone
  <2>2. j - 1 \in k .. Len(t) /\ j - 1 \in 1 .. Len(t) /\ (j - 1) + 1 = j
    BY <1>1, <2>1
  <2> QED BY <1>1, <2>1, <2>2
<1>3. ASSUME c \in then
      PROVE  \E j \in 1 .. Len(t) : t[j].kind = "leave" /\ t[j].id = c
  <2>1. CASE Head(s).kind = "join" /\ Head(s).id = c
    BY <1>1, <1>2, <2>1
  <2>2. CASE c \in in /\ ~ (Head(s).kind = "leave" /\ Head(s).id = c)
    <3>1. PICK j \in 1 .. Len(s) : s[j].kind = "leave" /\ s[j].id = c
      BY <1>1, <2>2 DEF WillBeGone
    <3>2. j # 1
      BY <1>1, <2>2, <3>1
    <3>3. j - 1 \in 1 .. Len(t) /\ (j - 1) + 1 = j
      BY <1>1, <3>1, <3>2
    <3> QED BY <1>1, <3>1, <3>3
  <2> QED BY <1>3, <2>1, <2>2
<1>4. ASSUME NEW i \in 0 .. Len(t),
             (i = 0 /\ c \in then) \/ (i > 0 /\ t[i].kind = "join" /\ t[i].id = c)
      PROVE  \E j \in i+1 .. Len(t) : t[j].kind = "leave" /\ t[j].id = c
  <2>1. CASE i = 0
    BY <1>3, <1>4, <2>1
  <2>2. CASE i > 0
    <3>1. i + 1 \in 1 .. Len(s) /\ t[i] = s[i + 1]
      BY <1>1, <2>2
    <3> QED BY <1>2, <1>4, <2>2, <3>1
  <2> QED BY <2>1, <2>2
<1>5. WillBeGone(t, c, then)
  BY <1>4 DEF WillBeGone
<1> QED BY <1>5 DEF t

\* Inputs in front of those that will take c out, whoever is there, make no
\* difference.
LEMMA GoneBehind ==
  ASSUME NEW s \in Seq(Input), NEW t \in Seq(Input), NEW c \in Player, NEW in,
         WillBeGone(t, c, {c})
  PROVE  WillBeGone(s \o t, c, in)
<1> DEFINE u == s \o t
<1>1. /\ Len(u) = Len(s) + Len(t) /\ Len(s) \in Nat /\ Len(t) \in Nat
      /\ \A i \in 1 .. Len(t) : u[Len(s) + i] = t[i]
  OBVIOUS
<1> HIDE DEF u
<1>2. ASSUME NEW i \in 0 .. Len(u),
             i > 0 => u[i].kind = "join" /\ u[i].id = c
      PROVE  \E j \in i+1 .. Len(u) : u[j].kind = "leave" /\ u[j].id = c
  <2>1. CASE i <= Len(s)
    <3>1. PICK j \in 1 .. Len(t) : t[j].kind = "leave" /\ t[j].id = c
      BY <1>1 DEF WillBeGone
    <3>2. Len(s) + j \in i+1 .. Len(u)
      BY <1>1, <2>1
    <3> QED BY <1>1, <3>1, <3>2
  <2>2. CASE i > Len(s)
    <3> DEFINE k == i - Len(s)
    <3>1. k \in 1 .. Len(t) /\ Len(s) + k = i
      BY <1>1, <2>2
    <3>2. t[k].kind = "join" /\ t[k].id = c
      BY <1>1, <1>2, <3>1
    <3>3. PICK j \in k+1 .. Len(t) : t[j].kind = "leave" /\ t[j].id = c
      BY <1>1, <3>1, <3>2 DEF WillBeGone
    <3>4. Len(s) + j \in i+1 .. Len(u) /\ j \in 1 .. Len(t)
      BY <1>1, <3>1, <3>3
    <3> QED BY <1>1, <3>3, <3>4
  <2> QED BY <1>1, <2>1, <2>2
<1>3. WillBeGone(u, c, in)
  BY <1>2 DEF WillBeGone
<1> QED BY <1>3 DEF u

\* The scene's own step is such a step, whatever inputs r are behind inCh.
LEMMA GoneAfterDrain ==
  ASSUME SceneTypeOK, DrainOne, NEW r \in Seq(Input), NEW c \in Player,
         WillBeGone(inCh \o r, c, Joined)
  PROVE  WillBeGone(inCh' \o r, c, Joined')
<1> DEFINE in == Head(inCh)
           s  == inCh \o r
<1>1. in \in Input /\ inCh # <<>> /\ Apply(in) /\ inCh' = Tail(inCh)
      /\ inCh \in Seq(Input)
  BY HeadInput DEF DrainOne, SceneTypeOK
<1>2. s \in Seq(Input) /\ s # <<>> /\ Head(s) = in /\ Tail(s) = inCh' \o r
  BY <1>1, JoinedQueues
<1> HIDE DEF in, s
<1>3. /\ in.kind \in {"join", "move", "leave"}
      /\ in.kind = "join"  => Joined' = Joined \cup {in.id}
      /\ in.kind = "leave" => Joined' = Joined \ {in.id}
      /\ in.kind = "move"  => Joined' = Joined
  BY <1>1, ApplyJoined
<1>4. c \in Joined' => \/ in.kind = "join" /\ in.id = c
                       \/ c \in Joined /\ ~ (in.kind = "leave" /\ in.id = c)
  BY <1>3
<1>5. \A then : (c \in then => \/ in.kind = "join" /\ in.id = c
                               \/ c \in Joined /\ ~ (in.kind = "leave" /\ in.id = c))
                => WillBeGone(Tail(s), c, then)
  BY <1>2, GoneAfterHead DEF s
<1> QED BY <1>2, <1>4, <1>5

=============================================================================
