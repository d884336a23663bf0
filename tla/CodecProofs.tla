---------------------------- MODULE CodecProofs ----------------------------
(***************************************************************************)
(* What is written is what is read, for any sizes of the fields and of the *)
(* packets, any number of messages and any way of cutting the stream.      *)
(***************************************************************************)
EXTENDS Codec, SequenceTheorems, WellFoundedInduction, TLAPS

-----------------------------------------------------------------------------
(* Sets of numbers.                                                        *)

LEMMA LeastNumber ==
  ASSUME NEW T \in SUBSET Nat, T # {}
  PROVE  \E x \in T : \A y \in T : x <= y
<1> DEFINE R == OpToRel(<, Nat)
<1>1. IsWellFoundedOn(R, Nat)
  BY NatLessThanWellFounded
<1>2. \A m, n \in Nat : m < n => <<m, n>> \in R
  BY DEF OpToRel
<1> HIDE DEF R
<1>3. PICK x \in T : \A y \in T : ~ (<<y, x>> \in R)
  BY <1>1, WFMin
<1>4. ASSUME NEW y \in T PROVE x <= y
  <2>1. ~ (<<y, x>> \in R)
    BY <1>3
  <2>2. ~ (y < x)
    BY <2>1, <1>2
  <2> QED BY <2>2
<1> QED BY <1>4

LEMMA LargestNumber ==
  ASSUME NEW n \in Nat, NEW s \in SUBSET (1 .. n), s # {}
  PROVE  Max(s) \in s /\ \A y \in s : Max(s) >= y
<1> DEFINE T == { n - y : y \in s }
<1>1. T \in SUBSET Nat /\ T # {}
  <2>1. \A y \in s : n - y \in Nat
    OBVIOUS
  <2> QED BY <2>1
<1>2. PICK t \in T : \A u \in T : t <= u
  <2> HIDE DEF T
  <2> QED BY <1>1, LeastNumber
<1>3. PICK x \in s : t = n - x
  BY <1>2
<1>4. ASSUME NEW y \in s PROVE x >= y
  <2>1. n - y \in T
    OBVIOUS
  <2>2. n - x <= n - y
    BY <1>2, <1>3, <2>1
  <2> QED BY <2>2
<1> QED BY <1>4 DEF Max

\* Induction: a property of numbers is the set of those that have it.
LEMMA NumberInduction ==
  ASSUME NEW P \in SUBSET Nat, 0 \in P, \A n \in P : n + 1 \in P
  PROVE  P = Nat
<1> SUFFICES ASSUME P # Nat PROVE FALSE
  OBVIOUS
<1>1. PICK x \in Nat \ P : \A y \in Nat \ P : x <= y
  BY LeastNumber
<1>2. x # 0 /\ x - 1 \in Nat
  OBVIOUS
<1>3. x - 1 \in P
  BY <1>1, <1>2
<1> QED BY <1>2, <1>3

-----------------------------------------------------------------------------
(* Numbers as bytes.                                                       *)

Fields == LengthFieldSize + TypeFieldSize

LEMMA Sizes ==
  /\ Base \in Nat /\ Base > 1 /\ Fields \in Nat
  /\ LengthFieldSize \in 1 .. Fields /\ TypeFieldSize \in 1 .. Fields
  /\ MaxPacketSize \in Nat /\ TypeFieldSize <= MaxPacketSize
BY CodecAssumption DEF Fields

\* f is the function that Power is defined by, up to m.
Powers(f, m) == f = [n \in 0 .. m |-> IF n = 0 THEN 1 ELSE f[n - 1] * Base]

LEMMA PowersStep ==
  ASSUME NEW m \in Nat, NEW f, Powers(f, m)
  PROVE  \E g : Powers(g, m + 1)
<1> DEFINE g == [n \in 0 .. m + 1 |-> IF n = m + 1 THEN f[m] * Base ELSE f[n]]
<1>1. ASSUME NEW n \in 0 .. m PROVE f[n] = IF n = 0 THEN 1 ELSE f[n - 1] * Base
  BY Zenon DEF Powers
<1>2. ASSUME NEW n \in 0 .. m + 1
      PROVE  g[n] = IF n = 0 THEN 1 ELSE g[n - 1] * Base
  <2>1. CASE n = m + 1
    <3>1. n - 1 = m /\ n # 0 /\ g[n - 1] = f[m] /\ g[n] = f[m] * Base
      BY <2>1
    <3> HIDE DEF g
    <3> QED BY <3>1
  <2>2. CASE n # m + 1
    <3>1. n \in 0 .. m /\ g[n] = f[n] /\ (n # 0 => g[n - 1] = f[n - 1])
      BY <2>2
    <3> HIDE DEF g
    <3> QED BY <1>1, <3>1
  <2> QED BY <2>1, <2>2
<1>3. g = [n \in 0 .. m + 1 |-> g[n]]
  OBVIOUS
<1> HIDE DEF g
<1>4. g = [n \in 0 .. m + 1 |-> IF n = 0 THEN 1 ELSE g[n - 1] * Base]
  BY <1>2, <1>3
<1> QED BY <1>4 DEF Powers

LEMMA PowersExist ==
  ASSUME NEW m \in Nat
  PROVE  \E f : Powers(f, m)
<1> DEFINE N == { n \in Nat : \E f : Powers(f, n) }
<1>1. 0 \in N
  <2> DEFINE f == [n \in 0 .. 0 |-> 1]
  <2>1. Powers(f, 0)
    BY DEF Powers
  <2> HIDE DEF f
  <2> QED BY <2>1
<1>2. \A n \in N : n + 1 \in N
  BY PowersStep
<1>3. N \in SUBSET Nat
  OBVIOUS
<1> HIDE DEF N
<1>4. N = Nat
  BY <1>1, <1>2, <1>3, NumberInduction
<1> QED BY <1>4 DEF N

LEMMA PowerIs ==
  /\ Power[0] = 1
  /\ \A n \in 1 .. Fields : Power[n] = Power[n - 1] * Base
<1>1. Powers(Power, Fields)
  <2>1. Power = CHOOSE f : Powers(f, Fields)
    BY Zenon DEF Power, Powers, Fields
  <2> QED BY <2>1, Sizes, PowersExist
<1>2. ASSUME NEW n \in 0 .. Fields
      PROVE  Power[n] = IF n = 0 THEN 1 ELSE Power[n - 1] * Base
  <2> HIDE DEF Power
  <2> QED BY <1>1, Zenon DEF Powers
<1> QED BY <1>2, Sizes

LEMMA PowerType ==
  ASSUME NEW n \in 0 .. Fields
  PROVE  Power[n] \in Nat \ {0}
<1> DEFINE N == { m \in Nat : m <= Fields => Power[m] \in Nat \ {0} }
<1>1. 0 \in N
  BY PowerIs
<1>2. ASSUME NEW m \in N PROVE m + 1 \in N
  <2> SUFFICES ASSUME m + 1 <= Fields PROVE Power[m + 1] \in Nat \ {0}
    OBVIOUS
  <2>1. PICK k \in 1 .. Fields : k = m + 1
    BY Sizes
  <2>2. Power[k - 1] \in Nat \ {0}
    BY <2>1, Sizes
  <2>3. Power[k] = Power[k - 1] * Base
    BY PowerIs
  <2>4. \A a \in Nat \ {0} : a * Base \in Nat \ {0}
    BY Sizes
  <2> QED BY <2>1, <2>2, <2>3, <2>4
<1>3. N \in SUBSET Nat
  OBVIOUS
<1> HIDE DEF N
<1>4. N = Nat
  BY <1>1, <1>2, <1>3, NumberInduction
<1> QED BY <1>4, Sizes DEF N

LEMMA PutType ==
  ASSUME NEW w \in 1 .. Fields, NEW n \in Nat
  PROVE  Put(w, n) \in Seq(Byte) /\ Len(Put(w, n)) = w
<1>1. ASSUME NEW i \in 1 .. w PROVE (n \div Power[w - i]) % Base \in Byte
  <2>1. w - i \in 0 .. Fields
    BY Sizes
  <2>2. PICK p \in Nat \ {0} : p = Power[w - i]
    BY <2>1, PowerType
  <2>3. n \div p \in Nat
    BY <2>2
  <2>4. \A a \in Nat : a % Base \in 0 .. Base - 1
    BY Sizes
  <2> QED BY <2>2, <2>3, <2>4 DEF Byte
<1>2. Put(w, n) \in [1 .. w -> Byte]
  BY <1>1 DEF Put
<1> QED BY <1>2

-----------------------------------------------------------------------------
(* The way back.                                                           *)

\* f is the function that the fold in Uint is defined by.
Folds(q, f, n) ==
  f = [s \in SUBSET (1 .. n) |->
        IF s = {} THEN 0 ELSE f[s \ {Max(s)}] * Base + q[Max(s)]]

LEMMA FoldStep ==
  ASSUME NEW q, NEW n \in Nat, NEW f, Folds(q, f, n)
  PROVE  \E g : Folds(q, g, n + 1)
<1> DEFINE g == [s \in SUBSET (1 .. n + 1) |->
                  IF n + 1 \in s THEN f[s \ {n + 1}] * Base + q[n + 1] ELSE f[s]]
<1>1. ASSUME NEW s \in SUBSET (1 .. n + 1)
      PROVE  g[s] = IF s = {} THEN 0 ELSE g[s \ {Max(s)}] * Base + q[Max(s)]
  <2>1. CASE n + 1 \in s
    <3>1. Max(s) = n + 1
      <4>1. PICK k \in Nat : k = n + 1
        OBVIOUS
      <4>2. Max(s) \in s /\ Max(s) >= k
        BY <2>1, <4>1, LargestNumber
      <4>3. PICK x \in s : x = Max(s) /\ x >= k
        BY <4>2
      <4>4. x = k
        BY <4>1, <4>3
      <4> QED BY <4>1, <4>3, <4>4
    <3>2. s \ {n + 1} \in SUBSET (1 .. n + 1) /\ n + 1 \notin s \ {n + 1}
      OBVIOUS
    <3>3. g[s \ {n + 1}] = f[s \ {n + 1}]
      BY <3>2
    <3>4. g[s] = f[s \ {n + 1}] * Base + q[n + 1]
      BY <2>1
    <3>5. s # {}
      BY <2>1
    <3> HIDE DEF g
    <3> QED BY <3>1, <3>3, <3>4, <3>5
  <2>2. CASE n + 1 \notin s
    <3>1. s \in SUBSET (1 .. n) /\ g[s] = f[s]
      BY <2>2
    <3>2. f[s] = IF s = {} THEN 0 ELSE f[s \ {Max(s)}] * Base + q[Max(s)]
      BY <3>1 DEF Folds
    <3>3. g[s \ {Max(s)}] = f[s \ {Max(s)}]
      BY <2>2
    <3> HIDE DEF g
    <3> QED BY <3>1, <3>2, <3>3
  <2> QED BY <2>1, <2>2
<1>2. g = [s \in SUBSET (1 .. n + 1) |->
           IF s = {} THEN 0 ELSE g[s \ {Max(s)}] * Base + q[Max(s)]]
  <2>1. g = [s \in SUBSET (1 .. n + 1) |-> g[s]]
    OBVIOUS
  <2> HIDE DEF g
  <2> QED BY <1>1, <2>1
<1> HIDE DEF g
<1> QED BY <1>2 DEF Folds

LEMMA FoldExists ==
  ASSUME NEW q, NEW m \in Nat
  PROVE  \E f : Folds(q, f, m)
<1> DEFINE N == { n \in Nat : \E f : Folds(q, f, n) }
<1>1. 0 \in N
  <2> DEFINE f == [s \in SUBSET (1 .. 0) |-> 0]
  <2>1. Folds(q, f, 0)
    BY DEF Folds
  <2> HIDE DEF f
  <2> QED BY <2>1
<1>2. \A n \in N : n + 1 \in N
  BY FoldStep
<1>3. N \in SUBSET Nat
  OBVIOUS
<1> HIDE DEF N
<1>4. N = Nat
  BY <1>1, <1>2, <1>3, NumberInduction
<1> QED BY <1>4 DEF N

\* Uint reads its bytes from the first to the last.
LEMMA UintByByte ==
  ASSUME NEW q \in Seq(Byte), NEW w \in Nat, Len(q) = w
  PROVE  \E f : /\ f[1 .. 0] = 0 /\ Uint(q) = f[1 .. w]
                /\ \A k \in 1 .. w : f[1 .. k] = f[1 .. k-1] * Base + q[k]
<1>1. PICK f : Folds(q, f, w) /\ Uint(q) = f[1 .. w]
  <2> DEFINE f == CHOOSE f : Folds(q, f, w)
  <2>1. Folds(q, f, w)
    BY FoldExists
  <2>2. DOMAIN q = 1 .. w
    OBVIOUS
  <2>3. Uint(q) = f[1 .. w]
    BY <2>2, Zenon DEF Uint, FoldLeft, MapThenFoldSet, Folds
  <2> QED BY <2>1, <2>3
<1>2. ASSUME NEW s \in SUBSET (1 .. w)
      PROVE  f[s] = IF s = {} THEN 0 ELSE f[s \ {Max(s)}] * Base + q[Max(s)]
  BY <1>1, Zenon DEF Folds
<1>3. ASSUME NEW k \in 1 .. w
      PROVE  f[1 .. k] = f[1 .. k-1] * Base + q[k]
  <2> DEFINE s == 1 .. k
  <2>1. s \in SUBSET (1 .. w) /\ s # {} /\ k \in s /\ s \ {k} = 1 .. k-1
    OBVIOUS
  <2>2. Max(s) = k
    <3>1. PICK x \in s : x = Max(s) /\ x >= k
      BY <2>1, LargestNumber
    <3>2. x = k
      BY <3>1
    <3> QED BY <3>1, <3>2
  <2>3. f[s] = f[s \ {Max(s)}] * Base + q[Max(s)]
    BY <1>2, <2>1
  <2> HIDE DEF s
  <2>4. f[s] = f[1 .. k-1] * Base + q[k]
    BY <2>1, <2>2, <2>3
  <2> QED BY <2>4 DEF s
<1>4. f[1 .. 0] = 0
  <2>1. 1 .. 0 \in SUBSET (1 .. w) /\ 1 .. 0 = {}
    OBVIOUS
  <2> QED BY <1>2, <2>1
<1> QED BY <1>1, <1>3, <1>4

\* A number that fits into its field comes back from it, whatever the base and
\* the width: the fields of the length and of the type.
THEOREM PutAndBack ==
  ASSUME NEW w \in 1 .. Fields, NEW n \in 0 .. Power[w] - 1
  PROVE  Uint(Put(w, n)) = n
<1>0. n \in Nat /\ w \in Nat /\ w \in 0 .. Fields
  BY Sizes, PowerType
<1> DEFINE q == Put(w, n)
<1>1. q \in Seq(Byte) /\ Len(q) = w
  BY <1>0, PutType
<1>2. \A i \in 1 .. w : q[i] = (n \div Power[w - i]) % Base
  BY DEF Put
<1> HIDE DEF q
<1>3. PICK f : /\ f[1 .. 0] = 0 /\ Uint(q) = f[1 .. w]
               /\ \A k \in 1 .. w : f[1 .. k] = f[1 .. k-1] * Base + q[k]
  BY <1>0, <1>1, UintByByte
<1> DEFINE K == { k \in Nat : k <= w => f[1 .. k] = n \div Power[w - k] }
<1>4. 0 \in K
  <2>1. \A p \in Nat \ {0} : n \in 0 .. p - 1 => n \div p = 0
    OBVIOUS
  <2>2. Power[w] \in Nat \ {0} /\ w - 0 = w
    BY <1>0, PowerType
  <2>3. n \div Power[w - 0] = 0
    BY <2>1, <2>2
  <2> QED BY <1>3, <2>3
<1>5. ASSUME NEW k \in K PROVE k + 1 \in K
  <2> SUFFICES ASSUME k + 1 <= w PROVE f[1 .. k + 1] = n \div Power[w - (k + 1)]
    OBVIOUS
  <2>1. PICK l \in 1 .. w : l = k + 1 /\ l - 1 = k
    BY <1>0
  <2>2. w - l \in 0 .. Fields /\ w - k \in 1 .. Fields /\ (w - k) - 1 = w - l
    BY <1>0, <2>1, Sizes
  <2>3. PICK p \in Nat \ {0} : p = Power[w - l]
    BY <2>2, PowerType
  <2>4. Power[w - k] = p * Base
    BY <2>2, <2>3, PowerIs
  <2>5. f[1 .. k] = n \div (p * Base)
    BY <2>1, <2>4
  <2>6. PICK a \in Nat : a = n \div p
    BY <1>0
  <2>7. n \div (p * Base) = a \div Base
    BY <1>0, <2>6, Sizes
  <2>8. a = (a \div Base) * Base + (a % Base)
    BY Sizes
  <2>9. f[1 .. l] = f[1 .. k] * Base + q[l]
    BY <1>3, <2>1
  <2>10. q[l] = a % Base
    BY <1>2, <2>3, <2>6
  <2>11. f[1 .. l] = a
    BY <2>5, <2>7, <2>8, <2>9, <2>10
  <2> QED BY <2>1, <2>3, <2>6, <2>11
<1>6. K \in SUBSET Nat
  OBVIOUS
<1> HIDE DEF K
<1>7. K = Nat
  BY <1>4, <1>5, <1>6, NumberInduction
<1>8. f[1 .. w] = n \div Power[w - w]
  <2>1. w \in K /\ w <= w
    BY <1>0, <1>7
  <2> QED BY <2>1 DEF K
<1>9. w - w = 0 /\ n \div 1 = n
  BY <1>0
<1> QED BY <1>3, <1>8, <1>9, PowerIs DEF q

-----------------------------------------------------------------------------
(* Sequences cut and put together.                                         *)

LEMMA ConcatAssociates ==
  ASSUME NEW S, NEW q \in Seq(S), NEW r \in Seq(S), NEW t \in Seq(S)
  PROVE  (q \o r) \o t = q \o (r \o t)
OBVIOUS

LEMMA CutHere ==
  ASSUME NEW S, NEW q \in Seq(S), NEW n \in 0 .. Len(q)
  PROVE  /\ SubSeq(q, 1, n) \in Seq(S) /\ Len(SubSeq(q, 1, n)) = n
         /\ SubSeq(q, n + 1, Len(q)) \in Seq(S)
         /\ SubSeq(q, 1, n) \o SubSeq(q, n + 1, Len(q)) = q
<1> DEFINE u == SubSeq(q, 1, n)
           v == SubSeq(q, n + 1, Len(q))
           t == u \o v
<1>1. u \in Seq(S) /\ Len(u) = n /\ \A i \in 1 .. n : u[i] = q[i]
  OBVIOUS
<1>2. /\ v \in Seq(S) /\ Len(v) = Len(q) - n
      /\ \A i \in 1 .. Len(q) - n : v[i] = q[n + i]
  OBVIOUS
<1> HIDE DEF u, v
<1>3. t \in Seq(S) /\ Len(t) = Len(q)
  BY <1>1, <1>2
<1>4. ASSUME NEW i \in 1 .. Len(t) PROVE t[i] = q[i]
  <2>1. CASE i <= n
    BY <1>1, <1>2, <2>1
  <2>2. CASE i > n
    <3>1. t[i] = v[i - n] /\ i - n \in 1 .. Len(q) - n
      BY <1>1, <1>2, <1>3, <2>2
    <3>2. v[i - n] = q[n + (i - n)] /\ n + (i - n) = i
      BY <1>2, <3>1
    <3> QED BY <3>1, <3>2
  <2> QED BY <1>3, <2>1, <2>2
<1> HIDE DEF t
<1>5. t = q
  BY <1>3, <1>4, SeqEqual
<1> QED BY <1>1, <1>2, <1>5 DEF t, u, v

\* Where the elements of two sequences are when they are put together.
LEMMA Glued ==
  ASSUME NEW S, NEW u \in Seq(S), NEW v \in Seq(S), NEW t, t = u \o v
  PROVE  /\ Len(t) = Len(u) + Len(v)
         /\ \A i \in 1 .. Len(u) : t[i] = u[i]
         /\ \A i \in 1 .. Len(v) : t[Len(u) + i] = v[i]
OBVIOUS

\* One sequence is cut at one place in one way.
LEMMA SameCut ==
  ASSUME NEW S, NEW u \in Seq(S), NEW v \in Seq(S), NEW x \in Seq(S), NEW y \in Seq(S),
         u \o v = x \o y, Len(u) = Len(x)
  PROVE  u = x /\ v = y
<1>0. PICK t : t = u \o v
  OBVIOUS
<1>1. t = x \o y
  BY <1>0
<1>2. /\ Len(t) = Len(u) + Len(v)
      /\ \A i \in 1 .. Len(u) : t[i] = u[i]
      /\ \A i \in 1 .. Len(v) : t[Len(u) + i] = v[i]
  BY ONLY <1>0, u \in Seq(S), v \in Seq(S), Glued
<1>3. /\ Len(t) = Len(x) + Len(y)
      /\ \A i \in 1 .. Len(x) : t[i] = x[i]
      /\ \A i \in 1 .. Len(y) : t[Len(x) + i] = y[i]
  BY ONLY <1>1, x \in Seq(S), y \in Seq(S), Glued
<1>4. Len(u) \in Nat /\ Len(v) = Len(y)
  BY <1>2, <1>3
<1>5. \A i \in 1 .. Len(u) : u[i] = x[i]
  BY <1>2, <1>3
<1>6. \A i \in 1 .. Len(v) : v[i] = y[i]
  BY <1>2, <1>3, <1>4
<1> QED BY <1>4, <1>5, <1>6, SeqEqual

LEMMA CutBetween ==
  ASSUME NEW S, NEW x \in Seq(S), NEW y \in Seq(S)
  PROVE  /\ SubSeq(x \o y, 1, Len(x)) = x
         /\ SubSeq(x \o y, Len(x) + 1, Len(x \o y)) = y
<1> DEFINE q == x \o y
<1>1. q \in Seq(S) /\ Len(x) \in 0 .. Len(q)
  OBVIOUS
<1>2. q = x \o y
  OBVIOUS
<1> HIDE DEF q
<1>3. /\ SubSeq(q, 1, Len(x)) \in Seq(S) /\ Len(SubSeq(q, 1, Len(x))) = Len(x)
      /\ SubSeq(q, Len(x) + 1, Len(q)) \in Seq(S)
      /\ SubSeq(q, 1, Len(x)) \o SubSeq(q, Len(x) + 1, Len(q)) = q
  BY <1>1, CutHere
<1>4. SubSeq(q, 1, Len(x)) = x /\ SubSeq(q, Len(x) + 1, Len(q)) = y
  BY <1>2, <1>3, SameCut
<1> QED BY <1>4 DEF q

-----------------------------------------------------------------------------
(* The invariant.                                                          *)

\* What follows the length in a packet.
Payload(msg) == Put(TypeFieldSize, msg.type) \o msg.body

\* rest[i] is what the packets behind the first i ones make together.
Stream(rest) ==
  /\ rest \in [0 .. Len(sent) -> Seq(Byte)]
  /\ rest[Len(sent)] = <<>>
  /\ \A i \in 1 .. Len(sent) : rest[i - 1] = Encode(sent[i]) \o rest[i]

\* What the reader has before it, if it has not got out of step.
Ahead(rest) ==
  IF reader = "payload"
  THEN Payload(sent[Len(received) + 1]) \o rest[Len(received) + 1]
  ELSE rest[Len(received)]

\* The buffer and the wire hold it all, or what is left of it.
InStep(rest) ==
  /\ reader = "payload" => /\ Len(received) < Len(sent)
                           /\ length = PacketLength(sent[Len(received) + 1])
  /\ \E lost \in Seq(Byte) :
       (open => lost = <<>>) /\ (buf \o wire) \o lost = Ahead(rest)

Returned ==
  /\ Len(received) <= Len(sent)
  /\ \A i \in 1 .. Len(received) : received[i] = sent[i]

Accepted == \A i \in 1 .. Len(sent) : PacketLength(sent[i]) <= MaxPacketSize

SInv ==
  /\ Returned /\ Accepted /\ FailsOnlyWhenBroken
  /\ reader # "failed" => \E rest : Stream(rest) /\ InStep(rest)

IInv == TypeOK /\ SInv

LEMMA PacketType ==
  ASSUME NEW msg \in Message
  PROVE  /\ msg.body \in Seq(Byte) /\ msg.type \in 0 .. Power[TypeFieldSize] - 1
         /\ PacketLength(msg) \in Nat /\ PacketLength(msg) >= TypeFieldSize
         /\ Put(TypeFieldSize, msg.type) \in Seq(Byte)
         /\ Len(Put(TypeFieldSize, msg.type)) = TypeFieldSize
         /\ Payload(msg) \in Seq(Byte) /\ Len(Payload(msg)) = PacketLength(msg)
<1>1. msg.body \in Seq(Byte) /\ msg.type \in 0 .. Power[TypeFieldSize] - 1
  BY CodecAssumption DEF Message
<1>2. msg.type \in Nat
  BY <1>1, PowerType, Sizes
<1>3. TypeFieldSize \in Nat /\ Len(msg.body) \in Nat
  BY <1>1, Sizes
<1>4. /\ Put(TypeFieldSize, msg.type) \in Seq(Byte)
      /\ Len(Put(TypeFieldSize, msg.type)) = TypeFieldSize
  BY <1>2, PutType, Sizes
<1>5. Payload(msg) \in Seq(Byte) /\ Len(Payload(msg)) = TypeFieldSize + Len(msg.body)
  <2> DEFINE p == Put(TypeFieldSize, msg.type)
  <2>1. p \in Seq(Byte) /\ Len(p) = TypeFieldSize
    BY <1>4
  <2> HIDE DEF p
  <2>2. p \o msg.body \in Seq(Byte) /\ Len(p \o msg.body) = Len(p) + Len(msg.body)
    BY <1>1, <2>1
  <2> QED BY <2>1, <2>2 DEF Payload, p
<1> QED BY <1>1, <1>3, <1>4, <1>5 DEF PacketLength

LEMMA EncodeIs ==
  ASSUME NEW msg \in Message
  PROVE  /\ Put(LengthFieldSize, PacketLength(msg)) \in Seq(Byte)
         /\ Len(Put(LengthFieldSize, PacketLength(msg))) = LengthFieldSize
         /\ Encode(msg) = Put(LengthFieldSize, PacketLength(msg)) \o Payload(msg)
         /\ Encode(msg) \in Seq(Byte)
<1>1. PICK l \in Seq(Byte) : /\ l = Put(LengthFieldSize, PacketLength(msg))
                             /\ Len(l) = LengthFieldSize
  BY PacketType, PutType, Sizes
<1>2. PICK t \in Seq(Byte) : t = Put(TypeFieldSize, msg.type)
  BY PacketType
<1>3. PICK b \in Seq(Byte) : b = msg.body /\ Payload(msg) = t \o b
                           /\ Payload(msg) \in Seq(Byte)
  BY <1>2, PacketType DEF Payload
<1>4. (l \o t) \o b = l \o (t \o b)
  BY ConcatAssociates
<1>5. Encode(msg) = l \o Payload(msg)
  BY <1>1, <1>2, <1>3, <1>4 DEF Encode
<1>6. l \o Payload(msg) \in Seq(Byte)
  BY <1>3, ConcatProperties
<1> QED BY <1>1, <1>5, <1>6

-----------------------------------------------------------------------------
(* Steps.                                                                  *)

LEMMA InvInit == Init => IInv
<1> SUFFICES ASSUME Init PROVE IInv
  OBVIOUS
<1>1. /\ sent = <<>> /\ wire = <<>> /\ received = <<>> /\ buf = <<>> /\ Len(sent) = 0
      /\ Len(received) = 0 /\ reader = "length"
  BY DEF Init
<1>2. TypeOK
  BY CodecAssumption DEF Init, TypeOK, Need
<1> DEFINE r == [i \in 0 .. 0 |-> <<>>]
<1>3. Stream(r)
  BY <1>1 DEF Stream
<1>4. InStep(r)
  <2>1. Ahead(r) = <<>>
    BY <1>1 DEF Ahead
  <2>2. <<>> \in Seq(Byte) /\ (buf \o wire) \o <<>> = <<>>
    BY <1>1
  <2> QED BY <1>1, <2>1, <2>2 DEF InStep
<1> HIDE DEF r
<1>5. SInv
  BY <1>1, <1>3, <1>4 DEF SInv, Returned, Accepted, FailsOnlyWhenBroken
<1> QED BY <1>2, <1>5 DEF IInv

LEMMA NeedType ==
  ASSUME TypeOK
  PROVE  Need \in Nat
BY Sizes DEF TypeOK, Need

\* The reader's bytes are cut elsewhere, or some that nobody will read are lost.
LEMMA SameStream ==
  ASSUME IInv, UNCHANGED <<sent, received, reader, length>>, open' => open,
         reader # "failed" =>
           \E lost \in Seq(Byte) : /\ open' => lost = <<>>
                                   /\ (buf' \o wire') \o lost = buf \o wire,
         buf' \in Seq(Byte), wire' \in Seq(Byte)
  PROVE  SInv'
<1>1. Returned' /\ Accepted'
  BY DEF IInv, SInv, Returned, Accepted
<1>2. FailsOnlyWhenBroken'
  BY DEF IInv, SInv, FailsOnlyWhenBroken
<1>3. ASSUME reader # "failed" PROVE (\E rest : Stream(rest) /\ InStep(rest))'
  <2>1. PICK rest : Stream(rest) /\ InStep(rest)
    BY <1>3 DEF IInv, SInv
  <2>2. Stream(rest)' /\ Ahead(rest)' = Ahead(rest)
    BY <2>1 DEF Stream, Ahead
  <2>3. PICK more \in Seq(Byte) : (open' => more = <<>>)
                                /\ (buf' \o wire') \o more = buf \o wire
    BY <1>3
  <2>4. PICK lost \in Seq(Byte) : (open => lost = <<>>)
                                /\ (buf \o wire) \o lost = Ahead(rest)
    BY <2>1 DEF InStep
  <2>5. PICK all \in Seq(Byte) : all = more \o lost
    BY ConcatProperties
  <2>6. PICK now \in Seq(Byte) : now = buf' \o wire'
    BY ConcatProperties
  <2>7. (now \o more) \o lost = now \o (more \o lost)
    BY ONLY now \in Seq(Byte), more \in Seq(Byte), lost \in Seq(Byte), ConcatAssociates
  <2>8. (buf' \o wire') \o all = Ahead(rest)'
    BY <2>2, <2>3, <2>4, <2>5, <2>6, <2>7
  <2>9. open' => all = <<>>
    BY <2>3, <2>4, <2>5
  <2>10. InStep(rest)'
    BY <2>1, <2>8, <2>9 DEF InStep, PacketLength
  <2> QED BY <2>2, <2>10
<1> QED BY <1>1, <1>2, <1>3 DEF SInv

LEMMA WriteStep ==
  ASSUME IInv, NEW msg \in Message, Write(msg)
  PROVE  IInv'
<1>1. /\ sent \in Seq(Message) /\ wire \in Seq(Byte) /\ buf \in Seq(Byte)
      /\ received \in Seq([type : 0 .. Power[TypeFieldSize] - 1, body : Seq(Byte)])
  BY DEF IInv, TypeOK
<1>2. PICK e \in Seq(Byte) : e = Encode(msg)
  BY EncodeIs
<1>3. wire' = wire \o e /\ wire' \in Seq(Byte)
  BY <1>1, <1>2, ConcatProperties DEF Write
<1>4. PICK n \in Nat, m \in Nat : n = Len(sent) /\ m = n + 1
  BY <1>1
<1>5. /\ sent' \in Seq(Message) /\ Len(sent') = m /\ sent'[m] = msg
      /\ \A i \in 1 .. n : sent'[i] = sent[i]
  BY <1>1, <1>4 DEF Write
<1>6. PICK k \in Nat : k = Len(received) /\ k <= n
  BY <1>1, <1>4 DEF IInv, SInv, Returned
<1>7. UNCHANGED <<open, reader, length, buf, received>> /\ open
  BY DEF Write
<1>8. TypeOK'
  <2>1. m <= MaxSent
    BY <1>4, CodecAssumption DEF Write
  <2> QED BY <1>3, <1>5, <1>7, <2>1 DEF IInv, TypeOK, Need
<1>9. Returned'
  <2>1. \A i \in 1 .. k : received[i] = sent[i]
    BY <1>6 DEF IInv, SInv, Returned
  <2> QED BY <1>4, <1>5, <1>6, <1>7, <2>1 DEF Returned
<1>10. Accepted'
  <2>1. \A i \in 1 .. n : PacketLength(sent[i]) <= MaxPacketSize
    BY <1>4 DEF IInv, SInv, Accepted
  <2>2. PacketLength(msg) <= MaxPacketSize
    BY DEF Write
  <2>3. ASSUME NEW i \in 1 .. m PROVE PacketLength((sent')[i]) <= MaxPacketSize
    <3>1. CASE i = m
      BY <1>5, <2>2, <3>1
    <3>2. CASE i # m
      <4>1. i \in 1 .. n
        BY <1>4, <3>2
      <4> QED BY <1>5, <2>1, <4>1
    <3> QED BY <3>1, <3>2
  <2> QED BY <1>5, <2>3 DEF Accepted, PacketLength
<1>11. reader # "failed" /\ FailsOnlyWhenBroken'
  BY <1>7 DEF IInv, SInv, FailsOnlyWhenBroken
<1>12. PICK rest : Stream(rest) /\ InStep(rest)
  BY <1>11 DEF IInv, SInv
<1>13. /\ rest \in [0 .. n -> Seq(Byte)] /\ rest[n] = <<>>
       /\ \A i \in 1 .. n : rest[i - 1] = Encode(sent[i]) \o rest[i]
  BY <1>4, <1>12 DEF Stream
<1> DEFINE next == [i \in 0 .. m |-> IF i = m THEN <<>> ELSE rest[i] \o e]
<1>14. /\ next[m] = <<>> /\ \A i \in 0 .. n : next[i] = rest[i] \o e
       /\ \A i \in 0 .. m : next[i] \in Seq(Byte)
  <2>1. \A i \in 0 .. n : rest[i] \o e \in Seq(Byte)
    BY <1>13, ConcatProperties
  <2> QED BY <1>4, <2>1
<1>15. next \in [0 .. m -> Seq(Byte)]
  BY <1>14
<1> HIDE DEF next
<1>16. ASSUME NEW i \in 1 .. m PROVE next[i - 1] = Encode((sent')[i]) \o next[i]
  <2>1. CASE i = m
    <3>1. i - 1 = n /\ n \in 0 .. n
      BY <1>4, <2>1
    <3>2. <<>> \o e = e /\ e \o <<>> = e
      OBVIOUS
    <3> QED BY <1>2, <1>5, <1>13, <1>14, <2>1, <3>1, <3>2
  <2>2. CASE i # m
    <3>1. i \in 1 .. n /\ i - 1 \in 0 .. n /\ i \in 0 .. n
      BY <1>4, <2>2
    <3>2. PICK d \in Seq(Byte) : d = Encode(sent[i])
      BY <1>1, <1>4, <3>1, EncodeIs
    <3>3. PICK r \in Seq(Byte) : r = rest[i]
      BY <1>13, <3>1
    <3>4. (d \o r) \o e = d \o (r \o e)
      BY ConcatAssociates
    <3>5. next[i - 1] = rest[i - 1] \o e /\ next[i] = r \o e
      BY <1>14, <3>1, <3>3
    <3>6. rest[i - 1] = d \o r
      BY <1>13, <3>1, <3>2, <3>3
    <3>7. Encode((sent')[i]) = d
      BY <1>5, <3>1, <3>2
    <3> QED BY <3>4, <3>5, <3>6, <3>7
  <2> QED BY <2>1, <2>2
<1>17. Stream(next)'
  BY <1>5, <1>14, <1>15, <1>16 DEF Stream, Encode, PacketLength
<1>18. buf \o wire = Ahead(rest)
  <2>1. PICK lost \in Seq(Byte) : lost = <<>> /\ (buf \o wire) \o lost = Ahead(rest)
    BY <1>7, <1>12 DEF InStep
  <2>2. PICK all \in Seq(Byte) : all = buf \o wire
    BY <1>1, ConcatProperties
  <2>3. all \o <<>> = all
    OBVIOUS
  <2> QED BY <2>1, <2>2, <2>3
<1>19. Ahead(next)' = Ahead(rest) \o e
  <2>1. CASE reader = "payload"
    <3>1. k < n
      BY <1>4, <1>6, <1>12, <2>1 DEF InStep
    <3>2. PICK l \in 1 .. n : l = k + 1
      BY <3>1
    <3>3. PICK p \in Seq(Byte) : p = Payload(sent[l])
      BY <1>1, <1>4, PacketType
    <3>4. PICK r \in Seq(Byte) : r = rest[l]
      BY <1>13
    <3>5. (p \o r) \o e = p \o (r \o e)
      BY ConcatAssociates
    <3>6. Ahead(rest) = p \o r
      BY <1>6, <2>1, <3>2, <3>3, <3>4 DEF Ahead
    <3>7. sent'[l] = sent[l] /\ next[l] = r \o e
      BY <1>5, <1>14, <3>4
    <3>8. Ahead(next)' = p \o next[l]
      BY <1>6, <1>7, <2>1, <3>2, <3>3, <3>7 DEF Ahead, Payload
    <3> QED BY <3>5, <3>6, <3>7, <3>8
  <2>2. CASE reader # "payload"
    BY <1>6, <1>7, <1>14, <2>2 DEF Ahead
  <2> QED BY <2>1, <2>2
<1>20. (buf \o wire') \o <<>> = Ahead(next)'
  <2>1. (buf \o wire) \o e = buf \o (wire \o e)
    BY <1>1, ConcatAssociates
  <2>2. PICK all \in Seq(Byte) : all = buf \o wire'
    BY <1>1, <1>3, ConcatProperties
  <2>3. all \o <<>> = all
    OBVIOUS
  <2> QED BY <1>3, <1>18, <1>19, <2>1, <2>2, <2>3
<1>21. InStep(next)'
  <2>1. reader = "payload" => k < n /\ length = PacketLength(sent[k + 1])
    BY <1>4, <1>6, <1>12 DEF InStep
  <2>2. reader = "payload" => k < m /\ length = PacketLength((sent')[k + 1])
    BY <1>4, <1>5, <2>1
  <2>3. <<>> \in Seq(Byte)
    OBVIOUS
  <2> QED BY <1>5, <1>6, <1>7, <1>20, <2>2, <2>3 DEF InStep, PacketLength
<1> QED BY <1>8, <1>9, <1>10, <1>11, <1>17, <1>21 DEF IInv, SInv

LEMMA BreakStep ==
  ASSUME IInv, Break
  PROVE  IInv'
<1>1. /\ wire \in Seq(Byte) /\ buf \in Seq(Byte) /\ open' = FALSE
      /\ UNCHANGED <<sent, reader, length, buf, received>>
  BY DEF IInv, TypeOK, Break
<1>2. PICK n \in 0 .. Len(wire) : wire' = SubSeq(wire, 1, n)
  BY DEF Break
<1>3. PICK lost \in Seq(Byte) : wire' \in Seq(Byte) /\ wire' \o lost = wire
  BY <1>1, <1>2, CutHere
<1>4. (buf' \o wire') \o lost = buf \o wire
  <2>1. PICK b \in Seq(Byte), w \in Seq(Byte) : b = buf /\ w = wire'
    BY <1>1, <1>3
  <2>2. (b \o w) \o lost = b \o (w \o lost)
    BY ONLY b \in Seq(Byte), w \in Seq(Byte), lost \in Seq(Byte), ConcatAssociates
  <2> QED BY <1>1, <1>3, <2>1, <2>2
<1>5. SInv'
  BY <1>1, <1>3, <1>4, SameStream
<1>6. TypeOK'
  BY <1>1, <1>3 DEF IInv, TypeOK, Need
<1> QED BY <1>5, <1>6 DEF IInv

LEMMA ReadStep ==
  ASSUME IInv, Read
  PROVE  IInv'
<1>1. /\ wire \in Seq(Byte) /\ buf \in Seq(Byte)
      /\ UNCHANGED <<sent, open, reader, length, received>>
  BY DEF IInv, TypeOK, Read
<1>2. PICK n \in 1 .. Len(wire) : /\ Len(buf) + n <= Need
                                 /\ buf' = buf \o SubSeq(wire, 1, n)
                                 /\ wire' = SubSeq(wire, n + 1, Len(wire))
  BY DEF Read
<1>3. PICK u \in Seq(Byte) : u = SubSeq(wire, 1, n) /\ Len(u) = n
                           /\ wire' \in Seq(Byte) /\ u \o wire' = wire
  <2>1. n \in 0 .. Len(wire)
    BY <1>1, <1>2
  <2> QED BY <1>1, <1>2, <2>1, CutHere
<1>4. buf' \in Seq(Byte) /\ Len(buf') = Len(buf) + n
  <2>1. buf \o u \in Seq(Byte) /\ Len(buf \o u) = Len(buf) + Len(u)
    BY <1>1
  <2> QED BY <1>2, <1>3, <2>1
<1>5. (buf' \o wire') \o <<>> = buf \o wire
  <2>1. (buf \o u) \o wire' = buf \o (u \o wire')
    <3>1. PICK b \in Seq(Byte), w \in Seq(Byte) : b = buf /\ w = wire'
      BY <1>1, <1>3
    <3>2. (b \o u) \o w = b \o (u \o w)
      BY ONLY b \in Seq(Byte), u \in Seq(Byte), w \in Seq(Byte), ConcatAssociates
    <3> QED BY <3>1, <3>2
  <2>2. PICK all \in Seq(Byte) : all = buf' \o wire'
    BY <1>3, <1>4, ConcatProperties
  <2>3. all \o <<>> = all
    OBVIOUS
  <2> QED BY <1>2, <1>3, <2>1, <2>2, <2>3
<1>6. SInv'
  <2>1. <<>> \in Seq(Byte)
    OBVIOUS
  <2> QED BY <1>1, <1>3, <1>4, <1>5, <2>1, SameStream
<1>7. TypeOK'
  BY <1>1, <1>2, <1>3, <1>4 DEF IInv, TypeOK, Need
<1> QED BY <1>6, <1>7 DEF IInv

LEMMA ReadFailsStep ==
  ASSUME IInv, ReadFails
  PROVE  IInv'
<1>1. UNCHANGED <<sent, open, wire, length, received>> /\ ~open /\ reader' = "failed"
      /\ buf' = <<>>
  BY DEF ReadFails
<1>2. SInv'
  BY <1>1 DEF IInv, SInv, Returned, Accepted, FailsOnlyWhenBroken, PacketLength
<1>3. TypeOK'
  BY <1>1, Sizes, CodecAssumption DEF IInv, TypeOK, Need
<1> QED BY <1>2, <1>3 DEF IInv

LEMMA UnreadAssociates ==
  ASSUME TypeOK, NEW more \in Seq(Byte)
  PROVE  (buf \o wire) \o more = buf \o (wire \o more)
<1>1. buf \in Seq(Byte) /\ wire \in Seq(Byte)
  BY DEF TypeOK
<1> QED BY <1>1, ConcatAssociates

\* The length that a full buffer holds is that of the next packet.
LEMMA LengthRead ==
  ASSUME IInv, Filled, reader = "length",
         NEW rest, Stream(rest), InStep(rest)
  PROVE  /\ Len(received) < Len(sent)
         /\ Uint(buf) = PacketLength(sent[Len(received) + 1])
         /\ \E lost \in Seq(Byte) :
              /\ open => lost = <<>>
              /\ wire \o lost = Payload(sent[Len(received) + 1]) \o rest[Len(received) + 1]
<1>1. /\ sent \in Seq(Message) /\ wire \in Seq(Byte) /\ buf \in Seq(Byte)
      /\ received \in Seq([type : 0 .. Power[TypeFieldSize] - 1, body : Seq(Byte)])
  BY DEF IInv, TypeOK
<1>2. PICK n \in Nat, k \in Nat : n = Len(sent) /\ k = Len(received) /\ k <= n
  BY <1>1 DEF IInv, SInv, Returned
<1>3. /\ rest \in [0 .. n -> Seq(Byte)] /\ rest[n] = <<>>
      /\ \A i \in 1 .. n : rest[i - 1] = Encode(sent[i]) \o rest[i]
  BY <1>2 DEF Stream
<1>4. PICK lost \in Seq(Byte) : (open => lost = <<>>) /\ (buf \o wire) \o lost = rest[k]
  BY <1>2 DEF InStep, Ahead
<1>5. PICK behind \in Seq(Byte) : behind = wire \o lost
  BY <1>1, ConcatProperties
<1>6. buf \o behind = rest[k]
  <2>1. (buf \o wire) \o lost = buf \o (wire \o lost)
    BY UnreadAssociates DEF IInv
  <2> QED BY <1>4, <1>5, <2>1
<1>7. Len(buf) = LengthFieldSize
  BY DEF Filled, Need
<1>8. k < n
  <2> SUFFICES ASSUME k = n PROVE FALSE
    BY <1>2
  <2>1. buf \o behind = <<>>
    BY <1>3, <1>6
  <2>2. Len(buf \o behind) = Len(buf) + Len(behind)
    BY <1>1
  <2> QED BY <1>1, <1>7, <2>1, <2>2, Sizes
<1>9. PICK l \in 1 .. n : l = k + 1 /\ l - 1 = k
  BY <1>8
<1>10. PICK msg \in Message : msg = sent[l]
  BY <1>1, <1>2
<1>11. PICK p \in Seq(Byte) : p = Payload(msg)
  BY PacketType
<1>12. PICK h \in Seq(Byte) : /\ h = Put(LengthFieldSize, PacketLength(msg))
                             /\ Len(h) = LengthFieldSize /\ Encode(msg) = h \o p
  BY <1>11, EncodeIs
<1>13. PICK r \in Seq(Byte) : r = rest[l]
  BY <1>3
<1>14. PICK pr \in Seq(Byte) : pr = p \o r
  BY ConcatProperties
<1>15. buf \o behind = h \o pr
  <2>1. rest[k] = (h \o p) \o r
    BY <1>3, <1>9, <1>10, <1>12, <1>13
  <2>2. (h \o p) \o r = h \o (p \o r)
    BY ONLY h \in Seq(Byte), p \in Seq(Byte), r \in Seq(Byte), ConcatAssociates
  <2> QED BY <1>6, <1>14, <2>1, <2>2
<1>16. buf = h /\ behind = pr
  <2>1. Len(buf) = Len(h) /\ buf \in Seq(Byte)
    BY <1>1, <1>7, <1>12
  <2> QED BY ONLY <1>15, <2>1, behind \in Seq(Byte), h \in Seq(Byte), pr \in Seq(Byte),
                  SameCut
<1>17. Uint(buf) = PacketLength(msg)
  <2>1. PacketLength(msg) \in Nat /\ PacketLength(msg) <= MaxPacketSize
    BY <1>2, <1>10, PacketType DEF IInv, SInv, Accepted
  <2>2. PacketLength(msg) \in 0 .. Power[LengthFieldSize] - 1
    BY <2>1, CodecAssumption, PowerType, Sizes
  <2> QED BY <1>12, <1>16, <2>2, PutAndBack, Sizes
<1> QED BY <1>2, <1>4, <1>5, <1>8, <1>9, <1>10, <1>11, <1>13, <1>14, <1>16, <1>17

LEMMA TakeLengthStep ==
  ASSUME IInv, TakeLength
  PROVE  IInv'
<1>1. /\ sent \in Seq(Message) /\ wire \in Seq(Byte) /\ buf \in Seq(Byte)
      /\ received \in Seq([type : 0 .. Power[TypeFieldSize] - 1, body : Seq(Byte)])
  BY DEF IInv, TypeOK
<1>2. /\ Filled /\ reader = "length" /\ buf' = <<>>
      /\ UNCHANGED <<sent, open, wire, received>>
  BY DEF TakeLength
<1>3. PICK rest : Stream(rest) /\ InStep(rest)
  BY <1>2 DEF IInv, SInv
<1>4. PICK n \in Nat, k \in Nat : n = Len(sent) /\ k = Len(received) /\ k <= n
  BY <1>1 DEF IInv, SInv, Returned
<1>5. /\ k < n /\ Uint(buf) = PacketLength(sent[k + 1])
      /\ \E lost \in Seq(Byte) : /\ open => lost = <<>>
                                 /\ wire \o lost = Payload(sent[k + 1]) \o rest[k + 1]
  BY <1>2, <1>3, <1>4, LengthRead
<1>6. PICK msg \in Message : msg = sent[k + 1] /\ PacketLength(msg) <= MaxPacketSize
  BY <1>1, <1>4, <1>5 DEF IInv, SInv, Accepted
<1>7. /\ PacketLength(msg) \in Nat /\ TypeFieldSize <= PacketLength(msg)
      /\ Uint(buf) = PacketLength(msg)
  BY <1>5, <1>6, PacketType
<1>8. Legal(Uint(buf))
  BY <1>6, <1>7 DEF Legal
<1>9. reader' = "payload" /\ length' = PacketLength(msg)
  BY <1>7, <1>8 DEF TakeLength
<1>10. TypeOK'
  BY <1>1, <1>2, <1>6, <1>7, <1>9, Sizes DEF IInv, TypeOK, Need
<1>11. Returned' /\ Accepted' /\ FailsOnlyWhenBroken'
  BY <1>2, <1>9 DEF IInv, SInv, Returned, Accepted, FailsOnlyWhenBroken, PacketLength
<1>12. Stream(rest)'
  BY <1>2, <1>3 DEF Stream, Encode, PacketLength
<1>13. InStep(rest)'
  <2>1. PICK lost \in Seq(Byte) : /\ open => lost = <<>>
                                 /\ wire \o lost = Payload(msg) \o rest[k + 1]
    BY <1>5, <1>6
  <2>2. <<>> \o wire = wire
    BY <1>1
  <2>3. Ahead(rest)' = Payload(msg) \o rest[k + 1]
    BY <1>2, <1>4, <1>6, <1>9 DEF Ahead, Payload
  <2>4. (buf' \o wire') \o lost = Ahead(rest)'
    BY <1>2, <2>1, <2>2, <2>3
  <2>5. length' = PacketLength((sent')[Len(received') + 1]) /\ Len(received') < Len(sent')
    BY <1>2, <1>4, <1>5, <1>6, <1>9
  <2> QED BY <1>2, <2>1, <2>4, <2>5 DEF InStep, PacketLength
<1> QED BY <1>10, <1>11, <1>12, <1>13 DEF IInv, SInv

LEMMA TakeFrameStep ==
  ASSUME IInv, TakeFrame
  PROVE  IInv'
<1> DEFINE Got == [type : 0 .. Power[TypeFieldSize] - 1, body : Seq(Byte)]
<1>1. /\ sent \in Seq(Message) /\ wire \in Seq(Byte) /\ buf \in Seq(Byte)
      /\ received \in Seq(Got)
  BY DEF IInv, TypeOK
<1>2. /\ Filled /\ reader = "payload" /\ buf' = <<>> /\ reader' = "length"
      /\ UNCHANGED <<sent, open, wire, length>>
  BY DEF TakeFrame
<1>3. PICK rest : Stream(rest) /\ InStep(rest)
  BY <1>2 DEF IInv, SInv
<1>4. PICK n \in Nat, k \in Nat : n = Len(sent) /\ k = Len(received) /\ k <= n
  BY <1>1 DEF IInv, SInv, Returned
<1>5. k < n /\ length = PacketLength(sent[k + 1])
  BY <1>2, <1>3, <1>4 DEF InStep
<1>6. PICK l \in 1 .. n : l = k + 1
  BY <1>5
<1>7. PICK msg \in Message : msg = sent[l]
  BY <1>1, <1>4
<1>8. PICK r \in Seq(Byte) : r = rest[l]
  BY <1>3, <1>4 DEF Stream
<1>9. PICK t \in Seq(Byte), b \in Seq(Byte) :
        /\ t = Put(TypeFieldSize, msg.type) /\ Len(t) = TypeFieldSize /\ b = msg.body
        /\ Payload(msg) = t \o b
  BY PacketType DEF Payload
<1>10. PICK p \in Seq(Byte) : p = t \o b /\ Len(p) = PacketLength(msg)
  BY <1>9, PacketType
<1>11. PICK lost \in Seq(Byte) : (open => lost = <<>>) /\ (buf \o wire) \o lost = p \o r
  <2>1. Ahead(rest) = p \o r
    BY <1>2, <1>4, <1>6, <1>7, <1>8, <1>9, <1>10 DEF Ahead
  <2> QED BY <1>3, <2>1 DEF InStep
<1>12. PICK behind \in Seq(Byte) : behind = wire \o lost
  BY <1>1, ConcatProperties
<1>13. buf = p /\ behind = r
  <2>1. buf \o behind = p \o r
    <3>1. (buf \o wire) \o lost = buf \o (wire \o lost)
      BY UnreadAssociates DEF IInv
    <3> QED BY <1>11, <1>12, <3>1
  <2>2. Len(buf) = Len(p)
    BY <1>2, <1>5, <1>6, <1>7, <1>10 DEF Filled, Need
  <2> QED BY ONLY <1>1, <2>1, <2>2, behind \in Seq(Byte), p \in Seq(Byte), r \in Seq(Byte),
                  SameCut
<1>14. Uint(SubSeq(buf, 1, TypeFieldSize)) = msg.type
  <2>1. SubSeq(buf, 1, TypeFieldSize) = t
    <3>1. SubSeq(t \o b, 1, Len(t)) = t
      BY CutBetween
    <3> QED BY <1>9, <1>10, <1>13, <3>1
  <2>2. msg.type \in 0 .. Power[TypeFieldSize] - 1
    BY PacketType
  <2> QED BY <1>9, <2>1, <2>2, PutAndBack, Sizes
<1>15. SubSeq(buf, TypeFieldSize + 1, Len(buf)) = msg.body
  <2>1. SubSeq(t \o b, Len(t) + 1, Len(t \o b)) = b
    BY CutBetween
  <2> QED BY <1>9, <1>10, <1>13, <2>1
<1>16. msg = [type |-> msg.type, body |-> msg.body]
  BY DEF Message
<1>17. received' = Append(received, msg)
  BY <1>14, <1>15, <1>16 DEF TakeFrame
<1>18. msg \in Got
  <2>1. msg.type \in 0 .. Power[TypeFieldSize] - 1 /\ msg.body \in Seq(Byte)
    BY PacketType
  <2> QED BY <1>16, <2>1
<1> HIDE DEF Got
<1>19. /\ received' \in Seq(Got) /\ Len(received') = l /\ received'[l] = msg
       /\ \A i \in 1 .. k : received'[i] = received[i]
  BY <1>1, <1>4, <1>6, <1>17, <1>18
<1>20. TypeOK'
  BY <1>1, <1>2, <1>19, Sizes DEF IInv, TypeOK, Need, Got
<1>21. Returned'
  <2>1. \A i \in 1 .. k : received[i] = sent[i]
    BY <1>4 DEF IInv, SInv, Returned
  <2>2. sent' = sent /\ sent[l] = msg /\ l <= Len(sent)
    BY <1>2, <1>4, <1>6, <1>7
  <2>3. ASSUME NEW i \in 1 .. l PROVE received'[i] = sent[i]
    <3>1. CASE i = l
      BY <1>19, <2>2, <3>1
    <3>2. CASE i # l
      <4>1. i \in 1 .. k
        BY <1>6, <3>2
      <4> QED BY <1>19, <2>1, <4>1
    <3> QED BY <3>1, <3>2
  <2> QED BY <1>19, <2>2, <2>3 DEF Returned
<1>22. Accepted' /\ FailsOnlyWhenBroken'
  BY <1>2 DEF IInv, SInv, Accepted, FailsOnlyWhenBroken, PacketLength
<1>23. Stream(rest)'
  BY <1>2, <1>3 DEF Stream, Encode, PacketLength
<1>24. InStep(rest)'
  <2>1. Ahead(rest)' = r
    BY <1>2, <1>8, <1>19 DEF Ahead
  <2>2. <<>> \o wire = wire
    BY <1>1
  <2>3. (buf' \o wire') \o lost = Ahead(rest)'
    BY <1>2, <1>12, <1>13, <2>1, <2>2
  <2> QED BY <1>2, <1>11, <2>3 DEF InStep
<1> QED BY <1>20, <1>21, <1>22, <1>23, <1>24 DEF IInv, SInv

LEMMA InvStep == IInv /\ [Next]_vars => IInv'
<1> SUFFICES ASSUME IInv, [Next]_vars PROVE IInv'
  OBVIOUS
<1>1. CASE UNCHANGED vars
  BY <1>1 DEF vars, IInv, TypeOK, Need, SInv, Returned, Accepted, FailsOnlyWhenBroken, Stream,
              InStep, Ahead, Payload, PacketLength, Encode
<1>2. ASSUME NEW msg \in Message, Write(msg) PROVE IInv'
  BY <1>2, WriteStep
<1>3. CASE Break
  BY <1>3, BreakStep
<1>4. CASE ReadFrame
  BY <1>4, ReadStep, ReadFailsStep, TakeLengthStep, TakeFrameStep DEF ReadFrame
<1>5. CASE Terminated
  BY <1>1, <1>5 DEF Terminated
<1> QED BY <1>1, <1>2, <1>3, <1>4, <1>5 DEF Next

-----------------------------------------------------------------------------
(* Theorems.                                                               *)

\* The buffer that io.ReadFull fills never holds more than it asks for, and what
\* ReadFrame returns is always a type and a body.
THEOREM TypeCorrect == Spec => []TypeOK
<1>1. IInv => TypeOK
  BY DEF IInv
<1> QED BY <1>1, InvInit, InvStep, PTL DEF Spec

\* However the stream is cut, and wherever it breaks, ReadFrame returns the
\* messages that were sent, in their order and with nothing in between.
THEOREM ReturnsWhatWasSent == Spec => []ReadsWhatWasSent
<1>1. IInv => ReadsWhatWasSent
  <2> SUFFICES ASSUME IInv PROVE IsPrefix(received, sent)
    BY DEF ReadsWhatWasSent
  <2>1. received \in Seq([type : 0 .. Power[TypeFieldSize] - 1, body : Seq(Byte)])
        /\ sent \in Seq(Message)
    BY DEF IInv, TypeOK
  <2>2. Len(received) <= Len(sent) /\ \A i \in 1 .. Len(received) : received[i] = sent[i]
    BY DEF IInv, SInv, Returned
  <2> QED BY <2>1, <2>2 DEF IsPrefix
<1> QED BY <1>1, InvInit, InvStep, PTL DEF Spec

\* ReadFrame never refuses a packet that Encode has let pass, up to the longest.
THEOREM AcceptsWhatWasEncoded == Spec => []FailsOnlyWhenBroken
<1>1. IInv => FailsOnlyWhenBroken
  BY DEF IInv, SInv
<1> QED BY <1>1, InvInit, InvStep, PTL DEF Spec
=============================================================================
