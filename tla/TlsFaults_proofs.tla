-------------------------- MODULE TlsFaults_proofs --------------------------
(***************************************************************************)
(* Proofs about one stream whose queues may fail to grow, whose network    *)
(* may fail and recover, and whose peer is any other implementation.       *)
(*                                                                         *)
(* What arrives in order is not shown by following the bytes through the   *)
(* queues, for some of them may be lost: a unit that is under way is a     *)
(* unit of some record its sender sealed (WeSaid, TheySaid), and a reader  *)
(* takes none but the record its counter says.  That nothing is lost       *)
(* inside, while memory lasts, does need the queues, piece by piece        *)
(* (Whole).  At the end, the stream and its peer are shown to be a secure  *)
(* channel.                                                                *)
(***************************************************************************)
EXTENDS TlsFaults, SequenceTheorems, FiniteSetTheorems, WellFoundedInduction, TLAPS

-----------------------------------------------------------------------------
(* Numbers: a least one, and the capacities of a queue.                    *)

\* A set of numbers that is not empty has a least one.
LEMMA Least ==
    ASSUME NEW T, T \subseteq Nat, T # {}
    PROVE  \E x \in T : \A y \in T : x <= y
<1> DEFINE R == OpToRel(<, Nat)
<1>1. \A x, y \in Nat : y < x => <<y, x>> \in R
  BY DEF OpToRel
<1>2. IsWellFoundedOn(R, Nat)
  BY NatLessThanWellFounded
<1> HIDE DEF R
<1>3. PICK x \in T : \A y \in T : ~ (<<y, x>> \in R)
  BY <1>2, WFMin
<1>4. ASSUME NEW y \in T PROVE x <= y
  <2> SUFFICES ASSUME ~ (x <= y) PROVE FALSE
    OBVIOUS
  <2>1. x \in Nat /\ y \in Nat /\ y < x
    OBVIOUS
  <2> QED
    BY <1>1, <1>3, <2>1
<1> QED
  BY <1>4

\* What holds of 0 and of the number after any of which it holds, holds of all.
LEMMA Counting ==
    ASSUME NEW S, 0 \in S, \A n \in Nat : n \in S => n + 1 \in S
    PROVE  \A n \in Nat : n \in S
<1> DEFINE T == Nat \ S
<1> SUFFICES ASSUME T # {} PROVE FALSE
  OBVIOUS
<1>1. PICK x \in T : \A y \in T : x <= y
  BY Least
<1>2. x # 0 /\ x - 1 \in Nat
  OBVIOUS
<1>3. x - 1 \in S
  BY <1>1, <1>2
<1> QED
  BY <1>2, <1>3

\* f gives the first n + 1 capacities.
Doubles(n, f) == f \in [0 .. n -> Nat] /\ f[0] = BaseCap /\ \A k \in 1 .. n : f[k] = 2 * f[k - 1]

\* There are that many, and no two answers to what they are.
LEMMA DoublesExist ==
    /\ \A n \in Nat : \E f : Doubles(n, f)
    /\ \A k \in Nat : \A n, m \in Nat : \A f, g :
          k <= n /\ k <= m /\ Doubles(n, f) /\ Doubles(m, g) => f[k] = g[k]
<1> USE FaultsAssumption
<1>1. \A k \in Nat : k \in {n \in Nat : \E f : Doubles(n, f)}
  <2> DEFINE S == {n \in Nat : \E f : Doubles(n, f)}
  <2>1. 0 \in S
    <3>1. Doubles(0, [k \in 0 .. 0 |-> BaseCap])
      BY DEF Doubles
    <3> QED
      BY <3>1
  <2>2. ASSUME NEW n \in Nat, n \in S PROVE n + 1 \in S
    <3>1. PICK f : Doubles(n, f)
      BY <2>2
    <3> DEFINE g == [k \in 0 .. n + 1 |-> IF k = n + 1 THEN 2 * f[n] ELSE f[k]]
    <3>2. g \in [0 .. n + 1 -> Nat]
      BY <3>1 DEF Doubles
    <3>3. g[0] = BaseCap
      BY <3>1 DEF Doubles
    <3>4. ASSUME NEW k \in 1 .. n + 1 PROVE g[k] = 2 * g[k - 1]
      <4>1. k \in 0 .. n + 1 /\ k - 1 \in 0 .. n + 1 /\ k - 1 # n + 1
        OBVIOUS
      <4>2. CASE k = n + 1
        BY <4>1, <4>2
      <4>3. CASE k # n + 1
        <5>1. k \in 1 .. n
          BY <4>3
        <5> QED
          BY <4>1, <4>3, <5>1, <3>1 DEF Doubles
      <4> QED
        BY <4>2, <4>3
    <3> HIDE DEF g
    <3>5. Doubles(n + 1, g)
      BY <3>2, <3>3, <3>4 DEF Doubles
    <3> QED
      BY <3>5
  <2> HIDE DEF S
  <2> QED
    BY <2>1, <2>2, Counting DEF S
<1>2. \A i \in Nat : i \in {k \in Nat : \A n, m \in Nat : \A f, g :
          k <= n /\ k <= m /\ Doubles(n, f) /\ Doubles(m, g) => f[k] = g[k]}
  <2> DEFINE S == {k \in Nat : \A n, m \in Nat : \A f, g :
          k <= n /\ k <= m /\ Doubles(n, f) /\ Doubles(m, g) => f[k] = g[k]}
  <2>1. 0 \in S
    BY DEF Doubles
  <2>2. ASSUME NEW k \in Nat, k \in S PROVE k + 1 \in S
    <3>1. ASSUME NEW n \in Nat, NEW m \in Nat, NEW f, NEW g,
                 k + 1 <= n, k + 1 <= m, Doubles(n, f), Doubles(m, g)
          PROVE  f[k + 1] = g[k + 1]
      <4>1. k + 1 \in 1 .. n /\ k + 1 \in 1 .. m /\ (k + 1) - 1 = k /\ k <= n /\ k <= m
        BY <3>1
      <4>2. f[k + 1] = 2 * f[k] /\ g[k + 1] = 2 * g[k]
        BY <3>1, <4>1 DEF Doubles
      <4>3. f[k] = g[k]
        BY <2>2, <3>1, <4>1
      <4> QED
        BY <4>2, <4>3
    <3> QED
      BY <3>1
  <2> HIDE DEF S
  <2> QED
    BY <2>1, <2>2, Counting DEF S
<1> QED
  BY <1>1, <1>2

\* So the recursive definition has an answer.
LEMMA CapacityIs ==
    /\ Capacity[0] = BaseCap
    /\ \A k \in Nat : Capacity[k] \in Nat /\ Capacity[k + 1] = 2 * Capacity[k]
<1> USE FaultsAssumption
<1> DEFINE first(k) == CHOOSE f : Doubles(k, f)
           g == [k \in Nat |-> first(k)[k]]
<1>1. \A k \in Nat : Doubles(k, first(k))
  BY DoublesExist
<1> HIDE DEF first
<1>2. \A k \in Nat : g[k] = first(k)[k] /\ g[k] \in Nat
  BY <1>1 DEF Doubles
<1>3. g[0] = BaseCap
  BY <1>1, <1>2 DEF Doubles
<1>4. ASSUME NEW k \in Nat, k # 0 PROVE g[k] = 2 * g[k - 1]
  <2>1. k - 1 \in Nat /\ k \in 1 .. k /\ k - 1 <= k
    BY <1>4
  <2>2. g[k] = 2 * first(k)[k - 1]
    BY <1>1, <1>2, <2>1 DEF Doubles
  <2>3. first(k)[k - 1] = first(k - 1)[k - 1]
    BY <1>1, <2>1, DoublesExist
  <2> QED
    BY <1>2, <2>1, <2>2, <2>3
<1>5. g = [k \in Nat |-> IF k = 0 THEN BaseCap ELSE 2 * g[k - 1]]
  BY <1>3, <1>4
<1> HIDE DEF g
<1>6. Capacity = [k \in Nat |-> IF k = 0 THEN BaseCap ELSE 2 * Capacity[k - 1]]
  BY <1>5 DEF Capacity
<1> DEFINE S == {k \in Nat : Capacity[k] \in Nat}
<1>7. \A k \in Nat : k \in S
  <2>1. 0 \in S
    BY <1>6
  <2>2. \A k \in Nat : k \in S => k + 1 \in S
    <3> SUFFICES ASSUME NEW k \in Nat, k \in S PROVE k + 1 \in S
      OBVIOUS
    <3>1. Capacity[k + 1] = 2 * Capacity[k]
      BY <1>6
    <3> QED
      BY <3>1
  <2> HIDE DEF S
  <2> QED
    BY <2>1, <2>2, Counting
<1> QED
  BY <1>6, <1>7

\* Doubling finds a capacity that is enough.
LEMMA DoubledIs ==
    ASSUME NEW need \in Nat
    PROVE  Doubled(need) \in Nat /\ Doubled(need) >= need
<1> USE FaultsAssumption
<1>1. \A k \in Nat : Capacity[k] \in Nat /\ Capacity[k] >= 1
  <2> DEFINE S == {k \in Nat : Capacity[k] >= 1}
  <2>1. 0 \in S
    BY CapacityIs
  <2>2. \A k \in Nat : k \in S => k + 1 \in S
    BY CapacityIs
  <2> HIDE DEF S
  <2>3. \A k \in Nat : k \in S
    BY <2>1, <2>2, Counting
  <2> QED
    BY <2>3, CapacityIs DEF S
<1>2. \A k \in Nat : Capacity[k] >= k
  <2> DEFINE S == {k \in Nat : Capacity[k] >= k}
  <2>1. 0 \in S
    BY <1>1
  <2>2. \A k \in Nat : k \in S => k + 1 \in S
    BY <1>1, CapacityIs
  <2> HIDE DEF S
  <2>3. \A k \in Nat : k \in S
    BY <2>1, <2>2, Counting
  <2> QED
    BY <2>3 DEF S
<1>3. PICK k \in {i \in Nat : Capacity[i] >= need} :
          \A j \in {i \in Nat : Capacity[i] >= need} : k <= j
  <2> DEFINE T == {k \in Nat : Capacity[k] >= need}
  <2>1. T \subseteq Nat /\ need \in T
    BY <1>2
  <2> HIDE DEF T
  <2> QED
    BY <2>1, Least DEF T
<1>4. k \in 0 .. need
  BY <1>2, <1>3
<1>5. Capacity[k] = BaseCap \/ Capacity[k] < 2 * need
  <2>1. CASE k = 0
    BY <2>1, CapacityIs
  <2>2. CASE k # 0
    <3>1. k - 1 \in Nat /\ (k - 1) + 1 = k /\ ~ (Capacity[k - 1] >= need)
      BY <1>3, <2>2
    <3>2. Capacity[k] = 2 * Capacity[k - 1] /\ Capacity[k - 1] \in Nat
      BY <3>1, CapacityIs
    <3> QED
      BY <3>1, <3>2
  <2> QED
    BY <2>1, <2>2
<1>6. \E c \in {Capacity[i] : i \in 0 .. need} : c >= need /\ (c = BaseCap \/ c < 2 * need)
  BY <1>3, <1>4, <1>5
<1>7. Doubled(need) \in {Capacity[i] : i \in 0 .. need} /\ Doubled(need) >= need
  BY <1>6 DEF Doubled
<1> QED
  BY <1>1, <1>7

\* _tls_buf_ensure: the old capacity or one that is enough, and that one for
\* certain while memory lasts.
LEMMA Ensured ==
    ASSUME NEW cap \in Nat, NEW need \in Nat, NEW c \in _tls_buf_ensure(cap, need)
    PROVE  c \in Nat /\ (c >= need \/ (c = cap /\ MayStarve))
BY DoubledIs, FaultsAssumption DEF _tls_buf_ensure

-----------------------------------------------------------------------------
(* Queues of units.                                                        *)

HeaderOf(r) == [rec |-> r, part |-> "header"]
BodyOf(r) == [rec |-> r, part |-> "body"]
Both(r) == {HeaderOf(r), BodyOf(r)}

\* The units of a queue, in whatever order.
Held(q) == {q[i] : i \in 1 .. Len(q)}

\* A record is two units.
LEMMA UnitsIs ==
    ASSUME NEW r \in Record
    PROVE  /\ Units(r) \in Seq(Unit) /\ Len(Units(r)) = 2
           /\ Units(r)[1] = HeaderOf(r) /\ Units(r)[2] = BodyOf(r) /\ Held(Units(r)) = Both(r)
<1>1. /\ HeaderOf(r) \in Unit /\ BodyOf(r) \in Unit
      /\ Units(r) = << HeaderOf(r), BodyOf(r) >>
  BY DEF HeaderOf, BodyOf, Unit, Units
<1> DEFINE h == HeaderOf(r)
           b == BodyOf(r)
<1> HIDE DEF h, b
<1>2. <<h, b>> \in Seq({h, b}) /\ Len(<<h, b>>) = 2 /\ <<h, b>>[1] = h /\ <<h, b>>[2] = b
  OBVIOUS
<1>3. Held(<<h, b>>) = {h, b}
  BY <1>2 DEF Held
<1>4. {h, b} \subseteq Unit
  BY <1>1 DEF h, b
<1>5. <<h, b>> \in Seq(Unit)
  BY <1>2, <1>4, SeqMonotonic
<1> QED
  BY <1>1, <1>2, <1>3, <1>5 DEF h, b, Both

\* A queue behind another.
LEMMA Join ==
    ASSUME NEW a \in Seq(Unit), NEW b \in Seq(Unit)
    PROVE  /\ a \o b \in Seq(Unit) /\ Len(a \o b) = Len(a) + Len(b)
           /\ Len(a) \in Nat /\ Len(b) \in Nat
           /\ \A i \in 1 .. Len(a) : (a \o b)[i] = a[i]
           /\ \A i \in 1 .. Len(b) : (a \o b)[Len(a) + i] = b[i]
           /\ Held(a \o b) = Held(a) \cup Held(b)
<1>1. /\ a \o b \in Seq(Unit) /\ Len(a \o b) = Len(a) + Len(b)
      /\ Len(a) \in Nat /\ Len(b) \in Nat
      /\ \A i \in 1 .. Len(a) + Len(b) :
            (a \o b)[i] = IF i <= Len(a) THEN a[i] ELSE b[i - Len(a)]
  BY ConcatProperties
<1>2. \A i \in 1 .. Len(a) : (a \o b)[i] = a[i]
  BY <1>1
<1>3. ASSUME NEW i \in 1 .. Len(b) PROVE (a \o b)[Len(a) + i] = b[i]
  <2>1. Len(a) + i \in 1 .. Len(a) + Len(b) /\ ~ (Len(a) + i <= Len(a)) /\ (Len(a) + i) - Len(a) = i
    BY <1>1
  <2> QED
    BY <1>1, <2>1
<1>4. Held(a \o b) \subseteq Held(a) \cup Held(b)
  <2> SUFFICES ASSUME NEW i \in 1 .. Len(a) + Len(b)
               PROVE  (a \o b)[i] \in Held(a) \cup Held(b)
    BY <1>1 DEF Held
  <2>1. CASE i <= Len(a)
    BY <1>1, <1>2, <2>1 DEF Held
  <2>2. CASE ~ (i <= Len(a))
    <3>1. i - Len(a) \in 1 .. Len(b) /\ (a \o b)[i] = b[i - Len(a)]
      BY <1>1, <2>2
    <3> QED
      BY <3>1 DEF Held
  <2> QED
    BY <2>1, <2>2
<1>5. Held(a) \subseteq Held(a \o b)
  BY <1>1, <1>2 DEF Held
<1>6. Held(b) \subseteq Held(a \o b)
  <2> SUFFICES ASSUME NEW i \in 1 .. Len(b) PROVE b[i] \in Held(a \o b)
    BY DEF Held
  <2>1. Len(a) + i \in 1 .. Len(a \o b)
    BY <1>1
  <2> QED
    BY <1>3, <2>1 DEF Held
<1> QED
  BY <1>1, <1>2, <1>3, <1>4, <1>5, <1>6

\* A queue cut in two.
LEMMA Cut ==
    ASSUME NEW a \in Seq(Unit), NEW n \in 0 .. Len(a)
    PROVE  /\ Len(a) \in Nat
           /\ SubSeq(a, 1, n) \in Seq(Unit) /\ Len(SubSeq(a, 1, n)) = n
           /\ SubSeq(a, n + 1, Len(a)) \in Seq(Unit)
           /\ Len(SubSeq(a, n + 1, Len(a))) = Len(a) - n
           /\ \A i \in 1 .. n : SubSeq(a, 1, n)[i] = a[i]
           /\ \A i \in 1 .. Len(a) - n :
                 i + n \in 1 .. Len(a) /\ SubSeq(a, n + 1, Len(a))[i] = a[i + n]
           /\ Held(SubSeq(a, 1, n)) \subseteq Held(a)
           /\ Held(SubSeq(a, n + 1, Len(a))) \subseteq Held(a)
           /\ SubSeq(a, 1, n) \o SubSeq(a, n + 1, Len(a)) = a
<1>1. Len(a) \in Nat /\ n \in Int /\ \A i \in 1 .. Len(a) : a[i] \in Unit
  BY LenProperties
<1>2. /\ SubSeq(a, 1, n) \in Seq(Unit) /\ Len(SubSeq(a, 1, n)) = n
      /\ \A i \in 1 .. n : SubSeq(a, 1, n)[i] = a[i]
  <2>1. \A i \in 1 .. n : a[i] \in Unit
    BY <1>1
  <2>2. /\ SubSeq(a, 1, n) \in Seq(Unit) /\ Len(SubSeq(a, 1, n)) = IF 1 <= n THEN n - 1 + 1 ELSE 0
        /\ \A i \in 1 .. n - 1 + 1 : SubSeq(a, 1, n)[i] = a[1 + i - 1]
    BY <1>1, <2>1, SubSeqProperties
  <2>3. n - 1 + 1 = n /\ \A i \in 1 .. n : 1 + i - 1 = i
    BY <1>1
  <2> QED
    BY <1>1, <2>2, <2>3
<1>3. /\ SubSeq(a, n + 1, Len(a)) \in Seq(Unit)
      /\ Len(SubSeq(a, n + 1, Len(a))) = Len(a) - n
      /\ \A i \in 1 .. Len(a) - n :
            i + n \in 1 .. Len(a) /\ SubSeq(a, n + 1, Len(a))[i] = a[i + n]
  <2>1. \A i \in n + 1 .. Len(a) : a[i] \in Unit
    BY <1>1
  <2>2. /\ SubSeq(a, n + 1, Len(a)) \in Seq(Unit)
        /\ Len(SubSeq(a, n + 1, Len(a))) = IF n + 1 <= Len(a) THEN Len(a) - (n + 1) + 1 ELSE 0
        /\ \A i \in 1 .. Len(a) - (n + 1) + 1 : SubSeq(a, n + 1, Len(a))[i] = a[(n + 1) + i - 1]
    BY <1>1, <2>1, SubSeqProperties
  <2>3. /\ Len(a) - (n + 1) + 1 = Len(a) - n
        /\ (IF n + 1 <= Len(a) THEN Len(a) - (n + 1) + 1 ELSE 0) = Len(a) - n
        /\ \A i \in 1 .. Len(a) - n : (n + 1) + i - 1 = i + n /\ i + n \in 1 .. Len(a)
    BY <1>1
  <2> DEFINE b == SubSeq(a, n + 1, Len(a))
  <2> HIDE DEF b
  <2>4. /\ b \in Seq(Unit) /\ Len(b) = Len(a) - n
        /\ \A i \in 1 .. Len(a) - n : b[i] = a[(n + 1) + i - 1]
    BY <2>2, <2>3 DEF b
  <2>5. \A i \in 1 .. Len(a) - n : i + n \in 1 .. Len(a) /\ b[i] = a[i + n]
    BY <2>3, <2>4
  <2> QED
    BY <2>4, <2>5 DEF b
<1>4. Held(SubSeq(a, 1, n)) \subseteq Held(a)
  BY <1>1, <1>2 DEF Held
<1>5. Held(SubSeq(a, n + 1, Len(a))) \subseteq Held(a)
  BY <1>1, <1>3 DEF Held
<1>6. SubSeq(a, 1, n) \o SubSeq(a, n + 1, Len(a)) = a
  <2> DEFINE x == SubSeq(a, 1, n)
             y == SubSeq(a, n + 1, Len(a))
  <2>0. /\ x \in Seq(Unit) /\ Len(x) = n /\ y \in Seq(Unit) /\ Len(y) = Len(a) - n
        /\ \A i \in 1 .. n : x[i] = a[i]
        /\ \A i \in 1 .. Len(a) - n : y[i] = a[i + n]
    BY <1>2, <1>3
  <2> HIDE DEF x, y
  <2>1. /\ x \o y \in Seq(Unit) /\ Len(x \o y) = Len(a)
        /\ \A i \in 1 .. n : (x \o y)[i] = x[i]
        /\ \A i \in 1 .. Len(a) - n : (x \o y)[n + i] = y[i]
    <3>1. n + (Len(a) - n) = Len(a)
      BY <1>1
    <3> QED
      BY <2>0, <3>1, Join
  <2>2. ASSUME NEW i \in 1 .. Len(a) PROVE (x \o y)[i] = a[i]
    <3>1. CASE i <= n
      <4>1. i \in 1 .. n
        BY <1>1, <3>1
      <4> QED
        BY <2>0, <2>1, <4>1
    <3>2. CASE ~ (i <= n)
      <4>1. i - n \in 1 .. Len(a) - n /\ n + (i - n) = i /\ (i - n) + n = i
        BY <1>1, <3>2
      <4>2. (x \o y)[n + (i - n)] = y[i - n] /\ y[i - n] = a[(i - n) + n]
        BY <2>0, <2>1, <4>1
      <4> QED
        BY <4>1, <4>2
    <3> QED
      BY <3>1, <3>2
  <2>3. x \o y = a
    BY <2>1, <2>2, SeqEqual
  <2> QED
    BY <2>3 DEF x, y
<1> QED
  BY <1>1, <1>2, <1>3, <1>4, <1>5, <1>6

\* The room a queue takes does not grow when units are taken from its front.
LEMMA SizeIs ==
    ASSUME NEW a \in Seq(Unit)
    PROVE  /\ Size(a) \in Nat /\ Size(<<>>) = 0
           /\ \A n \in 0 .. Len(a) : Size(SubSeq(a, n + 1, Len(a))) <= Size(a)
<1>1. ASSUME NEW b \in Seq(Unit)
      PROVE  IsFiniteSet(Bulky(b)) /\ Cardinality(Bulky(b)) \in Nat /\ Size(b) \in Nat
  <2>1. Len(b) \in Nat /\ Bulky(b) \in SUBSET (1 .. Len(b))
    BY DEF Bulky
  <2>2. IsFiniteSet(Bulky(b))
    <3>1. IsFiniteSet(1 .. Len(b))
      BY <2>1, FS_Interval
    <3> QED
      BY <2>1, <3>1, FS_Subset
  <2> QED
    BY <2>1, <2>2, FS_CardinalityType DEF Size
<1>2. Size(<<>>) = 0
  <2>1. Bulky(<<>>) = {} /\ Len(<<>>) = 0
    BY DEF Bulky
  <2>2. Cardinality(Bulky(<<>>)) = 0
    BY <2>1, FS_EmptySet
  <2> QED
    BY <2>1, <2>2 DEF Size
<1>3. ASSUME NEW n \in 0 .. Len(a) PROVE Size(SubSeq(a, n + 1, Len(a))) <= Size(a)
  <2> DEFINE b == SubSeq(a, n + 1, Len(a))
             f == [i \in Bulky(b) |-> i + n]
  <2>1. /\ b \in Seq(Unit) /\ Len(b) = Len(a) - n /\ Len(a) \in Nat
        /\ \A i \in 1 .. Len(b) : i + n \in 1 .. Len(a) /\ b[i] = a[i + n]
    BY Cut
  <2> HIDE DEF b
  <2>2. ASSUME NEW i \in Bulky(b) PROVE i + n \in Bulky(a)
    <3>1. i \in 1 .. Len(b) /\ b[i].rec.type = "data" /\ b[i].part = "body"
      BY DEF Bulky
    <3>2. i + n \in 1 .. Len(a) /\ b[i] = a[i + n]
      BY <2>1, <3>1
    <3> QED
      BY <3>1, <3>2 DEF Bulky
  <2>3. Bulky(b) \subseteq Int /\ n \in Int
    BY <2>1 DEF Bulky
  <2>4. f \in Injection(Bulky(b), Bulky(a))
    <3>1. f \in [Bulky(b) -> Bulky(a)]
      BY <2>2
    <3>2. \A i, j \in Bulky(b) : f[i] = f[j] => i = j
      BY <2>3
    <3> QED
      BY <3>1, <3>2 DEF Injection, IsInjective
  <2> HIDE DEF f
  <2>5. Cardinality(Bulky(b)) <= Cardinality(Bulky(a))
    BY <1>1, <2>4, FS_Injection
  <2>6. Cardinality(Bulky(a)) \in Nat /\ Cardinality(Bulky(b)) \in Nat
    BY <1>1, <2>1
  <2>7. Len(b) + Cardinality(Bulky(b)) <= Len(a) + Cardinality(Bulky(a))
    BY <2>1, <2>5, <2>6
  <2> QED
    BY <2>7 DEF Size, b
<1> QED
  BY <1>1, <1>2, <1>3

-----------------------------------------------------------------------------
(* What the operators on a session do to its output.                       *)

OutUnits(s) == Held(s.outb) \cup Held(s.outLeft)
OutFits(s) == Size(s.outb) <= s.outCap
SameOut(s, t) ==
    t.outb = s.outb /\ t.outLeft = s.outLeft /\ t.outCap = s.outCap /\ t.nextOut = s.nextOut
SameIn(s, t) ==
    /\ t.inb = s.inb /\ t.left = s.left /\ t.inCap = s.inCap
    /\ t.nextIn = s.nextIn /\ t.zeros = s.zeros

\* The record the session seals next.
Ours(s, type, val) == [seq |-> s.nextOut, type |-> type, val |-> val]

\* From s to t nothing was sealed; from s to t one record was.
Flushed(s, t) ==
    /\ t \in Session /\ SameIn(s, t) /\ t.nextOut = s.nextOut
    /\ OutUnits(t) \subseteq OutUnits(s) /\ (OutFits(s) => OutFits(t))
    /\ MayStarve \/ Sent(t)
Wrote(s, t, type, val) ==
    /\ t \in Session /\ SameIn(s, t) /\ t.nextOut = s.nextOut + 1
    /\ OutUnits(t) \subseteq OutUnits(s) \cup Both(Ours(s, type, val))
    /\ OutFits(s) => OutFits(t)
    /\ MayStarve \/ Sent(t)

\* The fields of a session and their lengths.
LEMMA SessionIs ==
    ASSUME NEW s \in Session
    PROVE  /\ s.inb \in Seq(Unit) /\ s.left \in Seq(Unit) /\ s.outb \in Seq(Unit)
           /\ s.outLeft \in Seq(Unit) /\ s.inCap \in Nat /\ s.outCap \in Nat
           /\ s.nextIn \in Nat /\ s.nextOut \in Nat /\ s.zeros \in 0 .. 4
           /\ Len(s.inb) \in Nat /\ Len(s.left) \in Nat /\ Len(s.outb) \in Nat
<1>1. /\ s.inb \in Seq(Unit) /\ s.left \in Seq(Unit) /\ s.outb \in Seq(Unit)
      /\ s.outLeft \in Seq(Unit) /\ s.inCap \in Nat /\ s.outCap \in Nat
      /\ s.nextIn \in Nat /\ s.nextOut \in Nat /\ s.zeros \in 0 .. 4
  BY DEF Session
<1> QED
  BY <1>1, LenProperties

\* A queue with nothing in it.
LEMMA EmptyIs ==
    <<>> \in Seq(Unit) /\ Held(<<>>) = {} /\ Len(<<>>) = 0 /\ Len(<<>>) <= Chunk
BY FaultsAssumption DEF Held

\* mbedtls_ssl_flush_output.
LEMMA FlushOutputIs ==
    ASSUME NEW s \in Session, NEW t \in FlushOutput(s)
    PROVE  Flushed(s, t)
<1> DEFINE q == s.outb \o s.outLeft
           need == Size(q)
<1>1. /\ q \in Seq(Unit) /\ need \in Nat /\ Held(q) = OutUnits(s)
  BY SessionIs, Join, SizeIs DEF OutUnits
<1>2. PICK cap \in _tls_buf_ensure(s.outCap, need) :
          t = IF cap < need /\ cap = s.outCap THEN s
              ELSE [s EXCEPT !.outb = q, !.outLeft = <<>>, !.outCap = cap]
  BY DEF FlushOutput
<1> HIDE DEF q
<1>3. cap \in Nat /\ (cap >= need \/ (cap = s.outCap /\ MayStarve))
  BY <1>1, <1>2, SessionIs, Ensured
<1>4. CASE cap < need /\ cap = s.outCap
  <2>1. t = s /\ MayStarve
    BY <1>1, <1>2, <1>3, <1>4
  <2> QED
    BY <2>1 DEF Flushed, SameIn
<1>5. CASE ~ (cap < need /\ cap = s.outCap)
  <2>1. t = [s EXCEPT !.outb = q, !.outLeft = <<>>, !.outCap = cap]
    BY <1>2, <1>5
  <2>2. need <= cap
    BY <1>1, <1>3, <1>5
  <2>3. t \in Session
    BY <1>1, <1>3, <2>1, EmptyIs DEF Session
  <2>4. t.outb = q /\ t.outLeft = <<>> /\ t.outCap = cap /\ t.nextOut = s.nextOut /\ SameIn(s, t)
    BY <2>1 DEF Session, SameIn
  <2>5. OutUnits(t) = Held(q)
    BY <2>4, EmptyIs DEF OutUnits
  <2> QED
    BY <1>1, <2>2, <2>3, <2>4, <2>5 DEF Flushed, OutFits, Sent
<1> QED
  BY <1>4, <1>5

\* mbedtls_ssl_write_record.
LEMMA WriteRecordIs ==
    ASSUME NEW s \in Session, NEW type \in FromUs, NEW val \in Nat,
           NEW t \in WriteRecord(s, type, val)
    PROVE  Wrote(s, t, type, val)
<1> DEFINE r == Ours(s, type, val)
           u == Seal(s, type, val)
<1>1. r \in Record
  BY SessionIs DEF Ours, Record
<1>2. /\ Units(r) \in Seq(Unit) /\ Held(Units(r)) = Both(r)
      /\ s.outLeft \o Units(r) \in Seq(Unit)
      /\ Held(s.outLeft \o Units(r)) = Held(s.outLeft) \cup Both(r)
  BY <1>1, UnitsIs, SessionIs, Join
<1>3. u = [s EXCEPT !.outLeft = s.outLeft \o Units(r), !.nextOut = s.nextOut + 1]
  BY DEF Seal, Ours, Session
<1> HIDE DEF r, u
<1>4. u \in Session
  <2>1. s.nextOut + 1 \in Nat
    BY SessionIs
  <2> QED
    BY <1>2, <1>3, <2>1 DEF Session
<1>5. /\ SameIn(s, u) /\ u.nextOut = s.nextOut + 1 /\ u.outb = s.outb /\ u.outCap = s.outCap
      /\ u.outLeft = s.outLeft \o Units(r)
  BY <1>3 DEF Session, SameIn
<1>6. OutUnits(u) = OutUnits(s) \cup Both(r) /\ (OutFits(s) => OutFits(u))
  BY <1>2, <1>5 DEF OutUnits, OutFits
<1>7. t \in FlushOutput(u)
  BY DEF WriteRecord, u
<1>8. Flushed(u, t)
  BY <1>4, <1>7, FlushOutputIs
<1>9. SameIn(s, t)
  BY <1>5, <1>8 DEF Flushed, SameIn
<1> QED
  BY <1>5, <1>6, <1>8, <1>9 DEF Flushed, Wrote, r

\* mbedtls_ssl_send_alert_message.
LEMMA SendAlertIs ==
    ASSUME NEW s \in Session, NEW type \in FromUs, NEW t \in SendAlert(s, type)
    PROVE  Wrote(s, t, type, 0) \/ Flushed(s, t)
BY WriteRecordIs, FlushOutputIs DEF SendAlert

-----------------------------------------------------------------------------
(* What the operators on a session do to its input.                        *)

InUnits(s) == Held(s.left) \cup Held(s.inb)
InFits(s) == Size(s.inb) <= s.inCap /\ Len(s.left) <= 1

\* From s to t the first n units were read.
Took(s, t, n) ==
    /\ t \in Session /\ SameOut(s, t)
    /\ InUnits(t) \subseteq InUnits(s) /\ InFits(t)
    /\ Fetched(t) = SubSeq(Fetched(s), n + 1, Len(Fetched(s)))

\* What mbedTLS can look at is what it holds, then in_buf.
LEMMA FetchedIs ==
    ASSUME NEW s \in Session
    PROVE  /\ Fetched(s) \in Seq(Unit) /\ Held(Fetched(s)) = InUnits(s)
           /\ Len(Fetched(s)) \in Nat /\ Len(Fetched(s)) = Len(s.left) + Len(s.inb)
           /\ \A i \in 1 .. Len(Fetched(s)) : Fetched(s)[i] \in InUnits(s)
<1>1. /\ Fetched(s) \in Seq(Unit) /\ Held(Fetched(s)) = InUnits(s)
      /\ Len(Fetched(s)) = Len(s.left) + Len(s.inb)
  BY SessionIs, Join DEF Fetched, InUnits
<1> QED
  BY <1>1, LenProperties DEF Held

\* What is behind the bytes mbedTLS holds is in in_buf.
LEMMA BehindLeft ==
    ASSUME NEW s \in Session, InFits(s), NEW n \in 1 .. Len(Fetched(s))
    PROVE  LET q == SubSeq(Fetched(s), n + 1, Len(Fetched(s))) IN
           /\ q \in Seq(Unit) /\ Held(q) \subseteq InUnits(s) /\ Size(q) <= Size(s.inb)
<1> DEFINE f == Fetched(s)
           q == SubSeq(f, n + 1, Len(f))
           m == n - Len(s.left)
           p == SubSeq(s.inb, m + 1, Len(s.inb))
<1>1. /\ f \in Seq(Unit) /\ Held(f) = InUnits(s) /\ Len(f) = Len(s.left) + Len(s.inb)
      /\ s.left \in Seq(Unit) /\ s.inb \in Seq(Unit) /\ Len(s.left) \in Nat /\ Len(s.inb) \in Nat
      /\ Len(s.left) <= 1
  BY FetchedIs, SessionIs DEF InFits
<1>2. \A i \in 1 .. Len(s.inb) : f[Len(s.left) + i] = s.inb[i]
  BY <1>1, Join DEF Fetched
<1>3. m \in 0 .. Len(s.inb) /\ n \in 0 .. Len(f) /\ n = Len(s.left) + m
  <2>1. \A x, y \in Nat : \A k \in 1 .. x + y :
            x <= 1 => k - x \in 0 .. y /\ k \in 0 .. x + y /\ k = x + (k - x)
    OBVIOUS
  <2> QED
    BY <1>1, <2>1, Zenon
<1> HIDE DEF f, m
<1>4. /\ q \in Seq(Unit) /\ Len(q) = Len(f) - n /\ Held(q) \subseteq Held(f)
      /\ \A i \in 1 .. Len(f) - n : q[i] = f[i + n]
  BY <1>1, <1>3, Cut
<1>5. /\ p \in Seq(Unit) /\ Len(p) = Len(s.inb) - m /\ Size(p) <= Size(s.inb)
      /\ \A i \in 1 .. Len(s.inb) - m : i + m \in 1 .. Len(s.inb) /\ p[i] = s.inb[i + m]
  BY <1>1, <1>3, Cut, SizeIs
<1>6. q = p
  <2>1. Len(f) - n = Len(s.inb) - m
    BY <1>1, <1>3
  <2>2. ASSUME NEW i \in 1 .. Len(s.inb) - m PROVE q[i] = p[i]
    <3>1. /\ i + m \in 1 .. Len(s.inb) /\ Len(s.left) + (i + m) = i + n
          /\ i \in 1 .. Len(f) - n
      <4>1. \A x, y \in Nat : \A k \in 1 .. y : x + (k + m) = k + (x + m)
        BY <1>1, <1>3
      <4>2. i \in 1 .. Len(f) - n /\ i + m \in 1 .. Len(s.inb)
        BY <1>5, <2>1
      <4>3. Len(s.inb) - m \in Nat
        BY <1>1, <1>3
      <4>4. Len(s.left) + (i + m) = i + (Len(s.left) + m)
        BY <1>1, <4>1, <4>3
      <4> QED
        BY <1>3, <4>2, <4>4
    <3> HIDE DEF q, p
    <3>2. q[i] = f[i + n] /\ p[i] = s.inb[i + m] /\ f[Len(s.left) + (i + m)] = s.inb[i + m]
      BY <1>2, <1>4, <1>5, <3>1
    <3> QED
      BY <3>1, <3>2
  <2> HIDE DEF q, p
  <2> QED
    BY <1>4, <1>5, <2>1, <2>2, SeqEqual
<1> HIDE DEF p
<1> QED
  BY <1>1, <1>4, <1>5, <1>6 DEF f

\* A record is given up.
LEMMA DiscardIs ==
    ASSUME NEW s \in Session, InFits(s), HasRecord(s)
    PROVE  LET t == Discard(s) IN
           Took(s, t, 2) /\ t.nextIn = s.nextIn /\ t.zeros = s.zeros
<1> DEFINE f == Fetched(s)
           q == SubSeq(f, 3, Len(f))
           t == Discard(s)
<1>1. /\ f \in Seq(Unit) /\ Len(f) \in Nat /\ 2 \in 1 .. Len(f)
  <2>1. f \in Seq(Unit) /\ Len(f) \in Nat
    BY FetchedIs
  <2>2. Len(f) >= 2
    BY DEF HasRecord
  <2> QED
    BY <2>1, <2>2
<1>2. /\ q \in Seq(Unit) /\ Held(q) \subseteq InUnits(s) /\ Size(q) <= Size(s.inb)
  <2>1. 2 + 1 = 3
    OBVIOUS
  <2> QED
    BY <1>1, <2>1, BehindLeft
<1>3. t = [s EXCEPT !.left = <<>>, !.inb = q]
  BY DEF Discard
<1> HIDE DEF q, t
<1>4. t \in Session
  BY <1>2, <1>3, EmptyIs DEF Session
<1>5. /\ t.left = <<>> /\ t.inb = q /\ t.inCap = s.inCap /\ SameOut(s, t)
      /\ t.nextIn = s.nextIn /\ t.zeros = s.zeros
  BY <1>3 DEF Session, SameOut
<1>6. Fetched(t) = q
  BY <1>2, <1>5, ConcatEmptySeq DEF Fetched
<1>7. InUnits(t) = Held(q)
  BY <1>5, EmptyIs DEF InUnits
<1>8. InFits(t)
  <2>1. Size(q) \in Nat /\ Size(s.inb) \in Nat /\ s.inCap \in Nat
    BY <1>2, SizeIs, SessionIs
  <2> QED
    BY <1>2, <1>5, <2>1, EmptyIs DEF InFits
<1>9. q = SubSeq(f, 2 + 1, Len(f))
  BY DEF q
<1> QED
  BY <1>2, <1>4, <1>5, <1>6, <1>7, <1>8, <1>9 DEF Took, t

\* The counters are no part of what is fetched.
Recount(s, c, z) == [s EXCEPT !.nextIn = c, !.zeros = z]
\* Counting a record leaves its bytes where they are.
LEMMA Recounted ==
    ASSUME NEW s \in Session, NEW t, NEW n, Took(s, t, n), NEW c \in Nat, NEW z \in 0 .. 4
    PROVE  Took(s, Recount(t, c, z), n)
<1> DEFINE u == Recount(t, c, z)
<1>1. t \in Session
  BY DEF Took
<1>2. /\ u \in Session /\ u.nextIn = c /\ u.zeros = z
      /\ u.inb = t.inb /\ u.left = t.left /\ u.inCap = t.inCap
      /\ u.outb = t.outb /\ u.outLeft = t.outLeft /\ u.outCap = t.outCap /\ u.nextOut = t.nextOut
  BY <1>1 DEF Session, Recount
<1> HIDE DEF u
<1>3. Fetched(u) = Fetched(t) /\ InUnits(u) = InUnits(t) /\ InFits(u) = InFits(t)
  BY <1>2 DEF Fetched, InUnits, InFits
<1>4. Took(s, u, n)
  BY <1>2, <1>3 DEF Took, SameOut
<1> QED
  BY <1>2, <1>4 DEF u

\* A record is taken and counted; an empty one is counted twice.
LEMMA TakeIs ==
    ASSUME NEW s \in Session, InFits(s), HasRecord(s)
    PROVE  /\ LET t == TakeRecord(s) IN
              Took(s, t, 2) /\ t.nextIn = s.nextIn + 1 /\ t.zeros = 0
           /\ s.zeros < 3 =>
                LET t == TakeEmpty(s) IN
                Took(s, t, 2) /\ t.nextIn = s.nextIn + 1 /\ t.zeros = s.zeros + 1
           /\ LET t == [Discard(s) EXCEPT !.zeros = 4] IN
              Took(s, t, 2) /\ t.nextIn = s.nextIn /\ t.zeros = 4
<1> DEFINE d == Discard(s)
<1>1. Took(s, d, 2) /\ d.nextIn = s.nextIn /\ d.zeros = s.zeros /\ d \in Session
  BY DiscardIs DEF Took
<1>2. s.nextIn \in Nat /\ s.nextIn + 1 \in Nat /\ s.zeros \in 0 .. 4
  BY SessionIs
<1> HIDE DEF d
<1>3. TakeRecord(s) = Recount(d, s.nextIn + 1, 0)
  BY <1>1 DEF TakeRecord, Recount, d
<1>4. TakeEmpty(s) = Recount(d, s.nextIn + 1, s.zeros + 1)
  BY <1>1 DEF TakeEmpty, Recount, d
<1>5. [d EXCEPT !.zeros = 4] = Recount(d, s.nextIn, 4)
  BY <1>1 DEF Session, Recount
<1>6. s.zeros < 3 => s.zeros + 1 \in 0 .. 4
  BY <1>2
<1>7. ASSUME NEW c \in Nat, NEW z \in 0 .. 4
      PROVE  /\ Took(s, Recount(d, c, z), 2)
             /\ Recount(d, c, z).nextIn = c /\ Recount(d, c, z).zeros = z
  <2>1. Took(s, d, 2)
    BY <1>1
  <2>2. Took(s, Recount(d, c, z), 2)
    BY <2>1, Recounted
  <2> QED
    BY <1>1, <2>2 DEF Recount, Session
<1>8. 0 \in 0 .. 4 /\ 4 \in 0 .. 4
  OBVIOUS
<1> DEFINE took(t, c, z) == Took(s, t, 2) /\ t.nextIn = c /\ t.zeros = z
<1>9. took(TakeRecord(s), s.nextIn + 1, 0)
  BY <1>2, <1>3, <1>7, <1>8
<1>10. s.zeros < 3 => took(TakeEmpty(s), s.nextIn + 1, s.zeros + 1)
  BY <1>2, <1>4, <1>6, <1>7
<1>11. took([Discard(s) EXCEPT !.zeros = 4], s.nextIn, 4)
  <2>1. took(Recount(d, s.nextIn, 4), s.nextIn, 4)
    BY <1>2, <1>7, <1>8
  <2> HIDE DEF took
  <2>2. took([d EXCEPT !.zeros = 4], s.nextIn, 4)
    BY <1>5, <2>1
  <2> QED
    BY <2>2 DEF d
<1> QED
  BY <1>9, <1>10, <1>11

\* What is no record yet is kept, and so is what can be none.
LEMMA KeepIs ==
    ASSUME NEW s \in Session, InFits(s)
    PROVE  /\ ~ HasRecord(s) /\ ~ Garbled(s) =>
                LET t == KeepPartial(s) IN
                Took(s, t, 0) /\ t.nextIn = s.nextIn /\ t.zeros = s.zeros
           /\ Garbled(s) =>
                LET t == KeepGarbage(s) IN
                Took(s, t, 0) /\ t.nextIn = s.nextIn /\ t.zeros = s.zeros
<1> DEFINE f == Fetched(s)
<1>1. /\ f \in Seq(Unit) /\ Len(f) \in Nat /\ Held(f) = InUnits(s) /\ s.inCap \in Nat
      /\ s.inb \in Seq(Unit) /\ Size(s.inb) \in Nat /\ Size(s.inb) <= s.inCap /\ Size(<<>>) = 0
  BY FetchedIs, SessionIs, SizeIs DEF InFits
<1>2. SubSeq(f, 0 + 1, Len(f)) = f
  BY <1>1, SubSeqFull
<1>3. ASSUME ~ HasRecord(s), ~ Garbled(s)
      PROVE  LET t == KeepPartial(s) IN
             Took(s, t, 0) /\ t.nextIn = s.nextIn /\ t.zeros = s.zeros
  <2> DEFINE t == KeepPartial(s)
  <2>1. t = [s EXCEPT !.left = f, !.inb = <<>>]
    BY DEF KeepPartial
  <2>2. Len(f) <= 1
    BY <1>1, <1>3 DEF HasRecord
  <2> HIDE DEF t, f
  <2>3. t \in Session
    BY <1>1, <2>1, EmptyIs DEF Session
  <2>4. /\ t.left = f /\ t.inb = <<>> /\ t.inCap = s.inCap /\ SameOut(s, t)
        /\ t.nextIn = s.nextIn /\ t.zeros = s.zeros
    BY <2>1 DEF Session, SameOut
  <2>5. Fetched(t) = f
    BY <1>1, <2>4, ConcatEmptySeq DEF Fetched
  <2>6. InUnits(t) = Held(f)
    BY <2>4, EmptyIs DEF InUnits
  <2>7. InFits(t)
    BY <1>1, <2>2, <2>4 DEF InFits
  <2>8. Fetched(t) = SubSeq(Fetched(s), 0 + 1, Len(Fetched(s)))
    BY <1>2, <2>5 DEF f
  <2> QED
    BY <1>1, <2>3, <2>4, <2>6, <2>7, <2>8 DEF Took, t
<1>4. ASSUME Garbled(s)
      PROVE  LET t == KeepGarbage(s) IN
             Took(s, t, 0) /\ t.nextIn = s.nextIn /\ t.zeros = s.zeros
  <2> DEFINE t == KeepGarbage(s)
             a == << f[1] >>
             b == SubSeq(f, 1 + 1, Len(f))
  <2>1. Len(f) # 0
    BY <1>1, <1>4, EmptySeq DEF Garbled
  <2>2. 1 \in 1 .. Len(f) /\ 1 \in 0 .. Len(f)
    BY <1>1, <2>1
  <2>3. b \in Seq(Unit) /\ Held(b) \subseteq InUnits(s) /\ Size(b) <= Size(s.inb)
    BY <2>2, BehindLeft
  <2>4. f[1] \in Unit /\ a \in Seq(Unit) /\ Len(a) = 1 /\ a[1] = f[1]
    BY <1>1, <2>2, ElementOfSeq
  <2>5. SubSeq(f, 1, 1) = a
    <3>1. SubSeq(f, 1, 1) \in Seq(Unit) /\ Len(SubSeq(f, 1, 1)) = 1 /\ SubSeq(f, 1, 1)[1] = f[1]
      BY <1>1, <2>2, Cut
    <3> HIDE DEF f, a
    <3> DEFINE c == SubSeq(f, 1, 1)
    <3> HIDE DEF c
    <3>2. \A i \in 1 .. 1 : c[i] = a[i]
      BY <2>4, <3>1 DEF c
    <3>3. c = a
      BY <2>4, <3>1, <3>2, SeqEqual DEF c
    <3> QED
      BY <3>3 DEF c
  <2>6. a \o b = f
    <3>1. SubSeq(f, 1, 1) \o SubSeq(f, 1 + 1, Len(f)) = f
      BY <1>1, <2>2, Cut
    <3> QED
      BY <2>5, <3>1
  <2>7. t = [s EXCEPT !.left = a, !.inb = b]
    BY DEF KeepGarbage
  <2> HIDE DEF t, a, b, f
  <2>8. t \in Session
    BY <2>3, <2>4, <2>7 DEF Session
  <2>9. /\ t.left = a /\ t.inb = b /\ t.inCap = s.inCap /\ SameOut(s, t)
        /\ t.nextIn = s.nextIn /\ t.zeros = s.zeros
    BY <2>7 DEF Session, SameOut
  <2>10. Fetched(t) = f /\ InUnits(t) = Held(f)
    BY <2>3, <2>4, <2>6, <2>9, Join DEF Fetched, InUnits
  <2>11. Size(b) \in Nat
    BY <2>3, SizeIs
  <2>12. InFits(t)
    <3>1. Size(b) <= s.inCap
      BY <1>1, <2>3, <2>11
    <3>2. Len(t.left) = 1 /\ t.inb = b /\ t.inCap = s.inCap
      BY <2>4, <2>9
    <3> QED
      BY <3>1, <3>2 DEF InFits
  <2>13. Fetched(t) = SubSeq(Fetched(s), 0 + 1, Len(Fetched(s)))
    BY <1>2, <2>10 DEF f
  <2> QED
    BY <1>1, <2>8, <2>9, <2>10, <2>12, <2>13 DEF Took, t
<1> QED
  BY <1>3, <1>4

\* tls_read_tls: all of it or none of it, and all while memory lasts.
LEMMA tls_read_tlsIs ==
    ASSUME NEW s \in Session, InFits(s), NEW units \in Seq(Unit), NEW t \in tls_read_tls(s, units)
    PROVE  /\ t \in Session /\ SameOut(s, t) /\ InFits(t)
           /\ t.left = s.left /\ t.nextIn = s.nextIn /\ t.zeros = s.zeros
           /\ t.inb = s.inb \o units \/ (t.inb = s.inb /\ MayStarve)
<1> DEFINE q == s.inb \o units
           need == Size(q)
<1>1. q \in Seq(Unit) /\ need \in Nat /\ s.inCap \in Nat /\ Len(s.left) <= 1
  BY SessionIs, Join, SizeIs DEF InFits
<1>2. PICK cap \in _tls_buf_ensure(s.inCap, need) :
          t = IF cap < need /\ cap = s.inCap THEN s
              ELSE [s EXCEPT !.inb = q, !.inCap = cap]
  BY DEF tls_read_tls
<1> HIDE DEF q
<1>3. cap \in Nat /\ (cap >= need \/ (cap = s.inCap /\ MayStarve))
  BY <1>1, <1>2, Ensured
<1>4. CASE cap < need /\ cap = s.inCap
  <2>1. t = s /\ MayStarve
    BY <1>1, <1>2, <1>3, <1>4
  <2> QED
    BY <2>1 DEF SameOut
<1>5. CASE ~ (cap < need /\ cap = s.inCap)
  <2>1. t = [s EXCEPT !.inb = q, !.inCap = cap] /\ need <= cap
    BY <1>1, <1>2, <1>3, <1>5
  <2>2. t \in Session
    BY <1>1, <1>3, <2>1 DEF Session
  <2>3. /\ t.inb = q /\ t.inCap = cap /\ SameOut(s, t)
        /\ t.left = s.left /\ t.nextIn = s.nextIn /\ t.zeros = s.zeros
    BY <2>1 DEF Session, SameOut
  <2> QED
    BY <1>1, <2>1, <2>2, <2>3 DEF InFits, q
<1> QED
  BY <1>4, <1>5

-----------------------------------------------------------------------------
(* Logs: the records one side sealed, in order.                            *)

Numbered(log) == \A i \in 1 .. Len(log) : log[i].seq = i - 1

\* Units of records of a log.
From(log, units) == \A u \in units : u.rec.seq < Len(log) /\ log[u.rec.seq + 1] = u.rec

\* How many of the first n records are of data.
Datas(log, n) == {i \in 1 .. n : log[i].type = "data"}
Count(log, n) == Cardinality(Datas(log, n))

\* The data records among the first n grow with n, by one or not at all.
LEMMA CountIs ==
    ASSUME NEW log, NEW n \in Nat
    PROVE  /\ Count(log, n) \in Nat /\ Count(log, 0) = 0
           /\ log[n + 1].type = "data" => Count(log, n + 1) = Count(log, n) + 1
           /\ log[n + 1].type # "data" => Count(log, n + 1) = Count(log, n)
           /\ \A m \in 0 .. n : Count(log, m) \in Nat /\ Count(log, m) <= Count(log, n)
           /\ \A m \in 1 .. n : log[m].type = "data" => Count(log, m) \in 1 .. Count(log, n)
<1>1. ASSUME NEW m \in Nat PROVE IsFiniteSet(Datas(log, m)) /\ Count(log, m) \in Nat
  <2>1. Datas(log, m) \in SUBSET (1 .. m)
    BY DEF Datas
  <2>2. IsFiniteSet(Datas(log, m))
    <3>1. IsFiniteSet(1 .. m)
      BY FS_Interval
    <3> QED
      BY <2>1, <3>1, FS_Subset
  <2> QED
    BY <2>2, FS_CardinalityType DEF Count
<1>2. Count(log, 0) = 0
  <2>1. Datas(log, 0) = {}
    BY DEF Datas
  <2> QED
    BY <2>1, FS_EmptySet DEF Count
<1>3. ASSUME NEW m \in Nat, log[m + 1].type = "data" PROVE Count(log, m + 1) = Count(log, m) + 1
  <2>1. Datas(log, m + 1) = Datas(log, m) \cup {m + 1} /\ m + 1 \notin Datas(log, m)
    BY <1>3 DEF Datas
  <2> QED
    BY <1>1, <2>1, FS_AddElement DEF Count
<1>4. ASSUME NEW m \in Nat, log[m + 1].type # "data" PROVE Count(log, m + 1) = Count(log, m)
  <2>1. Datas(log, m + 1) = Datas(log, m)
    BY <1>4 DEF Datas
  <2> QED
    BY <2>1 DEF Count
<1>5. ASSUME NEW m \in Nat, NEW k \in 0 .. m PROVE Count(log, k) \in Nat /\ Count(log, k) <= Count(log, m)
  <2>1. Datas(log, k) \in SUBSET Datas(log, m) /\ k \in Nat
    BY DEF Datas
  <2> QED
    BY <1>1, <2>1, FS_Subset DEF Count
<1>6. ASSUME NEW m \in 1 .. n, log[m].type = "data" PROVE Count(log, m) \in 1 .. Count(log, n)
  <2>1. m - 1 \in Nat /\ (m - 1) + 1 = m /\ m \in 0 .. n
    OBVIOUS
  <2>2. Count(log, m) = Count(log, m - 1) + 1 /\ Count(log, m - 1) \in Nat
    BY <1>1, <1>3, <1>6, <2>1
  <2>3. Count(log, m) <= Count(log, n) /\ Count(log, n) \in Nat
    BY <1>1, <1>5, <2>1
  <2> QED
    BY <2>2, <2>3
<1> QED
  BY <1>1, <1>2, <1>3, <1>4, <1>5, <1>6

\* One record more.
LEMMA Logged ==
    ASSUME NEW log \in Seq(Record), NEW r \in Record
    PROVE  LET more == Append(log, r) IN
           /\ more \in Seq(Record) /\ Len(log) \in Nat /\ Len(more) = Len(log) + 1
           /\ more[Len(log) + 1] = r /\ \A i \in 1 .. Len(log) : more[i] = log[i]
           /\ \A n \in 0 .. Len(log) : Count(more, n) = Count(log, n)
           /\ r.type = "data" => Count(more, Len(log) + 1) = Count(log, Len(log)) + 1
           /\ r.type # "data" => Count(more, Len(log) + 1) = Count(log, Len(log))
           /\ \A units \in SUBSET Unit : From(log, units) => From(more, units)
           /\ Numbered(log) /\ r.seq = Len(log) => Numbered(more) /\ From(more, Both(r))
<1> DEFINE more == Append(log, r)
<1>1. /\ more \in Seq(Record) /\ Len(log) \in Nat /\ Len(more) = Len(log) + 1
      /\ more[Len(log) + 1] = r /\ \A i \in 1 .. Len(log) : more[i] = log[i]
  BY AppendProperties, LenProperties
<1> HIDE DEF more
<1>2. ASSUME NEW n \in 0 .. Len(log) PROVE Count(more, n) = Count(log, n)
  <2>1. \A i \in 1 .. n : more[i] = log[i]
    BY <1>1
  <2>2. Datas(more, n) = Datas(log, n)
    BY <2>1 DEF Datas
  <2> QED
    BY <2>2 DEF Count
<1>3. Len(log) \in 0 .. Len(log) /\ Count(more, Len(log)) = Count(log, Len(log))
  BY <1>1, <1>2
<1>4. /\ r.type = "data" => Count(more, Len(log) + 1) = Count(log, Len(log)) + 1
      /\ r.type # "data" => Count(more, Len(log) + 1) = Count(log, Len(log))
  BY <1>1, <1>3, CountIs
<1>5. ASSUME NEW units \in SUBSET Unit, From(log, units) PROVE From(more, units)
  <2> SUFFICES ASSUME NEW u \in units PROVE u.rec.seq < Len(more) /\ more[u.rec.seq + 1] = u.rec
    BY DEF From
  <2>1. u.rec.seq \in Nat /\ u.rec.seq < Len(log) /\ log[u.rec.seq + 1] = u.rec
    BY <1>5 DEF From, Unit, Record
  <2>2. u.rec.seq + 1 \in 1 .. Len(log) /\ u.rec.seq < Len(more)
    BY <1>1, <2>1
  <2> QED
    BY <1>1, <2>1, <2>2
<1>6. ASSUME Numbered(log), r.seq = Len(log) PROVE Numbered(more) /\ From(more, Both(r))
  <2>1. ASSUME NEW i \in 1 .. Len(more) PROVE more[i].seq = i - 1
    <3>1. CASE i \in 1 .. Len(log)
      BY <1>1, <1>6, <3>1 DEF Numbered
    <3>2. CASE i = Len(log) + 1
      BY <1>1, <1>6, <3>2
    <3> QED
      BY <1>1, <3>1, <3>2
  <2>2. \A u \in Both(r) : u.rec = r
    BY DEF Both, HeaderOf, BodyOf
  <2>3. r.seq < Len(more) /\ more[r.seq + 1] = r
    BY <1>1, <1>6
  <2> QED
    BY <2>1, <2>2, <2>3 DEF Numbered, From
<1> QED
  BY <1>1, <1>2, <1>4, <1>5, <1>6 DEF more

-----------------------------------------------------------------------------
(* A queue whose first unit is unit o + 1 of the records of a log.         *)

Carries(log, queue, o) ==
    /\ o + Len(queue) <= 2 * Len(log)
    /\ \A i \in 1 .. Len(queue), m \in 1 .. Len(log) :
          /\ o + i = 2 * m - 1 => queue[i] = HeaderOf(log[m])
          /\ o + i = 2 * m => queue[i] = BodyOf(log[m])

\* Two queues, one behind the other, are one.
LEMMA CarriesJoin ==
    ASSUME NEW log \in Seq(Record), NEW o \in Nat, NEW a \in Seq(Unit), NEW b \in Seq(Unit),
           Carries(log, a, o), Carries(log, b, o + Len(a))
    PROVE  Carries(log, a \o b, o)
<1>1. /\ Len(a) \in Nat /\ Len(b) \in Nat /\ Len(a \o b) = Len(a) + Len(b) /\ Len(log) \in Nat
      /\ \A i \in 1 .. Len(a) : (a \o b)[i] = a[i]
      /\ \A i \in 1 .. Len(b) : (a \o b)[Len(a) + i] = b[i]
  BY Join, LenProperties
<1> DEFINE q == a \o b
<1> HIDE DEF q
<1>2. ASSUME NEW i \in 1 .. Len(a) + Len(b), NEW m \in 1 .. Len(log)
      PROVE  /\ o + i = 2 * m - 1 => q[i] = HeaderOf(log[m])
             /\ o + i = 2 * m => q[i] = BodyOf(log[m])
  <2>1. CASE i <= Len(a)
    <3>1. i \in 1 .. Len(a) /\ q[i] = a[i]
      BY <1>1, <2>1 DEF q
    <3> QED
      BY <3>1 DEF Carries
  <2>2. CASE ~ (i <= Len(a))
    <3> DEFINE j == i - Len(a)
    <3>1. j \in 1 .. Len(b) /\ (o + Len(a)) + j = o + i /\ Len(a) + j = i
      BY <1>1, <2>2
    <3>2. q[i] = b[j]
      BY <1>1, <3>1 DEF q
    <3> HIDE DEF j
    <3>3. /\ (o + Len(a)) + j = 2 * m - 1 => b[j] = HeaderOf(log[m])
          /\ (o + Len(a)) + j = 2 * m => b[j] = BodyOf(log[m])
      BY <3>1 DEF Carries
    <3> QED
      BY <3>1, <3>2, <3>3
  <2> QED
    BY <2>1, <2>2
<1>3. o + Len(q) <= 2 * Len(log)
  BY <1>1 DEF Carries, q
<1> QED
  BY <1>1, <1>2, <1>3 DEF Carries, q

\* A queue can be cut in two.
LEMMA CarriesCut ==
    ASSUME NEW log \in Seq(Record), NEW o \in Nat, NEW a \in Seq(Unit), NEW n \in 0 .. Len(a),
           Carries(log, a, o)
    PROVE  /\ Carries(log, SubSeq(a, 1, n), o)
           /\ Carries(log, SubSeq(a, n + 1, Len(a)), o + n)
<1> DEFINE x == SubSeq(a, 1, n)
           y == SubSeq(a, n + 1, Len(a))
<1>1. /\ Len(a) \in Nat /\ Len(log) \in Nat /\ Len(x) = n /\ Len(y) = Len(a) - n
      /\ \A i \in 1 .. n : x[i] = a[i]
      /\ \A i \in 1 .. Len(a) - n : i + n \in 1 .. Len(a) /\ y[i] = a[i + n]
  BY Cut, LenProperties
<1> HIDE DEF x, y
<1>2. /\ o + Len(a) <= 2 * Len(log)
      /\ \A i \in 1 .. Len(a), m \in 1 .. Len(log) :
            /\ o + i = 2 * m - 1 => a[i] = HeaderOf(log[m])
            /\ o + i = 2 * m => a[i] = BodyOf(log[m])
  BY DEF Carries
<1>3. Carries(log, x, o)
  <2>1. o + n <= 2 * Len(log) /\ \A i \in 1 .. n : i \in 1 .. Len(a)
    BY <1>1, <1>2
  <2> QED
    BY <1>1, <1>2, <2>1 DEF Carries
<1>4. Carries(log, y, o + n)
  <2>1. ASSUME NEW i \in 1 .. Len(a) - n, NEW m \in 1 .. Len(log)
        PROVE  /\ (o + n) + i = 2 * m - 1 => y[i] = HeaderOf(log[m])
               /\ (o + n) + i = 2 * m => y[i] = BodyOf(log[m])
    <3>1. i + n \in 1 .. Len(a) /\ (o + n) + i = o + (i + n) /\ y[i] = a[i + n]
      BY <1>1
    <3> QED
      BY <1>2, <3>1
  <2>2. (o + n) + (Len(a) - n) <= 2 * Len(log)
    BY <1>1, <1>2
  <2> QED
    BY <1>1, <2>1, <2>2 DEF Carries
<1> QED
  BY <1>3, <1>4 DEF x, y

\* A longer log carries what a shorter one did, and the units of its last
\* record behind that.
LEMMA CarriesAppend ==
    ASSUME NEW log \in Seq(Record), NEW r \in Record, NEW a \in Seq(Unit), NEW o \in Nat,
           Carries(log, a, o)
    PROVE  /\ Carries(Append(log, r), a, o)
           /\ Carries(Append(log, r), Units(r), 2 * Len(log))
<1> DEFINE more == Append(log, r)
<1>1. /\ Len(more) = Len(log) + 1 /\ Len(log) \in Nat /\ Len(a) \in Nat
      /\ more[Len(log) + 1] = r /\ \A i \in 1 .. Len(log) : more[i] = log[i]
  BY Logged, LenProperties
<1> HIDE DEF more
<1>2. o + Len(a) <= 2 * Len(log)
  BY DEF Carries
<1>3. ASSUME NEW i \in 1 .. Len(a), NEW m \in 1 .. Len(more)
      PROVE  /\ o + i = 2 * m - 1 => a[i] = HeaderOf(more[m])
             /\ o + i = 2 * m => a[i] = BodyOf(more[m])
  <2>1. CASE m \in 1 .. Len(log)
    BY <1>1, <2>1 DEF Carries
  <2>2. CASE m = Len(log) + 1
    BY <1>1, <1>2, <2>2
  <2> QED
    BY <1>1, <2>1, <2>2
<1>4. Carries(more, a, o)
  BY <1>1, <1>2, <1>3 DEF Carries
<1>5. Carries(more, Units(r), 2 * Len(log))
  <2>1. Len(Units(r)) = 2 /\ Units(r)[1] = HeaderOf(r) /\ Units(r)[2] = BodyOf(r)
    BY UnitsIs
  <2> QED
    BY <1>1, <2>1 DEF Carries
<1> QED
  BY <1>4, <1>5 DEF more

-----------------------------------------------------------------------------
(* The invariant.                                                          *)

\* Where the fiber is, and in which call.
Course ==
    /\ pc \in {"read", "reread"} => call = "read"
    /\ pc = "write" => call = "write"
    /\ pc = "idle" => call = "none"
    /\ pc \in {"pump", "process"} => call = "handshake"
    /\ pc = "fill" => call \in {"handshake", "read"}
    /\ call = "write" => tries >= 1
    /\ call = "handshake" /\ pc # "pump" => ~ hs
    /\ call = "handshake" /\ ~ hs => session.nextIn = 0 /\ session.zeros = 0
    /\ closed => pc \in Over \/ (pc \in {"flush", "send"} /\ call = "close")

Fits == InFits(session) /\ OutFits(session)

\* The @write calls carry rising numbers.
Rising ==
    /\ \A i, j \in 1 .. Len(sealed) : i < j => sealed[i] < sealed[j]
    /\ \A i \in 1 .. Len(sealed) : sealed[i] <= tries
    /\ Len(sealed) <= tries
    /\ pc = "write" =>
         Len(sealed) < tries /\ \A i \in 1 .. Len(sealed) : sealed[i] < tries

\* log is what the session has sealed: every unit of it that is under way is
\* a unit of one of its records, and the peer has its data up to some record.
OurUnits == OutUnits(session) \cup Held(scratch) \cup Held(toPeer)
WeSaid(log) ==
    /\ log \in Seq(Record) /\ Numbered(log) /\ From(log, OurUnits)
    /\ pc \notin Over => Len(log) = session.nextOut
    /\ Len(sealed) = Count(log, Len(log))
    /\ \A i \in 1 .. Len(log) : log[i].type = "data" => log[i].val = sealed[Count(log, i)]
    /\ \A i \in 1 .. Len(log) : log[i].type = "close_notify" => i = Len(log) /\ closed
    /\ peer.next <= Len(log) /\ Len(peer.got) = Count(log, peer.next)
    /\ \A i \in 1 .. Len(peer.got) : peer.got[i] = sealed[i]
    /\ peer.end = "clean" => peer.next = Len(log) /\ closed
OursInv == \E log : WeSaid(log)

\* The same of the peer's records, which are a variable.
TheirUnits == InUnits(session) \cup Held(toUs)
TheyNotified == \E i \in 1 .. Len(peer.log) : peer.log[i].type = "close_notify"
TheySaid ==
    /\ Numbered(peer.log) /\ From(peer.log, TheirUnits) /\ Len(peer.log) <= MaxPeerRecords
    /\ peer.log # <<>> => peer.log[1].type = "flight"
    /\ \A i \in 1 .. Len(peer.log) :
          /\ peer.log[i].type = "data" => peer.log[i].val = Count(peer.log, i)
          /\ peer.log[i].type \in {"close_notify", "fatal"} => i = Len(peer.log)
    /\ \A i \in 1 .. Len(received) : received[i] = i
    /\ Len(received) <= Count(peer.log, Len(peer.log))
    /\ pc \notin Over =>
         session.nextIn <= Len(peer.log) /\ Len(received) = Count(peer.log, session.nextIn)
    /\ ended => TheyNotified /\ Len(received) = Count(peer.log, Len(peer.log))

\* What s has begun to fetch, in_buf and q are the records of the peer's log
\* from unit o + 1 on, without a gap.
Along(log, s, q, o) ==
    /\ o \in Nat
    /\ Carries(log, Fetched(s), o) /\ Carries(log, q, o + Len(Fetched(s)))
    /\ o + Len(Fetched(s)) + Len(q) = 2 * Len(log)

\* They are those the session has not counted, or, when a fourth empty record
\* was refused, fewer than these.
WholeFor(s, q) ==
    \E d \in Nat : /\ d = 0 <=> s.zeros <= 3
                   /\ Along(peer.log, s, q, 2 * (s.nextIn + d))
Whole == MayStarve \/ pc \in Over \/ WholeFor(session, toUs)

\* As long as memory lasts no record is left over, and what @write was given
\* is sealed before it returns.
Sealed(byte) == \E j \in 1 .. Len(sealed) : sealed[j] = byte
Kept ==
    MayStarve \/
        /\ Sent(session)
        /\ \A i \in 1 .. Len(told) : Sealed(told[i])
        /\ call = "write" /\ pc \in {"flush", "send"} => Sealed(tries)

\* The parts that do not say where the fiber is.
Rest == Fits /\ Rising /\ OursInv /\ TheySaid /\ Whole /\ Kept
IInv == TypeOK /\ Course /\ Rest

-----------------------------------------------------------------------------
(* The queues towards the session, piece by piece (Along).                 *)

\* Where they are whole, the record at the front is the one of that place.
LEMMA AlongIs ==
    ASSUME NEW log \in Seq(Record), Numbered(log), NEW s \in Session, NEW q \in Seq(Unit),
           NEW k \in Nat, Along(log, s, q, 2 * k)
    PROVE  /\ ~ Garbled(s)
           /\ HasRecord(s) =>
                k + 1 \in 1 .. Len(log) /\ NextRecord(s) = log[k + 1] /\ (Genuine(s) <=> k = s.nextIn)
<1> DEFINE f == Fetched(s)
<1>1. /\ f \in Seq(Unit) /\ Len(f) \in Nat /\ Len(q) \in Nat /\ Len(log) \in Nat
      /\ s.nextIn \in Nat /\ 2 * k + Len(f) <= 2 * Len(log)
      /\ \A i \in 1 .. Len(f), m \in 1 .. Len(log) :
            /\ 2 * k + i = 2 * m - 1 => f[i] = HeaderOf(log[m])
            /\ 2 * k + i = 2 * m => f[i] = BodyOf(log[m])
  BY FetchedIs, SessionIs, LenProperties DEF Along, Carries
<1> HIDE DEF f
<1>2. ASSUME f # <<>>
      PROVE  k + 1 \in 1 .. Len(log) /\ 1 \in 1 .. Len(f) /\ f[1] = HeaderOf(log[k + 1])
  <2>1. Len(f) # 0
    BY <1>1, <1>2, EmptySeq
  <2>2. k + 1 \in 1 .. Len(log) /\ 1 \in 1 .. Len(f) /\ 2 * k + 1 = 2 * (k + 1) - 1
    BY <1>1, <2>1
  <2> QED
    BY <1>1, <2>2
<1>3. ~ Garbled(s)
  <2> SUFFICES ASSUME Garbled(s) PROVE FALSE
    OBVIOUS
  <2>1. f # <<>> /\ f[1].part = "body"
    BY DEF Garbled, f
  <2> QED
    BY <1>2, <2>1 DEF HeaderOf
<1>4. ASSUME HasRecord(s)
      PROVE  k + 1 \in 1 .. Len(log) /\ NextRecord(s) = log[k + 1] /\ (Genuine(s) <=> k = s.nextIn)
  <2>1. Len(f) >= 2
    BY <1>4 DEF HasRecord, f
  <2>2. f # <<>>
    BY <2>1, EmptyIs
  <2>3. k + 1 \in 1 .. Len(log) /\ f[1] = HeaderOf(log[k + 1])
    BY <1>2, <2>2
  <2>4. f[2] = BodyOf(log[k + 1])
    <3>1. 2 \in 1 .. Len(f) /\ 2 * k + 2 = 2 * (k + 1)
      BY <1>1, <2>1
    <3> QED
      BY <1>1, <2>3, <3>1
  <2>5. f[2] = [f[1] EXCEPT !.part = "body"]
    BY <2>3, <2>4 DEF HeaderOf, BodyOf
  <2>6. NextRecord(s) = log[k + 1]
    BY <2>3 DEF NextRecord, HeaderOf, f
  <2>7. log[k + 1].seq = k
    <3>1. log[k + 1].seq = (k + 1) - 1
      BY <2>3 DEF Numbered
    <3> QED
      BY <3>1
  <2>8. Genuine(s) <=> k = s.nextIn
    BY <2>5, <2>6, <2>7 DEF Genuine, f
  <2> QED
    BY <2>3, <2>6, <2>8
<1> QED
  BY <1>3, <1>4

\* Units are taken from the front.
LEMMA AlongTakes ==
    ASSUME NEW log \in Seq(Record), NEW s \in Session, NEW t \in Session, NEW q \in Seq(Unit),
           NEW o \in Nat, Along(log, s, q, o), NEW n \in 0 .. Len(Fetched(s)),
           Fetched(t) = SubSeq(Fetched(s), n + 1, Len(Fetched(s)))
    PROVE  Along(log, t, q, o + n)
<1> DEFINE f == Fetched(s)
           g == Fetched(t)
<1>1. /\ f \in Seq(Unit) /\ Len(f) \in Nat /\ Len(q) \in Nat /\ n \in 0 .. Len(f)
      /\ Carries(log, f, o) /\ Carries(log, q, o + Len(f))
      /\ o + Len(f) + Len(q) = 2 * Len(log) /\ g = SubSeq(f, n + 1, Len(f))
  BY FetchedIs, LenProperties DEF Along
<1> HIDE DEF f, g
<1>2. Len(g) = Len(f) - n /\ Carries(log, g, o + n)
  BY <1>1, Cut, CarriesCut
<1>3. (o + n) + Len(g) = o + Len(f) /\ o + n \in Nat
  <2>1. \A x, y \in Nat : \A m \in 0 .. y : (x + m) + (y - m) = x + y /\ x + m \in Nat
    OBVIOUS
  <2>2. (o + n) + (Len(f) - n) = o + Len(f) /\ o + n \in Nat
    BY <1>1, <2>1
  <2> QED
    BY <1>2, <2>2
<1> QED
  BY <1>1, <1>2, <1>3 DEF Along, g

\* Three queues joined in either order are the same.
LEMMA JoinJoin ==
    ASSUME NEW a \in Seq(Unit), NEW b \in Seq(Unit), NEW c \in Seq(Unit)
    PROVE  (a \o b) \o c = a \o (b \o c)
BY ConcatAssociative

\* Units move from TCP to in_buf.
LEMMA AlongFills ==
    ASSUME NEW log \in Seq(Record), NEW s \in Session, NEW t \in Session, NEW q \in Seq(Unit),
           NEW o \in Nat, Along(log, s, q, o), NEW n \in 0 .. Len(q),
           t.left = s.left, t.inb = s.inb \o SubSeq(q, 1, n)
    PROVE  Along(log, t, SubSeq(q, n + 1, Len(q)), o)
<1> DEFINE f == Fetched(s)
           g == Fetched(t)
           x == SubSeq(q, 1, n)
           y == SubSeq(q, n + 1, Len(q))
<1>1. /\ f \in Seq(Unit) /\ Len(f) \in Nat /\ Len(q) \in Nat
      /\ Carries(log, f, o) /\ Carries(log, q, o + Len(f))
      /\ o + Len(f) + Len(q) = 2 * Len(log)
  BY FetchedIs, LenProperties DEF Along
<1>2. x \in Seq(Unit) /\ Len(x) = n /\ Len(y) = Len(q) - n
  BY Cut
<1>3. g = f \o x
  <2>1. s.left \in Seq(Unit) /\ s.inb \in Seq(Unit)
    BY SessionIs
  <2>2. g = s.left \o (s.inb \o x)
    BY DEF Fetched
  <2>3. f \o x = (s.left \o s.inb) \o x
    BY DEF Fetched
  <2>4. x \in Seq(Unit)
    BY <1>2
  <2> HIDE DEF x, f, g
  <2>5. (s.left \o s.inb) \o x = s.left \o (s.inb \o x)
    BY <2>1, <2>4, JoinJoin, Zenon
  <2> QED
    BY <2>2, <2>3, <2>5
<1>4. Carries(log, x, o + Len(f)) /\ Carries(log, y, (o + Len(f)) + n)
  <2>1. o + Len(f) \in Nat
    BY <1>1
  <2> QED
    BY <1>1, <2>1, CarriesCut
<1> HIDE DEF f, g, x, y
<1>5. Carries(log, g, o) /\ Len(g) = Len(f) + n
  BY <1>1, <1>2, <1>3, <1>4, CarriesJoin, Join
<1>6. o + Len(g) = (o + Len(f)) + n /\ o + Len(g) + Len(y) = 2 * Len(log)
  <2>1. \A a, b, c \in Nat : \A m \in 0 .. c :
            /\ a + (b + m) = (a + b) + m
            /\ a + (b + m) + (c - m) = a + b + c
    OBVIOUS
  <2>2. /\ o + (Len(f) + n) = (o + Len(f)) + n
        /\ o + (Len(f) + n) + (Len(q) - n) = o + Len(f) + Len(q)
    BY <1>1, <2>1
  <2> QED
    BY <1>1, <1>2, <1>5, <2>2
<1> QED
  BY <1>4, <1>5, <1>6 DEF Along, g, y

\* The peer sends one record more.
LEMMA AlongAppends ==
    ASSUME NEW log \in Seq(Record), NEW r \in Record, NEW s \in Session, NEW q \in Seq(Unit),
           NEW o \in Nat, Along(log, s, q, o)
    PROVE  Along(Append(log, r), s, q \o Units(r), o)
<1> DEFINE f == Fetched(s)
           more == Append(log, r)
           u == Units(r)
           l == o + Len(f)
<1>1. /\ f \in Seq(Unit) /\ Len(f) \in Nat /\ Len(q) \in Nat /\ Len(log) \in Nat
      /\ Carries(log, f, o) /\ Carries(log, q, l)
      /\ l + Len(q) = 2 * Len(log) /\ l \in Nat
  <2>1. f \in Seq(Unit) /\ Len(f) \in Nat /\ Len(q) \in Nat /\ Len(log) \in Nat
    BY FetchedIs, LenProperties
  <2>2. l \in Nat
    BY <2>1
  <2> QED
    BY <2>1, <2>2 DEF Along
<1>2. u \in Seq(Unit) /\ Len(u) = 2
  BY UnitsIs
<1>3. more \in Seq(Record) /\ Len(more) = Len(log) + 1
  BY Logged
<1> HIDE DEF f, l, u, more
<1>4. Carries(more, f, o) /\ Carries(more, q, l) /\ Carries(more, u, 2 * Len(log))
  BY <1>1, CarriesAppend DEF more, u
<1>5. Carries(more, q \o u, l)
  <2>1. Carries(more, u, l + Len(q))
    BY <1>1, <1>4
  <2>2. more \in Seq(Record) /\ l \in Nat /\ u \in Seq(Unit) /\ Carries(more, q, l)
    BY <1>1, <1>2, <1>3, <1>4
  <2> QED
    BY <2>1, <2>2, CarriesJoin, Zenon
<1>6. Len(q \o u) = Len(q) + 2
  <2>1. Len(q \o u) = Len(q) + Len(u)
    BY <1>2, Join, Zenon
  <2> QED
    BY <1>2, <2>1
<1>7. l + Len(q \o u) = 2 * Len(more)
  <2>1. \A a, b, c \in Nat : a + b = 2 * c => a + (b + 2) = 2 * (c + 1)
    OBVIOUS
  <2>2. l + (Len(q) + 2) = 2 * (Len(log) + 1)
    BY <1>1, <2>1
  <2> QED
    BY <1>3, <1>6, <2>2
<1> QED
  BY <1>4, <1>5, <1>7 DEF Along, f, l, more, u

-----------------------------------------------------------------------------
(* What a step does to what was said and what was heard.                   *)

\* It seals nothing, and the peer reads nothing it may count.
SaysNothing ==
    /\ OurUnits' \subseteq OurUnits /\ sealed' = sealed /\ (closed => closed')
    /\ pc' \notin Over => pc \notin Over /\ session'.nextOut = session.nextOut
    /\ peer'.next = peer.next /\ peer'.got = peer.got
    /\ peer'.end = "clean" => peer.end = "clean"

\* It seals one record.
Says(type, val) ==
    /\ pc \notin Over /\ ~ closed /\ (type = "close_notify" => closed')
    /\ OurUnits' \subseteq OurUnits \cup Both(Ours(session, type, val))
    /\ session'.nextOut = session.nextOut + 1
    /\ sealed' = IF type = "data" THEN Append(sealed, val) ELSE sealed
    /\ peer' = peer

\* The session takes no record it counts.
HearsNothing ==
    /\ TheirUnits' \subseteq TheirUnits /\ peer'.log = peer.log
    /\ received' = received /\ ended' = ended
    /\ pc' \notin Over => pc \notin Over /\ session'.nextIn = session.nextIn

\* It takes the one its counter says.
Hears ==
    /\ pc \notin Over /\ HasRecord(session) /\ Genuine(session)
    /\ session'.nextIn = session.nextIn + 1
    /\ TheirUnits' \subseteq TheirUnits /\ peer' = peer
    /\ LET r == NextRecord(session)
       IN  /\ received' = IF r.type = "data" THEN Append(received, r.val) ELSE received
           /\ ended' => ended \/ r.type = "close_notify"

\* The types that most steps need, and that units under way are units.
LEMMA UnitsAre ==
    ASSUME TypeOK
    PROVE  /\ OurUnits \in SUBSET Unit /\ TheirUnits \in SUBSET Unit
           /\ session \in Session /\ peer.log \in Seq(Record) /\ Len(peer.log) \in Nat
           /\ toUs \in Seq(Unit) /\ toPeer \in Seq(Unit) /\ scratch \in Seq(Unit)
           /\ Len(scratch) <= Chunk
<1>1. \A q \in Seq(Unit) : Held(q) \in SUBSET Unit
  BY DEF Held
<1>2. /\ session \in Session /\ peer.log \in Seq(Record)
      /\ toUs \in Seq(Unit) /\ toPeer \in Seq(Unit) /\ scratch \in Seq(Unit)
      /\ Len(scratch) <= Chunk
  BY DEF TypeOK, Peer
<1>3. /\ session.inb \in Seq(Unit) /\ session.left \in Seq(Unit)
      /\ session.outb \in Seq(Unit) /\ session.outLeft \in Seq(Unit)
  BY <1>2, SessionIs
<1> QED
  BY <1>1, <1>2, <1>3, LenProperties DEF OurUnits, TheirUnits, OutUnits, InUnits

\* Nothing sealed: what was said stays so.
LEMMA SaysNothingKeeps ==
    ASSUME OursInv, SaysNothing
    PROVE  OursInv'
<1>1. PICK log : WeSaid(log)
  BY DEF OursInv
<1>2. From(log, OurUnits')
  BY <1>1 DEF WeSaid, From, SaysNothing
<1>3. WeSaid(log)'
  BY <1>1, <1>2 DEF WeSaid, SaysNothing
<1> QED
  BY <1>3 DEF OursInv

\* One record sealed, and the log of those sealed has one more.
LEMMA SaysKeeps ==
    ASSUME NEW type \in FromUs, NEW val \in Nat, TypeOK, OursInv, Says(type, val)
    PROVE  OursInv'
<1> DEFINE r == Ours(session, type, val)
<1>1. PICK log : WeSaid(log)
  BY DEF OursInv
<1> DEFINE n == Len(log)
<1>0. PICK more : more = Append(log, r)
  OBVIOUS
<1>2. /\ log \in Seq(Record) /\ Numbered(log) /\ From(log, OurUnits) /\ n = session.nextOut
      /\ Len(sealed) = Count(log, n)
      /\ \A i \in 1 .. n : log[i].type = "data" => log[i].val = sealed[Count(log, i)]
      /\ \A i \in 1 .. n : log[i].type # "close_notify"
      /\ peer.next <= n /\ Len(peer.got) = Count(log, peer.next)
      /\ \A i \in 1 .. Len(peer.got) : peer.got[i] = sealed[i]
      /\ peer.end # "clean"
  BY <1>1 DEF WeSaid, Says
<1>3. /\ r \in Record /\ r.seq = n /\ r.type = type /\ r.val = val
  <2>1. session.nextOut \in Nat
    BY UnitsAre, SessionIs
  <2> QED
    BY <1>2, <2>1 DEF Ours, Record
<1>4. /\ more \in Seq(Record) /\ n \in Nat /\ Len(more) = n + 1
      /\ more[n + 1] = r /\ \A i \in 1 .. n : more[i] = log[i]
      /\ \A i \in 0 .. n : Count(more, i) = Count(log, i)
      /\ type = "data" => Count(more, n + 1) = Count(log, n) + 1
      /\ type # "data" => Count(more, n + 1) = Count(log, n)
      /\ From(more, OurUnits) /\ Numbered(more) /\ From(more, Both(r))
  <2>1. OurUnits \in SUBSET Unit
    BY UnitsAre
  <2> QED
    BY <1>0, <1>2, <1>3, <2>1, Logged
<1>5. From(more, OurUnits')
  <2>1. OurUnits' \subseteq OurUnits \cup Both(r)
    BY DEF Says
  <2> HIDE DEF r
  <2> QED
    BY <1>4, <2>1 DEF From
<1> HIDE DEF r, n
<1>6. /\ Len(sealed) \in Nat /\ sealed \in Seq(Nat) /\ peer.next \in Nat /\ Len(peer.got) \in Nat
      /\ \A i \in 0 .. n : Count(log, i) \in Nat /\ Count(log, i) <= Len(sealed)
      /\ \A i \in 1 .. n : log[i].type = "data" => Count(log, i) \in 1 .. Len(sealed)
  <2>1. sealed \in Seq(Nat) /\ peer.got \in Seq(Nat) /\ peer.next \in Nat
    <3>1. sealed \in Seq(1 .. MaxWrites) /\ 1 .. MaxWrites \subseteq Nat
      BY FaultsAssumption DEF TypeOK
    <3>2. sealed \in Seq(Nat)
      BY <3>1, SeqMonotonic
    <3> QED
      BY <3>2 DEF TypeOK, Peer
  <2>2. n \in Nat /\ Len(sealed) = Count(log, n)
    BY <1>2, <1>4
  <2> QED
    BY <2>1, <2>2, CountIs, LenProperties
<1>7. /\ Len(sealed') = Count(more, n + 1)
      /\ \A i \in 1 .. Len(sealed) : sealed'[i] = sealed[i]
      /\ type = "data" => sealed'[Len(sealed) + 1] = val
  <2>1. CASE type = "data"
    <3>1. sealed' = Append(sealed, val)
      BY <2>1 DEF Says
    <3>2. /\ Len(sealed') = Len(sealed) + 1 /\ sealed'[Len(sealed) + 1] = val
          /\ \A i \in 1 .. Len(sealed) : sealed'[i] = sealed[i]
      BY <1>6, <3>1, AppendProperties
    <3> QED
      BY <1>2, <1>4, <2>1, <3>2
  <2>2. CASE type # "data"
    <3>1. sealed' = sealed
      BY <2>2 DEF Says
    <3> QED
      BY <1>2, <1>4, <2>2, <3>1
  <2> QED
    BY <2>1, <2>2
<1>8. ASSUME NEW i \in 1 .. Len(more), more[i].type = "data"
      PROVE  more[i].val = sealed'[Count(more, i)]
  <2>1. CASE i \in 1 .. n
    <3>1. more[i] = log[i] /\ Count(more, i) = Count(log, i)
      BY <1>4, <2>1
    <3>2. Count(log, i) \in 1 .. Len(sealed) /\ log[i].val = sealed[Count(log, i)]
      BY <1>2, <1>6, <1>8, <2>1, <3>1
    <3> QED
      BY <1>7, <3>1, <3>2
  <2>2. CASE i = n + 1
    <3>1. more[i] = r /\ type = "data"
      BY <1>3, <1>4, <1>8, <2>2
    <3>2. Count(more, i) = Len(sealed) + 1
      BY <1>2, <1>4, <2>2, <3>1
    <3> QED
      BY <1>3, <1>7, <3>1, <3>2
  <2> QED
    BY <1>4, <2>1, <2>2
<1>9. ASSUME NEW i \in 1 .. Len(more), more[i].type = "close_notify"
      PROVE  i = Len(more) /\ closed'
  <2>1. i \notin 1 .. n
    BY <1>2, <1>4, <1>9
  <2>2. i = n + 1
    BY <1>4, <2>1
  <2> QED
    BY <1>3, <1>4, <1>9, <2>2 DEF Says
<1>10. /\ peer.next <= Len(more) /\ Len(peer.got) = Count(more, peer.next)
       /\ \A i \in 1 .. Len(peer.got) : peer.got[i] = sealed'[i]
  <2>1. peer.next \in 0 .. n /\ peer.next <= Len(more)
    BY <1>2, <1>4, <1>6
  <2>2. Len(peer.got) = Count(more, peer.next) /\ Len(peer.got) <= Len(sealed)
    BY <1>2, <1>4, <1>6, <2>1
  <2>3. \A i \in 1 .. Len(peer.got) : i \in 1 .. Len(sealed)
    BY <1>6, <2>2
  <2> QED
    BY <1>2, <1>7, <2>1, <2>2, <2>3
<1>11. session'.nextOut = Len(more) /\ peer' = peer
  BY <1>2, <1>4 DEF Says
<1>12. WeSaid(more)'
  <2>1. Len(sealed') = Count(more, Len(more)) /\ peer'.end # "clean"
    BY <1>2, <1>4, <1>7, <1>11
  <2>2. /\ peer'.next <= Len(more) /\ Len(peer'.got) = Count(more, peer'.next)
        /\ \A i \in 1 .. Len(peer'.got) : peer'.got[i] = sealed'[i]
    BY <1>10, <1>11
  <2>3. more \in Seq(Record) /\ Numbered(more)
    BY <1>4
  <2> QED
    BY <1>5, <1>8, <1>9, <1>11, <2>1, <2>2, <2>3 DEF WeSaid
<1> QED
  BY <1>12 DEF OursInv

\* Nothing counted: what was heard stays so.
LEMMA HearsNothingKeeps ==
    ASSUME TheySaid, HearsNothing
    PROVE  TheySaid'
<1>1. From(peer.log, TheirUnits')
  BY DEF TheySaid, HearsNothing, From
<1> QED
  BY <1>1 DEF TheySaid, HearsNothing, TheyNotified

\* The record its counter says: the byte read is the next one of the peer.
LEMMA HearsKeeps ==
    ASSUME TypeOK, TheySaid, Hears
    PROVE  TheySaid'
<1> DEFINE log == peer.log
           r == NextRecord(session)
           n == session.nextIn + 1
           all == Count(log, Len(log))
<1>1. /\ log \in Seq(Record) /\ Len(log) \in Nat /\ session \in Session /\ session.nextIn \in Nat
      /\ received \in Seq(Nat) /\ Len(received) \in Nat
  BY UnitsAre, SessionIs, LenProperties DEF TypeOK
<1>2. n \in 1 .. Len(log) /\ log[n] = r
  <2>1. Fetched(session)[1] \in TheirUnits
    <3>1. Len(Fetched(session)) >= 2 /\ Len(Fetched(session)) \in Nat
      BY <1>1, FetchedIs DEF Hears, HasRecord
    <3>2. 1 \in 1 .. Len(Fetched(session))
      BY <3>1
    <3> QED
      BY <1>1, <3>2, FetchedIs DEF TheirUnits
  <2>2. r.seq = session.nextIn
    BY DEF Hears, Genuine
  <2>3. session.nextIn < Len(log) /\ log[session.nextIn + 1] = r
    BY <2>1, <2>2 DEF TheySaid, From, NextRecord
  <2> QED
    BY <1>1, <2>3
<1>3. /\ Numbered(log) /\ From(log, TheirUnits) /\ Len(log) <= MaxPeerRecords
      /\ log # <<>> => log[1].type = "flight"
      /\ \A i \in 1 .. Len(log) :
            /\ log[i].type = "data" => log[i].val = Count(log, i)
            /\ log[i].type \in {"close_notify", "fatal"} => i = Len(log)
      /\ \A i \in 1 .. Len(received) : received[i] = i
      /\ Len(received) = Count(log, session.nextIn)
      /\ ended => TheyNotified /\ Len(received) = all
  BY DEF TheySaid, Hears
<1>4. /\ Count(log, n) \in Nat /\ all \in Nat /\ Count(log, n) <= all
      /\ r.type = "data" => Count(log, n) = Len(received) + 1
      /\ r.type # "data" => Count(log, n) = Len(received)
  <2>1. n \in 0 .. Len(log) /\ session.nextIn \in Nat
    BY <1>1, <1>2
  <2>2. Count(log, n) \in Nat /\ all \in Nat /\ Count(log, n) <= all
    BY <1>1, <2>1, CountIs
  <2>3. /\ log[n].type = "data" => Count(log, n) = Count(log, session.nextIn) + 1
        /\ log[n].type # "data" => Count(log, n) = Count(log, session.nextIn)
    BY <2>1, CountIs
  <2> QED
    BY <1>2, <1>3, <2>2, <2>3
<1>5. From(log, TheirUnits')
  BY <1>3 DEF Hears, From
<1> HIDE DEF log, r, n, all
<1>6. Len(received') = Count(log, n) /\ \A i \in 1 .. Len(received') : received'[i] = i
  <2>1. CASE r.type = "data"
    <3>1. received' = Append(received, r.val)
      BY <2>1 DEF Hears, r
    <3>2. r.val = Len(received) + 1
      BY <1>2, <1>3, <1>4, <2>1
    <3>3. /\ Len(received') = Len(received) + 1 /\ received'[Len(received) + 1] = r.val
          /\ \A i \in 1 .. Len(received) : received'[i] = received[i]
      <4>1. r.val \in Nat
        BY <1>1, <3>2
      <4> QED
        BY <1>1, <3>1, <4>1, AppendProperties
    <3>4. \A i \in 1 .. Len(received') : i \in 1 .. Len(received) \/ i = Len(received) + 1
      BY <1>1, <3>3
    <3> QED
      BY <1>3, <1>4, <2>1, <3>2, <3>3, <3>4
  <2>2. CASE r.type # "data"
    <3>1. received' = received
      BY <2>2 DEF Hears, r
    <3> QED
      BY <1>3, <1>4, <2>2, <3>1
  <2> QED
    BY <2>1, <2>2
<1>7. ended' => TheyNotified /\ Len(received') = all
  <2>1. CASE ended
    <3>1. TheyNotified /\ Len(received) = all
      BY <1>3, <2>1
    <3>2. Len(received') = all
      BY <1>1, <1>4, <1>6, <3>1
    <3> QED
      BY <3>1, <3>2
  <2>2. CASE ended' /\ r.type = "close_notify"
    <3>1. n = Len(log) /\ log[n].type = "close_notify"
      BY <1>2, <1>3, <2>2
    <3>2. Len(received') = all
      BY <1>6, <3>1 DEF all
    <3> QED
      BY <1>2, <3>1, <3>2 DEF TheyNotified, log
  <2> QED
    BY <2>1, <2>2 DEF Hears, r
<1>8. session'.nextIn = n /\ peer' = peer /\ peer'.log = log
  BY DEF Hears, n, log
<1>9. TheyNotified' = TheyNotified
  BY <1>8 DEF TheyNotified
<1>10. Len(received') <= all /\ n <= Len(log)
  BY <1>2, <1>4, <1>6
<1> QED
  BY <1>3, <1>5, <1>6, <1>7, <1>8, <1>9, <1>10 DEF TheySaid, log, all

-----------------------------------------------------------------------------
(* A step in which the session deals with what it has fetched: what it had *)
(* left over may go out first (s to u), then units are taken (u to v), and *)
(* an answer may be sealed (v to t).                                       *)

Silent(s, t) ==
    /\ t.nextOut = s.nextOut /\ OutUnits(t) \subseteq OutUnits(s)
    /\ OutFits(s) => OutFits(t)
    /\ MayStarve \/ (Sent(s) => Sent(t))
Answers == {"finished", "warning", "fatal"}
Spoke(s, t) ==
    /\ t.nextOut = s.nextOut + 1
    /\ \E type \in Answers : OutUnits(t) \subseteq OutUnits(s) \cup Both(Ours(s, type, 0))
    /\ OutFits(s) => OutFits(t)
    /\ MayStarve \/ (Sent(s) => Sent(t))
Deals(s, t, n, c, z) ==
    \E u, v \in Session :
        /\ SameIn(s, u) /\ Silent(s, u)
        /\ Took(u, v, n) /\ v.nextIn = c /\ v.zeros = z
        /\ t \in Session /\ SameIn(v, t) /\ (Silent(v, t) \/ Spoke(v, t))

\* What leaves the output alone or flushes it is silent; an alert or Finished is an answer.
LEMMA SilentIs ==
    ASSUME NEW s, NEW t
    PROVE  /\ SameOut(s, t) \/ Flushed(s, t) => Silent(s, t)
           /\ \A type \in Answers : Wrote(s, t, type, 0) => Spoke(s, t)
           /\ Silent(s, s) /\ SameIn(s, s)
<1>1. SameOut(s, t) => Silent(s, t)
  BY DEF SameOut, Silent, OutUnits, OutFits, Sent
<1>2. Flushed(s, t) => Silent(s, t)
  BY DEF Flushed, Silent
<1>3. ASSUME NEW type \in Answers, Wrote(s, t, type, 0) PROVE Spoke(s, t)
  BY <1>3 DEF Wrote, Spoke
<1>4. Silent(s, s) /\ SameIn(s, s)
  BY DEF Silent, SameIn
<1> QED
  BY <1>1, <1>2, <1>3, <1>4

\* Sessions with the same input look the same to whatever reads it.
LEMMA Alike ==
    ASSUME NEW s, NEW u, SameIn(s, u)
    PROVE  /\ Fetched(u) = Fetched(s) /\ InUnits(u) = InUnits(s) /\ (InFits(s) <=> InFits(u))
           /\ Garbled(u) = Garbled(s) /\ HasRecord(u) = HasRecord(s) /\ NextRecord(u) = NextRecord(s)
           /\ Genuine(u) = Genuine(s) /\ \A type : Is(u, type) = Is(s, type)
BY DEF SameIn, Fetched, InUnits, InFits, Garbled, HasRecord, NextRecord, Genuine, Is

\* What dealing with a record does to the two halves of a session.
LEMMA DealsIs ==
    ASSUME NEW s \in Session, NEW t, NEW n, NEW c, NEW z, Deals(s, t, n, c, z)
    PROVE  /\ t \in Session /\ InUnits(t) \subseteq InUnits(s) /\ InFits(t)
           /\ Fetched(t) = SubSeq(Fetched(s), n + 1, Len(Fetched(s)))
           /\ t.nextIn = c /\ t.zeros = z
           /\ Silent(s, t) \/ Spoke(s, t)
<1>1. PICK u \in Session, v \in Session :
          /\ SameIn(s, u) /\ Silent(s, u)
          /\ Took(u, v, n) /\ v.nextIn = c /\ v.zeros = z
          /\ t \in Session /\ SameIn(v, t) /\ (Silent(v, t) \/ Spoke(v, t))
  BY DEF Deals
<1>2. Fetched(u) = Fetched(s) /\ InUnits(u) = InUnits(s)
  BY <1>1, Alike
<1>3. Fetched(t) = Fetched(v) /\ InUnits(t) = InUnits(v) /\ (InFits(v) <=> InFits(t))
  BY <1>1, Alike
<1>4. /\ InUnits(v) \subseteq InUnits(u) /\ InFits(v) /\ SameOut(u, v)
      /\ Fetched(v) = SubSeq(Fetched(u), n + 1, Len(Fetched(u)))
  BY <1>1 DEF Took
<1>5. Silent(s, v)
  <2>1. Silent(u, v)
    BY <1>4, SilentIs
  <2> QED
    BY <1>1, <2>1 DEF Silent
<1>6. Silent(s, t) \/ Spoke(s, t)
  <2>1. CASE Silent(v, t)
    BY <1>5, <2>1 DEF Silent
  <2>2. CASE Spoke(v, t)
    BY <1>5, <2>2 DEF Silent, Spoke, Ours
  <2> QED
    BY <1>1, <2>1, <2>2
<1>7. t.nextIn = c /\ t.zeros = z
  BY <1>1 DEF SameIn
<1> QED
  BY <1>1, <1>2, <1>3, <1>4, <1>6, <1>7

\* What mbedTLS does with what it fetched, once u is what is left of s.
LEMMA Dealing ==
    ASSUME NEW s \in Session, NEW u \in Session, SameIn(s, u), Silent(s, u), InFits(s)
    PROVE  /\ Deals(s, u, 0, s.nextIn, s.zeros)
           /\ ~ HasRecord(s) /\ ~ Garbled(s) => Deals(s, KeepPartial(u), 0, s.nextIn, s.zeros)
           /\ HasRecord(s) => Deals(s, TakeRecord(u), 2, s.nextIn + 1, 0)
           /\ HasRecord(s) => \A type \in Answers : \A t \in WriteRecord(TakeRecord(u), type, 0) :
                                  Deals(s, t, 2, s.nextIn + 1, 0)
           /\ HasRecord(s) => \A type \in Answers : \A t \in SendAlert(TakeRecord(u), type) :
                                  Deals(s, t, 2, s.nextIn + 1, 0)
           /\ HasRecord(s) /\ s.zeros < 3 => Deals(s, TakeEmpty(u), 2, s.nextIn + 1, s.zeros + 1)
           /\ HasRecord(s) => \A t \in SendAlert([Discard(u) EXCEPT !.zeros = 4], "fatal") :
                                  Deals(s, t, 2, s.nextIn, 4)
           /\ Garbled(s) => \A t \in Rejected(u) : Deals(s, t, 0, s.nextIn, s.zeros)
           /\ HasRecord(s) => \A t \in Rejected(u) : Deals(s, t, 2, s.nextIn, s.zeros)
<1>1. /\ InFits(u) /\ HasRecord(u) = HasRecord(s) /\ Garbled(u) = Garbled(s)
      /\ u.nextIn = s.nextIn /\ u.zeros = s.zeros
  BY Alike DEF SameIn
<1>2. ASSUME NEW v, NEW n, NEW t, Took(u, v, n),
             (t = v) \/ Flushed(v, t) \/ \E type \in Answers : Wrote(v, t, type, 0)
      PROVE  Deals(s, t, n, v.nextIn, v.zeros)
  <2>1. v \in Session
    BY <1>2 DEF Took
  <2>2. t \in Session /\ SameIn(v, t)
    <3>1. CASE t = v
      BY <2>1, <3>1 DEF SameIn
    <3>2. CASE Flushed(v, t)
      BY <3>2 DEF Flushed
    <3>3. CASE \E type \in Answers : Wrote(v, t, type, 0)
      BY <3>3 DEF Wrote
    <3> QED
      BY <1>2, <3>1, <3>2, <3>3
  <2>3. Silent(v, t) \/ Spoke(v, t)
    BY <1>2, SilentIs
  <2> QED
    BY <1>2, <2>1, <2>2, <2>3 DEF Deals
<1>3. Answers \subseteq FromUs /\ "fatal" \in Answers
  BY DEF Answers, FromUs
<1>4. ASSUME NEW v \in Session, NEW type \in Answers, NEW t \in SendAlert(v, type)
      PROVE  Flushed(v, t) \/ \E ty \in Answers : Wrote(v, t, ty, 0)
  BY <1>3, SendAlertIs
<1>5. ASSUME NEW v \in Session, NEW type \in Answers, NEW t \in WriteRecord(v, type, 0)
      PROVE  \E ty \in Answers : Wrote(v, t, ty, 0)
  BY <1>3, WriteRecordIs
<1>6. Deals(s, u, 0, s.nextIn, s.zeros)
  <2>1. Fetched(u) = SubSeq(Fetched(u), 0 + 1, Len(Fetched(u)))
    <3>1. Fetched(u) \in Seq(Unit)
      BY FetchedIs
    <3> QED
      BY <3>1, SubSeqFull
  <2>2. Took(u, u, 0)
    BY <1>1, <2>1 DEF Took, SameOut
  <2> QED
    BY <1>1, <1>2, <2>2
<1>7. ASSUME ~ HasRecord(s), ~ Garbled(s)
      PROVE  Deals(s, KeepPartial(u), 0, s.nextIn, s.zeros)
  <2> DEFINE v == KeepPartial(u)
  <2>1. Took(u, v, 0) /\ v.nextIn = u.nextIn /\ v.zeros = u.zeros
    BY <1>1, <1>7, KeepIs
  <2> HIDE DEF v
  <2>2. Deals(s, v, 0, v.nextIn, v.zeros)
    BY <1>2, <2>1
  <2> QED
    BY <1>1, <2>1, <2>2 DEF v
<1>8. ASSUME HasRecord(s)
      PROVE  /\ Deals(s, TakeRecord(u), 2, s.nextIn + 1, 0)
             /\ \A type \in Answers : \A t \in WriteRecord(TakeRecord(u), type, 0) :
                    Deals(s, t, 2, s.nextIn + 1, 0)
             /\ \A type \in Answers : \A t \in SendAlert(TakeRecord(u), type) :
                    Deals(s, t, 2, s.nextIn + 1, 0)
  <2> DEFINE v == TakeRecord(u)
  <2>1. Took(u, v, 2) /\ v.nextIn = s.nextIn + 1 /\ v.zeros = 0
    BY <1>1, <1>8, TakeIs
  <2> HIDE DEF v
  <2>2. v \in Session
    BY <2>1 DEF Took
  <2>3. Deals(s, v, 2, s.nextIn + 1, 0)
    BY <1>2, <2>1
  <2>4. ASSUME NEW type \in Answers, NEW t \in WriteRecord(v, type, 0)
        PROVE  Deals(s, t, 2, s.nextIn + 1, 0)
    <3>1. \E ty \in Answers : Wrote(v, t, ty, 0)
      BY <1>5, <2>2
    <3> QED
      BY <1>2, <2>1, <3>1
  <2>5. ASSUME NEW type \in Answers, NEW t \in SendAlert(v, type)
        PROVE  Deals(s, t, 2, s.nextIn + 1, 0)
    <3>1. Flushed(v, t) \/ \E ty \in Answers : Wrote(v, t, ty, 0)
      BY <1>4, <2>2
    <3> QED
      BY <1>2, <2>1, <3>1
  <2> QED
    BY <2>3, <2>4, <2>5 DEF v
<1>9. ASSUME HasRecord(s), s.zeros < 3
      PROVE  Deals(s, TakeEmpty(u), 2, s.nextIn + 1, s.zeros + 1)
  <2> DEFINE v == TakeEmpty(u)
  <2>1. Took(u, v, 2) /\ v.nextIn = s.nextIn + 1 /\ v.zeros = s.zeros + 1
    BY <1>1, <1>9, TakeIs
  <2> HIDE DEF v
  <2>2. Deals(s, v, 2, v.nextIn, v.zeros)
    BY <1>2, <2>1
  <2> QED
    BY <2>1, <2>2 DEF v
<1>10. ASSUME HasRecord(s), NEW t \in SendAlert([Discard(u) EXCEPT !.zeros = 4], "fatal")
       PROVE  Deals(s, t, 2, s.nextIn, 4)
  <2> DEFINE v == [Discard(u) EXCEPT !.zeros = 4]
  <2>1. Took(u, v, 2) /\ v.nextIn = s.nextIn /\ v.zeros = 4
    BY <1>1, <1>10, TakeIs
  <2> HIDE DEF v
  <2>2. v \in Session /\ t \in SendAlert(v, "fatal")
    BY <1>10, <2>1 DEF Took, v
  <2>3. Flushed(v, t) \/ \E ty \in Answers : Wrote(v, t, ty, 0)
    BY <1>3, <1>4, <2>2
  <2>4. Deals(s, t, 2, v.nextIn, v.zeros)
    BY <1>2, <2>1, <2>3
  <2> QED
    BY <2>1, <2>4
<1>11. ASSUME Garbled(s), NEW t \in Rejected(u)
       PROVE  Deals(s, t, 0, s.nextIn, s.zeros)
  <2>1. t = KeepGarbage(u)
    BY <1>1, <1>11 DEF Rejected
  <2>2. Took(u, t, 0) /\ t.nextIn = u.nextIn /\ t.zeros = u.zeros
    BY <1>1, <1>11, <2>1, KeepIs
  <2>3. Deals(s, t, 0, t.nextIn, t.zeros)
    BY <1>2, <2>2
  <2> QED
    BY <1>1, <2>2, <2>3
<1>12. ASSUME HasRecord(s), NEW t \in Rejected(u)
       PROVE  Deals(s, t, 2, s.nextIn, s.zeros)
  <2> DEFINE v == Discard(u)
  <2>1. Took(u, v, 2) /\ v.nextIn = u.nextIn /\ v.zeros = u.zeros
    BY <1>1, <1>12, DiscardIs
  <2>2. t \in SendAlert(v, "fatal")
    BY <1>1, <1>12 DEF Rejected, HasRecord
  <2> HIDE DEF v
  <2>3. v \in Session
    BY <2>1 DEF Took
  <2>4. Flushed(v, t) \/ \E ty \in Answers : Wrote(v, t, ty, 0)
    BY <1>3, <1>4, <2>2, <2>3
  <2>5. Deals(s, t, 2, v.nextIn, v.zeros)
    BY <1>2, <2>1, <2>4
  <2> QED
    BY <1>1, <2>1, <2>5
<1> QED
  BY <1>6, <1>7, <1>8, <1>9, <1>10, <1>11, <1>12

-----------------------------------------------------------------------------
(* What is whole stays so.                                                 *)

\* While nothing is missing, no record is refused, and none is taken for
\* another.
LEMMA WholeFront ==
    ASSUME TypeOK, TheySaid, WholeFor(session, toUs)
    PROVE  /\ ~ Garbled(session)
           /\ HasRecord(session) => (Genuine(session) <=> session.zeros <= 3)
<1>1. PICK d \in Nat : /\ d = 0 <=> session.zeros <= 3
                       /\ Along(peer.log, session, toUs, 2 * (session.nextIn + d))
  BY DEF WholeFor
<1>2. session.nextIn \in Nat /\ session.nextIn + d \in Nat
  BY UnitsAre, SessionIs
<1>3. Numbered(peer.log)
  BY DEF TheySaid
<1>4. /\ ~ Garbled(session)
      /\ HasRecord(session) => (Genuine(session) <=> session.nextIn + d = session.nextIn)
  BY <1>1, <1>2, <1>3, UnitsAre, AlongIs
<1>5. session.nextIn + d = session.nextIn <=> d = 0
  BY <1>2
<1> QED
  BY <1>1, <1>4, <1>5

\* The session took n units, counted to c, and nothing came.
LEMMA WholeTakes ==
    ASSUME TypeOK, WholeFor(session, toUs), session' \in Session,
           toUs' = toUs, peer' = peer, NEW n \in {0, 2}, n = 2 => HasRecord(session),
           Fetched(session') = SubSeq(Fetched(session), n + 1, Len(Fetched(session))),
           \/ n = 0 /\ session'.nextIn = session.nextIn /\ session'.zeros = session.zeros
           \/ /\ n = 2 /\ session'.nextIn = session.nextIn + 1
              /\ session.zeros <= 3 /\ session'.zeros <= 3
           \/ /\ n = 2 /\ session'.nextIn = session.nextIn
              /\ ~ (session'.zeros <= 3)
    PROVE  WholeFor(session, toUs)'
<1>1. PICK d \in Nat : /\ d = 0 <=> session.zeros <= 3
                       /\ Along(peer.log, session, toUs, 2 * (session.nextIn + d))
  BY DEF WholeFor
<1>2. session.nextIn \in Nat /\ 2 * (session.nextIn + d) \in Nat
  BY UnitsAre, SessionIs
<1>3. n \in 0 .. Len(Fetched(session))
  <2>1. Len(Fetched(session)) \in Nat
    BY UnitsAre, FetchedIs
  <2>2. n = 2 => Len(Fetched(session)) >= 2
    BY DEF HasRecord
  <2> QED
    BY <2>1, <2>2
<1>4. Along(peer.log, session', toUs, 2 * (session.nextIn + d) + n)
  BY <1>1, <1>2, <1>3, UnitsAre, AlongTakes
<1>5. \E e \in Nat : /\ e = 0 <=> session'.zeros <= 3
                     /\ 2 * (session'.nextIn + e) = 2 * (session.nextIn + d) + n
  <2>1. CASE n = 0 /\ session'.nextIn = session.nextIn /\ session'.zeros = session.zeros
    BY <1>1, <1>2, <2>1
  <2>2. CASE /\ n = 2 /\ session'.nextIn = session.nextIn + 1
             /\ session.zeros <= 3 /\ session'.zeros <= 3
    BY <1>1, <1>2, <2>2
  <2>3. CASE /\ n = 2 /\ session'.nextIn = session.nextIn
             /\ ~ (session'.zeros <= 3)
    <3>1. d + 1 \in Nat /\ d + 1 # 0
      OBVIOUS
    <3>2. 2 * (session'.nextIn + (d + 1)) = 2 * (session.nextIn + d) + n
      BY <1>2, <2>3
    <3> QED
      BY <2>3, <3>1, <3>2
  <2> QED
    BY <2>1, <2>2, <2>3
<1>6. PICK e \in Nat : /\ e = 0 <=> session'.zeros <= 3
                       /\ 2 * (session'.nextIn + e) = 2 * (session.nextIn + d) + n
  BY <1>5
<1>7. Along(peer.log, session', toUs, 2 * (session'.nextIn + e))
  BY <1>4, <1>6
<1> QED
  BY <1>6, <1>7 DEF WholeFor

\* The session's input and TCP stay what they are.
LEMMA WholeRests ==
    ASSUME Whole, toUs' = toUs, peer'.log = peer.log,
           pc' \notin Over => pc \notin Over /\ SameIn(session, session')
    PROVE  Whole'
<1> SUFFICES ASSUME ~ MayStarve, pc' \notin Over PROVE WholeFor(session, toUs)'
  BY DEF Whole
<1>1. WholeFor(session, toUs) /\ SameIn(session, session')
  BY DEF Whole
<1>2. Fetched(session') = Fetched(session)
  BY <1>1, Alike
<1> QED
  BY <1>1, <1>2 DEF WholeFor, SameIn, Along

-----------------------------------------------------------------------------
(* The steps in which the session deals with what it fetched.              *)

Dealt(n, c, z) ==
    /\ pc \notin Over /\ pc' \notin Over \cup {"write"} /\ call' # "write" /\ ~ closed
    /\ Deals(session, session', n, c, z)
    /\ UNCHANGED << scratch, Wire, peer, tries, sealed, told, closed >>
DealtWaits ==
    Dealt(0, session.nextIn, session.zeros) /\ UNCHANGED << received, ended >>
DealtCounts ==
    /\ HasRecord(session) /\ Genuine(session)
    /\ \E z \in 0 .. 3 : Dealt(2, session.nextIn + 1, z)
    /\ LET r == NextRecord(session)
       IN  /\ received' = IF r.type = "data" THEN Append(received, r.val) ELSE received
           /\ ended' => ended \/ r.type = "close_notify"
DealtGivesUp ==
    /\ HasRecord(session)
    /\ \/ Dealt(2, session.nextIn, 4)
       \/ ~ Genuine(session) /\ Dealt(2, session.nextIn, session.zeros)
    /\ UNCHANGED << received, ended >>

\* Dealing with a record says nothing wrong.
LEMMA DealtSays ==
    ASSUME TypeOK, Rest, NEW n, NEW c, NEW z, Dealt(n, c, z)
    PROVE  Fits' /\ Rising' /\ OursInv' /\ Kept' /\ TheirUnits' \subseteq TheirUnits
<1>1. /\ session' \in Session /\ InUnits(session') \subseteq InUnits(session) /\ InFits(session')
      /\ Silent(session, session') \/ Spoke(session, session')
  BY UnitsAre, DealsIs DEF Dealt
<1>2. /\ UNCHANGED << scratch, toPeer, toUs, peer, tries, sealed, told, closed >>
      /\ pc \notin Over /\ pc' \notin Over /\ pc' # "write" /\ call' # "write" /\ ~ closed
  BY DEF Dealt, Wire
<1>3. Fits'
  BY <1>1 DEF Rest, Fits, Silent, Spoke
<1>4. Rising'
  BY <1>2 DEF Rest, Rising
<1>5. Kept'
  BY <1>1, <1>2 DEF Rest, Kept, Sealed, Silent, Spoke
<1>6. OursInv'
  <2>1. CASE Silent(session, session')
    <3>1. SaysNothing
      BY <1>2, <2>1 DEF SaysNothing, OurUnits, Silent
    <3> QED
      BY <3>1, SaysNothingKeeps DEF Rest
  <2>2. CASE Spoke(session, session')
    <3>1. PICK type \in Answers :
              OutUnits(session') \subseteq OutUnits(session) \cup Both(Ours(session, type, 0))
      BY <2>2 DEF Spoke
    <3>2. type \in FromUs /\ type # "data" /\ type # "close_notify" /\ 0 \in Nat
      BY DEF Answers, FromUs
    <3>3. Says(type, 0)
      BY <1>2, <2>2, <3>1, <3>2 DEF Says, OurUnits, Spoke
    <3> QED
      BY <3>2, <3>3, SaysKeeps DEF Rest
  <2> QED
    BY <1>1, <2>1, <2>2
<1>7. TheirUnits' \subseteq TheirUnits
  BY <1>1, <1>2 DEF TheirUnits
<1> QED
  BY <1>3, <1>4, <1>5, <1>6, <1>7

\* Dealing with a record keeps the parts that do not say where the fiber is.
LEMMA DealtKeeps ==
    ASSUME TypeOK, Rest, DealtWaits \/ DealtCounts \/ DealtGivesUp
    PROVE  Rest' /\ session' \in Session
<1> USE DEF Rest
<1>1. session \in Session /\ session.nextIn \in Nat /\ session.zeros \in 0 .. 4
  BY UnitsAre, SessionIs
<1>2. ASSUME NEW n, NEW c, NEW z, Dealt(n, c, z)
      PROVE  /\ session' \in Session /\ session'.nextIn = c /\ session'.zeros = z
             /\ Fetched(session') = SubSeq(Fetched(session), n + 1, Len(Fetched(session)))
             /\ toUs' = toUs /\ peer' = peer /\ pc \notin Over /\ pc' \notin Over
             /\ Fits' /\ Rising' /\ OursInv' /\ Kept' /\ TheirUnits' \subseteq TheirUnits
  <2>1. Deals(session, session', n, c, z)
    BY <1>2 DEF Dealt
  <2>2. /\ session' \in Session /\ session'.nextIn = c /\ session'.zeros = z
        /\ Fetched(session') = SubSeq(Fetched(session), n + 1, Len(Fetched(session)))
    BY <1>1, <2>1, DealsIs
  <2>3. Fits' /\ Rising' /\ OursInv' /\ Kept' /\ TheirUnits' \subseteq TheirUnits
    BY <1>2, DealtSays
  <2> QED
    BY <1>2, <2>2, <2>3 DEF Dealt, Wire
<1>3. Whole <=> (MayStarve \/ WholeFor(session, toUs)) \/ pc \in Over
  BY DEF Whole
<1>4. CASE DealtWaits
  <2>1. Dealt(0, session.nextIn, session.zeros) /\ UNCHANGED << received, ended >>
    BY <1>4 DEF DealtWaits
  <2>2. /\ session' \in Session /\ session'.nextIn = session.nextIn /\ session'.zeros = session.zeros
        /\ Fetched(session') = SubSeq(Fetched(session), 0 + 1, Len(Fetched(session)))
        /\ toUs' = toUs /\ peer' = peer /\ pc \notin Over
        /\ Fits' /\ Rising' /\ OursInv' /\ Kept' /\ TheirUnits' \subseteq TheirUnits
    BY <1>2, <2>1
  <2>3. HearsNothing
    BY <2>1, <2>2 DEF HearsNothing
  <2>4. WholeFor(session, toUs) => WholeFor(session, toUs)'
    <3> SUFFICES ASSUME WholeFor(session, toUs) PROVE WholeFor(session, toUs)'
      OBVIOUS
    <3>1. 0 \in {0, 2} /\ 0 # 2
      OBVIOUS
    <3> QED
      BY <2>2, <3>1, WholeTakes
  <2> QED
    BY <2>2, <2>3, <2>4, HearsNothingKeeps DEF Whole
<1>5. CASE DealtCounts
  <2>1. PICK z \in 0 .. 3 : Dealt(2, session.nextIn + 1, z)
    BY <1>5 DEF DealtCounts
  <2>2. /\ session' \in Session /\ session'.nextIn = session.nextIn + 1 /\ session'.zeros = z
        /\ Fetched(session') = SubSeq(Fetched(session), 2 + 1, Len(Fetched(session)))
        /\ toUs' = toUs /\ peer' = peer /\ pc \notin Over
        /\ Fits' /\ Rising' /\ OursInv' /\ Kept' /\ TheirUnits' \subseteq TheirUnits
    BY <1>2, <2>1
  <2>3. Hears
    BY <1>5, <2>2 DEF Hears, DealtCounts
  <2>4. WholeFor(session, toUs) => WholeFor(session, toUs)'
    <3> SUFFICES ASSUME WholeFor(session, toUs) PROVE WholeFor(session, toUs)'
      OBVIOUS
    <3>1. 2 \in {0, 2} /\ session'.zeros <= 3
      BY <2>2
    <3>2. session.zeros <= 3 /\ HasRecord(session)
      BY <1>5, WholeFront DEF DealtCounts
    <3> QED
      BY <2>2, <3>1, <3>2, WholeTakes
  <2> QED
    BY <2>2, <2>3, <2>4, HearsKeeps DEF Whole
<1>6. CASE DealtGivesUp
  <2>1. PICK z \in 0 .. 4 : /\ Dealt(2, session.nextIn, z)
                            /\ z = 4 \/ (z = session.zeros /\ ~ Genuine(session))
    <3>1. 4 \in 0 .. 4
      OBVIOUS
    <3> QED
      BY <1>1, <1>6, <3>1 DEF DealtGivesUp
  <2>2. /\ session' \in Session /\ session'.nextIn = session.nextIn /\ session'.zeros = z
        /\ Fetched(session') = SubSeq(Fetched(session), 2 + 1, Len(Fetched(session)))
        /\ toUs' = toUs /\ peer' = peer /\ pc \notin Over
        /\ Fits' /\ Rising' /\ OursInv' /\ Kept' /\ TheirUnits' \subseteq TheirUnits
    BY <1>2, <2>1
  <2>3. HearsNothing
    BY <1>6, <2>2 DEF HearsNothing, DealtGivesUp
  <2>4. WholeFor(session, toUs) => WholeFor(session, toUs)'
    <3> SUFFICES ASSUME WholeFor(session, toUs) PROVE WholeFor(session, toUs)'
      OBVIOUS
    <3>1. HasRecord(session) /\ (Genuine(session) <=> session.zeros <= 3)
      BY <1>6, WholeFront DEF DealtGivesUp
    <3>2. ~ (z <= 3)
      BY <2>1, <3>1
    <3>3. 2 \in {0, 2} /\ ~ (session'.zeros <= 3)
      BY <2>2, <3>2
    <3> QED
      BY <2>2, <3>1, <3>3, WholeTakes
  <2> QED
    BY <2>2, <2>3, <2>4, HearsNothingKeeps DEF Whole
<1> QED
  BY <1>4, <1>5, <1>6

-----------------------------------------------------------------------------
(* @read.                                                                  *)

\* Where an action of @read leaves the fiber.
ReadGoes ==
    \/ pc' = "idle" /\ call' = "none" /\ result' \in Result
    \/ pc' \in {"read", "reread", "flush", "fill"} /\ call' = call /\ result' = result

\* Where the fiber is when mbedtls_ssl_read looks at its records.
LEMMA ReadIs ==
    ASSUME IInv, Reading
    PROVE  /\ pc \notin Over /\ call = "read" /\ ~ closed
           /\ session \in Session /\ InFits(session)
           /\ SameIn(session, session) /\ Silent(session, session)
           /\ HasRecord(session) => NextRecord(session).val \in Nat
<1>1. session \in Session
  BY UnitsAre DEF IInv
<1>2. HasRecord(session) => NextRecord(session).val \in Nat
  <2> SUFFICES ASSUME HasRecord(session) PROVE NextRecord(session).val \in Nat
    OBVIOUS
  <2>1. /\ Fetched(session) \in Seq(Unit) /\ Len(Fetched(session)) \in Nat
        /\ Len(Fetched(session)) >= 2
    BY <1>1, FetchedIs DEF HasRecord
  <2>2. 1 \in 1 .. Len(Fetched(session))
    BY <2>1
  <2>3. Fetched(session)[1] \in Unit
    BY <2>1, <2>2, ElementOfSeq
  <2> QED
    BY <2>3 DEF NextRecord, Unit, Record
<1> QED
  BY <1>1, <1>2, SilentIs DEF IInv, Course, Reading, Over, Rest, Fits

\* An action of @read that deals with a record keeps the invariant.
LEMMA ReadKeeps ==
    ASSUME IInv, Reading, ReadFrame, ReadGoes, ended' \in BOOLEAN,
           \/ received' = received
           \/ HasRecord(session) /\ received' = Append(received, NextRecord(session).val),
           DealtWaits \/ DealtCounts \/ DealtGivesUp
    PROVE  IInv'
<1>1. TypeOK /\ Course /\ Rest
  BY DEF IInv
<1>2. Rest' /\ session' \in Session
  BY <1>1, DealtKeeps
<1>3. received' \in Seq(Nat)
  <2>1. received \in Seq(Nat)
    BY <1>1 DEF TypeOK
  <2> QED
    BY <2>1, ReadIs, AppendProperties
<1>4. pc' \in Running \cup {"idle"} \cup Over /\ call' \in Call /\ result' \in Result
  BY <1>1 DEF ReadGoes, TypeOK, Running, Call
<1>5. TypeOK'
  BY <1>1, <1>2, <1>3, <1>4 DEF TypeOK, ReadFrame, Wire
<1>6. Course'
  BY ReadIs DEF Course, ReadGoes, ReadFrame, Over
<1> QED
  BY <1>2, <1>5, <1>6 DEF IInv

\* An action of @read moves the fiber as dealing with a record may.
LEMMA ReadDealt ==
    ASSUME IInv, Reading, ReadFrame, ReadGoes,
           NEW n, NEW c, NEW z, Deals(session, session', n, c, z)
    PROVE  Dealt(n, c, z)
BY ReadIs DEF Dealt, ReadGoes, ReadFrame, Over

\* mbedtls_ssl_read gave 0 bytes: @read goes on.
LEMMA AskForMoreGoes ==
    ASSUME NEW s, AskForMore(s)
    PROVE  ReadGoes /\ session' = s /\ UNCHANGED << received, ended >>
BY DEF AskForMore, ReadGoes

\* @read returns.
LEMMA ReturnGoes ==
    ASSUME NEW outcome \in Result, Return(outcome)
    PROVE  ReadGoes
BY DEF Return, ReadGoes

\* A record that counts, and is no data.
LEMMA CountsKeeps ==
    ASSUME IInv, Reading, ReadFrame, ReadGoes, HasRecord(session), Genuine(session),
           NEW z \in 0 .. 3, Deals(session, session', 2, session.nextIn + 1, z),
           NextRecord(session).type # "data", received' = received, ended' \in BOOLEAN,
           ended' => ended \/ NextRecord(session).type = "close_notify"
    PROVE  IInv'
<1>1. Dealt(2, session.nextIn + 1, z)
  BY ReadDealt
<1>2. DealtCounts
  BY <1>1 DEF DealtCounts
<1> QED
  BY <1>2, ReadKeeps

\* The type of ended, and the count of empty records that starts anew.
LEMMA EndedIs ==
    ASSUME IInv
    PROVE  ended \in BOOLEAN /\ 0 \in 0 .. 3
BY DEF IInv, TypeOK

\* A warning alert, passed over.
LEMMA ReadWarningKeeps ==
    ASSUME IInv, ReadWarning
    PROVE  IInv'
<1>1. /\ Reading /\ ReadFrame /\ HasRecord(session) /\ Genuine(session)
      /\ NextRecord(session).type = "warning" /\ session' = TakeRecord(session)
      /\ UNCHANGED << pc, call, result, received, ended >>
  BY DEF ReadWarning, Is
<1>2. ReadGoes
  BY <1>1 DEF Reading, ReadGoes
<1>3. Deals(session, session', 2, session.nextIn + 1, 0)
  BY <1>1, ReadIs, Dealing
<1> QED
  BY <1>1, <1>2, <1>3, EndedIs, CountsKeeps

\* An empty data record: passed over, given back as 0 bytes, or refused.
LEMMA ReadEmptyKeeps ==
    ASSUME IInv, ReadEmpty
    PROVE  IInv'
<1>1. /\ Reading /\ ReadFrame /\ HasRecord(session) /\ Genuine(session)
      /\ NextRecord(session).type = "empty"
  BY DEF ReadEmpty, Is
<1>2. session.zeros \in 0 .. 4
  BY <1>1, ReadIs, SessionIs
<1>3. CASE session.zeros < 3 /\ session' = TakeEmpty(session)
           /\ ReadGoes /\ UNCHANGED << received, ended >>
  <2>1. Deals(session, session', 2, session.nextIn + 1, session.zeros + 1)
    BY <1>1, <1>3, ReadIs, Dealing
  <2>2. session.zeros + 1 \in 0 .. 3
    BY <1>2, <1>3
  <2> QED
    BY <1>1, <1>3, <2>1, <2>2, EndedIs, CountsKeeps
<1>4. CASE session' \in SendAlert([Discard(session) EXCEPT !.zeros = 4], "fatal")
           /\ ReadGoes /\ UNCHANGED << received, ended >>
  <2>1. Deals(session, session', 2, session.nextIn, 4)
    BY <1>1, <1>4, ReadIs, Dealing
  <2>2. Dealt(2, session.nextIn, 4)
    BY <1>1, <1>4, <2>1, ReadDealt
  <2>3. DealtGivesUp
    BY <1>1, <1>4, <2>2 DEF DealtGivesUp
  <2> QED
    BY <1>1, <1>4, <2>3, EndedIs, ReadKeeps
<1>5. \/ /\ session.zeros < 3 /\ pc = "read"
         /\ session' = TakeEmpty(session)
         /\ pc' = "reread"
         /\ UNCHANGED << call, result, received, ended >>
      \/ /\ session.zeros < 3 /\ pc = "reread"
         /\ AskForMore(TakeEmpty(session))
      \/ /\ session.zeros >= 3
         /\ session' \in SendAlert([Discard(session) EXCEPT !.zeros = 4], "fatal")
         /\ Return("HandshakeFailure")
         /\ UNCHANGED << received, ended >>
  BY DEF ReadEmpty
<1>6. "HandshakeFailure" \in Result
  BY DEF Result
<1> QED
  BY <1>3, <1>4, <1>5, <1>6, AskForMoreGoes, ReturnGoes DEF ReadGoes

\* A HelloRequest, refused with a warning.
LEMMA ReadHelloRequestKeeps ==
    ASSUME IInv, ReadHelloRequest
    PROVE  IInv'
<1>1. /\ Reading /\ ReadFrame /\ HasRecord(session) /\ Genuine(session)
      /\ NextRecord(session).type = "hello_request"
      /\ session' \in SendAlert(TakeRecord(session), "warning")
      /\ UNCHANGED << received, ended >>
  BY DEF ReadHelloRequest, Is
<1>2. ReadGoes
  BY ReturnGoes DEF ReadHelloRequest, ReadGoes, Result
<1>3. Deals(session, session', 2, session.nextIn + 1, 0)
  BY <1>1, ReadIs, Dealing DEF Answers
<1> QED
  BY <1>1, <1>2, <1>3, EndedIs, CountsKeeps

\* The warning mbedtls_ssl_read gets to see.
LEMMA ReadNoRenegotiationKeeps ==
    ASSUME IInv, ReadNoRenegotiation
    PROVE  IInv'
<1>1. /\ Reading /\ ReadFrame /\ HasRecord(session) /\ Genuine(session)
      /\ NextRecord(session).type = "no_renegotiation"
      /\ AskForMore(TakeRecord(session))
  BY DEF ReadNoRenegotiation, Is
<1>2. ReadGoes /\ session' = TakeRecord(session) /\ UNCHANGED << received, ended >>
  BY <1>1, AskForMoreGoes
<1>3. Deals(session, session', 2, session.nextIn + 1, 0)
  BY <1>1, <1>2, ReadIs, Dealing
<1> QED
  BY <1>1, <1>2, <1>3, EndedIs, CountsKeeps

\* Less than a record is there.
LEMMA ReadNeedsMoreKeeps ==
    ASSUME IInv, ReadNeedsMore
    PROVE  IInv'
<1>1. /\ Reading /\ ReadFrame /\ ~ HasRecord(session) /\ ~ Garbled(session)
      /\ AskForMore(KeepPartial(session))
  BY DEF ReadNeedsMore
<1>2. ReadGoes /\ session' = KeepPartial(session) /\ UNCHANGED << received, ended >>
  BY <1>1, AskForMoreGoes
<1>3. Deals(session, session', 0, session.nextIn, session.zeros)
  BY <1>1, <1>2, ReadIs, Dealing
<1>4. DealtWaits
  BY <1>1, <1>2, <1>3, ReadDealt DEF DealtWaits
<1> QED
  BY <1>1, <1>2, <1>4, EndedIs, ReadKeeps

\* A byte for the application.
LEMMA ReadDataKeeps ==
    ASSUME IInv, ReadData
    PROVE  IInv'
<1>1. /\ Reading /\ ReadFrame /\ HasRecord(session) /\ Genuine(session)
      /\ NextRecord(session).type = "data" /\ session' = TakeRecord(session)
      /\ received' = Append(received, NextRecord(session).val)
      /\ Return("ok") /\ ended' = ended
  BY DEF ReadData, Is
<1>2. ReadGoes
  BY <1>1, ReturnGoes DEF Result
<1>3. Deals(session, session', 2, session.nextIn + 1, 0)
  BY <1>1, ReadIs, Dealing
<1>4. Dealt(2, session.nextIn + 1, 0)
  BY <1>1, <1>2, <1>3, ReadDealt
<1>5. DealtCounts
  BY <1>1, <1>4, EndedIs DEF DealtCounts
<1> QED
  BY <1>1, <1>2, <1>5, EndedIs, ReadKeeps

\* The clean end.
LEMMA ReadCloseNotifyKeeps ==
    ASSUME IInv, ReadCloseNotify
    PROVE  IInv'
<1>1. /\ Reading /\ ReadFrame /\ HasRecord(session) /\ Genuine(session)
      /\ NextRecord(session).type = "close_notify" /\ session' = TakeRecord(session)
      /\ Return("eof") /\ received' = received /\ ended' = TRUE
  BY DEF ReadCloseNotify, Is
<1>2. ReadGoes
  BY <1>1, ReturnGoes DEF Result
<1>3. Deals(session, session', 2, session.nextIn + 1, 0)
  BY <1>1, ReadIs, Dealing
<1> QED
  BY <1>1, <1>2, <1>3, EndedIs, CountsKeeps

\* A fatal alert, or bytes that are no record of the peer.
LEMMA ReadErrorKeeps ==
    ASSUME IInv, ReadError
    PROVE  IInv'
<1>1. /\ Reading /\ ReadFrame /\ Return("HandshakeFailure") /\ UNCHANGED << received, ended >>
      /\ \/ Is(session, "fatal") /\ session' = TakeRecord(session)
         \/ /\ Garbled(session) \/ (HasRecord(session) /\ ~Genuine(session))
            /\ session' \in Rejected(session)
  BY DEF ReadError
<1>2. ReadGoes
  BY <1>1, ReturnGoes DEF Result
<1>3. CASE Is(session, "fatal") /\ session' = TakeRecord(session)
  <2>1. HasRecord(session) /\ Genuine(session) /\ NextRecord(session).type = "fatal"
    BY <1>3 DEF Is
  <2>2. Deals(session, session', 2, session.nextIn + 1, 0)
    BY <1>1, <1>3, <2>1, ReadIs, Dealing
  <2> QED
    BY <1>1, <1>2, <2>1, <2>2, EndedIs, CountsKeeps
<1>4. CASE Garbled(session) /\ session' \in Rejected(session)
  <2>1. Deals(session, session', 0, session.nextIn, session.zeros)
    BY <1>1, <1>4, ReadIs, Dealing
  <2>2. DealtWaits
    BY <1>1, <1>2, <2>1, ReadDealt DEF DealtWaits
  <2> QED
    BY <1>1, <1>2, <2>2, EndedIs, ReadKeeps
<1>5. CASE HasRecord(session) /\ ~ Genuine(session) /\ session' \in Rejected(session)
  <2>1. Deals(session, session', 2, session.nextIn, session.zeros)
    BY <1>1, <1>5, ReadIs, Dealing
  <2>2. DealtGivesUp
    BY <1>1, <1>2, <1>5, <2>1, ReadDealt DEF DealtGivesUp
  <2> QED
    BY <1>1, <1>2, <2>2, EndedIs, ReadKeeps
<1> QED
  BY <1>1, <1>3, <1>4, <1>5

-----------------------------------------------------------------------------
(* tls_process.                                                            *)

\* Where it leaves the fiber.
ProcessGoes ==
    \/ /\ pc' = "pump" /\ call' = call /\ result' = result
       /\ hs' = TRUE \/ (hs' = hs /\ session'.nextIn = session.nextIn
                                  /\ session'.zeros = session.zeros)
    \/ pc' = "flush" /\ call' = "alert" /\ result' \in Result /\ hs' = hs

\* Where the fiber is in tls_process: the first record can only be the flight.
LEMMA ProcessIs ==
    ASSUME IInv, pc = "process", NEW s \in FlushOutput(session)
    PROVE  /\ pc \notin Over /\ call = "handshake" /\ ~ closed /\ ~ hs
           /\ session \in Session /\ InFits(session)
           /\ session.nextIn = 0 /\ session.zeros = 0
           /\ s \in Session /\ SameIn(session, s) /\ Silent(session, s)
           /\ HasRecord(session) /\ Genuine(session) => NextRecord(session).type = "flight"
<1>1. session \in Session
  BY UnitsAre DEF IInv
<1>2. /\ pc \notin Over /\ call = "handshake" /\ ~ closed /\ ~ hs /\ InFits(session)
      /\ session.nextIn = 0 /\ session.zeros = 0
  BY DEF IInv, Course, Over, Rest, Fits
<1>3. Flushed(session, s)
  BY <1>1, FlushOutputIs
<1>4. s \in Session /\ SameIn(session, s) /\ Silent(session, s)
  BY <1>3, SilentIs DEF Flushed
<1>5. ASSUME HasRecord(session), Genuine(session)
      PROVE  NextRecord(session).type = "flight"
  <2>1. Len(Fetched(session)) \in Nat /\ Len(Fetched(session)) >= 2
    BY <1>1, <1>5, FetchedIs DEF HasRecord
  <2>2. 1 \in 1 .. Len(Fetched(session))
    BY <2>1
  <2>3. Fetched(session)[1] \in TheirUnits
    BY <1>1, <2>2, FetchedIs DEF TheirUnits
  <2>4. NextRecord(session).seq = 0
    BY <1>2, <1>5 DEF Genuine
  <2>5. 0 < Len(peer.log) /\ peer.log[0 + 1] = NextRecord(session)
    BY <2>3, <2>4 DEF IInv, Rest, TheySaid, From, NextRecord
  <2>6. peer.log # <<>>
    BY <2>5, EmptyIs
  <2> QED
    BY <2>5, <2>6 DEF IInv, Rest, TheySaid
<1> QED
  BY <1>1, <1>2, <1>4, <1>5

\* tls_process leaves the fiber where a handshake may be.
LEMMA ProcessEnds ==
    ASSUME IInv, pc = "process", call = "handshake", ~ closed, ProcessGoes,
           session.nextIn = 0, session.zeros = 0,
           UNCHANGED << scratch, Wire, peer, tries, Histories >>,
           DealtWaits \/ DealtCounts \/ DealtGivesUp
    PROVE  IInv'
<1>1. TypeOK /\ Course /\ Rest
  BY DEF IInv
<1>2. Rest' /\ session' \in Session
  BY <1>1, DealtKeeps
<1>3. /\ pc' \in Running \cup {"idle"} \cup Over /\ call' \in Call /\ result' \in Result
      /\ hs' \in BOOLEAN
  BY <1>1 DEF ProcessGoes, TypeOK, Running, Call
<1>4. TypeOK'
  BY <1>1, <1>2, <1>3 DEF TypeOK, Wire, Histories
<1>5. Course'
  BY DEF Course, ProcessGoes, Over, Histories
<1> QED
  BY <1>2, <1>4, <1>5 DEF IInv

\* tls_process keeps the invariant.
LEMMA ProcessKeeps ==
    ASSUME IInv, Process
    PROVE  IInv'
<1>1. pc = "process" /\ UNCHANGED << scratch, Wire, peer, tries, Histories >>
  BY DEF Process
<1>2. PICK s \in FlushOutput(session) :
        \/ /\ Sent(s) /\ ~HasRecord(s) /\ ~Garbled(s)
           /\ session' = KeepPartial(s)
           /\ pc' = "pump"
           /\ UNCHANGED << call, result, hs >>
        \/ /\ Sent(s) /\ Is(s, "flight")
           /\ session' \in WriteRecord(TakeRecord(s), "finished", 0)
           /\ \/ /\ Sent(session')
                 /\ hs' = TRUE
                 /\ pc' = "pump"
                 /\ UNCHANGED << call, result >>
              \/ /\ ~Sent(session')
                 /\ pc' = "flush" /\ call' = "alert" /\ result' = "HandshakeFailure"
                 /\ UNCHANGED hs
        \/ /\ ~Sent(s) \/ Garbled(s) \/ (HasRecord(s) /\ ~Is(s, "flight"))
           /\ session' \in IF Sent(s) THEN Rejected(s) ELSE {s}
           /\ pc' = "flush" /\ call' = "alert" /\ result' = "HandshakeFailure"
           /\ UNCHANGED hs
  BY DEF Process
<1>3. /\ pc \notin Over /\ call = "handshake" /\ ~ closed /\ ~ hs
      /\ session \in Session /\ InFits(session)
      /\ session.nextIn = 0 /\ session.zeros = 0
      /\ s \in Session /\ SameIn(session, s) /\ Silent(session, s)
      /\ HasRecord(session) /\ Genuine(session) => NextRecord(session).type = "flight"
  BY <1>1, ProcessIs
<1>4. /\ Garbled(s) = Garbled(session) /\ HasRecord(s) = HasRecord(session)
      /\ NextRecord(s) = NextRecord(session) /\ Genuine(s) = Genuine(session)
  BY <1>3, Alike
<1>5. ASSUME NEW n, NEW c, NEW z, Deals(session, session', n, c, z),
             pc' \in {"pump", "flush"}, call' \in {"handshake", "alert"}
      PROVE  Dealt(n, c, z)
  BY <1>1, <1>3, <1>5 DEF Dealt, Over, Histories
<1>6. CASE /\ ~HasRecord(s) /\ ~Garbled(s)
           /\ session' = KeepPartial(s)
           /\ pc' = "pump"
           /\ UNCHANGED << call, result, hs >>
  <2>1. Deals(session, session', 0, session.nextIn, session.zeros)
    BY <1>3, <1>4, <1>6, Dealing
  <2>2. Dealt(0, session.nextIn, session.zeros)
    BY <1>3, <1>5, <1>6, <2>1
  <2>3. DealtWaits
    BY <1>1, <2>2 DEF DealtWaits, Histories
  <2>4. session'.nextIn = session.nextIn /\ session'.zeros = session.zeros
    BY <1>3, <2>1, DealsIs
  <2>5. ProcessGoes
    BY <1>6, <2>4 DEF ProcessGoes
  <2> QED
    BY <1>1, <1>3, <2>3, <2>5, ProcessEnds
<1>7. CASE /\ Is(s, "flight")
           /\ session' \in WriteRecord(TakeRecord(s), "finished", 0)
           /\ \/ /\ hs' = TRUE
                 /\ pc' = "pump"
                 /\ UNCHANGED << call, result >>
              \/ /\ pc' = "flush" /\ call' = "alert" /\ result' = "HandshakeFailure"
                 /\ UNCHANGED hs
  <2>1. HasRecord(session) /\ Genuine(session) /\ NextRecord(session).type = "flight"
    BY <1>4, <1>7 DEF Is
  <2>2. Deals(session, session', 2, session.nextIn + 1, 0)
    BY <1>3, <1>7, <2>1, Dealing DEF Answers
  <2>3. Dealt(2, session.nextIn + 1, 0)
    BY <1>3, <1>5, <1>7, <2>2
  <2>4. DealtCounts
    BY <1>1, <2>1, <2>3, EndedIs DEF DealtCounts, Histories
  <2>5. ProcessGoes
    BY <1>7 DEF ProcessGoes, Result
  <2> QED
    BY <1>1, <1>3, <2>4, <2>5, ProcessEnds
<1>8. CASE /\ ~Sent(s) \/ Garbled(s) \/ (HasRecord(s) /\ ~Is(s, "flight"))
           /\ session' \in IF Sent(s) THEN Rejected(s) ELSE {s}
           /\ pc' = "flush" /\ call' = "alert" /\ result' = "HandshakeFailure"
           /\ UNCHANGED hs
  <2>1. ProcessGoes
    BY <1>8 DEF ProcessGoes, Result
  <2>2. CASE ~ Sent(s) \/ Garbled(s)
    <3>1. Deals(session, session', 0, session.nextIn, session.zeros)
      <4>1. CASE ~ Sent(s)
        <5>1. session' = s
          BY <1>8, <4>1
        <5> QED
          BY <1>3, <5>1, Dealing
      <4>2. CASE Sent(s) /\ Garbled(s)
        <5>1. session' \in Rejected(s)
          BY <1>8, <4>2
        <5> QED
          BY <1>3, <1>4, <4>2, <5>1, Dealing
      <4> QED
        BY <2>2, <4>1, <4>2
    <3>2. Dealt(0, session.nextIn, session.zeros)
      BY <1>5, <1>8, <3>1
    <3>3. DealtWaits
      BY <1>1, <3>2 DEF DealtWaits, Histories
    <3> QED
      BY <1>1, <1>3, <2>1, <3>3, ProcessEnds
  <2>3. CASE Sent(s) /\ HasRecord(s) /\ ~Is(s, "flight")
    <3>1. session' \in Rejected(s) /\ HasRecord(session) /\ ~ Genuine(session)
      BY <1>3, <1>4, <1>8, <2>3 DEF Is
    <3>2. Deals(session, session', 2, session.nextIn, session.zeros)
      BY <1>3, <3>1, Dealing
    <3>3. Dealt(2, session.nextIn, session.zeros)
      BY <1>5, <1>8, <3>2
    <3>4. DealtGivesUp
      BY <1>1, <3>1, <3>3 DEF DealtGivesUp, Histories
    <3> QED
      BY <1>1, <1>3, <2>1, <3>4, ProcessEnds
  <2> QED
    BY <1>8, <2>2, <2>3
<1> QED
  BY <1>2, <1>6, <1>7, <1>8

-----------------------------------------------------------------------------
(* flush_out and fill_from_tcp.                                            *)

\* A step that leaves the session and what comes to it alone.
Elsewhere ==
    /\ session' = session /\ pc \notin Over /\ pc' \notin Over
    /\ Held(scratch') \cup Held(toPeer') \subseteq Held(scratch) \cup Held(toPeer)
    /\ UNCHANGED << toUs, peer, sealed, received, ended, closed >>

\* Bytes that only move towards TCP change nothing that was said or heard.
LEMMA ElsewhereKeeps ==
    ASSUME Rest, Elsewhere
    PROVE  Fits' /\ OursInv' /\ TheySaid' /\ Whole'
<1> USE DEF Rest, Elsewhere
<1>1. SaysNothing
  BY DEF SaysNothing, OurUnits
<1>2. HearsNothing
  BY DEF HearsNothing, TheirUnits
<1>3. Whole'
  BY WholeRests DEF SameIn
<1> QED
  BY <1>1, <1>2, <1>3, SaysNothingKeeps, HearsNothingKeeps DEF Fits

\* The end of connect or @close: the session is gone, and what is on the wire
\* stays there.
LEMMA ReleaseKeeps ==
    ASSUME IInv, pc # "pump", NEW to \in Over, NEW outcome \in Result, Release(to, outcome),
           toPeer' \in Seq(Unit), Held(toPeer') \subseteq Held(scratch) \cup Held(toPeer),
           toUs' \in Seq(Unit), Held(toUs') \subseteq Held(toUs)
    PROVE  IInv'
<1> USE DEF IInv
<1>1. /\ pc' = to /\ result' = outcome /\ session' = Fresh /\ scratch' = <<>>
      /\ UNCHANGED << call, hs, peer, tries, sealed, told, received, ended, closed >>
  BY DEF Release, Histories
<1>2. /\ Fresh \in Session /\ OutUnits(Fresh) = {} /\ InUnits(Fresh) = {}
      /\ InFits(Fresh) /\ OutFits(Fresh) /\ Sent(Fresh)
      /\ Fresh.nextIn = 0 /\ Fresh.zeros = 0
  <2>1. /\ Fresh.inb = <<>> /\ Fresh.left = <<>> /\ Fresh.outb = <<>> /\ Fresh.outLeft = <<>>
        /\ Fresh.inCap = 0 /\ Fresh.outCap = 0 /\ Fresh.nextIn = 0 /\ Fresh.zeros = 0
    BY DEF Fresh
  <2>2. Fresh \in Session
    <3>1. 0 \in Nat /\ 0 \in 0 .. 4
      OBVIOUS
    <3> QED
      BY <3>1, EmptyIs DEF Fresh, Session
  <2>3. Size(<<>>) = 0
    BY EmptyIs, SizeIs
  <2> QED
    BY <2>1, <2>2, <2>3, EmptyIs DEF OutUnits, InUnits, InFits, OutFits, Sent
<1>3. SaysNothing
  BY <1>1, <1>2, EmptyIs DEF SaysNothing, OurUnits
<1>4. HearsNothing
  BY <1>1, <1>2 DEF HearsNothing, TheirUnits
<1>5. OursInv' /\ TheySaid'
  BY <1>3, <1>4, SaysNothingKeeps, HearsNothingKeeps DEF Rest
<1>6. Rising' /\ Kept' /\ Whole' /\ Fits'
  BY <1>1, <1>2 DEF Rest, Rising, Kept, Whole, Fits, Over, Sealed
<1>7. Course'
  BY <1>1, <1>2 DEF Course, Over
<1>8. TypeOK'
  <2>1. TypeOK /\ pc' \in Over
    BY <1>1
  <2> QED
    BY <1>1, <1>2, <2>1, EmptyIs DEF TypeOK
<1> QED
  BY <1>5, <1>6, <1>7, <1>8 DEF Rest

\* An operation returns, and the session is what it was.
LEMMA ReturnKeeps ==
    ASSUME IInv, pc \in {"flush", "send", "fill"}, call \notin {"close"},
           NEW outcome \in Result, Return(outcome), Elsewhere,
           scratch' \in Seq(Unit), Len(scratch') <= Chunk, toPeer' \in Seq(Unit),
           UNCHANGED << hs, tries >>,
           told' = told \/ (call = "write" /\ pc = "flush" /\ told' = Append(told, tries))
    PROVE  IInv'
<1> USE DEF IInv
<1>1. pc' = "idle" /\ call' = "none" /\ result' = outcome
  BY DEF Return
<1>2. Fits' /\ OursInv' /\ TheySaid' /\ Whole'
  BY ElsewhereKeeps
<1>3. ~ closed
  BY DEF Course, Over
<1>4. told \in Seq(1 .. MaxWrites) /\ (call = "write" => tries \in 1 .. MaxWrites)
  BY FaultsAssumption DEF TypeOK, Course
<1>5. told' \in Seq(1 .. MaxWrites)
  <2>1. CASE told' = told
    BY <1>4, <2>1
  <2>2. CASE call = "write" /\ told' = Append(told, tries)
    <3>1. tries \in 1 .. MaxWrites
      BY <1>4, <2>2
    <3>2. Append(told, tries) \in Seq(1 .. MaxWrites)
      BY <1>4, <3>1, AppendProperties
    <3> QED
      BY <2>2, <3>2
  <2> QED
    BY <2>1, <2>2
<1>6. TypeOK'
  <2>1. TypeOK
    OBVIOUS
  <2>2. "idle" \in Running \cup {"idle"} \cup Over /\ "none" \in Call
    BY DEF Call
  <2> QED
    BY <1>1, <1>5, <2>1, <2>2 DEF TypeOK, Elsewhere
<1>7. Rising'
  BY <1>1 DEF Rest, Rising, Elsewhere
<1>8. Kept'
  <2> SUFFICES ASSUME ~ MayStarve PROVE (\A i \in 1 .. Len(told) : Sealed(told[i]))' /\ Sent(session)'
    BY <1>1 DEF Kept
  <2>1. /\ Sent(session) /\ \A i \in 1 .. Len(told) : Sealed(told[i])
        /\ call = "write" /\ pc \in {"flush", "send"} => Sealed(tries)
    BY DEF Rest, Kept
  <2>2. \A x : Sealed(x)' <=> Sealed(x)
    BY DEF Sealed, Elsewhere
  <2>3. CASE told' = told
    BY <2>1, <2>2, <2>3 DEF Elsewhere, Sealed
  <2>4. CASE call = "write" /\ pc = "flush" /\ told' = Append(told, tries)
    <3>1. /\ Len(told') = Len(told) + 1 /\ told'[Len(told) + 1] = tries /\ Len(told) \in Nat
          /\ \A i \in 1 .. Len(told) : told'[i] = told[i]
      BY <1>4, <2>4, AppendProperties, LenProperties
    <3>2. \A i \in 1 .. Len(told') : i \in 1 .. Len(told) \/ i = Len(told) + 1
      BY <3>1
    <3>3. \A i \in 1 .. Len(told') : Sealed(told'[i])
      BY <2>1, <2>4, <3>1, <3>2
    <3> QED
      BY <2>1, <3>3 DEF Elsewhere, Sealed
  <2> QED
    BY <2>3, <2>4
<1>9. Course'
  BY <1>1, <1>3 DEF Course, Elsewhere
<1> QED
  BY <1>2, <1>6, <1>7, <1>8, <1>9 DEF Rest

\* tls_write_tls drains a chunk.
LEMMA FlushChunkKeeps ==
    ASSUME IInv, FlushChunk
    PROVE  IInv'
<1> USE DEF IInv
<1>1. PICK n : /\ n = IF Len(session.outb) < Chunk THEN Len(session.outb) ELSE Chunk
               /\ scratch' = SubSeq(session.outb, 1, n)
               /\ session' = [session EXCEPT !.outb = SubSeq(session.outb, n + 1, Len(session.outb))]
  BY DEF FlushChunk
<1>2. /\ pc = "flush" /\ pc' = "send"
      /\ UNCHANGED << call, result, hs, toPeer, toUs, peer, tries,
                      sealed, told, received, ended, closed >>
  BY DEF FlushChunk, Wire, Histories
<1> DEFINE q == session.outb
           b == SubSeq(q, n + 1, Len(q))
<1>3. session \in Session /\ q \in Seq(Unit) /\ Len(q) \in Nat
  BY UnitsAre, SessionIs
<1>4. n \in 0 .. Len(q)
  BY <1>1, <1>3, FaultsAssumption
<1>5. /\ SubSeq(q, 1, n) \in Seq(Unit) /\ Held(SubSeq(q, 1, n)) \subseteq Held(q)
      /\ b \in Seq(Unit) /\ Held(b) \subseteq Held(q) /\ Size(b) <= Size(q)
      /\ Size(b) \in Nat /\ Size(q) \in Nat
  BY <1>3, <1>4, Cut, SizeIs
<1>6. session' = [session EXCEPT !.outb = b]
  BY <1>1
<1> HIDE DEF q, b
<1>7. /\ session' \in Session /\ session'.outb = b /\ session'.outLeft = session.outLeft
      /\ session'.outCap = session.outCap /\ session'.nextOut = session.nextOut
      /\ SameIn(session, session')
  BY <1>3, <1>5, <1>6 DEF Session, SameIn
<1>8. scratch' \in Seq(Unit) /\ Held(scratch') \subseteq Held(q) /\ Len(scratch') <= Chunk
  <2>1. n <= Chunk
    BY <1>1, <1>3, FaultsAssumption DEF q
  <2>2. Len(SubSeq(q, 1, n)) = n
    BY <1>3, <1>4, SubSeqProperties
  <2> QED
    BY <1>1, <1>5, <2>1, <2>2 DEF q
<1>9. Fits'
  <2>1. InFits(session') /\ Size(q) <= session.outCap /\ session.outCap \in Nat
    BY <1>3, <1>7, Alike, SessionIs DEF Rest, Fits, OutFits, q
  <2> QED
    BY <1>5, <1>7, <2>1 DEF Fits, OutFits
<1>10. SaysNothing
  BY <1>2, <1>5, <1>7, <1>8 DEF SaysNothing, OurUnits, OutUnits, Over, q
<1>11. HearsNothing
  BY <1>2, <1>7, Alike DEF HearsNothing, TheirUnits, Over, SameIn
<1>12. Whole'
  BY <1>2, <1>7, WholeRests DEF Rest, Over
<1>13. Rising' /\ Kept'
  BY <1>2, <1>7 DEF Rest, Rising, Kept, Sealed, Sent
<1>14. Course'
  BY <1>2, <1>7 DEF Course, SameIn, Over
<1>15. TypeOK'
  <2>1. TypeOK /\ "send" \in Running
    BY DEF Running
  <2> QED
    BY <1>2, <1>7, <1>8, <2>1 DEF TypeOK
<1> QED
  BY <1>9, <1>10, <1>11, <1>12, <1>13, <1>14, <1>15, SaysNothingKeeps, HearsNothingKeeps DEF Rest

\* Net.write_all takes it.
LEMMA SendToTcpKeeps ==
    ASSUME IInv, SendToTcp
    PROVE  IInv'
<1> USE DEF IInv
<1>1. /\ pc = "send" /\ pc' = "flush" /\ toPeer' = toPeer \o scratch /\ scratch' = <<>>
      /\ UNCHANGED << call, result, hs, session, toUs, peer, tries,
                      sealed, told, received, ended, closed >>
  BY DEF SendToTcp, Histories
<1>2. toPeer' \in Seq(Unit) /\ Held(toPeer') = Held(toPeer) \cup Held(scratch)
  BY <1>1, UnitsAre, Join
<1>3. Elsewhere
  BY <1>1, <1>2, EmptyIs DEF Elsewhere, Over
<1>4. Fits' /\ OursInv' /\ TheySaid' /\ Whole'
  BY <1>3, ElsewhereKeeps
<1>5. Rising' /\ Kept'
  BY <1>1 DEF Rest, Rising, Kept, Sealed, Sent
<1>6. Course'
  BY <1>1 DEF Course, Over
<1>7. TypeOK'
  <2>1. TypeOK /\ "flush" \in Running
    BY DEF Running
  <2> QED
    BY <1>1, <1>2, <2>1, EmptyIs DEF TypeOK
<1> QED
  BY <1>4, <1>5, <1>6, <1>7 DEF Rest

\* Net.write_all takes part of it and fails.
LEMMA SendFailsKeeps ==
    ASSUME IInv, SendFails
    PROVE  IInv'
<1> USE DEF IInv
<1>1. PICK k \in 0 .. Len(scratch) - 1 : toPeer' = toPeer \o SubSeq(scratch, 1, k)
  BY DEF SendFails
<1>2. pc = "send" /\ toUs' = toUs
  BY DEF SendFails
<1>3. /\ toPeer \in Seq(Unit) /\ scratch \in Seq(Unit) /\ toUs \in Seq(Unit)
      /\ k \in 0 .. Len(scratch) /\ Len(scratch) \in Nat
  BY UnitsAre, LenProperties
<1>4. /\ SubSeq(scratch, 1, k) \in Seq(Unit)
      /\ Held(SubSeq(scratch, 1, k)) \subseteq Held(scratch)
  BY <1>3, Cut
<1>5. toPeer' \in Seq(Unit) /\ Held(toPeer') \subseteq Held(scratch) \cup Held(toPeer)
  BY <1>1, <1>3, <1>4, Join
<1>6. result \in Result /\ "Net" \in Result
  BY DEF TypeOK, Result
<1>7. ASSUME NEW to \in Over, NEW outcome \in Result, Release(to, outcome) PROVE IInv'
  BY <1>2, <1>3, <1>5, <1>7, ReleaseKeeps
<1>8. ASSUME call \in {"read", "write", "flush"}, Return("Net"), scratch' = <<>>,
             UNCHANGED << hs, session, peer, tries, Histories >>
      PROVE  IInv'
  <2>1. Elsewhere
    BY <1>2, <1>5, <1>8, EmptyIs DEF Elsewhere, Over, Histories, Return
  <2>2. /\ told' = told /\ call # "close" /\ UNCHANGED << hs, tries >>
        /\ scratch' \in Seq(Unit) /\ Len(scratch') <= Chunk
    BY <1>8, EmptyIs DEF Histories
  <2> QED
    BY <1>2, <1>5, <1>6, <1>8, <2>1, <2>2, ReturnKeeps
<1>9. "failed" \in Over /\ "closed" \in Over
  BY DEF Over
<1> QED
  BY <1>6, <1>7, <1>8, <1>9 DEF SendFails

\* flush_out is done; a @write returns Ok.
LEMMA FlushDoneKeeps ==
    ASSUME IInv, FlushDone
    PROVE  IInv'
<1> USE DEF IInv
<1>1. pc = "flush" /\ toPeer' = toPeer /\ toUs' = toUs
  BY DEF FlushDone, Wire
<1>2. /\ toPeer \in Seq(Unit) /\ toUs \in Seq(Unit) /\ scratch \in Seq(Unit)
      /\ Len(scratch) <= Chunk
  BY UnitsAre
<1>3. result \in Result /\ "ok" \in Result
  BY DEF TypeOK, Result
<1>4. ASSUME NEW to \in Over, NEW outcome \in Result, Release(to, outcome) PROVE IInv'
  BY <1>1, <1>2, <1>4, ReleaseKeeps
<1>5. CASE /\ call \in {"handshake", "read"}
           /\ pc' = IF call = "read" THEN "fill" ELSE "pump"
           /\ UNCHANGED << call, result, hs, session, scratch, peer, tries, Histories >>
  <2>1. Elsewhere
    BY <1>1, <1>5 DEF Elsewhere, Over, Histories
  <2>2. Fits' /\ OursInv' /\ TheySaid' /\ Whole'
    BY <2>1, ElsewhereKeeps
  <2>3. Rising' /\ Kept'
    BY <1>5 DEF Rest, Rising, Kept, Sealed, Sent, Histories
  <2>4. Course'
    BY <1>1, <1>5 DEF Course, Over, Histories
  <2>5. TypeOK'
    <3>1. TypeOK /\ "fill" \in Running /\ "pump" \in Running
      BY DEF Running
    <3> QED
      BY <1>1, <1>5, <3>1 DEF TypeOK, Histories
  <2> QED
    BY <2>2, <2>3, <2>4, <2>5 DEF Rest
<1>6. CASE /\ call \in {"final", "write", "flush"}
           /\ Return("ok")
           /\ told' = IF call = "write" THEN Append(told, tries) ELSE told
           /\ UNCHANGED << hs, session, scratch, peer, tries, sealed, received, ended, closed >>
  <2>1. Elsewhere
    BY <1>1, <1>6 DEF Elsewhere, Over, Return
  <2> QED
    BY <1>1, <1>2, <1>3, <1>6, <2>1, ReturnKeeps
<1>7. "failed" \in Over /\ "closed" \in Over
  BY DEF Over
<1> QED
  BY <1>3, <1>4, <1>5, <1>6, <1>7 DEF FlushDone

\* fill_from_tcp ends without bytes, and nothing is taken from TCP.
LEMMA FillEndsKeeps ==
    ASSUME IInv, pc = "fill", UNCHANGED Wire,
           NEW atHandshake \in Result, NEW atRead \in Result, FillEnds(atHandshake, atRead)
    PROVE  IInv'
<1> USE DEF IInv
<1>1. toPeer' = toPeer /\ toUs' = toUs
  BY DEF Wire
<1>2. /\ toPeer \in Seq(Unit) /\ toUs \in Seq(Unit) /\ scratch \in Seq(Unit)
      /\ Len(scratch) <= Chunk
  BY UnitsAre
<1>3. CASE Release("failed", atHandshake)
  <2>1. "failed" \in Over
    BY DEF Over
  <2> QED
    BY <1>1, <1>2, <1>3, <2>1, ReleaseKeeps
<1>4. CASE /\ call = "read" /\ Return(atRead)
           /\ UNCHANGED << hs, session, scratch, peer, tries, Histories >>
  <2>1. Elsewhere
    BY <1>1, <1>4 DEF Elsewhere, Over, Return, Histories
  <2> QED
    BY <1>1, <1>2, <1>4, <2>1, ReturnKeeps DEF Histories
<1> QED
  BY <1>3, <1>4 DEF FillEnds

\* Net.read fails.
LEMMA FillFailsKeeps ==
    ASSUME IInv, FillFails
    PROVE  IInv'
BY FillEndsKeeps DEF FillFails, Result

\* TCP is at its end.
LEMMA FillEofKeeps ==
    ASSUME IInv, FillEof
    PROVE  IInv'
BY FillEndsKeeps DEF FillEof, Result

\* Bytes that in_buf could not hold are gone: only then is anything.
LEMMA FillFromTcpKeeps ==
    ASSUME IInv, FillFromTcp
    PROVE  IInv'
<1> USE DEF IInv
<1>1. PICK n \in 1 .. (IF Len(toUs) < Chunk THEN Len(toUs) ELSE Chunk) :
        /\ toUs' = SubSeq(toUs, n + 1, Len(toUs))
        /\ \E s \in tls_read_tls(session, SubSeq(toUs, 1, n)) :
            \/ /\ Len(s.inb) = Len(session.inb) + n
               /\ session' = s
               /\ pc' = IF call = "read" THEN "read" ELSE "process"
               /\ UNCHANGED << call, result, hs, scratch, peer, tries, Histories >>
            \/ /\ Len(s.inb) # Len(session.inb) + n
               /\ FillEnds("Internal", "Internal")
  BY DEF FillFromTcp
<1> DEFINE x == SubSeq(toUs, 1, n)
           y == SubSeq(toUs, n + 1, Len(toUs))
<1>2. PICK s \in tls_read_tls(session, x) :
            \/ /\ Len(s.inb) = Len(session.inb) + n
               /\ session' = s
               /\ pc' = IF call = "read" THEN "read" ELSE "process"
               /\ UNCHANGED << call, result, hs, scratch, peer, tries, Histories >>
            \/ /\ Len(s.inb) # Len(session.inb) + n
               /\ FillEnds("Internal", "Internal")
  BY <1>1
<1>3. /\ pc = "fill" /\ toPeer' = toPeer /\ call \in {"handshake", "read"} /\ ~ closed
      /\ session \in Session /\ InFits(session) /\ toUs \in Seq(Unit) /\ Len(toUs) \in Nat
      /\ toPeer \in Seq(Unit) /\ scratch \in Seq(Unit)
  BY UnitsAre, LenProperties DEF FillFromTcp, Course, Rest, Fits, Over
<1>4. n \in 1 .. Len(toUs) /\ n \in 0 .. Len(toUs)
  BY <1>1, <1>3, FaultsAssumption
<1>5. /\ x \in Seq(Unit) /\ Len(x) = n /\ Held(x) \subseteq Held(toUs)
      /\ y \in Seq(Unit) /\ Held(y) \subseteq Held(toUs)
  BY <1>3, <1>4, Cut
<1>6. /\ s \in Session /\ SameOut(session, s) /\ InFits(s)
      /\ s.left = session.left /\ s.nextIn = session.nextIn /\ s.zeros = session.zeros
      /\ s.inb = session.inb \o x \/ (s.inb = session.inb /\ MayStarve)
  BY <1>2, <1>3, <1>5, tls_read_tlsIs
<1>7. toUs' = y
  BY <1>1
<1>8. Len(session.inb \o x) = Len(session.inb) + n /\ Len(session.inb) \in Nat
      /\ session.inb \in Seq(Unit)
  BY <1>3, <1>5, SessionIs, Join
<1>9. CASE /\ Len(s.inb) = Len(session.inb) + n
           /\ session' = s
           /\ pc' = IF call = "read" THEN "read" ELSE "process"
           /\ UNCHANGED << call, result, hs, scratch, peer, tries, Histories >>
  <2>1. s.inb = session.inb \o x
    BY <1>4, <1>6, <1>8, <1>9
  <2>2. Held(s.inb) \subseteq Held(session.inb) \cup Held(toUs)
    <3>1. Held(session.inb \o x) = Held(session.inb) \cup Held(x)
      BY <1>5, <1>8, Join
    <3> QED
      BY <1>5, <2>1, <3>1
  <2>3. SaysNothing
    BY <1>3, <1>6, <1>9 DEF SaysNothing, OurUnits, OutUnits, SameOut, Over, Histories
  <2>4. HearsNothing
    BY <1>3, <1>5, <1>6, <1>7, <1>9, <2>2 DEF HearsNothing, TheirUnits, InUnits, Over, Histories
  <2>5. Fits'
    BY <1>6, <1>9 DEF Rest, Fits, OutFits, SameOut
  <2>6. Rising' /\ Kept'
    BY <1>3, <1>6, <1>9 DEF Rest, Rising, Kept, Sealed, Sent, SameOut, Histories
  <2>7. Whole'
    <3> SUFFICES ASSUME WholeFor(session, toUs) PROVE WholeFor(session, toUs)'
      BY <1>3 DEF Rest, Whole, Over
    <3>1. PICK d \in Nat : /\ d = 0 <=> session.zeros <= 3
                           /\ Along(peer.log, session, toUs, 2 * (session.nextIn + d))
      BY DEF WholeFor
    <3>2. 2 * (session.nextIn + d) \in Nat
      BY <1>3, SessionIs
    <3>3. Along(peer.log, s, y, 2 * (session.nextIn + d))
      BY <1>3, <1>4, <1>6, <2>1, <3>1, <3>2, UnitsAre, AlongFills
    <3> QED
      BY <1>6, <1>7, <1>9, <3>1, <3>3 DEF WholeFor
  <2>8. Course'
    BY <1>3, <1>6, <1>9 DEF Course, Over, Histories
  <2>9. TypeOK'
    <3>1. TypeOK /\ "read" \in Running /\ "process" \in Running
      BY DEF Running
    <3> QED
      BY <1>3, <1>5, <1>6, <1>7, <1>9, <3>1 DEF TypeOK, Histories
  <2> QED
    BY <2>3, <2>4, <2>5, <2>6, <2>7, <2>8, <2>9, SaysNothingKeeps, HearsNothingKeeps DEF Rest
<1>10. CASE /\ Len(s.inb) # Len(session.inb) + n
            /\ FillEnds("Internal", "Internal")
  <2>1. MayStarve
    BY <1>6, <1>8, <1>10
  <2>2. "Internal" \in Result /\ "failed" \in Over
    BY DEF Result, Over
  <2>3. CASE Release("failed", "Internal")
    BY <1>3, <1>5, <1>7, <2>2, <2>3, ReleaseKeeps
  <2>4. CASE /\ call = "read" /\ Return("Internal")
             /\ UNCHANGED << hs, session, scratch, peer, tries, Histories >>
    <3>1. /\ pc' = "idle" /\ call' = "none" /\ result' = "Internal"
          /\ UNCHANGED << hs, session, scratch, toPeer, peer, tries,
                          sealed, told, received, ended, closed >>
      BY <1>3, <2>4 DEF Return, Histories
    <3>2. SaysNothing
      BY <1>3, <3>1 DEF SaysNothing, OurUnits, Over
    <3>3. HearsNothing
      BY <1>3, <1>5, <1>7, <3>1 DEF HearsNothing, TheirUnits, Over
    <3>4. Fits' /\ Rising' /\ Kept' /\ Whole'
      BY <2>1, <3>1 DEF Rest, Fits, Rising, Kept, Whole
    <3>5. Course'
      BY <1>3, <3>1 DEF Course
    <3>6. TypeOK'
      <4>1. TypeOK /\ "none" \in Call
        BY DEF Call
      <4> QED
        BY <1>3, <1>5, <1>7, <2>2, <3>1, <4>1 DEF TypeOK
    <3> QED
      BY <3>2, <3>3, <3>4, <3>5, <3>6, SaysNothingKeeps, HearsNothingKeeps DEF Rest
  <2> QED
    BY <1>10, <2>3, <2>4 DEF FillEnds
<1> QED
  BY <1>2, <1>9, <1>10

-----------------------------------------------------------------------------
(* pump_handshake, and the start of an operation.                          *)

\* The fiber goes on elsewhere; no queue changes.
LEMMA GoesKeeps ==
    ASSUME IInv, pc \in {"pump", "idle"}, pc' \in {"flush", "fill", "read", "write"},
           UNCHANGED << hs, session, scratch, Wire, peer, Histories >>, result' \in Result,
           \/ pc = "pump" /\ tries' = tries /\ pc' \in {"flush", "fill"}
              /\ IF hs THEN call' = "final" /\ pc' = "flush" ELSE call' = call
           \/ pc = "idle" /\ tries' = tries
              /\ \/ call' = "read" /\ pc' = "read"
                 \/ call' = "flush" /\ pc' = "flush"
           \/ pc = "idle" /\ tries < MaxWrites /\ tries' = tries + 1
              /\ call' = "write" /\ pc' = "write"
    PROVE  IInv'
<1> USE DEF IInv
<1>1. /\ UNCHANGED << hs, session, scratch, toPeer, toUs, peer, sealed, told,
                      received, ended, closed >>
      /\ pc \notin Over /\ pc' \notin Over
  BY DEF Wire, Histories, Over
<1>2. Elsewhere
  BY <1>1 DEF Elsewhere
<1>3. Fits' /\ OursInv' /\ TheySaid' /\ Whole'
  BY <1>2, ElsewhereKeeps
<1>4. /\ ~ closed /\ call # "write" /\ tries \in 0 .. MaxWrites /\ MaxWrites \in Nat
      /\ pc = "pump" => call = "handshake"
  BY FaultsAssumption DEF Course, Over, TypeOK
<1>5. Rising'
  <2>1. /\ \A i \in 1 .. Len(sealed) : sealed[i] <= tries
        /\ Len(sealed) <= tries /\ Len(sealed) \in Nat
        /\ \A i \in 1 .. Len(sealed) : sealed[i] \in Nat
    <3>1. sealed \in Seq(1 .. MaxWrites)
      BY DEF TypeOK
    <3>2. \A i \in 1 .. Len(sealed) : sealed[i] \in 1 .. MaxWrites
      BY <3>1, ElementOfSeq
    <3> QED
      BY <3>1, <3>2, LenProperties DEF Rest, Rising
  <2>2. CASE tries' = tries /\ pc' # "write"
    BY <1>1, <2>2 DEF Rest, Rising
  <2>3. CASE tries' = tries + 1
    <3>1. /\ \A i \in 1 .. Len(sealed) : sealed[i] < tries' /\ sealed[i] <= tries'
          /\ Len(sealed) < tries' /\ Len(sealed) <= tries'
      BY <1>4, <2>1, <2>3
    <3> QED
      BY <1>1, <3>1 DEF Rest, Rising
  <2> QED
    BY <2>2, <2>3
<1>6. Kept'
  BY <1>1, <1>4 DEF Rest, Kept, Sealed
<1>7. Course'
  BY <1>1, <1>4 DEF Course
<1>8. TypeOK'
  <2>1. TypeOK /\ pc' \in Running /\ call' \in Call /\ tries' \in 0 .. MaxWrites
    BY <1>4 DEF Running, Call, TypeOK
  <2> QED
    BY <1>1, <2>1 DEF TypeOK
<1> QED
  BY <1>3, <1>5, <1>6, <1>7, <1>8 DEF Rest

\* pump_handshake looks where it is.
LEMMA PumpStepKeeps ==
    ASSUME IInv, PumpStep
    PROVE  IInv'
<1>1. result \in Result /\ hs \in BOOLEAN
  BY DEF IInv, TypeOK
<1> QED
  BY <1>1, GoesKeeps DEF PumpStep

\* An operation starts.
LEMMA StartsKeep ==
    ASSUME IInv, Read \/ Write \/ Flush
    PROVE  IInv'
<1>1. result \in Result
  BY DEF IInv, TypeOK
<1>2. CASE Read
  <2>1. /\ pc = "idle" /\ pc' = "read" /\ call' = "read" /\ tries' = tries /\ result' \in Result
        /\ UNCHANGED << hs, session, scratch, Wire, peer, Histories >>
    BY <1>1, <1>2 DEF Read
  <2>2. pc \in {"pump", "idle"} /\ pc' \in {"flush", "fill", "read", "write"}
    BY <2>1
  <2> QED
    BY <2>1, <2>2, GoesKeeps, Zenon
<1>3. CASE Write
  BY <1>1, <1>3, GoesKeeps DEF Write
<1>4. CASE Flush
  BY <1>1, <1>4, GoesKeeps DEF Flush
<1> QED
  BY <1>2, <1>3, <1>4

-----------------------------------------------------------------------------
(* @write and @close seal a record.                                        *)

\* tls_write_plain seals the byte, or sends what was left over.
LEMMA WriteStepKeeps ==
    ASSUME IInv, WriteStep
    PROVE  IInv'
<1> USE DEF IInv
<1>1. /\ pc = "write" /\ session' \in tls_write_plain(session, tries)
      /\ sealed' = IF session'.nextOut # session.nextOut THEN Append(sealed, tries) ELSE sealed
      /\ UNCHANGED << hs, scratch, toPeer, toUs, peer, tries, told, received, ended, closed >>
      /\ \/ Sent(session') /\ pc' = "flush" /\ UNCHANGED << call, result >>
         \/ ~Sent(session') /\ Return("HandshakeFailure")
  BY DEF WriteStep, Wire
<1>2. /\ session \in Session /\ session.nextOut \in Nat /\ call = "write" /\ ~ closed
      /\ tries \in 1 .. MaxWrites /\ tries \in Nat /\ MaxWrites \in Nat
      /\ sealed \in Seq(1 .. MaxWrites) /\ Len(sealed) \in Nat
      /\ \A i \in 1 .. Len(sealed) : sealed[i] \in 1 .. MaxWrites
  <2>1. /\ session \in Session /\ session.nextOut \in Nat
    BY UnitsAre, SessionIs
  <2>2. call = "write" /\ ~ closed /\ tries >= 1 /\ tries \in 0 .. MaxWrites
        /\ sealed \in Seq(1 .. MaxWrites)
    BY <1>1 DEF Course, Over, TypeOK
  <2>3. Len(sealed) \in Nat /\ \A i \in 1 .. Len(sealed) : sealed[i] \in 1 .. MaxWrites
    BY <2>2, LenProperties, ElementOfSeq
  <2> QED
    BY <2>1, <2>2, <2>3, FaultsAssumption
<1>3. \/ Wrote(session, session', "data", tries) /\ Sent(session)
      \/ Flushed(session, session') /\ ~ Sent(session)
  <2>1. "data" \in FromUs
    BY DEF FromUs
  <2>2. CASE Sent(session)
    <3>1. session' \in WriteRecord(session, "data", tries)
      BY <1>1, <2>2 DEF tls_write_plain
    <3> QED
      BY <1>2, <2>1, <2>2, <3>1, WriteRecordIs
  <2>3. CASE ~ Sent(session)
    <3>1. session' \in FlushOutput(session)
      BY <1>1, <2>3 DEF tls_write_plain
    <3> QED
      BY <1>2, <2>3, <3>1, FlushOutputIs
  <2> QED
    BY <2>2, <2>3
<1>4. /\ session' \in Session /\ SameIn(session, session')
      /\ OutFits(session) => OutFits(session')
      /\ MayStarve \/ Sent(session')
  BY <1>3 DEF Wrote, Flushed
<1>5. pc' \in {"flush", "idle"} /\ pc \notin Over /\ pc' \notin Over
  BY <1>1 DEF Return, Over
<1>6. OursInv'
  <2>1. CASE Wrote(session, session', "data", tries)
    <3>1. sealed' = Append(sealed, tries)
      BY <1>1, <1>2, <2>1 DEF Wrote
    <3>2. Says("data", tries)
      BY <1>1, <1>2, <1>5, <2>1, <3>1 DEF Says, OurUnits, Wrote
    <3> QED
      BY <1>2, <3>2, SaysKeeps DEF Rest, FromUs
  <2>2. CASE Flushed(session, session')
    <3>1. SaysNothing
      BY <1>1, <1>5, <2>2 DEF SaysNothing, OurUnits, Flushed
    <3> QED
      BY <3>1, SaysNothingKeeps DEF Rest
  <2> QED
    BY <1>3, <2>1, <2>2
<1>7. HearsNothing
  BY <1>1, <1>4, <1>5, Alike DEF HearsNothing, TheirUnits, SameIn
<1>8. Whole'
  BY <1>1, <1>4, <1>5, WholeRests DEF Rest
<1>9. Fits'
  BY <1>4, Alike DEF Rest, Fits
<1>10. /\ sealed' \in Seq(1 .. MaxWrites) /\ Rising'
       /\ sealed' = Append(sealed, tries) => Sealed(tries)'
       /\ \A x : Sealed(x) => Sealed(x)'
  <2>1. /\ \A i, j \in 1 .. Len(sealed) : i < j => sealed[i] < sealed[j]
        /\ \A i \in 1 .. Len(sealed) : sealed[i] < tries
        /\ Len(sealed) < tries
    BY <1>1 DEF Rest, Rising
  <2>2. CASE sealed' = sealed
    <3>1. Rising' /\ \A x : Sealed(x) <=> Sealed(x)'
      BY <1>1, <1>5, <2>2 DEF Rest, Rising, Sealed
    <3>2. sealed # Append(sealed, tries)
      BY <1>2, AppendProperties
    <3> QED
      BY <1>2, <2>2, <3>1, <3>2
  <2>3. CASE sealed' = Append(sealed, tries)
    <3>1. /\ sealed' \in Seq(1 .. MaxWrites) /\ Len(sealed') = Len(sealed) + 1
          /\ sealed'[Len(sealed) + 1] = tries
          /\ \A i \in 1 .. Len(sealed) : sealed'[i] = sealed[i]
      BY <1>2, <2>3, AppendProperties
    <3>2. \A i \in 1 .. Len(sealed') : i \in 1 .. Len(sealed) \/ i = Len(sealed) + 1
      BY <1>2, <3>1
    <3>3. ASSUME NEW i \in 1 .. Len(sealed'), NEW j \in 1 .. Len(sealed'), i < j
          PROVE  sealed'[i] < sealed'[j]
      <4>1. i \in 1 .. Len(sealed)
        BY <1>2, <3>1, <3>3
      <4>2. CASE j \in 1 .. Len(sealed)
        BY <2>1, <3>1, <3>3, <4>1, <4>2
      <4>3. CASE j = Len(sealed) + 1
        BY <2>1, <3>1, <4>1, <4>3
      <4> QED
        BY <3>2, <4>2, <4>3
    <3>4. ASSUME NEW i \in 1 .. Len(sealed') PROVE sealed'[i] <= tries
      <4>1. CASE i \in 1 .. Len(sealed)
        <5>1. sealed'[i] = sealed[i] /\ sealed[i] < tries /\ sealed[i] \in 1 .. MaxWrites
          BY <1>2, <2>1, <3>1, <4>1
        <5> QED
          BY <1>2, <5>1
      <4>2. CASE i = Len(sealed) + 1
        BY <1>2, <3>1, <4>2
      <4> QED
        BY <3>2, <4>1, <4>2
    <3>5. Len(sealed') <= tries
      BY <1>2, <2>1, <3>1
    <3>6. Rising'
      BY <1>1, <1>5, <3>3, <3>4, <3>5 DEF Rising
    <3>7. Len(sealed) + 1 \in 1 .. Len(sealed') /\ \A i \in 1 .. Len(sealed) : i \in 1 .. Len(sealed')
      BY <1>2, <3>1
    <3>8. Sealed(tries)' /\ \A x : Sealed(x) => Sealed(x)'
      BY <1>1, <3>1, <3>7 DEF Sealed
    <3> QED
      BY <3>1, <3>6, <3>8
  <2> QED
    BY <1>1, <2>2, <2>3
<1>11. Kept'
  <2> SUFFICES ASSUME ~ MayStarve PROVE Kept'
    BY DEF Kept
  <2>1. Sent(session) /\ Sent(session') /\ \A i \in 1 .. Len(told) : Sealed(told[i])
    BY <1>4 DEF Rest, Kept
  <2>2. session'.nextOut = session.nextOut + 1
    BY <1>3, <2>1 DEF Wrote
  <2>3. sealed' = Append(sealed, tries)
    BY <1>1, <1>2, <2>2
  <2>4. Sealed(tries)'
    BY <1>10, <2>3
  <2>5. \A i \in 1 .. Len(told) : \E j \in 1 .. Len(sealed') : sealed'[j] = told[i]
    <3>1. \A x : Sealed(x) => \E j \in 1 .. Len(sealed') : sealed'[j] = x
      BY <1>10 DEF Sealed
    <3> QED
      BY <2>1, <3>1
  <2>6. (\A i \in 1 .. Len(told) : Sealed(told[i]))'
    BY <1>1, <2>5 DEF Sealed
  <2> QED
    BY <2>1, <2>4, <2>6 DEF Kept
<1>12. Course'
  BY <1>1, <1>2, <1>4, <1>5 DEF Course, Return, SameIn
<1>13. TypeOK'
  <2>1. /\ TypeOK /\ "flush" \in Running /\ "none" \in Call /\ "HandshakeFailure" \in Result
    BY DEF Running, Call, Result
  <2> QED
    BY <1>1, <1>4, <1>10, <2>1 DEF TypeOK, Return
<1> QED
  BY <1>6, <1>7, <1>8, <1>9, <1>10, <1>11, <1>12, <1>13, HearsNothingKeeps DEF Rest

\* @close seals the close_notify, or sends what was left over.
LEMMA CloseKeeps ==
    ASSUME IInv, Close
    PROVE  IInv'
<1> USE DEF IInv
<1>1. /\ pc = "idle" /\ session' \in SendAlert(session, "close_notify") /\ closed' = TRUE
      /\ pc' = "flush" /\ call' = "close"
      /\ UNCHANGED << result, hs, scratch, toPeer, toUs, peer, tries,
                      sealed, told, received, ended >>
  BY DEF Close, Wire
<1>2. session \in Session /\ ~ closed /\ pc \notin Over /\ pc' \notin Over
  BY <1>1, UnitsAre DEF Course, Over
<1>3. Wrote(session, session', "close_notify", 0) \/ Flushed(session, session')
  <2>1. "close_notify" \in FromUs
    BY DEF FromUs
  <2> QED
    BY <1>1, <1>2, <2>1, SendAlertIs
<1>4. /\ session' \in Session /\ SameIn(session, session')
      /\ OutFits(session) => OutFits(session')
      /\ MayStarve \/ Sent(session')
  BY <1>3 DEF Wrote, Flushed
<1>5. OursInv'
  <2>1. CASE Wrote(session, session', "close_notify", 0)
    <3>1. Says("close_notify", 0) /\ "close_notify" \in FromUs /\ 0 \in Nat
      BY <1>1, <1>2, <2>1 DEF Says, OurUnits, Wrote, FromUs
    <3> QED
      BY <3>1, SaysKeeps DEF Rest
  <2>2. CASE Flushed(session, session')
    <3>1. SaysNothing
      BY <1>1, <1>2, <2>2 DEF SaysNothing, OurUnits, Flushed
    <3> QED
      BY <3>1, SaysNothingKeeps DEF Rest
  <2> QED
    BY <1>3, <2>1, <2>2
<1>6. HearsNothing
  BY <1>1, <1>2, <1>4, Alike DEF HearsNothing, TheirUnits, SameIn
<1>7. Whole'
  BY <1>1, <1>2, <1>4, WholeRests DEF Rest
<1>8. Fits'
  BY <1>4, Alike DEF Rest, Fits
<1>9. Rising' /\ Kept'
  BY <1>1, <1>4 DEF Rest, Rising, Kept, Sealed
<1>10. Course'
  BY <1>1, <1>2 DEF Course
<1>11. TypeOK'
  <2>1. TypeOK /\ "flush" \in Running /\ "close" \in Call
    BY DEF Running, Call
  <2> QED
    BY <1>1, <1>4, <2>1 DEF TypeOK
<1> QED
  BY <1>5, <1>6, <1>7, <1>8, <1>9, <1>10, <1>11, HearsNothingKeeps DEF Rest

-----------------------------------------------------------------------------
(* The peer.                                                               *)

\* A step of the peer leaves the stream alone.
Outside == UNCHANGED << pc, call, result, hs, session, scratch, tries, Histories >>

\* A step of the peer leaves the parts that speak of the stream alone.
LEMMA OutsideKeeps ==
    ASSUME IInv, Outside
    PROVE  Fits' /\ Rising' /\ Kept' /\ Course'
BY DEF IInv, Rest, Outside, Histories, Fits, Rising, Kept, Sealed, Course

\* The peer sends a record.
LEMMA PeerSendsKeeps ==
    ASSUME IInv, PeerSends
    PROVE  IInv'
<1> USE DEF IInv
<1>1. PICK type \in (IF peer.log = <<>> THEN {"flight"} ELSE PeerTypes) :
        LET r == [ seq |-> Len(peer.log), type |-> type,
                   val |-> IF type = "data" THEN Cardinality(SentBytes) + 1 ELSE 0 ]
        IN  /\ peer' = [peer EXCEPT !.log = Append(@, r)]
            /\ toUs' = toUs \o Units(r)
  BY DEF PeerSends
<1>2. PICK r : r = [ seq |-> Len(peer.log), type |-> type,
                     val |-> IF type = "data" THEN Cardinality(SentBytes) + 1 ELSE 0 ]
  OBVIOUS
<1>3. /\ peer' = [peer EXCEPT !.log = Append(peer.log, r)] /\ toUs' = toUs \o Units(r)
      /\ r.seq = Len(peer.log) /\ r.type = type
      /\ r.val = IF type = "data" THEN Cardinality(SentBytes) + 1 ELSE 0
  BY <1>1, <1>2
<1>4. /\ Outside /\ toPeer' = toPeer /\ ~ Finished /\ Len(peer.log) < MaxPeerRecords
  BY DEF PeerSends, Outside
<1> DEFINE log == peer.log
           n == Len(log)
           all == Count(log, n)
<1>5. PICK more : more = Append(log, r)
  OBVIOUS
<1>6. /\ peer \in Peer /\ log \in Seq(Record) /\ n \in Nat /\ toUs \in Seq(Unit)
      /\ session \in Session /\ TheirUnits \in SUBSET Unit /\ all \in Nat
      /\ Cardinality(SentBytes) = all
  <2>1. peer \in Peer /\ n \in Nat /\ Cardinality(SentBytes) = all
    BY UnitsAre DEF TypeOK, SentBytes, Count, Datas
  <2> QED
    BY <2>1, UnitsAre, CountIs
<1>7. r \in Record
  <2>1. type \in FromPeer
    BY FaultsAssumption DEF FromPeer
  <2>2. (IF type = "data" THEN Cardinality(SentBytes) + 1 ELSE 0) \in Nat
    BY <1>6
  <2> QED
    BY <1>2, <1>6, <2>1, <2>2 DEF Record
<1>8. /\ more \in Seq(Record) /\ Len(more) = n + 1
      /\ more[n + 1] = r /\ \A i \in 1 .. n : more[i] = log[i]
      /\ \A i \in 0 .. n : Count(more, i) = Count(log, i)
      /\ type = "data" => Count(more, n + 1) = all + 1
      /\ type # "data" => Count(more, n + 1) = all
      /\ From(log, TheirUnits) => From(more, TheirUnits)
      /\ Numbered(log) => Numbered(more) /\ From(more, Both(r))
  BY <1>3, <1>5, <1>6, <1>7, Logged
<1>9. peer' = [peer EXCEPT !.log = more]
  BY <1>3, <1>5
<1>10. /\ peer' \in Peer /\ peer'.log = more
       /\ peer'.next = peer.next /\ peer'.got = peer.got /\ peer'.end = peer.end
  BY <1>6, <1>8, <1>9 DEF Peer
<1>11. /\ Units(r) \in Seq(Unit) /\ Held(Units(r)) = Both(r)
       /\ toUs' \in Seq(Unit) /\ Held(toUs') = Held(toUs) \cup Both(r)
  BY <1>3, <1>6, <1>7, UnitsIs, Join
<1>12. SaysNothing
  BY <1>4, <1>10 DEF SaysNothing, OurUnits, Outside, Histories
<1>13. TheySaid'
  <2>1. /\ Numbered(log) /\ From(log, TheirUnits)
        /\ log # <<>> => log[1].type = "flight"
        /\ \A i \in 1 .. n :
              /\ log[i].type = "data" => log[i].val = Count(log, i)
              /\ log[i].type \in {"close_notify", "fatal"} => i = n
        /\ \A i \in 1 .. Len(received) : received[i] = i
        /\ Len(received) <= all
        /\ pc \notin Over =>
             session.nextIn <= n /\ Len(received) = Count(log, session.nextIn)
        /\ ended => TheyNotified
    BY DEF Rest, TheySaid
  <2>2. \A i \in 1 .. n : log[i].type \notin {"close_notify", "fatal"}
    BY <1>4 DEF Finished
  <2>3. ~ ended
    BY <2>1, <2>2 DEF TheyNotified
  <2>4. From(more, TheirUnits')
    <3>1. TheirUnits' = TheirUnits \cup Both(r)
      BY <1>4, <1>11 DEF TheirUnits, Outside
    <3> QED
      BY <1>8, <2>1, <3>1 DEF From
  <2> HIDE DEF log, n, all
  <2>5. more # <<>> => more[1].type = "flight"
    <3>1. CASE log = <<>>
      <4>1. type = "flight" /\ n = 0
        BY <1>1, <3>1, EmptyIs DEF log, n
      <4> QED
        BY <1>3, <1>8, <4>1
    <3>2. CASE log # <<>>
      <4>1. n # 0
        BY <1>6, <3>2, EmptySeq DEF n
      <4>2. 1 \in 1 .. n
        BY <1>6, <4>1
      <4> QED
        BY <1>8, <2>1, <3>2, <4>2
    <3> QED
      BY <3>1, <3>2
  <2>6. ASSUME NEW i \in 1 .. Len(more)
        PROVE  /\ more[i].type = "data" => more[i].val = Count(more, i)
               /\ more[i].type \in {"close_notify", "fatal"} => i = Len(more)
    <3>1. CASE i \in 1 .. n
      <4>1. more[i] = log[i] /\ Count(more, i) = Count(log, i)
        BY <1>8, <3>1
      <4> QED
        BY <2>1, <2>2, <3>1, <4>1
    <3>2. CASE i = n + 1
      BY <1>3, <1>6, <1>8, <3>2
    <3> QED
      BY <1>6, <1>8, <3>1, <3>2
  <2>7. Len(received) \in Nat /\ Len(received) <= Count(more, Len(more)) /\ Len(more) <= MaxPeerRecords
    <3>1. Len(received) \in Nat
      BY LenProperties DEF TypeOK
    <3>2. Len(more) <= MaxPeerRecords
      BY <1>4, <1>6, <1>8, FaultsAssumption DEF n, log
    <3> QED
      BY <1>6, <1>8, <2>1, <3>1, <3>2
  <2>8. pc \notin Over =>
          session.nextIn <= Len(more) /\ Len(received) = Count(more, session.nextIn)
    <3> SUFFICES ASSUME pc \notin Over
                 PROVE  session.nextIn <= Len(more) /\ Len(received) = Count(more, session.nextIn)
      OBVIOUS
    <3>1. session.nextIn \in Nat /\ session.nextIn <= n
      BY <1>6, <2>1, SessionIs
    <3>2. session.nextIn \in 0 .. n /\ session.nextIn <= Len(more)
      BY <1>6, <1>8, <3>1
    <3> QED
      BY <1>8, <2>1, <3>2
  <2>9. Numbered(more)
    BY <1>8, <2>1
  <2> QED
    BY <1>4, <1>10, <2>1, <2>3, <2>4, <2>5, <2>6, <2>7, <2>8, <2>9
       DEF TheySaid, Outside, Histories
<1>14. Whole'
  <2> SUFFICES ASSUME ~ MayStarve, pc' \notin Over PROVE WholeFor(session, toUs)'
    BY DEF Whole
  <2>1. WholeFor(session, toUs)
    BY <1>4 DEF Rest, Whole, Outside
  <2>2. PICK d \in Nat : /\ d = 0 <=> session.zeros <= 3
                         /\ Along(log, session, toUs, 2 * (session.nextIn + d))
    BY <2>1 DEF WholeFor
  <2>3. 2 * (session.nextIn + d) \in Nat
    BY <1>6, SessionIs
  <2>4. Along(more, session, toUs', 2 * (session.nextIn + d))
    BY <1>3, <1>5, <1>6, <1>7, <2>2, <2>3, AlongAppends
  <2> QED
    BY <1>4, <1>10, <2>2, <2>4 DEF WholeFor, Outside
<1>15. TypeOK'
  <2>1. TypeOK
    OBVIOUS
  <2> QED
    BY <1>4, <1>10, <1>11, <2>1 DEF TypeOK, Outside, Histories
<1> QED
  BY <1>4, <1>12, <1>13, <1>14, <1>15, OutsideKeeps, SaysNothingKeeps DEF Rest

\* The peer leaves.
LEMMA PeerLeavesKeeps ==
    ASSUME IInv, PeerLeaves
    PROVE  IInv'
<1> USE DEF IInv
<1>1. /\ Outside /\ UNCHANGED << toPeer, toUs >> /\ peer' = [peer EXCEPT !.here = FALSE]
      /\ peer \in Peer /\ TypeOK
  BY DEF PeerLeaves, Outside, Wire, TypeOK
<1>2. /\ peer' \in Peer /\ peer'.log = peer.log
      /\ peer'.next = peer.next /\ peer'.got = peer.got /\ peer'.end = peer.end
  BY <1>1 DEF Peer
<1>3. SaysNothing
  BY <1>1, <1>2 DEF SaysNothing, OurUnits, Outside, Histories
<1>4. HearsNothing
  BY <1>1, <1>2 DEF HearsNothing, TheirUnits, Outside, Histories
<1>5. Whole'
  BY <1>1, <1>2, WholeRests DEF Rest, Outside, SameIn
<1>6. TypeOK'
  BY <1>1, <1>2 DEF TypeOK, Outside, Histories
<1> QED
  BY <1>1, <1>3, <1>4, <1>5, <1>6, OutsideKeeps, SaysNothingKeeps, HearsNothingKeeps DEF Rest

\* It reads a record that decrypts with its counter, and is no fatal alert.
PeerTakes ==
    LET r == toPeer[1].rec
    IN  /\ r.seq = peer.next
        /\ peer' = [peer EXCEPT
                      !.next = @ + 1,
                      !.heard = TRUE,
                      !.got = IF r.type = "data" THEN Append(@, r.val) ELSE @,
                      !.end = IF r.type = "close_notify" THEN "clean" ELSE @]

\* The record with the counter of the peer is the one the session sealed there.
LEMMA PeerTakesKeeps ==
    ASSUME TypeOK, OursInv, Outside, peer.end = "open", PeerTakes,
           toPeer[1] \in Held(toPeer), Held(toPeer') \subseteq Held(toPeer)
    PROVE  OursInv' /\ peer' \in Peer
<1>1. PICK log : WeSaid(log)
  BY DEF OursInv
<1>2. PICK r : r = toPeer[1].rec
  OBVIOUS
<1>3. /\ peer \in Peer /\ r \in Record /\ toPeer[1] \in OurUnits
  <2>1. toPeer[1] \in OurUnits
    BY DEF OurUnits
  <2>2. toPeer[1] \in Unit
    BY <2>1, UnitsAre
  <2> QED
    BY <1>2, <2>1, <2>2 DEF Unit, TypeOK
<1> DEFINE n == Len(log)
           k == peer.next + 1
<1>4. /\ log \in Seq(Record) /\ n \in Nat /\ Numbered(log) /\ From(log, OurUnits)
      /\ Len(sealed) = Count(log, n)
      /\ \A i \in 1 .. n : log[i].type = "data" => log[i].val = sealed[Count(log, i)]
      /\ \A i \in 1 .. n : log[i].type = "close_notify" => i = n /\ closed
      /\ Len(peer.got) = Count(log, peer.next)
      /\ \A i \in 1 .. Len(peer.got) : peer.got[i] = sealed[i]
  BY <1>1, LenProperties DEF WeSaid
<1>5. /\ peer.next \in Nat /\ peer.got \in Seq(Nat) /\ Len(peer.got) \in Nat
      /\ r.val \in Nat
  BY <1>3, LenProperties DEF Peer, Record
<1>6. k \in 1 .. n /\ log[k] = r
  <2>1. r.seq = peer.next
    BY <1>2 DEF PeerTakes
  <2>2. peer.next < n /\ log[peer.next + 1] = r
    BY <1>2, <1>3, <1>4, <2>1 DEF From
  <2> QED
    BY <1>4, <1>5, <2>2
<1>7. peer' = [peer EXCEPT
                 !.next = k,
                 !.heard = TRUE,
                 !.got = IF r.type = "data" THEN Append(peer.got, r.val) ELSE peer.got,
                 !.end = IF r.type = "close_notify" THEN "clean" ELSE peer.end]
  BY <1>2 DEF PeerTakes
<1>8. Append(peer.got, r.val) \in Seq(Nat)
  BY <1>5, AppendProperties
<1>9. peer' \in Peer
  <2>1. k \in Nat
    BY <1>5
  <2> HIDE DEF k
  <2> QED
    BY <1>3, <1>7, <1>8, <2>1 DEF Peer
<1>10. /\ peer'.next = k
       /\ peer'.got = IF r.type = "data" THEN Append(peer.got, r.val) ELSE peer.got
       /\ peer'.end = IF r.type = "close_notify" THEN "clean" ELSE "open"
  BY <1>3, <1>7 DEF Peer
<1>11. /\ r.type = "data" => Count(log, k) = Len(peer.got) + 1
       /\ r.type # "data" => Count(log, k) = Len(peer.got)
  BY <1>4, <1>5, <1>6, CountIs
<1>12. /\ Len(peer'.got) = Count(log, k)
       /\ \A i \in 1 .. Len(peer'.got) : peer'.got[i] = sealed[i]
  <2>1. CASE r.type = "data"
    <3>1. /\ Len(peer'.got) = Len(peer.got) + 1 /\ peer'.got[Len(peer.got) + 1] = r.val
          /\ \A i \in 1 .. Len(peer.got) : peer'.got[i] = peer.got[i]
      BY <1>5, <1>10, <2>1, AppendProperties
    <3>2. r.val = sealed[Len(peer.got) + 1]
      BY <1>4, <1>6, <1>11, <2>1
    <3>3. \A i \in 1 .. Len(peer'.got) : i \in 1 .. Len(peer.got) \/ i = Len(peer.got) + 1
      BY <1>5, <3>1
    <3> QED
      BY <1>4, <1>11, <2>1, <3>1, <3>2, <3>3
  <2>2. CASE r.type # "data"
    BY <1>4, <1>10, <1>11, <2>2
  <2> QED
    BY <2>1, <2>2
<1>13. peer'.end = "clean" => k = n /\ closed
  BY <1>4, <1>6, <1>10
<1>14. OurUnits' \subseteq OurUnits
  BY DEF OurUnits, Outside
<1>15. From(log, OurUnits') /\ k <= n
  BY <1>4, <1>6, <1>14 DEF From
<1>16. pc' = pc /\ session' = session /\ sealed' = sealed /\ closed' = closed
  BY DEF Outside, Histories
<1> HIDE DEF k
<1>17. (peer'.next <= n /\ Len(peer'.got) = Count(log, peer'.next))
       /\ (peer'.end = "clean" => peer'.next = n /\ closed)
  BY <1>10, <1>12, <1>13, <1>15
<1>18. WeSaid(log)'
  BY <1>1, <1>12, <1>15, <1>16, <1>17 DEF WeSaid
<1> QED
  BY <1>9, <1>18 DEF OursInv

\* The peer reads a record, or finds that it is none.
LEMMA PeerReadsKeeps ==
    ASSUME IInv, PeerReads
    PROVE  IInv'
<1> USE DEF IInv
<1>1. /\ Outside /\ toUs' = toUs /\ peer.end = "open" /\ toPeer # <<>>
      /\ peer \in Peer /\ TypeOK /\ toPeer \in Seq(Unit) /\ Len(toPeer) \in Nat
  BY LenProperties DEF PeerReads, Outside, TypeOK
<1>2. toPeer[1] \in Held(toPeer)
  <2>1. Len(toPeer) # 0
    BY <1>1, EmptySeq
  <2>2. 1 \in 1 .. Len(toPeer)
    BY <1>1, <2>1
  <2> QED
    BY <2>2 DEF Held
<1>3. /\ toPeer' \in Seq(Unit) /\ Held(toPeer') \subseteq Held(toPeer)
      /\ peer' = [peer EXCEPT !.end = "broken"] \/ PeerTakes
  <2>1. CASE peer' = [peer EXCEPT !.end = "broken"] /\ toPeer' = <<>>
    BY <2>1, EmptyIs
  <2>2. CASE /\ toPeer[1].part = "header" /\ Len(toPeer) >= 2
             /\ toPeer' = SubSeq(toPeer, 3, Len(toPeer))
             /\ LET r == toPeer[1].rec
                    genuine == toPeer[2] = [toPeer[1] EXCEPT !.part = "body"] /\ r.seq = peer.next
                IN  peer' =
                      IF ~genuine \/ r.type = "fatal" THEN [peer EXCEPT !.end = "broken"]
                      ELSE [peer EXCEPT
                              !.next = @ + 1,
                              !.heard = TRUE,
                              !.got = IF r.type = "data" THEN Append(@, r.val) ELSE @,
                              !.end = IF r.type = "close_notify" THEN "clean" ELSE @]
    <3>1. 2 \in 0 .. Len(toPeer) /\ 2 + 1 = 3
      BY <1>1, <2>2
    <3>2. toPeer' = SubSeq(toPeer, 2 + 1, Len(toPeer))
      BY <2>2, <3>1
    <3>3. toPeer' \in Seq(Unit) /\ Held(toPeer') \subseteq Held(toPeer)
      BY <1>1, <3>1, <3>2, Cut
    <3>4. peer' = [peer EXCEPT !.end = "broken"] \/ PeerTakes
      BY <2>2 DEF PeerTakes
    <3> QED
      BY <3>3, <3>4
  <2> QED
    BY <2>1, <2>2 DEF PeerReads
<1>4. OursInv' /\ peer' \in Peer
  <2>1. CASE peer' = [peer EXCEPT !.end = "broken"]
    <3>1. /\ peer' \in Peer /\ peer'.next = peer.next /\ peer'.got = peer.got /\ peer'.end = "broken"
      BY <1>1, <2>1 DEF Peer
    <3>2. SaysNothing
      BY <1>1, <1>3, <3>1 DEF SaysNothing, OurUnits, Outside, Histories
    <3> QED
      BY <3>1, <3>2, SaysNothingKeeps DEF Rest
  <2>2. CASE PeerTakes
    BY <1>1, <1>2, <1>3, <2>2, PeerTakesKeeps DEF Rest
  <2> QED
    BY <1>3, <2>1, <2>2
<1>5. peer'.log = peer.log
  BY <1>1, <1>3 DEF PeerTakes, Peer
<1>6. HearsNothing
  BY <1>1, <1>5 DEF HearsNothing, TheirUnits, Outside, Histories
<1>7. Whole'
  BY <1>1, <1>5, WholeRests DEF Rest, Outside, SameIn
<1>8. TypeOK'
  BY <1>1, <1>3, <1>4 DEF TypeOK, Outside, Histories
<1> QED
  BY <1>1, <1>4, <1>6, <1>7, <1>8, OutsideKeeps, HearsNothingKeeps DEF Rest

-----------------------------------------------------------------------------
(* The invariant holds.                                                    *)

\* A session that was just made.
LEMMA FreshIs ==
    /\ Fresh \in Session /\ OutUnits(Fresh) = {} /\ InUnits(Fresh) = {} /\ Fetched(Fresh) = <<>>
    /\ InFits(Fresh) /\ OutFits(Fresh) /\ Fresh.nextOut = 0 /\ Fresh.nextIn = 0 /\ Fresh.zeros = 0
<1>1. /\ Fresh.inb = <<>> /\ Fresh.left = <<>> /\ Fresh.outb = <<>> /\ Fresh.outLeft = <<>>
      /\ Fresh.inCap = 0 /\ Fresh.outCap = 0 /\ Fresh.nextIn = 0 /\ Fresh.zeros = 0
      /\ Fresh.nextOut = 0
  BY DEF Fresh
<1>2. Fresh \in Session
  <2>1. 0 \in Nat /\ 0 \in 0 .. 4
    OBVIOUS
  <2> QED
    BY <2>1, EmptyIs DEF Fresh, Session
<1>3. Size(<<>>) = 0
  BY EmptyIs, SizeIs
<1>4. Fetched(Fresh) = <<>>
  BY <1>1, EmptyIs, ConcatEmptySeq DEF Fetched
<1> QED
  BY <1>1, <1>2, <1>3, <1>4, EmptyIs DEF OutUnits, InUnits, InFits, OutFits

\* The invariant holds when the ClientHello was sealed.
LEMMA InitHolds == Init => IInv
<1> SUFFICES ASSUME Init PROVE IInv
  OBVIOUS
<1>1. /\ pc = "pump" /\ call = "handshake" /\ result = "none" /\ hs = FALSE
      /\ session \in WriteRecord(Fresh, "hello", 0)
      /\ scratch = <<>> /\ toPeer = <<>> /\ toUs = <<>>
      /\ peer = [ heard |-> FALSE, next |-> 0, got |-> <<>>, end |-> "open",
                  log |-> <<>>, here |-> TRUE ]
      /\ tries = 0 /\ sealed = <<>> /\ told = <<>> /\ received = <<>>
      /\ ended = FALSE /\ closed = FALSE
  BY DEF Init
<1>2. /\ peer.log = <<>> /\ peer.next = 0 /\ peer.got = <<>> /\ peer.end = "open"
  BY <1>1
<1>3. Wrote(Fresh, session, "hello", 0)
  <2>1. "hello" \in FromUs /\ 0 \in Nat
    BY DEF FromUs
  <2> QED
    BY <1>1, <2>1, FreshIs, WriteRecordIs
<1> DEFINE r == Ours(Fresh, "hello", 0)
<1>4. /\ session \in Session /\ SameIn(Fresh, session) /\ session.nextOut = 1
      /\ OutUnits(session) \subseteq Both(r)
      /\ OutFits(session) /\ (MayStarve \/ Sent(session))
  BY <1>3, FreshIs DEF Wrote
<1>5. /\ InUnits(session) = {} /\ InFits(session) /\ Fetched(session) = <<>>
      /\ session.nextIn = 0 /\ session.zeros = 0
  <2>1. Fetched(session) = Fetched(Fresh) /\ InUnits(session) = InUnits(Fresh) /\ InFits(session)
    BY <1>4, FreshIs, Alike
  <2> QED
    BY <1>4, <2>1, FreshIs DEF SameIn
<1>6. TypeOK
  <2>1. peer \in Peer
    <3>1. <<>> \in Seq(Nat) /\ <<>> \in Seq(Record)
      OBVIOUS
    <3> QED
      BY <1>1, <3>1 DEF Peer
  <2>2. 0 \in 0 .. MaxWrites /\ <<>> \in Seq(1 .. MaxWrites) /\ <<>> \in Seq(Nat)
    BY FaultsAssumption
  <2> QED
    BY <1>1, <1>4, <2>1, <2>2, EmptyIs DEF TypeOK, Running, Call, Result
<1>7. Course
  BY <1>1, <1>5 DEF Course
<1>8. Fits
  BY <1>4, <1>5 DEF Fits
<1>9. Rising /\ Kept
  BY <1>1, <1>4 DEF Rising, Kept
<1>10. OursInv
  <2>1. PICK none : none = <<>>
    OBVIOUS
  <2>2. none \in Seq(Record) /\ Len(none) = 0
    BY <2>1
  <2>3. PICK log : log = Append(none, r)
    OBVIOUS
  <2>4. r \in Record /\ r.seq = 0 /\ r.type = "hello"
    BY FreshIs DEF Ours, Record, FromUs
  <2>5. Numbered(none)
    BY <2>2 DEF Numbered
  <2>6. /\ log \in Seq(Record) /\ Len(log) = 1 /\ log[1] = r
        /\ Count(log, 0) = 0 /\ Count(log, 1) = 0
        /\ Numbered(log) /\ From(log, Both(r))
    <3>1. /\ log \in Seq(Record) /\ Len(log) = 0 + 1 /\ log[0 + 1] = r
          /\ Count(log, 0 + 1) = Count(none, 0)
          /\ Numbered(log) /\ From(log, Both(r))
      BY <2>2, <2>3, <2>4, <2>5, Logged
    <3>2. Count(none, 0) = 0 /\ Count(log, 0) = 0
      BY CountIs
    <3> QED
      BY <3>1, <3>2
  <2>7. From(log, OurUnits)
    <3>1. OurUnits \subseteq Both(r)
      BY <1>1, <1>4, EmptyIs DEF OurUnits
    <3> QED
      BY <2>6, <3>1 DEF From
  <2>8. WeSaid(log)
    BY <1>1, <1>2, <1>4, <2>4, <2>6, <2>7 DEF WeSaid
  <2> QED
    BY <2>8 DEF OursInv
<1>11. TheySaid
  <2>1. TheirUnits = {}
    BY <1>1, <1>5, EmptyIs DEF TheirUnits
  <2>2. Count(<<>>, 0) = 0
    BY CountIs
  <2> QED
    BY <1>1, <1>2, <1>5, <2>1, <2>2, FaultsAssumption DEF TheySaid, Numbered, From
<1>12. Whole
  <2>1. Along(<<>>, session, <<>>, 2 * (0 + 0))
    BY <1>5 DEF Along, Carries
  <2>2. WholeFor(session, toUs)
    BY <1>1, <1>2, <1>5, <2>1 DEF WholeFor
  <2> QED
    BY <2>2 DEF Whole
<1> QED
  BY <1>6, <1>7, <1>8, <1>9, <1>10, <1>11, <1>12 DEF IInv, Rest

\* Every step keeps the invariant.
LEMMA NextKeeps == IInv /\ [Next]_vars => IInv'
<1> SUFFICES ASSUME IInv, [Next]_vars PROVE IInv'
  OBVIOUS
<1>1. CASE Works
  BY <1>1, FlushChunkKeeps, SendToTcpKeeps, FlushDoneKeeps, FillFromTcpKeeps, FillEofKeeps,
     PumpStepKeeps, ProcessKeeps, ReadWarningKeeps, ReadEmptyKeeps, ReadHelloRequestKeeps,
     ReadNoRenegotiationKeeps, ReadNeedsMoreKeeps, ReadDataKeeps, ReadCloseNotifyKeeps,
     ReadErrorKeeps, WriteStepKeeps DEF Works
<1>2. CASE SendFails \/ FillFails
  BY <1>2, SendFailsKeeps, FillFailsKeeps
<1>3. CASE Read \/ Write \/ Flush \/ Close
  BY <1>3, StartsKeep, CloseKeeps
<1>4. CASE PeerSends \/ PeerReads \/ PeerLeaves
  BY <1>4, PeerSendsKeeps, PeerReadsKeeps, PeerLeavesKeeps
<1>5. CASE UNCHANGED vars
  <2>1. Outside /\ UNCHANGED << toPeer, toUs, peer >>
    BY <1>5 DEF vars, Outside, Histories
  <2>2. SaysNothing /\ HearsNothing
    BY <2>1 DEF SaysNothing, HearsNothing, OurUnits, TheirUnits, Outside, Histories
  <2>3. Whole'
    BY <2>1, WholeRests DEF IInv, Rest, Outside, SameIn
  <2>4. TypeOK'
    BY <2>1 DEF IInv, TypeOK, Outside, Histories
  <2> QED
    BY <2>1, <2>2, <2>3, <2>4, OutsideKeeps, SaysNothingKeeps, HearsNothingKeeps DEF IInv, Rest
<1> QED
  BY <1>1, <1>2, <1>3, <1>4, <1>5 DEF Next

\* The invariant, for every number of writes, records and units, and for every
\* choice of what may fail.
THEOREM FaultsInvariant == Spec => []IInv
BY InitHolds, NextKeeps, PTL DEF Spec

\* Every variable keeps its type.
THEOREM FaultsTypes == Spec => []TypeOK
<1>1. IInv => TypeOK
  BY DEF IInv
<1> QED
  BY <1>1, FaultsInvariant, PTL

\* What was copied behind a queue fits the buffer _tls_buf_ensure left it
\* with, however many allocations failed and however often one succeeded after
\* another that had failed.
THEOREM CopiesFit == Spec => []QueuesFit
<1>1. IInv => QueuesFit
  BY DEF IInv, Rest, Fits, InFits, OutFits, QueuesFit
<1> QED
  BY <1>1, FaultsInvariant, PTL

\* While memory lasts nothing is lost between the peer and its reader, whatever
\* Net.read refuses and at whatever unit a record is cut.
THEOREM NothingIsLost ==
    ASSUME MayStarve = FALSE
    PROVE  Spec => []NothingLostInside
<1>1. ASSUME IInv PROVE NothingLostInside
  <2> SUFFICES ASSUME pc \notin Over, session.zeros <= 3
               PROVE  LET n == Len(peer.log) - session.nextIn
                      IN  /\ Len(UnderWay) = 2 * n
                          /\ \A i \in 1 .. n : SubSeq(UnderWay, 2 * i - 1, 2 * i)
                                                 = Units(peer.log[session.nextIn + i])
    BY DEF NothingLostInside
  <2> DEFINE log == peer.log
             k == session.nextIn
             n == Len(log) - k
  <2>1. /\ log \in Seq(Record) /\ Len(log) \in Nat /\ session \in Session /\ toUs \in Seq(Unit)
        /\ k \in Nat /\ k <= Len(log)
    BY <1>1, UnitsAre, SessionIs DEF IInv, Rest, TheySaid
  <2>2. PICK d \in Nat : /\ d = 0 <=> session.zeros <= 3
                         /\ Along(log, session, toUs, 2 * (k + d))
    BY <1>1 DEF IInv, Rest, Whole, WholeFor
  <2>3. Along(log, session, toUs, 2 * k)
    <3>1. 2 * (k + 0) = 2 * k
      BY <2>1
    <3> QED
      BY <2>2, <3>1
  <2>4. /\ Fetched(session) \in Seq(Unit) /\ Len(Fetched(session)) \in Nat /\ Len(toUs) \in Nat
    BY <2>1, FetchedIs, LenProperties
  <2>5. /\ UnderWay \in Seq(Unit) /\ Len(UnderWay) = Len(Fetched(session)) + Len(toUs)
        /\ Carries(log, UnderWay, 2 * k)
    <3>1. 2 * k \in Nat
      BY <2>1
    <3> QED
      BY <2>1, <2>3, <2>4, <3>1, Join, CarriesJoin DEF Along, UnderWay
  <2>6. Len(UnderWay) = 2 * n /\ n \in Nat
    <3>1. 2 * k + Len(Fetched(session)) + Len(toUs) = 2 * Len(log)
      BY <2>3 DEF Along
    <3>2. \A a, b, c, m \in Nat : 2 * a + b + c = 2 * m => b + c = 2 * (m - a) /\ m - a >= 0
      OBVIOUS
    <3>3. /\ Len(Fetched(session)) + Len(toUs) = 2 * (Len(log) - k)
          /\ Len(log) - k >= 0
      <4>1. PICK a \in Nat, b \in Nat, c \in Nat, m \in Nat :
              a = k /\ b = Len(Fetched(session)) /\ c = Len(toUs) /\ m = Len(log)
        BY <2>1, <2>4
      <4>2. 2 * a + b + c = 2 * m
        BY <3>1, <4>1
      <4>3. b + c = 2 * (m - a) /\ m - a >= 0
        BY <4>2, <3>2
      <4> QED
        BY <4>1, <4>3
    <3>4. n \in Nat
      BY <2>1
    <3> QED
      BY <2>5, <3>3, <3>4
  <2>7. PICK q : q = UnderWay
    OBVIOUS
  <2>8. ASSUME NEW i \in 1 .. n
        PROVE  SubSeq(q, 2 * i - 1, 2 * i) = Units(log[k + i])
    <3>1. k + i \in 1 .. Len(log) /\ log[k + i] \in Record
      BY <2>1, <2>6
    <3>2. PICK r \in Record : r = log[k + i]
      BY <3>1
    <3>3. /\ 2 * i - 1 \in 1 .. Len(q) /\ 2 * i \in 1 .. Len(q)
          /\ 2 * k + (2 * i - 1) = 2 * (k + i) - 1 /\ 2 * k + 2 * i = 2 * (k + i)
      BY <2>1, <2>6, <2>7
    <3>4. q[2 * i - 1] = HeaderOf(r) /\ q[2 * i] = BodyOf(r)
      BY <2>5, <2>7, <3>1, <3>2, <3>3 DEF Carries
    <3> DEFINE x == SubSeq(q, 2 * i - 1, 2 * i)
    <3>5. /\ x \in Seq(Unit) /\ Len(x) = 2
          /\ x[1] = q[2 * i - 1] /\ x[2] = q[2 * i]
      <4>1. PICK a \in Int, b \in Int : a = 2 * i - 1 /\ b = 2 * i
        OBVIOUS
      <4>2. q \in Seq(Unit) /\ \A j \in a .. b : q[j] \in Unit
        <5>1. \A j \in a .. b : j \in 1 .. Len(q)
          BY <2>6, <2>7, <3>3, <4>1
        <5> QED
          BY <2>5, <2>7, <5>1, ElementOfSeq
      <4>3. /\ SubSeq(q, a, b) \in Seq(Unit)
            /\ Len(SubSeq(q, a, b)) = IF a <= b THEN b - a + 1 ELSE 0
            /\ \A j \in 1 .. b - a + 1 : SubSeq(q, a, b)[j] = q[a + j - 1]
        BY <4>2, SubSeqProperties
      <4>4. b - a + 1 = 2 /\ a <= b /\ a + 1 - 1 = a /\ a + 2 - 1 = b
        BY <4>1
      <4>5. x = SubSeq(q, a, b)
        BY <4>1
      <4> HIDE DEF x
      <4>6. Len(x) = 2 /\ x[1] = q[a + 1 - 1] /\ x[2] = q[a + 2 - 1]
        BY <4>3, <4>4, <4>5
      <4> QED
        BY <4>1, <4>3, <4>4, <4>5, <4>6
    <3> HIDE DEF x
    <3>6. /\ Units(r) \in Seq(Unit) /\ Len(Units(r)) = 2
          /\ Units(r)[1] = HeaderOf(r) /\ Units(r)[2] = BodyOf(r)
      BY UnitsIs
    <3>7. \A j \in 1 .. 2 : x[j] = Units(r)[j]
      <4>1. \A j \in 1 .. 2 : j = 1 \/ j = 2
        OBVIOUS
      <4> QED
        BY <3>4, <3>5, <3>6, <4>1
    <3>8. x = Units(r)
      BY <3>5, <3>6, <3>7, SeqEqual
    <3> QED
      BY <3>2, <3>8 DEF x
  <2> QED
    BY <2>6, <2>7, <2>8
<1> QED
  BY <1>1, FaultsInvariant, PTL

\* While memory lasts a peer that was told of the end has every byte of every
\* @write that returned Ok.
THEOREM CleanEndIsWhole ==
    ASSUME MayStarve = FALSE
    PROVE  Spec => []CleanEndLosesNothing
<1>1. ASSUME IInv PROVE CleanEndLosesNothing
  <2> SUFFICES ASSUME peer.end = "clean", NEW i \in 1 .. Len(told)
               PROVE  \E j \in 1 .. Len(peer.got) : peer.got[j] = told[i]
    BY DEF CleanEndLosesNothing
  <2>1. PICK log : WeSaid(log)
    BY <1>1 DEF IInv, Rest, OursInv
  <2>2. /\ Len(peer.got) = Len(sealed)
        /\ \A j \in 1 .. Len(peer.got) : peer.got[j] = sealed[j]
    BY <2>1 DEF WeSaid
  <2>3. Sealed(told[i])
    BY <1>1 DEF IInv, Rest, Kept
  <2> QED
    BY <2>2, <2>3 DEF Sealed
<1> QED
  BY <1>1, FaultsInvariant, PTL

\* While memory lasts the doc of @write is right: what it accepted is sealed.
THEOREM AcceptedWhileMemoryLasts ==
    ASSUME MayStarve = FALSE
    PROVE  Spec => []AcceptedIsSealed
<1>1. IInv => AcceptedIsSealed
  BY DEF IInv, Rest, Kept, Sealed, AcceptedIsSealed
<1> QED
  BY <1>1, FaultsInvariant, PTL

-----------------------------------------------------------------------------
(* The refinement: what the channel sees of a state.                       *)

\* A variable of the channel: its value for the stream and for the peer.
Two(c, s) == [e \in {"client", "server"} |-> IF e = "client" THEN c ELSE s]

\* The two values of a variable of the channel, and one of them changed.
LEMMA TwoIs ==
    ASSUME NEW c, NEW s, NEW x
    PROVE  /\ Two(c, s)["client"] = c /\ Two(c, s)["server"] = s
           /\ [Two(c, s) EXCEPT !["client"] = x] = Two(x, s)
           /\ [Two(c, s) EXCEPT !["server"] = x] = Two(c, x)
BY DEF Two

TheirBytes == Cardinality(SentBytes)
Placed == [i \in 1 .. Len(peer.got) |-> Place(peer.got[i])]
SeenWritten == Two(Len(sealed), TheirBytes)
SeenReceived == Two(received, Placed)
SeenNotified == Two(closed, TheyNotified)
SeenEnded == Two(ended, peer.end = "clean")

\* Where the four streams of bytes stand.
View ==
    /\ Len(sealed) \in 0 .. MaxWrites /\ TheirBytes \in 0 .. MaxPeerRecords
    /\ Len(received) \in 0 .. TheirBytes /\ Len(peer.got) \in 0 .. Len(sealed)
    /\ received = Channel!FirstBytes(Len(received))
    /\ Placed = Channel!FirstBytes(Len(peer.got))
    /\ ended => TheyNotified /\ Len(received) = TheirBytes
    /\ peer.end = "clean" => closed /\ Len(peer.got) = Len(sealed)

\* The numbers of the @write calls rise, so each sealed byte has its place.
LEMMA PlaceIs ==
    ASSUME Rising, Len(sealed) \in Nat, \A i \in 1 .. Len(sealed) : sealed[i] \in Nat,
           NEW i \in 1 .. Len(sealed)
    PROVE  Place(sealed[i]) = i
<1>1. \A j \in 1 .. Len(sealed) : sealed[j] = sealed[i] => j = i
  <2> SUFFICES ASSUME NEW j \in 1 .. Len(sealed), sealed[j] = sealed[i], j # i PROVE FALSE
    OBVIOUS
  <2>1. i < j \/ j < i
    OBVIOUS
  <2>2. sealed[i] < sealed[j] \/ sealed[j] < sealed[i]
    BY <2>1 DEF Rising
  <2> QED
    BY <2>2
<1> QED
  BY <1>1 DEF Place

\* There are no more data records than records.
LEMMA CountFits ==
    ASSUME NEW log, NEW n \in Nat
    PROVE  Count(log, n) <= n
<1>1. IsFiniteSet(1 .. n) /\ Cardinality(1 .. n) = n
  <2>1. 0 + 1 \in Int /\ n \in Int
    OBVIOUS
  <2> QED
    BY <2>1, FS_Interval
<1>2. Datas(log, n) \subseteq 1 .. n
  BY DEF Datas
<1> QED
  BY <1>1, <1>2, FS_Subset DEF Count

\* The invariant says where the four streams of bytes stand.
LEMMA ViewHolds == IInv => View
<1> SUFFICES ASSUME IInv PROVE View
  OBVIOUS
<1>1. PICK log : WeSaid(log)
  BY DEF IInv, Rest, OursInv
<1>2. /\ log \in Seq(Record) /\ Len(log) \in Nat
      /\ Len(sealed) = Count(log, Len(log))
      /\ peer.next <= Len(log) /\ Len(peer.got) = Count(log, peer.next)
      /\ \A i \in 1 .. Len(peer.got) : peer.got[i] = sealed[i]
      /\ peer.end = "clean" => peer.next = Len(log) /\ closed
  BY <1>1, LenProperties DEF WeSaid
<1>3. /\ peer \in Peer /\ peer.next \in Nat /\ peer.log \in Seq(Record) /\ Len(peer.log) \in Nat
      /\ sealed \in Seq(1 .. MaxWrites) /\ Len(sealed) \in Nat
      /\ received \in Seq(Nat) /\ Len(received) \in Nat
      /\ tries \in 0 .. MaxWrites /\ MaxWrites \in Nat /\ MaxPeerRecords \in Nat
  BY UnitsAre, LenProperties, FaultsAssumption DEF IInv, TypeOK, Peer
<1>4. \A i \in 1 .. Len(sealed) : sealed[i] \in Nat
  <2>1. \A i \in 1 .. Len(sealed) : sealed[i] \in 1 .. MaxWrites
    BY <1>3, ElementOfSeq
  <2> QED
    BY <1>3, <2>1
<1>5. Len(peer.got) \in 0 .. Len(sealed)
  <2>1. peer.next \in 0 .. Len(log)
    BY <1>2, <1>3
  <2> QED
    BY <1>2, <1>3, <2>1, CountIs
<1>6. Len(sealed) \in 0 .. MaxWrites
  <2>1. Len(sealed) <= tries
    BY DEF IInv, Rest, Rising
  <2> QED
    BY <1>3, <2>1
<1>7. TheirBytes = Count(peer.log, Len(peer.log)) /\ TheirBytes \in 0 .. MaxPeerRecords
  <2>1. TheirBytes = Count(peer.log, Len(peer.log))
    BY DEF TheirBytes, SentBytes, Count, Datas
  <2>2. Count(peer.log, Len(peer.log)) \in Nat
    BY <1>3, CountIs
  <2>3. Count(peer.log, Len(peer.log)) <= Len(peer.log)
    BY <1>3, CountFits
  <2>4. Len(peer.log) <= MaxPeerRecords
    BY DEF IInv, Rest, TheySaid
  <2> QED
    BY <1>3, <2>1, <2>2, <2>3, <2>4
<1>8. /\ Len(received) <= TheirBytes /\ \A i \in 1 .. Len(received) : received[i] = i
      /\ ended => TheyNotified /\ Len(received) = TheirBytes
  BY <1>7 DEF IInv, Rest, TheySaid
<1>9. Len(received) \in 0 .. TheirBytes
  BY <1>3, <1>7, <1>8
<1>10. received = Channel!FirstBytes(Len(received))
  BY <1>3, <1>8 DEF Channel!FirstBytes
<1>11. Placed = Channel!FirstBytes(Len(peer.got))
  <2>1. \A i \in 1 .. Len(peer.got) : i \in 1 .. Len(sealed)
    BY <1>5, <1>3
  <2>2. Rising
    BY DEF IInv, Rest
  <2>3. \A i \in 1 .. Len(peer.got) : Place(peer.got[i]) = i
    BY <1>2, <1>3, <1>4, <2>1, <2>2, PlaceIs
  <2> QED
    BY <2>3 DEF Placed, Channel!FirstBytes
<1>12. peer.end = "clean" => closed /\ Len(peer.got) = Len(sealed)
  BY <1>2
<1> QED
  BY <1>5, <1>6, <1>7, <1>8, <1>9, <1>10, <1>11, <1>12 DEF View

-----------------------------------------------------------------------------
(* The steps of the channel, of what it sees.                              *)

\* A longer stream of sealed bytes is a Write of the channel.
LEMMA SeenWrite ==
    ASSUME NEW e \in {"client", "server"}, ~ SeenNotified[e],
           \E n \in SeenWritten[e] + 1 .. MaxWrites + MaxPeerRecords :
              SeenWritten' = [SeenWritten EXCEPT ![e] = n],
           UNCHANGED << SeenReceived, SeenNotified, SeenEnded >>
    PROVE  Channel!Write(e)
BY DEF Channel!Write, SeenWritten, SeenReceived, SeenNotified, SeenEnded, Two,
       TheirBytes, Placed, TheyNotified

\* More bytes read are a Read of the channel.
LEMMA SeenRead ==
    ASSUME NEW e \in {"client", "server"}, ~ SeenEnded[e],
           \E n \in Len(SeenReceived[e]) + 1 .. SeenWritten[Channel!Peer(e)] :
              SeenReceived' = [SeenReceived EXCEPT ![e] = Channel!FirstBytes(n)],
           UNCHANGED << SeenWritten, SeenNotified, SeenEnded >>
    PROVE  Channel!Read(e)
BY DEF Channel!Read, SeenWritten, SeenReceived, SeenNotified, SeenEnded, Two,
       TheirBytes, Placed, TheyNotified

\* A close_notify sealed is a Close of the channel.
LEMMA SeenClose ==
    ASSUME NEW e \in {"client", "server"}, ~ SeenNotified[e],
           SeenNotified' = [SeenNotified EXCEPT ![e] = TRUE],
           UNCHANGED << SeenWritten, SeenReceived, SeenEnded >>
    PROVE  Channel!Close(e)
BY DEF Channel!Close, SeenWritten, SeenReceived, SeenNotified, SeenEnded, Two,
       TheirBytes, Placed, TheyNotified

\* A clean end is a ReadEnd of the channel.
LEMMA SeenReadEnd ==
    ASSUME NEW e \in {"client", "server"}, SeenNotified[Channel!Peer(e)],
           Len(SeenReceived[e]) = SeenWritten[Channel!Peer(e)],
           SeenEnded' = [SeenEnded EXCEPT ![e] = TRUE],
           UNCHANGED << SeenWritten, SeenReceived, SeenNotified >>
    PROVE  Channel!ReadEnd(e)
BY DEF Channel!ReadEnd, SeenWritten, SeenReceived, SeenNotified, SeenEnded, Two,
       TheirBytes, Placed, TheyNotified

\* Nothing seen is no step of the channel.
LEMMA SeenNothing ==
    ASSUME UNCHANGED << SeenWritten, SeenReceived, SeenNotified, SeenEnded >>
    PROVE  UNCHANGED Channel!vars
BY DEF Channel!vars, SeenWritten, SeenReceived, SeenNotified, SeenEnded, Two,
       TheirBytes, Placed, TheyNotified

\* Each of the four is a step of the channel.
LEMMA SeenNext ==
    ASSUME NEW e \in {"client", "server"},
           Channel!Write(e) \/ Channel!Read(e) \/ Channel!Close(e) \/ Channel!ReadEnd(e)
    PROVE  Channel!Next
BY DEF Channel!Next, Channel!Endpoint

-----------------------------------------------------------------------------
(* What the steps of the stream and of its peer do to what is seen.        *)

OurSide == << sealed, received, ended, closed >>
TheirSide == << TheirBytes, TheyNotified, peer.got, peer.end >>

\* What leaves both sides as seen alone is no step of the channel.
LEMMA Blind ==
    ASSUME UNCHANGED OurSide, UNCHANGED TheirSide
    PROVE  UNCHANGED Channel!vars
<1>1. UNCHANGED << TheirBytes, TheyNotified, sealed, received, ended, closed >>
      /\ peer'.got = peer.got /\ peer'.end = peer.end
  BY DEF OurSide, TheirSide
<1>2. Placed' = Placed
  BY <1>1 DEF Placed, Place
<1>3. UNCHANGED << SeenWritten, SeenReceived, SeenNotified, SeenEnded >>
  BY <1>1, <1>2 DEF SeenWritten, SeenReceived, SeenNotified, SeenEnded, Two
<1> QED
  BY <1>3, SeenNothing

\* The side of the peer is seen in the peer only.
LEMMA SamePeer ==
    ASSUME peer' = peer
    PROVE  UNCHANGED TheirSide
BY DEF TheirSide, TheirBytes, TheyNotified, SentBytes

\* These the channel does not see.
LEMMA Unseen ==
    ASSUME \/ FlushChunk \/ SendToTcp \/ FlushDone \/ SendFails \/ FillFails
           \/ FillFromTcp \/ FillEof \/ PumpStep \/ Process
           \/ ReadWarning \/ ReadEmpty \/ ReadHelloRequest \/ ReadNoRenegotiation
           \/ ReadNeedsMore \/ ReadError \/ Read \/ Write \/ Flush \/ UNCHANGED vars
    PROVE  UNCHANGED OurSide /\ UNCHANGED TheirSide
<1> USE DEF OurSide, Histories
<1>1. \A to, outcome : Release(to, outcome) => UNCHANGED OurSide /\ peer' = peer
  BY DEF Release
<1>2. \A a, b : FillEnds(a, b) => UNCHANGED OurSide /\ peer' = peer
  BY <1>1 DEF FillEnds
<1>3. CASE FlushChunk \/ SendToTcp \/ PumpStep \/ Process \/ Read \/ Write \/ Flush \/ UNCHANGED vars
  <2>1. UNCHANGED OurSide /\ peer' = peer
    BY <1>3 DEF FlushChunk, SendToTcp, PumpStep, Process, Read, Write, Flush, vars
  <2> QED
    BY <2>1, SamePeer
<1>4. CASE FlushDone
  <2>1. UNCHANGED OurSide /\ peer' = peer
    BY <1>1, <1>4 DEF FlushDone
  <2> QED
    BY <2>1, SamePeer
<1>5. CASE SendFails
  <2>1. UNCHANGED OurSide /\ peer' = peer
    BY <1>1, <1>5 DEF SendFails
  <2> QED
    BY <2>1, SamePeer
<1>6. CASE FillFromTcp \/ FillFails \/ FillEof
  <2>1. UNCHANGED OurSide /\ peer' = peer
    BY <1>2, <1>6 DEF FillFromTcp, FillFails, FillEof
  <2> QED
    BY <2>1, SamePeer
<1>7. CASE \/ ReadWarning \/ ReadEmpty \/ ReadHelloRequest \/ ReadNoRenegotiation
           \/ ReadNeedsMore \/ ReadError
  <2>1. ReadFrame /\ UNCHANGED << received, ended >>
    BY <1>7 DEF ReadWarning, ReadEmpty, ReadHelloRequest, ReadNoRenegotiation,
                ReadNeedsMore, ReadError, AskForMore
  <2>2. UNCHANGED OurSide /\ peer' = peer
    BY <2>1 DEF ReadFrame
  <2> QED
    BY <2>2, SamePeer
<1> QED
  BY <1>3, <1>4, <1>5, <1>6, <1>7

\* The peer seals a byte, or the end, or something that is neither.
LEMMA PeerSendsSays ==
    ASSUME IInv, PeerSends
    PROVE  /\ UNCHANGED OurSide /\ peer'.got = peer.got /\ peer'.end = peer.end
           /\ ~ TheyNotified
           /\ \/ TheirBytes' = TheirBytes + 1 /\ ~ TheyNotified'
              \/ TheirBytes' = TheirBytes
<1>1. PICK type \in (IF peer.log = <<>> THEN {"flight"} ELSE PeerTypes) :
        LET r == [ seq |-> Len(peer.log), type |-> type,
                   val |-> IF type = "data" THEN Cardinality(SentBytes) + 1 ELSE 0 ]
        IN  /\ peer' = [peer EXCEPT !.log = Append(@, r)]
            /\ toUs' = toUs \o Units(r)
  BY DEF PeerSends
<1>2. PICK r : r = [ seq |-> Len(peer.log), type |-> type,
                     val |-> IF type = "data" THEN TheirBytes + 1 ELSE 0 ]
  OBVIOUS
<1> DEFINE log == peer.log
           n == Len(log)
<1>3. /\ peer \in Peer /\ log \in Seq(Record) /\ n \in Nat /\ TheirBytes \in Nat
      /\ TheirBytes = Count(log, n)
  <2>1. peer \in Peer /\ TheirBytes = Count(log, n)
    BY DEF IInv, TypeOK, TheirBytes, SentBytes, Count, Datas
  <2> QED
    BY <2>1, UnitsAre, CountIs DEF IInv
<1>4. r \in Record /\ r.type = type
  <2>1. type \in FromPeer
    BY FaultsAssumption DEF FromPeer
  <2>2. (IF type = "data" THEN TheirBytes + 1 ELSE 0) \in Nat
    BY <1>3
  <2> QED
    BY <1>2, <1>3, <2>1, <2>2 DEF Record
<1>5. PICK more : more = Append(log, r)
  OBVIOUS
<1>6. /\ Len(more) = n + 1
      /\ more[n + 1] = r /\ \A i \in 1 .. n : more[i] = log[i]
      /\ Count(more, n + 1) = Count(log, n) + (IF type = "data" THEN 1 ELSE 0)
  BY <1>3, <1>4, <1>5, Logged
<1>7. peer' = [peer EXCEPT !.log = more]
  BY <1>1, <1>2, <1>5 DEF TheirBytes
<1>8. peer'.log = more /\ peer'.got = peer.got /\ peer'.end = peer.end
  BY <1>3, <1>7 DEF Peer
<1>9. ~ TheyNotified
  BY DEF PeerSends, Finished, TheyNotified
<1>10. TheirBytes' = Count(more, n + 1)
  <2>1. TheirBytes' = Cardinality({i \in 1 .. Len(more) : more[i].type = "data"})
    BY <1>8 DEF TheirBytes, SentBytes
  <2> QED
    BY <1>6, <2>1 DEF Count, Datas
<1>11. CASE type = "data"
  <2>1. \A i \in 1 .. Len(more) : more[i].type # "close_notify"
    <3> SUFFICES ASSUME NEW i \in 1 .. Len(more) PROVE more[i].type # "close_notify"
      OBVIOUS
    <3>1. CASE i \in 1 .. n
      BY <1>6, <1>9, <3>1 DEF TheyNotified
    <3>2. CASE i = n + 1
      BY <1>4, <1>6, <1>11, <3>2
    <3> QED
      BY <1>3, <1>6, <3>1, <3>2
  <2>2. ~ TheyNotified'
    BY <1>8, <2>1 DEF TheyNotified
  <2> QED
    BY <1>3, <1>6, <1>8, <1>9, <1>10, <1>11, <2>2 DEF PeerSends, OurSide, Histories
<1>12. CASE type # "data"
  BY <1>3, <1>6, <1>8, <1>9, <1>10, <1>12 DEF PeerSends, OurSide, Histories
<1> QED
  BY <1>11, <1>12

\* The peer reads a byte, or the end, or something that is neither.
LEMMA PeerReadsSays ==
    ASSUME IInv, PeerReads
    PROVE  /\ UNCHANGED << OurSide, TheirBytes, TheyNotified >>
           /\ peer.end = "open"
           /\ \/ peer'.got = peer.got
              \/ Len(peer'.got) = Len(peer.got) + 1 /\ peer'.end = "open"
<1>1. peer \in Peer /\ peer.got \in Seq(Nat) /\ toPeer \in Seq(Unit) /\ Len(toPeer) \in Nat
  BY LenProperties DEF IInv, TypeOK, Peer
<1>2. toPeer[1].rec.val \in Nat
  <2>1. Len(toPeer) # 0
    BY <1>1, EmptySeq DEF PeerReads
  <2>2. 1 \in 1 .. Len(toPeer)
    BY <1>1, <2>1
  <2>3. toPeer[1] \in Unit
    BY <1>1, <2>2, ElementOfSeq
  <2> QED
    BY <2>3 DEF Unit, Record
<1>3. /\ UNCHANGED OurSide /\ peer.end = "open"
      /\ peer' = [peer EXCEPT !.end = "broken"] \/ PeerTakes
  BY DEF PeerReads, PeerTakes, OurSide, Histories
<1>4. CASE peer' = [peer EXCEPT !.end = "broken"]
  <2>1. peer'.log = peer.log /\ peer'.got = peer.got
    BY <1>1, <1>4 DEF Peer
  <2> QED
    BY <1>3, <2>1 DEF TheirBytes, TheyNotified, SentBytes
<1>5. CASE PeerTakes
  <2>1. PICK r : r = toPeer[1].rec
    OBVIOUS
  <2>2. peer' = [peer EXCEPT
                   !.next = peer.next + 1,
                   !.heard = TRUE,
                   !.got = IF r.type = "data" THEN Append(peer.got, r.val) ELSE peer.got,
                   !.end = IF r.type = "close_notify" THEN "clean" ELSE peer.end]
    BY <1>5, <2>1 DEF PeerTakes
  <2>3. /\ peer'.log = peer.log
        /\ peer'.got = IF r.type = "data" THEN Append(peer.got, r.val) ELSE peer.got
        /\ peer'.end = IF r.type = "close_notify" THEN "clean" ELSE peer.end
    BY <1>1, <2>2 DEF Peer
  <2>4. Len(Append(peer.got, r.val)) = Len(peer.got) + 1
    BY <1>1, <1>2, <2>1, AppendProperties
  <2> QED
    BY <1>3, <2>3, <2>4 DEF TheirBytes, TheyNotified, SentBytes
<1> QED
  BY <1>3, <1>4, <1>5

\* What is seen of the two ends, once it is known where they stand.
LEMMA SeenIs ==
    ASSUME View
    PROVE  /\ SeenWritten["client"] = Len(sealed) /\ SeenWritten["server"] = TheirBytes
           /\ SeenReceived = Two(Channel!FirstBytes(Len(received)),
                                 Channel!FirstBytes(Len(peer.got)))
           /\ SeenReceived["client"] = received
           /\ Len(SeenReceived["server"]) = Len(peer.got)
           /\ SeenNotified["client"] = closed /\ SeenNotified["server"] = TheyNotified
           /\ SeenEnded["client"] = ended /\ SeenEnded["server"] = (peer.end = "clean")
           /\ Channel!Peer("client") = "server" /\ Channel!Peer("server") = "client"
<1>1. Len(peer.got) \in Nat
  BY DEF View
<1>2. Len(Placed) = Len(peer.got)
  BY <1>1 DEF Placed
<1> QED
  BY <1>2 DEF View, SeenWritten, SeenReceived, SeenNotified, SeenEnded, Two, Channel!Peer

\* The types of the flags the channel sees.
LEMMA Booleans ==
    ASSUME IInv
    PROVE  /\ ended \in BOOLEAN /\ closed \in BOOLEAN
           /\ TheyNotified \in BOOLEAN /\ (peer.end = "clean") \in BOOLEAN
BY DEF IInv, TypeOK, TheyNotified

\* One of two flags goes up.
LEMMA BothTrue ==
    ASSUME NEW c \in BOOLEAN, NEW s \in BOOLEAN
    PROVE  /\ [Two(c, s) EXCEPT !["client"] = TRUE] = Two(TRUE, s)
           /\ [Two(c, s) EXCEPT !["server"] = TRUE] = Two(c, TRUE)
<1>1. PICK yes : yes = TRUE
  OBVIOUS
<1>2. /\ [Two(c, s) EXCEPT !["client"] = yes] = Two(yes, s)
      /\ [Two(c, s) EXCEPT !["server"] = yes] = Two(c, yes)
  BY TwoIs
<1> QED
  BY <1>1, <1>2, Zenon

\* A step of the stream that the channel sees.
LEMMA OurStep ==
    ASSUME IInv, IInv', View, View', WriteStep \/ ReadData \/ ReadCloseNotify \/ Close
    PROVE  Channel!Next \/ UNCHANGED Channel!vars
<1>1. UNCHANGED TheirSide /\ peer' = peer
  <2>1. peer' = peer
    BY DEF WriteStep, ReadData, ReadCloseNotify, Close, ReadFrame
  <2> QED
    BY <2>1, SamePeer
<1>2. /\ TheirBytes' = TheirBytes /\ TheyNotified' = TheyNotified
      /\ peer'.got = peer.got /\ peer'.end = peer.end
  BY <1>1 DEF TheirSide
<1>3. /\ Len(sealed) \in Nat /\ Len(sealed') \in Nat /\ Len(sealed') <= MaxWrites
      /\ Len(received) \in Nat /\ Len(received') \in Nat /\ Len(received') <= TheirBytes
      /\ TheirBytes \in Nat /\ MaxWrites \in Nat /\ MaxPeerRecords \in Nat
      /\ ended => Len(received) = TheirBytes
      /\ ended' => TheyNotified /\ Len(received') = TheirBytes
      /\ received \in Seq(Nat)
  <2>1. /\ TheirBytes \in 0 .. MaxPeerRecords /\ Len(sealed) \in 0 .. MaxWrites
        /\ Len(received) \in 0 .. TheirBytes
        /\ ended => Len(received) = TheirBytes
    BY DEF View
  <2>2. /\ Len(sealed') \in 0 .. MaxWrites /\ Len(received') \in 0 .. TheirBytes
        /\ ended' => TheyNotified /\ Len(received') = TheirBytes
    BY <1>2 DEF View
  <2> QED
    BY <2>1, <2>2, FaultsAssumption DEF IInv, TypeOK
<1>4. /\ SeenReceived = Two(Channel!FirstBytes(Len(received)), Channel!FirstBytes(Len(peer.got)))
      /\ SeenReceived' = Two(Channel!FirstBytes(Len(received')), Channel!FirstBytes(Len(peer.got)))
  <2>1. SeenReceived' = Two(Channel!FirstBytes(Len(received')), Channel!FirstBytes(Len(peer'.got)))
    BY SeenIs DEF View, SeenReceived
  <2> QED
    BY <1>2, <2>1, SeenIs
<1>5. CASE WriteStep
  <2>1. /\ pc = "write" /\ UNCHANGED << received, ended, closed >>
        /\ sealed' = IF session'.nextOut # session.nextOut THEN Append(sealed, tries) ELSE sealed
    BY <1>5 DEF WriteStep
  <2>2. ~ closed /\ sealed \in Seq(1 .. MaxWrites) /\ tries \in 1 .. MaxWrites
    BY <1>3, <2>1 DEF IInv, Course, TypeOK, Over
  <2>3. CASE sealed' = sealed
    <3>1. UNCHANGED OurSide
      BY <2>1, <2>3 DEF OurSide
    <3> QED
      BY <1>1, <3>1, Blind
  <2>4. CASE sealed' = Append(sealed, tries)
    <3>1. Len(sealed') = Len(sealed) + 1
      BY <2>2, <2>4, AppendProperties
    <3>2. SeenWritten' = [SeenWritten EXCEPT !["client"] = Len(sealed')]
      BY <1>2, TwoIs DEF SeenWritten
    <3>3. Len(sealed') \in SeenWritten["client"] + 1 .. MaxWrites + MaxPeerRecords
      BY <1>3, <3>1, SeenIs
    <3>4. UNCHANGED << SeenReceived, SeenNotified, SeenEnded >>
      BY <1>2, <1>4, <2>1 DEF SeenNotified, SeenEnded, Two
    <3>5. ~ SeenNotified["client"]
      BY <2>2, SeenIs
    <3>6. Channel!Write("client")
      BY <3>2, <3>3, <3>4, <3>5, SeenWrite
    <3> QED
      BY <3>6, SeenNext
  <2> QED
    BY <2>1, <2>3, <2>4
<1>6. CASE ReadData
  <2>1. UNCHANGED << sealed, ended, closed >> /\ Len(received') = Len(received) + 1
    <3>1. /\ UNCHANGED << sealed, ended, closed >> /\ Reading /\ HasRecord(session)
          /\ received' = Append(received, NextRecord(session).val)
      BY <1>6 DEF ReadData, ReadFrame, Is
    <3> QED
      BY <1>3, <3>1, ReadIs, AppendProperties
  <2>2. ~ ended
    BY <1>3, <2>1
  <2>3. SeenReceived' = [SeenReceived EXCEPT !["client"] = Channel!FirstBytes(Len(received'))]
    BY <1>4, TwoIs
  <2>4. Len(received') \in Len(SeenReceived["client"]) + 1 .. SeenWritten[Channel!Peer("client")]
    BY <1>3, <2>1, SeenIs
  <2>5. UNCHANGED << SeenWritten, SeenNotified, SeenEnded >>
    BY <1>2, <2>1 DEF SeenWritten, SeenNotified, SeenEnded, Two
  <2>6. ~ SeenEnded["client"]
    BY <2>2, SeenIs
  <2>7. Channel!Read("client")
    BY <2>3, <2>4, <2>5, <2>6, SeenRead
  <2> QED
    BY <2>7, SeenNext
<1>7. CASE ReadCloseNotify
  <2>1. UNCHANGED << sealed, received, closed >> /\ ended' = TRUE
    BY <1>7 DEF ReadCloseNotify, ReadFrame
  <2>2. SeenEnded' = [SeenEnded EXCEPT !["client"] = TRUE]
    <3>1. SeenEnded' = Two(TRUE, peer.end = "clean")
      BY <1>2, <2>1 DEF SeenEnded
    <3>2. [Two(ended, peer.end = "clean") EXCEPT !["client"] = TRUE] = Two(TRUE, peer.end = "clean")
      BY Booleans, BothTrue
    <3> QED
      BY <3>1, <3>2, Zenon DEF SeenEnded
  <2>3. UNCHANGED << SeenWritten, SeenReceived, SeenNotified >>
    BY <1>2, <1>4, <2>1 DEF SeenWritten, SeenNotified, Two
  <2>4. /\ SeenNotified[Channel!Peer("client")]
        /\ Len(SeenReceived["client"]) = SeenWritten[Channel!Peer("client")]
    BY <1>3, <2>1, SeenIs
  <2>5. Channel!ReadEnd("client")
    BY <2>2, <2>3, <2>4, SeenReadEnd
  <2> QED
    BY <2>5, SeenNext
<1>8. CASE Close
  <2>1. UNCHANGED << sealed, received, ended >> /\ closed' = TRUE /\ ~ closed
    BY <1>8 DEF Close, IInv, Course, Over
  <2>2. SeenNotified' = [SeenNotified EXCEPT !["client"] = TRUE]
    <3>1. SeenNotified' = Two(TRUE, TheyNotified)
      BY <1>2, <2>1 DEF SeenNotified
    <3>2. [Two(closed, TheyNotified) EXCEPT !["client"] = TRUE] = Two(TRUE, TheyNotified)
      BY Booleans, BothTrue
    <3> QED
      BY <3>1, <3>2, Zenon DEF SeenNotified
  <2>3. UNCHANGED << SeenWritten, SeenReceived, SeenEnded >>
    BY <1>2, <1>4, <2>1 DEF SeenWritten, SeenEnded, Two
  <2>4. ~ SeenNotified["client"]
    BY <2>1, SeenIs
  <2>5. Channel!Close("client")
    BY <2>2, <2>3, <2>4, SeenClose
  <2> QED
    BY <2>5, SeenNext
<1> QED
  BY <1>5, <1>6, <1>7, <1>8

\* A step of the peer.
LEMMA PeerStep ==
    ASSUME IInv, IInv', View, View', PeerSends \/ PeerReads \/ PeerLeaves
    PROVE  Channel!Next \/ UNCHANGED Channel!vars
<1>1. UNCHANGED OurSide /\ UNCHANGED << sealed, received, ended, closed >>
  BY PeerSendsSays, PeerReadsSays DEF PeerLeaves, OurSide, Histories
<1>2. /\ Len(sealed) \in Nat /\ Len(peer.got) \in Nat /\ Len(peer'.got) \in Nat
      /\ Len(peer'.got) <= Len(sealed)
      /\ TheirBytes \in Nat /\ TheirBytes' \in Nat /\ TheirBytes' <= MaxPeerRecords
      /\ MaxWrites \in Nat /\ MaxPeerRecords \in Nat
      /\ peer'.end = "clean" => closed /\ Len(peer'.got) = Len(sealed)
  <2>1. /\ TheirBytes \in 0 .. MaxPeerRecords /\ Len(sealed) \in 0 .. MaxWrites
        /\ Len(peer.got) \in 0 .. Len(sealed)
    BY DEF View
  <2>2. /\ TheirBytes' \in 0 .. MaxPeerRecords /\ Len(peer'.got) \in 0 .. Len(sealed)
        /\ peer'.end = "clean" => closed /\ Len(peer'.got) = Len(sealed)
    BY <1>1 DEF View
  <2> QED
    BY <2>1, <2>2, FaultsAssumption
<1>3. /\ SeenReceived = Two(Channel!FirstBytes(Len(received)), Channel!FirstBytes(Len(peer.got)))
      /\ SeenReceived' = Two(Channel!FirstBytes(Len(received)), Channel!FirstBytes(Len(peer'.got)))
  <2>1. SeenReceived' = Two(Channel!FirstBytes(Len(received')), Channel!FirstBytes(Len(peer'.got)))
    BY SeenIs DEF View, SeenReceived
  <2> QED
    BY <1>1, <2>1, SeenIs
<1>4. CASE PeerSends
  <2>1. /\ peer'.got = peer.got /\ peer'.end = peer.end /\ ~ TheyNotified
        /\ \/ TheirBytes' = TheirBytes + 1 /\ ~ TheyNotified'
           \/ TheirBytes' = TheirBytes
    BY <1>4, PeerSendsSays
  <2>2. UNCHANGED << SeenReceived, SeenEnded >> /\ ~ SeenNotified["server"]
    BY <1>1, <1>3, <2>1, SeenIs DEF SeenEnded, Two
  <2>3. CASE TheirBytes' = TheirBytes + 1 /\ ~ TheyNotified'
    <3>1. SeenWritten' = [SeenWritten EXCEPT !["server"] = TheirBytes']
      BY <1>1, TwoIs DEF SeenWritten
    <3>2. TheirBytes' \in SeenWritten["server"] + 1 .. MaxWrites + MaxPeerRecords
      BY <1>2, <2>3, SeenIs
    <3>3. TheyNotified' = TheyNotified
      BY <2>1, <2>3 DEF TheyNotified
    <3>4. SeenNotified' = SeenNotified
      BY <1>1, <3>3 DEF SeenNotified, Two
    <3>5. Channel!Write("server")
      BY <2>2, <3>1, <3>2, <3>4, SeenWrite
    <3> QED
      BY <3>5, SeenNext
  <2>4. CASE TheirBytes' = TheirBytes /\ TheyNotified'
    <3>1. SeenNotified' = [SeenNotified EXCEPT !["server"] = TRUE]
      <4>1. TheyNotified' = TRUE
        BY <2>4 DEF TheyNotified
      <4>2. SeenNotified' = Two(closed, TRUE)
        BY <1>1, <4>1 DEF SeenNotified
      <4>3. [Two(closed, TheyNotified) EXCEPT !["server"] = TRUE] = Two(closed, TRUE)
        BY Booleans, BothTrue
      <4> QED
        BY <4>2, <4>3, Zenon DEF SeenNotified
    <3>2. SeenWritten' = SeenWritten
      BY <1>1, <2>4 DEF SeenWritten, Two
    <3>3. Channel!Close("server")
      BY <2>2, <3>1, <3>2, SeenClose
    <3> QED
      BY <3>3, SeenNext
  <2>5. CASE TheirBytes' = TheirBytes /\ ~ TheyNotified'
    <3>1. TheyNotified' = TheyNotified
      BY <2>1, <2>5 DEF TheyNotified
    <3>2. UNCHANGED TheirSide
      BY <2>1, <2>5, <3>1 DEF TheirSide
    <3> QED
      BY <1>1, <3>2, Blind
  <2> QED
    BY <2>1, <2>3, <2>4, <2>5
<1>5. CASE PeerReads
  <2>1. /\ TheirBytes' = TheirBytes /\ TheyNotified' = TheyNotified /\ peer.end = "open"
        /\ \/ peer'.got = peer.got
           \/ Len(peer'.got) = Len(peer.got) + 1 /\ peer'.end = "open"
    BY <1>5, PeerReadsSays
  <2>2. UNCHANGED << SeenWritten, SeenNotified >> /\ ~ SeenEnded["server"]
    BY <1>1, <2>1, SeenIs DEF SeenWritten, SeenNotified, Two
  <2>3. CASE Len(peer'.got) = Len(peer.got) + 1 /\ peer'.end = "open"
    <3>1. SeenReceived' = [SeenReceived EXCEPT !["server"] = Channel!FirstBytes(Len(peer'.got))]
      BY <1>3, TwoIs
    <3>2. Len(peer'.got) \in Len(SeenReceived["server"]) + 1 .. SeenWritten[Channel!Peer("server")]
      BY <1>2, <2>3, SeenIs
    <3>3. SeenEnded' = SeenEnded
      BY <1>1, <2>1, <2>3 DEF SeenEnded, Two
    <3>4. Channel!Read("server")
      BY <2>2, <3>1, <3>2, <3>3, SeenRead
    <3> QED
      BY <3>4, SeenNext
  <2>4. CASE peer'.got = peer.got /\ peer'.end = "clean"
    <3>1. SeenEnded' = [SeenEnded EXCEPT !["server"] = TRUE]
      <4>1. (peer'.end = "clean") = TRUE
        BY <2>4
      <4>2. SeenEnded' = Two(ended, TRUE)
        BY <1>1, <4>1 DEF SeenEnded
      <4>3. [Two(ended, peer.end = "clean") EXCEPT !["server"] = TRUE] = Two(ended, TRUE)
        BY Booleans, BothTrue
      <4> QED
        BY <4>2, <4>3, Zenon DEF SeenEnded
    <3>2. SeenReceived' = SeenReceived
      BY <1>3, <2>4
    <3>3. /\ SeenNotified[Channel!Peer("server")]
          /\ Len(SeenReceived["server"]) = SeenWritten[Channel!Peer("server")]
      BY <1>2, <2>4, SeenIs
    <3>4. Channel!ReadEnd("server")
      BY <2>2, <3>1, <3>2, <3>3, SeenReadEnd
    <3> QED
      BY <3>4, SeenNext
  <2>5. CASE peer'.got = peer.got /\ peer'.end # "clean"
    <3>1. SeenEnded' = SeenEnded
      BY <1>1, <2>1, <2>5 DEF SeenEnded, Two
    <3>2. SeenReceived' = SeenReceived
      BY <1>3, <2>5
    <3> QED
      BY <2>2, <3>1, <3>2, SeenNothing
  <2> QED
    BY <2>1, <2>3, <2>4, <2>5
<1>6. CASE PeerLeaves
  <2>1. peer' = [peer EXCEPT !.here = FALSE] /\ peer \in Peer
    BY <1>6 DEF PeerLeaves, IInv, TypeOK
  <2>2. peer'.log = peer.log /\ peer'.got = peer.got /\ peer'.end = peer.end
    BY <2>1 DEF Peer
  <2>3. UNCHANGED TheirSide
    BY <2>2 DEF TheirSide, TheirBytes, TheyNotified, SentBytes
  <2> QED
    BY <1>1, <2>3, Blind
<1> QED
  BY <1>4, <1>5, <1>6

\* One stream and any peer are a secure channel, whatever fails at its end:
\* out of memory, out of room behind mbedTLS's own buffer, or with an error of
\* Net in the middle of a record, an application reads what the peer sealed, in
\* order and once, the peer what mbedTLS sealed, and either a clean end only
\* behind the last byte.
THEOREM StreamIsAChannel == Spec => ImplementsChannel
<1>1. Init => Channel!Init
  <2> SUFFICES ASSUME Init PROVE Channel!Init
    OBVIOUS
  <2>1. /\ sealed = <<>> /\ received = <<>> /\ ~ closed /\ ~ ended
        /\ peer.log = <<>> /\ peer.got = <<>> /\ peer.end = "open"
        /\ closed = FALSE /\ ended = FALSE
    BY DEF Init
  <2>2. Len(sealed) = 0 /\ Cardinality(SentBytes) = 0 /\ ~ TheyNotified
    <3>1. SentBytes = {}
      BY <2>1 DEF SentBytes
    <3> QED
      BY <2>1, <3>1, FS_EmptySet DEF TheyNotified
  <2>3. [i \in 1 .. Len(peer.got) |-> Place(peer.got[i])] = <<>>
    <3>1. Len(peer.got) = 0 /\ 1 .. 0 = {}
      BY <2>1
    <3>2. \A f : DOMAIN f = {} /\ f = [x \in DOMAIN f |-> f[x]] => f = <<>>
      OBVIOUS
    <3> QED
      BY <3>1
  <2> QED
    BY <2>1, <2>2, <2>3 DEF Channel!Init, Channel!Endpoint, TheyNotified
<1>2. IInv /\ IInv' /\ View /\ View' /\ [Next]_vars => [Channel!Next]_(Channel!vars)
  <2> SUFFICES ASSUME IInv, IInv', View, View', [Next]_vars
               PROVE  Channel!Next \/ UNCHANGED Channel!vars
    OBVIOUS
  <2>1. CASE WriteStep \/ ReadData \/ ReadCloseNotify \/ Close
    BY <2>1, OurStep
  <2>2. CASE PeerSends \/ PeerReads \/ PeerLeaves
    BY <2>2, PeerStep
  <2>3. CASE \/ FlushChunk \/ SendToTcp \/ FlushDone \/ SendFails \/ FillFails
             \/ FillFromTcp \/ FillEof \/ PumpStep \/ Process
             \/ ReadWarning \/ ReadEmpty \/ ReadHelloRequest \/ ReadNoRenegotiation
             \/ ReadNeedsMore \/ ReadError \/ Read \/ Write \/ Flush \/ UNCHANGED vars
    BY <2>3, Unseen, Blind
  <2> QED
    BY <2>1, <2>2, <2>3 DEF Next, Works
<1> QED
  BY <1>1, <1>2, ViewHolds, FaultsInvariant, PTL DEF Spec, ImplementsChannel, Channel!Spec
====
