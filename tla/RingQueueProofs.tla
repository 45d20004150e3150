-------------------------- MODULE RingQueueProofs --------------------------
(***************************************************************************)
(* Proofs about RingQueue, for every set of items, every bound MaxLen and  *)
(* every set of arguments: the buffer implements the double-ended queue of *)
(* Deque, and a slot that holds no item holds nothing.                     *)
(*                                                                         *)
(* The buffer is always Ring(n, h, s): the sequence s written from slot h  *)
(* of n slots on, with undefined in the others (RingHolds).  A lemma for   *)
(* each operation says which sequence it leaves; wrapping, growing,        *)
(* shrinking and rebuilding change n and h only.                           *)
(***************************************************************************)
EXTENDS RingQueue, SequenceTheorems, WellFoundedInduction, TLAPS

-----------------------------------------------------------------------------
\* Induction over the numbers, from the well-foundedness of their order.

\* Every set of numbers that is not empty has a least one.
LEMMA Least == ASSUME NEW T, T \subseteq Nat, T # {} PROVE \E n \in T : \A m \in T : n <= m
<1> DEFINE R == {ss \in Nat \X Nat : ss[1] < ss[2]}
<1>1. IsWellFoundedOn(R, Nat)
  BY NatLessThanWellFounded DEF OpToRel
<1> HIDE DEF R
<1>2. PICK n \in T : \A m \in T : ~(<<m, n>> \in R)
  BY <1>1, WFMin
<1>3. \A m \in T : n <= m
  <2> SUFFICES ASSUME NEW m \in T, m < n PROVE FALSE
    OBVIOUS
  <2>1. <<m, n>> \in R
    BY DEF R
  <2> QED
    BY <1>2, <2>1
<1> QED
  BY <1>3

\* What holds of 0, and of n when it holds of n - 1, holds up to N.
LEMMA UpTo ==
    ASSUME NEW N \in Nat, NEW S, 0 \in S, \A n \in 1 .. N : n - 1 \in S => n \in S
    PROVE  0 .. N \subseteq S
<1> DEFINE T == (0 .. N) \ S
<1> SUFFICES ASSUME T # {} PROVE FALSE
  OBVIOUS
<1>1. PICK n \in T : \A m \in T : n <= m
  <2>1. T \subseteq Nat
    OBVIOUS
  <2> HIDE DEF T
  <2> QED
    BY <2>1, Least
<1>2. n \in 1 .. N /\ n - 1 \in 0 .. N
  OBVIOUS
<1>3. n - 1 \notin T
  BY <1>1, <1>2
<1> QED
  BY <1>2, <1>3

\* A function may be defined by what it makes of its value one number earlier.
Recurrence(N, X, a, G) == N \in Nat /\ a \in X /\ G \in [(1 .. N) \X X -> X]
Solves(f, N, X, a, G) ==
    f \in [0 .. N -> X] /\ f[0] = a /\ \A n \in 1 .. N : f[n] = G[<<n, f[n - 1]>>]

\* A function defined by recursion exists.
LEMMA Recursion ==
    ASSUME NEW N, NEW X, NEW a, NEW G, Recurrence(N, X, a, G)
    PROVE  \E f : Solves(f, N, X, a, G)
<1>0. N \in Nat /\ a \in X /\ G \in [(1 .. N) \X X -> X]
  BY DEF Recurrence
<1> DEFINE Approx(k, f) == /\ f \in [0 .. k -> X] /\ f[0] = a
                           /\ \A n \in 1 .. k : f[n] = G[<<n, f[n - 1]>>]
           S == {k \in 0 .. N : \E f \in [0 .. k -> X] : Approx(k, f)}
<1>1. 0 \in S
  <2> DEFINE f == [n \in 0 .. 0 |-> a]
  <2>1. f \in [0 .. 0 -> X] /\ Approx(0, f) /\ 0 \in 0 .. N
    BY <1>0
  <2> HIDE DEF f, Approx
  <2> QED
    BY <2>1
<1>2. ASSUME NEW k \in 1 .. N, k - 1 \in S PROVE k \in S
  <2>1. PICK f \in [0 .. k - 1 -> X] : Approx(k - 1, f)
    BY <1>2
  <2> DEFINE g == [n \in 0 .. k |-> IF n = k THEN G[<<n, f[n - 1]>>] ELSE f[n]]
  <2>2. k - 1 \in 0 .. k - 1 /\ f[k - 1] \in X
    BY <1>0
  <2>3. G[<<k, f[k - 1]>>] \in X
    BY <1>0, <2>2
  <2>4. g \in [0 .. k -> X]
    <3> SUFFICES ASSUME NEW n \in 0 .. k PROVE (IF n = k THEN G[<<n, f[n - 1]>>] ELSE f[n]) \in X
      OBVIOUS
    <3>1. n # k => n \in 0 .. k - 1
      BY <1>0
    <3> QED
      BY <2>3, <3>1
  <2>5. g[0] = a
    BY <1>0, <2>1
  <2>6. ASSUME NEW n \in 1 .. k PROVE g[n] = G[<<n, g[n - 1]>>]
    <3>1. n - 1 \in 0 .. k /\ n - 1 # k /\ n \in 0 .. k
      BY <1>0
    <3>4. g[n - 1] = f[n - 1]
      BY <3>1
    <3>2. CASE n = k
      <4>1. g[n] = G[<<n, f[n - 1]>>]
        BY <3>1, <3>2
      <4> HIDE DEF g
      <4> QED
        BY <3>4, <4>1
    <3>3. CASE n # k
      <4>1. n \in 1 .. k - 1 /\ g[n] = f[n]
        BY <1>0, <3>3
      <4> QED
        BY <2>1, <3>4, <4>1
    <3> QED
      BY <3>2, <3>3
  <2> HIDE DEF g
  <2> QED
    BY <2>4, <2>5, <2>6
<1>3. N \in S
  <2> HIDE DEF S
  <2>1. 0 .. N \subseteq S
    BY <1>0, <1>1, <1>2, UpTo
  <2> QED
    BY <1>0, <2>1
<1> QED
  BY <1>3 DEF Solves

-----------------------------------------------------------------------------
\* Numbers.

\* x & mask, as long as x is less than one round away.
LEMMA Round ==
    ASSUME NEW n \in Nat \ {0}, NEW x \in Int, -n <= x, x < 2 * n
    PROVE  /\ x % n = IF x < 0 THEN x + n ELSE IF x < n THEN x ELSE x - n
           /\ x % n \in 0 .. n - 1
<1>1. x = (n * (x \div n)) + (x % n) /\ x % n \in 0 .. n - 1 /\ x \div n \in Int
  OBVIOUS
<1> DEFINE d == x \div n
           m == x % n
<1>2. d \in Int /\ m \in Int /\ 0 <= m /\ m < n /\ x = (n * d) + m
  BY <1>1
<1> HIDE DEF d, m
<1>3. d \in {-1, 0, 1}
  <2>1. CASE d >= 2
    <3>1. n * d >= n * 2
      BY <2>1, <1>2
    <3> QED
      BY <1>2, <3>1
  <2>2. CASE d <= -2
    <3>1. n * d <= n * (-2)
      BY <2>2, <1>2
    <3> QED
      BY <1>2, <3>1
  <2> QED
    BY <1>2, <2>1, <2>2
<1>4. CASE d = -1
  BY <1>2, <1>4 DEF m
<1>5. CASE d = 0
  BY <1>2, <1>5 DEF m
<1>6. CASE d = 1
  BY <1>2, <1>6 DEF m
<1> QED
  BY <1>1, <1>3, <1>4, <1>5, <1>6

\* Powers is the function its definition says.
LEMMA PowersOf ==
    /\ Powers[0] = 1
    /\ \A k \in 1 .. MaxLen + 2 : Powers[k] = 2 * Powers[k - 1]
<1> DEFINE N == MaxLen + 2
           G == [u \in (1 .. N) \X Nat |-> 2 * u[2]]
           Body(g) == [k \in 0 .. N |-> IF k = 0 THEN 1 ELSE 2 * g[k - 1]]
<1>1. N \in Nat
  BY BoundsAssumption
<1>2. \E g : g = Body(g)
  <2>1. G \in [(1 .. N) \X Nat -> Nat]
    BY <1>1
  <2>2. PICK f : Solves(f, N, Nat, 1, G)
    <3> HIDE DEF G, N
    <3>1. Recurrence(N, Nat, 1, G)
      BY <1>1, <2>1 DEF Recurrence
    <3> QED
      BY <3>1, Recursion
  <2> HIDE DEF N
  <2>3. /\ f \in [0 .. N -> Nat] /\ f[0] = 1
        /\ \A n \in 1 .. N : f[n] = G[<<n, f[n - 1]>>]
    BY <2>2 DEF Solves
  <2>4. ASSUME NEW n \in 1 .. N PROVE f[n] = 2 * f[n - 1]
    <3>1. f[n - 1] \in Nat
      BY <1>1, <2>3
    <3> QED
      BY <2>3, <3>1
  <2> HIDE DEF G
  <2>5. ASSUME NEW n \in 0 .. N PROVE f[n] = IF n = 0 THEN 1 ELSE 2 * f[n - 1]
    <3>1. n # 0 => n \in 1 .. N
      BY <1>1
    <3> QED
      BY <2>3, <2>4, <3>1
  <2>6. f = Body(f)
    BY <2>3, <2>5
  <2> QED
    BY <2>6
<1>3. Powers = CHOOSE g : g = Body(g)
  BY DEF Powers
<1>4. Powers = Body(Powers)
  <2> HIDE DEF Body
  <2> QED
    BY <1>2, <1>3
<1> HIDE DEF N
<1>5. \A k \in 0 .. N : Powers[k] = IF k = 0 THEN 1 ELSE 2 * Powers[k - 1]
  BY <1>4
<1>6. 0 \in 0 .. N /\ \A k \in 1 .. N : k \in 0 .. N /\ k # 0
  BY <1>1
<1> QED
  BY <1>5, <1>6 DEF N

\* Powers grows beyond every length a queue may have.
LEMMA PowersGrow ==
    /\ \A k \in 0 .. MaxLen + 2 : Powers[k] \in Nat /\ Powers[k] > k
    /\ \A k \in 0 .. MaxLen + 2 : Powers[k] <= Powers[MaxLen + 2]
    /\ \A k \in 2 .. MaxLen + 2 : Powers[k] >= 4
    /\ Powers[2] = 4
<1> DEFINE N == MaxLen + 2
<1>1. N \in Nat /\ N >= 2
  BY BoundsAssumption
<1>2. Powers[0] = 1 /\ \A k \in 1 .. N : Powers[k] = 2 * Powers[k - 1]
  BY PowersOf
<1> HIDE DEF N
<1>3. \A k \in 0 .. N : Powers[k] \in Nat /\ Powers[k] > k
  <2> DEFINE D == {k \in 0 .. N : Powers[k] \in Nat /\ Powers[k] > k}
  <2>1. 0 \in D
    BY <1>1, <1>2
  <2>2. ASSUME NEW n \in 1 .. N, n - 1 \in D PROVE n \in D
    BY <1>1, <1>2, <2>2
  <2> HIDE DEF D
  <2>3. 0 .. N \subseteq D
    BY <1>1, <2>1, <2>2, UpTo
  <2> QED
    BY <2>3 DEF D
<1>4. Powers[2] = 4
  <2>1. 1 \in 1 .. N /\ 2 \in 1 .. N
    BY <1>1
  <2>2. Powers[1] = 2 * Powers[0] /\ Powers[2] = 2 * Powers[1]
    <3>1. Powers[1] = 2 * Powers[1 - 1] /\ Powers[2] = 2 * Powers[2 - 1]
      BY <1>2, <2>1
    <3> QED
      BY <3>1
  <2> QED
    BY <1>2, <2>2
<1>5. \A k \in 0 .. N : k >= 2 => Powers[k] >= 4
  <2> DEFINE D == {k \in 0 .. N : k >= 2 => Powers[k] >= 4}
  <2>1. 0 \in D
    BY <1>1
  <2>2. ASSUME NEW n \in 1 .. N, n - 1 \in D PROVE n \in D
    <3>1. CASE n = 1
      BY <1>1, <3>1
    <3>2. CASE n = 2
      BY <1>1, <1>4, <3>2
    <3>3. CASE n > 2
      <4>1. Powers[n - 1] >= 4 /\ Powers[n - 1] \in Nat /\ Powers[n] = 2 * Powers[n - 1]
        BY <1>1, <1>2, <1>3, <2>2, <3>3
      <4> QED
        BY <4>1
    <3> QED
      BY <1>1, <3>1, <3>2, <3>3
  <2> HIDE DEF D
  <2>3. 0 .. N \subseteq D
    BY <1>1, <2>1, <2>2, UpTo
  <2> QED
    BY <2>3 DEF D
<1>6. \A k \in 0 .. N : Powers[k] <= Powers[N]
  <2> DEFINE D == {m \in 0 .. N : \A k \in 0 .. m : Powers[k] <= Powers[m]}
  <2>1. 0 \in D
    BY <1>1, <1>3
  <2>2. ASSUME NEW n \in 1 .. N, n - 1 \in D PROVE n \in D
    <3>1. ASSUME NEW k \in 0 .. n PROVE Powers[k] <= Powers[n]
      <4>1. CASE k = n
        BY <1>1, <1>3, <4>1
      <4>2. CASE k # n
        <5>1. k \in 0 .. n - 1 /\ n - 1 \in 0 .. N /\ k \in 0 .. N
          BY <1>1, <4>2
        <5>2. Powers[k] <= Powers[n - 1] /\ Powers[n] = 2 * Powers[n - 1]
          BY <1>2, <2>2, <5>1
        <5>3. Powers[k] \in Nat /\ Powers[n - 1] \in Nat
          BY <1>3, <5>1
        <5> QED
          BY <5>2, <5>3
      <4> QED
        BY <4>1, <4>2
    <3>2. n \in 0 .. N
      BY <1>1
    <3> QED
      BY <3>1, <3>2
  <2> HIDE DEF D
  <2>3. N \in D
    <3>1. 0 .. N \subseteq D
      BY <1>1, <2>1, <2>2, UpTo
    <3> QED
      BY <1>1, <3>1
  <2> QED
    BY <2>3 DEF D
<1> QED
  BY <1>1, <1>3, <1>4, <1>5, <1>6 DEF N

\* A capacity may be doubled while the queue is full, halved while it is nearly
\* empty, and raised above any length.
LEMMA CapacityOf ==
    ASSUME NEW n \in Capacities
    PROVE  /\ n \in Nat /\ n >= 4
           /\ n <= MaxLen => 2 * n \in Capacities
           /\ n >= 8 => n \div 2 \in Capacities /\ 2 * (n \div 2) = n
           /\ \A m \in Nat : m <= MaxLen => \E c \in Capacities : c >= n /\ c > m
<1>1. PICK k \in 2 .. MaxLen + 2 : n = Powers[k]
  BY DEF Capacities
<1>2. MaxLen \in Nat /\ k \in 0 .. MaxLen + 2 /\ k \in 1 .. MaxLen + 2
  BY BoundsAssumption
<1>3. n \in Nat /\ n > k /\ n >= 4
  BY <1>1, <1>2, PowersGrow
<1>4. ASSUME n <= MaxLen PROVE 2 * n \in Capacities
  <2>1. k + 1 \in 2 .. MaxLen + 2 /\ k + 1 \in 1 .. MaxLen + 2 /\ (k + 1) - 1 = k
    BY <1>2, <1>3, <1>4
  <2>2. Powers[k + 1] = 2 * Powers[k]
    BY <2>1, PowersOf
  <2> QED
    BY <1>1, <2>1, <2>2 DEF Capacities
<1>5. ASSUME n >= 8 PROVE n \div 2 \in Capacities /\ 2 * (n \div 2) = n
  <2>1. k # 2
    BY <1>1, <1>5, PowersGrow
  <2>2. k - 1 \in 2 .. MaxLen + 2 /\ k - 1 \in 0 .. MaxLen + 2
    BY <1>2, <2>1
  <2>3. n = 2 * Powers[k - 1] /\ Powers[k - 1] \in Nat
    BY <1>1, <1>2, <2>2, PowersOf, PowersGrow
  <2>4. n \div 2 = Powers[k - 1]
    BY <2>3
  <2> QED
    BY <2>2, <2>3, <2>4 DEF Capacities
<1>6. ASSUME NEW m \in Nat, m <= MaxLen PROVE \E c \in Capacities : c >= n /\ c > m
  <2>1. MaxLen + 2 \in 2 .. MaxLen + 2 /\ MaxLen + 2 \in 0 .. MaxLen + 2
    BY <1>2
  <2>2. Powers[MaxLen + 2] \in Nat /\ Powers[MaxLen + 2] > MaxLen + 2 /\ n <= Powers[MaxLen + 2]
    BY <1>1, <1>2, <2>1, PowersGrow
  <2>3. Powers[MaxLen + 2] \in Capacities
    BY <2>1 DEF Capacities
  <2> QED
    BY <1>2, <1>3, <1>6, <2>2, <2>3
<1> QED
  BY <1>3, <1>4, <1>5, <1>6

-----------------------------------------------------------------------------
\* The buffer that holds the sequence s from the slot h of n slots on.

Wrap(x, n) == IF x < 0 THEN x + n ELSE IF x < n THEN x ELSE x - n

Image(n, h, s) ==
    [slot \in 0 .. n - 1 |->
        IF Wrap(slot - h, n) < Len(s) THEN s[Wrap(slot - h, n) + 1] ELSE undefined]

Ring(n, h, s) ==
    [list |-> Image(n, h, s), mask |-> n - 1, head |-> h, tail |-> Wrap(h + Len(s), n)]

Fits(n, h, s) ==
    /\ n \in Capacities /\ h \in 0 .. n - 1
    /\ s \in Seq(Items) /\ Len(s) < n /\ Len(s) <= MaxLen

\* The numbers of a buffer that holds s.
LEMMA FitsTypes ==
    ASSUME NEW n, NEW h, NEW s, Fits(n, h, s)
    PROVE  /\ n \in Nat /\ n >= 4 /\ h \in Nat /\ h < n
           /\ Len(s) \in Nat /\ Len(s) < n /\ Len(s) <= MaxLen /\ MaxLen \in Nat
           /\ s \in Seq(Items) /\ s \in [1 .. Len(s) -> Items]
<1>1. n \in Capacities /\ h \in 0 .. n - 1 /\ s \in Seq(Items) /\ Len(s) < n /\ Len(s) <= MaxLen
  BY DEF Fits
<1>2. n \in Nat /\ n >= 4
  BY <1>1, CapacityOf
<1>3. Len(s) \in Nat /\ s \in [1 .. Len(s) -> Items]
  BY <1>1, LenProperties
<1> QED
  BY <1>1, <1>2, <1>3, BoundsAssumption

\* Its fields, and what length and isEmpty say of it.
LEMMA RingFields ==
    ASSUME NEW n, NEW h, NEW s, Fits(n, h, s)
    PROVE  /\ capacity(Ring(n, h, s)) = n
           /\ length(Ring(n, h, s)) = Len(s)
           /\ isEmpty(Ring(n, h, s)) <=> Len(s) = 0
           /\ Ring(n, h, s).list = Image(n, h, s) /\ Ring(n, h, s).mask = n - 1
           /\ Ring(n, h, s).head = h /\ Ring(n, h, s).tail = Wrap(h + Len(s), n)
           /\ Wrap(h + Len(s), n) \in 0 .. n - 1
<1> DEFINE L == Len(s)
           t == Wrap(h + L, n)
<1>1. /\ n \in Nat /\ n >= 4 /\ h \in Nat /\ h < n
      /\ L \in Nat /\ L < n
  BY FitsTypes
<1> HIDE DEF L
<1>2. t \in 0 .. n - 1
  BY <1>1 DEF Wrap
<1>3. Wrap(t - h, n) = L /\ (h = t <=> L = 0)
  BY <1>1 DEF Wrap
<1>4. t - h \in Int /\ -n <= t - h /\ t - h < 2 * n /\ n \in Nat \ {0}
  BY <1>1, <1>2
<1>5. (t - h) % n = L
  <2> HIDE DEF t
  <2>1. (t - h) % n = IF t - h < 0 THEN (t - h) + n ELSE IF t - h < n THEN t - h ELSE (t - h) - n
    BY <1>4, Round
  <2> QED
    BY <1>3, <2>1 DEF Wrap
<1>6. (n - 1) + 1 = n
  BY <1>1
<1> DEFINE r == Ring(n, h, s)
<1>7. r.list = Image(n, h, s) /\ r.mask = n - 1 /\ r.head = h /\ r.tail = t
  BY DEF Ring, L
<1> HIDE DEF t, r
<1>8. capacity(r) = n
  BY <1>6, <1>7 DEF capacity
<1>9. length(r) = L /\ (isEmpty(r) <=> L = 0)
  BY <1>3, <1>5, <1>7, <1>8 DEF length, isEmpty
<1> QED
  BY <1>2, <1>7, <1>8, <1>9 DEF r, L, t

\* Every slot, and the slot of every item.
LEMMA ImageSlots ==
    ASSUME NEW n, NEW h, NEW s, Fits(n, h, s)
    PROVE  /\ Image(n, h, s) \in [0 .. n - 1 -> Items \union {undefined}]
           /\ \A i \in 1 .. Len(s) : /\ Wrap(h + i - 1, n) \in 0 .. n - 1
                                     /\ Image(n, h, s)[Wrap(h + i - 1, n)] = s[i]
           /\ \A slot \in 0 .. n - 1 :
                 Image(n, h, s)[slot] # undefined <=> Wrap(slot - h, n) < Len(s)
<1>1. /\ n \in Nat /\ n >= 4 /\ h \in Nat /\ h < n
      /\ Len(s) \in Nat /\ Len(s) < n /\ s \in [1 .. Len(s) -> Items]
  BY FitsTypes
<1>2. \A slot \in 0 .. n - 1 : Wrap(slot - h, n) \in 0 .. n - 1
  BY <1>1 DEF Wrap
<1>3. ASSUME NEW slot \in 0 .. n - 1, Wrap(slot - h, n) < Len(s)
      PROVE  s[Wrap(slot - h, n) + 1] \in Items
  <2>1. Wrap(slot - h, n) + 1 \in 1 .. Len(s)
    BY <1>1, <1>2, <1>3
  <2> QED
    BY <1>1, <2>1
<1>4. Image(n, h, s) \in [0 .. n - 1 -> Items \union {undefined}]
  BY <1>3 DEF Image
<1>5. ASSUME NEW i \in 1 .. Len(s)
      PROVE  /\ Wrap(h + i - 1, n) \in 0 .. n - 1
             /\ Image(n, h, s)[Wrap(h + i - 1, n)] = s[i]
  <2> DEFINE w == Wrap(h + i - 1, n)
  <2>1. w \in 0 .. n - 1 /\ Wrap(w - h, n) = i - 1
    BY <1>1 DEF Wrap
  <2> HIDE DEF w
  <2>2. Image(n, h, s)[w] = IF Wrap(w - h, n) < Len(s) THEN s[Wrap(w - h, n) + 1] ELSE undefined
    BY <2>1 DEF Image
  <2>3. (i - 1) + 1 = i /\ i - 1 < Len(s)
    BY <1>1
  <2>4. Image(n, h, s)[w] = s[i]
    BY <2>1, <2>2, <2>3
  <2> QED
    BY <2>1, <2>4 DEF w
<1>6. ASSUME NEW slot \in 0 .. n - 1
      PROVE  Image(n, h, s)[slot] # undefined <=> Wrap(slot - h, n) < Len(s)
  <2>1. Image(n, h, s)[slot] = IF Wrap(slot - h, n) < Len(s) THEN s[Wrap(slot - h, n) + 1] ELSE undefined
    BY DEF Image
  <2> QED
    BY <1>3, <2>1, UndefinedAssumption
<1> QED
  BY <1>4, <1>5, <1>6

\* toArray gives the sequence back, wherever it begins.
LEMMA ToArray ==
    ASSUME NEW n, NEW h, NEW s, Fits(n, h, s)
    PROVE  toArray(Ring(n, h, s)) = s
<1> DEFINE L == Len(s)
           t == Wrap(h + L, n)
           I == Image(n, h, s)
           r == Ring(n, h, s)
<1>1. /\ n \in Nat /\ n >= 4 /\ h \in Nat /\ h < n
      /\ L \in Nat /\ L < n /\ s \in Seq(Items) /\ s \in [1 .. L -> Items]
  BY FitsTypes
<1>2. \A i \in 1 .. L : I[Wrap(h + i - 1, n)] = s[i]
  BY ImageSlots
<1>3. r.list = I /\ r.head = h /\ r.tail = t /\ capacity(r) = n
  BY RingFields
<1> HIDE DEF L, t, I, r
<1>4. CASE h + L < n
  <2>1. t = h + L
    BY <1>1, <1>4 DEF t, Wrap
  <2>2. toArray(r) = [i \in 1 .. t - h |-> I[h + i - 1]]
    BY <1>1, <1>3, <2>1 DEF toArray
  <2>3. t - h = L
    BY <1>1, <2>1
  <2>4. ASSUME NEW i \in 1 .. L PROVE I[h + i - 1] = s[i]
    <3>1. Wrap(h + i - 1, n) = h + i - 1
      BY <1>1, <1>4 DEF Wrap
    <3> QED
      BY <1>2, <3>1
  <2>5. [i \in 1 .. L |-> I[h + i - 1]] = s
    BY <1>1, <2>4
  <2> QED
    BY <2>2, <2>3, <2>5 DEF r
<1>5. CASE ~(h + L < n)
  <2>1. t = h + L - n /\ t < h
    BY <1>1, <1>5 DEF t, Wrap
  <2> DEFINE p1 == [i \in 1 .. n - h |-> I[h + i - 1]]
             p2 == [i \in 1 .. t - 0 |-> I[0 + i - 1]]
             k == n - h
  <2>2. toArray(r) = p1 \o p2
    <3>1. ~(h <= t)
      BY <1>1, <2>1
    <3> QED
      BY <1>3, <3>1 DEF toArray
  <2>3. k \in Nat /\ k <= L /\ t \in Nat /\ L = k + t /\ 0 < k
    BY <1>1, <1>5, <2>1
  <2>4. ASSUME NEW i \in 1 .. k PROVE I[h + i - 1] = s[i] /\ s[i] \in Items
    <3>1. Wrap(h + i - 1, n) = h + i - 1 /\ i \in 1 .. L
      BY <1>1, <2>3 DEF Wrap
    <3> QED
      BY <1>1, <1>2, <3>1
  <2>5. ASSUME NEW i \in 1 .. t PROVE I[0 + i - 1] = s[k + i] /\ s[k + i] \in Items
    <3>1. Wrap(h + (k + i) - 1, n) = 0 + i - 1 /\ k + i \in 1 .. L
      BY <1>1, <2>3 DEF Wrap
    <3> QED
      BY <1>1, <1>2, <3>1
  <2>6. p1 = [i \in 1 .. k |-> s[i]] /\ p2 = [i \in 1 .. t |-> s[k + i]]
    BY <2>3, <2>4, <2>5
  <2> HIDE DEF p1, p2, k
  <2>7. p1 \in Seq(Items) /\ Len(p1) = k /\ p2 \in Seq(Items) /\ Len(p2) = t
    <3>1. [i \in 1 .. k |-> s[i]] \in Seq(Items) /\ Len([i \in 1 .. k |-> s[i]]) = k
      BY <2>3, <2>4
    <3>2. [i \in 1 .. t |-> s[k + i]] \in Seq(Items) /\ Len([i \in 1 .. t |-> s[k + i]]) = t
      BY <2>3, <2>5
    <3> QED
      BY <2>6, <3>1, <3>2
  <2>8. /\ p1 \o p2 \in Seq(Items) /\ Len(p1 \o p2) = k + t
        /\ \A i \in 1 .. k + t : (p1 \o p2)[i] = IF i <= k THEN p1[i] ELSE p2[i - k]
    BY <2>7, ConcatProperties
  <2>9. ASSUME NEW i \in 1 .. L PROVE (p1 \o p2)[i] = s[i]
    <3>1. CASE i <= k
      <4>1. i \in 1 .. k /\ i \in 1 .. k + t
        BY <2>3, <3>1
      <4> QED
        BY <2>6, <2>8, <3>1, <4>1
    <3>2. CASE ~(i <= k)
      <4>1. i - k \in 1 .. t /\ k + (i - k) = i /\ i \in 1 .. k + t
        BY <2>3, <3>2
      <4> QED
        BY <2>6, <2>8, <3>2, <4>1
    <3> QED
      BY <3>1, <3>2
  <2>10. p1 \o p2 = s
    BY <1>1, <2>3, <2>8, <2>9, SeqEqual DEF L
  <2> QED
    BY <2>2, <2>10 DEF r
<1> QED
  BY <1>4, <1>5 DEF r

-----------------------------------------------------------------------------
\* One call on the buffer is one change of the sequence.

LEMMA Modulo ==
    ASSUME NEW n \in Nat \ {0}, NEW x \in Int, -n <= x, x < 2 * n
    PROVE  x % n = Wrap(x, n)
BY Round DEF Wrap

LEMMA ImageAt ==
    ASSUME NEW n, NEW h, NEW s, NEW slot \in 0 .. n - 1
    PROVE  Image(n, h, s)[slot] =
              IF Wrap(slot - h, n) < Len(s) THEN s[Wrap(slot - h, n) + 1] ELSE undefined
BY DEF Image

\* A function that agrees with an image on every slot is that image.
Agrees(f, n, h, s) ==
    /\ f \in [0 .. n - 1 -> Items \union {undefined}]
    /\ \A slot \in 0 .. n - 1 : f[slot] = Image(n, h, s)[slot]

LEMMA ImageIs == ASSUME NEW n, NEW h, NEW s, NEW f, Agrees(f, n, h, s) PROVE f = Image(n, h, s)
BY DEF Agrees, Image

\* The same record with one slot written and one end moved.
Buffer(I, m, h, t) == [list |-> I, mask |-> m, head |-> h, tail |-> t]
WithTail(o, v, x, u) == [o EXCEPT !.list[v] = x, !.tail = u]
WithHead(o, v, x, u) == [o EXCEPT !.list[v] = x, !.head = u]
Put(I, v, x) == [I EXCEPT ![v] = x]

LEMMA Changed ==
    ASSUME NEW I, NEW m, NEW h, NEW t, NEW o, o = Buffer(I, m, h, t),
           NEW v, NEW x, NEW J, J = Put(I, v, x)
    PROVE  \A u : /\ WithTail(o, v, x, u) = Buffer(J, m, h, u)
                  /\ WithHead(o, v, x, u) = Buffer(J, m, u, t)
<1> SUFFICES ASSUME NEW u
             PROVE  /\ WithTail(o, v, x, u) = Buffer(J, m, h, u)
                    /\ WithHead(o, v, x, u) = Buffer(J, m, u, t)
  OBVIOUS
<1>1. WithTail(o, v, x, u) = [o EXCEPT !.list = J, !.tail = u]
  BY DEF Buffer, WithTail, Put
<1>2. WithHead(o, v, x, u) = [o EXCEPT !.list = J, !.head = u]
  BY DEF Buffer, WithHead, Put
<1>3. [o EXCEPT !.list = J, !.tail = u] = [[o EXCEPT !.list = J] EXCEPT !.tail = u]
  OBVIOUS
<1>4. [o EXCEPT !.list = J, !.head = u] = [[o EXCEPT !.list = J] EXCEPT !.head = u]
  OBVIOUS
<1>5. [o EXCEPT !.list = J] = Buffer(J, m, h, t)
  BY DEF Buffer
<1>6. [Buffer(J, m, h, t) EXCEPT !.tail = u] = Buffer(J, m, h, u)
  BY DEF Buffer
<1>7. [Buffer(J, m, h, t) EXCEPT !.head = u] = Buffer(J, m, u, t)
  BY DEF Buffer
<1> QED
  BY <1>1, <1>2, <1>3, <1>4, <1>5, <1>6, <1>7
Holds(o, s) == \E n, h : Fits(n, h, s) /\ o = Ring(n, h, s)

\* The buffer o of n slots is s from the slot h on, and may be full.
Written(o, n, h, s) ==
    /\ n \in Capacities /\ h \in 0 .. n - 1 /\ s \in Seq(Items)
    /\ Len(s) <= n /\ Len(s) <= MaxLen
    /\ o = Buffer(Image(n, h, s), n - 1, h, Wrap(h + Len(s), n))

\* A list that has become full is doubled, with its items from slot 0 on.
LEMMA GrowHolds ==
    ASSUME NEW o, NEW n, NEW h, NEW s, Written(o, n, h, s), 0 < Len(s)
    PROVE  Holds(IF isEmpty(o) THEN grow(o) ELSE o, s)
<1> DEFINE L == Len(s)
           I == Image(n, h, s)
           t == Wrap(h + L, n)
<1>1. /\ n \in Nat /\ n >= 4 /\ h \in Nat /\ h < n
      /\ L \in Nat /\ 0 < L /\ L <= n /\ L <= MaxLen /\ s \in Seq(Items)
  <2>1. n \in Nat /\ n >= 4
    BY CapacityOf DEF Written
  <2>2. L \in Nat
    BY LenProperties DEF Written
  <2> QED
    BY <2>1, <2>2 DEF Written
<1>2. o.list = I /\ o.mask = n - 1 /\ o.head = h /\ o.tail = t
  BY DEF Written, Buffer
<1> HIDE DEF L, I, t
<1>3. capacity(o) = n
  BY <1>1, <1>2 DEF capacity
<1>4. isEmpty(o) <=> L = n
  BY <1>1, <1>2 DEF isEmpty, t, Wrap
<1>5. CASE L < n
  <2>1. Fits(n, h, s) /\ o = Ring(n, h, s)
    BY <1>5 DEF Written, Fits, Ring, Buffer, L
  <2> QED
    BY <1>1, <1>4, <1>5, <2>1 DEF Holds
<1>6. CASE L = n
  <2> DEFINE m == 2 * n
             kept == [i \in 0 .. n - 1 |-> I[(h + i) % n]]
             f == [slot \in 0 .. m - 1 |-> IF slot < n THEN kept[slot] ELSE undefined]
             g == [list |-> f, mask |-> 2 * o.mask + 1, head |-> 0, tail |-> n]
  <2>1. grow(o) = g
    BY <1>2, <1>3 DEF grow
  <2>2. m \in Nat /\ n \in 0 .. m - 1 /\ 2 * o.mask + 1 = m - 1 /\ Wrap(0 + L, m) = n
    BY <1>1, <1>2, <1>6 DEF Wrap
  <2>3. ASSUME NEW i \in 0 .. n - 1 PROVE kept[i] = s[i + 1]
    <3> DEFINE w == Wrap(h + i, n)
    <3>1. h + i \in Int /\ -n <= h + i /\ h + i < 2 * n /\ n \in Nat \ {0}
      BY <1>1
    <3>2. (h + i) % n = w
      BY <3>1, Modulo
    <3>3. w \in 0 .. n - 1 /\ Wrap(w - h, n) = i
      BY <1>1 DEF Wrap
    <3> HIDE DEF w
    <3>4. I[w] = s[i + 1]
      BY <1>1, <1>6, <3>3, ImageAt DEF I, L
    <3> QED
      BY <3>2, <3>4
  <2> HIDE DEF kept
  <2>4. ASSUME NEW slot \in 0 .. m - 1
        PROVE  f[slot] = Image(m, 0, s)[slot]
    <3>1. Wrap(slot - 0, m) = slot
      BY <1>1 DEF Wrap
    <3>2. Image(m, 0, s)[slot] = IF slot < L THEN s[slot + 1] ELSE undefined
      BY <3>1, ImageAt DEF L
    <3>3. slot < n => slot \in 0 .. n - 1
      BY <1>1
    <3> QED
      BY <1>6, <2>3, <3>2, <3>3
  <2>5. f = Image(m, 0, s)
    BY <2>4 DEF Image
  <2> HIDE DEF f
  <2>6. g = Ring(m, 0, s)
    BY <2>2, <2>5 DEF Ring, L
  <2>7. m \in Capacities
    BY <1>1, <1>6, CapacityOf DEF Written
  <2>8. Fits(m, 0, s)
    BY <1>1, <1>6, <2>2, <2>7 DEF Fits, L
  <2> QED
    BY <1>4, <1>6, <2>1, <2>6, <2>8 DEF Holds
<1> QED
  BY <1>1, <1>5, <1>6

\* push appends an item.
LEMMA PushHolds ==
    ASSUME NEW o, NEW s, Holds(o, s), Len(s) < MaxLen, NEW x \in Items
    PROVE  Holds(push(o, x), Append(s, x))
<1> DEFINE L == Len(s)
           z == Append(s, x)
<1>1. PICK n, h : Fits(n, h, s) /\ o = Ring(n, h, s)
  BY DEF Holds
<1> DEFINE I == Image(n, h, s)
           t == Wrap(h + L, n)
<1>2. /\ n \in Nat /\ n >= 4 /\ h \in Nat /\ h < n /\ n \in Capacities
      /\ L \in Nat /\ L < n /\ MaxLen \in Nat /\ s \in Seq(Items)
  BY <1>1, FitsTypes DEF Fits
<1>3. /\ o = Buffer(I, n - 1, h, t) /\ o.tail = t
      /\ capacity(o) = n /\ t \in 0 .. n - 1
  BY <1>1, RingFields DEF Ring, Buffer
<1>4. /\ z \in Seq(Items) /\ Len(z) = L + 1
      /\ \A i \in 1 .. L : z[i] = s[i]
      /\ z[L + 1] = x
  BY <1>2, AppendProperties
<1>5. I \in [0 .. n - 1 -> Items \union {undefined}]
  BY <1>1, ImageSlots
<1> DEFINE u == (t + 1) % n
           J == Put(I, t, x)
           p == [o EXCEPT !.list[o.tail] = x, !.tail = (@ + 1) % capacity(o)]
<1>6. u = Wrap(h + (L + 1), n)
  <2>1. t + 1 \in Int /\ -n <= t + 1 /\ t + 1 < 2 * n /\ n \in Nat \ {0}
    BY <1>2, <1>3
  <2>2. u = Wrap(t + 1, n)
    BY <2>1, Modulo
  <2>3. Wrap(t + 1, n) = Wrap(h + (L + 1), n)
    BY <1>2 DEF Wrap
  <2> QED
    BY <2>2, <2>3
<1>7. p = Buffer(J, n - 1, h, u)
  <2> HIDE DEF I, t
  <2>1. p = WithTail(o, o.tail, x, (o.tail + 1) % capacity(o))
    BY DEF WithTail
  <2>2. p = WithTail(o, t, x, u)
    BY <1>3, <2>1
  <2> HIDE DEF p, u
  <2> QED
    BY <1>3, <2>2, Changed
<1>8. J = Image(n, h, z)
  <2>1. ASSUME NEW slot \in 0 .. n - 1 PROVE J[slot] = Image(n, h, z)[slot]
    <3> DEFINE k == Wrap(slot - h, n)
    <3>1. k \in 0 .. n - 1 /\ (slot = t <=> k = L)
      BY <1>2 DEF Wrap
    <3>2. Image(n, h, z)[slot] = IF k < L + 1 THEN z[k + 1] ELSE undefined
      BY <1>4, ImageAt
    <3>3. I[slot] = IF k < L THEN s[k + 1] ELSE undefined
      BY ImageAt
    <3>4. J[slot] = IF slot = t THEN x ELSE I[slot]
      BY <1>5 DEF Put
    <3> HIDE DEF k, I, J, t
    <3>5. k < L => k + 1 \in 1 .. L
      BY <1>2, <3>1
    <3> QED
      BY <1>2, <1>4, <3>1, <3>2, <3>3, <3>4, <3>5
  <2> HIDE DEF I, t
  <2>2. J \in [0 .. n - 1 -> Items \union {undefined}]
    BY <1>5 DEF Put
  <2> HIDE DEF J
  <2>3. \A slot \in 0 .. n - 1 : J[slot] = Image(n, h, z)[slot]
    BY <2>1
  <2>4. Agrees(J, n, h, z)
    BY <2>2, <2>3 DEF Agrees
  <2> QED
    BY <2>4, ImageIs
<1> HIDE DEF p, J, u, z, t, I
<1>9. Written(p, n, h, z) /\ 0 < Len(z)
  BY <1>2, <1>4, <1>6, <1>7, <1>8 DEF Written, L
<1>10. push(o, x) = IF isEmpty(p) THEN grow(p) ELSE p
  BY DEF push, p
<1> QED
  BY <1>9, <1>10, GrowHolds DEF z

\* What is known of a buffer that holds s.
LEMMA HoldsFacts ==
    ASSUME NEW n, NEW h, NEW s, NEW o, Fits(n, h, s), o = Ring(n, h, s)
    PROVE  /\ o = Buffer(Image(n, h, s), n - 1, h, Wrap(h + Len(s), n))
           /\ o.list = Image(n, h, s) /\ o.mask = n - 1
           /\ o.head = h /\ o.tail = Wrap(h + Len(s), n)
           /\ capacity(o) = n /\ length(o) = Len(s) /\ (isEmpty(o) <=> Len(s) = 0)
           /\ Image(n, h, s) \in [0 .. n - 1 -> Items \union {undefined}]
<1>1. o = Buffer(Image(n, h, s), n - 1, h, Wrap(h + Len(s), n))
  BY DEF Ring, Buffer
<1>2. /\ o.list = Image(n, h, s) /\ o.mask = n - 1
      /\ o.head = h /\ o.tail = Wrap(h + Len(s), n)
      /\ capacity(o) = n /\ length(o) = Len(s) /\ (isEmpty(o) <=> Len(s) = 0)
  BY RingFields
<1>3. Image(n, h, s) \in [0 .. n - 1 -> Items \union {undefined}]
  BY ImageSlots
<1> QED
  BY <1>1, <1>2, <1>3

\* unshift puts an item before the others.
LEMMA UnshiftHolds ==
    ASSUME NEW o, NEW s, Holds(o, s), Len(s) < MaxLen, NEW x \in Items
    PROVE  Holds(unshift(o, x), <<x>> \o s)
<1> DEFINE L == Len(s)
           z == <<x>> \o s
<1>1. PICK n, h : Fits(n, h, s) /\ o = Ring(n, h, s)
  BY DEF Holds
<1> DEFINE I == Image(n, h, s)
           t == Wrap(h + L, n)
           b == Wrap(h - 1, n)
           v == (o.head - 1) % capacity(o)
           J == Put(I, b, x)
           p == [o EXCEPT !.list[v] = x, !.head = v]
<1>2. /\ n \in Nat /\ n >= 4 /\ h \in Nat /\ h < n /\ n \in Capacities
      /\ L \in Nat /\ L < n /\ MaxLen \in Nat /\ s \in Seq(Items)
  BY <1>1, FitsTypes DEF Fits
<1>3. /\ o = Buffer(I, n - 1, h, t) /\ o.head = h /\ capacity(o) = n
      /\ I \in [0 .. n - 1 -> Items \union {undefined}]
  BY <1>1, HoldsFacts
<1>4. /\ z \in Seq(Items) /\ Len(z) = L + 1
      /\ z[1] = x
      /\ \A i \in 1 .. L : z[i + 1] = s[i]
  <2>1. <<x>> \in Seq(Items) /\ Len(<<x>>) = 1 /\ <<x>>[1] = x
    OBVIOUS
  <2>2. /\ z \in Seq(Items) /\ Len(z) = 1 + L
        /\ \A i \in 1 .. 1 + L : z[i] = IF i <= 1 THEN <<x>>[i] ELSE s[i - 1]
    <3> DEFINE e == <<x>>
    <3> HIDE DEF e
    <3>1. /\ e \o s \in Seq(Items) /\ Len(e \o s) = Len(e) + L
          /\ \A i \in 1 .. Len(e) + L : (e \o s)[i] = IF i <= Len(e) THEN e[i] ELSE s[i - Len(e)]
      BY <1>2, <2>1, ConcatProperties DEF e
    <3>2. Len(e) = 1
      BY <2>1 DEF e
    <3> QED
      BY <3>1, <3>2 DEF e
  <2> HIDE DEF z
  <2>3. z[1] = x
    BY <1>2, <2>1, <2>2
  <2>4. ASSUME NEW i \in 1 .. L PROVE z[i + 1] = s[i]
    <3>1. i + 1 \in 1 .. 1 + L /\ ~(i + 1 <= 1) /\ (i + 1) - 1 = i
      BY <1>2
    <3> QED
      BY <2>2, <3>1
  <2> QED
    BY <1>2, <2>2, <2>3, <2>4
<1>5. v = b /\ b \in 0 .. n - 1
  <2>1. h - 1 \in Int /\ -n <= h - 1 /\ h - 1 < 2 * n /\ n \in Nat \ {0}
    BY <1>2
  <2>2. (h - 1) % n = b
    BY <2>1, Modulo
  <2>3. b \in 0 .. n - 1
    BY <1>2 DEF Wrap
  <2> QED
    BY <1>3, <2>2, <2>3
<1>6. p = Buffer(J, n - 1, b, t)
  <2> HIDE DEF I, t, v, b
  <2>1. p = WithHead(o, v, x, v)
    BY DEF WithHead
  <2> HIDE DEF p
  <2>2. WithHead(o, b, x, b) = Buffer(J, n - 1, b, t)
    BY <1>3, Changed
  <2> QED
    BY <1>5, <2>1, <2>2
<1>7. J = Image(n, b, z)
  <2>1. ASSUME NEW slot \in 0 .. n - 1 PROVE J[slot] = Image(n, b, z)[slot]
    <3> DEFINE k == Wrap(slot - b, n)
               m == Wrap(slot - h, n)
    <3>1. k \in 0 .. n - 1 /\ (slot = b <=> k = 0) /\ (k > 0 => m = k - 1)
      BY <1>2 DEF Wrap
    <3> HIDE DEF z, b
    <3>2. Image(n, b, z)[slot] = IF k < L + 1 THEN z[k + 1] ELSE undefined
      BY <1>4, ImageAt
    <3>3. I[slot] = IF m < L THEN s[m + 1] ELSE undefined
      BY ImageAt
    <3>4. J[slot] = IF slot = b THEN x ELSE I[slot]
      BY <1>3 DEF Put
    <3> HIDE DEF k, m, I, J, b, z, L
    <3>5. k > 0 /\ k < L + 1 => k \in 1 .. L
      BY <1>2, <3>1
    <3>6. CASE k = 0
      BY <1>2, <1>4, <3>1, <3>2, <3>4, <3>6
    <3>7. CASE k # 0
      BY <1>2, <1>4, <3>1, <3>2, <3>3, <3>4, <3>5, <3>7
    <3> QED
      BY <3>6, <3>7
  <2> HIDE DEF I, b
  <2>2. J \in [0 .. n - 1 -> Items \union {undefined}]
    BY <1>3 DEF Put
  <2> HIDE DEF J
  <2>3. \A slot \in 0 .. n - 1 : J[slot] = Image(n, b, z)[slot]
    BY <2>1
  <2>4. Agrees(J, n, b, z)
    BY <2>2, <2>3 DEF Agrees
  <2> QED
    BY <2>4, ImageIs
<1>8. t = Wrap(b + (L + 1), n)
  BY <1>2 DEF Wrap
<1> HIDE DEF p, J, v, z, t, I, b
<1>9. Written(p, n, b, z) /\ 0 < Len(z)
  BY <1>2, <1>4, <1>5, <1>6, <1>7, <1>8 DEF Written, L
<1>10. unshift(o, x) = IF isEmpty(p) THEN grow(p) ELSE p
  BY DEF unshift, p, v
<1> QED
  BY <1>9, <1>10, GrowHolds DEF z

\* Halving the list: every item is in the first half.
LEMMA ShrinkHolds ==
    ASSUME NEW n, NEW h, NEW s, Fits(n, h, s), n >= 8, h + Len(s) <= n \div 4
    PROVE  Holds(shrink(Ring(n, h, s)), s)
<1> DEFINE L == Len(s)
           o == Ring(n, h, s)
           I == Image(n, h, s)
           m == n \div 2
           f == [slot \in 0 .. m - 1 |-> I[slot]]
<1>1. /\ n \in Nat /\ n >= 4 /\ h \in Nat /\ h < n /\ n \in Capacities
      /\ L \in Nat /\ L < n /\ MaxLen \in Nat /\ s \in Seq(Items) /\ L <= MaxLen
  BY FitsTypes DEF Fits
<1>2. m \in Nat /\ 2 * m = n /\ m \in Capacities /\ h + L < m
  <2>1. m \in Capacities /\ 2 * m = n
    BY <1>1, CapacityOf
  <2>2. m \in Nat /\ n \div 4 \in Nat /\ n \div 4 < m
    BY <1>1
  <2> QED
    BY <1>1, <2>1, <2>2
<1>3. o = Buffer(I, n - 1, h, h + L) /\ capacity(o) = n /\ o.list = I
  <2>1. Wrap(h + L, n) = h + L
    BY <1>1, <1>2 DEF Wrap
  <2> QED
    BY <2>1, HoldsFacts
<1> HIDE DEF o, m
<1>4. shrink(o) = [o EXCEPT !.list = f, !.mask = m - 1]
  BY <1>3 DEF shrink, m
<1>5. f = Image(m, h, s)
  <2>1. ASSUME NEW slot \in 0 .. m - 1 PROVE f[slot] = Image(m, h, s)[slot]
    <3> DEFINE k == Wrap(slot - h, n)
               j == Wrap(slot - h, m)
    <3>1. slot \in 0 .. n - 1
      BY <1>1, <1>2
    <3>2. k < L => k = j
      BY <1>1, <1>2 DEF Wrap
    <3>3. j < L => k = j
      BY <1>1, <1>2 DEF Wrap
    <3>4. f[slot] = IF k < L THEN s[k + 1] ELSE undefined
      BY <3>1, ImageAt
    <3>5. Image(m, h, s)[slot] = IF j < L THEN s[j + 1] ELSE undefined
      BY ImageAt
    <3> HIDE DEF k, j, f
    <3> QED
      BY <3>2, <3>3, <3>4, <3>5
  <2>2. f \in [0 .. m - 1 -> Items \union {undefined}]
    <3>1. I \in [0 .. n - 1 -> Items \union {undefined}]
      BY ImageSlots
    <3>2. \A slot \in 0 .. m - 1 : slot \in 0 .. n - 1
      BY <1>1, <1>2
    <3> HIDE DEF I
    <3> QED
      BY <3>1, <3>2
  <2> HIDE DEF f
  <2>3. \A slot \in 0 .. m - 1 : f[slot] = Image(m, h, s)[slot]
    BY <2>1
  <2>4. Agrees(f, m, h, s)
    BY <2>2, <2>3 DEF Agrees
  <2> QED
    BY <2>4, ImageIs
<1>6. Fits(m, h, s)
  BY <1>1, <1>2 DEF Fits
<1>7. Wrap(h + L, m) = h + L
  BY <1>1, <1>2 DEF Wrap
<1> HIDE DEF f, I
<1>8. shrink(o) = Buffer(f, m - 1, h, h + L)
  <2>1. [o EXCEPT !.list = f, !.mask = m - 1] = [[o EXCEPT !.list = f] EXCEPT !.mask = m - 1]
    OBVIOUS
  <2>2. [o EXCEPT !.list = f] = Buffer(f, n - 1, h, h + L)
    BY <1>3 DEF Buffer
  <2>3. [Buffer(f, n - 1, h, h + L) EXCEPT !.mask = m - 1] = Buffer(f, m - 1, h, h + L)
    BY DEF Buffer
  <2> QED
    BY <1>4, <2>1, <2>2, <2>3
<1>9. shrink(o) = Ring(m, h, s)
  BY <1>5, <1>7, <1>8 DEF Ring, Buffer
<1> QED
  BY <1>6, <1>9 DEF Holds, o

\* shift and pop pass the ends from before the call.
LEMMA MaybeShrinkHolds ==
    ASSUME NEW n, NEW h, NEW s, Fits(n, h, s), NEW head \in Nat, NEW tail \in Nat,
           head < 2 /\ tail > 1 /\ tail <= n \div 4 => h + Len(s) <= tail
    PROVE  Holds(maybeShrink(Ring(n, h, s), head, tail), s)
<1> DEFINE o == Ring(n, h, s)
           small == head < 2 /\ tail > MIN_SHRINK_TAIL /\ tail <= n \div 4
<1>1. n \in Nat /\ n >= 4 /\ h \in Nat /\ Len(s) \in Nat
  BY FitsTypes
<1>2. capacity(o) = n
  BY RingFields
<1> HIDE DEF o
<1>3. maybeShrink(o, head, tail) = IF small THEN shrink(o) ELSE o
  BY <1>2 DEF maybeShrink
<1>4. CASE small
  <2>1. MIN_SHRINK_TAIL \in Nat /\ MIN_SHRINK_TAIL >= 1
    BY BoundsAssumption
  <2>2. tail > 1 /\ n \div 4 \in Nat
    BY <1>1, <1>4, <2>1
  <2>3. h + Len(s) <= tail /\ tail <= n \div 4
    BY <1>4, <2>2
  <2>4. n >= 8
    BY <1>1, <2>2, <2>3
  <2>5. h + Len(s) <= n \div 4
    BY <1>1, <2>2, <2>3
  <2>6. Holds(shrink(o), s)
    BY <2>4, <2>5, ShrinkHolds DEF o
  <2> QED
    BY <1>3, <1>4, <2>6 DEF o
<1>5. CASE ~small
  <2>1. Holds(o, s)
    BY DEF Holds, o
  <2> HIDE DEF small
  <2> QED
    BY <1>3, <1>5, <2>1 DEF o
<1> QED
  BY <1>4, <1>5

\* shift takes the first item; the list may be halved.
LEMMA ShiftHolds ==
    ASSUME NEW o, NEW s, Holds(o, s), Len(s) # 0
    PROVE  Holds(shift(o), Tail(s)) /\ o.list[o.head] = Head(s) /\ ~isEmpty(o)
<1> DEFINE L == Len(s)
           z == Tail(s)
<1>1. PICK n, h : Fits(n, h, s) /\ o = Ring(n, h, s)
  BY DEF Holds
<1> DEFINE I == Image(n, h, s)
           t == Wrap(h + L, n)
           b == Wrap(h + 1, n)
           u == (o.head + 1) % capacity(o)
           J == Put(I, h, undefined)
           p == [o EXCEPT !.list[o.head] = undefined, !.head = (@ + 1) % capacity(o)]
<1>2. /\ n \in Nat /\ n >= 4 /\ h \in Nat /\ h < n /\ n \in Capacities
      /\ L \in Nat /\ L < n /\ L <= MaxLen /\ MaxLen \in Nat /\ s \in Seq(Items) /\ L > 0
  <2>1. /\ n \in Nat /\ n >= 4 /\ h \in Nat /\ h < n
        /\ L \in Nat /\ L < n /\ L <= MaxLen /\ MaxLen \in Nat /\ s \in Seq(Items)
        /\ s \in [1 .. L -> Items]
    BY <1>1, FitsTypes
  <2>2. n \in Capacities
    BY <1>1 DEF Fits
  <2> HIDE DEF L
  <2>3. L > 0
    BY <2>1 DEF L
  <2> QED
    BY <2>1, <2>2, <2>3
<1>3. /\ o = Buffer(I, n - 1, h, t) /\ o.head = h /\ o.tail = t /\ o.list = I /\ capacity(o) = n
      /\ I \in [0 .. n - 1 -> Items \union {undefined}] /\ ~isEmpty(o)
  BY <1>1, <1>2, HoldsFacts
<1>4. /\ z \in Seq(Items) /\ Len(z) = L - 1
      /\ \A i \in 1 .. L - 1 : z[i] = s[i + 1]
  <2>1. s # <<>>
    BY <1>2
  <2> QED
    BY <1>2, <2>1, HeadTailProperties
<1>5. u = b /\ b \in 0 .. n - 1
  <2>1. h + 1 \in Int /\ -n <= h + 1 /\ h + 1 < 2 * n /\ n \in Nat \ {0}
    BY <1>2
  <2>2. (h + 1) % n = b
    BY <2>1, Modulo
  <2>3. b \in 0 .. n - 1
    BY <1>2 DEF Wrap
  <2> QED
    BY <1>3, <2>2, <2>3
<1>6. p = Buffer(J, n - 1, b, t)
  <2> HIDE DEF I, t, u, b
  <2>1. p = WithHead(o, o.head, undefined, u)
    BY DEF WithHead, u
  <2> HIDE DEF p
  <2>2. WithHead(o, h, undefined, b) = Buffer(J, n - 1, b, t)
    BY <1>3, Changed
  <2>3. WithHead(o, o.head, undefined, u) = WithHead(o, h, undefined, b)
    BY <1>3, <1>5
  <2> QED
    BY <2>1, <2>2, <2>3
<1>7. J = Image(n, b, z)
  <2>1. ASSUME NEW slot \in 0 .. n - 1 PROVE J[slot] = Image(n, b, z)[slot]
    <3> DEFINE k == Wrap(slot - b, n)
               m == Wrap(slot - h, n)
    <3>1. m \in 0 .. n - 1 /\ (slot = h <=> m = 0) /\ k = (IF m = 0 THEN n - 1 ELSE m - 1)
      BY <1>2 DEF Wrap
    <3> HIDE DEF z, b
    <3>2. Image(n, b, z)[slot] = IF k < L - 1 THEN z[k + 1] ELSE undefined
      BY <1>4, ImageAt
    <3>3. I[slot] = IF m < L THEN s[m + 1] ELSE undefined
      BY ImageAt
    <3>4. J[slot] = IF slot = h THEN undefined ELSE I[slot]
      BY <1>3 DEF Put
    <3> HIDE DEF k, m, I, J, L
    <3>5. k < L - 1 => k + 1 \in 1 .. L - 1 /\ k = m - 1 /\ m # 0
      BY <1>2, <3>1
    <3>6. CASE m = 0
      BY <1>2, <3>1, <3>2, <3>4, <3>5, <3>6
    <3>7. CASE m # 0 /\ k < L - 1
      <4>1. z[k + 1] = s[m + 1]
        BY <1>2, <1>4, <3>1, <3>5, <3>7
      <4>2. m < L
        BY <1>2, <3>1, <3>7
      <4> QED
        BY <3>1, <3>2, <3>3, <3>4, <3>7, <4>1, <4>2
    <3>8. CASE m # 0 /\ ~(k < L - 1)
      <4>1. ~(m < L)
        BY <1>2, <3>1, <3>8
      <4> QED
        BY <3>1, <3>2, <3>3, <3>4, <3>8, <4>1
    <3> QED
      BY <3>6, <3>7, <3>8
  <2> HIDE DEF I, b
  <2>2. J \in [0 .. n - 1 -> Items \union {undefined}]
    BY <1>3 DEF Put
  <2> HIDE DEF J
  <2>3. \A slot \in 0 .. n - 1 : J[slot] = Image(n, b, z)[slot]
    BY <2>1
  <2>4. Agrees(J, n, b, z)
    BY <2>2, <2>3 DEF Agrees
  <2> QED
    BY <2>4, ImageIs
<1>8. t = Wrap(b + (L - 1), n) /\ t \in Nat
  BY <1>2 DEF Wrap
<1>9. h < 2 /\ t > 1 => b + (L - 1) <= t
  BY <1>2 DEF Wrap
<1>10. I[h] = Head(s)
  <2>1. h \in 0 .. n - 1 /\ Wrap(h - h, n) = 0
    BY <1>2 DEF Wrap
  <2>2. I[h] = s[0 + 1]
    BY <1>2, <2>1, ImageAt
  <2>3. Head(s) = s[1]
    BY <1>2
  <2> QED
    BY <2>2, <2>3
<1> HIDE DEF p, J, u, z, t, I, b
<1>11. Fits(n, b, z) /\ p = Ring(n, b, z)
  <2>1. Fits(n, b, z)
    BY <1>2, <1>4, <1>5 DEF Fits
  <2>2. p = Ring(n, b, z)
    BY <1>4, <1>6, <1>7, <1>8 DEF Ring, Buffer
  <2> QED
    BY <2>1, <2>2
<1>12. shift(o) = maybeShrink(p, h, t)
  BY <1>3 DEF shift, p
<1>13. Holds(maybeShrink(p, h, t), z)
  <2>1. h \in Nat /\ t \in Nat /\ (h < 2 /\ t > 1 /\ t <= n \div 4 => b + Len(z) <= t)
    BY <1>2, <1>4, <1>8, <1>9
  <2> QED
    BY <1>11, <2>1, MaybeShrinkHolds
<1> QED
  BY <1>3, <1>10, <1>12, <1>13 DEF z

\* pop takes the last item; the list may be halved.
LEMMA PopHolds ==
    ASSUME NEW o, NEW s, Holds(o, s), Len(s) # 0
    PROVE  Holds(pop(o), SubSeq(s, 1, Len(s) - 1))
<1> DEFINE L == Len(s)
           z == SubSeq(s, 1, L - 1)
<1>1. PICK n, h : Fits(n, h, s) /\ o = Ring(n, h, s)
  BY DEF Holds
<1> DEFINE I == Image(n, h, s)
           t == Wrap(h + L, n)
           b == Wrap(h + (L - 1), n)
           v == (o.tail - 1) % capacity(o)
           J == Put(I, b, undefined)
           p == [o EXCEPT !.list[v] = undefined, !.tail = v]
<1>2. /\ n \in Nat /\ n >= 4 /\ h \in Nat /\ h < n /\ n \in Capacities
      /\ L \in Nat /\ L < n /\ L <= MaxLen /\ MaxLen \in Nat /\ s \in Seq(Items) /\ L > 0
      /\ s \in [1 .. L -> Items]
  <2>1. /\ n \in Nat /\ n >= 4 /\ h \in Nat /\ h < n
        /\ L \in Nat /\ L < n /\ L <= MaxLen /\ MaxLen \in Nat /\ s \in Seq(Items)
        /\ s \in [1 .. L -> Items]
    BY <1>1, FitsTypes
  <2>2. n \in Capacities
    BY <1>1 DEF Fits
  <2> HIDE DEF L
  <2>3. L > 0
    BY <2>1 DEF L
  <2> QED
    BY <2>1, <2>2, <2>3
<1>3. /\ o = Buffer(I, n - 1, h, t) /\ o.head = h /\ o.tail = t /\ capacity(o) = n
      /\ I \in [0 .. n - 1 -> Items \union {undefined}] /\ ~isEmpty(o)
  BY <1>1, <1>2, HoldsFacts
<1>4. /\ z \in Seq(Items) /\ Len(z) = L - 1
      /\ \A i \in 1 .. L - 1 : z[i] = s[i]
  <2>1. 1 \in Int /\ L - 1 \in Int /\ \A i \in 1 .. L - 1 : s[i] \in Items
    BY <1>2
  <2>2. /\ z \in Seq(Items)
        /\ Len(z) = IF 1 <= L - 1 THEN (L - 1) - 1 + 1 ELSE 0
        /\ \A i \in 1 .. (L - 1) - 1 + 1 : z[i] = s[1 + i - 1]
    BY <2>1, SubSeqProperties
  <2> HIDE DEF z
  <2> HIDE DEF L
  <2>4. Len(z) = L - 1
    BY <1>2, <2>2
  <2>5. ASSUME NEW i \in 1 .. L - 1 PROVE z[i] = s[i]
    <3>1. i \in 1 .. (L - 1) - 1 + 1 /\ 1 + i - 1 = i
      BY <1>2
    <3> QED
      BY <2>2, <3>1
  <2> QED
    BY <2>2, <2>4, <2>5
<1>5. v = b /\ b \in 0 .. n - 1
  <2>1. t - 1 \in Int /\ -n <= t - 1 /\ t - 1 < 2 * n /\ n \in Nat \ {0}
    BY <1>2 DEF Wrap
  <2>2. (t - 1) % n = Wrap(t - 1, n)
    <3> HIDE DEF t
    <3> QED
      BY <2>1, Modulo
  <2>3. b \in 0 .. n - 1 /\ Wrap(t - 1, n) = b
    BY <1>2 DEF Wrap
  <2> QED
    BY <1>3, <2>2, <2>3
<1>6. p = Buffer(J, n - 1, h, b)
  <2> HIDE DEF I, t, v, b
  <2>1. p = WithTail(o, v, undefined, v)
    BY DEF WithTail
  <2> HIDE DEF p
  <2>2. WithTail(o, b, undefined, b) = Buffer(J, n - 1, h, b)
    BY <1>3, Changed
  <2> QED
    BY <1>5, <2>1, <2>2
<1>7. J = Image(n, h, z)
  <2>1. ASSUME NEW slot \in 0 .. n - 1 PROVE J[slot] = Image(n, h, z)[slot]
    <3> DEFINE m == Wrap(slot - h, n)
    <3>1. m \in 0 .. n - 1 /\ (slot = b <=> m = L - 1)
      BY <1>2 DEF Wrap
    <3> HIDE DEF z, b
    <3>2. Image(n, h, z)[slot] = IF m < L - 1 THEN z[m + 1] ELSE undefined
      BY <1>4, ImageAt
    <3>3. I[slot] = IF m < L THEN s[m + 1] ELSE undefined
      BY ImageAt
    <3>4. J[slot] = IF slot = b THEN undefined ELSE I[slot]
      BY <1>3 DEF Put
    <3> HIDE DEF m, I, J, L
    <3>5. CASE m < L - 1
      <4>1. m + 1 \in 1 .. L - 1 /\ m < L /\ m # L - 1
        BY <1>2, <3>1, <3>5
      <4> QED
        BY <1>4, <3>1, <3>2, <3>3, <3>4, <3>5, <4>1
    <3>6. CASE m = L - 1
      <4>1. ~(m < L - 1)
        BY <1>2, <3>6
      <4> QED
        BY <3>1, <3>2, <3>4, <3>6, <4>1
    <3>7. CASE m > L - 1
      <4>1. ~(m < L - 1) /\ ~(m < L) /\ m # L - 1
        BY <1>2, <3>1, <3>7
      <4> QED
        BY <3>1, <3>2, <3>3, <3>4, <4>1
    <3> QED
      BY <1>2, <3>1, <3>5, <3>6, <3>7
  <2> HIDE DEF I, b
  <2>2. J \in [0 .. n - 1 -> Items \union {undefined}]
    BY <1>3 DEF Put
  <2> HIDE DEF J
  <2>3. \A slot \in 0 .. n - 1 : J[slot] = Image(n, h, z)[slot]
    BY <2>1
  <2>4. Agrees(J, n, h, z)
    BY <2>2, <2>3 DEF Agrees
  <2> QED
    BY <2>4, ImageIs
<1>8. t \in Nat /\ (h < 2 /\ t > 1 => h + (L - 1) <= t)
  BY <1>2 DEF Wrap
<1> HIDE DEF p, J, z, t, I, v
<1>9. Fits(n, h, z) /\ p = Ring(n, h, z)
  <2>1. Fits(n, h, z)
    BY <1>2, <1>4 DEF Fits
  <2>2. p = Ring(n, h, z)
    BY <1>4, <1>6, <1>7 DEF Ring, Buffer
  <2> QED
    BY <2>1, <2>2
<1>10. pop(o) = maybeShrink(p, h, t)
  BY <1>3 DEF pop, p, v
<1>11. Holds(maybeShrink(p, h, t), z)
  <2>1. h \in Nat /\ t \in Nat /\ (h < 2 /\ t > 1 /\ t <= n \div 4 => h + Len(z) <= t)
    BY <1>2, <1>4, <1>8
  <2> QED
    BY <1>9, <2>1, MaybeShrinkHolds
<1> QED
  BY <1>10, <1>11 DEF z

-----------------------------------------------------------------------------
\* An index is that of an item, counted from the start.

Int32(i) == i \in Int \/ i = NotInt

LEMMA IndexOf ==
    ASSUME NEW o, NEW s, Holds(o, s), NEW i, Int32(i)
    PROVE  /\ Len(s) \in Nat /\ length(o) = Len(s) /\ s \in Seq(Items)
           /\ Within(o, i) <=> i # NotInt /\ i \in Int /\ i < Len(s) /\ i >= -Len(s)
           /\ FromStart(o, i) = IF i < 0 THEN i + Len(s) ELSE i
           /\ Within(o, i) => FromStart(o, i) \in 0 .. Len(s) - 1
<1>1. PICK n, h : Fits(n, h, s) /\ o = Ring(n, h, s)
  BY DEF Holds
<1>2. Len(s) \in Nat /\ s \in Seq(Items)
  BY <1>1, FitsTypes
<1>3. length(o) = Len(s)
  BY <1>1, HoldsFacts
<1>4. Within(o, i) <=> i # NotInt /\ i \in Int /\ i < Len(s) /\ i >= -Len(s)
  BY <1>3 DEF Within, Int32
<1>5. FromStart(o, i) = IF i < 0 THEN i + Len(s) ELSE i
  BY <1>3 DEF FromStart
<1>6. Within(o, i) => FromStart(o, i) \in 0 .. Len(s) - 1
  <2>1. CASE i \in Int /\ i < Len(s) /\ i >= -Len(s)
    BY <1>2, <1>5, <2>1
  <2> QED
    BY <1>4, <2>1
<1> QED
  BY <1>2, <1>3, <1>4, <1>5, <1>6

\* peekAt reads the item an index counts to, from either end.
LEMMA PeekHolds ==
    ASSUME NEW o, NEW s, Holds(o, s), NEW i, Int32(i)
    PROVE  peekAt(o, i) = IF Within(o, i) THEN s[FromStart(o, i) + 1] ELSE undefined
<1> DEFINE L == Len(s)
           at == FromStart(o, i)
<1> SUFFICES ASSUME Within(o, i) PROVE peekAt(o, i) = s[at + 1]
  BY DEF peekAt
<1>1. PICK n, h : Fits(n, h, s) /\ o = Ring(n, h, s)
  BY DEF Holds
<1>2. n \in Nat /\ n >= 4 /\ h \in Nat /\ h < n /\ L \in Nat /\ L < n
  BY <1>1, FitsTypes
<1>3. o.list = Image(n, h, s) /\ o.head = h /\ capacity(o) = n
  BY <1>1, HoldsFacts
<1>4. at \in 0 .. L - 1
  BY IndexOf
<1> HIDE DEF L, at
<1>5. (h + at) % n = Wrap(h + at, n)
  <2>1. h + at \in Int /\ -n <= h + at /\ h + at < 2 * n /\ n \in Nat \ {0}
    BY <1>2, <1>4
  <2> QED
    BY <2>1, Modulo
<1> DEFINE w == Wrap(h + at, n)
<1>6. w \in 0 .. n - 1 /\ Wrap(w - h, n) = at /\ at < L
  BY <1>2, <1>4 DEF Wrap
<1>7. peekAt(o, i) = Image(n, h, s)[w]
  BY <1>3, <1>5 DEF peekAt, at
<1> HIDE DEF w
<1>8. Image(n, h, s)[w] = s[at + 1]
  BY <1>6, ImageAt DEF L
<1> QED
  BY <1>7, <1>8

-----------------------------------------------------------------------------
\* What splice leaves, and what it takes.

LEMMA SplicedIs ==
    ASSUME NEW s \in Seq(Items), NEW i \in 0 .. Len(s), NEW c \in Nat, NEW new \in Seq(Items)
    PROVE  /\ Abstract!Spliced(s, i, c, new) \in Seq(Items)
           /\ Len(Abstract!Spliced(s, i, c, new)) =
                 i + Len(new) + (IF i + c < Len(s) THEN Len(s) - (i + c) ELSE 0)
           /\ \A k \in 1 .. i : Abstract!Spliced(s, i, c, new)[k] = s[k]
           /\ \A k \in 1 .. Len(s) - (i + c) :
                 Abstract!Spliced(s, i, c, new)[i + Len(new) + k] = s[i + c + k]
<1> DEFINE L == Len(s)
           M == Len(new)
           a == SubSeq(s, 1, i)
           b == SubSeq(s, i + c + 1, L)
           ab == a \o new
           r == IF i + c < L THEN L - (i + c) ELSE 0
<1>1. L \in Nat /\ M \in Nat /\ s \in [1 .. L -> Items]
  BY LenProperties
<1> HIDE DEF L, M
<1>2. i \in 0 .. L
  BY DEF L
<1>3. a \in Seq(Items) /\ Len(a) = i /\ \A k \in 1 .. i : a[k] = s[k]
  <2>1. 1 \in Int /\ i \in Int /\ \A k \in 1 .. i : s[k] \in Items
    BY <1>1, <1>2
  <2>2. /\ a \in Seq(Items)
        /\ Len(a) = IF 1 <= i THEN i - 1 + 1 ELSE 0
        /\ \A k \in 1 .. i - 1 + 1 : a[k] = s[1 + k - 1]
    BY <2>1, SubSeqProperties
  <2> HIDE DEF a
  <2>3. Len(a) = i
    BY <1>2, <2>2
  <2>4. ASSUME NEW k \in 1 .. i PROVE a[k] = s[k]
    <3>1. k \in 1 .. i - 1 + 1 /\ 1 + k - 1 = k
      BY <1>2
    <3> QED
      BY <2>2, <3>1
  <2> QED
    BY <2>2, <2>3, <2>4
<1>4. b \in Seq(Items) /\ Len(b) = r /\ \A k \in 1 .. L - (i + c) : b[k] = s[i + c + k]
  <2> DEFINE m == i + c + 1
  <2>1. m \in Int /\ L \in Int /\ \A k \in m .. L : s[k] \in Items
    BY <1>1, <1>2
  <2>2. /\ b \in Seq(Items)
        /\ Len(b) = IF m <= L THEN L - m + 1 ELSE 0
        /\ \A k \in 1 .. L - m + 1 : b[k] = s[m + k - 1]
    BY <2>1, SubSeqProperties
  <2> HIDE DEF b
  <2>3. Len(b) = r
    BY <1>1, <1>2, <2>2
  <2>4. ASSUME NEW k \in 1 .. L - (i + c) PROVE b[k] = s[i + c + k]
    <3>1. k \in 1 .. L - m + 1 /\ m + k - 1 = i + c + k
      BY <1>1, <1>2
    <3> QED
      BY <2>2, <3>1
  <2> QED
    BY <2>2, <2>3, <2>4
<1>5. Abstract!Spliced(s, i, c, new) = ab \o b
  BY DEF Abstract!Spliced, L
<1> HIDE DEF a, b
<1>6. /\ ab \in Seq(Items) /\ Len(ab) = i + M
      /\ \A k \in 1 .. i : ab[k] = s[k]
  <2>1. /\ ab \in Seq(Items) /\ Len(ab) = Len(a) + Len(new)
        /\ \A k \in 1 .. Len(a) + Len(new) : ab[k] = IF k <= Len(a) THEN a[k] ELSE new[k - Len(a)]
    BY <1>3, ConcatProperties
  <2> HIDE DEF ab
  <2>2. Len(ab) = i + M
    BY <1>3, <2>1 DEF M
  <2>3. ASSUME NEW k \in 1 .. i PROVE ab[k] = s[k]
    <3>1. k \in 1 .. Len(a) + Len(new) /\ k <= Len(a)
      BY <1>1, <1>2, <1>3 DEF M
    <3> QED
      BY <1>3, <2>1, <3>1
  <2> QED
    BY <2>1, <2>2, <2>3
<1> HIDE DEF ab
<1> DEFINE z == ab \o b
<1>7. /\ z \in Seq(Items) /\ Len(z) = i + M + r
      /\ \A k \in 1 .. i + M + r : z[k] = IF k <= i + M THEN ab[k] ELSE b[k - (i + M)]
  <2>1. /\ z \in Seq(Items) /\ Len(z) = Len(ab) + Len(b)
        /\ \A k \in 1 .. Len(ab) + Len(b) : z[k] = IF k <= Len(ab) THEN ab[k] ELSE b[k - Len(ab)]
    BY <1>4, <1>6, ConcatProperties
  <2> HIDE DEF z, r
  <2>2. Len(ab) = i + M /\ Len(b) = r
    BY <1>4, <1>6
  <2> QED
    BY <2>1, <2>2
<1> HIDE DEF z
<1>8. r \in Nat
  BY <1>1, <1>2
<1>9. ASSUME NEW k \in 1 .. i PROVE z[k] = s[k]
  <2>1. k \in 1 .. i + M + r /\ k <= i + M
    <3> HIDE DEF r
    <3> QED
      BY <1>1, <1>2, <1>8
  <2> QED
    BY <1>6, <1>7, <2>1
<1>10. ASSUME NEW k \in 1 .. L - (i + c) PROVE z[i + M + k] = s[i + c + k]
  <2>1. r = L - (i + c)
    BY <1>1, <1>2
  <2> HIDE DEF r
  <2>2. i + M + k \in 1 .. i + M + r /\ ~(i + M + k <= i + M) /\ (i + M + k) - (i + M) = k
    BY <1>1, <1>2, <2>1
  <2> QED
    BY <1>4, <1>7, <2>2
<1> QED
  BY <1>5, <1>7, <1>9, <1>10 DEF z, L, M

LEMMA CutOne ==
    ASSUME NEW s \in Seq(Items), NEW i \in 0 .. Len(s) - 1
    PROVE  Abstract!Cut(s, i, 1) = <<s[i + 1]>>
<1> DEFINE L == Len(s)
           z == SubSeq(s, i + 1, i + 1)
<1>1. L \in Nat /\ s \in [1 .. L -> Items] /\ i \in 0 .. L - 1
  BY LenProperties
<1>2. Abstract!Cut(s, i, 1) = SubSeq(s, i + 1, IF i + 1 > L THEN L ELSE i + 1)
  BY DEF Abstract!Cut
<1> HIDE DEF L
<1>3. ~(i + 1 > L) /\ i + 1 \in 1 .. L
  BY <1>1
<1>4. z \in Seq(Items) /\ Len(z) = 1 /\ z[1] = s[i + 1]
  <2> DEFINE e == i + 1
  <2>1. e \in Int /\ \A k \in e .. e : s[k] \in Items
    BY <1>1
  <2> HIDE DEF e
  <2> DEFINE y == SubSeq(s, e, e)
  <2>2. /\ y \in Seq(Items)
        /\ Len(y) = IF e <= e THEN e - e + 1 ELSE 0
        /\ \A k \in 1 .. e - e + 1 : y[k] = s[e + k - 1]
    BY <2>1, SubSeqProperties
  <2> HIDE DEF y
  <2>3. e <= e /\ e - e + 1 = 1 /\ e + 1 - 1 = e
    BY <2>1
  <2>4. 1 \in 1 .. e - e + 1
    BY <2>3
  <2>5. Len(y) = 1 /\ y[1] = s[e]
    BY <2>2, <2>3, <2>4
  <2> QED
    BY <2>2, <2>5 DEF y, e
<1> HIDE DEF z
<1>6. z = <<s[i + 1]>>
  <2>1. <<s[i + 1]>> \in Seq(Items) /\ Len(<<s[i + 1]>>) = 1 /\ <<s[i + 1]>>[1] = s[i + 1]
    BY <1>1, <1>3
  <2> QED
    BY <1>4, <2>1
<1> QED
  BY <1>2, <1>3, <1>6 DEF z

WithListTail(o, J, u) == [o EXCEPT !.list = J, !.tail = u]
WithListHead(o, J, u) == [o EXCEPT !.list = J, !.head = u]

LEMMA Replaced ==
    ASSUME NEW I, NEW m, NEW h, NEW t, NEW o, o = Buffer(I, m, h, t), NEW J, NEW u
    PROVE  /\ WithListTail(o, J, u) = Buffer(J, m, h, u)
           /\ WithListHead(o, J, u) = Buffer(J, m, u, t)
<1>1. WithListTail(o, J, u) = [[o EXCEPT !.list = J] EXCEPT !.tail = u]
  BY DEF WithListTail
<1>2. WithListHead(o, J, u) = [[o EXCEPT !.list = J] EXCEPT !.head = u]
  BY DEF WithListHead
<1>3. [o EXCEPT !.list = J] = Buffer(J, m, h, t)
  BY DEF Buffer
<1>4. [Buffer(J, m, h, t) EXCEPT !.tail = u] = Buffer(J, m, h, u)
  BY DEF Buffer
<1>5. [Buffer(J, m, h, t) EXCEPT !.head = u] = Buffer(J, m, u, t)
  BY DEF Buffer
<1> QED
  BY <1>1, <1>2, <1>3, <1>4, <1>5

\* The slots of the items before a hole, or behind it, move by one.
MovedFront(I, n, h, at) ==
    [slot \in DOMAIN I |->
        IF (slot - h) % n = 0 THEN undefined
        ELSE IF (slot - h) % n <= at THEN I[(slot - 1) % n] ELSE I[slot]]
MovedBack(I, n, h, at, L) ==
    [slot \in DOMAIN I |->
        IF (slot - h) % n = L - 1 THEN undefined
        ELSE IF (slot - h) % n \in at .. L - 2 THEN I[(slot + 1) % n] ELSE I[slot]]

\* z is s without the item at the offset at.
Lacks(z, s, at) ==
    /\ z \in Seq(Items) /\ Len(z) = Len(s) - 1
    /\ \A k \in 1 .. at : z[k] = s[k]
    /\ \A k \in at + 1 .. Len(s) - 1 : z[k] = s[k + 1]

\* Moving the items before the hole by one removes the item at it.
LEMMA MovedFrontIs ==
    ASSUME NEW n, NEW h, NEW s, Fits(n, h, s), NEW at \in 0 .. Len(s) - 1,
           NEW z, Lacks(z, s, at)
    PROVE  MovedFront(Image(n, h, s), n, h, at) = Image(n, Wrap(h + 1, n), z)
<1> DEFINE L == Len(s)
           I == Image(n, h, s)
           b == Wrap(h + 1, n)
           J == MovedFront(I, n, h, at)
<1>1. n \in Nat /\ n >= 4 /\ h \in Nat /\ h < n /\ L \in Nat /\ L < n
  BY FitsTypes
<1>2. I \in [0 .. n - 1 -> Items \union {undefined}]
  BY ImageSlots
<1>3. /\ z \in Seq(Items) /\ Len(z) = L - 1
      /\ \A k \in 1 .. at : z[k] = s[k]
      /\ \A k \in at + 1 .. L - 1 : z[k] = s[k + 1]
  BY DEF Lacks
<1>at. at \in 0 .. L - 1
  OBVIOUS
<1>4. ASSUME NEW slot \in 0 .. n - 1
      PROVE  /\ (slot - h) % n = Wrap(slot - h, n)
             /\ (slot - 1) % n = Wrap(slot - 1, n) /\ Wrap(slot - 1, n) \in 0 .. n - 1
  <2>1. slot - h \in Int /\ -n <= slot - h /\ slot - h < 2 * n /\ n \in Nat \ {0}
    BY <1>1
  <2>2. slot - 1 \in Int /\ -n <= slot - 1 /\ slot - 1 < 2 * n
    BY <1>1
  <2>3. Wrap(slot - 1, n) \in 0 .. n - 1
    BY <1>1 DEF Wrap
  <2> QED
    BY <2>1, <2>2, <2>3, Modulo
<1>5. J \in [0 .. n - 1 -> Items \union {undefined}]
  <2> HIDE DEF I
  <2>1. DOMAIN I = 0 .. n - 1
    BY <1>2
  <2>2. ASSUME NEW slot \in 0 .. n - 1
        PROVE  (IF (slot - h) % n = 0 THEN undefined
                ELSE IF (slot - h) % n <= at THEN I[(slot - 1) % n] ELSE I[slot])
               \in Items \union {undefined}
    BY <1>2, <1>4
  <2> QED
    BY <2>1, <2>2 DEF MovedFront
<1>6. ASSUME NEW slot \in 0 .. n - 1 PROVE J[slot] = Image(n, b, z)[slot]
  <2> DEFINE m == Wrap(slot - h, n)
             k == Wrap(slot - b, n)
             w == Wrap(slot - 1, n)
  <2>1. m \in 0 .. n - 1 /\ k = (IF m = 0 THEN n - 1 ELSE m - 1)
    BY <1>1 DEF Wrap
  <2>2. w \in 0 .. n - 1 /\ (m # 0 => Wrap(w - h, n) = m - 1)
    BY <1>1 DEF Wrap
  <2>3. (slot - h) % n = m /\ (slot - 1) % n = w
    BY <1>4
  <2> HIDE DEF w, m, b
  <2>4. Image(n, b, z)[slot] = IF k < L - 1 THEN z[k + 1] ELSE undefined
    BY <1>3, ImageAt
  <2>5. I[slot] = IF m < L THEN s[m + 1] ELSE undefined
    BY ImageAt DEF m
  <2>6. I[w] = IF Wrap(w - h, n) < L THEN s[Wrap(w - h, n) + 1] ELSE undefined
    BY <2>2, ImageAt
  <2> HIDE DEF I, k, L
  <2>7. J[slot] = IF m = 0 THEN undefined ELSE IF m <= at THEN I[w] ELSE I[slot]
    <3>1. slot \in DOMAIN I
      BY <1>2
    <3> QED
      BY <2>3, <3>1 DEF MovedFront
  <2> HIDE DEF J
  <2>8. CASE m = 0
    <3>1. ~(k < L - 1)
      BY <1>1, <2>1, <2>8
    <3> QED
      BY <2>4, <2>7, <2>8, <3>1
  <2>9. CASE m # 0 /\ m <= at
    <3>1. m \in 1 .. at /\ k = m - 1 /\ k < L - 1 /\ m - 1 < L /\ k + 1 = m /\ m - 1 + 1 = m
      BY <1>1, <1>at, <2>1, <2>9
    <3>2. J[slot] = s[m]
      BY <2>2, <2>6, <2>7, <2>9, <3>1
    <3>3. Image(n, b, z)[slot] = z[m]
      BY <2>4, <3>1
    <3> QED
      BY <1>3, <3>1, <3>2, <3>3
  <2>10. CASE m > at /\ m < L
    <3>1. m \in at + 1 .. L - 1 /\ k = m - 1 /\ k < L - 1 /\ k + 1 = m /\ m # 0 /\ ~(m <= at)
      BY <1>1, <1>at, <2>1, <2>10
    <3>2. J[slot] = s[m + 1]
      BY <2>5, <2>7, <2>10, <3>1
    <3>3. Image(n, b, z)[slot] = z[m]
      BY <2>4, <3>1
    <3> QED
      BY <1>3, <3>1, <3>2, <3>3
  <2>11. CASE m >= L
    <3>1. ~(m < L) /\ m # 0 /\ ~(m <= at) /\ ~(k < L - 1)
      BY <1>1, <1>at, <2>1, <2>11
    <3> QED
      BY <2>4, <2>5, <2>7, <3>1
  <2> QED
    BY <1>1, <1>at, <2>1, <2>8, <2>9, <2>10, <2>11
<1> HIDE DEF J, b, I
<1>7. \A slot \in 0 .. n - 1 : J[slot] = Image(n, b, z)[slot]
  BY <1>6
<1>8. Agrees(J, n, b, z)
  BY <1>5, <1>7 DEF Agrees
<1> QED
  BY <1>8, ImageIs DEF J, b, I

\* Moving the items behind the hole by one removes the item at it.
LEMMA MovedBackIs ==
    ASSUME NEW n, NEW h, NEW s, Fits(n, h, s), NEW at \in 0 .. Len(s) - 1,
           NEW z, Lacks(z, s, at)
    PROVE  MovedBack(Image(n, h, s), n, h, at, Len(s)) = Image(n, h, z)
<1> DEFINE L == Len(s)
           I == Image(n, h, s)
           J == MovedBack(I, n, h, at, L)
<1>1. n \in Nat /\ n >= 4 /\ h \in Nat /\ h < n /\ L \in Nat /\ L < n
  BY FitsTypes
<1>2. I \in [0 .. n - 1 -> Items \union {undefined}]
  BY ImageSlots
<1>3. /\ z \in Seq(Items) /\ Len(z) = L - 1
      /\ \A k \in 1 .. at : z[k] = s[k]
      /\ \A k \in at + 1 .. L - 1 : z[k] = s[k + 1]
  BY DEF Lacks
<1>at. at \in 0 .. L - 1
  OBVIOUS
<1>4. ASSUME NEW slot \in 0 .. n - 1
      PROVE  /\ (slot - h) % n = Wrap(slot - h, n)
             /\ (slot + 1) % n = Wrap(slot + 1, n) /\ Wrap(slot + 1, n) \in 0 .. n - 1
  <2>1. slot - h \in Int /\ -n <= slot - h /\ slot - h < 2 * n /\ n \in Nat \ {0}
    BY <1>1
  <2>2. slot + 1 \in Int /\ -n <= slot + 1 /\ slot + 1 < 2 * n
    BY <1>1
  <2>3. Wrap(slot + 1, n) \in 0 .. n - 1
    BY <1>1 DEF Wrap
  <2> QED
    BY <2>1, <2>2, <2>3, Modulo
<1>5. J \in [0 .. n - 1 -> Items \union {undefined}]
  <2> HIDE DEF I, L
  <2>1. DOMAIN I = 0 .. n - 1
    BY <1>2
  <2>2. ASSUME NEW slot \in 0 .. n - 1
        PROVE  (IF (slot - h) % n = L - 1 THEN undefined
                ELSE IF (slot - h) % n \in at .. L - 2 THEN I[(slot + 1) % n] ELSE I[slot])
               \in Items \union {undefined}
    BY <1>2, <1>4
  <2> QED
    BY <2>1, <2>2 DEF MovedBack
<1>6. ASSUME NEW slot \in 0 .. n - 1 PROVE J[slot] = Image(n, h, z)[slot]
  <2> DEFINE m == Wrap(slot - h, n)
             w == Wrap(slot + 1, n)
  <2>1. m \in 0 .. n - 1
    BY <1>1 DEF Wrap
  <2>2. w \in 0 .. n - 1 /\ (m # n - 1 => Wrap(w - h, n) = m + 1)
    BY <1>1 DEF Wrap
  <2>3. (slot - h) % n = m /\ (slot + 1) % n = w
    BY <1>4
  <2> HIDE DEF w, m
  <2>4. Image(n, h, z)[slot] = IF m < L - 1 THEN z[m + 1] ELSE undefined
    BY <1>3, ImageAt DEF m
  <2>5. I[slot] = IF m < L THEN s[m + 1] ELSE undefined
    BY ImageAt DEF m
  <2>6. I[w] = IF Wrap(w - h, n) < L THEN s[Wrap(w - h, n) + 1] ELSE undefined
    BY <2>2, ImageAt
  <2> HIDE DEF I, L
  <2>7. J[slot] = IF m = L - 1 THEN undefined ELSE IF m \in at .. L - 2 THEN I[w] ELSE I[slot]
    <3>1. slot \in DOMAIN I
      BY <1>2
    <3> QED
      BY <2>3, <3>1 DEF MovedBack
  <2> HIDE DEF J
  <2>8. CASE m = L - 1
    <3>1. ~(m < L - 1)
      BY <1>1, <2>1, <2>8
    <3> QED
      BY <2>4, <2>7, <2>8, <3>1
  <2>9. CASE m < at
    <3>1. m + 1 \in 1 .. at /\ m < L - 1 /\ m < L /\ m # L - 1 /\ m \notin at .. L - 2
      BY <1>1, <1>at, <2>1, <2>9
    <3>2. J[slot] = s[m + 1]
      BY <2>5, <2>7, <3>1
    <3>3. Image(n, h, z)[slot] = z[m + 1]
      BY <2>4, <3>1
    <3> QED
      BY <1>3, <3>1, <3>2, <3>3
  <2>10. CASE m >= at /\ m < L - 1
    <3>1. m + 1 \in at + 1 .. L - 1 /\ m # L - 1 /\ m \in at .. L - 2 /\ m # n - 1 /\ m + 1 < L
      BY <1>1, <1>at, <2>1, <2>10
    <3>2. J[slot] = s[m + 1 + 1]
      BY <2>2, <2>6, <2>7, <3>1
    <3>3. Image(n, h, z)[slot] = z[m + 1]
      BY <2>4, <2>10, <3>1
    <3> QED
      BY <1>3, <3>1, <3>2, <3>3
  <2>11. CASE m >= L
    <3>1. ~(m < L) /\ m # L - 1 /\ m \notin at .. L - 2 /\ ~(m < L - 1)
      BY <1>1, <1>at, <2>1, <2>11
    <3> QED
      BY <2>4, <2>5, <2>7, <3>1
  <2> QED
    BY <1>1, <1>at, <2>1, <2>8, <2>9, <2>10, <2>11
<1> HIDE DEF J, I, L
<1>7. \A slot \in 0 .. n - 1 : J[slot] = Image(n, h, z)[slot]
  BY <1>6
<1>8. Agrees(J, n, h, z)
  BY <1>5, <1>7 DEF Agrees
<1> QED
  BY <1>8, ImageIs DEF J, I, L

\* removeOne takes the item out on the shorter side.
LEMMA RemoveOneHolds ==
    ASSUME NEW o, NEW s, Holds(o, s), NEW i, Int32(i), Within(o, i)
    PROVE  Holds(removeOne(o, i), Abstract!Spliced(s, FromStart(o, i), 1, <<>>))
<1> DEFINE L == Len(s)
           at == FromStart(o, i)
           z == Abstract!Spliced(s, at, 1, <<>>)
<1>1. PICK n, h : Fits(n, h, s) /\ o = Ring(n, h, s)
  BY DEF Holds
<1> DEFINE I == Image(n, h, s)
           t == Wrap(h + L, n)
           F == MovedFront(o.list, capacity(o), o.head, at)
           B == MovedBack(o.list, capacity(o), o.head, at, length(o))
<1>2. /\ n \in Nat /\ n >= 4 /\ h \in Nat /\ h < n
      /\ L \in Nat /\ L < n /\ L <= MaxLen /\ MaxLen \in Nat /\ s \in Seq(Items)
  BY <1>1, FitsTypes
<1>3. /\ o = Buffer(I, n - 1, h, t) /\ o.head = h /\ o.tail = t /\ o.list = I
      /\ capacity(o) = n /\ length(o) = L
  BY <1>1, HoldsFacts
<1>4. at \in 0 .. L - 1
  BY IndexOf
<1>5. Lacks(z, s, at)
  <2>1. /\ z \in Seq(Items)
        /\ Len(z) = at + Len(<<>>) + (IF at + 1 < L THEN L - (at + 1) ELSE 0)
        /\ \A k \in 1 .. at : z[k] = s[k]
        /\ \A k \in 1 .. L - (at + 1) : z[at + Len(<<>>) + k] = s[at + 1 + k]
    <3> DEFINE e == <<>>
    <3>1. at \in 0 .. L /\ 1 \in Nat /\ e \in Seq(Items)
      BY <1>2, <1>4
    <3> HIDE DEF e, at
    <3>2. /\ Abstract!Spliced(s, at, 1, e) \in Seq(Items)
          /\ Len(Abstract!Spliced(s, at, 1, e)) =
                at + Len(e) + (IF at + 1 < Len(s) THEN Len(s) - (at + 1) ELSE 0)
          /\ \A k \in 1 .. at : Abstract!Spliced(s, at, 1, e)[k] = s[k]
          /\ \A k \in 1 .. Len(s) - (at + 1) :
                Abstract!Spliced(s, at, 1, e)[at + Len(e) + k] = s[at + 1 + k]
      BY <1>2, <3>1, SplicedIs
    <3> QED
      BY <3>2 DEF e
  <2> HIDE DEF z, at, L
  <2>2. Len(<<>>) = 0
    OBVIOUS
  <2>3. Len(z) = L - 1
    BY <1>2, <1>4, <2>1, <2>2
  <2>4. ASSUME NEW k \in at + 1 .. L - 1 PROVE z[k] = s[k + 1]
    <3>1. k - at \in 1 .. L - (at + 1) /\ at + 0 + (k - at) = k /\ at + 1 + (k - at) = k + 1
      BY <1>2, <1>4
    <3>2. z[at + 0 + (k - at)] = s[at + 1 + (k - at)]
      BY <2>1, <2>2, <3>1
    <3> QED
      BY <3>1, <3>2
  <2> QED
    BY <2>1, <2>3, <2>4 DEF Lacks, L
<1>6. z \in Seq(Items) /\ Len(z) = L - 1
  BY <1>5 DEF Lacks
<1> HIDE DEF at, z, I, t
<1>7. removeOne(o, i) =
        IF 2 * at < length(o) THEN WithListHead(o, F, (o.head + 1) % capacity(o))
        ELSE WithListTail(o, B, (o.tail - 1) % capacity(o))
  BY DEF removeOne, at, WithListHead, WithListTail, MovedFront, MovedBack
<1>8. CASE 2 * at < length(o)
  <2> DEFINE b == Wrap(h + 1, n)
  <2>1. (h + 1) % n = b
    <3>1. h + 1 \in Int /\ -n <= h + 1 /\ h + 1 < 2 * n /\ n \in Nat \ {0}
      BY <1>2
    <3> QED
      BY <3>1, Modulo
  <2>2. b \in 0 .. n - 1 /\ Wrap(b + (L - 1), n) = t
    BY <1>2, <1>4 DEF Wrap, t
  <2>3. F = Image(n, b, z)
    <3>1. MovedFront(Image(n, h, s), n, h, at) = Image(n, Wrap(h + 1, n), z)
      BY <1>1, <1>4, <1>5, MovedFrontIs
    <3> QED
      BY <1>3, <3>1 DEF I
  <2> HIDE DEF b, F
  <2>4. WithListHead(o, F, (o.head + 1) % capacity(o)) = Buffer(F, n - 1, b, t)
    BY <1>3, <2>1, Replaced
  <2>5. Fits(n, b, z)
    BY <1>1, <1>2, <1>6, <2>2 DEF Fits
  <2>6. removeOne(o, i) = Ring(n, b, z)
    <3>1. removeOne(o, i) = Buffer(F, n - 1, b, t)
      BY <1>7, <1>8, <2>4
    <3> QED
      BY <1>6, <2>2, <2>3, <3>1 DEF Ring, Buffer
  <2> QED
    BY <2>5, <2>6 DEF Holds, z, at
<1>9. CASE ~(2 * at < length(o))
  <2> DEFINE b == Wrap(h + (L - 1), n)
  <2>1. (t - 1) % n = b
    <3>1. t - 1 \in Int /\ -n <= t - 1 /\ t - 1 < 2 * n /\ n \in Nat \ {0}
      BY <1>2 DEF Wrap, t
    <3>2. (t - 1) % n = Wrap(t - 1, n)
      BY <3>1, Modulo
    <3>3. Wrap(t - 1, n) = b
      BY <1>2, <1>4 DEF Wrap, t
    <3> QED
      BY <3>2, <3>3
  <2>2. B = Image(n, h, z)
    <3>1. MovedBack(Image(n, h, s), n, h, at, Len(s)) = Image(n, h, z)
      BY <1>1, <1>4, <1>5, MovedBackIs
    <3> QED
      BY <1>3, <3>1 DEF I
  <2> HIDE DEF b, B
  <2>3. WithListTail(o, B, (o.tail - 1) % capacity(o)) = Buffer(B, n - 1, h, b)
    BY <1>3, <2>1, Replaced
  <2>4. Fits(n, h, z)
    BY <1>1, <1>2, <1>6 DEF Fits
  <2>5. removeOne(o, i) = Ring(n, h, z)
    <3>1. removeOne(o, i) = Buffer(B, n - 1, h, b)
      BY <1>7, <1>9, <2>3
    <3> QED
      BY <1>6, <2>2, <3>1 DEF Ring, Buffer, b
  <2> QED
    BY <2>4, <2>5 DEF Holds, z, at
<1> QED
  BY <1>8, <1>9

\* The list made by remove and splice is long enough for every item.
LEMMA RebuildHolds ==
    ASSUME NEW o, NEW s, Holds(o, s), NEW z \in Seq(Items), Len(z) <= MaxLen
    PROVE  Holds(rebuild(o, z), z)
<1>1. PICK n, h : Fits(n, h, s) /\ o = Ring(n, h, s)
  BY DEF Holds
<1> DEFINE fits == {c \in Capacities : c >= capacity(o) /\ c > Len(z)}
           m == CHOOSE c \in fits : \A d \in fits : c <= d
           L == Len(z)
<1>2. capacity(o) = n /\ n \in Capacities
  BY <1>1, HoldsFacts DEF Fits
<1>3. L \in Nat /\ L <= MaxLen
  BY LenProperties
<1>4. m \in Capacities /\ m \in Nat /\ m >= 4 /\ m > L
  <2>1. fits \subseteq Nat /\ fits \subseteq Capacities
    BY CapacityOf
  <2>2. fits # {}
    BY <1>2, <1>3, CapacityOf
  <2>3. \A c \in fits : c > L
    OBVIOUS
  <2> HIDE DEF fits
  <2>4. \E c \in fits : \A d \in fits : c <= d
    BY <2>1, <2>2, Least
  <2>5. m \in fits
    BY <2>4
  <2> HIDE DEF m
  <2> QED
    BY <2>1, <2>3, <2>5, CapacityOf
<1> DEFINE f == [slot \in 0 .. m - 1 |-> IF slot < Len(z) THEN z[slot + 1] ELSE undefined]
<1>5. rebuild(o, z) = Buffer(f, m - 1, 0, L)
  BY DEF rebuild, Buffer
<1> HIDE DEF m, L
<1>6. Wrap(0 + L, m) = L
  BY <1>3, <1>4 DEF Wrap
<1>7. f = Image(m, 0, z)
  <2>1. ASSUME NEW slot \in 0 .. m - 1 PROVE Wrap(slot - 0, m) = slot
    BY <1>4 DEF Wrap
  <2> QED
    BY <2>1 DEF Image
<1> HIDE DEF f
<1>8. Fits(m, 0, z)
  BY <1>3, <1>4 DEF Fits, L
<1>9. rebuild(o, z) = Ring(m, 0, z)
  BY <1>5, <1>6, <1>7 DEF Ring, Buffer, L
<1> QED
  BY <1>8, <1>9 DEF Holds

\* clear leaves a list of the same capacity.
LEMMA ClearHolds ==
    ASSUME NEW o, NEW s, Holds(o, s)
    PROVE  Holds([o EXCEPT !.list = Blank(capacity(o)), !.head = 0, !.tail = 0], <<>>)
<1>1. PICK n, h : Fits(n, h, s) /\ o = Ring(n, h, s)
  BY DEF Holds
<1> DEFINE I == Image(n, h, s)
           t == Wrap(h + Len(s), n)
           e == <<>>
<1>2. n \in Nat /\ n >= 4 /\ n \in Capacities /\ MaxLen \in Nat
  <2>1. n \in Nat /\ n >= 4 /\ MaxLen \in Nat
    BY <1>1, FitsTypes
  <2> QED
    BY <1>1, <2>1 DEF Fits
<1>3. o = Buffer(I, n - 1, h, t) /\ capacity(o) = n
  BY <1>1, HoldsFacts
<1>4. e \in Seq(Items) /\ Len(e) = 0
  OBVIOUS
<1> HIDE DEF I, t, e
<1>5. Blank(n) = Image(n, 0, e)
  <2>1. ASSUME NEW slot \in 0 .. n - 1 PROVE ~(Wrap(slot - 0, n) < 0)
    BY <1>2 DEF Wrap
  <2> QED
    BY <1>4, <2>1 DEF Blank, Image
<1> DEFINE J == Blank(n)
<1> HIDE DEF J
<1>6. [o EXCEPT !.list = J, !.head = 0, !.tail = 0] = Buffer(J, n - 1, 0, 0)
  <2>1. [o EXCEPT !.list = J, !.head = 0, !.tail = 0] = [WithListHead(o, J, 0) EXCEPT !.tail = 0]
    BY DEF WithListHead
  <2>2. WithListHead(o, J, 0) = Buffer(J, n - 1, 0, t)
    BY <1>3, Replaced
  <2>3. [Buffer(J, n - 1, 0, t) EXCEPT !.tail = 0] = Buffer(J, n - 1, 0, 0)
    BY DEF Buffer
  <2> QED
    BY <2>1, <2>2, <2>3
<1>7. Wrap(0 + 0, n) = 0
  BY <1>2 DEF Wrap
<1>8. Buffer(J, n - 1, 0, 0) = Ring(n, 0, e)
  BY <1>4, <1>5, <1>7 DEF Ring, Buffer, J
<1>9. Fits(n, 0, e)
  BY <1>2, <1>4 DEF Fits
<1> QED
  BY <1>3, <1>6, <1>8, <1>9 DEF Holds, J, e

\* A new queue has four slots.
LEMMA InitHolds == Init => Holds(q, <<>>)
<1> SUFFICES ASSUME Init PROVE Holds(q, <<>>)
  OBVIOUS
<1> DEFINE e == <<>>
<1>1. 4 \in Capacities
  <2>1. 2 \in 2 .. MaxLen + 2
    BY BoundsAssumption
  <2> QED
    BY <2>1, PowersGrow DEF Capacities
<1>2. e \in Seq(Items) /\ Len(e) = 0 /\ MaxLen \in Nat
  BY BoundsAssumption
<1> HIDE DEF e
<1>3. Blank(4) = Image(4, 0, e)
  <2>1. ASSUME NEW slot \in 0 .. 4 - 1 PROVE ~(Wrap(slot - 0, 4) < 0)
    BY DEF Wrap
  <2> QED
    BY <1>2, <2>1 DEF Blank, Image
<1>4. q = Ring(4, 0, e)
  <2>1. Wrap(0 + 0, 4) = 0
    BY DEF Wrap
  <2> QED
    BY <1>2, <1>3, <2>1 DEF Init, Ring
<1>5. Fits(4, 0, e)
  BY <1>1, <1>2 DEF Fits
<1> QED
  BY <1>4, <1>5 DEF Holds, e

-----------------------------------------------------------------------------
\* The ring implements the double-ended queue.

\* The buffer of the ring holds, from its head on, the array it gives.
RingHolds == Holds(q, toArray(q))

\* toArray gives the sequence the buffer holds.
LEMMA HeldArray == ASSUME NEW o, NEW s, Holds(o, s) PROVE toArray(o) = s
BY ToArray DEF Holds

LEMMA HeldLength ==
    ASSUME NEW o, NEW s, Holds(o, s)
    PROVE  /\ s \in Seq(Items) /\ Len(s) \in Nat /\ Len(s) <= MaxLen /\ length(o) = Len(s)
           /\ isEmpty(o) <=> Len(s) = 0
BY FitsTypes, HoldsFacts DEF Holds

\* What a call does to the sequence, and what it returns.
Does(s, value) == Holds(q', s) /\ ret' = value

LEMMA DoesArray ==
    ASSUME NEW s, NEW value, Does(s, value)
    PROVE  toArray(q)' = s /\ ret' = value /\ RingHolds'
<1>1. toArray(q') = s
  BY HeldArray DEF Does
<1>2. toArray(q)' = toArray(q')
  BY DEF toArray, capacity
<1>3. RingHolds' = Holds(q', toArray(q'))
  BY <1>2 DEF RingHolds
<1> QED
  BY <1>1, <1>2, <1>3 DEF Does


\* From here on: each action of the ring is the action of the same name of the
\* queue, and keeps the invariant.
LEMMA PushDoes ==
    ASSUME RingHolds, NEW x \in Items, Push(x)
    PROVE  RingHolds' /\ Abstract!Push(x)
<1> DEFINE s == toArray(q)
           z == Append(s, x)
<1>1. Holds(q, s) /\ s \in Seq(Items) /\ Len(s) \in Nat /\ length(q) = Len(s)
  BY HeldLength DEF RingHolds
<1>2. Holds(q', z)
  <2>1. Len(s) < MaxLen /\ q' = push(q, x)
    BY <1>1 DEF Push
  <2> HIDE DEF s
  <2> QED
    BY <1>1, <2>1, PushHolds
<1>3. ret' = Abstract!Number(Len(s) + 1)
  <2> HIDE DEF s
  <2>1. Len(z) = Len(s) + 1
    BY <1>1
  <2>2. length(q') = Len(z)
    BY <1>2, HeldLength
  <2>3. length(q)' = length(q')
    BY DEF length, capacity
  <2> QED
    BY <2>1, <2>2, <2>3 DEF Push
<1>4. toArray(q)' = z /\ RingHolds'
  BY <1>2, DoesArray DEF Does
<1> QED
  BY <1>3, <1>4 DEF Abstract!Push

LEMMA UnshiftDoes ==
    ASSUME RingHolds, NEW x \in Items, Unshift(x)
    PROVE  RingHolds' /\ Abstract!Unshift(x)
<1> DEFINE s == toArray(q)
           z == <<x>> \o s
<1>1. Holds(q, s) /\ s \in Seq(Items) /\ Len(s) \in Nat /\ length(q) = Len(s)
  BY HeldLength DEF RingHolds
<1>2. Holds(q', z)
  <2>1. Len(s) < MaxLen /\ q' = unshift(q, x)
    BY <1>1 DEF Unshift
  <2> HIDE DEF s
  <2> QED
    BY <1>1, <2>1, UnshiftHolds
<1>3. ret' = Abstract!Number(Len(s) + 1)
  <2> HIDE DEF s
  <2>1. Len(z) = Len(s) + 1
    BY <1>1
  <2>2. length(q') = Len(z)
    BY <1>2, HeldLength
  <2>3. length(q)' = length(q')
    BY DEF length, capacity
  <2> QED
    BY <2>1, <2>2, <2>3 DEF Unshift
<1>4. toArray(q)' = z /\ RingHolds'
  BY <1>2, DoesArray DEF Does
<1> QED
  BY <1>3, <1>4 DEF Abstract!Unshift

\* A call that changes nothing.
LEMMA SameDoes ==
    ASSUME RingHolds, q' = q PROVE RingHolds' /\ UNCHANGED toArray(q)
BY DEF RingHolds, toArray, Holds, capacity

LEMMA ShiftDoes == ASSUME RingHolds, Shift PROVE RingHolds' /\ Abstract!Shift
<1> DEFINE s == toArray(q)
<1>1. /\ Holds(q, s) /\ s \in Seq(Items) /\ Len(s) \in Nat
      /\ isEmpty(q) <=> Len(s) = 0
  BY HeldLength DEF RingHolds
<1>2. CASE Len(s) = 0
  <2>1. q' = q /\ ret' = Abstract!Undefined
    BY <1>1, <1>2 DEF Shift, shift, Abstract!Undefined
  <2>2. RingHolds' /\ UNCHANGED toArray(q)
    BY <2>1, SameDoes
  <2>3. s = <<>>
    <3> HIDE DEF s
    <3> QED
      BY <1>1, <1>2
  <2> QED
    BY <2>1, <2>2, <2>3 DEF Abstract!Shift
<1>3. CASE Len(s) # 0
  <2>1. Holds(shift(q), Tail(s)) /\ q.list[q.head] = Head(s) /\ ~isEmpty(q)
    <3> HIDE DEF s
    <3> QED
      BY <1>1, <1>3, ShiftHolds
  <2>2. Holds(q', Tail(s)) /\ ret' = Abstract!Value(Head(s))
    BY <2>1 DEF Shift
  <2>3. toArray(q)' = Tail(s) /\ RingHolds'
    BY <2>2, DoesArray DEF Does
  <2>4. s # <<>>
    BY <1>3
  <2> QED
    BY <2>2, <2>3, <2>4 DEF Abstract!Shift
<1> QED
  BY <1>2, <1>3

LEMMA PopDoes == ASSUME RingHolds, Pop PROVE RingHolds' /\ Abstract!Pop
<1> DEFINE s == toArray(q)
<1>1. /\ Holds(q, s) /\ s \in Seq(Items) /\ Len(s) \in Nat
      /\ isEmpty(q) <=> Len(s) = 0
  BY HeldLength DEF RingHolds
<1>2. /\ Int32(-1)
      /\ Within(q, -1) <=> Len(s) # 0
      /\ FromStart(q, -1) = Len(s) - 1
  <2>1. Int32(-1) /\ -1 \in Int /\ -1 # NotInt
    BY UndefinedAssumption DEF Int32
  <2> HIDE DEF s
  <2>2. /\ Within(q, -1) <=> -1 # NotInt /\ -1 \in Int /\ -1 < Len(s) /\ -1 >= -Len(s)
        /\ FromStart(q, -1) = IF -1 < 0 THEN -1 + Len(s) ELSE -1
    BY <1>1, <2>1, IndexOf
  <2>3. Within(q, -1) <=> Len(s) # 0
    BY <1>1, <2>1, <2>2
  <2>4. FromStart(q, -1) = Len(s) - 1
    BY <1>1, <2>2
  <2> QED
    BY <2>1, <2>3, <2>4
<1>3. peekAt(q, -1) = IF Within(q, -1) THEN s[FromStart(q, -1) + 1] ELSE undefined
  <2> HIDE DEF s
  <2> QED
    BY <1>1, <1>2, PeekHolds
<1>4. CASE Len(s) = 0
  <2>1. q' = q /\ ret' = Abstract!Undefined
    BY <1>1, <1>2, <1>3, <1>4 DEF Pop, pop, Abstract!Undefined
  <2>2. RingHolds' /\ UNCHANGED toArray(q)
    BY <2>1, SameDoes
  <2>3. s = <<>>
    <3> HIDE DEF s
    <3> QED
      BY <1>1, <1>4
  <2> QED
    BY <2>1, <2>2, <2>3 DEF Abstract!Pop
<1>5. CASE Len(s) # 0
  <2> DEFINE z == SubSeq(s, 1, Len(s) - 1)
  <2>1. Holds(q', z)
    <3>1. q' = pop(q)
      BY DEF Pop
    <3> HIDE DEF s
    <3> QED
      BY <1>1, <1>5, <3>1, PopHolds
  <2>2. ret' = Abstract!Value(s[Len(s)])
    <3>1. ret' = Abstract!Value(peekAt(q, -1))
      BY DEF Pop
    <3> HIDE DEF s
    <3>2. peekAt(q, -1) = s[Len(s) - 1 + 1]
      BY <1>2, <1>3, <1>5
    <3>3. Len(s) - 1 + 1 = Len(s)
      BY <1>1
    <3> QED
      BY <3>1, <3>2, <3>3
  <2>3. toArray(q)' = z /\ RingHolds'
    BY <2>1, DoesArray DEF Does
  <2>4. s # <<>>
    BY <1>5
  <2> QED
    BY <2>2, <2>3, <2>4 DEF Abstract!Pop
<1> QED
  BY <1>4, <1>5

\* The two count and test an index in the same way.
LEMMA SameIndex ==
    ASSUME RingHolds, NEW i, Int32(i)
    PROVE  /\ Within(q, i) <=> Abstract!Within(i)
           /\ FromStart(q, i) = Abstract!FromStart(i)
<1>1. Holds(q, toArray(q)) /\ length(q) = Len(toArray(q))
  BY HeldLength DEF RingHolds
<1> QED
  BY <1>1 DEF Within, Abstract!Within, FromStart, Abstract!FromStart

LEMMA IndexIsInt32 == ASSUME NEW i \in Abstract!Indices PROVE Int32(i)
BY DEF Abstract!Indices, Int32

LEMMA PeekAtDoes ==
    ASSUME RingHolds, NEW i \in Abstract!Indices, PeekAt(i)
    PROVE  RingHolds' /\ Abstract!PeekAt(i)
<1>1. Int32(i)
  BY IndexIsInt32
<1>2. peekAt(q, i) = IF Within(q, i) THEN toArray(q)[FromStart(q, i) + 1] ELSE undefined
  BY <1>1, PeekHolds DEF RingHolds
<1>3. RingHolds' /\ UNCHANGED toArray(q)
  BY SameDoes DEF PeekAt
<1> QED
  BY <1>1, <1>2, <1>3, SameIndex DEF PeekAt, Abstract!PeekAt, Abstract!Undefined

LEMMA RemoveOneDoes ==
    ASSUME RingHolds, NEW i \in Abstract!Indices, RemoveOne(i)
    PROVE  RingHolds' /\ Abstract!RemoveOne(i)
<1> DEFINE s == toArray(q)
           at == FromStart(q, i)
           z == Abstract!Spliced(s, at, 1, <<>>)
<1>1. Int32(i) /\ Holds(q, s)
  BY IndexIsInt32 DEF RingHolds
<1>2. peekAt(q, i) = IF Within(q, i) THEN s[at + 1] ELSE undefined
  BY <1>1, PeekHolds
<1>3. at = Abstract!FromStart(i) /\ (Within(q, i) <=> Abstract!Within(i))
  BY <1>1, SameIndex
<1>4. CASE Within(q, i)
  <2>1. Holds(q', z)
    <3>1. q' = removeOne(q, i)
      BY DEF RemoveOne
    <3> HIDE DEF s
    <3> QED
      BY <1>1, <1>4, <3>1, RemoveOneHolds
  <2>2. toArray(q)' = z /\ RingHolds'
    BY <2>1, DoesArray DEF Does
  <2>3. ret' = Abstract!Value(s[at + 1])
    BY <1>2, <1>4 DEF RemoveOne
  <2> QED
    BY <1>3, <1>4, <2>2, <2>3 DEF Abstract!RemoveOne
<1>5. CASE ~Within(q, i)
  <2>1. q' = q /\ ret' = Abstract!Undefined
    BY <1>2, <1>5 DEF RemoveOne, removeOne, Abstract!Undefined
  <2>2. RingHolds' /\ UNCHANGED toArray(q)
    BY <2>1, SameDoes
  <2> QED
    BY <1>3, <1>5, <2>1, <2>2 DEF Abstract!RemoveOne
<1> QED
  BY <1>4, <1>5

\* What remove does to a buffer that holds s; splice without items calls it.
CountOf(count) == IF count = undefined THEN 1 ELSE count

LEMMA RemoveHolds ==
    ASSUME NEW o, NEW i, NEW count, NEW s, Holds(o, s), s = toArray(o), Int32(i),
           count \in Int \union {undefined}
    PROVE  /\ ~(Within(o, i) /\ CountOf(count) >= 1) =>
                 remove(o, i, count) = [q |-> o, ret |-> Abstract!Undefined]
           /\ Within(o, i) /\ CountOf(count) >= 1 =>
                 /\ Holds(remove(o, i, count).q,
                          Abstract!Spliced(s, FromStart(o, i), CountOf(count), <<>>))
                 /\ remove(o, i, count).ret =
                       Abstract!Array(Abstract!Cut(s, FromStart(o, i), CountOf(count)))
<1> DEFINE at == FromStart(o, i)
           c == CountOf(count)
<1>1. (~Within(o, i) \/ (count # undefined /\ count < 1)) <=> ~(Within(o, i) /\ c >= 1)
  BY DEF CountOf
<1>2. ASSUME ~(Within(o, i) /\ c >= 1)
      PROVE  remove(o, i, count) = [q |-> o, ret |-> Abstract!Undefined]
  BY <1>1, <1>2 DEF remove
<1>3. ASSUME Within(o, i), c >= 1
      PROVE  /\ Holds(remove(o, i, count).q, Abstract!Spliced(s, at, c, <<>>))
             /\ remove(o, i, count).ret = Abstract!Array(Abstract!Cut(s, at, c))
  <2>1. at \in 0 .. Len(s) - 1 /\ s \in Seq(Items) /\ Len(s) \in Nat /\ length(o) = Len(s)
    BY <1>3, IndexOf
  <2>2. ~(~Within(o, i) \/ (count # undefined /\ count < 1))
    BY <1>1, <1>3
  <2>3. CASE count \in {1, undefined}
    <3>1. c = 1
      BY <2>3 DEF CountOf
    <3>2. /\ remove(o, i, count).q = removeOne(o, at)
          /\ remove(o, i, count).ret = Abstract!Array(<<peekAt(o, at)>>)
      BY <2>2, <2>3 DEF remove
    <3> HIDE DEF at
    <3>3. Int32(at) /\ at # NotInt /\ at \in Int /\ at >= 0 /\ at < Len(s) /\ at >= -Len(s)
      BY <2>1, UndefinedAssumption DEF Int32
    <3>4. Within(o, at) /\ FromStart(o, at) = at
      BY <2>1, <3>3, IndexOf
    <3>5. peekAt(o, at) = s[at + 1]
      BY <3>3, <3>4, PeekHolds
    <3>6. Abstract!Cut(s, at, 1) = <<s[at + 1]>>
      BY <2>1, CutOne
    <3>7. Holds(removeOne(o, at), Abstract!Spliced(s, at, 1, <<>>))
      BY <3>3, <3>4, RemoveOneHolds
    <3> QED
      BY <3>1, <3>2, <3>5, <3>6, <3>7
  <2>4. CASE count \notin {1, undefined}
    <3>1. c = count /\ count \in Nat
      BY <1>3, <2>4 DEF CountOf
    <3> DEFINE z == Abstract!Spliced(s, at, count, <<>>)
    <3>2. /\ remove(o, i, count).q = rebuild(o, z)
          /\ remove(o, i, count).ret = Abstract!Array(Abstract!Cut(s, at, count))
      BY <2>2, <2>4 DEF remove
    <3>3. z \in Seq(Items) /\ Len(z) <= MaxLen
      <4> DEFINE e == <<>>
      <4>1. at \in 0 .. Len(s) /\ e \in Seq(Items) /\ Len(e) = 0
        BY <2>1
      <4> HIDE DEF e, at
      <4>2. /\ Abstract!Spliced(s, at, count, e) \in Seq(Items)
            /\ Len(Abstract!Spliced(s, at, count, e)) =
                  at + Len(e) + (IF at + count < Len(s) THEN Len(s) - (at + count) ELSE 0)
        BY <2>1, <3>1, <4>1, SplicedIs
      <4>3. Len(s) <= MaxLen /\ MaxLen \in Nat
        BY HeldLength, BoundsAssumption
      <4>4. Len(Abstract!Spliced(s, at, count, e)) <= MaxLen
        BY <2>1, <3>1, <4>1, <4>2, <4>3
      <4> QED
        BY <4>2, <4>4 DEF e
    <3> HIDE DEF z
    <3>4. Holds(rebuild(o, z), z)
      BY <3>3, RebuildHolds
    <3> QED
      BY <3>1, <3>2, <3>4 DEF z
  <2> QED
    BY <2>3, <2>4
<1> QED
  BY <1>2, <1>3

\* remove as an action of the queue, for every index.
LEMMA RemoveChanges ==
    ASSUME RingHolds, NEW i, Int32(i), NEW count \in Counts,
           q' = remove(q, i, count).q, ret' = remove(q, i, count).ret
    PROVE  RingHolds' /\ Abstract!Remove(i, count)
<1> DEFINE s == toArray(q)
           at == FromStart(q, i)
           c == CountOf(count)
           z == Abstract!Spliced(s, at, c, <<>>)
<1>1. Holds(q, s) /\ count \in Int \union {undefined}
  BY ArgumentsAssumption DEF RingHolds
<1>2. at = Abstract!FromStart(i) /\ (Within(q, i) <=> Abstract!Within(i))
  BY SameIndex
<1>3. CASE Within(q, i) /\ c >= 1
  <2>1. Holds(q', z) /\ ret' = Abstract!Array(Abstract!Cut(s, at, c))
    BY <1>1, <1>3, RemoveHolds
  <2>2. toArray(q)' = z /\ RingHolds'
    BY <2>1, DoesArray DEF Does
  <2> QED
    BY <1>2, <1>3, <2>1, <2>2 DEF Abstract!Remove, CountOf
<1>4. CASE ~(Within(q, i) /\ c >= 1)
  <2>1. remove(q, i, count) = [q |-> q, ret |-> Abstract!Undefined]
    BY <1>1, <1>4, RemoveHolds
  <2>2. q' = q /\ ret' = Abstract!Undefined
    BY <2>1
  <2>3. RingHolds' /\ UNCHANGED toArray(q)
    BY <2>2, SameDoes
  <2> QED
    BY <1>2, <1>4, <2>2, <2>3 DEF Abstract!Remove, CountOf
<1> QED
  BY <1>3, <1>4

LEMMA RemoveDoes ==
    ASSUME RingHolds, NEW i \in Abstract!Indices, NEW count \in Counts, Remove(i, count)
    PROVE  RingHolds' /\ Abstract!Remove(i, count)
BY IndexIsInt32, RemoveChanges DEF Remove

\* splice rebuilds the list, or is remove when there is nothing to insert.
LEMMA SpliceDoes ==
    ASSUME RingHolds, NEW i \in Abstract!Indices, NEW count \in Counts, NEW new \in Inserts,
           Splice(i, count, new)
    PROVE  RingHolds' /\ Abstract!Splice(i, count, new)
<1> DEFINE s == toArray(q)
           L == Len(s)
           at == FromStart(q, i)
           c == CountOf(count)
           z == Abstract!Spliced(s, at, c, new)
           reject == i = NotInt \/ at > L \/ (new # <<>> /\ (at < 0 \/ c < 0))
<1>1. /\ Holds(q, s) /\ s \in Seq(Items) /\ L \in Nat /\ length(q) = L
      /\ count \in Int \union {undefined} /\ new \in Seq(Items)
  BY HeldLength, ArgumentsAssumption DEF RingHolds
<1>2. at = Abstract!FromStart(i)
  BY IndexIsInt32, SameIndex
<1>3. q' = splice(q, i, count, new).q /\ ret' = splice(q, i, count, new).ret
  BY DEF Splice
<1>4. L + Len(new) <= MaxLen
  BY <1>1 DEF Splice
<1>5. CASE reject
  <2>1. splice(q, i, count, new) = [q |-> q, ret |-> Abstract!Undefined]
    <3>1. CASE i = NotInt \/ at > L
      BY <1>1, <3>1 DEF splice
    <3>2. CASE ~(i = NotInt \/ at > L)
      <4>1. new # <<>> /\ (at < 0 \/ c < 0)
        BY <1>5, <3>2
      <4> QED
        BY <1>1, <3>2, <4>1 DEF splice, CountOf
    <3> QED
      BY <3>1, <3>2
  <2>2. q' = q /\ ret' = Abstract!Undefined
    BY <1>3, <2>1
  <2>3. RingHolds' /\ UNCHANGED s
    BY <2>2, SameDoes
  <2> QED
    BY <1>2, <1>5, <2>2, <2>3 DEF Abstract!Splice, CountOf
<1>6. CASE ~reject /\ new = <<>>
  <2>1. splice(q, i, count, new) = remove(q, at, count)
    BY <1>1, <1>6 DEF splice
  <2>2. Int32(at)
    <3>1. i \in Int
      BY <1>6, IndexIsInt32 DEF Int32
    <3> QED
      BY <1>1, <3>1 DEF FromStart, Int32
  <2>3. RingHolds' /\ Abstract!Remove(at, count)
    BY <1>3, <2>1, <2>2, RemoveChanges
  <2> QED
    BY <1>2, <1>6, <2>3 DEF Abstract!Splice, CountOf
<1>7. CASE ~reject /\ new # <<>>
  <2>1. /\ splice(q, i, count, new).q = rebuild(q, z)
        /\ splice(q, i, count, new).ret =
              IF c > 0 /\ at >= L THEN Abstract!Undefined
              ELSE Abstract!Array(Abstract!Cut(s, at, c))
    BY <1>1, <1>7 DEF splice, CountOf
  <2>2. at \in 0 .. L /\ c \in Nat
    <3>1. i \in Int
      BY <1>7, IndexIsInt32 DEF Int32
    <3>2. at \in Int /\ c \in Int
      BY <1>1, <3>1 DEF FromStart, CountOf
    <3> HIDE DEF at, c, L
    <3> QED
      BY <1>1, <1>7, <3>2
  <2>3. Holds(q', z)
    <3> HIDE DEF s, at, c, L
    <3>1. /\ z \in Seq(Items)
          /\ Len(z) = at + Len(new) + (IF at + c < L THEN L - (at + c) ELSE 0)
      BY <1>1, <2>2, SplicedIs DEF L
    <3>2. Len(z) <= MaxLen
      <4>1. Len(new) \in Nat /\ MaxLen \in Nat
        BY <1>1, BoundsAssumption
      <4> QED
        BY <1>1, <1>4, <2>2, <3>1, <4>1
    <3> HIDE DEF z
    <3> QED
      BY <1>1, <1>3, <2>1, <3>1, <3>2, RebuildHolds
  <2>4. toArray(q)' = z /\ RingHolds'
    BY <2>3, DoesArray DEF Does
  <2>5. ret' = IF c > 0 /\ at = L THEN Abstract!Undefined
               ELSE Abstract!Array(Abstract!Cut(s, at, c))
    <3>1. at >= L <=> at = L
      <4> HIDE DEF at, L
      <4> QED
        BY <1>1, <2>2
    <3> QED
      BY <1>3, <2>1, <3>1
  <2> QED
    BY <1>2, <1>7, <2>4, <2>5 DEF Abstract!Splice, CountOf
<1> QED
  BY <1>5, <1>6, <1>7

LEMMA ClearDoes == ASSUME RingHolds, Clear PROVE RingHolds' /\ Abstract!Clear
<1>1. Holds(q', <<>>) /\ ret' = ret
  BY ClearHolds DEF Clear, RingHolds
<1>2. toArray(q)' = <<>> /\ RingHolds'
  BY <1>1, DoesArray DEF Does
<1> QED
  BY <1>1, <1>2 DEF Abstract!Clear

-----------------------------------------------------------------------------

\* The two facts of the induction and of the refinement: the first state, and
\* every call.
LEMMA RingInit == Init => RingHolds /\ Abstract!Init
<1> SUFFICES ASSUME Init PROVE RingHolds /\ Abstract!Init
  OBVIOUS
<1>1. Holds(q, <<>>)
  BY InitHolds
<1>2. toArray(q) = <<>>
  BY <1>1, HeldArray
<1> QED
  BY <1>1, <1>2 DEF RingHolds, Init, Abstract!Init

LEMMA RingStep ==
    RingHolds /\ [Next]_vars => RingHolds' /\ [Abstract!Next]_<<toArray(q), ret>>
<1> SUFFICES ASSUME RingHolds, [Next]_vars
             PROVE  RingHolds' /\ [Abstract!Next]_<<toArray(q), ret>>
  OBVIOUS
<1>1. ASSUME NEW x \in Items, Push(x) PROVE RingHolds' /\ Abstract!Next
  BY <1>1, PushDoes DEF Abstract!Next
<1>2. ASSUME NEW x \in Items, Unshift(x) PROVE RingHolds' /\ Abstract!Next
  BY <1>2, UnshiftDoes DEF Abstract!Next
<1>3. CASE Shift
  BY <1>3, ShiftDoes DEF Abstract!Next
<1>4. CASE Pop
  BY <1>4, PopDoes DEF Abstract!Next
<1>5. CASE Clear
  BY <1>5, ClearDoes DEF Abstract!Next
<1>6. ASSUME NEW i \in Abstract!Indices, PeekAt(i) PROVE RingHolds' /\ Abstract!Next
  BY <1>6, PeekAtDoes DEF Abstract!Next
<1>7. ASSUME NEW i \in Abstract!Indices, RemoveOne(i) PROVE RingHolds' /\ Abstract!Next
  BY <1>7, RemoveOneDoes DEF Abstract!Next
<1>8. ASSUME NEW i \in Abstract!Indices, NEW n \in Counts, Remove(i, n)
      PROVE  RingHolds' /\ Abstract!Next
  BY <1>8, RemoveDoes DEF Abstract!Next
<1>9. ASSUME NEW i \in Abstract!Indices, NEW n \in Counts, NEW new \in Inserts, Splice(i, n, new)
      PROVE  RingHolds' /\ Abstract!Next
  BY <1>9, SpliceDoes DEF Abstract!Next
<1>10. CASE UNCHANGED vars
  <2>1. RingHolds' /\ UNCHANGED toArray(q)
    BY <1>10, SameDoes DEF vars
  <2> QED
    BY <1>10, <2>1 DEF vars
<1> QED
  BY <1>1, <1>2, <1>3, <1>4, <1>5, <1>6, <1>7, <1>8, <1>9, <1>10 DEF Next

\* The inductive invariant implies the invariant of the run.
LEMMA RingTyped == RingHolds => OnlyItemsHeld
<1> SUFFICES ASSUME RingHolds PROVE OnlyItemsHeld
  OBVIOUS
<1> DEFINE s == toArray(q)
<1>1. PICK n, h : Fits(n, h, s) /\ q = Ring(n, h, s)
  BY DEF RingHolds, Holds
<1> HIDE DEF s
<1>2. /\ n \in Nat /\ n >= 4 /\ h \in Nat /\ h < n /\ Len(s) \in Nat /\ Len(s) < n
  BY <1>1, FitsTypes
<1>3. /\ q.list = Image(n, h, s) /\ q.mask = n - 1 /\ q.head = h
      /\ q.tail = Wrap(h + Len(s), n) /\ capacity(q) = n /\ length(q) = Len(s)
  BY <1>1, HoldsFacts
<1>4. /\ Image(n, h, s) \in [0 .. n - 1 -> Items \union {undefined}]
      /\ \A slot \in 0 .. n - 1 :
            Image(n, h, s)[slot] # undefined <=> Wrap(slot - h, n) < Len(s)
  BY <1>1, ImageSlots
<1>5. TypeOK
  <2>1. n \in Capacities
    BY <1>1 DEF Fits
  <2>2. Wrap(h + Len(s), n) \in 0 .. n - 1
    BY <1>2 DEF Wrap
  <2> QED
    BY <1>2, <1>3, <1>4, <2>1, <2>2 DEF TypeOK
<1>6. ASSUME NEW slot \in DOMAIN q.list
      PROVE  q.list[slot] # undefined <=> (slot - q.head) % capacity(q) < length(q)
  <2>1. slot \in 0 .. n - 1
    BY <1>3, <1>4
  <2>2. slot - h \in Int /\ -n <= slot - h /\ slot - h < 2 * n /\ n \in Nat \ {0}
    BY <1>2, <2>1
  <2>3. (slot - h) % n = Wrap(slot - h, n)
    BY <2>2, Modulo
  <2> QED
    BY <1>3, <1>4, <2>1, <2>3
<1> QED
  BY <1>5, <1>6 DEF OnlyItemsHeld

\* Inductive: whatever calls came before, the list of the ring is the sequence
\* toArray() gives, written from the head on, and undefined everywhere else.
THEOREM RingHoldsAlways == Spec => []RingHolds
<1>1. RingHolds /\ [Next]_vars => RingHolds'
  BY RingStep
<1>2. Init => RingHolds
  BY RingInit
<1> QED
  BY <1>1, <1>2, PTL DEF Spec

\* A command or waiter that has left the queue is not kept alive by a slot, and
\* none can come back: growing, shrinking and moving leave no item behind.
THEOREM OnlyItemsHeldHolds == Spec => []OnlyItemsHeld
BY RingHoldsAlways, RingTyped, PTL

\* Every call of RingQueue changes the sequence and returns what the same call
\* on a plain sequence does, in any order of calls and wherever items wrap.
THEOREM ImplementsDeque == Spec => Implements
<1>1. Init => Abstract!Init
  BY RingInit
<1>2. RingHolds /\ [Next]_vars => [Abstract!Next]_<<toArray(q), ret>>
  BY RingStep
<1> QED
  BY <1>1, <1>2, RingHoldsAlways, PTL DEF Spec, Implements, Abstract!Spec

=============================================================================
