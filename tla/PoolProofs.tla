----------------------------- MODULE PoolProofs -----------------------------
(***************************************************************************)
(* Machine-checked proofs about the pool, for every number of connections  *)
(* and requests and every configuration: the inductive invariant, and from *)
(* it how requests are served, that no connection is lost, and what the    *)
(* callback of pool.end() means.                                           *)
(***************************************************************************)
EXTENDS PoolInv, SequenceTheorems, FiniteSetTheorems, TLAPS

-----------------------------------------------------------------------------
(* Sequences: the lists of the pool as sets without repetition.            *)

\* Pushing a new element onto a list.
LEMMA AppendFacts ==
  ASSUME NEW S, NEW s \in Seq(S), NEW x \in S
  PROVE  /\ Append(s, x) \in Seq(S)
         /\ Elems(Append(s, x)) = Elems(s) \union {x}
         /\ Distinct(s) /\ x \notin Elems(s) => Distinct(Append(s, x))
<1>1. Append(s, x) \in Seq(S) OBVIOUS
<1>2. /\ DOMAIN s = 1 .. Len(s)
      /\ DOMAIN Append(s, x) = 1 .. Len(s) + 1
      /\ Len(s) \in Nat
  OBVIOUS
<1>3. /\ \A i \in 1 .. Len(s) : Append(s, x)[i] = s[i]
      /\ Append(s, x)[Len(s) + 1] = x
  OBVIOUS
<1>4. Elems(Append(s, x)) = Elems(s) \union {x}
  <2>1. ASSUME NEW y \in Elems(Append(s, x)) PROVE y \in Elems(s) \union {x}
    BY <1>2, <1>3 DEF Elems
  <2>2. ASSUME NEW y \in Elems(s) \union {x} PROVE y \in Elems(Append(s, x))
    BY <1>2, <1>3 DEF Elems
  <2> QED BY <2>1, <2>2
<1>5. Distinct(s) /\ x \notin Elems(s) => Distinct(Append(s, x))
  BY <1>2, <1>3 DEF Distinct, Elems
<1> QED BY <1>1, <1>4, <1>5

\* Shifting the oldest element off a list.
LEMMA TailFacts ==
  ASSUME NEW S, NEW s \in Seq(S), s # <<>>
  PROVE  /\ Head(s) \in S
         /\ Head(s) \in Elems(s)
         /\ Tail(s) \in Seq(S)
         /\ Elems(s) = Elems(Tail(s)) \union {Head(s)}
         /\ Distinct(s) => Distinct(Tail(s)) /\ Head(s) \notin Elems(Tail(s))
<1>1. /\ Len(s) \in Nat \ {0}
      /\ DOMAIN s = 1 .. Len(s)
      /\ Tail(s) \in Seq(S)
      /\ Len(Tail(s)) = Len(s) - 1
      /\ DOMAIN Tail(s) = 1 .. Len(s) - 1
      /\ \A i \in 1 .. Len(s) - 1 : Tail(s)[i] = s[i + 1]
      /\ Head(s) = s[1]
  OBVIOUS
<1>2. Head(s) \in S /\ Head(s) \in Elems(s)
  BY <1>1 DEF Elems
<1>3. Elems(s) = Elems(Tail(s)) \union {Head(s)}
  <2>1. ASSUME NEW y \in Elems(s) PROVE y \in Elems(Tail(s)) \union {Head(s)}
    <3>1. PICK i \in 1 .. Len(s) : y = s[i] BY <1>1 DEF Elems
    <3>2. CASE i = 1 BY <3>1, <3>2, <1>1
    <3>3. CASE i # 1
      <4>1. i - 1 \in 1 .. Len(s) - 1 /\ Tail(s)[i - 1] = y
        BY <3>1, <3>3, <1>1
      <4> QED BY <4>1, <1>1 DEF Elems
    <3> QED BY <3>2, <3>3
  <2>2. ASSUME NEW y \in Elems(Tail(s)) PROVE y \in Elems(s)
    BY <1>1 DEF Elems
  <2> QED BY <2>1, <2>2, <1>2
<1>4. Distinct(s) => Distinct(Tail(s)) /\ Head(s) \notin Elems(Tail(s))
  BY <1>1 DEF Distinct, Elems
<1> QED BY <1>1, <1>2, <1>3, <1>4

\* Popping the newest element off a list.
LEMMA PopFacts ==
  ASSUME NEW S, NEW s \in Seq(S), s # <<>>
  PROVE  LET p == SubSeq(s, 1, Len(s) - 1)
             x == s[Len(s)]
         IN  /\ p \in Seq(S)
             /\ x \in S
             /\ Elems(s) = Elems(p) \union {x}
             /\ Distinct(s) => Distinct(p) /\ x \notin Elems(p)
<1> DEFINE n == Len(s) - 1
           p == SubSeq(s, 1, n)
<1>1. /\ Len(s) \in Nat \ {0}
      /\ DOMAIN s = 1 .. Len(s)
      /\ n \in Nat
  OBVIOUS
<1>2. /\ p \in Seq(S)
      /\ DOMAIN p = 1 .. n
      /\ \A i \in 1 .. n : p[i] = s[i]
  BY <1>1
<1>0. \A m \in Nat : \A i \in 1 .. m : i = m \/ i \in 1 .. m - 1
  OBVIOUS
<1>3. Elems(s) = Elems(p) \union {s[Len(s)]}
  <2>1. ASSUME NEW y \in Elems(s) PROVE y \in Elems(p) \union {s[Len(s)]}
    <3>1. PICK i \in 1 .. Len(s) : y = s[i] BY <1>1 DEF Elems
    <3>2. i = Len(s) \/ i \in 1 .. n BY <1>0, <1>1
    <3> HIDE DEF p
    <3>3. i \in 1 .. n => p[i] = y BY <3>1, <1>2
    <3> QED BY <3>1, <3>2, <3>3, <1>2 DEF Elems
  <2>2. ASSUME NEW y \in Elems(p) \union {s[Len(s)]} PROVE y \in Elems(s)
    BY <1>1, <1>2 DEF Elems
  <2> QED BY <2>1, <2>2
<1>4. Distinct(s) => Distinct(p) /\ s[Len(s)] \notin Elems(p)
  BY <1>1, <1>2 DEF Distinct, Elems
<1> QED BY <1>1, <1>2, <1>3, <1>4

\* Dropping the k oldest elements of a list.
LEMMA DropFacts ==
  ASSUME NEW S, NEW s \in Seq(S), NEW k \in 1 .. Len(s), Distinct(s)
  PROVE  LET d == SubSeq(s, k + 1, Len(s))
         IN  /\ d \in Seq(S)
             /\ Distinct(d)
             /\ Elems(d) = Elems(s) \ {s[i] : i \in 1 .. k}
<1> DEFINE d == SubSeq(s, k + 1, Len(s))
<1>1. Len(s) \in Nat /\ DOMAIN s = 1 .. Len(s) /\ k \in Nat
  OBVIOUS
<1>2. /\ d \in Seq(S)
      /\ DOMAIN d = 1 .. Len(s) - k
      /\ \A i \in 1 .. Len(s) - k : d[i] = s[i + k]
  BY <1>1
<1>3. Distinct(d)
  BY <1>1, <1>2 DEF Distinct
<1>4. Elems(d) = Elems(s) \ {s[i] : i \in 1 .. k}
  <2>1. ASSUME NEW y \in Elems(s), y \notin {s[i] : i \in 1 .. k}
        PROVE  y \in Elems(d)
    <3>1. PICK i \in 1 .. Len(s) : y = s[i] BY <1>1 DEF Elems
    <3>2. i - k \in 1 .. Len(s) - k BY <3>1, <2>1, <1>1
    <3>3. d[i - k] = y BY <3>1, <3>2, <1>1, <1>2
    <3> QED BY <3>2, <3>3, <1>2 DEF Elems
  <2>2. ASSUME NEW y \in Elems(d)
        PROVE  y \in Elems(s) \ {s[i] : i \in 1 .. k}
    <3>1. PICK i \in 1 .. Len(s) - k : y = s[i + k] BY <1>2 DEF Elems
    <3>2. \A j \in 1 .. k : s[j] # y BY <3>1, <1>1 DEF Distinct
    <3> QED BY <3>1, <3>2, <1>1 DEF Elems
  <2> QED BY <2>1, <2>2
<1> QED BY <1>2, <1>3, <1>4

\* Removing the element at index i (removeOne of ring_queue.js).
LEMMA RemoveAtFacts ==
  ASSUME NEW S, NEW s \in Seq(S), NEW i \in 1 .. Len(s), Distinct(s)
  PROVE  LET r == SubSeq(s, 1, i - 1) \o SubSeq(s, i + 1, Len(s))
         IN  /\ r \in Seq(S)
             /\ Distinct(r)
             /\ Elems(r) = Elems(s) \ {s[i]}
<1> DEFINE a == SubSeq(s, 1, i - 1)
           b == SubSeq(s, i + 1, Len(s))
           r == a \o b
           n == Len(s)
<1>1. n \in Nat /\ DOMAIN s = 1 .. n /\ i \in Nat /\ 1 <= i /\ i <= n
  OBVIOUS
<1>2. /\ a \in Seq(S)
      /\ Len(a) = i - 1
      /\ \A k \in 1 .. i - 1 : a[k] = s[k]
  BY <1>1
<1>3. /\ b \in Seq(S)
      /\ Len(b) = n - i
      /\ \A k \in 1 .. n - i : b[k] = s[k + i]
  <2>1. \A k \in i + 1 .. n : s[k] \in S BY <1>1
  <2>2. i + 1 \in Int /\ n \in Int BY <1>1
  <2>3. /\ b \in Seq(S)
        /\ Len(b) = IF i + 1 <= n THEN n - (i + 1) + 1 ELSE 0
        /\ \A k \in 1 .. n - (i + 1) + 1 : b[k] = s[i + 1 + k - 1]
    BY <2>1, <2>2, SubSeqProperties
  <2> HIDE DEF b, n
  <2> QED BY <2>3, <1>1
<1> HIDE DEF a, b
<1>c. /\ r \in Seq(S)
      /\ Len(r) = Len(a) + Len(b)
      /\ \A k \in 1 .. Len(a) + Len(b) : r[k] = IF k <= Len(a) THEN a[k]
                                               ELSE b[k - Len(a)]
  BY <1>2, <1>3, ConcatProperties
<1> HIDE DEF r, n
<1>4. /\ r \in Seq(S)
      /\ Len(r) = n - 1
      /\ DOMAIN r = 1 .. n - 1
  BY <1>1, <1>2, <1>3, <1>c
<1>5. ASSUME NEW k \in 1 .. n - 1
      PROVE  r[k] = IF k < i THEN s[k] ELSE s[k + 1]
  <2>1. CASE k < i BY <2>1, <1>1, <1>2, <1>3, <1>c
  <2>2. CASE k >= i
    <3>1. k - (i - 1) \in 1 .. n - i BY <2>2, <1>1
    <3>2. r[k] = b[k - (i - 1)] BY <2>2, <1>1, <1>2, <1>3, <1>c
    <3>3. b[k - (i - 1)] = s[k - (i - 1) + i] BY <3>1, <1>3
    <3>4. k - (i - 1) + i = k + 1 BY <1>1
    <3> QED BY <2>2, <3>2, <3>3, <3>4, <1>1
  <2> QED BY <2>1, <2>2, <1>1
<1>6. Distinct(r)
  <2> SUFFICES ASSUME NEW k \in 1 .. n - 1, NEW l \in 1 .. n - 1, r[k] = r[l]
               PROVE  k = l
    BY <1>4 DEF Distinct
  <2> DEFINE u(x) == IF x < i THEN x ELSE x + 1
  <2>1. u(k) \in 1 .. n /\ u(l) \in 1 .. n BY <1>1
  <2>2. r[k] = s[u(k)] /\ r[l] = s[u(l)] BY <1>5
  <2>3. u(k) = u(l) BY <2>1, <2>2, <1>1 DEF Distinct
  <2> QED BY <2>3, <1>1
<1>7. ASSUME NEW y \in Elems(r) PROVE y \in Elems(s) \ {s[i]}
  <2>1. PICK k \in 1 .. n - 1 : y = r[k] BY <1>4 DEF Elems
  <2> DEFINE u == IF k < i THEN k ELSE k + 1
  <2>2. u \in 1 .. n /\ u # i /\ y = s[u] BY <2>1, <1>1, <1>5
  <2> HIDE DEF u
  <2>3. s[u] # s[i] BY <2>2, <1>1 DEF Distinct
  <2> QED BY <2>2, <2>3, <1>1 DEF Elems
<1>8. ASSUME NEW y \in Elems(s), y # s[i] PROVE y \in Elems(r)
  <2>1. PICK k \in 1 .. n : y = s[k] BY <1>1 DEF Elems
  <2> DEFINE u == IF k < i THEN k ELSE k - 1
  <2>2. u \in 1 .. n - 1 /\ r[u] = y BY <2>1, <1>8, <1>1, <1>5
  <2> QED BY <2>2, <1>4 DEF Elems
<1>9. Elems(r) = Elems(s) \ {s[i]}
  BY <1>7, <1>8
<1> QED BY <1>4, <1>6, <1>9 DEF r, a, b, n

\* spliceConnection removes the connection and nothing else.
LEMMA SpliceFacts ==
  ASSUME NEW S, NEW s \in Seq(S), NEW c, Distinct(s)
  PROVE  /\ spliceConnection(s, c) \in Seq(S)
         /\ Distinct(spliceConnection(s, c))
         /\ Elems(spliceConnection(s, c)) = Elems(s) \ {c}
         /\ s = <<>> => spliceConnection(s, c) = <<>>
<1>1. CASE c \notin Elems(s)
  BY <1>1 DEF spliceConnection
<1>2. CASE c \in Elems(s)
  <2> DEFINE P(i) == s[i] = c /\ \A j \in 1 .. i - 1 : s[j] # c
             i == CHOOSE i \in DOMAIN s : P(i)
  <2>1. Len(s) \in Nat /\ DOMAIN s = 1 .. Len(s) OBVIOUS
  <2>2. \E k \in DOMAIN s : P(k)
    BY <1>2, <2>1 DEF Elems, Distinct
  <2>3. i \in DOMAIN s /\ P(i)
    <3> HIDE DEF P
    <3> QED BY <2>2
  <2>4. spliceConnection(s, c) = SubSeq(s, 1, i - 1) \o SubSeq(s, i + 1, Len(s))
    BY <1>2 DEF spliceConnection
  <2> HIDE DEF i
  <2>5. i \in 1 .. Len(s) /\ s[i] = c BY <2>1, <2>3
  <2>6. s # <<>> BY <2>1, <2>5
  <2> QED BY <2>4, <2>5, <2>6, RemoveAtFacts
<1> QED BY <1>1, <1>2

-----------------------------------------------------------------------------
(* The queue of requests and the nextTick queue.                           *)

\* What OneOwner and RequestOnce say of the two lists q and t alone.
ListsOK(q, t) ==
    /\ q \in Seq(Reqs)
    /\ t \in Seq(Ticks)
    /\ TickShape(t)
    /\ Distinct(q)
    /\ OnePerReq(t)
    /\ OnePerConn(t)
    /\ Elems(q) \intersect ReqsOf(t) = {}

\* The same with the list f of idle connections.
StoreOK(f, q, t) ==
    /\ ListsOK(q, t)
    /\ f \in Seq(Conns)
    /\ Distinct(f)
    /\ Elems(f) \intersect ConnsOf(t) = {}
    /\ f = <<>> \/ q = <<>>

\* The connections nobody uses, and the requests that wait in the lists.
Parked(f, t) == Elems(f) \union ConnsOf(t)
Waiters(q, t) == Elems(q) \union ReqsOf(t)

\* A callback for a request and a connection that t does not mention yet.
LEMMA TickAppend ==
  ASSUME NEW t \in Seq(Ticks), NEW k \in Ticks,
         TickShape(t), OnePerReq(t), OnePerConn(t),
         k.op = "reset" <=> k.req = None,
         k.op \in {"give", "reset"} <=> k.conn # None,
         k.req \notin ReqsOf(t), k.conn \notin ConnsOf(t)
  PROVE  /\ Append(t, k) \in Seq(Ticks)
         /\ TickShape(Append(t, k))
         /\ OnePerReq(Append(t, k))
         /\ OnePerConn(Append(t, k))
         /\ ReqsOf(Append(t, k)) = ReqsOf(t) \union ({k.req} \ {None})
         /\ ConnsOf(Append(t, k)) = ConnsOf(t) \union ({k.conn} \ {None})
<1> DEFINE a == Append(t, k)
           n == Len(t) + 1
<1>1. /\ n \in Nat
      /\ DOMAIN t = 1 .. n - 1
      /\ a \in Seq(Ticks)
      /\ DOMAIN a = 1 .. n
      /\ a[n] = k
      /\ \A i \in 1 .. n - 1 : a[i] = t[i]
  OBVIOUS
<1>2. \A i \in 1 .. n : i = n \/ i \in 1 .. n - 1
  BY <1>1
<1>3. 1 .. n - 1 \subseteq 1 .. n /\ n \in 1 .. n
  BY <1>1
<1> HIDE DEF a, n
<1>4. TickShape(a)
  BY <1>1, <1>2 DEF TickShape
<1>5. OnePerReq(a)
  BY <1>1, <1>2 DEF OnePerReq, ReqsOf
<1>6. OnePerConn(a)
  BY <1>1, <1>2 DEF OnePerConn, ConnsOf
<1>7. ReqsOf(a) = ReqsOf(t) \union ({k.req} \ {None})
  BY <1>1, <1>2, <1>3 DEF ReqsOf
<1>8. ConnsOf(a) = ConnsOf(t) \union ({k.conn} \ {None})
  BY <1>1, <1>2, <1>3 DEF ConnsOf
<1> QED BY <1>1, <1>4, <1>5, <1>6, <1>7, <1>8 DEF a

\* Taking the first callback off the nextTick queue.
LEMMA TickTail ==
  ASSUME NEW t \in Seq(Ticks), t # <<>>,
         TickShape(t), OnePerReq(t), OnePerConn(t)
  PROVE  LET k == Head(t) IN
         /\ k \in Ticks
         /\ k.op = "reset" <=> k.req = None
         /\ k.op \in {"give", "reset"} <=> k.conn # None
         /\ Tail(t) \in Seq(Ticks)
         /\ TickShape(Tail(t))
         /\ OnePerReq(Tail(t))
         /\ OnePerConn(Tail(t))
         /\ ReqsOf(t) = ReqsOf(Tail(t)) \union ({k.req} \ {None})
         /\ ConnsOf(t) = ConnsOf(Tail(t)) \union ({k.conn} \ {None})
         /\ k.req \notin ReqsOf(Tail(t))
         /\ k.conn \notin ConnsOf(Tail(t))
<1> DEFINE u == Tail(t)
           k == Head(t)
           n == Len(t)
<1>1. /\ n \in Nat \ {0}
      /\ DOMAIN t = 1 .. n
      /\ u \in Seq(Ticks)
      /\ DOMAIN u = 1 .. n - 1
      /\ \A i \in 1 .. n - 1 : u[i] = t[i + 1]
      /\ k = t[1]
      /\ k \in Ticks
  OBVIOUS
<1>2. \A i \in 1 .. n : i = 1 \/ (i - 1 \in 1 .. n - 1 /\ i = (i - 1) + 1)
  BY <1>1
<1>3. /\ \A i \in 1 .. n - 1 : i + 1 \in 1 .. n /\ i + 1 # 1
      /\ \A i, j \in 1 .. n - 1 : i + 1 = j + 1 => i = j
      /\ 1 \in 1 .. n
  BY <1>1
<1> HIDE DEF u, k, n
<1>4. (k.op = "reset" <=> k.req = None) /\ (k.op \in {"give", "reset"} <=> k.conn # None)
  BY <1>1, <1>3 DEF TickShape
<1>5. TickShape(u)
  BY <1>1, <1>3 DEF TickShape
<1>6. OnePerReq(u) /\ OnePerConn(u)
  <2> SUFFICES ASSUME NEW i \in 1 .. n - 1, NEW j \in 1 .. n - 1
               PROVE  /\ u[i].req = u[j].req /\ u[i].req # None => i = j
                      /\ u[i].conn = u[j].conn /\ u[i].conn # None => i = j
    BY <1>1 DEF OnePerReq, OnePerConn
  <2>1. u[i] = t[i + 1] /\ u[j] = t[j + 1] BY <1>1
  <2>2. i + 1 \in 1 .. n /\ j + 1 \in 1 .. n /\ (i + 1 = j + 1 => i = j) BY <1>3
  <2> QED BY <2>1, <2>2, <1>1 DEF OnePerReq, OnePerConn
<1>7. k.req \notin ReqsOf(u) /\ k.conn \notin ConnsOf(u)
  <2>1. ASSUME NEW i \in 1 .. n - 1
        PROVE  /\ u[i].req = k.req => k.req = None
               /\ u[i].conn = k.conn => k.conn = None
    BY <1>1, <1>3 DEF OnePerReq, OnePerConn
  <2> QED BY <2>1, <1>1 DEF ReqsOf, ConnsOf
<1>8. ReqsOf(t) = ReqsOf(u) \union ({k.req} \ {None})
  <2>1. ASSUME NEW x \in ReqsOf(t) PROVE x \in ReqsOf(u) \union ({k.req} \ {None})
    <3>1. PICK i \in 1 .. n : x = t[i].req /\ x # None BY <1>1 DEF ReqsOf
    <3>2. CASE i = 1 BY <3>1, <3>2, <1>1
    <3>3. CASE i # 1
      <4>1. i - 1 \in 1 .. n - 1 /\ u[i - 1] = t[i] BY <3>3, <1>1, <1>2
      <4> QED BY <4>1, <3>1, <1>1 DEF ReqsOf
    <3> QED BY <3>2, <3>3
  <2>2. ASSUME NEW x \in ReqsOf(u) PROVE x \in ReqsOf(t)
    <3>1. PICK i \in 1 .. n - 1 : x = u[i].req /\ x # None BY <1>1 DEF ReqsOf
    <3>2. i + 1 \in 1 .. n /\ t[i + 1].req = x BY <3>1, <1>1, <1>3
    <3> QED BY <3>1, <3>2, <1>1 DEF ReqsOf
  <2>3. {k.req} \ {None} \subseteq ReqsOf(t)
    BY <1>1, <1>3 DEF ReqsOf
  <2> QED BY <2>1, <2>2, <2>3
<1>9. ConnsOf(t) = ConnsOf(u) \union ({k.conn} \ {None})
  <2>1. ASSUME NEW x \in ConnsOf(t) PROVE x \in ConnsOf(u) \union ({k.conn} \ {None})
    <3>1. PICK i \in 1 .. n : x = t[i].conn /\ x # None BY <1>1 DEF ConnsOf
    <3>2. CASE i = 1 BY <3>1, <3>2, <1>1
    <3>3. CASE i # 1
      <4>1. i - 1 \in 1 .. n - 1 /\ u[i - 1] = t[i] BY <3>3, <1>1, <1>2
      <4> QED BY <4>1, <3>1, <1>1 DEF ConnsOf
    <3> QED BY <3>2, <3>3
  <2>2. ASSUME NEW x \in ConnsOf(u) PROVE x \in ConnsOf(t)
    <3>1. PICK i \in 1 .. n - 1 : x = u[i].conn /\ x # None BY <1>1 DEF ConnsOf
    <3>2. i + 1 \in 1 .. n /\ t[i + 1].conn = x BY <3>1, <1>1, <1>3
    <3> QED BY <3>1, <3>2, <1>1 DEF ConnsOf
  <2>3. {k.conn} \ {None} \subseteq ConnsOf(t)
    BY <1>1, <1>3 DEF ConnsOf
  <2> QED BY <2>1, <2>2, <2>3
<1> QED BY <1>1, <1>4, <1>5, <1>6, <1>7, <1>8, <1>9 DEF u, k

\* Moving the oldest waiter to a callback, with c or with no connection.
LEMMA ShiftWaiter ==
  ASSUME NEW q, NEW t, ListsOK(q, t), q # <<>>,
         NEW op \in {"give", "retry"},
         NEW c \in IF op = "give" THEN Conns ELSE {None}, c \notin ConnsOf(t)
  PROVE  LET u == Append(t, Tick(op, Head(q), c)) IN
         /\ ListsOK(Tail(q), u)
         /\ Waiters(Tail(q), u) = Waiters(q, t)
         /\ ConnsOf(u) = ConnsOf(t) \union ({c} \ {None})
<1> DEFINE k == Tick(op, Head(q), c)
           u == Append(t, k)
<1>1. /\ Head(q) \in Reqs
      /\ Tail(q) \in Seq(Reqs)
      /\ Elems(q) = Elems(Tail(q)) \union {Head(q)}
      /\ Distinct(Tail(q))
      /\ Head(q) \notin Elems(Tail(q))
  BY TailFacts DEF ListsOK
<1>2. /\ k \in Ticks
      /\ k.req = Head(q) /\ k.conn = c
      /\ k.op = "reset" <=> k.req = None
      /\ k.op \in {"give", "reset"} <=> k.conn # None
  BY <1>1, NoneAssumption DEF Tick, Ticks
<1>3. k.req \notin ReqsOf(t) /\ k.conn \notin ConnsOf(t)
  BY <1>1, <1>2 DEF ListsOK
<1>4. /\ u \in Seq(Ticks)
      /\ TickShape(u)
      /\ OnePerReq(u)
      /\ OnePerConn(u)
      /\ ReqsOf(u) = ReqsOf(t) \union ({k.req} \ {None})
      /\ ConnsOf(u) = ConnsOf(t) \union ({k.conn} \ {None})
  <2> HIDE DEF k
  <2> QED BY <1>2, <1>3, TickAppend DEF ListsOK
<1> HIDE DEF k, u
<1>5. ReqsOf(u) = ReqsOf(t) \union {Head(q)}
  BY <1>1, <1>2, <1>4, NoneAssumption
<1>6. ListsOK(Tail(q), u)
  BY <1>1, <1>4, <1>5 DEF ListsOK
<1> QED BY <1>1, <1>2, <1>4, <1>5, <1>6 DEF Waiters, u, k

\* ServeNext moves the oldest waiter, if any, from the queue to a retry.
LEMMA ServeNextFacts ==
  ASSUME NEW tk, ListsOK(queue, tk), ServeNext(tk)
  PROVE  /\ ListsOK(queue', ticks')
         /\ Waiters(queue', ticks') = Waiters(queue, tk)
         /\ ConnsOf(ticks') = ConnsOf(tk)
         /\ queue = <<>> => queue' = <<>>
<1>1. CASE queue = <<>>
  BY <1>1 DEF ServeNext
<1>2. CASE queue # <<>>
  <2>1. None \notin ConnsOf(tk) BY DEF ConnsOf
  <2>2. queue' = Tail(queue) /\ ticks' = Append(tk, Tick("retry", Head(queue), None))
    BY <1>2 DEF ServeNext
  <2>3. None \in IF "retry" = "give" THEN Conns ELSE {None} OBVIOUS
  <2>4. /\ ListsOK(queue', ticks')
        /\ Waiters(queue', ticks') = Waiters(queue, tk)
        /\ ConnsOf(ticks') = ConnsOf(tk) \union ({None} \ {None})
    BY <1>2, <2>1, <2>2, <2>3, ShiftWaiter
  <2> QED BY <1>2, <2>4
<1> QED BY <1>1, <1>2

\* _handleSuccessfulRelease hands c to the oldest waiter or parks it.
LEMMA SuccessfulReleaseFacts ==
  ASSUME NEW tk, StoreOK(free, queue, tk),
         NEW c \in Conns, c \notin Parked(free, tk),
         handleSuccessfulRelease(c, tk)
  PROVE  /\ StoreOK(free', queue', ticks')
         /\ Waiters(queue', ticks') = Waiters(queue, tk)
         /\ Parked(free', ticks') = Parked(free, tk) \union {c}
<1>1. CASE queue = <<>>
  <2>1. free' = Append(free, c) /\ ticks' = tk /\ queue' = queue
    BY <1>1 DEF handleSuccessfulRelease
  <2>2. /\ free' \in Seq(Conns)
        /\ Elems(free') = Elems(free) \union {c}
        /\ Distinct(free')
    BY <2>1, AppendFacts DEF StoreOK, Parked
  <2> QED BY <1>1, <2>1, <2>2 DEF StoreOK, Parked
<1>2. CASE queue # <<>>
  <2>1. /\ queue' = Tail(queue)
        /\ ticks' = Append(tk, Tick("give", Head(queue), c))
        /\ free' = free
    BY <1>2 DEF handleSuccessfulRelease
  <2>2. free = <<>> BY <1>2 DEF StoreOK
  <2>3. /\ ListsOK(queue', ticks')
        /\ Waiters(queue', ticks') = Waiters(queue, tk)
        /\ ConnsOf(ticks') = ConnsOf(tk) \union ({c} \ {None})
    BY <1>2, <2>1, ShiftWaiter DEF StoreOK, Parked
  <2>4. Elems(<<>>) = {} BY DEF Elems
  <2> QED BY <2>1, <2>2, <2>3, <2>4, NoneAssumption DEF StoreOK, Parked
<1> QED BY <1>1, <1>2

\* _removeFromPool takes c off the lists and lets the oldest waiter try again.
LEMMA RemoveFacts ==
  ASSUME StoreOK(free, queue, ticks), NEW c, removeFromPool(c)
  PROVE  /\ StoreOK(free', queue', ticks')
         /\ Waiters(queue', ticks') = Waiters(queue, ticks)
         /\ Parked(free', ticks') \subseteq Parked(free, ticks)
         /\ pooled[c] /\ ~closed /\ c \notin ConnsOf(ticks)
                => c \notin Parked(free', ticks')
<1>1. CASE ~pooled[c] \/ closed
  BY <1>1 DEF removeFromPool
<1>2. CASE pooled[c] /\ ~closed
  <2>1. free' = spliceConnection(free, c) /\ ServeNext(ticks)
    BY <1>2 DEF removeFromPool
  <2>2. /\ ListsOK(queue', ticks')
        /\ Waiters(queue', ticks') = Waiters(queue, ticks)
        /\ ConnsOf(ticks') = ConnsOf(ticks)
        /\ queue = <<>> => queue' = <<>>
    BY <2>1, ServeNextFacts DEF StoreOK
  <2>3. /\ free' \in Seq(Conns)
        /\ Distinct(free')
        /\ Elems(free') = Elems(free) \ {c}
        /\ free = <<>> => free' = <<>>
    BY <2>1, SpliceFacts DEF StoreOK
  <2> QED BY <2>2, <2>3 DEF StoreOK, Parked
<1> QED BY <1>1, <1>2

-----------------------------------------------------------------------------
(* The inductive invariant in the form the proofs use: the lists apart from *)
(* the connections and the requests.                                       *)

TypeRest ==
    /\ closed \in BOOLEAN
    /\ all \subseteq Conns
    /\ pooled \in [Conns -> BOOLEAN]
    /\ released \in [Conns -> BOOLEAN]
    /\ stream \in [Conns -> StreamStates]
    /\ task \in [Conns -> {"idle", "connect", "reset"}]
    /\ quit \in [Conns -> {"no", "queued", "done"}]
    /\ req \in [Reqs -> {"new", "waiting", "holding", "done"}]
    /\ has \in [Reqs -> Conns \union {None}]
    /\ endCb \in {"none", "waiting", "ok", "err"}
    /\ endCount \in Nat

Owners(P) ==
    /\ \A r1, r2 \in Reqs : has[r1] = has[r2] /\ has[r1] # None => r1 = r2
    /\ \A c \in P : (\A r \in Reqs : has[r] # c) /\ task[c] = "idle"
    /\ \A r \in Reqs : has[r] # None =>
          task[has[r]] = IF req[r] = "waiting" THEN "connect" ELSE "idle"

Waiting(W) ==
    \A r \in Reqs :
        /\ r \in W <=> req[r] = "waiting" /\ has[r] = None
        /\ req[r] = "holding" => has[r] # None
        /\ req[r] \in {"new", "done"} => has[r] = None

\* ConnectHeld and ReleasedGuards without Holders.
ConnectFor ==
    \A c \in Conns : task[c] = "connect" =>
        /\ \E r \in Reqs : has[r] = c
        /\ stream[c] \in {"open", "fin"}

ReleasedSet ==
    "staleRelease" \in Calls /\ ~closed =>
        \A c \in Conns : pooled[c] /\ (\A r \in Reqs : has[r] # c) => released[c]

\* What IInv says, conjunct by conjunct.
LEMMA IInvParts ==
  ASSUME IInv
  PROVE  /\ TypeRest
         /\ StoreOK(free, queue, ticks)
         /\ Owners(Parked(free, ticks))
         /\ Waiting(Waiters(queue, ticks))
         /\ PooledLive
         /\ ConnectFor
         /\ ReleasedSet
<1> USE DEF IInv
<1>1. TypeRest BY DEF TypeOK, TypeRest
<1>2. StoreOK(free, queue, ticks)
  BY DEF TypeOK, StoreOK, ListsOK, OneOwner, RequestOnce, NoIdleWhileQueued
<1>3. Owners(Parked(free, ticks))
  BY DEF OneOwner, Owners, Parked, Holders
<1>4. Waiting(Waiters(queue, ticks))
  BY DEF RequestOnce, Waiting, Waiters
<1>5. ConnectFor BY DEF ConnectHeld, ConnectFor, Holders
<1>6. ReleasedSet BY DEF ReleasedGuards, ReleasedSet, Holders
<1> QED BY <1>1, <1>2, <1>3, <1>4, <1>5, <1>6

\* The conjuncts of IInv give IInv.
LEMMA IInvFromParts ==
  ASSUME TypeRest', StoreOK(free', queue', ticks'),
         Owners(Parked(free, ticks))', Waiting(Waiters(queue, ticks))',
         PooledLive', ConnectFor', ReleasedSet'
  PROVE  IInv'
<1>1. TypeOK' BY DEF TypeOK, TypeRest, StoreOK, ListsOK
<1>2. OneOwner'
  BY DEF OneOwner, Owners, Parked, Holders, StoreOK, ListsOK
<1>3. RequestOnce'
  BY DEF RequestOnce, Waiting, Waiters, StoreOK, ListsOK
<1>4. ConnectHeld' BY DEF ConnectHeld, ConnectFor, Holders
<1>5. ReleasedGuards' BY DEF ReleasedGuards, ReleasedSet, Holders
<1>6. NoIdleWhileQueued' /\ TickShape(ticks)'
  BY DEF NoIdleWhileQueued, StoreOK, ListsOK
<1> QED BY <1>1, <1>2, <1>3, <1>4, <1>5, <1>6 DEF IInv

\* close() leaves the other sockets alone.
LEMMA ShutFacts ==
  ASSUME stream \in [Conns -> StreamStates], NEW c \in Conns
  PROVE  /\ Shut(c) \in [Conns -> StreamStates]
         /\ Shut(c)[c] \in {"closing", "dead"}
         /\ \A d \in Conns : d # c => Shut(c)[d] = stream[d]
BY DEF Shut, StreamStates

\* Only connections are parked, only requests wait.
LEMMA ListMembers ==
  ASSUME NEW f, NEW q, NEW t, StoreOK(f, q, t)
  PROVE  /\ Parked(f, t) \subseteq Conns
         /\ Waiters(q, t) \subseteq Reqs
<1>1. \A i \in DOMAIN t : t[i] \in Ticks
  BY DEF StoreOK, ListsOK
<1>2. ConnsOf(t) \subseteq Conns /\ ReqsOf(t) \subseteq Reqs
  BY <1>1 DEF ConnsOf, ReqsOf, Ticks
<1>3. Elems(f) \subseteq Conns /\ Elems(q) \subseteq Reqs
  BY DEF Elems, StoreOK, ListsOK
<1> QED BY <1>2, <1>3 DEF Parked, Waiters

\* The constructor of BasePool establishes the invariant.
LEMMA InitIInv == Init => IInv
<1> SUFFICES ASSUME Init PROVE IInv OBVIOUS
<1> USE DEF Init
<1>1. TypeOK
  <2>1. free \in Seq(Conns) /\ queue \in Seq(Reqs) /\ ticks \in Seq(Ticks)
    OBVIOUS
  <2>2. TypeRest BY DEF TypeRest, StreamStates
  <2> QED BY <2>1, <2>2 DEF TypeOK, TypeRest
<1>2. Elems(<<>>) = {} /\ ReqsOf(<<>>) = {} /\ ConnsOf(<<>>) = {}
  BY DEF Elems, ReqsOf, ConnsOf
<1>3. Distinct(<<>>) /\ OnePerConn(<<>>) /\ OnePerReq(<<>>) /\ TickShape(<<>>)
  BY DEF Distinct, OnePerConn, OnePerReq, TickShape
<1>4. OneOwner BY <1>2, <1>3 DEF OneOwner
<1>5. RequestOnce BY <1>2, <1>3 DEF RequestOnce
<1>6. PooledLive BY DEF PooledLive
<1>7. ConnectHeld BY DEF ConnectHeld
<1>8. ReleasedGuards BY DEF ReleasedGuards
<1> QED BY <1>1, <1>3, <1>4, <1>5, <1>6, <1>7, <1>8 DEF IInv, NoIdleWhileQueued

-----------------------------------------------------------------------------
(* Steps that give a connection back.                                      *)

\* releaseConnection(c) parks c, resets it, or drops it.
LEMMA ReleaseConnectionFacts ==
  ASSUME TypeRest, StoreOK(free, queue, ticks),
         NEW c \in Conns, c \notin Parked(free, ticks), task[c] = "idle",
         releaseConnection(c)
  PROVE  /\ StoreOK(free', queue', ticks')
         /\ Waiters(queue', ticks') = Waiters(queue, ticks)
         /\ Parked(free', ticks') \subseteq Parked(free, ticks) \union {c}
         /\ task' = task \/ task' = [task EXCEPT ![c] = "reset"]
         /\ task'[c] = "reset" => c \notin Parked(free', ticks')
         /\ \/ pooled' = pooled /\ all' = all /\ stream' = stream
            \/ /\ pooled' = [pooled EXCEPT ![c] = FALSE]
               /\ all' = all \ {c}
               /\ stream' = Shut(c)
<1>1. CASE ~pooled[c] /\ ServeNext(ticks) /\ UNCHANGED <<all, free, pooled, stream, task>>
  <2>1. /\ ListsOK(queue', ticks')
        /\ Waiters(queue', ticks') = Waiters(queue, ticks)
        /\ ConnsOf(ticks') = ConnsOf(ticks)
        /\ queue = <<>> => queue' = <<>>
    BY <1>1, ServeNextFacts DEF StoreOK
  <2> QED BY <1>1, <2>1 DEF StoreOK, Parked
<1>2. CASE /\ task' = [task EXCEPT ![c] = "reset"]
           /\ UNCHANGED <<all, free, queue, ticks, pooled, stream>>
  BY <1>2
<1>3. CASE ResetFailed(c) /\ stream' = Shut(c) /\ UNCHANGED task
  <2>1. /\ ListsOK(queue', ticks')
        /\ Waiters(queue', ticks') = Waiters(queue, ticks)
        /\ ConnsOf(ticks') = ConnsOf(ticks)
        /\ queue = <<>> => queue' = <<>>
    BY <1>3, ServeNextFacts DEF StoreOK, ResetFailed
  <2> QED BY <1>3, <2>1 DEF StoreOK, Parked, ResetFailed
<1>4. CASE handleSuccessfulRelease(c, ticks) /\ UNCHANGED <<all, pooled, stream, task>>
  BY <1>4, SuccessfulReleaseFacts DEF Parked
<1> QED BY <1>1, <1>2, <1>3, <1>4 DEF releaseConnection

\* The holder r of c gives it back through pool.releaseConnection.
LEMMA GiveBack ==
  ASSUME IInv, NEW r \in Reqs, NEW c \in Conns,
         req[r] = "holding", has[r] = c, Answered(r), releaseConnection(c),
         released' \in [Conns -> BOOLEAN],
         \A d \in Conns : d # c => released'[d] = released[d],
         "staleRelease" \in Calls => released'[c],
         UNCHANGED <<closed, quit, endVars>>
  PROVE  IInv'
<1>1. /\ TypeRest
      /\ StoreOK(free, queue, ticks)
      /\ Owners(Parked(free, ticks))
      /\ Waiting(Waiters(queue, ticks))
      /\ PooledLive
      /\ ConnectFor
      /\ ReleasedSet
  BY IInvParts
<1>2. c \notin Parked(free, ticks) /\ task[c] = "idle"
  BY <1>1, NoneAssumption DEF Owners
<1>3. /\ StoreOK(free', queue', ticks')
      /\ Waiters(queue', ticks') = Waiters(queue, ticks)
      /\ Parked(free', ticks') \subseteq Parked(free, ticks) \union {c}
      /\ task' = task \/ task' = [task EXCEPT ![c] = "reset"]
      /\ task'[c] = "reset" => c \notin Parked(free', ticks')
      /\ \/ pooled' = pooled /\ all' = all /\ stream' = stream
         \/ /\ pooled' = [pooled EXCEPT ![c] = FALSE]
            /\ all' = all \ {c}
            /\ stream' = Shut(c)
  BY <1>1, <1>2, ReleaseConnectionFacts
<1>4. /\ req' = [req EXCEPT ![r] = "done"]
      /\ has' = [has EXCEPT ![r] = None]
  BY DEF Answered
<1>5. TypeRest'
  <2>1. stream' \in [Conns -> StreamStates]
    BY <1>1, <1>3, ShutFacts DEF TypeRest
  <2>2. pooled' \in [Conns -> BOOLEAN] BY <1>1, <1>3 DEF TypeRest
  <2>3. task' \in [Conns -> {"idle", "connect", "reset"}] BY <1>1, <1>3 DEF TypeRest
  <2>4. all' \subseteq Conns BY <1>1, <1>3 DEF TypeRest
  <2>5. /\ req' \in [Reqs -> {"new", "waiting", "holding", "done"}]
        /\ has' \in [Reqs -> Conns \union {None}]
    BY <1>1, <1>4 DEF TypeRest
  <2> QED BY <2>1, <2>2, <2>3, <2>4, <2>5, <1>1 DEF TypeRest, endVars
<1>6. Owners(Parked(free, ticks))'
  <2>1. ASSUME NEW d \in Parked(free', ticks')
        PROVE  (\A q \in Reqs : has'[q] # d) /\ task'[d] = "idle"
    <3>1. CASE d = c
      BY <3>1, <1>1, <1>2, <1>3, <1>4, NoneAssumption DEF Owners, TypeRest
    <3>2. CASE d # c
      <4>1. d \in Parked(free, ticks) BY <3>2, <1>3
      <4>2. d \in Conns /\ d # None BY <4>1, <1>1, ListMembers, NoneAssumption
      <4>3. (\A q \in Reqs : has[q] # d) /\ task[d] = "idle"
        BY <4>1, <1>1 DEF Owners
      <4>4. task'[d] = "idle" BY <3>2, <4>2, <4>3, <1>1, <1>3 DEF TypeRest
      <4> QED BY <4>2, <4>3, <4>4, <1>1, <1>4 DEF TypeRest
    <3> QED BY <3>1, <3>2
  <2>2. \A q1, q2 \in Reqs : has'[q1] = has'[q2] /\ has'[q1] # None => q1 = q2
    BY <1>1, <1>4 DEF Owners, TypeRest
  <2>3. \A q \in Reqs : has'[q] # None =>
          task'[has'[q]] = IF req'[q] = "waiting" THEN "connect" ELSE "idle"
    BY <1>1, <1>3, <1>4 DEF Owners, TypeRest
  <2> QED BY <2>1, <2>2, <2>3 DEF Owners
<1>7. Waiting(Waiters(queue, ticks))'
  BY <1>1, <1>3, <1>4 DEF Waiting, TypeRest
<1>8. PooledLive'
  BY <1>1, <1>3 DEF PooledLive, TypeRest, Accepting, Shut
<1>9. ConnectFor'
  BY <1>1, <1>2, <1>3, <1>4 DEF ConnectFor, TypeRest, Shut
<1>10. ReleasedSet'
  BY <1>1, <1>3, <1>4 DEF ReleasedSet, TypeRest
<1> QED BY <1>3, <1>5, <1>6, <1>7, <1>8, <1>9, <1>10, IInvFromParts

\* connection.release() by the holder r of c.
LEMMA ReleaseStep ==
  ASSUME IInv, NEW r \in Reqs, NEW c \in Conns,
         req[r] = "holding", has[r] = c, Answered(r), release(c),
         UNCHANGED <<closed, quit, endVars>>
  PROVE  IInv'
<1>1. TypeRest /\ StoreOK(free, queue, ticks) /\ ReleasedSet
  BY IInvParts
<1>2. CASE ~(released[c] \/ ~pooled[c] \/ closed)
  <2>1. released' = [released EXCEPT ![c] = TRUE] /\ releaseConnection(c)
    BY <1>2 DEF release
  <2>2. /\ released' \in [Conns -> BOOLEAN]
        /\ \A d \in Conns : d # c => released'[d] = released[d]
        /\ released'[c]
    BY <2>1, <1>1 DEF TypeRest
  <2> QED BY <2>1, <2>2, GiveBack
<1>3. CASE released[c] \/ ~pooled[c] \/ closed
  <2>1. UNCHANGED <<all, free, queue, ticks, pooled, released, stream, task>>
    BY <1>3 DEF release
  <2>2. /\ TypeRest /\ StoreOK(free, queue, ticks)
        /\ Owners(Parked(free, ticks)) /\ Waiting(Waiters(queue, ticks))
        /\ PooledLive /\ ConnectFor /\ ReleasedSet
    BY IInvParts
  <2>3. req' = [req EXCEPT ![r] = "done"] /\ has' = [has EXCEPT ![r] = None]
    BY DEF Answered
  <2>4. StoreOK(free', queue', ticks') BY <2>1, <2>2
  <2>5. TypeRest'
    <3>1. /\ req' \in [Reqs -> {"new", "waiting", "holding", "done"}]
          /\ has' \in [Reqs -> Conns \union {None}]
      BY <2>2, <2>3 DEF TypeRest
    <3> QED BY <3>1, <2>1, <2>2 DEF TypeRest, endVars
  <2>6. Owners(Parked(free, ticks))'
    <3>1. \A d \in Parked(free, ticks) : d # None
      BY <2>2, ListMembers, NoneAssumption
    <3>2. Parked(free, ticks)' = Parked(free, ticks) BY <2>1
    <3> QED BY <3>1, <3>2, <2>1, <2>2, <2>3 DEF Owners, TypeRest
  <2>7. Waiting(Waiters(queue, ticks))'
    <3>1. Waiters(queue, ticks)' = Waiters(queue, ticks) BY <2>1
    <3> QED BY <3>1, <2>2, <2>3 DEF Waiting, TypeRest
  <2>8. PooledLive' BY <2>1, <2>2 DEF PooledLive, Accepting
  <2>9. ConnectFor'
    <3>1. task[c] = "idle" BY <2>2, NoneAssumption DEF Owners
    <3> QED BY <3>1, <2>1, <2>2, <2>3 DEF ConnectFor, TypeRest
  <2>10. ReleasedSet' BY <1>3, <2>1, <2>2, <2>3 DEF ReleasedSet, TypeRest
  <2> QED BY <2>4, <2>5, <2>6, <2>7, <2>8, <2>9, <2>10, IInvFromParts
<1> QED BY <1>2, <1>3

\* `_released' makes a second connection.release() do nothing.
LEMMA StaleReleaseIdle ==
  ASSUME IInv, NEW c \in Conns, StaleRelease(c)
  PROVE  UNCHANGED vars
<1>1. released[c] \/ ~pooled[c] \/ closed
  BY IInvParts DEF StaleRelease, GivenBack, ReleasedSet, Holders
<1> QED BY <1>1 DEF StaleRelease, release, vars, connVars

-----------------------------------------------------------------------------
(* Steps that take a connection out of the pool.                           *)

\* removeFromPool(c), and the socket of c is not open any more.  The holder
\* of c keeps it (hold), or it was r and has answered.
LEMMA DropStep ==
  ASSUME IInv, NEW c \in Conns, removeFromPool(c),
         stream' \in [Conns -> StreamStates],
         \A d \in Conns : d # c => stream'[d] = stream[d],
         task[c] = "connect" => stream'[c] = "fin",
         \/ UNCHANGED <<req, has>>
         \/ \E r \in Reqs : req[r] = "holding" /\ has[r] = c /\ Answered(r),
         UNCHANGED <<closed, released, task, quit, endVars>>
  PROVE  IInv'
<1>1. /\ TypeRest /\ StoreOK(free, queue, ticks)
      /\ Owners(Parked(free, ticks)) /\ Waiting(Waiters(queue, ticks))
      /\ PooledLive /\ ConnectFor /\ ReleasedSet
  BY IInvParts
<1>2. /\ StoreOK(free', queue', ticks')
      /\ Waiters(queue', ticks') = Waiters(queue, ticks)
      /\ Parked(free', ticks') \subseteq Parked(free, ticks)
  BY <1>1, RemoveFacts
<1>3. \/ ~pooled[c] /\ pooled' = pooled /\ all' = all
      \/ closed /\ pooled' = pooled /\ all' = all
      \/ pooled' = [pooled EXCEPT ![c] = FALSE] /\ all' = all \ {c}
  BY DEF removeFromPool
<1>4. /\ req' \in [Reqs -> {"new", "waiting", "holding", "done"}]
      /\ has' \in [Reqs -> Conns \union {None}]
      /\ \A q \in Reqs : \/ req'[q] = req[q] /\ has'[q] = has[q]
                         \/ /\ req[q] = "holding" /\ has[q] = c
                            /\ req'[q] = "done" /\ has'[q] = None
  BY <1>1 DEF Answered, TypeRest
<1>5. TypeRest'
  <2>1. pooled' \in [Conns -> BOOLEAN] /\ all' \subseteq Conns
    BY <1>1, <1>3 DEF TypeRest
  <2> QED BY <2>1, <1>1, <1>4 DEF TypeRest, endVars
<1>6. Owners(Parked(free, ticks))'
  <2>1. \A d \in Parked(free, ticks) : d # None
    BY <1>1, ListMembers, NoneAssumption
  <2> QED BY <2>1, <1>1, <1>2, <1>4 DEF Owners, TypeRest
<1>7. Waiting(Waiters(queue, ticks))'
  BY <1>1, <1>2, <1>4 DEF Waiting
<1>8. PooledLive'
  BY <1>1, <1>3 DEF PooledLive, TypeRest, Accepting
<1>9. ConnectFor'
  <2>1. \A r \in Reqs : has[r] = c /\ req[r] = "holding" => task[c] = "idle"
    BY <1>1, NoneAssumption DEF Owners
  <2> QED BY <2>1, <1>1, <1>4 DEF ConnectFor, TypeRest
<1>10. ReleasedSet'
  BY <1>1, <1>3, <1>4 DEF ReleasedSet, TypeRest, PooledLive
<1> QED BY <1>2, <1>5, <1>6, <1>7, <1>8, <1>9, <1>10, IInvFromParts

-----------------------------------------------------------------------------
(* pool.getConnection.                                                     *)

\* A callback for r that t does not mention, with a connection or without.
LEMMA AddTick ==
  ASSUME NEW f, NEW q, NEW t, StoreOK(f, q, t), NEW r \in Reqs,
         r \notin Waiters(q, t), NEW op \in {"give", "fail"},
         NEW c \in IF op = "give" THEN Conns ELSE {None}, c \notin Parked(f, t)
  PROVE  LET u == Append(t, Tick(op, r, c)) IN
         /\ StoreOK(f, q, u)
         /\ Waiters(q, u) = Waiters(q, t) \union {r}
         /\ Parked(f, u) = Parked(f, t) \union ({c} \ {None})
<1> DEFINE k == Tick(op, r, c)
           u == Append(t, k)
<1>1. /\ k \in Ticks
      /\ k.req = r /\ k.conn = c
      /\ k.op = "reset" <=> k.req = None
      /\ k.op \in {"give", "reset"} <=> k.conn # None
  BY NoneAssumption DEF Tick, Ticks
<1>2. k.req \notin ReqsOf(t) /\ k.conn \notin ConnsOf(t)
  BY <1>1 DEF Waiters, Parked
<1>3. /\ u \in Seq(Ticks) /\ TickShape(u) /\ OnePerReq(u) /\ OnePerConn(u)
      /\ ReqsOf(u) = ReqsOf(t) \union ({k.req} \ {None})
      /\ ConnsOf(u) = ConnsOf(t) \union ({k.conn} \ {None})
  <2> HIDE DEF k
  <2> QED BY <1>1, <1>2, TickAppend DEF StoreOK, ListsOK
<1> HIDE DEF k, u
<1>4. ReqsOf(u) = ReqsOf(t) \union {r}
  BY <1>1, <1>3, NoneAssumption
<1>5. ListsOK(q, u)
  BY <1>3, <1>4 DEF StoreOK, ListsOK, Waiters
<1>6. StoreOK(f, q, u)
  BY <1>1, <1>3, <1>5 DEF StoreOK, Parked
<1> QED BY <1>1, <1>3, <1>4, <1>6 DEF Waiters, Parked, u, k

\* getConnection for a request r that waits nowhere, with tk left of ticks.
LEMMA GetConnectionStep ==
  ASSUME TypeRest, PooledLive, ConnectFor, ReleasedSet,
         NEW tk, StoreOK(free, queue, tk), ConnsOf(tk) = ConnsOf(ticks),
         Owners(Parked(free, tk)),
         NEW r \in Reqs, r \notin Waiters(queue, tk), has[r] = None,
         \A q \in Reqs \ {r} :
            /\ q \in Waiters(queue, tk) <=> req[q] = "waiting" /\ has[q] = None
            /\ req[q] = "holding" => has[q] # None
            /\ req[q] \in {"new", "done"} => has[q] = None,
         getConnection(r, tk)
  PROVE  IInv'
<1>0. UNCHANGED <<closed, endVars>> BY DEF getConnection
<1>1. CASE FailLater(r, tk)
  <2>1. /\ ticks' = Append(tk, Tick("fail", r, None))
        /\ req' = [req EXCEPT ![r] = "waiting"]
        /\ UNCHANGED <<all, free, queue, pooled, released, stream, task, quit, has>>
    BY <1>1 DEF FailLater, connVars
  <2>2. None \notin Parked(free, tk)
    BY ListMembers, NoneAssumption
  <2>3. None \in IF "fail" = "give" THEN Conns ELSE {None} OBVIOUS
  <2>4. /\ StoreOK(free', queue', ticks')
        /\ Waiters(queue', ticks') = Waiters(queue, tk) \union {r}
        /\ Parked(free', ticks') = Parked(free, tk) \union ({None} \ {None})
    BY <2>1, <2>2, <2>3, AddTick
  <2>5. TypeRest' BY <1>0, <2>1 DEF TypeRest, endVars
  <2>6. Owners(Parked(free, ticks))' BY <2>1, <2>4 DEF Owners, TypeRest
  <2>7. Waiting(Waiters(queue, ticks))' BY <2>1, <2>4 DEF Waiting, TypeRest
  <2>8. PooledLive' BY <1>0, <2>1 DEF PooledLive, Accepting
  <2>9. ConnectFor' BY <2>1 DEF ConnectFor
  <2>10. ReleasedSet' BY <1>0, <2>1 DEF ReleasedSet
  <2> QED BY <2>4, <2>5, <2>6, <2>7, <2>8, <2>9, <2>10, IInvFromParts
<1>2. CASE TakeFree(r, tk)
  <2> DEFINE c == free[Len(free)]
             f == SubSeq(free, 1, Len(free) - 1)
  <2>1. /\ free # <<>> /\ free' = f
        /\ ticks' = Append(tk, Tick("give", r, c))
        /\ req' = [req EXCEPT ![r] = "waiting"]
        /\ UNCHANGED <<all, queue, pooled, released, stream, task, quit, has>>
    BY <1>2 DEF TakeFree, connVars
  <2>2. /\ f \in Seq(Conns) /\ c \in Conns
        /\ Elems(free) = Elems(f) \union {c}
        /\ Distinct(f) /\ c \notin Elems(f)
    BY <2>1, PopFacts DEF StoreOK
  <2> HIDE DEF c, f
  <2>3. StoreOK(f, queue, tk) /\ c \notin Parked(f, tk)
        /\ Parked(free, tk) = Parked(f, tk) \union {c}
    BY <2>1, <2>2 DEF StoreOK, Parked
  <2>4. c \in IF "give" = "give" THEN Conns ELSE {None} BY <2>2
  <2>5. /\ StoreOK(f, queue', ticks')
        /\ Waiters(queue', ticks') = Waiters(queue, tk) \union {r}
        /\ Parked(f, ticks') = Parked(f, tk) \union ({c} \ {None})
    BY <2>1, <2>3, <2>4, AddTick
  <2>6. StoreOK(free', queue', ticks') /\ Parked(free', ticks') = Parked(free, tk)
    BY <2>1, <2>2, <2>3, <2>5, NoneAssumption
  <2>7. TypeRest' BY <1>0, <2>1 DEF TypeRest, endVars
  <2>8. Owners(Parked(free, ticks))' BY <2>1, <2>6 DEF Owners, TypeRest
  <2>9. Waiting(Waiters(queue, ticks))' BY <2>1, <2>5 DEF Waiting, TypeRest
  <2>10. PooledLive' BY <1>0, <2>1 DEF PooledLive, Accepting
  <2>11. ConnectFor' BY <2>1 DEF ConnectFor
  <2>12. ReleasedSet' BY <1>0, <2>1 DEF ReleasedSet
  <2> QED BY <2>6, <2>7, <2>8, <2>9, <2>10, <2>11, <2>12, IInvFromParts
<1>3. CASE ~closed /\ Create(r, tk)
  <2>1. PICK c \in Conns :
          /\ Fresh(c)
          /\ all' = all \union {c}
          /\ pooled' = [pooled EXCEPT ![c] = TRUE]
          /\ released' = [released EXCEPT ![c] = FALSE]
          /\ stream' = [stream EXCEPT ![c] = "open"]
          /\ task' = [task EXCEPT ![c] = "connect"]
          /\ quit' = [quit EXCEPT ![c] = "no"]
          /\ req' = [req EXCEPT ![r] = "waiting"]
          /\ has' = [has EXCEPT ![r] = c]
          /\ ticks' = tk /\ free' = free /\ queue' = queue
    BY <1>3 DEF Create
  <2>2. /\ c \notin Parked(free, tk)
        /\ \A q \in Reqs : has[q] # c
    BY <2>1 DEF Fresh, Parked, Holders
  <2>3. StoreOK(free', queue', ticks') BY <2>1
  <2>4. TypeRest'
    <3>1. /\ req' \in [Reqs -> {"new", "waiting", "holding", "done"}]
          /\ has' \in [Reqs -> Conns \union {None}]
          /\ all' \subseteq Conns
      BY <2>1 DEF TypeRest
    <3>2. /\ pooled' \in [Conns -> BOOLEAN]
          /\ released' \in [Conns -> BOOLEAN]
          /\ stream' \in [Conns -> StreamStates]
          /\ task' \in [Conns -> {"idle", "connect", "reset"}]
          /\ quit' \in [Conns -> {"no", "queued", "done"}]
      BY <2>1 DEF TypeRest, StreamStates
    <3> QED BY <3>1, <3>2, <1>0 DEF TypeRest, endVars
  <2>5. Owners(Parked(free, ticks))'
    <3>1. Parked(free, ticks)' = Parked(free, tk) BY <2>1
    <3>2. Parked(free, tk) \subseteq Conns BY ListMembers
    <3>3. \A d \in Parked(free, tk) : (\A q \in Reqs : has'[q] # d) /\ task'[d] = "idle"
      BY <3>2, <2>1, <2>2 DEF Owners, TypeRest
    <3>4. \A q1, q2 \in Reqs : has'[q1] = has'[q2] /\ has'[q1] # None => q1 = q2
      BY <2>1, <2>2 DEF Owners, TypeRest
    <3>5. \A q \in Reqs : has'[q] # None =>
            task'[has'[q]] = IF req'[q] = "waiting" THEN "connect" ELSE "idle"
      BY <2>1, <2>2 DEF Owners, TypeRest
    <3> QED BY <3>1, <3>3, <3>4, <3>5 DEF Owners
  <2>6. Waiting(Waiters(queue, ticks))'
    BY <2>1, NoneAssumption DEF Waiting, TypeRest
  <2>7. PooledLive' BY <1>0, <1>3, <2>1 DEF PooledLive, Accepting, TypeRest
  <2>8. ConnectFor' BY <2>1, <2>2, NoneAssumption DEF ConnectFor, TypeRest
  <2>9. ReleasedSet' BY <1>0, <2>1, <2>2, NoneAssumption DEF ReleasedSet, TypeRest
  <2> QED BY <2>3, <2>4, <2>5, <2>6, <2>7, <2>8, <2>9, IInvFromParts
<1>4. CASE Refuse(r, tk)
  <2>1. /\ ticks' = tk
        /\ req' = [req EXCEPT ![r] = "done"] /\ has' = [has EXCEPT ![r] = None]
        /\ UNCHANGED <<all, free, queue, pooled, released, stream, task, quit>>
    BY <1>4 DEF Refuse, Answered, connVars
  <2>2. has' = has BY <2>1 DEF TypeRest
  <2>3. StoreOK(free', queue', ticks') BY <2>1
  <2>4. TypeRest' BY <1>0, <2>1, <2>2 DEF TypeRest, endVars
  <2>5. Owners(Parked(free, ticks))' BY <2>1, <2>2 DEF Owners, TypeRest
  <2>6. Waiting(Waiters(queue, ticks))' BY <2>1, <2>2 DEF Waiting, TypeRest
  <2>7. PooledLive' BY <1>0, <2>1 DEF PooledLive, Accepting
  <2>8. ConnectFor' BY <2>1, <2>2 DEF ConnectFor
  <2>9. ReleasedSet' BY <1>0, <2>1, <2>2 DEF ReleasedSet
  <2> QED BY <2>3, <2>4, <2>5, <2>6, <2>7, <2>8, <2>9, IInvFromParts
<1>5. CASE free = <<>> /\ Enqueue(r, tk)
  <2>1. /\ queue' = Append(queue, r) /\ ticks' = tk /\ free' = <<>> /\ free = <<>>
        /\ req' = [req EXCEPT ![r] = "waiting"]
        /\ UNCHANGED <<all, pooled, released, stream, task, quit, has>>
    BY <1>5 DEF Enqueue, connVars
  <2>2. /\ queue' \in Seq(Reqs)
        /\ Elems(queue') = Elems(queue) \union {r}
        /\ Distinct(queue')
    BY <2>1, AppendFacts DEF StoreOK, ListsOK, Waiters
  <2>3. StoreOK(free', queue', ticks') /\ Waiters(queue', ticks') = Waiters(queue, tk) \union {r}
    BY <2>1, <2>2 DEF StoreOK, ListsOK, Waiters
  <2>4. TypeRest' BY <1>0, <2>1 DEF TypeRest, endVars
  <2>5. Owners(Parked(free, ticks))' BY <2>1 DEF Owners, TypeRest
  <2>6. Waiting(Waiters(queue, ticks))' BY <2>1, <2>3 DEF Waiting, TypeRest
  <2>7. PooledLive' BY <1>0, <2>1 DEF PooledLive, Accepting
  <2>8. ConnectFor' BY <2>1 DEF ConnectFor
  <2>9. ReleasedSet' BY <1>0, <2>1 DEF ReleasedSet
  <2> QED BY <2>3, <2>4, <2>5, <2>6, <2>7, <2>8, <2>9, IInvFromParts
<1> QED BY <1>1, <1>2, <1>3, <1>4, <1>5 DEF getConnection

-----------------------------------------------------------------------------
(* Ticks.                                                                  *)

\* A nextTick callback keeps the invariant, whatever it carries.
LEMMA RunTickStep ==
  ASSUME IInv, RunTick
  PROVE  IInv'
<1> DEFINE t == Head(ticks)
           tk == Tail(ticks)
<1>1. /\ TypeRest /\ StoreOK(free, queue, ticks)
      /\ Owners(Parked(free, ticks)) /\ Waiting(Waiters(queue, ticks))
      /\ PooledLive /\ ConnectFor /\ ReleasedSet
  BY IInvParts
<1>2. ticks # <<>> BY DEF RunTick
<1>3. /\ t \in Ticks
      /\ t.op = "reset" <=> t.req = None
      /\ t.op \in {"give", "reset"} <=> t.conn # None
      /\ tk \in Seq(Ticks)
      /\ TickShape(tk) /\ OnePerReq(tk) /\ OnePerConn(tk)
      /\ ReqsOf(ticks) = ReqsOf(tk) \union ({t.req} \ {None})
      /\ ConnsOf(ticks) = ConnsOf(tk) \union ({t.conn} \ {None})
      /\ t.req \notin ReqsOf(tk)
      /\ t.conn \notin ConnsOf(tk)
  BY <1>1, <1>2, TickTail DEF StoreOK, ListsOK
<1> HIDE DEF t, tk
<1>4. /\ t.req \in Reqs \union {None} /\ t.conn \in Conns \union {None}
      /\ t.op \in {"give", "fail", "retry", "reset"}
  BY <1>3 DEF Ticks
<1>5. StoreOK(free, queue, tk)
  BY <1>1, <1>3 DEF StoreOK, ListsOK
<1>6. /\ Waiters(queue, ticks) = Waiters(queue, tk) \union ({t.req} \ {None})
      /\ Parked(free, ticks) = Parked(free, tk) \union ({t.conn} \ {None})
  BY <1>3 DEF Waiters, Parked
<1>7. (t.req \in Reqs => t.req \notin Waiters(queue, tk))
      /\ (t.conn \in Conns => t.conn \notin Parked(free, tk))
  BY <1>1, <1>3, NoneAssumption DEF Waiters, Parked, StoreOK, ListsOK
<1>8. CASE t.op = "give"
  <2> DEFINE r == t.req
             c == t.conn
  <2>1. r \in Reqs /\ c \in Conns BY <1>3, <1>4, <1>8
  <2>2. /\ Give(r, c) /\ ticks' = tk
        /\ UNCHANGED <<closed, all, free, queue, pooled, stream, task, quit, endVars>>
    BY <1>8, <1>2 DEF RunTick, t, tk
  <2> HIDE DEF r, c
  <2>3. /\ released' = [released EXCEPT ![c] = FALSE]
        /\ \/ ~Accepting(c) /\ req' = [req EXCEPT ![r] = "done"]
              /\ has' = [has EXCEPT ![r] = None]
           \/ req' = [req EXCEPT ![r] = "holding"] /\ has' = [has EXCEPT ![r] = c]
    BY <2>2 DEF Give, Answered
  <2>4. /\ r \in Waiters(queue, ticks) /\ r \notin Waiters(queue, tk)
        /\ c \in Parked(free, ticks) /\ c \notin Parked(free, tk)
        /\ Waiters(queue, ticks) = Waiters(queue, tk) \union {r}
        /\ Parked(free, ticks) = Parked(free, tk) \union {c}
    BY <2>1, <1>6, <1>7, NoneAssumption DEF r, c
  <2>5. /\ req[r] = "waiting" /\ has[r] = None
        /\ task[c] = "idle" /\ \A q \in Reqs : has[q] # c
    BY <2>1, <2>4, <1>1 DEF Waiting, Owners
  <2>6. StoreOK(free', queue', ticks') BY <2>2, <1>5
  <2>7. TypeRest'
    <3>1. /\ released' \in [Conns -> BOOLEAN]
          /\ req' \in [Reqs -> {"new", "waiting", "holding", "done"}]
          /\ has' \in [Reqs -> Conns \union {None}]
      BY <2>1, <2>3, <1>1 DEF TypeRest
    <3> QED BY <3>1, <2>2, <1>1 DEF TypeRest, endVars
  <2>8. Owners(Parked(free, ticks))'
    <3>1. Parked(free, ticks)' = Parked(free, tk) BY <2>2
    <3>2. Parked(free, tk) \subseteq Conns BY <1>5, ListMembers
    <3>3. \A d \in Parked(free, tk) :
            /\ d # c /\ d # None /\ task[d] = "idle"
            /\ \A q \in Reqs : has[q] # d
      BY <3>2, <2>4, <1>1, NoneAssumption DEF Owners
    <3>4. \A d \in Parked(free, tk) : (\A q \in Reqs : has'[q] # d) /\ task'[d] = "idle"
      BY <3>3, <2>1, <2>2, <2>3, <1>1 DEF TypeRest
    <3>5. \A q1, q2 \in Reqs : has'[q1] = has'[q2] /\ has'[q1] # None => q1 = q2
      BY <2>1, <2>3, <2>5, <1>1 DEF Owners, TypeRest
    <3>6. \A q \in Reqs : has'[q] # None =>
            task'[has'[q]] = IF req'[q] = "waiting" THEN "connect" ELSE "idle"
      BY <2>1, <2>2, <2>3, <2>5, <1>1 DEF Owners, TypeRest
    <3> QED BY <3>1, <3>4, <3>5, <3>6 DEF Owners
  <2>9. Waiting(Waiters(queue, ticks))'
    BY <2>1, <2>2, <2>3, <2>4, <1>1, NoneAssumption DEF Waiting, TypeRest
  <2>10. PooledLive' BY <2>2, <1>1 DEF PooledLive, Accepting
  <2>11. ConnectFor'
    BY <2>1, <2>2, <2>3, <2>5, <1>1, NoneAssumption DEF ConnectFor, TypeRest
  <2>12. ReleasedSet'
    BY <2>1, <2>2, <2>3, <2>5, <1>1, NoneAssumption DEF ReleasedSet, PooledLive, TypeRest
  <2> QED BY <2>6, <2>7, <2>8, <2>9, <2>10, <2>11, <2>12, IInvFromParts
<1>9. CASE t.op = "fail"
  <2> DEFINE r == t.req
  <2>1. r \in Reqs /\ t.conn = None BY <1>3, <1>4, <1>9
  <2>2. /\ Answered(r) /\ ticks' = tk
        /\ UNCHANGED <<closed, all, free, queue, connVars, endVars>>
    BY <1>9, <1>2 DEF RunTick, t, tk
  <2>3. /\ r \in Waiters(queue, ticks) /\ r \notin Waiters(queue, tk)
        /\ Waiters(queue, ticks) = Waiters(queue, tk) \union {r}
        /\ Parked(free, ticks) = Parked(free, tk)
    BY <2>1, <1>6, <1>7, NoneAssumption
  <2> HIDE DEF r
  <2>4. req[r] = "waiting" /\ has[r] = None
    BY <2>1, <2>3, <1>1 DEF Waiting
  <2>5. req' = [req EXCEPT ![r] = "done"] /\ has' = has
    BY <2>1, <2>2, <2>4, <1>1 DEF Answered, TypeRest
  <2>6. StoreOK(free', queue', ticks') BY <2>2, <1>5
  <2>7. TypeRest' BY <2>1, <2>2, <2>5, <1>1 DEF TypeRest, connVars, endVars
  <2>8. Owners(Parked(free, ticks))'
    BY <2>1, <2>2, <2>3, <2>4, <2>5, <1>1 DEF Owners, TypeRest, connVars
  <2>9. Waiting(Waiters(queue, ticks))'
    BY <2>1, <2>2, <2>3, <2>4, <2>5, <1>1 DEF Waiting, TypeRest
  <2>10. PooledLive' BY <2>2, <1>1 DEF PooledLive, Accepting, connVars
  <2>11. ConnectFor' BY <2>2, <2>5, <1>1 DEF ConnectFor, connVars
  <2>12. ReleasedSet' BY <2>2, <2>5, <1>1 DEF ReleasedSet, connVars
  <2> QED BY <2>6, <2>7, <2>8, <2>9, <2>10, <2>11, <2>12, IInvFromParts
<1>10. CASE t.op = "retry"
  <2> DEFINE r == t.req
  <2>1. r \in Reqs /\ t.conn = None BY <1>3, <1>4, <1>10
  <2>2. getConnection(r, tk)
    BY <1>10, <1>2 DEF RunTick, t, tk
  <2>3. /\ r \in Waiters(queue, ticks) /\ r \notin Waiters(queue, tk)
        /\ Waiters(queue, ticks) = Waiters(queue, tk) \union {r}
        /\ Parked(free, ticks) = Parked(free, tk)
        /\ ConnsOf(tk) = ConnsOf(ticks)
    BY <2>1, <1>3, <1>6, <1>7, NoneAssumption
  <2> HIDE DEF r
  <2>4. /\ has[r] = None
        /\ \A q \in Reqs \ {r} :
            /\ q \in Waiters(queue, tk) <=> req[q] = "waiting" /\ has[q] = None
            /\ req[q] = "holding" => has[q] # None
            /\ req[q] \in {"new", "done"} => has[q] = None
    BY <2>1, <2>3, <1>1 DEF Waiting
  <2> QED BY <2>1, <2>2, <2>3, <2>4, <1>1, <1>5, GetConnectionStep
<1>11. CASE t.op = "reset"
  <2> DEFINE c == t.conn
  <2>1. c \in Conns /\ t.req = None BY <1>3, <1>4, <1>11
  <2>2. /\ handleSuccessfulRelease(c, tk)
        /\ UNCHANGED <<closed, all, connVars, req, has, endVars>>
    BY <1>11, <1>2 DEF RunTick, t, tk
  <2>3. /\ c \notin Parked(free, tk)
        /\ Waiters(queue, ticks) = Waiters(queue, tk)
        /\ Parked(free, ticks) = Parked(free, tk) \union {c}
    BY <2>1, <1>6, <1>7, NoneAssumption
  <2> HIDE DEF c
  <2>4. /\ StoreOK(free', queue', ticks')
        /\ Waiters(queue', ticks') = Waiters(queue, ticks)
        /\ Parked(free', ticks') = Parked(free, ticks)
    BY <2>1, <2>2, <2>3, <1>5, SuccessfulReleaseFacts
  <2>5. TypeRest' BY <2>2, <1>1 DEF TypeRest, connVars, endVars
  <2>6. Owners(Parked(free, ticks))' BY <2>2, <2>4, <1>1 DEF Owners, connVars
  <2>7. Waiting(Waiters(queue, ticks))' BY <2>2, <2>4, <1>1 DEF Waiting
  <2>8. PooledLive' BY <2>2, <1>1 DEF PooledLive, Accepting, connVars
  <2>9. ConnectFor' BY <2>2, <1>1 DEF ConnectFor, connVars
  <2>10. ReleasedSet' BY <2>2, <1>1 DEF ReleasedSet, connVars
  <2> QED BY <2>4, <2>5, <2>6, <2>7, <2>8, <2>9, <2>10, IInvFromParts
<1> QED BY <1>4, <1>8, <1>9, <1>10, <1>11

-----------------------------------------------------------------------------
(* Sockets.                                                                *)

\* A queued Quit changes only the connection it is queued on.
LEMMA StartQuitFacts ==
  ASSUME TypeRest, NEW c \in Conns, NEW a, StartQuit(c, a)
  PROVE  /\ quit' \in [Conns -> {"no", "queued", "done"}]
         /\ \A d \in Conns : d # c => quit'[d] = quit[d]
         /\ quit[c] = "no" => quit'[c] = "no"
         /\ endCb' \in {"none", "waiting", "ok", "err"}
         /\ endCount' \in Nat
<1>1. CASE quit[c] = "queued"
  <2>1. quit' = [quit EXCEPT ![c] = "done"] /\ endCB(1, a)
    BY <1>1 DEF StartQuit
  <2>2. endCb' \in {"none", "waiting", "ok", "err"} /\ endCount' \in Nat
    BY <2>1 DEF endCB, endVars, TypeRest
  <2> QED BY <1>1, <2>1, <2>2 DEF TypeRest
<1>2. CASE quit[c] # "queued"
  BY <1>2 DEF StartQuit, endVars, TypeRest
<1> QED BY <1>1, <1>2

\* A step that leaves the lists alone and ends what c was doing.
LEMMA ConnStep ==
  ASSUME IInv, NEW c \in Conns,
         UNCHANGED <<closed, all, free, queue, ticks, pooled, released>>,
         stream' \in [Conns -> StreamStates],
         quit' \in [Conns -> {"no", "queued", "done"}],
         task' \in [Conns -> {"idle", "connect", "reset"}],
         req' \in [Reqs -> {"new", "waiting", "holding", "done"}],
         has' \in [Reqs -> Conns \union {None}],
         endCb' \in {"none", "waiting", "ok", "err"},
         endCount' \in Nat,
         \A d \in Conns : d # c => /\ stream'[d] = stream[d]
                                  /\ quit'[d] = quit[d]
                                  /\ task'[d] = task[d],
         task'[c] = "idle",
         ~closed /\ pooled[c] => stream'[c] = "open" /\ quit'[c] = "no",
         \A q \in Reqs : has[q] # c => req'[q] = req[q] /\ has'[q] = has[q],
         \A q \in Reqs : has[q] = c =>
            \/ has'[q] = c /\ req'[q] = "holding"
            \/ has'[q] = None /\ req'[q] = "done" /\ closed
  PROVE  IInv'
<1>1. /\ TypeRest /\ StoreOK(free, queue, ticks)
      /\ Owners(Parked(free, ticks)) /\ Waiting(Waiters(queue, ticks))
      /\ PooledLive /\ ConnectFor /\ ReleasedSet
  BY IInvParts
<1>2. StoreOK(free', queue', ticks') BY <1>1
<1>3. TypeRest' BY <1>1 DEF TypeRest
<1>4. Owners(Parked(free, ticks))'
  <2>1. Parked(free, ticks)' = Parked(free, ticks) /\ Parked(free, ticks) \subseteq Conns
    BY <1>1, ListMembers
  <2>2. \A d \in Parked(free, ticks) :
           /\ d # None /\ task[d] = "idle"
           /\ \A q \in Reqs : has[q] # d
    BY <2>1, <1>1, NoneAssumption DEF Owners
  <2>3. \A d \in Parked(free, ticks) : (\A q \in Reqs : has'[q] # d) /\ task'[d] = "idle"
    BY <2>1, <2>2
  <2>4. \A q1, q2 \in Reqs : has'[q1] = has'[q2] /\ has'[q1] # None => q1 = q2
    BY <1>1, NoneAssumption DEF Owners
  <2>5. \A q \in Reqs : has'[q] # None =>
            task'[has'[q]] = IF req'[q] = "waiting" THEN "connect" ELSE "idle"
    BY <1>1, NoneAssumption DEF Owners, TypeRest
  <2> QED BY <2>1, <2>3, <2>4, <2>5 DEF Owners
<1>5. Waiting(Waiters(queue, ticks))'
  <2>1. Waiters(queue, ticks)' = Waiters(queue, ticks) OBVIOUS
  <2> QED BY <2>1, <1>1, NoneAssumption DEF Waiting
<1>6. PooledLive' BY <1>1 DEF PooledLive, Accepting
<1>7. ConnectFor' BY <1>1 DEF ConnectFor
<1>8. ReleasedSet' BY <1>1 DEF ReleasedSet
<1> QED BY <1>2, <1>3, <1>4, <1>5, <1>6, <1>7, <1>8, IInvFromParts

\* connect's callback keeps the invariant.
LEMMA ConnectOkStep ==
  ASSUME IInv, NEW r \in Reqs, NEW c \in Conns, ConnectOk(r, c)
  PROVE  IInv'
<1>1. TypeRest /\ Owners(Parked(free, ticks)) /\ PooledLive
  BY IInvParts
<1>2. /\ has[r] = c
      /\ task' = [task EXCEPT ![c] = "idle"]
      /\ \/ closed /\ req' = [req EXCEPT ![r] = "done"] /\ has' = [has EXCEPT ![r] = None]
         \/ req' = [req EXCEPT ![r] = "holding"] /\ has' = has
      /\ stream' = IF quit[c] = "queued" THEN Shut(c) ELSE stream
      /\ StartQuit(c, all)
      /\ UNCHANGED <<closed, all, free, queue, ticks, pooled, released>>
  BY DEF ConnectOk, Answered
<1>3. /\ stream' \in [Conns -> StreamStates]
      /\ \A d \in Conns : d # c => stream'[d] = stream[d]
      /\ quit[c] = "no" => stream' = stream
  BY <1>1, <1>2, ShutFacts DEF TypeRest
<1>4. \A q \in Reqs : has[q] = c => q = r
  BY <1>1, <1>2, NoneAssumption DEF Owners
<1>5. /\ req' \in [Reqs -> {"new", "waiting", "holding", "done"}]
      /\ has' \in [Reqs -> Conns \union {None}]
      /\ task' \in [Conns -> {"idle", "connect", "reset"}]
      /\ \A d \in Conns : d # c => task'[d] = task[d]
      /\ task'[c] = "idle"
  BY <1>1, <1>2 DEF TypeRest
<1>6. ~closed /\ pooled[c] => stream'[c] = "open" /\ quit'[c] = "no"
  BY <1>1, <1>2, <1>3, StartQuitFacts DEF PooledLive, Accepting
<1>7. /\ \A q \in Reqs : has[q] # c => req'[q] = req[q] /\ has'[q] = has[q]
      /\ \A q \in Reqs : has[q] = c =>
            \/ has'[q] = c /\ req'[q] = "holding"
            \/ has'[q] = None /\ req'[q] = "done" /\ closed
  BY <1>1, <1>2, <1>4 DEF TypeRest
<1> QED BY <1>1, <1>2, <1>3, <1>5, <1>6, <1>7, StartQuitFacts, ConnStep

\* 'close' of a socket that this side is closing keeps the invariant.
LEMMA StreamGoneStep ==
  ASSUME IInv, NEW c \in Conns, StreamGone(c)
  PROVE  IInv'
<1>1. TypeRest /\ Owners(Parked(free, ticks)) /\ Waiting(Waiters(queue, ticks))
      /\ PooledLive /\ ConnectFor
  BY IInvParts
<1>2. /\ stream[c] = "closing"
      /\ stream' = [stream EXCEPT ![c] = "dead"]
      /\ task' = [task EXCEPT ![c] = "idle"]
      /\ UNCHANGED <<closed, all, free, queue, ticks, pooled, released, quit, req, has>>
      /\ UNCHANGED endVars
  BY DEF StreamGone
<1>3. task[c] # "connect" BY <1>1, <1>2 DEF ConnectFor
<1>4. \A q \in Reqs : has[q] = c => req[q] = "holding"
  BY <1>1, <1>3, NoneAssumption DEF Owners, Waiting, TypeRest
<1>5. ~(~closed /\ pooled[c])
  BY <1>1, <1>2 DEF PooledLive, Accepting
<1>6. /\ stream' \in [Conns -> StreamStates]
      /\ task' \in [Conns -> {"idle", "connect", "reset"}]
      /\ \A d \in Conns : d # c => stream'[d] = stream[d] /\ task'[d] = task[d]
      /\ task'[c] = "idle"
  BY <1>1, <1>2 DEF TypeRest, StreamStates
<1>7. /\ quit' \in [Conns -> {"no", "queued", "done"}]
      /\ req' \in [Reqs -> {"new", "waiting", "holding", "done"}]
      /\ has' \in [Reqs -> Conns \union {None}]
      /\ endCb' \in {"none", "waiting", "ok", "err"}
      /\ endCount' \in Nat
  BY <1>1, <1>2 DEF TypeRest, endVars
<1> QED BY <1>2, <1>4, <1>5, <1>6, <1>7, ConnStep

\* The start of a queued Quit keeps the invariant.
LEMMA QuitRunsStep ==
  ASSUME IInv, NEW c \in Conns, QuitRuns(c)
  PROVE  IInv'
<1>1. TypeRest /\ Owners(Parked(free, ticks)) /\ Waiting(Waiters(queue, ticks))
      /\ PooledLive
  BY IInvParts
<1>2. /\ quit[c] = "queued" /\ task[c] = "idle"
      /\ StartQuit(c, all)
      /\ stream' = Shut(c)
      /\ UNCHANGED <<closed, all, free, queue, ticks, pooled, released, task, req, has>>
  BY DEF QuitRuns
<1>3. \A q \in Reqs : has[q] = c => req[q] = "holding"
  BY <1>1, <1>2, NoneAssumption DEF Owners, Waiting, TypeRest
<1>4. ~(~closed /\ pooled[c])
  BY <1>1, <1>2 DEF PooledLive, Accepting
<1>5. /\ stream' \in [Conns -> StreamStates]
      /\ \A d \in Conns : d # c => stream'[d] = stream[d]
  BY <1>1, <1>2, ShutFacts DEF TypeRest
<1>6. /\ task' \in [Conns -> {"idle", "connect", "reset"}]
      /\ req' \in [Reqs -> {"new", "waiting", "holding", "done"}]
      /\ has' \in [Reqs -> Conns \union {None}]
  BY <1>1, <1>2 DEF TypeRest
<1> QED BY <1>1, <1>2, <1>3, <1>4, <1>5, <1>6, StartQuitFacts, ConnStep

\* The end of a pool.query keeps the invariant.
LEMMA QueryEndStep ==
  ASSUME IInv, NEW r \in Reqs, NEW c \in Conns, NEW readOnly \in BOOLEAN,
         QueryEnd(r, c, readOnly)
  PROVE  IInv'
<1>1. TypeRest /\ Owners(Parked(free, ticks)) /\ Waiting(Waiters(queue, ticks))
      /\ PooledLive
  BY IInvParts
<1>2. req[r] = "holding" /\ has[r] = c /\ Answered(r) /\ UNCHANGED closed
  BY DEF QueryEnd
<1>3. task[c] = "idle" BY <1>1, <1>2, NoneAssumption DEF Owners
<1>4. CASE release(c) /\ UNCHANGED <<quit, endVars>>
  BY <1>2, <1>4, ReleaseStep
<1>5. CASE removeFromPool(c) /\ stream' = Shut(c)
           /\ UNCHANGED <<released, task, quit, endVars>>
  <2>1. /\ stream' \in [Conns -> StreamStates]
        /\ \A d \in Conns : d # c => stream'[d] = stream[d]
    BY <1>1, <1>5, ShutFacts DEF TypeRest
  <2> QED BY <1>2, <1>3, <1>5, <2>1, DropStep
<1>6. CASE closed /\ StartQuit(c, all) /\ stream' = Shut(c)
           /\ UNCHANGED <<all, free, queue, ticks, pooled, released, task>>
  <2>1. /\ stream' \in [Conns -> StreamStates]
        /\ \A d \in Conns : d # c => stream'[d] = stream[d]
    BY <1>1, <1>6, ShutFacts DEF TypeRest
  <2>2. req' = [req EXCEPT ![r] = "done"] /\ has' = [has EXCEPT ![r] = None]
    BY <1>2 DEF Answered
  <2>3. \A q \in Reqs : has[q] = c => q = r
    BY <1>1, <1>2, NoneAssumption DEF Owners
  <2>4. /\ task' \in [Conns -> {"idle", "connect", "reset"}]
        /\ req' \in [Reqs -> {"new", "waiting", "holding", "done"}]
        /\ has' \in [Reqs -> Conns \union {None}]
    BY <1>1, <1>6, <2>2 DEF TypeRest
  <2>5. /\ \A q \in Reqs : has[q] # c => req'[q] = req[q] /\ has'[q] = has[q]
        /\ \A q \in Reqs : has[q] = c => has'[q] = None /\ req'[q] = "done"
    BY <1>1, <1>2, <2>2, <2>3 DEF TypeRest
  <2> QED BY <1>1, <1>2, <1>3, <1>6, <2>1, <2>4, <2>5, StartQuitFacts, ConnStep
<1> QED BY <1>4, <1>5, <1>6 DEF QueryEnd

\* ResetFailed(c) takes c out of the pool and leaves the idle list alone.
LEMMA ResetFailedFacts ==
  ASSUME StoreOK(free, queue, ticks), NEW c \in Conns, ResetFailed(c)
  PROVE  /\ StoreOK(free', queue', ticks')
         /\ Waiters(queue', ticks') = Waiters(queue, ticks)
         /\ Parked(free', ticks') = Parked(free, ticks)
         /\ pooled' = [pooled EXCEPT ![c] = FALSE]
         /\ all' = all \ {c}
<1>1. /\ ListsOK(queue', ticks')
      /\ Waiters(queue', ticks') = Waiters(queue, ticks)
      /\ ConnsOf(ticks') = ConnsOf(ticks)
      /\ queue = <<>> => queue' = <<>>
  BY ServeNextFacts DEF StoreOK, ResetFailed
<1> QED BY <1>1 DEF StoreOK, Parked, ResetFailed

\* The failure of a socket, told by _notifyError, keeps the invariant.
LEMMA StreamFailStep ==
  ASSUME IInv, NEW c \in Conns, StreamFail(c)
  PROVE  IInv'
<1>1. /\ TypeRest /\ StoreOK(free, queue, ticks)
      /\ Owners(Parked(free, ticks)) /\ Waiting(Waiters(queue, ticks))
      /\ PooledLive /\ ConnectFor /\ ReleasedSet
  BY IInvParts
<1>2. /\ stream' = [stream EXCEPT ![c] = "dead"]
      /\ task' = [task EXCEPT ![c] = "idle"]
      /\ UNCHANGED <<closed, released, endCount>>
      /\ IF task[c] = "reset" THEN ResetFailed(c) ELSE removeFromPool(c)
  BY DEF StreamFail
<1>3. /\ StoreOK(free', queue', ticks')
      /\ Waiters(queue', ticks') = Waiters(queue, ticks)
      /\ Parked(free', ticks') \subseteq Parked(free, ticks)
  BY <1>1, <1>2, ResetFailedFacts, RemoveFacts
<1>4. \/ (~pooled[c] \/ closed) /\ pooled' = pooled /\ all' = all
      \/ pooled' = [pooled EXCEPT ![c] = FALSE] /\ all' = all \ {c}
  BY <1>1, <1>2 DEF removeFromPool, ResetFailed
<1>5. /\ req' \in [Reqs -> {"new", "waiting", "holding", "done"}]
      /\ has' \in [Reqs -> Conns \union {None}]
      /\ \A q \in Reqs : \/ req'[q] = req[q] /\ has'[q] = has[q]
                            /\ (has[q] = c => req[q] # "waiting")
                         \/ has[q] = c /\ req'[q] = "done" /\ has'[q] = None
  BY <1>1 DEF StreamFail, Holders, TypeRest
<1>6. /\ quit' \in [Conns -> {"no", "queued", "done"}]
      /\ \A d \in Conns : d # c => quit'[d] = quit[d]
      /\ endCb' \in {"none", "waiting", "ok", "err"}
  BY <1>1 DEF StreamFail, TypeRest
<1>7. TypeRest'
  <2>1. pooled' \in [Conns -> BOOLEAN] /\ all' \subseteq Conns
    BY <1>1, <1>4 DEF TypeRest
  <2>2. /\ stream' \in [Conns -> StreamStates]
        /\ task' \in [Conns -> {"idle", "connect", "reset"}]
    BY <1>1, <1>2 DEF TypeRest, StreamStates
  <2> QED BY <2>1, <2>2, <1>1, <1>2, <1>5, <1>6 DEF TypeRest
<1>8. Owners(Parked(free, ticks))'
  <2>1. Parked(free, ticks) \subseteq Conns
    BY <1>1, ListMembers
  <2>2. \A d \in Parked(free, ticks) :
           /\ d # None /\ task[d] = "idle"
           /\ \A q \in Reqs : has[q] # d
    BY <2>1, <1>1, NoneAssumption DEF Owners
  <2>3. \A d \in Parked(free', ticks') : (\A q \in Reqs : has'[q] # d) /\ task'[d] = "idle"
    BY <2>1, <2>2, <1>1, <1>2, <1>3, <1>5 DEF TypeRest
  <2>4. \A q1, q2 \in Reqs : has'[q1] = has'[q2] /\ has'[q1] # None => q1 = q2
    BY <1>1, <1>5 DEF Owners
  <2>5. \A q \in Reqs : has'[q] # None =>
            task'[has'[q]] = IF req'[q] = "waiting" THEN "connect" ELSE "idle"
    BY <1>1, <1>2, <1>5, NoneAssumption DEF Owners, TypeRest
  <2> QED BY <2>3, <2>4, <2>5 DEF Owners
<1>9. Waiting(Waiters(queue, ticks))'
  BY <1>1, <1>3, <1>5, NoneAssumption DEF Waiting
<1>10. PooledLive'
  BY <1>1, <1>2, <1>4, <1>6 DEF PooledLive, TypeRest, Accepting
<1>11. ConnectFor'
  BY <1>1, <1>2, <1>5 DEF ConnectFor, TypeRest
<1>12. ReleasedSet'
  BY <1>1, <1>2, <1>4, <1>5 DEF ReleasedSet, TypeRest
<1> QED BY <1>3, <1>7, <1>8, <1>9, <1>10, <1>11, <1>12, IInvFromParts

\* The answer to a reset on release keeps the invariant.
LEMMA ResetReplyStep ==
  ASSUME IInv, NEW c \in Conns, NEW ok \in BOOLEAN, ResetReply(c, ok)
  PROVE  IInv'
<1>1. /\ TypeRest /\ StoreOK(free, queue, ticks)
      /\ Owners(Parked(free, ticks)) /\ Waiting(Waiters(queue, ticks))
      /\ PooledLive /\ ConnectFor /\ ReleasedSet
  BY IInvParts
<1>2. /\ task[c] = "reset"
      /\ task' = [task EXCEPT ![c] = "idle"]
      /\ stream' = IF ~ok \/ quit[c] = "queued" THEN Shut(c) ELSE stream
      /\ StartQuit(c, all')
      /\ UNCHANGED <<closed, released, req, has>>
      /\ IF ok THEN /\ ticks' = Append(ticks, Tick("reset", None, c))
                    /\ UNCHANGED <<all, free, queue, pooled>>
               ELSE ResetFailed(c)
  BY DEF ResetReply
<1>3. c \notin Parked(free, ticks) /\ \A q \in Reqs : has[q] # c
  BY <1>1, <1>2, NoneAssumption DEF Owners
<1>4. /\ StoreOK(free', queue', ticks')
      /\ Waiters(queue', ticks') = Waiters(queue, ticks)
      /\ Parked(free', ticks') \subseteq Parked(free, ticks) \union {c}
  <2>1. CASE ok
    <3> DEFINE k == Tick("reset", None, c)
    <3>1. /\ k \in Ticks /\ k.req = None /\ k.conn = c /\ k.op = "reset" /\ c # None
      BY NoneAssumption DEF Tick, Ticks
    <3>2. k.req \notin ReqsOf(ticks) /\ k.conn \notin ConnsOf(ticks)
      BY <3>1, <1>3 DEF ReqsOf, Parked
    <3> HIDE DEF k
    <3>3. /\ ticks' = Append(ticks, k) /\ UNCHANGED <<free, queue>>
      BY <2>1, <1>2 DEF k
    <3>4. /\ ticks' \in Seq(Ticks)
          /\ TickShape(ticks') /\ OnePerReq(ticks') /\ OnePerConn(ticks')
          /\ ReqsOf(ticks') = ReqsOf(ticks) \union ({k.req} \ {None})
          /\ ConnsOf(ticks') = ConnsOf(ticks) \union ({k.conn} \ {None})
      BY <3>1, <3>2, <3>3, <1>1, TickAppend DEF StoreOK, ListsOK
    <3>5. ReqsOf(ticks') = ReqsOf(ticks) /\ ConnsOf(ticks') = ConnsOf(ticks) \union {c}
      BY <3>1, <3>4
    <3> QED BY <3>3, <3>4, <3>5, <1>1, <1>3 DEF StoreOK, ListsOK, Waiters, Parked
  <2>2. CASE ~ok
    BY <2>2, <1>1, <1>2, ResetFailedFacts
  <2> QED BY <2>1, <2>2
<1>5. \/ ok /\ pooled' = pooled /\ all' = all
      \/ pooled' = [pooled EXCEPT ![c] = FALSE] /\ all' = all \ {c}
  BY <1>2 DEF ResetFailed
<1>6. /\ stream' \in [Conns -> StreamStates]
      /\ \A d \in Conns : d # c => stream'[d] = stream[d]
      /\ ok /\ quit[c] = "no" => stream' = stream
  BY <1>1, <1>2, ShutFacts DEF TypeRest
<1>7. /\ quit' \in [Conns -> {"no", "queued", "done"}]
      /\ \A d \in Conns : d # c => quit'[d] = quit[d]
      /\ quit[c] = "no" => quit'[c] = "no"
      /\ endCb' \in {"none", "waiting", "ok", "err"}
      /\ endCount' \in Nat
  BY <1>1, <1>2, StartQuitFacts
<1>8. TypeRest'
  <2>1. pooled' \in [Conns -> BOOLEAN] /\ all' \subseteq Conns
    BY <1>1, <1>5 DEF TypeRest
  <2>2. task' \in [Conns -> {"idle", "connect", "reset"}]
    BY <1>1, <1>2 DEF TypeRest
  <2> QED BY <2>1, <2>2, <1>1, <1>2, <1>6, <1>7 DEF TypeRest
<1>9. Owners(Parked(free, ticks))'
  <2>1. Parked(free, ticks) \subseteq Conns
    BY <1>1, ListMembers
  <2>2. \A d \in Parked(free', ticks') : (\A q \in Reqs : has'[q] # d) /\ task'[d] = "idle"
    BY <2>1, <1>1, <1>2, <1>3, <1>4 DEF Owners, TypeRest
  <2>3. \A q \in Reqs : has'[q] # None =>
            task'[has'[q]] = IF req'[q] = "waiting" THEN "connect" ELSE "idle"
    BY <1>1, <1>2, <1>3 DEF Owners, TypeRest
  <2> QED BY <2>2, <2>3, <1>1, <1>2 DEF Owners
<1>10. Waiting(Waiters(queue, ticks))'
  BY <1>1, <1>2, <1>4 DEF Waiting
<1>11. PooledLive'
  BY <1>1, <1>2, <1>5, <1>6, <1>7 DEF PooledLive, TypeRest, Accepting
<1>12. ConnectFor'
  BY <1>1, <1>2, <1>6 DEF ConnectFor, TypeRest
<1>13. ReleasedSet'
  BY <1>1, <1>2, <1>5 DEF ReleasedSet, TypeRest
<1> QED BY <1>4, <1>8, <1>9, <1>10, <1>11, <1>12, <1>13, IInvFromParts

-----------------------------------------------------------------------------
(* pool.end() and the idle timer.                                          *)

\* pool.end() turns the queued requests into callbacks.
LEMMA FlushQueue ==
  ASSUME NEW q, NEW t, ListsOK(q, t)
  PROVE  LET u == t \o [i \in 1 .. Len(q) |-> FailTick(q[i])] IN
         /\ ListsOK(<<>>, u)
         /\ Waiters(<<>>, u) = Waiters(q, t)
         /\ ConnsOf(u) = ConnsOf(t)
<1> DEFINE m == Len(t)
           n == Len(q)
           w == [i \in 1 .. n |-> FailTick(q[i])]
           u == t \o w
<1>1. /\ m \in Nat /\ n \in Nat
      /\ DOMAIN t = 1 .. m /\ DOMAIN q = 1 .. n
      /\ q \in Seq(Reqs) /\ t \in Seq(Ticks)
      /\ TickShape(t) /\ Distinct(q) /\ OnePerReq(t) /\ OnePerConn(t)
      /\ Elems(q) \intersect ReqsOf(t) = {}
  BY DEF ListsOK
<1>2. \A i \in 1 .. n : /\ q[i] \in Reqs /\ w[i] = FailTick(q[i]) /\ w[i] \in Ticks
                        /\ w[i].op = "fail" /\ w[i].req = q[i] /\ w[i].conn = None
  BY <1>1 DEF FailTick, Tick, Ticks
<1>3. w \in Seq(Ticks) /\ Len(w) = n
  BY <1>1, <1>2
<1> HIDE DEF w
<1>c. /\ u \in Seq(Ticks)
      /\ Len(u) = Len(t) + Len(w)
      /\ \A i \in 1 .. Len(t) + Len(w) : u[i] = IF i <= Len(t) THEN t[i]
                                               ELSE w[i - Len(t)]
  <2> HIDE DEF m, n
  <2> QED BY <1>1, <1>3, ConcatProperties
<1>m. m = Len(t) OBVIOUS
<1> HIDE DEF u, m, n
<1>4. /\ u \in Seq(Ticks)
      /\ Len(u) = m + n
      /\ \A i \in 1 .. m + n : u[i] = IF i <= m THEN t[i] ELSE w[i - m]
  BY <1>3, <1>c, <1>m
<1>5. /\ DOMAIN u = 1 .. m + n
      /\ \A i \in 1 .. m + n : i \in 1 .. m \/ i - m \in 1 .. n
      /\ \A i \in 1 .. m : i \in 1 .. m + n /\ u[i] = t[i]
  BY <1>1, <1>4
<1>6. \A i \in 1 .. n : /\ i + m \in 1 .. m + n
                        /\ u[i + m].req = q[i] /\ u[i + m].conn = None
                        /\ u[i + m].op = "fail"
  <2> TAKE i \in 1 .. n
  <2>1. i + m \in 1 .. m + n /\ ~(i + m <= m) /\ (i + m) - m = i BY <1>1
  <2>2. u[i + m] = w[i] BY <2>1, <1>4
  <2> QED BY <2>1, <2>2, <1>2
<1>7. \A i \in 1 .. m + n :
        \/ i \in 1 .. m /\ u[i] = t[i]
        \/ /\ i \notin 1 .. m /\ i - m \in 1 .. n
           /\ u[i].req = q[i - m] /\ u[i].conn = None /\ u[i].op = "fail"
  <2> TAKE i \in 1 .. m + n
  <2>1. CASE i \in 1 .. m BY <2>1, <1>5
  <2>2. CASE i \notin 1 .. m
    <3>1. i - m \in 1 .. n /\ (i - m) + m = i BY <2>2, <1>1, <1>5
    <3> QED BY <2>2, <3>1, <1>6
  <2> QED BY <2>1, <2>2
<1>8. TickShape(u)
  BY <1>1, <1>2, <1>5, <1>7, NoneAssumption DEF TickShape
<1>9. OnePerConn(u)
  BY <1>1, <1>5, <1>7 DEF OnePerConn
<1>10. ConnsOf(u) = ConnsOf(t)
  BY <1>1, <1>5, <1>7 DEF ConnsOf
<1>11. ReqsOf(u) = ReqsOf(t) \union Elems(q)
  <2>1. ASSUME NEW x \in ReqsOf(u) PROVE x \in ReqsOf(t) \union Elems(q)
    BY <1>1, <1>5, <1>7 DEF ReqsOf, Elems
  <2>2. ASSUME NEW x \in ReqsOf(t) PROVE x \in ReqsOf(u)
    BY <1>1, <1>5 DEF ReqsOf
  <2>3. ASSUME NEW x \in Elems(q) PROVE x \in ReqsOf(u)
    <3>1. PICK i \in 1 .. n : x = q[i] BY <1>1 DEF Elems
    <3>2. i + m \in DOMAIN u /\ u[i + m].req = x /\ x # None
      BY <3>1, <1>2, <1>5, <1>6, NoneAssumption
    <3> QED BY <3>2 DEF ReqsOf
  <2> QED BY <2>1, <2>2, <2>3
<1>12. OnePerReq(u)
  <2> SUFFICES ASSUME NEW i \in 1 .. m + n, NEW j \in 1 .. m + n,
                      u[i].req = u[j].req, u[i].req # None
               PROVE  i = j
    BY <1>5 DEF OnePerReq
  <2>1. CASE i \in 1 .. m /\ j \in 1 .. m
    BY <2>1, <1>1, <1>5 DEF OnePerReq
  <2>2. CASE i \in 1 .. m /\ j \notin 1 .. m
    BY <2>2, <1>1, <1>7 DEF ReqsOf, Elems
  <2>3. CASE i \notin 1 .. m /\ j \in 1 .. m
    BY <2>3, <1>1, <1>7 DEF ReqsOf, Elems
  <2>4. CASE i \notin 1 .. m /\ j \notin 1 .. m
    <3>1. i - m \in 1 .. n /\ j - m \in 1 .. n /\ q[i - m] = q[j - m]
      BY <2>4, <1>7
    <3>2. i - m = j - m BY <3>1, <1>1 DEF Distinct
    <3> QED BY <3>2, <1>1
  <2> QED BY <2>1, <2>2, <2>3, <2>4
<1>13. Elems(<<>>) = {} /\ Distinct(<<>>) /\ <<>> \in Seq(Reqs)
  BY DEF Elems, Distinct
<1> QED BY <1>4, <1>8, <1>9, <1>10, <1>11, <1>12, <1>13 DEF ListsOK, Waiters, u, w, n

\* pool.end() keeps the invariant.
LEMMA EndPoolStep ==
  ASSUME IInv, EndPool
  PROVE  IInv'
<1>1. /\ TypeRest /\ StoreOK(free, queue, ticks)
      /\ Owners(Parked(free, ticks)) /\ Waiting(Waiters(queue, ticks))
      /\ PooledLive /\ ConnectFor /\ ReleasedSet
  BY IInvParts
<1>2. /\ closed' = TRUE
      /\ queue' = <<>>
      /\ ticks' = ticks \o [i \in 1 .. Len(queue) |-> FailTick(queue[i])]
      /\ UNCHANGED <<all, free, pooled, released, task, req, has>>
  BY DEF EndPool
<1>3. PICK idle \in SUBSET {c \in all : /\ task[c] = "idle"
                                       /\ Holders(c) \intersect Queries = {}} :
        /\ quit' = [c \in Conns |-> IF c \in idle THEN "done"
                                    ELSE IF c \in all THEN "queued"
                                    ELSE quit[c]]
        /\ stream' = [c \in Conns |-> IF c \in idle THEN "closing" ELSE stream[c]]
        /\ endCount' = Cardinality(idle)
        /\ endCb' = IF idle = all THEN "ok" ELSE "waiting"
  BY DEF EndPool
<1>4. /\ ListsOK(queue', ticks')
      /\ Waiters(queue', ticks') = Waiters(queue, ticks)
      /\ ConnsOf(ticks') = ConnsOf(ticks)
  BY <1>1, <1>2, FlushQueue DEF StoreOK
<1>5. StoreOK(free', queue', ticks') /\ Parked(free', ticks') = Parked(free, ticks)
  BY <1>1, <1>2, <1>4 DEF StoreOK, Parked
<1>6. endCount' \in Nat
  <2>1. idle \subseteq Conns BY <1>1, <1>3 DEF TypeRest
  <2>2. IsFiniteSet(idle) BY <2>1, FiniteAssumption, FS_Subset
  <2> QED BY <2>2, <1>3, FS_CardinalityType
<1>7. TypeRest'
  <2>1. /\ quit' \in [Conns -> {"no", "queued", "done"}]
        /\ stream' \in [Conns -> StreamStates]
    BY <1>1, <1>3 DEF TypeRest, StreamStates
  <2>2. endCb' \in {"none", "waiting", "ok", "err"} BY <1>3
  <2> QED BY <2>1, <2>2, <1>1, <1>2, <1>6 DEF TypeRest
<1>8. Owners(Parked(free, ticks))'
  BY <1>1, <1>2, <1>5 DEF Owners
<1>9. Waiting(Waiters(queue, ticks))'
  BY <1>1, <1>2, <1>4 DEF Waiting
<1>10. PooledLive' /\ ReleasedSet'
  BY <1>2 DEF PooledLive, ReleasedSet
<1>11. ConnectFor'
  BY <1>1, <1>2, <1>3 DEF ConnectFor
<1> QED BY <1>5, <1>7, <1>8, <1>9, <1>10, <1>11, IInvFromParts

\* The idle timer runs while connections are idle, so while nobody waits.
LEMMA IdleTimerStep ==
  ASSUME IInv, NEW k \in 1 .. Len(free), IdleTimer(k)
  PROVE  IInv'
<1> DEFINE gone == {free[i] : i \in 1 .. k}
           n == IF k < Len(queue) THEN k ELSE Len(queue)
<1>1. /\ TypeRest /\ StoreOK(free, queue, ticks)
      /\ Owners(Parked(free, ticks)) /\ Waiting(Waiters(queue, ticks))
      /\ PooledLive /\ ConnectFor /\ ReleasedSet
  BY IInvParts
<1>2. /\ ticks = <<>> /\ ~closed
      /\ pooled' = [c \in Conns |-> pooled[c] /\ c \notin gone]
      /\ stream' = [c \in Conns |-> IF c \in gone THEN "closing" ELSE stream[c]]
      /\ all' = all \ gone
      /\ free' = SubSeq(free, k + 1, Len(free))
      /\ ticks' = [i \in 1 .. n |-> Tick("retry", queue[i], None)]
      /\ queue' = SubSeq(queue, n + 1, Len(queue))
      /\ UNCHANGED <<closed, released, task, quit, req, has, endVars>>
  BY DEF IdleTimer
<1>3. free \in Seq(Conns) /\ Distinct(free) /\ free # <<>> /\ queue = <<>>
  BY <1>1 DEF StoreOK
<1>4. n = 0 BY <1>3
<1>5. ticks' = <<>> /\ queue' = <<>> BY <1>2, <1>3, <1>4
<1> HIDE DEF n
<1>6. /\ free' \in Seq(Conns) /\ Distinct(free')
      /\ Elems(free') = Elems(free) \ gone
  BY <1>2, <1>3, DropFacts
<1>7. gone \subseteq Elems(free)
  <2>1. DOMAIN free = 1 .. Len(free) /\ Len(free) \in Nat BY <1>3
  <2> QED BY <2>1 DEF Elems
<1> HIDE DEF gone
<1>8. /\ StoreOK(free', queue', ticks')
      /\ Waiters(queue', ticks') = Waiters(queue, ticks)
      /\ Parked(free', ticks') \subseteq Parked(free, ticks)
  BY <1>1, <1>2, <1>3, <1>5, <1>6 DEF StoreOK, Waiters, Parked
<1>9. gone \subseteq Conns /\ \A c \in gone : task[c] = "idle"
  BY <1>1, <1>7, ListMembers DEF Owners, Parked
<1>10. TypeRest'
  <2>1. pooled' \in [Conns -> BOOLEAN] /\ all' \subseteq Conns
    BY <1>1, <1>2 DEF TypeRest
  <2>2. stream' \in [Conns -> StreamStates]
    BY <1>1, <1>2 DEF TypeRest, StreamStates
  <2> QED BY <2>1, <2>2, <1>1, <1>2 DEF TypeRest, endVars
<1>11. Owners(Parked(free, ticks))'
  BY <1>1, <1>2, <1>8 DEF Owners
<1>12. Waiting(Waiters(queue, ticks))'
  BY <1>1, <1>2, <1>8 DEF Waiting
<1>13. PooledLive'
  BY <1>1, <1>2 DEF PooledLive, TypeRest, Accepting
<1>14. ConnectFor'
  BY <1>1, <1>2, <1>9 DEF ConnectFor
<1>15. ReleasedSet'
  BY <1>1, <1>2 DEF ReleasedSet, TypeRest
<1> QED BY <1>8, <1>10, <1>11, <1>12, <1>13, <1>14, <1>15, IInvFromParts

-----------------------------------------------------------------------------
(* Every step.                                                             *)

\* A step that changes nothing.
LEMMA Unchanged ==
  ASSUME IInv, UNCHANGED vars
  PROVE  IInv'
BY DEF IInv, vars, connVars, endVars, TypeOK, NoIdleWhileQueued, OneOwner,
       RequestOnce, PooledLive, ConnectHeld, ReleasedGuards, Accepting, Holders

\* pool.getConnection, query and execute keep the invariant.
LEMMA RequestStep ==
  ASSUME IInv, NEW r \in Reqs, Request(r)
  PROVE  IInv'
<1>1. /\ TypeRest /\ StoreOK(free, queue, ticks)
      /\ Owners(Parked(free, ticks)) /\ Waiting(Waiters(queue, ticks))
      /\ PooledLive /\ ConnectFor /\ ReleasedSet
  BY IInvParts
<1>2. req[r] \in {"new", "done"} /\ getConnection(r, ticks)
  BY DEF Request
<1>3. has[r] = None /\ r \notin Waiters(queue, ticks)
  BY <1>1, <1>2 DEF Waiting
<1> QED BY <1>1, <1>2, <1>3, GetConnectionStep DEF Waiting

\* connection.destroy() by the holder keeps the invariant.
LEMMA DestroyStep ==
  ASSUME IInv, NEW r \in Reqs, NEW c \in Conns,
         req[r] = "holding", has[r] = c, Answered(r),
         removeFromPool(c), stream' = Shut(c),
         UNCHANGED <<closed, released, task, quit, endVars>>
  PROVE  IInv'
<1>1. TypeRest /\ Owners(Parked(free, ticks)) BY IInvParts
<1>2. task[c] = "idle" BY <1>1, NoneAssumption DEF Owners
<1>3. /\ stream' \in [Conns -> StreamStates]
      /\ \A d \in Conns : d # c => stream'[d] = stream[d]
  BY <1>1, ShutFacts DEF TypeRest
<1> QED BY <1>2, <1>3, DropStep

\* connection.destroy() after giving the connection back keeps the invariant.
LEMMA StaleDestroyStep ==
  ASSUME IInv, NEW c \in Conns, StaleDestroy(c)
  PROVE  IInv'
<1>1. TypeRest /\ ConnectFor BY IInvParts
<1>2. /\ removeFromPool(c) /\ stream' = Shut(c)
      /\ UNCHANGED <<closed, released, task, quit, req, has, endVars>>
      /\ \A r \in Reqs : has[r] # c
  BY DEF StaleDestroy, GivenBack, Holders
<1>3. task[c] # "connect" BY <1>1, <1>2 DEF ConnectFor
<1>4. /\ stream' \in [Conns -> StreamStates]
      /\ \A d \in Conns : d # c => stream'[d] = stream[d]
  BY <1>1, <1>2, ShutFacts DEF TypeRest
<1> QED BY <1>2, <1>3, <1>4, DropStep

\* 'end' of a socket keeps the invariant.
LEMMA StreamEndStep ==
  ASSUME IInv, NEW c \in Conns, StreamEnd(c)
  PROVE  IInv'
<1>1. TypeRest BY IInvParts
<1>2. /\ removeFromPool(c) /\ stream' = [stream EXCEPT ![c] = "fin"]
      /\ UNCHANGED <<closed, released, task, quit, req, has, endVars>>
  BY DEF StreamEnd
<1>3. /\ stream' \in [Conns -> StreamStates]
      /\ \A d \in Conns : d # c => stream'[d] = stream[d]
      /\ stream'[c] = "fin"
  BY <1>1, <1>2 DEF TypeRest, StreamStates
<1> QED BY <1>2, <1>3, DropStep

\* pool.releaseConnection by the holder of c, when nobody calls release() on
\* a connection that was given back.
LEMMA ReleaseViaPoolStep ==
  ASSUME IInv, WellUsed, NEW r \in Reqs, NEW c \in Conns, ReleaseViaPool(r, c)
  PROVE  IInv'
<1>1. TypeRest BY IInvParts
<1>2. "staleRelease" \notin Calls BY DEF WellUsed, ReleaseViaPool
<1>3. /\ req[r] = "holding" /\ has[r] = c /\ Answered(r) /\ releaseConnection(c)
      /\ UNCHANGED <<closed, released, quit, endVars>>
  BY DEF ReleaseViaPool, Holds
<1>4. released' \in [Conns -> BOOLEAN] BY <1>1, <1>3 DEF TypeRest
<1> QED BY <1>2, <1>3, <1>4, GiveBack

\* connection.end() by the holder keeps the invariant.
LEMMA EndConnStep ==
  ASSUME IInv, NEW r \in Reqs, NEW c \in Conns, EndConn(r, c)
  PROVE  IInv'
<1>1. req[r] = "holding" /\ has[r] = c /\ Answered(r) /\ UNCHANGED <<closed, quit, endVars>>
  BY DEF EndConn, Holds
<1>2. CASE removeFromPool(c) /\ stream' = Shut(c) /\ UNCHANGED <<released, task>>
  BY <1>1, <1>2, DestroyStep
<1>3. CASE release(c)
  BY <1>1, <1>3, ReleaseStep
<1> QED BY <1>2, <1>3 DEF EndConn

\* The application's calls keep the invariant.
LEMMA AppStep ==
  ASSUME WellUsed, IInv, AppNext
  PROVE  IInv'
<1>1. ASSUME NEW r \in Reqs, Request(r) PROVE IInv'
  BY <1>1, RequestStep
<1>2. ASSUME NEW r \in Reqs, NEW c \in Conns, Release(r, c) PROVE IInv'
  BY <1>2, ReleaseStep DEF Release, Holds
<1>3. ASSUME NEW r \in Reqs, NEW c \in Conns, ReleaseViaPool(r, c) PROVE IInv'
  BY <1>3, ReleaseViaPoolStep
<1>4. ASSUME NEW r \in Reqs, NEW c \in Conns, Destroy(r, c) PROVE IInv'
  BY <1>4, DestroyStep DEF Destroy, Holds
<1>5. ASSUME NEW r \in Reqs, NEW c \in Conns, EndConn(r, c) PROVE IInv'
  BY <1>5, EndConnStep
<1>6. ASSUME NEW c \in Conns, StaleRelease(c) PROVE IInv'
  <2>1. UNCHANGED vars BY <1>6, StaleReleaseIdle
  <2> QED BY <2>1, Unchanged
<1>7. ASSUME NEW c \in Conns, StaleDestroy(c) PROVE IInv'
  BY <1>7, StaleDestroyStep
<1>8. ASSUME EndPool PROVE IInv'
  BY <1>8, EndPoolStep
<1> QED BY <1>1, <1>2, <1>3, <1>4, <1>5, <1>6, <1>7, <1>8 DEF AppNext

\* The events of sockets and of the idle timer keep the invariant.
LEMMA StreamStep ==
  ASSUME IInv, StreamNext
  PROVE  IInv'
<1>1. ASSUME NEW r \in Reqs, NEW c \in Conns, ConnectOk(r, c) PROVE IInv'
  BY <1>1, ConnectOkStep
<1>2. ASSUME NEW r \in Reqs, NEW c \in Conns, NEW readOnly \in BOOLEAN,
             QueryEnd(r, c, readOnly)
      PROVE  IInv'
  BY <1>2, QueryEndStep
<1>3. ASSUME NEW r \in Reqs, NEW c \in Conns, QueryThrow(r, c) PROVE IInv'
  BY <1>3, ReleaseStep DEF QueryThrow
<1>4. ASSUME NEW c \in Conns, StreamEnd(c) PROVE IInv'
  BY <1>4, StreamEndStep
<1>5. ASSUME NEW c \in Conns, StreamFail(c) PROVE IInv'
  BY <1>5, StreamFailStep
<1>6. ASSUME NEW c \in Conns, StreamGone(c) PROVE IInv'
  BY <1>6, StreamGoneStep
<1>7. ASSUME NEW c \in Conns, NEW ok \in BOOLEAN, ResetReply(c, ok) PROVE IInv'
  BY <1>7, ResetReplyStep
<1>8. ASSUME NEW c \in Conns, QuitRuns(c) PROVE IInv'
  BY <1>8, QuitRunsStep
<1>9. ASSUME NEW k \in 1 .. Len(free), IdleTimer(k) PROVE IInv'
  BY <1>9, IdleTimerStep
<1> QED BY <1>1, <1>2, <1>3, <1>4, <1>5, <1>6, <1>7, <1>8, <1>9 DEF StreamNext

\* Every step keeps the invariant.
LEMMA NextIInv ==
  ASSUME WellUsed, IInv, [Next]_vars
  PROVE  IInv'
<1>1. CASE UNCHANGED vars BY <1>1, Unchanged
<1>2. CASE AppNext BY <1>2, AppStep
<1>3. CASE RunTick BY <1>3, RunTickStep
<1>4. CASE StreamNext BY <1>4, StreamStep
<1> QED BY <1>1, <1>2, <1>3, <1>4 DEF Next

-----------------------------------------------------------------------------
(* The theorems.                                                           *)

\* The inductive invariant holds for every application that does not mix
\* pool.releaseConnection(c) with a second c.release().
THEOREM IInvHolds == WellUsed => (Spec => []IInv)
<1> SUFFICES ASSUME WellUsed PROVE Spec => []IInv OBVIOUS
<1>1. Init => IInv BY InitIInv
<1>2. IInv /\ [Next]_vars => IInv' BY NextIInv
<1> QED BY <1>1, <1>2, PTL DEF Spec

\* The state of pool.js and of its connections always has its type.
THEOREM TypeOKHolds == WellUsed => (Spec => []TypeOK)
<1>1. IInv => TypeOK BY DEF IInv
<1> QED BY <1>1, IInvHolds, PTL

\* The pool never gives one connection to two users, and never keeps as idle
\* a connection that somebody uses or that is being reset.
THEOREM OneOwnerHolds == WellUsed => (Spec => []OneOwner)
<1>1. IInv => OneOwner BY DEF IInv
<1> QED BY <1>1, IInvHolds, PTL

\* A request waits in exactly one place until its callback, and is called
\* back once.
THEOREM RequestOnceHolds == WellUsed => (Spec => []RequestOnce)
<1>1. IInv => RequestOnce BY DEF IInv
<1> QED BY <1>1, IInvHolds, PTL


-----------------------------------------------------------------------------
(* The order of service.                                                   *)

\* At most the oldest waiter leaves the queue.
Shifted == queue' = queue \/ (queue # <<>> /\ queue' = Tail(queue))

\* Giving a connection back, or dropping it, serves at most the oldest waiter.
LEMMA ServingShifts ==
  ASSUME NEW c, NEW tk,
         \/ ServeNext(tk)
         \/ handleSuccessfulRelease(c, tk)
         \/ ResetFailed(c)
         \/ releaseConnection(c)
         \/ release(c)
         \/ removeFromPool(c)
  PROVE  Shifted
<1>1. \A t : ServeNext(t) \/ handleSuccessfulRelease(c, t) => Shifted
  BY DEF ServeNext, handleSuccessfulRelease, Shifted
<1>2. ResetFailed(c) => Shifted BY <1>1 DEF ResetFailed
<1>3. releaseConnection(c) => Shifted
  BY <1>1, <1>2 DEF releaseConnection, Shifted
<1>4. release(c) => Shifted BY <1>3 DEF release, Shifted
<1>5. removeFromPool(c) => Shifted BY <1>1 DEF removeFromPool, Shifted
<1> QED BY <1>1, <1>2, <1>3, <1>4, <1>5

\* What a step can do to the queue: nothing, serve the oldest waiter, add a
\* request at the end, or empty the queue.
LEMMA QueueStep ==
  ASSUME IInv, [Next]_vars
  PROVE  \/ Shifted
         \/ \E r \in Reqs : queue' = Append(queue, r)
         \/ queue' = <<>>
<1> DEFINE Goal == \/ Shifted
                   \/ \E r \in Reqs : queue' = Append(queue, r)
                   \/ queue' = <<>>
<1>1. ASSUME NEW r, r \in Reqs, NEW tk, getConnection(r, tk) PROVE Goal
  BY <1>1 DEF getConnection, FailLater, TakeFree, Create, Refuse, Enqueue, Shifted
<1>2. ASSUME AppNext PROVE Goal
  <2>1. ASSUME NEW r \in Reqs, Request(r) PROVE Goal
    BY <2>1, <1>1 DEF Request
  <2>2. ASSUME NEW r \in Reqs, NEW c \in Conns,
               \/ Release(r, c) \/ ReleaseViaPool(r, c) \/ Destroy(r, c)
               \/ EndConn(r, c)
        PROVE  Goal
    BY <2>2, ServingShifts DEF Release, ReleaseViaPool, Destroy, EndConn
  <2>3. ASSUME NEW c \in Conns, StaleRelease(c) \/ StaleDestroy(c) PROVE Goal
    BY <2>3, ServingShifts DEF StaleRelease, StaleDestroy
  <2>4. ASSUME EndPool PROVE Goal BY <2>4 DEF EndPool
  <2> QED BY <1>2, <2>1, <2>2, <2>3, <2>4 DEF AppNext
<1>3. ASSUME RunTick PROVE Goal
  <2>1. ASSUME Head(ticks).op = "retry", getConnection(Head(ticks).req, Tail(ticks))
        PROVE  Goal
    <3>1. ticks \in Seq(Ticks) /\ ticks # <<>> BY <1>3 DEF RunTick, IInv, TypeOK
    <3>2. Head(ticks) \in Ticks BY <3>1
    <3>3. Head(ticks).req \in Reqs \/ Head(ticks).req = None BY <3>2 DEF Ticks
    <3>4. Head(ticks).req # None
      <4>1. 1 \in DOMAIN ticks /\ Head(ticks) = ticks[1] BY <3>1
      <4> QED BY <4>1, <2>1 DEF IInv, TickShape
    <3> QED BY <3>3, <3>4, <2>1, <1>1
  <2>2. ASSUME UNCHANGED queue PROVE Goal BY <2>2 DEF Shifted
  <2>3. ASSUME handleSuccessfulRelease(Head(ticks).conn, Tail(ticks)) PROVE Goal
    BY <2>3, ServingShifts
  <2> QED BY <1>3, <2>1, <2>2, <2>3 DEF RunTick
<1>4. ASSUME StreamNext PROVE Goal
  <2>1. ASSUME NEW r \in Reqs, NEW c \in Conns,
               ConnectOk(r, c) \/ (\E ro \in BOOLEAN : QueryEnd(r, c, ro))
                 \/ QueryThrow(r, c)
        PROVE  Goal
    <3>1. CASE ConnectOk(r, c) BY <3>1 DEF ConnectOk, Shifted
    <3>2. CASE \E ro \in BOOLEAN : QueryEnd(r, c, ro)
      BY <3>2, ServingShifts DEF QueryEnd, Shifted
    <3>3. CASE QueryThrow(r, c) BY <3>3, ServingShifts DEF QueryThrow
    <3> QED BY <2>1, <3>1, <3>2, <3>3
  <2>2. ASSUME NEW c \in Conns,
               \/ StreamEnd(c) \/ StreamFail(c) \/ StreamGone(c)
               \/ (\E ok \in BOOLEAN : ResetReply(c, ok)) \/ QuitRuns(c)
        PROVE  Goal
    <3>1. CASE StreamEnd(c) BY <3>1, ServingShifts DEF StreamEnd
    <3>2. CASE StreamFail(c) BY <3>2, ServingShifts DEF StreamFail
    <3>3. CASE StreamGone(c) BY <3>3 DEF StreamGone, Shifted
    <3>4. CASE \E ok \in BOOLEAN : ResetReply(c, ok)
      BY <3>4, ServingShifts DEF ResetReply, Shifted
    <3>5. CASE QuitRuns(c) BY <3>5 DEF QuitRuns, Shifted
    <3> QED BY <2>2, <3>1, <3>2, <3>3, <3>4, <3>5
  <2>3. ASSUME NEW k \in 1 .. Len(free), IdleTimer(k) PROVE Goal
    <3>1. free # <<>>
      <4>1. free \in Seq(Conns) BY DEF IInv, TypeOK
      <4> QED BY <4>1
    <3>2. queue = <<>> BY <3>1 DEF IInv, NoIdleWhileQueued
    <3>3. queue' = SubSeq(queue, (IF k < Len(queue) THEN k ELSE Len(queue)) + 1, Len(queue))
      BY <2>3 DEF IdleTimer
    <3>4. queue' = <<>> BY <3>2, <3>3
    <3> QED BY <3>4
  <2> HIDE DEF Goal
  <2> QED BY <1>4, <2>1, <2>2, <2>3 DEF StreamNext
<1>5. ASSUME UNCHANGED vars PROVE Goal BY <1>5 DEF vars, Shifted
<1> QED BY <1>2, <1>3, <1>4, <1>5 DEF Next

\* A step takes no request out of the queue before the ones queued earlier.
LEMMA FifoStep ==
  ASSUME IInv, [Next]_vars
  PROVE  \A i, j \in DOMAIN queue :
            i < j /\ queue[j] \notin Elems(queue') => queue[i] \notin Elems(queue')
<1> SUFFICES ASSUME NEW i \in DOMAIN queue, NEW j \in DOMAIN queue, i < j,
                    queue[j] \notin Elems(queue')
             PROVE  queue[i] \notin Elems(queue')
  OBVIOUS
<1>1. queue \in Seq(Reqs) BY DEF IInv, TypeOK
<1>2. queue[j] \in Elems(queue) BY DEF Elems
<1>3. CASE Shifted
  <2>1. queue # <<>> /\ queue' = Tail(queue) BY <1>2, <1>3 DEF Shifted
  <2>2. /\ j \in 2 .. Len(queue)
        /\ j - 1 \in DOMAIN queue'
        /\ queue'[j - 1] = queue[j]
    BY <1>1, <2>1
  <2> QED BY <2>2 DEF Elems
<1>4. CASE \E r \in Reqs : queue' = Append(queue, r)
  BY <1>1, <1>2, <1>4, AppendFacts
<1>5. CASE queue' = <<>>
  BY <1>5 DEF Elems
<1> QED BY <1>3, <1>4, <1>5, QueueStep

\* Requests that wait for a connection are served in the order they came.
THEOREM QueueIsFifoHolds == WellUsed => (Spec => QueueIsFifo)
<1> SUFFICES ASSUME WellUsed PROVE Spec => QueueIsFifo OBVIOUS
<1>1. Spec => []IInv BY IInvHolds
<1>2. IInv /\ [Next]_vars =>
        [\A i, j \in DOMAIN queue :
            i < j /\ queue[j] \notin Elems(queue') => queue[i] \notin Elems(queue')]_vars
  BY FifoStep
<1> QED BY <1>1, <1>2, PTL DEF Spec, QueueIsFifo

-----------------------------------------------------------------------------
(* The callback of pool.end().                                             *)

NoReset == \A c \in Conns : task[c] # "reset"

\* A step that is none of pool.end()'s business.
EndFrame ==
    /\ closed' = closed
    /\ closed => all' = all
    /\ Quitting' \subseteq Quitting
    /\ NoReset'
    /\ UNCHANGED endVars

\* The numbers that EndInv compares are finite.
LEMMA EndFinite ==
  ASSUME TypeRest
  PROVE  /\ IsFiniteSet(Quitting) /\ Cardinality(Quitting) \in Nat
         /\ IsFiniteSet(all) /\ Cardinality(all) \in Nat
         /\ endCount \in Nat
<1>1. Quitting \in SUBSET Conns /\ all \in SUBSET Conns
  BY DEF Quitting, TypeRest
<1>2. IsFiniteSet(Quitting) /\ IsFiniteSet(all)
  BY <1>1, FiniteAssumption, FS_Subset
<1> QED BY <1>2, FS_CardinalityType DEF TypeRest

\* Such a step keeps the invariant.
LEMMA EndFrameStep ==
  ASSUME TypeRest, EndInv, EndFrame
  PROVE  EndInv'
<1>1. endCb' = endCb /\ endCount' = endCount BY DEF EndFrame, endVars
<1>2. Cardinality(Quitting') \in Nat /\ Cardinality(Quitting') <= Cardinality(Quitting)
  <2>1. IsFiniteSet(Quitting) BY EndFinite
  <2>2. Quitting' \in SUBSET Quitting BY DEF EndFrame
  <2>3. IsFiniteSet(Quitting') /\ Cardinality(Quitting') <= Cardinality(Quitting)
    BY <2>1, <2>2, FS_Subset
  <2> QED BY <2>3, FS_CardinalityType
<1>3. endCb = "waiting" => endCount' + Cardinality(Quitting') <= Cardinality(all')
  <2> SUFFICES ASSUME endCb = "waiting"
               PROVE  endCount' + Cardinality(Quitting') <= Cardinality(all')
    OBVIOUS
  <2>1. all' = all BY DEF EndInv, EndFrame
  <2>2. endCount + Cardinality(Quitting) <= Cardinality(all) BY DEF EndInv
  <2> QED BY <1>1, <1>2, <2>1, <2>2, EndFinite
<1>4. endCb \in {"none", "ok"} => Quitting' = {} BY DEF EndInv, EndFrame
<1> QED BY <1>1, <1>3, <1>4 DEF EndInv, EndFrame, NoReset

\* The Quit of c starts: one call of endCB is no longer missing.
LEMMA StartQuitEnd ==
  ASSUME TypeRest, EndInv, NEW c \in Conns, StartQuit(c, all),
         closed' = closed, all' = all, NoReset'
  PROVE  EndInv'
<1>1. CASE quit[c] # "queued"
  <2>1. UNCHANGED <<quit, endVars>> BY <1>1 DEF StartQuit
  <2> QED BY <2>1, EndFrameStep DEF EndFrame, Quitting
<1>2. CASE quit[c] = "queued"
  <2>1. quit' = [quit EXCEPT ![c] = "done"] /\ endCB(1, all)
    BY <1>2 DEF StartQuit
  <2>2. c \in Quitting /\ Quitting' = Quitting \ {c}
    BY <1>2, <2>1 DEF Quitting, TypeRest
  <2>3. /\ Cardinality(Quitting') = Cardinality(Quitting) - 1
        /\ Cardinality(Quitting') \in Nat
        /\ IsFiniteSet(Quitting')
    <3>1. /\ IsFiniteSet(Quitting \ {c})
          /\ Cardinality(Quitting \ {c}) = Cardinality(Quitting) - 1
      BY <2>2, EndFinite, FS_RemoveElement
    <3> QED BY <2>2, <3>1, FS_CardinalityType
  <2>4. endCb \notin {"none", "ok"} BY <2>2 DEF EndInv
  <2>5. CASE endCb # "waiting"
    <3>1. UNCHANGED endVars BY <2>1, <2>5 DEF endCB
    <3> QED BY <2>2, <3>1, EndFrameStep DEF EndFrame
  <2>6. CASE endCb = "waiting"
    <3>1. /\ endCount' = endCount + 1
          /\ endCb' = IF endCount + 1 >= Cardinality(all) THEN "ok" ELSE "waiting"
      BY <2>1, <2>6 DEF endCB
    <3>2. endCount + Cardinality(Quitting) <= Cardinality(all) BY <2>6 DEF EndInv
    <3>3. endCb' = "ok" => Quitting' = {}
      <4>1. endCb' = "ok" => Cardinality(Quitting') = 0
        BY <3>1, <3>2, <2>3, EndFinite
      <4> QED BY <4>1, <2>3, FS_EmptySet
    <3>4. endCount' + Cardinality(Quitting') <= Cardinality(all')
      BY <3>1, <3>2, <2>3, EndFinite
    <3>5. closed' BY <2>6 DEF EndInv
    <3> QED BY <3>1, <3>3, <3>4, <3>5 DEF EndInv, NoReset
  <2> QED BY <2>5, <2>6
<1> QED BY <1>1, <1>2

\* pool.end() counts the connections whose Quit starts at once; the others
\* have a Quit to come.
LEMMA EndPoolEnd ==
  ASSUME TypeRest, EndInv, EndPool
  PROVE  EndInv'
<1>1. /\ endCb = "none" /\ closed' = TRUE /\ all' = all /\ task' = task
  BY DEF EndPool
<1>2. PICK idle \in SUBSET all :
        /\ quit' = [c \in Conns |-> IF c \in idle THEN "done"
                                    ELSE IF c \in all THEN "queued"
                                    ELSE quit[c]]
        /\ endCount' = Cardinality(idle)
        /\ endCb' = IF idle = all THEN "ok" ELSE "waiting"
  BY DEF EndPool
<1>3. \A c \in Conns : quit[c] # "queued" BY <1>1 DEF EndInv, Quitting
<1>4. Quitting' = all \ idle BY <1>2, <1>3 DEF Quitting, TypeRest
<1>5. endCount' + Cardinality(Quitting') <= Cardinality(all')
  <2>1. all \intersect idle = idle OBVIOUS
  <2>2. /\ Cardinality(all \ idle) = Cardinality(all) - Cardinality(idle)
    BY <2>1, EndFinite, FS_Difference
  <2>3. Cardinality(idle) \in Nat
    BY EndFinite, FS_Subset, FS_CardinalityType
  <2> QED BY <1>1, <1>2, <1>4, <2>2, <2>3, EndFinite
<1> QED BY <1>1, <1>2, <1>4, <1>5 DEF EndInv

\* The failure of a socket ends the Quit that waits behind other commands,
\* and pool.end() calls back with the error.
LEMMA StreamFailEnd ==
  ASSUME TypeRest, EndInv, NEW c \in Conns, StreamFail(c)
  PROVE  EndInv'
<1>1. removeFromPool(c) BY DEF StreamFail, EndInv
<1>2. /\ closed' = closed /\ endCount' = endCount
      /\ task' = [task EXCEPT ![c] = "idle"]
      /\ quit' = IF quit[c] = "queued" THEN [quit EXCEPT ![c] = "done"] ELSE quit
      /\ endCb' = IF quit[c] = "queued" /\ endCb = "waiting" THEN "err" ELSE endCb
  BY DEF StreamFail
<1>3. closed => all' = all BY <1>1 DEF removeFromPool
<1>4. NoReset' BY <1>2 DEF NoReset, EndInv, TypeRest
<1>5. Quitting' \subseteq Quitting BY <1>2 DEF Quitting, TypeRest
<1>6. CASE endCb' = endCb
  BY <1>2, <1>3, <1>4, <1>5, <1>6, EndFrameStep DEF EndFrame, endVars
<1>7. CASE endCb' # endCb
  <2>1. endCb' = "err" /\ endCb = "waiting" BY <1>2, <1>7
  <2>2. closed BY <2>1 DEF EndInv
  <2> QED BY <2>1, <2>2, <1>2, <1>4 DEF EndInv, NoReset
<1> QED BY <1>6, <1>7

\* Without resetOnRelease, giving back a connection resets nothing and takes
\* no connection out of a closed pool.
LEMMA NoResetFrame ==
  ASSUME TypeRest, EndInv, ~ResetOnRelease, NEW c \in Conns,
         closed' = closed, UNCHANGED <<quit, endVars>>,
         \/ releaseConnection(c)
         \/ release(c)
         \/ removeFromPool(c) /\ UNCHANGED task
  PROVE  EndFrame
<1>1. NoReset BY DEF EndInv, NoReset
<1>2. Quitting' = Quitting BY DEF Quitting
<1>3. CASE releaseConnection(c)
  <2>1. all' = all /\ task' = task BY <1>3 DEF releaseConnection
  <2> QED BY <2>1, <1>1, <1>2 DEF EndFrame, NoReset
<1>4. CASE release(c)
  <2>1. all' = all /\ task' = task BY <1>4 DEF release, releaseConnection
  <2> QED BY <2>1, <1>1, <1>2 DEF EndFrame, NoReset
<1>5. CASE removeFromPool(c) /\ UNCHANGED task
  <2>1. closed => all' = all BY <1>5 DEF removeFromPool
  <2> QED BY <2>1, <1>1, <1>2, <1>5 DEF EndFrame, NoReset
<1> QED BY <1>3, <1>4, <1>5

\* getConnection opens connections only while the pool is open.
LEMMA GetConnectionFrame ==
  ASSUME TypeRest, EndInv, NEW r \in Reqs, NEW tk, getConnection(r, tk)
  PROVE  EndFrame
<1>1. closed' = closed /\ UNCHANGED endVars BY DEF getConnection
<1>2. CASE UNCHANGED <<all, quit, task>>
  BY <1>1, <1>2 DEF EndFrame, Quitting, NoReset, EndInv
<1>3. CASE ~closed /\ Create(r, tk)
  <2>1. PICK c \in Conns : /\ task' = [task EXCEPT ![c] = "connect"]
                           /\ quit' = [quit EXCEPT ![c] = "no"]
    BY <1>3 DEF Create
  <2>2. NoReset' BY <2>1 DEF NoReset, EndInv, TypeRest
  <2>3. Quitting' \subseteq Quitting BY <2>1 DEF Quitting, TypeRest
  <2> QED BY <1>1, <1>3, <2>2, <2>3 DEF EndFrame
<1> QED BY <1>2, <1>3 DEF getConnection, FailLater, TakeFree, Refuse, Enqueue, connVars

\* Every step keeps the invariant.
LEMMA NextEndInv ==
  ASSUME ~ResetOnRelease, IInv, EndInv, [Next]_vars
  PROVE  EndInv'
<1>1. TypeRest /\ NoReset BY IInvParts DEF EndInv, NoReset
<1>2. ASSUME UNCHANGED <<closed, all, quit, task, endVars>> PROVE EndFrame
  BY <1>1, <1>2 DEF EndFrame, Quitting, NoReset
<1>3. ASSUME AppNext PROVE EndInv'
  <2>1. ASSUME NEW r \in Reqs, Request(r) PROVE EndInv'
    BY <2>1, <1>1, GetConnectionFrame, EndFrameStep DEF Request
  <2>2. ASSUME NEW r \in Reqs, NEW c \in Conns,
               \/ Release(r, c) \/ ReleaseViaPool(r, c) \/ Destroy(r, c)
               \/ EndConn(r, c)
        PROVE  EndInv'
    <3>1. /\ closed' = closed /\ UNCHANGED <<quit, endVars>>
          /\ \/ releaseConnection(c)
             \/ release(c)
             \/ removeFromPool(c) /\ UNCHANGED task
      BY <2>2 DEF Release, ReleaseViaPool, Destroy, EndConn
    <3> QED BY <3>1, <1>1, NoResetFrame, EndFrameStep
  <2>3. ASSUME NEW c \in Conns, StaleRelease(c) \/ StaleDestroy(c) PROVE EndInv'
    <3>1. /\ closed' = closed /\ UNCHANGED <<quit, endVars>>
          /\ release(c) \/ (removeFromPool(c) /\ UNCHANGED task)
      BY <2>3 DEF StaleRelease, StaleDestroy
    <3> QED BY <3>1, <1>1, NoResetFrame, EndFrameStep
  <2>4. ASSUME EndPool PROVE EndInv' BY <2>4, <1>1, EndPoolEnd
  <2> QED BY <1>3, <2>1, <2>2, <2>3, <2>4 DEF AppNext
<1>4. ASSUME RunTick PROVE EndInv'
  <2>1. CASE Head(ticks).op = "retry" /\ getConnection(Head(ticks).req, Tail(ticks))
    <3>1. ticks \in Seq(Ticks) /\ ticks # <<>> BY <1>4 DEF RunTick, IInv, TypeOK
    <3>2. 1 \in DOMAIN ticks /\ Head(ticks) = ticks[1] /\ Head(ticks) \in Ticks
      BY <3>1
    <3>3. Head(ticks).req \in Reqs
      BY <3>2, <2>1 DEF IInv, TickShape, Ticks
    <3> QED BY <2>1, <3>3, <1>1, GetConnectionFrame, EndFrameStep
  <2>2. CASE UNCHANGED <<closed, all, quit, task, endVars>>
    BY <2>2, <1>1, <1>2, EndFrameStep
  <2> QED BY <1>4, <2>1, <2>2 DEF RunTick, connVars
<1>5. ASSUME StreamNext PROVE EndInv'
  <2>1. ASSUME NEW r \in Reqs, NEW c \in Conns, ConnectOk(r, c) PROVE EndInv'
    <3>1. /\ closed' = closed /\ all' = all /\ StartQuit(c, all)
          /\ task' = [task EXCEPT ![c] = "idle"]
      BY <2>1 DEF ConnectOk
    <3>2. NoReset' BY <3>1, <1>1 DEF NoReset, TypeRest
    <3> QED BY <3>1, <3>2, <1>1, StartQuitEnd
  <2>2. ASSUME NEW r \in Reqs, NEW c \in Conns, NEW ro \in BOOLEAN, QueryEnd(r, c, ro)
        PROVE  EndInv'
    <3>1. CASE /\ UNCHANGED <<closed, quit, endVars>>
               /\ release(c) \/ (removeFromPool(c) /\ UNCHANGED task)
      BY <3>1, <1>1, NoResetFrame, EndFrameStep
    <3>2. CASE StartQuit(c, all) /\ UNCHANGED <<closed, all, task>>
      BY <3>2, <1>1, StartQuitEnd DEF NoReset
    <3> QED BY <2>2, <3>1, <3>2 DEF QueryEnd
  <2>3. ASSUME NEW r \in Reqs, NEW c \in Conns, QueryThrow(r, c) PROVE EndInv'
    BY <2>3, <1>1, NoResetFrame, EndFrameStep DEF QueryThrow
  <2>4. ASSUME NEW c \in Conns, StreamEnd(c) PROVE EndInv'
    BY <2>4, <1>1, NoResetFrame, EndFrameStep DEF StreamEnd
  <2>5. ASSUME NEW c \in Conns, StreamFail(c) PROVE EndInv'
    BY <2>5, <1>1, StreamFailEnd
  <2>6. ASSUME NEW c \in Conns, StreamGone(c) PROVE EndInv'
    <3>1. /\ UNCHANGED <<closed, all, quit, endVars>>
          /\ task' = [task EXCEPT ![c] = "idle"]
      BY <2>6 DEF StreamGone
    <3>2. EndFrame BY <3>1, <1>1 DEF EndFrame, NoReset, Quitting, TypeRest
    <3> QED BY <3>2, <1>1, EndFrameStep
  <2>7. ASSUME NEW c \in Conns, NEW ok \in BOOLEAN, ResetReply(c, ok) PROVE EndInv'
    BY <2>7, <1>1 DEF ResetReply, NoReset
  <2>8. ASSUME NEW c \in Conns, QuitRuns(c) PROVE EndInv'
    <3>1. StartQuit(c, all) /\ UNCHANGED <<closed, all, task>>
      BY <2>8 DEF QuitRuns
    <3> QED BY <3>1, <1>1, StartQuitEnd DEF NoReset
  <2>9. ASSUME NEW k \in 1 .. Len(free), IdleTimer(k) PROVE EndInv'
    <3>1. ~closed /\ UNCHANGED <<closed, quit, task, endVars>>
      BY <2>9 DEF IdleTimer
    <3>2. EndFrame BY <3>1, <1>1 DEF EndFrame, NoReset, Quitting
    <3> QED BY <3>2, <1>1, EndFrameStep
  <2> QED BY <1>5, <2>1, <2>2, <2>3, <2>4, <2>5, <2>6, <2>7, <2>8, <2>9 DEF StreamNext
<1>6. ASSUME UNCHANGED vars PROVE EndInv'
  BY <1>6, <1>1, <1>2, EndFrameStep DEF vars, connVars
<1> QED BY <1>3, <1>4, <1>5, <1>6 DEF Next

\* Without resetOnRelease, pool.end() reports success only when every Quit
\* has started: the count of endCB against _allConnections is never early.
THEOREM EndMeansEndedHolds == WellUsed /\ ~ResetOnRelease => (Spec => []EndMeansEnded)
<1> SUFFICES ASSUME WellUsed, ~ResetOnRelease PROVE Spec => []EndMeansEnded
  OBVIOUS
<1>1. Spec => []IInv BY IInvHolds
<1>2. Init => EndInv BY DEF Init, EndInv, Quitting
<1>3. IInv /\ EndInv /\ [Next]_vars => EndInv' BY NextEndInv
<1>4. EndInv => EndMeansEnded BY DEF EndInv, EndMeansEnded, Quitting
<1> QED BY <1>1, <1>2, <1>3, <1>4, PTL DEF Spec

-----------------------------------------------------------------------------
(* No wakeup is lost: a count of connections and retries.                  *)

\* How many retries there are is a number.
LEMMA RetriesFinite ==
  ASSUME NEW t \in Seq(Ticks)
  PROVE  IsFiniteSet(Retries(t)) /\ Cardinality(Retries(t)) \in Nat
<1>1. Retries(t) \in SUBSET (1 .. Len(t)) /\ Len(t) \in Int
  BY DEF Retries
<1>2. IsFiniteSet(1 .. Len(t)) BY <1>1, FS_Interval
<1>3. IsFiniteSet(Retries(t)) BY <1>1, <1>2, FS_Subset
<1> QED BY <1>3, FS_CardinalityType

\* A callback at the end of nextTick counts if it is a retry.
LEMMA RetriesAppend ==
  ASSUME NEW t \in Seq(Ticks), NEW k \in Ticks
  PROVE  /\ Append(t, k) \in Seq(Ticks)
         /\ Cardinality(Retries(Append(t, k)))
              = Cardinality(Retries(t)) + (IF k.op = "retry" THEN 1 ELSE 0)
<1> DEFINE u == Append(t, k)
           n == Len(t) + 1
<1>1. /\ n \in Nat /\ u \in Seq(Ticks)
      /\ DOMAIN t = 1 .. n - 1 /\ DOMAIN u = 1 .. n
      /\ u[n] = k /\ \A i \in 1 .. n - 1 : u[i] = t[i]
  OBVIOUS
<1>2. \A i \in 1 .. n : i = n \/ i \in 1 .. n - 1 BY <1>1
<1>3. n \in 1 .. n /\ n \notin 1 .. n - 1 /\ 1 .. n - 1 \subseteq 1 .. n BY <1>1
<1> HIDE DEF u, n
<1>4. Retries(u) = Retries(t) \union (IF k.op = "retry" THEN {n} ELSE {})
  BY <1>1, <1>2, <1>3 DEF Retries
<1>5. n \notin Retries(t) BY <1>1, <1>3 DEF Retries
<1>6. CASE k.op = "retry"
  <2>1. Retries(u) = Retries(t) \union {n} BY <1>4, <1>6
  <2> QED BY <2>1, <1>1, <1>5, <1>6, RetriesFinite, FS_AddElement DEF u
<1>7. CASE k.op # "retry"
  <2>1. Retries(u) = Retries(t) BY <1>4, <1>7
  <2> QED BY <2>1, <1>1, <1>7, RetriesFinite DEF u
<1> QED BY <1>6, <1>7

\* The first callback of nextTick counts no more once it has run.
LEMMA RetriesTail ==
  ASSUME NEW t \in Seq(Ticks), t # <<>>
  PROVE  /\ Tail(t) \in Seq(Ticks)
         /\ Cardinality(Retries(t))
              = Cardinality(Retries(Tail(t)))
                  + (IF Head(t).op = "retry" THEN 1 ELSE 0)
<1> DEFINE u == Tail(t)
           n == Len(t)
           A == Retries(u)
           B == Retries(t) \ {1}
           f == [i \in A |-> i + 1]
<1>1. /\ n \in Nat \ {0} /\ u \in Seq(Ticks)
      /\ DOMAIN t = 1 .. n /\ DOMAIN u = 1 .. n - 1
      /\ Head(t) = t[1] /\ \A i \in 1 .. n - 1 : u[i] = t[i + 1]
  OBVIOUS
<1>2. \A i \in 1 .. n : i # 1 => i - 1 \in 1 .. n - 1 /\ i = (i - 1) + 1
  BY <1>1
<1>3. \A i \in 1 .. n - 1 : i + 1 \in 1 .. n /\ i + 1 # 1 /\ i \in Nat
  BY <1>1
<1> HIDE DEF u, n
<1>4. f \in Bijection(A, B)
  <2>1. f \in [A -> B] BY <1>1, <1>3 DEF Retries
  <2>2. \A i, j \in A : f[i] = f[j] => i = j BY <1>1, <1>3 DEF Retries
  <2>3. \A b \in B : \E a \in A : f[a] = b
    <3> TAKE b \in B
    <3>1. b - 1 \in A /\ (b - 1) + 1 = b BY <1>1, <1>2 DEF Retries
    <3>2. f[b - 1] = b BY <3>1
    <3> QED BY <3>1, <3>2
  <2> QED BY <2>1, <2>2, <2>3 DEF Bijection, Injection, Surjection, IsInjective
<1>5. Cardinality(B) = Cardinality(A)
  <2>1. ExistsBijection(A, B) BY <1>4 DEF ExistsBijection
  <2>2. IsFiniteSet(A) BY <1>1, RetriesFinite
  <2> QED BY <2>1, <2>2, FS_Bijection
<1>6. IsFiniteSet(Retries(t)) /\ Cardinality(Retries(t)) \in Nat BY RetriesFinite
<1>7. 1 \in Retries(t) <=> Head(t).op = "retry"
  BY <1>1 DEF Retries
<1>8. Cardinality(B) = IF 1 \in Retries(t) THEN Cardinality(Retries(t)) - 1
                       ELSE Cardinality(Retries(t))
  BY <1>6, FS_RemoveElement
<1>9. Cardinality(A) \in Nat BY <1>1, RetriesFinite
<1> HIDE DEF A, B
<1> QED BY <1>1, <1>5, <1>6, <1>7, <1>8, <1>9 DEF u, A

\* What Backed says of the ticks tk that are left.
BackedBy(tk) ==
    /\ tk \in Seq(Ticks)
    /\ queue # <<>> /\ ~closed =>
          Cardinality(all) + Cardinality(Retries(tk)) >= ConnectionLimit

\* The number of connections.
LEMMA AllFinite ==
  ASSUME TypeRest
  PROVE  IsFiniteSet(all) /\ Cardinality(all) \in Nat
<1>1. all \in SUBSET Conns BY DEF TypeRest
<1> QED BY <1>1, FiniteAssumption, FS_Subset, FS_CardinalityType

\* A connection that leaves the pool is made up for by a retry.
LEMMA BackedServe ==
  ASSUME TypeRest, queue \in Seq(Reqs), NEW tk, BackedBy(tk), ServeNext(tk),
         closed' = closed, all' = all \/ \E c \in Conns : all' = all \ {c}
  PROVE  Backed'
<1>1. CASE queue = <<>>
  <2>1. queue' = <<>> BY <1>1 DEF ServeNext
  <2> QED BY <2>1 DEF Backed
<1>2. CASE queue # <<>>
  <2>1. ticks' = Append(tk, Tick("retry", Head(queue), None))
    BY <1>2 DEF ServeNext
  <2>2. Head(queue) \in Reqs BY <1>2
  <2>3. Tick("retry", Head(queue), None) \in Ticks BY <2>2 DEF Tick, Ticks
  <2>4. Cardinality(Retries(ticks')) = Cardinality(Retries(tk)) + 1
    BY <2>1, <2>3, RetriesAppend DEF BackedBy, Tick
  <2>5. Cardinality(all') \in Nat /\ Cardinality(all') >= Cardinality(all) - 1
    <3>1. CASE all' = all BY <3>1, AllFinite
    <3>2. CASE \E c \in Conns : all' = all \ {c}
      <4>1. PICK c \in Conns : all' = all \ {c} BY <3>2
      <4>2. /\ IsFiniteSet(all \ {c})
            /\ Cardinality(all \ {c}) = IF c \in all THEN Cardinality(all) - 1
                                       ELSE Cardinality(all)
        BY AllFinite, FS_RemoveElement
      <4>3. Cardinality(all \ {c}) \in Nat BY <4>2, FS_CardinalityType
      <4> QED BY <4>1, <4>2, <4>3, AllFinite
    <3> QED BY <3>1, <3>2
  <2>6. Cardinality(Retries(tk)) \in Nat BY RetriesFinite DEF BackedBy
  <2> QED BY <1>2, <2>4, <2>5, <2>6, AllFinite, LimitsAssumption DEF Backed, BackedBy
<1> QED BY <1>1, <1>2

\* A connection that is given back serves a waiter, or nobody waits.
LEMMA BackedRelease ==
  ASSUME queue \in Seq(Reqs), NEW tk, BackedBy(tk), NEW c \in Conns,
         handleSuccessfulRelease(c, tk), closed' = closed, all' = all
  PROVE  Backed'
<1>1. CASE queue = <<>>
  <2>1. queue' = <<>> BY <1>1 DEF handleSuccessfulRelease
  <2> QED BY <2>1 DEF Backed
<1>2. CASE queue # <<>>
  <2>1. ticks' = Append(tk, Tick("give", Head(queue), c))
    BY <1>2 DEF handleSuccessfulRelease
  <2>2. Tick("give", Head(queue), c) \in Ticks BY <1>2 DEF Tick, Ticks
  <2>3. Cardinality(Retries(ticks')) = Cardinality(Retries(tk)) + 0
    BY <2>1, <2>2, RetriesAppend DEF BackedBy, Tick
  <2>4. Cardinality(Retries(tk)) \in Nat BY RetriesFinite DEF BackedBy
  <2>5. Cardinality(Retries(ticks')) = Cardinality(Retries(tk)) BY <2>3, <2>4
  <2> QED BY <1>2, <2>5 DEF Backed, BackedBy
<1> QED BY <1>1, <1>2

\* getConnection joins the queue only when the limit is reached, and what a
\* retry counted for is then a connection.
LEMMA BackedGet ==
  ASSUME TypeRest, StoreOK(free, queue, ticks), NEW tk \in Seq(Ticks),
         queue # <<>> /\ ~closed =>
            Cardinality(all) + Cardinality(Retries(tk)) + 1 >= ConnectionLimit,
         NEW r \in Reqs, getConnection(r, tk)
  PROVE  Backed'
<1>1. closed' = closed BY DEF getConnection
<1>2. CASE closed BY <1>1, <1>2 DEF Backed
<1>3. CASE ~closed /\ TakeFree(r, tk)
  <2>1. queue' = <<>> BY <1>3 DEF TakeFree, StoreOK
  <2> QED BY <2>1 DEF Backed
<1>4. CASE ~closed /\ Create(r, tk)
  <2>1. PICK c \in Conns : Fresh(c) /\ all' = all \union {c} /\ ticks' = tk /\ queue' = queue
    BY <1>4 DEF Create
  <2>2. c \notin all BY <2>1 DEF Fresh
  <2>3. Cardinality(all') = Cardinality(all) + 1
    BY <2>1, <2>2, AllFinite, FS_AddElement
  <2>4. Cardinality(Retries(tk)) \in Nat BY RetriesFinite
  <2> QED BY <1>1, <1>4, <2>1, <2>3, <2>4, AllFinite, LimitsAssumption DEF Backed
<1>5. CASE /\ ~closed /\ ~BelowLimit
           /\ FailLater(r, tk) \/ Refuse(r, tk) \/ Enqueue(r, tk)
  <2>1. Cardinality(all) >= ConnectionLimit
    BY <1>5, AllFinite, LimitsAssumption DEF BelowLimit
  <2>2. all' = all BY <1>5 DEF FailLater, Refuse, Enqueue
  <2>3. ticks' \in Seq(Ticks)
    <3>1. Tick("fail", r, None) \in Ticks BY DEF Tick, Ticks
    <3> QED BY <1>5, <3>1 DEF FailLater, Refuse, Enqueue
  <2>4. Cardinality(Retries(ticks')) \in Nat BY <2>3, RetriesFinite
  <2> QED BY <2>1, <2>2, <2>4, AllFinite, LimitsAssumption DEF Backed
<1> QED BY <1>2, <1>3, <1>4, <1>5 DEF getConnection

\* Giving a connection back, and dropping one, keep the count.
LEMMA BackedDrop ==
  ASSUME IInv, Backed, NEW c \in Conns, closed' = closed,
         \/ releaseConnection(c)
         \/ release(c)
         \/ removeFromPool(c)
         \/ ResetFailed(c)
  PROVE  Backed'
<1>1. TypeRest /\ queue \in Seq(Reqs) /\ BackedBy(ticks)
  BY IInvParts DEF IInv, TypeOK, Backed, BackedBy
<1>2. CASE UNCHANGED <<all, queue, ticks>>
  BY <1>2 DEF Backed
<1>3. CASE ServeNext(ticks) /\ (all' = all \/ all' = all \ {c})
  BY <1>1, <1>3, BackedServe
<1>4. CASE handleSuccessfulRelease(c, ticks) /\ all' = all
  BY <1>1, <1>4, BackedRelease
<1>5. ResetFailed(c) => ServeNext(ticks) /\ all' = all \ {c}
  BY DEF ResetFailed
<1>6. removeFromPool(c) => \/ UNCHANGED <<all, queue, ticks>>
                           \/ ServeNext(ticks) /\ all' = all \ {c}
  BY DEF removeFromPool
<1>7. releaseConnection(c) => \/ UNCHANGED <<all, queue, ticks>>
                              \/ ServeNext(ticks) /\ (all' = all \/ all' = all \ {c})
                              \/ handleSuccessfulRelease(c, ticks) /\ all' = all
  BY <1>5 DEF releaseConnection
<1>8. release(c) => releaseConnection(c) \/ UNCHANGED <<all, queue, ticks>>
  BY DEF release
<1> QED BY <1>2, <1>3, <1>4, <1>5, <1>6, <1>7, <1>8

\* A callback of process.nextTick keeps the count.
LEMMA BackedTick ==
  ASSUME IInv, Backed, RunTick
  PROVE  Backed'
<1> DEFINE t == Head(ticks)
           tk == Tail(ticks)
<1>1. TypeRest /\ StoreOK(free, queue, ticks) BY IInvParts
<1>2. ticks \in Seq(Ticks) /\ ticks # <<>> /\ queue \in Seq(Reqs)
  BY DEF RunTick, IInv, TypeOK
<1>3. /\ t \in Ticks
      /\ t.op = "retry" => t.req \in Reqs
      /\ t.op = "reset" => t.conn \in Conns
  <2>1. 1 \in DOMAIN ticks /\ t = ticks[1] /\ t \in Ticks BY <1>2
  <2>2. TickShape(ticks) BY DEF IInv
  <2> HIDE DEF t
  <2> QED BY <2>1, <2>2 DEF TickShape, Ticks
<1>4. /\ tk \in Seq(Ticks)
      /\ Cardinality(Retries(ticks))
           = Cardinality(Retries(tk)) + (IF t.op = "retry" THEN 1 ELSE 0)
  BY <1>2, RetriesTail
<1> HIDE DEF t, tk
<1>5. Cardinality(Retries(tk)) \in Nat BY <1>4, RetriesFinite
<1>6. CASE t.op = "retry" /\ getConnection(t.req, tk)
  <2>1. queue # <<>> /\ ~closed =>
           Cardinality(all) + Cardinality(Retries(tk)) + 1 >= ConnectionLimit
    BY <1>1, <1>4, <1>5, <1>6, AllFinite DEF Backed
  <2> QED BY <2>1, <1>1, <1>3, <1>4, <1>6, BackedGet
<1>7. ASSUME t.op # "retry" PROVE BackedBy(tk)
  <2>1. Cardinality(Retries(ticks)) = Cardinality(Retries(tk))
    BY <1>4, <1>5, <1>7
  <2> QED BY <2>1, <1>4 DEF Backed, BackedBy
<1>8. CASE t.op \in {"give", "fail"} /\ ticks' = tk /\ UNCHANGED <<closed, all, queue>>
  BY <1>7, <1>8 DEF Backed, BackedBy
<1>9. CASE t.op = "reset" /\ handleSuccessfulRelease(t.conn, tk) /\ UNCHANGED <<closed, all>>
  BY <1>2, <1>3, <1>7, <1>9, BackedRelease
<1> QED BY <1>6, <1>8, <1>9 DEF RunTick, t, tk

\* Every step keeps the count.
LEMMA NextBacked ==
  ASSUME WellUsed, IInv, Backed, [Next]_vars
  PROVE  Backed'
<1>1. TypeRest /\ StoreOK(free, queue, ticks) BY IInvParts
<1>2. ASSUME UNCHANGED <<closed, all, queue, ticks>> PROVE Backed'
  BY <1>2 DEF Backed
<1>3. ASSUME AppNext PROVE Backed'
  <2>1. ASSUME NEW r \in Reqs, Request(r) PROVE Backed'
    <3>1. getConnection(r, ticks) BY <2>1 DEF Request
    <3>2. ticks \in Seq(Ticks) BY DEF IInv, TypeOK
    <3>3. Cardinality(Retries(ticks)) \in Nat BY <3>2, RetriesFinite
    <3>4. queue # <<>> /\ ~closed =>
             Cardinality(all) + Cardinality(Retries(ticks)) + 1 >= ConnectionLimit
      BY <1>1, <3>3, AllFinite, LimitsAssumption DEF Backed
    <3> QED BY <1>1, <3>1, <3>2, <3>4, BackedGet
  <2>2. ASSUME NEW r \in Reqs, NEW c \in Conns,
               \/ Release(r, c) \/ ReleaseViaPool(r, c) \/ Destroy(r, c)
               \/ EndConn(r, c)
        PROVE  Backed'
    BY <2>2, BackedDrop DEF Release, ReleaseViaPool, Destroy, EndConn
  <2>3. ASSUME NEW c \in Conns, StaleRelease(c) \/ StaleDestroy(c) PROVE Backed'
    BY <2>3, BackedDrop DEF StaleRelease, StaleDestroy
  <2>4. ASSUME EndPool PROVE Backed' BY <2>4 DEF EndPool, Backed
  <2> QED BY <1>3, <2>1, <2>2, <2>3, <2>4 DEF AppNext
<1>4. ASSUME RunTick PROVE Backed' BY <1>4, BackedTick
<1>5. ASSUME StreamNext PROVE Backed'
  <2>1. ASSUME NEW r \in Reqs, NEW c \in Conns, ConnectOk(r, c) PROVE Backed'
    BY <2>1, <1>2 DEF ConnectOk
  <2>2. ASSUME NEW r \in Reqs, NEW c \in Conns, NEW ro \in BOOLEAN, QueryEnd(r, c, ro)
        PROVE  Backed'
    BY <2>2, <1>2, BackedDrop DEF QueryEnd
  <2>3. ASSUME NEW r \in Reqs, NEW c \in Conns, QueryThrow(r, c) PROVE Backed'
    BY <2>3, BackedDrop DEF QueryThrow
  <2>4. ASSUME NEW c \in Conns, StreamEnd(c) PROVE Backed'
    BY <2>4, BackedDrop DEF StreamEnd
  <2>5. ASSUME NEW c \in Conns, StreamFail(c) PROVE Backed'
    BY <2>5, BackedDrop DEF StreamFail
  <2>6. ASSUME NEW c \in Conns, StreamGone(c) PROVE Backed'
    BY <2>6, <1>2 DEF StreamGone
  <2>7. ASSUME NEW c \in Conns, NEW ok \in BOOLEAN, ResetReply(c, ok) PROVE Backed'
    <3>1. closed' = closed BY <2>7 DEF ResetReply
    <3>2. CASE ResetFailed(c) BY <3>1, <3>2, BackedDrop
    <3>3. CASE /\ ticks' = Append(ticks, Tick("reset", None, c))
               /\ UNCHANGED <<all, queue>>
      <4>1. ticks \in Seq(Ticks) BY DEF IInv, TypeOK
      <4>2. Tick("reset", None, c) \in Ticks BY DEF Tick, Ticks
      <4>3. Cardinality(Retries(ticks')) = Cardinality(Retries(ticks)) + 0
        BY <3>3, <4>1, <4>2, RetriesAppend DEF Tick
      <4>4. Cardinality(Retries(ticks')) = Cardinality(Retries(ticks))
        BY <4>1, <4>3, RetriesFinite
      <4> QED BY <3>1, <3>3, <4>4 DEF Backed
    <3> QED BY <2>7, <3>2, <3>3 DEF ResetReply
  <2>8. ASSUME NEW c \in Conns, QuitRuns(c) PROVE Backed'
    BY <2>8, <1>2 DEF QuitRuns
  <2>9. ASSUME NEW k \in 1 .. Len(free), IdleTimer(k) PROVE Backed'
    <3>1. queue = <<>>
      <4>1. free # <<>> BY <1>1 DEF StoreOK
      <4> QED BY <1>1, <4>1 DEF StoreOK
    <3>2. queue' = SubSeq(queue, (IF k < Len(queue) THEN k ELSE Len(queue)) + 1, Len(queue))
      BY <2>9 DEF IdleTimer
    <3>3. queue' = <<>> BY <3>1, <3>2
    <3> QED BY <3>3 DEF Backed
  <2> QED BY <1>5, <2>1, <2>2, <2>3, <2>4, <2>5, <2>6, <2>7, <2>8, <2>9 DEF StreamNext
<1>6. ASSUME UNCHANGED vars PROVE Backed' BY <1>6, <1>2 DEF vars
<1> QED BY <1>3, <1>4, <1>5, <1>6 DEF Next

\* A request waits in the queue only while no connection is idle and the
\* connections there are, with the retries under way, fill the limit.
THEOREM NoLostWakeupHolds == WellUsed => (Spec => []NoLostWakeup)
<1> SUFFICES ASSUME WellUsed PROVE Spec => []NoLostWakeup OBVIOUS
<1>1. Spec => []IInv BY IInvHolds
<1>2. Init => Backed BY DEF Init, Backed
<1>3. IInv /\ Backed /\ [Next]_vars => Backed' BY NextBacked
<1>4. IInv /\ Backed => NoLostWakeup
  BY DEF IInv, NoIdleWhileQueued, Backed, NoLostWakeup, Retries
<1> QED BY <1>1, <1>2, <1>3, <1>4, PTL DEF Spec

-----------------------------------------------------------------------------
(* Where the connections are.                                              *)

\* The callbacks of a longer nextTick queue carry one connection more.
LEMMA ConnsAppend ==
  ASSUME NEW t \in Seq(Ticks), NEW k \in Ticks
  PROVE  ConnsOf(Append(t, k)) = ConnsOf(t) \union ({k.conn} \ {None})
<1> DEFINE u == Append(t, k)
           n == Len(t) + 1
<1>1. /\ n \in Nat
      /\ DOMAIN t = 1 .. n - 1 /\ DOMAIN u = 1 .. n
      /\ u[n] = k /\ \A i \in 1 .. n - 1 : u[i] = t[i]
  OBVIOUS
<1>2. \A i \in 1 .. n : i = n \/ i \in 1 .. n - 1 BY <1>1
<1>3. n \in 1 .. n /\ 1 .. n - 1 \subseteq 1 .. n BY <1>1
<1> HIDE DEF u, n
<1>4. ConnsOf(u) = ConnsOf(t) \union ({k.conn} \ {None})
  BY <1>1, <1>2, <1>3 DEF ConnsOf
<1> QED BY <1>4 DEF u

\* What the first callback carries, and what the others leave behind.
LEMMA FirstTick ==
  ASSUME IInv, ticks # <<>>
  PROVE  LET t == Head(ticks)
             tk == Tail(ticks)
         IN  /\ t.op \in {"give", "fail", "retry"}
                   => t.req \in Reqs /\ has[t.req] = None /\ req[t.req] = "waiting"
             /\ t.op \in {"give", "reset"} => t.conn \in Conns
             /\ t.op \in {"fail", "retry"} => t.conn = None
             /\ tk \in Seq(Ticks)
             /\ StoreOK(free, queue, tk)
             /\ t.conn \notin Parked(free, tk)
             /\ Parked(free, ticks) = Parked(free, tk) \union ({t.conn} \ {None})
<1> DEFINE t == Head(ticks)
           tk == Tail(ticks)
<1>1. StoreOK(free, queue, ticks) /\ Waiting(Waiters(queue, ticks)) BY IInvParts
<1>2. /\ t \in Ticks
      /\ t.op = "reset" <=> t.req = None
      /\ t.op \in {"give", "reset"} <=> t.conn # None
      /\ tk \in Seq(Ticks)
      /\ TickShape(tk) /\ OnePerReq(tk) /\ OnePerConn(tk)
      /\ ReqsOf(ticks) = ReqsOf(tk) \union ({t.req} \ {None})
      /\ ConnsOf(ticks) = ConnsOf(tk) \union ({t.conn} \ {None})
      /\ t.req \notin ReqsOf(tk)
      /\ t.conn \notin ConnsOf(tk)
  BY <1>1, TickTail DEF StoreOK, ListsOK
<1> HIDE DEF t, tk
<1>3. /\ t.op \in {"give", "fail", "retry"} => t.req \in Reqs
      /\ t.op \in {"give", "reset"} => t.conn \in Conns
      /\ t.op \in {"fail", "retry"} => t.conn = None
  BY <1>2 DEF Ticks
<1>4. t.op \in {"give", "fail", "retry"} => has[t.req] = None /\ req[t.req] = "waiting"
  BY <1>1, <1>2, <1>3 DEF Waiting, Waiters
<1>5. StoreOK(free, queue, tk) BY <1>1, <1>2 DEF StoreOK, ListsOK
<1>6. t.conn \notin Elems(free)
  <2>1. CASE t.conn # None BY <2>1, <1>1, <1>2 DEF StoreOK
  <2>2. CASE t.conn = None
    BY <2>2, <1>1, ListMembers, NoneAssumption DEF Parked
  <2> QED BY <2>1, <2>2
<1> QED BY <1>2, <1>3, <1>4, <1>5, <1>6 DEF Parked, t, tk

\* _removeFromPool takes c, and only c, off the lists.
LEMMA RemoveEffect ==
  ASSUME IInv, NEW c \in Conns, removeFromPool(c), ~closed
  PROVE  \/ ~pooled[c] /\ UNCHANGED <<all, free, queue, ticks, pooled>>
         \/ /\ pooled[c]
            /\ all' = all \ {c}
            /\ pooled' = [pooled EXCEPT ![c] = FALSE]
            /\ Parked(free', ticks') = (Elems(free) \ {c}) \union ConnsOf(ticks)
<1>1. StoreOK(free, queue, ticks) BY IInvParts
<1>2. CASE ~pooled[c] BY <1>2 DEF removeFromPool
<1>3. CASE pooled[c]
  <2>1. /\ all' = all \ {c}
        /\ pooled' = [pooled EXCEPT ![c] = FALSE]
        /\ free' = spliceConnection(free, c)
        /\ ServeNext(ticks)
    BY <1>3 DEF removeFromPool
  <2>2. Elems(free') = Elems(free) \ {c} BY <1>1, <2>1, SpliceFacts DEF StoreOK
  <2>3. ConnsOf(ticks') = ConnsOf(ticks) BY <1>1, <2>1, ServeNextFacts DEF StoreOK
  <2> QED BY <1>3, <2>1, <2>2, <2>3 DEF Parked
<1> QED BY <1>2, <1>3

\* releaseConnection(c), in an open pool: c was dropped before, or it is
\* reset, or it is idle or handed on.
LEMMA ReleaseEffect ==
  ASSUME IInv, NEW c \in Conns, c \notin Parked(free, ticks),
         releaseConnection(c), ~closed
  PROVE  /\ UNCHANGED <<all, pooled, stream>>
         /\ \/ /\ ~pooled[c] /\ task' = task
               /\ Parked(free', ticks') = Parked(free, ticks)
            \/ /\ pooled[c] /\ task' = [task EXCEPT ![c] = "reset"]
               /\ Parked(free', ticks') = Parked(free, ticks)
            \/ /\ pooled[c] /\ task' = task
               /\ Parked(free', ticks') = Parked(free, ticks) \union {c}
<1>1. StoreOK(free, queue, ticks) /\ PooledLive BY IInvParts
<1>2. CASE ~pooled[c] /\ ServeNext(ticks) /\ UNCHANGED <<all, free, pooled, stream, task>>
  <2>1. ConnsOf(ticks') = ConnsOf(ticks) BY <1>1, <1>2, ServeNextFacts DEF StoreOK
  <2> QED BY <1>2, <2>1 DEF Parked
<1>3. CASE /\ pooled[c] /\ task' = [task EXCEPT ![c] = "reset"]
           /\ UNCHANGED <<all, free, queue, ticks, pooled, stream>>
  BY <1>3
<1>4. CASE /\ pooled[c] /\ handleSuccessfulRelease(c, ticks)
           /\ UNCHANGED <<all, pooled, stream, task>>
  BY <1>1, <1>4, SuccessfulReleaseFacts
<1>5. pooled[c] => Accepting(c) BY <1>1 DEF PooledLive
<1> QED BY <1>2, <1>3, <1>4, <1>5 DEF releaseConnection

\* getConnection moves an idle connection into a callback, or opens one.
LEMMA GetEffect ==
  ASSUME IInv, NEW tk, StoreOK(free, queue, tk), NEW r \in Reqs, has[r] = None,
         getConnection(r, tk)
  PROVE  /\ Parked(free', ticks') = Parked(free, tk)
         /\ closed' = closed
         /\ \/ UNCHANGED <<all, pooled, released, stream, task, has>>
            \/ \E c \in Conns :
                  /\ Fresh(c)
                  /\ all' = all \union {c}
                  /\ pooled' = [pooled EXCEPT ![c] = TRUE]
                  /\ released' = [released EXCEPT ![c] = FALSE]
                  /\ stream' = [stream EXCEPT ![c] = "open"]
                  /\ task' = [task EXCEPT ![c] = "connect"]
                  /\ has' = [has EXCEPT ![r] = c]
<1>1. closed' = closed BY DEF getConnection
<1>2. tk \in Seq(Ticks) /\ free \in Seq(Conns) BY DEF StoreOK, ListsOK
<1>3. CASE FailLater(r, tk)
  <2>1. Tick("fail", r, None) \in Ticks BY DEF Tick, Ticks
  <2>2. ConnsOf(ticks') = ConnsOf(tk) \union ({None} \ {None})
    BY <1>2, <1>3, <2>1, ConnsAppend DEF FailLater, Tick
  <2>3. ConnsOf(ticks') = ConnsOf(tk) BY <2>2
  <2> QED BY <1>1, <1>3, <2>3 DEF FailLater, connVars, Parked
<1>4. CASE TakeFree(r, tk)
  <2>1. /\ free # <<>>
        /\ free' = SubSeq(free, 1, Len(free) - 1)
        /\ ticks' = Append(tk, Tick("give", r, free[Len(free)]))
    BY <1>4 DEF TakeFree
  <2>2. /\ free[Len(free)] \in Conns
        /\ Elems(free) = Elems(free') \union {free[Len(free)]}
    BY <1>2, <2>1, PopFacts
  <2>3. Tick("give", r, free[Len(free)]) \in Ticks BY <2>2 DEF Tick, Ticks
  <2>4. ConnsOf(ticks') = ConnsOf(tk) \union ({free[Len(free)]} \ {None})
    BY <1>2, <2>1, <2>3, ConnsAppend DEF Tick
  <2>5. Parked(free', ticks') = Parked(free, tk)
    BY <2>2, <2>4, NoneAssumption DEF Parked
  <2> QED BY <1>1, <1>4, <2>5 DEF TakeFree, connVars
<1>5. CASE Create(r, tk)
  BY <1>1, <1>5 DEF Create
<1>6. CASE Refuse(r, tk)
  <2>1. has' = [has EXCEPT ![r] = None] BY <1>6 DEF Refuse, Answered
  <2>2. has \in [Reqs -> Conns \union {None}] BY DEF IInv, TypeOK
  <2>3. has' = has BY <2>1, <2>2
  <2> QED BY <1>1, <1>6, <2>3 DEF Refuse, connVars
<1>7. CASE Enqueue(r, tk)
  BY <1>1, <1>7 DEF Enqueue, connVars
<1> QED BY <1>3, <1>4, <1>5, <1>6, <1>7 DEF getConnection

-----------------------------------------------------------------------------
(* No connection is lost.                                                  *)

Held(c) == \E r \in Reqs : has[r] = c

Kept(c) == Held(c) \/ c \in Parked(free, ticks) \/ task[c] = "reset"

LeakInv ==
    /\ HeldUnreleased
    /\ ~closed => \A c \in all : Kept(c)

\* A step about c, which it keeps or takes out of the pool.
LEMMA KeepStep ==
  ASSUME IInv, LeakInv, NEW c \in Conns,
         closed' = closed,
         \A q \in Reqs : \/ has'[q] = has[q]
                         \/ has[q] = c /\ has'[q] = None,
         \A q \in Reqs : has'[q] # None => released'[has'[q]] = released[has'[q]],
         ~closed => /\ all' \subseteq all
                    /\ \A d \in all' \ {c} :
                          /\ task'[d] = task[d]
                          /\ d \in Parked(free, ticks) => d \in Parked(free', ticks')
                    /\ c \in all' => Kept(c)'
  PROVE  LeakInv'
<1>1. HeldUnreleased' BY DEF LeakInv, HeldUnreleased
<1>2. ASSUME ~closed', NEW d \in all' PROVE Kept(d)'
  <2>1. CASE d = c BY <1>2, <2>1
  <2>2. CASE d # c
    <3>1. Kept(d) /\ d \in all BY <1>2 DEF LeakInv
    <3>2. Held(d) => Held(d)' BY <2>2 DEF Held
    <3> QED BY <1>2, <2>2, <3>1, <3>2 DEF Kept
  <2> QED BY <2>1, <2>2
<1> QED BY <1>1, <1>2 DEF LeakInv

\* A step that moves no connection.
LEMMA KeepSame ==
  ASSUME LeakInv, UNCHANGED <<all, released, task, has>>,
         Parked(free', ticks') = Parked(free, ticks), closed' = closed \/ closed'
  PROVE  LeakInv'
BY DEF LeakInv, HeldUnreleased, Kept, Held

\* What the holder gives back is idle, handed on, or reset.
LEMMA KeepGiveBack ==
  ASSUME IInv, LeakInv, NEW r \in Reqs, NEW c \in Conns, has[r] = c, Answered(r),
         req[r] = "holding", closed' = closed,
         \/ releaseConnection(c) /\ released' = released
         \/ release(c)
  PROVE  LeakInv'
<1>1. TypeRest /\ Owners(Parked(free, ticks)) /\ PooledLive BY IInvParts
<1>2. has' = [has EXCEPT ![r] = None] BY DEF Answered
<1>3. \A q \in Reqs : \/ has'[q] = has[q]
                      \/ has[q] = c /\ has'[q] = None
  BY <1>1, <1>2 DEF TypeRest
<1>4. \A q \in Reqs : has'[q] # c
  BY <1>1, <1>2, NoneAssumption DEF TypeRest, Owners
<1>5. \A q \in Reqs : has'[q] # None => released'[has'[q]] = released[has'[q]]
  <2>1. \A d \in Conns : d # c => released'[d] = released[d]
    BY <1>1 DEF release, TypeRest
  <2>2. \A q \in Reqs : has'[q] # None => has'[q] \in Conns
    BY <1>1, <1>2 DEF TypeRest
  <2> QED BY <1>4, <2>1, <2>2
<1>6. c \notin Parked(free, ticks) BY <1>1, NoneAssumption DEF Owners
<1>7. ~released[c] BY NoneAssumption DEF LeakInv, HeldUnreleased
<1>8. CASE closed BY <1>3, <1>5, <1>8, KeepStep
<1>9. CASE ~closed /\ releaseConnection(c)
  <2>1. /\ UNCHANGED <<all, pooled, stream>>
        /\ \/ /\ ~pooled[c] /\ task' = task
              /\ Parked(free', ticks') = Parked(free, ticks)
           \/ /\ pooled[c] /\ task' = [task EXCEPT ![c] = "reset"]
              /\ Parked(free', ticks') = Parked(free, ticks)
           \/ /\ pooled[c] /\ task' = task
              /\ Parked(free', ticks') = Parked(free, ticks) \union {c}
    BY <1>6, <1>9, ReleaseEffect
  <2>2. c \in all' => Kept(c)'
    BY <1>1, <1>9, <2>1 DEF PooledLive, Kept, TypeRest
  <2>3. \A d \in all' \ {c} :
           /\ task'[d] = task[d]
           /\ d \in Parked(free, ticks) => d \in Parked(free', ticks')
    BY <1>1, <2>1 DEF TypeRest
  <2> QED BY <1>3, <1>5, <2>1, <2>2, <2>3, KeepStep
<1>10. CASE ~closed /\ ~pooled[c] /\ UNCHANGED <<all, free, ticks, task>>
  <2>1. c \notin all BY <1>1, <1>10 DEF PooledLive
  <2> QED BY <1>3, <1>5, <1>10, <2>1, KeepStep
<1> QED BY <1>7, <1>8, <1>9, <1>10 DEF release

\* A connection that is dropped is out of the pool.
LEMMA KeepDrop ==
  ASSUME IInv, LeakInv, NEW c \in Conns, closed' = closed, released' = released,
         removeFromPool(c) \/ ResetFailed(c),
         \A d \in Conns \ {c} : task'[d] = task[d],
         \A q \in Reqs : \/ has'[q] = has[q]
                         \/ has[q] = c /\ has'[q] = None
  PROVE  LeakInv'
<1>1. TypeRest /\ StoreOK(free, queue, ticks) /\ PooledLive BY IInvParts
<1>2. \A q \in Reqs : has'[q] # None => released'[has'[q]] = released[has'[q]]
  OBVIOUS
<1>3. CASE closed BY <1>2, <1>3, KeepStep
<1>4. CASE ~closed
  <2>1. /\ all' \subseteq all /\ c \notin all'
        /\ Parked(free, ticks) \ {c} \subseteq Parked(free', ticks')
    <3>1. CASE ResetFailed(c) BY <3>1, <1>1, ResetFailedFacts
    <3>2. CASE removeFromPool(c)
      <4>1. CASE ~pooled[c] /\ UNCHANGED <<all, free, queue, ticks, pooled>>
        BY <4>1, <1>1, <1>4 DEF PooledLive
      <4>2. CASE /\ all' = all \ {c}
                 /\ Parked(free', ticks') = (Elems(free) \ {c}) \union ConnsOf(ticks)
        BY <4>2 DEF Parked
      <4> QED BY <1>4, <3>2, <4>1, <4>2, RemoveEffect
    <3> QED BY <3>1, <3>2
  <2>2. \A d \in all' \ {c} : d \in Conns BY <1>1, <2>1 DEF TypeRest
  <2> QED BY <1>2, <2>1, <2>2, KeepStep
<1> QED BY <1>3, <1>4

\* getConnection holds what it opens, and moves what it takes.
LEMMA KeepGet ==
  ASSUME IInv, LeakInv, NEW tk, StoreOK(free, queue, tk),
         Parked(free, tk) = Parked(free, ticks),
         NEW r \in Reqs, has[r] = None, getConnection(r, tk)
  PROVE  LeakInv'
<1>1. TypeRest BY IInvParts
<1>2. Parked(free', ticks') = Parked(free, ticks) /\ closed' = closed
  BY GetEffect
<1>3. CASE UNCHANGED <<all, pooled, released, stream, task, has>>
  BY <1>2, <1>3, KeepSame
<1>4. ASSUME NEW c \in Conns,
             /\ Fresh(c)
             /\ all' = all \union {c}
             /\ pooled' = [pooled EXCEPT ![c] = TRUE]
             /\ released' = [released EXCEPT ![c] = FALSE]
             /\ stream' = [stream EXCEPT ![c] = "open"]
             /\ task' = [task EXCEPT ![c] = "connect"]
             /\ has' = [has EXCEPT ![r] = c]
      PROVE  LeakInv'
  <2>1. HeldUnreleased'
    <3> SUFFICES ASSUME NEW q \in Reqs, has'[q] # None PROVE ~released'[has'[q]]
      BY DEF HeldUnreleased
    <3>1. CASE has'[q] = c BY <3>1, <1>1, <1>4 DEF TypeRest
    <3>2. CASE has'[q] # c
      <4>1. has'[q] = has[q] /\ has[q] \in Conns BY <3>2, <1>1, <1>4 DEF TypeRest
      <4> QED BY <3>2, <4>1, <1>1, <1>4 DEF LeakInv, HeldUnreleased, TypeRest
    <3> QED BY <3>1, <3>2
  <2>2. ASSUME ~closed', NEW d \in all' PROVE Kept(d)'
    <3>1. CASE d = c
      <4>1. has'[r] = c BY <1>1, <1>4 DEF TypeRest
      <4> QED BY <3>1, <4>1 DEF Kept, Held
    <3>2. CASE d # c
      <4>1. d \in all /\ d \in Conns /\ Kept(d)
        BY <1>1, <1>2, <1>4, <2>2, <3>2 DEF LeakInv, TypeRest
      <4>2. task'[d] = task[d] BY <1>1, <1>4, <3>2, <4>1 DEF TypeRest
      <4>3. Held(d) => Held(d)'
        <5> SUFFICES ASSUME NEW q \in Reqs, has[q] = d PROVE has'[q] = d
          BY DEF Held
        <5>1. q # r BY <4>1, NoneAssumption
        <5> QED BY <5>1, <1>1, <1>4 DEF TypeRest
      <4> QED BY <1>2, <4>1, <4>2, <4>3 DEF Kept
    <3> QED BY <3>1, <3>2
  <2> QED BY <2>1, <2>2 DEF LeakInv
<1> QED BY <1>3, <1>4, GetEffect

\* A callback of process.nextTick keeps every connection.
LEMMA KeepTick ==
  ASSUME IInv, LeakInv, RunTick
  PROVE  LeakInv'
<1> DEFINE t == Head(ticks)
           tk == Tail(ticks)
<1>1. TypeRest /\ PooledLive BY IInvParts
<1>2. ticks # <<>> BY DEF RunTick
<1>3. /\ t.op \in {"give", "fail", "retry"}
            => t.req \in Reqs /\ has[t.req] = None /\ req[t.req] = "waiting"
      /\ t.op \in {"give", "reset"} => t.conn \in Conns
      /\ t.op \in {"fail", "retry"} => t.conn = None
      /\ StoreOK(free, queue, tk)
      /\ t.conn \notin Parked(free, tk)
      /\ Parked(free, ticks) = Parked(free, tk) \union ({t.conn} \ {None})
  BY <1>2, FirstTick
<1> HIDE DEF t, tk
<1>4. CASE /\ t.op = "give" /\ Give(t.req, t.conn) /\ ticks' = tk
           /\ UNCHANGED <<closed, all, free, queue, pooled, stream, task, quit, endVars>>
  <2> DEFINE r == t.req
             c == t.conn
  <2>1. r \in Reqs /\ c \in Conns /\ c # None /\ has[r] = None
    BY <1>3, <1>4, NoneAssumption
  <2>2. Parked(free', ticks') = Parked(free, ticks) \ {c}
    BY <1>3, <1>4, <2>1
  <2>3. released' = [released EXCEPT ![c] = FALSE] BY <1>4 DEF Give
  <2>4. \/ has' = [has EXCEPT ![r] = c]
        \/ has' = [has EXCEPT ![r] = None] /\ ~Accepting(c)
    BY <1>4 DEF Give, Answered
  <2> HIDE DEF r, c
  <2>5. \A q \in Reqs : has'[q] = has[q] \/ (q = r /\ has'[q] = c)
    BY <1>1, <2>1, <2>4 DEF TypeRest
  <2>6. HeldUnreleased'
    <3> SUFFICES ASSUME NEW q \in Reqs, has'[q] # None PROVE ~released'[has'[q]]
      BY DEF HeldUnreleased
    <3>1. CASE has'[q] = c BY <3>1, <1>1, <2>1, <2>3 DEF TypeRest
    <3>2. CASE has'[q] # c
      <4>1. has'[q] = has[q] /\ has[q] \in Conns BY <3>2, <1>1, <2>5 DEF TypeRest
      <4> QED BY <3>2, <4>1, <1>1, <2>3 DEF LeakInv, HeldUnreleased, TypeRest
    <3> QED BY <3>1, <3>2
  <2>7. ASSUME ~closed', NEW d \in all' PROVE Kept(d)'
    <3>1. d \in Conns /\ d # None /\ Kept(d) /\ pooled[d] /\ Accepting(d)
      BY <1>1, <1>4, <2>7, NoneAssumption DEF LeakInv, TypeRest, PooledLive
    <3>2. CASE d = c
      <4>1. has'[r] = c BY <3>1, <3>2, <1>1, <2>1, <2>4 DEF TypeRest
      <4> QED BY <3>2, <4>1, <2>1 DEF Kept, Held
    <3>3. CASE d # c
      <4>1. Held(d) => Held(d)'
        <5> SUFFICES ASSUME NEW q \in Reqs, has[q] = d PROVE has'[q] = d
          BY DEF Held
        <5> QED BY <3>1, <2>1, <2>5
      <4>2. task' = task BY <1>4
      <4> QED BY <3>1, <3>3, <4>1, <4>2, <2>2 DEF Kept
    <3> QED BY <3>2, <3>3
  <2> QED BY <2>6, <2>7 DEF LeakInv
<1>5. CASE /\ t.op = "fail" /\ Answered(t.req) /\ ticks' = tk
           /\ UNCHANGED <<closed, all, free, queue, connVars, endVars>>
  <2>1. has' = has BY <1>1, <1>3, <1>5 DEF Answered, TypeRest
  <2>2. Parked(free', ticks') = Parked(free, ticks) BY <1>3, <1>5
  <2> QED BY <1>5, <2>1, <2>2, KeepSame DEF connVars
<1>6. CASE t.op = "retry" /\ getConnection(t.req, tk)
  <2>1. Parked(free, tk) = Parked(free, ticks) BY <1>3, <1>6
  <2> QED BY <1>3, <1>6, <2>1, KeepGet
<1>7. CASE /\ t.op = "reset" /\ handleSuccessfulRelease(t.conn, tk)
           /\ UNCHANGED <<closed, all, connVars, req, has, endVars>>
  <2>1. Parked(free', ticks') = Parked(free, tk) \union {t.conn}
    BY <1>3, <1>7, SuccessfulReleaseFacts
  <2>2. Parked(free', ticks') = Parked(free, ticks)
    BY <1>3, <1>7, <2>1, NoneAssumption
  <2> QED BY <1>7, <2>2, KeepSame DEF connVars
<1> QED BY <1>4, <1>5, <1>6, <1>7 DEF RunTick, t, tk

\* The idle timer drops what it ends, and nothing else.
LEMMA KeepIdle ==
  ASSUME IInv, LeakInv, NEW k \in 1 .. Len(free), IdleTimer(k)
  PROVE  LeakInv'
<1> DEFINE gone == {free[i] : i \in 1 .. k}
<1>1. TypeRest /\ StoreOK(free, queue, ticks) BY IInvParts
<1>2. /\ ticks = <<>> /\ UNCHANGED <<closed, released, task, has>>
      /\ all' = all \ gone
      /\ free' = SubSeq(free, k + 1, Len(free))
  BY DEF IdleTimer
<1>3. Elems(free') = Elems(free) \ gone
  BY <1>1, <1>2, DropFacts DEF StoreOK
<1> HIDE DEF gone
<1>4. ConnsOf(ticks) = {} BY <1>2 DEF ConnsOf
<1>5. HeldUnreleased' BY <1>2 DEF LeakInv, HeldUnreleased
<1>6. ASSUME ~closed', NEW d \in all' PROVE Kept(d)'
  <2>1. Kept(d) /\ d \notin gone BY <1>2, <1>6 DEF LeakInv
  <2>2. d \in Parked(free, ticks) => d \in Parked(free', ticks')
    BY <1>3, <1>4, <2>1 DEF Parked
  <2> QED BY <1>2, <2>1, <2>2 DEF Kept, Held
<1> QED BY <1>5, <1>6 DEF LeakInv

\* Every step keeps the connections of the pool.
LEMMA NextKept ==
  ASSUME IInv, WellUsed, LeakInv, [Next]_vars
  PROVE  LeakInv'
<1>1. /\ TypeRest /\ StoreOK(free, queue, ticks) /\ PooledLive
      /\ Owners(Parked(free, ticks))
  BY IInvParts
<1>2. ASSUME UNCHANGED <<closed, all, free, ticks, released, task, has>>
      PROVE  LeakInv'
  BY <1>2, KeepSame
<1>3. ASSUME AppNext PROVE LeakInv'
  <2>1. ASSUME NEW r \in Reqs, Request(r) PROVE LeakInv'
    <3>1. getConnection(r, ticks) /\ req[r] \in {"new", "done"}
      BY <2>1 DEF Request
    <3>2. has[r] = None BY <3>1 DEF IInv, RequestOnce
    <3> QED BY <1>1, <3>1, <3>2, KeepGet
  <2>2. ASSUME NEW r \in Reqs, NEW c \in Conns,
               Release(r, c) \/ ReleaseViaPool(r, c)
        PROVE  LeakInv'
    BY <2>2, KeepGiveBack DEF Release, ReleaseViaPool, Holds
  <2>3. ASSUME NEW r \in Reqs, NEW c \in Conns, has[r] = c, Answered(r)
        PROVE  \A q \in Reqs : has'[q] = has[q] \/ (has[q] = c /\ has'[q] = None)
    BY <2>3, <1>1 DEF Answered, TypeRest
  <2>4. ASSUME NEW r \in Reqs, NEW c \in Conns, Destroy(r, c) PROVE LeakInv'
    BY <2>3, <2>4, KeepDrop DEF Destroy, Holds
  <2>5. ASSUME NEW r \in Reqs, NEW c \in Conns, EndConn(r, c) PROVE LeakInv'
    <3>1. /\ has[r] = c /\ req[r] = "holding" /\ Answered(r) /\ closed' = closed
      BY <2>5 DEF EndConn, Holds
    <3>2. CASE removeFromPool(c) /\ UNCHANGED <<released, task>>
      BY <2>3, <3>1, <3>2, KeepDrop
    <3>3. CASE release(c) BY <3>1, <3>3, KeepGiveBack
    <3> QED BY <2>5, <3>2, <3>3 DEF EndConn
  <2>6. ASSUME NEW c \in Conns, StaleRelease(c) PROVE LeakInv'
    <3>1. UNCHANGED vars BY <2>6, StaleReleaseIdle
    <3> QED BY <3>1, <1>2 DEF vars, connVars
  <2>7. ASSUME NEW c \in Conns, StaleDestroy(c) PROVE LeakInv'
    BY <2>7, KeepDrop DEF StaleDestroy
  <2>8. ASSUME EndPool PROVE LeakInv'
    BY <2>8 DEF EndPool, LeakInv, HeldUnreleased
  <2> QED BY <1>3, <2>1, <2>2, <2>4, <2>5, <2>6, <2>7, <2>8 DEF AppNext
<1>4. ASSUME RunTick PROVE LeakInv' BY <1>4, KeepTick
<1>5. ASSUME StreamNext PROVE LeakInv'
  <2>0. ASSUME NEW r \in Reqs, NEW c \in Conns, has[r] = c, Answered(r)
        PROVE  \A q \in Reqs : has'[q] = has[q] \/ (has[q] = c /\ has'[q] = None)
    BY <2>0, <1>1 DEF Answered, TypeRest
  <2>1. ASSUME NEW r \in Reqs, NEW c \in Conns, ConnectOk(r, c) PROVE LeakInv'
    <3>1. /\ has[r] = c /\ task' = [task EXCEPT ![c] = "idle"]
          /\ UNCHANGED <<closed, all, free, ticks, released>>
          /\ IF closed THEN Answered(r) ELSE has' = has
      BY <2>1 DEF ConnectOk
    <3>2. \A q \in Reqs : has'[q] = has[q] \/ (has[q] = c /\ has'[q] = None)
      BY <2>0, <3>1
    <3>3. ~closed => Kept(c)' BY <3>1 DEF Kept, Held
    <3>4. \A d \in all' \ {c} : task'[d] = task[d]
      BY <1>1, <3>1 DEF TypeRest
    <3> QED BY <3>1, <3>2, <3>3, <3>4, KeepStep
  <2>2. ASSUME NEW r \in Reqs, NEW c \in Conns, NEW ro \in BOOLEAN, QueryEnd(r, c, ro)
        PROVE  LeakInv'
    <3>1. has[r] = c /\ req[r] = "holding" /\ Answered(r) /\ closed' = closed
      BY <2>2 DEF QueryEnd
    <3>2. CASE release(c) BY <3>1, <3>2, KeepGiveBack
    <3>3. CASE removeFromPool(c) /\ UNCHANGED <<released, task>>
      BY <2>0, <3>1, <3>3, KeepDrop
    <3>4. CASE closed /\ UNCHANGED <<all, free, queue, ticks, pooled, released, task>>
      BY <2>0, <3>1, <3>4, KeepStep
    <3> QED BY <2>2, <3>2, <3>3, <3>4 DEF QueryEnd
  <2>3. ASSUME NEW r \in Reqs, NEW c \in Conns, QueryThrow(r, c) PROVE LeakInv'
    BY <2>3, KeepGiveBack DEF QueryThrow
  <2>4. ASSUME NEW c \in Conns, StreamEnd(c) PROVE LeakInv'
    BY <2>4, KeepDrop DEF StreamEnd
  <2>5. ASSUME NEW c \in Conns, StreamFail(c) PROVE LeakInv'
    <3>1. /\ closed' = closed /\ released' = released
          /\ removeFromPool(c) \/ ResetFailed(c)
          /\ task' = [task EXCEPT ![c] = "idle"]
      BY <2>5 DEF StreamFail
    <3>2. \A q \in Reqs : has'[q] = has[q] \/ (has[q] = c /\ has'[q] = None)
      BY <2>5 DEF StreamFail, Holders
    <3>3. \A d \in Conns \ {c} : task'[d] = task[d] BY <1>1, <3>1 DEF TypeRest
    <3> QED BY <3>1, <3>2, <3>3, KeepDrop
  <2>6. ASSUME NEW c \in Conns, StreamGone(c) PROVE LeakInv'
    <3>1. /\ stream[c] = "closing" /\ task' = [task EXCEPT ![c] = "idle"]
          /\ UNCHANGED <<closed, all, free, ticks, released, has>>
      BY <2>6 DEF StreamGone
    <3>2. ~closed => c \notin all BY <1>1, <3>1 DEF PooledLive, Accepting
    <3>3. \A d \in all' \ {c} : task'[d] = task[d] BY <1>1, <3>1 DEF TypeRest
    <3> QED BY <3>1, <3>2, <3>3, KeepStep
  <2>7. ASSUME NEW c \in Conns, NEW ok \in BOOLEAN, ResetReply(c, ok) PROVE LeakInv'
    <3>1. /\ UNCHANGED <<closed, released, has>>
          /\ task' = [task EXCEPT ![c] = "idle"]
      BY <2>7 DEF ResetReply
    <3>2. \A d \in Conns \ {c} : task'[d] = task[d] BY <1>1, <3>1 DEF TypeRest
    <3>3. CASE ResetFailed(c) BY <3>1, <3>2, <3>3, KeepDrop
    <3>4. CASE /\ ticks' = Append(ticks, Tick("reset", None, c))
               /\ UNCHANGED <<all, free>>
      <4>1. ticks \in Seq(Ticks) /\ Tick("reset", None, c) \in Ticks
        BY DEF IInv, TypeOK, Tick, Ticks
      <4>2. ConnsOf(ticks') = ConnsOf(ticks) \union ({c} \ {None})
        BY <3>4, <4>1, ConnsAppend DEF Tick
      <4>3. Parked(free', ticks') = Parked(free, ticks) \union {c}
        BY <3>4, <4>2, NoneAssumption DEF Parked
      <4>4. Kept(c)' BY <4>3 DEF Kept
      <4>5. \A d \in all' \ {c} : task'[d] = task[d] BY <1>1, <3>2, <3>4 DEF TypeRest
      <4> QED BY <3>1, <3>4, <4>3, <4>4, <4>5, KeepStep
    <3> QED BY <2>7, <3>3, <3>4 DEF ResetReply
  <2>8. ASSUME NEW c \in Conns, QuitRuns(c) PROVE LeakInv'
    BY <2>8, <1>2 DEF QuitRuns
  <2>9. ASSUME NEW k \in 1 .. Len(free), IdleTimer(k) PROVE LeakInv'
    BY <2>9, KeepIdle
  <2> QED BY <1>5, <2>1, <2>2, <2>3, <2>4, <2>5, <2>6, <2>7, <2>8, <2>9 DEF StreamNext
<1>6. ASSUME UNCHANGED vars PROVE LeakInv' BY <1>6, <1>2 DEF vars, connVars
<1> QED BY <1>3, <1>4, <1>5, <1>6 DEF Next

\* Every connection that an open pool counts against connectionLimit is held,
\* idle, in a callback, or being reset: none is lost.
THEOREM NoLeakHolds == WellUsed => (Spec => []NoLeak)
<1> SUFFICES ASSUME WellUsed PROVE Spec => []NoLeak OBVIOUS
<1>1. Spec => []IInv BY IInvHolds
<1>2. Init => LeakInv BY DEF Init, LeakInv, HeldUnreleased
<1>3. IInv /\ LeakInv /\ [Next]_vars => LeakInv' BY NextKept
<1>4. LeakInv => NoLeak BY DEF LeakInv, NoLeak, Kept, Held, Holders, Parked
<1> QED BY <1>1, <1>2, <1>3, <1>4, PTL DEF Spec

-----------------------------------------------------------------------------
(* A connection that is delivered can be used.                             *)

\* The application destroys no connection that it has given back, and no
\* ERR packet comes in together with the reply before it.
Orderly == "staleDestroy" \notin Calls /\ ~TrailingError

\* The connection may be delivered in a later step.
Due(c) ==
    \/ c \in Parked(free, ticks)
    \/ task[c] = "connect" /\ stream[c] = "open"
    \/ task[c] = "reset" /\ stream[c] \in {"open", "closing"}

\* A step about c alone.
LEMMA DueStep ==
  ASSUME DeliverablePooled, NEW c \in Conns, closed' = closed,
         ~closed => /\ \A d \in Conns \ {c} :
                          pooled'[d] = pooled[d] /\ (Due(d)' => Due(d))
                    /\ Due(c)' => pooled'[c]
  PROVE  DeliverablePooled'
<1> SUFFICES ASSUME ~closed, NEW d \in Conns, Due(d)' PROVE pooled'[d]
  BY DEF DeliverablePooled, Due, Parked
<1>1. CASE d = c BY <1>1
<1>2. CASE d # c
  <2>1. Due(d) /\ pooled'[d] = pooled[d] BY <1>2
  <2> QED BY <2>1 DEF DeliverablePooled, Due, Parked
<1> QED BY <1>1, <1>2

\* What is due belongs to an open pool.
LEMMA DuePooled ==
  ASSUME DeliverablePooled, ~closed, NEW c \in Conns, Due(c)
  PROVE  pooled[c]
BY DEF DeliverablePooled, Due, Parked

\* A step after which no other connection is due.
LEMMA DueSame ==
  ASSUME DeliverablePooled, closed' = closed \/ closed', pooled' = pooled,
         \A d \in Conns : Due(d)' => Due(d)
  PROVE  DeliverablePooled'
BY DEF DeliverablePooled, Due, Parked

\* The holder gives c back.
LEMMA DueGiveBack ==
  ASSUME IInv, DeliverablePooled, NEW r \in Reqs, NEW c \in Conns, has[r] = c,
         req[r] = "holding", closed' = closed,
         releaseConnection(c) \/ release(c)
  PROVE  DeliverablePooled'
<1>1. TypeRest /\ Owners(Parked(free, ticks)) BY IInvParts
<1>2. c \notin Parked(free, ticks) /\ task[c] = "idle"
  BY <1>1, NoneAssumption DEF Owners
<1>3. CASE closed BY <1>3, DueStep
<1>4. CASE ~closed /\ releaseConnection(c)
  <2>1. /\ UNCHANGED <<all, pooled, stream>>
        /\ \/ /\ ~pooled[c] /\ task' = task
              /\ Parked(free', ticks') = Parked(free, ticks)
           \/ /\ pooled[c] /\ task' = [task EXCEPT ![c] = "reset"]
              /\ Parked(free', ticks') = Parked(free, ticks)
           \/ /\ pooled[c] /\ task' = task
              /\ Parked(free', ticks') = Parked(free, ticks) \union {c}
    BY <1>2, <1>4, ReleaseEffect
  <2>2. Due(c)' => pooled'[c] BY <1>2, <2>1 DEF Due
  <2>3. \A d \in Conns \ {c} : Due(d)' => Due(d) BY <1>1, <2>1 DEF Due, TypeRest
  <2> QED BY <2>1, <2>2, <2>3, DueStep
<1>5. CASE UNCHANGED <<all, free, ticks, pooled, stream, task>>
  BY <1>5, DueSame DEF Due
<1> QED BY <1>3, <1>4, <1>5 DEF release

\* c is dropped while no callback carries it, and is not due any more.
LEMMA DueDrop ==
  ASSUME IInv, DeliverablePooled, NEW c \in Conns, closed' = closed,
         \/ removeFromPool(c) /\ c \notin ConnsOf(ticks)
         \/ ResetFailed(c) /\ task[c] = "reset",
         \A d \in Conns \ {c} : task'[d] = task[d] /\ stream'[d] = stream[d],
         task'[c] = "idle" \/ stream'[c] \notin {"open", "closing"}
  PROVE  DeliverablePooled'
<1>1. TypeRest /\ StoreOK(free, queue, ticks) /\ Owners(Parked(free, ticks))
  BY IInvParts
<1>2. CASE closed BY <1>2, DueStep
<1>3. CASE ~closed
  <2>1. /\ \A d \in Conns \ {c} : pooled'[d] = pooled[d]
        /\ Parked(free', ticks') \subseteq Parked(free, ticks)
        /\ c \notin Parked(free', ticks')
    <3>1. CASE ResetFailed(c) /\ task[c] = "reset"
      <4>1. c \notin Parked(free, ticks) BY <1>1, <3>1 DEF Owners
      <4> QED BY <1>1, <3>1, <4>1, ResetFailedFacts DEF TypeRest
    <3>2. CASE /\ ~pooled[c]
               /\ UNCHANGED <<all, free, queue, ticks, pooled>>
      <4>1. c \notin Parked(free, ticks) BY <1>3, <3>2, DuePooled DEF Due
      <4> QED BY <3>2, <4>1
    <3>3. CASE /\ c \notin ConnsOf(ticks)
               /\ pooled' = [pooled EXCEPT ![c] = FALSE]
               /\ Parked(free', ticks') = (Elems(free) \ {c}) \union ConnsOf(ticks)
      BY <1>1, <3>3 DEF Parked, TypeRest
    <3> QED BY <1>3, <3>1, <3>2, <3>3, RemoveEffect
  <2>2. ~Due(c)'
    <3>1. task'[c] = "idle" => ~(task'[c] = "connect" \/ task'[c] = "reset")
      OBVIOUS
    <3> QED BY <2>1, <3>1 DEF Due
  <2>3. \A d \in Conns \ {c} : Due(d)' => Due(d) BY <2>1 DEF Due
  <2> QED BY <2>1, <2>2, <2>3, DueStep
<1> QED BY <1>2, <1>3

\* getConnection opens a connection that belongs to the pool.
LEMMA DueGet ==
  ASSUME IInv, DeliverablePooled, NEW tk, StoreOK(free, queue, tk),
         Parked(free, tk) = Parked(free, ticks),
         NEW r \in Reqs, has[r] = None, getConnection(r, tk)
  PROVE  DeliverablePooled'
<1>1. TypeRest BY IInvParts
<1>2. Parked(free', ticks') = Parked(free, ticks) /\ closed' = closed
  BY GetEffect
<1>3. CASE UNCHANGED <<all, pooled, released, stream, task, has>>
  BY <1>2, <1>3, DueSame DEF Due
<1>4. ASSUME NEW c \in Conns,
             /\ pooled' = [pooled EXCEPT ![c] = TRUE]
             /\ stream' = [stream EXCEPT ![c] = "open"]
             /\ task' = [task EXCEPT ![c] = "connect"]
      PROVE  DeliverablePooled'
  <2>1. pooled'[c] BY <1>1, <1>4 DEF TypeRest
  <2>2. \A d \in Conns \ {c} : pooled'[d] = pooled[d] /\ (Due(d)' => Due(d))
    BY <1>1, <1>2, <1>4 DEF Due, TypeRest
  <2> QED BY <1>2, <2>1, <2>2, DueStep
<1> QED BY <1>3, <1>4, GetEffect

\* A callback of process.nextTick makes no other connection due.
LEMMA DueTick ==
  ASSUME IInv, DeliverablePooled, RunTick
  PROVE  DeliverablePooled'
<1> DEFINE t == Head(ticks)
           tk == Tail(ticks)
<1>1. ticks # <<>> BY DEF RunTick
<1>2. /\ t.op \in {"give", "fail", "retry"}
            => t.req \in Reqs /\ has[t.req] = None /\ req[t.req] = "waiting"
      /\ t.op \in {"give", "reset"} => t.conn \in Conns
      /\ t.op \in {"fail", "retry"} => t.conn = None
      /\ StoreOK(free, queue, tk)
      /\ t.conn \notin Parked(free, tk)
      /\ Parked(free, ticks) = Parked(free, tk) \union ({t.conn} \ {None})
  BY <1>1, FirstTick
<1> HIDE DEF t, tk
<1>3. CASE t.op \in {"give", "fail"} /\ ticks' = tk
           /\ UNCHANGED <<closed, free, pooled, stream, task>>
  <2>1. Parked(free', ticks') \subseteq Parked(free, ticks) BY <1>2, <1>3
  <2> QED BY <1>3, <2>1, DueSame DEF Due
<1>4. CASE t.op = "retry" /\ getConnection(t.req, tk)
  <2>1. Parked(free, tk) = Parked(free, ticks) BY <1>2, <1>4
  <2> QED BY <1>2, <1>4, <2>1, DueGet
<1>5. CASE /\ t.op = "reset" /\ handleSuccessfulRelease(t.conn, tk)
           /\ UNCHANGED <<closed, all, connVars, req, has, endVars>>
  <2>1. Parked(free', ticks') = Parked(free, tk) \union {t.conn}
    BY <1>2, <1>5, SuccessfulReleaseFacts
  <2>2. Parked(free', ticks') = Parked(free, ticks)
    BY <1>2, <1>5, <2>1, NoneAssumption
  <2> QED BY <1>5, <2>2, DueSame DEF Due, connVars
<1> QED BY <1>3, <1>4, <1>5 DEF RunTick, connVars, t, tk

\* What the idle timer ends is not idle any more.
LEMMA DueIdle ==
  ASSUME IInv, DeliverablePooled, NEW k \in 1 .. Len(free), IdleTimer(k)
  PROVE  DeliverablePooled'
<1> DEFINE gone == {free[i] : i \in 1 .. k}
           n == IF k < Len(queue) THEN k ELSE Len(queue)
<1>1. TypeRest /\ StoreOK(free, queue, ticks) /\ Owners(Parked(free, ticks))
  BY IInvParts
<1>2. /\ ticks = <<>> /\ UNCHANGED <<closed, task>>
      /\ pooled' = [c \in Conns |-> pooled[c] /\ c \notin gone]
      /\ stream' = [c \in Conns |-> IF c \in gone THEN "closing" ELSE stream[c]]
      /\ free' = SubSeq(free, k + 1, Len(free))
      /\ ticks' = [i \in 1 .. n |-> Tick("retry", queue[i], None)]
  BY DEF IdleTimer
<1>3. free \in Seq(Conns) /\ Distinct(free) /\ free # <<>> /\ queue = <<>>
  BY <1>1 DEF StoreOK
<1>4. n = 0 BY <1>3
<1>5. ticks' = <<>> BY <1>2, <1>4
<1> HIDE DEF n
<1>6. Elems(free') = Elems(free) \ gone BY <1>2, <1>3, DropFacts
<1>7. gone \subseteq Elems(free)
  <2>1. DOMAIN free = 1 .. Len(free) /\ Len(free) \in Nat BY <1>3
  <2> QED BY <2>1 DEF Elems
<1> HIDE DEF gone
<1>8. Parked(free', ticks') = Elems(free) \ gone
  BY <1>5, <1>6 DEF Parked, ConnsOf
<1>9. \A d \in gone : task[d] = "idle" BY <1>1, <1>7 DEF Owners, Parked
<1> SUFFICES ASSUME ~closed', NEW d \in Conns, Due(d)' PROVE pooled'[d]
  BY DEF DeliverablePooled, Due, Parked
<1>10. d \notin gone BY <1>2, <1>8, <1>9 DEF Due
<1>11. Due(d) BY <1>2, <1>8, <1>10 DEF Due, Parked
<1> QED BY <1>2, <1>10, <1>11, DuePooled

\* Every step keeps what may be delivered in the pool.
LEMMA NextDue ==
  ASSUME WellUsed, Orderly, IInv, DeliverablePooled, [Next]_vars
  PROVE  DeliverablePooled'
<1>1. /\ TypeRest /\ StoreOK(free, queue, ticks) /\ PooledLive
      /\ Owners(Parked(free, ticks))
  BY IInvParts
<1>2. ASSUME NEW c \in Conns, NEW r \in Reqs, has[r] = c
      PROVE  c \notin Parked(free, ticks)
  BY <1>1, <1>2, NoneAssumption DEF Owners
<1>3. ASSUME NEW c \in Conns, stream' = Shut(c)
      PROVE  /\ stream'[c] \in {"closing", "dead"}
             /\ \A d \in Conns \ {c} : stream'[d] = stream[d]
  BY <1>1, <1>3, ShutFacts DEF TypeRest
<1>4. ASSUME AppNext PROVE DeliverablePooled'
  <2>1. ASSUME NEW r \in Reqs, Request(r) PROVE DeliverablePooled'
    <3>1. getConnection(r, ticks) /\ req[r] \in {"new", "done"}
      BY <2>1 DEF Request
    <3>2. has[r] = None BY <3>1 DEF IInv, RequestOnce
    <3> QED BY <1>1, <3>1, <3>2, DueGet
  <2>2. ASSUME NEW r \in Reqs, NEW c \in Conns,
               Release(r, c) \/ ReleaseViaPool(r, c)
        PROVE  DeliverablePooled'
    BY <2>2, DueGiveBack DEF Release, ReleaseViaPool, Holds
  <2>3. ASSUME NEW r \in Reqs, NEW c \in Conns, has[r] = c, req[r] = "holding",
               removeFromPool(c), stream' = Shut(c), UNCHANGED <<closed, task>>
        PROVE  DeliverablePooled'
    <3>1. c \notin ConnsOf(ticks) BY <1>2, <2>3 DEF Parked
    <3>2. task[c] = "idle" BY <1>1, <2>3, NoneAssumption DEF Owners
    <3> QED BY <1>3, <2>3, <3>1, <3>2, DueDrop
  <2>4. ASSUME NEW r \in Reqs, NEW c \in Conns, Destroy(r, c)
        PROVE  DeliverablePooled'
    BY <2>3, <2>4 DEF Destroy, Holds
  <2>5. ASSUME NEW r \in Reqs, NEW c \in Conns, EndConn(r, c)
        PROVE  DeliverablePooled'
    <3>1. has[r] = c /\ req[r] = "holding" /\ closed' = closed
      BY <2>5 DEF EndConn, Holds
    <3> QED BY <2>3, <2>5, <3>1, DueGiveBack DEF EndConn
  <2>6. ASSUME NEW c \in Conns, StaleRelease(c) PROVE DeliverablePooled'
    <3>1. UNCHANGED vars BY <2>6, StaleReleaseIdle
    <3> QED BY <3>1, DueSame DEF vars, connVars, Due
  <2>7. ASSUME NEW c \in Conns, StaleDestroy(c) PROVE FALSE
    BY <2>7 DEF StaleDestroy, Orderly
  <2>8. ASSUME EndPool PROVE DeliverablePooled'
    BY <2>8 DEF EndPool, DeliverablePooled
  <2> QED BY <1>4, <2>1, <2>2, <2>4, <2>5, <2>6, <2>7, <2>8 DEF AppNext
<1>5. ASSUME RunTick PROVE DeliverablePooled' BY <1>5, DueTick
<1>6. ASSUME StreamNext PROVE DeliverablePooled'
  <2>0. ConnsOf(<<>>) = {} BY DEF ConnsOf
  <2>1. ASSUME NEW r \in Reqs, NEW c \in Conns, ConnectOk(r, c)
        PROVE  DeliverablePooled'
    <3>1. /\ has[r] = c /\ task' = [task EXCEPT ![c] = "idle"]
          /\ stream' = Shut(c) \/ stream' = stream
          /\ UNCHANGED <<closed, free, ticks, pooled>>
      BY <2>1 DEF ConnectOk
    <3>2. /\ task'[c] = "idle"
          /\ \A d \in Conns \ {c} : task'[d] = task[d] /\ stream'[d] = stream[d]
      BY <1>1, <1>3, <3>1 DEF TypeRest
    <3>3. \A d \in Conns : Due(d)' => Due(d) BY <3>1, <3>2 DEF Due
    <3> QED BY <3>1, <3>3, DueSame
  <2>2. ASSUME NEW r \in Reqs, NEW c \in Conns, NEW ro \in BOOLEAN, QueryEnd(r, c, ro)
        PROVE  DeliverablePooled'
    <3>1. has[r] = c /\ req[r] = "holding" /\ closed' = closed
      BY <2>2 DEF QueryEnd
    <3>2. CASE release(c) BY <3>1, <3>2, DueGiveBack
    <3>3. CASE removeFromPool(c) /\ stream' = Shut(c) /\ UNCHANGED task
      <4>1. c \notin ConnsOf(ticks) BY <1>2, <3>1 DEF Parked
      <4>2. task[c] = "idle" BY <1>1, <3>1, NoneAssumption DEF Owners
      <4> QED BY <1>3, <3>1, <3>3, <4>1, <4>2, DueDrop
    <3>4. CASE closed BY <3>1, <3>4, DueStep
    <3> QED BY <2>2, <3>2, <3>3, <3>4 DEF QueryEnd
  <2>3. ASSUME NEW r \in Reqs, NEW c \in Conns, QueryThrow(r, c)
        PROVE  DeliverablePooled'
    BY <2>3, DueGiveBack DEF QueryThrow
  <2>4. ASSUME NEW c \in Conns, StreamEnd(c) PROVE DeliverablePooled'
    <3>1. /\ ticks = <<>> /\ removeFromPool(c) /\ UNCHANGED <<closed, task>>
          /\ stream' = [stream EXCEPT ![c] = "fin"]
      BY <2>4 DEF StreamEnd
    <3>2. /\ stream'[c] = "fin"
          /\ \A d \in Conns \ {c} : stream'[d] = stream[d]
      BY <1>1, <3>1 DEF TypeRest
    <3> QED BY <2>0, <3>1, <3>2, DueDrop
  <2>5. ASSUME NEW c \in Conns, StreamFail(c) PROVE DeliverablePooled'
    <3>1. /\ ticks = <<>> /\ closed' = closed
          /\ stream' = [stream EXCEPT ![c] = "dead"]
          /\ task' = [task EXCEPT ![c] = "idle"]
          /\ IF task[c] = "reset" THEN ResetFailed(c) ELSE removeFromPool(c)
      BY <2>5 DEF StreamFail, Orderly
    <3>2. /\ task'[c] = "idle"
          /\ \A d \in Conns \ {c} : task'[d] = task[d] /\ stream'[d] = stream[d]
      BY <1>1, <3>1 DEF TypeRest
    <3> QED BY <2>0, <3>1, <3>2, DueDrop
  <2>6. ASSUME NEW c \in Conns, StreamGone(c) PROVE DeliverablePooled'
    <3>1. /\ task' = [task EXCEPT ![c] = "idle"]
          /\ stream' = [stream EXCEPT ![c] = "dead"]
          /\ UNCHANGED <<closed, free, ticks, pooled>>
      BY <2>6 DEF StreamGone
    <3>2. \A d \in Conns : Due(d)' => Due(d) BY <1>1, <3>1 DEF Due, TypeRest
    <3> QED BY <3>1, <3>2, DueSame
  <2>7. ASSUME NEW c \in Conns, NEW ok \in BOOLEAN, ResetReply(c, ok)
        PROVE  DeliverablePooled'
    <3>1. /\ task[c] = "reset" /\ stream[c] \in {"open", "closing"}
          /\ closed' = closed /\ task' = [task EXCEPT ![c] = "idle"]
          /\ stream' = Shut(c) \/ stream' = stream
      BY <2>7 DEF ResetReply
    <3>2. /\ task'[c] = "idle"
          /\ \A d \in Conns \ {c} : task'[d] = task[d] /\ stream'[d] = stream[d]
      BY <1>1, <1>3, <3>1 DEF TypeRest
    <3>3. CASE ResetFailed(c) BY <3>1, <3>2, <3>3, DueDrop
    <3>4. CASE /\ ticks' = Append(ticks, Tick("reset", None, c))
               /\ UNCHANGED <<free, pooled>>
      <4>1. ticks \in Seq(Ticks) /\ Tick("reset", None, c) \in Ticks
        BY DEF IInv, TypeOK, Tick, Ticks
      <4>2. ConnsOf(ticks') = ConnsOf(ticks) \union ({c} \ {None})
        BY <3>4, <4>1, ConnsAppend DEF Tick
      <4>3. Parked(free', ticks') \subseteq Parked(free, ticks) \union {c}
        BY <3>4, <4>2 DEF Parked
      <4>4. Due(c) BY <3>1 DEF Due
      <4>5. \A d \in Conns : Due(d)' => Due(d) BY <3>2, <4>3, <4>4 DEF Due
      <4> QED BY <3>1, <3>4, <4>5, DueSame
    <3> QED BY <2>7, <3>3, <3>4 DEF ResetReply
  <2>8. ASSUME NEW c \in Conns, QuitRuns(c) PROVE DeliverablePooled'
    <3>1. /\ task[c] = "idle" /\ stream' = Shut(c)
          /\ UNCHANGED <<closed, free, ticks, pooled, task>>
      BY <2>8 DEF QuitRuns
    <3>2. \A d \in Conns : Due(d)' => Due(d) BY <1>3, <3>1 DEF Due
    <3> QED BY <3>1, <3>2, DueSame
  <2>9. ASSUME NEW k \in 1 .. Len(free), IdleTimer(k) PROVE DeliverablePooled'
    BY <2>9, DueIdle
  <2> QED BY <1>6, <2>1, <2>2, <2>3, <2>4, <2>5, <2>6, <2>7, <2>8, <2>9 DEF StreamNext
<1>7. ASSUME UNCHANGED vars PROVE DeliverablePooled'
  BY <1>7, DueSame DEF vars, connVars, Due
<1> QED BY <1>4, <1>5, <1>6, <1>7 DEF Next

\* A request gets a connection from a callback, or the one opened for it.
LEMMA HoldingFrom ==
  ASSUME IInv, Next, NEW r \in Reqs, req[r] # "holding", req'[r] = "holding"
  PROVE  \/ /\ RunTick /\ Head(ticks).op = "give" /\ Head(ticks).req = r
            /\ Give(r, Head(ticks).conn)
         \/ \E c \in Conns : ConnectOk(r, c)
<1>1. req \in [Reqs -> {"new", "waiting", "holding", "done"}] BY DEF IInv, TypeOK
<1>2. ASSUME NEW q \in Reqs, NEW tk, getConnection(q, tk) PROVE FALSE
  <2>1. \/ req' = [req EXCEPT ![q] = "waiting"]
        \/ req' = [req EXCEPT ![q] = "done"]
    BY <1>2 DEF getConnection, FailLater, TakeFree, Create, Refuse, Enqueue, Answered
  <2> QED BY <1>1, <2>1
<1>3. ASSUME NEW q \in Reqs, Answered(q) PROVE FALSE
  BY <1>1, <1>3 DEF Answered
<1>4. ASSUME AppNext PROVE FALSE
  BY <1>2, <1>3, <1>4 DEF AppNext, Request, Release, ReleaseViaPool, Destroy, EndConn,
                         StaleRelease, StaleDestroy, EndPool
<1>5. ASSUME RunTick
      PROVE  /\ Head(ticks).op = "give" /\ Head(ticks).req = r
             /\ Give(r, Head(ticks).conn)
  <2> DEFINE t == Head(ticks)
  <2>1. /\ t.op \in {"give", "fail", "retry"} => t.req \in Reqs
    BY <1>5, FirstTick DEF RunTick
  <2> HIDE DEF t
  <2>2. ~(t.op = "fail" /\ Answered(t.req)) BY <1>3, <2>1
  <2>3. ~(t.op = "retry" /\ getConnection(t.req, Tail(ticks))) BY <1>2, <2>1
  <2>4. ~ UNCHANGED req OBVIOUS
  <2>5. t.op = "give" /\ Give(t.req, t.conn)
    BY <1>5, <2>2, <2>3, <2>4 DEF RunTick, t
  <2>6. t.req = r
    <3>1. \/ req' = [req EXCEPT ![t.req] = "holding"]
          \/ req' = [req EXCEPT ![t.req] = "done"]
      BY <2>5 DEF Give, Answered
    <3> QED BY <1>1, <3>1
  <2> QED BY <2>5, <2>6 DEF t
<1>6. ASSUME StreamNext PROVE \E c \in Conns : ConnectOk(r, c)
  <2>1. ASSUME NEW q \in Reqs, NEW c \in Conns, ConnectOk(q, c) PROVE q = r
    <3>1. ~Answered(q) BY <1>3
    <3>2. req' = [req EXCEPT ![q] = "holding"]
      BY <2>1, <3>1 DEF ConnectOk
    <3> QED BY <1>1, <3>2
  <2>2. ASSUME NEW q \in Reqs, NEW c \in Conns, QueryThrow(q, c) PROVE FALSE
    BY <1>3, <2>2 DEF QueryThrow
  <2>3. ASSUME NEW q \in Reqs, NEW c \in Conns, NEW ro \in BOOLEAN, QueryEnd(q, c, ro)
        PROVE  FALSE
    BY <1>3, <2>3 DEF QueryEnd
  <2>4. ASSUME NEW c \in Conns, StreamFail(c) PROVE FALSE
    <3>1. req'[r] \in {"done", req[r]} BY <2>4 DEF StreamFail
    <3> QED BY <3>1
  <2>5. ASSUME NEW c \in Conns,
               \/ StreamEnd(c) \/ StreamGone(c) \/ QuitRuns(c)
               \/ \E ok \in BOOLEAN : ResetReply(c, ok)
        PROVE  FALSE
    BY <2>5 DEF StreamEnd, StreamGone, QuitRuns, ResetReply
  <2>6. ASSUME NEW k \in 1 .. Len(free), IdleTimer(k) PROVE FALSE
    BY <2>6 DEF IdleTimer
  <2> QED BY <1>6, <2>1, <2>2, <2>3, <2>4, <2>5, <2>6 DEF StreamNext
<1> QED BY <1>4, <1>5, <1>6 DEF Next

\* A step that hands out a connection of an open pool hands out a live one.
LEMMA DeliverStep ==
  ASSUME IInv, DeliverablePooled, [Next]_vars
  PROVE  \A r \in Reqs : req[r] # "holding" /\ req'[r] = "holding" /\ ~closed
            => pooled[has'[r]] /\ Accepting(has'[r])
<1> SUFFICES ASSUME NEW r \in Reqs, req[r] # "holding", req'[r] = "holding", ~closed
             PROVE  pooled[has'[r]] /\ Accepting(has'[r])
  OBVIOUS
<1>1. TypeRest /\ PooledLive BY IInvParts
<1>2. Next BY DEF vars
<1>3. CASE /\ RunTick /\ Head(ticks).op = "give" /\ Head(ticks).req = r
           /\ Give(r, Head(ticks).conn)
  <2> DEFINE c == Head(ticks).conn
  <2>1. c \in Conns /\ Parked(free, ticks) = Parked(free, Tail(ticks)) \union ({c} \ {None})
    BY <1>3, FirstTick DEF RunTick
  <2>2. Due(c) BY <2>1, NoneAssumption DEF Due
  <2> HIDE DEF c
  <2>3. has'[r] = c
    <3>1. \/ req' = [req EXCEPT ![r] = "done"]
          \/ has' = [has EXCEPT ![r] = c]
      BY <1>3 DEF Give, Answered, c
    <3> QED BY <1>1, <3>1 DEF TypeRest
  <2> QED BY <1>1, <2>1, <2>2, <2>3, DuePooled DEF PooledLive
<1>4. CASE \E c \in Conns : ConnectOk(r, c)
  <2>1. PICK c \in Conns : ConnectOk(r, c) BY <1>4
  <2>2. /\ task[c] = "connect" /\ stream[c] = "open" /\ has[r] = c /\ has' = has
    BY <2>1 DEF ConnectOk
  <2>3. Due(c) BY <2>2 DEF Due
  <2> QED BY <1>1, <2>2, <2>3, DuePooled DEF PooledLive
<1> QED BY <1>2, <1>3, <1>4, HoldingFrom

\* A connection that an open pool hands out belongs to it and takes commands,
\* if no application destroys a connection after giving it back and no ERR
\* packet trails the reply before it.
THEOREM DeliveredLiveHolds == WellUsed /\ Orderly => (Spec => DeliveredLive)
<1> SUFFICES ASSUME WellUsed, Orderly PROVE Spec => DeliveredLive OBVIOUS
<1>1. Spec => []IInv BY IInvHolds
<1>2. Init => DeliverablePooled
  BY DEF Init, DeliverablePooled, Elems, ConnsOf
<1>3. IInv /\ DeliverablePooled /\ [Next]_vars => DeliverablePooled' BY NextDue
<1>4. IInv /\ DeliverablePooled /\ [Next]_vars =>
        [\A r \in Reqs : req[r] # "holding" /\ req'[r] = "holding" /\ ~closed
            => pooled[has'[r]] /\ Accepting(has'[r])]_vars
  BY DeliverStep
<1> QED BY <1>1, <1>2, <1>3, <1>4, PTL DEF Spec, DeliveredLive

=============================================================================
