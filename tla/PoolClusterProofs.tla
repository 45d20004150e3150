------------------------- MODULE PoolClusterProofs -------------------------
(***************************************************************************)
(* For any nodes, patterns, requests, limits and number of calls of end(): *)
(* the caches are fresh, a node in service is out of use exactly at its    *)
(* limit, a request is only sent to a node that is online, and no call of  *)
(* end() is called back twice.                                             *)
(***************************************************************************)
EXTENDS PoolCluster, FiniteSetTheorems, WellFoundedInduction, TLAPS

-----------------------------------------------------------------------------
\* Induction over the numbers, from the well-foundedness of their order.

LEMMA Least == ASSUME NEW T, T \subseteq Nat, T # {} PROVE \E n \in T : \A m \in T : n <= m
<1> DEFINE R == {ss \in Nat \X Nat : ss[1] < ss[2]}
<1>1. IsWellFoundedOn(R, Nat)
  BY NatLessThanWellFounded DEF OpToRel
<1> HIDE DEF R
<1>2. PICK n \in T : \A m \in T : ~(<<m, n>> \in R)
  BY <1>1, WFMin
<1>3. \A m \in T : n <= m
  <2> SUFFICES ASSUME NEW m \in T, m < n PROVE FALSE
    OBVIOUS
  <2>1. <<m, n>> \in R
    BY DEF R
  <2> QED
    BY <1>2, <2>1
<1> QED
  BY <1>3

LEMMA UpTo ==
    ASSUME NEW N \in Nat, NEW S, 0 \in S, \A n \in 1 .. N : n - 1 \in S => n \in S
    PROVE  0 .. N \subseteq S
<1> DEFINE T == (0 .. N) \ S
<1> SUFFICES ASSUME T # {} PROVE FALSE
  OBVIOUS
<1>1. PICK n \in T : \A m \in T : n <= m
  <2>1. T \subseteq Nat
    OBVIOUS
  <2> HIDE DEF T
  <2> QED
    BY <2>1, Least
<1>2. n \in 1 .. N /\ n - 1 \in 0 .. N
  OBVIOUS
<1>3. n - 1 \notin T
  BY <1>1, <1>2
<1> QED
  BY <1>2, <1>3

\* A function may be defined by what it makes of its value one number earlier.
Recurrence(N, X, a, G) == N \in Nat /\ a \in X /\ G \in [(1 .. N) \X X -> X]
Solves(f, N, X, a, G) ==
    f \in [0 .. N -> X] /\ f[0] = a /\ \A n \in 1 .. N : f[n] = G[<<n, f[n - 1]>>]

LEMMA Recursion ==
    ASSUME NEW N, NEW X, NEW a, NEW G, Recurrence(N, X, a, G)
    PROVE  \E f : Solves(f, N, X, a, G)
<1>0. N \in Nat /\ a \in X /\ G \in [(1 .. N) \X X -> X]
  BY DEF Recurrence
<1> DEFINE Approx(k, f) == /\ f \in [0 .. k -> X] /\ f[0] = a
                           /\ \A n \in 1 .. k : f[n] = G[<<n, f[n - 1]>>]
           S == {k \in 0 .. N : \E f \in [0 .. k -> X] : Approx(k, f)}
<1>1. 0 \in S
  <2> DEFINE f == [n \in 0 .. 0 |-> a]
  <2>1. f \in [0 .. 0 -> X] /\ Approx(0, f) /\ 0 \in 0 .. N
    BY <1>0
  <2> HIDE DEF f, Approx
  <2> QED
    BY <2>1
<1>2. ASSUME NEW k \in 1 .. N, k - 1 \in S PROVE k \in S
  <2>1. PICK f \in [0 .. k - 1 -> X] : Approx(k - 1, f)
    BY <1>2
  <2> DEFINE g == [n \in 0 .. k |-> IF n = k THEN G[<<n, f[n - 1]>>] ELSE f[n]]
  <2>2. k - 1 \in 0 .. k - 1 /\ f[k - 1] \in X
    BY <1>0
  <2>3. G[<<k, f[k - 1]>>] \in X
    BY <1>0, <2>2
  <2>4. g \in [0 .. k -> X]
    <3> SUFFICES ASSUME NEW n \in 0 .. k PROVE (IF n = k THEN G[<<n, f[n - 1]>>] ELSE f[n]) \in X
      OBVIOUS
    <3>1. n # k => n \in 0 .. k - 1
      BY <1>0
    <3> QED
      BY <2>3, <3>1
  <2>5. g[0] = a
    BY <1>0, <2>1
  <2>6. ASSUME NEW n \in 1 .. k PROVE g[n] = G[<<n, g[n - 1]>>]
    <3>1. n - 1 \in 0 .. k /\ n - 1 # k /\ n \in 0 .. k
      BY <1>0
    <3>4. g[n - 1] = f[n - 1]
      BY <3>1
    <3>2. CASE n = k
      <4>1. g[n] = G[<<n, f[n - 1]>>]
        BY <3>1, <3>2
      <4> HIDE DEF g
      <4> QED
        BY <3>4, <4>1
    <3>3. CASE n # k
      <4>1. n \in 1 .. k - 1 /\ g[n] = f[n]
        BY <1>0, <3>3
      <4> QED
        BY <2>1, <3>4, <4>1
    <3> QED
      BY <3>2, <3>3
  <2> HIDE DEF g
  <2> QED
    BY <2>4, <2>5, <2>6
<1>3. N \in S
  <2> HIDE DEF S
  <2>1. 0 .. N \subseteq S
    BY <1>0, <1>1, <1>2, UpTo
  <2> QED
    BY <1>0, <2>1
<1> QED
  BY <1>3 DEF Solves

-----------------------------------------------------------------------------
\* Lists without repetition.

\* t is s with one more member.
Longer(t, s, x, T) ==
    /\ t \in Seq(T)
    /\ ToSet(t) = ToSet(s) \union {x}
    /\ IsInjective(s) /\ x \notin ToSet(s) => IsInjective(t)

LEMMA AppendOne ==
    ASSUME NEW T, NEW s \in Seq(T), NEW x \in T PROVE Longer(Append(s, x), s, x, T)
<1> DEFINE t == Append(s, x)
<1>1. /\ t \in Seq(T) /\ DOMAIN t = 1 .. Len(s) + 1 /\ DOMAIN s = 1 .. Len(s) /\ Len(s) \in Nat
      /\ \A i \in 1 .. Len(s) : t[i] = s[i]
      /\ t[Len(s) + 1] = x
  OBVIOUS
<1> HIDE DEF t
<1>2. ToSet(t) = ToSet(s) \union {x}
  BY <1>1 DEF ToSet
<1>3. ASSUME IsInjective(s), x \notin ToSet(s) PROVE IsInjective(t)
  <2> SUFFICES ASSUME NEW i \in DOMAIN t, NEW j \in DOMAIN t, t[i] = t[j] PROVE i = j
    BY DEF IsInjective
  <2>1. \A n \in 1 .. Len(s) : t[n] # x
    BY <1>1, <1>3 DEF ToSet
  <2>2. CASE i = Len(s) + 1
    BY <1>1, <2>1, <2>2
  <2>3. CASE j = Len(s) + 1
    BY <1>1, <2>1, <2>3
  <2>4. CASE i # Len(s) + 1 /\ j # Len(s) + 1
    BY <1>1, <1>3, <2>4 DEF IsInjective
  <2> QED
    BY <2>2, <2>3, <2>4
<1> QED
  BY <1>1, <1>2, <1>3 DEF Longer, t

LEMMA EmptyList == ASSUME NEW T PROVE <<>> \in Seq(T) /\ ToSet(<<>>) = {} /\ IsInjective(<<>>)
BY DEF ToSet, IsInjective

\* What Only() returns: the members that are in S, each as often as before.
LEMMA OnlyOf ==
    ASSUME NEW T, NEW list \in Seq(T), NEW S
    PROVE  /\ Only(list, S) \in Seq(T)
           /\ ToSet(Only(list, S)) = ToSet(list) \intersect S
           /\ IsInjective(list) => IsInjective(Only(list, S))
<1> DEFINE N == Len(list)
           G == [u \in (1 .. N) \X Seq(T) |->
                   IF list[u[1]] \in S THEN Append(u[2], list[u[1]]) ELSE u[2]]
           Body(g) == [n \in 0 .. N |->
                         IF n = 0 THEN <<>>
                         ELSE IF list[n] \in S THEN Append(g[n - 1], list[n]) ELSE g[n - 1]]
           h == CHOOSE g : g = Body(g)
           firsts(n) == {list[i] : i \in 1 .. n}
           Good(n, t) == /\ t \in Seq(T) /\ ToSet(t) = firsts(n) \intersect S
                         /\ IsInjective(list) => IsInjective(t)
<1>1. N \in Nat /\ \A n \in 1 .. N : list[n] \in T
  OBVIOUS
<1>2. \E g : g = Body(g)
  <2>1. G \in [(1 .. N) \X Seq(T) -> Seq(T)]
    BY <1>1
  <2>2. PICK f : Solves(f, N, Seq(T), <<>>, G)
    <3>1. <<>> \in Seq(T)
      BY EmptyList
    <3>2. N \in Nat
      BY <1>1
    <3> HIDE DEF G, N
    <3>3. Recurrence(N, Seq(T), <<>>, G)
      BY <2>1, <3>1, <3>2 DEF Recurrence
    <3> QED
      BY <3>3, Recursion
  <2>5. /\ f \in [0 .. N -> Seq(T)] /\ f[0] = <<>>
        /\ \A n \in 1 .. N : f[n] = G[<<n, f[n - 1]>>]
    BY <2>2 DEF Solves
  <2>3. ASSUME NEW n \in 1 .. N
        PROVE  G[<<n, f[n - 1]>>] =
                 IF list[n] \in S THEN Append(f[n - 1], list[n]) ELSE f[n - 1]
    <3>1. f[n - 1] \in Seq(T)
      BY <1>1, <2>5
    <3> QED
      BY <3>1
  <2> HIDE DEF G
  <2>6. ASSUME NEW n \in 0 .. N
        PROVE  f[n] = IF n = 0 THEN <<>>
                      ELSE IF list[n] \in S THEN Append(f[n - 1], list[n]) ELSE f[n - 1]
    <3>1. n # 0 => n \in 1 .. N
      OBVIOUS
    <3> HIDE DEF N
    <3> QED
      BY <2>5, <2>3, <3>1
  <2>4. f = Body(f)
    BY <2>5, <2>6
  <2> QED
    BY <2>4
<1>3. h = Body(h)
  <2> HIDE DEF Body
  <2> QED
    BY <1>2
<1>4. Only(list, S) = h[N]
  BY DEF Only
<1> HIDE DEF h
<1>5. /\ h[0] = <<>>
      /\ \A n \in 1 .. N : h[n] = IF list[n] \in S THEN Append(h[n - 1], list[n]) ELSE h[n - 1]
  <2>1. \A n \in 0 .. N : Body(h)[n] =
          IF n = 0 THEN <<>> ELSE IF list[n] \in S THEN Append(h[n - 1], list[n]) ELSE h[n - 1]
    OBVIOUS
  <2>2. 0 \in 0 .. N /\ \A n \in 1 .. N : n \in 0 .. N /\ n # 0
    BY <1>1
  <2> HIDE DEF Body, N
  <2> QED
    BY <1>3, <2>1, <2>2
<1>6. Good(0, h[0])
  <2>1. firsts(0) = {}
    OBVIOUS
  <2> QED
    BY <1>5, <2>1, EmptyList
<1>7. ASSUME NEW n \in 1 .. N, Good(n - 1, h[n - 1]) PROVE Good(n, h[n])
  <2>1. firsts(n) = firsts(n - 1) \union {list[n]}
    <3>1. 1 .. n = (1 .. n - 1) \union {n}
      BY <1>1
    <3> QED
      BY <3>1
  <2>2. CASE list[n] \notin S
    BY <1>5, <1>7, <2>1, <2>2
  <2>3. CASE list[n] \in S
    <3>1. Longer(h[n], h[n - 1], list[n], T)
      BY <1>1, <1>5, <1>7, <2>3, AppendOne
    <3>2. IsInjective(list) => list[n] \notin ToSet(h[n - 1])
      <4>1. IsInjective(list) => list[n] \notin firsts(n - 1)
        BY <1>1 DEF IsInjective
      <4> QED
        BY <1>7, <4>1
    <3> QED
      BY <1>7, <2>1, <2>3, <3>1, <3>2 DEF Longer
  <2> QED
    BY <2>2, <2>3
<1>8. Good(N, h[N])
  <2> DEFINE D == {n \in 0 .. N : Good(n, h[n])}
  <2>1. 0 \in D /\ \A n \in 1 .. N : n - 1 \in D => n \in D
    <3> HIDE DEF Good
    <3> QED
      BY <1>1, <1>6, <1>7
  <2> HIDE DEF D
  <2>2. N \in D
    <3>1. 0 .. N \subseteq D
      BY <1>1, <2>1, UpTo
    <3> QED
      BY <1>1, <3>1
  <2> QED
    BY <2>2 DEF D
<1>9. firsts(N) = ToSet(list)
  BY DEF ToSet
<1> QED
  BY <1>4, <1>8, <1>9

\* There are at most as many members as ids.
LEMMA ListOfIds ==
    ASSUME NEW s \in Seq(Ids), IsInjective(s) PROVE s \in SeqOf(Ids, Cardinality(Ids))
<1>1. s \in [1 .. Len(s) -> Ids] /\ Len(s) \in Nat
  OBVIOUS
<1>2. s \in Injection(1 .. Len(s), Ids)
  BY <1>1 DEF Injection, IsInjective
<1>3. Cardinality(1 .. Len(s)) <= Cardinality(Ids)
  BY <1>2, FS_Injection, IdsAssumption
<1>4. Cardinality(1 .. Len(s)) = Len(s)
  <2>1. Cardinality(1 .. Len(s)) = IF 1 > Len(s) THEN 0 ELSE Len(s) - 1 + 1
    BY <1>1, FS_Interval
  <2> QED
    BY <1>1, <2>1
<1>5. Cardinality(Ids) \in Nat
  BY FS_CardinalityType, IdsAssumption
<1> QED
  BY <1>1, <1>3, <1>4, <1>5 DEF SeqOf

LEMMA PeriodPositive == Period \in Nat \ {0}
<1> DEFINE N == Cardinality(Ids)
           X == Nat \ {0}
           G == [u \in (1 .. N) \X X |-> u[1] * u[2]]
           Body(g) == [n \in 0 .. N |-> IF n = 0 THEN 1 ELSE n * g[n - 1]]
           h == CHOOSE g : g = Body(g)
<1>1. N \in Nat
  BY FS_CardinalityType, IdsAssumption
<1> HIDE DEF N
<1>2. \E g : g = Body(g)
  <2>1. G \in [(1 .. N) \X X -> X]
    <3>1. ASSUME NEW n \in 1 .. N, NEW m \in X PROVE n * m \in X
      BY <1>1
    <3> QED
      BY <3>1
  <2>2. PICK f : Solves(f, N, X, 1, G)
    <3>1. 1 \in X
      OBVIOUS
    <3> HIDE DEF G, X
    <3>2. Recurrence(N, X, 1, G)
      BY <1>1, <2>1, <3>1 DEF Recurrence
    <3> QED
      BY <3>2, Recursion
  <2>5. /\ f \in [0 .. N -> X] /\ f[0] = 1
        /\ \A n \in 1 .. N : f[n] = G[<<n, f[n - 1]>>]
    BY <2>2 DEF Solves
  <2>3. ASSUME NEW n \in 1 .. N PROVE G[<<n, f[n - 1]>>] = n * f[n - 1]
    <3>1. f[n - 1] \in X
      BY <1>1, <2>5
    <3> HIDE DEF X
    <3> QED
      BY <3>1
  <2> HIDE DEF G, X
  <2>4. f = Body(f)
    <3>1. ASSUME NEW n \in 0 .. N PROVE f[n] = IF n = 0 THEN 1 ELSE n * f[n - 1]
      <4>1. CASE n = 0
        BY <2>5, <4>1
      <4>2. CASE n # 0
        <5>1. n \in 1 .. N
          BY <1>1, <4>2
        <5>2. f[n] = n * f[n - 1]
          BY <2>3, <2>5, <5>1
        <5> QED
          BY <4>2, <5>2
      <4> QED
        BY <4>1, <4>2
    <3> QED
      BY <2>5, <3>1
  <2> QED
    BY <2>4
<1>3. h = Body(h)
  <2> HIDE DEF Body
  <2> QED
    BY <1>2
<1>4. Period = h[N]
  BY DEF Period, N
<1> HIDE DEF h
<1>5. h[0] = 1 /\ \A n \in 1 .. N : h[n] = n * h[n - 1]
  BY <1>1, <1>3
<1> DEFINE D == {n \in 0 .. N : h[n] \in X}
<1>6. 0 \in D
  BY <1>1, <1>5
<1>7. ASSUME NEW n \in 1 .. N, n - 1 \in D PROVE n \in D
  <2>1. h[n - 1] \in Nat \ {0} /\ n \in Nat \ {0} /\ h[n] = n * h[n - 1]
    BY <1>1, <1>5, <1>7
  <2>2. \A i, j \in Nat \ {0} : i * j \in Nat \ {0}
    OBVIOUS
  <2> QED
    BY <2>1, <2>2
<1> HIDE DEF D
<1>8. N \in D
  <2>1. 0 .. N \subseteq D
    BY <1>1, <1>6, <1>7, UpTo
  <2> QED
    BY <1>1, <2>1
<1> QED
  BY <1>4, <1>8 DEF D

-----------------------------------------------------------------------------
\* The closure of end(): only its actions touch it, so all others are stuttering
\* steps of it.

\* A call of end() has been called back once when it is "called", and not yet
\* otherwise.  While a pool has still to answer, the first call is either not
\* called back or called back already: it never waits for a tick, which would
\* call it a second time.
EndInv ==
    /\ ending.call \in [Ends -> {"none", "tick", "first", "called"}]
    /\ \A e \in Ends : ending.times[e] = IF ending.call[e] = "called" THEN 1 ELSE 0
    /\ ending.times \in [Ends -> Int]
    /\ DOMAIN ending = {"closed", "first", "waiting", "pools", "call", "times"}
    /\ ending.pools # {} => ending.first \in Ends /\ ending.call[ending.first] \in {"first", "called"}

LEMMA InitEnd == Init => EndInv
BY DEF Init, EndInv

\* The rest of the cluster has no part in it.
LEMMA OthersLeaveEnding ==
    ASSUME NEW x, \/ GetConnection(x) \/ AnswerOk(x) \/ AnswerError(x) \/ QueryEnd(x)
                  \/ Add(x) \/ RemoveNodes(x) \/ Trace(x) \/ TimePasses(x)
    PROVE  ending' = ending
BY Zenon DEF GetConnection, AnswerOk, AnswerError, QueryEnd, Add, RemoveNodes, Trace, TimePasses

\* The first call answers for its pools, or at once, or from the next tick.
LEMMA EndStep == ASSUME EndInv, NEW e \in Ends, NEW empty, End(e, empty) PROVE EndInv'
<1> DEFINE ids == ToSet(serviceable)
           objects == {nodes[id] : id \in ids}
           early == ids # {} /\ nodes[Head(serviceable)] \in empty
           state == IF ids = {} THEN "tick" ELSE IF early THEN "called" ELSE "first"
<1>1. ending' = [closed |-> TRUE, first |-> e, waiting |-> Cardinality(objects \ empty),
                 pools |-> objects \ empty, call |-> [ending.call EXCEPT ![e] = state],
                 times |-> [ending.times EXCEPT ![e] = IF early THEN 1 ELSE 0]]
  BY DEF End
<1>2. ending.call[e] = "none" /\ ending.times[e] = 0
  BY DEF End, CanEnd, EndInv
<1>3. objects \ empty # {} => ids # {}
  OBVIOUS
<1>4. early <=> state = "called"
  OBVIOUS
<1>5. state \in {"tick", "called", "first"} /\ (ids # {} => state \in {"called", "first"})
  OBVIOUS
<1> HIDE DEF ids, objects, early, state
<1> QED
  BY <1>1, <1>2, <1>3, <1>4, <1>5 DEF EndInv

LEMMA EndAgainStep == ASSUME EndInv, NEW e \in Ends, EndAgain(e) PROVE EndInv'
BY DEF EndInv, EndAgain, CanEnd

LEMMA EndTickStep == ASSUME EndInv, NEW e \in Ends, EndTick(e) PROVE EndInv'
BY DEF EndInv, EndTick, CallBack

\* onEnd() does nothing once the callback has been called.
LEMMA PoolEndedStep ==
    ASSUME EndInv, NEW o, NEW err \in BOOLEAN, PoolEnded(o, err) PROVE EndInv'
<1>1. ending.first \in Ends /\ ending.call[ending.first] \in {"first", "called"}
  BY DEF PoolEnded, EndInv
<1>2. \/ /\ ending.call[ending.first] = "called"
         /\ ending'.call = ending.call /\ ending'.times = ending.times
      \/ /\ ending.call[ending.first] # "called"
         /\ ending'.call = [ending.call EXCEPT ![ending.first] = "called"]
         /\ ending'.times = [ending.times EXCEPT ![ending.first] = @ + 1]
      \/ ending'.call = ending.call /\ ending'.times = ending.times
  <2>1. ending' = [onEnd(ending.first, err) EXCEPT !.pools = onEnd(ending.first, err).pools \ {o}]
    BY DEF PoolEnded
  <2>2. CASE ending.call[ending.first] = "called"
    BY <2>1, <2>2 DEF onEnd, EndInv
  <2>3. CASE ending.call[ending.first] # "called"
    <3>1. CASE err \/ ending.waiting - 1 <= 0
      BY <1>1, <2>1, <2>3, <3>1 DEF onEnd, CallBack, EndInv
    <3>2. CASE ~(err \/ ending.waiting - 1 <= 0)
      BY <2>1, <2>3, <3>2 DEF onEnd, EndInv
    <3> QED
      BY <3>1, <3>2
  <2> QED
    BY <2>2, <2>3
<1>3. /\ DOMAIN ending' = DOMAIN ending /\ ending'.first = ending.first
      /\ ending'.pools = ending.pools \ {o}
  BY DEF PoolEnded, onEnd, CallBack, EndInv
<1> QED
  BY <1>1, <1>2, <1>3 DEF EndInv

LEMMA NextEnd == ASSUME EndInv, [Next]_vars PROVE EndInv'
<1>1. CASE ending' = ending
  BY <1>1 DEF EndInv
<1>2. CASE ending' # ending
  <2>1. \/ \E o \in Nodes, err \in BOOLEAN : PoolEnded(o, err)
        \/ \E e \in Ends : EndAgain(e) \/ EndTick(e) \/ \E empty \in SUBSET Nodes : End(e, empty)
    BY <1>2, OthersLeaveEnding DEF Next, vars
  <2> QED
    BY <2>1, PoolEndedStep, EndAgainStep, EndTickStep, EndStep
<1> QED
  BY <1>1, <1>2

\* However the pools answer, with errors, at once or late, and however often
\* end() is called: each of its callbacks is called at most once (onEnd).
THEOREM EndOnceHolds == Spec => []EndOnce
<1>1. EndInv /\ [Next]_vars => EndInv'
  BY NextEnd
<1>2. EndInv => EndOnce
  BY DEF EndInv, EndOnce
<1> QED
  BY InitEnd, <1>1, <1>2, PTL DEF Spec

-----------------------------------------------------------------------------
\* The nodes of a cluster.  The operators that a callback is made of change a
\* cluster value several times before it becomes the state: the invariant is
\* stated of such a value.

NodeObject == [id : Ids \union {None}, errorCount : Nat, offlineUntil : Offline,
               pool : {"none", "open", "ended"}]

\* The list of serviceable ids and the table name the same nodes.
Members(c) ==
    /\ DOMAIN c = {"nodes", "serviceable", "findCaches", "cursor", "node"}
    /\ c.serviceable \in Seq(Ids) /\ IsInjective(c.serviceable)
    /\ c.nodes \in [Ids -> Nodes \union {None}]
    /\ c.node \in [Nodes -> NodeObject]
    /\ \A o \in Nodes : c.node[o].errorCount <= config.limit
    /\ \A id \in Ids : /\ c.nodes[id] # None <=> id \in ToSet(c.serviceable)
                       /\ c.nodes[id] # None => c.node[c.nodes[id]].id = id
    /\ c.cursor \in [Patterns -> Nat]

Fresh(c) ==
    /\ DOMAIN c.findCaches \subseteq Patterns
    /\ \A p \in DOMAIN c.findCaches : c.findCaches[p] = Only(c.serviceable, Matches[p])

\* A node in service, but for those of O, is out of use exactly at the limit.
AtLimit(c, O) ==
    \A id \in Ids :
        c.nodes[id] \notin O \union {None} =>
            (c.node[c.nodes[id]].errorCount = config.limit
              <=> config.restore /\ c.node[c.nodes[id]].offlineUntil # "never")

Sound(c, O) == config \in Options /\ Members(c) /\ Fresh(c) /\ AtLimit(c, O)

LEMMA ObjectChange ==
    ASSUME NEW n \in NodeObject
    PROVE  /\ LET m == [n EXCEPT !.pool = "ended"]
              IN  /\ m \in NodeObject /\ m.id = n.id
                  /\ m.errorCount = n.errorCount /\ m.offlineUntil = n.offlineUntil
           /\ \A k \in Nat :
                LET m == [n EXCEPT !.errorCount = k]
                IN  /\ m \in NodeObject /\ m.id = n.id
                    /\ m.errorCount = k /\ m.offlineUntil = n.offlineUntil
           /\ \A u \in Offline :
                LET m == [n EXCEPT !.offlineUntil = u]
                IN  /\ m \in NodeObject /\ m.id = n.id
                    /\ m.errorCount = n.errorCount /\ m.offlineUntil = u
BY DEF NodeObject

LEMMA ConfigTyped ==
    ASSUME config \in Options
    PROVE  config.limit \in Nat \ {0} /\ config.restore \in BOOLEAN /\ config.canRetry \in BOOLEAN
BY OptionsAssumption

\* A search finds the ids in service that match, from a cache as without it.
LEMMA FoundOf ==
    ASSUME NEW c, NEW O, Sound(c, O), NEW p \in Patterns
    PROVE  /\ Found(c, p) = Only(c.serviceable, Matches[p])
           /\ Found(c, p) \in Seq(Ids)
           /\ ToSet(Found(c, p)) = ToSet(c.serviceable) \intersect Matches[p]
<1>1. Found(c, p) = Only(c.serviceable, Matches[p])
  BY DEF Found, Sound, Fresh
<1>2. c.serviceable \in Seq(Ids)
  BY DEF Sound, Members
<1> QED
  BY <1>1, <1>2, OnlyOf

LEMMA CachedSound ==
    ASSUME NEW c, NEW O, Sound(c, O), NEW p \in Patterns
    PROVE  /\ Sound(Cached(c, p), O)
           /\ Cached(c, p).nodes = c.nodes /\ Cached(c, p).node = c.node
           /\ Cached(c, p).serviceable = c.serviceable /\ Cached(c, p).cursor = c.cursor
           /\ DOMAIN Cached(c, p) = DOMAIN c
<1> DEFINE d == Cached(c, p)
<1>1. /\ DOMAIN d = DOMAIN c /\ d.nodes = c.nodes /\ d.serviceable = c.serviceable
      /\ d.cursor = c.cursor /\ d.node = c.node
      /\ d.findCaches = [x \in DOMAIN c.findCaches \union {p} |->
                           IF x = p THEN Found(c, p) ELSE c.findCaches[x]]
  BY DEF Cached, Sound, Members
<1> HIDE DEF d
<1>2. Found(c, p) = Only(c.serviceable, Matches[p])
  BY FoundOf
<1>3. Fresh(d)
  BY <1>1, <1>2 DEF Sound, Fresh
<1>4. Members(d)
  BY <1>1 DEF Sound, Members
<1>5. AtLimit(d, O)
  BY <1>1 DEF Sound, AtLimit
<1> QED
  BY <1>1, <1>3, <1>4, <1>5 DEF Sound, d

\* A node that may be asked: in service under the id, which matches, and in use.
Usable(c, p, id) ==
    /\ id \in Ids /\ id \in Matches[p]
    /\ c.nodes[id] \in Nodes /\ c.node[c.nodes[id]].id = id
    /\ c.node[c.nodes[id]].offlineUntil # "future"

LEMMA OnlineOf ==
    ASSUME NEW c, NEW O, Sound(c, O), NEW p \in Patterns
    PROVE  /\ Online(c, p) \in Seq(Ids)
           /\ \A n \in 1 .. Len(Online(c, p)) : Usable(c, p, Online(c, p)[n])
<1> DEFINE S == {id \in ToSet(Found(c, p)) : c.node[c.nodes[id]].offlineUntil # "future"}
<1>1. Online(c, p) = Only(Found(c, p), S)
  BY DEF Online
<1>2. /\ Found(c, p) \in Seq(Ids)
      /\ ToSet(Found(c, p)) = ToSet(c.serviceable) \intersect Matches[p]
  BY FoundOf
<1> HIDE DEF S
<1>3. Online(c, p) \in Seq(Ids) /\ ToSet(Online(c, p)) = ToSet(Found(c, p)) \intersect S
  BY <1>1, <1>2, OnlyOf
<1>4. ASSUME NEW n \in 1 .. Len(Online(c, p)) PROVE Usable(c, p, Online(c, p)[n])
  <2> DEFINE id == Online(c, p)[n]
  <2>1. id \in Ids /\ id \in ToSet(Online(c, p))
    BY <1>3 DEF ToSet
  <2> HIDE DEF id
  <2>2. id \in ToSet(c.serviceable) /\ id \in Matches[p] /\ id \in S
    BY <1>2, <1>3, <2>1
  <2>3. c.nodes[id] \in Nodes /\ c.node[c.nodes[id]].id = id
    BY <2>1, <2>2 DEF Sound, Members
  <2>4. c.node[c.nodes[id]].offlineUntil # "future"
    BY <2>2 DEF S
  <2> QED
    BY <2>1, <2>2, <2>3, <2>4 DEF Usable, id
<1> QED
  BY <1>3, <1>4

\* Ids that leave take their nodes out of service; whoever else was out of
\* step with its count must leave with them.
LEMMA WithoutSound ==
    ASSUME NEW c, NEW O \in SUBSET Nodes, Sound(c, O), NEW ids \in SUBSET Ids, NEW objects,
           \A o \in O : c.node[o].id \in ids
    PROVE  Sound(Without(c, ids, objects), {})
<1> DEFINE d == Without(c, ids, objects)
<1>1. /\ DOMAIN d = DOMAIN c /\ d.cursor = c.cursor /\ d.findCaches = <<>>
      /\ d.serviceable = Only(c.serviceable, Ids \ ids)
      /\ d.nodes = [id \in Ids |-> IF id \in ids THEN None ELSE c.nodes[id]]
      /\ d.node = [o \in Nodes |-> IF o \in objects THEN [c.node[o] EXCEPT !.pool = "ended"]
                                   ELSE c.node[o]]
  BY DEF Without, clearFindCaches, Sound, Members
<1> HIDE DEF d
<1>2. /\ c.node \in [Nodes -> NodeObject]
      /\ c.nodes \in [Ids -> Nodes \union {None}]
      /\ c.serviceable \in Seq(Ids) /\ IsInjective(c.serviceable)
      /\ \A o \in Nodes : c.node[o].errorCount <= config.limit
      /\ \A id \in Ids : /\ c.nodes[id] # None <=> id \in ToSet(c.serviceable)
                         /\ c.nodes[id] # None => c.node[c.nodes[id]].id = id
  BY DEF Sound, Members
<1>3. \A o \in Nodes : /\ d.node[o] \in NodeObject /\ d.node[o].id = c.node[o].id
                       /\ d.node[o].errorCount = c.node[o].errorCount
                       /\ d.node[o].offlineUntil = c.node[o].offlineUntil
  <2> SUFFICES ASSUME NEW o \in Nodes
               PROVE  /\ d.node[o] \in NodeObject /\ d.node[o].id = c.node[o].id
                      /\ d.node[o].errorCount = c.node[o].errorCount
                      /\ d.node[o].offlineUntil = c.node[o].offlineUntil
    OBVIOUS
  <2> DEFINE m == [c.node[o] EXCEPT !.pool = "ended"]
  <2>1. c.node[o] \in NodeObject
    BY <1>2
  <2>2. /\ m \in NodeObject /\ m.id = c.node[o].id
        /\ m.errorCount = c.node[o].errorCount /\ m.offlineUntil = c.node[o].offlineUntil
    BY <2>1, ObjectChange
  <2>3. d.node[o] = IF o \in objects THEN m ELSE c.node[o]
    BY <1>1
  <2> HIDE DEF m
  <2> QED
    BY <2>1, <2>2, <2>3
<1>4. d.node \in [Nodes -> NodeObject]
  BY <1>1, <1>3
<1>5. /\ d.serviceable \in Seq(Ids) /\ IsInjective(d.serviceable)
      /\ ToSet(d.serviceable) = ToSet(c.serviceable) \intersect (Ids \ ids)
  BY <1>1, <1>2, OnlyOf
<1>6. Members(d)
  <2>1. d.nodes \in [Ids -> Nodes \union {None}]
    BY <1>1, <1>2
  <2>2. ASSUME NEW id \in Ids
        PROVE  /\ d.nodes[id] # None <=> id \in ToSet(d.serviceable)
               /\ d.nodes[id] # None => d.node[d.nodes[id]].id = id
    <3>1. CASE id \in ids
      BY <1>1, <1>5, <3>1
    <3>2. CASE id \notin ids
      <4>1. d.nodes[id] = c.nodes[id] /\ c.nodes[id] \in Nodes \union {None}
        BY <1>1, <1>2, <3>2
      <4>2. d.nodes[id] # None <=> id \in ToSet(d.serviceable)
        BY <1>2, <1>5, <3>2, <4>1
      <4>3. d.nodes[id] # None => d.node[d.nodes[id]].id = id
        BY <1>2, <1>3, <4>1
      <4> QED
        BY <4>2, <4>3
    <3> QED
      BY <3>1, <3>2
  <2>3. \A o \in Nodes : d.node[o].errorCount <= config.limit
    BY <1>2, <1>3
  <2>4. d.cursor \in [Patterns -> Nat] /\ DOMAIN d = DOMAIN c
    BY <1>1 DEF Sound, Members
  <2> QED
    BY <1>4, <1>5, <2>1, <2>2, <2>3, <2>4 DEF Sound, Members
<1>7. Fresh(d)
  BY <1>1 DEF Fresh
<1>8. AtLimit(d, {})
  <2> SUFFICES ASSUME NEW id \in Ids, d.nodes[id] # None
               PROVE  d.node[d.nodes[id]].errorCount = config.limit
                        <=> config.restore /\ d.node[d.nodes[id]].offlineUntil # "never"
    BY DEF AtLimit
  <2>1. id \notin ids /\ d.nodes[id] = c.nodes[id] /\ c.nodes[id] \in Nodes
    BY <1>1, <1>2
  <2>2. c.nodes[id] \notin O
    BY <1>2, <2>1
  <2>3. c.node[c.nodes[id]].errorCount = config.limit
          <=> config.restore /\ c.node[c.nodes[id]].offlineUntil # "never"
    BY <2>1, <2>2, NoneAssumption DEF Sound, AtLimit
  <2> QED
    BY <1>3, <2>1, <2>3
<1> QED
  BY <1>6, <1>7, <1>8 DEF Sound, d

LEMMA removeNodeSound ==
    ASSUME NEW c, NEW o \in Nodes, Sound(c, {o})
    PROVE  Sound(removeNode(c, o), {})
<1> DEFINE id == c.node[o].id
<1>1. CASE id \notin ToSet(c.serviceable)
  <2>1. ASSUME NEW x \in Ids, c.nodes[x] = o PROVE FALSE
    <3>1. c.nodes[x] # None
      BY <2>1, NoneAssumption
    <3> QED
      BY <1>1, <2>1, <3>1 DEF Sound, Members
  <2>2. AtLimit(c, {})
    BY <2>1 DEF Sound, AtLimit
  <2> QED
    BY <1>1, <2>2 DEF removeNode, Sound
<1>2. CASE id \in ToSet(c.serviceable)
  <2>1. id \in Ids
    BY <1>2 DEF Sound, Members, ToSet
  <2>2. removeNode(c, o) = Without(c, {id}, {o})
    BY <1>2 DEF removeNode
  <2>3. Sound(Without(c, {id}, {o}), {})
    <3>1. {o} \in SUBSET Nodes /\ {id} \in SUBSET Ids /\ \A x \in {o} : c.node[x].id \in {id}
      BY <2>1
    <3> QED
      BY <3>1, WithoutSound
  <2> QED
    BY <2>2, <2>3
<1> QED
  BY <1>1, <1>2

\* The node of an error may be out of step with its count until it is removed
\* or goes offline.
NodeChanged(d, c, o, n) ==
    /\ DOMAIN d = DOMAIN c /\ d.nodes = c.nodes /\ d.serviceable = c.serviceable
    /\ d.cursor = c.cursor /\ d.findCaches = c.findCaches
    /\ d.node = [c.node EXCEPT ![o] = n]
    /\ n \in NodeObject /\ n.id = c.node[o].id /\ n.errorCount <= config.limit

OutAtLimit(n) == n.errorCount = config.limit <=> config.restore /\ n.offlineUntil # "never"

LEMMA NodeChange ==
    ASSUME NEW c, NEW O, Sound(c, O), NEW o \in Nodes, NEW n, NEW d, NodeChanged(d, c, o, n)
    PROVE  Sound(d, O \union {o}) /\ (OutAtLimit(n) => Sound(d, O))
<1>0. /\ DOMAIN d = DOMAIN c /\ d.nodes = c.nodes /\ d.serviceable = c.serviceable
      /\ d.cursor = c.cursor /\ d.findCaches = c.findCaches
      /\ d.node = [c.node EXCEPT ![o] = n]
      /\ n \in NodeObject /\ n.id = c.node[o].id /\ n.errorCount <= config.limit
  BY DEF NodeChanged
<1>1. c.node \in [Nodes -> NodeObject]
  BY DEF Sound, Members
<1>2. d.node \in [Nodes -> NodeObject] /\ d.node[o] = n /\ \A x \in Nodes : x # o => d.node[x] = c.node[x]
  BY <1>0, <1>1
<1>3. Members(d)
  BY <1>0, <1>2 DEF Sound, Members
<1>4. Fresh(d)
  BY <1>0 DEF Sound, Fresh
<1>5. \A id \in Ids : c.nodes[id] \in Nodes \union {None}
  BY DEF Sound, Members
<1>6. AtLimit(d, O \union {o})
  BY <1>0, <1>2, <1>5 DEF Sound, AtLimit
<1>7. ASSUME OutAtLimit(n) PROVE AtLimit(d, O)
  BY <1>0, <1>2, <1>5, <1>7 DEF Sound, AtLimit, OutAtLimit
<1> QED
  BY <1>3, <1>4, <1>6, <1>7 DEF Sound

LEMMA increaseSound ==
    ASSUME NEW c, Sound(c, {}), NEW o \in Nodes PROVE Sound(increaseErrorCount(c, o), {})
<1> DEFINE n == c.node[o].errorCount + 1
           k == IF n > config.limit THEN config.limit ELSE n
           counted == [c EXCEPT !.node[o].errorCount = k]
           one == [c.node[o] EXCEPT !.errorCount = k]
           off == [one EXCEPT !.offlineUntil = "future"]
<1>1. /\ c.node \in [Nodes -> NodeObject] /\ c.node[o] \in NodeObject
      /\ config.limit \in Nat \ {0} /\ config.restore \in BOOLEAN
      /\ c.node[o].errorCount \in Nat /\ c.node[o].errorCount <= config.limit
      /\ DOMAIN c = {"nodes", "serviceable", "findCaches", "cursor", "node"}
  BY ConfigTyped DEF Sound, Members, NodeObject
<1>2. /\ one \in NodeObject /\ one.id = c.node[o].id /\ one.errorCount = k
      /\ one.offlineUntil = c.node[o].offlineUntil /\ k \in Nat /\ k <= config.limit
      /\ off \in NodeObject /\ off.id = c.node[o].id /\ off.errorCount = k /\ off.offlineUntil = "future"
  <2>1. k \in Nat /\ k <= config.limit
    BY <1>1
  <2> HIDE DEF k
  <2>2. one \in NodeObject /\ one.id = c.node[o].id /\ one.errorCount = k
        /\ one.offlineUntil = c.node[o].offlineUntil
    BY <1>1, <2>1, ObjectChange
  <2> HIDE DEF one
  <2>3. "future" \in Offline
    BY DEF Offline
  <2>4. off \in NodeObject /\ off.id = one.id /\ off.errorCount = one.errorCount
        /\ off.offlineUntil = "future"
    BY <2>2, <2>3, ObjectChange
  <2> QED
    BY <2>1, <2>2, <2>4
<1>3. /\ DOMAIN counted = DOMAIN c /\ counted.nodes = c.nodes /\ counted.serviceable = c.serviceable
      /\ counted.cursor = c.cursor /\ counted.findCaches = c.findCaches
      /\ counted.node = [c.node EXCEPT ![o] = one]
  BY <1>1
<1>7. NodeChanged(counted, c, o, one)
  BY <1>2, <1>3 DEF NodeChanged
<1>4. CASE n < config.limit
  <2>1. increaseErrorCount(c, o) = counted
    BY <1>4 DEF increaseErrorCount
  <2>2. k # config.limit /\ c.node[o].errorCount # config.limit /\ k = n
    BY <1>1, <1>4
  <2>3. (\E id \in Ids : c.nodes[id] = o) => ~(config.restore /\ c.node[o].offlineUntil # "never")
    BY <2>2, NoneAssumption DEF Sound, AtLimit
  <2>4. CASE \E id \in Ids : c.nodes[id] = o
    <3>1. OutAtLimit(one)
      BY <1>1, <1>2, <2>2, <2>3, <2>4 DEF OutAtLimit
    <3>2. Sound(counted, {})
      BY <1>7, <3>1, NodeChange
    <3> QED
      BY <2>1, <3>2
  <2>5. CASE ~\E id \in Ids : c.nodes[id] = o
    <3> HIDE DEF counted, one
    <3>1. Sound(counted, {} \union {o})
      BY <1>7, NodeChange
    <3>2. AtLimit(counted, {})
      BY <1>3, <2>5, <3>1 DEF Sound, AtLimit
    <3> QED
      BY <2>1, <3>1, <3>2 DEF Sound
  <2> QED
    BY <2>4, <2>5
<1>5. CASE ~(n < config.limit) /\ config.restore
  <2> DEFINE d == [counted EXCEPT !.node[o].offlineUntil = "future"]
  <2>1. increaseErrorCount(c, o) = d
    BY <1>5 DEF increaseErrorCount
  <2>2. k = config.limit
    BY <1>1, <1>5
  <2>3. /\ DOMAIN d = DOMAIN c /\ d.nodes = c.nodes /\ d.serviceable = c.serviceable
        /\ d.cursor = c.cursor /\ d.findCaches = c.findCaches
        /\ d.node = [counted.node EXCEPT ![o] = [counted.node[o] EXCEPT !.offlineUntil = "future"]]
    BY <1>1, <1>3
  <2>6. d.node = [c.node EXCEPT ![o] = off]
    <3>1. counted.node[o] = one
      BY <1>1, <1>3
    <3> HIDE DEF counted, one, d
    <3> QED
      BY <1>1, <1>3, <2>3, <3>1 DEF off
  <2>4. OutAtLimit(off)
    BY <1>2, <1>5, <2>2 DEF OutAtLimit
  <2>7. off.errorCount <= config.limit
    BY <1>2
  <2> HIDE DEF d, counted, one, off, k, n
  <2>8. NodeChanged(d, c, o, off)
    BY <1>2, <2>3, <2>6, <2>7 DEF NodeChanged
  <2>5. Sound(d, {})
    BY <2>4, <2>8, NodeChange
  <2> QED
    BY <2>1, <2>5
<1>6. CASE ~(n < config.limit) /\ ~config.restore
  <2>1. increaseErrorCount(c, o) = removeNode(counted, o)
    BY <1>6 DEF increaseErrorCount
  <2> HIDE DEF counted, one, off, k, n
  <2>2. Sound(counted, {} \union {o})
    BY <1>7, NodeChange
  <2>3. {} \union {o} = {o}
    OBVIOUS
  <2> QED
    BY <2>1, <2>2, <2>3, removeNodeSound
<1> QED
  BY <1>4, <1>5, <1>6

LEMMA decreaseSound ==
    ASSUME NEW c, Sound(c, {}), NEW o \in Nodes PROVE Sound(decreaseErrorCount(c, o), {})
<1> DEFINE k == IF c.node[o].errorCount < 1 THEN 0 ELSE c.node[o].errorCount - 1
           one == [[c.node[o] EXCEPT !.errorCount = k] EXCEPT !.offlineUntil = "never"]
           d == decreaseErrorCount(c, o)
<1>1. /\ c.node \in [Nodes -> NodeObject] /\ c.node[o] \in NodeObject
      /\ config.limit \in Nat \ {0}
      /\ c.node[o].errorCount \in Nat /\ c.node[o].errorCount <= config.limit
      /\ DOMAIN c = {"nodes", "serviceable", "findCaches", "cursor", "node"}
  BY ConfigTyped DEF Sound, Members, NodeObject
<1>2. k \in Nat /\ k < config.limit
  BY <1>1
<1>3. one \in NodeObject /\ one.id = c.node[o].id /\ one.errorCount = k /\ one.offlineUntil = "never"
  <2> DEFINE m == [c.node[o] EXCEPT !.errorCount = k]
  <2> HIDE DEF k
  <2>1. m \in NodeObject /\ m.id = c.node[o].id /\ m.errorCount = k
    BY <1>1, <1>2, ObjectChange
  <2>2. one = [m EXCEPT !.offlineUntil = "never"] /\ "never" \in Offline
    BY DEF Offline
  <2> HIDE DEF m, one
  <2> QED
    BY <2>1, <2>2, ObjectChange
<1>4. /\ DOMAIN d = DOMAIN c /\ d.nodes = c.nodes /\ d.serviceable = c.serviceable
      /\ d.cursor = c.cursor /\ d.findCaches = c.findCaches
      /\ d.node = [c.node EXCEPT ![o] = one]
  BY <1>1 DEF decreaseErrorCount
<1>5. one.errorCount <= config.limit /\ OutAtLimit(one)
  BY <1>1, <1>2, <1>3 DEF OutAtLimit
<1> HIDE DEF d, one, k
<1>6. NodeChanged(d, c, o, one)
  BY <1>3, <1>4, <1>5 DEF NodeChanged
<1>7. Sound(d, {})
  BY <1>5, <1>6, NodeChange
<1> QED
  BY <1>7 DEF d

-----------------------------------------------------------------------------
\* The state, and what each action does to it.

LEMMA ClusterFields ==
    /\ DOMAIN Cluster = {"nodes", "serviceable", "findCaches", "cursor", "node"}
    /\ Cluster.nodes = nodes /\ Cluster.serviceable = serviceable /\ Cluster.node = node
    /\ Cluster.findCaches = findCaches /\ Cluster.cursor = cursor
BY DEF Cluster

LEMMA ClusterFieldsNext ==
    /\ DOMAIN Cluster' = {"nodes", "serviceable", "findCaches", "cursor", "node"}
    /\ Cluster'.nodes = nodes' /\ Cluster'.serviceable = serviceable' /\ Cluster'.node = node'
    /\ Cluster'.findCaches = findCaches' /\ Cluster'.cursor = cursor'
BY DEF Cluster

ClusterInv == Sound(Cluster, {})

\* The request as it waits and otherwise.
ReqTyped ==
    req \in [Reqs -> [at : {"idle", "failed", "done", "running"}]
                       \union [at : {"asked"}, node : Nodes, late : BOOLEAN]]

\* What AsksOnlineNode says of one step.
Asking(r) ==
    req'[r] # req[r] /\ req'[r].at = "asked" =>
      LET o == req'[r].node
      IN  /\ nodes'[node'[o].id] = o /\ node'[o].offlineUntil # "future"
          /\ node'[o].id \in Matches[Wants[r].pattern]

Good == ClusterInv' /\ ReqTyped' /\ \A r \in Reqs : Asking(r)

\* Only nodes that are out of service are forgotten.
LEMMA BecomesSound ==
    ASSUME NEW c, Sound(c, {}), Becomes(c), config' = config
    PROVE  /\ ClusterInv'
           /\ nodes' = c.nodes
           /\ \A id \in Ids : c.nodes[id] # None => node'[c.nodes[id]] = c.node[c.nodes[id]]
<1> DEFINE gone(o) == Garbage(c, o)
           unused == [Unused EXCEPT !.pool = "ended"]
<1>1. /\ nodes' = c.nodes /\ serviceable' = c.serviceable
      /\ findCaches' = c.findCaches /\ cursor' = c.cursor
      /\ node' = [o \in Nodes |-> IF gone(o) THEN unused ELSE c.node[o]]
  BY DEF Becomes
<1>2. ASSUME NEW id \in Ids, NEW o, c.nodes[id] = o PROVE ~gone(o)
  BY <1>2 DEF Garbage
<1>3. unused \in NodeObject /\ unused.errorCount = 0
  BY DEF Unused, NodeObject, Offline
<1>4. /\ c.serviceable \in Seq(Ids) /\ IsInjective(c.serviceable)
      /\ c.nodes \in [Ids -> Nodes \union {None}]
      /\ c.node \in [Nodes -> NodeObject]
      /\ \A o \in Nodes : c.node[o].errorCount <= config.limit
      /\ \A id \in Ids : /\ c.nodes[id] # None <=> id \in ToSet(c.serviceable)
                         /\ c.nodes[id] # None => c.node[c.nodes[id]].id = id
      /\ c.cursor \in [Patterns -> Nat]
  BY DEF Sound, Members
<1> HIDE DEF gone, unused
<1>5. \A id \in Ids : c.nodes[id] # None => node'[c.nodes[id]] = c.node[c.nodes[id]]
  BY <1>1, <1>2, <1>4
<1>6. node' \in [Nodes -> NodeObject]
  BY <1>1, <1>3, <1>4
<1>7. \A o \in Nodes : node'[o].errorCount <= config.limit
  BY <1>1, <1>3, <1>4, ConfigTyped DEF Sound
<1>8. /\ DOMAIN Cluster' = {"nodes", "serviceable", "findCaches", "cursor", "node"}
      /\ Cluster'.nodes = c.nodes /\ Cluster'.serviceable = c.serviceable /\ Cluster'.node = node'
      /\ Cluster'.findCaches = c.findCaches /\ Cluster'.cursor = c.cursor
  BY <1>1, ClusterFieldsNext
<1>9. Members(Cluster)'
  BY <1>4, <1>5, <1>6, <1>7, <1>8 DEF Members
<1>10. Fresh(Cluster)'
  BY <1>8 DEF Sound, Fresh
<1>11. AtLimit(Cluster, {})'
  <2> SUFFICES ASSUME NEW id \in Ids, c.nodes[id] # None
               PROVE  node'[c.nodes[id]].errorCount = config.limit
                        <=> config.restore /\ node'[c.nodes[id]].offlineUntil # "never"
    BY <1>8 DEF AtLimit
  <2> QED
    BY <1>5 DEF Sound, AtLimit
<1>12. config' \in Options
  BY DEF Sound
<1> QED
  BY <1>1, <1>5, <1>9, <1>10, <1>11, <1>12 DEF ClusterInv, Sound

\* Whatever the selector: one of the nodes it was given.
LEMMA SelectedOf ==
    ASSUME NEW c, NEW O, Sound(c, O), NEW p \in Patterns, NEW k, Online(c, p) # <<>>,
           NEW s \in Selected(c, p, k)
    PROVE  s.pos \in 1 .. Len(Online(c, p)) /\ s.cursor \in Nat
<1> DEFINE n == Len(Online(c, p))
<1>1. n \in Nat \ {0}
  <2>1. Online(c, p) \in Seq(Ids)
    BY OnlineOf
  <2> QED
    BY <2>1
<1>2. c.cursor[p] \in Nat
  BY DEF Sound, Members
<1>3. Period \in Nat \ {0}
  BY PeriodPositive
<1> HIDE DEF n
<1>4. \/ s = [pos |-> 1, cursor |-> c.cursor[p]]
      \/ s \in [pos : 1 .. n, cursor : {c.cursor[p]}]
      \/ s = [pos |-> 1 + (c.cursor[p] % n), cursor |-> (c.cursor[p] + 1) % Period]
  BY DEF Selected, n
<1>5. /\ 1 + (c.cursor[p] % n) \in 1 .. n
      /\ (c.cursor[p] + 1) % Period \in Nat
  <2>1. \A i \in Nat, m \in Nat \ {0} : i % m \in Nat /\ 1 + (i % m) \in 1 .. m
    OBVIOUS
  <2>2. c.cursor[p] + 1 \in Nat
    BY <1>2
  <2> QED
    BY <1>1, <1>2, <1>3, <2>1, <2>2
<1> QED
  BY <1>1, <1>2, <1>4, <1>5 DEF n

\* The request of a callback is the only one that changes, to a state in which
\* it waits for no node.
LEMMA NotAsking ==
    ASSUME ReqTyped, NEW r \in Reqs, NEW a \in {"idle", "failed", "done", "running"},
           req' = [req EXCEPT ![r] = [at |-> a]]
    PROVE  ReqTyped' /\ \A x \in Reqs : Asking(x)
<1>1. ReqTyped'
  BY DEF ReqTyped
<1>2. ASSUME NEW x \in Reqs PROVE Asking(x)
  BY DEF ReqTyped, Asking
<1> QED
  BY <1>1, <1>2

\* What it is to send r to the node o of c.
Sends(c, r, o) ==
    /\ req' = [req EXCEPT ![r] = [at |-> "asked", node |-> o, late |-> c.node[o].pool = "ended"]]
    /\ ClusterInv' /\ nodes' = c.nodes
    /\ \A x \in Ids : c.nodes[x] # None => node'[c.nodes[x]] = c.node[c.nodes[x]]

\* A request that is sent is sent to a node that may be asked, which the step
\* leaves in service and as it is.
LEMMA AskStep ==
    ASSUME NEW c, Sound(c, {}), ReqTyped, NEW r \in Reqs, Ask(c, r), config' = config,
           req'[r].at = "asked"
    PROVE  \E id \in Ids : Usable(c, Wants[r].pattern, id) /\ Sends(c, r, c.nodes[id])
<1> DEFINE p == Wants[r].pattern
           found == Cached(c, p)
<1>1. p \in Patterns
  BY WantsAssumption DEF Patterns
<1> HIDE DEF p
<1>2. /\ Sound(found, {})
      /\ found.nodes = c.nodes /\ found.node = c.node
      /\ found.serviceable = c.serviceable /\ found.cursor = c.cursor
      /\ DOMAIN found = DOMAIN c
  BY <1>1, CachedSound
<1> HIDE DEF found
<1>3. ~(req' = [req EXCEPT ![r] = [at |-> "failed"]])
  BY DEF ReqTyped
<1>4. PICK s \in Selected(c, p, Wants[r].selector) :
         LET o == c.nodes[Online(c, p)[s.pos]]
         IN  /\ req' = [req EXCEPT ![r] =
                  [at |-> "asked", node |-> o, late |-> c.node[o].pool = "ended"]]
             /\ Becomes([found EXCEPT !.cursor[p] = s.cursor])
  BY <1>3 DEF Ask, p, found
<1>5. Online(c, p) # <<>>
  BY <1>3 DEF Ask, p, found
<1> DEFINE d == [found EXCEPT !.cursor[p] = s.cursor]
           id == Online(c, p)[s.pos]
<1>6. s.pos \in 1 .. Len(Online(c, p)) /\ s.cursor \in Nat
  BY <1>1, <1>5, SelectedOf
<1>7. Usable(c, p, id)
  BY <1>1, <1>6, OnlineOf
<1>8. /\ req' = [req EXCEPT ![r] = [at |-> "asked", node |-> c.nodes[id],
                                   late |-> c.node[c.nodes[id]].pool = "ended"]]
      /\ Becomes(d)
  BY <1>4
<1>9. /\ DOMAIN d = DOMAIN found /\ d.nodes = found.nodes /\ d.serviceable = found.serviceable
      /\ d.findCaches = found.findCaches /\ d.node = found.node
      /\ d.cursor = [found.cursor EXCEPT ![p] = s.cursor]
  BY <1>2 DEF Sound, Members
<1> HIDE DEF d, id
<1>10. Sound(d, {})
  <2>1. Members(d)
    <3>1. Members(found)
      BY <1>2 DEF Sound
    <3>2. found.cursor \in [Patterns -> Nat]
      BY <3>1 DEF Members
    <3>3. d.cursor \in [Patterns -> Nat]
      BY <1>6, <1>9, <3>2
    <3> QED
      BY <1>9, <3>1, <3>3 DEF Members
  <2>2. Fresh(d) /\ AtLimit(d, {})
    BY <1>2, <1>9 DEF Sound, Fresh, AtLimit
  <2> QED
    BY <1>2, <2>1, <2>2 DEF Sound
<1>11. /\ ClusterInv' /\ nodes' = c.nodes
       /\ \A x \in Ids : c.nodes[x] # None => node'[c.nodes[x]] = c.node[c.nodes[x]]
  BY <1>2, <1>8, <1>9, <1>10, BecomesSound
<1>12. Usable(c, p, id) /\ id \in Ids
  BY <1>7 DEF Usable
<1>13. Sends(c, r, c.nodes[id])
  BY <1>8, <1>11 DEF Sends
<1> QED
  BY <1>12, <1>13 DEF p

LEMMA AskGood ==
    ASSUME NEW c, Sound(c, {}), ReqTyped, NEW r \in Reqs, Ask(c, r), config' = config
    PROVE  Good
<1> DEFINE p == Wants[r].pattern
           found == Cached(c, p)
<1>1. p \in Patterns
  BY WantsAssumption DEF Patterns
<1> HIDE DEF p
<1>2. CASE req' = [req EXCEPT ![r] = [at |-> "failed"]] /\ Becomes(found)
  <2>1. Sound(found, {})
    BY <1>1, CachedSound
  <2> HIDE DEF found
  <2>2. ClusterInv'
    BY <1>2, <2>1, BecomesSound
  <2>3. ReqTyped' /\ \A x \in Reqs : Asking(x)
    BY <1>2, NotAsking
  <2> QED
    BY <2>2, <2>3 DEF Good
<1>3. CASE req'[r].at = "asked"
  <2>1. PICK id \in Ids : Usable(c, p, id) /\ Sends(c, r, c.nodes[id])
    BY <1>3, AskStep DEF p
  <2> DEFINE o == c.nodes[id]
  <2>2. /\ id \in Matches[p] /\ o \in Nodes /\ o # None
        /\ c.node[o].id = id /\ c.node[o].offlineUntil # "future"
    BY <2>1, NoneAssumption DEF Usable
  <2>3. nodes'[id] = o /\ node'[o] = c.node[o] /\ ClusterInv'
    BY <2>1, <2>2 DEF Sends
  <2>4. req' = [req EXCEPT ![r] = [at |-> "asked", node |-> o, late |-> c.node[o].pool = "ended"]]
    BY <2>1 DEF Sends
  <2> HIDE DEF o
  <2>5. ReqTyped'
    BY <2>2, <2>4 DEF ReqTyped
  <2>6. ASSUME NEW x \in Reqs PROVE Asking(x)
    <3>1. CASE x # r
      BY <2>4, <3>1 DEF ReqTyped, Asking
    <3>2. CASE x = r
      <4>1. req'[x].node = o
        BY <2>4, <3>2 DEF ReqTyped
      <4> QED
        BY <2>2, <2>3, <3>2, <4>1 DEF Asking, p
    <3> QED
      BY <3>1, <3>2
  <2> QED
    BY <2>3, <2>5, <2>6 DEF Good
<1>4. \/ req' = [req EXCEPT ![r] = [at |-> "failed"]] /\ Becomes(found)
      \/ \E o, late : req' = [req EXCEPT ![r] = [at |-> "asked", node |-> o, late |-> late]]
  BY DEF Ask, p, found
<1>5. ASSUME NEW o, NEW late, req' = [req EXCEPT ![r] = [at |-> "asked", node |-> o, late |-> late]]
      PROVE  req'[r].at = "asked"
  BY <1>5 DEF ReqTyped
<1> QED
  BY <1>2, <1>3, <1>4, <1>5

LEMMA GetConnectionGood ==
    ASSUME ClusterInv, ReqTyped, NEW r \in Reqs, GetConnection(r) PROVE Good
<1>1. Sound(Cluster, {}) /\ Ask(Cluster, r) /\ config' = config
  BY DEF ClusterInv, GetConnection
<1> QED
  BY <1>1, AskGood

LEMMA AnswerOkGood ==
    ASSUME ClusterInv, ReqTyped, NEW r \in Reqs, AnswerOk(r) PROVE Good
<1> DEFINE a == IF r \in Queries THEN "running" ELSE "done"
<1>1. /\ req' = [req EXCEPT ![r] = [at |-> a]] /\ req[r].at = "asked"
      /\ Becomes(decreaseErrorCount(Cluster, req[r].node)) /\ config' = config
  BY DEF AnswerOk
<1>2. req[r].node \in Nodes
  BY <1>1 DEF ReqTyped
<1>3. Sound(decreaseErrorCount(Cluster, req[r].node), {})
  BY <1>2, decreaseSound DEF ClusterInv
<1>4. ClusterInv'
  BY <1>1, <1>3, BecomesSound
<1>5. a \in {"idle", "failed", "done", "running"}
  OBVIOUS
<1> HIDE DEF a
<1>6. ReqTyped' /\ \A x \in Reqs : Asking(x)
  BY <1>1, <1>5, NotAsking
<1> QED
  BY <1>4, <1>6 DEF Good

\* The retry looks at the cluster that the error has left.
LEMMA AnswerErrorGood ==
    ASSUME ClusterInv, ReqTyped, NEW r \in Reqs, AnswerError(r) PROVE Good
<1> DEFINE p == Wants[r].pattern
           c == increaseErrorCount(Cluster, req[r].node)
           looked == IF config.canRetry THEN Cached(c, p) ELSE c
<1>1. /\ req[r].at = "asked" /\ config' = config
      /\ \/ Ask(looked, r)
         \/ /\ req' = [req EXCEPT ![r] = [at |-> "failed"]]
            /\ Becomes(looked)
  BY DEF AnswerError
<1>2. req[r].node \in Nodes
  BY <1>1 DEF ReqTyped
<1>3. p \in Patterns
  BY WantsAssumption DEF Patterns
<1> HIDE DEF p
<1>4. Sound(c, {})
  BY <1>2, increaseSound DEF ClusterInv
<1> HIDE DEF c
<1>5. Sound(looked, {})
  BY <1>3, <1>4, CachedSound
<1> HIDE DEF looked
<1>6. CASE Ask(looked, r)
  BY <1>1, <1>5, <1>6, AskGood
<1>7. CASE req' = [req EXCEPT ![r] = [at |-> "failed"]] /\ Becomes(looked)
  <2>1. ClusterInv'
    BY <1>1, <1>5, <1>7, BecomesSound
  <2>2. ReqTyped' /\ \A x \in Reqs : Asking(x)
    BY <1>7, NotAsking
  <2> QED
    BY <2>1, <2>2 DEF Good
<1> QED
  BY <1>1, <1>6, <1>7

\* Who changes no request asks no node.
LEMMA SameRequests ==
    ASSUME ReqTyped, req' = req PROVE ReqTyped' /\ \A x \in Reqs : Asking(x)
BY DEF ReqTyped, Asking

LEMMA SameCluster ==
    ASSUME ClusterInv, UNCHANGED <<config, nodes, serviceable, findCaches, cursor, node>>
    PROVE  ClusterInv'
<1>1. Cluster' = Cluster
  BY DEF Cluster
<1> QED
  BY <1>1 DEF ClusterInv, Sound, Members, Fresh, AtLimit

LEMMA QueryEndGood ==
    ASSUME ClusterInv, ReqTyped, NEW r \in Reqs, QueryEnd(r) PROVE Good
<1>1. req[r].at = "running" /\ req' = [req EXCEPT ![r].at = "done"]
  BY DEF QueryEnd
<1>2. req[r] \in [at : {"idle", "failed", "done", "running"}]
  BY <1>1 DEF ReqTyped
<1>3. [req[r] EXCEPT !.at = "done"] = [at |-> "done"]
  BY <1>2
<1>4. req' = [req EXCEPT ![r] = [at |-> "done"]]
  BY <1>1, <1>3 DEF ReqTyped
<1>5. ClusterInv'
  BY SameCluster DEF QueryEnd
<1>6. ReqTyped' /\ \A x \in Reqs : Asking(x)
  BY <1>4, NotAsking
<1> QED
  BY <1>5, <1>6 DEF Good

LEMMA RemoveNodesGood ==
    ASSUME ClusterInv, ReqTyped, NEW p \in Patterns, RemoveNodes(p) PROVE Good
<1> DEFINE looked == Cached(Cluster, p)
           gone == {id \in ToSet(Found(Cluster, p)) : nodes[id] # None}
           objects == {nodes[id] : id \in gone}
           c == IF gone = {} THEN looked ELSE Without(looked, gone, objects)
<1>1. req' = req /\ Becomes(c) /\ config' = config
  BY DEF RemoveNodes
<1>2. Sound(looked, {})
  BY CachedSound DEF ClusterInv
<1>3. gone \in SUBSET Ids
  <2>1. Found(Cluster, p) \in Seq(Ids)
    BY FoundOf DEF ClusterInv
  <2>2. ToSet(Found(Cluster, p)) \subseteq Ids
    BY <2>1 DEF ToSet
  <2> QED
    BY <2>2
<1> HIDE DEF looked, gone, objects
<1>4. Sound(Without(looked, gone, objects), {})
  <2>1. {} \in SUBSET Nodes /\ \A o \in {} : looked.node[o].id \in gone
    OBVIOUS
  <2> QED
    BY <1>2, <1>3, <2>1, WithoutSound
<1>5. Sound(c, {})
  BY <1>2, <1>4
<1> HIDE DEF c
<1>6. ClusterInv'
  BY <1>1, <1>5, BecomesSound
<1>7. ReqTyped' /\ \A x \in Reqs : Asking(x)
  BY <1>1, SameRequests
<1> QED
  BY <1>6, <1>7 DEF Good

LEMMA TraceGood ==
    ASSUME ClusterInv, ReqTyped, NEW p \in Patterns, Trace(p) PROVE Good
<1>1. req' = req /\ Becomes(Cached(Cluster, p)) /\ config' = config
  BY DEF Trace
<1>2. Sound(Cached(Cluster, p), {})
  BY CachedSound DEF ClusterInv
<1>3. ClusterInv'
  BY <1>1, <1>2, BecomesSound
<1> QED
  BY <1>1, <1>3, SameRequests DEF Good

LEMMA AddGood ==
    ASSUME ClusterInv, ReqTyped, NEW i \in Ids, Add(i) PROVE Good
<1>1. PICK o \in Nodes : /\ node[o] = Unused
                         /\ node' = [node EXCEPT ![o].id = i, ![o].pool = "open"]
                         /\ nodes' = [nodes EXCEPT ![i] = o]
  BY DEF Add
<1>2. /\ nodes[i] = None /\ serviceable' = Append(serviceable, i) /\ findCaches' = <<>>
      /\ config' = config /\ cursor' = cursor /\ req' = req
  BY DEF Add
<1>3. /\ serviceable \in Seq(Ids) /\ IsInjective(serviceable)
      /\ nodes \in [Ids -> Nodes \union {None}] /\ node \in [Nodes -> NodeObject]
      /\ \A x \in Nodes : node[x].errorCount <= config.limit
      /\ \A id \in Ids : /\ nodes[id] # None <=> id \in ToSet(serviceable)
                         /\ nodes[id] # None => node[nodes[id]].id = id
      /\ cursor \in [Patterns -> Nat]
  BY ClusterFields DEF ClusterInv, Sound, Members
<1>4. config \in Options /\ config.limit \in Nat \ {0}
  BY ConfigTyped DEF ClusterInv, Sound
<1> DEFINE n == [Unused EXCEPT !.id = i]
           new == [n EXCEPT !.pool = "open"]
<1>5. node' = [node EXCEPT ![o] = new]
  BY <1>1, <1>3
<1>6. new \in NodeObject /\ new.id = i /\ new.errorCount = 0 /\ new.offlineUntil = "never"
  <2>1. n \in NodeObject /\ n.id = i /\ n.errorCount = 0 /\ n.offlineUntil = "never"
    BY DEF Unused, NodeObject, Offline
  <2> HIDE DEF n
  <2> QED
    BY <2>1 DEF NodeObject
<1> HIDE DEF new
<1>7. node' \in [Nodes -> NodeObject] /\ node'[o] = new /\ \A x \in Nodes : x # o => node'[x] = node[x]
  BY <1>3, <1>5, <1>6
<1>8. Longer(serviceable', serviceable, i, Ids) /\ i \notin ToSet(serviceable)
  BY <1>2, <1>3, AppendOne
<1>9. \A id \in Ids : nodes[id] # o
  BY <1>1, <1>3, NoneAssumption DEF Unused
<1>10. /\ nodes' \in [Ids -> Nodes \union {None}] /\ nodes'[i] = o
       /\ \A id \in Ids : id # i => nodes'[id] = nodes[id]
  BY <1>1, <1>3
<1>11. \A x \in Nodes : node'[x].errorCount <= config.limit
  BY <1>3, <1>4, <1>6, <1>7
<1>12. ASSUME NEW id \in Ids
       PROVE  /\ nodes'[id] # None <=> id \in ToSet(serviceable')
              /\ nodes'[id] # None => node'[nodes'[id]].id = id
  <2>1. ToSet(serviceable') = ToSet(serviceable) \union {i}
    BY <1>8 DEF Longer
  <2>2. CASE id = i
    BY <1>6, <1>7, <1>10, <2>1, <2>2, NoneAssumption
  <2>3. CASE id # i
    BY <1>3, <1>7, <1>9, <1>10, <2>1, <2>3
  <2> QED
    BY <2>2, <2>3
<1>13. Members(Cluster)'
  <2>1. serviceable' \in Seq(Ids) /\ IsInjective(serviceable')
    BY <1>3, <1>8 DEF Longer
  <2> QED
    BY <1>2, <1>3, <1>7, <1>10, <1>11, <1>12, <2>1, ClusterFieldsNext DEF Members
<1>14. Fresh(Cluster)'
  BY <1>2, ClusterFieldsNext DEF Fresh
<1>15. ASSUME NEW id \in Ids, nodes'[id] # None
       PROVE  node'[nodes'[id]].errorCount = config.limit
                <=> config.restore /\ node'[nodes'[id]].offlineUntil # "never"
  <2>1. CASE id = i
    BY <1>4, <1>6, <1>7, <1>10, <2>1
  <2>2. CASE id # i
    <3>1. nodes'[id] = nodes[id] /\ nodes[id] \in Nodes /\ node'[nodes[id]] = node[nodes[id]]
      BY <1>3, <1>7, <1>9, <1>10, <1>15, <2>2
    <3>2. AtLimit(Cluster, {})
      BY DEF ClusterInv, Sound
    <3> QED
      BY <1>15, <3>1, <3>2, ClusterFields DEF AtLimit
  <2> QED
    BY <2>1, <2>2
<1>16. AtLimit(Cluster, {})'
  BY <1>2, <1>15, ClusterFieldsNext DEF AtLimit
<1>17. ClusterInv'
  BY <1>2, <1>4, <1>13, <1>14, <1>16 DEF ClusterInv, Sound
<1> QED
  BY <1>2, <1>17, SameRequests DEF Good

\* The objects keep their ids and counts, and no id joins or leaves.
LEMMA ObjectsChange ==
    ASSUME ClusterInv, UNCHANGED <<config, nodes, serviceable, findCaches, cursor>>,
           node' \in [Nodes -> NodeObject],
           \A o \in Nodes : /\ node'[o].id = node[o].id
                            /\ node'[o].errorCount = node[o].errorCount
                            /\ node'[o].offlineUntil # "never" <=> node[o].offlineUntil # "never"
    PROVE  ClusterInv'
<1>1. Members(Cluster)'
  BY ClusterFields, ClusterFieldsNext DEF ClusterInv, Sound, Members
<1>2. Fresh(Cluster)'
  BY ClusterFields, ClusterFieldsNext DEF ClusterInv, Sound, Fresh
<1>3. AtLimit(Cluster, {})'
  <2>1. nodes \in [Ids -> Nodes \union {None}]
    BY ClusterFields DEF ClusterInv, Sound, Members
  <2>2. AtLimit(Cluster, {})
    BY DEF ClusterInv, Sound
  <2> QED
    BY <2>1, <2>2, ClusterFields, ClusterFieldsNext DEF AtLimit
<1> QED
  BY <1>1, <1>2, <1>3 DEF ClusterInv, Sound

LEMMA TimePassesGood ==
    ASSUME ClusterInv, ReqTyped, NEW o \in Nodes, TimePasses(o) PROVE Good
<1>1. /\ node[o].offlineUntil = "future" /\ node' = [node EXCEPT ![o].offlineUntil = "past"]
      /\ UNCHANGED <<config, nodes, serviceable, findCaches, cursor>> /\ req' = req
  BY DEF TimePasses
<1>2. node \in [Nodes -> NodeObject]
  BY ClusterFields DEF ClusterInv, Sound, Members
<1> DEFINE n == [node[o] EXCEPT !.offlineUntil = "past"]
<1>3. n \in NodeObject /\ n.id = node[o].id /\ n.errorCount = node[o].errorCount /\ n.offlineUntil = "past"
  <2>1. node[o] \in NodeObject /\ "past" \in Offline
    BY <1>2 DEF Offline
  <2> QED
    BY <2>1, ObjectChange
<1>4. node' = [node EXCEPT ![o] = n]
  BY <1>1, <1>2
<1> HIDE DEF n
<1>5. ClusterInv'
  BY <1>1, <1>2, <1>3, <1>4, ObjectsChange
<1> QED
  BY <1>1, <1>5, SameRequests DEF Good

LEMMA EndGood ==
    ASSUME ClusterInv, ReqTyped, NEW e \in Ends, NEW empty, End(e, empty) PROVE Good
<1> DEFINE ids == ToSet(serviceable)
           objects == {nodes[id] : id \in ids}
<1>1. /\ node' = [o \in Nodes |-> IF o \in objects THEN [node[o] EXCEPT !.pool = "ended"] ELSE node[o]]
      /\ UNCHANGED <<config, nodes, serviceable, findCaches, cursor>> /\ req' = req
  BY DEF End
<1>2. node \in [Nodes -> NodeObject]
  BY ClusterFields DEF ClusterInv, Sound, Members
<1> HIDE DEF ids, objects
<1>3. \A o \in Nodes : /\ node'[o] \in NodeObject /\ node'[o].id = node[o].id
                       /\ node'[o].errorCount = node[o].errorCount
                       /\ node'[o].offlineUntil = node[o].offlineUntil
  <2> SUFFICES ASSUME NEW o \in Nodes
               PROVE  /\ node'[o] \in NodeObject /\ node'[o].id = node[o].id
                      /\ node'[o].errorCount = node[o].errorCount
                      /\ node'[o].offlineUntil = node[o].offlineUntil
    OBVIOUS
  <2> DEFINE m == [node[o] EXCEPT !.pool = "ended"]
  <2>1. node[o] \in NodeObject
    BY <1>2
  <2>2. /\ m \in NodeObject /\ m.id = node[o].id
        /\ m.errorCount = node[o].errorCount /\ m.offlineUntil = node[o].offlineUntil
    BY <2>1, ObjectChange
  <2>3. node'[o] = IF o \in objects THEN m ELSE node[o]
    BY <1>1
  <2> HIDE DEF m
  <2> QED
    BY <2>1, <2>2, <2>3
<1>4. node' \in [Nodes -> NodeObject]
  BY <1>1, <1>3
<1>5. ClusterInv'
  BY <1>1, <1>3, <1>4, ObjectsChange
<1> QED
  BY <1>1, <1>5, SameRequests DEF Good

\* The other steps touch nothing but the closure of end().
LEMMA ClosureGood ==
    ASSUME ClusterInv, ReqTyped,
           UNCHANGED <<config, nodes, serviceable, findCaches, cursor, node, req>>
    PROVE  Good
<1>1. ClusterInv'
  BY SameCluster
<1>2. ReqTyped' /\ \A x \in Reqs : Asking(x)
  BY SameRequests
<1> QED
  BY <1>1, <1>2 DEF Good

LEMMA InitGood == Init => ClusterInv /\ ReqTyped
<1> SUFFICES ASSUME Init PROVE ClusterInv /\ ReqTyped
  OBVIOUS
<1>1. ReqTyped
  BY DEF Init, ReqTyped
<1>2. /\ config \in Options /\ nodes = [id \in Ids |-> None] /\ serviceable = <<>> /\ findCaches = <<>>
      /\ cursor = [p \in Patterns |-> 0] /\ node = [o \in Nodes |-> Unused]
  BY DEF Init
<1>3. config.limit \in Nat
  BY <1>2, ConfigTyped
<1>4. Unused \in NodeObject /\ Unused.errorCount = 0
  BY DEF Unused, NodeObject, Offline
<1>5. serviceable \in Seq(Ids) /\ ToSet(serviceable) = {} /\ IsInjective(serviceable)
  BY <1>2, EmptyList
<1>6. node \in [Nodes -> NodeObject] /\ \A o \in Nodes : node[o].errorCount <= config.limit
  BY <1>2, <1>3, <1>4
<1>7. Members(Cluster)
  BY <1>2, <1>5, <1>6, ClusterFields DEF Members
<1>8. Fresh(Cluster) /\ AtLimit(Cluster, {})
  BY <1>2, ClusterFields DEF Fresh, AtLimit
<1> QED
  BY <1>1, <1>2, <1>7, <1>8 DEF ClusterInv, Sound

LEMMA NextGood == ASSUME ClusterInv, ReqTyped, [Next]_vars PROVE Good
<1>1. CASE UNCHANGED vars
  BY <1>1, ClosureGood DEF vars
<1>2. ASSUME NEW r \in Reqs, GetConnection(r) \/ AnswerOk(r) \/ AnswerError(r) \/ QueryEnd(r) PROVE Good
  BY <1>2, GetConnectionGood, AnswerOkGood, AnswerErrorGood, QueryEndGood
<1>3. ASSUME NEW id \in Ids, Add(id) PROVE Good
  BY <1>3, AddGood
<1>4. ASSUME NEW p \in Patterns, RemoveNodes(p) \/ Trace(p) PROVE Good
  BY <1>4, RemoveNodesGood, TraceGood
<1>5. ASSUME NEW o \in Nodes, TimePasses(o) PROVE Good
  BY <1>5, TimePassesGood
<1>6. ASSUME NEW o \in Nodes, NEW err \in BOOLEAN, PoolEnded(o, err) PROVE Good
  BY <1>6, ClosureGood DEF PoolEnded
<1>7. ASSUME NEW e \in Ends, EndAgain(e) \/ EndTick(e) PROVE Good
  BY <1>7, ClosureGood DEF EndAgain, EndTick
<1>8. ASSUME NEW e \in Ends, NEW empty \in SUBSET Nodes, End(e, empty) PROVE Good
  BY <1>8, EndGood
<1> QED
  BY <1>1, <1>2, <1>3, <1>4, <1>5, <1>6, <1>7, <1>8 DEF Next

-----------------------------------------------------------------------------
\* The count of the first call of end(): at least as many answers are awaited
\* as pools have still to answer, so it is never less than zero.
CountInv ==
    /\ ending.pools \in SUBSET Nodes /\ ending.waiting \in Int
    /\ Cardinality(ending.pools) <= ending.waiting /\ ending.waiting <= Cardinality(Nodes)

LEMMA SomeNodes ==
    ASSUME NEW S \in SUBSET Nodes
    PROVE  IsFiniteSet(S) /\ Cardinality(S) \in Nat /\ Cardinality(S) <= Cardinality(Nodes)
           /\ Cardinality(Nodes) \in Nat
BY NodesAssumption, FS_Subset, FS_CardinalityType

LEMMA EndCounts ==
    ASSUME ClusterInv, NEW e \in Ends, NEW empty, End(e, empty) PROVE CountInv'
<1> DEFINE ids == ToSet(serviceable)
           objects == {nodes[id] : id \in ids}
           left == objects \ empty
<1>1. ending'.waiting = Cardinality(left) /\ ending'.pools = left
  BY DEF End
<1>2. objects \in SUBSET Nodes
  <2>1. /\ serviceable \in Seq(Ids) /\ nodes \in [Ids -> Nodes \union {None}]
        /\ \A id \in Ids : nodes[id] # None <=> id \in ToSet(serviceable)
    BY ClusterFields DEF ClusterInv, Sound, Members
  <2>2. ids \subseteq Ids
    BY <2>1 DEF ToSet
  <2> QED
    BY <2>1, <2>2
<1> HIDE DEF objects
<1>3. left \in SUBSET Nodes
  BY <1>2
<1> HIDE DEF left
<1>4. Cardinality(left) \in Nat /\ Cardinality(left) <= Cardinality(Nodes)
  BY <1>3, SomeNodes
<1> QED
  BY <1>1, <1>3, <1>4 DEF CountInv

LEMMA PoolEndedCounts ==
    ASSUME CountInv, EndInv, NEW o, NEW err \in BOOLEAN, PoolEnded(o, err) PROVE CountInv'
<1>1. o \in ending.pools /\ ending' = [onEnd(ending.first, err) EXCEPT !.pools = ending.pools \ {o}]
  BY DEF PoolEnded, onEnd, CallBack, EndInv
<1>2. ending'.pools = ending.pools \ {o} /\ ending'.waiting \in {ending.waiting, ending.waiting - 1}
  <2>1. /\ DOMAIN onEnd(ending.first, err) = DOMAIN ending
        /\ onEnd(ending.first, err).waiting \in {ending.waiting, ending.waiting - 1}
    <3>1. CASE ending.call[ending.first] = "called"
      BY <3>1 DEF onEnd
    <3>2. CASE ending.call[ending.first] # "called" /\ (err \/ ending.waiting - 1 <= 0)
      BY <3>2 DEF onEnd, CallBack, EndInv
    <3>3. CASE ending.call[ending.first] # "called" /\ ~(err \/ ending.waiting - 1 <= 0)
      BY <3>3 DEF onEnd, EndInv
    <3> QED
      BY <3>1, <3>2, <3>3
  <2> QED
    BY <1>1, <2>1 DEF EndInv
<1>3. IsFiniteSet(ending.pools) /\ Cardinality(ending.pools) \in Nat /\ Cardinality(Nodes) \in Nat
  BY SomeNodes DEF CountInv
<1>4. Cardinality(ending.pools \ {o}) = Cardinality(ending.pools) - 1
  BY <1>1, <1>3, FS_RemoveElement
<1>5. ending.waiting \in Int /\ Cardinality(ending.pools) <= ending.waiting
      /\ ending.waiting <= Cardinality(Nodes) /\ ending.pools \in SUBSET Nodes
  BY DEF CountInv
<1>6. /\ ending'.waiting \in Int /\ Cardinality(ending'.pools) <= ending'.waiting
      /\ ending'.waiting <= Cardinality(Nodes)
  BY <1>2, <1>3, <1>4, <1>5
<1> QED
  BY <1>2, <1>5, <1>6 DEF CountInv

LEMMA InitCounts == Init => CountInv
<1>1. {} \in SUBSET Nodes /\ Cardinality({}) = 0
  BY FS_EmptySet
<1>2. Cardinality(Nodes) \in Nat
  BY <1>1, SomeNodes
<1> QED
  BY <1>1, <1>2 DEF Init, CountInv

LEMMA NextCounts ==
    ASSUME ClusterInv, CountInv, EndInv, [Next]_vars PROVE CountInv'
<1>1. CASE ending' = ending
  BY <1>1 DEF CountInv
<1>2. CASE ending' # ending
  <2>1. \/ \E o \in Nodes, err \in BOOLEAN : PoolEnded(o, err)
        \/ \E e \in Ends : EndAgain(e) \/ EndTick(e) \/ \E empty \in SUBSET Nodes : End(e, empty)
    BY <1>2, OthersLeaveEnding DEF Next, vars
  <2>2. ASSUME NEW e \in Ends, EndAgain(e) \/ EndTick(e) PROVE CountInv'
    <3>1. ending'.pools = ending.pools /\ ending'.waiting = ending.waiting
      BY <2>2 DEF EndAgain, EndTick, CallBack, EndInv
    <3> QED
      BY <3>1 DEF CountInv
  <2> QED
    BY <2>1, <2>2, PoolEndedCounts, EndCounts
<1> QED
  BY <1>1, <1>2

ClusterAll == ClusterInv /\ ReqTyped /\ EndInv /\ CountInv

LEMMA Typed == ClusterAll => TypeOK
<1> SUFFICES ASSUME ClusterAll PROVE TypeOK
  OBVIOUS
<1>1. /\ serviceable \in Seq(Ids) /\ IsInjective(serviceable)
      /\ nodes \in [Ids -> Nodes \union {None}] /\ node \in [Nodes -> NodeObject]
      /\ \A o \in Nodes : node[o].errorCount <= config.limit
      /\ \A id \in Ids : /\ nodes[id] # None <=> id \in ToSet(serviceable)
                         /\ nodes[id] # None => node[nodes[id]].id = id
  BY ClusterFields DEF ClusterAll, ClusterInv, Sound, Members
<1>2. DOMAIN findCaches \subseteq Patterns /\ config.limit \in Nat
  BY ClusterFields, ConfigTyped DEF ClusterAll, ClusterInv, Sound, Fresh
<1>3. serviceable \in SeqOf(Ids, Cardinality(Ids))
  BY <1>1, ListOfIds
<1>4. \A o \in Nodes : node[o].errorCount \in 0 .. config.limit /\ node[o].offlineUntil \in Offline
  <2> SUFFICES ASSUME NEW o \in Nodes
               PROVE  node[o].errorCount \in 0 .. config.limit /\ node[o].offlineUntil \in Offline
    OBVIOUS
  <2>1. node[o].errorCount \in Nat /\ node[o].offlineUntil \in Offline
    BY <1>1 DEF NodeObject
  <2> QED
    BY <1>1, <1>2, <2>1
<1>5. ending.waiting \in -1 .. Cardinality(Nodes)
  <2>1. Cardinality(ending.pools) \in Nat /\ Cardinality(Nodes) \in Nat
    BY SomeNodes DEF ClusterAll, CountInv
  <2> QED
    BY <2>1 DEF ClusterAll, CountInv
<1> QED
  BY <1>1, <1>2, <1>3, <1>4, <1>5 DEF TypeOK

LEMMA AllHolds == Spec => []ClusterAll
<1>1. Init => ClusterAll
  BY InitGood, InitEnd, InitCounts DEF ClusterAll
<1>2. ClusterAll /\ [Next]_vars => ClusterAll'
  <2> SUFFICES ASSUME ClusterAll, [Next]_vars PROVE ClusterAll'
    OBVIOUS
  <2>1. ClusterInv /\ ReqTyped /\ EndInv /\ CountInv
    BY DEF ClusterAll
  <2>2. Good
    BY <2>1, NextGood
  <2>3. EndInv'
    BY <2>1, NextEnd
  <2>4. CountInv'
    BY <2>1, NextCounts
  <2> QED
    BY <2>2, <2>3, <2>4 DEF Good, ClusterAll
<1> QED
  BY <1>1, <1>2, PTL DEF Spec

\* Whatever is added, removed by pattern or for its errors, and looked up,
\* from a callback as from outside: a cache holds what a search would find now,
\* and the list of serviceable ids names the nodes of the table (TypeOK).
THEOREM CachesFreshHolds == Spec => []CachesFresh
<1>1. ClusterAll => CachesFresh
  <2> SUFFICES ASSUME ClusterAll PROVE CachesFresh
    OBVIOUS
  <2>1. Fresh(Cluster)
    BY DEF ClusterAll, ClusterInv, Sound
  <2> QED
    BY <2>1, Typed, ClusterFields DEF CachesFresh, Fresh
<1> QED
  BY <1>1, AllHolds, PTL

\* For every limit and with or without a time to restore: a node in service is
\* out of use exactly when it has used up its errors (_increaseErrorCount).
THEOREM OfflineAtLimitHolds == Spec => []OfflineAtLimit
<1>1. ClusterAll => OfflineAtLimit
  <2> SUFFICES ASSUME ClusterAll, NEW o \in InService
               PROVE  node[o].errorCount = config.limit
                        <=> config.restore /\ node[o].offlineUntil # "never"
    BY DEF OfflineAtLimit
  <2>1. AtLimit(Cluster, {}) /\ Members(Cluster)
    BY DEF ClusterAll, ClusterInv, Sound
  <2>2. PICK id \in Ids : id \in ToSet(serviceable) /\ nodes[id] = o
    <3>1. ToSet(serviceable) \subseteq Ids
      BY <2>1, ClusterFields DEF Members, ToSet
    <3> QED
      BY <3>1 DEF InService
  <2>3. nodes[id] # None
    BY <2>1, <2>2, ClusterFields DEF Members
  <2> QED
    BY <2>1, <2>2, <2>3, ClusterFields DEF AtLimit
<1> QED
  BY <1>1, AllHolds, PTL

\* For every selector, and on a retry too: a request is only sent to a node in
\* service, matched by its pattern, that is not offline (_getClusterNode).
THEOREM AsksOnlineNodeHolds == Spec => AsksOnlineNode
<1>1. ClusterAll /\ [Next]_vars =>
        [\A r \in Reqs :
           req'[r] # req[r] /\ req'[r].at = "asked" =>
             LET o == req'[r].node
             IN  /\ nodes'[node'[o].id] = o /\ node'[o].offlineUntil # "future"
                 /\ node'[o].id \in Matches[Wants[r].pattern]]_vars
  <2> SUFFICES ASSUME ClusterAll, [Next]_vars PROVE \A r \in Reqs : Asking(r)
    BY DEF Asking
  <2>1. ClusterInv /\ ReqTyped
    BY DEF ClusterAll
  <2> QED
    BY <2>1, NextGood DEF Good
<1> QED
  BY <1>1, AllHolds, PTL DEF Spec, AsksOnlineNode

-----------------------------------------------------------------------------
\* Retries: the errors that the nodes in service may still make.

LEMMA TotalOf ==
    ASSUME NEW w \in [Nodes -> Nat]
    PROVE  \E h : /\ h[0] = 0 /\ Total(w) = h[Cardinality(Nodes)]
                  /\ \A n \in 1 .. Cardinality(Nodes) : h[n] = h[n - 1] + w[n]
<1> DEFINE N == Cardinality(Nodes)
           G == [u \in (1 .. N) \X Nat |-> u[2] + w[u[1]]]
           Body(g) == [n \in 0 .. N |-> IF n = 0 THEN 0 ELSE g[n - 1] + w[n]]
           h == CHOOSE g : g = Body(g)
<1>1. N \in Nat /\ Nodes = 1 .. N
  BY NodesAssumption, FS_CardinalityType
<1> HIDE DEF N
<1>2. \E g : g = Body(g)
  <2>1. G \in [(1 .. N) \X Nat -> Nat]
    <3>1. ASSUME NEW n \in 1 .. N, NEW m \in Nat PROVE m + w[n] \in Nat
      BY <1>1
    <3> QED
      BY <3>1
  <2>2. PICK f : Solves(f, N, Nat, 0, G)
    <3> HIDE DEF G
    <3>1. Recurrence(N, Nat, 0, G)
      BY <1>1, <2>1 DEF Recurrence
    <3> QED
      BY <3>1, Recursion
  <2>3. /\ f \in [0 .. N -> Nat] /\ f[0] = 0
        /\ \A n \in 1 .. N : f[n] = G[<<n, f[n - 1]>>]
    BY <2>2 DEF Solves
  <2>4. ASSUME NEW n \in 1 .. N PROVE f[n] = f[n - 1] + w[n]
    <3>1. f[n - 1] \in Nat
      BY <1>1, <2>3
    <3> QED
      BY <2>3, <3>1
  <2> HIDE DEF G
  <2>5. ASSUME NEW n \in 0 .. N PROVE f[n] = IF n = 0 THEN 0 ELSE f[n - 1] + w[n]
    <3>1. n # 0 => n \in 1 .. N
      BY <1>1
    <3> QED
      BY <2>3, <2>4, <3>1
  <2>6. f = Body(f)
    BY <2>3, <2>5
  <2> QED
    BY <2>6
<1>3. h = Body(h)
  <2> HIDE DEF Body
  <2> QED
    BY <1>2
<1>4. Total(w) = h[N]
  BY DEF Total, N
<1> HIDE DEF h
<1>5. h[0] = 0 /\ \A n \in 1 .. N : h[n] = h[n - 1] + w[n]
  BY <1>1, <1>3
<1> QED
  BY <1>4, <1>5 DEF N

LEMMA TotalLess ==
    ASSUME NEW v \in [Nodes -> Nat], NEW w \in [Nodes -> Nat], \A o \in Nodes : v[o] <= w[o]
    PROVE  /\ Total(v) \in Nat /\ Total(w) \in Nat /\ Total(v) <= Total(w)
           /\ (\E o \in Nodes : v[o] < w[o]) => Total(v) < Total(w)
<1> DEFINE N == Cardinality(Nodes)
<1>1. N \in Nat /\ Nodes = 1 .. N
  BY NodesAssumption, FS_CardinalityType
<1>2. PICK h : h[0] = 0 /\ Total(v) = h[N] /\ \A n \in 1 .. N : h[n] = h[n - 1] + v[n]
  BY TotalOf
<1>3. PICK k : k[0] = 0 /\ Total(w) = k[N] /\ \A n \in 1 .. N : k[n] = k[n - 1] + w[n]
  BY TotalOf
<1> HIDE DEF N
<1> DEFINE S == {n \in 0 .. N : /\ h[n] \in Nat /\ k[n] \in Nat /\ h[n] <= k[n]
                                /\ (\E o \in 1 .. n : v[o] < w[o]) => h[n] < k[n]}
<1>4. 0 \in S
  BY <1>1, <1>2, <1>3
<1>5. ASSUME NEW n \in 1 .. N, n - 1 \in S PROVE n \in S
  <2>1. /\ h[n - 1] \in Nat /\ k[n - 1] \in Nat /\ h[n - 1] <= k[n - 1]
        /\ (\E o \in 1 .. n - 1 : v[o] < w[o]) => h[n - 1] < k[n - 1]
    BY <1>5
  <2>2. v[n] \in Nat /\ w[n] \in Nat /\ v[n] <= w[n]
    BY <1>1
  <2>3. h[n] = h[n - 1] + v[n] /\ k[n] = k[n - 1] + w[n]
    BY <1>2, <1>3
  <2>4. ASSUME NEW o \in 1 .. n, v[o] < w[o] PROVE h[n] < k[n]
    <3>1. CASE o = n
      BY <2>1, <2>2, <2>3, <2>4, <3>1
    <3>2. CASE o # n
      <4>1. o \in 1 .. n - 1
        BY <1>1, <3>2
      <4>2. h[n - 1] < k[n - 1]
        BY <2>1, <2>4, <4>1
      <4> QED
        BY <2>1, <2>2, <2>3, <4>2
    <3> QED
      BY <3>1, <3>2
  <2>5. h[n] \in Nat /\ k[n] \in Nat /\ h[n] <= k[n]
    BY <2>1, <2>2, <2>3
  <2>6. n \in 0 .. N
    BY <1>1
  <2> QED
    BY <2>4, <2>5, <2>6
<1> HIDE DEF S
<1>6. N \in S
  <2>1. 0 .. N \subseteq S
    BY <1>1, <1>4, <1>5, UpTo
  <2> QED
    BY <1>1, <2>1
<1> QED
  BY <1>1, <1>2, <1>3, <1>6 DEF S

\* What a node in service may still fail, its removal included.
Serves(c, o) == \E id \in Ids : c.nodes[id] = o
Share(c, o) == IF Serves(c, o) THEN 1 + config.limit - c.node[o].errorCount ELSE 0
Shares(c) == [o \in Nodes |-> Share(c, o)]

LEMMA ShareTyped ==
    ASSUME NEW c, NEW O, Sound(c, O)
    PROVE  /\ Shares(c) \in [Nodes -> Nat]
           /\ \A o \in Nodes : Serves(c, o) => Share(c, o) >= 1
<1>1. c.node \in [Nodes -> NodeObject] /\ \A o \in Nodes : c.node[o].errorCount <= config.limit
  BY DEF Sound, Members
<1>2. config.limit \in Nat
  BY ConfigTyped DEF Sound
<1>3. ASSUME NEW o \in Nodes
      PROVE  /\ 1 + config.limit - c.node[o].errorCount \in Nat
             /\ 1 + config.limit - c.node[o].errorCount >= 1
  <2>1. c.node[o].errorCount \in Nat
    BY <1>1 DEF NodeObject
  <2> QED
    BY <1>1, <1>2, <2>1
<1>4. ASSUME NEW o \in Nodes PROVE Share(c, o) \in Nat /\ (Serves(c, o) => Share(c, o) >= 1)
  BY <1>3 DEF Share
<1> QED
  BY <1>4 DEF Shares

\* Nobody gains errors when ids leave, and a node that leaves has none left.
LEMMA WithoutShares ==
    ASSUME NEW c, NEW O, Sound(c, O), NEW id, NEW objects
    PROVE  LET d == Without(c, {id}, objects)
           IN  /\ \A o \in Nodes : Share(d, o) \in {0, Share(c, o)}
               /\ \A o \in Nodes : Serves(d, o) => c.node[o].id # id
<1> DEFINE d == Without(c, {id}, objects)
<1>1. /\ d.nodes = [i \in Ids |-> IF i \in {id} THEN None ELSE c.nodes[i]]
      /\ d.node = [o \in Nodes |-> IF o \in objects THEN [c.node[o] EXCEPT !.pool = "ended"]
                                   ELSE c.node[o]]
  BY DEF Without, clearFindCaches, Sound, Members
<1> HIDE DEF d
<1>2. /\ c.node \in [Nodes -> NodeObject]
      /\ \A i \in Ids : c.nodes[i] # None => c.node[c.nodes[i]].id = i
  BY DEF Sound, Members
<1>3. ASSUME NEW o \in Nodes PROVE d.node[o].errorCount = c.node[o].errorCount
  <2>1. c.node[o] \in NodeObject
    BY <1>2
  <2>2. [c.node[o] EXCEPT !.pool = "ended"].errorCount = c.node[o].errorCount
    BY <2>1, ObjectChange
  <2> QED
    BY <1>1, <2>2
<1>4. ASSUME NEW o \in Nodes, Serves(d, o) PROVE Serves(c, o) /\ c.node[o].id # id
  <2>1. PICK i \in Ids : d.nodes[i] = o
    BY <1>4 DEF Serves
  <2>2. i # id /\ c.nodes[i] = o
    BY <1>1, <2>1, NoneAssumption
  <2> QED
    BY <1>2, <2>2, NoneAssumption DEF Serves
<1>5. \A o \in Nodes : Share(d, o) \in {0, Share(c, o)}
  BY <1>3, <1>4 DEF Share
<1> QED
  BY <1>4, <1>5 DEF d

\* An error of a node in service uses up one of its errors, or all of them.
LEMMA increaseShares ==
    ASSUME NEW c, Sound(c, {}), NEW o \in Nodes, ~config.restore
    PROVE  LET d == increaseErrorCount(c, o)
           IN  /\ \A x \in Nodes : Share(d, x) <= Share(c, x)
               /\ Serves(c, o) => Share(d, o) < Share(c, o)
<1> DEFINE n == c.node[o].errorCount + 1
           k == IF n > config.limit THEN config.limit ELSE n
           counted == [c EXCEPT !.node[o].errorCount = k]
           one == [c.node[o] EXCEPT !.errorCount = k]
           id == counted.node[o].id
<1>1. /\ c.node \in [Nodes -> NodeObject] /\ c.node[o] \in NodeObject
      /\ config.limit \in Nat \ {0}
      /\ c.node[o].errorCount \in Nat /\ c.node[o].errorCount <= config.limit
      /\ DOMAIN c = {"nodes", "serviceable", "findCaches", "cursor", "node"}
      /\ \A i \in Ids : /\ c.nodes[i] # None <=> i \in ToSet(c.serviceable)
                        /\ c.nodes[i] # None => c.node[c.nodes[i]].id = i
  BY ConfigTyped DEF Sound, Members, NodeObject
<1>2. /\ one \in NodeObject /\ one.id = c.node[o].id /\ one.errorCount = k
      /\ k \in Nat /\ k <= config.limit /\ c.node[o].errorCount <= k
      /\ n < config.limit => k = c.node[o].errorCount + 1
  <2>1. /\ k \in Nat /\ k <= config.limit /\ c.node[o].errorCount <= k
        /\ n < config.limit => k = c.node[o].errorCount + 1
    BY <1>1
  <2> HIDE DEF k
  <2> QED
    BY <1>1, <2>1, ObjectChange
<1>3. /\ DOMAIN counted = DOMAIN c /\ counted.nodes = c.nodes /\ counted.serviceable = c.serviceable
      /\ counted.cursor = c.cursor /\ counted.findCaches = c.findCaches
      /\ counted.node = [c.node EXCEPT ![o] = one]
  BY <1>1
<1>4. increaseErrorCount(c, o) =
        IF n < config.limit THEN counted
        ELSE IF id \notin ToSet(counted.serviceable) THEN counted
        ELSE Without(counted, {id}, {o})
  BY DEF increaseErrorCount, removeNode
<1> HIDE DEF counted, one, k
<1>5. NodeChanged(counted, c, o, one)
  BY <1>2, <1>3 DEF NodeChanged
<1>6. Sound(counted, {} \union {o})
  BY <1>5, NodeChange
<1>7. counted.node[o] = one /\ \A x \in Nodes : x # o => counted.node[x] = c.node[x]
  BY <1>1, <1>3
<1>8. \A x \in Nodes : Serves(counted, x) <=> Serves(c, x)
  BY <1>3 DEF Serves
<1>9. \A x \in Nodes : x # o => Share(counted, x) = Share(c, x)
  BY <1>7, <1>8 DEF Share
<1>10. /\ Share(counted, o) <= Share(c, o)
       /\ Serves(c, o) /\ n < config.limit => Share(counted, o) < Share(c, o)
  BY <1>1, <1>2, <1>7, <1>8 DEF Share
<1>11. /\ Shares(c) \in [Nodes -> Nat] /\ Shares(counted) \in [Nodes -> Nat]
       /\ \A x \in Nodes : Serves(c, x) => Share(c, x) >= 1
  BY <1>6, ShareTyped
<1>12. \A x \in Nodes : Share(c, x) \in Nat /\ Share(counted, x) \in Nat
  BY <1>11 DEF Shares
<1>13. \A x \in Nodes : Share(counted, x) <= Share(c, x)
  BY <1>9, <1>10, <1>12
<1>14. CASE n < config.limit
  BY <1>4, <1>10, <1>13, <1>14
<1>15. CASE ~(n < config.limit) /\ id \notin ToSet(counted.serviceable)
  <2>1. ~Serves(c, o)
    BY <1>1, <1>2, <1>3, <1>7, <1>15, NoneAssumption DEF Serves
  <2> QED
    BY <1>4, <1>13, <1>15, <2>1
<1>16. CASE ~(n < config.limit) /\ id \in ToSet(counted.serviceable)
  <2> DEFINE d == Without(counted, {id}, {o})
  <2>1. increaseErrorCount(c, o) = d
    BY <1>4, <1>16
  <2>2. /\ \A x \in Nodes : Share(d, x) \in {0, Share(counted, x)}
        /\ \A x \in Nodes : Serves(d, x) => counted.node[x].id # id
    <3> HIDE DEF id
    <3> QED
      BY <1>6, WithoutShares
  <2> HIDE DEF d
  <2>3. \A x \in Nodes : Share(d, x) <= Share(c, x)
    BY <1>12, <1>13, <2>2
  <2>4. Share(d, o) = 0
    BY <2>2 DEF Share
  <2>5. Serves(c, o) => Share(d, o) < Share(c, o)
    BY <1>11, <1>12, <2>4
  <2> QED
    BY <2>1, <2>3, <2>5
<1> QED
  BY <1>14, <1>15, <1>16

InServiceIs ==
    /\ \A o \in Nodes : o \in InService <=> Serves(Cluster, o)
    /\ ErrorsLeft = Total(Shares(Cluster))

LEMMA InServiceOf == ClusterInv => InServiceIs
<1> SUFFICES ASSUME ClusterInv PROVE InServiceIs
  OBVIOUS
<1>1. /\ serviceable \in Seq(Ids)
      /\ \A id \in Ids : nodes[id] # None <=> id \in ToSet(serviceable)
  BY ClusterFields DEF ClusterInv, Sound, Members
<1>2. ToSet(serviceable) \subseteq Ids
  BY <1>1 DEF ToSet
<1>3. \A o \in Nodes : o \in InService <=> Serves(Cluster, o)
  BY <1>1, <1>2, ClusterFields, NoneAssumption DEF InService, Serves
<1>4. Shares(Cluster) =
        [o \in Nodes |-> IF o \in InService THEN 1 + config.limit - node[o].errorCount ELSE 0]
  BY <1>3, ClusterFields DEF Shares, Share
<1> QED
  BY <1>3, <1>4 DEF ErrorsLeft, InServiceIs

\* The node that is asked is in service afterwards, and the step forgets only
\* objects that are not.
LEMMA AskServes ==
    ASSUME NEW c, Sound(c, {}), ReqTyped, NEW r \in Reqs, Ask(c, r), config' = config,
           req'[r].at = "asked"
    PROVE  /\ ClusterInv' /\ req'[r].node \in Nodes /\ Serves(Cluster', req'[r].node)
           /\ \A o \in Nodes : Share(Cluster, o)' = Share(c, o)
<1>1. PICK id \in Ids : Usable(c, Wants[r].pattern, id) /\ Sends(c, r, c.nodes[id])
  BY AskStep
<1>2. req'[r].node = c.nodes[id]
  BY <1>1 DEF Sends, ReqTyped
<1>3. c.nodes[id] \in Nodes /\ Serves(Cluster', c.nodes[id])
  BY <1>1, ClusterFieldsNext DEF Usable, Serves, Sends
<1>4. ASSUME NEW o \in Nodes PROVE Share(Cluster, o)' = Share(c, o)
  BY <1>1, ClusterFieldsNext, NoneAssumption DEF Share, Serves, Sends
<1> QED
  BY <1>1, <1>2, <1>3, <1>4 DEF Sends

\* An error and the retry it leads to.
LEMMA RetryStep ==
    ASSUME ClusterInv, ReqTyped, NEW r \in Reqs, AnswerError(r), req'[r].at = "asked",
           ~config.restore
    PROVE  RetriesLeft(r)' < RetriesLeft(r)
<1> DEFINE p == Wants[r].pattern
           o == req[r].node
           c == increaseErrorCount(Cluster, o)
           looked == IF config.canRetry THEN Cached(c, p) ELSE c
<1>1. /\ req[r].at = "asked" /\ config' = config
      /\ \/ Ask(looked, r)
         \/ req' = [req EXCEPT ![r] = [at |-> "failed"]]
  BY DEF AnswerError
<1>2. Ask(looked, r)
  <2>1. ~(req' = [req EXCEPT ![r] = [at |-> "failed"]])
    BY DEF ReqTyped
  <2> HIDE DEF looked
  <2> QED
    BY <1>1, <2>1
<1>3. o \in Nodes
  BY <1>1 DEF ReqTyped
<1>4. p \in Patterns
  BY WantsAssumption DEF Patterns
<1> HIDE DEF p, o
<1>5. Sound(Cluster, {})
  BY DEF ClusterInv
<1>6. Sound(c, {})
  BY <1>3, <1>5, increaseSound
<1>7. /\ \A x \in Nodes : Share(c, x) <= Share(Cluster, x)
      /\ Serves(Cluster, o) => Share(c, o) < Share(Cluster, o)
  BY <1>3, <1>5, increaseShares
<1> HIDE DEF c
<1>8. Sound(looked, {}) /\ looked.nodes = c.nodes /\ looked.node = c.node
  BY <1>4, <1>6, CachedSound
<1> HIDE DEF looked
<1>9. /\ ClusterInv' /\ req'[r].node \in Nodes /\ Serves(Cluster', req'[r].node)
      /\ \A x \in Nodes : Share(Cluster, x)' = Share(looked, x)
  BY <1>1, <1>2, <1>8, AskServes
<1>10. \A x \in Nodes : Share(looked, x) = Share(c, x)
  BY <1>8 DEF Share, Serves
<1>11. InServiceIs /\ InServiceIs'
  <2>1. ClusterInv' => InServiceIs'
    BY InServiceOf, PTL
  <2> QED
    BY <1>9, <2>1, InServiceOf
<1>12. Shares(Cluster)' = Shares(looked)
  BY <1>9 DEF Shares
<1>13. ErrorsLeft = Total(Shares(Cluster)) /\ ErrorsLeft' = Total(Shares(looked))
  BY <1>11, <1>12 DEF InServiceIs
<1>14. req'[r].node \in InService' /\ (o \in InService <=> Serves(Cluster, o))
  BY <1>3, <1>9, <1>11 DEF InServiceIs, Serves
<1>15. /\ Shares(looked) \in [Nodes -> Nat] /\ Shares(Cluster) \in [Nodes -> Nat]
       /\ \A x \in Nodes : Shares(looked)[x] <= Shares(Cluster)[x]
       /\ Serves(Cluster, o) => Shares(looked)[o] < Shares(Cluster)[o]
  <2>1. Shares(looked) \in [Nodes -> Nat] /\ Shares(Cluster) \in [Nodes -> Nat]
    BY <1>5, <1>8, ShareTyped
  <2>2. \A x \in Nodes : Shares(looked)[x] = Share(c, x) /\ Shares(Cluster)[x] = Share(Cluster, x)
    BY <1>10 DEF Shares
  <2> QED
    BY <1>3, <1>7, <2>1, <2>2
<1>16. /\ ErrorsLeft \in Nat /\ ErrorsLeft' \in Nat /\ ErrorsLeft' <= ErrorsLeft
       /\ Serves(Cluster, o) => ErrorsLeft' < ErrorsLeft
  BY <1>3, <1>13, <1>15, TotalLess
<1> DEFINE E0 == ErrorsLeft
           E1 == ErrorsLeft'
           R0 == RetriesLeft(r)
           R1 == RetriesLeft(r)'
<1>17. R0 = IF o \in InService THEN E0 + 0 ELSE E0 + 1
  BY DEF RetriesLeft, o
<1>18. R1 = E1 + 0
  BY <1>14 DEF RetriesLeft
<1>19. E0 \in Nat /\ E1 \in Nat /\ E1 <= E0 /\ (o \in InService => E1 < E0)
  BY <1>14, <1>16
<1> HIDE DEF E0, E1, R0, R1
<1>20. R1 < R0
  BY <1>17, <1>18, <1>19
<1> QED
  BY <1>20 DEF R0, R1

\* For any number of nodes and any limit, without restoreNodeTimeout: each retry
\* brings the request nearer to its last (getConnection, _increaseErrorCount).
THEOREM RetryUsesUpHolds == Spec => RetryUsesUp
<1>1. ClusterAll /\ [Next]_vars =>
        [\A r \in Reqs :
           AnswerError(r) /\ req'[r].at = "asked" /\ ~config.restore
             => RetriesLeft(r)' < RetriesLeft(r)]_vars
  BY RetryStep DEF ClusterAll
<1> QED
  BY <1>1, AllHolds, PTL DEF Spec, RetryUsesUp

=============================================================================
