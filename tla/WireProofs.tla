----------------------------- MODULE WireProofs -----------------------------
(***************************************************************************)
(* Machine-checked proofs about the way of packets, for any payloads, cut  *)
(* anywhere, any sizes of bytes and sequence ids, any writes and failures. *)
(*                                                                         *)
(* A stream is described frame by frame (`Described').  A parser is At(x)  *)
(* when it stands where the first x bytes lead: k packets and j frames of  *)
(* the next one are complete, and r bytes of the frame that follows, in    *)
(* whatever method of the parser waits for the rest.  A chunk from x to y  *)
(* takes a parser that is At(x) to one that is At(y) (`ExecuteAt').  What  *)
(* waits to be inflated lies between parser and pos (`Cutting').           *)
(***************************************************************************)
EXTENDS Wire, WellFoundedInduction, SequenceTheorems, FiniteSetTheorems, TLAPS

-----------------------------------------------------------------------------
\* Induction and recursion.

LEMMA Least == ASSUME NEW T, T \subseteq Nat, T # {} PROVE \E n \in T : \A m \in T : n <= m
<1> DEFINE R == {ss \in Nat \X Nat : ss[1] < ss[2]}
<1>1. IsWellFoundedOn(R, Nat)
  BY NatLessThanWellFounded DEF OpToRel
<1> HIDE DEF R
<1>2. PICK n \in T : \A m \in T : ~(<<m, n>> \in R)
  BY <1>1, WFMin
<1>3. \A m \in T : n <= m
  <2> SUFFICES ASSUME NEW m \in T, m < n PROVE FALSE
    OBVIOUS
  <2>1. <<m, n>> \in R
    BY DEF R
  <2> QED
    BY <1>2, <2>1
<1> QED
  BY <1>3

LEMMA UpTo ==
    ASSUME NEW N \in Nat, NEW S, 0 \in S, \A n \in 1 .. N : n - 1 \in S => n \in S
    PROVE  0 .. N \subseteq S
<1> DEFINE T == (0 .. N) \ S
<1> SUFFICES ASSUME T # {} PROVE FALSE
  OBVIOUS
<1>1. PICK n \in T : \A m \in T : n <= m
  <2>1. T \subseteq Nat
    OBVIOUS
  <2> HIDE DEF T
  <2> QED
    BY <2>1, Least
<1>2. n \in 1 .. N /\ n - 1 \in 0 .. N
  OBVIOUS
<1>3. n - 1 \notin T
  BY <1>1, <1>2
<1> QED
  BY <1>2, <1>3

\* A function may be defined by what it makes of its value one number earlier.
Recurrence(N, X, a, G) == N \in Nat /\ a \in X /\ G \in [(1 .. N) \X X -> X]
Solves(f, N, X, a, G) ==
    f \in [0 .. N -> X] /\ f[0] = a /\ \A n \in 1 .. N : f[n] = G[<<n, f[n - 1]>>]

LEMMA Recursion ==
    ASSUME NEW N, NEW X, NEW a, NEW G, Recurrence(N, X, a, G)
    PROVE  \E f : Solves(f, N, X, a, G)
<1>0. N \in Nat /\ a \in X /\ G \in [(1 .. N) \X X -> X]
  BY DEF Recurrence
<1> DEFINE Approx(k, f) == /\ f \in [0 .. k -> X] /\ f[0] = a
                           /\ \A n \in 1 .. k : f[n] = G[<<n, f[n - 1]>>]
           S == {k \in 0 .. N : \E f \in [0 .. k -> X] : Approx(k, f)}
<1>1. 0 \in S
  <2> DEFINE f == [n \in 0 .. 0 |-> a]
  <2>1. f \in [0 .. 0 -> X] /\ Approx(0, f) /\ 0 \in 0 .. N
    BY <1>0
  <2> HIDE DEF f, Approx
  <2> QED
    BY <2>1
<1>2. ASSUME NEW k \in 1 .. N, k - 1 \in S PROVE k \in S
  <2>1. PICK f \in [0 .. k - 1 -> X] : Approx(k - 1, f)
    BY <1>2
  <2> DEFINE g == [n \in 0 .. k |-> IF n = k THEN G[<<n, f[n - 1]>>] ELSE f[n]]
  <2>2. k - 1 \in 0 .. k - 1 /\ f[k - 1] \in X
    BY <1>0
  <2>3. G[<<k, f[k - 1]>>] \in X
    BY <1>0, <2>2
  <2>4. g \in [0 .. k -> X]
    <3> SUFFICES ASSUME NEW n \in 0 .. k PROVE (IF n = k THEN G[<<n, f[n - 1]>>] ELSE f[n]) \in X
      OBVIOUS
    <3>1. n # k => n \in 0 .. k - 1
      BY <1>0
    <3> QED
      BY <2>3, <3>1
  <2>5. g[0] = a
    BY <1>0, <2>1
  <2>6. ASSUME NEW n \in 1 .. k PROVE g[n] = G[<<n, g[n - 1]>>]
    <3>1. n - 1 \in 0 .. k /\ n - 1 # k /\ n \in 0 .. k
      BY <1>0
    <3>4. g[n - 1] = f[n - 1]
      BY <3>1
    <3>2. CASE n = k
      <4>1. g[n] = G[<<n, f[n - 1]>>]
        BY <3>1, <3>2
      <4> HIDE DEF g
      <4> QED
        BY <3>4, <4>1
    <3>3. CASE n # k
      <4>1. n \in 1 .. k - 1 /\ g[n] = f[n]
        BY <1>0, <3>3
      <4> QED
        BY <2>1, <3>4, <4>1
    <3> QED
      BY <3>2, <3>3
  <2> HIDE DEF g
  <2> QED
    BY <2>4, <2>5, <2>6
<1>3. N \in S
  <2> HIDE DEF S
  <2>1. 0 .. N \subseteq S
    BY <1>0, <1>1, <1>2, UpTo
  <2> QED
    BY <1>0, <2>1
<1> QED
  BY <1>3 DEF Solves

-----------------------------------------------------------------------------
\* Sequences: slices, and what Concat adds up.

\* What `Concat' adds up over the parts of a sequence.
Added(parts, ofs) ==
    /\ ofs \in [0 .. Len(parts) -> Nat] /\ ofs[0] = 0
    /\ \A n \in 1 .. Len(parts) : ofs[n] = ofs[n - 1] + Len(parts[n])

LEMMA ConcatSteps ==
    ASSUME NEW T, NEW parts \in Seq(Seq(T))
    PROVE  \E f \in [0 .. Len(parts) -> Seq(T)] :
              /\ f[0] = <<>> /\ \A n \in 1 .. Len(parts) : f[n] = f[n - 1] \o parts[n]
              /\ Concat(parts) = f[Len(parts)]
<1> DEFINE N == Len(parts)
           X == Seq(T)
           G == [m \in (1 .. N) \X X |-> m[2] \o parts[m[1]]]
           Body0(g) == [n \in 0 .. N |-> IF n = 0 THEN <<>> ELSE g[n - 1] \o parts[n]]
           h == CHOOSE g : g = Body0(g)
<1>1. N \in Nat /\ \A i \in 1 .. N : parts[i] \in X
  OBVIOUS
<1>2. \E g : g = Body0(g)
  <2>1. G \in [(1 .. N) \X X -> X]
    <3> SUFFICES ASSUME NEW n \in 1 .. N, NEW s \in X PROVE s \o parts[n] \in X
      OBVIOUS
    <3>1. parts[n] \in X
      BY <1>1
    <3> QED
      BY <3>1, ConcatProperties
  <2>2. PICK f : Solves(f, N, X, <<>>, G)
    <3>1. <<>> \in X
      OBVIOUS
    <3> HIDE DEF G, N, X
    <3>2. Recurrence(N, X, <<>>, G)
      BY <1>1, <2>1, <3>1 DEF Recurrence
    <3> QED
      BY <3>2, Recursion
  <2>3. f \in [0 .. N -> X] /\ f[0] = <<>> /\ \A n \in 1 .. N : f[n] = G[<<n, f[n - 1]>>]
    BY <2>2 DEF Solves
  <2>4. ASSUME NEW n \in 1 .. N PROVE f[n] = f[n - 1] \o parts[n]
    <3>0. N \in Nat /\ f \in [0 .. N -> X]
      BY <1>1, <2>3
    <3>1. n - 1 \in 0 .. N /\ f[n - 1] \in X
      <4> HIDE DEF G, N, X
      <4> QED
        BY <3>0
    <3>2. <<n, f[n - 1]>> \in (1 .. N) \X X
      BY <3>1
    <3>3. G[<<n, f[n - 1]>>] = f[n - 1] \o parts[n]
      BY <3>2
    <3> QED
      BY <2>3, <3>3
  <2>5. f = Body0(f)
    <3>1. \A i \in 0 .. N : i # 0 => i \in 1 .. N
      BY <1>1
    <3> HIDE DEF G, N, X
    <3> QED
      BY <2>3, <2>4, <3>1
  <2> QED
    BY <2>5
<1>3. h = Body0(h)
  <2> HIDE DEF Body0
  <2> QED
    BY <1>2
<1> HIDE DEF h
<1>4. h[0] = <<>> /\ \A n \in 1 .. N : h[n] = h[n - 1] \o parts[n]
  <2>1. 0 \in 0 .. N /\ \A n \in 1 .. N : n \in 0 .. N /\ n # 0
    BY <1>1
  <2> HIDE DEF N
  <2> QED
    BY <1>3, <2>1
<1>5. h \in [0 .. N -> X]
  <2> DEFINE S == {n \in 0 .. N : h[n] \in X}
  <2>1. 0 \in S
    <3>1. 0 \in 0 .. N /\ h[0] \in X
      BY <1>1, <1>4
    <3> QED
      BY <3>1
  <2>2. ASSUME NEW n \in 1 .. N, n - 1 \in S PROVE n \in S
    <3>1. n \in 0 .. N /\ h[n - 1] \in X /\ parts[n] \in X
      BY <1>1, <2>2
    <3>2. h[n - 1] \o parts[n] \in X
      BY <3>1, ConcatProperties
    <3> QED
      BY <1>4, <3>1, <3>2
  <2>3. \A n \in 0 .. N : h[n] \in X
    <3> HIDE DEF S
    <3>1. 0 .. N \subseteq S
      BY <1>1, <2>1, <2>2, UpTo
    <3> QED
      BY <3>1 DEF S
  <2> HIDE DEF N, X
  <2>4. DOMAIN h = 0 .. N /\ h = [n \in 0 .. N |-> h[n]]
    BY <1>3
  <2> QED
    BY <2>3, <2>4
<1>6. Concat(parts) = h[N]
  BY DEF Concat, h
<1> QED
  BY <1>4, <1>5, <1>6

\* A slice of a slice, of a concatenation, and of adjacent slices.
LEMMA FunctionIsSeq ==
    ASSUME NEW T, NEW N \in Nat, NEW f \in [1 .. N -> T] PROVE f \in Seq(T) /\ Len(f) = N
  OBVIOUS

LEMMA SliceOfFirst ==
    ASSUME NEW T, NEW s \in Seq(T), NEW t \in Seq(T), NEW i \in Nat, NEW j \in 0 .. Len(s), 1 <= i
    PROVE  SubSeq(s \o t, i, j) = SubSeq(s, i, j)
<1>1. CASE i <= j
  <2>1. i \in 1 .. Len(s) /\ j \in 1 .. Len(s)
    BY <1>1
  <2> QED
    BY <2>1, SubSeqOfConcat1
<1>2. CASE ~(i <= j)
  BY <1>2, SubSeqEmpty
<1> QED
  BY <1>1, <1>2

LEMMA HeadOfFirst ==
    ASSUME NEW T, NEW s \in Seq(T), NEW t \in Seq(T), NEW j \in 0 .. Len(s)
    PROVE  SubSeq(s \o t, 1, j) = SubSeq(s, 1, j)
<1>1. 1 \in Nat /\ 1 <= 1
  OBVIOUS
<1> QED
  BY <1>1, SliceOfFirst

LEMMA Joined ==
    ASSUME NEW T, NEW s \in Seq(T), NEW t \in Seq(T)
    PROVE  /\ s \o t \in Seq(T) /\ Len(s \o t) = Len(s) + Len(t)
           /\ \A i \in 1 .. Len(s) : (s \o t)[i] = s[i]
           /\ \A i \in 1 .. Len(t) : (s \o t)[Len(s) + i] = t[i]
<1>0. Len(s) \in Nat /\ Len(t) \in Nat
  BY LenProperties
<1>1. /\ s \o t \in Seq(T) /\ Len(s \o t) = Len(s) + Len(t)
      /\ \A i \in 1 .. Len(s) + Len(t) : (s \o t)[i] = IF i <= Len(s) THEN s[i] ELSE t[i - Len(s)]
  BY ConcatProperties
<1>2. ASSUME NEW i \in 1 .. Len(s) PROVE (s \o t)[i] = s[i]
  <2>1. i \in 1 .. Len(s) + Len(t) /\ i <= Len(s)
    BY <1>0
  <2> QED
    BY <1>1, <2>1
<1>3. ASSUME NEW i \in 1 .. Len(t) PROVE (s \o t)[Len(s) + i] = t[i]
  <2>1. Len(s) + i \in 1 .. Len(s) + Len(t) /\ ~(Len(s) + i <= Len(s)) /\ (Len(s) + i) - Len(s) = i
    BY <1>0
  <2>2. (s \o t)[Len(s) + i] = t[(Len(s) + i) - Len(s)]
    BY <1>1, <2>1
  <2> QED
    BY <2>1, <2>2
<1> QED
  BY <1>1, <1>2, <1>3

LEMMA SliceOfSecond ==
    ASSUME NEW T, NEW s \in Seq(T), NEW t \in Seq(T)
    PROVE  SubSeq(s \o t, Len(s) + 1, Len(s) + Len(t)) = t
<1>0. Len(s) \in Nat /\ Len(t) \in Nat
  BY LenProperties
<1>1. CASE Len(t) > 0
  <2>1. Len(s) + 1 \in Len(s) + 1 .. Len(s) + Len(t) /\ Len(s) + Len(t) \in Len(s) + 1 .. Len(s) + Len(t)
    BY <1>0, <1>1
  <2>2. SubSeq(s \o t, Len(s) + 1, Len(s) + Len(t))
          = SubSeq(t, Len(s) + 1 - Len(s), Len(s) + Len(t) - Len(s))
    BY <2>1, SubSeqOfConcat2
  <2>3. Len(s) + 1 - Len(s) = 1 /\ Len(s) + Len(t) - Len(s) = Len(t)
    BY <1>0
  <2> QED
    BY <2>2, <2>3, SubSeqFull
<1>2. CASE Len(t) = 0
  <2>1. SubSeq(s \o t, Len(s) + 1, Len(s) + Len(t)) = <<>>
    BY <1>0, <1>2, SubSeqEmpty
  <2>2. t = <<>>
    BY <1>2, EmptySeq
  <2> QED
    BY <2>1, <2>2
<1> QED
  BY <1>0, <1>1, <1>2

LEMMA SliceOfSlice ==
    ASSUME NEW T, NEW s \in Seq(T), NEW a \in Nat, NEW b \in Nat, a + b <= Len(s),
           NEW m \in Nat, 1 <= m, NEW n \in 0 .. b
    PROVE  SubSeq(SubSeq(s, a + 1, a + b), m, n) = SubSeq(s, a + m, a + n)
<1>0. Len(s) \in Nat
  BY LenProperties
<1>1. CASE m <= n
  <2>1. /\ a + 1 \in 1 .. Len(s) /\ a + b \in 1 .. Len(s)
        /\ m \in 1 .. (a + b) - (a + 1) + 1 /\ n \in 1 .. (a + b) - (a + 1) + 1
    BY <1>0, <1>1
  <2>2. SubSeq(SubSeq(s, a + 1, a + b), m, n) = SubSeq(s, (a + 1) + m - 1, (a + 1) + n - 1)
    BY <1>0, <1>1, <2>1, SubSeqOfSubSeq
  <2>3. (a + 1) + m - 1 = a + m /\ (a + 1) + n - 1 = a + n
    OBVIOUS
  <2> QED
    BY <2>2, <2>3
<1>2. CASE ~(m <= n)
  <2>1. SubSeq(SubSeq(s, a + 1, a + b), m, n) = <<>> /\ SubSeq(s, a + m, a + n) = <<>>
    BY <1>2, SubSeqEmpty
  <2> QED
    BY <2>1
<1> QED
  BY <1>1, <1>2

LEMMA SliceIs ==
    ASSUME NEW T, NEW s \in Seq(T), NEW a \in Nat, NEW b \in Nat, a + b <= Len(s)
    PROVE  /\ SubSeq(s, a + 1, a + b) \in Seq(T) /\ Len(SubSeq(s, a + 1, a + b)) = b
           /\ \A i \in 1 .. b : SubSeq(s, a + 1, a + b)[i] = s[a + i]
<1>0. Len(s) \in Nat /\ \A i \in 1 .. Len(s) : s[i] \in T
  BY LenProperties, ElementOfSeq
<1>1. a + 1 \in Int /\ a + b \in Int /\ \A i \in a + 1 .. a + b : s[i] \in T
  BY <1>0
<1>2. /\ SubSeq(s, a + 1, a + b) \in Seq(T)
      /\ Len(SubSeq(s, a + 1, a + b)) = IF a + 1 <= a + b THEN (a + b) - (a + 1) + 1 ELSE 0
      /\ \A i \in 1 .. (a + b) - (a + 1) + 1 : SubSeq(s, a + 1, a + b)[i] = s[(a + 1) + i - 1]
  BY <1>1, SubSeqProperties
<1>3. /\ (a + b) - (a + 1) + 1 = b
      /\ \A i \in 1 .. b : (a + 1) + i - 1 = a + i
  OBVIOUS
<1>4. Len(SubSeq(s, a + 1, a + b)) = b
  BY <1>2
<1> QED
  BY <1>2, <1>3, <1>4

LEMMA SlicesJoin ==
    ASSUME NEW T, NEW s \in Seq(T), NEW a \in Nat, NEW b \in Nat, NEW c \in Nat, a <= b, b <= c, c <= Len(s)
    PROVE  SubSeq(s, a + 1, b) \o SubSeq(s, b + 1, c) = SubSeq(s, a + 1, c)
<1>0. Len(s) \in Nat
  BY LenProperties
<1>1. a + 1 \in 1 .. Len(s) + 1 /\ b \in (a + 1) - 1 .. Len(s) /\ c \in b .. Len(s)
  BY <1>0
<1> QED
  BY <1>1, ConcatAdjacentSubSeq

LEMMA HeadSlicesJoin ==
    ASSUME NEW T, NEW s \in Seq(T), NEW b \in Nat, NEW c \in Nat, b <= c, c <= Len(s)
    PROVE  SubSeq(s, 1, b) \o SubSeq(s, b + 1, c) = SubSeq(s, 1, c)
<1>0. Len(s) \in Nat
  BY LenProperties
<1>1. 1 \in 1 .. Len(s) + 1 /\ b \in 1 - 1 .. Len(s) /\ c \in b .. Len(s)
  BY <1>0
<1> QED
  BY <1>1, ConcatAdjacentSubSeq

\* Each part is a slice of their concatenation.
LEMMA ConcatParts ==
    ASSUME NEW T, NEW parts \in Seq(Seq(T)), NEW ofs, Added(parts, ofs)
    PROVE  /\ Concat(parts) \in Seq(T) /\ Len(Concat(parts)) = ofs[Len(parts)]
           /\ \A n \in 1 .. Len(parts) : /\ ofs[n] <= ofs[Len(parts)]
                                         /\ SubSeq(Concat(parts), ofs[n - 1] + 1, ofs[n]) = parts[n]
<1> DEFINE N == Len(parts)
<1>0. N \in Nat /\ \A i \in 1 .. N : parts[i] \in Seq(T)
  OBVIOUS
<1>1. PICK f \in [0 .. N -> Seq(T)] :
         /\ f[0] = <<>> /\ \A n \in 1 .. N : f[n] = f[n - 1] \o parts[n]
         /\ Concat(parts) = f[N]
  BY ConcatSteps
<1>2. ofs \in [0 .. N -> Nat] /\ ofs[0] = 0 /\ \A n \in 1 .. N : ofs[n] = ofs[n - 1] + Len(parts[n])
  BY DEF Added
<1> DEFINE Cut(n) == /\ Len(f[n]) = ofs[n]
                     /\ \A k \in 1 .. n : ofs[k] <= ofs[n] /\ SubSeq(f[n], ofs[k - 1] + 1, ofs[k]) = parts[k]
           S == {n \in 0 .. N : Cut(n)}
<1> HIDE DEF N
<1>3. 0 \in S
  BY <1>0, <1>1, <1>2
<1>4. ASSUME NEW n \in 1 .. N, n - 1 \in S PROVE n \in S
  <2>1. n \in 0 .. N /\ n - 1 \in 0 .. N /\ n \in Nat /\ Cut(n - 1)
    BY <1>0, <1>4
  <2>2. f[n - 1] \in Seq(T) /\ parts[n] \in Seq(T) /\ f[n] = f[n - 1] \o parts[n]
    BY <1>0, <1>1, <2>1
  <2>3. Len(f[n]) = Len(f[n - 1]) + Len(parts[n]) /\ Len(parts[n]) \in Nat /\ Len(f[n - 1]) \in Nat
    BY <2>2, ConcatProperties, LenProperties
  <2>4. ofs[n] = ofs[n - 1] + Len(parts[n]) /\ ofs[n - 1] = Len(f[n - 1]) /\ ofs[n] = Len(f[n])
    BY <1>2, <2>1, <2>3
  <2>5. SubSeq(f[n], ofs[n - 1] + 1, ofs[n]) = parts[n]
    <3> HIDE DEF Cut, S
    <3>1. SubSeq(f[n - 1] \o parts[n], Len(f[n - 1]) + 1, Len(f[n - 1]) + Len(parts[n])) = parts[n]
      BY <2>2, SliceOfSecond
    <3> QED
      BY <2>2, <2>3, <2>4, <3>1
  <2>6. ASSUME NEW k \in 1 .. n - 1
        PROVE  ofs[k] <= ofs[n] /\ SubSeq(f[n], ofs[k - 1] + 1, ofs[k]) = parts[k]
    <3>1. ofs[k] <= ofs[n - 1] /\ SubSeq(f[n - 1], ofs[k - 1] + 1, ofs[k]) = parts[k]
      BY <2>1
    <3>2. k \in 0 .. N /\ k - 1 \in 0 .. N /\ k \in 1 .. N
      BY <1>0, <2>1
    <3>3. ofs[k] \in Nat /\ ofs[k - 1] \in Nat /\ ofs[n - 1] \in Nat
      BY <1>2, <2>1, <3>2
    <3> HIDE DEF Cut, S
    <3>4. ofs[k - 1] + 1 \in Nat /\ 1 <= ofs[k - 1] + 1
      BY <3>3
    <3>6. ofs[k] \in 0 .. Len(f[n - 1])
      <4> DEFINE u == ofs[k]
                 w == ofs[n - 1]
      <4>1. u \in Nat /\ w \in Nat /\ u <= w /\ w = Len(f[n - 1])
        BY <2>4, <3>1, <3>3
      <4> HIDE DEF u, w
      <4>2. u \in 0 .. w
        BY <4>1
      <4> QED
        BY <4>1, <4>2 DEF u, w
    <3>5. SubSeq(f[n - 1] \o parts[n], ofs[k - 1] + 1, ofs[k]) = SubSeq(f[n - 1], ofs[k - 1] + 1, ofs[k])
      BY <2>2, <3>4, <3>6, SliceOfFirst
    <3>7. SubSeq(f[n], ofs[k - 1] + 1, ofs[k]) = parts[k]
      BY <2>2, <3>1, <3>5
    <3>8. ofs[k] <= ofs[n]
      <4>1. ofs[n - 1] <= ofs[n] /\ ofs[n] \in Nat
        <5>1. ofs[n] = ofs[n - 1] + Len(parts[n]) /\ ofs[n - 1] \in Nat /\ Len(parts[n]) \in Nat
          BY <2>3, <2>4, <3>3
        <5> QED
          BY <5>1
      <4> QED
        BY <3>1, <3>3, <4>1
    <3> QED
      BY <3>7, <3>8
  <2>7. \A k \in 1 .. n : k = n \/ k \in 1 .. n - 1
    BY <2>1
  <2>8. ofs[n] <= ofs[n]
    BY <2>3, <2>4
  <2>9. Cut(n)
    BY <2>4, <2>5, <2>6, <2>7, <2>8
  <2> QED
    BY <2>1, <2>9
<1>5. Cut(N)
  <2> HIDE DEF Cut, S
  <2>1. 0 .. N \subseteq S
    BY <1>0, <1>3, <1>4, UpTo
  <2> QED
    BY <1>0, <2>1 DEF S
<1> QED
  BY <1>0, <1>1, <1>5 DEF N

\* The slices of a sequence make the sequence again.
Cuts(T, s, N, ofs, parts) ==
    /\ s \in Seq(T) /\ N \in Nat
    /\ ofs \in [0 .. N -> Nat] /\ ofs[0] = 0 /\ ofs[N] = Len(s)
    /\ \A n \in 1 .. N : ofs[n - 1] <= ofs[n] /\ ofs[n] <= Len(s)
    /\ parts \in [1 .. N -> Seq(T)]
    /\ \A n \in 1 .. N : parts[n] = SubSeq(s, ofs[n - 1] + 1, ofs[n])

LEMMA ConcatSlices ==
    ASSUME NEW T, NEW s, NEW N, NEW ofs, NEW parts, Cuts(T, s, N, ofs, parts)
    PROVE  Concat(parts) = s
<1>1. /\ s \in Seq(T) /\ N \in Nat
      /\ ofs \in [0 .. N -> Nat] /\ ofs[0] = 0 /\ ofs[N] = Len(s)
      /\ \A n \in 1 .. N : ofs[n - 1] <= ofs[n] /\ ofs[n] <= Len(s)
      /\ parts \in [1 .. N -> Seq(T)]
      /\ \A n \in 1 .. N : parts[n] = SubSeq(s, ofs[n - 1] + 1, ofs[n])
  BY DEF Cuts
<1>2. parts \in Seq(Seq(T)) /\ Len(parts) = N
  BY <1>1, FunctionIsSeq
<1>3. PICK f \in [0 .. N -> Seq(T)] :
         /\ f[0] = <<>> /\ \A n \in 1 .. N : f[n] = f[n - 1] \o parts[n]
         /\ Concat(parts) = f[N]
  <2>1. \E f \in [0 .. Len(parts) -> Seq(T)] :
           /\ f[0] = <<>> /\ \A n \in 1 .. Len(parts) : f[n] = f[n - 1] \o parts[n]
           /\ Concat(parts) = f[Len(parts)]
    BY <1>2, ConcatSteps
  <2> QED
    BY <1>2, <2>1
<1> DEFINE S == {n \in 0 .. N : f[n] = SubSeq(s, 1, ofs[n])}
<1>4. 0 \in S
  <2>1. SubSeq(s, 1, 0) = <<>>
    BY SubSeqEmpty
  <2> QED
    BY <1>1, <1>3, <2>1
<1>5. ASSUME NEW n \in 1 .. N, n - 1 \in S PROVE n \in S
  <2>1. n - 1 \in 0 .. N /\ n \in 0 .. N /\ f[n - 1] = SubSeq(s, 1, ofs[n - 1])
    BY <1>1, <1>5
  <2>2. ofs[n - 1] \in Nat /\ ofs[n] \in Nat /\ ofs[n - 1] <= ofs[n] /\ ofs[n] <= Len(s)
    BY <1>1, <2>1
  <2>3. SubSeq(s, 1, ofs[n - 1]) \o SubSeq(s, ofs[n - 1] + 1, ofs[n]) = SubSeq(s, 1, ofs[n])
    BY <1>1, <2>2, HeadSlicesJoin
  <2>4. f[n] = SubSeq(s, 1, ofs[n])
    BY <1>1, <1>3, <2>1, <2>3
  <2> QED
    BY <2>1, <2>4
<1>6. f[N] = SubSeq(s, 1, ofs[N])
  <2> HIDE DEF S
  <2>1. 0 .. N \subseteq S
    BY <1>1, <1>4, <1>5, UpTo
  <2> QED
    BY <1>1, <2>1 DEF S
<1> QED
  BY <1>1, <1>2, <1>3, <1>6, SubSeqFull

-----------------------------------------------------------------------------
\* Numbers: division, and the three bytes of a length.

LEMMA BaseFacts == BYTE \in Nat /\ BYTE > 1 /\ SEQ \in Nat /\ SEQ > 1
  BY ConstantsAssumption

LEMMA DivMod == ASSUME NEW n \in Nat, NEW d \in Nat, d > 0
                PROVE  /\ n \div d \in Nat /\ n % d \in Nat /\ n % d < d
                       /\ n = d * (n \div d) + (n % d)
  OBVIOUS

LEMMA DivUnique ==
    ASSUME NEW d \in Nat, d > 0, NEW q \in Nat, NEW r \in Nat, r < d, NEW n, n = d * q + r
    PROVE  n \div d = q /\ n % d = r
<1>0. n \in Nat
  OBVIOUS
<1>1. PICK qq \in Nat, rr \in Nat : qq = n \div d /\ rr = n % d
  BY <1>0, DivMod
<1>2. rr < d /\ d * q + r = d * qq + rr
  BY <1>0, <1>1, DivMod
<1>3. CASE q < qq
  <2>1. PICK x \in Nat : qq = q + 1 + x
    <3>1. qq - q - 1 \in Nat
      BY <1>3
    <3> QED
      BY <3>1
  <2>2. d * qq = d * q + d + d * x /\ d * x \in Nat /\ d * q \in Nat
    BY <2>1
  <2> QED
    BY <1>2, <2>2
<1>4. CASE qq < q
  <2>1. PICK x \in Nat : q = qq + 1 + x
    <3>1. q - qq - 1 \in Nat
      BY <1>4
    <3> QED
      BY <3>1
  <2>2. d * q = d * qq + d + d * x /\ d * x \in Nat /\ d * qq \in Nat
    BY <2>1
  <2> QED
    BY <1>2, <2>2
<1>5. CASE q = qq
  BY <1>1, <1>2, <1>5
<1> QED
  BY <1>3, <1>4, <1>5

\* The three bytes of a length are the length again.
LEMMA LengthOfBytes ==
    ASSUME NEW n \in Nat
    PROVE  LET x == n % BYTE
               y == (n \div BYTE) % BYTE
               z == n \div (BYTE * BYTE)
           IN  /\ x \in Nat /\ y \in Nat /\ z \in Nat
               /\ n = x + y * BYTE + z * BYTE * BYTE
               /\ y + z = 0 => n = x
<1> DEFINE B == BYTE
           x == n % B
           u == n \div B
           y == u % B
           v == u \div B
           z == n \div (B * B)
<1>0. B \in Nat /\ B > 1
  BY BaseFacts
<1> HIDE DEF B
<1>1. u \in Nat /\ x \in Nat /\ x < B /\ n = B * u + x
  BY <1>0, DivMod
<1>2. v \in Nat /\ y \in Nat /\ y < B /\ u = B * v + y
  BY <1>0, <1>1, DivMod
<1> HIDE DEF x, u, y, v
<1>3. B * B \in Nat /\ B * B > 0
  BY <1>0
<1>4. n = (B * B) * v + (B * y + x)
  <2>1. n = B * (B * v + y) + x
    BY <1>1, <1>2
  <2> QED
    BY <1>0, <1>1, <1>2, <2>1
<1>5. B * y + x \in Nat /\ B * y + x < B * B
  <2>1. PICK w \in Nat : B = y + 1 + w
    <3>1. B - y - 1 \in Nat
      BY <1>0, <1>2
    <3> QED
      BY <1>0, <1>2, <3>1
  <2>2. B * B = B * y + B + B * w /\ B * w \in Nat /\ B * y \in Nat
    BY <1>0, <1>2, <2>1
  <2> QED
    BY <1>0, <1>1, <2>2
<1>6. z = v
  <2> DEFINE d == B * B
             r == B * y + x
  <2>1. d \in Nat /\ d > 0 /\ r \in Nat /\ r < d /\ n = d * v + r
    BY <1>3, <1>4, <1>5
  <2> HIDE DEF d, r
  <2>2. n \div d = v
    BY <1>2, <2>1, DivUnique
  <2> QED
    BY <2>2 DEF d
<1> HIDE DEF z
<1>7. n = x + y * B + z * B * B
  BY <1>0, <1>1, <1>2, <1>4, <1>6
<1>8. y + z = 0 => n = x
  <2>1. ASSUME y + z = 0 PROVE y = 0 /\ z = 0
    BY <1>2, <1>6, <2>1
  <2> QED
    BY <1>0, <1>1, <1>7, <2>1
<1>9. x \in Nat /\ y \in Nat /\ z \in Nat
  BY <1>1, <1>2, <1>6
<1> QED
  BY <1>7, <1>8, <1>9 DEF B, x, u, y, v, z

\* What the parser reads of a header that is in the chunk.
LEMMA LengthIsRead ==
    ASSUME NEW n \in Nat, NEW b, NEW off \in Nat,
           b[off + 1] = LengthBytes(n)[1], b[off + 2] = LengthBytes(n)[2], b[off + 3] = LengthBytes(n)[3]
    PROVE  readPacketLength(b, off) = n
<1> DEFINE x == n % BYTE
           y == (n \div BYTE) % BYTE
           z == n \div (BYTE * BYTE)
<1>1. LengthBytes(n) = <<x, y, z>>
  BY DEF LengthBytes
<1>2. b[off + 1] = x /\ b[off + 2] = y /\ b[off + 3] = z
  BY <1>1
<1>3. /\ x \in Nat /\ y \in Nat /\ z \in Nat
      /\ n = x + y * BYTE + z * BYTE * BYTE
      /\ y + z = 0 => n = x
  BY LengthOfBytes
<1>4. readPacketLength(b, off) = IF y + z = 0 THEN x ELSE x + y * BYTE + z * BYTE * BYTE
  BY <1>2 DEF readPacketLength
<1> HIDE DEF x, y, z
<1> QED
  BY <1>3, <1>4

\* A payload of the largest size is followed by another packet.
Full == MAX_PACKET_LENGTH

LEMMA FullFacts == Full \in Nat /\ Full > 0
<1> DEFINE B == BYTE
<1>1. B \in Nat /\ B > 1
  BY BaseFacts
<1> HIDE DEF B
<1>2. PICK b \in Nat : B = b + 2
  <2>1. B - 2 \in Nat
    BY <1>1
  <2> QED
    BY <1>1, <2>1
<1>3. B * B = b * b + 4 * b + 4 /\ b * b \in Nat
  BY <1>2
<1>4. PICK c \in Nat : B * B = c + 4
  <2>1. b * b + 4 * b \in Nat
    BY <1>2, <1>3
  <2> QED
    BY <1>3, <2>1
<1>5. B * B * B = c * B + 4 * B /\ c * B \in Nat
  BY <1>1, <1>4
<1>6. B * B * B - 1 \in Nat /\ B * B * B - 1 > 0
  BY <1>1, <1>5
<1> QED
  BY <1>6 DEF Full, MAX_PACKET_LENGTH, B

-----------------------------------------------------------------------------
\* The stream: a packet of length L is Pieces(L) frames, the first j of which
\* carry the first PieceEnd(L, j) bytes of its payload.

HeaderLengths == {4, 7}

\* What a byte may be; the bytes of payloads are marks (see Payload).
Bytes == Nat

PieceEnd(L, j) == IF j < Pieces(L) THEN j * Full ELSE L

PieceLength(L, j) == PieceEnd(L, j) - PieceEnd(L, j - 1)

FramesEnd(L, hl, j) == j * hl + PieceEnd(L, j)

Zeros(hl) == [i \in 1 .. hl - 4 |-> 0]

Piece(k, L, j) == SubSeq(Payload(k, L), PieceEnd(L, j - 1) + 1, PieceEnd(L, j))

FrameBytes(k, L, id, hl, j) ==
    LengthBytes(PieceLength(L, j)) \o <<(id + j - 1) % SEQ>> \o Zeros(hl) \o Piece(k, L, j)

LEMMA Product == ASSUME NEW a \in Nat, NEW b \in Nat, NEW d \in Nat, a <= b
                 PROVE  a * d \in Nat /\ b * d \in Nat /\ a * d <= b * d /\ (a + 1) * d = a * d + d
<1>1. PICK c \in Nat : b = a + c
  <2>1. b - a \in Nat
    OBVIOUS
  <2> QED
    BY <2>1
<1>2. b * d = a * d + c * d /\ c * d \in Nat /\ a * d \in Nat
  BY <1>1
<1> QED
  BY <1>2

LEMMA PieceFacts ==
    ASSUME NEW L \in Nat
    PROVE  /\ Pieces(L) \in Nat /\ Pieces(L) >= 1
           /\ PieceEnd(L, 0) = 0 /\ PieceEnd(L, Pieces(L)) = L
           /\ \A j \in 1 .. Pieces(L) :
                /\ PieceEnd(L, j - 1) \in Nat /\ PieceEnd(L, j) \in Nat
                /\ PieceEnd(L, j - 1) <= PieceEnd(L, j) /\ PieceEnd(L, j) <= L
                /\ PieceLength(L, j) \in Nat
                /\ j < Pieces(L) => PieceLength(L, j) = Full
                /\ j = Pieces(L) => PieceLength(L, j) < Full
<1> DEFINE q == L \div Full
           r == L % Full
<1>0. Full \in Nat /\ Full > 0
  BY FullFacts
<1> HIDE DEF Full
<1>1. q \in Nat /\ r \in Nat /\ r < Full /\ L = Full * q + r
  BY <1>0, DivMod
<1>2. Pieces(L) = q + 1
  BY DEF Pieces, Full
<1> HIDE DEF q, r
<1>3. PieceEnd(L, 0) = 0 /\ PieceEnd(L, q + 1) = L
  BY <1>0, <1>1, <1>2 DEF PieceEnd
<1>4. ASSUME NEW j \in 1 .. q + 1
      PROVE  /\ PieceEnd(L, j - 1) \in Nat /\ PieceEnd(L, j) \in Nat
             /\ PieceEnd(L, j - 1) <= PieceEnd(L, j) /\ PieceEnd(L, j) <= L
             /\ PieceLength(L, j) \in Nat
             /\ j < q + 1 => PieceLength(L, j) = Full
             /\ j = q + 1 => PieceLength(L, j) < Full
  <2>1. PieceEnd(L, j - 1) = (j - 1) * Full
    BY <1>1, <1>2 DEF PieceEnd
  <2>2. CASE j < q + 1
    <3>1. PieceEnd(L, j) = j * Full /\ j \in Nat /\ j - 1 \in Nat /\ j <= q
      BY <1>1, <1>2, <2>2 DEF PieceEnd
    <3>2. (j - 1) * Full \in Nat /\ ((j - 1) + 1) * Full = (j - 1) * Full + Full
      BY <1>0, <3>1, Product
    <3>3. j * Full \in Nat /\ j * Full <= q * Full /\ q * Full = Full * q /\ q * Full \in Nat
      BY <1>0, <1>1, <3>1, Product
    <3>4. j * Full = (j - 1) * Full + Full
      BY <3>1, <3>2
    <3>5. PieceLength(L, j) = Full
      BY <1>0, <2>1, <3>1, <3>2, <3>4 DEF PieceLength
    <3>6. j * Full <= L
      BY <1>1, <3>3
    <3> QED
      BY <1>0, <2>1, <2>2, <3>1, <3>2, <3>3, <3>4, <3>5, <3>6
  <2>3. CASE j = q + 1
    <3>1. PieceEnd(L, j) = L /\ j - 1 = q
      BY <1>1, <1>3, <2>3
    <3>2. (j - 1) * Full = Full * q /\ Full * q \in Nat
      BY <1>0, <1>1, <3>1
    <3>3. PieceLength(L, j) = r
      BY <1>0, <1>1, <2>1, <3>1, <3>2 DEF PieceLength
    <3> QED
      BY <1>0, <1>1, <2>1, <2>3, <3>1, <3>2, <3>3
  <2>4. j < q + 1 \/ j = q + 1
    BY <1>1
  <2> QED
    BY <2>2, <2>3, <2>4
<1> QED
  BY <1>1, <1>2, <1>3, <1>4

LEMMA PayloadTyped == ASSUME NEW k \in Nat, NEW L \in Nat
                      PROVE  Payload(k, L) \in Seq(Bytes) /\ Len(Payload(k, L)) = L
<1>1. Payload(k, L) \in [1 .. L -> Bytes]
  BY DEF Payload, Bytes
<1> QED
  BY <1>1, FunctionIsSeq

LEMMA PieceTyped ==
    ASSUME NEW k \in Nat, NEW L \in Nat, NEW j \in 1 .. Pieces(L)
    PROVE  Piece(k, L, j) \in Seq(Bytes) /\ Len(Piece(k, L, j)) = PieceLength(L, j)
<1>1. /\ PieceEnd(L, j - 1) \in Nat /\ PieceLength(L, j) \in Nat
      /\ PieceEnd(L, j) \in Nat /\ PieceEnd(L, j) <= L
  BY PieceFacts
<1>2. PieceEnd(L, j - 1) + PieceLength(L, j) = PieceEnd(L, j)
  BY <1>1 DEF PieceLength
<1>3. PieceEnd(L, j - 1) + PieceLength(L, j) <= Len(Payload(k, L)) /\ Payload(k, L) \in Seq(Bytes)
  BY <1>1, <1>2, PayloadTyped
<1> DEFINE a == PieceEnd(L, j - 1)
           b == PieceLength(L, j)
<1> HIDE DEF a, b
<1>4. SubSeq(Payload(k, L), a + 1, a + b) \in Seq(Bytes) /\ Len(SubSeq(Payload(k, L), a + 1, a + b)) = b
  <2>1. a \in Nat /\ b \in Nat /\ a + b <= Len(Payload(k, L)) /\ Payload(k, L) \in Seq(Bytes)
    BY <1>1, <1>3 DEF a, b
  <2> QED
    BY <2>1, SliceIs
<1> QED
  BY <1>2, <1>4 DEF a, b, Piece

LEMMA PiecesMakePayload ==
    ASSUME NEW k \in Nat, NEW L \in Nat, NEW parts,
           parts = [j \in 1 .. Pieces(L) |-> Piece(k, L, j)]
    PROVE  Concat(parts) = Payload(k, L)
<1> DEFINE N == Pieces(L)
           ofs == [j \in 0 .. N |-> PieceEnd(L, j)]
           s == Payload(k, L)
<1>1. N \in Nat /\ s \in Seq(Bytes) /\ Len(s) = L
  BY PieceFacts, PayloadTyped
<1>2. /\ \A j \in 1 .. N : ofs[j] = PieceEnd(L, j) /\ ofs[j - 1] = PieceEnd(L, j - 1)
      /\ ofs[0] = PieceEnd(L, 0) /\ ofs[N] = PieceEnd(L, N)
  <2> HIDE DEF N
  <2> QED
    BY <1>1
<1>3. /\ ofs \in [0 .. N -> Nat] /\ ofs[0] = 0 /\ ofs[N] = Len(s)
      /\ \A n \in 1 .. N : ofs[n - 1] <= ofs[n] /\ ofs[n] <= Len(s)
  <2>1. \A j \in 0 .. N : PieceEnd(L, j) \in Nat
    <3>1. \A j \in 0 .. N : j = 0 \/ j \in 1 .. N
      BY <1>1
    <3>2. PieceEnd(L, 0) \in Nat /\ \A j \in 1 .. N : PieceEnd(L, j) \in Nat
      BY PieceFacts
    <3> HIDE DEF N
    <3> QED
      BY <3>1, <3>2
  <2>2. ofs \in [0 .. N -> Nat]
    BY <2>1
  <2> HIDE DEF ofs
  <2> QED
    BY <1>1, <1>2, <2>2, PieceFacts
<1>4. parts \in [1 .. N -> Seq(Bytes)] /\ \A n \in 1 .. N : parts[n] = SubSeq(s, ofs[n - 1] + 1, ofs[n])
  <2>0. \A n \in 1 .. N : Piece(k, L, n) \in Seq(Bytes)
    BY PieceTyped
  <2> HIDE DEF ofs, N, s
  <2>1. \A n \in 1 .. N : Piece(k, L, n) = SubSeq(s, ofs[n - 1] + 1, ofs[n])
    BY <1>2 DEF Piece, s
  <2>2. parts = [j \in 1 .. N |-> Piece(k, L, j)]
    BY DEF N
  <2> QED
    BY <2>0, <2>1, <2>2
<1> HIDE DEF ofs, N, s
<1>5. Concat(parts) = s
  <2>1. ofs \in [0 .. N -> Nat] /\ ofs[0] = 0 /\ ofs[N] = Len(s)
    BY <1>3
  <2>2. \A n \in 1 .. N : ofs[n - 1] <= ofs[n] /\ ofs[n] <= Len(s)
    BY <1>3
  <2>3. Cuts(Bytes, s, N, ofs, parts)
    BY <1>1, <1>4, <2>1, <2>2 DEF Cuts
  <2> QED
    BY <2>3, ConcatSlices
<1> QED
  BY <1>5 DEF s

LEMMA BytesTyped == ASSUME NEW n \in Nat
                    PROVE  LengthBytes(n) \in Seq(Bytes) /\ Len(LengthBytes(n)) = 3
<1>1. n % BYTE \in Nat /\ (n \div BYTE) % BYTE \in Nat /\ n \div (BYTE * BYTE) \in Nat
  BY LengthOfBytes
<1> QED
  BY <1>1 DEF LengthBytes, Bytes

LEMMA ZerosTyped == ASSUME NEW hl \in HeaderLengths
                    PROVE  Zeros(hl) \in Seq(Bytes) /\ Len(Zeros(hl)) = hl - 4
<1>1. hl - 4 \in Nat
  BY DEF HeaderLengths
<1>2. Zeros(hl) \in [1 .. hl - 4 -> Bytes]
  BY DEF Zeros, Bytes
<1> QED
  BY <1>1, <1>2, FunctionIsSeq

LEMMA IdTyped == ASSUME NEW id \in Nat, NEW j \in Nat, j >= 1
                 PROVE  (id + j - 1) % SEQ \in Nat
<1>1. id + j - 1 \in Nat
  OBVIOUS
<1> QED
  BY <1>1, BaseFacts, DivMod

\* What the parser takes out of a frame.
LEMMA FrameParts ==
    ASSUME NEW k \in Nat, NEW L \in Nat, NEW id \in Nat, NEW hl \in HeaderLengths, NEW j \in 1 .. Pieces(L)
    PROVE  LET f == FrameBytes(k, L, id, hl, j)
           IN  /\ f \in Seq(Bytes) /\ Len(f) = hl + PieceLength(L, j)
               /\ SubSeq(f, 1, 3) = LengthBytes(PieceLength(L, j))
               /\ f[4] = (id + j - 1) % SEQ
               /\ SubSeq(f, 5, Len(f)) = Zeros(hl) \o Piece(k, L, j)
               /\ SubSeq(f, hl + 1, Len(f)) = Piece(k, L, j)
<1> DEFINE n == PieceLength(L, j)
           lb == LengthBytes(n)
           i == (id + j - 1) % SEQ
           s1 == lb \o <<i>>
           s2 == s1 \o Zeros(hl)
           p == Piece(k, L, j)
           f == s2 \o p
<1> HIDE DEF lb, i, s1, s2, p, f
<1>0. n \in Nat /\ hl \in Nat /\ hl - 4 \in Nat /\ j \in Nat /\ j >= 1
  <2>1. PieceLength(L, j) \in Nat /\ Pieces(L) \in Nat
    BY PieceFacts
  <2>2. hl = 4 \/ hl = 7
    BY DEF HeaderLengths
  <2>3. n \in Nat
    BY <2>1
  <2> HIDE DEF n
  <2>4. hl \in Nat /\ hl - 4 \in Nat
    BY <2>2
  <2>5. j \in Nat /\ j >= 1
    BY <2>1
  <2> QED
    BY <2>3, <2>4, <2>5
<1> USE DEF lb, i, s1, s2, p, f
<1>1. lb \in Seq(Bytes) /\ Len(lb) = 3
  BY <1>0, BytesTyped
<1>2. i \in Nat /\ <<i>> \in Seq(Bytes) /\ Len(<<i>>) = 1
  BY <1>0, IdTyped DEF Bytes
<1>3. Zeros(hl) \in Seq(Bytes) /\ Len(Zeros(hl)) = hl - 4
  BY ZerosTyped
<1>4. p \in Seq(Bytes) /\ Len(p) = n
  BY PieceTyped
<1>5. FrameBytes(k, L, id, hl, j) = f
  BY DEF FrameBytes
<1> DEFINE z == Zeros(hl)
           ii == <<i>>
<1>6. z \in Seq(Bytes) /\ Len(z) = hl - 4 /\ ii \in Seq(Bytes) /\ Len(ii) = 1 /\ ii[1] = i
  BY <1>2, <1>3
<1>7. s1 = lb \o ii /\ s2 = s1 \o z
  OBVIOUS
<1> HIDE DEF n, lb, i, p, s1, s2, z, ii, f
<1>8. s1 \in Seq(Bytes) /\ Len(s1) = 4 /\ s1[4] = i /\ SubSeq(s1, 1, 3) = lb
  <2>1. /\ lb \o ii \in Seq(Bytes) /\ Len(lb \o ii) = Len(lb) + Len(ii)
        /\ \A m \in 1 .. Len(ii) : (lb \o ii)[Len(lb) + m] = ii[m]
    <3>1. lb \in Seq(Bytes) /\ ii \in Seq(Bytes)
      BY <1>1, <1>6
    <3> QED
      BY <3>1, Joined
  <2>2. SubSeq(lb \o ii, 1, Len(lb)) = SubSeq(lb, 1, Len(lb)) /\ SubSeq(lb, 1, Len(lb)) = lb
    <3>1. Len(lb) \in 0 .. Len(lb) /\ lb \in Seq(Bytes) /\ ii \in Seq(Bytes)
      BY <1>1, <1>6
    <3>2. SubSeq(lb \o ii, 1, Len(lb)) = SubSeq(lb, 1, Len(lb))
      BY <3>1, HeadOfFirst
    <3>3. SubSeq(lb, 1, Len(lb)) = lb
      BY <3>1, SubSeqFull
    <3> QED
      BY <3>2, <3>3
  <2>3. (lb \o ii)[Len(lb) + 1] = ii[1]
    BY <1>6, <2>1
  <2>4. Len(lb) = 3 /\ Len(ii) = 1 /\ ii[1] = i
    BY <1>1, <1>6
  <2>5. s1 = lb \o ii
    BY <1>7
  <2>6. SubSeq(lb \o ii, 1, 3) = lb
    BY <2>2, <2>4
  <2>7. lb \o ii \in Seq(Bytes) /\ Len(lb \o ii) = 4
    BY <2>1, <2>4
  <2>8. (lb \o ii)[4] = i
    <3>1. Len(lb) + 1 = 4
      BY <2>4
    <3> QED
      BY <2>3, <2>4, <3>1, Zenon
  <2> QED
    BY <2>5, <2>6, <2>7, <2>8
<1>9. s2 \in Seq(Bytes) /\ Len(s2) = hl /\ s2[4] = i /\ SubSeq(s2, 1, 3) = lb
  <2>1. /\ s1 \o z \in Seq(Bytes) /\ Len(s1 \o z) = Len(s1) + Len(z)
        /\ \A m \in 1 .. Len(s1) : (s1 \o z)[m] = s1[m]
    BY <1>6, <1>8, Joined
  <2>2. SubSeq(s1 \o z, 1, 3) = SubSeq(s1, 1, 3)
    <3>1. 3 \in 0 .. Len(s1)
      BY <1>8
    <3> QED
      BY <1>6, <1>8, <3>1, HeadOfFirst
  <2>3. (s1 \o z)[4] = s1[4] /\ 4 + (hl - 4) = hl
    BY <1>0, <1>8, <2>1
  <2> QED
    BY <1>6, <1>7, <1>8, <2>1, <2>2, <2>3
<1>10. f \in Seq(Bytes) /\ Len(f) = hl + n /\ f[4] = i /\ SubSeq(f, 1, 3) = lb
  <2>0. f = s2 \o p
    BY DEF f
  <2>1. /\ s2 \o p \in Seq(Bytes) /\ Len(s2 \o p) = Len(s2) + Len(p)
        /\ \A m \in 1 .. Len(s2) : (s2 \o p)[m] = s2[m]
    BY <1>4, <1>9, Joined
  <2>2. SubSeq(s2 \o p, 1, 3) = SubSeq(s2, 1, 3)
    <3>1. 3 \in 0 .. Len(s2)
      BY <1>0, <1>9
    <3> QED
      BY <1>4, <1>9, <3>1, HeadOfFirst
  <2>3. 4 \in 1 .. Len(s2)
    BY <1>0, <1>9
  <2>4. (s2 \o p)[4] = s2[4]
    BY <2>1, <2>3
  <2> QED
    BY <1>4, <1>9, <2>0, <2>1, <2>2, <2>4
<1>11. SubSeq(f, hl + 1, Len(f)) = p
  BY <1>4, <1>9, <1>10, SliceOfSecond DEF f
<1>12. SubSeq(f, 5, Len(f)) = z \o p
  <2>1. f = s1 \o (z \o p)
    <3>1. (s1 \o z) \o p = s1 \o (z \o p)
      <4>1. s1 \in Seq(Bytes) /\ z \in Seq(Bytes) /\ p \in Seq(Bytes)
        BY <1>4, <1>6, <1>8
      <4> QED
        BY <4>1
    <3> QED
      BY <1>7, <3>1 DEF f
  <2>2. z \o p \in Seq(Bytes) /\ Len(z \o p) = (hl - 4) + n
    <3>1. z \o p \in Seq(Bytes) /\ Len(z \o p) = Len(z) + Len(p)
      BY <1>4, <1>6, Joined
    <3> QED
      BY <1>4, <1>6, <3>1
  <2>3. SubSeq(s1 \o (z \o p), Len(s1) + 1, Len(s1) + Len(z \o p)) = z \o p
    BY <1>8, <2>2, SliceOfSecond
  <2>4. Len(s1) + 1 = 5 /\ Len(s1) + Len(z \o p) = Len(f)
    BY <1>0, <1>8, <1>10, <2>2
  <2> QED
    BY <2>1, <2>3, <2>4
<1> QED
  BY <1>5, <1>10, <1>11, <1>12 DEF n, lb, i, p, z

LEMMA PieceEnds ==
    ASSUME NEW L \in Nat, NEW j \in 1 .. Pieces(L)
    PROVE  /\ (j - 1) * Full = PieceEnd(L, j - 1)
           /\ j * Full < L => j * Full = PieceEnd(L, j)
           /\ ~(j * Full < L) => L = PieceEnd(L, j)
<1> DEFINE q == L \div Full
           r == L % Full
<1>0. Full \in Nat /\ Full > 0
  BY FullFacts
<1> HIDE DEF Full
<1>1. q \in Nat /\ r \in Nat /\ r < Full /\ L = Full * q + r
  BY <1>0, DivMod
<1>2. Pieces(L) = q + 1
  BY DEF Pieces, Full
<1> HIDE DEF q, r
<1>3. j \in Nat /\ j - 1 \in Nat /\ j <= q + 1
  BY <1>1, <1>2
<1>4. (j - 1) * Full = PieceEnd(L, j - 1)
  BY <1>1, <1>2, <1>3 DEF PieceEnd
<1>5. CASE j < q + 1
  <2>1. PieceEnd(L, j) = j * Full /\ j <= q
    BY <1>1, <1>2, <1>3, <1>5 DEF PieceEnd
  <2>2. j * Full \in Nat /\ j * Full <= q * Full /\ q * Full = Full * q /\ q * Full \in Nat
    BY <1>0, <1>1, <1>3, <2>1, Product
  <2> QED
    BY <1>1, <1>4, <2>1, <2>2
<1>6. CASE j = q + 1
  <2>1. PieceEnd(L, j) = L
    BY <1>1, <1>2, <1>6 DEF PieceEnd
  <2>2. j * Full = Full * q + Full /\ Full * q \in Nat
    BY <1>0, <1>1, <1>6
  <2>3. ~(j * Full < L)
    BY <1>0, <1>1, <2>2
  <2> QED
    BY <1>4, <2>1, <2>3
<1>7. j < q + 1 \/ j = q + 1
  BY <1>1, <1>3
<1> QED
  BY <1>5, <1>6, <1>7

LEMMA FramesEnds ==
    ASSUME NEW L \in Nat, NEW hl \in HeaderLengths
    PROVE  /\ FramesEnd(L, hl, 0) = 0
           /\ FramesEnd(L, hl, Pieces(L)) \in Nat
           /\ \A j \in 1 .. Pieces(L) :
                /\ FramesEnd(L, hl, j - 1) \in Nat /\ FramesEnd(L, hl, j) \in Nat
                /\ FramesEnd(L, hl, j) = FramesEnd(L, hl, j - 1) + (hl + PieceLength(L, j))
<1>0. hl \in Nat
  BY DEF HeaderLengths
<1>1. ASSUME NEW j \in 1 .. Pieces(L)
      PROVE  /\ FramesEnd(L, hl, j - 1) \in Nat /\ FramesEnd(L, hl, j) \in Nat
             /\ FramesEnd(L, hl, j) = FramesEnd(L, hl, j - 1) + (hl + PieceLength(L, j))
  <2> DEFINE a == PieceEnd(L, j - 1)
             b == PieceEnd(L, j)
  <2>1. /\ a \in Nat /\ b \in Nat /\ a <= b /\ j \in Nat /\ j - 1 \in Nat /\ PieceLength(L, j) = b - a
        /\ FramesEnd(L, hl, j - 1) = (j - 1) * hl + a /\ FramesEnd(L, hl, j) = j * hl + b
    BY PieceFacts DEF PieceLength, FramesEnd
  <2> HIDE DEF a, b
  <2>2. (j - 1) * hl \in Nat /\ j * hl = (j - 1) * hl + hl
    BY <1>0, <2>1
  <2> QED
    BY <1>0, <2>1, <2>2
<1>2. FramesEnd(L, hl, 0) = 0
  BY <1>0, PieceFacts DEF FramesEnd
<1>3. Pieces(L) \in 1 .. Pieces(L)
  BY PieceFacts
<1> QED
  BY <1>1, <1>2, <1>3

LEMMA FramedIs ==
    ASSUME NEW k \in Nat, NEW L \in Nat, NEW id \in Nat, NEW hl \in HeaderLengths
    PROVE  Framed(Payload(k, L), id, hl) = Concat([j \in 1 .. Pieces(L) |-> FrameBytes(k, L, id, hl, j)])
<1> DEFINE s == Payload(k, L)
           piece(j) == SubSeq(s, (j - 1) * MAX_PACKET_LENGTH + 1,
                              IF j * MAX_PACKET_LENGTH < Len(s) THEN j * MAX_PACKET_LENGTH ELSE Len(s))
           frame(j) == LengthBytes(Len(piece(j))) \o <<(id + j - 1) % SEQ>>
                       \o [i \in 1 .. hl - 4 |-> 0] \o piece(j)
<1>1. Framed(s, id, hl) = Concat([j \in 1 .. Pieces(Len(s)) |-> frame(j)])
  BY DEF Framed
<1>2. Len(s) = L
  BY PayloadTyped
<1>3. ASSUME NEW j \in 1 .. Pieces(L) PROVE frame(j) = FrameBytes(k, L, id, hl, j)
  <2>1. /\ (j - 1) * MAX_PACKET_LENGTH = PieceEnd(L, j - 1)
        /\ (IF j * MAX_PACKET_LENGTH < L THEN j * MAX_PACKET_LENGTH ELSE L) = PieceEnd(L, j)
    <3>1. /\ (j - 1) * Full = PieceEnd(L, j - 1)
          /\ j * Full < L => j * Full = PieceEnd(L, j)
          /\ ~(j * Full < L) => L = PieceEnd(L, j)
      BY PieceEnds
    <3> QED
      BY <3>1 DEF Full
  <2>2. piece(j) = Piece(k, L, j)
    BY <1>2, <2>1 DEF Piece
  <2>3. Len(Piece(k, L, j)) = PieceLength(L, j)
    BY PieceTyped
  <2> HIDE DEF piece
  <2> QED
    BY <2>2, <2>3 DEF FrameBytes, Zeros
<1> HIDE DEF frame, s
<1>4. [j \in 1 .. Pieces(L) |-> frame(j)] = [j \in 1 .. Pieces(L) |-> FrameBytes(k, L, id, hl, j)]
  BY <1>3
<1> QED
  BY <1>1, <1>2, <1>4 DEF s

\* The bytes of packet k are those of its frames.
FrameSlices(s, k, L, id, hl) ==
    /\ s \in Seq(Bytes) /\ Len(s) = FramesEnd(L, hl, Pieces(L))
    /\ \A j \in 1 .. Pieces(L) :
         /\ FramesEnd(L, hl, j) <= Len(s)
         /\ SubSeq(s, FramesEnd(L, hl, j - 1) + 1, FramesEnd(L, hl, j)) = FrameBytes(k, L, id, hl, j)

LEMMA FramedCut ==
    ASSUME NEW k \in Nat, NEW L \in Nat, NEW id \in Nat, NEW hl \in HeaderLengths
    PROVE  FrameSlices(Framed(Payload(k, L), id, hl), k, L, id, hl)
<1> DEFINE N == Pieces(L)
           parts == [j \in 1 .. N |-> FrameBytes(k, L, id, hl, j)]
           ofs == [j \in 0 .. N |-> FramesEnd(L, hl, j)]
<1>1. N \in Nat
  BY PieceFacts
<1>2. \A j \in 1 .. N : FrameBytes(k, L, id, hl, j) \in Seq(Bytes)
                        /\ Len(FrameBytes(k, L, id, hl, j)) = hl + PieceLength(L, j)
  BY FrameParts
<1>3. Framed(Payload(k, L), id, hl) = Concat(parts)
  BY FramedIs
<1>4. \A j \in 0 .. N : FramesEnd(L, hl, j) \in Nat
  <2>1. FramesEnd(L, hl, 0) \in Nat /\ \A j \in 1 .. N : FramesEnd(L, hl, j) \in Nat
    BY FramesEnds
  <2> HIDE DEF N
  <2>2. \A j \in 0 .. N : j = 0 \/ j \in 1 .. N
    BY <1>1
  <2> QED
    BY <2>1, <2>2
<1>5. /\ FramesEnd(L, hl, 0) = 0
      /\ \A j \in 1 .. N : FramesEnd(L, hl, j) = FramesEnd(L, hl, j - 1) + (hl + PieceLength(L, j))
  BY FramesEnds
<1> HIDE DEF N
<1>6. ofs \in [0 .. N -> Nat] /\ parts \in [1 .. N -> Seq(Bytes)]
  BY <1>2, <1>4
<1>7. /\ \A j \in 1 .. N : ofs[j] = FramesEnd(L, hl, j) /\ ofs[j - 1] = FramesEnd(L, hl, j - 1)
      /\ ofs[0] = FramesEnd(L, hl, 0) /\ ofs[N] = FramesEnd(L, hl, N)
  BY <1>1
<1>8. \A j \in 1 .. N : parts[j] = FrameBytes(k, L, id, hl, j)
  OBVIOUS
<1> HIDE DEF parts, ofs
<1>9. parts \in Seq(Seq(Bytes)) /\ Len(parts) = N
  BY <1>1, <1>6, FunctionIsSeq
<1>10. Added(parts, ofs)
  BY <1>2, <1>5, <1>6, <1>7, <1>8, <1>9 DEF Added
<1>11. /\ Concat(parts) \in Seq(Bytes) /\ Len(Concat(parts)) = ofs[Len(parts)]
       /\ \A n \in 1 .. Len(parts) : /\ ofs[n] <= ofs[Len(parts)]
                                     /\ SubSeq(Concat(parts), ofs[n - 1] + 1, ofs[n]) = parts[n]
  BY <1>9, <1>10, ConcatParts
<1> QED
  BY <1>3, <1>7, <1>8, <1>9, <1>11 DEF N, FrameSlices

-----------------------------------------------------------------------------
\* What the server sends, described frame by frame.

\* From the byte after the first `a' of st on: frame j of packet k.
FrameAt(st, a, k, L, id, hl, j) ==
    /\ a \in Nat /\ a + (hl + PieceLength(L, j)) <= Len(st)
    /\ SubSeq(st, a + 1, a + (hl + PieceLength(L, j))) = FrameBytes(k, L, id, hl, j)

\* A sending: the lengths of the payloads, the size of a header, the sequence
\* id of each packet and of the one that would follow, and where packets end.
PacketOf(w, k) ==
    [sequenceId |-> w.id[k], numPackets |-> Pieces(w.lengths[k]),
     content |-> Zeros(w.hl) \o Payload(k, w.lengths[k]), last |-> w.last[k]]

\* Where frame j of packet k begins.
Begin(w, k, j) == w.last[k - 1] + FramesEnd(w.lengths[k], w.hl, j - 1)

Described(w, pk, st) ==
    LET N == Len(w.lengths)
    IN  /\ w.lengths \in Seq(Nat) /\ w.hl \in HeaderLengths
        /\ w.id \in [1 .. N + 1 -> 0 .. SEQ - 1] /\ w.id[1] = 0
        /\ \A k \in 1 .. N : w.id[k + 1] = (w.id[k] + Pieces(w.lengths[k])) % SEQ
        /\ w.last \in [0 .. N -> Nat] /\ w.last[0] = 0
        /\ \A k \in 1 .. N : w.last[k] = w.last[k - 1] + FramesEnd(w.lengths[k], w.hl, Pieces(w.lengths[k]))
        /\ pk = [k \in 1 .. N |-> PacketOf(w, k)]
        /\ st \in Seq(Bytes) /\ Len(st) = w.last[N]
        /\ \A k \in 1 .. N : \A j \in 1 .. Pieces(w.lengths[k]) :
             FrameAt(st, Begin(w, k, j), k, w.lengths[k], w.id[k], w.hl, j)

\* The sequence ids and ends of packets, as Sent computes them.
LEMMA IdsOfSent ==
    ASSUME NEW lengths \in Seq(Nat)
    PROVE  LET N == Len(lengths)
               h == CHOOSE g : g = [k \in 1 .. N + 1 |->
                                       IF k = 1 THEN 0 ELSE (g[k - 1] + Pieces(lengths[k - 1])) % SEQ]
           IN  /\ h \in [1 .. N + 1 -> 0 .. SEQ - 1] /\ h[1] = 0
               /\ \A k \in 1 .. N : h[k + 1] = (h[k] + Pieces(lengths[k])) % SEQ
<1> DEFINE N == Len(lengths)
           X == 0 .. SEQ - 1
           Body0(g) == [k \in 1 .. N + 1 |->
                           IF k = 1 THEN 0 ELSE (g[k - 1] + Pieces(lengths[k - 1])) % SEQ]
           h == CHOOSE g : g = Body0(g)
           G == [m \in (1 .. N) \X X |-> (m[2] + Pieces(lengths[m[1]])) % SEQ]
<1>1. N \in Nat /\ \A k \in 1 .. N : Pieces(lengths[k]) \in Nat
  <2>1. \A k \in 1 .. N : lengths[k] \in Nat
    OBVIOUS
  <2>2. N \in Nat
    OBVIOUS
  <2> HIDE DEF N
  <2>3. \A k \in 1 .. N : Pieces(lengths[k]) \in Nat
    BY <2>1, PieceFacts
  <2> QED
    BY <2>2, <2>3
<1>0. \A m \in Nat : m % SEQ \in X
  BY BaseFacts
<1>2. \E g : g = Body0(g)
  <2>1. G \in [(1 .. N) \X X -> X]
    <3> SUFFICES ASSUME NEW n \in 1 .. N, NEW s \in X PROVE (s + Pieces(lengths[n])) % SEQ \in X
      OBVIOUS
    <3>1. s + Pieces(lengths[n]) \in Nat
      BY <1>1, BaseFacts
    <3> QED
      BY <1>0, <3>1
  <2>2. PICK f : Solves(f, N, X, 0, G)
    <3>1. 0 \in X
      BY BaseFacts
    <3> HIDE DEF G, N, X
    <3>2. Recurrence(N, X, 0, G)
      BY <1>1, <2>1, <3>1 DEF Recurrence
    <3> QED
      BY <3>2, Recursion
  <2>3. f \in [0 .. N -> X] /\ f[0] = 0 /\ \A n \in 1 .. N : f[n] = G[<<n, f[n - 1]>>]
    BY <2>2 DEF Solves
  <2>4. ASSUME NEW n \in 1 .. N PROVE f[n] = (f[n - 1] + Pieces(lengths[n])) % SEQ
    <3>1. n - 1 \in 0 .. N /\ f[n - 1] \in X
      <4> HIDE DEF G, N, X
      <4> QED
        BY <1>1, <2>3
    <3>2. <<n, f[n - 1]>> \in (1 .. N) \X X
      BY <3>1
    <3>3. G[<<n, f[n - 1]>>] = (f[n - 1] + Pieces(lengths[n])) % SEQ
      BY <3>2
    <3> QED
      BY <2>3, <3>3
  <2> DEFINE g == [k \in 1 .. N + 1 |-> f[k - 1]]
  <2>5. ASSUME NEW k \in 1 .. N + 1
        PROVE  g[k] = IF k = 1 THEN 0 ELSE (g[k - 1] + Pieces(lengths[k - 1])) % SEQ
    <3> HIDE DEF G, N, X
    <3>1. CASE k = 1
      BY <1>1, <2>3, <3>1
    <3>2. CASE k # 1
      <4>1. k - 1 \in 1 .. N /\ k - 1 \in 1 .. N + 1 /\ (k - 1) - 1 = k - 2
        BY <1>1, <3>2
      <4>2. g[k] = f[k - 1] /\ g[k - 1] = f[(k - 1) - 1]
        BY <4>1
      <4>3. f[k - 1] = (f[(k - 1) - 1] + Pieces(lengths[k - 1])) % SEQ
        BY <2>4, <4>1
      <4> QED
        BY <3>2, <4>2, <4>3
    <3> QED
      BY <3>1, <3>2
  <2>6. g = Body0(g)
    <3> DEFINE val(k) == IF k = 1 THEN 0 ELSE (g[k - 1] + Pieces(lengths[k - 1])) % SEQ
    <3>1. Body0(g) = [k \in 1 .. N + 1 |-> val(k)]
      OBVIOUS
    <3>2. g = [k \in 1 .. N + 1 |-> g[k]]
      OBVIOUS
    <3>3. \A k \in 1 .. N + 1 : g[k] = val(k)
      BY <2>5
    <3> HIDE DEF g, val, N, Body0
    <3> QED
      BY <3>1, <3>2, <3>3
  <2> HIDE DEF Body0
  <2> QED
    BY <2>6
<1>3. h = Body0(h)
  <2> HIDE DEF Body0
  <2> QED
    BY <1>2
<1> HIDE DEF h
<1>4. /\ DOMAIN h = 1 .. N + 1 /\ h = [k \in 1 .. N + 1 |-> h[k]]
      /\ \A k \in 1 .. N + 1 : h[k] = IF k = 1 THEN 0 ELSE (h[k - 1] + Pieces(lengths[k - 1])) % SEQ
  <2> HIDE DEF N
  <2> QED
    BY <1>3
<1>5. h[1] = 0 /\ \A k \in 1 .. N : h[k + 1] = (h[k] + Pieces(lengths[k])) % SEQ
  <2> HIDE DEF N
  <2>1. 1 \in 1 .. N + 1
    BY <1>1
  <2>2. ASSUME NEW k \in 1 .. N PROVE h[k + 1] = (h[k] + Pieces(lengths[k])) % SEQ
    <3>1. k + 1 \in 1 .. N + 1 /\ k + 1 # 1 /\ (k + 1) - 1 = k
      BY <1>1
    <3>2. h[k + 1] = (h[(k + 1) - 1] + Pieces(lengths[(k + 1) - 1])) % SEQ
      BY <1>4, <3>1
    <3> QED
      BY <3>1, <3>2
  <2> QED
    BY <1>4, <2>1, <2>2
<1>6. h \in [1 .. N + 1 -> X]
  <2> DEFINE S == {n \in 0 .. N : h[n + 1] \in X}
  <2> HIDE DEF N
  <2>1. 0 \in S
    BY <1>1, <1>5, BaseFacts
  <2>2. ASSUME NEW n \in 1 .. N, n - 1 \in S PROVE n \in S
    <3>1. n \in 0 .. N /\ (n - 1) + 1 = n /\ h[n] \in X
      BY <1>1, <2>2
    <3>2. h[n] + Pieces(lengths[n]) \in Nat
      BY <1>1, <3>1, BaseFacts
    <3>3. (h[n] + Pieces(lengths[n])) % SEQ \in X
      BY <1>0, <3>2
    <3> QED
      BY <1>5, <3>1, <3>3
  <2>3. \A n \in 0 .. N : h[n + 1] \in X
    <3> HIDE DEF S
    <3>1. 0 .. N \subseteq S
      BY <1>1, <2>1, <2>2, UpTo
    <3> QED
      BY <3>1 DEF S
  <2> HIDE DEF X, S
  <2>4. ASSUME NEW k \in 1 .. N + 1 PROVE h[k] \in X
    <3>1. k - 1 \in 0 .. N /\ (k - 1) + 1 = k
      BY <1>1
    <3>2. h[(k - 1) + 1] \in X
      BY <2>3, <3>1
    <3> QED
      BY <3>1, <3>2
  <2> QED
    BY <1>4, <2>4
<1> QED
  BY <1>5, <1>6 DEF h


\* A frame of a packet is a slice of the stream.
LEMMA FrameInStream ==
    ASSUME NEW st \in Seq(Bytes), NEW a \in Nat, NEW k \in Nat, NEW L \in Nat, NEW id \in Nat,
           NEW hl \in HeaderLengths, NEW j \in 1 .. Pieces(L),
           a + FramesEnd(L, hl, Pieces(L)) <= Len(st),
           SubSeq(st, a + 1, a + FramesEnd(L, hl, Pieces(L))) = Framed(Payload(k, L), id, hl)
    PROVE  FrameAt(st, a + FramesEnd(L, hl, j - 1), k, L, id, hl, j)
<1> DEFINE b == FramesEnd(L, hl, Pieces(L))
           x == FramesEnd(L, hl, j - 1)
           y == FramesEnd(L, hl, j)
           s == Framed(Payload(k, L), id, hl)
           n == hl + PieceLength(L, j)
<1>1. x \in Nat /\ y \in Nat /\ y = x + n /\ b \in Nat
  BY FramesEnds
<1>2. Len(s) = b /\ y <= Len(s) /\ SubSeq(s, x + 1, y) = FrameBytes(k, L, id, hl, j)
  <2>1. FrameSlices(s, k, L, id, hl)
    BY FramedCut
  <2> HIDE DEF s, b
  <2> QED
    BY <2>1 DEF FrameSlices, b, x, y
<1>3. SubSeq(st, a + 1, a + b) = s /\ a + b <= Len(st)
  OBVIOUS
<1>4. n \in Nat
  <2>1. hl \in Nat
    BY DEF HeaderLengths
  <2>2. PieceLength(L, j) \in Nat
    BY PieceFacts
  <2> QED
    BY <2>1, <2>2
<1>5. FrameAt(st, a + x, k, L, id, hl, j)
        <=> /\ a + x \in Nat /\ a + x + n <= Len(st)
            /\ SubSeq(st, a + x + 1, a + x + n) = FrameBytes(k, L, id, hl, j)
  BY DEF FrameAt
<1> HIDE DEF b, x, y, s, n
<1>6. x + 1 \in Nat /\ 1 <= x + 1 /\ y \in 0 .. b
  BY <1>1, <1>2
<1>7. SubSeq(SubSeq(st, a + 1, a + b), x + 1, y) = SubSeq(st, a + (x + 1), a + y)
  <2>1. /\ a \in Nat /\ b \in Nat /\ a + b <= Len(st)
        /\ x + 1 \in Nat /\ 1 <= x + 1 /\ y \in 0 .. b
    BY <1>1, <1>3, <1>6
  <2> DEFINE m == x + 1
  <2>2. m \in Nat /\ 1 <= m
    BY <2>1
  <2> HIDE DEF m
  <2>3. SubSeq(SubSeq(st, a + 1, a + b), m, y) = SubSeq(st, a + m, a + y)
    BY <2>1, <2>2, SliceOfSlice
  <2> QED
    BY <2>3 DEF m
<1>8. a + (x + 1) = a + x + 1 /\ a + y = a + x + n
  BY <1>1, <1>4
<1>9. Len(st) \in Nat
  BY LenProperties
<1>10. a + x \in Nat /\ a + x + n <= Len(st)
  BY <1>1, <1>2, <1>3, <1>4, <1>9
<1> QED
  BY <1>2, <1>3, <1>5, <1>7, <1>8, <1>10 DEF x

LEMMA SentDescribed ==
    ASSUME NEW lengths \in Seq(Nat), NEW hl \in HeaderLengths
    PROVE  \E w : /\ w.lengths = lengths /\ w.hl = hl
                  /\ Described(w, Sent(lengths, hl).packets, Sent(lengths, hl).stream)
<1> DEFINE N == Len(lengths)
           id == CHOOSE g : g = [k \in 1 .. N + 1 |->
                                    IF k = 1 THEN 0 ELSE (g[k - 1] + Pieces(lengths[k - 1])) % SEQ]
           bytes(k) == Framed(Payload(k, lengths[k]), id[k], hl)
           Body0(g) == [k \in 0 .. N |-> IF k = 0 THEN 0 ELSE g[k - 1] + Len(bytes(k))]
           last == CHOOSE g : g = Body0(g)
           parts == [k \in 1 .. N |-> bytes(k)]
           st == Concat(parts)
           w == [lengths |-> lengths, hl |-> hl, id |-> id, last |-> last]
           pk == [k \in 1 .. N |-> [sequenceId |-> id[k], numPackets |-> Pieces(lengths[k]),
                                    content |-> [i \in 1 .. hl - 4 |-> 0] \o Payload(k, lengths[k]),
                                    last |-> last[k]]]
<1>1. Sent(lengths, hl) = [packets |-> pk, stream |-> st]
  BY DEF Sent
<1>2. /\ id \in [1 .. N + 1 -> 0 .. SEQ - 1] /\ id[1] = 0
      /\ \A k \in 1 .. N : id[k + 1] = (id[k] + Pieces(lengths[k])) % SEQ
  BY IdsOfSent
<1>3. N \in Nat /\ \A k \in 1 .. N : lengths[k] \in Nat
  OBVIOUS
<1> HIDE DEF id
<1>4. ASSUME NEW k \in 1 .. N PROVE k \in Nat /\ lengths[k] \in Nat /\ id[k] \in Nat
  <2> HIDE DEF N
  <2>1. k \in 1 .. N + 1 /\ id[k] \in 0 .. SEQ - 1
    BY <1>2, <1>3
  <2> QED
    BY <1>3, <2>1, BaseFacts
<1>5. ASSUME NEW k \in 1 .. N
      PROVE  bytes(k) \in Seq(Bytes) /\ Len(bytes(k)) = FramesEnd(lengths[k], hl, Pieces(lengths[k]))
             /\ Len(bytes(k)) \in Nat
  <2>1. k \in Nat /\ lengths[k] \in Nat /\ id[k] \in Nat
    BY <1>4
  <2> HIDE DEF N
  <2>2. bytes(k) \in Seq(Bytes) /\ Len(bytes(k)) = FramesEnd(lengths[k], hl, Pieces(lengths[k]))
    BY <2>1, FramedCut DEF FrameSlices
  <2> HIDE DEF bytes
  <2> QED
    BY <2>2, LenProperties
<1> HIDE DEF bytes, N
<1>6. \E g : g = Body0(g)
  <2> DEFINE G == [m \in (1 .. N) \X Nat |-> m[2] + Len(bytes(m[1]))]
  <2>1. G \in [(1 .. N) \X Nat -> Nat]
    <3> SUFFICES ASSUME NEW n \in 1 .. N, NEW s \in Nat PROVE s + Len(bytes(n)) \in Nat
      OBVIOUS
    <3> QED
      BY <1>5
  <2>2. PICK f : Solves(f, N, Nat, 0, G)
    <3> HIDE DEF G
    <3>2. Recurrence(N, Nat, 0, G)
      BY <1>3, <2>1 DEF Recurrence
    <3> QED
      BY <3>2, Recursion
  <2>3. f \in [0 .. N -> Nat] /\ f[0] = 0 /\ \A n \in 1 .. N : f[n] = G[<<n, f[n - 1]>>]
    BY <2>2 DEF Solves
  <2>4. ASSUME NEW n \in 1 .. N PROVE f[n] = f[n - 1] + Len(bytes(n))
    <3>1. n - 1 \in 0 .. N /\ f[n - 1] \in Nat
      <4> HIDE DEF G
      <4> QED
        BY <1>3, <2>3
    <3>2. <<n, f[n - 1]>> \in (1 .. N) \X Nat
      BY <3>1
    <3>3. G[<<n, f[n - 1]>>] = f[n - 1] + Len(bytes(n))
      BY <3>2
    <3> QED
      BY <2>3, <3>3
  <2>5. f = Body0(f)
    <3>1. \A i \in 0 .. N : i # 0 => i \in 1 .. N
      BY <1>3
    <3> HIDE DEF G
    <3> QED
      BY <2>3, <2>4, <3>1
  <2> QED
    BY <2>5
<1>7. last = Body0(last)
  <2> HIDE DEF Body0
  <2> QED
    BY <1>6
<1> HIDE DEF last
<1>8. /\ last = [k \in 0 .. N |-> last[k]] /\ last[0] = 0
      /\ \A k \in 1 .. N : last[k] = last[k - 1] + Len(bytes(k))
  <2>1. 0 \in 0 .. N /\ \A k \in 1 .. N : k \in 0 .. N /\ k # 0
    BY <1>3
  <2>2. \A k \in 0 .. N : last[k] = IF k = 0 THEN 0 ELSE last[k - 1] + Len(bytes(k))
    BY <1>7
  <2>3. last = [k \in 0 .. N |-> last[k]]
    BY <1>7
  <2> QED
    BY <2>1, <2>2, <2>3
<1>9. last \in [0 .. N -> Nat]
  <2> DEFINE S == {n \in 0 .. N : last[n] \in Nat}
  <2>1. 0 \in S
    BY <1>3, <1>8
  <2>2. ASSUME NEW n \in 1 .. N, n - 1 \in S PROVE n \in S
    <3>1. n \in 0 .. N /\ last[n - 1] \in Nat /\ Len(bytes(n)) \in Nat
      BY <1>3, <1>5, <2>2
    <3>2. last[n] = last[n - 1] + Len(bytes(n))
      BY <1>8
    <3>3. last[n] \in Nat
      BY <3>1, <3>2
    <3> QED
      BY <3>1, <3>3
  <2>3. \A n \in 0 .. N : last[n] \in Nat
    <3> HIDE DEF S
    <3>1. 0 .. N \subseteq S
      BY <1>3, <2>1, <2>2, UpTo
    <3> QED
      BY <3>1 DEF S
  <2> QED
    BY <1>8, <2>3
<1>10. parts \in Seq(Seq(Bytes)) /\ Len(parts) = N /\ \A k \in 1 .. N : parts[k] = bytes(k)
  <2>1. parts \in [1 .. N -> Seq(Bytes)]
    BY <1>5
  <2>2. \A k \in 1 .. N : parts[k] = bytes(k)
    OBVIOUS
  <2> HIDE DEF parts
  <2> QED
    BY <1>3, <2>1, <2>2, FunctionIsSeq
<1> HIDE DEF parts
<1>11. Added(parts, last)
  BY <1>8, <1>9, <1>10 DEF Added
<1>12. /\ st \in Seq(Bytes) /\ Len(st) = last[N]
       /\ \A k \in 1 .. N : last[k] <= last[N] /\ SubSeq(st, last[k - 1] + 1, last[k]) = bytes(k)
  BY <1>10, <1>11, ConcatParts
<1> HIDE DEF st
<1>13. ASSUME NEW k \in 1 .. N, NEW j \in 1 .. Pieces(lengths[k])
       PROVE  FrameAt(st, last[k - 1] + FramesEnd(lengths[k], hl, j - 1), k, lengths[k], id[k], hl, j)
  <2> DEFINE a == last[k - 1]
             L == lengths[k]
             b == FramesEnd(L, hl, Pieces(L))
             i == id[k]
  <2>1. k \in Nat /\ L \in Nat /\ i \in Nat /\ j \in 1 .. Pieces(L)
    BY <1>4
  <2>2. a \in Nat /\ last[k] \in Nat /\ last[N] \in Nat
    <3>1. k - 1 \in 0 .. N /\ k \in 0 .. N /\ N \in 0 .. N
      BY <1>3
    <3> QED
      BY <1>9, <3>1
  <2>3. last[k] = a + b /\ last[k] <= Len(st) /\ SubSeq(st, a + 1, last[k]) = bytes(k)
    BY <1>5, <1>8, <1>12
  <2>4. bytes(k) = Framed(Payload(k, L), i, hl)
    BY DEF bytes
  <2> HIDE DEF a, L, i
  <2>5. a + b <= Len(st) /\ SubSeq(st, a + 1, a + b) = Framed(Payload(k, L), i, hl)
    BY <2>3, <2>4
  <2>6. FrameAt(st, a + FramesEnd(L, hl, j - 1), k, L, i, hl, j)
    BY <1>12, <2>1, <2>2, <2>5, FrameInStream
  <2> QED
    BY <2>6 DEF a, L, i
<1>14. pk = [k \in 1 .. N |-> PacketOf(w, k)]
  BY DEF PacketOf, Zeros
<1>15. Described(w, pk, st)
  <2>1. \A k \in 1 .. N : last[k] = last[k - 1] + FramesEnd(lengths[k], hl, Pieces(lengths[k]))
    BY <1>5, <1>8
  <2>2. w.lengths = lengths /\ w.hl = hl /\ w.id = id /\ w.last = last
    OBVIOUS
  <2> HIDE DEF w, pk
  <2>3. \A k \in 1 .. N : \A j \in 1 .. Pieces(w.lengths[k]) :
             FrameAt(st, Begin(w, k, j), k, w.lengths[k], w.id[k], w.hl, j)
    BY <1>13, <2>2 DEF Begin
  <2>4. /\ w.id \in [1 .. N + 1 -> 0 .. SEQ - 1] /\ w.id[1] = 0
        /\ \A k \in 1 .. N : w.id[k + 1] = (w.id[k] + Pieces(w.lengths[k])) % SEQ
    BY <1>2, <2>2
  <2>5. /\ w.last \in [0 .. N -> Nat] /\ w.last[0] = 0
        /\ \A k \in 1 .. N : w.last[k] = w.last[k - 1] + FramesEnd(w.lengths[k], w.hl, Pieces(w.lengths[k]))
    BY <1>8, <1>9, <2>1, <2>2
  <2>6. w.lengths \in Seq(Nat) /\ w.hl \in HeaderLengths /\ Len(w.lengths) = N
    BY <2>2 DEF N
  <2>7. pk = [k \in 1 .. N |-> PacketOf(w, k)] /\ st \in Seq(Bytes) /\ Len(st) = w.last[N]
    BY <1>12, <1>14, <2>2
  <2> QED
    BY <2>3, <2>4, <2>5, <2>6, <2>7 DEF Described
<1>16. Sent(lengths, hl).packets = pk /\ Sent(lengths, hl).stream = st
  <2> HIDE DEF pk
  <2> QED
    BY <1>1
<1>17. w.lengths = lengths /\ w.hl = hl
  OBVIOUS
<1> HIDE DEF w, pk
<1> QED
  BY <1>15, <1>16, <1>17

-----------------------------------------------------------------------------
\* Parsers, and what any bytes make of them.

Packets == [sequenceId : Bytes, content : Seq(Bytes), numPackets : Nat]

Parsers ==
    [mode : {"start", "header2", "header3", "payload"}, headerLength : HeaderLengths, length : Nat,
     buffer : Seq(Bytes), largePacketParts : Seq(Seq(Bytes)), firstPacketSequenceId : Bytes,
     out : Seq(Packets)]

\* Of a packet of which the length is known some bytes are missing.
WellFormed(p) ==
    /\ p \in Parsers
    /\ p.mode # "payload" => p.buffer = <<>>
    /\ p.mode = "payload" => Len(p.buffer) < p.length + p.headerLength - 3

LEMMA ConcatTyped == ASSUME NEW T, NEW parts \in Seq(Seq(T)) PROVE Concat(parts) \in Seq(T)
<1>1. PICK f \in [0 .. Len(parts) -> Seq(T)] : Concat(parts) = f[Len(parts)]
  BY ConcatSteps
<1>2. Len(parts) \in 0 .. Len(parts)
  OBVIOUS
<1> QED
  BY <1>1, <1>2

LEMMA AppendTyped == ASSUME NEW T, NEW s \in Seq(T), NEW x \in T
                     PROVE  Append(s, x) \in Seq(T) /\ Len(Append(s, x)) = Len(s) + 1
  OBVIOUS

\* Taking a frame changes neither what a parser waits for nor what it has of it.
Waits(p, q) == /\ q.mode = p.mode /\ q.buffer = p.buffer
               /\ q.headerLength = p.headerLength /\ q.length = p.length

LEMMA EmitTyped ==
    ASSUME NEW p \in Parsers, NEW id \in Bytes, NEW content \in Seq(Bytes), NEW n \in Nat
    PROVE  Emit(p, id, content, n) \in Parsers /\ Waits(p, Emit(p, id, content, n))
           /\ Emit(p, id, content, n).largePacketParts = p.largePacketParts
<1> DEFINE x == [sequenceId |-> id, content |-> content, numPackets |-> n]
<1>1. x \in Packets
  BY DEF Packets
<1>2. p.out \in Seq(Packets)
  BY DEF Parsers
<1> HIDE DEF x
<1>3. Append(p.out, x) \in Seq(Packets)
  BY <1>1, <1>2, AppendTyped
<1>4. Emit(p, id, content, n) = [p EXCEPT !.out = Append(p.out, x)]
  BY DEF Emit, x
<1> QED
  BY <1>3, <1>4 DEF Parsers, Waits

LEMMA FlushTyped ==
    ASSUME NEW p \in Parsers
    PROVE  flushLargePacket(p) \in Parsers /\ Waits(p, flushLargePacket(p))
<1> DEFINE z == Zeros(p.headerLength)
           c == Concat(p.largePacketParts)
           n == Len(p.largePacketParts)
           e == Emit(p, p.firstPacketSequenceId, z \o c, n)
<1>1. p.headerLength \in HeaderLengths /\ p.largePacketParts \in Seq(Seq(Bytes)) /\ p.firstPacketSequenceId \in Bytes
  BY DEF Parsers
<1>2. z \in Seq(Bytes) /\ c \in Seq(Bytes) /\ n \in Nat
  <2>1. z \in Seq(Bytes)
    BY <1>1, ZerosTyped
  <2>2. c \in Seq(Bytes)
    BY <1>1, ConcatTyped
  <2>3. n \in Nat
    BY <1>1, LenProperties
  <2> QED
    BY <2>1, <2>2, <2>3
<1>3. flushLargePacket(p) = [e EXCEPT !.largePacketParts = <<>>]
  BY DEF flushLargePacket, Zeros
<1> HIDE DEF z, c, n
<1>4. z \o c \in Seq(Bytes)
  BY <1>2, Joined
<1>5. e \in Parsers /\ Waits(p, e)
  BY <1>1, <1>2, <1>4, EmitTyped
<1> HIDE DEF e
<1>6. <<>> \in Seq(Seq(Bytes))
  OBVIOUS
<1> QED
  BY <1>3, <1>5, <1>6 DEF Parsers, Waits

\* The parts of a frame: its id, its payload, what follows its first four bytes.
LEMMA FrameTaken ==
    ASSUME NEW frame \in Seq(Bytes), NEW hl \in HeaderLengths, Len(frame) >= hl
    PROVE  /\ frame[4] \in Bytes /\ SubSeq(frame, hl + 1, Len(frame)) \in Seq(Bytes)
           /\ SubSeq(frame, 5, Len(frame)) \in Seq(Bytes)
<1> DEFINE n == Len(frame)
<1>0. n \in Nat /\ n >= 4 /\ hl \in Nat /\ n >= hl
  BY LenProperties DEF HeaderLengths
<1>1. 4 \in 1 .. n
  BY <1>0
<1>2. frame[4] \in Bytes
  BY <1>1, ElementOfSeq
<1>3. n - hl \in Nat /\ hl + (n - hl) = n /\ n - 4 \in Nat /\ 4 + (n - 4) = n
  BY <1>0
<1>4. SubSeq(frame, hl + 1, hl + (n - hl)) \in Seq(Bytes)
  <2> DEFINE b == n - hl
  <2>1. b \in Nat /\ hl + b <= Len(frame)
    BY <1>0, <1>3
  <2> HIDE DEF b, n
  <2>2. SubSeq(frame, hl + 1, hl + b) \in Seq(Bytes)
    BY <1>0, <2>1, SliceIs
  <2> QED
    BY <2>2 DEF b
<1>5. SubSeq(frame, 4 + 1, 4 + (n - 4)) \in Seq(Bytes)
  <2> DEFINE b == n - 4
             a == 4
  <2>1. a \in Nat /\ b \in Nat /\ a + b <= Len(frame)
    BY <1>0, <1>3
  <2> HIDE DEF a, b, n
  <2>2. SubSeq(frame, a + 1, a + b) \in Seq(Bytes)
    BY <2>1, SliceIs
  <2> QED
    BY <2>2 DEF a, b
<1> QED
  BY <1>2, <1>3, <1>4, <1>5

LEMMA OnFrameTyped ==
    ASSUME NEW p \in Parsers, NEW frame \in Seq(Bytes), Len(frame) >= p.headerLength
    PROVE  onFrame(p, frame) \in Parsers /\ Waits(p, onFrame(p, frame))
<1> DEFINE hl == p.headerLength
           id == frame[4]
           s == SubSeq(frame, hl + 1, Len(frame))
           c == SubSeq(frame, 5, Len(frame))
           parts == Append(p.largePacketParts, s)
           kept == [p EXCEPT !.largePacketParts = parts,
                             !.firstPacketSequenceId = IF p.largePacketParts = <<>> THEN id ELSE @]
<1>1. p.headerLength \in HeaderLengths /\ p.largePacketParts \in Seq(Seq(Bytes)) /\ p.firstPacketSequenceId \in Bytes
  BY DEF Parsers
<1>2. id \in Bytes /\ s \in Seq(Bytes) /\ c \in Seq(Bytes)
  BY <1>1, FrameTaken
<1>3. \/ onFrame(p, frame) = Emit(p, id, c, 1)
      \/ onFrame(p, frame) = flushLargePacket(kept)
      \/ onFrame(p, frame) = kept
  BY DEF onFrame
<1> HIDE DEF id, s, c
<1>4. parts \in Seq(Seq(Bytes))
  BY <1>1, <1>2, AppendTyped
<1> HIDE DEF parts
<1>5. kept \in Parsers /\ Waits(p, kept)
  BY <1>1, <1>2, <1>4 DEF Parsers, Waits
<1> HIDE DEF kept
<1>6. Emit(p, id, c, 1) \in Parsers /\ Waits(p, Emit(p, id, c, 1))
  BY <1>2, EmitTyped
<1>7. flushLargePacket(kept) \in Parsers /\ Waits(p, flushLargePacket(kept))
  BY <1>5, FlushTyped DEF Waits
<1> QED
  BY <1>3, <1>5, <1>6, <1>7

-----------------------------------------------------------------------------
\* The loop of executeStart.

Loops(chunk) == [parser : Parsers, start : 0 .. Len(chunk)]

Whole(l, chunk) ==
    /\ Len(chunk) - l.start >= 3
    /\ Len(chunk) >= l.start + readPacketLength(chunk, l.start) + l.parser.headerLength

\* What Turn makes of l when a whole packet is there.
Next1(l, chunk) ==
    LET length == readPacketLength(chunk, l.start)
    IN  onFrame([l.parser EXCEPT !.length = length],
                SubSeq(chunk, l.start + 1, l.start + length + l.parser.headerLength))

LEMMA TurnIs ==
    ASSUME NEW l, NEW chunk
    PROVE  /\ Whole(l, chunk) =>
                Turn(l, chunk) = [parser |-> Next1(l, chunk),
                                  start |-> l.start + readPacketLength(chunk, l.start) + l.parser.headerLength]
           /\ ~Whole(l, chunk) => Turn(l, chunk) = l
  BY DEF Turn, Whole, Next1

LEMMA LengthNat ==
    ASSUME NEW chunk \in Seq(Bytes), NEW off \in Nat, off + 3 <= Len(chunk)
    PROVE  readPacketLength(chunk, off) \in Nat
<1>1. off + 1 \in 1 .. Len(chunk) /\ off + 2 \in 1 .. Len(chunk) /\ off + 3 \in 1 .. Len(chunk)
  BY LenProperties
<1>2. chunk[off + 1] \in Nat /\ chunk[off + 2] \in Nat /\ chunk[off + 3] \in Nat
  BY <1>1, ElementOfSeq DEF Bytes
<1> DEFINE x == chunk[off + 1]
           y == chunk[off + 2]
           z == chunk[off + 3]
           B == BYTE
<1>3. readPacketLength(chunk, off) = IF y + z = 0 THEN x ELSE x + y * B + z * B * B
  BY DEF readPacketLength
<1>4. x \in Nat /\ y \in Nat /\ z \in Nat /\ B \in Nat
  BY <1>2, BaseFacts
<1> HIDE DEF x, y, z, B
<1>5. y * B \in Nat /\ z * B \in Nat
  BY <1>4
<1>6. z * B * B \in Nat
  BY <1>4, <1>5
<1> QED
  BY <1>3, <1>4, <1>5, <1>6

LEMMA TurnTyped ==
    ASSUME NEW chunk \in Seq(Bytes), NEW l \in Loops(chunk)
    PROVE  /\ Turn(l, chunk) \in Loops(chunk)
           /\ Turn(l, chunk).parser.mode = l.parser.mode /\ Turn(l, chunk).parser.buffer = l.parser.buffer
           /\ Turn(l, chunk).parser.headerLength = l.parser.headerLength
           /\ Whole(l, chunk) => Turn(l, chunk).start >= l.start + 4
<1> DEFINE n == readPacketLength(chunk, l.start)
           hl == l.parser.headerLength
           p == [l.parser EXCEPT !.length = n]
           end == l.start + n + hl
           frame == SubSeq(chunk, l.start + 1, end)
<1>1. l.parser \in Parsers /\ l.start \in Nat /\ l.start <= Len(chunk) /\ Len(chunk) \in Nat
  BY LenProperties DEF Loops
<1>2. hl \in HeaderLengths
  BY <1>1 DEF Parsers
<1>3. CASE Whole(l, chunk)
  <2>1. n \in Nat
    <3>1. l.start + 3 <= Len(chunk)
      BY <1>1, <1>3 DEF Whole
    <3> QED
      BY <1>1, <3>1, LengthNat
  <2>2. Len(chunk) >= end
    BY <1>3 DEF Whole
  <2>3. Turn(l, chunk) = [parser |-> onFrame(p, frame), start |-> end]
    BY <1>3, TurnIs DEF Next1
  <2> HIDE DEF n
  <2>4. p \in Parsers /\ p.mode = l.parser.mode /\ p.buffer = l.parser.buffer /\ p.headerLength = hl
    BY <1>1, <2>1 DEF Parsers
  <2>5. hl \in Nat /\ hl >= 4
    BY <1>2 DEF HeaderLengths
  <2> HIDE DEF p, hl
  <2>6. end \in 0 .. Len(chunk) /\ end >= l.start + 4
    BY <1>1, <2>1, <2>2, <2>5
  <2>7. frame \in Seq(Bytes) /\ Len(frame) = n + hl
    <3> DEFINE a == l.start
               b == n + hl
    <3>1. a \in Nat /\ b \in Nat /\ a + b <= Len(chunk) /\ a + b = end
      BY <1>1, <2>1, <2>2, <2>5
    <3> HIDE DEF a, b, end
    <3>2. SubSeq(chunk, a + 1, a + b) \in Seq(Bytes) /\ Len(SubSeq(chunk, a + 1, a + b)) = b
      BY <3>1, SliceIs
    <3> QED
      BY <3>1, <3>2 DEF a, b
  <2> HIDE DEF frame, end
  <2>8. Len(frame) >= p.headerLength
    BY <2>1, <2>4, <2>5, <2>7
  <2>9. onFrame(p, frame) \in Parsers /\ Waits(p, onFrame(p, frame))
    BY <2>4, <2>7, <2>8, OnFrameTyped
  <2> QED
    BY <2>3, <2>4, <2>6, <2>9 DEF Loops, Waits, hl
<1>4. CASE ~Whole(l, chunk)
  <2>1. Turn(l, chunk) = l
    BY <1>4, TurnIs
  <2> QED
    BY <1>4, <2>1
<1> QED
  BY <1>3, <1>4

Run(f, p, chunk) ==
    /\ f \in [0 .. Len(chunk) \div 4 -> Loops(chunk)] /\ f[0] = [parser |-> p, start |-> 0]
    /\ \A n \in 1 .. Len(chunk) \div 4 : f[n] = Turn(f[n - 1], chunk)

LEMMA LoopRuns ==
    ASSUME NEW p \in Parsers, NEW chunk \in Seq(Bytes)
    PROVE  LET N == Len(chunk) \div 4
           IN  \E f : /\ Run(f, p, chunk)
                      /\ executeStart(p, chunk)
                           = Leftover(f[N].parser, SubSeq(chunk, f[N].start + 1, Len(chunk)))
<1> DEFINE N == Len(chunk) \div 4
           X == Loops(chunk)
           a == [parser |-> p, start |-> 0]
           G == [m \in (1 .. N) \X X |-> Turn(m[2], chunk)]
           Body0(g) == [n \in 0 .. N |->
                           IF n = 0 THEN [parser |-> p, start |-> 0] ELSE Turn(g[n - 1], chunk)]
           h == CHOOSE g : g = Body0(g)
<1>1. N \in Nat /\ a \in X
  <2>1. Len(chunk) \in Nat
    BY LenProperties
  <2>2. N \in Nat
    BY <2>1, DivMod
  <2> QED
    BY <2>1, <2>2 DEF Loops
<1>2. \E g : g = Body0(g)
  <2>1. G \in [(1 .. N) \X X -> X]
    <3> SUFFICES ASSUME NEW n \in 1 .. N, NEW s \in X PROVE Turn(s, chunk) \in X
      OBVIOUS
    <3> QED
      BY TurnTyped
  <2>2. PICK f : Solves(f, N, X, a, G)
    <3> HIDE DEF G, N, X, a
    <3>2. Recurrence(N, X, a, G)
      BY <1>1, <2>1 DEF Recurrence
    <3> QED
      BY <3>2, Recursion
  <2>3. f \in [0 .. N -> X] /\ f[0] = a /\ \A n \in 1 .. N : f[n] = G[<<n, f[n - 1]>>]
    BY <2>2 DEF Solves
  <2>4. ASSUME NEW n \in 1 .. N PROVE f[n] = Turn(f[n - 1], chunk)
    <3>1. n - 1 \in 0 .. N /\ f[n - 1] \in X
      <4> HIDE DEF G, N, X
      <4> QED
        BY <1>1, <2>3
    <3>2. <<n, f[n - 1]>> \in (1 .. N) \X X
      BY <3>1
    <3>3. G[<<n, f[n - 1]>>] = Turn(f[n - 1], chunk)
      BY <3>2
    <3> QED
      BY <2>3, <3>3
  <2>5. f = Body0(f)
    <3>1. \A i \in 0 .. N : i # 0 => i \in 1 .. N
      BY <1>1
    <3> HIDE DEF G, N, X
    <3> QED
      BY <2>3, <2>4, <3>1
  <2> QED
    BY <2>5
<1>3. h = Body0(h)
  <2> HIDE DEF Body0
  <2> QED
    BY <1>2
<1>4. executeStart(p, chunk) = Leftover(h[N].parser, SubSeq(chunk, h[N].start + 1, Len(chunk)))
  BY DEF executeStart
<1> HIDE DEF h, N, X
<1>5. /\ h = [n \in 0 .. N |-> h[n]] /\ h[0] = a
      /\ \A n \in 1 .. N : h[n] = Turn(h[n - 1], chunk)
  <2>1. 0 \in 0 .. N /\ \A n \in 1 .. N : n \in 0 .. N /\ n # 0
    BY <1>1
  <2>2. \A n \in 0 .. N : h[n] = IF n = 0 THEN a ELSE Turn(h[n - 1], chunk)
    BY <1>3
  <2>3. h = [n \in 0 .. N |-> h[n]]
    BY <1>3
  <2> HIDE DEF a
  <2> QED
    BY <2>1, <2>2, <2>3
<1>6. h \in [0 .. N -> X]
  <2> DEFINE S == {n \in 0 .. N : h[n] \in X}
  <2> HIDE DEF a
  <2>1. 0 \in S
    BY <1>1, <1>5
  <2>2. ASSUME NEW n \in 1 .. N, n - 1 \in S PROVE n \in S
    <3>1. n \in 0 .. N /\ h[n - 1] \in X
      BY <1>1, <2>2
    <3>2. Turn(h[n - 1], chunk) \in X
      BY <3>1, TurnTyped DEF X
    <3> QED
      BY <1>5, <3>1, <3>2
  <2>3. \A n \in 0 .. N : h[n] \in X
    <3> HIDE DEF S
    <3>1. 0 .. N \subseteq S
      BY <1>1, <2>1, <2>2, UpTo
    <3> QED
      BY <3>1 DEF S
  <2> QED
    BY <1>5, <2>3
<1>7. Run(h, p, chunk)
  BY <1>5, <1>6 DEF Run, N, X
<1> QED
  BY <1>4, <1>7 DEF N

\* When the loop ends, no whole packet is left.
LEMMA LoopEnds ==
    ASSUME NEW p \in Parsers, NEW chunk \in Seq(Bytes), NEW f, Run(f, p, chunk),
           NEW e, e = f[Len(chunk) \div 4]
    PROVE  /\ e \in Loops(chunk) /\ ~Whole(e, chunk)
           /\ e.parser.mode = p.mode /\ e.parser.buffer = p.buffer /\ e.parser.headerLength = p.headerLength
<1> DEFINE N == Len(chunk) \div 4
           Kept(l) == l.parser.mode = p.mode /\ l.parser.buffer = p.buffer
                      /\ l.parser.headerLength = p.headerLength
           S == {n \in 0 .. N : Kept(f[n]) /\ (f[n].start >= 4 * n \/ ~Whole(f[n], chunk))}
<1>1. N \in Nat /\ Len(chunk) \in Nat /\ Len(chunk) - 4 * N <= 3
  <2>1. Len(chunk) \in Nat
    BY LenProperties
  <2> QED
    BY <2>1
<1>2. /\ f \in [0 .. N -> Loops(chunk)] /\ f[0] = [parser |-> p, start |-> 0]
      /\ \A n \in 1 .. N : f[n] = Turn(f[n - 1], chunk)
  BY DEF Run
<1> HIDE DEF N
<1>3. 0 \in S
  BY <1>1, <1>2
<1>4. ASSUME NEW n \in 1 .. N, n - 1 \in S PROVE n \in S
  <2> DEFINE l == f[n - 1]
             m == f[n]
  <2>1. n \in 0 .. N /\ n - 1 \in 0 .. N /\ Kept(l) /\ (l.start >= 4 * (n - 1) \/ ~Whole(l, chunk))
    BY <1>1, <1>4
  <2>2. l \in Loops(chunk) /\ m \in Loops(chunk) /\ m = Turn(l, chunk)
    BY <1>2, <2>1
  <2> HIDE DEF l, m
  <2>3. Kept(m)
    BY <2>1, <2>2, TurnTyped
  <2>4. CASE Whole(l, chunk)
    <3>1. m.start >= l.start + 4 /\ l.start \in Nat /\ m.start \in Nat /\ n \in Nat
      BY <1>1, <2>1, <2>2, <2>4, TurnTyped DEF Loops
    <3>2. m.start >= 4 * n
      BY <2>1, <2>4, <3>1
    <3> QED
      BY <2>1, <2>3, <3>2 DEF m
  <2>5. CASE ~Whole(l, chunk)
    <3>1. ~Whole(m, chunk)
      BY <2>2, <2>5, TurnIs
    <3> QED
      BY <2>1, <2>3, <3>1 DEF m
  <2> QED
    BY <2>4, <2>5
<1>5. N \in S
  <2> HIDE DEF S
  <2>1. 0 .. N \subseteq S
    BY <1>1, <1>3, <1>4, UpTo
  <2> QED
    BY <1>1, <2>1
<1>6. e = f[N]
  BY DEF N
<1>7. e \in Loops(chunk) /\ Kept(e) /\ (e.start >= 4 * N \/ ~Whole(e, chunk))
  BY <1>1, <1>2, <1>5, <1>6
<1>8. ASSUME e.start >= 4 * N, Whole(e, chunk) PROVE FALSE
  <2>1. e.start \in Nat /\ Len(chunk) - e.start <= 3 /\ e.parser.headerLength \in HeaderLengths
    BY <1>1, <1>7, <1>8 DEF Loops, Parsers
  <2>2. Len(chunk) - e.start >= 3
    BY <1>8 DEF Whole
  <2>3. readPacketLength(chunk, e.start) \in Nat
    <3>1. e.start + 3 <= Len(chunk)
      BY <1>1, <2>1, <2>2
    <3> QED
      BY <2>1, <3>1, LengthNat
  <2>4. Len(chunk) >= e.start + readPacketLength(chunk, e.start) + e.parser.headerLength
    BY <1>8 DEF Whole
  <2>5. e.parser.headerLength \in Nat /\ e.parser.headerLength >= 4
    BY <2>1 DEF HeaderLengths
  <2> QED
    BY <1>1, <2>1, <2>3, <2>4, <2>5
<1> QED
  BY <1>7, <1>8

LEMMA RestOf ==
    ASSUME NEW s \in Seq(Bytes), NEW a \in 0 .. Len(s)
    PROVE  /\ SubSeq(s, a + 1, Len(s)) \in Seq(Bytes) /\ Len(SubSeq(s, a + 1, Len(s))) = Len(s) - a
           /\ \A i \in 1 .. Len(s) - a : SubSeq(s, a + 1, Len(s))[i] = s[a + i]
<1> DEFINE b == Len(s) - a
<1>1. a \in Nat /\ b \in Nat /\ a + b = Len(s) /\ a + b <= Len(s)
  BY LenProperties
<1> HIDE DEF b
<1>2. /\ SubSeq(s, a + 1, a + b) \in Seq(Bytes) /\ Len(SubSeq(s, a + 1, a + b)) = b
      /\ \A i \in 1 .. b : SubSeq(s, a + 1, a + b)[i] = s[a + i]
  BY <1>1, SliceIs
<1> QED
  BY <1>1, <1>2 DEF b

LEMMA HeadOf ==
    ASSUME NEW s \in Seq(Bytes), NEW b \in 0 .. Len(s)
    PROVE  SubSeq(s, 1, b) \in Seq(Bytes) /\ Len(SubSeq(s, 1, b)) = b
           /\ \A i \in 1 .. b : SubSeq(s, 1, b)[i] = s[i]
<1> DEFINE a == 0
<1>1. a \in Nat /\ b \in Nat /\ a + b <= Len(s)
  BY LenProperties
<1>3. a + 1 = 1 /\ a + b = b /\ \A i \in 1 .. b : a + i = i
  OBVIOUS
<1> HIDE DEF a
<1>2. /\ SubSeq(s, a + 1, a + b) \in Seq(Bytes) /\ Len(SubSeq(s, a + 1, a + b)) = b
      /\ \A i \in 1 .. b : SubSeq(s, a + 1, a + b)[i] = s[a + i]
  BY <1>1, SliceIs
<1> QED
  BY <1>2, <1>3

LEMMA SumNat == ASSUME NEW x \in Nat, NEW y \in Nat
                PROVE  x + y * BYTE \in Nat /\ x + y * BYTE * BYTE \in Nat
<1> DEFINE B == BYTE
<1>1. B \in Nat
  BY BaseFacts
<1> HIDE DEF B
<1>2. y * B \in Nat
  BY <1>1
<1>3. y * B * B \in Nat
  BY <1>1, <1>2
<1> QED
  BY <1>2, <1>3 DEF B

\* The end of the loop: e, and the rest of the chunk.
LEMMA LeftoverWell ==
    ASSUME NEW chunk \in Seq(Bytes), NEW e \in Loops(chunk), ~Whole(e, chunk),
           e.parser.mode = "start", e.parser.buffer = <<>>
    PROVE  WellFormed(Leftover(e.parser, SubSeq(chunk, e.start + 1, Len(chunk))))
<1> DEFINE p == e.parser
           rest == SubSeq(chunk, e.start + 1, Len(chunk))
           n == Len(chunk) - e.start
           hl == p.headerLength
           length == readPacketLength(rest, 0)
           b == SubSeq(rest, 4, Len(rest))
<1>1. p \in Parsers /\ e.start \in 0 .. Len(chunk) /\ hl \in HeaderLengths
  BY DEF Loops, Parsers
<1>2. rest \in Seq(Bytes) /\ Len(rest) = n /\ \A i \in 1 .. n : rest[i] = chunk[e.start + i]
  BY <1>1, RestOf
<1>3. n \in Nat /\ hl \in Nat /\ Len(chunk) \in Nat /\ e.start \in Nat
  BY <1>1, LenProperties DEF HeaderLengths
<1>4. ~Whole(e, chunk)
  OBVIOUS
<1>5. p.mode = "start" /\ p.buffer = <<>>
  OBVIOUS
<1>0. Leftover(p, rest) =
        CASE Len(rest) = 0 -> p
          [] Len(rest) = 1 -> [p EXCEPT !.length = rest[1], !.mode = "header2"]
          [] Len(rest) = 2 -> [p EXCEPT !.length = rest[1] + rest[2] * BYTE, !.mode = "header3"]
          [] OTHER -> [p EXCEPT !.length = length, !.buffer = b, !.mode = "payload"]
  BY DEF Leftover
<1> HIDE DEF p, rest
<1> DEFINE W == WellFormed(Leftover(p, rest))
<1>6. n = 0 => W
  <2>0. SUFFICES ASSUME n = 0 PROVE W
    OBVIOUS
  <2>1. Leftover(p, rest) = p
    BY <1>0, <1>2, <2>0
  <2>2. WellFormed(p)
    BY <1>1, <1>5 DEF WellFormed
  <2> QED
    BY <2>1, <2>2
<1>7. n = 1 => W
  <2>0. SUFFICES ASSUME n = 1 PROVE W
    OBVIOUS
  <2>1. Leftover(p, rest) = [p EXCEPT !.length = rest[1], !.mode = "header2"]
    BY <1>0, <1>2, <2>0
  <2>2. rest[1] \in Nat
    <3>1. 1 \in 1 .. Len(rest)
      BY <1>2, <2>0
    <3> QED
      BY <1>2, <3>1, ElementOfSeq DEF Bytes
  <2> QED
    <3> DEFINE x == rest[1]
               v == [p EXCEPT !.length = x, !.mode = "header2"]
    <3>1. x \in Nat
      BY <2>2
    <3> HIDE DEF x
    <3>2. WellFormed(v)
      BY <1>1, <1>5, <3>1 DEF WellFormed, Parsers
    <3> QED
      BY <2>1, <3>2 DEF x
<1>8. n = 2 => W
  <2>0. SUFFICES ASSUME n = 2 PROVE W
    OBVIOUS
  <2>1. Leftover(p, rest) = [p EXCEPT !.length = rest[1] + rest[2] * BYTE, !.mode = "header3"]
    BY <1>0, <1>2, <2>0
  <2>2. rest[1] + rest[2] * BYTE \in Nat
    <3>1. 1 \in 1 .. Len(rest) /\ 2 \in 1 .. Len(rest)
      BY <1>2, <2>0
    <3>2. rest[1] \in Nat /\ rest[2] \in Nat
      BY <1>2, <3>1, ElementOfSeq DEF Bytes
    <3> QED
      BY <3>2, SumNat
  <2> DEFINE x == rest[1] + rest[2] * BYTE
  <2> HIDE DEF x
  <2>3. x \in Nat /\ Leftover(p, rest) = [p EXCEPT !.length = x, !.mode = "header3"]
    BY <2>1, <2>2 DEF x
  <2>4. WellFormed([p EXCEPT !.length = x, !.mode = "header3"])
    BY <1>1, <1>5, <2>3 DEF WellFormed, Parsers
  <2> QED
    BY <2>3, <2>4
<1>9. n >= 3 => W
  <2>0. SUFFICES ASSUME n >= 3 PROVE W
    OBVIOUS
  <2>1. Leftover(p, rest) = [p EXCEPT !.length = length, !.buffer = b, !.mode = "payload"]
    BY <1>0, <1>2, <1>3, <2>0
  <2>2. length \in Nat
    <3>1. 0 + 3 <= Len(rest) /\ 0 \in Nat
      BY <1>2, <2>0
    <3> QED
      BY <1>2, <3>1, LengthNat
  <2>3. b \in Seq(Bytes) /\ Len(b) = n - 3
    <3>1. 3 \in 0 .. Len(rest) /\ 3 + 1 = 4
      BY <1>2, <1>3, <2>0
    <3>2. SubSeq(rest, 3 + 1, Len(rest)) \in Seq(Bytes) /\ Len(SubSeq(rest, 3 + 1, Len(rest))) = Len(rest) - 3
      BY <1>2, <3>1, RestOf
    <3> QED
      BY <1>2, <3>1, <3>2
  <2>4. length = readPacketLength(chunk, e.start)
    <3>1. /\ rest[0 + 1] = chunk[e.start + 1] /\ rest[0 + 2] = chunk[e.start + 2]
          /\ rest[0 + 3] = chunk[e.start + 3]
      BY <1>2, <1>3, <2>0
    <3> QED
      BY <3>1 DEF readPacketLength
  <2>5. Len(b) < length + hl - 3
    <3>1. ~(Len(chunk) >= e.start + length + hl)
      BY <1>3, <1>4, <2>0, <2>4 DEF Whole, p
    <3> DEFINE lb == Len(b)
               lc == Len(chunk)
               st == e.start
    <3>2. lc \in Nat /\ st \in Nat /\ hl \in Nat /\ length \in Nat /\ lb = lc - st - 3 /\ ~(lc >= st + length + hl)
      BY <1>3, <2>2, <2>3, <3>1
    <3> HIDE DEF lb, lc, st, length, hl
    <3>3. lb < length + hl - 3
      BY <3>2
    <3> QED
      BY <3>3 DEF lb
  <2> HIDE DEF length, b
  <2>6. WellFormed([p EXCEPT !.length = length, !.buffer = b, !.mode = "payload"])
    BY <1>1, <2>2, <2>3, <2>5 DEF WellFormed, Parsers
  <2> QED
    BY <2>1, <2>6
<1>10. n = 0 \/ n = 1 \/ n = 2 \/ n >= 3
  BY <1>3
<1>11. W
  BY <1>6, <1>7, <1>8, <1>9, <1>10
<1> QED
  BY <1>11 DEF p, rest

LEMMA StartWell ==
    ASSUME NEW p, WellFormed(p), p.mode = "start", NEW chunk \in Seq(Bytes)
    PROVE  WellFormed(executeStart(p, chunk))
<1> DEFINE N == Len(chunk) \div 4
<1>1. p \in Parsers /\ p.buffer = <<>>
  BY DEF WellFormed
<1>2. PICK f : /\ Run(f, p, chunk)
               /\ executeStart(p, chunk) = Leftover(f[N].parser, SubSeq(chunk, f[N].start + 1, Len(chunk)))
  BY <1>1, LoopRuns
<1> DEFINE e == f[N]
<1>3. /\ e \in Loops(chunk) /\ ~Whole(e, chunk)
      /\ e.parser.mode = p.mode /\ e.parser.buffer = p.buffer /\ e.parser.headerLength = p.headerLength
  BY <1>1, <1>2, LoopEnds
<1> HIDE DEF e
<1>4. WellFormed(Leftover(e.parser, SubSeq(chunk, e.start + 1, Len(chunk))))
  BY <1>1, <1>3, LeftoverWell
<1> QED
  BY <1>2, <1>4 DEF e

\* The rest of a packet of which the length is known.
Missing(p) == p.length - Len(p.buffer) + p.headerLength - 3

FrameOf(p, chunk) == LengthBytes(p.length) \o p.buffer \o SubSeq(chunk, 1, Missing(p))

Completed(p, chunk) == [onFrame(p, FrameOf(p, chunk)) EXCEPT !.buffer = <<>>, !.mode = "start"]

LEMMA PayloadIs ==
    ASSUME NEW p, NEW chunk
    PROVE  executePayload(p, chunk) =
             IF Len(chunk) >= Missing(p)
             THEN executeStart(Completed(p, chunk), SubSeq(chunk, Missing(p) + 1, Len(chunk)))
             ELSE [p EXCEPT !.buffer = @ \o chunk]
  BY DEF executePayload, Missing, FrameOf, Completed

LEMMA MissingNat ==
    ASSUME NEW p, WellFormed(p), p.mode = "payload"
    PROVE  /\ p \in Parsers /\ p.length \in Nat /\ p.headerLength \in Nat /\ p.headerLength >= 4
           /\ p.buffer \in Seq(Bytes) /\ Len(p.buffer) \in Nat
           /\ Missing(p) \in Nat /\ Missing(p) > 0
           /\ 3 + Len(p.buffer) + Missing(p) = p.length + p.headerLength
<1>1. /\ p \in Parsers /\ p.length \in Nat /\ p.headerLength \in HeaderLengths /\ p.buffer \in Seq(Bytes)
      /\ Len(p.buffer) < p.length + p.headerLength - 3
  BY DEF WellFormed, Parsers
<1>2. p.headerLength \in Nat /\ p.headerLength >= 4 /\ Len(p.buffer) \in Nat
  BY <1>1, LenProperties DEF HeaderLengths
<1> DEFINE l == p.length
           h == p.headerLength
           b == Len(p.buffer)
<1>3. l \in Nat /\ h \in Nat /\ b \in Nat /\ b < l + h - 3 /\ Missing(p) = l - b + h - 3
  BY <1>1, <1>2 DEF Missing
<1> DEFINE m == Missing(p)
<1> HIDE DEF l, h, b, m
<1>4. m \in Nat /\ m > 0 /\ 3 + b + m = l + h
  BY <1>3 DEF m
<1> QED
  BY <1>1, <1>2, <1>4 DEF l, h, b, m

LEMMA PayloadWell ==
    ASSUME NEW p, WellFormed(p), p.mode = "payload", NEW chunk \in Seq(Bytes)
    PROVE  WellFormed(executePayload(p, chunk))
<1> DEFINE m == Missing(p)
           lb == LengthBytes(p.length)
           c == SubSeq(chunk, 1, m)
           frame == FrameOf(p, chunk)
<1>1. /\ p \in Parsers /\ p.length \in Nat /\ p.headerLength \in Nat /\ p.headerLength >= 4
      /\ p.buffer \in Seq(Bytes) /\ Len(p.buffer) \in Nat
      /\ m \in Nat /\ m > 0
      /\ 3 + Len(p.buffer) + m = p.length + p.headerLength
  BY MissingNat
<1>2. Len(chunk) \in Nat
  BY LenProperties
<1>3. CASE Len(chunk) >= m
  <2>1. lb \in Seq(Bytes) /\ Len(lb) = 3
    BY <1>1, BytesTyped
  <2>2. m \in 0 .. Len(chunk)
    BY <1>1, <1>2, <1>3
  <2>3. c \in Seq(Bytes) /\ Len(c) = m
    BY <2>2, HeadOf
  <2>4. frame = lb \o p.buffer \o c
    BY DEF FrameOf
  <2>5. executePayload(p, chunk) = executeStart(Completed(p, chunk), SubSeq(chunk, m + 1, Len(chunk)))
    BY <1>3, PayloadIs
  <2> HIDE DEF lb, c, m, frame
  <2>6. lb \o p.buffer \in Seq(Bytes) /\ Len(lb \o p.buffer) = Len(lb) + Len(p.buffer)
    BY <1>1, <2>1, Joined
  <2>7. (lb \o p.buffer) \o c \in Seq(Bytes) /\ Len((lb \o p.buffer) \o c) = Len(lb \o p.buffer) + Len(c)
    BY <2>3, <2>6, Joined
  <2>8. frame \in Seq(Bytes) /\ Len(frame) >= p.headerLength
    BY <1>1, <2>1, <2>3, <2>4, <2>6, <2>7
  <2>9. onFrame(p, frame) \in Parsers
    BY <1>1, <2>8, OnFrameTyped
  <2>10. Completed(p, chunk) = [onFrame(p, frame) EXCEPT !.buffer = <<>>, !.mode = "start"]
    BY DEF Completed, frame
  <2>11. <<>> \in Seq(Bytes)
    OBVIOUS
  <2>12. WellFormed(Completed(p, chunk)) /\ Completed(p, chunk).mode = "start"
    BY <2>9, <2>10, <2>11 DEF WellFormed, Parsers
  <2>13. SubSeq(chunk, m + 1, Len(chunk)) \in Seq(Bytes)
    BY <2>2, RestOf
  <2> QED
    BY <2>5, <2>12, <2>13, StartWell
<1>4. CASE ~(Len(chunk) >= m)
  <2>1. executePayload(p, chunk) = [p EXCEPT !.buffer = p.buffer \o chunk]
    BY <1>4, PayloadIs
  <2>2. p.buffer \o chunk \in Seq(Bytes) /\ Len(p.buffer \o chunk) = Len(p.buffer) + Len(chunk)
    BY <1>1, Joined
  <2> DEFINE b == p.buffer \o chunk
  <2>3. b \in Seq(Bytes) /\ Len(b) < p.length + p.headerLength - 3
    BY <1>1, <1>2, <1>4, <2>2
  <2> HIDE DEF b
  <2>4. executePayload(p, chunk) = [p EXCEPT !.buffer = b]
    BY <2>1 DEF b
  <2> QED
    BY <1>1, <2>3, <2>4 DEF WellFormed, Parsers
<1> QED
  BY <1>3, <1>4

LEMMA TailOf ==
    ASSUME NEW s \in Seq(Bytes), s # <<>>
    PROVE  /\ s[1] \in Nat /\ Len(s) \in Nat /\ Len(s) >= 1 /\ Tail(s) \in Seq(Bytes) /\ Len(Tail(s)) = Len(s) - 1
           /\ Tail(s) = SubSeq(s, 2, Len(s))
<1>1. Len(s) \in Nat /\ Len(s) >= 1
  BY EmptySeq
<1>2. 1 \in 1 .. Len(s)
  BY <1>1
<1>3. s[1] \in Nat
  BY <1>2, ElementOfSeq DEF Bytes
<1> QED
  BY <1>1, <1>3, HeadTailProperties, TailIsSubSeq

LEMMA Header3Well ==
    ASSUME NEW p, WellFormed(p), p.mode = "header3", NEW chunk \in Seq(Bytes), chunk # <<>>
    PROVE  WellFormed(executeHeader3(p, chunk))
<1> DEFINE n == p.length + chunk[1] * BYTE * BYTE
           q == [p EXCEPT !.length = n, !.mode = "payload"]
<1>1. p \in Parsers /\ p.length \in Nat /\ p.buffer = <<>> /\ p.headerLength \in HeaderLengths
  BY DEF WellFormed, Parsers
<1>2. chunk[1] \in Nat /\ Tail(chunk) \in Seq(Bytes)
  BY TailOf
<1>3. n \in Nat
  BY <1>1, <1>2, SumNat
<1>4. executeHeader3(p, chunk) = executePayload(q, Tail(chunk))
  BY DEF executeHeader3
<1> HIDE DEF n
<1>5. q \in Parsers /\ q.mode = "payload" /\ q.buffer = <<>> /\ q.length = n /\ q.headerLength = p.headerLength
  BY <1>1, <1>3 DEF Parsers
<1> HIDE DEF q
<1>6. Len(q.buffer) = 0 /\ q.headerLength \in Nat /\ q.headerLength >= 4
  BY <1>1, <1>5 DEF HeaderLengths
<1>7. WellFormed(q)
  BY <1>3, <1>5, <1>6 DEF WellFormed
<1> QED
  BY <1>2, <1>4, <1>5, <1>7, PayloadWell

LEMMA Header2Well ==
    ASSUME NEW p, WellFormed(p), p.mode = "header2", NEW chunk \in Seq(Bytes), chunk # <<>>
    PROVE  WellFormed(executeHeader2(p, chunk))
<1> DEFINE n == p.length + chunk[1] * BYTE
           q == [p EXCEPT !.length = n, !.mode = "header3"]
<1>1. p \in Parsers /\ p.length \in Nat /\ p.buffer = <<>>
  BY DEF WellFormed, Parsers
<1>2. chunk[1] \in Nat /\ Tail(chunk) \in Seq(Bytes) /\ Len(Tail(chunk)) = Len(chunk) - 1 /\ Len(chunk) \in Nat
  BY TailOf
<1>3. n \in Nat
  BY <1>1, <1>2, SumNat
<1>4. executeHeader2(p, chunk) = IF Len(chunk) > 1 THEN executeHeader3(q, Tail(chunk)) ELSE q
  BY DEF executeHeader2
<1> HIDE DEF n
<1>5. WellFormed(q) /\ q.mode = "header3"
  BY <1>1, <1>3 DEF WellFormed, Parsers
<1> HIDE DEF q
<1>6. Len(chunk) > 1 => Tail(chunk) # <<>>
  <2>1. Len(chunk) > 1 => Len(Tail(chunk)) # 0
    BY <1>2
  <2> DEFINE t == Tail(chunk)
  <2>2. Len(<<>>) = 0
    OBVIOUS
  <2>3. Len(chunk) > 1 => Len(t) # 0
    BY <2>1
  <2> HIDE DEF t
  <2>4. Len(chunk) > 1 => t # <<>>
    BY <2>2, <2>3
  <2> QED
    BY <2>4 DEF t
<1> QED
  BY <1>2, <1>4, <1>5, <1>6, Header3Well

LEMMA ExecuteWell ==
    ASSUME NEW p, WellFormed(p), NEW chunk \in Seq(Bytes), chunk # <<>>
    PROVE  WellFormed(execute(p, chunk))
<1>1. p.mode \in {"start", "header2", "header3", "payload"}
  BY DEF WellFormed, Parsers
<1> QED
  BY <1>1, StartWell, Header2Well, Header3Well, PayloadWell DEF execute

-----------------------------------------------------------------------------
\* Where a parser is in the stream.

\* The packets handed over once k are complete.
OutOf(w, k) == [sequenceId |-> w.id[k], content |-> Zeros(w.hl) \o Payload(k, w.lengths[k]),
                numPackets |-> Pieces(w.lengths[k])]

Out(w, k) == [i \in 1 .. k |-> OutOf(w, i)]

\* After j frames of packet k + 1 there is another one; its payload, its bytes.
More(w, k, j) == /\ k \in Nat /\ k < Len(w.lengths)
                 /\ j \in Nat /\ j < Pieces(w.lengths[k + 1])

Size(w, k, j) == PieceLength(w.lengths[k + 1], j + 1)

Frame(w, k, j) == FrameBytes(k + 1, w.lengths[k + 1], w.id[k + 1], w.hl, j + 1)

\* Where it begins, or where packet k ends.
Place(w, k, j) == IF j = 0 THEN w.last[k] ELSE Begin(w, k + 1, j + 1)

\* k packets are complete, and j frames of the next one.
Boundary(w, p, k, j) ==
    /\ p \in Parsers /\ p.headerLength = w.hl
    /\ k \in 0 .. Len(w.lengths) /\ j \in Nat
    /\ k = Len(w.lengths) => j = 0
    /\ k < Len(w.lengths) => j < Pieces(w.lengths[k + 1])
    /\ p.out = Out(w, k)
    /\ p.largePacketParts = [i \in 1 .. j |-> Piece(k + 1, w.lengths[k + 1], i)]
    /\ j > 0 => p.firstPacketSequenceId = w.id[k + 1]

\* The parser has taken x bytes, all of them in whole frames.
Reached(w, p, x) == \E k, j : Boundary(w, p, k, j) /\ x = Place(w, k, j)

\* r bytes of the frame that begins at a, with n bytes of payload, were taken.
Within(p, st, a, n, r) ==
    /\ r = 1 => p.mode = "header2" /\ p.length = LengthBytes(n)[1]
    /\ r = 2 => p.mode = "header3" /\ p.length = LengthBytes(n)[1] + LengthBytes(n)[2] * BYTE
    /\ r < 3 => p.buffer = <<>>
    /\ r >= 3 => p.mode = "payload" /\ p.length = n /\ p.buffer = SubSeq(st, a + 4, a + r)

\* r bytes, at least one and not all, of the next frame were taken.
Amid(w, st, p, k, j, r) ==
    /\ Boundary(w, p, k, j) /\ More(w, k, j)
    /\ r \in Nat /\ r >= 1 /\ r < w.hl + Size(w, k, j)
    /\ Within(p, st, Place(w, k, j), Size(w, k, j), r)

\* The parser has taken the first x bytes of st.
At(w, st, p, x) ==
    \/ Reached(w, p, x) /\ p.mode = "start" /\ p.buffer = <<>>
    \/ \E k, j, r : Amid(w, st, p, k, j, r) /\ x = Place(w, k, j) + r

LEMMA DescribedFacts ==
    ASSUME NEW w, NEW pk, NEW st, Described(w, pk, st)
    PROVE  /\ w.lengths \in Seq(Nat) /\ Len(w.lengths) \in Nat /\ w.hl \in HeaderLengths
           /\ w.hl \in Nat /\ w.hl >= 4
           /\ st \in Seq(Bytes) /\ Len(st) \in Nat /\ Len(st) = w.last[Len(w.lengths)]
           /\ \A k \in 0 .. Len(w.lengths) : w.last[k] \in Nat
<1>1. /\ w.lengths \in Seq(Nat) /\ w.hl \in HeaderLengths /\ st \in Seq(Bytes)
      /\ Len(st) = w.last[Len(w.lengths)] /\ w.last \in [0 .. Len(w.lengths) -> Nat]
  BY DEF Described
<1>2. Len(w.lengths) \in Nat /\ Len(st) \in Nat
  BY <1>1, LenProperties
<1>3. w.hl \in Nat /\ w.hl >= 4
  BY <1>1 DEF HeaderLengths
<1>4. \A k \in 0 .. Len(w.lengths) : w.last[k] \in Nat
  BY <1>1
<1> QED
  BY <1>1, <1>2, <1>3, <1>4

\* The next frame, in the terms of the packets.
LEMMA NextFrame ==
    ASSUME NEW w, NEW pk, NEW st, Described(w, pk, st), NEW k, NEW j, More(w, k, j)
    PROVE  /\ k + 1 \in 1 .. Len(w.lengths) /\ k \in 0 .. Len(w.lengths) /\ k + 1 \in 0 .. Len(w.lengths)
           /\ j + 1 \in 1 .. Pieces(w.lengths[k + 1]) /\ w.lengths[k + 1] \in Nat /\ w.id[k + 1] \in 0 .. SEQ - 1
           /\ Pieces(w.lengths[k + 1]) \in Nat
           /\ FrameAt(st, Begin(w, k + 1, j + 1), k + 1, w.lengths[k + 1], w.id[k + 1], w.hl, j + 1)
           /\ w.last[k] \in Nat
           /\ w.last[k + 1] = w.last[k] + FramesEnd(w.lengths[k + 1], w.hl, Pieces(w.lengths[k + 1]))
           /\ Begin(w, k + 1, j + 1) = w.last[k] + FramesEnd(w.lengths[k + 1], w.hl, j)
<1> DEFINE N == Len(w.lengths)
           K == k + 1
           J == j + 1
<1>0. w.lengths \in Seq(Nat) /\ N \in Nat
  BY DescribedFacts
<1>1. k \in Nat /\ k < N /\ j \in Nat /\ j < Pieces(w.lengths[K])
  BY DEF More
<1>2. K \in 1 .. N /\ K \in 1 .. N + 1 /\ k \in 0 .. N /\ K \in 0 .. N /\ K - 1 = k
  <2> HIDE DEF N
  <2> QED
    BY <1>0, <1>1
<1>3. w.lengths[K] \in Nat
  BY <1>0, <1>2, ElementOfSeq
<1>4. Pieces(w.lengths[K]) \in Nat
  BY <1>3, PieceFacts
<1>5. J \in 1 .. Pieces(w.lengths[K]) /\ J - 1 = j
  <2> DEFINE q == Pieces(w.lengths[K])
  <2>1. q \in Nat /\ j < q
    BY <1>1, <1>4
  <2> HIDE DEF q
  <2>2. J \in 1 .. q /\ J - 1 = j
    BY <1>1, <2>1
  <2> QED
    BY <2>2 DEF q
<1>6. /\ w.id \in [1 .. N + 1 -> 0 .. SEQ - 1] /\ w.last \in [0 .. N -> Nat]
      /\ \A i \in 1 .. N : w.last[i] = w.last[i - 1] + FramesEnd(w.lengths[i], w.hl, Pieces(w.lengths[i]))
      /\ \A i \in 1 .. N : \A m \in 1 .. Pieces(w.lengths[i]) :
             FrameAt(st, Begin(w, i, m), i, w.lengths[i], w.id[i], w.hl, m)
  BY DEF Described
<1> HIDE DEF N, K, J
<1>7. w.id[K] \in 0 .. SEQ - 1 /\ w.last[k] \in Nat
  BY <1>2, <1>6
<1>8. w.last[K] = w.last[k] + FramesEnd(w.lengths[K], w.hl, Pieces(w.lengths[K]))
  BY <1>2, <1>6
<1>9. FrameAt(st, Begin(w, K, J), K, w.lengths[K], w.id[K], w.hl, J)
  BY <1>2, <1>5, <1>6
<1>10. Begin(w, K, J) = w.last[k] + FramesEnd(w.lengths[K], w.hl, j)
  BY <1>2, <1>5 DEF Begin
<1> QED
  BY <1>2, <1>3, <1>4, <1>5, <1>7, <1>8, <1>9, <1>10 DEF N, K, J

LEMMA FramePlace ==
    ASSUME NEW w, NEW pk, NEW st, Described(w, pk, st), NEW k, NEW j, More(w, k, j)
    PROVE  /\ Place(w, k, j) \in Nat /\ Size(w, k, j) \in Nat
           /\ Place(w, k, j) + (w.hl + Size(w, k, j)) <= Len(st)
           /\ SubSeq(st, Place(w, k, j) + 1, Place(w, k, j) + (w.hl + Size(w, k, j))) = Frame(w, k, j)
           /\ j + 1 < Pieces(w.lengths[k + 1])
                => Place(w, k, j + 1) = Place(w, k, j) + (w.hl + Size(w, k, j))
           /\ j + 1 = Pieces(w.lengths[k + 1])
                => Place(w, k + 1, 0) = Place(w, k, j) + (w.hl + Size(w, k, j))
<1> DEFINE L == w.lengths[k + 1]
           hl == w.hl
           a == Begin(w, k + 1, j + 1)
           n == Size(w, k, j)
           c == w.last[k]
           J == j + 1
<1>1. /\ J \in 1 .. Pieces(L) /\ L \in Nat /\ Pieces(L) \in Nat /\ c \in Nat
      /\ FrameAt(st, a, k + 1, L, w.id[k + 1], hl, J)
      /\ w.last[k + 1] = c + FramesEnd(L, hl, Pieces(L)) /\ a = c + FramesEnd(L, hl, j)
  BY NextFrame
<1>2. hl \in HeaderLengths /\ j \in Nat /\ k \in Nat
  BY DescribedFacts DEF More
<1>3. J - 1 = j
  BY <1>2
<1>4. n = PieceLength(L, J)
  BY DEF Size
<1>5. /\ FramesEnd(L, hl, 0) = 0
      /\ FramesEnd(L, hl, J) = FramesEnd(L, hl, J - 1) + (hl + PieceLength(L, J))
      /\ FramesEnd(L, hl, J) \in Nat
  BY <1>1, <1>2, FramesEnds
<1>6. n \in Nat
  BY <1>1, <1>4, PieceFacts
<1>7. a \in Nat /\ a + (hl + n) <= Len(st) /\ SubSeq(st, a + 1, a + (hl + n)) = Frame(w, k, j)
  BY <1>1, <1>4 DEF FrameAt, Frame
<1>8. Place(w, k, j) = a
  <2>1. j = 0 => a = c
    <3> HIDE DEF a, c, L, hl
    <3>1. j = 0 => a = c + FramesEnd(L, hl, 0)
      BY <1>1
    <3> QED
      BY <1>1, <1>5, <3>1
  <2> QED
    BY <2>1 DEF Place
<1>9. c + FramesEnd(L, hl, J) = a + (hl + n)
  <2> DEFINE x == FramesEnd(L, hl, J)
             y == FramesEnd(L, hl, j)
  <2>1. x = y + (hl + n)
    BY <1>3, <1>4, <1>5
  <2>2. hl \in Nat
    BY <1>2 DEF HeaderLengths
  <2>3. a = c + y /\ x \in Nat
    BY <1>1, <1>5
  <2>4. y \in Nat
    BY <1>1, <1>2, <1>3, FramesEnds
  <2> HIDE DEF x, y, hl, n, a, c
  <2>5. c + x = a + (hl + n)
    BY <1>1, <1>6, <2>1, <2>2, <2>3, <2>4
  <2> QED
    BY <2>5 DEF x
<1>10. J < Pieces(L) => Place(w, k, J) = a + (hl + n)
  <2>1. J # 0 /\ (J + 1) - 1 = J /\ (k + 1) - 1 = k
    BY <1>2
  <2>2. Place(w, k, J) = c + FramesEnd(L, hl, J)
    BY <2>1 DEF Place, Begin
  <2> QED
    BY <1>9, <2>2
<1>11. J = Pieces(L) => Place(w, k + 1, 0) = a + (hl + n)
  <2>1. Place(w, k + 1, 0) = w.last[k + 1]
    BY DEF Place
  <2> QED
    BY <1>1, <1>9, <2>1
<1> QED
  BY <1>6, <1>7, <1>8, <1>10, <1>11

\* What the parser takes out of a frame, as one fact.
TakenApart(f, K, L, id, hl, J) ==
    /\ f \in Seq(Bytes) /\ Len(f) = hl + PieceLength(L, J)
    /\ SubSeq(f, 1, 3) = LengthBytes(PieceLength(L, J))
    /\ f[4] = (id + J - 1) % SEQ
    /\ SubSeq(f, 5, Len(f)) = Zeros(hl) \o Piece(K, L, J)
    /\ SubSeq(f, hl + 1, Len(f)) = Piece(K, L, J)

LEMMA FrameTakenApart ==
    ASSUME NEW K \in Nat, NEW L \in Nat, NEW id \in Nat, NEW hl \in HeaderLengths, NEW J \in 1 .. Pieces(L)
    PROVE  TakenApart(FrameBytes(K, L, id, hl, J), K, L, id, hl, J)
  BY FrameParts DEF TakenApart

LEMMA OutTyped ==
    ASSUME NEW w, NEW k \in Nat
    PROVE  /\ Append(Out(w, k), OutOf(w, k + 1)) = Out(w, k + 1)
           /\ Len(Out(w, k)) = k
  BY DEF Out

LEMMA NoParts == ASSUME NEW K, NEW L
                 PROVE  [i \in 1 .. 0 |-> Piece(K, L, i)] = <<>>
  OBVIOUS

\* A whole payload is one piece, or all of them.
LEMMA OnePiece ==
    ASSUME NEW K \in Nat, NEW L \in Nat, Pieces(L) = 1
    PROVE  Piece(K, L, 1) = Payload(K, L)
<1>1. Payload(K, L) \in Seq(Bytes) /\ Len(Payload(K, L)) = L
  BY PayloadTyped
<1>2. PieceEnd(L, 0) = 0 /\ PieceEnd(L, 1) = L
  BY PieceFacts
<1>3. Piece(K, L, 1) = SubSeq(Payload(K, L), PieceEnd(L, 1 - 1) + 1, PieceEnd(L, 1))
  BY DEF Piece
<1>4. Piece(K, L, 1) = SubSeq(Payload(K, L), 1, L)
  BY <1>2, <1>3
<1> DEFINE s == Payload(K, L)
<1> HIDE DEF s
<1>5. s \in Seq(Bytes) /\ Len(s) = L
  BY <1>1 DEF s
<1>6. SubSeq(s, 1, L) = s
  BY <1>5
<1> QED
  BY <1>4, <1>6 DEF s

\* Where the last frame of a packet was taken.
LEMMA PacketDone ==
    ASSUME NEW w, NEW pk, NEW st, Described(w, pk, st), NEW k, NEW j, More(w, k, j),
           j + 1 = Pieces(w.lengths[k + 1]),
           NEW q \in Parsers, q.headerLength = w.hl, q.largePacketParts = <<>>,
           q.out = Append(Out(w, k), OutOf(w, k + 1))
    PROVE  Boundary(w, q, k + 1, 0)
<1> DEFINE K == k + 1
<1>1. k \in Nat /\ w.lengths \in Seq(Nat) /\ Len(w.lengths) \in Nat /\ K \in 0 .. Len(w.lengths)
  BY DescribedFacts, NextFrame DEF More
<1>2. q.out = Out(w, K)
  BY <1>1, OutTyped
<1>3. ASSUME K < Len(w.lengths) PROVE 0 < Pieces(w.lengths[K + 1])
  <2>1. K + 1 \in 1 .. Len(w.lengths)
    BY <1>1, <1>3
  <2>2. w.lengths[K + 1] \in Nat
    <3> DEFINE i == K + 1
    <3>1. i \in 1 .. Len(w.lengths)
      BY <2>1
    <3> HIDE DEF i
    <3>2. w.lengths[i] \in Nat
      BY <1>1, <3>1, ElementOfSeq
    <3> QED
      BY <3>2 DEF i
  <2> DEFINE x == Pieces(w.lengths[K + 1])
  <2>3. x \in Nat /\ x >= 1
    BY <2>2, PieceFacts
  <2> HIDE DEF x
  <2>4. 0 < x
    BY <2>3
  <2> QED
    BY <2>4 DEF x
<1>4. q.largePacketParts = [i \in 1 .. 0 |-> Piece(K + 1, w.lengths[K + 1], i)]
  BY NoParts
<1> HIDE DEF K
<1>5. Boundary(w, q, K, 0)
  BY <1>1, <1>2, <1>3, <1>4 DEF Boundary
<1> QED
  BY <1>5 DEF K

LEMMA FrameAdvances ==
    ASSUME NEW w, NEW pk, NEW st, Described(w, pk, st), NEW k, NEW j, More(w, k, j),
           NEW p, Boundary(w, p, k, j), p.length = Size(w, k, j), NEW frame, frame = Frame(w, k, j)
    PROVE  Reached(w, onFrame(p, frame), Place(w, k, j) + (w.hl + Size(w, k, j)))
<1> DEFINE L == w.lengths[k + 1]
           hl == w.hl
           K == k + 1
           J == j + 1
           n == Size(w, k, j)
           id == w.id[k + 1]
           x == frame[4]
           s == SubSeq(frame, hl + 1, Len(frame))
           c == SubSeq(frame, 5, Len(frame))
           parts == Append(p.largePacketParts, s)
           first == IF p.largePacketParts = <<>> THEN x ELSE p.firstPacketSequenceId
           kept == [p EXCEPT !.largePacketParts = parts, !.firstPacketSequenceId = first]
           q == onFrame(p, frame)
<1>1. /\ K \in 1 .. Len(w.lengths) /\ k \in 0 .. Len(w.lengths) /\ J \in 1 .. Pieces(L)
      /\ L \in Nat /\ id \in 0 .. SEQ - 1 /\ Pieces(L) \in Nat
  BY NextFrame
<1>2. /\ hl \in HeaderLengths /\ k \in Nat /\ K \in Nat /\ j \in Nat /\ J \in Nat /\ J - 1 = j
      /\ k < Len(w.lengths)
  BY DescribedFacts DEF More
<1>3. /\ p \in Parsers /\ p.headerLength = hl /\ p.out = Out(w, k)
      /\ p.largePacketParts = [i \in 1 .. j |-> Piece(K, L, i)]
      /\ j > 0 => p.firstPacketSequenceId = id
  BY DEF Boundary
<1>4. n = PieceLength(L, J) /\ frame = FrameBytes(K, L, id, hl, J)
  BY DEF Size, Frame
<1>5. id \in Nat
  BY <1>1, BaseFacts
<1>6. /\ frame \in Seq(Bytes) /\ Len(frame) = hl + n /\ x = (id + J - 1) % SEQ
      /\ c = Zeros(hl) \o Piece(K, L, J) /\ s = Piece(K, L, J)
  <2> HIDE DEF K, J, L, id, hl, n
  <2>1. TakenApart(FrameBytes(K, L, id, hl, J), K, L, id, hl, J)
    BY <1>1, <1>2, <1>5, FrameTakenApart
  <2>2. TakenApart(frame, K, L, id, hl, J) /\ n = PieceLength(L, J)
    BY <1>4, <2>1
  <2> QED
    BY <2>2 DEF TakenApart
<1>7. n \in Nat /\ (J < Pieces(L) => n = Full) /\ (J = Pieces(L) => n < Full)
  BY <1>1, <1>4, PieceFacts
<1>8. q \in Parsers /\ q.headerLength = hl
  <2>1. Len(frame) >= p.headerLength
    <3>1. hl \in Nat
      BY <1>2 DEF HeaderLengths
    <3> HIDE DEF hl, n
    <3> QED
      BY <1>3, <1>6, <1>7, <3>1
  <2>2. onFrame(p, frame) \in Parsers /\ Waits(p, onFrame(p, frame))
    BY <1>3, <1>6, <2>1, OnFrameTyped
  <2> QED
    BY <1>3, <2>2 DEF Waits
<1>9. q = IF p.length < MAX_PACKET_LENGTH /\ p.largePacketParts = <<>>
          THEN Emit(p, x, c, 1)
          ELSE IF p.length < MAX_PACKET_LENGTH THEN flushLargePacket(kept) ELSE kept
  BY <1>3 DEF onFrame
<1>10. parts = [i \in 1 .. J |-> Piece(K, L, i)]
  <2> HIDE DEF K, L, s
  <2> QED
    BY <1>2, <1>3, <1>6
<1>11. p.largePacketParts = <<>> <=> j = 0
  <2> HIDE DEF K, L
  <2>1. Len(p.largePacketParts) = j
    BY <1>2, <1>3
  <2>2. Len(<<>>) = 0
    OBVIOUS
  <2>3. j = 0 => p.largePacketParts = <<>>
    BY <1>3, NoParts
  <2> QED
    BY <2>1, <2>2, <2>3
<1>12. first = id
  <2>1. j = 0 => x = id
    <3> HIDE DEF id, J, x
    <3>1. j = 0 => id + J - 1 = id
      BY <1>2, <1>5
    <3>2. id % SEQ = id
      BY <1>1, BaseFacts
    <3> QED
      BY <1>6, <3>1, <3>2
  <2> QED
    BY <1>2, <1>3, <1>11, <2>1
<1> HIDE DEF q, first, parts, s, c, x, L, K, J, n, id, hl
<1>13. kept.out = p.out /\ kept.largePacketParts = parts /\ kept.firstPacketSequenceId = id
       /\ kept.headerLength = hl
  BY <1>3, <1>12 DEF Parsers
<1> HIDE DEF kept
<1>14. CASE J < Pieces(L)
  <2>1. q = kept
    <3>1. ~(p.length < MAX_PACKET_LENGTH)
      BY <1>7, <1>14, FullFacts DEF Full, n
    <3> QED
      BY <1>9, <3>1
  <2>2. Boundary(w, q, k, J)
    BY <1>1, <1>2, <1>3, <1>8, <1>10, <1>13, <1>14, <2>1 DEF Boundary, L, K, hl, id
  <2>3. Place(w, k, J) = Place(w, k, j) + (w.hl + Size(w, k, j))
    BY <1>14, FramePlace DEF J, L
  <2> QED
    BY <2>2, <2>3 DEF Reached, q
<1>15. CASE J = Pieces(L)
  <2>0. p.length < MAX_PACKET_LENGTH
    BY <1>7, <1>15 DEF Full, n
  <2> DEFINE G == q.largePacketParts = <<>> /\ q.out = Append(Out(w, k), OutOf(w, k + 1))
  <2>1. j = 0 => G
    <3>0. SUFFICES ASSUME j = 0 PROVE G
      OBVIOUS
    <3>1. q = Emit(p, x, c, 1)
      BY <1>9, <1>11, <2>0, <3>0
    <3>2. J = 1 /\ Pieces(L) = 1
      BY <1>15, <3>0 DEF J
    <3>3. c = Zeros(hl) \o Payload(K, L)
      BY <1>1, <1>2, <1>6, <3>2, OnePiece
    <3>4. x = id
      BY <1>11, <1>12, <3>0 DEF first
    <3>5. q.out = Append(p.out, [sequenceId |-> id, content |-> Zeros(hl) \o Payload(K, L), numPackets |-> Pieces(L)])
          /\ q.largePacketParts = p.largePacketParts
      BY <1>3, <3>1, <3>2, <3>3, <3>4 DEF Emit, Parsers
    <3> QED
      BY <1>3, <1>11, <3>0, <3>5 DEF OutOf, hl, K, L, id
  <2>2. j # 0 => G
    <3>0. SUFFICES ASSUME j # 0 PROVE G
      OBVIOUS
    <3>1. q = flushLargePacket(kept)
      BY <1>9, <1>11, <2>0, <3>0
    <3>2. Concat(parts) = Payload(K, L)
      BY <1>1, <1>2, <1>10, <1>15, PiecesMakePayload
    <3>3. Len(parts) = Pieces(L)
      BY <1>2, <1>10, <1>15
    <3>4. q = [kept EXCEPT !.out = Append(kept.out, [sequenceId |-> id, content |-> Zeros(hl) \o Payload(K, L),
                                                     numPackets |-> Pieces(L)]),
                           !.largePacketParts = <<>>]
      BY <1>13, <3>1, <3>2, <3>3 DEF flushLargePacket, Emit, Zeros
    <3> QED
      BY <1>3, <1>8, <1>13, <3>4 DEF OutOf, hl, K, L, id, Parsers
  <2>3. q.largePacketParts = <<>> /\ q.out = Append(Out(w, k), OutOf(w, k + 1))
    BY <2>1, <2>2
  <2>4. Boundary(w, q, k + 1, 0)
    BY <1>8, <1>15, <2>3, PacketDone DEF hl, J, L
  <2>5. Place(w, k + 1, 0) = Place(w, k, j) + (w.hl + Size(w, k, j))
    BY <1>15, FramePlace DEF J, L
  <2> QED
    BY <2>4, <2>5 DEF Reached, q
<1> QED
  BY <1>1, <1>2, <1>14, <1>15

\* A chunk: what comes after the first x bytes of the stream, up to y.
ChunkOf(st, x, y, chunk) ==
    /\ st \in Seq(Bytes) /\ x \in Nat /\ y \in Nat /\ x <= y /\ y <= Len(st)
    /\ chunk = SubSeq(st, x + 1, y)

LEMMA ChunkFacts ==
    ASSUME NEW st, NEW x, NEW y, NEW chunk, ChunkOf(st, x, y, chunk)
    PROVE  /\ x \in Nat /\ y \in Nat /\ st \in Seq(Bytes) /\ Len(st) \in Nat /\ y <= Len(st)
           /\ chunk \in Seq(Bytes) /\ Len(chunk) \in Nat /\ x + Len(chunk) = y
           /\ \A i \in 1 .. Len(chunk) : chunk[i] = st[x + i]
<1> DEFINE b == y - x
<1>1. st \in Seq(Bytes) /\ x \in Nat /\ y \in Nat /\ x <= y /\ y <= Len(st) /\ chunk = SubSeq(st, x + 1, y)
  BY DEF ChunkOf
<1>2. b \in Nat /\ x + b = y /\ Len(st) \in Nat
  BY <1>1, LenProperties
<1> HIDE DEF b
<1>3. x + b <= Len(st)
  BY <1>1, <1>2
<1>4. /\ SubSeq(st, x + 1, x + b) \in Seq(Bytes) /\ Len(SubSeq(st, x + 1, x + b)) = b
      /\ \A i \in 1 .. b : SubSeq(st, x + 1, x + b)[i] = st[x + i]
  BY <1>1, <1>2, <1>3, SliceIs
<1>5. chunk \in Seq(Bytes) /\ Len(chunk) = b /\ \A i \in 1 .. b : chunk[i] = st[x + i]
  BY <1>1, <1>2, <1>4
<1> QED
  BY <1>1, <1>2, <1>5

SliceOf(chunk, u, v, slice) == slice = SubSeq(chunk, u + 1, v)

\* A slice of a chunk, up to its byte v, is a chunk.
LEMMA ChunkSlice ==
    ASSUME NEW st, NEW x \in Nat, NEW y \in Nat, NEW chunk, ChunkOf(st, x, y, chunk),
           NEW u \in Nat, NEW v \in Nat, u <= v, v <= Len(chunk),
           NEW a \in Nat, a = x + u, NEW b \in Nat, b = x + v,
           NEW slice, SliceOf(chunk, u, v, slice)
    PROVE  ChunkOf(st, a, b, slice)
<1>1. /\ x \in Nat /\ y \in Nat /\ st \in Seq(Bytes) /\ Len(st) \in Nat /\ y <= Len(st)
      /\ Len(chunk) \in Nat /\ x + Len(chunk) = y
  BY ChunkFacts
<1> DEFINE n == Len(chunk)
           m == u + 1
<1>2. chunk = SubSeq(st, x + 1, x + n)
  BY <1>1 DEF ChunkOf
<1>3. n \in Nat /\ m \in Nat /\ 1 <= m /\ v \in 0 .. n /\ x + n <= Len(st) /\ x + m = (x + u) + 1
  BY <1>1
<1> HIDE DEF n, m
<1>4. SubSeq(SubSeq(st, x + 1, x + n), m, v) = SubSeq(st, x + m, x + v)
  BY <1>1, <1>3, SliceOfSlice
<1>5. slice = SubSeq(st, a + 1, b)
  <2>1. slice = SubSeq(chunk, m, v)
    BY DEF m, SliceOf
  <2>2. x + m = a + 1
    BY <1>3
  <2> QED
    BY <1>2, <1>4, <2>1, <2>2
<1>6. a \in Nat /\ b \in Nat /\ a <= b /\ b <= Len(st)
  BY <1>1, <1>3
<1> QED
  BY <1>1, <1>5, <1>6 DEF ChunkOf

LEMMA BoundarySame ==
    ASSUME NEW w, NEW p, NEW k, NEW j, Boundary(w, p, k, j), NEW q \in Parsers,
           q.headerLength = p.headerLength, q.out = p.out, q.largePacketParts = p.largePacketParts,
           q.firstPacketSequenceId = p.firstPacketSequenceId
    PROVE  Boundary(w, q, k, j)
  BY DEF Boundary

LEMMA BoundaryMore ==
    ASSUME NEW w, NEW pk, NEW st, Described(w, pk, st), NEW p, NEW k, NEW j, Boundary(w, p, k, j),
           Place(w, k, j) < Len(st)
    PROVE  More(w, k, j)
<1> DEFINE N == Len(w.lengths)
<1>1. /\ N \in Nat /\ Len(st) \in Nat /\ Len(st) = w.last[N]
      /\ k \in 0 .. N /\ j \in Nat /\ (k = N => j = 0) /\ (k < N => j < Pieces(w.lengths[k + 1]))
  BY DescribedFacts DEF Boundary
<1>2. k = N => Place(w, k, j) = Len(st)
  BY <1>1 DEF Place
<1> HIDE DEF N
<1>3. k \in Nat /\ k # N /\ k < N
  BY <1>1, <1>2
<1> QED
  BY <1>1, <1>3 DEF More, N

\* The first three bytes of the next frame are its length.
LEMMA HeaderHere ==
    ASSUME NEW w, NEW pk, NEW st, Described(w, pk, st), NEW k, NEW j, More(w, k, j)
    PROVE  /\ SubSeq(st, Place(w, k, j) + 1, Place(w, k, j) + 3) = LengthBytes(Size(w, k, j))
           /\ \A i \in 1 .. 3 : st[Place(w, k, j) + i] = LengthBytes(Size(w, k, j))[i]
<1> DEFINE a == Place(w, k, j)
           n == Size(w, k, j)
           f == Frame(w, k, j)
           b == w.hl + n
           K == k + 1
           L == w.lengths[k + 1]
           id == w.id[k + 1]
           J == j + 1
<1>1. st \in Seq(Bytes) /\ w.hl \in HeaderLengths /\ w.hl \in Nat /\ w.hl >= 4
  BY DescribedFacts
<1>2. a \in Nat /\ n \in Nat /\ a + b <= Len(st) /\ SubSeq(st, a + 1, a + b) = f
  BY FramePlace
<1>3. K \in Nat /\ L \in Nat /\ id \in Nat /\ J \in 1 .. Pieces(L)
  BY NextFrame, BaseFacts
<1>4. f = FrameBytes(K, L, id, w.hl, J) /\ n = PieceLength(L, J)
  BY DEF Frame, Size
<1> HIDE DEF a, f, K, L, id, J, n
<1>5. TakenApart(f, K, L, id, w.hl, J)
  BY <1>1, <1>3, <1>4, FrameTakenApart
<1>6. f \in Seq(Bytes) /\ Len(f) = b /\ SubSeq(f, 1, 3) = LengthBytes(n)
  BY <1>4, <1>5 DEF TakenApart
<1>7. b \in Nat /\ b >= 4 /\ 3 \in 0 .. b
  BY <1>1, <1>2
<1> HIDE DEF b
<1>8. SubSeq(f, 1, 3) = SubSeq(st, a + 1, a + 3)
  <2> DEFINE m == 1
             v == 3
  <2>1. m \in Nat /\ 1 <= m /\ v \in 0 .. b
    BY <1>7
  <2> HIDE DEF m, v
  <2>2. SubSeq(SubSeq(st, a + 1, a + b), m, v) = SubSeq(st, a + m, a + v)
    BY <1>1, <1>2, <1>7, <2>1, SliceOfSlice
  <2> QED
    BY <1>2, <2>2 DEF m, v
<1>9. \A i \in 1 .. 3 : SubSeq(st, a + 1, a + 3)[i] = st[a + i]
  <2> DEFINE v == 3
  <2>1. v \in Nat /\ a + v <= Len(st)
    BY <1>1, <1>2, <1>7, LenProperties
  <2> HIDE DEF v
  <2>2. \A i \in 1 .. v : SubSeq(st, a + 1, a + v)[i] = st[a + i]
    BY <1>1, <1>2, <2>1, SliceIs
  <2> QED
    BY <2>2 DEF v
<1>10. SubSeq(st, a + 1, a + 3) = LengthBytes(n)
  BY <1>6, <1>8
<1>11. \A i \in 1 .. 3 : st[a + i] = LengthBytes(n)[i]
  BY <1>9, <1>10
<1> QED
  BY <1>10, <1>11 DEF a, n

\* What the loop reads of a header that is there.
LEMMA LengthHere ==
    ASSUME NEW w, NEW pk, NEW st, Described(w, pk, st), NEW k, NEW j, More(w, k, j),
           NEW x, NEW y, NEW chunk, ChunkOf(st, x, y, chunk), NEW u \in Nat, u + 3 <= Len(chunk),
           x + u = Place(w, k, j)
    PROVE  readPacketLength(chunk, u) = Size(w, k, j)
<1> DEFINE a == Place(w, k, j)
           n == Size(w, k, j)
<1>1. a \in Nat /\ n \in Nat /\ \A i \in 1 .. 3 : st[a + i] = LengthBytes(n)[i]
  BY FramePlace, HeaderHere
<1>2. x \in Nat /\ Len(chunk) \in Nat /\ \A i \in 1 .. Len(chunk) : chunk[i] = st[x + i]
  BY ChunkFacts
<1>0. x + u = a
  OBVIOUS
<1> HIDE DEF a, n
<1>3. ASSUME NEW i \in 1 .. 3 PROVE chunk[u + i] = LengthBytes(n)[i]
  <2>1. u + i \in 1 .. Len(chunk) /\ x + (u + i) = a + i
    BY <1>0, <1>1, <1>2
  <2>2. chunk[u + i] = st[x + (u + i)]
    BY <1>2, <2>1
  <2> QED
    BY <1>1, <2>1, <2>2
<1>4. chunk[u + 1] = LengthBytes(n)[1] /\ chunk[u + 2] = LengthBytes(n)[2] /\ chunk[u + 3] = LengthBytes(n)[3]
  BY <1>3
<1>5. readPacketLength(chunk, u) = n
  BY <1>1, <1>4, LengthIsRead
<1> QED
  BY <1>5 DEF n

LEMMA TurnAt ==
    ASSUME NEW w, NEW pk, NEW st, Described(w, pk, st), NEW x, NEW y, NEW chunk, ChunkOf(st, x, y, chunk),
           NEW l \in Loops(chunk), Reached(w, l.parser, x + l.start)
    PROVE  Reached(w, Turn(l, chunk).parser, x + Turn(l, chunk).start)
<1>1. CASE ~Whole(l, chunk)
  BY <1>1, TurnIs
<1>2. CASE Whole(l, chunk)
  <2> DEFINE u == l.start
             n == readPacketLength(chunk, u)
             q == [l.parser EXCEPT !.length = n]
             end == u + n + l.parser.headerLength
  <2>1. PICK k, j : Boundary(w, l.parser, k, j) /\ x + u = Place(w, k, j)
    BY DEF Reached
  <2>2. /\ x \in Nat /\ y \in Nat /\ Len(st) \in Nat /\ y <= Len(st) /\ Len(chunk) \in Nat /\ x + Len(chunk) = y
    BY ChunkFacts
  <2>3. u \in Nat /\ l.parser \in Parsers
    BY <2>2 DEF Loops
  <2>4. u + 3 <= Len(chunk) /\ end <= Len(chunk)
    <3>1. Len(chunk) - u >= 3 /\ Len(chunk) >= end
      BY <1>2 DEF Whole
    <3> HIDE DEF end, u
    <3>2. u + 3 <= Len(chunk)
      BY <2>2, <2>3, <3>1
    <3>3. n \in Nat
      BY <2>2, <2>3, <3>2, ChunkFacts, LengthNat
    <3>4. end \in Nat
      BY <2>3, <3>3 DEF end, Parsers, HeaderLengths
    <3> QED
      BY <2>2, <3>1, <3>2, <3>4
  <2>5. More(w, k, j)
    <3> HIDE DEF u
    <3>1. Place(w, k, j) < Len(st)
      BY <2>1, <2>2, <2>3, <2>4
    <3> QED
      BY <2>1, <3>1, BoundaryMore
  <2>6. n = Size(w, k, j)
    <3> HIDE DEF u
    <3> QED
      BY <2>1, <2>3, <2>4, <2>5, LengthHere
  <2>7. l.parser.headerLength = w.hl
    BY <2>1 DEF Boundary
  <2>8. w.hl \in Nat /\ Size(w, k, j) \in Nat
    BY <2>5, DescribedFacts, FramePlace
  <2>9. end = u + (w.hl + Size(w, k, j)) /\ end \in Nat /\ u <= end
    <3> DEFINE z == Size(w, k, j)
               h == w.hl
    <3>1. end = u + z + h /\ z \in Nat /\ h \in Nat
      BY <2>6, <2>7, <2>8
    <3> HIDE DEF end, u, z, h
    <3>2. end = u + (h + z) /\ end \in Nat /\ u <= end
      BY <2>3, <3>1
    <3> QED
      BY <3>2 DEF z, h
  <2> HIDE DEF n, end, u
  <2>10. SubSeq(chunk, u + 1, end) = Frame(w, k, j)
    <3>1. SubSeq(chunk, u + 1, end) = SubSeq(st, (x + u) + 1, x + end)
      <4> DEFINE a == x + u
                 b == x + end
                 slice == SubSeq(chunk, u + 1, end)
      <4>1. u \in Nat /\ end \in Nat /\ u <= end /\ end <= Len(chunk)
        BY <2>3, <2>4, <2>9
      <4>2. /\ x \in Nat /\ y \in Nat /\ a \in Nat /\ b \in Nat /\ a = x + u /\ b = x + end
            /\ SliceOf(chunk, u, end, slice)
        BY <2>2, <4>1 DEF SliceOf
      <4> HIDE DEF a, b, slice
      <4>3. ChunkOf(st, a, b, slice)
        BY <4>1, <4>2, ChunkSlice
      <4>4. slice = SubSeq(st, a + 1, b)
        BY <4>3 DEF ChunkOf
      <4> QED
        BY <4>4 DEF a, b, slice
    <3>2. x + end = Place(w, k, j) + (w.hl + Size(w, k, j))
      <4> DEFINE b == w.hl + Size(w, k, j)
                 a == Place(w, k, j)
      <4>1. b \in Nat /\ end = u + b /\ x + u = a
        BY <2>1, <2>8, <2>9
      <4> HIDE DEF a, b
      <4>2. x + end = a + b
        BY <2>2, <2>3, <4>1
      <4> QED
        BY <4>2 DEF a, b
    <3>3. SubSeq(st, Place(w, k, j) + 1, Place(w, k, j) + (w.hl + Size(w, k, j))) = Frame(w, k, j)
      BY <2>5, FramePlace
    <3>4. (x + u) + 1 = Place(w, k, j) + 1
      BY <2>1
    <3>5. SubSeq(st, (x + u) + 1, x + end) = Frame(w, k, j)
      BY <3>2, <3>3, <3>4
    <3> QED
      BY <3>1, <3>5
  <2>11. q \in Parsers /\ q.length = n /\ Boundary(w, q, k, j)
    <3>1. q \in Parsers /\ q.length = n /\ q.headerLength = l.parser.headerLength /\ q.out = l.parser.out
          /\ q.largePacketParts = l.parser.largePacketParts
          /\ q.firstPacketSequenceId = l.parser.firstPacketSequenceId
      BY <2>3, <2>6, <2>8 DEF Parsers
    <3> HIDE DEF q
    <3>2. Boundary(w, q, k, j)
      BY <2>1, <3>1, BoundarySame
    <3> QED
      BY <3>1, <3>2
  <2> HIDE DEF q
  <2>12. Turn(l, chunk) = [parser |-> onFrame(q, Frame(w, k, j)), start |-> end]
    <3>1. Turn(l, chunk) = [parser |-> Next1(l, chunk), start |-> u + n + l.parser.headerLength]
      BY <1>2, TurnIs DEF u, n
    <3>2. Next1(l, chunk) = onFrame(q, SubSeq(chunk, u + 1, end))
      BY DEF Next1, q, n, u, end
    <3> QED
      BY <2>10, <3>1, <3>2 DEF end
  <2>13. Reached(w, onFrame(q, Frame(w, k, j)), Place(w, k, j) + (w.hl + Size(w, k, j)))
    BY <2>5, <2>6, <2>11, FrameAdvances
  <2>14. x + end = Place(w, k, j) + (w.hl + Size(w, k, j))
    <3> DEFINE b == w.hl + Size(w, k, j)
               a == Place(w, k, j)
    <3>1. b \in Nat /\ end = u + b /\ x + u = a
      BY <2>1, <2>8, <2>9
    <3> HIDE DEF a, b
    <3>2. x + end = a + b
      BY <2>2, <2>3, <3>1
    <3> QED
      BY <3>2 DEF a, b
  <2> QED
    BY <2>12, <2>13, <2>14
<1> QED
  BY <1>1, <1>2

HeaderAt(st, a, n) == \A i \in 1 .. 3 : st[a + i] = LengthBytes(n)[i]

LEMMA HeaderAtPlace ==
    ASSUME NEW w, NEW pk, NEW st, Described(w, pk, st), NEW k, NEW j, More(w, k, j)
    PROVE  HeaderAt(st, Place(w, k, j), Size(w, k, j))
  BY HeaderHere DEF HeaderAt

LEMMA LoopAt ==
    ASSUME NEW w, NEW pk, NEW st, Described(w, pk, st), NEW x, NEW y, NEW chunk, ChunkOf(st, x, y, chunk),
           NEW p \in Parsers, Reached(w, p, x), NEW f, Run(f, p, chunk), NEW e, e = f[Len(chunk) \div 4]
    PROVE  Reached(w, e.parser, x + e.start)
<1> DEFINE N == Len(chunk) \div 4
           S == {n \in 0 .. N : Reached(w, f[n].parser, x + f[n].start)}
<1>1. N \in Nat /\ x \in Nat
  <2>1. Len(chunk) \in Nat /\ x \in Nat
    BY ChunkFacts
  <2> QED
    BY <2>1
<1>2. /\ f \in [0 .. N -> Loops(chunk)] /\ f[0] = [parser |-> p, start |-> 0]
      /\ \A n \in 1 .. N : f[n] = Turn(f[n - 1], chunk)
  BY DEF Run
<1> HIDE DEF N
<1>3. 0 \in S
  <2>1. f[0].parser = p /\ x + f[0].start = x
    BY <1>1, <1>2
  <2> QED
    BY <1>1, <2>1
<1>4. ASSUME NEW n \in 1 .. N, n - 1 \in S PROVE n \in S
  <2> DEFINE l == f[n - 1]
  <2>1. n \in 0 .. N /\ n - 1 \in 0 .. N /\ Reached(w, l.parser, x + l.start)
    BY <1>1, <1>4
  <2>2. l \in Loops(chunk) /\ f[n] = Turn(l, chunk)
    BY <1>2, <2>1
  <2> HIDE DEF l
  <2>3. Reached(w, Turn(l, chunk).parser, x + Turn(l, chunk).start)
    BY <2>1, <2>2, TurnAt
  <2> QED
    BY <2>1, <2>2, <2>3
<1>5. N \in S
  <2> HIDE DEF S
  <2>1. 0 .. N \subseteq S
    BY <1>1, <1>3, <1>4, UpTo
  <2> QED
    BY <1>1, <2>1
<1> QED
  BY <1>5 DEF N

LEMMA AmidAt ==
    ASSUME NEW w, NEW st, NEW p, NEW k, NEW j, NEW r, Amid(w, st, p, k, j, r), NEW x, x = Place(w, k, j) + r
    PROVE  At(w, st, p, x)
  BY DEF At

\* What the parser keeps of the r bytes that are left of a chunk.
LEMMA LeftoverWithin ==
    ASSUME NEW w, NEW pk, NEW st, Described(w, pk, st), NEW k, NEW j, More(w, k, j),
           NEW a \in Nat, a = Place(w, k, j), NEW y \in Nat, NEW rest, ChunkOf(st, a, y, rest), Len(rest) >= 1,
           NEW p \in Parsers, p.buffer = <<>>
    PROVE  Within(Leftover(p, rest), st, a, Size(w, k, j), Len(rest))
<1> DEFINE n == Size(w, k, j)
           r == Len(rest)
           lb == LengthBytes(n)
           q == Leftover(p, rest)
<1>1. a \in Nat /\ n \in Nat /\ \A i \in 1 .. 3 : st[a + i] = lb[i]
  <2>1. n \in Nat
    BY FramePlace
  <2>2. \A i \in 1 .. 3 : st[Place(w, k, j) + i] = lb[i]
    <3>1. HeaderAt(st, Place(w, k, j), n)
      BY HeaderAtPlace
    <3> QED
      BY <3>1 DEF HeaderAt
  <2> HIDE DEF lb, n
  <2> QED
    BY <2>1, <2>2
<1>2. rest \in Seq(Bytes) /\ r \in Nat /\ a + r = y /\ \A i \in 1 .. r : rest[i] = st[a + i]
  BY ChunkFacts
<1>3. q = CASE r = 0 -> p
            [] r = 1 -> [p EXCEPT !.length = rest[1], !.mode = "header2"]
            [] r = 2 -> [p EXCEPT !.length = rest[1] + rest[2] * BYTE, !.mode = "header3"]
            [] OTHER -> [p EXCEPT !.length = readPacketLength(rest, 0),
                                  !.buffer = SubSeq(rest, 4, Len(rest)), !.mode = "payload"]
  BY DEF Leftover
<1>4. r >= 1
  OBVIOUS
<1> HIDE DEF q, lb
<1>5. r = 1 => q.mode = "header2" /\ q.length = lb[1] /\ q.buffer = <<>>
  <2>1. r = 1 => rest[1] = lb[1]
    <3> HIDE DEF r, n
    <3> QED
      BY <1>1, <1>2
  <2>2. r = 1 => q = [p EXCEPT !.length = rest[1], !.mode = "header2"]
    BY <1>3
  <2> QED
    BY <2>1, <2>2 DEF Parsers
<1>6. r = 2 => q.mode = "header3" /\ q.length = lb[1] + lb[2] * BYTE /\ q.buffer = <<>>
  <2>1. r = 2 => rest[1] = lb[1] /\ rest[2] = lb[2]
    <3> HIDE DEF r, n
    <3> QED
      BY <1>1, <1>2
  <2>2. r = 2 => q = [p EXCEPT !.length = rest[1] + rest[2] * BYTE, !.mode = "header3"]
    BY <1>3
  <2> QED
    BY <2>1, <2>2 DEF Parsers
<1>7. r >= 3 => q.mode = "payload" /\ q.length = n /\ q.buffer = SubSeq(st, a + 4, a + r)
  <2>0. SUFFICES ASSUME r >= 3 PROVE q.mode = "payload" /\ q.length = n /\ q.buffer = SubSeq(st, a + 4, a + r)
    OBVIOUS
  <2>1. q = [p EXCEPT !.length = readPacketLength(rest, 0), !.buffer = SubSeq(rest, 4, r), !.mode = "payload"]
    BY <1>2, <1>3, <2>0
  <2>2. readPacketLength(rest, 0) = n
    <3> DEFINE u == 0
    <3>1. u \in Nat /\ u + 3 <= Len(rest) /\ a + u = Place(w, k, j)
      BY <1>1, <1>2, <2>0
    <3> HIDE DEF u
    <3>2. readPacketLength(rest, u) = Size(w, k, j)
      BY <3>1, LengthHere
    <3> QED
      BY <3>2 DEF u
  <2>3. SubSeq(rest, 4, r) = SubSeq(st, a + 4, a + r)
    <3> DEFINE u == 3
               b == a + 3
               slice == SubSeq(rest, 4, r)
    <3>1. /\ u \in Nat /\ u <= r /\ r <= Len(rest) /\ b \in Nat /\ b = a + u /\ y = a + r
          /\ SliceOf(rest, u, r, slice) /\ b + 1 = a + 4
      BY <1>1, <1>2, <2>0 DEF SliceOf
    <3> HIDE DEF u, b, slice, r
    <3>2. ChunkOf(st, b, y, slice)
      BY <1>1, <1>2, <3>1, ChunkSlice
    <3>3. slice = SubSeq(st, b + 1, y)
      BY <3>2 DEF ChunkOf
    <3> QED
      BY <3>1, <3>3 DEF slice
  <2> QED
    BY <2>1, <2>2, <2>3 DEF Parsers
<1> HIDE DEF n
<1>8. r \in Nat
  BY <1>2
<1> HIDE DEF r
<1>9. r = 1 \/ r = 2 \/ (r >= 3 /\ r # 1 /\ r # 2 /\ ~(r < 3))
  BY <1>4, <1>8
<1>10. Within(q, st, a, n, r)
  BY <1>5, <1>6, <1>7, <1>9 DEF Within, lb
<1> QED
  BY <1>10 DEF q, n, r

LEMMA LeftoverAt ==
    ASSUME NEW w, NEW pk, NEW st, Described(w, pk, st), NEW x, NEW y, NEW chunk, ChunkOf(st, x, y, chunk),
           NEW e \in Loops(chunk), Reached(w, e.parser, x + e.start), ~Whole(e, chunk),
           e.parser.mode = "start", e.parser.buffer = <<>>
    PROVE  At(w, st, Leftover(e.parser, SubSeq(chunk, e.start + 1, Len(chunk))), y)
<1> DEFINE p == e.parser
           u == e.start
           a == x + u
           c == Len(chunk)
           rest == SubSeq(chunk, u + 1, c)
           r == Len(rest)
           q == Leftover(p, rest)
<1>1. PICK k, j : Boundary(w, p, k, j) /\ a = Place(w, k, j)
  BY DEF Reached
<1>2. x \in Nat /\ y \in Nat /\ st \in Seq(Bytes) /\ Len(st) \in Nat /\ y <= Len(st) /\ c \in Nat /\ x + c = y
  BY ChunkFacts
<1>3. p \in Parsers /\ u \in Nat /\ u <= c
  BY <1>2 DEF Loops
<1>4. p.mode = "start" /\ p.buffer = <<>> /\ p.headerLength = w.hl
  BY <1>1 DEF Boundary
<1>5. q \in Parsers
  BY ChunkFacts, LeftoverWell DEF WellFormed
<1>6. ~(c - u >= 3 /\ c >= u + readPacketLength(chunk, u) + w.hl)
  BY <1>4 DEF Whole
<1>7. ChunkOf(st, a, y, rest) /\ a \in Nat
  <2>1. c <= c /\ a \in Nat /\ y = x + c /\ SliceOf(chunk, u, c, rest)
    BY <1>2, <1>3 DEF SliceOf
  <2>2. a = x + u /\ c <= Len(chunk)
    BY <1>2
  <2> HIDE DEF u, c, a, rest
  <2> QED
    BY <1>2, <1>3, <2>1, <2>2, ChunkSlice
<1>8. r \in Nat /\ a + r = y /\ r = c - u
  <2>1. r \in Nat /\ a + r = y
    <3> HIDE DEF rest, a
    <3> QED
      BY <1>7, ChunkFacts
  <2> HIDE DEF r, u, c
  <2> QED
    BY <1>2, <1>3, <2>1
<1>9. CASE r = 0
  <2>1. q = p
    <3> HIDE DEF rest, p
    <3> QED
      BY <1>9 DEF Leftover
  <2>2. a = y
    <3> HIDE DEF r, a
    <3> QED
      BY <1>7, <1>8, <1>9
  <2>3. Reached(w, q, y)
    BY <2>1, <2>2
  <2>4. q.mode = "start" /\ q.buffer = <<>>
    BY <1>4, <2>1
  <2> HIDE DEF q
  <2>5. At(w, st, q, y)
    BY <2>3, <2>4 DEF At
  <2> QED
    BY <2>5 DEF q
<1>10. CASE r >= 1
  <2>1. More(w, k, j)
    <3>1. a < Len(st)
      <4> HIDE DEF r, a
      <4> QED
        BY <1>2, <1>7, <1>8, <1>10
    <3> QED
      BY <1>1, <3>1, BoundaryMore
  <2> DEFINE n == Size(w, k, j)
             h == w.hl
  <2>2. n \in Nat /\ h \in Nat /\ h >= 4
    BY <2>1, DescribedFacts, FramePlace
  <2>3. r < h + n
    <3>1. ASSUME r >= 3 PROVE r < h + n
      <4>1. u + 3 <= Len(chunk) /\ x + u = Place(w, k, j)
        <5> HIDE DEF r
        <5> QED
          BY <1>1, <1>2, <1>3, <1>8, <3>1
      <4> HIDE DEF u
      <4>2. readPacketLength(chunk, u) = n
        BY <1>3, <2>1, <4>1, LengthHere
      <4> HIDE DEF n, h, r, c
      <4>3. ~(c >= u + n + h)
        BY <1>2, <1>3, <1>6, <1>8, <3>1, <4>2 DEF h
      <4> QED
        BY <1>2, <1>3, <1>8, <2>2, <4>3
    <3> HIDE DEF n, h, r
    <3> QED
      BY <1>8, <2>2, <3>1
  <2>4. Within(q, st, a, n, r)
    <3>1. /\ p \in Parsers /\ p.buffer = <<>> /\ a \in Nat /\ y \in Nat /\ ChunkOf(st, a, y, rest)
          /\ a = Place(w, k, j) /\ Len(rest) >= 1
      BY <1>1, <1>2, <1>3, <1>4, <1>7, <1>10
    <3> HIDE DEF a, rest, p
    <3>2. Within(Leftover(p, rest), st, a, Size(w, k, j), Len(rest))
      BY <2>1, <3>1, LeftoverWithin
    <3> QED
      BY <3>2
  <2>5. Boundary(w, q, k, j)
    <3>1. q.headerLength = p.headerLength /\ q.out = p.out /\ q.largePacketParts = p.largePacketParts
          /\ q.firstPacketSequenceId = p.firstPacketSequenceId
      <4> HIDE DEF p, rest
      <4> QED
        BY <1>3 DEF Leftover, Parsers
    <3> HIDE DEF q
    <3> QED
      BY <1>1, <1>5, <3>1, BoundarySame
  <2> HIDE DEF q, r
  <2>6. Amid(w, st, q, k, j, r)
    BY <1>1, <1>8, <1>10, <2>1, <2>3, <2>4, <2>5 DEF Amid
  <2>7. y = Place(w, k, j) + r
    BY <1>1, <1>8
  <2>8. At(w, st, q, y)
    BY <2>6, <2>7, AmidAt
  <2> QED
    BY <2>8 DEF q
<1>11. r = 0 \/ r >= 1
  <2> HIDE DEF r
  <2> QED
    BY <1>8
<1> QED
  BY <1>9, <1>10, <1>11

LEMMA StartAt ==
    ASSUME NEW w, NEW pk, NEW st, Described(w, pk, st), NEW x, NEW y, NEW chunk, ChunkOf(st, x, y, chunk),
           NEW p, WellFormed(p), p.mode = "start", Reached(w, p, x)
    PROVE  At(w, st, executeStart(p, chunk), y)
<1> DEFINE N == Len(chunk) \div 4
<1>1. p \in Parsers /\ p.buffer = <<>> /\ chunk \in Seq(Bytes)
  BY ChunkFacts DEF WellFormed
<1>2. PICK f : /\ Run(f, p, chunk)
               /\ executeStart(p, chunk) = Leftover(f[N].parser, SubSeq(chunk, f[N].start + 1, Len(chunk)))
  BY <1>1, LoopRuns
<1> DEFINE e == f[N]
<1>3. /\ e \in Loops(chunk) /\ ~Whole(e, chunk)
      /\ e.parser.mode = p.mode /\ e.parser.buffer = p.buffer
  BY <1>1, <1>2, LoopEnds
<1>4. Reached(w, e.parser, x + e.start)
  BY <1>1, <1>2, LoopAt
<1> HIDE DEF e
<1>5. At(w, st, Leftover(e.parser, SubSeq(chunk, e.start + 1, Len(chunk))), y)
  BY <1>1, <1>3, <1>4, LeftoverAt
<1> QED
  BY <1>2, <1>5 DEF e

\* Adjacent chunks make one; the rest of a chunk after its first byte is one.
LEMMA ChunksJoin ==
    ASSUME NEW st, NEW x, NEW y, NEW z, NEW c, NEW d, ChunkOf(st, x, y, c), ChunkOf(st, y, z, d)
    PROVE  ChunkOf(st, x, z, c \o d)
<1>1. /\ st \in Seq(Bytes) /\ x \in Nat /\ y \in Nat /\ z \in Nat /\ x <= y /\ y <= z /\ z <= Len(st)
      /\ c = SubSeq(st, x + 1, y) /\ d = SubSeq(st, y + 1, z)
  BY DEF ChunkOf
<1>2. SubSeq(st, x + 1, y) \o SubSeq(st, y + 1, z) = SubSeq(st, x + 1, z)
  BY <1>1, SlicesJoin
<1>3. x <= z
  BY <1>1
<1> QED
  BY <1>1, <1>2, <1>3 DEF ChunkOf

LEMMA ChunkTail ==
    ASSUME NEW st, NEW x, NEW y, NEW chunk, ChunkOf(st, x, y, chunk), chunk # <<>>, NEW a, a = x + 1
    PROVE  /\ ChunkOf(st, a, y, Tail(chunk)) /\ chunk[1] = st[a] /\ chunk \in Seq(Bytes)
           /\ Len(chunk) \in Nat /\ Len(chunk) >= 1 /\ x \in Nat /\ x + Len(chunk) = y
<1>1. /\ x \in Nat /\ y \in Nat /\ st \in Seq(Bytes) /\ chunk \in Seq(Bytes) /\ Len(chunk) \in Nat
      /\ x + Len(chunk) = y /\ \A i \in 1 .. Len(chunk) : chunk[i] = st[x + i]
  BY ChunkFacts
<1>2. Len(chunk) >= 1 /\ Tail(chunk) = SubSeq(chunk, 2, Len(chunk))
  BY <1>1, TailOf
<1> DEFINE u == 1
           b == Len(chunk)
           t == Tail(chunk)
<1>3. /\ u \in Nat /\ b \in Nat /\ u <= b /\ b <= Len(chunk) /\ a \in Nat /\ a = x + u /\ y = x + b
      /\ SliceOf(chunk, u, b, t)
  BY <1>1, <1>2 DEF SliceOf
<1>4. chunk[1] = st[a]
  BY <1>1, <1>2
<1> HIDE DEF u, b, t
<1>5. ChunkOf(st, a, y, t)
  BY <1>1, <1>3, ChunkSlice
<1> QED
  BY <1>1, <1>2, <1>4, <1>5 DEF t

\* A packet is completed.
LEMMA CompletedAt ==
    ASSUME NEW w, NEW pk, NEW st, Described(w, pk, st), NEW k, NEW j, More(w, k, j),
           NEW p, WellFormed(p), p.mode = "payload", Boundary(w, p, k, j), p.length = Size(w, k, j),
           NEW chunk, FrameOf(p, chunk) = Frame(w, k, j)
    PROVE  LET q == Completed(p, chunk)
           IN  /\ WellFormed(q) /\ q.mode = "start"
               /\ Reached(w, q, Place(w, k, j) + (w.hl + Size(w, k, j)))
<1> DEFINE s == onFrame(p, FrameOf(p, chunk))
           q == Completed(p, chunk)
           z == Place(w, k, j) + (w.hl + Size(w, k, j))
<1>1. Reached(w, s, z)
  BY FrameAdvances
<1>2. q = [s EXCEPT !.buffer = <<>>, !.mode = "start"]
  BY DEF Completed
<1> HIDE DEF s, q, z
<1>3. PICK k2, j2 : Boundary(w, s, k2, j2) /\ z = Place(w, k2, j2)
  BY <1>1 DEF Reached
<1>4. s \in Parsers
  BY <1>3 DEF Boundary
<1>5. <<>> \in Seq(Bytes)
  OBVIOUS
<1>6. /\ q \in Parsers /\ q.mode = "start" /\ q.buffer = <<>>
      /\ q.headerLength = s.headerLength /\ q.out = s.out /\ q.largePacketParts = s.largePacketParts
      /\ q.firstPacketSequenceId = s.firstPacketSequenceId
  BY <1>2, <1>4, <1>5 DEF Parsers
<1>7. Boundary(w, q, k2, j2)
  BY <1>3, <1>6, BoundarySame
<1>8. Reached(w, q, z)
  BY <1>3, <1>7 DEF Reached
<1>9. WellFormed(q)
  BY <1>6 DEF WellFormed
<1> QED
  BY <1>6, <1>8, <1>9 DEF q, z

LEMMA PayloadAt ==
    ASSUME NEW w, NEW pk, NEW st, Described(w, pk, st), NEW x, NEW y, NEW chunk, ChunkOf(st, x, y, chunk),
           NEW p, WellFormed(p), NEW k, NEW j, NEW r, Amid(w, st, p, k, j, r), r >= 3, x = Place(w, k, j) + r
    PROVE  At(w, st, executePayload(p, chunk), y)
<1> DEFINE a == Place(w, k, j)
           a3 == a + 3
           n == Size(w, k, j)
           h == w.hl
           m == Missing(p)
           c == Len(chunk)
           z == a + (h + n)
           lb == LengthBytes(n)
           b == p.buffer
           q == executePayload(p, chunk)
<1>1. /\ Boundary(w, p, k, j) /\ More(w, k, j) /\ r \in Nat /\ r < h + n
      /\ p.mode = "payload" /\ p.length = n /\ b = SubSeq(st, a + 4, a + r)
  BY DEF Amid, Within
<1>2. /\ x \in Nat /\ y \in Nat /\ st \in Seq(Bytes) /\ Len(st) \in Nat /\ y <= Len(st)
      /\ chunk \in Seq(Bytes) /\ c \in Nat /\ x + c = y
  BY ChunkFacts
<1>3. a \in Nat /\ n \in Nat /\ z <= Len(st) /\ SubSeq(st, a + 1, z) = Frame(w, k, j)
      /\ h \in Nat /\ h >= 4
  BY <1>1, FramePlace, DescribedFacts
<1>4. ChunkOf(st, a, a3, lb)
  <2>1. SubSeq(st, a + 1, a + 3) = lb
    BY <1>1, HeaderHere
  <2>2. a3 \in Nat /\ a <= a3 /\ a3 <= Len(st)
    <3> HIDE DEF a, n, h
    <3> QED
      BY <1>3
  <2> QED
    BY <1>2, <1>3, <2>1, <2>2 DEF ChunkOf
<1>5. ChunkOf(st, a3, x, b) /\ x = a + r
  <2>0. x = a + r
    OBVIOUS
  <2>1. a3 \in Nat /\ a3 <= x /\ x <= Len(st) /\ a3 + 1 = a + 4
    <3> HIDE DEF a, n, h
    <3> QED
      BY <1>1, <1>2, <1>3, <2>0
  <2>2. b = SubSeq(st, a3 + 1, x)
    <3> HIDE DEF a3, b
    <3> QED
      BY <1>1, <2>0, <2>1
  <2> HIDE DEF a3, b
  <2> QED
    BY <1>2, <2>0, <2>1, <2>2 DEF ChunkOf
<1>6. m \in Nat /\ m > 0 /\ x + m = z /\ a3 \in Nat
  <2>1. 3 + Len(b) + m = n + h /\ m \in Nat /\ m > 0
    <3>1. 3 + Len(p.buffer) + Missing(p) = p.length + p.headerLength /\ Missing(p) \in Nat /\ Missing(p) > 0
      BY <1>1, MissingNat
    <3>2. p.headerLength = h
      BY <1>1 DEF Boundary
    <3> QED
      BY <1>1, <3>1, <3>2
  <2>2. a3 + Len(b) = x /\ Len(b) \in Nat
    <3> HIDE DEF a3, b
    <3> QED
      BY <1>5, ChunkFacts
  <2> DEFINE l == Len(b)
  <2>3. 3 + l + m = n + h /\ a3 + l = x /\ l \in Nat /\ a3 = a + 3 /\ z = a + (h + n) /\ m \in Nat /\ m > 0
    BY <2>1, <2>2
  <2>4. a \in Nat /\ n \in Nat /\ h \in Nat
    BY <1>3
  <2> HIDE DEF m, n, h, a, l, a3, z
  <2>5. x + m = z
    BY <2>3, <2>4
  <2>6. a3 \in Nat
    BY <2>3, <2>4
  <2> QED
    BY <2>3, <2>5, <2>6
<1>7. q = IF c >= m THEN executeStart(Completed(p, chunk), SubSeq(chunk, m + 1, c))
          ELSE [p EXCEPT !.buffer = b \o chunk]
  BY PayloadIs
<1> HIDE DEF a, a3, n, h, m, c, lb, b, q
<1>8. CASE c >= m
  <2> DEFINE head == SubSeq(chunk, 1, m)
             rest == SubSeq(chunk, m + 1, c)
  <2>1. z \in Nat /\ z <= y
    BY <1>2, <1>3, <1>6, <1>8
  <2>2. ChunkOf(st, x, z, head)
    <3> DEFINE u == 0
    <3>1. /\ u \in Nat /\ u <= m /\ m <= Len(chunk) /\ x = x + u /\ z = x + m /\ SliceOf(chunk, u, m, head)
      BY <1>2, <1>6, <1>8 DEF SliceOf, c
    <3> HIDE DEF u, head, z
    <3> QED
      BY <1>2, <1>6, <2>1, <3>1, ChunkSlice
  <2>3. ChunkOf(st, z, y, rest)
    <3>1. m <= c /\ c <= Len(chunk) /\ z = x + m /\ y = x + c /\ SliceOf(chunk, m, c, rest)
      BY <1>2, <1>6, <1>8 DEF SliceOf, c
    <3> HIDE DEF rest, z
    <3> QED
      BY <1>2, <1>6, <2>1, <3>1, ChunkSlice
  <2>4. FrameOf(p, chunk) = lb \o b \o head
    BY <1>1 DEF FrameOf, lb, b, m
  <2> HIDE DEF head, rest
  <2>5. ChunkOf(st, a, x, lb \o b)
    BY <1>4, <1>5, ChunksJoin
  <2>6. ChunkOf(st, a, z, (lb \o b) \o head)
    <3> HIDE DEF z
    <3> QED
      BY <2>2, <2>5, ChunksJoin
  <2>7. FrameOf(p, chunk) = Frame(w, k, j)
    <3>1. (lb \o b) \o head = SubSeq(st, a + 1, z)
      BY <2>6 DEF ChunkOf
    <3> QED
      BY <1>3, <2>4, <3>1
  <2>8. LET s == Completed(p, chunk) IN WellFormed(s) /\ s.mode = "start" /\ Reached(w, s, z)
    BY <1>1, <2>7, CompletedAt DEF n, h, a
  <2> HIDE DEF z
  <2>9. At(w, st, executeStart(Completed(p, chunk), rest), y)
    BY <2>3, <2>8, StartAt
  <2> QED
    BY <1>7, <1>8, <2>9 DEF rest, q
<1>9. CASE ~(c >= m)
  <2> DEFINE d == b \o chunk
             r2 == r + c
  <2>1. q = [p EXCEPT !.buffer = d]
    BY <1>7, <1>9
  <2>2. r2 \in Nat /\ r2 >= 3 /\ r2 < h + n /\ y = a + r2
    <3>1. r2 = r + c /\ x = a + r /\ x + m = z /\ z = a + (h + n) /\ ~(c >= m) /\ x + c = y
      BY <1>2, <1>5, <1>6, <1>9
    <3>2. /\ r \in Nat /\ r >= 3 /\ c \in Nat /\ a \in Nat /\ h \in Nat /\ n \in Nat /\ x \in Nat
          /\ y \in Nat /\ m \in Nat
      BY <1>1, <1>2, <1>3, <1>6
    <3> HIDE DEF r2, z
    <3>3. r2 \in Nat /\ r2 >= 3 /\ y = a + r2
      BY <3>1, <3>2
    <3>4. r2 < h + n
      BY <3>1, <3>2
    <3> QED
      BY <3>3, <3>4
  <2> HIDE DEF d, r2
  <2>3. q \in Parsers
    <3>1. WellFormed(q)
      BY <1>1, <1>2, PayloadWell DEF q
    <3> QED
      BY <3>1 DEF WellFormed
  <2>4. ChunkOf(st, a3, y, d)
    BY <1>5, ChunksJoin DEF d
  <2>5. d = SubSeq(st, a + 4, a + r2)
    <3>1. a3 + 1 = a + 4
      BY <1>3 DEF a3
    <3>2. d = SubSeq(st, a3 + 1, y)
      BY <2>4 DEF ChunkOf
    <3> QED
      BY <2>2, <3>1, <3>2
  <2>6. p \in Parsers
    BY DEF WellFormed
  <2>7. /\ q.mode = "payload" /\ q.length = n /\ q.buffer = d
        /\ q.headerLength = p.headerLength /\ q.out = p.out /\ q.largePacketParts = p.largePacketParts
        /\ q.firstPacketSequenceId = p.firstPacketSequenceId
    BY <1>1, <2>1, <2>6 DEF Parsers
  <2>8. Boundary(w, q, k, j)
    BY <1>1, <2>3, <2>7, BoundarySame
  <2>9. Within(q, st, a, n, r2)
    BY <2>2, <2>5, <2>7 DEF Within
  <2>10. Amid(w, st, q, k, j, r2)
    <3>1. r2 >= 1
      BY <2>2
    <3> QED
      BY <1>1, <2>2, <2>8, <2>9, <3>1 DEF Amid, a, n, h
  <2>11. At(w, st, q, y)
    BY <2>2, <2>10, AmidAt DEF a
  <2> QED
    BY <2>11 DEF q
<1> QED
  BY <1>8, <1>9

LEMMA Header3At ==
    ASSUME NEW w, NEW pk, NEW st, Described(w, pk, st), NEW x, NEW y, NEW chunk, ChunkOf(st, x, y, chunk),
           chunk # <<>>, NEW p, WellFormed(p), NEW k, NEW j, Amid(w, st, p, k, j, 2), x = Place(w, k, j) + 2
    PROVE  At(w, st, executeHeader3(p, chunk), y)
<1> DEFINE a == Place(w, k, j)
           n == Size(w, k, j)
           h == w.hl
           lb == LengthBytes(n)
           l == p.length + chunk[1] * BYTE * BYTE
           q == [p EXCEPT !.length = l, !.mode = "payload"]
           a3 == a + 3
           r == 3
<1>1. Boundary(w, p, k, j) /\ More(w, k, j) /\ p.length = lb[1] + lb[2] * BYTE /\ p.buffer = <<>>
  BY DEF Amid, Within
<1>2. a \in Nat /\ n \in Nat /\ h \in Nat /\ h >= 4 /\ st \in Seq(Bytes)
  BY <1>1, FramePlace, DescribedFacts
<1>3. a3 = x + 1 /\ a3 \in Nat /\ x \in Nat /\ x = a + 2
  <2>0. x = a + 2
    OBVIOUS
  <2> HIDE DEF a
  <2> QED
    BY <1>2, <2>0
<1>4. ChunkOf(st, a3, y, Tail(chunk)) /\ chunk[1] = st[a3]
  <2> HIDE DEF a3
  <2> QED
    BY <1>3, ChunkTail
<1>5. st[a + 3] = lb[3]
  <2>1. HeaderAt(st, a, n)
    BY <1>1, HeaderAtPlace
  <2> HIDE DEF a, n
  <2> QED
    BY <2>1 DEF HeaderAt
<1>6. l = n
  <2>1. l = lb[1] + lb[2] * BYTE + lb[3] * BYTE * BYTE
    BY <1>1, <1>4, <1>5
  <2> HIDE DEF n, l
  <2>2. lb[1] = n % BYTE /\ lb[2] = (n \div BYTE) % BYTE /\ lb[3] = n \div (BYTE * BYTE)
    BY DEF LengthBytes
  <2>3. n = (n % BYTE) + ((n \div BYTE) % BYTE) * BYTE + (n \div (BYTE * BYTE)) * BYTE * BYTE
    BY <1>2, LengthOfBytes
  <2> QED
    BY <2>1, <2>2, <2>3
<1>7. p \in Parsers
  BY DEF WellFormed
<1>8. executeHeader3(p, chunk) = executePayload(q, Tail(chunk))
  BY DEF executeHeader3
<1> HIDE DEF l, n
<1>9. /\ q \in Parsers /\ q.mode = "payload" /\ q.buffer = <<>> /\ q.length = n
      /\ q.headerLength = p.headerLength /\ q.out = p.out /\ q.largePacketParts = p.largePacketParts
      /\ q.firstPacketSequenceId = p.firstPacketSequenceId
  BY <1>1, <1>2, <1>6, <1>7 DEF Parsers
<1> HIDE DEF q
<1>10. q.headerLength = h
  BY <1>1, <1>9 DEF Boundary
<1>11. WellFormed(q)
  <2>1. Len(q.buffer) = 0
    BY <1>9
  <2>2. 0 < n + h - 3
    BY <1>2
  <2> QED
    BY <1>9, <1>10, <2>1, <2>2 DEF WellFormed
<1>12. Boundary(w, q, k, j)
  BY <1>1, <1>9, BoundarySame
<1>13. SubSeq(st, a + 4, a + r) = <<>>
  <2> HIDE DEF a
  <2> QED
    BY <1>2
<1>14. r \in Nat /\ r >= 1 /\ r >= 3 /\ r < h + n /\ r # 1 /\ r # 2 /\ ~(r < 3)
  BY <1>2
<1>15. a3 = a + r
  OBVIOUS
<1> HIDE DEF r, a
<1>16. Within(q, st, a, n, r)
  BY <1>9, <1>13, <1>14 DEF Within
<1>17. Amid(w, st, q, k, j, r)
  BY <1>1, <1>12, <1>14, <1>16 DEF Amid, a, n, h
<1> HIDE DEF a3
<1>18. At(w, st, executePayload(q, Tail(chunk)), y)
  BY <1>4, <1>11, <1>14, <1>15, <1>17, PayloadAt DEF a
<1> QED
  BY <1>8, <1>18

LEMMA Header2At ==
    ASSUME NEW w, NEW pk, NEW st, Described(w, pk, st), NEW x, NEW y, NEW chunk, ChunkOf(st, x, y, chunk),
           chunk # <<>>, NEW p, WellFormed(p), NEW k, NEW j, Amid(w, st, p, k, j, 1), x = Place(w, k, j) + 1
    PROVE  At(w, st, executeHeader2(p, chunk), y)
<1> DEFINE a == Place(w, k, j)
           n == Size(w, k, j)
           h == w.hl
           lb == LengthBytes(n)
           l == p.length + chunk[1] * BYTE
           q == [p EXCEPT !.length = l, !.mode = "header3"]
           a2 == a + 2
           r == 2
           t == Tail(chunk)
<1>1. Boundary(w, p, k, j) /\ More(w, k, j) /\ p.length = lb[1] /\ p.buffer = <<>>
  BY DEF Amid, Within
<1>2. a \in Nat /\ n \in Nat /\ h \in Nat /\ h >= 4 /\ st \in Seq(Bytes)
  BY <1>1, FramePlace, DescribedFacts
<1>3. a2 = x + 1 /\ a2 \in Nat /\ x \in Nat
  <2>0. x = a + 1
    OBVIOUS
  <2> HIDE DEF a
  <2> QED
    BY <1>2, <2>0
<1>4. /\ ChunkOf(st, a2, y, t) /\ chunk[1] = st[a2] /\ chunk \in Seq(Bytes)
      /\ Len(chunk) \in Nat /\ Len(chunk) >= 1 /\ x + Len(chunk) = y
  <2> HIDE DEF a2
  <2> QED
    BY <1>3, ChunkTail
<1>5. st[a + 2] = lb[2] /\ lb[1] \in Nat /\ lb[2] \in Nat
  <2>1. HeaderAt(st, a, n)
    BY <1>1, HeaderAtPlace
  <2> HIDE DEF a, n
  <2>2. st[a + 2] = lb[2]
    BY <2>1 DEF HeaderAt
  <2>3. lb[1] = n % BYTE /\ lb[2] = (n \div BYTE) % BYTE
    BY DEF LengthBytes
  <2>4. n % BYTE \in Nat /\ (n \div BYTE) % BYTE \in Nat
    BY <1>2, LengthOfBytes
  <2> QED
    BY <2>2, <2>3, <2>4
<1>6. l = lb[1] + lb[2] * BYTE /\ l \in Nat
  <2>1. l = lb[1] + lb[2] * BYTE
    BY <1>1, <1>4, <1>5
  <2> HIDE DEF l, lb
  <2>2. lb[1] + lb[2] * BYTE \in Nat
    BY <1>5, SumNat
  <2> QED
    BY <2>1, <2>2
<1>7. p \in Parsers
  BY DEF WellFormed
<1>8. executeHeader2(p, chunk) = IF Len(chunk) > 1 THEN executeHeader3(q, t) ELSE q
  BY DEF executeHeader2
<1> HIDE DEF l, n
<1>9. /\ q \in Parsers /\ q.mode = "header3" /\ q.buffer = <<>> /\ q.length = l
      /\ q.headerLength = p.headerLength /\ q.out = p.out /\ q.largePacketParts = p.largePacketParts
      /\ q.firstPacketSequenceId = p.firstPacketSequenceId
  BY <1>1, <1>6, <1>7 DEF Parsers
<1> HIDE DEF q
<1>10. WellFormed(q)
  BY <1>9 DEF WellFormed
<1>11. Boundary(w, q, k, j)
  BY <1>1, <1>9, BoundarySame
<1>12. r \in Nat /\ r >= 1 /\ r < 3 /\ r < h + n /\ r # 1 /\ r = 2 /\ ~(r >= 3) /\ a2 = a + r
  BY <1>2
<1> HIDE DEF r, a, lb
<1>13. Within(q, st, a, n, r)
  BY <1>6, <1>9, <1>12 DEF Within, lb
<1>14. Amid(w, st, q, k, j, r)
  BY <1>1, <1>11, <1>12, <1>13 DEF Amid, a, n, h
<1> HIDE DEF a2
<1>15. ASSUME Len(chunk) > 1 PROVE At(w, st, executeHeader3(q, t), y)
  <2>1. t # <<>>
    <3>1. chunk # <<>> /\ Len(t) = Len(chunk) - 1
      BY <1>4, TailOf
    <3> HIDE DEF t
    <3>2. Len(t) # 0
      BY <1>4, <1>15, <3>1
    <3>3. Len(<<>>) = 0
      OBVIOUS
    <3> QED
      BY <3>2, <3>3
  <2> HIDE DEF t
  <2>2. Amid(w, st, q, k, j, 2) /\ a2 = Place(w, k, j) + 2
    BY <1>12, <1>14 DEF a
  <2> QED
    BY <1>4, <1>10, <2>1, <2>2, Header3At
<1>16. ASSUME ~(Len(chunk) > 1) PROVE At(w, st, q, y)
  <2>1. y = a2
    BY <1>3, <1>4, <1>16
  <2>2. y = Place(w, k, j) + r
    BY <1>12, <2>1 DEF a
  <2> QED
    BY <1>14, <2>2, AmidAt
<1> QED
  BY <1>8, <1>15, <1>16

\* PacketParser.execute: a parser that stands after the first x bytes, in a header,
\* in a payload or between packets, and is given the bytes up to y, stands after the
\* first y bytes: where a chunk is cut makes no difference.
THEOREM ExecuteAt ==
    ASSUME NEW w, NEW pk, NEW st, Described(w, pk, st), NEW x, NEW y, NEW chunk, ChunkOf(st, x, y, chunk),
           chunk # <<>>, NEW p, WellFormed(p), At(w, st, p, x)
    PROVE  At(w, st, execute(p, chunk), y)
<1>1. CASE Reached(w, p, x) /\ p.mode = "start"
  BY <1>1, StartAt DEF execute
<1>2. CASE \E k, j, r : Amid(w, st, p, k, j, r) /\ x = Place(w, k, j) + r
  <2>1. PICK k, j, r : Amid(w, st, p, k, j, r) /\ x = Place(w, k, j) + r
    BY <1>2
  <2>2. r \in Nat /\ r >= 1 /\ Within(p, st, Place(w, k, j), Size(w, k, j), r)
    BY <2>1 DEF Amid
  <2>3. r = 1 \/ r = 2 \/ r >= 3
    BY <2>2
  <2>4. CASE r = 1
    <3>1. p.mode = "header2" /\ Amid(w, st, p, k, j, 1) /\ x = Place(w, k, j) + 1
      BY <2>1, <2>2, <2>4 DEF Within
    <3>2. At(w, st, executeHeader2(p, chunk), y)
      BY <3>1, Header2At
    <3> QED
      BY <3>1, <3>2 DEF execute
  <2>5. CASE r = 2
    <3>1. p.mode = "header3" /\ Amid(w, st, p, k, j, 2) /\ x = Place(w, k, j) + 2
      BY <2>1, <2>2, <2>5 DEF Within
    <3>2. At(w, st, executeHeader3(p, chunk), y)
      BY <3>1, Header3At
    <3> QED
      BY <3>1, <3>2 DEF execute
  <2>6. CASE r >= 3
    <3>1. p.mode = "payload"
      BY <2>2, <2>6 DEF Within
    <3>2. At(w, st, executePayload(p, chunk), y)
      BY <2>1, <2>6, PayloadAt
    <3> QED
      BY <3>1, <3>2 DEF execute
  <2> QED
    BY <2>3, <2>4, <2>5, <2>6
<1> QED
  BY <1>1, <1>2 DEF At

-----------------------------------------------------------------------------
\* What is complete.

LEMMA LastsGrow ==
    ASSUME NEW w, NEW pk, NEW st, Described(w, pk, st), NEW i \in 0 .. Len(w.lengths), NEW m \in 0 .. Len(w.lengths)
    PROVE  /\ w.last[i] \in Nat /\ w.last[m] \in Nat
           /\ i < m => w.last[i] < w.last[m]
           /\ i <= m => w.last[i] <= w.last[m]
<1> DEFINE N == Len(w.lengths)
           S == {z \in 0 .. N : \A u \in 0 .. N : u < z => w.last[u] < w.last[z]}
<1>1. N \in Nat /\ w.lengths \in Seq(Nat) /\ w.hl \in HeaderLengths /\ \A z \in 0 .. N : w.last[z] \in Nat
  BY DescribedFacts
<1>2. ASSUME NEW z \in 1 .. N PROVE w.last[z - 1] < w.last[z]
  <2>1. w.last[z] = w.last[z - 1] + FramesEnd(w.lengths[z], w.hl, Pieces(w.lengths[z]))
    BY DEF Described
  <2> DEFINE L == w.lengths[z]
             f == FramesEnd(L, w.hl, Pieces(L))
  <2>2. L \in Nat
    BY <1>1, ElementOfSeq
  <2> HIDE DEF L
  <2>3. f \in Nat /\ f >= 1
    <3>1. Pieces(L) \in Nat /\ Pieces(L) >= 1 /\ PieceEnd(L, Pieces(L)) = L
      BY <2>2, PieceFacts
    <3>2. w.hl \in Nat /\ w.hl >= 4
      BY DescribedFacts
    <3> DEFINE q == Pieces(L)
               h == w.hl
    <3>3. f = q * h + L
      BY <3>1 DEF FramesEnd
    <3> HIDE DEF q, h, f
    <3>4. q \in Nat /\ q >= 1 /\ h \in Nat /\ h >= 4
      BY <3>1, <3>2 DEF q, h
    <3>5. q * h \in Nat /\ q * h >= 1
      <4>1. 1 * h <= q * h /\ q * h \in Nat /\ 1 * h = h
        BY <3>4, Product
      <4> QED
        BY <3>4, <4>1
    <3> QED
      BY <2>2, <3>3, <3>5
  <2>4. w.last[z] = w.last[z - 1] + f
    BY <2>1 DEF L
  <2>5. z - 1 \in 0 .. N /\ z \in 0 .. N
    BY <1>1
  <2>6. w.last[z - 1] \in Nat
    BY <1>1, <2>5
  <2> HIDE DEF f
  <2> QED
    BY <2>3, <2>4, <2>6
<1> HIDE DEF N
<1>3. 0 \in S
  BY <1>1
<1>4. ASSUME NEW z \in 1 .. N, z - 1 \in S PROVE z \in S
  <2>1. z \in 0 .. N /\ z - 1 \in 0 .. N /\ w.last[z - 1] < w.last[z] /\ w.last[z] \in Nat /\ w.last[z - 1] \in Nat
    BY <1>1, <1>2
  <2>2. ASSUME NEW u \in 0 .. N, u < z PROVE w.last[u] < w.last[z]
    <3>1. u = z - 1 \/ u < z - 1
      BY <1>1, <2>2
    <3>2. w.last[u] \in Nat
      BY <1>1
    <3>3. u < z - 1 => w.last[u] < w.last[z - 1]
      BY <1>4
    <3> QED
      BY <2>1, <3>1, <3>2, <3>3
  <2> QED
    BY <2>1, <2>2
<1>5. m \in S
  <2> HIDE DEF S
  <2>1. 0 .. N \subseteq S
    BY <1>1, <1>3, <1>4, UpTo
  <2> QED
    BY <2>1 DEF N
<1>6. i \in 0 .. N /\ m \in 0 .. N /\ w.last[i] \in Nat /\ w.last[m] \in Nat
  BY <1>1 DEF N
<1>7. i < m => w.last[i] < w.last[m]
  BY <1>5, <1>6
<1>8. i <= m => i < m \/ i = m
  BY <1>1, <1>6
<1> QED
  BY <1>6, <1>7, <1>8

\* Of the first x bytes, k packets are complete.
Handed(w, k, x) == /\ k \in 0 .. Len(w.lengths) /\ x \in Nat /\ w.last[k] <= x
                   /\ k < Len(w.lengths) => x < w.last[k + 1]

LEMMA FramesGrow ==
    ASSUME NEW L \in Nat, NEW hl \in HeaderLengths, NEW j \in 1 .. Pieces(L)
    PROVE  FramesEnd(L, hl, j) <= FramesEnd(L, hl, Pieces(L))
<1> DEFINE k == 0
           id == 0
<1>1. k \in Nat /\ id \in Nat
  OBVIOUS
<1> HIDE DEF k, id
<1>2. FrameSlices(Framed(Payload(k, L), id, hl), k, L, id, hl)
  BY <1>1, FramedCut
<1> QED
  BY <1>2 DEF FrameSlices

LEMMA AtHanded ==
    ASSUME NEW w, NEW pk, NEW st, Described(w, pk, st), NEW p, NEW x, At(w, st, p, x), x <= Len(st)
    PROVE  \E k : Handed(w, k, x) /\ p.out = Out(w, k) /\ p \in Parsers /\ p.headerLength = w.hl
<1> DEFINE N == Len(w.lengths)
<1>1. /\ N \in Nat /\ w.hl \in HeaderLengths /\ w.hl \in Nat /\ w.hl >= 4
      /\ Len(st) \in Nat /\ Len(st) = w.last[N] /\ \A z \in 0 .. N : w.last[z] \in Nat
  BY DescribedFacts
<1>2. PICK k, j, r : /\ Boundary(w, p, k, j) /\ r \in Nat /\ x = Place(w, k, j) + r
                     /\ r = 0 \/ (More(w, k, j) /\ r < w.hl + Size(w, k, j))
  <2>1. CASE Reached(w, p, x)
    <3>1. PICK k, j : Boundary(w, p, k, j) /\ x = Place(w, k, j)
      BY <2>1 DEF Reached
    <3>2. Place(w, k, j) \in Nat
      <4>1. k \in 0 .. N /\ j \in Nat /\ (k = N => j = 0) /\ (k < N => j < Pieces(w.lengths[k + 1]))
        BY <3>1 DEF Boundary
      <4>2. CASE j = 0
        BY <1>1, <4>1, <4>2 DEF Place
      <4>3. CASE j # 0
        <5>1. k \in Nat /\ k < N
          <6> HIDE DEF N
          <6> QED
            BY <1>1, <4>1, <4>3
        <5>2. More(w, k, j)
          BY <4>1, <5>1 DEF More
        <5> QED
          BY <5>2, FramePlace
      <4> QED
        BY <4>2, <4>3
    <3>3. x = Place(w, k, j) + 0
      BY <3>1, <3>2
    <3> QED
      BY <3>1, <3>3
  <2>2. CASE \E k, j, r : Amid(w, st, p, k, j, r) /\ x = Place(w, k, j) + r
    BY <2>2 DEF Amid
  <2> QED
    BY <2>1, <2>2 DEF At
<1>3. /\ k \in 0 .. N /\ j \in Nat /\ (k = N => j = 0) /\ (k < N => j < Pieces(w.lengths[k + 1]))
      /\ p.out = Out(w, k) /\ p \in Parsers /\ p.headerLength = w.hl
  BY <1>2 DEF Boundary
<1>4. CASE More(w, k, j)
  <2> DEFINE L == w.lengths[k + 1]
             h == w.hl
             a == Place(w, k, j)
             n == Size(w, k, j)
             c == w.last[k]
             d == w.last[k + 1]
  <2>1. /\ j + 1 \in 1 .. Pieces(L) /\ L \in Nat /\ Pieces(L) \in Nat
        /\ c \in Nat /\ d = c + FramesEnd(L, h, Pieces(L)) /\ Begin(w, k + 1, j + 1) = c + FramesEnd(L, h, j)
    BY <1>4, NextFrame
  <2>2. a \in Nat /\ n \in Nat
    BY <1>4, FramePlace
  <2>3. a = c + FramesEnd(L, h, j)
    <3>1. FramesEnd(L, h, 0) = 0
      BY <1>1, <2>1, FramesEnds
    <3>2. j = 0 => a = c + FramesEnd(L, h, j)
      BY <2>1, <3>1 DEF Place
    <3>3. j # 0 => a = c + FramesEnd(L, h, j)
      BY <2>1 DEF Place
    <3> QED
      BY <3>2, <3>3
  <2> DEFINE J == j + 1
             f == FramesEnd(L, h, j)
             f1 == FramesEnd(L, h, J)
             fn == FramesEnd(L, h, Pieces(L))
  <2>4. f1 = f + (h + n) /\ f \in Nat /\ f1 \in Nat
    <3>1. J - 1 = j
      BY <1>3
    <3>2. /\ FramesEnd(L, h, J - 1) \in Nat /\ FramesEnd(L, h, J) \in Nat
          /\ FramesEnd(L, h, J) = FramesEnd(L, h, J - 1) + (h + PieceLength(L, J))
      BY <1>1, <2>1, FramesEnds
    <3> QED
      BY <3>1, <3>2 DEF Size
  <2>5. f1 <= fn /\ fn \in Nat
    BY <1>1, <2>1, FramesGrow, FramesEnds
  <2>6. a = c + f /\ d = c + fn
    BY <2>1, <2>3
  <2>7. x = a + r /\ r \in Nat /\ r < h + n
    <3>1. r = 0 \/ r < h + n
      BY <1>2
    <3>2. h + n > 0
      BY <1>1, <2>2
    <3> QED
      BY <1>2, <3>1, <3>2
  <2> HIDE DEF a, c, d, h, n, f, f1, fn
  <2>8. h \in Nat
    BY <1>1 DEF h
  <2>9. c <= x /\ x < d /\ x \in Nat
    BY <2>1, <2>2, <2>4, <2>5, <2>6, <2>7, <2>8
  <2>10. Handed(w, k, x)
    BY <1>3, <2>9 DEF Handed, c, d
  <2> QED
    BY <1>3, <2>10
<1>5. CASE ~More(w, k, j)
  <2>1. k = N
    <3>1. k \in Nat /\ ~(k < N)
      BY <1>1, <1>3, <1>5 DEF More
    <3> HIDE DEF N
    <3> QED
      BY <1>1, <1>3, <3>1
  <2>2. j = 0 /\ r = 0
    BY <1>2, <1>3, <1>5, <2>1
  <2>3. x = w.last[k] /\ w.last[k] \in Nat
    <3>1. Place(w, k, j) = w.last[k] /\ w.last[k] \in Nat
      BY <1>1, <1>3, <2>2 DEF Place
    <3> QED
      BY <1>2, <2>2, <3>1
  <2>4. ~(k < N)
    BY <1>1, <2>1
  <2>5. Handed(w, k, x)
    BY <1>3, <2>3, <2>4 DEF Handed
  <2> QED
    BY <1>3, <2>5
<1> QED
  BY <1>4, <1>5

\* More bytes, more packets.
LEMMA HandedGrow ==
    ASSUME NEW w, NEW pk, NEW st, Described(w, pk, st), NEW k, NEW x, NEW m, NEW y,
           Handed(w, k, x), Handed(w, m, y), x <= y
    PROVE  k <= m /\ k \in Nat /\ m \in Nat
<1> DEFINE N == Len(w.lengths)
<1>1. /\ k \in 0 .. N /\ m \in 0 .. N /\ x \in Nat /\ y \in Nat /\ w.last[k] <= x
      /\ m < N => y < w.last[m + 1]
  BY DEF Handed
<1>2. N \in Nat
  BY DescribedFacts
<1> HIDE DEF N
<1>3. ASSUME k > m PROVE FALSE
  <2> DEFINE i == m + 1
  <2>1. i \in 0 .. N /\ i <= k /\ m < N
    BY <1>1, <1>2, <1>3
  <2> HIDE DEF i
  <2>2. w.last[i] <= w.last[k] /\ w.last[i] \in Nat /\ w.last[k] \in Nat
    BY <1>1, <2>1, LastsGrow DEF N
  <2>3. y < w.last[i]
    BY <1>1, <2>1 DEF i
  <2> QED
    BY <1>1, <2>2, <2>3
<1> QED
  BY <1>1, <1>2, <1>3

\* The packets that are complete, as FramingExact counts them.
LEMMA CompleteIs ==
    ASSUME NEW w, Described(w, packets, stream), NEW k, NEW x, Handed(w, k, x)
    PROVE  Complete(x) = Out(w, k)
<1> DEFINE N == Len(w.lengths)
           T == {i \in 1 .. Len(packets) : packets[i].last <= x}
<1>1. /\ k \in 0 .. N /\ x \in Nat /\ w.last[k] <= x /\ (k < N => x < w.last[k + 1])
  BY DEF Handed
<1>2. N \in Nat
  BY DescribedFacts
<1>3. packets = [i \in 1 .. N |-> PacketOf(w, i)]
  BY DEF Described
<1>4. Len(packets) = N /\ \A i \in 1 .. N : packets[i] = PacketOf(w, i)
  <2> HIDE DEF N
  <2> QED
    BY <1>2, <1>3
<1>5. T = 1 .. k
  <2>1. ASSUME NEW i \in 1 .. N PROVE packets[i].last <= x <=> i <= k
    <3>1. packets[i].last = w.last[i]
      <4>1. packets[i] = PacketOf(w, i)
        BY <1>4
      <4>2. PacketOf(w, i).last = w.last[i]
        BY DEF PacketOf
      <4> QED
        BY <4>1, <4>2
    <3>2. i \in 0 .. N
      BY <1>2
    <3>3. i <= k => w.last[i] <= x
      <4>1. i <= k => w.last[i] <= w.last[k]
        BY <1>1, <3>2, LastsGrow
      <4>2. w.last[i] \in Nat /\ w.last[k] \in Nat
        BY <1>1, <3>2, LastsGrow
      <4> QED
        BY <1>1, <4>1, <4>2
    <3>4. ASSUME i > k PROVE x < w.last[i]
      <4> DEFINE z == k + 1
      <4>1. z \in 0 .. N /\ z <= i /\ k < N
        <5> HIDE DEF N
        <5> QED
          BY <1>1, <1>2, <3>4
      <4> HIDE DEF z
      <4>2. w.last[z] <= w.last[i] /\ w.last[z] \in Nat /\ w.last[i] \in Nat
        BY <3>2, <4>1, LastsGrow
      <4>3. x < w.last[z]
        BY <1>1, <4>1 DEF z
      <4> QED
        BY <1>1, <4>2, <4>3
    <3>5. w.last[i] \in Nat
      BY <1>1, <3>2, LastsGrow
    <3> QED
      BY <1>1, <1>2, <3>1, <3>3, <3>4, <3>5
  <2> HIDE DEF N
  <2>2. \A i : i \in T <=> i \in 1 .. N /\ i <= k
    BY <1>4, <2>1
  <2>3. \A i : i \in 1 .. N /\ i <= k <=> i \in 1 .. k
    BY <1>1, <1>2
  <2> QED
    BY <2>2, <2>3
<1>6. Cardinality(T) = k
  <2>1. k \in Nat
    BY <1>1, <1>2
  <2>2. Cardinality(1 .. k) = IF 1 > k THEN 0 ELSE k - 1 + 1
    BY <2>1, FS_Interval
  <2>3. k = 0 \/ k >= 1
    BY <2>1
  <2>4. Cardinality(1 .. k) = k
    BY <2>1, <2>2, <2>3
  <2> HIDE DEF T
  <2> QED
    BY <1>5, <2>4
<1>7. Complete(x) = [i \in 1 .. k |-> [sequenceId |-> packets[i].sequenceId, content |-> packets[i].content,
                                       numPackets |-> packets[i].numPackets]]
  BY <1>6 DEF Complete
<1>8. \A i \in 1 .. k : [sequenceId |-> packets[i].sequenceId, content |-> packets[i].content,
                         numPackets |-> packets[i].numPackets] = OutOf(w, i)
  <2>1. ASSUME NEW i \in 1 .. k
        PROVE  [sequenceId |-> packets[i].sequenceId, content |-> packets[i].content,
                         numPackets |-> packets[i].numPackets] = OutOf(w, i)
    <3>1. i \in 1 .. N
      <4> HIDE DEF N
      <4> QED
        BY <1>1, <1>2
    <3>2. packets[i] = PacketOf(w, i)
      BY <1>4, <3>1
    <3> QED
      BY <3>2 DEF PacketOf, OutOf
  <2> QED
    BY <2>1
<1> QED
  BY <1>7, <1>8 DEF Out

LEMMA OutPrefix ==
    ASSUME NEW w, NEW k \in Nat, NEW m \in Nat, k <= m
    PROVE  Prefix(Out(w, k), Out(w, m)) /\ Len(Out(w, k)) = k
<1>1. Len(Out(w, k)) = k /\ Len(Out(w, m)) = m
  BY DEF Out
<1>2. Out(w, k) = SubSeq(Out(w, m), 1, k)
  BY DEF Out
<1> QED
  BY <1>1, <1>2 DEF Prefix

-----------------------------------------------------------------------------
\* The sequence ids the connection counts.

\* Before each of the first m packets, and after them.
Ids(w, m) == [i \in 1 .. m + 1 |-> w.id[i]]

\* How Parse counts from packet k to packet m: ids is defined by itself.
Counting(w, k, new, ids) ==
    ids = [n \in 0 .. Len(new) |-> IF n = 0 THEN w.id[k + 1] ELSE Bumped(ids[n - 1], new[n].numPackets)]

LEMMA NewPackets ==
    ASSUME NEW w, NEW k \in Nat, NEW m \in Nat, k <= m
    PROVE  /\ Len(SubSeq(Out(w, m), Len(Out(w, k)) + 1, Len(Out(w, m)))) = m - k
           /\ \A n \in 1 .. m - k :
                SubSeq(Out(w, m), Len(Out(w, k)) + 1, Len(Out(w, m)))[n] = OutOf(w, k + n)
<1>1. Len(Out(w, k)) = k /\ Len(Out(w, m)) = m
  BY DEF Out
<1> DEFINE s == SubSeq(Out(w, m), k + 1, m)
<1>2. Len(s) = m - k /\ \A n \in 1 .. m - k : s[n] = OutOf(w, k + n)
  BY DEF Out
<1> QED
  BY <1>1, <1>2

\* The id counted after packet k + n is that of the next packet.
LEMMA IdNext ==
    ASSUME NEW w, NEW pk, NEW st, Described(w, pk, st), NEW k \in Nat, NEW m \in Nat, k <= m, m <= Len(w.lengths),
           NEW n \in 1 .. m - k
    PROVE  w.id[(k + 1) + n] = Bumped(w.id[(k + 1) + (n - 1)], OutOf(w, k + n).numPackets)
<1> DEFINE i == k + n
<1>1. i \in 1 .. Len(w.lengths) /\ (k + 1) + n = i + 1 /\ (k + 1) + (n - 1) = i
  BY DescribedFacts
<1>2. \A z \in 1 .. Len(w.lengths) : w.id[z + 1] = (w.id[z] + Pieces(w.lengths[z])) % SEQ
  BY DEF Described
<1> HIDE DEF i
<1>3. w.id[i + 1] = (w.id[i] + Pieces(w.lengths[i])) % SEQ
  BY <1>1, <1>2
<1>4. OutOf(w, i).numPackets = Pieces(w.lengths[i])
  BY DEF OutOf
<1>5. w.id[i + 1] = Bumped(w.id[i], OutOf(w, i).numPackets)
  BY <1>3, <1>4 DEF Bumped
<1> QED
  BY <1>1, <1>5 DEF i

LEMMA CountingIs ==
    ASSUME NEW w, NEW pk, NEW st, Described(w, pk, st), NEW k \in Nat, NEW m \in Nat, k <= m, m <= Len(w.lengths),
           NEW new, Len(new) = m - k, \A n \in 1 .. m - k : new[n] = OutOf(w, k + n)
    PROVE  /\ \E ids : Counting(w, k, new, ids)
           /\ \A ids : Counting(w, k, new, ids) => \A n \in 0 .. m - k : ids[n] = w.id[(k + 1) + n]
<1> DEFINE M == m - k
           g == [n \in 0 .. M |-> w.id[(k + 1) + n]]
<1>1. M \in Nat /\ Len(new) = M
  OBVIOUS
<1>2. \A n \in 1 .. M : new[n] = OutOf(w, k + n)
  OBVIOUS
<1>3. \A n \in 1 .. M : w.id[(k + 1) + n] = Bumped(w.id[(k + 1) + (n - 1)], OutOf(w, k + n).numPackets)
  BY IdNext
<1>4. (k + 1) + 0 = k + 1
  OBVIOUS
<1> HIDE DEF M
<1>5. Counting(w, k, new, g)
  <2>1. ASSUME NEW n \in 0 .. M
        PROVE  g[n] = IF n = 0 THEN w.id[k + 1] ELSE Bumped(g[n - 1], new[n].numPackets)
    <3>1. CASE n = 0
      BY <1>4, <2>1, <3>1
    <3>2. CASE n # 0
      <4>1. n \in 1 .. M /\ n - 1 \in 0 .. M
        BY <1>1, <3>2
      <4>2. g[n] = w.id[(k + 1) + n] /\ g[n - 1] = w.id[(k + 1) + (n - 1)]
        BY <4>1
      <4>3. new[n] = OutOf(w, k + n)
        BY <1>2, <4>1
      <4>4. w.id[(k + 1) + n] = Bumped(w.id[(k + 1) + (n - 1)], OutOf(w, k + n).numPackets)
        BY <1>3, <4>1
      <4> HIDE DEF g
      <4> QED
        BY <3>2, <4>2, <4>3, <4>4
    <3> QED
      BY <3>1, <3>2
  <2>2. g = [n \in 0 .. M |-> g[n]]
    OBVIOUS
  <2> HIDE DEF g
  <2>3. g = [n \in 0 .. M |-> IF n = 0 THEN w.id[k + 1] ELSE Bumped(g[n - 1], new[n].numPackets)]
    BY <2>1, <2>2
  <2> QED
    BY <1>1, <2>3 DEF Counting
<1>6. ASSUME NEW ids, Counting(w, k, new, ids) PROVE \A n \in 0 .. M : ids[n] = w.id[(k + 1) + n]
  <2> DEFINE S == {n \in 0 .. M : ids[n] = w.id[(k + 1) + n]}
  <2>1. ids = [n \in 0 .. M |-> IF n = 0 THEN w.id[k + 1] ELSE Bumped(ids[n - 1], new[n].numPackets)]
    BY <1>1, <1>6 DEF Counting
  <2>2. \A n \in 0 .. M : ids[n] = IF n = 0 THEN w.id[k + 1] ELSE Bumped(ids[n - 1], new[n].numPackets)
    BY <2>1
  <2>3. 0 \in S
    BY <1>1, <1>4, <2>2
  <2>4. ASSUME NEW n \in 1 .. M, n - 1 \in S PROVE n \in S
    <3>1. n \in 0 .. M /\ n # 0 /\ ids[n - 1] = w.id[(k + 1) + (n - 1)]
      BY <1>1, <2>4
    <3>2. ids[n] = Bumped(ids[n - 1], new[n].numPackets)
      BY <2>2, <3>1
    <3>3. new[n] = OutOf(w, k + n)
      BY <1>2
    <3>4. w.id[(k + 1) + n] = Bumped(w.id[(k + 1) + (n - 1)], OutOf(w, k + n).numPackets)
      BY <1>3
    <3>5. ids[n] = w.id[(k + 1) + n]
      BY <3>1, <3>2, <3>3, <3>4
    <3> QED
      BY <3>1, <3>5
  <2>5. 0 .. M \subseteq S
    <3> HIDE DEF S
    <3> QED
      BY <1>1, <2>3, <2>4, UpTo
  <2> QED
    BY <2>5
<1> QED
  BY <1>5, <1>6 DEF M

NewOnes(w, k, m, new) == Len(new) = m - k /\ \A n \in 1 .. m - k : new[n] = OutOf(w, k + n)

CountsTo(w, k, m, new) ==
    /\ \E ids : Counting(w, k, new, ids)
    /\ \A ids : Counting(w, k, new, ids) => \A n \in 0 .. m - k : ids[n] = w.id[(k + 1) + n]

LEMMA NewOnesCount ==
    ASSUME NEW w, NEW pk, NEW st, Described(w, pk, st), NEW k \in Nat, NEW m \in Nat, k <= m, m <= Len(w.lengths),
           NEW new, NewOnes(w, k, m, new)
    PROVE  CountsTo(w, k, m, new)
<1>1. Len(new) = m - k /\ \A n \in 1 .. m - k : new[n] = OutOf(w, k + n)
  BY DEF NewOnes
<1> QED
  BY <1>1, CountingIs DEF CountsTo

LEMMA IdsJoin ==
    ASSUME NEW w, NEW pk, NEW st, Described(w, pk, st), NEW k \in Nat, NEW m \in Nat, k <= m, m <= Len(w.lengths)
    PROVE  Ids(w, k) \o [n \in 1 .. m - k |-> w.id[(k + 1) + n]] = Ids(w, m)
<1> DEFINE T == 0 .. SEQ - 1
           K == k + 1
           M == m - k
           s == Ids(w, k)
           t == [n \in 1 .. M |-> w.id[K + n]]
           u == Ids(w, m)
<1>1. \A i \in 1 .. Len(w.lengths) + 1 : w.id[i] \in T
  BY DEF Described
<1>2. K \in Nat /\ M \in Nat /\ K + M = m + 1 /\ Len(w.lengths) \in Nat /\ m + 1 \in Nat
  BY DescribedFacts
<1>3. /\ \A i \in 1 .. K : i \in 1 .. Len(w.lengths) + 1
      /\ \A i \in 1 .. M : K + i \in 1 .. Len(w.lengths) + 1
      /\ \A i \in 1 .. K + M : i \in 1 .. Len(w.lengths) + 1
  BY <1>2
<1>4. s = [i \in 1 .. K |-> w.id[i]] /\ u = [i \in 1 .. K + M |-> w.id[i]]
  BY <1>2 DEF Ids
<1> HIDE DEF s, u, T, K, M
<1>5. s \in [1 .. K -> T] /\ t \in [1 .. M -> T] /\ u \in [1 .. K + M -> T]
  BY <1>1, <1>3, <1>4
<1>6. \A n \in 1 .. M : t[n] = w.id[K + n]
  OBVIOUS
<1> HIDE DEF t
<1>7. s \in Seq(T) /\ Len(s) = K /\ t \in Seq(T) /\ Len(t) = M
  BY <1>2, <1>5, FunctionIsSeq
<1>8. /\ s \o t \in Seq(T) /\ Len(s \o t) = K + M
      /\ \A i \in 1 .. K : (s \o t)[i] = s[i]
      /\ \A i \in 1 .. M : (s \o t)[K + i] = t[i]
  <2>1. /\ s \o t \in Seq(T) /\ Len(s \o t) = Len(s) + Len(t)
        /\ \A i \in 1 .. Len(s) : (s \o t)[i] = s[i]
        /\ \A i \in 1 .. Len(t) : (s \o t)[Len(s) + i] = t[i]
    <3>1. s \in Seq(T) /\ t \in Seq(T)
      BY <1>7
    <3>2. s \o t \in Seq(T) /\ Len(s \o t) = Len(s) + Len(t)
      BY <3>1, Joined
    <3>3. \A i \in 1 .. Len(s) : (s \o t)[i] = s[i]
      BY <3>1, Joined
    <3>4. \A i \in 1 .. Len(t) : (s \o t)[Len(s) + i] = t[i]
      BY <3>1, Joined
    <3> QED
      BY <3>2, <3>3, <3>4
  <2> QED
    BY <1>7, <2>1
<1> DEFINE v == s \o t
<1>9. \A i \in 1 .. K : v[i] = w.id[i]
  BY <1>4, <1>8
<1>10. \A i \in 1 .. M : v[K + i] = w.id[K + i]
  BY <1>6, <1>8
<1> HIDE DEF v
<1>11. ASSUME NEW i \in 1 .. K + M PROVE v[i] = w.id[i]
  <2>1. CASE i <= K
    BY <1>2, <1>9, <2>1
  <2>2. CASE i > K
    <3>1. i - K \in 1 .. M /\ K + (i - K) = i
      BY <1>2, <2>2
    <3> QED
      BY <1>10, <3>1
  <2> QED
    BY <1>2, <2>1, <2>2
<1>12. v = [i \in 1 .. K + M |-> v[i]]
  <2>1. v \in Seq(T) /\ Len(v) = K + M
    BY <1>8 DEF v
  <2>2. v \in [1 .. Len(v) -> T]
    BY <2>1, LenProperties
  <2> QED
    BY <2>1, <2>2
<1>13. v = u
  BY <1>4, <1>11, <1>12
<1> QED
  BY <1>13 DEF v, s, t, u, K, M

\* Before a fatal error, Parse hands over what execute does, and counts.
LEMMA ParseIs ==
    ASSUME NEW w, Described(w, packets, stream), NEW k \in Nat, NEW m \in Nat, k <= m, m <= Len(w.lengths),
           NEW bytes, Parse(bytes), ~failed, parser.out = Out(w, k), sequenceId = Ids(w, k),
           execute(parser, bytes).out = Out(w, m)
    PROVE  parser' = execute(parser, bytes) /\ sequenceId' = Ids(w, m)
<1> DEFINE p == execute(parser, bytes)
           new == SubSeq(p.out, Len(parser.out) + 1, Len(p.out))
           Body0(g) == [n \in 0 .. Len(new) |->
                           IF n = 0 THEN sequenceId[Len(sequenceId)] ELSE Bumped(g[n - 1], new[n].numPackets)]
           ids == CHOOSE g : g = Body0(g)
<1>1. parser' = p /\ sequenceId' = sequenceId \o [n \in 1 .. Len(new) |-> ids[n]]
  BY DEF Parse
<1>2. Len(new) = m - k /\ \A n \in 1 .. m - k : new[n] = OutOf(w, k + n)
  <2>1. new = SubSeq(Out(w, m), Len(Out(w, k)) + 1, Len(Out(w, m)))
    OBVIOUS
  <2> HIDE DEF new
  <2> QED
    BY <2>1, NewPackets
<1>3. sequenceId[Len(sequenceId)] = w.id[k + 1]
  BY DEF Ids
<1> HIDE DEF new, p
<1>4. \A g : g = Body0(g) <=> Counting(w, k, new, g)
  BY <1>3 DEF Counting
<1>5. /\ \E g : Counting(w, k, new, g)
      /\ \A g : Counting(w, k, new, g) => \A n \in 0 .. m - k : g[n] = w.id[(k + 1) + n]
  <2>1. NewOnes(w, k, m, new)
    BY <1>2 DEF NewOnes
  <2>2. CountsTo(w, k, m, new)
    BY <2>1, NewOnesCount
  <2> QED
    BY <2>2 DEF CountsTo
<1>6. ids = Body0(ids)
  <2>1. \E g : g = Body0(g)
    BY <1>4, <1>5
  <2> HIDE DEF Body0
  <2> QED
    BY <2>1
<1>7. Counting(w, k, new, ids)
  <2> HIDE DEF ids
  <2> QED
    BY <1>4, <1>6
<1> HIDE DEF ids
<1>8. \A n \in 0 .. m - k : ids[n] = w.id[(k + 1) + n]
  BY <1>5, <1>7
<1>9. [n \in 1 .. Len(new) |-> ids[n]] = [n \in 1 .. m - k |-> w.id[(k + 1) + n]]
  BY <1>2, <1>8
<1>10. Ids(w, k) \o [n \in 1 .. m - k |-> w.id[(k + 1) + n]] = Ids(w, m)
  BY IdsJoin
<1> QED
  BY <1>1, <1>9, <1>10 DEF p

-----------------------------------------------------------------------------
\* The chunks that wait to be inflated.

\* The bytes of the tasks end at y and lie in the stream one after the other.
Cutting(st, tasks, cut, y) ==
    /\ cut \in [0 .. Len(tasks) -> Nat] /\ cut[Len(tasks)] = y
    /\ \A i \in 1 .. Len(tasks) : ChunkOf(st, cut[i - 1], cut[i], tasks[i].bytes)

LEMMA CutNone ==
    ASSUME NEW st, NEW y \in Nat
    PROVE  \E cut : Cutting(st, <<>>, cut, y) /\ cut[0] = y
<1> DEFINE cut == [i \in 0 .. 0 |-> y]
<1>1. Len(<<>>) = 0 /\ cut \in [0 .. 0 -> Nat] /\ cut[0] = y
  OBVIOUS
<1>2. Cutting(st, <<>>, cut, y)
  BY <1>1 DEF Cutting
<1> QED
  BY <1>1, <1>2

\* What waits starts at x and ends at y.
WaitsFrom(st, tasks, x, y) == \E cut : Cutting(st, tasks, cut, y) /\ cut[0] = x

Appended(tasks, task, s) == s = Append(tasks, task)

LEMMA CutAppend ==
    ASSUME NEW T, NEW st, NEW tasks \in Seq(T), NEW cut, NEW x, Cutting(st, tasks, cut, x),
           NEW task \in T, NEW y, ChunkOf(st, x, y, task.bytes),
           NEW s, Appended(tasks, task, s)
    PROVE  WaitsFrom(st, s, cut[0], y)
<1> DEFINE N == Len(tasks)
           c == [i \in 0 .. N + 1 |-> IF i <= N THEN cut[i] ELSE y]
<1>1. N \in Nat
  BY LenProperties
<1>2. /\ cut \in [0 .. N -> Nat] /\ cut[N] = x
      /\ \A i \in 1 .. N : ChunkOf(st, cut[i - 1], cut[i], tasks[i].bytes)
  BY DEF Cutting
<1>3. y \in Nat
  BY ChunkFacts
<1>4. s \in Seq(T) /\ Len(s) = N + 1 /\ s[N + 1] = task /\ \A i \in 1 .. N : s[i] = tasks[i]
  BY DEF Appended
<1> HIDE DEF N
<1>5. c \in [0 .. N + 1 -> Nat]
  BY <1>1, <1>2, <1>3
<1>6. c[N + 1] = y /\ c[N] = x /\ c[0] = cut[0]
  BY <1>1, <1>2
<1>7. ASSUME NEW i \in 1 .. N + 1 PROVE ChunkOf(st, c[i - 1], c[i], s[i].bytes)
  <2>1. CASE i <= N
    <3>1. i \in 1 .. N /\ c[i - 1] = cut[i - 1] /\ c[i] = cut[i]
      BY <1>1, <2>1
    <3> HIDE DEF c
    <3> QED
      BY <1>2, <1>4, <3>1
  <2>2. CASE i = N + 1
    <3>1. i - 1 = N
      BY <1>1, <2>2
    <3> HIDE DEF c
    <3> QED
      BY <1>4, <1>6, <2>2, <3>1
  <2> QED
    BY <1>1, <2>1, <2>2
<1> HIDE DEF c
<1>8. Cutting(st, s, c, y)
  BY <1>4, <1>5, <1>6, <1>7 DEF Cutting
<1> QED
  BY <1>6, <1>8 DEF WaitsFrom

LEMMA CutTail ==
    ASSUME NEW T, NEW st, NEW tasks \in Seq(T), tasks # <<>>, NEW cut, NEW y, Cutting(st, tasks, cut, y)
    PROVE  \E c : Cutting(st, Tail(tasks), c, y) /\ ChunkOf(st, cut[0], c[0], Head(tasks).bytes)
<1> DEFINE N == Len(tasks)
           s == Tail(tasks)
           c == [i \in 0 .. N - 1 |-> cut[i + 1]]
<1>1. N \in Nat /\ N >= 1
  BY EmptySeq
<1>2. /\ cut \in [0 .. N -> Nat] /\ cut[N] = y
      /\ \A i \in 1 .. N : ChunkOf(st, cut[i - 1], cut[i], tasks[i].bytes)
  BY DEF Cutting
<1>3. Len(s) = N - 1 /\ Head(tasks) = tasks[1] /\ \A i \in 1 .. N - 1 : s[i] = tasks[i + 1]
  BY HeadTailProperties
<1> HIDE DEF N, s
<1>4. c \in [0 .. N - 1 -> Nat] /\ c[N - 1] = y /\ c[0] = cut[1]
  BY <1>1, <1>2
<1>5. ASSUME NEW i \in 1 .. N - 1 PROVE ChunkOf(st, c[i - 1], c[i], s[i].bytes)
  <2> DEFINE k == i + 1
  <2>1. k \in 1 .. N /\ k - 1 = i /\ c[i - 1] = cut[i] /\ c[i] = cut[k]
    BY <1>1
  <2>2. s[i] = tasks[k]
    BY <1>3
  <2> HIDE DEF k, c
  <2>3. ChunkOf(st, cut[k - 1], cut[k], tasks[k].bytes)
    BY <1>2, <2>1
  <2> QED
    BY <2>1, <2>2, <2>3
<1> HIDE DEF c
<1>6. Cutting(st, s, c, y)
  BY <1>3, <1>4, <1>5 DEF Cutting
<1>7. ChunkOf(st, cut[0], cut[1], tasks[1].bytes)
  <2> DEFINE k == 1
  <2>1. k \in 1 .. N /\ k - 1 = 0
    BY <1>1
  <2>2. ChunkOf(st, cut[k - 1], cut[k], tasks[k].bytes)
    BY <1>2, <2>1
  <2> QED
    BY <2>1, <2>2
<1>8. ChunkOf(st, cut[0], c[0], Head(tasks).bytes)
  BY <1>3, <1>4, <1>7
<1> QED
  BY <1>6, <1>8 DEF s

LEMMA CutStart ==
    ASSUME NEW st, NEW T, NEW tasks \in Seq(T), NEW cut, NEW y, Cutting(st, tasks, cut, y)
    PROVE  cut[0] \in Nat /\ y \in Nat /\ cut[0] <= y
<1> DEFINE N == Len(tasks)
           S == {n \in 0 .. N : cut[0] <= cut[n]}
<1>1. N \in Nat
  BY LenProperties
<1>2. /\ cut \in [0 .. N -> Nat] /\ cut[N] = y
      /\ \A i \in 1 .. N : ChunkOf(st, cut[i - 1], cut[i], tasks[i].bytes)
  BY DEF Cutting
<1> HIDE DEF N
<1>3. 0 \in S
  BY <1>1, <1>2
<1>4. ASSUME NEW n \in 1 .. N, n - 1 \in S PROVE n \in S
  <2>1. cut[n - 1] <= cut[n]
    BY <1>2 DEF ChunkOf
  <2>2. n \in 0 .. N /\ n - 1 \in 0 .. N /\ 0 \in 0 .. N
    BY <1>1
  <2>3. cut[n - 1] \in Nat /\ cut[n] \in Nat /\ cut[0] \in Nat
    BY <1>2, <2>2
  <2>4. cut[0] <= cut[n]
    BY <1>4, <2>1, <2>3
  <2> QED
    BY <2>2, <2>4
<1>5. 0 .. N \subseteq S
  <2> HIDE DEF S
  <2> QED
    BY <1>1, <1>3, <1>4, UpTo
<1>6. N \in 0 .. N /\ 0 \in 0 .. N
  BY <1>1
<1>7. N \in S
  BY <1>5, <1>6
<1> QED
  BY <1>2, <1>6, <1>7

\* Some number of packets is complete.
LEMMA HandedLast ==
    ASSUME NEW w, NEW pk, NEW st, Described(w, pk, st), NEW m \in 0 .. Len(w.lengths)
    PROVE  Handed(w, m, w.last[m])
<1> DEFINE N == Len(w.lengths)
<1>1. N \in Nat /\ w.last[m] \in Nat
  BY DescribedFacts
<1>2. ASSUME m < N PROVE w.last[m] < w.last[m + 1]
  <2> DEFINE i == m + 1
  <2>1. i \in 0 .. N /\ m < i
    <3> HIDE DEF N
    <3>1. m \in 0 .. N
      BY DEF N
    <3> QED
      BY <1>1, <1>2, <3>1
  <2> HIDE DEF i
  <2>2. w.last[m] < w.last[i]
    BY <2>1, LastsGrow
  <2> QED
    BY <2>2 DEF i
<1> QED
  BY <1>1, <1>2 DEF Handed

LEMMA HandedExists ==
    ASSUME NEW w, NEW pk, NEW st, Described(w, pk, st), NEW x \in Nat, x <= Len(st)
    PROVE  \E k : Handed(w, k, x)
<1> DEFINE N == Len(w.lengths)
           S == {i \in 0 .. N : x < w.last[i]}
<1>1. N \in Nat /\ \A i \in 0 .. N : w.last[i] \in Nat
  BY DescribedFacts
<1>2. w.last[0] = 0 /\ Len(st) = w.last[N]
  BY DEF Described
<1>3. CASE S = {}
  <2>1. N \in 0 .. N
    BY <1>1
  <2>2. ~(x < w.last[N]) /\ w.last[N] \in Nat
    BY <1>1, <1>3, <2>1
  <2>3. ~(N < N)
    BY <1>1
  <2>4. Handed(w, N, x)
    BY <2>1, <2>2, <2>3 DEF Handed
  <2> QED
    BY <2>4
<1>4. CASE S # {}
  <2>1. PICK i \in S : \A n \in S : i <= n
    <3>1. S \subseteq Nat
      BY <1>1
    <3> HIDE DEF S
    <3> QED
      BY <1>4, <3>1, Least
  <2>2. i \in 0 .. N /\ x < w.last[i] /\ i # 0
    BY <1>2, <2>1
  <2> DEFINE k == i - 1
  <2>3. k \in 0 .. N /\ k + 1 = i /\ k < i
    <3> HIDE DEF N, S
    <3> QED
      BY <1>1, <2>2
  <2>4. ~(x < w.last[k])
    <3>1. k \notin S
      <4> HIDE DEF S, k
      <4>1. ~(i <= k)
        BY <1>1, <2>2, <2>3
      <4> QED
        BY <2>1, <4>1
    <3> HIDE DEF k
    <3> QED
      BY <2>3, <3>1
  <2> HIDE DEF k
  <2>5. w.last[k] <= x
    <3>1. w.last[k] \in Nat
      BY <1>1, <2>3
    <3> QED
      BY <2>4, <3>1
  <2>6. Handed(w, k, x)
    BY <2>2, <2>3, <2>5 DEF Handed
  <2> QED
    BY <2>6
<1> QED
  BY <1>3, <1>4

\* A new parser has taken nothing.
LEMMA NewParserAt ==
    ASSUME NEW w, NEW pk, NEW st, Described(w, pk, st), NEW p, p = NewParser(w.hl)
    PROVE  WellFormed(p) /\ Reached(w, p, 0) /\ p.mode = "start" /\ p.buffer = <<>> /\ p.out = <<>>
<1>1. /\ Len(w.lengths) \in Nat /\ w.lengths \in Seq(Nat) /\ w.hl \in HeaderLengths /\ w.hl \in Nat
      /\ 0 \in 0 .. Len(w.lengths) /\ w.last[0] = 0
  <2>1. Len(w.lengths) \in Nat /\ w.lengths \in Seq(Nat) /\ w.hl \in HeaderLengths /\ w.hl \in Nat
    BY DescribedFacts
  <2>2. w.last[0] = 0
    BY DEF Described
  <2> QED
    BY <2>1, <2>2
<1>2. WellFormed(p) /\ p.mode = "start" /\ p.buffer = <<>> /\ p \in Parsers
      /\ p.headerLength = w.hl /\ p.out = <<>> /\ p.largePacketParts = <<>>
  <2>1. <<>> \in Seq(Bytes) /\ <<>> \in Seq(Seq(Bytes)) /\ <<>> \in Seq(Packets) /\ 0 \in Bytes
    BY DEF Bytes
  <2> QED
    BY <1>1, <2>1 DEF NewParser, WellFormed, Parsers, Bytes
<1>3. Out(w, 0) = <<>>
  BY DEF Out
<1>4. Boundary(w, p, 0, 0)
  <2>1. ASSUME 0 < Len(w.lengths) PROVE 0 < Pieces(w.lengths[0 + 1])
    <3>1. 1 \in 1 .. Len(w.lengths)
      BY <1>1, <2>1
    <3>2. w.lengths[1] \in Nat
      BY <1>1, <3>1, ElementOfSeq
    <3>3. Pieces(w.lengths[1]) \in Nat /\ Pieces(w.lengths[1]) >= 1
      BY <3>2, PieceFacts
    <3> QED
      BY <3>3
  <2>2. p.largePacketParts = [i \in 1 .. 0 |-> Piece(0 + 1, w.lengths[0 + 1], i)]
    BY <1>2, NoParts
  <2> QED
    BY <1>1, <1>2, <1>3, <2>1, <2>2 DEF Boundary
<1>5. Place(w, 0, 0) = 0
  BY <1>1 DEF Place
<1> QED
  BY <1>2, <1>4, <1>5 DEF Reached

-----------------------------------------------------------------------------
\* The queues.

InTasks == [bytes : Seq(Bytes) \ {<<>>}, kind : {"raw", "small", "large"}, ok : BOOLEAN]
Frames == [seqId : 0 .. SEQ - 1, call : Nat]
OutTasks == [frame : Frames, ok : BOOLEAN]

Queues(T) == [state : {"idle", "tick", "busy", "stuck"}, tasks : Seq(T)]

Sound(queue, T) ==
    /\ queue \in Queues(T)
    /\ queue.state = "idle" => queue.tasks = <<>>
    /\ queue.state \in {"busy", "stuck"} => queue.tasks # <<>>

LEMMA IdleSound == ASSUME NEW T PROVE Sound(IdleQueue, T) /\ IdleQueue.tasks = <<>> /\ IdleQueue.state = "idle"
<1>1. <<>> \in Seq(T)
  OBVIOUS
<1> QED
  BY <1>1 DEF Sound, Queues, IdleQueue

LEMMA PushedSound ==
    ASSUME NEW T, NEW queue, Sound(queue, T), NEW task \in T
    PROVE  Sound(Pushed(queue, task), T) /\ Pushed(queue, task).tasks = Append(queue.tasks, task)
<1> DEFINE s == Append(queue.tasks, task)
<1>1. queue \in Queues(T) /\ queue.tasks \in Seq(T) /\ queue.state \in {"idle", "tick", "busy", "stuck"}
  BY DEF Sound, Queues
<1>2. s \in Seq(T) /\ s # <<>>
  BY <1>1
<1>3. Pushed(queue, task) = [state |-> IF queue.state = "idle" THEN "tick" ELSE queue.state, tasks |-> s]
  BY DEF Pushed
<1> HIDE DEF s
<1>4. Pushed(queue, task).tasks = s
  BY <1>3
<1> QED
  BY <1>1, <1>2, <1>3, <1>4 DEF Sound, Queues, s

LEMMA NextSound ==
    ASSUME NEW T, NEW queue, Sound(queue, T)
    PROVE  /\ Sound(Next_(queue), T) /\ Next_(queue).tasks = queue.tasks
           /\ Next_(queue).state = "busy" => queue.tasks # <<>>
<1>1. CASE queue.tasks = <<>>
  <2>1. Next_(queue) = IdleQueue
    BY <1>1 DEF Next_
  <2> QED
    BY <1>1, <2>1, IdleSound
<1>2. CASE queue.tasks # <<>>
  <2>1. Next_(queue) = [queue EXCEPT !.state = "busy"]
    BY <1>2 DEF Next_
  <2> QED
    BY <1>2, <2>1 DEF Sound, Queues
<1> QED
  BY <1>1, <1>2

LEMMA DoneSound ==
    ASSUME NEW T, NEW queue, Sound(queue, T), queue.tasks # <<>>
    PROVE  /\ Sound(Done(queue), T) /\ Done(queue).tasks = Tail(queue.tasks)
           /\ queue.tasks \in Seq(T) /\ Head(queue.tasks) \in T
<1>1. queue.tasks \in Seq(T)
  BY DEF Sound, Queues
<1>2. Tail(queue.tasks) \in Seq(T) /\ Head(queue.tasks) \in T
  BY <1>1, HeadTailProperties
<1> DEFINE s == Tail(queue.tasks)
<1>3. s \in Seq(T) /\ Done(queue) = [state |-> "tick", tasks |-> s]
  BY <1>2 DEF Done
<1> HIDE DEF s
<1>4. Sound(Done(queue), T) /\ Done(queue).tasks = s
  BY <1>3 DEF Sound, Queues
<1> QED
  BY <1>1, <1>2, <1>4 DEF s

LEMMA StuckSound ==
    ASSUME NEW T, NEW queue, Sound(queue, T), queue.tasks # <<>>, NEW q, q = [queue EXCEPT !.state = "stuck"]
    PROVE  Sound(q, T) /\ q.tasks = queue.tasks
  BY DEF Sound, Queues

Sizes == {"tiny", "small", "large"}

QueuesInv ==
    /\ Sound(inflateQueue, InTasks) /\ Sound(deflateQueue, OutTasks)
    /\ compressedSequenceId \in 0 .. SEQ - 1 /\ failed \in BOOLEAN
    /\ toWrite \in Seq(Sizes)
    /\ mode \in {"plain", "compressed"}
    /\ mode = "plain" => /\ ~failed /\ inflateQueue = IdleQueue /\ deflateQueue = IdleQueue
                         /\ toWrite = <<>>

-----------------------------------------------------------------------------
\* The invariant: how many packets have been handled, and where the parser is.

Counted(w, m) ==
    /\ m \in 0 .. Len(w.lengths) /\ w.last[m] <= pos
    /\ parser.out = Out(w, m) /\ sequenceId = Ids(w, m)

\* What waits ends where the received bytes end, and follows what was parsed.
Following(w) ==
    \E cut : Cutting(stream, inflateQueue.tasks, cut, pos) /\ At(w, stream, parser, cut[0])

Placed(w) ==
    /\ Described(w, packets, stream)
    /\ WellFormed(parser)
    /\ pos \in 0 .. Len(stream)
    /\ \E m : Counted(w, m)
    /\ ~failed => Following(w)

FramingInv == QueuesInv /\ \E w : Placed(w)

LEMMA InvMeansFramingExact == FramingInv => FramingExact
<1> SUFFICES ASSUME FramingInv PROVE FramingExact
  OBVIOUS
<1>1. QueuesInv
  BY DEF FramingInv
<1>2. PICK w : Placed(w)
  BY DEF FramingInv
<1>3. PICK m : Counted(w, m)
  BY <1>2 DEF Placed
<1>4. /\ Described(w, packets, stream) /\ WellFormed(parser) /\ pos \in 0 .. Len(stream)
      /\ ~failed => Following(w)
  BY <1>2 DEF Placed
<1>5. pos \in Nat /\ pos <= Len(stream) /\ Len(stream) \in Nat
  BY <1>4, DescribedFacts
<1>6. m \in 0 .. Len(w.lengths) /\ m \in Nat /\ w.last[m] <= pos /\ parser.out = Out(w, m) /\ sequenceId = Ids(w, m)
  BY <1>3, <1>4, DescribedFacts DEF Counted
<1>7. PICK k : Handed(w, k, pos)
  BY <1>4, <1>5, HandedExists
<1>8. m <= k /\ k \in Nat
  <2>1. Handed(w, m, w.last[m])
    BY <1>4, <1>6, HandedLast
  <2> QED
    BY <1>4, <1>6, <1>7, <2>1, HandedGrow
<1>9. Complete(pos) = Out(w, k)
  BY <1>4, <1>7, CompleteIs
<1>10. Prefix(parser.out, Complete(pos)) /\ Len(parser.out) = m
  BY <1>6, <1>8, <1>9, OutPrefix
<1>11. ASSUME mode = "plain" \/ (inflateQueue.state = "idle" /\ ~failed) PROVE parser.out = Complete(pos)
  <2>1. ~failed /\ inflateQueue.tasks = <<>>
    BY <1>1, <1>11, IdleSound DEF QueuesInv, Sound
  <2>2. PICK cut : Cutting(stream, inflateQueue.tasks, cut, pos) /\ At(w, stream, parser, cut[0])
    BY <1>4, <2>1 DEF Following
  <2>3. cut[0] = pos
    <3>1. Len(inflateQueue.tasks) = 0
      BY <2>1
    <3> QED
      BY <2>2, <3>1 DEF Cutting
  <2>4. PICK i : Handed(w, i, pos) /\ parser.out = Out(w, i)
    BY <1>4, <1>5, <2>2, <2>3, AtHanded
  <2> QED
    BY <1>4, <2>4, CompleteIs
<1>12. \A i \in 1 .. Len(parser.out) : parser.out[i].sequenceId = sequenceId[i]
  <2>1. ASSUME NEW i \in 1 .. m PROVE parser.out[i].sequenceId = sequenceId[i]
    <3>1. i \in 1 .. m + 1
      BY <1>6
    <3>2. parser.out[i] = OutOf(w, i)
      BY <1>6 DEF Out
    <3>3. sequenceId[i] = w.id[i]
      BY <1>6, <3>1 DEF Ids
    <3> QED
      BY <3>2, <3>3 DEF OutOf
  <2> QED
    BY <1>10, <2>1
<1>13. TypeOK
  <2>1. parser.mode \in {"start", "header2", "header3", "payload"}
    BY <1>4 DEF WellFormed, Parsers
  <2>2. \A queue \in {inflateQueue, deflateQueue} :
          /\ queue.state \in {"idle", "tick", "busy", "stuck"}
          /\ queue.state = "idle" => queue.tasks = <<>>
          /\ queue.state \in {"busy", "stuck"} => queue.tasks # <<>>
    BY <1>1 DEF QueuesInv, Sound, Queues
  <2>3. failed \in BOOLEAN /\ compressedSequenceId \in 0 .. SEQ - 1
    BY <1>1 DEF QueuesInv
  <2> QED
    BY <1>4, <2>1, <2>2, <2>3 DEF TypeOK
<1> QED
  BY <1>10, <1>11, <1>12, <1>13 DEF FramingExact

LEMMA InitPlaced == Init => FramingInv
<1> SUFFICES ASSUME Init PROVE FramingInv
  OBVIOUS
<1>1. PICK m \in {"plain", "compressed"}, hl \in {4, 7} :
        /\ mode = m
        /\ \E lengths \in Streams[m] :
              /\ packets = Sent(lengths, hl).packets
              /\ stream = Sent(lengths, hl).stream
        /\ parser = NewParser(hl)
        /\ toWrite \in IF m = "compressed" THEN Writes ELSE {<<>>}
  BY DEF Init
<1>2. PICK lengths \in Streams[m] : packets = Sent(lengths, hl).packets /\ stream = Sent(lengths, hl).stream
  BY <1>1
<1>3. lengths \in Seq(Nat) /\ hl \in HeaderLengths
  BY <1>1, <1>2, ConstantsAssumption DEF HeaderLengths
<1>4. pos = 0 /\ sequenceId = <<0>> /\ failed = FALSE /\ inflateQueue = IdleQueue /\ deflateQueue = IdleQueue
      /\ compressedSequenceId = 0
  BY DEF Init
<1>5. PICK w : w.lengths = lengths /\ w.hl = hl /\ Described(w, packets, stream)
  BY <1>2, <1>3, SentDescribed
<1>6. QueuesInv
  <2>1. 0 \in 0 .. SEQ - 1
    BY BaseFacts
  <2>2. toWrite \in Seq(Sizes) /\ (m = "plain" => toWrite = <<>>)
    <3>1. <<>> \in Seq(Sizes)
      OBVIOUS
    <3>2. \A sizes \in Writes : sizes \in Seq(Sizes)
      BY ConstantsAssumption DEF Sizes
    <3> QED
      BY <1>1, <3>1, <3>2
  <2> QED
    BY <1>1, <1>4, <2>1, <2>2, IdleSound DEF QueuesInv
<1>7. WellFormed(parser) /\ Reached(w, parser, 0) /\ parser.mode = "start" /\ parser.buffer = <<>>
      /\ parser.out = <<>>
  <2>1. parser = NewParser(w.hl)
    BY <1>1, <1>5
  <2> QED
    BY <1>5, <2>1, NewParserAt
<1>8. /\ Len(w.lengths) \in Nat /\ 0 \in 0 .. Len(w.lengths) /\ w.last[0] = 0 /\ w.id[1] = 0
      /\ w.lengths \in Seq(Nat) /\ Len(stream) \in Nat
  <2>1. Len(w.lengths) \in Nat /\ w.lengths \in Seq(Nat) /\ Len(stream) \in Nat
    BY <1>5, DescribedFacts
  <2>2. w.last[0] = 0 /\ w.id[1] = 0
    BY <1>5 DEF Described
  <2> QED
    BY <2>1, <2>2
<1>9. Out(w, 0) = <<>> /\ Ids(w, 0) = <<0>>
  <2>1. Out(w, 0) = <<>>
    BY DEF Out
  <2>2. Ids(w, 0) = <<w.id[1]>>
    BY DEF Ids
  <2> QED
    BY <1>8, <2>1, <2>2
<1>10. Counted(w, 0)
  BY <1>4, <1>7, <1>8, <1>9 DEF Counted
<1>12. At(w, stream, parser, 0)
  BY <1>7 DEF At
<1>13. Following(w)
  <2>1. inflateQueue.tasks = <<>> /\ pos \in Nat
    BY <1>4, IdleSound
  <2>2. PICK cut : Cutting(stream, <<>>, cut, pos) /\ cut[0] = pos
    BY <2>1, CutNone
  <2> QED
    BY <1>4, <1>12, <2>1, <2>2 DEF Following
<1>14. pos \in 0 .. Len(stream)
  BY <1>4, <1>8
<1> QED
  BY <1>5, <1>6, <1>7, <1>10, <1>13, <1>14 DEF FramingInv, Placed

-----------------------------------------------------------------------------
\* The steps.

\* Parse, before a fatal error: the chunk that follows.
LEMMA ParseMoves ==
    ASSUME NEW w, Described(w, packets, stream), WellFormed(parser), NEW m, Counted(w, m), pos <= Len(stream),
           NEW bytes, Parse(bytes), ~failed, NEW x, NEW y, ChunkOf(stream, x, y, bytes), bytes # <<>>,
           At(w, stream, parser, x)
    PROVE  /\ At(w, stream, parser', y)
           /\ \E i \in 0 .. Len(w.lengths) : w.last[i] <= y /\ parser'.out = Out(w, i) /\ sequenceId' = Ids(w, i)
<1> DEFINE p == execute(parser, bytes)
           N == Len(w.lengths)
<1>1. x \in Nat /\ y \in Nat /\ x <= y /\ y <= Len(stream) /\ x <= Len(stream) /\ N \in Nat
  BY DescribedFacts DEF ChunkOf
<1>2. At(w, stream, p, y)
  BY ExecuteAt
<1>3. PICK k : Handed(w, k, x) /\ parser.out = Out(w, k)
  BY <1>1, AtHanded
<1> HIDE DEF p
<1>4. PICK i : Handed(w, i, y) /\ p.out = Out(w, i)
  BY <1>1, <1>2, AtHanded
<1>5. k <= i /\ k \in Nat /\ i \in Nat
  BY <1>1, <1>3, <1>4, HandedGrow
<1>6. i \in 0 .. N /\ i <= N /\ w.last[i] <= y
  <2>1. i \in 0 .. N /\ w.last[i] <= y
    BY <1>4 DEF Handed
  <2> HIDE DEF N
  <2> QED
    BY <1>1, <2>1
<1>7. m \in 0 .. N /\ m \in Nat /\ parser.out = Out(w, m) /\ sequenceId = Ids(w, m)
  <2>1. m \in 0 .. N /\ parser.out = Out(w, m) /\ sequenceId = Ids(w, m)
    BY DEF Counted
  <2> QED
    BY <2>1
<1>8. m = k
  <2>1. Len(Out(w, m)) = m /\ Len(Out(w, k)) = k
    BY <1>5, <1>7 DEF Out
  <2> QED
    BY <1>3, <1>7, <2>1
<1>9. parser' = p /\ sequenceId' = Ids(w, i)
  BY <1>3, <1>4, <1>5, <1>6, <1>7, <1>8, ParseIs DEF p
<1> QED
  BY <1>2, <1>4, <1>6, <1>9

LEMMA ParseWell ==
    ASSUME WellFormed(parser), NEW bytes \in Seq(Bytes), bytes # <<>>, Parse(bytes)
    PROVE  /\ WellFormed(parser')
           /\ failed => parser'.out = parser.out /\ sequenceId' = sequenceId
<1> DEFINE p == execute(parser, bytes)
<1>1. WellFormed(p)
  BY ExecuteWell
<1>2. IF failed THEN parser' = [p EXCEPT !.out = parser.out] /\ UNCHANGED sequenceId
      ELSE parser' = p
  BY DEF Parse
<1> HIDE DEF p
<1>3. CASE failed
  <2>1. parser' = [p EXCEPT !.out = parser.out] /\ sequenceId' = sequenceId
    BY <1>2, <1>3
  <2>2. p \in Parsers /\ parser.out \in Seq(Packets)
    BY <1>1 DEF WellFormed, Parsers
  <2>3. /\ parser' \in Parsers /\ parser'.out = parser.out /\ parser'.mode = p.mode
        /\ parser'.buffer = p.buffer /\ parser'.length = p.length /\ parser'.headerLength = p.headerLength
    BY <2>1, <2>2 DEF Parsers
  <2>4. WellFormed(parser')
    BY <1>1, <2>3 DEF WellFormed
  <2> QED
    BY <2>1, <2>3, <2>4
<1>4. CASE ~failed
  BY <1>1, <1>2, <1>4
<1> QED
  BY <1>3, <1>4

\* Nothing is parsed.
LEMMA KeepPlaced ==
    ASSUME NEW w, Placed(w), UNCHANGED <<packets, stream, parser, sequenceId>>,
           pos' \in 0 .. Len(stream), pos <= pos',
           ~failed' => \E cut : Cutting(stream, inflateQueue'.tasks, cut, pos') /\ At(w, stream, parser, cut[0])
    PROVE  Placed(w)'
<1>1. /\ Described(w, packets, stream) /\ WellFormed(parser) /\ pos \in 0 .. Len(stream)
  BY DEF Placed
<1>2. Described(w, packets, stream)' /\ WellFormed(parser)' /\ (pos \in 0 .. Len(stream))'
  BY <1>1
<1>3. (\E m : Counted(w, m))'
  <2>1. PICK m : Counted(w, m)
    BY DEF Placed
  <2>2. w.last[m] \in Nat /\ pos \in Nat /\ pos' \in Nat
    BY <1>1, <2>1, DescribedFacts DEF Counted
  <2>3. Counted(w, m)'
    BY <2>1, <2>2 DEF Counted
  <2> QED
    BY <2>3
<1>4. ~failed' => Following(w)'
  BY DEF Following
<1> QED
  BY <1>2, <1>3, <1>4 DEF Placed

\* Some bytes are parsed.
LEMMA ParsePlaced ==
    ASSUME NEW w, Placed(w), UNCHANGED <<packets, stream, failed>>, NEW bytes \in Seq(Bytes), bytes # <<>>,
           Parse(bytes), pos' \in 0 .. Len(stream), pos <= pos', Sound(inflateQueue', InTasks),
           ~failed => \E cut, x : /\ Cutting(stream, inflateQueue'.tasks, cut, pos')
                                  /\ ChunkOf(stream, x, cut[0], bytes) /\ At(w, stream, parser, x)
    PROVE  Placed(w)'
<1>1. /\ Described(w, packets, stream) /\ WellFormed(parser) /\ pos \in 0 .. Len(stream)
      /\ pos <= Len(stream) /\ pos \in Nat /\ pos' \in Nat
  <2>1. Described(w, packets, stream) /\ WellFormed(parser) /\ pos \in 0 .. Len(stream)
    BY DEF Placed
  <2>2. Len(stream) \in Nat
    BY <2>1, DescribedFacts
  <2> QED
    BY <2>1, <2>2
<1>2. Described(w, packets, stream)' /\ (pos \in 0 .. Len(stream))'
  BY <1>1
<1>3. WellFormed(parser)'
  BY <1>1, ParseWell
<1>4. PICK m : Counted(w, m)
  BY DEF Placed
<1>5. CASE failed
  <2>1. parser'.out = parser.out /\ sequenceId' = sequenceId
    BY <1>1, <1>5, ParseWell
  <2>2. w.last[m] \in Nat
    BY <1>1, <1>4, DescribedFacts DEF Counted
  <2>3. Counted(w, m)'
    BY <1>1, <1>4, <2>1, <2>2 DEF Counted
  <2> QED
    BY <1>2, <1>3, <1>5, <2>3 DEF Placed
<1>6. CASE ~failed
  <2>1. PICK cut, x : /\ Cutting(stream, inflateQueue'.tasks, cut, pos')
                      /\ ChunkOf(stream, x, cut[0], bytes) /\ At(w, stream, parser, x)
    BY <1>6
  <2>2. /\ At(w, stream, parser', cut[0])
        /\ \E i \in 0 .. Len(w.lengths) :
              w.last[i] <= cut[0] /\ parser'.out = Out(w, i) /\ sequenceId' = Ids(w, i)
    BY <1>1, <1>4, <1>6, <2>1, ParseMoves
  <2>3. PICK i \in 0 .. Len(w.lengths) : w.last[i] <= cut[0] /\ parser'.out = Out(w, i) /\ sequenceId' = Ids(w, i)
    BY <2>2
  <2>4. cut[0] \in Nat /\ cut[0] <= pos'
    <3>1. inflateQueue'.tasks \in Seq(InTasks)
      BY DEF Sound, Queues
    <3> QED
      BY <2>1, <3>1, CutStart
  <2>5. w.last[i] \in Nat
    BY <1>1, DescribedFacts
  <2>6. w.last[i] <= pos'
    BY <1>1, <2>3, <2>4, <2>5
  <2>7. Counted(w, i)'
    BY <2>3, <2>6 DEF Counted
  <2>8. Following(w)'
    BY <2>1, <2>2 DEF Following
  <2> QED
    BY <1>2, <1>3, <2>7, <2>8 DEF Placed
<1> QED
  BY <1>5, <1>6

\* The bytes that arrive are a chunk.
LEMMA ArrivedChunk ==
    ASSUME NEW w, Placed(w), NEW n \in Nat, n >= 1, pos + n <= Len(stream), NEW y, y = pos + n,
           NEW bytes, bytes = SubSeq(stream, pos + 1, pos + n)
    PROVE  /\ ChunkOf(stream, pos, y, bytes) /\ bytes \in Seq(Bytes) /\ bytes # <<>>
           /\ y \in 0 .. Len(stream) /\ y \in Nat /\ pos <= y
<1>1. Described(w, packets, stream) /\ pos \in 0 .. Len(stream)
  BY DEF Placed
<1>2. stream \in Seq(Bytes) /\ Len(stream) \in Nat /\ pos \in Nat
  BY <1>1, DescribedFacts
<1>3. y \in Nat /\ pos <= y /\ y <= Len(stream) /\ y \in 0 .. Len(stream)
  BY <1>2
<1>4. ChunkOf(stream, pos, y, bytes)
  BY <1>2, <1>3 DEF ChunkOf
<1>5. bytes \in Seq(Bytes) /\ Len(bytes) \in Nat /\ pos + Len(bytes) = y
  <2>1. \A b : ChunkOf(stream, pos, y, b) => b \in Seq(Bytes) /\ Len(b) \in Nat /\ pos + Len(b) = y
    BY <1>2, <1>3, ChunkFacts
  <2> QED
    BY <1>4, <2>1
<1>6. Len(bytes) # 0
  BY <1>2, <1>5
<1>7. bytes # <<>>
  <2>1. Len(<<>>) = 0
    OBVIOUS
  <2> QED
    BY <1>6, <2>1
<1> QED
  BY <1>3, <1>4, <1>5, <1>7

\* They are parsed at once when nothing waits.
LEMMA ArrivedParsed ==
    ASSUME NEW w, Placed(w), UNCHANGED <<packets, stream, failed, inflateQueue>>, NEW n \in Nat, n >= 1,
           pos + n <= Len(stream), pos' = pos + n, Parse(SubSeq(stream, pos + 1, pos + n)),
           Sound(inflateQueue, InTasks), inflateQueue.tasks = <<>>
    PROVE  Placed(w)'
<1> DEFINE bytes == SubSeq(stream, pos + 1, pos + n)
<1>1. /\ ChunkOf(stream, pos, pos', bytes) /\ bytes \in Seq(Bytes) /\ bytes # <<>>
      /\ pos' \in 0 .. Len(stream) /\ pos' \in Nat /\ pos <= pos'
  BY ArrivedChunk
<1>2. Sound(inflateQueue', InTasks) /\ inflateQueue'.tasks = <<>>
  OBVIOUS
<1>3. Parse(bytes)
  OBVIOUS
<1> HIDE DEF bytes
<1>4. ASSUME ~failed
      PROVE  \E cut, x : /\ Cutting(stream, inflateQueue'.tasks, cut, pos')
                         /\ ChunkOf(stream, x, cut[0], bytes) /\ At(w, stream, parser, x)
  <2>1. PICK c : Cutting(stream, inflateQueue.tasks, c, pos) /\ At(w, stream, parser, c[0])
    BY <1>4 DEF Placed, Following
  <2>2. c[0] = pos
    <3>1. Len(inflateQueue.tasks) = 0
      OBVIOUS
    <3> QED
      BY <2>1, <3>1 DEF Cutting
  <2>3. PICK cut : Cutting(stream, <<>>, cut, pos') /\ cut[0] = pos'
    BY <1>1, CutNone
  <2> QED
    BY <1>1, <1>2, <2>1, <2>2, <2>3
<1> QED
  BY <1>1, <1>2, <1>3, <1>4, ParsePlaced

\* The first task is parsed.
LEMMA TaskParsed ==
    ASSUME NEW w, Placed(w), UNCHANGED <<packets, stream, failed, pos>>,
           Sound(inflateQueue, InTasks), inflateQueue.tasks # <<>>,
           Sound(inflateQueue', InTasks), inflateQueue'.tasks = Tail(inflateQueue.tasks),
           Parse(Head(inflateQueue.tasks).bytes)
    PROVE  Placed(w)'
<1> DEFINE bytes == Head(inflateQueue.tasks).bytes
<1>1. bytes \in Seq(Bytes) /\ bytes # <<>> /\ inflateQueue.tasks \in Seq(InTasks)
  <2>1. Head(inflateQueue.tasks) \in InTasks /\ inflateQueue.tasks \in Seq(InTasks)
    BY DoneSound
  <2> QED
    BY <2>1 DEF InTasks
<1>2. Parse(bytes)
  OBVIOUS
<1>3. pos' \in 0 .. Len(stream) /\ pos <= pos'
  <2>1. pos \in 0 .. Len(stream) /\ Described(w, packets, stream)
    BY DEF Placed
  <2>2. Len(stream) \in Nat
    BY <2>1, DescribedFacts
  <2> QED
    BY <2>1, <2>2
<1>4. ASSUME ~failed
      PROVE  \E cut, x : /\ Cutting(stream, inflateQueue'.tasks, cut, pos')
                         /\ ChunkOf(stream, x, cut[0], bytes) /\ At(w, stream, parser, x)
  <2>1. PICK c : Cutting(stream, inflateQueue.tasks, c, pos) /\ At(w, stream, parser, c[0])
    BY <1>4 DEF Placed, Following
  <2>2. PICK cut : /\ Cutting(stream, Tail(inflateQueue.tasks), cut, pos)
                   /\ ChunkOf(stream, c[0], cut[0], Head(inflateQueue.tasks).bytes)
    BY <1>1, <2>1, CutTail
  <2>3. Cutting(stream, inflateQueue'.tasks, cut, pos')
    BY <2>2
  <2> QED
    BY <2>1, <2>2, <2>3
<1> HIDE DEF bytes
<1> QED
  BY <1>1, <1>2, <1>3, <1>4, ParsePlaced

\* Nothing that the parser sees changes.
LEMMA SamePlaced ==
    ASSUME NEW w, Placed(w), UNCHANGED <<packets, stream, parser, sequenceId, pos>>,
           inflateQueue'.tasks = inflateQueue.tasks, ~failed' => ~failed
    PROVE  Placed(w)'
<1>1. pos' \in 0 .. Len(stream) /\ pos <= pos'
  <2>1. pos \in 0 .. Len(stream) /\ Described(w, packets, stream)
    BY DEF Placed
  <2>2. Len(stream) \in Nat
    BY <2>1, DescribedFacts
  <2> QED
    BY <2>1, <2>2
<1>2. ~failed' => \E cut : Cutting(stream, inflateQueue'.tasks, cut, pos') /\ At(w, stream, parser, cut[0])
  BY DEF Placed, Following
<1> QED
  BY <1>1, <1>2, KeepPlaced

\* The queue after a task has been pushed that holds the bytes that arrive.
LEMMA ArrivedQueued ==
    ASSUME NEW w, Placed(w), UNCHANGED <<packets, stream, parser, sequenceId>>, failed' = failed,
           NEW n \in Nat, n >= 1, pos + n <= Len(stream), pos' = pos + n, Sound(inflateQueue, InTasks),
           NEW kind \in {"raw", "small", "large"}, NEW ok \in BOOLEAN,
           inflateQueue' = Pushed(inflateQueue, [bytes |-> SubSeq(stream, pos + 1, pos + n),
                                                 kind |-> kind, ok |-> ok])
    PROVE  Placed(w)' /\ Sound(inflateQueue, InTasks)'
<1> DEFINE bytes == SubSeq(stream, pos + 1, pos + n)
           task == [bytes |-> bytes, kind |-> kind, ok |-> ok]
<1>1. /\ ChunkOf(stream, pos, pos', bytes) /\ bytes \in Seq(Bytes) /\ bytes # <<>>
      /\ pos' \in 0 .. Len(stream) /\ pos' \in Nat /\ pos <= pos'
  BY ArrivedChunk
<1>2. inflateQueue' = Pushed(inflateQueue, task)
  OBVIOUS
<1> HIDE DEF bytes
<1>3. task \in InTasks /\ task.bytes = bytes
  BY <1>1 DEF InTasks
<1> HIDE DEF task
<1>4. Sound(inflateQueue', InTasks) /\ inflateQueue'.tasks = Append(inflateQueue.tasks, task)
  BY <1>2, <1>3, PushedSound
<1>5. inflateQueue.tasks \in Seq(InTasks)
  BY DEF Sound, Queues
<1>6. ASSUME ~failed'
      PROVE  \E cut : Cutting(stream, inflateQueue'.tasks, cut, pos') /\ At(w, stream, parser, cut[0])
  <2>1. PICK c : Cutting(stream, inflateQueue.tasks, c, pos) /\ At(w, stream, parser, c[0])
    BY <1>6 DEF Placed, Following
  <2>2. ChunkOf(stream, pos, pos', task.bytes)
    BY <1>1, <1>3
  <2>3. Appended(inflateQueue.tasks, task, inflateQueue'.tasks)
    BY <1>4 DEF Appended
  <2>4. WaitsFrom(stream, inflateQueue'.tasks, c[0], pos')
    BY <1>3, <1>5, <2>1, <2>2, <2>3, CutAppend
  <2> QED
    BY <2>1, <2>4 DEF WaitsFrom
<1>7. Placed(w)'
  BY <1>1, <1>6, KeepPlaced
<1>8. Sound(inflateQueue, InTasks)'
  BY <1>4 DEF Sound, Queues
<1> QED
  BY <1>7, <1>8

LEMMA BumpedId == ASSUME NEW id \in Nat, NEW n \in Nat PROVE Bumped(id, n) \in 0 .. SEQ - 1
<1>1. SEQ \in Nat /\ SEQ > 1
  BY BaseFacts
<1>2. id + n \in Nat
  OBVIOUS
<1> DEFINE s == id + n
<1> HIDE DEF s
<1>3. s % SEQ \in 0 .. SEQ - 1
  BY <1>1, <1>2 DEF s
<1> QED
  BY <1>3 DEF Bumped, s

LEMMA NextId == QueuesInv => compressedSequenceId \in Nat /\ Bumped(compressedSequenceId, 1) \in 0 .. SEQ - 1
<1> SUFFICES ASSUME QueuesInv PROVE compressedSequenceId \in Nat /\ Bumped(compressedSequenceId, 1) \in 0 .. SEQ - 1
  OBVIOUS
<1>1. compressedSequenceId \in 0 .. SEQ - 1
  BY DEF QueuesInv
<1>2. compressedSequenceId \in Nat
  BY <1>1, BaseFacts
<1> QED
  BY <1>2, BumpedId

\* Primed, from the values.
LEMMA QueuesNext ==
    ASSUME Sound(inflateQueue', InTasks), Sound(deflateQueue', OutTasks),
           compressedSequenceId' \in 0 .. SEQ - 1, failed' \in BOOLEAN, toWrite' \in Seq(Sizes),
           mode' = mode, mode = "compressed"
    PROVE  QueuesInv'
<1>1. mode' # "plain" /\ mode' \in {"plain", "compressed"}
  OBVIOUS
<1> QED
  BY <1>1 DEF QueuesInv, Sound, Queues

-----------------------------------------------------------------------------
\* One lemma for each action.

LEMMA ReceiveKeeps ==
    ASSUME QueuesInv, NEW w, Placed(w), NEW n \in 1 .. Len(stream), Receive(n)
    PROVE  QueuesInv' /\ Placed(w)'
<1>1. Len(stream) \in Nat
  BY DescribedFacts DEF Placed
<1>2. n \in Nat /\ n >= 1
  BY <1>1
<1>3. /\ mode = "plain" /\ pos + n <= Len(stream) /\ pos' = pos + n /\ Parse(SubSeq(stream, pos + 1, pos + n))
      /\ UNCHANGED <<mode, packets, stream, failed, inflateQueue, deflateQueue, compressedSequenceId, toWrite>>
  BY DEF Receive
<1>4. Sound(inflateQueue, InTasks) /\ inflateQueue.tasks = <<>>
  BY <1>3, IdleSound DEF QueuesInv
<1>5. Placed(w)'
  BY <1>2, <1>3, <1>4, ArrivedParsed
<1>6. QueuesInv'
  BY <1>3 DEF QueuesInv, Sound, Queues, IdleQueue
<1> QED
  BY <1>5, <1>6

LEMMA ReceiveFrameKeeps ==
    ASSUME QueuesInv, NEW w, Placed(w), NEW n \in FrameSizes, NEW kind \in {"raw", "small", "large"},
           NEW ok \in BOOLEAN, ReceiveFrame(n, kind, ok)
    PROVE  QueuesInv' /\ Placed(w)'
<1>1. n \in Nat /\ n >= 1
  BY ConstantsAssumption
<1>2. /\ mode = "compressed" /\ pos + n <= Len(stream) /\ pos' = pos + n
      /\ UNCHANGED <<mode, packets, stream, deflateQueue, toWrite>>
  BY DEF ReceiveFrame
<1>3. /\ Sound(inflateQueue, InTasks) /\ Sound(deflateQueue, OutTasks) /\ toWrite \in Seq(Sizes)
      /\ compressedSequenceId \in 0 .. SEQ - 1 /\ failed \in BOOLEAN
      /\ Bumped(compressedSequenceId, 1) \in 0 .. SEQ - 1
  BY NextId DEF QueuesInv
<1>4. Sound(deflateQueue', OutTasks) /\ toWrite' \in Seq(Sizes) /\ mode' = mode
  BY <1>2, <1>3
<1>5. CASE /\ inflateQueue.state = "idle" /\ UNCHANGED <<failed, inflateQueue>>
           /\ Inflated(SubSeq(stream, pos + 1, pos + n))
  <2>1. /\ compressedSequenceId' \in 0 .. SEQ - 1 /\ Parse(SubSeq(stream, pos + 1, pos + n))
        /\ failed' \in BOOLEAN /\ Sound(inflateQueue', InTasks)
    BY <1>3, <1>5 DEF Inflated
  <2>2. inflateQueue.tasks = <<>>
    BY <1>3, <1>5 DEF Sound
  <2>3. Placed(w)'
    BY <1>1, <1>2, <1>3, <1>5, <2>1, <2>2, ArrivedParsed
  <2>4. QueuesInv'
    BY <1>2, <1>4, <2>1, QueuesNext
  <2> QED
    BY <2>3, <2>4
<1>6. CASE failed' = TRUE /\ UNCHANGED <<parser, sequenceId, compressedSequenceId, inflateQueue>>
  <2>1. pos' \in 0 .. Len(stream) /\ pos <= pos'
    <3>1. pos \in 0 .. Len(stream) /\ Len(stream) \in Nat
      BY DescribedFacts DEF Placed
    <3> QED
      BY <1>1, <1>2, <3>1
  <2>2. Placed(w)'
    BY <1>2, <1>6, <2>1, KeepPlaced
  <2>3. QueuesInv'
    <3>1. Sound(inflateQueue', InTasks) /\ compressedSequenceId' \in 0 .. SEQ - 1 /\ failed' \in BOOLEAN
      BY <1>3, <1>6
    <3> QED
      BY <1>2, <1>4, <3>1, QueuesNext
  <2> QED
    BY <2>2, <2>3
<1>7. CASE /\ inflateQueue' = Pushed(inflateQueue, [bytes |-> SubSeq(stream, pos + 1, pos + n),
                                                    kind |-> kind, ok |-> ok])
           /\ UNCHANGED <<parser, sequenceId, failed, compressedSequenceId>>
  <2>1. Placed(w)' /\ Sound(inflateQueue, InTasks)'
    BY <1>1, <1>2, <1>3, <1>7, ArrivedQueued
  <2>2. Sound(inflateQueue', InTasks)
    BY <2>1 DEF Sound, Queues
  <2>3. compressedSequenceId' \in 0 .. SEQ - 1 /\ failed' \in BOOLEAN
    BY <1>3, <1>7
  <2>4. QueuesInv'
    BY <1>2, <1>4, <2>2, <2>3, QueuesNext
  <2> QED
    BY <2>1, <2>4
<1> QED
  BY <1>5, <1>6, <1>7 DEF ReceiveFrame

LEMMA InflateTickKeeps ==
    ASSUME QueuesInv, NEW w, Placed(w), InflateTick
    PROVE  QueuesInv' /\ Placed(w)'
<1> DEFINE q == Next_(inflateQueue)
<1>1. /\ inflateQueue.state = "tick"
      /\ UNCHANGED <<mode, packets, stream, pos, failed, deflateQueue, toWrite>>
      /\ IF q.state = "busy" /\ Head(q.tasks).kind = "raw"
         THEN Inflated(Head(q.tasks).bytes) /\ inflateQueue' = Done(q)
         ELSE inflateQueue' = q /\ UNCHANGED <<parser, sequenceId, compressedSequenceId>>
  BY DEF InflateTick
<1>2. mode = "compressed"
  BY <1>1 DEF QueuesInv, IdleQueue
<1>3. /\ Sound(inflateQueue, InTasks) /\ Sound(deflateQueue, OutTasks) /\ toWrite \in Seq(Sizes)
      /\ compressedSequenceId \in 0 .. SEQ - 1 /\ failed \in BOOLEAN
      /\ Bumped(compressedSequenceId, 1) \in 0 .. SEQ - 1
  BY NextId DEF QueuesInv
<1>4. Sound(deflateQueue', OutTasks) /\ toWrite' \in Seq(Sizes) /\ mode' = mode /\ failed' \in BOOLEAN
  BY <1>1, <1>3
<1>5. /\ Sound(q, InTasks) /\ q.tasks = inflateQueue.tasks
      /\ q.state = "busy" => inflateQueue.tasks # <<>>
  BY <1>3, NextSound
<1> HIDE DEF q
<1>6. CASE q.state = "busy" /\ Head(q.tasks).kind = "raw"
  <2>1. /\ compressedSequenceId' \in 0 .. SEQ - 1 /\ Parse(Head(inflateQueue.tasks).bytes)
        /\ inflateQueue' = Done(q) /\ inflateQueue.tasks # <<>>
    BY <1>1, <1>3, <1>5, <1>6 DEF Inflated
  <2>2. Sound(inflateQueue', InTasks) /\ inflateQueue'.tasks = Tail(inflateQueue.tasks)
    BY <1>5, <2>1, DoneSound
  <2>3. Placed(w)'
    BY <1>1, <1>3, <2>1, <2>2, TaskParsed
  <2>4. QueuesInv'
    BY <1>2, <1>4, <2>1, <2>2, QueuesNext
  <2> QED
    BY <2>3, <2>4
<1>7. CASE inflateQueue' = q /\ UNCHANGED <<parser, sequenceId, compressedSequenceId>>
  <2>1. Sound(inflateQueue', InTasks) /\ inflateQueue'.tasks = inflateQueue.tasks
        /\ compressedSequenceId' \in 0 .. SEQ - 1
    BY <1>3, <1>5, <1>7
  <2>2. Placed(w)'
    BY <1>1, <1>7, <2>1, SamePlaced
  <2>3. QueuesInv'
    BY <1>2, <1>4, <2>1, QueuesNext
  <2> QED
    BY <2>2, <2>3
<1> QED
  BY <1>1, <1>6, <1>7

LEMMA InflateDoneKeeps ==
    ASSUME QueuesInv, NEW w, Placed(w), InflateDone
    PROVE  QueuesInv' /\ Placed(w)'
<1>1. /\ inflateQueue.state = "busy"
      /\ UNCHANGED <<mode, packets, stream, pos, deflateQueue, toWrite>>
  BY DEF InflateDone
<1>2. mode = "compressed"
  BY <1>1 DEF QueuesInv, IdleQueue
<1>3. /\ Sound(inflateQueue, InTasks) /\ Sound(deflateQueue, OutTasks) /\ toWrite \in Seq(Sizes)
      /\ compressedSequenceId \in 0 .. SEQ - 1 /\ failed \in BOOLEAN
      /\ Bumped(compressedSequenceId, 1) \in 0 .. SEQ - 1
  BY NextId DEF QueuesInv
<1>4. Sound(deflateQueue', OutTasks) /\ toWrite' \in Seq(Sizes) /\ mode' = mode
  BY <1>1, <1>3
<1>5. inflateQueue.tasks # <<>>
  BY <1>1, <1>3 DEF Sound
<1>6. CASE /\ Inflated(Head(inflateQueue.tasks).bytes)
           /\ inflateQueue' = Done(inflateQueue) /\ UNCHANGED failed
  <2>1. /\ compressedSequenceId' \in 0 .. SEQ - 1 /\ Parse(Head(inflateQueue.tasks).bytes) /\ failed' \in BOOLEAN
    BY <1>3, <1>6 DEF Inflated
  <2>2. Sound(inflateQueue', InTasks) /\ inflateQueue'.tasks = Tail(inflateQueue.tasks)
    BY <1>3, <1>5, <1>6, DoneSound
  <2>3. Placed(w)'
    BY <1>1, <1>3, <1>5, <1>6, <2>1, <2>2, TaskParsed
  <2>4. QueuesInv'
    BY <1>2, <1>4, <2>1, <2>2, QueuesNext
  <2> QED
    BY <2>3, <2>4
<1>7. CASE /\ failed' = TRUE /\ inflateQueue' = [inflateQueue EXCEPT !.state = "stuck"]
           /\ UNCHANGED <<parser, sequenceId, compressedSequenceId>>
  <2>1. Sound(inflateQueue', InTasks) /\ inflateQueue'.tasks = inflateQueue.tasks
    BY <1>3, <1>5, <1>7, StuckSound
  <2>2. compressedSequenceId' \in 0 .. SEQ - 1 /\ failed' \in BOOLEAN
    BY <1>3, <1>7
  <2>3. Placed(w)'
    BY <1>1, <1>7, <2>1, SamePlaced
  <2>4. QueuesInv'
    BY <1>2, <1>4, <2>1, <2>2, QueuesNext
  <2> QED
    BY <2>3, <2>4
<1> QED
  BY <1>6, <1>7 DEF InflateDone

LEMMA WriteKeeps ==
    ASSUME QueuesInv, NEW w, Placed(w), NEW ok \in BOOLEAN, Write(ok), called \in Seq(Frames)
    PROVE  QueuesInv' /\ Placed(w)'
<1> DEFINE frame == [seqId |-> compressedSequenceId, call |-> Len(called) + 1]
<1>1. /\ toWrite # <<>> /\ ~failed /\ toWrite' = Tail(toWrite)
      /\ compressedSequenceId' = Bumped(compressedSequenceId, 1)
      /\ UNCHANGED <<mode, packets, stream, pos, parser, sequenceId, inflateQueue>>
      /\ \/ deflateQueue' = deflateQueue /\ (failed' = TRUE \/ failed' = failed)
         \/ deflateQueue' = Pushed(deflateQueue, [frame |-> frame, ok |-> ok]) /\ failed' = failed
  BY DEF Write
<1>2. mode = "compressed"
  BY <1>1 DEF QueuesInv
<1>3. /\ Sound(inflateQueue, InTasks) /\ Sound(deflateQueue, OutTasks) /\ toWrite \in Seq(Sizes)
      /\ compressedSequenceId \in 0 .. SEQ - 1 /\ failed \in BOOLEAN
      /\ Bumped(compressedSequenceId, 1) \in 0 .. SEQ - 1
  BY NextId DEF QueuesInv
<1>4. toWrite' \in Seq(Sizes)
  <2>1. Tail(toWrite) \in Seq(Sizes)
    BY <1>1, <1>3, HeadTailProperties
  <2> QED
    BY <1>1, <2>1
<1>5. [frame |-> frame, ok |-> ok] \in OutTasks
  <2>1. frame \in Frames
    <3>1. Len(called) + 1 \in Nat
      OBVIOUS
    <3> QED
      BY <1>3, <3>1 DEF Frames
  <2> HIDE DEF frame
  <2> QED
    BY <2>1 DEF OutTasks
<1> HIDE DEF frame
<1>6. Sound(deflateQueue', OutTasks) /\ failed' \in BOOLEAN
  <2>1. Sound(Pushed(deflateQueue, [frame |-> frame, ok |-> ok]), OutTasks)
    BY <1>3, <1>5, PushedSound
  <2> QED
    BY <1>1, <1>3, <2>1
<1>7. Sound(inflateQueue', InTasks) /\ compressedSequenceId' \in 0 .. SEQ - 1 /\ mode' = mode
  BY <1>1, <1>3
<1>8. QueuesInv'
  BY <1>2, <1>4, <1>6, <1>7, QueuesNext
<1>9. Placed(w)'
  BY <1>1, SamePlaced
<1> QED
  BY <1>8, <1>9

LEMMA DeflateKeeps ==
    ASSUME QueuesInv, NEW w, Placed(w), DeflateTick \/ DeflateDone
    PROVE  QueuesInv' /\ Placed(w)'
<1>1. /\ deflateQueue.state \in {"tick", "busy"}
      /\ UNCHANGED <<mode, packets, stream, pos, parser, sequenceId, inflateQueue, compressedSequenceId, toWrite>>
  BY DEF DeflateTick, DeflateDone
<1>2. mode = "compressed"
  BY <1>1 DEF QueuesInv, IdleQueue
<1>3. /\ Sound(inflateQueue, InTasks) /\ Sound(deflateQueue, OutTasks) /\ toWrite \in Seq(Sizes)
      /\ compressedSequenceId \in 0 .. SEQ - 1 /\ failed \in BOOLEAN
  BY DEF QueuesInv
<1>4. Sound(deflateQueue', OutTasks) /\ failed' \in BOOLEAN /\ (failed => failed')
  <2>1. CASE DeflateTick
    BY <1>3, <2>1, NextSound DEF DeflateTick
  <2>2. CASE DeflateDone
    <3>1. deflateQueue.tasks # <<>>
      BY <1>3, <2>2 DEF Sound, DeflateDone
    <3>2. CASE deflateQueue' = Done(deflateQueue) /\ failed' = failed
      BY <1>3, <3>1, <3>2, DoneSound
    <3>3. CASE failed' = TRUE /\ deflateQueue' = [deflateQueue EXCEPT !.state = "stuck"]
      BY <1>3, <3>1, <3>3, StuckSound
    <3> QED
      BY <2>2, <3>2, <3>3 DEF DeflateDone
  <2> QED
    BY <2>1, <2>2
<1>5. /\ Sound(inflateQueue', InTasks) /\ compressedSequenceId' \in 0 .. SEQ - 1 /\ mode' = mode
      /\ toWrite' \in Seq(Sizes)
  BY <1>1, <1>3
<1>6. QueuesInv'
  BY <1>2, <1>4, <1>5, QueuesNext
<1>7. Placed(w)'
  BY <1>1, <1>4, SamePlaced
<1> QED
  BY <1>6, <1>7

-----------------------------------------------------------------------------
\* The writes: what has been called has been written, or waits, or has failed.

\* The frames of the tasks that wait to be deflated.
FramesOf(tasks) == [i \in 1 .. Len(tasks) |-> tasks[i].frame]

\* A call that failed is dropped: it and what follows it form the rest.
Calls(call, wrote, tasks, rest) == call = (wrote \o FramesOf(tasks)) \o rest

WritesInv ==
    /\ called \in Seq(Frames) /\ written \in Seq(Frames)
    /\ \E rest : /\ rest \in Seq(Frames) /\ Calls(called, written, deflateQueue.tasks, rest)
                 /\ ~failed => rest = <<>>

LEMMA FramesTyped ==
    ASSUME NEW tasks \in Seq(OutTasks)
    PROVE  FramesOf(tasks) \in Seq(Frames) /\ Len(FramesOf(tasks)) = Len(tasks)
<1>1. Len(tasks) \in Nat /\ \A i \in 1 .. Len(tasks) : tasks[i].frame \in Frames
  <2>1. \A i \in 1 .. Len(tasks) : tasks[i] \in OutTasks
    BY ElementOfSeq
  <2> QED
    BY <2>1, LenProperties DEF OutTasks
<1> QED
  BY <1>1 DEF FramesOf

LEMMA CallsAre ==
    ASSUME NEW call \in Seq(Frames), NEW wrote \in Seq(Frames), NEW tasks \in Seq(OutTasks), NEW rest \in Seq(Frames)
    PROVE  Calls(call, wrote, tasks, rest) <=>
           /\ Len(call) = (Len(wrote) + Len(tasks)) + Len(rest)
           /\ \A i \in 1 .. Len(wrote) : call[i] = wrote[i]
           /\ \A i \in 1 .. Len(tasks) : call[Len(wrote) + i] = tasks[i].frame
           /\ \A i \in 1 .. Len(rest) : call[(Len(wrote) + Len(tasks)) + i] = rest[i]
<1> DEFINE f == FramesOf(tasks)
           a == Len(wrote)
           b == Len(tasks)
           d == Len(rest)
           s == wrote \o f
           u == s \o rest
<1>1. a \in Nat /\ b \in Nat /\ d \in Nat /\ f \in Seq(Frames) /\ Len(f) = b
  BY FramesTyped
<1>2. \A i \in 1 .. b : f[i] = tasks[i].frame
  BY DEF FramesOf
<1> HIDE DEF f
<1>3. s \in Seq(Frames) /\ Len(s) = a + b
      /\ (\A i \in 1 .. a : s[i] = wrote[i]) /\ \A i \in 1 .. b : s[a + i] = f[i]
  <2>1. wrote \in Seq(Frames) /\ f \in Seq(Frames) /\ Len(wrote) = a /\ Len(f) = b
    BY <1>1
  <2>2. wrote \o f \in Seq(Frames) /\ Len(wrote \o f) = Len(wrote) + Len(f)
    BY <2>1, Joined
  <2>3. \A i \in 1 .. Len(wrote) : (wrote \o f)[i] = wrote[i]
    BY <2>1, Joined
  <2>4. \A i \in 1 .. Len(f) : (wrote \o f)[Len(wrote) + i] = f[i]
    BY <2>1, Joined
  <2>5. s = wrote \o f
    BY DEF s
  <2> HIDE DEF s, a, b
  <2> QED
    BY <2>1, <2>2, <2>3, <2>4, <2>5
<1> HIDE DEF s
<1>4. u \in Seq(Frames) /\ Len(u) = (a + b) + d
      /\ (\A i \in 1 .. (a + b) : u[i] = s[i]) /\ \A i \in 1 .. d : u[(a + b) + i] = rest[i]
  <2>1. s \in Seq(Frames) /\ rest \in Seq(Frames) /\ Len(s) = (a + b) /\ Len(rest) = d
    BY <1>1, <1>3
  <2>2. s \o rest \in Seq(Frames) /\ Len(s \o rest) = Len(s) + Len(rest)
    BY <2>1, Joined
  <2>3. \A i \in 1 .. Len(s) : (s \o rest)[i] = s[i]
    BY <2>1, Joined
  <2>4. \A i \in 1 .. Len(rest) : (s \o rest)[Len(s) + i] = rest[i]
    BY <2>1, Joined
  <2>5. u = s \o rest
    BY DEF u
  <2> HIDE DEF u, a, b, d
  <2> QED
    BY <2>1, <2>2, <2>3, <2>4, <2>5
<1>5. Calls(call, wrote, tasks, rest) <=> call = u
  BY DEF Calls, u, s, f
<1> HIDE DEF u
<1>6. /\ \A i \in 1 .. a : u[i] = wrote[i]
      /\ \A i \in 1 .. b : u[a + i] = tasks[i].frame
  <2>1. ASSUME NEW i \in 1 .. a PROVE u[i] = wrote[i]
    <3>1. i \in 1 .. a + b
      BY <1>1
    <3> QED
      BY <1>3, <1>4, <3>1
  <2>2. ASSUME NEW i \in 1 .. b PROVE u[a + i] = tasks[i].frame
    <3>1. a + i \in 1 .. a + b
      BY <1>1
    <3> QED
      BY <1>2, <1>3, <1>4, <3>1
  <2> QED
    BY <2>1, <2>2
<1>7. ASSUME call = u
      PROVE  /\ Len(call) = (a + b) + d
             /\ \A i \in 1 .. a : call[i] = wrote[i]
             /\ \A i \in 1 .. b : call[a + i] = tasks[i].frame
             /\ \A i \in 1 .. d : call[(a + b) + i] = rest[i]
  BY <1>4, <1>6, <1>7
<1>8. ASSUME Len(call) = (a + b) + d,
             \A i \in 1 .. a : call[i] = wrote[i],
             \A i \in 1 .. b : call[a + i] = tasks[i].frame,
             \A i \in 1 .. d : call[(a + b) + i] = rest[i]
      PROVE  call = u
  <2>1. ASSUME NEW i \in 1 .. (a + b) + d PROVE call[i] = u[i]
    <3>1. CASE i <= a
      <4>1. i \in 1 .. a
        BY <1>1, <3>1
      <4> QED
        BY <1>6, <1>8, <4>1
    <3>2. CASE a < i /\ i <= a + b
      <4>1. i - a \in 1 .. b /\ a + (i - a) = i
        BY <1>1, <3>2
      <4> QED
        BY <1>6, <1>8, <4>1
    <3>3. CASE a + b < i
      <4>1. i - (a + b) \in 1 .. d /\ (a + b) + (i - (a + b)) = i
        BY <1>1, <3>3
      <4> QED
        BY <1>4, <1>8, <4>1
    <3> QED
      BY <1>1, <3>1, <3>2, <3>3
  <2> QED
    BY <1>4, <1>8, <2>1, SeqEqual
<1> QED
  BY <1>5, <1>7, <1>8

LEMMA AppendedFacts ==
    ASSUME NEW T, NEW s \in Seq(T), NEW x \in T, NEW a, Appended(s, x, a)
    PROVE  /\ a \in Seq(T) /\ Len(a) = Len(s) + 1 /\ Len(s) \in Nat
           /\ a[Len(s) + 1] = x /\ \A i \in 1 .. Len(s) : a[i] = s[i]
  BY DEF Appended

\* Nothing waits and nothing has failed.
LEMMA CallsNone ==
    ASSUME NEW call \in Seq(Frames), NEW wrote \in Seq(Frames)
    PROVE  Calls(call, wrote, <<>>, <<>>) <=> call = wrote
<1>1. <<>> \in Seq(OutTasks) /\ <<>> \in Seq(Frames) /\ FramesOf(<<>>) = <<>>
  <2>1. Len(<<>>) = 0
    OBVIOUS
  <2> QED
    BY <2>1 DEF FramesOf
<1>2. (wrote \o <<>>) \o <<>> = wrote
  OBVIOUS
<1> QED
  BY <1>1, <1>2 DEF Calls

\* A call whose frame waits.
LEMMA CallWaits ==
    ASSUME NEW call \in Seq(Frames), NEW wrote \in Seq(Frames), NEW tasks \in Seq(OutTasks),
           Calls(call, wrote, tasks, <<>>), NEW task \in OutTasks,
           NEW c, Appended(call, task.frame, c), NEW t, Appended(tasks, task, t)
    PROVE  Calls(c, wrote, t, <<>>) /\ c \in Seq(Frames)
<1> DEFINE a == Len(wrote)
           b == Len(tasks)
           n == Len(call)
<1>1. <<>> \in Seq(Frames) /\ Len(<<>>) = 0
  OBVIOUS
<1>2. a \in Nat /\ b \in Nat /\ n \in Nat /\ task.frame \in Frames
  BY LenProperties DEF OutTasks
<1>3. Len(call) = (Len(wrote) + Len(tasks)) + Len(<<>>)
      /\ (\A i \in 1 .. Len(wrote) : call[i] = wrote[i])
      /\ \A i \in 1 .. Len(tasks) : call[Len(wrote) + i] = tasks[i].frame
  BY <1>1, CallsAre
<1>4. c \in Seq(Frames) /\ Len(c) = n + 1 /\ c[n + 1] = task.frame /\ \A i \in 1 .. n : c[i] = call[i]
  <2>1. \A x \in Frames : Appended(call, x, c) =>
           /\ c \in Seq(Frames) /\ Len(c) = n + 1
           /\ c[n + 1] = x /\ \A i \in 1 .. n : c[i] = call[i]
    BY AppendedFacts
  <2> QED
    BY <1>2, <2>1
<1>5. t \in Seq(OutTasks) /\ Len(t) = b + 1 /\ t[b + 1] = task /\ \A i \in 1 .. b : t[i] = tasks[i]
  BY AppendedFacts
<1>6. n = a + b
  BY <1>1, <1>2, <1>3
<1>7. Len(c) = (Len(wrote) + Len(t)) + Len(<<>>)
  BY <1>1, <1>2, <1>4, <1>5, <1>6
<1>8. ASSUME NEW i \in 1 .. Len(wrote) PROVE c[i] = wrote[i]
  <2>1. i \in 1 .. n
    BY <1>2, <1>6
  <2> QED
    BY <1>3, <1>4, <2>1
<1>9. ASSUME NEW i \in 1 .. Len(t) PROVE c[Len(wrote) + i] = t[i].frame
  <2>1. CASE i <= b
    <3>1. i \in 1 .. b /\ a + i \in 1 .. n
      BY <1>2, <1>5, <1>6, <2>1
    <3> QED
      BY <1>3, <1>4, <1>5, <3>1
  <2>2. CASE i = b + 1
    <3>1. a + i = n + 1
      BY <1>2, <1>6, <2>2
    <3> QED
      BY <1>4, <1>5, <2>2, <3>1
  <2> QED
    BY <1>2, <1>5, <2>1, <2>2
<1>10. \A i \in 1 .. Len(<<>>) : c[(Len(wrote) + Len(t)) + i] = <<>>[i]
  BY <1>1
<1>11. Calls(c, wrote, t, <<>>)
  BY <1>1, <1>4, <1>5, <1>7, <1>8, <1>9, <1>10, CallsAre
<1> QED
  BY <1>4, <1>11

\* A call that fails.
LEMMA CallDropped ==
    ASSUME NEW call \in Seq(Frames), NEW wrote \in Seq(Frames), NEW frame \in Frames,
           Calls(call, wrote, <<>>, <<>>), NEW c, Appended(call, frame, c)
    PROVE  Calls(c, wrote, <<>>, <<frame>>) /\ c \in Seq(Frames) /\ <<frame>> \in Seq(Frames)
<1>1. call = wrote
  BY CallsNone
<1>2. FramesOf(<<>>) = <<>>
  <2>1. Len(<<>>) = 0
    OBVIOUS
  <2> QED
    BY <2>1 DEF FramesOf
<1>3. c = Append(wrote, frame) /\ c \in Seq(Frames)
  BY <1>1 DEF Appended
<1>4. (wrote \o <<>>) \o <<frame>> = Append(wrote, frame)
  OBVIOUS
<1>5. <<frame>> \in Seq(Frames)
  OBVIOUS
<1> QED
  BY <1>2, <1>3, <1>4, <1>5 DEF Calls

\* The first that waits is written.
LEMMA CallDone ==
    ASSUME NEW call \in Seq(Frames), NEW wrote \in Seq(Frames), NEW tasks \in Seq(OutTasks), tasks # <<>>,
           NEW rest \in Seq(Frames), Calls(call, wrote, tasks, rest),
           NEW v, Appended(wrote, Head(tasks).frame, v)
    PROVE  Calls(call, v, Tail(tasks), rest) /\ v \in Seq(Frames)
<1> DEFINE a == Len(wrote)
           b == Len(tasks)
           d == Len(rest)
           t == Tail(tasks)
           h == Head(tasks)
<1>1. a \in Nat /\ b \in Nat /\ d \in Nat /\ b >= 1
  BY LenProperties, EmptySeq
<1>2. h \in OutTasks /\ h = tasks[1] /\ t \in Seq(OutTasks) /\ Len(t) = b - 1 /\ \A i \in 1 .. b - 1 : t[i] = tasks[i + 1]
  BY HeadTailProperties
<1>3. h.frame \in Frames
  BY <1>2 DEF OutTasks
<1>4. Len(call) = (a + b) + d
      /\ (\A i \in 1 .. a : call[i] = wrote[i])
      /\ (\A i \in 1 .. b : call[a + i] = tasks[i].frame)
      /\ \A i \in 1 .. d : call[(a + b) + i] = rest[i]
  BY CallsAre
<1>5. Appended(wrote, h.frame, v)
  OBVIOUS
<1> HIDE DEF t, h, b, d
<1>6. v \in Seq(Frames) /\ Len(v) = a + 1 /\ v[a + 1] = h.frame /\ \A i \in 1 .. a : v[i] = wrote[i]
  <2>1. \A x \in Frames : Appended(wrote, x, v) =>
           /\ v \in Seq(Frames) /\ Len(v) = a + 1
           /\ v[a + 1] = x /\ \A i \in 1 .. a : v[i] = wrote[i]
    BY AppendedFacts
  <2> QED
    BY <1>3, <1>5, <2>1
<1> HIDE DEF a
<1>7. (Len(v) + Len(t)) + d = (a + b) + d /\ Len(v) + Len(t) = a + b
  BY <1>1, <1>2, <1>6
<1>8. ASSUME NEW i \in 1 .. Len(v) PROVE call[i] = v[i]
  <2>1. CASE i <= a
    <3>1. i \in 1 .. a
      BY <1>1, <1>6, <2>1
    <3> QED
      BY <1>4, <1>6, <3>1
  <2>2. CASE i = a + 1
    <3>1. 1 \in 1 .. b
      BY <1>1
    <3>2. call[a + 1] = tasks[1].frame
      BY <1>4, <3>1
    <3> QED
      BY <1>2, <1>6, <2>2, <3>2
  <2> QED
    BY <1>1, <1>6, <2>1, <2>2
<1>9. ASSUME NEW i \in 1 .. Len(t) PROVE call[Len(v) + i] = t[i].frame
  <2>1. i \in 1 .. b - 1 /\ i + 1 \in 1 .. b /\ Len(v) + i = a + (i + 1)
    BY <1>1, <1>2, <1>6
  <2>2. call[a + (i + 1)] = tasks[i + 1].frame
    BY <1>4, <2>1
  <2> QED
    BY <1>2, <2>1, <2>2
<1>10. Calls(call, v, t, rest)
  <2>1. Len(call) = (Len(v) + Len(t)) + Len(rest)
    BY <1>4, <1>7 DEF d
  <2>2. \A i \in 1 .. Len(rest) : call[(Len(v) + Len(t)) + i] = rest[i]
    BY <1>4, <1>7 DEF d
  <2> QED
    BY <1>2, <1>6, <1>8, <1>9, <2>1, <2>2, CallsAre
<1> QED
  BY <1>6, <1>10 DEF t

LEMMA InitWrites == Init => WritesInv
<1> SUFFICES ASSUME Init PROVE WritesInv
  OBVIOUS
<1>1. called = <<>> /\ written = <<>> /\ deflateQueue = IdleQueue
  BY DEF Init
<1>2. deflateQueue.tasks = <<>> /\ <<>> \in Seq(Frames)
  BY <1>1, IdleSound
<1>3. Calls(called, written, deflateQueue.tasks, <<>>)
  BY <1>1, <1>2, CallsNone
<1> QED
  BY <1>1, <1>2, <1>3 DEF WritesInv

\* Neither the calls nor what waits change.
LEMMA WritesSame ==
    ASSUME WritesInv, UNCHANGED <<called, written>>, deflateQueue'.tasks = deflateQueue.tasks,
           ~failed' => ~failed
    PROVE  WritesInv'
<1>1. PICK rest : /\ rest \in Seq(Frames) /\ Calls(called, written, deflateQueue.tasks, rest)
                  /\ ~failed => rest = <<>>
  BY DEF WritesInv
<1>2. Calls(called', written', deflateQueue'.tasks, rest) /\ (~failed' => rest = <<>>)
  BY <1>1
<1>3. called' \in Seq(Frames) /\ written' \in Seq(Frames)
  BY DEF WritesInv
<1> QED
  BY <1>1, <1>2, <1>3 DEF WritesInv

LEMMA WriteWrites ==
    ASSUME QueuesInv, WritesInv, NEW ok \in BOOLEAN, Write(ok)
    PROVE  WritesInv'
<1> DEFINE frame == [seqId |-> compressedSequenceId, call |-> Len(called) + 1]
           task == [frame |-> frame, ok |-> ok]
<1>1. /\ ~failed /\ called' = Append(called, frame)
      /\ \/ /\ deflateQueue.state = "idle" /\ deflateQueue' = deflateQueue
            /\ \/ written' = Append(written, frame) /\ failed' = failed
               \/ failed' = TRUE /\ written' = written
         \/ deflateQueue' = Pushed(deflateQueue, task) /\ written' = written /\ failed' = failed
  BY DEF Write
<1>2. frame \in Frames
  <2>1. Len(called) + 1 \in Nat
    BY DEF WritesInv
  <2>2. compressedSequenceId \in 0 .. SEQ - 1
    BY DEF QueuesInv
  <2> QED
    BY <2>1, <2>2 DEF Frames
<1> HIDE DEF frame
<1>3. task \in OutTasks /\ task.frame = frame
  BY <1>2 DEF OutTasks
<1> HIDE DEF task
<1>4. /\ called \in Seq(Frames) /\ written \in Seq(Frames) /\ Calls(called, written, deflateQueue.tasks, <<>>)
  BY <1>1 DEF WritesInv
<1>5. Sound(deflateQueue, OutTasks) /\ deflateQueue.tasks \in Seq(OutTasks)
  BY DEF QueuesInv, Sound, Queues
<1>6. Appended(called, frame, called') /\ <<>> \in Seq(Frames)
  BY <1>1 DEF Appended
<1>7. CASE /\ deflateQueue.state = "idle" /\ deflateQueue' = deflateQueue
           /\ written' = Append(written, frame) /\ failed' = failed
  <2>1. deflateQueue.tasks = <<>> /\ deflateQueue'.tasks = <<>>
    BY <1>5, <1>7 DEF Sound
  <2>2. called = written
    BY <1>4, <2>1, CallsNone
  <2>3. called' = written' /\ called' \in Seq(Frames) /\ written' \in Seq(Frames)
    BY <1>1, <1>2, <1>4, <1>7, <2>2
  <2>4. Calls(called', written', deflateQueue'.tasks, <<>>)
    BY <2>1, <2>3, CallsNone
  <2> QED
    BY <1>6, <2>3, <2>4 DEF WritesInv
<1>8. CASE /\ deflateQueue.state = "idle" /\ deflateQueue' = deflateQueue
           /\ failed' = TRUE /\ written' = written
  <2>1. deflateQueue.tasks = <<>> /\ deflateQueue'.tasks = <<>>
    BY <1>5, <1>8 DEF Sound
  <2>2. Calls(called', written, <<>>, <<frame>>) /\ called' \in Seq(Frames) /\ <<frame>> \in Seq(Frames)
    BY <1>2, <1>4, <1>6, <2>1, CallDropped
  <2>3. Calls(called', written', deflateQueue'.tasks, <<frame>>) /\ written' \in Seq(Frames)
    BY <1>4, <1>8, <2>1, <2>2
  <2> QED
    BY <1>8, <2>2, <2>3 DEF WritesInv
<1>9. CASE deflateQueue' = Pushed(deflateQueue, task) /\ written' = written /\ failed' = failed
  <2>1. Appended(deflateQueue.tasks, task, deflateQueue'.tasks)
    BY <1>3, <1>5, <1>9, PushedSound DEF Appended
  <2>2. Calls(called', written, deflateQueue'.tasks, <<>>) /\ called' \in Seq(Frames)
    BY <1>3, <1>4, <1>5, <1>6, <2>1, CallWaits
  <2>3. Calls(called', written', deflateQueue'.tasks, <<>>) /\ written' \in Seq(Frames)
    BY <1>4, <1>9, <2>2
  <2> QED
    BY <1>6, <2>2, <2>3 DEF WritesInv
<1> QED
  BY <1>1, <1>7, <1>8, <1>9

LEMMA DeflateWrites ==
    ASSUME QueuesInv, WritesInv, DeflateTick \/ DeflateDone
    PROVE  WritesInv'
<1>1. Sound(deflateQueue, OutTasks) /\ deflateQueue.tasks \in Seq(OutTasks)
  BY DEF QueuesInv, Sound, Queues
<1>2. CASE DeflateTick
  <2>1. deflateQueue'.tasks = deflateQueue.tasks
    BY <1>1, <1>2, NextSound DEF DeflateTick
  <2>2. UNCHANGED <<called, written, failed>>
    BY <1>2 DEF DeflateTick
  <2> QED
    BY <2>1, <2>2, WritesSame
<1>3. CASE DeflateDone
  <2> DEFINE task == Head(deflateQueue.tasks)
  <2>1. deflateQueue.tasks # <<>>
    BY <1>1, <1>3 DEF Sound, DeflateDone
  <2>2. CASE /\ written' = Append(written, task.frame) /\ deflateQueue' = Done(deflateQueue)
             /\ failed' = failed /\ called' = called
    <3>1. PICK rest : /\ rest \in Seq(Frames) /\ Calls(called, written, deflateQueue.tasks, rest)
                      /\ ~failed => rest = <<>>
      BY DEF WritesInv
    <3>2. called \in Seq(Frames) /\ written \in Seq(Frames)
      BY DEF WritesInv
    <3>3. Appended(written, task.frame, written')
      BY <2>2 DEF Appended
    <3> HIDE DEF task
    <3>4. Calls(called, written', Tail(deflateQueue.tasks), rest) /\ written' \in Seq(Frames)
      BY <1>1, <2>1, <3>1, <3>2, <3>3, CallDone DEF task
    <3>5. deflateQueue'.tasks = Tail(deflateQueue.tasks)
      BY <1>1, <2>1, <2>2, DoneSound
    <3>6. Calls(called', written', deflateQueue'.tasks, rest) /\ called' \in Seq(Frames) /\ (~failed' => rest = <<>>)
      BY <2>2, <3>1, <3>2, <3>4, <3>5
    <3> QED
      BY <3>1, <3>4, <3>6 DEF WritesInv
  <2>3. CASE /\ failed' = TRUE /\ deflateQueue' = [deflateQueue EXCEPT !.state = "stuck"]
             /\ UNCHANGED <<called, written>>
    <3>1. deflateQueue'.tasks = deflateQueue.tasks
      BY <1>1, <2>1, <2>3, StuckSound
    <3> QED
      BY <2>3, <3>1, WritesSame
  <2> QED
    BY <1>3, <2>2, <2>3 DEF DeflateDone
<1> QED
  BY <1>2, <1>3

LEMMA InvMeansWrittenInOrder == QueuesInv /\ WritesInv => WrittenInOrder
<1> SUFFICES ASSUME QueuesInv, WritesInv PROVE WrittenInOrder
  OBVIOUS
<1>1. PICK rest : /\ rest \in Seq(Frames) /\ Calls(called, written, deflateQueue.tasks, rest)
                  /\ ~failed => rest = <<>>
  BY DEF WritesInv
<1>2. called \in Seq(Frames) /\ written \in Seq(Frames)
  BY DEF WritesInv
<1>3. deflateQueue.tasks \in Seq(OutTasks) /\ (deflateQueue.state = "idle" => deflateQueue.tasks = <<>>)
  BY DEF QueuesInv, Sound, Queues
<1> DEFINE a == Len(written)
           b == Len(deflateQueue.tasks)
           d == Len(rest)
           n == Len(called)
<1>4. n = (a + b) + d /\ \A i \in 1 .. a : called[i] = written[i]
  BY <1>1, <1>2, <1>3, CallsAre
<1>5. a \in Nat /\ b \in Nat /\ d \in Nat /\ n \in Nat
  BY <1>1, <1>2, <1>3, LenProperties
<1>6. Prefix(written, called)
  <2>1. a <= n
    <3> HIDE DEF a, b, d, n
    <3> QED
      BY <1>4, <1>5
  <2>2. written = SubSeq(called, 1, a)
    BY <1>2, <1>4, <1>5, <2>1
  <2> QED
    BY <2>1, <2>2 DEF Prefix
<1>7. deflateQueue.state = "idle" /\ ~failed => written = called
  BY <1>1, <1>2, <1>3, CallsNone
<1> QED
  BY <1>6, <1>7 DEF WrittenInOrder

-----------------------------------------------------------------------------
\* What writePacket writes.

LEMMA ConcatOne == ASSUME NEW T, NEW part \in Seq(T), NEW parts, parts = [j \in 1 .. 1 |-> part]
                   PROVE  Concat(parts) = part
<1>1. parts \in Seq(Seq(T)) /\ Len(parts) = 1 /\ parts[1] = part
  <2>1. parts \in [1 .. 1 -> Seq(T)] /\ parts[1] = part
    OBVIOUS
  <2> QED
    BY <2>1, FunctionIsSeq
<1>2. PICK f \in [0 .. Len(parts) -> Seq(T)] :
              /\ f[0] = <<>> /\ \A n \in 1 .. Len(parts) : f[n] = f[n - 1] \o parts[n]
              /\ Concat(parts) = f[Len(parts)]
  BY <1>1, ConcatSteps
<1>3. f[1] = f[0] \o parts[1]
  <2>1. 1 \in 1 .. Len(parts) /\ 1 - 1 = 0
    BY <1>1
  <2> QED
    BY <1>2, <2>1
<1>4. <<>> \o part = part
  OBVIOUS
<1> QED
  BY <1>1, <1>2, <1>3, <1>4

\* The frames of packet k, as writePacket writes them: its id wraps, and the
\* header has four bytes.
LEMMA FrameWritten ==
    ASSUME NEW k \in Nat, NEW L \in Nat, NEW id \in Nat, NEW j \in 1 .. Pieces(L)
    PROVE  FrameBytes(k, L, id, 4, j)
             = LengthBytes(PieceLength(L, j)) \o <<Bumped(id, j - 1)>> \o Piece(k, L, j)
<1> DEFINE lb == LengthBytes(PieceLength(L, j))
           i == (id + j - 1) % SEQ
           ii == <<i>>
           s == lb \o ii
           p == Piece(k, L, j)
<1>1. lb \in Seq(Bytes)
  BY PieceFacts, BytesTyped
<1>2. j \in Nat /\ j >= 1
  BY PieceFacts
<1>3. ii \in Seq(Bytes) /\ i = Bumped(id, j - 1)
  <2>1. i \in Nat
    BY <1>2, IdTyped
  <2>2. id + j - 1 = id + (j - 1)
    BY <1>2
  <2> QED
    BY <2>1, <2>2 DEF Bumped, Bytes
<1>4. Zeros(4) = <<>>
  <2>1. 4 - 4 = 0
    OBVIOUS
  <2>2. Zeros(4) = [n \in 1 .. 0 |-> 0]
    BY <2>1 DEF Zeros
  <2> QED
    BY <2>2
<1>5. FrameBytes(k, L, id, 4, j) = s \o Zeros(4) \o p
  BY DEF FrameBytes
<1> HIDE DEF lb, ii, p
<1>6. s \in Seq(Bytes)
  BY <1>1, <1>3
<1> HIDE DEF s
<1>7. s \o <<>> = s
  BY <1>6
<1>8. FrameBytes(k, L, id, 4, j) = s \o p
  BY <1>4, <1>5, <1>7
<1> QED
  BY <1>3, <1>8 DEF s, ii, lb, p

\* A payload that fits.
LEMMA SmallWritten ==
    ASSUME NEW k \in Nat, NEW L \in Nat, L < Full, NEW id \in 0 .. SEQ - 1
    PROVE  writePacket(Payload(k, L), id) = Framed(Payload(k, L), id, 4)
<1>1. Full \in Nat /\ Full > 0 /\ SEQ \in Nat /\ SEQ > 1 /\ 4 \in HeaderLengths
  BY FullFacts, BaseFacts DEF HeaderLengths
<1>2. id \in Nat /\ id < SEQ
  BY <1>1
<1>3. Pieces(L) = 1
  <2> HIDE DEF Full
  <2>1. L = Full * 0 + L /\ 0 \in Nat
    BY <1>1
  <2>2. L \div Full = 0
    BY <1>1, <2>1, DivUnique
  <2> QED
    BY <2>2 DEF Pieces, Full
<1>4. PieceEnd(L, 0) = 0 /\ PieceEnd(L, 1) = L
  BY <1>3, PieceFacts
<1>5. Piece(k, L, 1) = Payload(k, L) /\ PieceLength(L, 1) = L
  <2>1. Payload(k, L) \in Seq(Bytes) /\ Len(Payload(k, L)) = L
    BY PayloadTyped
  <2>2. SubSeq(Payload(k, L), 1, L) = Payload(k, L)
    BY <2>1, SubSeqFull
  <2>3. 1 - 1 = 0 /\ 0 + 1 = 1 /\ L - 0 = L
    OBVIOUS
  <2> QED
    BY <1>4, <2>2, <2>3 DEF Piece, PieceLength
<1>6. Bumped(id, 1 - 1) = id
  <2>1. id = SEQ * 0 + id /\ 0 \in Nat /\ SEQ > 0
    BY <1>1, <1>2
  <2>2. id % SEQ = id
    BY <1>1, <1>2, <2>1, DivUnique
  <2>3. id + (1 - 1) = id
    BY <1>2
  <2> QED
    BY <2>2, <2>3 DEF Bumped
<1> DEFINE part == LengthBytes(L) \o <<id>> \o Payload(k, L)
           parts == [j \in 1 .. 1 |-> FrameBytes(k, L, id, 4, j)]
<1>7. 1 \in 1 .. Pieces(L)
  BY <1>3
<1>8. FrameBytes(k, L, id, 4, 1) = part
  <2>1. \A j \in 1 .. Pieces(L) : FrameBytes(k, L, id, 4, j)
             = LengthBytes(PieceLength(L, j)) \o <<Bumped(id, j - 1)>> \o Piece(k, L, j)
    BY <1>2, FrameWritten
  <2>2. FrameBytes(k, L, id, 4, 1)
             = LengthBytes(PieceLength(L, 1)) \o <<Bumped(id, 1 - 1)>> \o Piece(k, L, 1)
    BY <1>7, <2>1
  <2> QED
    BY <1>5, <1>6, <2>2
<1>9. part \in Seq(Bytes)
  <2>1. \A j \in 1 .. Pieces(L) : FrameBytes(k, L, id, 4, j) \in Seq(Bytes)
    BY <1>1, <1>2, FrameParts
  <2> QED
    BY <1>7, <1>8, <2>1
<1>10. Framed(Payload(k, L), id, 4) = Concat(parts)
  <2>1. Framed(Payload(k, L), id, 4) = Concat([j \in 1 .. Pieces(L) |-> FrameBytes(k, L, id, 4, j)])
    BY <1>1, <1>2, FramedIs
  <2> QED
    BY <1>3, <2>1
<1> HIDE DEF part
<1>11. parts = [j \in 1 .. 1 |-> part]
  <2>1. \A j \in 1 .. 1 : FrameBytes(k, L, id, 4, j) = part
    <3>1. \A j \in 1 .. 1 : j = 1
      OBVIOUS
    <3> QED
      BY <1>8, <3>1
  <2> QED
    BY <2>1
<1> HIDE DEF parts
<1>12. Concat(parts) = part
  BY <1>9, <1>11, ConcatOne
<1>13. Len(Payload(k, L)) < MAX_PACKET_LENGTH
  BY PayloadTyped DEF Full
<1>14. writePacket(Payload(k, L), id) = part
  BY <1>13, PayloadTyped DEF writePacket, part
<1> QED
  BY <1>10, <1>12, <1>14

\* A payload that is written in pieces, the last of which is not empty.
LEMMA LargeWritten ==
    ASSUME NEW k \in Nat, NEW L \in Nat, ~(L < Full), L % Full # 0, NEW id \in 0 .. SEQ - 1
    PROVE  writePacket(Payload(k, L), id) = Framed(Payload(k, L), id, 4)
<1> DEFINE s == Payload(k, L)
           N == (L - 1) \div Full + 1
           piece(j) == SubSeq(s, (j - 1) * Full + 1, IF j < N THEN j * Full ELSE L)
           frame(j) == LengthBytes(Len(piece(j))) \o <<Bumped(id, j - 1)>> \o piece(j)
<1>1. Full \in Nat /\ Full > 0 /\ SEQ \in Nat /\ SEQ > 1 /\ 4 \in HeaderLengths
  BY FullFacts, BaseFacts DEF HeaderLengths
<1>2. id \in Nat
  BY <1>1
<1>3. Len(s) = L
  BY PayloadTyped
<1>4. N = Pieces(L)
  <2> DEFINE q == L \div Full
             r == L % Full
  <2>0. Pieces(L) = q + 1
    BY DEF Pieces, Full
  <2> HIDE DEF Full
  <2>1. q \in Nat /\ r \in Nat /\ r < Full /\ L = Full * q + r /\ r # 0
    BY <1>1, DivMod
  <2> HIDE DEF q, r
  <2>2. r - 1 \in Nat /\ r - 1 < Full /\ L - 1 = Full * q + (r - 1)
    <3> DEFINE u == Full * q
    <3>1. u \in Nat /\ L = u + r
      BY <1>1, <2>1
    <3> HIDE DEF u
    <3>2. L - 1 = u + (r - 1)
      BY <2>1, <3>1
    <3> QED
      BY <1>1, <2>1, <3>2 DEF u
  <2>3. (L - 1) \div Full = q
    <3> DEFINE n == L - 1
               t == r - 1
    <3>1. t \in Nat /\ t < Full /\ n = Full * q + t
      BY <2>2
    <3> HIDE DEF n, t
    <3>2. n \div Full = q
      BY <1>1, <2>1, <3>1, DivUnique
    <3> QED
      BY <3>2 DEF n
  <2> QED
    BY <2>0, <2>3
<1>5. ASSUME NEW j \in 1 .. Pieces(L)
      PROVE  (j - 1) * Full = PieceEnd(L, j - 1) /\ (IF j < N THEN j * Full ELSE L) = PieceEnd(L, j)
  <2>1. (j - 1) * Full = PieceEnd(L, j - 1)
    BY PieceEnds
  <2> HIDE DEF N, Full
  <2>2. (IF j < N THEN j * Full ELSE L) = PieceEnd(L, j)
    BY <1>4 DEF PieceEnd
  <2> QED
    BY <2>1, <2>2
<1>6. ASSUME NEW j \in 1 .. Pieces(L) PROVE frame(j) = FrameBytes(k, L, id, 4, j)
  <2>1. piece(j) = Piece(k, L, j)
    <3> DEFINE x == (j - 1) * Full
               y == IF j < N THEN j * Full ELSE L
    <3>1. x = PieceEnd(L, j - 1) /\ y = PieceEnd(L, j)
      BY <1>5
    <3>2. piece(j) = SubSeq(s, x + 1, y)
      OBVIOUS
    <3> HIDE DEF x, y, piece
    <3> QED
      BY <3>1, <3>2 DEF Piece
  <2>2. Len(Piece(k, L, j)) = PieceLength(L, j)
    BY PieceTyped
  <2>3. FrameBytes(k, L, id, 4, j)
             = LengthBytes(PieceLength(L, j)) \o <<Bumped(id, j - 1)>> \o Piece(k, L, j)
    BY <1>2, FrameWritten
  <2> HIDE DEF piece
  <2> QED
    BY <2>1, <2>2, <2>3
<1>7. writePacket(s, id) = Concat([j \in 1 .. N |-> frame(j)])
  <2>1. ~(Len(s) < MAX_PACKET_LENGTH)
    BY <1>3 DEF Full
  <2> HIDE DEF s
  <2> QED
    BY <1>3, <2>1 DEF writePacket, Full
<1>8. Framed(s, id, 4) = Concat([j \in 1 .. Pieces(L) |-> FrameBytes(k, L, id, 4, j)])
  BY <1>1, <1>2, FramedIs
<1> HIDE DEF frame, s, N
<1>9. [j \in 1 .. N |-> frame(j)] = [j \in 1 .. Pieces(L) |-> FrameBytes(k, L, id, 4, j)]
  BY <1>4, <1>6
<1> QED
  BY <1>7, <1>8, <1>9 DEF s

LEMMA PacketWritten ==
    ASSUME NEW k \in Nat, NEW L \in Nat, L = 0 \/ L % MAX_PACKET_LENGTH # 0, NEW id \in 0 .. SEQ - 1
    PROVE  writePacket(Payload(k, L), id) = Framed(Payload(k, L), id, 4)
<1>1. L < Full \/ (~(L < Full) /\ L % Full # 0)
  <2>1. L = 0 => L < Full
    BY FullFacts
  <2> QED
    BY <2>1 DEF Full
<1> QED
  BY <1>1, SmallWritten, LargeWritten

-----------------------------------------------------------------------------
\* Read back.

\* A parser that gets the whole stream at once hands over all its packets.
LEMMA WholeRead ==
    ASSUME NEW w, NEW pk, NEW st, Described(w, pk, st), NEW p, p = NewParser(w.hl)
    PROVE  execute(p, st).out = Out(w, Len(w.lengths))
<1> DEFINE N == Len(w.lengths)
           y == Len(st)
           q == execute(p, st)
<1>1. WellFormed(p) /\ Reached(w, p, 0) /\ p.mode = "start"
  BY NewParserAt
<1>2. N \in Nat /\ y \in Nat /\ st \in Seq(Bytes) /\ y = w.last[N]
  BY DescribedFacts
<1>3. q = executeStart(p, st)
  BY <1>1 DEF execute
<1>4. ChunkOf(st, 0, y, st)
  <2>1. SubSeq(st, 1, Len(st)) = st
    BY <1>2, SubSeqFull
  <2>2. 0 + 1 = 1 /\ 0 \in Nat
    OBVIOUS
  <2> QED
    BY <1>2, <2>1, <2>2 DEF ChunkOf
<1> HIDE DEF q, y
<1>5. At(w, st, executeStart(p, st), y)
  <2> DEFINE z == 0
             c == st
  <2>1. ChunkOf(st, z, y, c) /\ Reached(w, p, z)
    BY <1>1, <1>4
  <2> HIDE DEF z, c
  <2>2. At(w, st, executeStart(p, c), y)
    BY <1>1, <2>1, StartAt
  <2> QED
    BY <2>2 DEF c
<1>6. PICK k : Handed(w, k, y) /\ q.out = Out(w, k)
  <2>1. At(w, st, q, y) /\ y <= Len(st)
    BY <1>2, <1>3, <1>5 DEF y
  <2> QED
    BY <2>1, AtHanded
<1>7. Handed(w, N, y)
  <2>1. N \in 0 .. Len(w.lengths)
    BY <1>2
  <2>2. Handed(w, N, w.last[N])
    <3> HIDE DEF N
    <3> QED
      BY <2>1, HandedLast
  <2> QED
    BY <1>2, <2>2
<1> HIDE DEF N
<1>8. k <= N /\ N <= k /\ k \in Nat
  <2>1. y <= y
    BY <1>2
  <2> QED
    BY <1>6, <1>7, <2>1, HandedGrow
<1>9. k = N
  BY <1>2, <1>8
<1> QED
  BY <1>6, <1>9 DEF N, q

\* The stream of the server is that of the packets it frames.
LEMMA StreamIs ==
    ASSUME NEW lengths, NEW hl
    PROVE  LET from == Sent(lengths, hl)
           IN  from.stream = Concat([k \in 1 .. Len(lengths) |->
                                        Framed(Payload(k, lengths[k]), from.packets[k].sequenceId, hl)])
<1> DEFINE N == Len(lengths)
           id == CHOOSE g : g = [k \in 1 .. N + 1 |->
                                    IF k = 1 THEN 0 ELSE (g[k - 1] + Pieces(lengths[k - 1])) % SEQ]
           bytes(k) == Framed(Payload(k, lengths[k]), id[k], hl)
           last == CHOOSE g : g = [k \in 0 .. N |-> IF k = 0 THEN 0 ELSE g[k - 1] + Len(bytes(k))]
           st == Concat([k \in 1 .. N |-> bytes(k)])
           pk == [k \in 1 .. N |-> [sequenceId |-> id[k], numPackets |-> Pieces(lengths[k]),
                                    content |-> [i \in 1 .. hl - 4 |-> 0] \o Payload(k, lengths[k]),
                                    last |-> last[k]]]
<1>1. Sent(lengths, hl) = [packets |-> pk, stream |-> st]
  BY DEF Sent
<1>2. \A k \in 1 .. N : pk[k].sequenceId = id[k]
  OBVIOUS
<1> DEFINE from == Sent(lengths, hl)
<1>3. from.packets = pk /\ from.stream = st
  <2> HIDE DEF pk, st
  <2> QED
    BY <1>1
<1> HIDE DEF pk, id, from, N
<1>4. \A k \in 1 .. N : Framed(Payload(k, lengths[k]), from.packets[k].sequenceId, hl) = bytes(k)
  BY <1>2, <1>3
<1>5. [k \in 1 .. N |-> Framed(Payload(k, lengths[k]), from.packets[k].sequenceId, hl)]
        = [k \in 1 .. N |-> bytes(k)]
  BY <1>4
<1> QED
  BY <1>3, <1>5 DEF from, N

LEMMA ReadsBack ==
    ASSUME NEW lengths \in Seq(Nat),
           \A k \in DOMAIN lengths : lengths[k] = 0 \/ lengths[k] % MAX_PACKET_LENGTH # 0
    PROVE  ReadBack(lengths)
<1> DEFINE from == Sent(lengths, 4)
           N == Len(lengths)
           wrote == [k \in DOMAIN lengths |-> writePacket(from.packets[k].content, from.packets[k].sequenceId)]
           framed == [k \in 1 .. N |-> Framed(Payload(k, lengths[k]), from.packets[k].sequenceId, 4)]
           read == execute(NewParser(4), Concat(wrote)).out
<1>1. 4 \in HeaderLengths
  BY DEF HeaderLengths
<1>2. PICK w : w.lengths = lengths /\ w.hl = 4 /\ Described(w, from.packets, from.stream)
  BY <1>1, SentDescribed
<1>3. N \in Nat /\ DOMAIN lengths = 1 .. N /\ \A k \in 1 .. N : lengths[k] \in Nat
  OBVIOUS
<1>4. from.stream = Concat(framed)
  BY StreamIs
<1> HIDE DEF from
<1>5. from.packets = [k \in 1 .. N |-> PacketOf(w, k)] /\ w.id \in [1 .. N + 1 -> 0 .. SEQ - 1]
  BY <1>2 DEF Described
<1> HIDE DEF N
<1>6. ASSUME NEW k \in 1 .. N
      PROVE  /\ from.packets[k].content = Payload(k, lengths[k])
             /\ from.packets[k].sequenceId = w.id[k] /\ w.id[k] \in 0 .. SEQ - 1 /\ k \in Nat
  <2>1. from.packets[k] = PacketOf(w, k)
    BY <1>5
  <2>2. from.packets[k].content = Zeros(4) \o Payload(k, lengths[k]) /\ from.packets[k].sequenceId = w.id[k]
    BY <1>2, <2>1 DEF PacketOf
  <2>3. Zeros(4) = <<>>
    <3>1. 4 - 4 = 0
      OBVIOUS
    <3>2. Zeros(4) = [n \in 1 .. 0 |-> 0]
      BY <3>1 DEF Zeros
    <3> QED
      BY <3>2
  <2>4. k \in Nat /\ k \in 1 .. N + 1
    BY <1>3
  <2>5. Payload(k, lengths[k]) \in Seq(Bytes)
    BY <1>3, <2>4, PayloadTyped
  <2> DEFINE s == Payload(k, lengths[k])
  <2>6. <<>> \o s = s
    <3> HIDE DEF s
    <3>1. s \in Seq(Bytes)
      BY <2>5 DEF s
    <3> QED
      BY <3>1
  <2> QED
    BY <1>5, <2>2, <2>3, <2>4, <2>6
<1>7. ASSUME NEW k \in 1 .. N
      PROVE  writePacket(from.packets[k].content, from.packets[k].sequenceId)
               = Framed(Payload(k, lengths[k]), from.packets[k].sequenceId, 4)
  <2> DEFINE L == lengths[k]
             i == w.id[k]
  <2>1. k \in Nat /\ L \in Nat /\ (L = 0 \/ L % MAX_PACKET_LENGTH # 0) /\ i \in 0 .. SEQ - 1
    BY <1>3, <1>6
  <2> HIDE DEF L, i
  <2>2. writePacket(Payload(k, L), i) = Framed(Payload(k, L), i, 4)
    BY <2>1, PacketWritten
  <2> QED
    BY <1>6, <2>2 DEF L, i
<1>8. wrote = framed
  BY <1>3, <1>7
<1>9. Concat(wrote) = from.stream
  BY <1>4, <1>8
<1> HIDE DEF wrote, framed
<1>10. read = Out(w, N)
  <2>1. execute(NewParser(4), from.stream).out = Out(w, Len(w.lengths))
    BY <1>2, WholeRead
  <2> QED
    BY <1>2, <1>9, <2>1 DEF N
<1> HIDE DEF read
<1>11. DOMAIN read = 1 .. N /\ \A k \in 1 .. N : read[k].content = from.packets[k].content
  <2>1. ASSUME NEW k \in 1 .. N PROVE read[k].content = from.packets[k].content
    <3>1. read[k] = OutOf(w, k) /\ from.packets[k] = PacketOf(w, k)
      BY <1>5, <1>10 DEF Out
    <3> QED
      BY <3>1 DEF OutOf, PacketOf
  <2> QED
    BY <1>10, <2>1 DEF Out
<1>12. [k \in DOMAIN read |-> read[k].content] = [k \in DOMAIN lengths |-> from.packets[k].content]
  BY <1>3, <1>11
<1> QED
  BY <1>9, <1>12 DEF ReadBack, from, wrote, read

LEMMA AllReadBack == WriteReadBack
<1>1. \A lengths \in Streams["plain"] : lengths \in Seq(Nat)
  <2>1. "plain" \in DOMAIN Streams
    BY ConstantsAssumption
  <2> QED
    BY <2>1, ConstantsAssumption
<1> QED
  BY <1>1, ReadsBack DEF WriteReadBack

-----------------------------------------------------------------------------
\* The theorems.

\* The inductive invariant.
WireInv == FramingInv /\ WritesInv

LEMMA InitWire == Init => WireInv
  BY InitPlaced, InitWrites DEF WireInv

LEMMA StepFraming ==
    ASSUME WireInv, [Next]_vars
    PROVE  FramingInv'
<1>1. QueuesInv /\ called \in Seq(Frames)
  BY DEF WireInv, FramingInv, WritesInv
<1>2. PICK w : Placed(w)
  BY DEF WireInv, FramingInv
<1>3. QueuesInv' /\ Placed(w)'
  <2>1. CASE \E n \in 1 .. Len(stream) : Receive(n)
    BY <1>1, <1>2, <2>1, ReceiveKeeps
  <2>2. CASE \E n \in FrameSizes, kind \in {"raw", "small", "large"}, ok \in BOOLEAN : ReceiveFrame(n, kind, ok)
    BY <1>1, <1>2, <2>2, ReceiveFrameKeeps
  <2>3. CASE InflateTick
    BY <1>1, <1>2, <2>3, InflateTickKeeps
  <2>4. CASE InflateDone
    BY <1>1, <1>2, <2>4, InflateDoneKeeps
  <2>5. CASE DeflateTick \/ DeflateDone
    BY <1>1, <1>2, <2>5, DeflateKeeps
  <2>6. CASE \E ok \in BOOLEAN : Write(ok)
    BY <1>1, <1>2, <2>6, WriteKeeps
  <2>7. CASE UNCHANGED vars
    <3>1. /\ UNCHANGED <<mode, packets, stream, pos, parser, sequenceId, failed, inflateQueue>>
          /\ UNCHANGED <<deflateQueue, compressedSequenceId, toWrite>>
      BY <2>7 DEF vars
    <3>2. Placed(w)'
      BY <1>2, <3>1, SamePlaced
    <3>3. QueuesInv'
      BY <1>1, <3>1 DEF QueuesInv, Sound, Queues, IdleQueue
    <3> QED
      BY <3>2, <3>3
  <2> QED
    BY <2>1, <2>2, <2>3, <2>4, <2>5, <2>6, <2>7 DEF Next
<1> QED
  BY <1>3 DEF FramingInv

LEMMA StepWrites ==
    ASSUME WireInv, [Next]_vars
    PROVE  WritesInv'
<1>1. QueuesInv /\ WritesInv
  BY DEF WireInv, FramingInv
<1>2. CASE UNCHANGED <<called, written, deflateQueue>> /\ (failed => failed')
  <2>1. deflateQueue'.tasks = deflateQueue.tasks
    BY <1>2
  <2> QED
    BY <1>1, <1>2, <2>1, WritesSame
<1>3. CASE DeflateTick \/ DeflateDone
  BY <1>1, <1>3, DeflateWrites
<1>4. CASE \E ok \in BOOLEAN : Write(ok)
  BY <1>1, <1>4, WriteWrites
<1>5. ASSUME NEW n, Receive(n) PROVE UNCHANGED <<called, written, deflateQueue>> /\ (failed => failed')
  BY <1>5 DEF Receive
<1>6. ASSUME NEW n, NEW kind, NEW ok, ReceiveFrame(n, kind, ok)
      PROVE  UNCHANGED <<called, written, deflateQueue>> /\ (failed => failed')
  BY <1>6 DEF ReceiveFrame
<1>7. ASSUME InflateTick \/ InflateDone PROVE UNCHANGED <<called, written, deflateQueue>> /\ (failed => failed')
  BY <1>7 DEF InflateTick, InflateDone
<1>8. ASSUME UNCHANGED vars PROVE UNCHANGED <<called, written, deflateQueue>> /\ (failed => failed')
  BY <1>8 DEF vars
<1> QED
  BY <1>2, <1>3, <1>4, <1>5, <1>6, <1>7, <1>8 DEF Next

\* The inductive invariant: the parser stands where the bytes it was given lead,
\* the chunks that wait in inflateQueue follow it in the stream, the connection
\* has counted the packets handed over, and of the calls of writeCompressed
\* first comes what was written, then what waits in deflateQueue.
THEOREM WireInvariant == Spec => []WireInv
<1>1. Init => WireInv
  BY InitWire
<1>2. WireInv /\ [Next]_vars => WireInv'
  BY StepFraming, StepWrites DEF WireInv
<1> QED
  BY <1>1, <1>2, PTL DEF Spec

\* PacketParser cuts the stream into exactly the packets that were sent, with
\* their ids, wherever chunks are cut and whatever is inflated inline or on the
\* thread pool; nothing is handled out of order or after a fatal error, and the
\* sequence ids that handlePacket counts are those of the packets.
THEOREM FramingIsExact == Spec => []FramingExact
<1>1. WireInv => FramingExact
  BY InvMeansFramingExact DEF WireInv
<1> QED
  BY <1>1, WireInvariant, PTL

\* Compressed frames are written in the order of the calls of writeCompressed,
\* with the ids they took there; a call is left out only after an error of zlib.
THEOREM WritesAreInOrder == Spec => []WrittenInOrder
<1>1. WireInv => WrittenInOrder
  BY InvMeansWrittenInOrder DEF WireInv, FramingInv
<1> QED
  BY <1>1, WireInvariant, PTL

\* writePacket frames payloads as the protocol asks for, and a parser reads them
\* back, except for payloads that are a multiple of MAX_PACKET_LENGTH.
THEOREM WritesReadBack == Spec => []WriteReadBack
  BY AllReadBack, PTL
=============================================================================
