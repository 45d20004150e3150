--------------------------- MODULE ExchangeProofs ---------------------------
(* Proofs about Exchange, for every value of its constants.  Of the results:  *)
(* a result set is read with the parser that its own columns and options      *)
(* compile to, the cached offsets are those of new Date(), and both caches    *)
(* stay within their limits.  Of the requests: one is refused just when its   *)
(* parameters give cause, and the server finds in one what was given for it.  *)
(*                                                                            *)
(* The argument about the parsers: every entry of the cache is the parser of  *)
(* some query under the key of that query (CacheInv), two queries with the    *)
(* same key compile to the same parser (KeyDetermines), hence a hit is what   *)
(* the query would be compiled to (GotParser).  The argument about the        *)
(* offsets: a reader makes a local time only where its call has the time zone *)
(* "local" (ReadLocal), a parser with such a call checks the time zone        *)
(* (StepsRead), and the time zone does not change while it reads (ZoneInv),   *)
(* so that an offset is only ever added for the time zone last checked for    *)
(* (NextFits).  What next() computes is a recurrence over the columns, what   *)
(* the readers compute one over the bytes: that such functions exist and      *)
(* what holds of all their values follows from UpTo.                          *)
(*                                                                            *)
(* The argument about the requests: a piece Sits in a packet where the pieces *)
(* before it end.  What is written of a value by the encoder of its type is   *)
(* read from wherever it sits as what was meant (Reads, EncoderEncodes), so   *)
(* that toParameter() makes of a value, whatever its hint, a parameter that   *)
(* Carries it (ParameterCarries).  The bits, the types with their names and   *)
(* the values sit one after the other (Laid); the server, which goes over     *)
(* them once for the types and once for the values, is at the start of each   *)
(* one when it comes to it (ServerRead).  The lengths that were counted are   *)
(* theirs (LengthsAdd), and the pieces around them are fixed (EightPieces).   *)
EXTENDS Exchange, WellFoundedInduction, SequenceTheorems, FiniteSetTheorems, TLAPS

LEMMA Least == ASSUME NEW T, T \subseteq Nat, T # {} PROVE \E n \in T : \A m \in T : n <= m
<1> DEFINE R == {ss \in Nat \X Nat : ss[1] < ss[2]}
<1>1. IsWellFoundedOn(R, Nat)
  BY NatLessThanWellFounded DEF OpToRel
<1> HIDE DEF R
<1>2. PICK n \in T : \A m \in T : ~(<<m, n>> \in R)
  BY <1>1, WFMin
<1>3. \A m \in T : n <= m
  <2> SUFFICES ASSUME NEW m \in T, m < n PROVE FALSE
    OBVIOUS
  <2>1. <<m, n>> \in R
    BY DEF R
  <2> QED
    BY <1>2, <2>1
<1> QED
  BY <1>3

LEMMA UpTo ==
    ASSUME NEW N \in Nat, NEW S, 0 \in S, \A n \in 1 .. N : n - 1 \in S => n \in S
    PROVE  0 .. N \subseteq S
<1> DEFINE T == (0 .. N) \ S
<1> SUFFICES ASSUME T # {} PROVE FALSE
  OBVIOUS
<1>1. PICK n \in T : \A m \in T : n <= m
  <2>1. T \subseteq Nat
    OBVIOUS
  <2> HIDE DEF T
  <2> QED
    BY <2>1, Least
<1>2. n \in 1 .. N /\ n - 1 \in 0 .. N
  OBVIOUS
<1>3. n - 1 \notin T
  BY <1>1, <1>2
<1> QED
  BY <1>2, <1>3

\* A function may be defined by what it makes of its value one number earlier.
Recurrence(N, X, a, G) == N \in Nat /\ a \in X /\ G \in [(1 .. N) \X X -> X]
Solves(f, N, X, a, G) ==
    f \in [0 .. N -> X] /\ f[0] = a /\ \A n \in 1 .. N : f[n] = G[<<n, f[n - 1]>>]

LEMMA Recursion ==
    ASSUME NEW N, NEW X, NEW a, NEW G, Recurrence(N, X, a, G)
    PROVE  \E f : Solves(f, N, X, a, G)
<1>0. N \in Nat /\ a \in X /\ G \in [(1 .. N) \X X -> X]
  BY DEF Recurrence
<1> DEFINE Approx(k, f) == /\ f \in [0 .. k -> X] /\ f[0] = a
                           /\ \A n \in 1 .. k : f[n] = G[<<n, f[n - 1]>>]
           S == {k \in 0 .. N : \E f \in [0 .. k -> X] : Approx(k, f)}
<1>1. 0 \in S
  <2> DEFINE f == [n \in 0 .. 0 |-> a]
  <2>1. f \in [0 .. 0 -> X] /\ Approx(0, f) /\ 0 \in 0 .. N
    BY <1>0
  <2> HIDE DEF f, Approx
  <2> QED
    BY <2>1
<1>2. ASSUME NEW k \in 1 .. N, k - 1 \in S PROVE k \in S
  <2>1. PICK f \in [0 .. k - 1 -> X] : Approx(k - 1, f)
    BY <1>2
  <2> DEFINE g == [n \in 0 .. k |-> IF n = k THEN G[<<n, f[n - 1]>>] ELSE f[n]]
  <2>2. k - 1 \in 0 .. k - 1 /\ f[k - 1] \in X
    BY <1>0
  <2>3. G[<<k, f[k - 1]>>] \in X
    BY <1>0, <2>2
  <2>4. g \in [0 .. k -> X]
    <3> SUFFICES ASSUME NEW n \in 0 .. k PROVE (IF n = k THEN G[<<n, f[n - 1]>>] ELSE f[n]) \in X
      OBVIOUS
    <3>1. n # k => n \in 0 .. k - 1
      BY <1>0
    <3> QED
      BY <2>3, <3>1
  <2>5. g[0] = a
    BY <1>0, <2>1
  <2>6. ASSUME NEW n \in 1 .. k PROVE g[n] = G[<<n, g[n - 1]>>]
    <3>1. n - 1 \in 0 .. k /\ n - 1 # k /\ n \in 0 .. k
      BY <1>0
    <3>4. g[n - 1] = f[n - 1]
      BY <3>1
    <3>2. CASE n = k
      <4>1. g[n] = G[<<n, f[n - 1]>>]
        BY <3>1, <3>2
      <4> HIDE DEF g
      <4> QED
        BY <3>4, <4>1
    <3>3. CASE n # k
      <4>1. n \in 1 .. k - 1 /\ g[n] = f[n]
        BY <1>0, <3>3
      <4> QED
        BY <2>1, <3>4, <4>1
    <3> QED
      BY <3>2, <3>3
  <2> HIDE DEF g
  <2> QED
    BY <2>4, <2>5, <2>6
<1>3. N \in S
  <2> HIDE DEF S
  <2>1. 0 .. N \subseteq S
    BY <1>0, <1>1, <1>2, UpTo
  <2> QED
    BY <1>0, <2>1
<1> QED
  BY <1>3 DEF Solves

Pos == Nat \ {0}

\* The steps in which Natural() reads the digits.
LEMMA NaturalSteps ==
    ASSUME NEW s \in Seq(Nat)
    PROVE  \E h \in [0 .. Len(s) -> Int] :
              h[0] = 0 /\ (\A n \in 1 .. Len(s) : h[n] = 10 * h[n - 1] + s[n]) /\ Natural(s) = h[Len(s)]
<1> DEFINE N == Len(s)
           G == [u \in (1 .. N) \X Int |-> 10 * u[2] + s[u[1]]]
           Body0(g) == [i \in 0 .. N |-> IF i = 0 THEN 0 ELSE 10 * g[i - 1] + s[i]]
           h == CHOOSE g : g = Body0(g)
<1>1. N \in Nat /\ \A i \in 1 .. N : s[i] \in Nat
  OBVIOUS
<1>2. \E g : g = Body0(g)
  <2>1. G \in [(1 .. N) \X Int -> Int]
    BY <1>1
  <2>2. PICK f : Solves(f, N, Int, 0, G)
    <3> HIDE DEF G, N
    <3>1. Recurrence(N, Int, 0, G)
      BY <1>1, <2>1 DEF Recurrence
    <3> QED
      BY <3>1, Recursion
  <2>3. f \in [0 .. N -> Int] /\ f[0] = 0 /\ \A n \in 1 .. N : f[n] = G[<<n, f[n - 1]>>]
    BY <2>2 DEF Solves
  <2>4. ASSUME NEW n \in 1 .. N PROVE f[n] = 10 * f[n - 1] + s[n]
    <3>1. n - 1 \in 0 .. N /\ f[n - 1] \in Int
      BY <1>1, <2>3
    <3>2. <<n, f[n - 1]>> \in (1 .. N) \X Int
      BY <3>1
    <3> QED
      BY <2>3, <3>2
  <2>5. f = Body0(f)
    <3>1. \A i \in 0 .. N : i # 0 => i \in 1 .. N
      BY <1>1
    <3> HIDE DEF G, N
    <3> QED
      BY <2>3, <2>4, <3>1
  <2> QED
    BY <2>5
<1>3. h = Body0(h)
  BY <1>2
<1>4. 0 .. N \subseteq {i \in 0 .. N : h[i] \in Int}
  <2> DEFINE S == {i \in 0 .. N : h[i] \in Int}
  <2> HIDE DEF h
  <2>1. 0 \in S
    BY <1>1, <1>3
  <2>2. ASSUME NEW n \in 1 .. N, n - 1 \in S PROVE n \in S
    <3>1. n \in 0 .. N /\ n # 0
      BY <1>1
    <3>2. h[n] = 10 * h[n - 1] + s[n]
      BY <1>3, <3>1
    <3> QED
      BY <1>1, <2>2, <3>1, <3>2
  <2>3. 0 .. N \subseteq S
    <3> HIDE DEF S
    <3> QED
      BY <1>1, <2>1, <2>2, UpTo
  <2> QED
    BY <2>3
<1>5. Natural(s) = h[N]
  BY DEF Natural
<1>6. h[0] = 0 /\ \A n \in 1 .. N : h[n] = 10 * h[n - 1] + s[n]
  <2> HIDE DEF h
  <2>1. \A n \in 1 .. N : n \in 0 .. N /\ n # 0
    BY <1>1
  <2>2. 0 \in 0 .. N
    BY <1>1
  <2> QED
    BY <1>3, <2>1, <2>2
<1>7. h \in [0 .. N -> Int]
  <2>1. DOMAIN h = 0 .. N /\ h = [i \in 0 .. N |-> h[i]]
    <3> HIDE DEF h
    <3> QED
      BY <1>3
  <2> HIDE DEF h
  <2> QED
    BY <1>4, <2>1
<1> QED
  <2> HIDE DEF h
  <2> QED
    BY <1>5, <1>6, <1>7

LEMMA NaturalInt == ASSUME NEW s \in Seq(Nat) PROVE Natural(s) \in Int
<1>1. Len(s) \in 0 .. Len(s)
  OBVIOUS
<1> QED
  BY <1>1, NaturalSteps

\* Two digits.
LEMMA TwoDigits ==
    ASSUME NEW s \in Seq(Nat), NEW i \in Pos, i + 1 <= Len(s)
    PROVE  Natural(SubSeq(s, i, i + 1)) = 10 * s[i] + s[i + 1]
<1> DEFINE t == SubSeq(s, i, i + 1)
<1>1. t \in Seq(Nat) /\ Len(t) = 2 /\ t[1] = s[i] /\ t[2] = s[i + 1] /\ s[i] \in Nat /\ s[i + 1] \in Nat
  BY DEF Pos
<1> HIDE DEF t
<1>2. PICK h \in [0 .. Len(t) -> Int] :
        h[0] = 0 /\ (\A n \in 1 .. Len(t) : h[n] = 10 * h[n - 1] + t[n]) /\ Natural(t) = h[Len(t)]
  BY <1>1, NaturalSteps
<1>3. h[1] = 10 * h[0] + t[1] /\ h[2] = 10 * h[1] + t[2]
  <2>1. 1 \in 1 .. Len(t) /\ 2 \in 1 .. Len(t) /\ 1 - 1 = 0 /\ 2 - 1 = 1
    BY <1>1
  <2> QED
    BY <1>2, <2>1
<1>4. h[1] = t[1] /\ Natural(t) = h[2]
  BY <1>1, <1>2, <1>3
<1>5. Natural(t) = 10 * t[1] + t[2]
  BY <1>3, <1>4
<1> QED
  BY <1>1, <1>5 DEF t

-----------------------------------------------------------------------------
\* The cache of parsers.  An entry is compared by its key, and the key says
\* all that the parser is compiled from.

Cols(q) == Tables[q.table].cols
Options(q) == queryOptions(Config[q.conn], q.over)
Key(q) == Entry(q.proto, Cols(q), Options(q), Config[q.conn])
Compiled(q) == compile(q.proto, Cols(q), globalTypeCast(Options(q), Config[q.conn]), Config[q.conn])

\* decimalNumbers is taken from the options of the query for the key and from
\* those of the connection for the code, and a typeCast function of the
\* connection replaces what the query says only where a parser is compiled:
\* no query overrides either.
OwnOptions ==
    \A q \in Queries :
        /\ Options(q).decimalNumbers = Config[q.conn].decimalNumbers
        /\ globalTypeCast(Options(q), Config[q.conn]) = Options(q)

\* What of a column is compared.
Same(f, g) ==
    /\ f.name = g.name /\ f.type = g.type /\ f.charset = g.charset /\ f.unsigned = g.unsigned
    /\ f.decimals = g.decimals /\ f.format = g.format

LEMMA ReaderSame ==
    ASSUME NEW f, NEW g, Same(f, g), NEW o, NEW p, NEW c, NEW d,
           supportBigNumbers(o, c) = supportBigNumbers(p, d),
           bigNumberStrings(o, c) = bigNumberStrings(p, d),
           dateStrings(o, c) = dateStrings(p, d),
           o.timezone = p.timezone, c.jsonStrings = d.jsonStrings, c.decimalNumbers = d.decimalNumbers
    PROVE  /\ TextReader(f, o, c) = TextReader(g, p, d)
           /\ BinaryReader(f, o, c) = BinaryReader(g, p, d)
           /\ usesLocalDate(f, o, c) = usesLocalDate(g, p, d)
<1>1. /\ f.type = g.type /\ f.format = g.format /\ f.unsigned = g.unsigned /\ f.decimals = g.decimals
      /\ JsonReader(c) = JsonReader(d) /\ StringReader(f) = StringReader(g)
  BY DEF Same, JsonReader, StringReader
<1>2. usesLocalDate(f, o, c) = usesLocalDate(g, p, d)
  BY <1>1 DEF usesLocalDate
<1>3. TextReader(f, o, c) = TextReader(g, p, d)
  BY <1>1 DEF TextReader
<1>4. BinaryReader(f, o, c) = BinaryReader(g, p, d)
  <2>1. IntReader(f) = IntReader(g)
    BY <1>1 DEF IntReader
  <2>2. \A b, s : BigIntReader(f, b, s) = BigIntReader(g, b, s)
    BY <1>1 DEF BigIntReader
  <2> QED
    BY <1>1, <2>1, <2>2 DEF BinaryReader
<1> QED
  BY <1>2, <1>3, <1>4

LEMMA PlaceSame ==
    ASSUME NEW f, NEW g, NEW o, NEW p, NEW i,
           o.nestTables = p.nestTables, o.rowsAsArray = p.rowsAsArray,
           Same(f, g), o.nestTables # "no" => f.table = g.table
    PROVE  TextPlace(o, f, i) = TextPlace(p, g, i) /\ BinaryPlace(o, f, i) = BinaryPlace(p, g, i)
<1>1. NestedSlot(o, f) = NestedSlot(p, g)
  BY DEF NestedSlot, Same
<1> QED
  BY <1>1 DEF TextPlace, BinaryPlace

LEMMA Columned == ASSUME NEW q \in Queries
                  PROVE  /\ Cols(q) \in Seq(Columns) /\ Len(Cols(q)) \in Nat
                         /\ DOMAIN Cols(q) = 1 .. Len(Cols(q))
                         /\ \A i \in DOMAIN Cols(q) : Cols(q)[i] \in Columns
<1>1. Cols(q) \in Seq(Columns)
  BY RowsAssumption DEF Cols
<1> QED
  BY <1>1

LEMMA ColumnSame ==
    ASSUME NEW f \in Columns, NEW g \in Columns, NEW nest,
           (IF nest = "no" THEN [f EXCEPT !.table = ""] ELSE f)
             = (IF nest = "no" THEN [g EXCEPT !.table = ""] ELSE g)
    PROVE  Same(f, g) /\ (nest # "no" => f.table = g.table)
<1>1. CASE nest = "no"
  <2> DEFINE F == [f EXCEPT !.table = ""]
             G == [g EXCEPT !.table = ""]
  <2>1. /\ F.name = f.name /\ F.type = f.type /\ F.charset = f.charset /\ F.unsigned = f.unsigned
        /\ F.decimals = f.decimals /\ F.format = f.format
    BY DEF Columns
  <2>2. /\ G.name = g.name /\ G.type = g.type /\ G.charset = g.charset /\ G.unsigned = g.unsigned
        /\ G.decimals = g.decimals /\ G.format = g.format
    BY DEF Columns
  <2>3. F = G
    BY <1>1
  <2> HIDE DEF F, G
  <2> QED
    BY <1>1, <2>1, <2>2, <2>3 DEF Same
<1>2. CASE nest # "no"
  BY <1>2 DEF Same
<1> QED
  BY <1>1, <1>2

\* Queries with the same key have the same parser.
LEMMA KeyDetermines ==
    ASSUME OwnOptions, NEW q \in Queries, NEW r \in Queries, Key(q) = Key(r)
    PROVE  Compiled(q) = Compiled(r)
<1> DEFINE f == Cols(q)
           g == Cols(r)
           o == Options(q)
           p == Options(r)
           c == Config[q.conn]
           d == Config[r.conn]
           ff == [i \in DOMAIN f |-> IF o.nestTables = "no" THEN [f[i] EXCEPT !.table = ""] ELSE f[i]]
           gg == [i \in DOMAIN g |-> IF p.nestTables = "no" THEN [g[i] EXCEPT !.table = ""] ELSE g[i]]
<1>1. /\ Key(q).bits = optionBits(q.proto, o, c) /\ Key(q).timezone = o.timezone /\ Key(q).fields = ff
      /\ Key(r).bits = optionBits(r.proto, p, d) /\ Key(r).timezone = p.timezone /\ Key(r).fields = gg
  <2> HIDE DEF f, g, o, p, c, d
  <2>1. Entry(q.proto, f, o, c) = [bits |-> optionBits(q.proto, o, c), timezone |-> o.timezone, fields |-> ff]
    BY DEF Entry
  <2>2. Entry(r.proto, g, p, d) = [bits |-> optionBits(r.proto, p, d), timezone |-> p.timezone, fields |-> gg]
    BY DEF Entry
  <2>3. Key(q) = Entry(q.proto, f, o, c) /\ Key(r) = Entry(r.proto, g, p, d)
    BY DEF Key, f, g, o, p, c, d
  <2> HIDE DEF ff, gg
  <2>4. Key(q) = [bits |-> optionBits(q.proto, o, c), timezone |-> o.timezone, fields |-> ff]
    BY <2>1, <2>3
  <2>5. Key(r) = [bits |-> optionBits(r.proto, p, d), timezone |-> p.timezone, fields |-> gg]
    BY <2>2, <2>3
  <2>6. Key(q).bits = optionBits(q.proto, o, c) /\ Key(q).timezone = o.timezone /\ Key(q).fields = ff
    BY <2>4
  <2>7. Key(r).bits = optionBits(r.proto, p, d) /\ Key(r).timezone = p.timezone /\ Key(r).fields = gg
    BY <2>5
  <2> QED
    BY <2>6, <2>7
<1>2. /\ o.decimalNumbers = c.decimalNumbers /\ p.decimalNumbers = d.decimalNumbers
      /\ globalTypeCast(o, c) = o /\ globalTypeCast(p, d) = p
  BY DEF OwnOptions
<1>3. Compiled(q) = compile(q.proto, f, o, c) /\ Compiled(r) = compile(r.proto, g, p, d)
  BY <1>2 DEF Compiled
<1>4. /\ DOMAIN f = 1 .. Len(f) /\ \A i \in DOMAIN f : f[i] \in Columns
      /\ DOMAIN g = 1 .. Len(g) /\ \A i \in DOMAIN g : g[i] \in Columns
  BY Columned
<1> HIDE DEF f, g, o, p, c, d
<1>5. optionBits(q.proto, o, c) = optionBits(r.proto, p, d) /\ o.timezone = p.timezone /\ ff = gg
  <2> HIDE DEF ff, gg
  <2> QED
    BY <1>1
<1>6. /\ q.proto = r.proto /\ o.rowsAsArray = p.rowsAsArray
      /\ supportBigNumbers(o, c) = supportBigNumbers(p, d)
      /\ bigNumberStrings(o, c) = bigNumberStrings(p, d)
      /\ typeCastKind(o.typeCast) = typeCastKind(p.typeCast)
      /\ o.decimalNumbers = p.decimalNumbers /\ c.jsonStrings = d.jsonStrings
      /\ o.nestTables = p.nestTables /\ dateStrings(o, c) = dateStrings(p, d)
  <2>1. /\ optionBits(q.proto, o, c).proto = q.proto
        /\ optionBits(q.proto, o, c).rowsAsArray = o.rowsAsArray
        /\ optionBits(q.proto, o, c).supportBigNumbers = supportBigNumbers(o, c)
        /\ optionBits(q.proto, o, c).bigNumberStrings = bigNumberStrings(o, c)
        /\ optionBits(q.proto, o, c).typeCast = typeCastKind(o.typeCast)
        /\ optionBits(q.proto, o, c).decimalNumbers = o.decimalNumbers
        /\ optionBits(q.proto, o, c).jsonStrings = c.jsonStrings
        /\ optionBits(q.proto, o, c).nestTables = o.nestTables
        /\ optionBits(q.proto, o, c).dateStrings = dateStrings(o, c)
    BY DEF optionBits
  <2>2. /\ optionBits(r.proto, p, d).proto = r.proto
        /\ optionBits(r.proto, p, d).rowsAsArray = p.rowsAsArray
        /\ optionBits(r.proto, p, d).supportBigNumbers = supportBigNumbers(p, d)
        /\ optionBits(r.proto, p, d).bigNumberStrings = bigNumberStrings(p, d)
        /\ optionBits(r.proto, p, d).typeCast = typeCastKind(p.typeCast)
        /\ optionBits(r.proto, p, d).decimalNumbers = p.decimalNumbers
        /\ optionBits(r.proto, p, d).jsonStrings = d.jsonStrings
        /\ optionBits(r.proto, p, d).nestTables = p.nestTables
        /\ optionBits(r.proto, p, d).dateStrings = dateStrings(p, d)
    BY DEF optionBits
  <2> QED
    BY <1>5, <2>1, <2>2
<1>7. DOMAIN f = DOMAIN g
  <2>1. DOMAIN ff = DOMAIN f /\ DOMAIN gg = DOMAIN g
    OBVIOUS
  <2> HIDE DEF ff, gg
  <2> QED
    BY <1>5, <2>1
<1>8. ASSUME NEW i \in DOMAIN f
      PROVE  /\ Same(f[i], g[i]) /\ (o.nestTables # "no" => f[i].table = g[i].table)
             /\ TextPlace(o, f[i], i) = TextPlace(p, g[i], i)
             /\ BinaryPlace(o, f[i], i) = BinaryPlace(p, g[i], i)
             /\ TextReader(f[i], o, c) = TextReader(g[i], p, d)
             /\ BinaryReader(f[i], o, c) = BinaryReader(g[i], p, d)
             /\ usesLocalDate(f[i], o, c) = usesLocalDate(g[i], p, d)
  <2>1. ff[i] = gg[i]
    BY <1>5
  <2>2. ff[i] = IF o.nestTables = "no" THEN [f[i] EXCEPT !.table = ""] ELSE f[i]
    OBVIOUS
  <2>3. gg[i] = IF o.nestTables = "no" THEN [g[i] EXCEPT !.table = ""] ELSE g[i]
    BY <1>6, <1>7
  <2> HIDE DEF ff, gg
  <2>4. f[i] \in Columns /\ g[i] \in Columns
    BY <1>4, <1>7
  <2>5. Same(f[i], g[i]) /\ (o.nestTables # "no" => f[i].table = g[i].table)
    <3> DEFINE x == f[i]
               y == g[i]
               nest == o.nestTables
    <3>1. (IF nest = "no" THEN [x EXCEPT !.table = ""] ELSE x)
            = (IF nest = "no" THEN [y EXCEPT !.table = ""] ELSE y)
      BY <2>1, <2>2, <2>3
    <3>2. x \in Columns /\ y \in Columns
      BY <2>4
    <3> HIDE DEF x, y, nest
    <3>3. Same(x, y) /\ (nest # "no" => x.table = y.table)
      BY <3>1, <3>2, ColumnSame
    <3> QED
      BY <3>3 DEF x, y, nest
  <2>7. c.decimalNumbers = d.decimalNumbers
    BY <1>2, <1>6
  <2>8. /\ TextPlace(o, f[i], i) = TextPlace(p, g[i], i)
        /\ BinaryPlace(o, f[i], i) = BinaryPlace(p, g[i], i)
    BY <1>6, <2>5, PlaceSame
  <2>9. o.timezone = p.timezone
    BY <1>5
  <2>10. /\ TextReader(f[i], o, c) = TextReader(g[i], p, d)
         /\ BinaryReader(f[i], o, c) = BinaryReader(g[i], p, d)
         /\ usesLocalDate(f[i], o, c) = usesLocalDate(g[i], p, d)
    BY <1>6, <2>5, <2>7, <2>9, ReaderSame
  <2> QED
    BY <2>5, <2>8, <2>10
<1> HIDE DEF ff, gg
<1>9. (\E i \in DOMAIN f : usesLocalDate(f[i], o, c)) <=> (\E i \in DOMAIN g : usesLocalDate(g[i], p, d))
  BY <1>7, <1>8
<1>10. compileText(f, o, c) = compileText(g, p, d)
  <2> DEFINE s == [i \in DOMAIN f |->
                     [place |-> TextPlace(o, f[i], i), kind |-> typeCastKind(o.typeCast),
                      read |-> IF o.typeCast = "false" THEN Call("readLengthCodedBuffer")
                               ELSE TextReader(f[i], o, c)]]
             t == [i \in DOMAIN g |->
                     [place |-> TextPlace(p, g[i], i), kind |-> typeCastKind(p.typeCast),
                      read |-> IF p.typeCast = "false" THEN Call("readLengthCodedBuffer")
                               ELSE TextReader(g[i], p, d)]]
  <2>1. o.typeCast = "false" <=> p.typeCast = "false"
    BY <1>6 DEF typeCastKind, IsFunction, Functions
  <2>2. s = t
    BY <1>6, <1>7, <1>8, <2>1
  <2> HIDE DEF s, t
  <2>3. /\ compileText(f, o, c) = [proto |-> "text", checksTimezone |-> \E i \in DOMAIN f : usesLocalDate(f[i], o, c), steps |-> s]
        /\ compileText(g, p, d) = [proto |-> "text", checksTimezone |-> \E i \in DOMAIN g : usesLocalDate(g[i], p, d), steps |-> t]
    BY DEF compileText, Program, s, t
  <2> QED
    BY <1>9, <2>2, <2>3
<1>11. compileBinary(f, o, c) = compileBinary(g, p, d)
  <2> DEFINE s == [i \in DOMAIN f |->
                     [place |-> BinaryPlace(o, f[i], i), kind |-> typeCastKind(o.typeCast),
                      read |-> IF o.typeCast = "false" THEN Call("readLengthCodedBuffer")
                               ELSE BinaryReader(f[i], o, c)]]
             t == [i \in DOMAIN g |->
                     [place |-> BinaryPlace(p, g[i], i), kind |-> typeCastKind(p.typeCast),
                      read |-> IF p.typeCast = "false" THEN Call("readLengthCodedBuffer")
                               ELSE BinaryReader(g[i], p, d)]]
  <2>1. o.typeCast = "false" <=> p.typeCast = "false"
    BY <1>6 DEF typeCastKind, IsFunction, Functions
  <2>2. s = t
    BY <1>6, <1>7, <1>8, <2>1
  <2> HIDE DEF s, t
  <2>3. /\ compileBinary(f, o, c) = [proto |-> "binary", checksTimezone |-> \E i \in DOMAIN f : usesLocalDate(f[i], o, c), steps |-> s]
        /\ compileBinary(g, p, d) = [proto |-> "binary", checksTimezone |-> \E i \in DOMAIN g : usesLocalDate(g[i], p, d), steps |-> t]
    BY DEF compileBinary, Program, s, t
  <2> QED
    BY <1>9, <2>2, <2>3
<1> QED
  BY <1>3, <1>6, <1>10, <1>11 DEF compile

-----------------------------------------------------------------------------
\* The result sets that are being read.

Static(q) == staticParser(q.proto, Cols(q), Options(q), Config[q.conn])
Result(q) == [query |-> q, parser |-> IF q.static THEN Static(q) ELSE Compiled(q), options |-> Options(q)]

Entries == {[key |-> Key(q), parser |-> Compiled(q)] : q \in Queries}
Buckets == [hash : {"false", "function", "default"}, entries : Seq(Entries)]

CacheInv == parserCache \in Seq(Buckets) /\ parserMax \in Nat

OpenInv ==
    /\ open = [c \in Conns |-> open[c]]
    /\ \A c \in Conns : open[c] = <<>> \/ \E q \in Queries : q.conn = c /\ open[c] = <<Result(q)>>

LEMMA BucketPlace ==
    ASSUME NEW hash, parserCache \in Seq(Buckets)
    PROVE  Bucket(hash) \in 0 .. Len(parserCache)
<1> DEFINE I == {i \in 1 .. Len(parserCache) : parserCache[i].hash = hash}
<1>1. Bucket(hash) = IF I # {} THEN Min(I) ELSE 0
  BY DEF Bucket, SelectInSeq
<1>2. I \subseteq 1 .. Len(parserCache) /\ Len(parserCache) \in Nat
  OBVIOUS
<1> HIDE DEF I
<1>3. CASE I # {}
  <2>1. I \subseteq Nat
    BY <1>2
  <2>2. \E x \in I : \A y \in I : x <= y
    BY <1>3, <2>1, Least
  <2>3. Min(I) \in I
    BY <2>2 DEF Min
  <2>4. Min(I) \in 1 .. Len(parserCache)
    BY <1>2, <2>3
  <2>5. Min(I) \in 0 .. Len(parserCache)
    BY <1>2, <2>4
  <2>6. Bucket(hash) = Min(I)
    BY <1>1, <1>3
  <2> QED
    BY <2>5, <2>6
<1> QED
  BY <1>1, <1>2, <1>3

LEMMA HitPlace ==
    ASSUME NEW entries \in Seq(Entries), NEW key, Hit(entries, key) # 0
    PROVE  Hit(entries, key) \in 1 .. Len(entries) /\ entries[Hit(entries, key)].key = key
<1> DEFINE I == {i \in 1 .. Len(entries) : entries[i].key = key}
<1>1. Hit(entries, key) = Min(I) /\ I # {}
  BY DEF Hit, SelectInSeq
<1>2. I \subseteq Nat
  OBVIOUS
<1>3. Min(I) \in I
  <2> HIDE DEF I
  <2>1. \E x \in I : \A y \in I : x <= y
    BY <1>1, <1>2, Least
  <2> QED
    BY <2>1 DEF Min
<1> QED
  BY <1>1, <1>3

LEMMA KeepTyped == ASSUME NEW T, NEW s \in Seq(T), NEW max \in Nat PROVE Keep(s, max) \in Seq(T)
<1>1. Len(s) \in Nat
  OBVIOUS
<1>2. \A i \in Len(s) - max + 1 .. Len(s) : Len(s) > max => s[i] \in T
  OBVIOUS
<1>3. Len(s) > max => SubSeq(s, Len(s) - max + 1, Len(s)) \in Seq(T)
  BY <1>1, <1>2
<1> QED
  BY <1>3 DEF Keep

LEMMA UsedTyped ==
    ASSUME CacheInv, NEW hash \in {"false", "function", "default"}, NEW entries \in Seq(Entries)
    PROVE  Used(hash, entries) \in Seq(Buckets)
<1> DEFINE k == Bucket(hash)
           others == IF k = 0 THEN parserCache ELSE RemoveAt(parserCache, k)
           b == [hash |-> hash, entries |-> entries]
<1>0. parserCache \in Seq(Buckets) /\ parserMax \in Nat
  BY DEF CacheInv
<1>1. k \in 0 .. Len(parserCache)
  BY <1>0, BucketPlace
<1> HIDE DEF k
<1>2. others \in Seq(Buckets)
  <2>1. CASE k = 0
    BY <1>0, <2>1
  <2>2. CASE k # 0
    <3>1. /\ SubSeq(parserCache, 1, k - 1) \in Seq(Buckets)
          /\ SubSeq(parserCache, k + 1, Len(parserCache)) \in Seq(Buckets)
      <4>1. Len(parserCache) \in Nat /\ k \in Nat
        BY <1>0, <1>1
      <4> QED
        BY <1>0, <1>1, <2>2, <4>1
    <3>2. RemoveAt(parserCache, k) = SubSeq(parserCache, 1, k - 1)
                                       \o SubSeq(parserCache, k + 1, Len(parserCache))
      BY DEF RemoveAt
    <3>3. RemoveAt(parserCache, k) \in Seq(Buckets)
      BY <3>1, <3>2, ConcatProperties
    <3> QED
      BY <2>2, <3>3
  <2> QED
    BY <2>1, <2>2
<1>3. b \in Buckets
  BY DEF Buckets
<1> HIDE DEF others, b
<1>4. Append(others, b) \in Seq(Buckets)
  BY <1>2, <1>3
<1>5. Keep(Append(others, b), parserMax) \in Seq(Buckets)
  BY <1>0, <1>4, KeepTyped
<1> QED
  BY <1>5 DEF Used, others, b, k

\* What a result set gets from the cache is what it would be compiled to.
LEMMA GotParser ==
    ASSUME OwnOptions, CacheInv, NEW q \in Queries
    PROVE  LET got == getParser(q.proto, Cols(q), Options(q), Config[q.conn])
           IN  /\ got.parser = Compiled(q) /\ got.options = Options(q) /\ got.cache \in Seq(Buckets)
               /\ \E hash \in {"false", "function", "default"}, entries \in Seq(Entries) :
                     got.cache = Used(hash, entries)
<1> DEFINE c == Config[q.conn]
           hash == hashKey(q.proto, Cols(q), Options(q), c)
           entries == IF Bucket(hash) = 0 THEN <<>> ELSE parserCache[Bucket(hash)].entries
           hit == Hit(entries, Key(q))
           entry == [key |-> Key(q), parser |-> Compiled(q)]
           got == getParser(q.proto, Cols(q), Options(q), c)
<1>1. globalTypeCast(Options(q), c) = Options(q)
  BY DEF OwnOptions
<1>2. hash \in {"false", "function", "default"}
  BY DEF hashKey, typeCastKind
<1>3. entry \in Entries
  BY DEF Entries
<1>4. got = IF hit # 0
            THEN [parser |-> entries[hit].parser, options |-> Options(q), cache |-> Used(hash, entries)]
            ELSE [parser |-> Compiled(q), options |-> Options(q),
                  cache |-> Used(hash, Append(entries, entry))]
  BY <1>1 DEF getParser, Key, Compiled
<1> HIDE DEF hash, entry
<1>5. entries \in Seq(Entries)
  <2>0. parserCache \in Seq(Buckets)
    BY DEF CacheInv
  <2>1. Bucket(hash) \in 0 .. Len(parserCache)
    BY <2>0, BucketPlace
  <2>2. ASSUME Bucket(hash) # 0 PROVE parserCache[Bucket(hash)] \in Buckets
    <3>1. Bucket(hash) \in 1 .. Len(parserCache)
      BY <2>0, <2>1, <2>2
    <3> QED
      BY <2>0, <3>1
  <2>3. Bucket(hash) # 0 => parserCache[Bucket(hash)].entries \in Seq(Entries)
    BY <2>2 DEF Buckets
  <2> QED
    BY <2>3
<1> HIDE DEF entries, got
<1>6. CASE hit # 0
  <2>1. hit \in 1 .. Len(entries) /\ entries[hit].key = Key(q)
    BY <1>5, <1>6, HitPlace
  <2>2. entries[hit] \in Entries
    BY <1>5, <2>1
  <2>3. PICK r \in Queries : entries[hit] = [key |-> Key(r), parser |-> Compiled(r)]
    BY <2>2 DEF Entries
  <2>4. Key(r) = Key(q) /\ entries[hit].parser = Compiled(r)
    BY <2>1, <2>3
  <2>5. entries[hit].parser = Compiled(q)
    BY <2>4, KeyDetermines
  <2>6. Used(hash, entries) \in Seq(Buckets)
    BY <1>2, <1>5, UsedTyped
  <2> HIDE DEF hit
  <2> QED
    BY <1>2, <1>4, <1>5, <1>6, <2>5, <2>6 DEF got
<1>7. CASE hit = 0
  <2>1. Append(entries, entry) \in Seq(Entries)
    BY <1>3, <1>5
  <2>2. Used(hash, Append(entries, entry)) \in Seq(Buckets)
    BY <1>2, <2>1, UsedTyped
  <2> HIDE DEF hit
  <2>3. /\ got.parser = Compiled(q) /\ got.options = Options(q)
        /\ got.cache = Used(hash, Append(entries, entry))
    BY <1>4, <1>7 DEF got
  <2>4. got.cache \in Seq(Buckets)
    BY <2>2, <2>3
  <2>5. \E h \in {"false", "function", "default"}, e \in Seq(Entries) : got.cache = Used(h, e)
    BY <1>2, <2>1, <2>3
  <2> QED
    BY <2>3, <2>4, <2>5 DEF got
<1> QED
  BY <1>6, <1>7

-----------------------------------------------------------------------------
\* Every step keeps what is in the cache and what is being read.

LEMMA StartKeeps ==
    ASSUME OwnOptions, CacheInv, OpenInv, NEW q \in Queries, StartResult(q)
    PROVE  CacheInv' /\ OpenInv'
<1> DEFINE c == Config[q.conn]
           got == IF q.static
                  THEN [parser |-> staticParser(q.proto, Cols(q), Options(q), c),
                        options |-> Options(q), cache |-> parserCache]
                  ELSE getParser(q.proto, Cols(q), Options(q), c)
<1>1. /\ parserCache' = got.cache /\ parserMax' = parserMax
      /\ open' = [open EXCEPT ![q.conn] = <<[query |-> q, parser |-> got.parser, options |-> got.options]>>]
  BY DEF StartResult, Options, Cols
<1>2. got.parser = Result(q).parser /\ got.options = Options(q) /\ got.cache \in Seq(Buckets)
  <2>1. CASE q.static
    BY <2>1 DEF Result, Static, CacheInv
  <2>2. CASE ~q.static
    BY <2>2, GotParser DEF Result
  <2> QED
    BY <2>1, <2>2
<1> HIDE DEF got
<1>3. CacheInv'
  BY <1>1, <1>2 DEF CacheInv
<1>4. q.conn \in Conns
  BY RowsAssumption
<1>5. <<[query |-> q, parser |-> got.parser, options |-> got.options]>> = <<Result(q)>>
  BY <1>2 DEF Result
<1>6. open' = [open EXCEPT ![q.conn] = <<Result(q)>>]
  BY <1>1, <1>5
<1>7. OpenInv'
  BY <1>4, <1>6 DEF OpenInv
<1> QED
  BY <1>3, <1>7

LEMMA KeepsInv ==
    ASSUME OwnOptions, CacheInv, OpenInv, [Next]_<<rowVars, sent>>
    PROVE  CacheInv' /\ OpenInv'
<1>1. CASE NextRows
  <2>1. CASE \E q \in Queries : StartResult(q)
    BY <2>1, StartKeeps
  <2>2. ASSUME NEW c \in Conns, ReadRow(c)
        PROVE  CacheInv' /\ OpenInv'
    BY <2>2 DEF ReadRow, CacheInv, OpenInv
  <2>3. ASSUME NEW c \in Conns, EndResult(c)
        PROVE  CacheInv' /\ OpenInv'
    BY <2>3 DEF EndResult, CacheInv, OpenInv
  <2>4. ASSUME NEW zone \in DOMAIN Zones, SetTimezone(zone)
        PROVE  CacheInv' /\ OpenInv'
    BY <2>4 DEF SetTimezone, CacheInv, OpenInv
  <2>5. ASSUME NEW max \in 1 .. MaxParsers, setMaxParserCache(max)
        PROVE  CacheInv' /\ OpenInv'
    <3>1. max \in Nat
      BY RowsAssumption
    <3>2. Keep(parserCache, max) \in Seq(Buckets)
      BY <3>1, KeepTyped DEF CacheInv
    <3> QED
      BY <2>5, <3>1, <3>2 DEF setMaxParserCache, CacheInv, OpenInv
  <2>6. CASE clearParserCache
    BY <2>6 DEF clearParserCache, CacheInv, OpenInv
  <2> QED
    BY <1>1, <2>1, <2>2, <2>3, <2>4, <2>5, <2>6 DEF NextRows
<1>2. CASE UNCHANGED rowVars
  BY <1>2 DEF rowVars, CacheInv, OpenInv
<1> QED
  BY <1>1, <1>2 DEF Next

\* What a result set is read with is what its own columns and options compile
\* to, whatever other result sets, of any connection, left in the cache
\* (parser_cache.js:14).
THEOREM ParserFitsHolds == OwnOptions => (Spec => []ParserFits)
<1> SUFFICES ASSUME OwnOptions PROVE Spec => []ParserFits
  OBVIOUS
<1>1. Init => CacheInv /\ OpenInv
  BY RowsAssumption DEF Init, InitRows, CacheInv, OpenInv
<1>2. CacheInv /\ OpenInv /\ [Next]_<<rowVars, sent>> => (CacheInv /\ OpenInv)'
  BY KeepsInv
<1>3. ASSUME OpenInv PROVE ParserFits
  <2>1. ASSUME NEW c \in Conns, open[c] # <<>>
        PROVE  open[c][1].query.static \/ open[c][1].parser = Compiled(open[c][1].query)
    <3>1. PICK q \in Queries : q.conn = c /\ open[c] = <<Result(q)>>
      BY <1>3, <2>1 DEF OpenInv
    <3>2. open[c][1] = Result(q)
      BY <3>1
    <3>3. Result(q).query = q /\ (q.static \/ Result(q).parser = Compiled(q))
      BY DEF Result
    <3> QED
      BY <3>2, <3>3
  <2>2. \A q \in Queries :
            Compiled(q) = compile(q.proto, Tables[q.table].cols,
                                  globalTypeCast(queryOptions(Config[q.conn], q.over), Config[q.conn]),
                                  Config[q.conn])
    BY DEF Compiled, Cols, Options
  <2>3. \A c \in Conns : open[c] # <<>> => open[c][1].query \in Queries /\ open[c][1].query.conn = c
    BY <1>3 DEF OpenInv, Result
  <2> QED
    BY <2>1, <2>2, <2>3 DEF ParserFits
<1> QED
  BY <1>1, <1>2, <1>3, PTL DEF Spec

-----------------------------------------------------------------------------
\* What the readers return: the next offset, and a local time only where the
\* caller asked for one.

NotLocal(x) == x.o \in Pos /\ "local" \notin DOMAIN x.v
MaybeLocal(x, zone) ==
    x.o \in Pos /\ ("local" \in DOMAIN x.v => zone = "local" /\ x.v.local[1] \in Int)

\* The steps in which Le() adds up the bytes, from the last one.
LEMMA LeSteps ==
    ASSUME NEW s \in Seq(Nat)
    PROVE  \E g \in [0 .. Len(s) -> Nat] :
              /\ g[0] = 0 /\ \A i \in 1 .. Len(s) : g[i] = s[Len(s) + 1 - i] + Byte * g[i - 1]
              /\ Le(s) = g[Len(s)]
<1> DEFINE N == Len(s)
           G == [u \in (1 .. N) \X Nat |-> s[N + 1 - u[1]] + Byte * u[2]]
           Body0(g) == [i \in 0 .. N |-> IF i = 0 THEN 0 ELSE s[N + 1 - i] + Byte * g[i - 1]]
           h == CHOOSE g : g = Body0(g)
<1>1. N \in Nat /\ Byte \in Nat /\ \A i \in 1 .. N : s[N + 1 - i] \in Nat
  BY DEF Byte
<1>2. \E g : g = Body0(g)
  <2>1. G \in [(1 .. N) \X Nat -> Nat]
    BY <1>1
  <2>2. PICK f : Solves(f, N, Nat, 0, G)
    <3> HIDE DEF G, N
    <3>1. Recurrence(N, Nat, 0, G)
      BY <1>1, <2>1 DEF Recurrence
    <3> QED
      BY <3>1, Recursion
  <2>3. f \in [0 .. N -> Nat] /\ f[0] = 0 /\ \A n \in 1 .. N : f[n] = G[<<n, f[n - 1]>>]
    BY <2>2 DEF Solves
  <2>4. ASSUME NEW n \in 1 .. N PROVE f[n] = s[N + 1 - n] + Byte * f[n - 1]
    <3>0. N \in Nat /\ f \in [0 .. N -> Nat]
      BY <1>1, <2>3
    <3>1. n - 1 \in 0 .. N /\ f[n - 1] \in Nat
      <4> HIDE DEF G, N
      <4> QED
        BY <3>0
    <3>2. <<n, f[n - 1]>> \in (1 .. N) \X Nat
      BY <3>1
    <3> QED
      BY <2>3, <3>2
  <2>5. f = Body0(f)
    <3>1. \A i \in 0 .. N : i # 0 => i \in 1 .. N
      BY <1>1
    <3> HIDE DEF G, N
    <3> QED
      BY <2>3, <2>4, <3>1
  <2> QED
    BY <2>5
<1>3. h = Body0(h)
  BY <1>2
<1>4. 0 .. N \subseteq {i \in 0 .. N : h[i] \in Nat}
  <2> DEFINE S == {i \in 0 .. N : h[i] \in Nat}
  <2> HIDE DEF h
  <2>1. 0 \in S
    BY <1>1, <1>3
  <2>2. ASSUME NEW n \in 1 .. N, n - 1 \in S PROVE n \in S
    <3>1. n \in 0 .. N /\ n # 0
      BY <1>1
    <3>2. h[n] = s[N + 1 - n] + Byte * h[n - 1]
      BY <1>3, <3>1
    <3> HIDE DEF N
    <3> QED
      BY <1>1, <2>2, <3>1, <3>2 DEF Byte
  <2>3. 0 .. N \subseteq S
    <3> HIDE DEF S
    <3> QED
      BY <1>1, <2>1, <2>2, UpTo
  <2> QED
    BY <2>3
<1>5. Le(s) = h[N]
  BY DEF Le
<1>6. h \in [0 .. N -> Nat] /\ h[0] = 0 /\ \A i \in 1 .. N : h[i] = s[N + 1 - i] + Byte * h[i - 1]
  <2>1. \A i \in 0 .. N : h[i] \in Nat
    BY <1>4
  <2>2. DOMAIN h = 0 .. N /\ h = [i \in 0 .. N |-> h[i]]
    <3>1. \A g : DOMAIN Body0(g) = 0 .. N /\ Body0(g) = [i \in 0 .. N |-> Body0(g)[i]]
      OBVIOUS
    <3> HIDE DEF h, Body0
    <3> QED
      BY <1>3, <3>1
  <2>3. \A i \in 0 .. N : h[i] = IF i = 0 THEN 0 ELSE s[N + 1 - i] + Byte * h[i - 1]
    <3>1. \A g : \A i \in 0 .. N : Body0(g)[i] = IF i = 0 THEN 0 ELSE s[N + 1 - i] + Byte * g[i - 1]
      OBVIOUS
    <3> HIDE DEF h, Body0
    <3> QED
      BY <1>3, <3>1
  <2> HIDE DEF h
  <2>4. \A i \in 1 .. N : i \in 0 .. N /\ i # 0
    BY <1>1
  <2> HIDE DEF N
  <2>5. h \in [0 .. N -> Nat]
    BY <2>1, <2>2
  <2>6. h[0] = 0
    BY <1>1, <2>3
  <2>7. \A i \in 1 .. N : h[i] = s[N + 1 - i] + Byte * h[i - 1]
    BY <2>3, <2>4
  <2> QED
    BY <2>5, <2>6, <2>7
<1> QED
  <2> HIDE DEF h
  <2> QED
    BY <1>5, <1>6

LEMMA LeNat == ASSUME NEW s \in Seq(Nat) PROVE Le(s) \in Nat
<1>1. Len(s) \in 0 .. Len(s)
  OBVIOUS
<1> QED
  BY <1>1, LeSteps

LEMMA BytesNat ==
    ASSUME NEW b \in Seq(Nat), NEW o \in Pos, NEW n \in Nat, Has(b, o, n)
    PROVE  /\ Bytes(b, o, n) \in Seq(Nat) /\ Le(Bytes(b, o, n)) \in Nat
           /\ Len(Bytes(b, o, n)) = n
           /\ \A k \in 0 .. n - 1 : b[o + k] \in Nat
<1>1. Len(b) \in Nat /\ \A i \in 1 .. Len(b) : b[i] \in Nat
  OBVIOUS
<1>2. \A i \in o .. o + n - 1 : i \in 1 .. Len(b)
  BY <1>1 DEF Has, Pos
<1>3. Bytes(b, o, n) \in Seq(Nat)
  BY <1>1, <1>2 DEF Bytes, Pos
<1>4. \A k \in 0 .. n - 1 : b[o + k] \in Nat
  BY <1>1, <1>2 DEF Pos
<1>5. Len(Bytes(b, o, n)) = n
  BY <1>1 DEF Bytes, Pos
<1> QED
  BY <1>3, <1>4, <1>5, LeNat

\* Values by their kind.
LEMMA ValueKinds ==
    /\ \A x : /\ DOMAIN Num(x) = {"num"} /\ DOMAIN Str(x) = {"str"} /\ DOMAIN Buf(x) = {"buf"}
              /\ DOMAIN Json(x) = {"json"} /\ DOMAIN Dbl(x) = {"dbl"} /\ DOMAIN Rounded(x) = {"rounded"}
              /\ DOMAIN Instant(x) = {"instant"} /\ DOMAIN Local(x) = {"local"}
              /\ Num(x).num = x /\ Local(x).local = x
    /\ \A x, y : DOMAIN Decimal(x, y) = {"decimal"} /\ At(x, y).v = x /\ At(x, y).o = y
    /\ DOMAIN Null = {"null"} /\ DOMAIN Garbage = {"garbage"} /\ DOMAIN Invalid = {"invalid"}
BY DEF Num, Str, Buf, Json, Dbl, Rounded, Instant, Local, Decimal, At, Null, Garbage, Invalid

LEMMA Sixtyfour == ASSUME NEW hi, NEW lo
                   PROVE  /\ "local" \notin DOMAIN Double(hi, lo) /\ "local" \notin DOMAIN Exact(hi, lo)
                          /\ "local" \notin DOMAIN Decimal(hi, lo)
                          /\ hi \in Nat /\ lo \in Nat /\ "num" \in DOMAIN Exact(hi, lo) =>
                                Exact(hi, lo).num \in Nat
<1>1. Word \in Nat
  BY DEF Word, Byte
<1>2. hi \in Nat /\ lo \in Nat => hi * Word + lo \in Nat
  BY <1>1
<1> QED
  BY <1>2, ValueKinds DEF Double, Exact

LEMMA FixedWidth ==
    ASSUME NEW b \in Seq(Nat), NEW o \in Pos
    PROVE  /\ \A n \in Nat : /\ NotLocal(Unsigned(b, o, n)) /\ NotLocal(Signed(b, o, n))
                             /\ "num" \in DOMAIN Unsigned(b, o, n).v => Unsigned(b, o, n).v.num \in Nat
           /\ NotLocal(readInt64JSNumber(b, o)) /\ NotLocal(readSInt64JSNumber(b, o))
           /\ NotLocal(readInt64String(b, o)) /\ NotLocal(readSInt64String(b, o))
           /\ NotLocal(readInt64(b, o)) /\ NotLocal(readSInt64(b, o))
           /\ "num" \in DOMAIN readInt64(b, o).v => readInt64(b, o).v.num \in Nat
           /\ NotLocal(readFloat(b, o)) /\ NotLocal(readDouble(b, o))
<1>0. \A n \in Nat : o + n \in Pos
  BY DEF Pos
<1>1. ASSUME NEW n \in Nat
      PROVE  /\ NotLocal(Unsigned(b, o, n)) /\ NotLocal(Signed(b, o, n))
             /\ "num" \in DOMAIN Unsigned(b, o, n).v => Unsigned(b, o, n).v.num \in Nat
  <2>1. Has(b, o, n) => Le(Bytes(b, o, n)) \in Nat
    BY BytesNat
  <2> QED
    BY <1>0, <2>1, ValueKinds DEF Unsigned, Signed, NotLocal
<1>2. /\ NotLocal(readInt64JSNumber(b, o)) /\ NotLocal(readSInt64JSNumber(b, o))
      /\ NotLocal(readInt64String(b, o)) /\ NotLocal(readSInt64String(b, o))
      /\ NotLocal(readInt64(b, o)) /\ NotLocal(readSInt64(b, o))
  BY <1>0, ValueKinds, Sixtyfour
     DEF readInt64JSNumber, readSInt64JSNumber, readInt64String, readSInt64String, readInt64,
         readSInt64, Int64, NotLocal
<1>3. "num" \in DOMAIN readInt64(b, o).v => readInt64(b, o).v.num \in Nat
  <2>1. CASE ~Has(b, o, 8)
    BY <2>1, ValueKinds DEF readInt64, Int64
  <2>2. CASE Has(b, o, 8)
    <3>1. o + 4 \in Pos /\ Has(b, o, 4) /\ Has(b, o + 4, 4)
      BY <2>2 DEF Has, Pos
    <3>2. Le(Bytes(b, o, 4)) \in Nat /\ Le(Bytes(b, o + 4, 4)) \in Nat
      BY <3>1, BytesNat
    <3> QED
      BY <2>2, <3>2, ValueKinds, Sixtyfour DEF readInt64, Int64
  <2> QED
    BY <2>1, <2>2
<1>4. NotLocal(readFloat(b, o)) /\ NotLocal(readDouble(b, o))
  BY <1>0, ValueKinds DEF readFloat, readDouble, NotLocal
<1> QED
  BY <1>1, <1>2, <1>3, <1>4

LEMMA LengthRead ==
    ASSUME NEW b \in Seq(Nat), NEW o \in Pos
    PROVE  LET len == readLengthCodedNumber(b, o)
           IN  NotLocal(len) /\ ("num" \in DOMAIN len.v => len.v.num \in Nat)
<1>1. o + 1 \in Pos
  BY DEF Pos
<1>2. CASE ~Has(b, o, 1)
  BY <1>1, <1>2, ValueKinds DEF readLengthCodedNumber, NotLocal
<1>3. CASE Has(b, o, 1)
  <2>1. b[o] \in Nat
    <3>1. b[o + 0] \in Nat
      BY <1>3, BytesNat
    <3> QED
      BY <3>1 DEF Pos
  <2>2. CASE b[o] < NullTag
    BY <1>1, <1>3, <2>1, <2>2, ValueKinds DEF readLengthCodedNumber, NotLocal
  <2>3. CASE ~(b[o] < NullTag)
    <3> DEFINE r == readLengthCodedNumberExt(b, o + 1, b[o])
    <3>1. readLengthCodedNumber(b, o) = r
      BY <1>3, <2>3 DEF readLengthCodedNumber
    <3>2. NotLocal(r) /\ ("num" \in DOMAIN r.v => r.v.num \in Nat)
      <4>1. \A n \in {2, 3} : LET x == Unsigned(b, o + 1, n)
                             IN  NotLocal(x) /\ ("num" \in DOMAIN x.v => x.v.num \in Nat)
        BY <1>1, FixedWidth
      <4>2. LET x == readInt64(b, o + 1) IN NotLocal(x) /\ ("num" \in DOMAIN x.v => x.v.num \in Nat)
        BY <1>1, FixedWidth
      <4>3. \A v \in {Null, Garbage} : LET x == At(v, o + 1)
                                      IN  NotLocal(x) /\ "num" \notin DOMAIN x.v
        BY <1>1, ValueKinds DEF NotLocal
      <4>4. r \in {At(Null, o + 1), At(Garbage, o + 1), Unsigned(b, o + 1, 2), Unsigned(b, o + 1, 3),
                   readInt64(b, o + 1)}
        BY DEF readLengthCodedNumberExt, readInt16, readInt24
      <4> HIDE DEF r
      <4> QED
        BY <4>1, <4>2, <4>3, <4>4
    <3> HIDE DEF r
    <3> QED
      BY <3>1, <3>2
  <2> QED
    BY <2>2, <2>3
<1> QED
  BY <1>2, <1>3

LEMMA ParsedKinds ==
    \A s : /\ \A big : "local" \notin DOMAIN ParseInt(s, big)
           /\ "local" \notin DOMAIN ParseIntNoBigCheck(s) /\ "local" \notin DOMAIN ParseFloat(s)
<1> SUFFICES ASSUME NEW s
             PROVE  /\ \A big : "local" \notin DOMAIN ParseInt(s, big)
                    /\ "local" \notin DOMAIN ParseIntNoBigCheck(s) /\ "local" \notin DOMAIN ParseFloat(s)
  OBVIOUS
<1>1. \A big : "local" \notin DOMAIN ParseInt(s, big)
  BY ValueKinds, Sixtyfour DEF ParseInt, AsNumber, AsExact
<1>2. "local" \notin DOMAIN ParseIntNoBigCheck(s)
  BY ValueKinds, Sixtyfour DEF ParseIntNoBigCheck, AsNumber
<1>3. \A x, y : "local" \notin DOMAIN Rational(x, y)
  BY ValueKinds DEF Rational
<1>4. \A t : "local" \notin DOMAIN ParseManually(t)
  BY <1>3 DEF ParseManually
<1>5. "local" \notin DOMAIN ParseFloat(s)
  BY <1>3, <1>4 DEF ParseFloat, BuiltinParseFloat
<1> QED
  BY <1>1, <1>2, <1>5

LEMMA LengthAfter ==
    ASSUME NEW b \in Seq(Nat), NEW o \in Pos
    PROVE  LET len == readLengthCodedNumber(b, o)
           IN  /\ len.o \in Pos /\ "local" \notin DOMAIN len.v
               /\ "num" \in DOMAIN len.v =>
                     /\ len.o + len.v.num \in Pos
                     /\ Has(b, len.o, len.v.num) => Bytes(b, len.o, len.v.num) \in Seq(Nat)
<1> DEFINE len == readLengthCodedNumber(b, o)
<1>1. NotLocal(len) /\ ("num" \in DOMAIN len.v => len.v.num \in Nat)
  BY LengthRead
<1> HIDE DEF len
<1>2. "num" \in DOMAIN len.v => len.o + len.v.num \in Pos
  BY <1>1 DEF Pos, NotLocal
<1>3. "num" \in DOMAIN len.v /\ Has(b, len.o, len.v.num) => Bytes(b, len.o, len.v.num) \in Seq(Nat)
  BY <1>1, BytesNat DEF NotLocal
<1>4. /\ len.o \in Pos /\ "local" \notin DOMAIN len.v
      /\ "num" \in DOMAIN len.v =>
            /\ len.o + len.v.num \in Pos
            /\ Has(b, len.o, len.v.num) => Bytes(b, len.o, len.v.num) \in Seq(Nat)
  BY <1>1, <1>2, <1>3 DEF NotLocal
<1> QED
  BY <1>4 DEF len

LEMMA LengthCoded ==
    ASSUME NEW b \in Seq(Nat), NEW o \in Pos
    PROVE  /\ NotLocal(readLengthCodedString(b, o)) /\ NotLocal(readLengthCodedBuffer(b, o))
           /\ NotLocal(parseJson(b, o)) /\ NotLocal(parseLengthCodedIntNoBigCheck(b, o))
           /\ NotLocal(parseLengthCodedIntString(b, o)) /\ NotLocal(parseLengthCodedFloat(b, o))
           /\ \A big : NotLocal(parseLengthCodedInt(b, o, big))
           /\ NotLocal(parseVector(b, o))
<1> DEFINE len == readLengthCodedNumber(b, o)
           s == Bytes(b, len.o, len.v.num)
           Was(v) == IF len.v = Null THEN len
                    ELSE IF len.v = Garbage \/ "num" \notin DOMAIN len.v THEN At(Garbage, len.o)
                    ELSE IF ~Has(b, len.o, len.v.num) THEN At(Garbage, len.o + len.v.num)
                    ELSE At(v, len.o + len.v.num)
<1>1. /\ len.o \in Pos /\ "local" \notin DOMAIN len.v
      /\ "num" \in DOMAIN len.v => len.o + len.v.num \in Pos
  BY LengthAfter
<1> HIDE DEF len
<1>2. ASSUME NEW v, "local" \notin DOMAIN v PROVE NotLocal(Was(v))
  BY <1>1, <1>2, ValueKinds DEF NotLocal
<1>3. readLengthCodedString(b, o) = Was(Str(s)) /\ readLengthCodedBuffer(b, o) = Was(Buf(s))
  BY DEF readLengthCodedString, readLengthCodedBuffer, Counted, Follows, len
<1>4. parseJson(b, o) = Was(Json(s)) /\ parseLengthCodedIntNoBigCheck(b, o) = Was(ParseIntNoBigCheck(s))
  BY DEF parseJson, parseLengthCodedIntNoBigCheck, Counted, Follows, len
<1>5. /\ parseLengthCodedIntString(b, o) = Was(Decimal(Integer(s) \div Word, Integer(s) % Word))
      /\ parseLengthCodedFloat(b, o) = Was(ParseFloat(s))
  BY DEF parseLengthCodedIntString, parseLengthCodedFloat, Counted, Follows, len
<1>6. \A big : parseLengthCodedInt(b, o, big) = Was(ParseInt(s, big))
  BY DEF parseLengthCodedInt, Counted, Follows, len
<1>7. NotLocal(parseVector(b, o))
  <2> DEFINE size == IF len.v = Null THEN 0 ELSE len.v.num
             vector == [vector |-> [i \in 1 .. (size \div 4) |-> readFloat(b, len.o + 4 * (i - 1)).v]]
  <2>1. "local" \notin DOMAIN vector
    OBVIOUS
  <2>2. parseVector(b, o) = IF len.v # Null /\ "num" \notin DOMAIN len.v THEN At(Garbage, len.o)
                            ELSE At(vector, len.o + size)
    BY DEF parseVector, VectorAfter, len
  <2>3. len.v = Null \/ "num" \in DOMAIN len.v => len.o + size \in Pos
    BY <1>1, ValueKinds DEF Pos
  <2> HIDE DEF vector, size
  <2> QED
    BY <1>1, <2>1, <2>2, <2>3, ValueKinds DEF NotLocal
<1> HIDE DEF Was, s
<1> QED
  BY <1>2, <1>3, <1>4, <1>5, <1>6, <1>7, ValueKinds, ParsedKinds

\* Dates.
LEMMA ZoneLocal ==
    ASSUME NEW p, NEW zone, p.y \in Int, p.mo \in Int, p.d \in Int, p.h \in Int, p.mi \in Int
    PROVE  "local" \in DOMAIN InZone(p, zone) =>
              zone = "local" /\ InZone(p, zone).local[1] \in Int
<1>1. CASE zone = "local"
  <2>1. InZone(p, zone) = Local(Wall(p))
    BY <1>1 DEF InZone
  <2>2. Wall(p)[1] \in Int
    BY DEF Wall, HoursPerDay, MinutesPerHour
  <2> QED
    BY <1>1, <2>1, <2>2, ValueKinds
<1>2. CASE zone # "local"
  BY <1>2, ValueKinds DEF InZone
<1> QED
  BY <1>1, <1>2

LEMMA PartsTyped ==
    ASSUME NEW b \in Seq(Nat), NEW o \in Pos, NEW len \in Nat,
           Has(b, o, IF len > 10 THEN 11 ELSE IF len > 6 THEN 7 ELSE IF len > 3 THEN 4 ELSE 0)
    PROVE  LET p == DateParts(b, o, len)
           IN  p.y \in Int /\ p.mo \in Int /\ p.d \in Int /\ p.h \in Int /\ p.mi \in Int
<1>1. len > 3 => /\ Has(b, o, 2) /\ Has(b, o, 4)
  BY DEF Has, Pos
<1>2. len > 6 => Has(b, o, 7)
  BY DEF Has, Pos
<1>3. len > 3 => Number(b, o, 2) \in Nat /\ b[o + 2] \in Nat /\ b[o + 3] \in Nat
  BY <1>1, BytesNat DEF Number
<1>4. len > 6 => b[o + 4] \in Nat /\ b[o + 5] \in Nat
  BY <1>2, BytesNat
<1> QED
  BY <1>3, <1>4 DEF DateParts, Parts

LEMMA BinaryDates ==
    ASSUME NEW b \in Seq(Nat), NEW o \in Pos
    PROVE  /\ \A zone : MaybeLocal(readDateTime(b, o, zone), zone)
           /\ \A decimals, type : NotLocal(readDateTimeString(b, o, decimals, type))
           /\ NotLocal(readTimeString(b, o))
<1> DEFINE len == b[o]
           size == IF len > 10 THEN 11 ELSE IF len > 6 THEN 7 ELSE IF len > 3 THEN 4 ELSE 0
           p == DateParts(b, o + 1, len)
           Was(v) == IF ~Has(b, o, 1) THEN At(Garbage, o + 1)
                    ELSE At(IF Has(b, o + 1, size) THEN v ELSE Garbage, o + 1 + size)
<1>1. o + 1 \in Pos /\ o + 1 + size \in Pos
  BY DEF Pos
<1>2. ASSUME Has(b, o, 1) PROVE len \in Nat
  <2>1. b[o + 0] \in Nat
    BY <1>2, BytesNat
  <2> QED
    BY <2>1 DEF Pos
<1>3. ASSUME Has(b, o, 1), Has(b, o + 1, size)
      PROVE  p.y \in Int /\ p.mo \in Int /\ p.d \in Int /\ p.h \in Int /\ p.mi \in Int
  BY <1>1, <1>2, <1>3, PartsTyped
<1>4. ASSUME NEW zone PROVE MaybeLocal(readDateTime(b, o, zone), zone)
  <2> DEFINE v == IF p = ZeroDate \/ (zone \notin {"local", "Z"} /\ p.y + p.mo + p.d = 0)
                  THEN Invalid ELSE InZone(p, zone)
  <2>1. readDateTime(b, o, zone) = Was(v)
    BY DEF readDateTime, DateBytes
  <2>2. ASSUME Has(b, o, 1), Has(b, o + 1, size)
        PROVE  "local" \in DOMAIN v => zone = "local" /\ v.local[1] \in Int
    <3> HIDE DEF p
    <3> QED
      BY <1>3, <2>2, ZoneLocal, ValueKinds
  <2> HIDE DEF v, size
  <2> QED
    BY <1>1, <2>1, <2>2, ValueKinds DEF MaybeLocal
<1>5. ASSUME NEW decimals, NEW type PROVE NotLocal(readDateTimeString(b, o, decimals, type))
  <2> DEFINE v == Str(DateText(p)
                      \o (IF len > 6 THEN <<Space>> \o ClockText(p)
                          ELSE IF type = "DATETIME" THEN <<Space>> \o ClockText(ZeroDate) ELSE <<>>)
                      \o (IF len > 10 THEN <<Dot>> \o (IF decimals = 0 THEN Text(p.us)
                                                       ELSE SubSeq(Digits(p.us, 2), 1, decimals))
                          ELSE <<>>))
  <2>1. readDateTimeString(b, o, decimals, type) = Was(v)
    BY DEF readDateTimeString, DateBytes
  <2>2. "local" \notin DOMAIN v
    BY ValueKinds
  <2> HIDE DEF v, size
  <2> QED
    BY <1>1, <2>1, <2>2, ValueKinds DEF NotLocal
<1>6. NotLocal(readTimeString(b, o))
  <2> DEFINE more == IF len > 10 THEN 12 ELSE IF len > 6 THEN 8 ELSE IF len > 0 THEN 1 ELSE 0
  <2>1. o + 1 + more \in Pos
    BY DEF Pos
  <2>2. \E t : \/ readTimeString(b, o) = At(Garbage, o + 1)
               \/ readTimeString(b, o) = At(Str(t), o + 1 + more)
    BY DEF readTimeString
  <2> HIDE DEF more
  <2> QED
    BY <1>1, <2>1, <2>2, ValueKinds DEF NotLocal
<1> QED
  BY <1>4, <1>5, <1>6

LEMMA TextDates ==
    ASSUME NEW b \in Seq(Nat), NEW o \in Pos, NEW zone
    PROVE  MaybeLocal(parseDate(b, o, zone), zone) /\ MaybeLocal(parseDateTime(b, o, zone), zone)
<1> DEFINE len == readLengthCodedNumber(b, o)
           s == Bytes(b, len.o, len.v.num)
<1>1. /\ len.o \in Pos /\ "local" \notin DOMAIN len.v
      /\ "num" \in DOMAIN len.v => len.o + len.v.num \in Pos
      /\ "num" \in DOMAIN len.v /\ Has(b, len.o, len.v.num) => s \in Seq(Nat)
  BY LengthAfter
<1>2. parseDate(b, o, zone) = DateAfter(b, len, len.o, zone)
  BY DEF parseDate
<1>3. parseDateTime(b, o, zone) =
         IF len.v = Null THEN len
         ELSE IF len.v = Garbage \/ "num" \notin DOMAIN len.v THEN At(Garbage, len.o)
         ELSE IF ~Has(b, len.o, len.v.num) THEN At(Garbage, len.o + len.v.num)
         ELSE At(ParseDateTime(s, zone), len.o + len.v.num)
  BY DEF parseDateTime, Counted, Follows
<1> HIDE DEF len
<1>4. MaybeLocal(parseDate(b, o, zone), zone)
  <2> DEFINE p == Parts(Natural(Bytes(b, len.o, 4)), Natural(Bytes(b, len.o + 5, 2)),
                        Natural(Bytes(b, len.o + 8, 2)), 0, 0, 0, 0)
  <2>1. ASSUME Has(b, len.o, 10)
        PROVE  p.y \in Int /\ p.mo \in Int /\ p.d \in Int /\ p.h \in Int /\ p.mi \in Int
    <3>1. /\ len.o + 5 \in Pos /\ len.o + 8 \in Pos
          /\ Has(b, len.o, 4) /\ Has(b, len.o + 5, 2) /\ Has(b, len.o + 8, 2)
      <4> DEFINE x == len.o
      <4>1. x \in Pos /\ Len(b) \in Nat
        BY <1>1
      <4>2. Has(b, x, 10)
        BY <2>1
      <4> HIDE DEF x
      <4>3. x + 5 \in Pos /\ x + 8 \in Pos /\ Has(b, x, 4) /\ Has(b, x + 5, 2) /\ Has(b, x + 8, 2)
        BY <4>1, <4>2 DEF Has, Pos
      <4> QED
        BY <4>3 DEF x
    <3>2. /\ Natural(Bytes(b, len.o, 4)) \in Int /\ Natural(Bytes(b, len.o + 5, 2)) \in Int
          /\ Natural(Bytes(b, len.o + 8, 2)) \in Int
      BY <1>1, <3>1, BytesNat, NaturalInt
    <3> QED
      BY <3>2 DEF Parts
  <2>2. parseDate(b, o, zone) = IF len.v = Null THEN len
                                ELSE IF len.v # Num(10) \/ ~Has(b, len.o, 10) THEN At(Invalid, len.o)
                                ELSE At(InZone(p, zone), len.o + 10)
    BY <1>2 DEF DateAfter
  <2> HIDE DEF p
  <2>3. Has(b, len.o, 10) => ("local" \in DOMAIN InZone(p, zone) =>
                                zone = "local" /\ InZone(p, zone).local[1] \in Int)
    BY <2>1, ZoneLocal
  <2>4. len.o + 10 \in Pos
    BY <1>1 DEF Pos
  <2> QED
    BY <1>1, <2>2, <2>3, <2>4, ValueKinds DEF MaybeLocal
<1>5. MaybeLocal(parseDateTime(b, o, zone), zone)
  <2> DEFINE v == ParseDateTime(s, zone)
  <2>1. ASSUME s \in Seq(Nat)
        PROVE  "local" \in DOMAIN v => zone = "local" /\ v.local[1] \in Int
    <3> HIDE DEF s
    <3> DEFINE two(i) == Natural(SubSeq(s, i, i + 1))
               p == Parts(Natural(SubSeq(s, 1, 4)), two(6), two(9), two(12), two(15), two(18),
                          IF Len(s) > 20 THEN s[21] * UsPerMs ELSE 0)
    <3>1. CASE Len(s) < 19
      BY <3>1, ValueKinds DEF ParseDateTime
    <3>2. CASE ~(Len(s) < 19)
      <4>1. /\ SubSeq(s, 1, 4) \in Seq(Nat)
            /\ \A i \in {6, 9, 12, 15} : SubSeq(s, i, i + 1) \in Seq(Nat)
        <5>1. Len(s) \in Nat /\ \A i \in 1 .. Len(s) : s[i] \in Nat
          BY <2>1
        <5>2. \A i \in 1 .. 16 : i \in 1 .. Len(s)
          BY <3>2, <5>1
        <5>3. SubSeq(s, 1, 4) \in Seq(Nat)
          BY <5>1, <5>2
        <5>4. ASSUME NEW i \in {6, 9, 12, 15} PROVE SubSeq(s, i, i + 1) \in Seq(Nat)
          BY <5>1, <5>2
        <5> QED
          BY <5>3, <5>4
      <4>2. /\ Natural(SubSeq(s, 1, 4)) \in Int
            /\ two(6) \in Int /\ two(9) \in Int /\ two(12) \in Int /\ two(15) \in Int
        BY <4>1, NaturalInt
      <4>3. p.y \in Int /\ p.mo \in Int /\ p.d \in Int /\ p.h \in Int /\ p.mi \in Int
        BY <4>2 DEF Parts
      <4>4. v = IF p.mo = 0 \/ p.d = 0 THEN Invalid ELSE InZone(p, zone)
        BY <3>2 DEF ParseDateTime
      <4> HIDE DEF p, v
      <4> QED
        BY <4>3, <4>4, ZoneLocal, ValueKinds
    <3> QED
      BY <3>1, <3>2
  <2> HIDE DEF v, s
  <2> QED
    BY <1>1, <1>3, <2>1, ValueKinds DEF MaybeLocal, v
<1> QED
  BY <1>4, <1>5

\* A reader returns a local time only if its call has the time zone "local".
Readers ==
    {"null", "readInt8", "readSInt8", "readInt16", "readSInt16", "readInt32", "readSInt32", "readInt64",
     "readSInt64", "readInt64String", "readSInt64String", "readInt64JSNumber", "readSInt64JSNumber",
     "readFloat", "readDouble", "readDateTime", "readDateTimeString", "readTimeString",
     "readLengthCodedNumber", "readLengthCodedString", "readLengthCodedBuffer",
     "parseLengthCodedIntNoBigCheck", "parseLengthCodedIntString", "parseLengthCodedInt",
     "parseLengthCodedFloat", "parseDate", "parseDateTime", "parseVector", "parseJson"}

LEMMA ReadLocal ==
    ASSUME NEW b \in Seq(Nat), NEW o \in Pos, NEW call, call.name \in Readers
    PROVE  MaybeLocal(Read(call, b, o), call.zone)
<1> DEFINE R == Read(call, b, o)
<1>0. \A x, zone : NotLocal(x) => MaybeLocal(x, zone)
  BY DEF NotLocal, MaybeLocal
<1>1. NotLocal(At(Null, o)) /\ NotLocal(readLengthCodedNumber(b, o))
  BY ValueKinds, LengthRead DEF NotLocal
<1>2. \A n \in {1, 2, 4} : NotLocal(Unsigned(b, o, n)) /\ NotLocal(Signed(b, o, n))
  BY FixedWidth
<1>3. CASE call.name \in {"null", "readInt8", "readSInt8", "readInt16", "readSInt16", "readInt32",
                          "readSInt32", "readLengthCodedNumber"}
  <2>1. NotLocal(R)
    BY <1>1, <1>2, <1>3 DEF Read, readInt8, readSInt8, readInt16, readSInt16, readInt32, readSInt32
  <2> QED
    BY <1>0, <2>1
<1>4. CASE call.name \in {"readInt64", "readSInt64", "readInt64String", "readSInt64String",
                          "readInt64JSNumber", "readSInt64JSNumber", "readFloat", "readDouble"}
  <2>1. NotLocal(R)
    BY <1>4, FixedWidth DEF Read
  <2> QED
    BY <1>0, <2>1
<1>5. CASE call.name \in {"readLengthCodedString", "readLengthCodedBuffer",
                          "parseLengthCodedIntNoBigCheck", "parseLengthCodedIntString",
                          "parseLengthCodedInt", "parseLengthCodedFloat", "parseVector", "parseJson"}
  <2>1. NotLocal(R)
    BY <1>5, LengthCoded DEF Read
  <2> QED
    BY <1>0, <2>1
<1>6. CASE call.name \in {"readDateTimeString", "readTimeString"}
  <2>1. NotLocal(R)
    BY <1>6, BinaryDates DEF Read
  <2> QED
    BY <1>0, <2>1
<1>7. CASE call.name \in {"readDateTime", "parseDate", "parseDateTime"}
  BY <1>7, BinaryDates, TextDates DEF Read
<1> QED
  BY <1>3, <1>4, <1>5, <1>6, <1>7 DEF Readers

LEMMA CastLocal ==
    ASSUME NEW b \in Seq(Nat), NEW o \in Pos, NEW typeCast, NEW proto, NEW field, NEW step,
           step.read.name \in Readers
    PROVE  MaybeLocal(Cast(typeCast, proto, step, field, b, o), step.read.zone)
<1>0. \A x, zone : NotLocal(x) => MaybeLocal(x, zone)
  BY DEF NotLocal, MaybeLocal
<1>1. MaybeLocal(Read(step.read, b, o), step.read.zone)
  BY ReadLocal
<1>2. NotLocal(readLengthCodedBuffer(b, o)) /\ NotLocal(readLengthCodedString(b, o))
  BY LengthCoded
<1>3. NotLocal(FieldString(field, b, o))
  <2>1. \A v : NotLocal(At(Str(v), readInt8(b, o).o)) /\ NotLocal(At(Str(v), readSInt8(b, o).o))
    <3>1. readInt8(b, o).o \in Pos /\ readSInt8(b, o).o \in Pos
      BY FixedWidth DEF readInt8, readSInt8, NotLocal
    <3> QED
      BY <3>1, ValueKinds DEF NotLocal
  <2>2. \/ FieldString(field, b, o) = readDateTimeString(b, o, field.decimals, field.type)
        \/ \E v : FieldString(field, b, o) \in {At(Str(v), readInt8(b, o).o), At(Str(v), readSInt8(b, o).o)}
        \/ FieldString(field, b, o) = readTimeString(b, o)
        \/ FieldString(field, b, o) = readLengthCodedString(b, o)
    BY DEF FieldString
  <2> QED
    BY <1>2, <2>1, <2>2, BinaryDates
<1>4. Cast(typeCast, proto, step, field, b, o) \in
        {Read(step.read, b, o), readLengthCodedBuffer(b, o), FieldString(field, b, o),
         readLengthCodedString(b, o)}
  BY DEF Cast
<1> QED
  BY <1>0, <1>1, <1>2, <1>3, <1>4

\* A program has the readers above, and says so if one makes local dates.
LEMMA ReaderLocal ==
    ASSUME NEW f \in Columns, NEW options, NEW config
    PROVE  \A r \in {TextReader(f, options, config), StaticTextReader(f, options, config),
                     BinaryReader(f, options, config), StaticBinaryReader(f, options, config)} :
              r.name \in Readers /\ (r.zone = "local" => usesLocalDate(f, options, config))
<1>2. \A g : \A s \in {JsonReader(config), StringReader(g)} : s.name \in Readers /\ s.zone = ""
  <2> SUFFICES ASSUME NEW g PROVE \A s \in {JsonReader(config), StringReader(g)} : s.name \in Readers /\ s.zone = ""
    OBVIOUS
  <2>1. JsonReader(config).name \in Readers /\ JsonReader(config).zone = ""
    BY DEF JsonReader, Call, Readers
  <2>2. StringReader(g).name \in Readers /\ StringReader(g).zone = ""
    BY DEF StringReader, Call, Readers
  <2> QED
    BY <2>1, <2>2
<1>3. ASSUME NEW g
      PROVE  LET r == TextReader(g, options, config)
             IN  r.name \in Readers /\ (r.zone = "local" => usesLocalDate(g, options, config))
  <2> QED
    BY <1>2 DEF TextReader, usesLocalDate, Call, Readers
<1>4. LET r == BinaryReader(f, options, config)
      IN  r.name \in Readers /\ (r.zone = "local" => usesLocalDate(f, options, config))
  <2>1. IntReader(f).name \in Readers /\ IntReader(f).zone = ""
    BY DEF IntReader, Call, Readers
  <2>2. \A big, strings : /\ BigIntReader(f, big, strings).name \in Readers
                          /\ BigIntReader(f, big, strings).zone = ""
    BY DEF BigIntReader, Call, Readers
  <2> QED
    BY <1>2, <2>1, <2>2 DEF BinaryReader, usesLocalDate, Call, Readers
<1>5. LET r == StaticTextReader(f, options, config)
      IN  r.name \in Readers /\ (r.zone = "local" => usesLocalDate(f, options, config))
  <2> DEFINE g == [f EXCEPT !.type = "DECIMAL"]
  <2>1. g.type = "DECIMAL"
    BY DEF Columns
  <2>3. ~usesLocalDate(g, options, config)
    BY <2>1 DEF usesLocalDate, DateTypes
  <2>2. StaticTextReader(f, options, config) \in {TextReader(f, options, config), TextReader(g, options, config)}
    BY DEF StaticTextReader
  <2> HIDE DEF g
  <2> QED
    BY <1>3, <2>2, <2>3
<1> QED
  BY <1>3, <1>4, <1>5 DEF StaticBinaryReader

LEMMA StepsRead ==
    ASSUME NEW q \in Queries
    PROVE  \A P \in {Static(q), Compiled(q)} : \A i \in DOMAIN Cols(q) :
              /\ P.steps[i].read.name \in Readers
              /\ P.steps[i].read.zone = "local" => P.checksTimezone
<1> DEFINE f == Cols(q)
           c == Config[q.conn]
           o == Options(q)
           p == globalTypeCast(o, c)
<1>1. \A i \in DOMAIN f : f[i] \in Columns
  BY RowsAssumption DEF Cols
<1> HIDE DEF f, c, o, p
<1>2. Call("readLengthCodedBuffer").name \in Readers /\ Call("readLengthCodedBuffer").zone # "local"
  BY DEF Call, Readers
<1>3. \A i \in DOMAIN f :
         /\ staticTextParser(f, o, c).steps[i].read \in {Call("readLengthCodedBuffer"), StaticTextReader(f[i], o, c)}
         /\ staticBinaryParser(f, o, c).steps[i].read \in {Call("readLengthCodedBuffer"), StaticBinaryReader(f[i], o, c)}
         /\ compileText(f, p, c).steps[i].read \in {Call("readLengthCodedBuffer"), TextReader(f[i], p, c)}
         /\ compileBinary(f, p, c).steps[i].read \in {Call("readLengthCodedBuffer"), BinaryReader(f[i], p, c)}
  BY DEF staticTextParser, staticBinaryParser, compileText, compileBinary, Program
<1>4. \A i \in DOMAIN f :
         /\ usesLocalDate(f[i], o, c) => /\ staticTextParser(f, o, c).checksTimezone
                                         /\ staticBinaryParser(f, o, c).checksTimezone
         /\ usesLocalDate(f[i], p, c) => /\ compileText(f, p, c).checksTimezone
                                         /\ compileBinary(f, p, c).checksTimezone
  BY DEF staticTextParser, staticBinaryParser, compileText, compileBinary, Program
<1>5. ASSUME NEW i \in DOMAIN f
      PROVE  \A P \in {staticTextParser(f, o, c), staticBinaryParser(f, o, c),
                       compileText(f, p, c), compileBinary(f, p, c)} :
                /\ P.steps[i].read.name \in Readers
                /\ P.steps[i].read.zone = "local" => P.checksTimezone
  <2>1. f[i] \in Columns
    BY <1>1
  <2>2. /\ \A r \in {StaticTextReader(f[i], o, c), StaticBinaryReader(f[i], o, c)} :
              r.name \in Readers /\ (r.zone = "local" => usesLocalDate(f[i], o, c))
        /\ \A r \in {TextReader(f[i], p, c), BinaryReader(f[i], p, c)} :
              r.name \in Readers /\ (r.zone = "local" => usesLocalDate(f[i], p, c))
    BY <2>1, ReaderLocal
  <2> QED
    BY <1>2, <1>3, <1>4, <2>2
<1>6. /\ Static(q) \in {staticTextParser(f, o, c), staticBinaryParser(f, o, c)}
      /\ Compiled(q) \in {compileText(f, p, c), compileBinary(f, p, c)}
  BY DEF Static, Compiled, staticParser, compile, f, o, p, c
<1>7. \A i \in DOMAIN f : \A P \in {Static(q), Compiled(q)} :
         /\ P.steps[i].read.name \in Readers
         /\ P.steps[i].read.zone = "local" => P.checksTimezone
  BY <1>5, <1>6
<1> QED
  BY <1>7 DEF f

-----------------------------------------------------------------------------
\* The cache of offsets.

Minutes(hour) == (hour * MinutesPerHour) .. ((hour + 1) * MinutesPerHour - 1)

OffsetsFit(hours, zone) ==
    \A hour \in DOMAIN hours :
        /\ hour \in Int
        /\ hours[hour] # Transition =>
              \A minute \in Minutes(hour) : LocalTime(zone, minute) = minute - hours[hour]

Bounded(hours) == IsFiniteSet(DOMAIN hours) /\ Cardinality(DOMAIN hours) <= MaxCachedHours

LEMMA ProvedOffset ==
    ASSUME NEW zone \in DOMAIN Zones, NEW hour \in Int, proveHourOffset(zone, hour) # Transition
    PROVE  \A minute \in Minutes(hour) : LocalTime(zone, minute) = minute - proveHourOffset(zone, hour)
<1> DEFINE z == Zones[zone]
           start == hour * MinutesPerHour
           Offset(minute) == minute - LocalTime(zone, minute)
<1>1. z.at \in Int /\ z.before \in Int /\ z.after \in Int
  BY RowsAssumption
<1>2. /\ MinutesPerHour = 4 /\ MinutesPerHour \div 2 = 2 /\ start \in Int
      /\ Minutes(hour) = start .. start + 3
  BY DEF MinutesPerHour, Minutes
<1>3. \A minute \in Int : LocalTime(zone, minute) =
         IF minute - z.before < z.at \/ minute - z.after < z.at
         THEN minute - z.before ELSE minute - z.after
  BY DEF LocalTime
<1>4. /\ proveHourOffset(zone, hour) = Offset(start)
      /\ Offset(start) = Offset(start + 2) /\ Offset(start) = Offset(start + 3)
  BY <1>2 DEF proveHourOffset
<1> HIDE DEF z, start
<1>5. \A minute \in start .. start + 3 : LocalTime(zone, minute) = minute - Offset(start)
  <2> SUFFICES ASSUME NEW minute \in start .. start + 3
               PROVE  LocalTime(zone, minute) = minute - Offset(start)
    OBVIOUS
  <2>1. minute \in Int /\ start + 3 \in Int /\ start <= minute /\ minute <= start + 3
    BY <1>2
  <2> DEFINE L(x) == IF x - z.before < z.at \/ x - z.after < z.at THEN x - z.before ELSE x - z.after
  <2>2. /\ LocalTime(zone, minute) = L(minute) /\ LocalTime(zone, start) = L(start)
        /\ LocalTime(zone, start + 3) = L(start + 3)
    BY <1>2, <1>3, <2>1
  <2>3. start - L(start) = (start + 3) - L(start + 3)
    BY <1>4, <2>2
  <2>4. L(minute) = minute - (start - L(start))
    BY <1>1, <1>2, <2>1, <2>3
  <2> HIDE DEF L
  <2> QED
    BY <2>2, <2>4
<1> QED
  BY <1>2, <1>4, <1>5

\* A local date is the instant that new Date() makes of it, in the cache or
\* not, and the cache still fits.
LEMMA LocalDateFits ==
    ASSUME NEW hours, NEW zone \in DOMAIN Zones, OffsetsFit(hours, zone), NEW w, w[1] \in Int
    PROVE  /\ OffsetsFit(localDate(hours, zone, w).hours, zone)
           /\ localDate(hours, zone, w).value = Instant(<<LocalTime(zone, w[1]), w[2], w[3]>>)
<1> DEFINE hour == w[1] \div MinutesPerHour
           known == hour \in DOMAIN hours
           offset == IF known THEN hours[hour] ELSE proveHourOffset(zone, hour)
           old == Room(hours)
           new == With(old, hour, offset)
<1>1. hour \in Int /\ w[1] \in Minutes(hour)
  BY DEF MinutesPerHour, Minutes
<1> HIDE DEF hour
<1>2. offset # Transition => \A minute \in Minutes(hour) : LocalTime(zone, minute) = minute - offset
  BY <1>1, ProvedOffset DEF OffsetsFit
<1>3. OffsetsFit(old, zone)
  BY DEF Room, OffsetsFit
<1> HIDE DEF old
<1>4. OffsetsFit(new, zone)
  <2>1. DOMAIN new = DOMAIN old \union {hour} /\ new[hour] = offset
        /\ \A x \in DOMAIN old : x # hour => new[x] = old[x]
    BY DEF With
  <2> HIDE DEF new, offset
  <2> QED
    BY <1>1, <1>2, <1>3, <2>1 DEF OffsetsFit
<1>5. localDate(hours, zone, w) =
         [hours |-> IF known THEN hours ELSE new,
          value |-> Instant(<<IF offset = Transition THEN LocalTime(zone, w[1]) ELSE w[1] - offset,
                              w[2], w[3]>>)]
  BY DEF localDate, hour, old
<1> HIDE DEF new, offset, known
<1>6. offset # Transition => w[1] - offset = LocalTime(zone, w[1])
  BY <1>1, <1>2
<1> QED
  BY <1>4, <1>5, <1>6

LEMMA LocalDateBounded ==
    ASSUME NEW hours, Bounded(hours), NEW zone, NEW w
    PROVE  Bounded(localDate(hours, zone, w).hours)
<1> DEFINE old == Room(hours)
<1>1. MaxCachedHours \in Nat \ {0}
  BY RowsAssumption
<1>2. IsFiniteSet(DOMAIN old) /\ Cardinality(DOMAIN old) < MaxCachedHours
  <2>1. DOMAIN << >> = {}
    OBVIOUS
  <2>2. Cardinality({}) = 0 /\ IsFiniteSet({})
    BY FS_EmptySet
  <2>3. Cardinality(DOMAIN hours) \in Nat
    BY FS_CardinalityType DEF Bounded
  <2> QED
    BY <1>1, <2>1, <2>2, <2>3 DEF Room, Bounded
<1> HIDE DEF old
<1>3. ASSUME NEW hour, NEW offset PROVE Bounded(With(old, hour, offset))
  <2>1. DOMAIN With(old, hour, offset) = DOMAIN old \union {hour}
    BY DEF With
  <2>2. /\ IsFiniteSet(DOMAIN old \union {hour})
        /\ Cardinality(DOMAIN old \union {hour}) <= Cardinality(DOMAIN old) + 1
        /\ Cardinality(DOMAIN old) \in Nat
    <3>1. /\ IsFiniteSet(DOMAIN old \union {hour})
          /\ Cardinality(DOMAIN old \union {hour}) =
               IF hour \in DOMAIN old THEN Cardinality(DOMAIN old) ELSE Cardinality(DOMAIN old) + 1
      BY <1>2, FS_AddElement
    <3>2. Cardinality(DOMAIN old) \in Nat
      BY <1>2, FS_CardinalityType
    <3> QED
      BY <3>1, <3>2
  <2>3. Cardinality(DOMAIN old \union {hour}) \in Nat
    BY <2>2, FS_CardinalityType
  <2> QED
    BY <1>1, <1>2, <2>1, <2>2, <2>3 DEF Bounded
<1>4. \E hour, offset : localDate(hours, zone, w).hours \in {hours, With(old, hour, offset)}
  BY DEF localDate, old
<1> QED
  BY <1>3, <1>4

\* Reading a row: the cache changes only if the parser says that it makes
\* local dates, and fits afterwards if it did.
LEMMA NextFits ==
    ASSUME NEW parser, NEW fields \in Seq(Columns), NEW typeCast, NEW b \in Seq(Nat), TZ \in DOMAIN Zones,
           \A i \in DOMAIN fields : /\ parser.steps[i].read.name \in Readers
                                    /\ parser.steps[i].read.zone = "local" => parser.checksTimezone
    PROVE  LET hours == next(parser, fields, typeCast, b).hours
           IN  /\ hours = hourOffsets \/ parser.checksTimezone
               /\ OffsetsFit(hourOffsets, TZ) => OffsetsFit(hours, TZ)
               /\ Bounded(hourOffsets) => Bounded(hours)
<1> DEFINE N == Len(fields)
           Start == [o |-> FirstValue(parser.proto, N), hours |-> hourOffsets, values |-> << >>]
           Value(i, o) == IF IsNull(parser.proto, b, i) THEN At(Null, o)
                          ELSE Cast(typeCast, parser.proto, parser.steps[i], fields[i], b, o)
           Step(i, r) == Put(r, parser.steps[i].place, Value(i, r.o))
           Rows(k, f) == f = [i \in 0 .. k |-> IF i = 0 THEN Start ELSE Step(i, f[i - 1])]
           Good(r) == /\ r.o \in Pos
                      /\ r.hours = hourOffsets \/ parser.checksTimezone
                      /\ OffsetsFit(hourOffsets, TZ) => OffsetsFit(r.hours, TZ)
                      /\ Bounded(hourOffsets) => Bounded(r.hours)
           h == CHOOSE f : Rows(N, f)
<1>1. N \in Nat /\ DOMAIN fields = 1 .. N
  OBVIOUS
<1>2. Good(Start)
  BY <1>1 DEF FirstValue, BitmapLength, Bits, Pos
<1>3. ASSUME NEW i \in 1 .. N, NEW r, Good(r) PROVE Good(Step(i, r))
  <2> DEFINE read == Value(i, r.o)
             date == Dated(read, r.hours)
  <2>1. MaybeLocal(read, parser.steps[i].read.zone)
    <3>1. MaybeLocal(At(Null, r.o), parser.steps[i].read.zone)
      BY <1>3, ValueKinds DEF MaybeLocal
    <3>2. parser.steps[i].read.name \in Readers
      BY <1>1
    <3>3. MaybeLocal(Cast(typeCast, parser.proto, parser.steps[i], fields[i], b, r.o), parser.steps[i].read.zone)
      BY <1>3, <3>2, CastLocal
    <3> QED
      BY <3>1, <3>3
  <2>2. Step(i, r) = [o |-> read.o, hours |-> date.hours,
                      values |-> With(r.values, parser.steps[i].place, date.value)]
    BY DEF Put, Placed
  <2> HIDE DEF read, date
  <2>3. read.o \in Pos /\ ("local" \in DOMAIN read.v => parser.checksTimezone /\ read.v.local[1] \in Int)
    BY <1>1, <2>1 DEF MaybeLocal
  <2>4. CASE "local" \in DOMAIN read.v
    <3>1. date.hours = localDate(r.hours, TZ, read.v.local).hours
      BY <2>4 DEF Dated, date
    <3>2. OffsetsFit(r.hours, TZ) => OffsetsFit(date.hours, TZ)
      BY <2>3, <2>4, <3>1, LocalDateFits
    <3>3. Bounded(r.hours) => Bounded(date.hours)
      BY <3>1, LocalDateBounded
    <3> QED
      BY <1>3, <2>2, <2>3, <2>4, <3>2, <3>3
  <2>5. CASE "local" \notin DOMAIN read.v
    <3>1. date.hours = r.hours
      BY <2>5 DEF Dated, date
    <3> QED
      BY <1>3, <2>2, <2>3, <3>1
  <2> QED
    BY <2>4, <2>5
<1> HIDE DEF Start, Step, Good, N
<1>4. \E f : Rows(N, f)
  <2> DEFINE S == {k \in 0 .. N : \E f : Rows(k, f)}
  <2>1. 0 \in S
    <3>1. Rows(0, [i \in 0 .. 0 |-> Start])
      OBVIOUS
    <3>2. \E f : Rows(0, f)
      BY <3>1
    <3> HIDE DEF Rows
    <3> QED
      BY <1>1, <3>2
  <2>2. ASSUME NEW k \in 1 .. N, k - 1 \in S PROVE k \in S
    <3>1. PICK f : Rows(k - 1, f)
      BY <2>2
    <3> DEFINE g == [i \in 0 .. k |-> IF i = k THEN Step(k, f[k - 1]) ELSE f[i]]
    <3>2. ASSUME NEW i \in 0 .. k PROVE g[i] = IF i = 0 THEN Start ELSE Step(i, g[i - 1])
      <4>1. CASE i = 0
        <5>1. g[0] = f[0]
          BY <1>1
        <5>2. f[0] = Start
          BY <1>1, <3>1
        <5> QED
          BY <4>1, <5>1, <5>2
      <4>2. CASE i = k
        <5>1. g[k] = Step(k, f[k - 1]) /\ g[k - 1] = f[k - 1] /\ k # 0
          BY <1>1
        <5> HIDE DEF g
        <5> QED
          BY <4>2, <5>1
      <4>3. CASE i # 0 /\ i # k
        <5>1. i \in 0 .. k - 1 /\ i - 1 \in 0 .. k /\ i - 1 # k
          BY <1>1, <4>3
        <5>2. g[i] = f[i] /\ g[i - 1] = f[i - 1]
          BY <4>3, <5>1
        <5>3. f[i] = Step(i, f[i - 1])
          <6> HIDE DEF g
          <6> QED
            BY <3>1, <4>3, <5>1
        <5> HIDE DEF g
        <5> QED
          BY <4>3, <5>2, <5>3
      <4> QED
        BY <4>1, <4>2, <4>3
    <3>3. Rows(k, g)
      BY <3>2
    <3> HIDE DEF g, Rows
    <3> QED
      BY <1>1, <3>3
  <2>3. 0 .. N \subseteq S
    <3> HIDE DEF S
    <3> QED
      BY <1>1, <2>1, <2>2, UpTo
  <2> QED
    BY <1>1, <2>3
<1>5. Rows(N, h)
  <2> HIDE DEF Rows
  <2> QED
    BY <1>4
<1>6. next(parser, fields, typeCast, b) = h[N]
  BY DEF next, Start, Step, N
<1> HIDE DEF h
<1>7. Good(h[N])
  <2> DEFINE S == {k \in 0 .. N : Good(h[k])}
  <2>1. 0 \in S
    <3>1. h[0] = Start
      BY <1>1, <1>5
    <3> QED
      BY <1>1, <1>2, <3>1
  <2>2. ASSUME NEW k \in 1 .. N, k - 1 \in S PROVE k \in S
    <3>1. k \in 0 .. N /\ k # 0
      BY <1>1
    <3>2. h[k] = Step(k, h[k - 1])
      BY <1>5, <3>1
    <3>3. Good(h[k - 1])
      BY <2>2
    <3> QED
      BY <1>3, <3>1, <3>2, <3>3
  <2>3. 0 .. N \subseteq S
    <3> HIDE DEF S
    <3> QED
      BY <1>1, <2>1, <2>2, UpTo
  <2> QED
    BY <1>1, <2>3
<1> QED
  BY <1>6, <1>7 DEF Good

\* The cache of offsets fits the time zone it was last checked for, and that is
\* the time zone of the process while a result set with local dates is read.
ZoneInv ==
    /\ TZ \in DOMAIN Zones /\ lastTimezone \in DOMAIN Zones
    /\ OffsetsFit(hourOffsets, lastTimezone) /\ Bounded(hourOffsets)
    /\ \A c \in Conns : open[c] # <<>> => (open[c][1].parser.checksTimezone => lastTimezone = TZ)

LEMMA RowKeeps ==
    ASSUME OpenInv, ZoneInv, NEW c \in Conns, ReadRow(c)
    PROVE  ZoneInv'
<1>1. PICK q \in Queries : q.conn = c /\ open[c] = <<Result(q)>>
  BY DEF OpenInv, ReadRow
<1> DEFINE P == IF q.static THEN Static(q) ELSE Compiled(q)
<1>2. open[c][1] = Result(q) /\ Result(q).query = q /\ Result(q).parser = P
  BY <1>1 DEF Result
<1>3. PICK k \in DOMAIN Tables[q.table].rows :
         hourOffsets' = next(P, Cols(q), Result(q).options.typeCast,
                             ServerRow(q.proto, Cols(q), Tables[q.table].rows[k])).hours
  BY <1>2 DEF ReadRow, RowComes, RowIs, Cols
<1>4. UNCHANGED <<TZ, lastTimezone, open>>
  BY DEF ReadRow
<1> DEFINE b == ServerRow(q.proto, Cols(q), Tables[q.table].rows[k])
           hours == next(P, Cols(q), Result(q).options.typeCast, b).hours
<1>5. Cols(q) \in Seq(Columns) /\ b \in Seq(Nat)
  BY RowsAssumption DEF Cols
<1>6. \A i \in DOMAIN Cols(q) : /\ P.steps[i].read.name \in Readers
                                /\ P.steps[i].read.zone = "local" => P.checksTimezone
  BY StepsRead
<1>7. /\ hours = hourOffsets \/ P.checksTimezone
      /\ OffsetsFit(hourOffsets, TZ) => OffsetsFit(hours, TZ)
      /\ Bounded(hourOffsets) => Bounded(hours)
  <2> HIDE DEF b, P
  <2>1. TZ \in DOMAIN Zones
    BY DEF ZoneInv
  <2> QED
    BY <1>5, <1>6, <2>1, NextFits
<1>8. P.checksTimezone => lastTimezone = TZ
  BY <1>1, <1>2 DEF ZoneInv
<1>9. hourOffsets' = hours
  BY <1>3
<1> HIDE DEF hours, P
<1>10. OffsetsFit(hours, lastTimezone) /\ Bounded(hours)
  BY <1>7, <1>8 DEF ZoneInv
<1>11. OffsetsFit(hourOffsets, lastTimezone)' /\ Bounded(hourOffsets)'
  BY <1>4, <1>9, <1>10 DEF OffsetsFit, LocalTime, Bounded
<1> QED
  BY <1>4, <1>11 DEF ZoneInv

LEMMA ResultKeeps ==
    ASSUME OpenInv, ZoneInv, NEW q \in Queries, StartResult(q)
    PROVE  ZoneInv'
<1> DEFINE c == Config[q.conn]
           got == IF q.static
                  THEN [parser |-> staticParser(q.proto, Cols(q), Options(q), c),
                        options |-> Options(q), cache |-> parserCache]
                  ELSE getParser(q.proto, Cols(q), Options(q), c)
           result == [query |-> q, parser |-> got.parser, options |-> got.options]
<1>1. /\ TZ' = TZ /\ open' = [open EXCEPT ![q.conn] = <<result>>]
      /\ IF got.parser.checksTimezone THEN checkTimezone ELSE UNCHANGED dateVars
  BY DEF StartResult, Options, Cols
<1>2. result.parser = got.parser
  OBVIOUS
<1> HIDE DEF got, result
<1>3. /\ open'[q.conn][1].parser = got.parser
      /\ \A d \in Conns : d # q.conn => open'[d] = open[d]
  <2>1. q.conn \in Conns /\ open = [d \in Conns |-> open[d]]
    BY RowsAssumption DEF OpenInv
  <2>2. open'[q.conn] = <<result>> /\ \A d \in Conns : d # q.conn => open'[d] = open[d]
    BY <1>1, <2>1
  <2> QED
    BY <1>2, <2>2
<1>4. CASE got.parser.checksTimezone
  <2>1. /\ lastTimezone' = TZ
        /\ hourOffsets' = IF TZ # lastTimezone THEN << >> ELSE hourOffsets
    BY <1>1, <1>4 DEF checkTimezone
  <2>2. OffsetsFit(hourOffsets', TZ)
    BY <2>1 DEF ZoneInv, OffsetsFit
  <2>3. OffsetsFit(hourOffsets, lastTimezone)'
    BY <2>1, <2>2 DEF OffsetsFit, LocalTime
  <2>4. Bounded(hourOffsets)'
    <3>1. Bounded(<< >>)
      BY FS_EmptySet, RowsAssumption DEF Bounded
    <3> QED
      BY <2>1, <3>1 DEF ZoneInv, Bounded
  <2> QED
    BY <1>1, <2>1, <2>3, <2>4 DEF ZoneInv
<1>5. CASE ~got.parser.checksTimezone
  <2>1. lastTimezone' = lastTimezone /\ hourOffsets' = hourOffsets
    BY <1>1, <1>5 DEF dateVars
  <2>2. OffsetsFit(hourOffsets, lastTimezone)' /\ Bounded(hourOffsets)'
    BY <2>1 DEF ZoneInv, OffsetsFit, LocalTime, Bounded
  <2>3. ASSUME NEW d \in Conns, open'[d] # <<>>, open'[d][1].parser.checksTimezone
        PROVE  lastTimezone' = TZ'
    BY <1>1, <1>3, <1>5, <2>1, <2>3 DEF ZoneInv
  <2> QED
    BY <1>1, <2>1, <2>2, <2>3 DEF ZoneInv
<1> QED
  BY <1>4, <1>5

LEMMA KeepsZone ==
    ASSUME OpenInv, ZoneInv, [Next]_<<rowVars, sent>>
    PROVE  ZoneInv'
<1>0. ASSUME UNCHANGED dateVars PROVE OffsetsFit(hourOffsets, lastTimezone)' /\ Bounded(hourOffsets)'
  BY <1>0 DEF dateVars, ZoneInv, OffsetsFit, LocalTime, Bounded
<1>1. CASE NextRows
  <2>1. CASE \E q \in Queries : StartResult(q)
    BY <2>1, ResultKeeps
  <2>2. ASSUME NEW c \in Conns, ReadRow(c)
        PROVE  ZoneInv'
    BY <2>2, RowKeeps
  <2>3. ASSUME NEW c \in Conns, EndResult(c)
        PROVE  ZoneInv'
    <3>1. \A d \in Conns : open'[d] = IF d = c THEN <<>> ELSE open[d]
      BY <2>3 DEF EndResult, OpenInv
    <3>2. UNCHANGED <<TZ, dateVars>>
      BY <2>3 DEF EndResult
    <3> QED
      BY <1>0, <3>1, <3>2 DEF ZoneInv, dateVars
  <2>4. ASSUME NEW zone \in DOMAIN Zones, SetTimezone(zone)
        PROVE  ZoneInv'
    <3>1. TZ' = zone /\ UNCHANGED <<dateVars, open>> /\ \A d \in Conns : open[d] = <<>>
      BY <2>4 DEF SetTimezone, Idle
    <3> QED
      BY <1>0, <3>1 DEF ZoneInv, dateVars
  <2>5. ASSUME NEW max \in 1 .. MaxParsers, setMaxParserCache(max)
        PROVE  ZoneInv'
    BY <1>0, <2>5 DEF setMaxParserCache, ZoneInv, dateVars
  <2>6. CASE clearParserCache
    BY <1>0, <2>6 DEF clearParserCache, ZoneInv, dateVars
  <2> QED
    BY <1>1, <2>1, <2>2, <2>3, <2>4, <2>5, <2>6 DEF NextRows
<1>2. CASE UNCHANGED rowVars
  BY <1>0, <1>2 DEF rowVars, ZoneInv, dateVars
<1> QED
  BY <1>1, <1>2 DEF Next

LEMMA InitZone == Init => ZoneInv
<1>1. Bounded(<< >>)
  BY FS_EmptySet, RowsAssumption DEF Bounded
<1> QED
  BY <1>1, RowsAssumption DEF Init, InitRows, ZoneInv, OffsetsFit

\* What the caches hand out is what would be made without them: the parser of
\* the columns and options, and for every cached hour the offset of each of its
\* minutes in the time zone last checked for (local_date.js:32, 71).
THEOREM CachesFitHold == OwnOptions => (Spec => []CachesFit)
<1> SUFFICES ASSUME OwnOptions PROVE Spec => []CachesFit
  OBVIOUS
<1>1. Init => CacheInv /\ OpenInv /\ ZoneInv
  BY RowsAssumption, InitZone DEF Init, InitRows, CacheInv, OpenInv
<1>2. CacheInv /\ OpenInv /\ ZoneInv /\ [Next]_<<rowVars, sent>> => (CacheInv /\ OpenInv /\ ZoneInv)'
  BY KeepsInv, KeepsZone
<1>3. ZoneInv /\ ParserFits => CachesFit
  BY DEF ZoneInv, OffsetsFit, Minutes, CachesFit
<1>4. Spec => []ParserFits
  BY ParserFitsHolds
<1> QED
  BY <1>1, <1>2, <1>3, <1>4, PTL DEF Spec

-----------------------------------------------------------------------------
\* The limits of the caches.

Unique(s) == \A i, j \in DOMAIN s : s[i].hash = s[j].hash => i = j

BucketsInv ==
    /\ results \in 0 .. MaxResults
    /\ Len(parserCache) <= parserMax /\ Unique(parserCache)
    /\ row = [c \in Conns |-> row[c]]
    /\ \A c \in Conns : row[c] # <<>> => open[c] # <<>>

LEMMA KeepBounded ==
    ASSUME NEW s \in Seq(Buckets), Unique(s), NEW max \in Nat
    PROVE  Len(Keep(s, max)) <= max /\ Unique(Keep(s, max))
<1> DEFINE n == Len(s)
<1>1. n \in Nat /\ DOMAIN s = 1 .. n
  OBVIOUS
<1>2. CASE n > max
  <2> DEFINE t == SubSeq(s, n - max + 1, n)
  <2>1. Keep(s, max) = t
    BY <1>2 DEF Keep
  <2>2. Len(t) = max /\ DOMAIN t = 1 .. max /\ \A i \in 1 .. max : t[i] = s[n - max + i]
    BY <1>1, <1>2
  <2>3. \A i \in 1 .. max : n - max + i \in 1 .. n
    BY <1>1, <1>2
  <2> HIDE DEF t, n
  <2>4. ASSUME NEW i \in 1 .. max, NEW j \in 1 .. max, t[i].hash = t[j].hash PROVE i = j
    <3>1. s[n - max + i].hash = s[n - max + j].hash
      BY <2>2, <2>4
    <3>2. n - max + i = n - max + j
      BY <1>1, <2>3, <3>1 DEF Unique
    <3> QED
      BY <1>1, <3>2
  <2> QED
    BY <2>1, <2>2, <2>4 DEF Unique
<1>3. CASE ~(n > max)
  BY <1>1, <1>3 DEF Keep
<1> QED
  BY <1>2, <1>3

LEMMA BucketFound ==
    ASSUME NEW hash, parserCache \in Seq(Buckets)
    PROVE  IF Bucket(hash) = 0 THEN \A i \in DOMAIN parserCache : parserCache[i].hash # hash
           ELSE Bucket(hash) \in DOMAIN parserCache /\ parserCache[Bucket(hash)].hash = hash
<1> DEFINE I == {i \in 1 .. Len(parserCache) : parserCache[i].hash = hash}
<1>1. Bucket(hash) = IF I # {} THEN Min(I) ELSE 0
  BY DEF Bucket, SelectInSeq
<1>2. CASE I # {}
  <2>1. I \subseteq Nat /\ 0 \notin I
    OBVIOUS
  <2>2. \E x \in I : \A y \in I : x <= y
    <3> HIDE DEF I
    <3> QED
      BY <1>2, <2>1, Least
  <2>3. Min(I) \in I
    <3> HIDE DEF I
    <3> QED
      BY <2>2 DEF Min
  <2>4. Bucket(hash) \in I
    <3> HIDE DEF I
    <3> QED
      BY <1>1, <1>2, <2>3
  <2> QED
    BY <2>1, <2>4
<1>3. CASE I = {}
  <2>1. Bucket(hash) = 0
    BY <1>1, <1>3
  <2> QED
    BY <1>3, <2>1
<1> QED
  BY <1>2, <1>3

LEMMA Rest ==
    ASSUME NEW T, NEW s \in Seq(T), NEW k \in 1 .. Len(s)
    PROVE  LET t == SubSeq(s, k + 1, Len(s))
           IN  /\ t \in Seq(T) /\ Len(t) = Len(s) - k
               /\ \A i \in 1 .. Len(s) - k : t[i] = s[k + i]
<1> DEFINE n == Len(s)
           t == SubSeq(s, k + 1, n)
<1>1. n \in Nat /\ k \in Nat /\ k <= n /\ \A i \in 1 .. n : s[i] \in T
  OBVIOUS
<1>2. t \in Seq(T)
  BY <1>1
<1>3. Len(t) = n - k
  BY <1>1
<1>4. \A i \in 1 .. n - k : t[i] = s[k + i]
  BY <1>1
<1> QED
  BY <1>2, <1>3, <1>4

LEMMA UsedBounded ==
    ASSUME CacheInv, Unique(parserCache), NEW hash \in {"false", "function", "default"},
           NEW entries \in Seq(Entries)
    PROVE  Len(Used(hash, entries)) <= parserMax /\ Unique(Used(hash, entries))
<1> DEFINE k == Bucket(hash)
           n == Len(parserCache)
           others == IF k = 0 THEN parserCache ELSE RemoveAt(parserCache, k)
           b == [hash |-> hash, entries |-> entries]
<1>1. parserCache \in Seq(Buckets) /\ parserMax \in Nat
  BY DEF CacheInv
<1>2. IF k = 0 THEN \A i \in DOMAIN parserCache : parserCache[i].hash # hash
      ELSE k \in DOMAIN parserCache /\ parserCache[k].hash = hash
  BY <1>1, BucketFound
<1>3. n \in Nat /\ DOMAIN parserCache = 1 .. n
  BY <1>1
<1> HIDE DEF k
<1>4. /\ others \in Seq(Buckets) /\ Unique(others)
      /\ \A i \in DOMAIN others : others[i].hash # hash
  <2>1. CASE k = 0
    BY <1>1, <1>2, <2>1
  <2>2. CASE k # 0
    <3> DEFINE front == SubSeq(parserCache, 1, k - 1)
               back == SubSeq(parserCache, k + 1, n)
               rest == front \o back
    <3>1. k \in 1 .. n
      BY <1>2, <1>3, <2>2
    <3>2. /\ front \in Seq(Buckets) /\ Len(front) = k - 1
          /\ \A i \in 1 .. k - 1 : front[i] = parserCache[i]
      BY <1>1, <1>3, <3>1
    <3>3. /\ back \in Seq(Buckets) /\ Len(back) = n - k
          /\ \A i \in 1 .. n - k : back[i] = parserCache[k + i]
      BY <1>1, <3>1, Rest
    <3>4. others = rest
      BY <2>2 DEF RemoveAt
    <3> HIDE DEF front, back, n
    <3>5. /\ rest \in Seq(Buckets) /\ Len(rest) = (k - 1) + (n - k)
          /\ \A i \in 1 .. Len(rest) : rest[i] = IF i <= k - 1 THEN front[i] ELSE back[i - (k - 1)]
      <4>1. /\ rest \in Seq(Buckets) /\ Len(rest) = Len(front) + Len(back)
            /\ \A i \in 1 .. Len(rest) :
                  rest[i] = IF i <= Len(front) THEN front[i] ELSE back[i - Len(front)]
        <5>1. front \in Seq(Buckets) /\ back \in Seq(Buckets)
          BY <3>2, <3>3
        <5> QED
          BY <5>1, ConcatProperties DEF rest
      <4> HIDE DEF rest
      <4> QED
        BY <3>2, <3>3, <4>1
    <3>6. /\ Len(rest) = n - 1 /\ DOMAIN rest = 1 .. n - 1
          /\ \A i \in 1 .. n - 1 : rest[i] = parserCache[IF i < k THEN i ELSE i + 1]
      <4>1. Len(rest) = n - 1
        BY <1>3, <3>1, <3>5
      <4>2. ASSUME NEW i \in 1 .. n - 1 PROVE rest[i] = parserCache[IF i < k THEN i ELSE i + 1]
        <5>1. rest[i] = IF i <= k - 1 THEN front[i] ELSE back[i - (k - 1)]
          BY <3>5, <4>1, <4>2
        <5>2. CASE i < k
          <6>1. i \in 1 .. k - 1 /\ i <= k - 1
            BY <1>3, <3>1, <5>2
          <6> QED
            BY <3>2, <5>1, <5>2, <6>1
        <5>3. CASE ~(i < k)
          <6>1. i - (k - 1) \in 1 .. n - k /\ ~(i <= k - 1) /\ k + (i - (k - 1)) = i + 1
            BY <1>3, <3>1, <5>3
          <6> QED
            BY <3>3, <5>1, <5>3, <6>1
        <5> QED
          BY <5>2, <5>3
      <4>3. DOMAIN rest = 1 .. Len(rest)
        BY <3>5
      <4> QED
        BY <4>1, <4>2, <4>3
    <3> HIDE DEF rest
    <3> DEFINE at(i) == IF i < k THEN i ELSE i + 1
    <3>7. \A i \in 1 .. n - 1 : at(i) \in 1 .. n /\ at(i) # k
      BY <1>3, <3>1
    <3>8. \A i, j \in 1 .. n - 1 : at(i) = at(j) => i = j
      BY <1>3, <3>1
    <3>9. \A i \in 1 .. n - 1 : rest[i] = parserCache[at(i)]
      BY <3>6
    <3> HIDE DEF at
    <3>10. Unique(rest)
      BY <1>3, <3>6, <3>7, <3>8, <3>9 DEF Unique
    <3>11. ASSUME NEW i \in 1 .. n - 1 PROVE rest[i].hash # hash
      BY <1>2, <1>3, <2>2, <3>1, <3>7, <3>9 DEF Unique
    <3> HIDE DEF others
    <3> QED
      BY <3>4, <3>5, <3>6, <3>10, <3>11
  <2> HIDE DEF others
  <2> QED
    BY <2>1, <2>2
<1>5. b \in Buckets /\ b.hash = hash
  BY DEF Buckets
<1> HIDE DEF others, b
<1>6. Append(others, b) \in Seq(Buckets) /\ Unique(Append(others, b))
  <2> DEFINE m == Len(others)
             all == Append(others, b)
  <2>1. /\ m \in Nat /\ all \in Seq(Buckets) /\ DOMAIN all = 1 .. m + 1 /\ all[m + 1] = b
        /\ DOMAIN others = 1 .. m /\ \A i \in 1 .. m : all[i] = others[i]
    BY <1>4, <1>5
  <2>2. \A i \in 1 .. m + 1 : i \in 1 .. m \/ i = m + 1
    BY <2>1
  <2> HIDE DEF m, all
  <2>3. Unique(all)
    BY <1>4, <1>5, <2>1, <2>2 DEF Unique
  <2> QED
    BY <2>1, <2>3 DEF all
<1> DEFINE all == Append(others, b)
<1>7. Len(Keep(all, parserMax)) <= parserMax /\ Unique(Keep(all, parserMax))
  BY <1>1, <1>6, KeepBounded
<1> QED
  BY <1>7 DEF Used, others, b, k

LEMMA KeepsBuckets ==
    ASSUME OwnOptions, CacheInv, OpenInv, BucketsInv, [Next]_<<rowVars, sent>>
    PROVE  BucketsInv'
<1>1. CASE NextRows
  <2>1. ASSUME NEW q \in Queries, StartResult(q)
        PROVE  BucketsInv'
    <3> DEFINE c == Config[q.conn]
               got == getParser(q.proto, Cols(q), Options(q), c)
    <3>1. /\ parserCache' = IF q.static THEN parserCache ELSE got.cache
          /\ results < MaxResults /\ results' = results + 1
          /\ UNCHANGED <<parserMax, row>>
      BY <2>1 DEF StartResult, Options, Cols
    <3>2. \E hash \in {"false", "function", "default"}, entries \in Seq(Entries) :
             got.cache = Used(hash, entries)
      BY GotParser
    <3> HIDE DEF got
    <3>3. Len(parserCache') <= parserMax' /\ Unique(parserCache')
      BY <3>1, <3>2, UsedBounded DEF BucketsInv
    <3>4. results' \in 0 .. MaxResults
      BY <3>1, RowsAssumption DEF BucketsInv
    <3>5. \A d \in Conns : row'[d] # <<>> => open'[d] # <<>>
      <4>1. PICK r : open' = [open EXCEPT ![q.conn] = <<r>>]
        BY <2>1 DEF StartResult
      <4>2. \A d \in Conns : open'[d] = IF d = q.conn THEN <<r>> ELSE open[d]
        BY <4>1 DEF OpenInv
      <4> QED
        BY <3>1, <4>2 DEF BucketsInv
    <3> QED
      BY <3>1, <3>3, <3>4, <3>5 DEF BucketsInv, Unique
  <2>2. ASSUME NEW c \in Conns, ReadRow(c)
        PROVE  BucketsInv'
    <3>1. PICK r : row' = [row EXCEPT ![c] = <<r>>]
      BY <2>2 DEF ReadRow, RowComes, RowIs
    <3>2. open[c] # <<>> /\ UNCHANGED <<parserCache, parserMax, open, results>>
      BY <2>2 DEF ReadRow
    <3> QED
      BY <3>1, <3>2 DEF BucketsInv, Unique
  <2>3. ASSUME NEW c \in Conns, EndResult(c)
        PROVE  BucketsInv'
    BY <2>3 DEF EndResult, BucketsInv, Unique, OpenInv
  <2>4. ASSUME NEW zone \in DOMAIN Zones, SetTimezone(zone)
        PROVE  BucketsInv'
    BY <2>4 DEF SetTimezone, BucketsInv, Unique
  <2>5. ASSUME NEW max \in 1 .. MaxParsers, setMaxParserCache(max)
        PROVE  BucketsInv'
    <3>1. max \in Nat
      BY RowsAssumption
    <3>2. Len(Keep(parserCache, max)) <= max /\ Unique(Keep(parserCache, max))
      BY <3>1, KeepBounded DEF CacheInv, BucketsInv
    <3> QED
      BY <2>5, <3>2 DEF setMaxParserCache, BucketsInv, Unique
  <2>6. CASE clearParserCache
    BY <2>6 DEF clearParserCache, BucketsInv, Unique, CacheInv
  <2> QED
    BY <1>1, <2>1, <2>2, <2>3, <2>4, <2>5, <2>6 DEF NextRows
<1>2. CASE UNCHANGED rowVars
  BY <1>2 DEF rowVars, BucketsInv, Unique
<1> QED
  BY <1>1, <1>2 DEF Next

\* The caches stay within their limits, whatever limits the application sets,
\* no hash has two buckets, and a row belongs to a result set that is read.
THEOREM RowsTyped == OwnOptions => (Spec => []RowsTypeOK)
<1> SUFFICES ASSUME OwnOptions PROVE Spec => []RowsTypeOK
  OBVIOUS
<1> DEFINE Inv == CacheInv /\ OpenInv /\ ZoneInv /\ BucketsInv
<1>1. Init => Inv
  <2>1. Init => CacheInv /\ OpenInv
    BY RowsAssumption DEF Init, InitRows, CacheInv, OpenInv
  <2>2. Init => BucketsInv
    BY RowsAssumption DEF Init, InitRows, BucketsInv, Unique
  <2> QED
    BY <2>1, <2>2, InitZone
<1>2. Inv /\ [Next]_<<rowVars, sent>> => Inv'
  BY KeepsInv, KeepsZone, KeepsBuckets
<1>3. Inv => RowsTypeOK
  BY DEF CacheInv, ZoneInv, BucketsInv, Unique, Bounded, RowsTypeOK
<1> QED
  BY <1>1, <1>2, <1>3, PTL DEF Spec
-----------------------------------------------------------------------------
\* Requests: what is refused.

LEMMA DigitsInt == ASSUME NEW s \in Seq(Nat) PROVE SignOf(s) * Natural(Body(s)) \in Int
<1>1. Body(s) \in Seq(Nat)
  BY DEF Body
<1>2. SignOf(s) \in Int
  BY DEF SignOf
<1> QED
  BY <1>1, <1>2, NaturalInt

\* The integers of so many bytes, with the sign and without.
LEMMA Widths == ASSUME NEW type \in DOMAIN INTEGER_BYTES
                PROVE  /\ INTEGER_BYTES[type] \in {1, 2, 4, 8}
                       /\ INTEGER_BYTES[type] = 8 <=> type = "LONGLONG"
BY DEF INTEGER_BYTES

LEMMA Spans == ASSUME NEW n \in {1, 2, 4} PROVE Byte ^ n \in {20, 400, 160000}
<1>1. 20 ^ 1 = 20
  OBVIOUS
<1>2. 20 ^ 2 = 400
  OBVIOUS
<1>3. 20 ^ 4 = 160000
  OBVIOUS
<1>4. CASE n = 1
  BY <1>1, <1>4 DEF Byte
<1>5. CASE n = 2
  BY <1>2, <1>5 DEF Byte
<1>6. CASE n = 4
  BY <1>3, <1>6 DEF Byte
<1> QED
  BY <1>4, <1>5, <1>6

\* An integer fits a type just when it is in the range of the type.
LEMMA FitsRange ==
    ASSUME NEW type \in DOMAIN INTEGER_BYTES, NEW n \in Int, NEW unsigned \in BOOLEAN
    PROVE  LET all == Byte ^ INTEGER_BYTES[type]
           IN  Fits(n, INTEGER_BYTES[type], unsigned) <=>
                 ~ \/ unsigned /\ n < 0
                   \/ type # "LONGLONG" /\ unsigned /\ n >= all
                   \/ type # "LONGLONG" /\ ~unsigned /\ n \notin -(all \div 2) .. ((all \div 2) - 1)
<1> DEFINE w == INTEGER_BYTES[type]
           all == Byte ^ w
           Out == \/ unsigned /\ n < 0
                  \/ type # "LONGLONG" /\ unsigned /\ n >= all
                  \/ type # "LONGLONG" /\ ~unsigned /\ n \notin -(all \div 2) .. ((all \div 2) - 1)
<1>1. w \in {1, 2, 4, 8} /\ (w = 8 <=> type = "LONGLONG")
  BY Widths
<1> HIDE DEF w
<1>2. Fits(n, w, unsigned) <=> ~Out
  <2>1. CASE w = 8
    BY <1>1, <2>1 DEF Fits
  <2>2. CASE w # 8
    <3>1. w \in {1, 2, 4} /\ type # "LONGLONG"
      BY <1>1, <2>2
    <3>2. all \in {20, 400, 160000}
      BY <3>1, Spans
    <3>3. Fits(n, w, unsigned) <=>
             /\ unsigned => n >= 0
             /\ IF unsigned THEN n < all ELSE 2 * n >= -all /\ 2 * n < all
      BY <3>1 DEF Fits
    <3> HIDE DEF all
    <3>4. 2 * n >= -all /\ 2 * n < all <=> n \in -(all \div 2) .. ((all \div 2) - 1)
      BY <3>2
    <3> QED
      BY <3>1, <3>2, <3>3, <3>4
  <2> QED
    BY <2>1, <2>2
<1> QED
  BY <1>2 DEF w

LEMMA ToInteger ==
    ASSUME NEW v, IsValue(v)
    PROVE  /\ toInteger(v) = <<>> \/ \E n \in Int : toInteger(v) = <<n>>
           /\ toInteger(v) # <<>> => Is(v, "num") \/ Is(v, "bigint") \/ Is(v, "bool")
                                     \/ (Is(v, "str") /\ IsDigits(v.str))
<1>1. PICK kind \in Kinds : DOMAIN v = {kind}
  BY DEF IsValue
<1>2. CASE kind = "bigint"
  BY <1>1, <1>2 DEF toInteger, Is, IsValue
<1>3. CASE kind = "bool"
  BY <1>1, <1>3 DEF toInteger, Is
<1>4. CASE kind = "num"
  <2>1. v.num \in Int
    BY <1>1, <1>4 DEF IsValue, Is
  <2>2. toInteger(v) = IF Safe(v.num) THEN <<v.num>> ELSE <<>>
    BY <1>1, <1>4 DEF toInteger, Is
  <2> QED
    BY <1>1, <1>4, <2>1, <2>2 DEF Is
<1>5. CASE kind = "str"
  <2>1. v.str \in Seq(Nat)
    BY <1>1, <1>5 DEF IsValue, Is
  <2>2. toInteger(v) = IF v.str = <<>> THEN <<0>>
                       ELSE IF IsDigits(v.str) THEN <<SignOf(v.str) * Natural(Body(v.str))>> ELSE <<>>
    BY <1>1, <1>5 DEF toInteger, Is
  <2>3. v.str = <<>> => IsDigits(v.str)
    BY DEF IsDigits
  <2>4. SignOf(v.str) * Natural(Body(v.str)) \in Int
    BY <2>1, DigitsInt
  <2> QED
    BY <1>1, <1>5, <2>2, <2>3, <2>4 DEF Is
<1>6. CASE kind \notin {"bigint", "bool", "num", "str"}
  BY <1>1, <1>6 DEF toInteger, Is
<1> QED
  BY <1>2, <1>3, <1>4, <1>5, <1>6

LEMMA EncodedSome == ASSUME NEW type, NEW unsigned, NEW length, NEW bytes
                     PROVE Encoded(type, unsigned, length, bytes) # <<>>
BY DEF Encoded, Parameter

LEMMA IntegerRefused ==
    ASSUME NEW v, IsValue(v), NEW type \in DOMAIN INTEGER_BYTES, NEW unsigned
    PROVE  integerEncoder(v, type, unsigned) = <<>> <=>
             toInteger(v) = <<>> \/ ~Fits(toInteger(v)[1], INTEGER_BYTES[type], unsigned)
<1> DEFINE n == toInteger(v)
<1>1. CASE n = <<>>
  BY <1>1 DEF integerEncoder, checkedInteger, Unless
<1>2. CASE n # <<>>
  <2>1. checkedInteger(v, type, unsigned) =
          IF Fits(n[1], INTEGER_BYTES[type], unsigned) THEN <<n[1]>> ELSE <<>>
    BY <1>2 DEF checkedInteger, Unless
  <2> HIDE DEF n
  <2>2. CASE Fits(n[1], INTEGER_BYTES[type], unsigned)
    <3>1. checkedInteger(v, type, unsigned) = <<n[1]>> /\ <<n[1]>> # <<>>
      BY <2>1, <2>2
    <3>2. integerEncoder(v, type, unsigned) =
            Encoded(type, unsigned, INTEGER_BYTES[type],
                    IntegerBytes(checkedInteger(v, type, unsigned)[1], INTEGER_BYTES[type]))
      BY <3>1 DEF integerEncoder, Unless
    <3> QED
      BY <1>2, <2>2, <3>2, EncodedSome DEF n
  <2>3. CASE ~Fits(n[1], INTEGER_BYTES[type], unsigned)
    BY <1>2, <2>1, <2>3 DEF integerEncoder, Unless, n
  <2> QED
    BY <2>2, <2>3
<1> QED
  BY <1>1, <1>2

LEMMA TimeRefused == ASSUME NEW v
                     PROVE  /\ timeEncoder(v) = <<>> <=> toTimeParts(v) = <<>>
                            /\ Is(v, "num") => toTimeParts(v) # <<>>
<1>1. timeEncoder(v) = IF toTimeParts(v) = <<>> THEN <<>>
                       ELSE Encoded("TIME", FALSE, timeLength(toTimeParts(v)[1]),
                                    writeTime(toTimeParts(v)[1]))
  BY DEF timeEncoder, Unless
<1>2. Is(v, "num") => toTimeParts(v) # <<>>
  BY DEF toTimeParts
<1> QED
  BY <1>1, <1>2, EncodedSome

LEMMA TemporalRefused == ASSUME NEW v, NEW type, NEW timezone
                         PROVE  temporalEncoder(v, type, timezone) = <<>> <=> ~Is(v, "date")
BY EncodedSome DEF temporalEncoder

LEMMA TextSent == ASSUME NEW v, NEW type, NEW s
                  PROVE  /\ LengthCodedParameter(type, s) # <<>>
                         /\ lengthCodedEncoder(v, type) # <<>> /\ jsonEncoder(v) # <<>>
BY EncodedSome DEF LengthCodedParameter, lengthCodedEncoder, jsonEncoder

\* The encoders of the supported types.
LEMMA Encoders ==
    ASSUME NEW v, NEW type \in SUPPORTED, type # "NULL", NEW unsigned, NEW timezone
    PROVE  /\ type \in DOMAIN INTEGER_BYTES =>
                 encoderFor(v, type, unsigned, timezone) = integerEncoder(v, type, unsigned)
           /\ type \in TEMPORAL_TYPES =>
                 /\ type \notin DOMAIN INTEGER_BYTES
                 /\ encoderFor(v, type, unsigned, timezone) = temporalEncoder(v, type, timezone)
           /\ type = "TIME" =>
                 /\ type \notin DOMAIN INTEGER_BYTES \union TEMPORAL_TYPES
                 /\ encoderFor(v, type, unsigned, timezone) = timeEncoder(v)
           /\ type \notin DOMAIN INTEGER_BYTES \union TEMPORAL_TYPES \union {"TIME"} =>
                 encoderFor(v, type, unsigned, timezone) # <<>>
<1> DEFINE e == encoderFor(v, type, unsigned, timezone)
<1>0. DOMAIN INTEGER_BYTES = {"TINY", "SHORT", "YEAR", "INT24", "LONG", "LONGLONG"}
  BY DEF INTEGER_BYTES
<1>1. CASE type \in DOMAIN INTEGER_BYTES
  <2>1. e = integerEncoder(v, type, unsigned)
    BY <1>0, <1>1 DEF encoderFor, TEMPORAL_TYPES, LENGTH_CODED
  <2> QED
    BY <1>0, <1>1, <2>1 DEF TEMPORAL_TYPES
<1>2. CASE type \in TEMPORAL_TYPES
  <2>1. e = temporalEncoder(v, type, timezone)
    BY <1>0, <1>2 DEF encoderFor, TEMPORAL_TYPES, LENGTH_CODED
  <2> QED
    BY <1>0, <1>2, <2>1 DEF TEMPORAL_TYPES
<1>3. CASE type = "TIME"
  <2>1. e = timeEncoder(v)
    BY <1>0, <1>3 DEF encoderFor, TEMPORAL_TYPES, LENGTH_CODED
  <2> QED
    BY <1>0, <1>3, <2>1 DEF TEMPORAL_TYPES
<1>4. CASE type = "DOUBLE" \/ type = "FLOAT"
  <2>1. e # <<>>
    <3>1. \/ e = Encoded(type, unsigned, 8, writeDouble(v))
          \/ e = Encoded(type, unsigned, 4, writeFloat(v))
      BY <1>0, <1>4 DEF encoderFor, TEMPORAL_TYPES, LENGTH_CODED
    <3> QED
      BY <3>1, EncodedSome
  <2> QED
    BY <1>0, <1>4, <2>1 DEF TEMPORAL_TYPES
<1>5. CASE type = "JSON"
  <2>1. e = jsonEncoder(v)
    BY <1>0, <1>5 DEF encoderFor, TEMPORAL_TYPES, LENGTH_CODED
  <2> QED
    BY <1>0, <1>5, <2>1, TextSent DEF TEMPORAL_TYPES
<1>6. CASE type \in LENGTH_CODED
  <2>1. e = lengthCodedEncoder(v, type)
    BY <1>0, <1>6 DEF encoderFor, TEMPORAL_TYPES, LENGTH_CODED
  <2> QED
    BY <1>0, <1>6, <2>1, TextSent DEF TEMPORAL_TYPES, LENGTH_CODED
<1> QED
  BY <1>1, <1>2, <1>3, <1>4, <1>5, <1>6 DEF SUPPORTED

\* A parameter with a type is refused just when no bytes convey it.
LEMMA TypedRefused ==
    ASSUME NEW p, Is(p, "typed"), IsParameter(p), NEW timezone, NEW jsonAsString
    PROVE  encodeTypedParameter(p, timezone, jsonAsString) = <<>> <=> Unsendable(p)
<1> DEFINE v == p.value
           e == encoderFor(v, p.typed, p.unsigned, timezone)
<1>1. p.typed \in SUPPORTED /\ p.unsigned \in BOOLEAN /\ IsValue(v)
  BY DEF IsParameter
<1>2. CASE v = Null
  BY <1>2 DEF encodeTypedParameter, Parameter, Unsendable
<1>3. CASE v # Null /\ p.typed = "NULL"
  <2>1. "NULL" \notin DOMAIN INTEGER_BYTES \union TEMPORAL_TYPES
    BY DEF INTEGER_BYTES, TEMPORAL_TYPES
  <2>2. ~Unsendable(p)
    BY <1>3, <2>1 DEF Unsendable
  <2> QED
    BY <1>3, <2>2 DEF encodeTypedParameter, Parameter
<1>4. CASE v # Null /\ p.typed # "NULL"
  <2>1. encodeTypedParameter(p, timezone, jsonAsString) = <<>> <=> e = <<>>
    BY <1>4 DEF encodeTypedParameter, Unless
  <2>2. /\ p.typed \in DOMAIN INTEGER_BYTES => e = integerEncoder(v, p.typed, p.unsigned)
        /\ p.typed \in TEMPORAL_TYPES =>
             p.typed \notin DOMAIN INTEGER_BYTES /\ e = temporalEncoder(v, p.typed, timezone)
        /\ p.typed = "TIME" => p.typed \notin DOMAIN INTEGER_BYTES \union TEMPORAL_TYPES /\ e = timeEncoder(v)
        /\ p.typed \notin DOMAIN INTEGER_BYTES \union TEMPORAL_TYPES \union {"TIME"} => e # <<>>
    <3> DEFINE t == p.typed
               u == p.unsigned
    <3>1. t \in SUPPORTED /\ t # "NULL"
      BY <1>1, <1>4
    <3> HIDE DEF t, u, v
    <3>2. /\ t \in DOMAIN INTEGER_BYTES => encoderFor(v, t, u, timezone) = integerEncoder(v, t, u)
          /\ t \in TEMPORAL_TYPES =>
                t \notin DOMAIN INTEGER_BYTES /\ encoderFor(v, t, u, timezone) = temporalEncoder(v, t, timezone)
          /\ t = "TIME" => t \notin DOMAIN INTEGER_BYTES \union TEMPORAL_TYPES
                           /\ encoderFor(v, t, u, timezone) = timeEncoder(v)
          /\ t \notin DOMAIN INTEGER_BYTES \union TEMPORAL_TYPES \union {"TIME"} =>
                encoderFor(v, t, u, timezone) # <<>>
      BY <3>1, Encoders, Zenon
    <3> QED
      BY <3>2 DEF t, u, v
  <2> HIDE DEF e
  <2>3. CASE p.typed \in DOMAIN INTEGER_BYTES
    <3> DEFINE n == toInteger(v)
               all == Byte ^ INTEGER_BYTES[p.typed]
               Known == \/ Is(v, "num") \/ Is(v, "bigint") \/ Is(v, "bool")
                        \/ (Is(v, "str") /\ IsDigits(v.str))
               Out == \/ n = <<>>
                      \/ p.unsigned /\ n[1] < 0
                      \/ p.typed # "LONGLONG" /\ p.unsigned /\ n[1] >= all
                      \/ p.typed # "LONGLONG" /\ ~p.unsigned
                           /\ n[1] \notin -(all \div 2) .. ((all \div 2) - 1)
    <3>1. "TIME" \notin DOMAIN INTEGER_BYTES /\ \A t \in TEMPORAL_TYPES : t \notin DOMAIN INTEGER_BYTES
      BY DEF INTEGER_BYTES, TEMPORAL_TYPES
    <3>2. Unsendable(p) <=> ~Known \/ Out
      <4>1. p.typed # "TIME" /\ p.typed \notin TEMPORAL_TYPES
        BY <2>3, <3>1
      <4> QED
        BY <1>4, <2>3, <4>1 DEF Unsendable
    <3>3. e = <<>> <=> n = <<>> \/ ~Fits(n[1], INTEGER_BYTES[p.typed], p.unsigned)
      BY <1>1, <2>2, <2>3, IntegerRefused
    <3>4. /\ n = <<>> \/ n[1] \in Int
          /\ n # <<>> => Known
      BY <1>1, ToInteger
    <3>5. CASE n = <<>>
      BY <2>1, <3>2, <3>3, <3>5
    <3>6. CASE n # <<>>
      <4>1. Fits(n[1], INTEGER_BYTES[p.typed], p.unsigned) <=> ~Out
        <5>1. n[1] \in Int
          BY <3>4, <3>6
        <5> HIDE DEF n
        <5> QED
          BY <1>1, <2>3, <3>6, <5>1, FitsRange
      <4> HIDE DEF n, Known, Out
      <4> QED
        BY <2>1, <3>2, <3>3, <3>4, <3>6, <4>1
    <3> QED
      BY <3>5, <3>6
  <2>4. CASE p.typed \in TEMPORAL_TYPES
    <3>1. p.typed # "TIME"
      BY <2>4 DEF TEMPORAL_TYPES
    <3>2. Unsendable(p) <=> ~Is(v, "date")
      BY <1>4, <2>2, <2>4, <3>1 DEF Unsendable
    <3> QED
      BY <2>1, <2>2, <2>4, <3>2, TemporalRefused
  <2>5. CASE p.typed = "TIME"
    <3>1. Unsendable(p) <=> ~Is(v, "num") /\ toTimeParts(v) = <<>>
      BY <1>4, <2>2, <2>5 DEF Unsendable
    <3> QED
      BY <2>1, <2>2, <2>5, <3>1, TimeRefused
  <2>6. CASE p.typed \notin DOMAIN INTEGER_BYTES \union TEMPORAL_TYPES \union {"TIME"}
    BY <2>1, <2>2, <2>6 DEF Unsendable
  <2> QED
    BY <2>3, <2>4, <2>5, <2>6
<1> QED
  BY <1>2, <1>3, <1>4

\* A value without a type is guessed, unless it is undefined.
LEMMA GuessedRefused ==
    ASSUME NEW v, IsValue(v), NEW timezone, NEW jsonAsString
    PROVE  Guessed(v, timezone, jsonAsString) = <<>> <=> Is(v, "undefined")
<1>1. PICK kind \in Kinds : DOMAIN v = {kind}
  BY DEF IsValue
<1>2. \A a, b, c, d : Encoded(a, b, c, d) # <<>> /\ LengthCodedParameter(a, b) # <<>>
                      /\ Parameter(a, b, TRUE, c, d) # <<>>
  BY EncodedSome, TextSent DEF Parameter
<1>3. CASE kind = "undefined"
  BY <1>1, <1>3 DEF Guessed, Is
<1>4. CASE kind = "null"
  BY <1>1, <1>2, <1>4 DEF Guessed, Is
<1>5. CASE kind \in {"num", "dbl"}
  BY <1>1, <1>2, <1>5 DEF Guessed, Is
<1>6. CASE kind = "bool"
  BY <1>1, <1>2, <1>6 DEF Guessed, Is
<1>7. CASE kind = "date"
  BY <1>1, <1>2, <1>7 DEF Guessed, Is
<1>8. CASE kind \in {"json", "buf"}
  BY <1>1, <1>2, <1>8 DEF Guessed, Is
<1>9. CASE kind \in {"bigint", "str"}
  BY <1>1, <1>2, <1>9 DEF Guessed, Is
<1> QED
  BY <1>3, <1>4, <1>5, <1>6, <1>7, <1>8, <1>9 DEF Kinds

\* The type that the server reports for a placeholder is taken only for what
\* can be sent in it.
LEMMA HintSent ==
    ASSUME NEW v, IsValue(v), NEW type, NEW unsigned, integerHint(v, type, unsigned) # <<>>,
           NEW timezone, NEW jsonAsString
    PROVE  /\ encodeTypedParameter(integerHint(v, type, unsigned)[1], timezone, jsonAsString) # <<>>
           /\ ~Is(v, "undefined")
<1> DEFINE n == IF Is(v, "bigint") \/ Is(v, "bool") \/ Is(v, "num") THEN toInteger(v) ELSE <<>>
           x == [bigint |-> n[1]]
           p == Typed(type, x, unsigned)
<1>1. /\ type \in HINT_UPGRADABLE /\ n # <<>> /\ Fits(n[1], INTEGER_BYTES[type], unsigned)
      /\ integerHint(v, type, unsigned) = <<p>>
  BY DEF integerHint
<1>2. n[1] \in Int /\ ~Is(v, "undefined")
  <2>1. Is(v, "bigint") \/ Is(v, "bool") \/ Is(v, "num")
    BY <1>1
  <2>2. n[1] \in Int
    BY <1>1, <2>1, ToInteger
  <2>3. ~Is(v, "undefined")
    BY <2>1 DEF IsValue, Is, Kinds
  <2> QED
    BY <2>2, <2>3
<1> HIDE DEF n
<1>3. type \in DOMAIN INTEGER_BYTES /\ type \in SUPPORTED /\ type # "NULL"
  BY <1>1 DEF HINT_UPGRADABLE, INTEGER_BYTES, SUPPORTED
<1>4. IsValue(x) /\ toInteger(x) = <<n[1]>> /\ x # Null
  <2>1. DOMAIN x = {"bigint"}
    OBVIOUS
  <2>2. x.bigint = n[1]
    OBVIOUS
  <2>3. IsValue(x)
    BY <1>2, <2>1, <2>2 DEF IsValue, Is, Kinds
  <2>4. toInteger(x) = <<n[1]>>
    BY <2>1, <2>2 DEF toInteger, Is
  <2>5. DOMAIN Null = {"null"}
    BY DEF Null
  <2> QED
    BY <2>1, <2>3, <2>4, <2>5
<1> HIDE DEF x
<1>5. p.typed = type /\ p.value = x /\ p.unsigned = unsigned
  BY DEF Typed
<1> HIDE DEF p
<1>6. encoderFor(x, type, unsigned, timezone) = integerEncoder(x, type, unsigned)
  BY <1>3, Encoders
<1>7. integerEncoder(x, type, unsigned) # <<>>
  BY <1>1, <1>3, <1>4, IntegerRefused
<1>8. encodeTypedParameter(p, timezone, jsonAsString) # <<>>
  BY <1>3, <1>4, <1>5, <1>6, <1>7 DEF encodeTypedParameter, Unless
<1> QED
  BY <1>1, <1>2, <1>8

\* toParameter() throws just for what cannot be sent, whatever the hint.
LEMMA ParameterRefused ==
    ASSUME NEW v, IsParameter(v), NEW timezone, NEW jsonAsString, NEW hint
    PROVE  toParameter(v, timezone, jsonAsString, hint) = <<>> <=> Unsendable(v)
<1>1. CASE Is(v, "typed")
  <2>1. Hinted(v, hint) = <<v>>
    BY <1>1 DEF Hinted
  <2>2. toParameter(v, timezone, jsonAsString, hint) = encodeTypedParameter(v, timezone, jsonAsString)
    BY <2>1 DEF toParameter
  <2> QED
    BY <1>1, <2>2, TypedRefused
<1>2. CASE ~Is(v, "typed")
  <2>1. IsValue(v) /\ (Unsendable(v) <=> Is(v, "undefined"))
    BY <1>2 DEF IsParameter, Unsendable
  <2>2. CASE Hinted(v, hint) = <<>>
    BY <2>1, <2>2, GuessedRefused DEF toParameter
  <2>3. CASE Hinted(v, hint) # <<>>
    <3>1. Hinted(v, hint) = integerHint(v, hint[1].type, hint[1].unsigned)
      BY <1>2, <2>3 DEF Hinted
    <3>2. toParameter(v, timezone, jsonAsString, hint) =
            encodeTypedParameter(integerHint(v, hint[1].type, hint[1].unsigned)[1], timezone, jsonAsString)
      BY <2>3, <3>1 DEF toParameter
    <3> QED
      BY <2>1, <2>3, <3>1, <3>2, HintSent
  <2> QED
    BY <2>2, <2>3
<1> QED
  BY <1>1, <1>2

\* No packet is made just when one of the values threw.
LEMMA QueryRefused ==
    ASSUME NEW r \in Requests
    PROVE  queryToPacket(r) = <<>> <=>
             r.useAttributes /\ \E i \in DOMAIN r.attributes : Unsendable(r.attributes[i].value)
<1> DEFINE encoded == [i \in DOMAIN r.attributes |->
                          toParameter(r.attributes[i].value, "local", FALSE, <<>>)]
<1>0. r.useAttributes \in BOOLEAN
  BY RequestsAssumption
<1>1. CASE ~r.useAttributes \/ r.attributes = <<>>
  <2>1. queryToPacket(r) # <<>>
    BY <1>1 DEF queryToPacket, PlainQuery
  <2>2. r.attributes = <<>> => DOMAIN r.attributes = {}
    OBVIOUS
  <2> QED
    BY <1>1, <2>1, <2>2
<1>2. CASE r.useAttributes /\ r.attributes # <<>>
  <2>1. queryToPacket(r) = <<>> <=> \E i \in DOMAIN encoded : encoded[i] = <<>>
    <3>1. queryToPacket(r) = IF \E i \in DOMAIN encoded : encoded[i] = <<>> THEN <<>>
                             ELSE QueryPacket(r, [i \in DOMAIN encoded |-> encoded[i][1]])
      BY <1>2 DEF queryToPacket, AllEncoded
    <3>2. \A params : QueryPacket(r, params) # <<>>
      BY DEF QueryPacket
    <3> HIDE DEF encoded
    <3> QED
      BY <3>1, <3>2
  <2>2. \A i \in DOMAIN r.attributes :
          toParameter(r.attributes[i].value, "local", FALSE, <<>>) = <<>> <=> Unsendable(r.attributes[i].value)
    BY RequestsAssumption, ParameterRefused
  <2> QED
    BY <1>2, <2>1, <2>2
<1> QED
  BY <1>0, <1>1, <1>2

LEMMA ExecuteRefused ==
    ASSUME NEW r \in Requests
    PROVE  executeToPacket(r) = <<>> <=>
             \/ \E i \in DOMAIN r.params : Unsendable(r.params[i])
             \/ r.useAttributes /\ \E i \in DOMAIN r.attributes : Unsendable(r.attributes[i].value)
<1> DEFINE s == [i \in DOMAIN r.params |-> toParameter(r.params[i], r.timezone, r.jsonAsString, r.hints[i])]
           u == [i \in DOMAIN r.attributes |->
                    toParameter(r.attributes[i].value, r.timezone, FALSE, <<>>)]
           t == IF ~r.useAttributes THEN <<>> ELSE u
           encoded == s \o t
           N == Len(r.params)
           M == Len(r.attributes)
           T == {s[i] : i \in DOMAIN r.params} \union {u[i] : i \in DOMAIN r.attributes}
<1>0. /\ r.useAttributes \in BOOLEAN
      /\ N \in Nat /\ DOMAIN r.params = 1 .. N
      /\ M \in Nat /\ DOMAIN r.attributes = 1 .. M
  BY RequestsAssumption DEF IsList
<1>1. executeToPacket(r) = <<>> <=> \E i \in DOMAIN encoded : encoded[i] = <<>>
  <2>1. executeToPacket(r) = IF \E i \in DOMAIN encoded : encoded[i] = <<>> THEN <<>>
                             ELSE ExecutePacket(r, [i \in DOMAIN encoded |-> encoded[i][1]])
    BY DEF executeToPacket, AllEncoded
  <2>2. \A params : ExecutePacket(r, params) # <<>>
    BY DEF ExecutePacket
  <2> HIDE DEF encoded
  <2> QED
    BY <2>1, <2>2
<1>2. \A i \in DOMAIN r.params : s[i] = <<>> <=> Unsendable(r.params[i])
  <2>1. \A i \in DOMAIN r.params : IsParameter(r.params[i])
    BY RequestsAssumption
  <2> QED
    BY <2>1, ParameterRefused
<1>3. \A i \in DOMAIN r.attributes : u[i] = <<>> <=> Unsendable(r.attributes[i].value)
  <2>1. \A i \in DOMAIN r.attributes : IsParameter(r.attributes[i].value)
    BY RequestsAssumption
  <2> QED
    BY <2>1, ParameterRefused
<1>4. s \in Seq(T) /\ Len(s) = N /\ u \in Seq(T) /\ Len(u) = M
  <2>1. s \in [1 .. N -> T] /\ u \in [1 .. M -> T]
    BY <1>0
  <2> HIDE DEF s, u, T
  <2> QED
    BY <1>0, <2>1
<1>5. DOMAIN s = DOMAIN r.params /\ DOMAIN u = DOMAIN r.attributes
  OBVIOUS
<1> HIDE DEF s, u, T
<1>6. (\E i \in DOMAIN encoded : encoded[i] = <<>>) <=>
        (\E i \in DOMAIN s : s[i] = <<>>) \/ (\E i \in DOMAIN t : t[i] = <<>>)
  <2>1. t \in Seq(T)
    BY <1>4
  <2> HIDE DEF t
  <2>2. /\ DOMAIN encoded = 1 .. Len(s) + Len(t) /\ Len(s) \in Nat /\ Len(t) \in Nat
        /\ DOMAIN s = 1 .. Len(s) /\ DOMAIN t = 1 .. Len(t)
        /\ \A i \in 1 .. Len(s) + Len(t) : encoded[i] = IF i <= Len(s) THEN s[i] ELSE t[i - Len(s)]
    <3>1. s \in Seq(T)
      BY <1>4
    <3>2. Len(encoded) = Len(s) + Len(t) /\ encoded \in Seq(T)
      BY <2>1, <3>1
    <3>3. \A i \in 1 .. Len(s) + Len(t) : encoded[i] = IF i <= Len(s) THEN s[i] ELSE t[i - Len(s)]
      BY <2>1, <3>1, ConcatProperties
    <3> HIDE DEF encoded
    <3> QED
      BY <2>1, <3>1, <3>2, <3>3
  <2> HIDE DEF encoded
  <2>3. ASSUME NEW i \in DOMAIN t PROVE Len(s) + i \in DOMAIN encoded /\ encoded[Len(s) + i] = t[i]
    BY <2>2
  <2>4. ASSUME NEW i \in DOMAIN encoded, i > Len(s) PROVE i - Len(s) \in DOMAIN t
    BY <2>2, <2>4
  <2>5. \A i \in DOMAIN s : i \in DOMAIN encoded /\ encoded[i] = s[i]
    BY <2>2
  <2>6. \A i \in DOMAIN encoded : i <= Len(s) => i \in DOMAIN s
    BY <2>2
  <2>7. \A i \in DOMAIN encoded : i <= Len(s) \/ i > Len(s)
    BY <2>2
  <2> QED
    BY <2>2, <2>3, <2>4, <2>5, <2>6, <2>7
<1> QED
  BY <1>0, <1>1, <1>2, <1>3, <1>5, <1>6

\* A request is refused just for one of its values, and whatever types the
\* server reports for the placeholders: Query and Execute make no packet only
\* then, and what toParameter() accepts is not cut.
THEOREM RefusedForCauseHolds == Spec => []RefusedForCause
<1>1. Init => RefusedForCause
  BY DEF Init, InitRequests, RefusedForCause
<1>2. RefusedForCause /\ [Next]_<<rowVars, sent>> => RefusedForCause'
  <2> SUFFICES ASSUME RefusedForCause, [Next]_<<rowVars, sent>> PROVE RefusedForCause'
    OBVIOUS
  <2>1. CASE UNCHANGED sent
    BY <2>1 DEF RefusedForCause
  <2>2. ASSUME NEW r \in Requests, Send(r) PROVE RefusedForCause'
    <3>1. /\ sent' = <<[request |-> r, packet |-> toPacket(r)]>>
          /\ sent'[1].request = r /\ sent'[1].packet = toPacket(r)
      BY <2>2 DEF Send
    <3>2. r.command \in {"query", "execute"}
      BY RequestsAssumption
    <3>3. toPacket(r) = <<>> <=>
            \/ r.command = "execute" /\ \E i \in DOMAIN r.params : Unsendable(r.params[i])
            \/ r.useAttributes /\ \E i \in DOMAIN r.attributes : Unsendable(r.attributes[i].value)
      BY <3>2, QueryRefused, ExecuteRefused DEF toPacket
    <3> QED
      BY <3>1, <3>3 DEF RefusedForCause
  <2> QED
    BY <2>1, <2>2 DEF Next
<1> QED
  BY <1>1, <1>2, PTL DEF Spec

-----------------------------------------------------------------------------
\* What the server reads.  A piece of a request sits in it where it was
\* written, and what was written there is read from there.

Sits(b, o, s) ==
    /\ o \in Pos /\ Len(s) \in Nat /\ o + Len(s) - 1 <= Len(b)
    /\ \A k \in 1 .. Len(s) : b[o + k - 1] = s[k]

LEMMA SitsWhole == ASSUME NEW b \in Seq(Nat) PROVE Sits(b, 1, b)
<1>1. Len(b) \in Nat /\ \A k \in 1 .. Len(b) : 1 + k - 1 = k
  OBVIOUS
<1> QED
  BY <1>1 DEF Sits, Pos

LEMMA SitsParts ==
    ASSUME NEW b, Len(b) \in Nat, NEW o \in Pos, NEW s \in Seq(Nat), NEW t \in Seq(Nat), Sits(b, o, s \o t)
    PROVE  Sits(b, o, s) /\ o + Len(s) \in Pos /\ Sits(b, o + Len(s), t)
<1> DEFINE st == s \o t
<1>1. /\ Len(s) \in Nat /\ Len(t) \in Nat /\ Len(st) = Len(s) + Len(t)
      /\ \A k \in 1 .. Len(s) : st[k] = s[k]
      /\ \A k \in 1 .. Len(t) : st[Len(s) + k] = t[k]
  <2>1. /\ Len(st) = Len(s) + Len(t)
        /\ \A k \in 1 .. Len(s) + Len(t) : st[k] = IF k <= Len(s) THEN s[k] ELSE t[k - Len(s)]
    BY ConcatProperties
  <2>2. Len(s) \in Nat /\ Len(t) \in Nat
    OBVIOUS
  <2> HIDE DEF st
  <2>3. \A k \in 1 .. Len(t) : Len(s) + k \in 1 .. Len(s) + Len(t) /\ ~(Len(s) + k <= Len(s))
                               /\ Len(s) + k - Len(s) = k
    BY <2>2
  <2>4. \A k \in 1 .. Len(s) : k \in 1 .. Len(s) + Len(t) /\ k <= Len(s)
    BY <2>2
  <2> QED
    BY <2>1, <2>2, <2>3, <2>4
<1>2. /\ o + Len(st) - 1 <= Len(b) /\ \A k \in 1 .. Len(st) : b[o + k - 1] = st[k]
  BY DEF Sits
<1> HIDE DEF st
<1>3. Sits(b, o, s)
  <2>1. \A k \in 1 .. Len(s) : k \in 1 .. Len(st)
    BY <1>1
  <2>2. o + Len(s) - 1 <= Len(b)
    BY <1>1, <1>2 DEF Pos
  <2> QED
    BY <1>1, <1>2, <2>1, <2>2 DEF Sits
<1>4. o + Len(s) \in Pos
  BY <1>1 DEF Pos
<1>5. Sits(b, o + Len(s), t)
  <2>1. ASSUME NEW k \in 1 .. Len(t) PROVE b[o + Len(s) + k - 1] = t[k]
    <3>1. Len(s) + k \in 1 .. Len(st) /\ o + (Len(s) + k) - 1 = o + Len(s) + k - 1
      BY <1>1 DEF Pos
    <3> QED
      BY <1>1, <1>2, <3>1
  <2>2. o + Len(s) + Len(t) - 1 <= Len(b)
    BY <1>1, <1>2 DEF Pos
  <2> QED
    BY <1>1, <1>4, <2>1, <2>2 DEF Sits
<1> QED
  BY <1>3, <1>4, <1>5

LEMMA SitsBytes ==
    ASSUME NEW b \in Seq(Nat), NEW o, NEW s \in Seq(Nat), Sits(b, o, s)
    PROVE  /\ Has(b, o, Len(s)) /\ Bytes(b, o, Len(s)) = s /\ o \in Pos
           /\ s # <<>> => Has(b, o, 1) /\ b[o] = s[1]
<1> DEFINE t == Bytes(b, o, Len(s))
<1>1. o \in Nat /\ o >= 1 /\ Len(s) \in Nat /\ Len(b) \in Nat
  BY DEF Sits, Pos
<1>2. Has(b, o, Len(s)) /\ o \in Pos /\ o + Len(s) - 1 <= Len(b) /\ \A k \in 1 .. Len(s) : b[o + k - 1] = s[k]
  BY <1>1 DEF Has, Sits
<1>3. t \in Seq(Nat) /\ Len(t) = Len(s)
  BY <1>2, BytesNat
<1>4. \A k \in 1 .. Len(s) : t[k] = b[o + k - 1]
  BY <1>1, <1>2 DEF Bytes
<1>5. t = s
  <2> HIDE DEF t
  <2>1. \A k \in 1 .. Len(s) : t[k] = s[k]
    BY <1>2, <1>4
  <2> QED
    BY <1>3, <2>1
<1>6. s # <<>> => Has(b, o, 1) /\ b[o] = s[1]
  <2> SUFFICES ASSUME s # <<>> PROVE Has(b, o, 1) /\ b[o] = s[1]
    OBVIOUS
  <2>1. Len(s) >= 1
    <3>1. s = <<>> <=> Len(s) = 0
      BY EmptySeq
    <3> QED
      BY <1>1, <3>1
  <2>2. b[o + 1 - 1] = s[1] /\ o + 1 - 1 = o
    BY <1>1, <1>2, <2>1
  <2> QED
    BY <1>1, <1>2, <2>1, <2>2 DEF Has
<1> QED
  BY <1>2, <1>5, <1>6

\* One byte in front of a piece.
LEMMA SitsFirst ==
    ASSUME NEW b, Len(b) \in Nat, NEW o \in Pos, NEW x \in Nat, NEW t \in Seq(Nat), Sits(b, o, <<x>> \o t)
    PROVE  b[o] = x /\ Has(b, o, 1) /\ o + 1 \in Pos /\ Sits(b, o + 1, t)
<1>1. <<x>> \in Seq(Nat) /\ Len(<<x>>) = 1 /\ <<x>>[1] = x
  OBVIOUS
<1>2. Sits(b, o, <<x>>) /\ o + 1 \in Pos /\ Sits(b, o + 1, t)
  BY <1>1, SitsParts
<1>3. b[o + 1 - 1] = x /\ o + 1 - 1 <= Len(b)
  BY <1>1, <1>2 DEF Sits
<1>4. o + 1 - 1 = o
  BY DEF Pos
<1> QED
  BY <1>2, <1>3, <1>4 DEF Has

LEMMA ConcatNat ==
    ASSUME NEW s \in Seq(Nat), NEW t \in Seq(Nat)
    PROVE  s \o t \in Seq(Nat) /\ Len(s \o t) = Len(s) + Len(t)
BY ConcatProperties

\* Integers of a fixed width.
LEMMA BytePowers ==
    /\ Byte = 20 /\ Byte ^ 0 = 1 /\ Byte ^ 1 = 20 /\ Byte ^ 2 = 400 /\ Byte ^ 3 = 8000 /\ Byte ^ 4 = 160000
    /\ Byte ^ 5 = 3200000 /\ Byte ^ 6 = 64000000 /\ Word = 160000
<1>1. Byte = 20 /\ Word = 160000
  BY DEF Word, Byte
<1>2. 20 ^ 0 = 1 /\ 20 ^ 1 = 20 /\ 20 ^ 2 = 400 /\ 20 ^ 3 = 8000
  OBVIOUS
<1>3. 20 ^ 4 = 160000 /\ 20 ^ 5 = 3200000 /\ 20 ^ 6 = 64000000
  OBVIOUS
<1> QED
  BY <1>1, <1>2, <1>3

LEMMA Quotients ==
    ASSUME NEW n \in Int
    PROVE  LET q1 == n \div 20
               q2 == n \div 400
               q3 == n \div 8000
               q4 == n \div 160000
               q5 == n \div 3200000
               q6 == n \div 64000000
           IN  /\ n = 20 * q1 + (n % 20) /\ q1 = 20 * q2 + (q1 % 20) /\ q2 = 20 * q3 + (q2 % 20)
               /\ q3 = 20 * q4 + (q3 % 20) /\ q4 = 20 * q5 + (q4 % 20) /\ q5 = 20 * q6 + (q5 % 20)
<1>1. n = 20 * (n \div 20) + (n % 20)
  OBVIOUS
<1>2. n \div 20 = 20 * (n \div 400) + ((n \div 20) % 20)
  OBVIOUS
<1>3. n \div 400 = 20 * (n \div 8000) + ((n \div 400) % 20)
  OBVIOUS
<1>4. n \div 8000 = 20 * (n \div 160000) + ((n \div 8000) % 20)
  OBVIOUS
<1>5. n \div 160000 = 20 * (n \div 3200000) + ((n \div 160000) % 20)
  OBVIOUS
<1>6. n \div 3200000 = 20 * (n \div 64000000) + ((n \div 3200000) % 20)
  OBVIOUS
<1> QED
  BY <1>1, <1>2, <1>3, <1>4, <1>5, <1>6

LEMMA ToLeTyped ==
    ASSUME NEW n \in Int, NEW w \in {1, 2, 3, 4, 6}
    PROVE  /\ ToLe(n, w) \in Seq(Nat) /\ Len(ToLe(n, w)) = w
           /\ \A i \in 1 .. w : ToLe(n, w)[i] = (n \div (Byte ^ (i - 1))) % Byte
<1>1. \A i \in 1 .. w : (n \div (Byte ^ (i - 1))) % Byte \in Nat
  <2> SUFFICES ASSUME NEW i \in 1 .. w PROVE (n \div (Byte ^ (i - 1))) % Byte \in Nat
    OBVIOUS
  <2>1. i \in {1, 2, 3, 4, 5, 6} /\ Byte = 20
    BY BytePowers, SMT
  <2>2. \E p \in {1, 20, 400, 8000, 160000, 3200000} : Byte ^ (i - 1) = p
    <3>1. CASE i = 1
      <4>1. i - 1 = 0
        BY <3>1
      <4> QED
        BY <4>1, BytePowers, SMT
    <3>2. CASE i = 2
      <4>1. i - 1 = 1
        BY <3>2
      <4> QED
        BY <4>1, BytePowers, SMT
    <3>3. CASE i = 3
      <4>1. i - 1 = 2
        BY <3>3
      <4> QED
        BY <4>1, BytePowers, SMT
    <3>4. CASE i = 4
      <4>1. i - 1 = 3
        BY <3>4
      <4> QED
        BY <4>1, BytePowers, SMT
    <3>5. CASE i = 5
      <4>1. i - 1 = 4
        BY <3>5
      <4> QED
        BY <4>1, BytePowers, SMT
    <3>6. CASE i = 6
      <4>1. i - 1 = 5
        BY <3>6
      <4> QED
        BY <4>1, BytePowers, SMT
    <3> QED
      BY <2>1, <3>1, <3>2, <3>3, <3>4, <3>5, <3>6
  <2>3. PICK p \in {1, 20, 400, 8000, 160000, 3200000} : Byte ^ (i - 1) = p
    BY <2>2
  <2>4. (n \div p) % 20 \in Nat
    BY SMT
  <2> QED
    BY <2>1, <2>3, <2>4
<1>2. ToLe(n, w) \in [1 .. w -> Nat]
  BY <1>1 DEF ToLe
<1>3. \A i \in 1 .. w : ToLe(n, w)[i] = (n \div (Byte ^ (i - 1))) % Byte
  BY DEF ToLe
<1> QED
  BY <1>2, <1>3

LEMMA LeToLe ==
    ASSUME NEW n \in Int, NEW w \in {1, 2, 3, 4, 6}
    PROVE  Le(ToLe(n, w)) = n % (Byte ^ w)
<1> DEFINE s == ToLe(n, w)
           d(i) == (n \div (Byte ^ (i - 1))) % Byte
<1>1. s \in Seq(Nat) /\ Len(s) = w /\ \A i \in 1 .. w : s[i] = d(i)
  BY ToLeTyped
<1> HIDE DEF s
<1>2. PICK g \in [0 .. w -> Nat] : /\ g[0] = 0 /\ \A i \in 1 .. w : g[i] = s[w + 1 - i] + Byte * g[i - 1]
                                   /\ Le(s) = g[w]
  BY <1>1, LeSteps
<1>3. \A i \in 1 .. w : g[i] = d(w + 1 - i) + 20 * g[i - 1]
  <2>1. \A i \in 1 .. w : w + 1 - i \in 1 .. w
    OBVIOUS
  <2> HIDE DEF d
  <2> QED
    BY <1>1, <1>2, <2>1, BytePowers
<1>4. /\ d(1) = n % 20 /\ d(2) = (n \div 20) % 20 /\ d(3) = (n \div 400) % 20
      /\ d(4) = (n \div 8000) % 20 /\ d(5) = (n \div 160000) % 20 /\ d(6) = (n \div 3200000) % 20
  BY BytePowers, SMT
<1>5. d(1) \in Int /\ d(2) \in Int /\ d(3) \in Int /\ d(4) \in Int /\ d(5) \in Int /\ d(6) \in Int
  BY <1>4, SMT
<1> DEFINE q1 == n \div 20
           q2 == n \div 400
           q3 == n \div 8000
           q4 == n \div 160000
           q5 == n \div 3200000
           q6 == n \div 64000000
<1>a. /\ n = 20 * q1 + d(1) /\ q1 = 20 * q2 + d(2) /\ q2 = 20 * q3 + d(3)
      /\ q3 = 20 * q4 + d(4) /\ q4 = 20 * q5 + d(5) /\ q5 = 20 * q6 + d(6)
  <2>1. /\ n = 20 * q1 + (n % 20) /\ q1 = 20 * q2 + (q1 % 20) /\ q2 = 20 * q3 + (q2 % 20)
        /\ q3 = 20 * q4 + (q3 % 20) /\ q4 = 20 * q5 + (q4 % 20) /\ q5 = 20 * q6 + (q5 % 20)
    BY Quotients
  <2>2. /\ d(1) = n % 20 /\ d(2) = q1 % 20 /\ d(3) = q2 % 20 /\ d(4) = q3 % 20 /\ d(5) = q4 % 20
        /\ d(6) = q5 % 20
    BY <1>4
  <2> HIDE DEF d, q1, q2, q3, q4, q5, q6
  <2> QED
    BY <2>1, <2>2
<1>b. q1 \in Int /\ q2 \in Int /\ q3 \in Int /\ q4 \in Int /\ q5 \in Int /\ q6 \in Int
  BY SMT
<1> DEFINE d1 == d(1)
           d2 == d(2)
           d3 == d(3)
           d4 == d(4)
           d5 == d(5)
           d6 == d(6)
<1>c. d1 \in Int /\ d2 \in Int /\ d3 \in Int /\ d4 \in Int /\ d5 \in Int /\ d6 \in Int
  BY <1>5
<1>6. CASE w = 1
  <2>1. g[1] = d(1) + 20 * g[0]
    BY <1>3, <1>6, SMT
  <2>2. Le(s) = d(1)
    BY <1>2, <1>5, <1>6, <2>1, SMT
  <2>3. Le(s) = n - 20 * q1
    <3>1. /\ n = 20 * q1 + d1 /\ q1 = 20 * q2 + d2 /\ q2 = 20 * q3 + d3
          /\ q3 = 20 * q4 + d4 /\ q4 = 20 * q5 + d5 /\ q5 = 20 * q6 + d6
      BY <1>a
    <3>2. Le(s) = d1
      BY <2>2
    <3> HIDE DEF q1, q2, q3, q4, q5, q6, d1, d2, d3, d4, d5, d6
    <3> QED
      BY <1>b, <1>c, <3>1, <3>2, SMT
  <2>4. n % 20 = n - 20 * (n \div 20)
    BY SMT
  <2>5. Byte ^ w = 20
    BY <1>6, BytePowers, SMT
  <2> QED
    BY <2>3, <2>4, <2>5, SMT DEF s
<1>7. CASE w = 2
  <2>1. g[1] = d(2) + 20 * g[0] /\ g[2] = d(1) + 20 * g[1]
    BY <1>3, <1>7, SMT
  <2>2. Le(s) = d(1) + 20 * d(2)
    BY <1>2, <1>5, <1>7, <2>1, SMT
  <2>3. Le(s) = n - 400 * q2
    <3>1. /\ n = 20 * q1 + d1 /\ q1 = 20 * q2 + d2 /\ q2 = 20 * q3 + d3
          /\ q3 = 20 * q4 + d4 /\ q4 = 20 * q5 + d5 /\ q5 = 20 * q6 + d6
      BY <1>a
    <3>2. Le(s) = d1 + 20 * d2
      BY <2>2
    <3> HIDE DEF q1, q2, q3, q4, q5, q6, d1, d2, d3, d4, d5, d6
    <3> QED
      BY <1>b, <1>c, <3>1, <3>2, SMT
  <2>4. n % 400 = n - 400 * (n \div 400)
    BY SMT
  <2>5. Byte ^ w = 400
    BY <1>7, BytePowers, SMT
  <2> QED
    BY <2>3, <2>4, <2>5, SMT DEF s
<1>8. CASE w = 3
  <2>1. g[1] = d(3) + 20 * g[0] /\ g[2] = d(2) + 20 * g[1] /\ g[3] = d(1) + 20 * g[2]
    BY <1>3, <1>8, SMT
  <2>2. Le(s) = d(1) + 20 * (d(2) + 20 * d(3))
    BY <1>2, <1>5, <1>8, <2>1, SMT
  <2>3. Le(s) = n - 8000 * q3
    <3>1. /\ n = 20 * q1 + d1 /\ q1 = 20 * q2 + d2 /\ q2 = 20 * q3 + d3
          /\ q3 = 20 * q4 + d4 /\ q4 = 20 * q5 + d5 /\ q5 = 20 * q6 + d6
      BY <1>a
    <3>2. Le(s) = d1 + 20 * (d2 + 20 * d3)
      BY <2>2
    <3> HIDE DEF q1, q2, q3, q4, q5, q6, d1, d2, d3, d4, d5, d6
    <3> QED
      BY <1>b, <1>c, <3>1, <3>2, SMT
  <2>4. n % 8000 = n - 8000 * (n \div 8000)
    BY SMT
  <2>5. Byte ^ w = 8000
    BY <1>8, BytePowers, SMT
  <2> QED
    BY <2>3, <2>4, <2>5, SMT DEF s
<1>9. CASE w = 4
  <2>1. /\ g[1] = d(4) + 20 * g[0] /\ g[2] = d(3) + 20 * g[1] /\ g[3] = d(2) + 20 * g[2]
        /\ g[4] = d(1) + 20 * g[3]
    BY <1>3, <1>9, SMT
  <2>2. Le(s) = d(1) + 20 * (d(2) + 20 * (d(3) + 20 * d(4)))
    BY <1>2, <1>5, <1>9, <2>1, SMT
  <2>3. Le(s) = n - 160000 * q4
    <3>1. /\ n = 20 * q1 + d1 /\ q1 = 20 * q2 + d2 /\ q2 = 20 * q3 + d3
          /\ q3 = 20 * q4 + d4 /\ q4 = 20 * q5 + d5 /\ q5 = 20 * q6 + d6
      BY <1>a
    <3>2. Le(s) = d1 + 20 * (d2 + 20 * (d3 + 20 * d4))
      BY <2>2
    <3> HIDE DEF q1, q2, q3, q4, q5, q6, d1, d2, d3, d4, d5, d6
    <3> QED
      BY <1>b, <1>c, <3>1, <3>2, SMT
  <2>4. n % 160000 = n - 160000 * (n \div 160000)
    BY SMT
  <2>5. Byte ^ w = 160000
    BY <1>9, BytePowers, SMT
  <2> QED
    BY <2>3, <2>4, <2>5, SMT DEF s
<1>10. CASE w = 6
  <2>1. /\ g[1] = d(6) + 20 * g[0] /\ g[2] = d(5) + 20 * g[1] /\ g[3] = d(4) + 20 * g[2]
        /\ g[4] = d(3) + 20 * g[3] /\ g[5] = d(2) + 20 * g[4] /\ g[6] = d(1) + 20 * g[5]
    BY <1>3, <1>10, SMT
  <2>2. Le(s) = d(1) + 20 * (d(2) + 20 * (d(3) + 20 * (d(4) + 20 * (d(5) + 20 * d(6)))))
    BY <1>2, <1>5, <1>10, <2>1, SMT
  <2>3. Le(s) = n - 64000000 * q6
    <3>1. /\ n = 20 * q1 + d1 /\ q1 = 20 * q2 + d2 /\ q2 = 20 * q3 + d3
          /\ q3 = 20 * q4 + d4 /\ q4 = 20 * q5 + d5 /\ q5 = 20 * q6 + d6
      BY <1>a
    <3>2. Le(s) = d1 + 20 * (d2 + 20 * (d3 + 20 * (d4 + 20 * (d5 + 20 * d6))))
      BY <2>2
    <3> HIDE DEF q1, q2, q3, q4, q5, q6, d1, d2, d3, d4, d5, d6
    <3> QED
      BY <1>b, <1>c, <3>1, <3>2, SMT
  <2>4. n % 64000000 = n - 64000000 * (n \div 64000000)
    BY SMT
  <2>5. Byte ^ w = 64000000
    BY <1>10, BytePowers, SMT
  <2> QED
    BY <2>3, <2>4, <2>5, SMT DEF s
<1> QED
  BY <1>6, <1>7, <1>8, <1>9, <1>10

LEMMA ComplementOf ==
    ASSUME NEW n \in Int, NEW w \in {1, 2, 3, 4, 6}, -(Byte ^ w) <= 2 * n, 2 * n < Byte ^ w
    PROVE  Complement(n % (Byte ^ w), w) = n
<1>1. PICK m \in {20, 400, 8000, 160000, 64000000} : Byte ^ w = m
  <2>3. CASE w = 1
    <3>1. Byte ^ w = 20
      BY <2>3, BytePowers, SMT
    <3> QED
      BY <3>1
  <2>4. CASE w = 2
    <3>1. Byte ^ w = 400
      BY <2>4, BytePowers, SMT
    <3> QED
      BY <3>1
  <2>5. CASE w = 3
    <3>1. Byte ^ w = 8000
      BY <2>5, BytePowers, SMT
    <3> QED
      BY <3>1
  <2>6. CASE w = 4
    <3>1. Byte ^ w = 160000
      BY <2>6, BytePowers, SMT
    <3> QED
      BY <3>1
  <2>7. CASE w = 6
    <3>1. Byte ^ w = 64000000
      BY <2>7, BytePowers, SMT
    <3> QED
      BY <3>1
  <2> QED
    BY <2>3, <2>4, <2>5, <2>6, <2>7
<1>2. -m <= 2 * n /\ 2 * n < m
  BY <1>1
<1>3. n % m = IF n < 0 THEN n + m ELSE n
  <2>1. CASE m = 20
    BY <1>2, <2>1, SMT
  <2>2. CASE m = 400
    BY <1>2, <2>2, SMT
  <2>3. CASE m = 8000
    BY <1>2, <2>3, SMT
  <2>4. CASE m = 160000
    BY <1>2, <2>4, SMT
  <2>5. CASE m = 64000000
    BY <1>2, <2>5, SMT
  <2> QED
    BY <2>1, <2>2, <2>3, <2>4, <2>5, SMT
<1>4. Complement(n % m, w) = IF 2 * (n % m) >= m THEN (n % m) - m ELSE n % m
  BY <1>1, SMT DEF Complement
<1> QED
  BY <1>1, <1>2, <1>3, <1>4, SMT

\* An integer of a fixed width that sits in a request.
LEMMA FixedRead ==
    ASSUME NEW b \in Seq(Nat), NEW o, NEW n \in Int, NEW w \in {1, 2, 3, 4, 6}, Sits(b, o, ToLe(n, w))
    PROVE  Has(b, o, w) /\ Le(Bytes(b, o, w)) = n % (Byte ^ w) /\ o \in Pos /\ o + w \in Pos
<1>1. ToLe(n, w) \in Seq(Nat) /\ Len(ToLe(n, w)) = w
  BY ToLeTyped
<1>2. Has(b, o, w) /\ Bytes(b, o, w) = ToLe(n, w) /\ o \in Pos
  BY <1>1, SitsBytes
<1>3. o + w \in Pos
  BY <1>2 DEF Pos
<1> QED
  BY <1>2, <1>3, LeToLe

LEMMA WordSplit ==
    ASSUME NEW n \in Int
    PROVE  /\ n % Word \in Int /\ n \div Word \in Int /\ 0 <= n % Word /\ n % Word < Word
           /\ n = (n \div Word) * Word + (n % Word) /\ (n % Word) % (Byte ^ 4) = n % Word
<1>1. Word = 160000 /\ Byte ^ 4 = 160000
  BY BytePowers, SMT
<1>2. /\ n % 160000 \in Int /\ n \div 160000 \in Int /\ 0 <= n % 160000 /\ n % 160000 < 160000
      /\ n = (n \div 160000) * 160000 + (n % 160000)
  BY SMT
<1>3. (n % 160000) % 160000 = n % 160000
  BY SMT
<1> QED
  BY <1>1, <1>2, <1>3

WideBytes(n) == ToLe(n % Word, 4) \o ToLe(n \div Word, 4)

LEMMA WideTyped == ASSUME NEW n \in Int PROVE WideBytes(n) \in Seq(Nat) /\ Len(WideBytes(n)) = 8
<1>1. n % Word \in Int /\ n \div Word \in Int
  BY WordSplit
<1> DEFINE x == ToLe(n % Word, 4)
           y == ToLe(n \div Word, 4)
<1>2. x \in Seq(Nat) /\ Len(x) = 4 /\ y \in Seq(Nat) /\ Len(y) = 4
  BY <1>1, ToLeTyped
<1> HIDE DEF x, y
<1>3. x \o y \in Seq(Nat) /\ Len(x \o y) = 8
  <2>1. x \in Seq(Nat) /\ y \in Seq(Nat)
    BY <1>2
  <2>2. x \o y \in Seq(Nat) /\ Len(x \o y) = Len(x) + Len(y)
    BY <2>1, ConcatNat
  <2> QED
    BY <1>2, <2>2
<1> QED
  BY <1>3 DEF WideBytes, x, y

LEMMA WideRead ==
    ASSUME NEW b \in Seq(Nat), NEW o \in Pos, NEW n \in Int, Sits(b, o, WideBytes(n))
    PROVE  /\ Has(b, o, 8) /\ o + 8 \in Pos /\ o + 4 \in Pos
           /\ Le(Bytes(b, o, 4)) = n % Word
           /\ Le(Bytes(b, o + 4, 4)) = (n \div Word) % (Byte ^ 4)
<1> DEFINE x == ToLe(n % Word, 4)
           y == ToLe(n \div Word, 4)
<1>1. n % Word \in Int /\ n \div Word \in Int /\ (n % Word) % (Byte ^ 4) = n % Word
  BY WordSplit
<1>2. x \in Seq(Nat) /\ Len(x) = 4 /\ y \in Seq(Nat) /\ Len(y) = 4
  BY <1>1, ToLeTyped
<1>3. Sits(b, o, x \o y) /\ Len(b) \in Nat
  BY DEF WideBytes
<1>4. Sits(b, o, x) /\ Sits(b, o + 4, y)
  <2> HIDE DEF x, y
  <2>1. Sits(b, o, x) /\ Sits(b, o + Len(x), y)
    BY <1>2, <1>3, SitsParts
  <2> QED
    BY <1>2, <2>1
<1>5. Le(Bytes(b, o, 4)) = n % Word
  <2>1. Le(Bytes(b, o, 4)) = (n % Word) % (Byte ^ 4)
    BY <1>1, <1>4, FixedRead
  <2> QED
    BY <1>1, <2>1
<1>6. Has(b, o + 4, 4) /\ Le(Bytes(b, o + 4, 4)) = (n \div Word) % (Byte ^ 4) /\ o + 4 \in Pos
  BY <1>1, <1>4, FixedRead
<1>7. Has(b, o, 8) /\ o + 8 \in Pos
  BY <1>6 DEF Has, Pos
<1> QED
  BY <1>5, <1>6, <1>7

-----------------------------------------------------------------------------
\* Lengths and texts.

Lengths == {n \in Nat : n < SafeWord * Word}

\* Three pieces one after the other.
LEMMA Regroup ==
    ASSUME NEW z \in Seq(Nat), NEW x \in Seq(Nat), NEW y \in Seq(Nat)
    PROVE  (z \o x) \o y = z \o (x \o y)
<1> DEFINE a == (z \o x) \o y
           b == z \o (x \o y)
<1>1. a \in Seq(Nat) /\ b \in Seq(Nat) /\ Len(a) = Len(z) + Len(x) + Len(y) /\ Len(b) = Len(a)
  OBVIOUS
<1>2. ASSUME NEW i \in 1 .. Len(a) PROVE a[i] = b[i]
  OBVIOUS
<1> HIDE DEF a, b
<1>3. a = b
  BY <1>1, <1>2, SeqEqual
<1> QED
  BY <1>3 DEF a, b

\* A length has the bytes that were counted for it.
LEMMA NumberWritten ==
    ASSUME NEW n \in Nat
    PROVE  /\ writeLengthCodedNumber(n) \in Seq(Nat)
           /\ Len(writeLengthCodedNumber(n)) = lengthCodedNumberLength(n)
           /\ lengthCodedNumberLength(n) \in Nat /\ lengthCodedNumberLength(n) >= 1
<1> DEFINE w1 == ToLe(n, 1)
           w2 == ToLe(n, 2)
           w3 == ToLe(n, 3)
           w8 == WideBytes(n)
           x == ToLe(n % Word, 4)
           y == ToLe(n \div Word, 4)
<1>1. /\ w1 \in Seq(Nat) /\ Len(w1) = 1 /\ w2 \in Seq(Nat) /\ Len(w2) = 2
      /\ w3 \in Seq(Nat) /\ Len(w3) = 3 /\ w8 \in Seq(Nat) /\ Len(w8) = 8
  BY ToLeTyped, WideTyped
<1>2. /\ <<Tag2>> \in Seq(Nat) /\ <<Tag3>> \in Seq(Nat) /\ <<Tag8>> \in Seq(Nat)
      /\ Len(<<Tag2>>) = 1 /\ Len(<<Tag3>>) = 1 /\ Len(<<Tag8>>) = 1
  BY DEF Tag2, Tag3, Tag8
<1>3. (<<Tag8>> \o x) \o y = <<Tag8>> \o w8
  <2>1. n % Word \in Int /\ n \div Word \in Int
    BY WordSplit
  <2>2. x \in Seq(Nat) /\ y \in Seq(Nat)
    BY <2>1, ToLeTyped
  <2>3. w8 = x \o y
    BY DEF WideBytes
  <2> DEFINE z == <<Tag8>>
  <2>4. z \in Seq(Nat)
    BY <1>2
  <2> HIDE DEF x, y, w8, z
  <2>5. (z \o x) \o y = z \o (x \o y)
    BY ONLY <2>2, <2>4, Regroup
  <2> QED
    BY <2>3, <2>5 DEF z
<1>4. /\ <<Tag2>> \o w2 \in Seq(Nat) /\ Len(<<Tag2>> \o w2) = 3
      /\ <<Tag3>> \o w3 \in Seq(Nat) /\ Len(<<Tag3>> \o w3) = 4
      /\ <<Tag8>> \o w8 \in Seq(Nat) /\ Len(<<Tag8>> \o w8) = 9
  <2> HIDE DEF w2, w3, w8
  <2> DEFINE t2 == <<Tag2>>
             t3 == <<Tag3>>
             t8 == <<Tag8>>
  <2>1. t2 \in Seq(Nat) /\ t3 \in Seq(Nat) /\ t8 \in Seq(Nat) /\ Len(t2) = 1 /\ Len(t3) = 1 /\ Len(t8) = 1
    BY <1>2
  <2> HIDE DEF t2, t3, t8
  <2>a. w2 \in Seq(Nat) /\ w3 \in Seq(Nat) /\ w8 \in Seq(Nat)
    BY <1>1
  <2>b. \A z \in Seq(Nat), t \in Seq(Nat) : z \o t \in Seq(Nat) /\ Len(z \o t) = Len(z) + Len(t)
    BY ConcatNat
  <2>c. t2 \o w2 \in Seq(Nat) /\ Len(t2 \o w2) = Len(t2) + Len(w2)
    BY <2>1, <2>a, <2>b
  <2>d. t3 \o w3 \in Seq(Nat) /\ Len(t3 \o w3) = Len(t3) + Len(w3)
    BY <2>1, <2>a, <2>b
  <2>e. t8 \o w8 \in Seq(Nat) /\ Len(t8 \o w8) = Len(t8) + Len(w8)
    BY <2>1, <2>a, <2>b
  <2>2. /\ t2 \o w2 \in Seq(Nat) /\ Len(t2 \o w2) = 3
        /\ t3 \o w3 \in Seq(Nat) /\ Len(t3 \o w3) = 4
        /\ t8 \o w8 \in Seq(Nat) /\ Len(t8 \o w8) = 9
    BY <1>1, <2>1, <2>c, <2>d, <2>e
  <2> QED
    BY <2>2 DEF t2, t3, t8
<1> HIDE DEF w1, w2, w3, w8
<1>5. writeLengthCodedNumber(n) = IF n < NullTag THEN w1
                                  ELSE IF n < Byte ^ 2 - 1 THEN <<Tag2>> \o w2
                                  ELSE IF n < Byte ^ 3 - 1 THEN <<Tag3>> \o w3 ELSE <<Tag8>> \o w8
  <2>1. writeLengthCodedNumber(n) = IF n < NullTag THEN w1
                                    ELSE IF n < Byte ^ 2 - 1 THEN <<Tag2>> \o w2
                                    ELSE IF n < Byte ^ 3 - 1 THEN <<Tag3>> \o w3 ELSE (<<Tag8>> \o x) \o y
    BY DEF writeLengthCodedNumber, w1, w2, w3
  <2> QED
    BY <1>3, <2>1
<1>6. lengthCodedNumberLength(n) = IF n < NullTag THEN 1 ELSE IF n < Byte ^ 2 - 1 THEN 3
                                   ELSE IF n < Byte ^ 3 - 1 THEN 4 ELSE 9
  BY DEF lengthCodedNumberLength
<1> DEFINE t2 == <<Tag2>> \o w2
           t3 == <<Tag3>> \o w3
           t8 == <<Tag8>> \o w8
           m == lengthCodedNumberLength(n)
           z == writeLengthCodedNumber(n)
<1>7. /\ t2 \in Seq(Nat) /\ Len(t2) = 3 /\ t3 \in Seq(Nat) /\ Len(t3) = 4
      /\ t8 \in Seq(Nat) /\ Len(t8) = 9
  BY <1>4
<1>8. z \in {w1, t2, t3, t8} /\ m \in {1, 3, 4, 9}
      /\ (\/ (z = w1 /\ m = 1) \/ (z = t2 /\ m = 3) \/ (z = t3 /\ m = 4) \/ (z = t8 /\ m = 9))
  <2> DEFINE c1 == n < NullTag
             c2 == n < Byte ^ 2 - 1
             c3 == n < Byte ^ 3 - 1
  <2>1. /\ z = IF c1 THEN w1 ELSE IF c2 THEN t2 ELSE IF c3 THEN t3 ELSE t8
        /\ m = IF c1 THEN 1 ELSE IF c2 THEN 3 ELSE IF c3 THEN 4 ELSE 9
    BY <1>5, <1>6
  <2> HIDE DEF c1, c2, c3, z, m, t2, t3, t8
  <2> QED
    BY <2>1
<1>9. z \in Seq(Nat) /\ Len(z) = m /\ m \in Nat /\ m >= 1
  <2> HIDE DEF z, m, t2, t3, t8
  <2>1. CASE z = w1 /\ m = 1
    BY <1>1, <2>1
  <2>2. CASE z = t2 /\ m = 3
    BY <1>7, <2>2
  <2>3. CASE z = t3 /\ m = 4
    BY <1>7, <2>3
  <2>4. CASE z = t8 /\ m = 9
    BY <1>7, <2>4
  <2> QED
    BY <1>8, <2>1, <2>2, <2>3, <2>4
<1> QED
  BY <1>9

\* and is read as it was written.
LEMMA NumberRead ==
    ASSUME NEW b \in Seq(Nat), NEW o \in Pos, NEW n \in Lengths, Sits(b, o, writeLengthCodedNumber(n))
    PROVE  readLengthCodedNumber(b, o) = At(Num(n), o + lengthCodedNumberLength(n))
<1>0. n \in Nat /\ n < 8 * 160000 /\ Len(b) \in Nat
  BY BytePowers DEF Lengths, SafeWord
<1>1. NullTag = 15 /\ Tag2 = 16 /\ Tag3 = 17 /\ Tag8 = 18
  BY DEF NullTag, Tag2, Tag3, Tag8
<1>2. CASE n < NullTag
  <2>1. Sits(b, o, ToLe(n, 1)) /\ lengthCodedNumberLength(n) = 1
    BY <1>2 DEF writeLengthCodedNumber, lengthCodedNumberLength
  <2>2. ToLe(n, 1) \in Seq(Nat) /\ Len(ToLe(n, 1)) = 1 /\ ToLe(n, 1)[1] = n
    <3>1. ToLe(n, 1) \in Seq(Nat) /\ Len(ToLe(n, 1)) = 1
      BY <1>0, ToLeTyped
    <3>2. ToLe(n, 1)[1] = (n \div (Byte ^ (1 - 1))) % Byte
      BY DEF ToLe
    <3>3. Byte ^ (1 - 1) = 1 /\ Byte = 20
      BY BytePowers, SMT
    <3>4. (n \div 1) % 20 = n
      BY <1>0, <1>1, <1>2, SMT
    <3> QED
      BY <3>1, <3>2, <3>3, <3>4
  <2>3. Has(b, o, 1) /\ b[o] = n
    <3>1. ToLe(n, 1) # <<>>
      BY <2>2, EmptySeq
    <3> HIDE DEF ToLe
    <3> QED
      BY <2>1, <2>2, <3>1, SitsBytes
  <2> QED
    BY <1>2, <2>1, <2>3 DEF readLengthCodedNumber
<1>3. CASE n >= NullTag /\ n < Byte ^ 2 - 1
  <2> DEFINE t == ToLe(n, 2)
  <2>1. Sits(b, o, <<Tag2>> \o t) /\ lengthCodedNumberLength(n) = 3
    BY <1>0, <1>1, <1>3 DEF writeLengthCodedNumber, lengthCodedNumberLength
  <2>2. t \in Seq(Nat) /\ Tag2 \in Nat
    BY <1>0, <1>1, ToLeTyped
  <2> HIDE DEF t
  <2>3. b[o] = Tag2 /\ Has(b, o, 1) /\ o + 1 \in Pos /\ Sits(b, o + 1, t)
    BY <1>0, <2>1, <2>2, SitsFirst
  <2>4. Has(b, o + 1, 2) /\ Le(Bytes(b, o + 1, 2)) = n % (Byte ^ 2)
    BY <1>0, <2>3, FixedRead DEF t
  <2>5. n % (Byte ^ 2) = n
    <3>1. Byte ^ 2 = 400
      BY BytePowers, SMT
    <3>2. n < 400 => n % 400 = n
      BY <1>0, SMT
    <3> QED
      BY <1>0, <1>3, <3>1, <3>2
  <2>6. readLengthCodedNumber(b, o) = readLengthCodedNumberExt(b, o + 1, Tag2)
    BY <1>1, <2>3 DEF readLengthCodedNumber
  <2>7. readLengthCodedNumberExt(b, o + 1, Tag2) = readInt16(b, o + 1)
    BY <1>1 DEF readLengthCodedNumberExt
  <2>8. readInt16(b, o + 1) = At(Num(n), o + 1 + 2)
    BY <2>4, <2>5 DEF readInt16, Unsigned
  <2>9. o + 1 + 2 = o + 3
    BY DEF Pos
  <2> QED
    BY <2>1, <2>6, <2>7, <2>8, <2>9
<1>4. CASE n >= Byte ^ 2 - 1 /\ n < Byte ^ 3 - 1
  <2> DEFINE t == ToLe(n, 3)
  <2>0. Byte ^ 2 = 400 /\ Byte ^ 3 = 8000
    BY BytePowers, SMT
  <2>1. Sits(b, o, <<Tag3>> \o t) /\ lengthCodedNumberLength(n) = 4
    <3>1. ~(n < NullTag) /\ ~(n < Byte ^ 2 - 1) /\ n < Byte ^ 3 - 1
      BY <1>0, <1>1, <1>4, <2>0
    <3> QED
      BY <3>1 DEF writeLengthCodedNumber, lengthCodedNumberLength
  <2>2. t \in Seq(Nat) /\ Tag3 \in Nat
    BY <1>0, <1>1, ToLeTyped
  <2> HIDE DEF t
  <2>3. b[o] = Tag3 /\ Has(b, o, 1) /\ o + 1 \in Pos /\ Sits(b, o + 1, t)
    BY <1>0, <2>1, <2>2, SitsFirst
  <2>4. Has(b, o + 1, 3) /\ Le(Bytes(b, o + 1, 3)) = n % (Byte ^ 3)
    BY <1>0, <2>3, FixedRead DEF t
  <2>5. n % (Byte ^ 3) = n
    <3>2. n < 8000 => n % 8000 = n
      BY <1>0, SMT
    <3> QED
      BY <1>0, <1>4, <2>0, <3>2
  <2>6. readLengthCodedNumber(b, o) = readLengthCodedNumberExt(b, o + 1, Tag3)
    BY <1>1, <2>3 DEF readLengthCodedNumber
  <2>7. readLengthCodedNumberExt(b, o + 1, Tag3) = readInt24(b, o + 1)
    BY <1>1 DEF readLengthCodedNumberExt
  <2>8. readInt24(b, o + 1) = At(Num(n), o + 1 + 3)
    BY <2>4, <2>5 DEF readInt24, Unsigned
  <2>9. o + 1 + 3 = o + 4
    BY DEF Pos
  <2> QED
    BY <2>1, <2>6, <2>7, <2>8, <2>9
<1>5. CASE n >= Byte ^ 3 - 1
  <2> DEFINE t == WideBytes(n)
             x == ToLe(n % Word, 4)
             y == ToLe(n \div Word, 4)
             hi == n \div Word
             lo == n % Word
  <2>0. Byte ^ 2 = 400 /\ Byte ^ 3 = 8000
    BY BytePowers, SMT
  <2>a. lo \in Int /\ hi \in Int /\ n = hi * Word + lo /\ 0 <= lo /\ lo < Word /\ n \in Int
    BY <1>0, WordSplit
  <2>1. Sits(b, o, <<Tag8>> \o t) /\ lengthCodedNumberLength(n) = 9
    <3>1. ~(n < NullTag) /\ ~(n < Byte ^ 2 - 1) /\ ~(n < Byte ^ 3 - 1)
      BY <1>0, <1>1, <1>5, <2>0
    <3>2. Sits(b, o, (<<Tag8>> \o x) \o y) /\ lengthCodedNumberLength(n) = 9
      BY <3>1 DEF writeLengthCodedNumber, lengthCodedNumberLength
    <3>3. x \in Seq(Nat) /\ y \in Seq(Nat) /\ <<Tag8>> \in Seq(Nat)
      BY <1>1, <2>a, ToLeTyped
    <3> DEFINE z == <<Tag8>>
    <3>4. z \in Seq(Nat)
      BY <3>3
    <3> HIDE DEF x, y, z
    <3>7. x \in Seq(Nat) /\ y \in Seq(Nat)
      BY <3>3
    <3>5. (z \o x) \o y = z \o (x \o y)
      BY ONLY <3>7, <3>4, Regroup
    <3>6. Sits(b, o, z \o (x \o y))
      BY <3>2, <3>5 DEF z
    <3> QED
      BY <3>2, <3>6 DEF z, x, y, WideBytes
  <2>2. t \in Seq(Nat) /\ Tag8 \in Nat
    BY <1>0, <1>1, WideTyped
  <2> HIDE DEF t
  <2>3. b[o] = Tag8 /\ Has(b, o, 1) /\ o + 1 \in Pos /\ Sits(b, o + 1, t)
    BY <1>0, <2>1, <2>2, SitsFirst
  <2>4. Has(b, o + 1, 8) /\ Le(Bytes(b, o + 1, 4)) = lo /\ Le(Bytes(b, o + 1 + 4, 4)) = hi % (Byte ^ 4)
    BY <2>a, <2>3, WideRead DEF t
  <2>5. hi % (Byte ^ 4) = hi /\ 0 <= hi /\ hi < 8
    <3>1. Word = 160000 /\ Byte ^ 4 = 160000
      BY BytePowers, SMT
    <3>2. 0 <= hi /\ hi < 8
      <4> HIDE DEF hi, lo
      <4> QED
        BY <1>0, <2>a, <3>1, SMT
    <3>3. hi % 160000 = hi
      <4> HIDE DEF hi
      <4> QED
        BY <2>a, <3>2, SMT
    <3> QED
      BY <3>1, <3>2, <3>3
  <2>6. readLengthCodedNumber(b, o) = readLengthCodedNumberExt(b, o + 1, Tag8)
    BY <1>1, <2>3 DEF readLengthCodedNumber
  <2>7. readLengthCodedNumberExt(b, o + 1, Tag8) = readInt64(b, o + 1)
    BY <1>1 DEF readLengthCodedNumberExt
  <2>8. readInt64(b, o + 1) = At(Exact(hi, lo), o + 1 + 8)
    <3> HIDE DEF hi, lo
    <3> QED
      BY <2>4, <2>5 DEF readInt64, Int64
  <2>9. Exact(hi, lo) = Num(n)
    <3>1. IsSafe(hi, lo)
      <4> HIDE DEF hi, lo
      <4> QED
        BY <2>a, <2>5 DEF IsSafe, SafeWord
    <3> HIDE DEF hi, lo
    <3> QED
      BY <2>a, <3>1 DEF Exact
  <2>10. o + 1 + 8 = o + 9
    BY DEF Pos
  <2> QED
    BY <2>1, <2>6, <2>7, <2>8, <2>9, <2>10
<1> QED
  <2>1. Byte ^ 2 - 1 = 399 /\ Byte ^ 3 - 1 = 7999
    BY BytePowers, SMT
  <2> QED
    BY <1>0, <1>1, <1>2, <1>3, <1>4, <1>5, <2>1

\* A text, a buffer or a name.
LEMMA BufferWritten ==
    ASSUME NEW s \in Seq(Nat)
    PROVE  /\ writeLengthCodedBuffer(s) \in Seq(Nat)
           /\ Len(writeLengthCodedBuffer(s)) = lengthCodedStringLength(s)
           /\ lengthCodedStringLength(s) \in Nat
<1> DEFINE w == writeLengthCodedNumber(Len(s))
           m == lengthCodedNumberLength(Len(s))
<1>1. Len(s) \in Nat
  OBVIOUS
<1>2. w \in Seq(Nat) /\ Len(w) = m /\ m \in Nat
  BY <1>1, NumberWritten
<1>3. writeLengthCodedBuffer(s) = w \o s /\ lengthCodedStringLength(s) = m + Len(s)
  BY DEF writeLengthCodedBuffer, lengthCodedStringLength
<1> HIDE DEF w, m
<1>4. w \o s \in Seq(Nat) /\ Len(w \o s) = Len(w) + Len(s)
  BY <1>2, ConcatNat
<1> QED
  BY <1>1, <1>2, <1>3, <1>4

LEMMA StringRead ==
    ASSUME NEW b \in Seq(Nat), NEW o \in Pos, NEW s, IsText(s), Sits(b, o, writeLengthCodedBuffer(s))
    PROVE  readLengthCodedString(b, o) = At(Str(s), o + lengthCodedStringLength(s))
<1> DEFINE w == writeLengthCodedNumber(Len(s))
           m == lengthCodedNumberLength(Len(s))
           len == readLengthCodedNumber(b, o)
<1>1. s \in Seq(Nat) /\ Len(s) \in Nat /\ Len(s) \in Lengths /\ Len(b) \in Nat
  BY DEF IsText, Lengths
<1>2. w \in Seq(Nat) /\ Len(w) = m /\ m \in Nat
  BY <1>1, NumberWritten
<1>3. Sits(b, o, w \o s) /\ lengthCodedStringLength(s) = m + Len(s)
  BY DEF writeLengthCodedBuffer, lengthCodedStringLength
<1>4. Sits(b, o, w) /\ Sits(b, o + m, s)
  <2> HIDE DEF w, m
  <2>1. Sits(b, o, w) /\ Sits(b, o + Len(w), s)
    BY <1>1, <1>2, <1>3, SitsParts
  <2> QED
    BY <1>2, <2>1
<1>5. len = At(Num(Len(s)), o + m)
  BY <1>1, <1>4, NumberRead
<1>6. Has(b, o + m, Len(s)) /\ Bytes(b, o + m, Len(s)) = s
  <2> HIDE DEF m
  <2> QED
    BY <1>1, <1>4, SitsBytes
<1>7. /\ len.v # Null /\ len.v # Garbage /\ "num" \in DOMAIN len.v /\ len.v.num = Len(s) /\ len.o = o + m
  <2>1. len.v = Num(Len(s)) /\ len.o = o + m
    BY <1>5, ValueKinds
  <2>2. DOMAIN Num(Len(s)) = {"num"} /\ Num(Len(s)).num = Len(s) /\ DOMAIN Null = {"null"}
        /\ DOMAIN Garbage = {"garbage"}
    BY ValueKinds
  <2> HIDE DEF len
  <2> QED
    BY <2>1, <2>2
<1> HIDE DEF len, m
<1>8. readLengthCodedString(b, o) = At(Str(s), o + m + Len(s))
  BY <1>6, <1>7 DEF readLengthCodedString, Counted, Follows, len
<1>9. o + m + Len(s) = o + (m + Len(s))
  BY <1>1, <1>2 DEF Pos
<1> QED
  BY <1>3, <1>8, <1>9

-----------------------------------------------------------------------------
\* Parts one after the other.  What FlattenSeq joins sits in a request part by
\* part, at the places where the lengths of the parts add up.

Ends(parts, e) ==
    /\ e \in [0 .. Len(parts) -> Nat] /\ e[0] = 0
    /\ \A i \in 1 .. Len(parts) : e[i] = e[i - 1] + Len(parts[i])

LEMMA FlattenSteps ==
    ASSUME NEW parts \in Seq(Seq(Nat))
    PROVE  \E f \in [0 .. Len(parts) -> Seq(Nat)] :
              /\ f[0] = <<>> /\ \A i \in 1 .. Len(parts) : f[i] = f[i - 1] \o parts[i]
              /\ FlattenSeq(parts) = f[Len(parts)]
<1> DEFINE N == Len(parts)
           X == Seq(Nat)
           G == [m \in (1 .. N) \X X |-> m[2] \o parts[m[1]]]
           Body0(g) == [i \in 1 .. N |-> IF i = 1 THEN parts[i] ELSE g[i - 1] \o parts[i]]
           h == CHOOSE g : g = Body0(g)
<1>1. N \in Nat /\ \A i \in 1 .. N : parts[i] \in X
  OBVIOUS
<1>2. PICK f : Solves(f, N, X, <<>>, G)
  <2>1. G \in [(1 .. N) \X X -> X]
    <3> SUFFICES ASSUME NEW n \in 1 .. N, NEW s \in X PROVE s \o parts[n] \in X
      OBVIOUS
    <3>1. parts[n] \in X
      BY <1>1
    <3> QED
      BY <3>1, ConcatProperties
  <2>2. <<>> \in X
    OBVIOUS
  <2> HIDE DEF G, N, X
  <2>3. Recurrence(N, X, <<>>, G)
    BY <1>1, <2>1, <2>2 DEF Recurrence
  <2> QED
    BY <2>3, Recursion
<1>3. f \in [0 .. N -> X] /\ f[0] = <<>> /\ \A n \in 1 .. N : f[n] = G[<<n, f[n - 1]>>]
  BY <1>2 DEF Solves
<1>4. ASSUME NEW n \in 1 .. N PROVE f[n] = f[n - 1] \o parts[n]
  <2>0. N \in Nat /\ f \in [0 .. N -> X]
    BY <1>1, <1>3
  <2>1. n - 1 \in 0 .. N /\ f[n - 1] \in X
    <3> HIDE DEF G, N, X
    <3> QED
      BY <2>0
  <2>2. <<n, f[n - 1]>> \in (1 .. N) \X X
    BY <2>1
  <2>3. G[<<n, f[n - 1]>>] = f[n - 1] \o parts[n]
    BY <2>2
  <2> QED
    BY <1>3, <2>3
<1>5. CASE N = 0
  <2>1. parts = <<>>
    BY <1>5, EmptySeq
  <2>2. FlattenSeq(parts) = parts
    BY <1>5 DEF FlattenSeq
  <2>3. FlattenSeq(parts) = f[N]
    BY <1>3, <1>5, <2>1, <2>2
  <2> QED
    BY <1>3, <1>4, <2>3
<1>6. CASE N # 0
  <2>0. 1 \in 1 .. N /\ N \in 1 .. N
    BY <1>1, <1>6
  <2>1. f[1] = parts[1]
    <3>4. \A n \in 1 .. N : n = 1 => f[n] = f[0] \o parts[n]
      <4>1. \A n \in 1 .. N : n = 1 => n - 1 = 0
        BY <1>1
      <4> HIDE DEF N
      <4> QED
        BY <1>4, <4>1
    <3>1. f[1] = f[0] \o parts[1]
      <4> HIDE DEF N
      <4> QED
        BY <2>0, <3>4
    <3>2. parts[1] \in Seq(Nat)
      BY <1>1, <2>0
    <3>3. <<>> \o parts[1] = parts[1]
      BY <3>2, ConcatEmptySeq
    <3> QED
      BY <1>3, <3>1, <3>3
  <2> DEFINE g == [i \in 1 .. N |-> f[i]]
  <2>2. g = Body0(g)
    <3>1. ASSUME NEW i \in 1 .. N PROVE f[i] = IF i = 1 THEN parts[i] ELSE g[i - 1] \o parts[i]
      <4>1. CASE i = 1
        BY <2>1, <4>1
      <4>2. CASE i # 1
        <5>1. i - 1 \in 1 .. N
          BY <1>1, <4>2
        <5>2. g[i - 1] = f[i - 1]
          BY <5>1
        <5> HIDE DEF g
        <5> QED
          BY <1>4, <4>2, <5>2
      <4> QED
        BY <4>1, <4>2
    <3> QED
      BY <3>1
  <2>3. h = Body0(h)
    <3> HIDE DEF g
    <3> QED
      BY <2>2
  <2>4. 0 .. N \subseteq {i \in 0 .. N : i # 0 => h[i] = f[i]}
    <3> DEFINE S == {i \in 0 .. N : i # 0 => h[i] = f[i]}
    <3> HIDE DEF h
    <3>1. 0 \in S
      BY <1>1
    <3>2. ASSUME NEW n \in 1 .. N, n - 1 \in S PROVE n \in S
      <4>1. h[n] = IF n = 1 THEN parts[n] ELSE h[n - 1] \o parts[n]
        BY <2>3
      <4>2. n # 1 => n - 1 # 0 /\ n - 1 \in 0 .. N
        BY <1>1
      <4>3. n # 1 => h[n - 1] = f[n - 1]
        BY <3>2, <4>2
      <4>4. h[n] = f[n]
        <5>1. CASE n = 1
          BY <2>1, <4>1, <5>1
        <5>2. CASE n # 1
          BY <1>4, <4>1, <4>3, <5>2
        <5> QED
          BY <5>1, <5>2
      <4>5. n \in 0 .. N
        BY <1>1
      <4> QED
        BY <4>4, <4>5
    <3>3. 0 .. N \subseteq S
      <4> HIDE DEF S
      <4> QED
        BY <1>1, <3>1, <3>2, UpTo
    <3> QED
      BY <3>3
  <2>5. FlattenSeq(parts) = h[N]
    BY <1>6 DEF FlattenSeq
  <2>6. h[N] = f[N]
    <3> HIDE DEF h
    <3>1. N \in 0 .. N
      BY <1>1
    <3> QED
      BY <1>6, <2>4, <3>1
  <2> HIDE DEF h, Body0
  <2> QED
    BY <1>3, <1>4, <2>5, <2>6
<1> QED
  BY <1>5, <1>6

\* Where the parts end is determined by their lengths.
LEMMA EndsExist ==
    ASSUME NEW sizes \in Seq(Nat)
    PROVE  \E e \in [0 .. Len(sizes) -> Nat] : e[0] = 0 /\ \A i \in 1 .. Len(sizes) : e[i] = e[i - 1] + sizes[i]
<1> DEFINE N == Len(sizes)
           G == [m \in (1 .. N) \X Nat |-> m[2] + sizes[m[1]]]
<1>1. N \in Nat /\ \A i \in 1 .. N : sizes[i] \in Nat
  OBVIOUS
<1>2. PICK f : Solves(f, N, Nat, 0, G)
  <2>1. G \in [(1 .. N) \X Nat -> Nat]
    BY <1>1
  <2> HIDE DEF G, N
  <2>2. Recurrence(N, Nat, 0, G)
    BY <1>1, <2>1 DEF Recurrence
  <2> QED
    BY <2>2, Recursion
<1>3. f \in [0 .. N -> Nat] /\ f[0] = 0 /\ \A n \in 1 .. N : f[n] = G[<<n, f[n - 1]>>]
  BY <1>2 DEF Solves
<1>4. ASSUME NEW n \in 1 .. N PROVE f[n] = f[n - 1] + sizes[n]
  <2>0. N \in Nat /\ f \in [0 .. N -> Nat]
    BY <1>1, <1>3
  <2>1. n - 1 \in 0 .. N /\ f[n - 1] \in Nat
    <3> HIDE DEF G, N
    <3> QED
      BY <2>0
  <2>2. <<n, f[n - 1]>> \in (1 .. N) \X Nat
    BY <2>1
  <2>3. G[<<n, f[n - 1]>>] = f[n - 1] + sizes[n]
    BY <2>2
  <2> QED
    BY <1>3, <2>3
<1> QED
  <2> HIDE DEF N, G
  <2>1. f \in [0 .. N -> Nat] /\ f[0] = 0 /\ \A i \in 1 .. N : f[i] = f[i - 1] + sizes[i]
    BY <1>3, <1>4
  <2> QED
    BY <2>1 DEF N

LEMMA TotalIs ==
    ASSUME NEW sizes \in Seq(Nat), NEW e, e \in [0 .. Len(sizes) -> Nat], e[0] = 0,
           \A i \in 1 .. Len(sizes) : e[i] = e[i - 1] + sizes[i]
    PROVE  Total(sizes) = e[Len(sizes)]
<1> DEFINE N == Len(sizes)
           Body0(g) == [i \in 0 .. N |-> IF i = 0 THEN 0 ELSE g[i - 1] + sizes[i]]
           h == CHOOSE g : g = Body0(g)
<1>1. N \in Nat
  OBVIOUS
<1>2. e = Body0(e)
  <2>1. \A i \in 0 .. N : e[i] = IF i = 0 THEN 0 ELSE e[i - 1] + sizes[i]
    <3>1. \A i \in 0 .. N : i # 0 => i \in 1 .. N
      BY <1>1
    <3> HIDE DEF N
    <3> QED
      BY <3>1 DEF N
  <2> QED
    BY <2>1
<1>3. h = Body0(h)
  BY <1>2
<1>4. 0 .. N \subseteq {i \in 0 .. N : h[i] = e[i]}
  <2> DEFINE S == {i \in 0 .. N : h[i] = e[i]}
  <2> HIDE DEF h
  <2>1. 0 \in S
    <3>1. 0 \in 0 .. N /\ h[0] = 0
      BY <1>1, <1>3
    <3> QED
      BY <3>1
  <2>2. ASSUME NEW n \in 1 .. N, n - 1 \in S PROVE n \in S
    <3>1. n \in 0 .. N /\ n # 0 /\ h[n - 1] = e[n - 1]
      BY <1>1, <2>2
    <3>2. h[n] = h[n - 1] + sizes[n]
      BY <1>3, <3>1
    <3> QED
      BY <3>1, <3>2
  <2>3. 0 .. N \subseteq S
    <3> HIDE DEF S
    <3> QED
      BY <1>1, <2>1, <2>2, UpTo
  <2> QED
    BY <2>3
<1>5. Total(sizes) = h[N]
  BY DEF Total
<1> QED
  <2> HIDE DEF h
  <2>1. N \in 0 .. N
    BY <1>1
  <2> QED
    BY <1>4, <1>5, <2>1

\* The parts sit one after the other.
LEMMA FlattenSits ==
    ASSUME NEW parts \in Seq(Seq(Nat)), NEW e, Ends(parts, e)
    PROVE  /\ FlattenSeq(parts) \in Seq(Nat) /\ Len(FlattenSeq(parts)) = e[Len(parts)]
           /\ \A b \in Seq(Nat), o \in Pos : Sits(b, o, FlattenSeq(parts)) =>
                 \A i \in 1 .. Len(parts) : o + e[i - 1] \in Pos /\ Sits(b, o + e[i - 1], parts[i])
<1> DEFINE N == Len(parts)
<1>0. N \in Nat /\ \A i \in 1 .. N : parts[i] \in Seq(Nat) /\ Len(parts[i]) \in Nat
  OBVIOUS
<1>1. PICK f \in [0 .. N -> Seq(Nat)] :
              /\ f[0] = <<>> /\ \A i \in 1 .. N : f[i] = f[i - 1] \o parts[i]
              /\ FlattenSeq(parts) = f[N]
  BY FlattenSteps
<1>2. e \in [0 .. N -> Nat] /\ e[0] = 0 /\ \A i \in 1 .. N : e[i] = e[i - 1] + Len(parts[i])
  BY DEF Ends
<1> HIDE DEF N
<1>3. ASSUME NEW n \in 1 .. N
      PROVE  /\ n - 1 \in 0 .. N /\ n \in 0 .. N /\ f[n - 1] \in Seq(Nat) /\ parts[n] \in Seq(Nat)
             /\ f[n] = f[n - 1] \o parts[n] /\ Len(f[n]) = Len(f[n - 1]) + Len(parts[n])
  <2>1. n - 1 \in 0 .. N /\ n \in 0 .. N /\ parts[n] \in Seq(Nat)
    BY <1>0
  <2>2. f[n - 1] \in Seq(Nat)
    BY <2>1
  <2>3. f[n] = f[n - 1] \o parts[n]
    BY <1>1
  <2> DEFINE u == f[n - 1]
             v == parts[n]
  <2>4. u \in Seq(Nat) /\ v \in Seq(Nat)
    BY <2>1, <2>2
  <2> HIDE DEF u, v
  <2>5. Len(u \o v) = Len(u) + Len(v)
    BY <2>4, ConcatNat
  <2> QED
    BY <2>1, <2>2, <2>3, <2>5 DEF u, v
<1>4. 0 .. N \subseteq {n \in 0 .. N : Len(f[n]) = e[n]}
  <2> DEFINE S == {n \in 0 .. N : Len(f[n]) = e[n]}
  <2>1. 0 \in S
    BY <1>0, <1>1, <1>2
  <2>2. ASSUME NEW n \in 1 .. N, n - 1 \in S PROVE n \in S
    BY <1>2, <1>3, <2>2
  <2>3. 0 .. N \subseteq S
    <3> HIDE DEF S
    <3> QED
      BY <1>0, <2>1, <2>2, UpTo
  <2> QED
    BY <2>3
<1>5. FlattenSeq(parts) \in Seq(Nat) /\ Len(FlattenSeq(parts)) = e[N]
  <2>1. N \in 0 .. N
    BY <1>0
  <2>2. f[N] \in Seq(Nat) /\ Len(f[N]) = e[N]
    BY <1>1, <1>4, <2>1
  <2> QED
    BY <1>1, <2>2
<1>6. ASSUME NEW b \in Seq(Nat), NEW o \in Pos, Sits(b, o, FlattenSeq(parts)), NEW i \in 1 .. N
      PROVE  o + e[i - 1] \in Pos /\ Sits(b, o + e[i - 1], parts[i])
  <2> DEFINE P(n) == /\ o + e[n] \in Pos /\ Sits(b, o, f[n])
                     /\ n # 0 => o + e[n - 1] \in Pos /\ Sits(b, o + e[n - 1], parts[n])
  <2>1. Sits(b, o, f[N]) /\ Len(b) \in Nat
    BY <1>1, <1>6
  <2>2. ASSUME NEW n \in 1 .. N, Sits(b, o, f[n])
        PROVE  Sits(b, o, f[n - 1]) /\ o + e[n - 1] \in Pos /\ Sits(b, o + e[n - 1], parts[n])
    <3> DEFINE u == f[n - 1]
               v == parts[n]
    <3>1. u \in Seq(Nat) /\ v \in Seq(Nat) /\ Len(u) = e[n - 1]
      BY <1>3, <1>4
    <3>2. Sits(b, o, u \o v)
      BY <1>3, <2>2
    <3>a. u \in Seq(Nat) /\ v \in Seq(Nat)
      BY <3>1
    <3> HIDE DEF u, v
    <3>3. Sits(b, o, u) /\ o + Len(u) \in Pos /\ Sits(b, o + Len(u), v)
      BY <2>1, <3>a, <3>2, SitsParts
    <3> QED
      BY <3>1, <3>3 DEF u, v
  <2>3. 0 .. N \subseteq {m \in 0 .. N : Sits(b, o, f[N - m])}
    <3> DEFINE S == {m \in 0 .. N : Sits(b, o, f[N - m])}
    <3>1. 0 \in S
      <4>1. N - 0 = N /\ 0 \in 0 .. N
        BY <1>0
      <4> QED
        BY <2>1, <4>1
    <3>2. ASSUME NEW m \in 1 .. N, m - 1 \in S PROVE m \in S
      <4>1. N - (m - 1) \in 1 .. N /\ N - (m - 1) - 1 = N - m /\ m \in 0 .. N
        BY <1>0
      <4>2. Sits(b, o, f[N - (m - 1)])
        BY <3>2
      <4>3. Sits(b, o, f[N - (m - 1) - 1])
        BY <2>2, <4>1, <4>2
      <4> QED
        BY <4>1, <4>3
    <3>3. 0 .. N \subseteq S
      <4> HIDE DEF S
      <4> QED
        BY <1>0, <3>1, <3>2, UpTo
    <3> QED
      BY <3>3
  <2>4. Sits(b, o, f[i])
    <3>1. N - i \in 0 .. N /\ N - (N - i) = i
      BY <1>0
    <3>2. Sits(b, o, f[N - (N - i)])
      BY <2>3, <3>1
    <3> QED
      BY <3>1, <3>2
  <2> QED
    BY <2>2, <2>4
<1> QED
  BY <1>5, <1>6 DEF N

-----------------------------------------------------------------------------
\* The NULL bitmap: as many bytes as were counted, and the bit of each value in
\* the byte where the server looks for it.
LEMMA BitmapIs ==
    ASSUME NEW params, Len(params) \in Nat, \A i \in 1 .. Len(params) : params[i].isNull \in BOOLEAN
    PROVE  /\ WrittenBitmap(params) \in Seq(Nat)
           /\ Len(WrittenBitmap(params)) = BitmapLength(Len(params)) /\ BitmapLength(Len(params)) \in Nat
           /\ \A i \in 1 .. Len(params) :
                 /\ 1 + ((i - 1) \div Bits) \in 1 .. BitmapLength(Len(params))
                 /\ BitSet(WrittenBitmap(params)[1 + ((i - 1) \div Bits)], (i - 1) % Bits)
                      <=> params[i].isNull
<1> DEFINE n == Len(params)
           Bit(i) == IF i <= n /\ params[i].isNull THEN 2 ^ ((i - 1) % Bits) ELSE 0
           z(i) == IF i <= n /\ params[i].isNull THEN 1 ELSE 0
           m == BitmapLength(n)
           byte(k) == z(3 * k - 2) + 2 * z(3 * k - 1) + 4 * z(3 * k)
<1>0. Bits = 3 /\ 2 ^ 0 = 1 /\ 2 ^ 1 = 2 /\ 2 ^ 2 = 4
  BY DEF Bits
<1>1. m \in Nat /\ m = (n \div Bits) + (IF n % Bits = 0 THEN 0 ELSE 1)
  <2>1. (n + 3 - 1) \div 3 = (n \div 3) + (IF n % 3 = 0 THEN 0 ELSE 1)
    BY SMT
  <2> QED
    BY <1>0, <2>1 DEF BitmapLength
<1>2. ASSUME NEW k \in 1 .. m
      PROVE Bit(Bits * k - 2) + Bit(Bits * k - 1) + Bit(Bits * k) = byte(k) /\ byte(k) \in Nat
  <2>1. (3 * k - 2 - 1) % 3 = 0 /\ (3 * k - 1 - 1) % 3 = 1 /\ (3 * k - 1) % 3 = 2
    BY <1>1, SMT
  <2>2. 3 * k - 2 \in Int /\ 3 * k - 1 \in Int /\ 3 * k \in Int
    BY <1>1, SMT
  <2>3. \A j, e : j \in Int /\ 2 ^ ((j - 1) % 3) = e /\ e \in Nat => Bit(j) = e * z(j)
    BY <1>0
  <2>4. /\ Bit(3 * k - 2) = 1 * z(3 * k - 2) /\ Bit(3 * k - 1) = 2 * z(3 * k - 1)
        /\ Bit(3 * k) = 4 * z(3 * k)
    <3>1. 2 ^ ((3 * k - 2 - 1) % 3) = 1 /\ 2 ^ ((3 * k - 1 - 1) % 3) = 2 /\ 2 ^ ((3 * k - 1) % 3) = 4
      BY <1>0, <2>1
    <3> HIDE DEF Bit, z
    <3>2. Bit(3 * k - 2) = 1 * z(3 * k - 2)
      BY <2>2, <2>3, <3>1
    <3>3. Bit(3 * k - 1) = 2 * z(3 * k - 1)
      BY <2>2, <2>3, <3>1
    <3>4. Bit(3 * k) = 4 * z(3 * k)
      BY <2>2, <2>3, <3>1
    <3> QED
      BY <3>2, <3>3, <3>4
  <2>5. z(3 * k - 2) \in Nat /\ z(3 * k - 1) \in Nat /\ z(3 * k) \in Nat
    OBVIOUS
  <2> HIDE DEF z, Bit
  <2> QED
    BY <1>0, <2>4, <2>5
<1>3. WrittenBitmap(params) = [k \in 1 .. m |-> Bit(Bits * k - 2) + Bit(Bits * k - 1) + Bit(Bits * k)]
  <2> HIDE DEF m
  <2> QED
    BY <1>1 DEF WrittenBitmap
<1> DEFINE w == WrittenBitmap(params)
<1>4. w \in [1 .. m -> Nat] /\ \A k \in 1 .. m : w[k] = byte(k)
  <2> HIDE DEF m, byte, Bit
  <2> QED
    BY <1>2, <1>3
<1>5. w \in Seq(Nat) /\ Len(w) = m
  <2> HIDE DEF w, m
  <2> QED
    BY <1>1, <1>4
<1>6. ASSUME NEW i \in 1 .. n
      PROVE  /\ 1 + ((i - 1) \div Bits) \in 1 .. m
             /\ BitSet(w[1 + ((i - 1) \div Bits)], (i - 1) % Bits) <=> params[i].isNull
  <2> DEFINE k == 1 + ((i - 1) \div 3)
             r == (i - 1) % 3
             Null0(j) == j <= n /\ params[j].isNull
  <2>1. k \in 1 .. m
    <3>1. (n + 3 - 1) \div 3 = m
      BY <1>0 DEF BitmapLength
    <3> HIDE DEF m
    <3> QED
      BY <3>1, SMT
  <2>2. k \in Nat /\ r \in {0, 1, 2} /\ i = 3 * k - 2 + r
    BY SMT
  <2>3. w[k] = byte(k)
    BY <1>4, <2>1
  <2>4. z(i) = IF params[i].isNull THEN 1 ELSE 0
    OBVIOUS
  <2>5. params[i].isNull \in BOOLEAN
    OBVIOUS
  <2>6. z(3 * k - 2) \in {0, 1} /\ z(3 * k - 1) \in {0, 1} /\ z(3 * k) \in {0, 1}
    OBVIOUS
  <2> HIDE DEF z, w, m, k, r
  <2> DEFINE a == z(3 * k - 2)
             b == z(3 * k - 1)
             c == z(3 * k)
  <2>7. w[k] = a + 2 * b + 4 * c
    BY <2>3
  <2>8. BitSet(w[k], r) <=> z(i) = 1
    <3>1. CASE r = 0
      <4>1. z(i) = a /\ i = 3 * k - 2
        BY <2>2, <3>1
      <4>2. BitSet(w[k], r) <=> (w[k] \div 1) % 2 = 1
        BY <1>0, <3>1 DEF BitSet
      <4>a. a \in {0, 1} /\ b \in {0, 1} /\ c \in {0, 1}
        BY <2>6
      <4> HIDE DEF a, b, c
      <4>3. ((a + 2 * b + 4 * c) \div 1) % 2 = a
        BY <4>a, SMT
      <4> QED
        BY <2>7, <4>1, <4>2, <4>3
    <3>2. CASE r = 1
      <4>1. z(i) = b /\ i = 3 * k - 1
        BY <2>2, <3>2
      <4>2. BitSet(w[k], r) <=> (w[k] \div 2) % 2 = 1
        BY <1>0, <3>2 DEF BitSet
      <4>a. a \in {0, 1} /\ b \in {0, 1} /\ c \in {0, 1}
        BY <2>6
      <4> HIDE DEF a, b, c
      <4>3. ((a + 2 * b + 4 * c) \div 2) % 2 = b
        BY <4>a, SMT
      <4> QED
        BY <2>7, <4>1, <4>2, <4>3
    <3>3. CASE r = 2
      <4>1. z(i) = c /\ i = 3 * k
        BY <2>2, <3>3
      <4>2. BitSet(w[k], r) <=> (w[k] \div 4) % 2 = 1
        BY <1>0, <3>3 DEF BitSet
      <4>a. a \in {0, 1} /\ b \in {0, 1} /\ c \in {0, 1}
        BY <2>6
      <4> HIDE DEF a, b, c
      <4>3. ((a + 2 * b + 4 * c) \div 4) % 2 = c
        BY <4>a, SMT
      <4> QED
        BY <2>7, <4>1, <4>2, <4>3
    <3> QED
      BY <2>2, <3>1, <3>2, <3>3
  <2>9. BitSet(w[k], r) <=> params[i].isNull
    BY <2>4, <2>5, <2>8
  <2> QED
    BY <1>0, <2>1, <2>9 DEF k, r
<1> HIDE DEF w, m
<1> QED
  BY <1>1, <1>5, <1>6 DEF w, m

-----------------------------------------------------------------------------
\* What the server makes of a value that sits in a request: x, and it goes on
\* behind the bytes of the value.
Reads(type, unsigned, zone, bytes, x) ==
    /\ bytes \in Seq(Nat)
    /\ \A b \in Seq(Nat), o \in Pos :
          Sits(b, o, bytes) => ServerValue(type, unsigned, zone, b, o) = At(x, o + Len(bytes))

ZoneNames == {"local", "Z"} \union DOMAIN ZoneMinutes

WholeAt(unsigned, b, o, w) ==
    [number |-> <<IF unsigned THEN Le(Bytes(b, o, w)) ELSE Complement(Le(Bytes(b, o, w)), w), 0>>]

LEMMA WholeServed ==
    ASSUME NEW type, NEW w, <<type, w>> \in {<<"TINY", 1>>, <<"SHORT", 2>>, <<"LONG", 4>>},
           NEW u, NEW zone, NEW b, NEW o
    PROVE  ServerValue(type, u, zone, b, o) = At(WholeAt(u, b, o, w), o + w)
<1>1. ServerValue("TINY", u, zone, b, o) = At(WholeAt(u, b, o, 1), o + 1)
  BY DEF ServerValue, WholeAt, TEMPORAL_TYPES
<1>2. ServerValue("SHORT", u, zone, b, o) = At(WholeAt(u, b, o, 2), o + 2)
  BY DEF ServerValue, WholeAt, TEMPORAL_TYPES
<1>3. ServerValue("LONG", u, zone, b, o) = At(WholeAt(u, b, o, 4), o + 4)
  BY DEF ServerValue, WholeAt, TEMPORAL_TYPES
<1>4. \/ type = "TINY" /\ w = 1
      \/ type = "SHORT" /\ w = 2
      \/ type = "LONG" /\ w = 4
  OBVIOUS
<1> QED
  BY <1>1, <1>2, <1>3, <1>4

LEMMA LongServed ==
    ASSUME NEW u, NEW zone, NEW b, NEW o
    PROVE  ServerValue("LONGLONG", u, zone, b, o)
             = At([number |-> <<Complement(Le(Bytes(b, o + 4, 4)), 4) * Word + Le(Bytes(b, o, 4)), 0>>], o + 8)
BY DEF ServerValue, TEMPORAL_TYPES

LEMMA DoubleServed ==
    ASSUME NEW u, NEW zone, NEW b, NEW o
    PROVE  ServerValue("DOUBLE", u, zone, b, o) = At([number |-> readDouble(b, o).v.dbl], o + 8)
BY DEF ServerValue, TEMPORAL_TYPES

LEMMA FloatServed ==
    ASSUME NEW u, NEW zone, NEW b, NEW o
    PROVE  ServerValue("FLOAT", u, zone, b, o) = At([number |-> readFloat(b, o).v.dbl], o + 4)
BY DEF ServerValue, TEMPORAL_TYPES

LEMMA TimeServed ==
    ASSUME NEW u, NEW zone, NEW b, NEW o
    PROVE  ServerValue("TIME", u, zone, b, o) = At([time |-> ServerTimeValue(b, o)], o + 1 + b[o])
<1>1. ServerValue("TIME", u, zone, b, o) = At([time |-> ServerTimeValue(b, o)], o + 1 + b[o])
  BY SMTT(60) DEF ServerValue, TEMPORAL_TYPES
<1> QED
  BY <1>1

\* What a text stands for in a type.
TextAs(type, s) == IF type = "JSON" THEN Json(s) ELSE IF type = "BLOB" THEN Buf(s) ELSE Str(s)

LEMMA TextServed ==
    ASSUME NEW type \in {"JSON", "BLOB", "DECIMAL", "VAR_STRING", "STRING"},
           NEW u, NEW zone, NEW b, NEW o, NEW s, NEW e, readLengthCodedString(b, o) = At(Str(s), e)
    PROVE  ServerValue(type, u, zone, b, o) = At(TextAs(type, s), e)
<1> DEFINE string == readLengthCodedString(b, o)
<1>1. string.v.str = s /\ string.o = e
  BY DEF At, Str
<1>2. type = "JSON" => ServerValue(type, u, zone, b, o) = At(Json(string.v.str), string.o)
  BY DEF ServerValue, TEMPORAL_TYPES
<1>3. type = "BLOB" => ServerValue(type, u, zone, b, o) = At(Buf(string.v.str), string.o)
  BY DEF ServerValue, TEMPORAL_TYPES
<1>4. type \in {"DECIMAL", "VAR_STRING", "STRING"} => ServerValue(type, u, zone, b, o) = string
  BY DEF ServerValue, TEMPORAL_TYPES
<1> HIDE DEF string
<1>5. string = At(Str(s), e)
  BY DEF string
<1>6. CASE type = "JSON"
  BY <1>1, <1>2, <1>6 DEF TextAs
<1>7. CASE type = "BLOB"
  BY <1>1, <1>3, <1>7 DEF TextAs
<1>8. CASE type \in {"DECIMAL", "VAR_STRING", "STRING"}
  <2>1. type # "JSON" /\ type # "BLOB"
    BY <1>8
  <2> QED
    BY <1>4, <1>5, <1>8, <2>1 DEF TextAs
<1> QED
  BY <1>6, <1>7, <1>8

LEMMA DateServed ==
    ASSUME NEW type \in TEMPORAL_TYPES, NEW u, NEW zone, NEW b, NEW o
    PROVE  ServerValue(type, u, zone, b, o)
             = At(IF zone = "local" THEN Instant(Shift(Wall(ServerDateParts(b, o)), -LocalMinutes))
                  ELSE InZone(ServerDateParts(b, o), zone), o + 1 + b[o])
BY DEF ServerValue, TEMPORAL_TYPES

\* Integers.
LEMMA WholeReads ==
    ASSUME NEW type, NEW w, <<type, w>> \in {<<"TINY", 1>>, <<"SHORT", 2>>, <<"LONG", 4>>},
           NEW u \in BOOLEAN, NEW zone, NEW n \in Int, Fits(n, w, u)
    PROVE  Reads(type, u, zone, ToLe(n, w), [number |-> <<n, 0>>]) /\ Len(ToLe(n, w)) = w
<1>1. w \in {1, 2, 4}
  OBVIOUS
<1>2. ToLe(n, w) \in Seq(Nat) /\ Len(ToLe(n, w)) = w
  BY <1>1, ToLeTyped
<1>3. ASSUME NEW b \in Seq(Nat), NEW o \in Pos, Sits(b, o, ToLe(n, w))
      PROVE WholeAt(u, b, o, w) = [number |-> <<n, 0>>]
  <2>1. Le(Bytes(b, o, w)) = n % (Byte ^ w)
    BY <1>1, <1>3, FixedRead
  <2>2. CASE u
    <3>1. 0 <= n /\ n < Byte ^ w
      BY <1>1, <2>2 DEF Fits
    <3>2. n % (Byte ^ w) = n
      <4>1. \A m : m \in {20, 400, 160000} /\ 0 <= n /\ n < m => n % m = n
        BY SMT
      <4> QED
        BY <1>1, <3>1, <4>1, Spans
    <3> QED
      BY <2>1, <2>2, <3>2 DEF WholeAt
  <2>3. CASE ~u
    <3>1. -(Byte ^ w) <= 2 * n /\ 2 * n < Byte ^ w
      <4>1. Byte ^ w \in {20, 400, 160000}
        BY <1>1, Spans
      <4>2. 2 * n >= -(Byte ^ w) /\ 2 * n < Byte ^ w
        BY <1>1, <2>3 DEF Fits
      <4>3. \A m : m \in {20, 400, 160000} /\ 2 * n >= -m /\ 2 * n < m => -m <= 2 * n /\ 2 * n < m
        BY SMT
      <4> QED
        BY <4>1, <4>2, <4>3
    <3>2. Complement(n % (Byte ^ w), w) = n
      BY <1>1, <3>1, ComplementOf
    <3> QED
      BY <2>1, <2>3, <3>2 DEF WholeAt
  <2> QED
    BY <2>2, <2>3
<1>4. ASSUME NEW b \in Seq(Nat), NEW o \in Pos, Sits(b, o, ToLe(n, w))
      PROVE ServerValue(type, u, zone, b, o) = At([number |-> <<n, 0>>], o + Len(ToLe(n, w)))
  <2>1. ServerValue(type, u, zone, b, o) = At(WholeAt(u, b, o, w), o + w)
    BY WholeServed
  <2> QED
    BY <1>2, <1>3, <1>4, <2>1
<1> QED
  BY <1>2, <1>4 DEF Reads

LEMMA Between ==
    ASSUME NEW a \in Int, NEW c \in Int, NEW q \in a .. c
    PROVE  q \in Int /\ a <= q /\ q <= c
OBVIOUS

LEMMA Quarter == Word \in Int /\ Word \div 4 \in Int /\ Word = 4 * (Word \div 4) /\ Byte ^ 4 = Word
<1>1. Byte ^ 4 = Word
  BY BytePowers, SMT
<1> QED
  BY <1>1, SMT DEF Word, Byte

LEMMA HalfWord ==
    ASSUME NEW q, q \in -(Word \div 4) .. ((Word \div 4) - 1)
    PROVE  q \in Int /\ -(Byte ^ 4) <= 2 * q /\ 2 * q < Byte ^ 4
<1> DEFINE d == Word \div 4
<1>1. d \in Int /\ Word = 4 * d /\ Word \in Int
  BY Quarter, Zenon
<1>2. q \in -d .. (d - 1)
  BY Zenon
<1> HIDE DEF d
<1>3. q \in Int /\ -d <= q /\ q <= d - 1
  <2>1. -d \in Int /\ d - 1 \in Int
    BY ONLY <1>1, SMT
  <2> QED
    BY ONLY <2>1, <1>2, Between, Zenon
<1>4. -Word <= 2 * q /\ 2 * q < Word
  BY ONLY <1>1, <1>3, SMT
<1> QED
  BY <1>3, <1>4, Quarter, Zenon

LEMMA WideReads ==
    ASSUME NEW u, NEW zone, NEW n, InInteger(n)
    PROVE  Reads("LONGLONG", u, zone, WideBytes(n), [number |-> <<n, 0>>]) /\ Len(WideBytes(n)) = 8
<1>1. n \in Int /\ n \div Word \in Int
  BY WordSplit DEF InInteger
<1>2. WideBytes(n) \in Seq(Nat) /\ Len(WideBytes(n)) = 8
  BY <1>1, WideTyped
<1>3. ASSUME NEW b \in Seq(Nat), NEW o \in Pos, Sits(b, o, WideBytes(n))
      PROVE Complement(Le(Bytes(b, o + 4, 4)), 4) * Word + Le(Bytes(b, o, 4)) = n
  <2>1. Le(Bytes(b, o, 4)) = n % Word /\ Le(Bytes(b, o + 4, 4)) = (n \div Word) % (Byte ^ 4)
    BY <1>1, <1>3, WideRead
  <2>2. -(Byte ^ 4) <= 2 * (n \div Word) /\ 2 * (n \div Word) < Byte ^ 4
    BY HalfWord DEF InInteger
  <2>3. Complement((n \div Word) % (Byte ^ 4), 4) = n \div Word
    BY <1>1, <2>2, ComplementOf
  <2> QED
    BY <1>1, <2>1, <2>3, WordSplit
<1>4. ASSUME NEW b \in Seq(Nat), NEW o \in Pos, Sits(b, o, WideBytes(n))
      PROVE ServerValue("LONGLONG", u, zone, b, o) = At([number |-> <<n, 0>>], o + Len(WideBytes(n)))
  <2>1. ServerValue("LONGLONG", u, zone, b, o)
                = At([number |-> <<Complement(Le(Bytes(b, o + 4, 4)), 4) * Word + Le(Bytes(b, o, 4)), 0>>],
                     o + 8)
    BY LongServed, Zenon
  <2> QED
    BY <1>2, <1>3, <1>4, <2>1
<1> QED
  BY <1>2, <1>4 DEF Reads

\* Numbers.
LEMMA RealReads ==
    ASSUME NEW type, NEW w, NEW size,
           <<type, w, size>> = <<"DOUBLE", 6, 8>> \/ <<type, w, size>> = <<"FLOAT", 3, 4>>,
           NEW u, NEW zone, NEW m, InMantissa(m, w),
           NEW rest, rest \in Seq(Nat), rest # <<>>, Len(rest) = size - w
    PROVE  Reads(type, u, zone, ToLe(m, w) \o rest, [number |-> <<m, rest[1]>>])
<1>0. /\ w \in {1, 2, 3, 4, 6} /\ m \in Int
      /\ (type = "DOUBLE" /\ w = 6 /\ size = 8) \/ (type = "FLOAT" /\ w = 3 /\ size = 4)
  BY DEF InMantissa
<1> DEFINE s == ToLe(m, w)
           d == rest[1]
<1>1. s \in Seq(Nat) /\ Len(s) = w
  BY <1>0, ToLeTyped
<1> HIDE DEF s
<1>2. s \o rest \in Seq(Nat) /\ Len(s \o rest) = size
  <2>1. s \o rest \in Seq(Nat) /\ Len(s \o rest) = Len(s) + Len(rest)
    BY <1>1, ConcatNat
  <2> QED
    BY <1>0, <1>1, <2>1
<1>3. ASSUME NEW b \in Seq(Nat), NEW o \in Pos, Sits(b, o, s \o rest)
      PROVE ServerValue(type, u, zone, b, o) = At([number |-> <<m, d>>], o + Len(s \o rest))
  <2>1. Sits(b, o, s) /\ Sits(b, o + w, rest)
    <3>1. Len(b) \in Nat
      OBVIOUS
    <3> QED
      BY <1>1, <1>3, <3>1, SitsParts
  <2>2. b[o + w] = d
    BY <1>1, <2>1, SitsBytes
  <2>3. Has(b, o, size)
    <3>1. Has(b, o, Len(s \o rest))
      BY <1>2, <1>3, SitsBytes
    <3> QED
      BY <1>2, <3>1, Zenon
  <2>4. Complement(Le(Bytes(b, o, w)), w) = m
    <3>1. Le(Bytes(b, o, w)) = m % (Byte ^ w)
      BY <1>0, <2>1, FixedRead DEF s
    <3>2. -(Byte ^ w) <= 2 * m /\ 2 * m < Byte ^ w
      <4>1. \A e, x : 2 * e >= x => x <= 2 * e
        OBVIOUS
      <4> QED
        BY <4>1, Zenon DEF InMantissa
    <3> QED
      BY <1>0, <3>1, <3>2, ComplementOf
  <2>5. CASE type = "DOUBLE" /\ w = 6 /\ size = 8
    <3>1. readDouble(b, o).v.dbl = <<m, d>>
      BY <2>2, <2>3, <2>4, <2>5 DEF readDouble, At, Dbl
    <3>2. ServerValue("DOUBLE", u, zone, b, o) = At([number |-> <<m, d>>], o + 8)
      <4>1. ServerValue("DOUBLE", u, zone, b, o) = At([number |-> readDouble(b, o).v.dbl], o + 8)
        BY DoubleServed, Zenon
      <4> QED
        BY <3>1, <4>1, Zenon
    <3>3. Len(s \o rest) = 8
      BY <1>2, <2>5
    <3> QED
      BY <2>5, <3>2, <3>3
  <2>6. CASE type = "FLOAT" /\ w = 3 /\ size = 4
    <3>1. readFloat(b, o).v.dbl = <<m, d>>
      BY <2>2, <2>3, <2>4, <2>6 DEF readFloat, At, Dbl
    <3>2. ServerValue("FLOAT", u, zone, b, o) = At([number |-> <<m, d>>], o + 4)
      <4>1. ServerValue("FLOAT", u, zone, b, o) = At([number |-> readFloat(b, o).v.dbl], o + 4)
        BY FloatServed, Zenon
      <4> QED
        BY <3>1, <4>1, Zenon
    <3>3. Len(s \o rest) = 4
      BY <1>2, <2>6
    <3> QED
      BY <2>6, <3>2, <3>3
  <2> QED
    BY <1>0, <2>5, <2>6
<1> QED
  BY <1>2, <1>3 DEF Reads, s

\* Texts, buffers and objects.
LEMMA TextReads ==
    ASSUME NEW type \in {"JSON", "BLOB", "DECIMAL", "VAR_STRING", "STRING"}, NEW u, NEW zone, NEW s, IsText(s)
    PROVE  /\ Reads(type, u, zone, writeLengthCodedBuffer(s), TextAs(type, s))
           /\ Len(writeLengthCodedBuffer(s)) = lengthCodedStringLength(s)
<1>1. s \in Seq(Nat)
  BY DEF IsText
<1> DEFINE w == writeLengthCodedBuffer(s)
<1>2. w \in Seq(Nat) /\ Len(w) = lengthCodedStringLength(s)
  BY <1>1, BufferWritten
<1> HIDE DEF w
<1>3. ASSUME NEW b \in Seq(Nat), NEW o \in Pos, Sits(b, o, w)
      PROVE ServerValue(type, u, zone, b, o) = At(TextAs(type, s), o + Len(w))
  <2>1. readLengthCodedString(b, o) = At(Str(s), o + lengthCodedStringLength(s))
    BY <1>3, StringRead DEF w
  <2> QED
    BY <1>2, <2>1, TextServed
<1> QED
  BY <1>2, <1>3 DEF Reads, w

\* Dates.  The parts of an instant that are written are the parts that are read.
LEMMA PartsWall ==
    ASSUME NEW a, a \in 0 .. (Years * 4 * HoursPerDay * MinutesPerHour - 1), NEW s \in Nat,
           NEW f, f \in 0 .. (UsPerMs - 1)
    PROVE  LET p == PartsOf(<<a, s, f>>)
           IN  /\ Wall(p) = <<a, s, f>>
               /\ p.y \in 0 .. 399 /\ p.mo \in Nat /\ p.d \in Nat /\ p.h \in Nat /\ p.mi \in Nat /\ p.s \in Nat
               /\ p.us \in 0 .. 90
               /\ p = Parts(p.y, p.mo, p.d, p.h, p.mi, p.s, p.us)
<1>0. HoursPerDay = 3 /\ MinutesPerHour = 4 /\ UsPerMs = 10 /\ Years = 400
  BY BytePowers DEF HoursPerDay, MinutesPerHour, UsPerMs, Years
<1>1. a \in Nat /\ a < 19200 /\ f \in 0 .. 9
  BY <1>0, SMT
<1> DEFINE hours == a \div 4
           days == hours \div 3
           y == days \div 4
           mo == ((days \div 2) % 2) + 1
           d == (days % 2) + 1
           h == hours % 3
           mi == a % 4
<1>2. y \in 0 .. 399 /\ mo \in Nat /\ d \in Nat /\ h \in Nat /\ mi \in Nat
  BY <1>1, SMT
<1>3. ((((y * 2 + mo - 1) * 2 + d - 1) * 3) + h) * 4 + mi = a
  <2>1. a = 4 * hours + mi /\ hours = 3 * days + h
    BY <1>1, SMT
  <2>2. days = 4 * y + 2 * (mo - 1) + (d - 1)
    BY <1>1, SMT
  <2>3. hours \in Int /\ days \in Int
    BY <1>1, SMT
  <2> HIDE DEF hours, days, y, mo, d, h, mi
  <2> QED
    BY <1>2, <2>1, <2>2, <2>3, SMT
<1>4. (f * 10) \div 10 = f /\ f * 10 \in 0 .. 90
  BY <1>1, SMT
<1>5. PartsOf(<<a, s, f>>) = Parts(y, mo, d, h, mi, s, f * 10)
  BY <1>0 DEF PartsOf
<1> HIDE DEF y, mo, d, h, mi
<1>6. Wall(Parts(y, mo, d, h, mi, s, f * 10)) = <<a, s, f>>
  BY <1>0, <1>3, <1>4 DEF Wall, Parts
<1> QED
  BY <1>1, <1>2, <1>4, <1>5, <1>6 DEF Parts

LEMMA WithinTwo == ASSUME NEW y, y \in 0 .. 399 PROVE y \in Int /\ y % (Byte ^ 2) = y
<1>1. \A e : e = 400 => y % e = y /\ y \in Int
  BY SMT
<1>2. Byte ^ 2 = 400
  BY BytePowers, SMT
<1> QED
  BY ONLY <1>1, <1>2, Zenon

LEMMA WithinFour == ASSUME NEW y, y \in 0 .. 90 PROVE y \in Int /\ y % (Byte ^ 4) = y
<1>1. y % Word = y /\ y \in Int
  BY SMT DEF Word, Byte
<1>2. Byte ^ 4 = Word
  BY Quarter
<1> QED
  BY ONLY <1>1, <1>2, Zenon

DateOnWire(p) == <<11>> \o ToLe(p.y, 2) \o <<p.mo, p.d, p.h, p.mi, p.s>> \o ToLe(p.us, 4)

LEMMA DateOnWireRead ==
    ASSUME NEW p, p.y \in 0 .. 399, p.mo \in Nat, p.d \in Nat, p.h \in Nat, p.mi \in Nat, p.s \in Nat,
           p.us \in 0 .. 90, p = Parts(p.y, p.mo, p.d, p.h, p.mi, p.s, p.us)
    PROVE  /\ DateOnWire(p) \in Seq(Nat) /\ Len(DateOnWire(p)) = 12
           /\ \A b \in Seq(Nat), o \in Pos :
                 Sits(b, o, DateOnWire(p)) => ServerDateParts(b, o) = p /\ b[o] = 11
<1>0. p.y \in Int /\ p.us \in Int /\ p.y \in 0 .. 399 /\ p.us \in 0 .. 90
  BY SMT
<1> DEFINE s1 == ToLe(p.y, 2)
           s2 == <<p.mo, p.d, p.h, p.mi, p.s>>
           s3 == ToLe(p.us, 4)
           h == <<11>>
<1>1. s1 \in Seq(Nat) /\ Len(s1) = 2 /\ s3 \in Seq(Nat) /\ Len(s3) = 4
  <2>1. p.y \in Int /\ p.us \in Int
    BY SMT
  <2>2. s1 \in Seq(Nat) /\ Len(s1) = 2
    BY <2>1, ToLeTyped, Zenon
  <2>3. s3 \in Seq(Nat) /\ Len(s3) = 4
    BY <2>1, ToLeTyped, Zenon
  <2> QED
    BY <2>2, <2>3
<1>2. s2 \in Seq(Nat) /\ Len(s2) = 5 /\ h \in Seq(Nat) /\ Len(h) = 1 /\ h[1] = 11
  OBVIOUS
<1>3. s2[1] = p.mo /\ s2[2] = p.d /\ s2[3] = p.h /\ s2[4] = p.mi /\ s2[5] = p.s
  OBVIOUS
<1>4. DateOnWire(p) = h \o s1 \o s2 \o s3
  BY DEF DateOnWire
<1> HIDE DEF s1, s2, s3, h
<1>5. h \o s1 \in Seq(Nat) /\ Len(h \o s1) = 3
  <2>1. h \o s1 \in Seq(Nat) /\ Len(h \o s1) = Len(h) + Len(s1)
    BY <1>1, <1>2, ConcatNat
  <2> QED
    BY <1>1, <1>2, <2>1
<1>6. h \o s1 \o s2 \in Seq(Nat) /\ Len(h \o s1 \o s2) = 8
  <2>1. (h \o s1) \o s2 \in Seq(Nat) /\ Len((h \o s1) \o s2) = Len(h \o s1) + Len(s2)
    BY <1>2, <1>5, ConcatNat
  <2> QED
    BY <1>2, <1>5, <2>1
<1>7. h \o s1 \o s2 \o s3 \in Seq(Nat) /\ Len(h \o s1 \o s2 \o s3) = 12
  <2> DEFINE t == h \o s1 \o s2
  <2> HIDE DEF t
  <2>0. t \in Seq(Nat) /\ Len(t) = 8
    BY <1>6 DEF t
  <2>1. t \o s3 \in Seq(Nat) /\ Len(t \o s3) = Len(t) + Len(s3)
    BY <1>1, <2>0, ConcatNat
  <2> QED
    BY <1>1, <2>0, <2>1 DEF t
<1>8. ASSUME NEW b \in Seq(Nat), NEW o \in Pos, Sits(b, o, h \o s1 \o s2 \o s3)
      PROVE ServerDateParts(b, o) = p /\ b[o] = 11
  <2>0. Len(b) \in Nat /\ o \in Nat
    BY DEF Pos
  <2>1. Sits(b, o, h \o s1 \o s2) /\ Sits(b, o + 8, s3)
    BY <1>1, <1>6, <1>8, <2>0, SitsParts
  <2>2. Sits(b, o, h \o s1) /\ Sits(b, o + 3, s2)
    BY <1>2, <1>5, <2>0, <2>1, SitsParts
  <2>3. Sits(b, o, h) /\ Sits(b, o + 1, s1)
    BY <1>1, <1>2, <2>0, <2>2, SitsParts
  <2>4. b[o] = 11
    <3>1. h # <<>>
      BY <1>2 DEF h
    <3> QED
      BY <1>2, <2>3, <3>1, SitsBytes
  <2>5. Le(Bytes(b, o + 1, 2)) = p.y
    <3>1. Le(Bytes(b, o + 1, 2)) = p.y % (Byte ^ 2)
      BY <1>0, <2>3, FixedRead DEF s1
    <3> QED
      BY <1>0, <3>1, WithinTwo, Zenon
  <2>6. Le(Bytes(b, o + 8, 4)) = p.us
    <3>1. Le(Bytes(b, o + 8, 4)) = p.us % (Byte ^ 4)
      BY <1>0, <2>1, FixedRead DEF s3
    <3> QED
      BY <1>0, <3>1, WithinFour, Zenon
  <2>7. b[o + 3] = p.mo /\ b[o + 4] = p.d /\ b[o + 5] = p.h /\ b[o + 6] = p.mi /\ b[o + 7] = p.s
    <3>1. \A k \in 1 .. 5 : b[o + 3 + k - 1] = s2[k]
      BY <1>2, <2>2 DEF Sits
    <3>2. \A k \in 0 .. 4 : b[o + 3 + k] = s2[k + 1]
      <4> SUFFICES ASSUME NEW k \in 0 .. 4 PROVE b[o + 3 + k] = s2[k + 1]
        OBVIOUS
      <4>1. k + 1 \in 1 .. 5 /\ o + 3 + (k + 1) - 1 = o + 3 + k
        BY <2>0
      <4> QED
        BY <3>1, <4>1
    <3>3. o + 3 + 0 = o + 3 /\ o + 3 + 1 = o + 4 /\ o + 3 + 2 = o + 5 /\ o + 3 + 3 = o + 6 /\ o + 3 + 4 = o + 7
      BY <2>0
    <3>4. b[o + 3 + 0] = s2[1] /\ b[o + 3 + 1] = s2[2] /\ b[o + 3 + 2] = s2[3] /\ b[o + 3 + 3] = s2[4]
          /\ b[o + 3 + 4] = s2[5]
      BY <3>2
    <3> QED
      BY <1>3, <3>3, <3>4
  <2>8. o + 1 + 2 = o + 3 /\ o + 1 + 3 = o + 4 /\ o + 1 + 4 = o + 5 /\ o + 1 + 5 = o + 6 /\ o + 1 + 6 = o + 7
        /\ o + 1 + 7 = o + 8
    BY <2>0
  <2>9. ServerDateParts(b, o) = Parts(p.y, p.mo, p.d, p.h, p.mi, p.s, p.us)
    BY <2>4, <2>5, <2>6, <2>7, <2>8 DEF ServerDateParts, DateParts, Number
  <2> QED
    BY <2>4, <2>9
<1> QED
  BY <1>4, <1>7, <1>8

\* The minutes between the clock of a time zone and the instant.
ZoneOffset(zone) ==
    IF zone = "Z" THEN 0 ELSE IF zone = "local" THEN LocalMinutes ELSE ZoneMinutes[zone]

LEMMA InClock ==
    ASSUME NEW w, InCalendar(w), NEW zone \in ZoneNames
    PROVE  /\ w = <<w[1], w[2], w[3]>> /\ w[1] \in Int /\ w[2] \in Nat /\ w[3] \in 0 .. (UsPerMs - 1)
           /\ ZoneOffset(zone) \in Int
           /\ w[1] + ZoneOffset(zone) \in 0 .. (Years * 4 * HoursPerDay * MinutesPerHour - 1)
<1>1. LocalMinutes \in Int
  BY ValuesAssumption
<1>2. zone # "Z" /\ zone # "local" => zone \in DOMAIN ZoneMinutes
  BY DEF ZoneNames
<1>3. \A z \in DOMAIN ZoneMinutes : ZoneMinutes[z] \in Int
  BY DEF ZoneMinutes, MinutesPerHour
<1>4. ZoneOffset(zone) \in Int
  BY <1>1, <1>2, <1>3 DEF ZoneOffset
<1>5. ZoneOffset(zone) \in {0, LocalMinutes} \union {ZoneMinutes[z] : z \in DOMAIN ZoneMinutes}
  BY <1>2 DEF ZoneOffset
<1> QED
  BY <1>4, <1>5, Zenon DEF InCalendar

LEMMA DateWritten ==
    ASSUME NEW w, InCalendar(w), NEW zone \in ZoneNames
    PROVE  writeDate(w, zone, LocalMinutes) = DateOnWire(PartsOf(Shift(w, ZoneOffset(zone))))
<1>1. Shift(w, 0) = w
  BY InClock DEF Shift
<1>2. CASE zone = "Z"
  BY <1>1, <1>2 DEF writeDate, DateOnWire, ZoneOffset
<1>3. CASE zone = "local"
  BY <1>3 DEF writeDate, DateOnWire, ZoneOffset
<1>4. CASE zone # "Z" /\ zone # "local"
  BY <1>4 DEF writeDate, DateOnWire, ZoneOffset
<1> QED
  BY <1>2, <1>3, <1>4

LEMMA DateReads ==
    ASSUME NEW type \in TEMPORAL_TYPES, NEW u, NEW zone \in ZoneNames, NEW w, InCalendar(w)
    PROVE  /\ Reads(type, u, zone, writeDate(w, zone, LocalMinutes), Instant(w))
           /\ Len(writeDate(w, zone, LocalMinutes)) = 12
<1> DEFINE x == ZoneOffset(zone)
           v == <<w[1] + x, w[2], w[3]>>
           p == PartsOf(v)
           s == writeDate(w, zone, LocalMinutes)
<1>1. /\ w = <<w[1], w[2], w[3]>> /\ w[1] \in Int /\ w[2] \in Nat /\ w[3] \in 0 .. (UsPerMs - 1) /\ x \in Int
      /\ w[1] + x \in 0 .. (Years * 4 * HoursPerDay * MinutesPerHour - 1)
  BY InClock
<1>2. s = DateOnWire(p)
  <2>1. Shift(w, x) = v
    BY DEF Shift
  <2> HIDE DEF x, v
  <2> QED
    BY <2>1, DateWritten DEF x
<1>3. /\ Wall(p) = v
      /\ p.y \in 0 .. 399 /\ p.mo \in Nat /\ p.d \in Nat /\ p.h \in Nat /\ p.mi \in Nat /\ p.s \in Nat
      /\ p.us \in 0 .. 90 /\ p = Parts(p.y, p.mo, p.d, p.h, p.mi, p.s, p.us)
  <2> HIDE DEF x
  <2> QED
    BY <1>1, PartsWall
<1> HIDE DEF p
<1>4. /\ DateOnWire(p) \in Seq(Nat) /\ Len(DateOnWire(p)) = 12
      /\ \A b \in Seq(Nat), o \in Pos :
            Sits(b, o, DateOnWire(p)) => ServerDateParts(b, o) = p /\ b[o] = 11
  BY <1>3, DateOnWireRead
<1>5. Shift(v, -x) = w
  <2>1. \A a \in Int : a + x + (-x) = a
    BY <1>1
  <2> HIDE DEF x
  <2> QED
    BY <1>1, <2>1 DEF Shift
<1>6. (IF zone = "local" THEN Instant(Shift(Wall(p), -LocalMinutes)) ELSE InZone(p, zone)) = Instant(w)
  <2>1. CASE zone = "local"
    <3>1. x = LocalMinutes
      BY <2>1 DEF ZoneOffset
    <3> HIDE DEF x, v
    <3> QED
      BY <1>3, <1>5, <2>1, <3>1
  <2>2. CASE zone = "Z"
    <3>1. x = 0
      BY <2>2 DEF ZoneOffset
    <3>2. v = w
      <4>1. w[1] + x = w[1]
        BY <1>1, <3>1
      <4> HIDE DEF x
      <4> QED
        BY <1>1, <4>1
    <3> HIDE DEF x, v
    <3>3. InZone(p, zone) = Instant(Wall(p))
      BY <2>2 DEF InZone
    <3> QED
      BY <1>3, <2>2, <3>2, <3>3
  <2>3. CASE zone # "local" /\ zone # "Z"
    <3>1. x = ZoneMinutes[zone]
      BY <2>3 DEF ZoneOffset
    <3> HIDE DEF x, v
    <3>2. InZone(p, zone) = Instant(Shift(Wall(p), -ZoneMinutes[zone]))
      BY <2>3 DEF InZone
    <3> QED
      BY <1>3, <1>5, <2>3, <3>1, <3>2
  <2> QED
    BY <2>1, <2>2, <2>3
<1> HIDE DEF x, v, s
<1>7. ASSUME NEW b \in Seq(Nat), NEW o \in Pos, Sits(b, o, s)
      PROVE ServerValue(type, u, zone, b, o) = At(Instant(w), o + Len(s))
  <2>1. ServerDateParts(b, o) = p /\ b[o] = 11
    BY <1>2, <1>4, <1>7
  <2>2. ServerValue(type, u, zone, b, o) = At(Instant(w), o + 1 + 11)
    BY <1>6, <2>1, DateServed
  <2>3. o + 1 + 11 = o + 12
    BY DEF Pos
  <2> QED
    BY <1>2, <1>4, <2>2, <2>3
<1> QED
  BY <1>2, <1>4, <1>7 DEF Reads, s

\* Times.
IsTimeParts(t) ==
    /\ t.neg \in BOOLEAN /\ t.days \in Nat /\ t.days < Word /\ t.h \in Nat /\ t.mi \in Nat /\ t.s \in Nat
    /\ t.us \in 0 .. 90

TimeOf(t) == TotalTime(t.neg, t.days * HoursPerDay + t.h, t.mi, t.s, t.us)

LEMMA WithinWord == ASSUME NEW y \in Nat, y < Word PROVE y % Word = y
BY SMT DEF Word, Byte

TimeOnWire(t, tag, rest) ==
    <<tag, IF t.neg THEN 1 ELSE 0>> \o ToLe(t.days, 4) \o <<t.h, t.mi, t.s>> \o rest

LEMMA TimeParts ==
    ASSUME NEW t, IsTimeParts(t), NEW tag \in {8, 12}, NEW rest \in Seq(Nat),
           rest = IF tag = 12 THEN ToLe(t.us, 4) ELSE <<>>
    PROVE  /\ TimeOnWire(t, tag, rest) \in Seq(Nat) /\ Len(TimeOnWire(t, tag, rest)) = 1 + tag
           /\ \A b \in Seq(Nat), o \in Pos :
                 Sits(b, o, TimeOnWire(t, tag, rest)) =>
                    /\ b[o] = tag /\ b[o + 1] = (IF t.neg THEN 1 ELSE 0)
                    /\ Le(Bytes(b, o + 2, 4)) = t.days
                    /\ b[o + 6] = t.h /\ b[o + 7] = t.mi /\ b[o + 8] = t.s
                    /\ tag = 12 => Le(Bytes(b, o + 9, 4)) = t.us
<1> DEFINE sign == IF t.neg THEN 1 ELSE 0
           s1 == <<tag, sign>>
           s2 == ToLe(t.days, 4)
           s3 == <<t.h, t.mi, t.s>>
<1>0. t.days \in Int /\ t.us \in Int /\ sign \in Nat
  <2>1. t.days \in Int
    BY DEF IsTimeParts
  <2>2. t.us \in 0 .. 90
    BY DEF IsTimeParts
  <2>3. sign \in Nat
    OBVIOUS
  <2> QED
    BY <2>1, <2>2, <2>3, WithinFour
<1>1. s2 \in Seq(Nat) /\ Len(s2) = 4
  BY <1>0, ToLeTyped
<1> HIDE DEF sign
<1>2. s1 \in Seq(Nat) /\ Len(s1) = 2 /\ s1[1] = tag /\ s1[2] = sign
  BY <1>0
<1>3. s3 \in Seq(Nat) /\ Len(s3) = 3 /\ s3[1] = t.h /\ s3[2] = t.mi /\ s3[3] = t.s
  BY DEF IsTimeParts
<1>4. rest \in Seq(Nat) /\ Len(rest) = tag - 8
  <2>1. CASE tag = 12
    <3>1. Len(ToLe(t.us, 4)) = 4
      BY <1>0, ToLeTyped
    <3> QED
      BY <2>1, <3>1
  <2>2. CASE tag = 8
    BY <2>2
  <2> QED
    BY <2>1, <2>2
<1> HIDE DEF s1, s2, s3
<1>5. s1 \o s2 \in Seq(Nat) /\ Len(s1 \o s2) = 6
  <2>1. s1 \o s2 \in Seq(Nat) /\ Len(s1 \o s2) = Len(s1) + Len(s2)
    BY <1>1, <1>2, ConcatNat
  <2> QED
    BY <1>1, <1>2, <2>1
<1>6. s1 \o s2 \o s3 \in Seq(Nat) /\ Len(s1 \o s2 \o s3) = 9
  <2>1. (s1 \o s2) \o s3 \in Seq(Nat) /\ Len((s1 \o s2) \o s3) = Len(s1 \o s2) + Len(s3)
    BY <1>3, <1>5, ConcatNat
  <2> QED
    BY <1>3, <1>5, <2>1
<1>7. s1 \o s2 \o s3 \o rest \in Seq(Nat) /\ Len(s1 \o s2 \o s3 \o rest) = 1 + tag
  <2> DEFINE x == s1 \o s2 \o s3
  <2> HIDE DEF x
  <2>0. x \in Seq(Nat) /\ Len(x) = 9
    BY <1>6 DEF x
  <2>1. x \o rest \in Seq(Nat) /\ Len(x \o rest) = Len(x) + Len(rest)
    BY <2>0, ConcatNat
  <2>2. 9 + (tag - 8) = 1 + tag
    OBVIOUS
  <2> QED
    BY <1>4, <2>0, <2>1, <2>2, Zenon DEF x
<1>8. ASSUME NEW b \in Seq(Nat), NEW o \in Pos, Sits(b, o, s1 \o s2 \o s3 \o rest)
      PROVE /\ b[o] = tag /\ b[o + 1] = sign
            /\ Le(Bytes(b, o + 2, 4)) = t.days
            /\ b[o + 6] = t.h /\ b[o + 7] = t.mi /\ b[o + 8] = t.s
            /\ tag = 12 => Le(Bytes(b, o + 9, 4)) = t.us
  <2>0. Len(b) \in Nat /\ o \in Nat
    BY DEF Pos
  <2>1. Sits(b, o, s1 \o s2 \o s3) /\ Sits(b, o + 9, rest)
    BY <1>4, <1>6, <1>8, <2>0, SitsParts
  <2>2. Sits(b, o, s1 \o s2) /\ Sits(b, o + 6, s3)
    BY <1>3, <1>5, <2>0, <2>1, SitsParts
  <2>3. Sits(b, o, s1) /\ Sits(b, o + 2, s2)
    BY <1>1, <1>2, <2>0, <2>2, SitsParts
  <2>4. b[o] = tag /\ b[o + 1] = sign
    <3>1. \A k \in 1 .. 2 : b[o + k - 1] = s1[k]
      BY <1>2, <2>3 DEF Sits
    <3>2. o + 1 - 1 = o /\ o + 2 - 1 = o + 1 /\ 1 \in 1 .. 2 /\ 2 \in 1 .. 2
      BY <2>0
    <3>3. b[o + 1 - 1] = s1[1] /\ b[o + 2 - 1] = s1[2]
      BY <3>1, <3>2
    <3> QED
      BY <1>2, <3>2, <3>3
  <2>5. Le(Bytes(b, o + 2, 4)) = t.days
    <3>1. Le(Bytes(b, o + 2, 4)) = t.days % (Byte ^ 4)
      BY <1>0, <2>3, FixedRead DEF s2
    <3>2. t.days % Word = t.days
      <4>1. t.days \in Nat /\ t.days < Word
        BY DEF IsTimeParts
      <4> QED
        BY <4>1, WithinWord
    <3> QED
      BY <3>1, <3>2, Quarter
  <2>6. b[o + 6] = t.h /\ b[o + 7] = t.mi /\ b[o + 8] = t.s
    <3>1. \A k \in 1 .. 3 : b[o + 6 + k - 1] = s3[k]
      BY <1>3, <2>2 DEF Sits
    <3>2. o + 6 + 1 - 1 = o + 6 /\ o + 6 + 2 - 1 = o + 7 /\ o + 6 + 3 - 1 = o + 8
      BY <2>0
    <3>3. b[o + 6 + 1 - 1] = s3[1] /\ b[o + 6 + 2 - 1] = s3[2] /\ b[o + 6 + 3 - 1] = s3[3]
      BY <3>1
    <3> QED
      BY <1>3, <3>2, <3>3
  <2>7. ASSUME tag = 12 PROVE Le(Bytes(b, o + 9, 4)) = t.us
    <3>1. Sits(b, o + 9, ToLe(t.us, 4))
      BY <2>1, <2>7
    <3>2. Le(Bytes(b, o + 9, 4)) = t.us % (Byte ^ 4)
      BY <1>0, <3>1, FixedRead
    <3>3. t.us \in 0 .. 90
      BY DEF IsTimeParts
    <3> QED
      BY <3>2, <3>3, WithinFour
  <2> QED
    BY <2>4, <2>5, <2>6, <2>7
<1> QED
  BY <1>7, <1>8 DEF s1, s2, s3, sign, TimeOnWire

LEMMA TimeReads ==
    ASSUME NEW u, NEW zone, NEW t, IsTimeParts(t)
    PROVE  /\ Reads("TIME", u, zone, writeTime(t), [time |-> TimeOf(t)])
           /\ Len(writeTime(t)) = timeLength(t)
<1> DEFINE w == writeTime(t)
<1>1. CASE IsZeroTime(t)
  <2>1. w = <<0>> /\ timeLength(t) = 1
    BY <1>1 DEF writeTime, timeLength
  <2>2. TimeOf(t) = 0
    <3>1. t.days * HoursPerDay + t.h = 0 /\ t.mi = 0 /\ t.s = 0 /\ t.us = 0
      BY <1>1 DEF IsZeroTime, HoursPerDay
    <3>2. TotalTime(t.neg, 0, 0, 0, 0) = 0
      BY DEF TotalTime, MinutesPerHour, IsTimeParts
    <3> QED
      BY <3>1, <3>2 DEF TimeOf
  <2>3. <<0>> \in Seq(Nat) /\ Len(<<0>>) = 1 /\ <<0>> # <<>> /\ <<0>>[1] = 0
    OBVIOUS
  <2>4. ASSUME NEW b \in Seq(Nat), NEW o \in Pos, Sits(b, o, w)
        PROVE ServerValue("TIME", u, zone, b, o) = At([time |-> TimeOf(t)], o + Len(w))
    <3>1. b[o] = 0
      BY <2>1, <2>3, <2>4, SitsBytes
    <3>2. ServerTimeValue(b, o) = 0
      BY <3>1 DEF ServerTimeValue
    <3>3. ServerValue("TIME", u, zone, b, o) = At([time |-> ServerTimeValue(b, o)], o + 1 + b[o])
      BY TimeServed, Zenon
    <3>4. o + 1 + 0 = o + 1
      BY DEF Pos
    <3> QED
      BY <2>1, <2>2, <2>3, <3>1, <3>2, <3>3, <3>4
  <2> HIDE DEF w
  <2> QED
    BY <2>1, <2>3, <2>4 DEF Reads, w
<1>2. CASE ~IsZeroTime(t)
  <2> DEFINE tag == IF t.us # 0 THEN 12 ELSE 8
             rest == IF t.us # 0 THEN ToLe(t.us, 4) ELSE <<>>
  <2>1. tag \in {8, 12} /\ rest = (IF tag = 12 THEN ToLe(t.us, 4) ELSE <<>>) /\ (tag = 8 => t.us = 0)
    OBVIOUS
  <2>2. rest \in Seq(Nat)
    <3>1. t.us \in Int
      BY SMT DEF IsTimeParts
    <3>2. ToLe(t.us, 4) \in Seq(Nat)
      BY <3>1, ToLeTyped
    <3> QED
      BY <3>2
  <2>3. w = TimeOnWire(t, tag, rest)
    BY <1>2 DEF writeTime, TimeOnWire
  <2>4. timeLength(t) = 1 + tag
    BY <1>2 DEF timeLength
  <2> HIDE DEF w, tag, rest
  <2>5. /\ w \in Seq(Nat) /\ Len(w) = 1 + tag
        /\ \A b \in Seq(Nat), o \in Pos :
              Sits(b, o, w) =>
                 /\ b[o] = tag /\ b[o + 1] = (IF t.neg THEN 1 ELSE 0)
                 /\ Le(Bytes(b, o + 2, 4)) = t.days
                 /\ b[o + 6] = t.h /\ b[o + 7] = t.mi /\ b[o + 8] = t.s
                 /\ tag = 12 => Le(Bytes(b, o + 9, 4)) = t.us
    <3>1. tag \in {8, 12} /\ rest \in Seq(Nat) /\ rest = IF tag = 12 THEN ToLe(t.us, 4) ELSE <<>>
      BY <2>1, <2>2
    <3>2. TimeOnWire(t, tag, rest) \in Seq(Nat) /\ Len(TimeOnWire(t, tag, rest)) = 1 + tag
      BY ONLY <3>1, IsTimeParts(t), TimeParts
    <3>3. \A b \in Seq(Nat), o \in Pos :
             Sits(b, o, TimeOnWire(t, tag, rest)) =>
                 /\ b[o] = tag /\ b[o + 1] = (IF t.neg THEN 1 ELSE 0)
                 /\ Le(Bytes(b, o + 2, 4)) = t.days
                 /\ b[o + 6] = t.h /\ b[o + 7] = t.mi /\ b[o + 8] = t.s
                 /\ tag = 12 => Le(Bytes(b, o + 9, 4)) = t.us
      BY ONLY <3>1, IsTimeParts(t), TimeParts
    <3> QED
      BY <2>3, <3>2, <3>3, Zenon
  <2>6. ASSUME NEW b \in Seq(Nat), NEW o \in Pos, Sits(b, o, w)
        PROVE ServerValue("TIME", u, zone, b, o) = At([time |-> TimeOf(t)], o + Len(w))
    <3>1. /\ b[o] = tag /\ b[o + 1] = (IF t.neg THEN 1 ELSE 0)
          /\ Le(Bytes(b, o + 2, 4)) = t.days
          /\ b[o + 6] = t.h /\ b[o + 7] = t.mi /\ b[o + 8] = t.s
          /\ tag = 12 => Le(Bytes(b, o + 9, 4)) = t.us
      BY <2>5, <2>6
    <3>2. b[o + 1] = 1 <=> t.neg
      <4>1. CASE t.neg
        BY <3>1, <4>1, Zenon
      <4>2. CASE ~t.neg
        BY <3>1, <4>2
      <4> QED
        BY <4>1, <4>2
    <3>3. (IF b[o] = 12 THEN Le(Bytes(b, o + 9, 4)) ELSE 0) = t.us
      BY <2>1, <3>1
    <3>4. b[o] # 0
      BY <2>1, <3>1
    <3>5. ServerTimeValue(b, o) = TimeOf(t)
      BY <3>1, <3>2, <3>3, <3>4 DEF ServerTimeValue, TimeOf, TotalTime
    <3>6. ServerValue("TIME", u, zone, b, o) = At([time |-> ServerTimeValue(b, o)], o + 1 + b[o])
      BY TimeServed, Zenon
    <3>7. o + 1 + tag = o + (1 + tag)
      BY <2>1 DEF Pos
    <3> QED
      BY <2>5, <3>1, <3>5, <3>6, <3>7
  <2> QED
    BY <2>4, <2>5, <2>6 DEF Reads, w
<1> QED
  BY <1>1, <1>2

\* The text of an integer.
LEMMA TenPowers ==
    /\ 10 ^ 0 = 1 /\ \A k \in 0 .. 10 : 10 ^ k \in Nat /\ 10 ^ k > 0
    /\ Word * Word < 4 * (10 ^ 10) /\ Byte ^ 6 < 10 ^ 10
<1>1. /\ 10 ^ 0 = 1 /\ 10 ^ 1 = 10 /\ 10 ^ 2 = 100 /\ 10 ^ 3 = 1000 /\ 10 ^ 4 = 10000 /\ 10 ^ 5 = 100000
      /\ 10 ^ 6 = 1000000 /\ 10 ^ 7 = 10000000 /\ 10 ^ 8 = 100000000 /\ 10 ^ 9 = 1000000000
      /\ 10 ^ 10 = 10000000000
  BY SMT
<1>2. \A k \in 0 .. 10 : \/ k = 0 \/ k = 1 \/ k = 2 \/ k = 3 \/ k = 4 \/ k = 5 \/ k = 6 \/ k = 7 \/ k = 8
                         \/ k = 9 \/ k = 10
  BY SMT
<1>3. ASSUME NEW k \in 0 .. 10 PROVE 10 ^ k \in Nat /\ 10 ^ k > 0
  <2>1. /\ 10 ^ 0 \in Nat /\ 10 ^ 0 > 0
        /\ 10 ^ 1 \in Nat /\ 10 ^ 1 > 0
        /\ 10 ^ 2 \in Nat /\ 10 ^ 2 > 0
        /\ 10 ^ 3 \in Nat /\ 10 ^ 3 > 0
        /\ 10 ^ 4 \in Nat /\ 10 ^ 4 > 0
        /\ 10 ^ 5 \in Nat /\ 10 ^ 5 > 0
        /\ 10 ^ 6 \in Nat /\ 10 ^ 6 > 0
        /\ 10 ^ 7 \in Nat /\ 10 ^ 7 > 0
        /\ 10 ^ 8 \in Nat /\ 10 ^ 8 > 0
        /\ 10 ^ 9 \in Nat /\ 10 ^ 9 > 0
        /\ 10 ^ 10 \in Nat /\ 10 ^ 10 > 0
    BY <1>1, SMT
  <2>2. CASE k = 0
    BY ONLY <2>1, <2>2, Zenon
  <2>3. CASE k = 1
    BY ONLY <2>1, <2>3, Zenon
  <2>4. CASE k = 2
    BY ONLY <2>1, <2>4, Zenon
  <2>5. CASE k = 3
    BY ONLY <2>1, <2>5, Zenon
  <2>6. CASE k = 4
    BY ONLY <2>1, <2>6, Zenon
  <2>7. CASE k = 5
    BY ONLY <2>1, <2>7, Zenon
  <2>8. CASE k = 6
    BY ONLY <2>1, <2>8, Zenon
  <2>9. CASE k = 7
    BY ONLY <2>1, <2>9, Zenon
  <2>10. CASE k = 8
    BY ONLY <2>1, <2>10, Zenon
  <2>11. CASE k = 9
    BY ONLY <2>1, <2>11, Zenon
  <2>12. CASE k = 10
    BY ONLY <2>1, <2>12, Zenon
  <2> QED
    BY ONLY <1>2, <2>2, <2>3, <2>4, <2>5, <2>6, <2>7, <2>8, <2>9, <2>10, <2>11, <2>12, k \in 0 .. 10, Zenon
<1>4. Word * Word < 4 * (10 ^ 10) /\ Byte ^ 6 < 10 ^ 10
  BY <1>1, BytePowers, SMT
<1> QED
  BY ONLY <1>1, <1>3, <1>4, SMT

LEMMA WidthIs == ASSUME NEW n \in Nat, n < 10 ^ 10 PROVE Width(n) \in 1 .. 10
<1> DEFINE T == {w \in 1 .. 10 : n < 10 ^ w}
<1>1. T \subseteq Nat /\ 10 \in T
  OBVIOUS
<1>2. PICK w \in T : \A m \in T : w <= m
  <2> HIDE DEF T
  <2> QED
    BY <1>1, Least
<1>3. w \in 1 .. 10 /\ n < 10 ^ w
  OBVIOUS
<1>4. w = 1 \/ n >= 10 ^ (w - 1)
  <2> SUFFICES ASSUME w # 1 PROVE n >= 10 ^ (w - 1)
    OBVIOUS
  <2>1. w - 1 \in 1 .. 10 /\ ~(w <= w - 1) /\ w - 1 \in 0 .. 10
    BY <1>3
  <2>2. ~(n < 10 ^ (w - 1))
    BY <1>2, <2>1
  <2>3. 10 ^ (w - 1) \in Nat
    BY <2>1, TenPowers, Zenon
  <2>4. \A x \in Nat : ~(n < x) => n >= x
    OBVIOUS
  <2> QED
    BY <2>2, <2>3, <2>4, Zenon
<1>5. \E x \in 1 .. 10 : n < 10 ^ x /\ (x = 1 \/ n >= 10 ^ (x - 1))
  BY <1>3, <1>4, Zenon
<1> QED
  BY <1>5, Zenon DEF Width

LEMMA DigitsTyped ==
    ASSUME NEW n \in Nat, NEW width \in 1 .. 10
    PROVE  Digits(n, width) \in Seq(Nat) /\ Len(Digits(n, width)) = width
<1>1. ASSUME NEW i \in 1 .. width PROVE (n \div (10 ^ (width - i))) % 10 \in Nat
  <2>1. width - i \in 0 .. 10
    OBVIOUS
  <2> DEFINE d == 10 ^ (width - i)
  <2>2. d \in Nat /\ d > 0
    BY <2>1, TenPowers, Zenon
  <2> HIDE DEF d
  <2>3. n \div d \in Int
    BY <2>2
  <2>4. \A x \in Int : x % 10 \in Nat
    OBVIOUS
  <2>5. (n \div d) % 10 \in Nat
    BY <2>3, <2>4, Zenon
  <2> QED
    BY <2>5 DEF d
<1>2. Digits(n, width) \in [1 .. width -> Nat]
  BY <1>1 DEF Digits
<1>3. width \in Nat
  OBVIOUS
<1> HIDE DEF Digits
<1> QED
  BY <1>2, <1>3

LEMMA TextIs ==
    ASSUME NEW n \in Int, n < 10 ^ 10, -n < 10 ^ 10
    PROVE  IsText(Text(n))
<1>0. \A k \in Nat : k <= 11 => k < SafeWord * Word
  BY SMT DEF SafeWord, Word, Byte
<1>1. CASE n < 0
  <2> DEFINE m == -n
  <2>1. m \in Nat /\ m < 10 ^ 10
    BY <1>1
  <2> HIDE DEF m
  <2>2. Width(m) \in 1 .. 10
    BY <2>1, WidthIs
  <2> DEFINE s == Digits(m, Width(m))
  <2>3. s \in Seq(Nat) /\ Len(s) \in 1 .. 10
    BY <2>1, <2>2, DigitsTyped
  <2> HIDE DEF s
  <2>4. <<10>> \o s \in Seq(Nat) /\ Len(<<10>> \o s) \in Nat /\ Len(<<10>> \o s) <= 11
    <3>1. Len(s) \in Nat /\ Len(s) <= 10
      <4>1. \A x \in 1 .. 10 : x \in Nat /\ x <= 10
        BY ONLY SMT
      <4> QED
        BY ONLY <2>3, <4>1, Zenon
    <3>2. <<10>> \in Seq(Nat) /\ Len(<<10>>) = 1
      OBVIOUS
    <3>3. <<10>> \o s \in Seq(Nat) /\ Len(<<10>> \o s) = Len(<<10>>) + Len(s)
      BY ONLY <2>3, <3>2, ConcatNat, Zenon
    <3> QED
      BY ONLY <3>1, <3>2, <3>3, SMT
  <2>5. Text(n) = <<10>> \o s
    BY <1>1 DEF Text, s, m, Minus
  <2> QED
    BY <1>0, <2>4, <2>5, Zenon DEF IsText
<1>2. CASE ~(n < 0)
  <2>1. n \in Nat
    BY <1>2
  <2>2. Width(n) \in 1 .. 10
    BY <2>1, WidthIs
  <2> DEFINE s == Digits(n, Width(n))
  <2>3. s \in Seq(Nat) /\ Len(s) \in 1 .. 10
    BY <2>1, <2>2, DigitsTyped
  <2> HIDE DEF s
  <2>4. Len(s) \in Nat /\ Len(s) <= 11
    <3>1. \A x \in 1 .. 10 : x \in Nat /\ x <= 11
      BY ONLY SMT
    <3> QED
      BY ONLY <2>3, <3>1, Zenon
  <2>5. Text(n) = s
    BY <1>2 DEF Text, s
  <2> QED
    BY <1>0, <2>3, <2>4, <2>5, Zenon DEF IsText
<1> QED
  BY <1>1, <1>2

LEMMA HeldText ==
    ASSUME NEW n, InMantissa(n, 6) \/ InInteger(n)
    PROVE  IsText(Text(n))
<1> DEFINE d == 10 ^ 10
<1>0. d \in Nat /\ Word * Word < 4 * d /\ Byte ^ 6 < d
  <2>1. 10 \in 0 .. 10
    OBVIOUS
  <2> QED
    BY <2>1, TenPowers, Zenon
<1> HIDE DEF d
<1>1. CASE InMantissa(n, 6)
  <2> DEFINE e == Byte ^ 6
  <2>1. n \in Int /\ 2 * n >= -e /\ 2 * n < e
    BY <1>1 DEF InMantissa
  <2>2. e \in Nat /\ e < d
    BY <1>0, BytePowers, SMT
  <2> HIDE DEF e
  <2>3. n < d /\ -n < d
    BY <1>0, <2>1, <2>2
  <2> QED
    BY <2>1, <2>3, TextIs DEF d
<1>2. CASE InInteger(n)
  <2> DEFINE q == n \div Word
             w == Word \div 4
             r == n % Word
  <2>1. n \in Int /\ q \in -w .. (w - 1)
    BY <1>2 DEF InInteger
  <2>2. w \in Int /\ Word = 4 * w /\ Word \in Int
    BY Quarter, Zenon
  <2>3. r \in Int /\ q \in Int /\ 0 <= r /\ r < Word /\ n = q * Word + r
    BY <2>1, WordSplit
  <2> HIDE DEF q, w, r
  <2>4. -w <= q /\ q <= w - 1
    <3>1. -w \in Int /\ w - 1 \in Int
      BY <2>2
    <3> QED
      BY ONLY <2>1, <3>1, Between, Zenon
  <2>5. Word > 0
    BY SMT DEF Word, Byte
  <2>6. q * Word <= (w - 1) * Word /\ -(w * Word) <= q * Word
    BY <2>2, <2>3, <2>4, <2>5, SMT DEF Word, Byte
  <2>7. 4 * (w * Word) = Word * Word
    BY <2>2, SMT
  <2>8. (w - 1) * Word = w * Word - Word
    BY <2>2, SMT
  <2> DEFINE x == q * Word
             y == w * Word
             z == Word * Word
  <2>9. x \in Int /\ y \in Int /\ z \in Int /\ x <= y - Word /\ -y <= x /\ 4 * y = z /\ z < 4 * d /\ n = x + r
    BY <1>0, <2>2, <2>3, <2>6, <2>7, <2>8
  <2> HIDE DEF x, y, z
  <2>10. n < d /\ -n < d
    BY <1>0, <2>1, <2>2, <2>3, <2>9, SMT
  <2> QED
    BY <2>1, <2>10, TextIs DEF d
<1> QED
  BY <1>1, <1>2

-----------------------------------------------------------------------------
\* What an application means by a value of a type.
IntegerOf(x) ==
    CASE Is(x, "num") -> x.num [] Is(x, "bigint") -> x.bigint
      [] Is(x, "bool") -> (IF x.bool THEN 1 ELSE 0)
      [] OTHER -> Integer(x.str)

MeantAs(type, x, jsonAsString) ==
    IF x = Null THEN Null ELSE
    CASE type \in DOMAIN INTEGER_BYTES \/ (type \in {"DOUBLE", "FLOAT"} /\ ~Is(x, "dbl")) ->
             [number |-> <<IntegerOf(x), 0>>]
      [] type \in {"DOUBLE", "FLOAT"} /\ Is(x, "dbl") -> [number |-> x.dbl]
      [] type \in TEMPORAL_TYPES -> Instant(x.date)
      [] type = "TIME" -> [time |-> IF Is(x, "num") THEN 10 * x.num ELSE TextTime(x.str)]
      [] type = "JSON" /\ ~jsonAsString -> Json(TextOf(x))
      [] type \in {"BLOB", "VECTOR"} -> Buf(TextOf(x))
      [] OTHER -> Str(TextOf(x))

LEMMA MeantTyped ==
    ASSUME NEW v, Is(v, "typed"), NEW json
    PROVE  Meant(v, json) = MeantAs(v.typed, v.value, json)
<1> DEFINE x == v.value
<1>1. (IF Is(v, "typed") THEN v.value ELSE v) = x
  OBVIOUS
<1> QED
  BY <1>1 DEF Meant, MeantAs, IntegerOf

LEMMA MeantGuessed ==
    ASSUME NEW v, NEW kind \in Kinds, DOMAIN v = {kind}, NEW json
    PROVE  Meant(v, json) = MeantAs(CASE kind = "date" -> "DATETIME" [] kind = "json" -> "JSON"
                                      [] kind = "buf" -> "BLOB"
                                      [] kind \in {"num", "dbl", "bigint", "bool"} -> "DOUBLE"
                                      [] OTHER -> "STRING", v, json)
<1>1. \A k : Is(v, k) <=> k = kind
  BY DEF Is
<1>2. kind # "typed"
  BY DEF Kinds
<1>3. CASE kind = "date"
  BY <1>1, <1>2, <1>3 DEF Meant, MeantAs, IntegerOf
<1>4. CASE kind = "json"
  BY <1>1, <1>2, <1>4 DEF Meant, MeantAs, IntegerOf
<1>5. CASE kind = "buf"
  BY <1>1, <1>2, <1>5 DEF Meant, MeantAs, IntegerOf
<1>6. CASE kind \in {"num", "dbl", "bigint", "bool"}
  BY <1>1, <1>2, <1>6 DEF Meant, MeantAs, IntegerOf
<1>7. CASE kind \in {"str", "null", "undefined"}
  BY <1>1, <1>2, <1>7 DEF Meant, MeantAs, IntegerOf
<1> QED
  BY <1>3, <1>4, <1>5, <1>6, <1>7 DEF Kinds

LEMMA IntegerMeant ==
    ASSUME NEW type \in DOMAIN INTEGER_BYTES, NEW x, x # Null, NEW json
    PROVE  MeantAs(type, x, json) = [number |-> <<IntegerOf(x), 0>>]
<1>1. type \notin {"DOUBLE", "FLOAT", "TIME", "JSON", "BLOB", "VECTOR"} /\ type \notin TEMPORAL_TYPES
  BY DEF INTEGER_BYTES, TEMPORAL_TYPES
<1> QED
  BY <1>1 DEF MeantAs

LEMMA RealMeant ==
    ASSUME NEW type \in {"DOUBLE", "FLOAT"}, NEW x, x # Null, NEW json
    PROVE  MeantAs(type, x, json) = [number |-> IF Is(x, "dbl") THEN x.dbl ELSE <<IntegerOf(x), 0>>]
<1>1. type \notin DOMAIN INTEGER_BYTES /\ type \notin TEMPORAL_TYPES
  BY DEF INTEGER_BYTES, TEMPORAL_TYPES
<1>2. CASE Is(x, "dbl")
  BY <1>1, <1>2 DEF MeantAs
<1>3. CASE ~Is(x, "dbl")
  BY <1>1, <1>3 DEF MeantAs
<1> QED
  BY <1>2, <1>3

LEMMA DateMeant ==
    ASSUME NEW type \in TEMPORAL_TYPES, NEW x, x # Null, NEW json
    PROVE  MeantAs(type, x, json) = Instant(x.date)
<1>1. type \notin DOMAIN INTEGER_BYTES /\ type \notin {"DOUBLE", "FLOAT", "TIME", "JSON", "BLOB", "VECTOR"}
  BY DEF INTEGER_BYTES, TEMPORAL_TYPES
<1> QED
  BY <1>1 DEF MeantAs

LEMMA TimeMeant ==
    ASSUME NEW x, x # Null, NEW json
    PROVE  MeantAs("TIME", x, json) = [time |-> IF Is(x, "num") THEN 10 * x.num ELSE TextTime(x.str)]
<1>1. "TIME" \notin DOMAIN INTEGER_BYTES /\ "TIME" \notin TEMPORAL_TYPES
  BY DEF INTEGER_BYTES, TEMPORAL_TYPES
<1> QED
  BY <1>1 DEF MeantAs

LEMMA TextMeant ==
    ASSUME NEW type \in LENGTH_CODED \union {"JSON"}, NEW x, x # Null, NEW json \in BOOLEAN
    PROVE  /\ wireType(type, json) \in {"JSON", "BLOB", "DECIMAL", "VAR_STRING", "STRING"}
           /\ MeantAs(type, x, json) = TextAs(wireType(type, json), TextOf(x))
<1>0. type \notin DOMAIN INTEGER_BYTES /\ type \notin TEMPORAL_TYPES /\ type \notin {"DOUBLE", "FLOAT", "TIME"}
  BY DEF INTEGER_BYTES, TEMPORAL_TYPES, LENGTH_CODED
<1>1. CASE type = "JSON" /\ json
  <2>1. wireType(type, json) = "VAR_STRING"
    BY <1>1 DEF wireType, WIRE_TYPE
  <2> QED
    BY <1>0, <1>1, <2>1 DEF MeantAs, TextAs
<1>2. CASE type = "JSON" /\ ~json
  <2>1. wireType(type, json) = "JSON"
    BY <1>2 DEF wireType, WIRE_TYPE
  <2> QED
    BY <1>0, <1>2, <2>1 DEF MeantAs, TextAs
<1>3. CASE type \in {"BLOB", "VECTOR"}
  <2>1. wireType(type, json) = "BLOB"
    BY <1>3 DEF wireType, WIRE_TYPE
  <2> QED
    BY <1>0, <1>3, <2>1 DEF MeantAs, TextAs
<1>4. CASE type \in {"DECIMAL", "VAR_STRING", "STRING", "ENUM", "SET"}
  <2>1. wireType(type, json) \in {"DECIMAL", "VAR_STRING", "STRING"}
    BY <1>4 DEF wireType, WIRE_TYPE
  <2>2. MeantAs(type, x, json) = Str(TextOf(x))
    BY <1>0, <1>4 DEF MeantAs
  <2> QED
    BY <2>1, <2>2 DEF TextAs
<1> QED
  BY <1>1, <1>2, <1>3, <1>4 DEF LENGTH_CODED

\* An integer goes as the integer that is meant.
LEMMA IntegerText == ASSUME NEW s \in Seq(Nat), s # <<>> PROVE SignOf(s) * Natural(Body(s)) = Integer(s)
<1>1. Tail(s) \in Seq(Nat) /\ Natural(Tail(s)) \in Int /\ Natural(s) \in Int
  <2>1. Tail(s) \in Seq(Nat)
    OBVIOUS
  <2> QED
    BY <2>1, NaturalInt
<1>2. Minus # Plus
  BY DEF Minus, Plus
<1>3. CASE s[1] = Minus
  <2>1. SignOf(s) = -1 /\ Body(s) = Tail(s) /\ Integer(s) = -Natural(Tail(s))
    BY <1>3 DEF SignOf, Body, Integer
  <2> DEFINE n == Natural(Tail(s))
  <2>2. n \in Int
    BY <1>1
  <2> HIDE DEF n
  <2>3. (-1) * n = -n
    BY <2>2
  <2> QED
    BY <2>1, <2>3 DEF n
<1>4. CASE s[1] = Plus
  <2>1. SignOf(s) = 1 /\ Body(s) = Tail(s) /\ Integer(s) = Natural(Tail(s))
    BY <1>2, <1>4 DEF SignOf, Body, Integer
  <2> QED
    BY <1>1, <2>1
<1>5. CASE s[1] # Minus /\ s[1] # Plus
  <2>1. SignOf(s) = 1 /\ Body(s) = s /\ Integer(s) = Natural(s)
    BY <1>5 DEF SignOf, Body, Integer
  <2> QED
    BY <1>1, <2>1
<1> QED
  BY <1>3, <1>4, <1>5

LEMMA SmallInteger == ASSUME NEW n \in {0, 1} PROVE InInteger(n)
<1>1. n \div Word = 0
  BY SMT DEF Word, Byte
<1>2. 0 \in -(Word \div 4) .. ((Word \div 4) - 1)
  BY SMT DEF Word, Byte
<1> QED
  BY <1>1, <1>2 DEF InInteger

LEMMA SafeInteger == ASSUME NEW n \in Int, Safe(n) PROVE InInteger(n)
<1> DEFINE q == n \div Word
           w == Word \div 4
<1>1. w \in Int /\ w > 8
  BY SMT DEF Word, Byte
<1>2. q \in Int
  BY WordSplit
<1>3. -SafeWord <= q /\ q < SafeWord
  BY Zenon DEF Safe, IsSafe
<1>4. SafeWord = 8
  BY DEF SafeWord
<1> HIDE DEF q, w
<1>5. q \in -w .. (w - 1)
  BY ONLY <1>1, <1>2, <1>3, <1>4
<1> QED
  BY <1>5 DEF q, w, InInteger

LEMMA IntegerValue ==
    ASSUME NEW v, IsValue(v), NEW n, toInteger(v) = <<n>>, IsHeld(v),
           Is(v, "str") /\ IsDigits(v.str) => InInteger(Integer(v.str))
    PROVE  n \in Int /\ IntegerOf(v) = n /\ InInteger(n) /\ v # Null
<1>0. \A a, b : <<a>> = <<b>> => a = b
  OBVIOUS
<1>e. \A a : <<a>> # <<>>
  OBVIOUS
<1>1. PICK kind \in Kinds : DOMAIN v = {kind}
  BY DEF IsValue
<1>k. \A k : Is(v, k) <=> k = kind
  BY <1>1 DEF Is
<1>n. \A m : InInteger(m) => m \in Int
  BY DEF InInteger
<1>d. kind # "null" => v # Null
  BY <1>1 DEF Null
<1>2. CASE kind = "bigint"
  <2>1. toInteger(v) = <<v.bigint>> /\ IntegerOf(v) = v.bigint
    BY <1>k, <1>2 DEF toInteger, IntegerOf
  <2>2. InInteger(v.bigint)
    BY <1>k, <1>2 DEF IsHeld
  <2> QED
    BY <1>0, <1>n, <1>d, <1>2, <2>1, <2>2
<1>3. CASE kind = "bool"
  <2>1. toInteger(v) = <<IF v.bool THEN 1 ELSE 0>> /\ IntegerOf(v) = IF v.bool THEN 1 ELSE 0
    BY <1>k, <1>3 DEF toInteger, IntegerOf
  <2>2. (IF v.bool THEN 1 ELSE 0) \in {0, 1}
    OBVIOUS
  <2> QED
    BY <1>0, <1>n, <1>d, <1>3, <2>1, <2>2, SmallInteger
<1>4. CASE kind = "num"
  <2>1. v.num \in Int
    BY <1>k, <1>4 DEF IsValue
  <2>2. toInteger(v) = (IF Safe(v.num) THEN <<v.num>> ELSE <<>>) /\ IntegerOf(v) = v.num
    BY <1>k, <1>4 DEF toInteger, IntegerOf
  <2>3. Safe(v.num) /\ n = v.num
    BY <1>0, <1>e, <2>2
  <2>4. InInteger(v.num)
    BY <2>1, <2>3, SafeInteger
  <2> QED
    BY <1>d, <1>4, <2>1, <2>2, <2>3, <2>4
<1>5. CASE kind = "str"
  <2>1. v.str \in Seq(Nat)
    BY <1>k, <1>5 DEF IsValue
  <2>2. toInteger(v) = IF v.str = <<>> THEN <<0>>
                       ELSE IF IsDigits(v.str) THEN <<SignOf(v.str) * Natural(Body(v.str))>> ELSE <<>>
    BY <1>k, <1>5 DEF toInteger
  <2>3. IntegerOf(v) = Integer(v.str)
    BY <1>k, <1>5 DEF IntegerOf
  <2>4. CASE v.str = <<>>
    <3>1. IsDigits(v.str)
      BY <2>4 DEF IsDigits
    <3>2. Integer(v.str) = 0 /\ n = 0
      BY <1>0, <2>2, <2>4 DEF Integer
    <3> QED
      BY <1>k, <1>d, <1>5, <2>3, <3>1, <3>2
  <2>5. CASE v.str # <<>>
    <3>1. IsDigits(v.str) /\ n = SignOf(v.str) * Natural(Body(v.str))
      BY <1>0, <1>e, <2>2, <2>5
    <3>2. n = Integer(v.str)
      BY <2>1, <2>5, <3>1, IntegerText
    <3> QED
      BY <1>k, <1>n, <1>d, <1>5, <2>3, <3>1, <3>2
  <2> QED
    BY <2>4, <2>5
<1>6. CASE kind \notin {"bigint", "bool", "num", "str"}
  <2>1. toInteger(v) = <<>>
    BY <1>k, <1>6 DEF toInteger
  <2> QED
    BY <1>e, <2>1
<1> QED
  BY <1>2, <1>3, <1>4, <1>5, <1>6

\* What an encoder returns: bytes from which the server reads x, as many as the
\* encoder says.
Encodes(e, type, unsigned, zone, x) ==
    /\ e # <<>> /\ e[1].isNull = FALSE /\ e[1].length = Len(e[1].bytes)
    /\ DOMAIN e[1] = {"type", "unsigned", "isNull", "length", "bytes"}
    /\ Reads(type, unsigned, zone, e[1].bytes, x)

LEMMA EncodesIs ==
    ASSUME NEW t, NEW s, NEW type, NEW u, NEW zone, NEW bytes, NEW length, length = Len(bytes), NEW x,
           Reads(type, u, zone, bytes, x)
    PROVE  Encodes(Encoded(t, s, length, bytes), type, u, zone, x)
<1> DEFINE p == [type |-> t, unsigned |-> s, isNull |-> FALSE, length |-> length, bytes |-> bytes]
<1>1. Encoded(t, s, length, bytes) = <<p>>
  BY DEF Encoded, Parameter
<1>2. /\ p.isNull = FALSE /\ p.length = length /\ p.bytes = bytes
      /\ DOMAIN p = {"type", "unsigned", "isNull", "length", "bytes"}
  OBVIOUS
<1>3. <<p>> # <<>> /\ <<p>>[1] = p
  OBVIOUS
<1> HIDE DEF p
<1> QED
  BY <1>1, <1>2, <1>3, Zenon DEF Encodes

LEMMA WireOf ==
    ASSUME NEW type \in DOMAIN INTEGER_BYTES, NEW json
    PROVE  \/ <<wireType(type, json), INTEGER_BYTES[type]>> \in {<<"TINY", 1>>, <<"SHORT", 2>>, <<"LONG", 4>>}
           \/ wireType(type, json) = "LONGLONG" /\ INTEGER_BYTES[type] = 8
<1>0. DOMAIN INTEGER_BYTES = {"TINY", "SHORT", "YEAR", "INT24", "LONG", "LONGLONG"}
  BY DEF INTEGER_BYTES
<1>1. CASE type \in {"TINY", "SHORT", "LONG", "LONGLONG"}
  <2>1. wireType(type, json) = type
    BY <1>1 DEF wireType, WIRE_TYPE
  <2> QED
    BY <1>1, <2>1 DEF INTEGER_BYTES
<1>2. CASE type = "YEAR"
  <2>1. wireType(type, json) = "SHORT"
    BY <1>2 DEF wireType, WIRE_TYPE
  <2> QED
    BY <1>2, <2>1 DEF INTEGER_BYTES
<1>3. CASE type = "INT24"
  <2>1. wireType(type, json) = "LONG"
    BY <1>3 DEF wireType, WIRE_TYPE
  <2> QED
    BY <1>3, <2>1 DEF INTEGER_BYTES
<1> QED
  BY <1>0, <1>1, <1>2, <1>3

LEMMA IntegerEncodes ==
    ASSUME NEW v, IsValue(v), NEW type \in DOMAIN INTEGER_BYTES, NEW u \in BOOLEAN, NEW zone, NEW json,
           IsHeld(v), Is(v, "str") /\ IsDigits(v.str) => InInteger(Integer(v.str)),
           integerEncoder(v, type, u) # <<>>
    PROVE  Encodes(integerEncoder(v, type, u), wireType(type, json), u, zone, MeantAs(type, v, json))
<1> DEFINE w == INTEGER_BYTES[type]
           e == integerEncoder(v, type, u)
<1>1. toInteger(v) # <<>> /\ Fits(toInteger(v)[1], w, u)
  BY IntegerRefused
<1>2. PICK n \in Int : toInteger(v) = <<n>>
  BY <1>1, ToInteger
<1>3. <<n>> # <<>> /\ <<n>>[1] = n
  OBVIOUS
<1>4. Fits(n, w, u)
  BY <1>1, <1>2, <1>3
<1>5. IntegerOf(v) = n /\ InInteger(n) /\ v # Null
  BY <1>2, IntegerValue
<1>6. e = Encoded(type, u, w, IntegerBytes(n, w))
  <2>1. checkedInteger(v, type, u) = <<n>>
    BY <1>2, <1>3, <1>4 DEF checkedInteger, Unless
  <2> QED
    BY <1>3, <2>1 DEF integerEncoder, Unless
<1>7. MeantAs(type, v, json) = [number |-> <<n, 0>>]
  BY <1>5, IntegerMeant
<1>8. Reads(wireType(type, json), u, zone, IntegerBytes(n, w), [number |-> <<n, 0>>])
      /\ Len(IntegerBytes(n, w)) = w
  <2> DEFINE wire == wireType(type, json)
  <2>0. \/ <<wire, w>> \in {<<"TINY", 1>>, <<"SHORT", 2>>, <<"LONG", 4>>}
        \/ wire = "LONGLONG" /\ w = 8
    BY WireOf
  <2> HIDE DEF wire, w
  <2>1. CASE wire = "LONGLONG" /\ w = 8
    <3>1. IntegerBytes(n, w) = WideBytes(n)
      BY <2>1 DEF IntegerBytes, WideBytes
    <3> QED
      BY <1>5, <2>1, <3>1, WideReads DEF wire
  <2>2. CASE <<wire, w>> \in {<<"TINY", 1>>, <<"SHORT", 2>>, <<"LONG", 4>>}
    <3>1. w # 8
      BY <2>2
    <3>2. IntegerBytes(n, w) = ToLe(n, w)
      BY <3>1 DEF IntegerBytes
    <3>3. Reads(wire, u, zone, ToLe(n, w), [number |-> <<n, 0>>]) /\ Len(ToLe(n, w)) = w
      BY <1>4, <2>2, WholeReads
    <3> QED
      BY <3>2, <3>3 DEF wire
  <2> QED
    BY <2>0, <2>1, <2>2
<1> HIDE DEF w, e
<1> QED
  BY <1>6, <1>7, <1>8, EncodesIs DEF e

LEMMA DoubleReads ==
    ASSUME NEW u, NEW zone, NEW m, InMantissa(m, 6), NEW d \in Nat
    PROVE  /\ Reads("DOUBLE", u, zone, ToLe(m, 6) \o <<d, 0>>, [number |-> <<m, d>>])
           /\ Len(ToLe(m, 6) \o <<d, 0>>) = 8
<1> DEFINE rest == <<d, 0>>
<1>1. rest \in Seq(Nat) /\ rest # <<>> /\ Len(rest) = 8 - 6 /\ rest[1] = d
  OBVIOUS
<1> DEFINE w == 6
           size == 8
<1>2. /\ InMantissa(m, w) /\ Len(rest) = size - w /\ w = 6 /\ size = 8
      /\ <<"DOUBLE", w, size>> = <<"DOUBLE", 6, 8>> \/ <<"DOUBLE", w, size>> = <<"FLOAT", 3, 4>>
  BY <1>1
<1> HIDE DEF rest, w, size
<1>3. Reads("DOUBLE", u, zone, ToLe(m, w) \o rest, [number |-> <<m, rest[1]>>])
  BY <1>1, <1>2, RealReads, Zenon
<1>4. Len(ToLe(m, w) \o rest) = size
  <2>1. ToLe(m, w) \in Seq(Nat) /\ Len(ToLe(m, w)) = w
    <3>1. w \in {1, 2, 3, 4, 6} /\ m \in Int
      BY <1>2 DEF InMantissa
    <3> QED
      BY <3>1, ToLeTyped
  <2>2. Len(ToLe(m, w) \o rest) = w + Len(rest)
    BY <1>1, <2>1, ConcatNat
  <2> QED
    BY <1>1, <1>2, <2>2
<1> QED
  BY <1>1, <1>2, <1>3, <1>4 DEF rest

LEMMA FloatReads ==
    ASSUME NEW u, NEW zone, NEW m, InMantissa(m, 3), NEW d \in Nat
    PROVE  /\ Reads("FLOAT", u, zone, ToLe(m, 3) \o <<d>>, [number |-> <<m, d>>])
           /\ Len(ToLe(m, 3) \o <<d>>) = 4
<1> DEFINE rest == <<d>>
<1>1. rest \in Seq(Nat) /\ rest # <<>> /\ Len(rest) = 4 - 3 /\ rest[1] = d
  OBVIOUS
<1> DEFINE w == 3
           size == 4
<1>2. /\ InMantissa(m, w) /\ Len(rest) = size - w /\ w = 3 /\ size = 4
      /\ <<"FLOAT", w, size>> = <<"DOUBLE", 6, 8>> \/ <<"FLOAT", w, size>> = <<"FLOAT", 3, 4>>
  BY <1>1
<1> HIDE DEF rest, w, size
<1>3. Reads("FLOAT", u, zone, ToLe(m, w) \o rest, [number |-> <<m, rest[1]>>])
  BY <1>1, <1>2, RealReads, Zenon
<1>4. Len(ToLe(m, w) \o rest) = size
  <2>1. ToLe(m, w) \in Seq(Nat) /\ Len(ToLe(m, w)) = w
    <3>1. w \in {1, 2, 3, 4, 6} /\ m \in Int
      BY <1>2 DEF InMantissa
    <3> QED
      BY <3>1, ToLeTyped
  <2>2. Len(ToLe(m, w) \o rest) = w + Len(rest)
    BY <1>1, <2>1, ConcatNat
  <2> QED
    BY <1>1, <1>2, <2>2
<1> QED
  BY <1>1, <1>2, <1>3, <1>4 DEF rest

\* A number goes as it is.
LEMMA RealEncodes ==
    ASSUME NEW v, IsHeld(v), NEW u, NEW zone, NEW json, NEW s, v # Null,
           \/ Is(v, "num") /\ ~Is(v, "dbl") /\ IntegerOf(v) = v.num
           \/ Is(v, "dbl")
    PROVE  /\ Encodes(Encoded("DOUBLE", s, 8, writeDouble(v)), "DOUBLE", u, zone, MeantAs("DOUBLE", v, json))
           /\ InMantissa(Mantissa(v)[1], 3) =>
                 Encodes(Encoded("FLOAT", s, 4, writeFloat(v)), "FLOAT", u, zone, MeantAs("FLOAT", v, json))
<1> DEFINE m == Mantissa(v)
           d == <<m[2], 0>>
           f == <<m[2]>>
<1>1. m = <<m[1], m[2]>> /\ m[2] \in Nat /\ InMantissa(m[1], 6)
      /\ MeantAs("DOUBLE", v, json) = [number |-> m] /\ MeantAs("FLOAT", v, json) = [number |-> m]
  <2>1. CASE Is(v, "dbl")
    <3>1. m = v.dbl
      BY <2>1 DEF Mantissa
    <3>2. v.dbl \in Int \X Nat /\ InMantissa(v.dbl[1], 6)
      BY <2>1 DEF IsHeld
    <3>3. MeantAs("DOUBLE", v, json) = [number |-> v.dbl] /\ MeantAs("FLOAT", v, json) = [number |-> v.dbl]
      BY <2>1, RealMeant
    <3> HIDE DEF m
    <3> QED
      BY <3>1, <3>2, <3>3
  <2>2. CASE ~Is(v, "dbl")
    <3>1. m = <<v.num, 0>>
      BY <2>2 DEF Mantissa
    <3>2. InMantissa(v.num, 6) /\ IntegerOf(v) = v.num
      BY <2>2 DEF IsHeld
    <3>3. MeantAs("DOUBLE", v, json) = [number |-> <<v.num, 0>>]
          /\ MeantAs("FLOAT", v, json) = [number |-> <<v.num, 0>>]
      BY <2>2, <3>2, RealMeant
    <3> HIDE DEF m
    <3> QED
      BY <3>1, <3>2, <3>3
  <2> QED
    BY <2>1, <2>2
<1>2. writeDouble(v) = ToLe(m[1], 6) \o d /\ writeFloat(v) = ToLe(m[1], 3) \o f
  BY DEF writeDouble, writeFloat
<1> HIDE DEF m
<1>3. /\ Reads("DOUBLE", u, zone, ToLe(m[1], 6) \o d, [number |-> <<m[1], m[2]>>])
      /\ Len(ToLe(m[1], 6) \o d) = 8
  <2>1. InMantissa(m[1], 6) /\ m[2] \in Nat
    BY <1>1
  <2> QED
    BY <2>1, DoubleReads, Zenon
<1>4. InMantissa(m[1], 3) =>
         /\ Reads("FLOAT", u, zone, ToLe(m[1], 3) \o f, [number |-> <<m[1], m[2]>>])
         /\ Len(ToLe(m[1], 3) \o f) = 4
  <2>1. m[2] \in Nat
    BY <1>1
  <2> QED
    BY <2>1, FloatReads, Zenon
<1> HIDE DEF d, f
<1>5. <<m[1], m[2]>> = m
  BY <1>1
<1>6. Encodes(Encoded("DOUBLE", s, 8, writeDouble(v)), "DOUBLE", u, zone, MeantAs("DOUBLE", v, json))
  BY <1>1, <1>2, <1>3, <1>5, EncodesIs
<1>7. InMantissa(m[1], 3) =>
         Encodes(Encoded("FLOAT", s, 4, writeFloat(v)), "FLOAT", u, zone, MeantAs("FLOAT", v, json))
  BY <1>1, <1>2, <1>4, <1>5, EncodesIs
<1> QED
  BY <1>6, <1>7 DEF m

LEMMA DateEncodes ==
    ASSUME NEW v, Is(v, "date"), v # Null, IsHeld(v), NEW type \in TEMPORAL_TYPES, NEW u,
           NEW zone \in ZoneNames, NEW json
    PROVE  Encodes(temporalEncoder(v, type, zone), type, u, zone, MeantAs(type, v, json))
<1>1. InCalendar(v.date)
  BY DEF IsHeld
<1> DEFINE w == writeDate(v.date, zone, LocalMinutes)
<1>2. Reads(type, u, zone, w, Instant(v.date)) /\ Len(w) = 12
  BY <1>1, DateReads
<1>3. temporalEncoder(v, type, zone) = Encoded(type, FALSE, 12, w)
  BY DEF temporalEncoder
<1>4. MeantAs(type, v, json) = Instant(v.date)
  BY DateMeant
<1> HIDE DEF w
<1> QED
  BY <1>2, <1>3, <1>4, EncodesIs

LEMMA TextEncodes ==
    ASSUME NEW t, NEW type \in {"JSON", "BLOB", "DECIMAL", "VAR_STRING", "STRING"}, NEW u, NEW zone,
           NEW s, IsText(s)
    PROVE  Encodes(LengthCodedParameter(t, s), type, u, zone, TextAs(type, s))
<1> DEFINE w == writeLengthCodedBuffer(s)
           size == lengthCodedNumberLength(Len(s)) + Len(s)
<1>1. Reads(type, u, zone, w, TextAs(type, s)) /\ Len(w) = size
  BY TextReads DEF lengthCodedStringLength
<1>2. LengthCodedParameter(t, s) = Encoded(t, FALSE, size, w)
  BY DEF LengthCodedParameter
<1> HIDE DEF w, size
<1> QED
  BY <1>1, <1>2, EncodesIs

\* The parts of a time.
LEMMA ClockParts ==
    ASSUME NEW neg \in BOOLEAN, NEW hours \in Nat, hours < Word, NEW mi \in Nat, NEW s \in Nat,
           NEW us \in 0 .. 90
    PROVE  /\ IsTimeParts(Clock(neg, hours, mi, s, us))
           /\ TimeOf(Clock(neg, hours, mi, s, us)) = TotalTime(neg, hours, mi, s, us)
<1> DEFINE t == Clock(neg, hours, mi, s, us)
<1>1. /\ t.neg = neg /\ t.days = hours \div HoursPerDay /\ t.h = hours % HoursPerDay
      /\ t.mi = mi /\ t.s = s /\ t.us = us
  BY DEF Clock
<1>2. /\ hours \div HoursPerDay \in Nat /\ hours % HoursPerDay \in Nat
      /\ (hours \div HoursPerDay) * HoursPerDay + (hours % HoursPerDay) = hours
      /\ hours \div HoursPerDay <= hours
  BY SMT DEF HoursPerDay
<1>3. Word \in Int
  BY Quarter
<1> HIDE DEF t
<1>4. t.days < Word
  BY <1>1, <1>2, <1>3
<1>5. IsTimeParts(t)
  BY <1>1, <1>2, <1>4 DEF IsTimeParts
<1>6. TimeOf(t) = TotalTime(neg, hours, mi, s, us)
  BY <1>1, <1>2 DEF TimeOf
<1> QED
  BY <1>5, <1>6 DEF t

LEMMA NumberTime ==
    ASSUME NEW n, InMantissa(n, 6), NEW ms, ms = IF n < 0 THEN -n ELSE n, NEW q, q = ms \div 10
    PROVE  /\ q \in Nat /\ ms \in Nat
           /\ q \div (60 * MinutesPerHour) \in Nat /\ q \div (60 * MinutesPerHour) < Word
           /\ (q \div 60) % MinutesPerHour \in Nat /\ q % 60 \in Nat /\ (ms % 10) * UsPerMs \in 0 .. 90
           /\ TotalTime(n < 0, q \div (60 * MinutesPerHour), (q \div 60) % MinutesPerHour, q % 60,
                        (ms % 10) * UsPerMs) = 10 * n
<1>1. n \in Int /\ Word \in Int /\ Word > 0 /\ 2 * ms <= 400 * Word
  <2>1. n \in Int /\ Word \in Int /\ Word > 0
    <3>1. Word > 0
      BY SMT DEF Word, Byte
    <3> QED
      BY <3>1, Quarter DEF InMantissa
  <2>2. Byte ^ 6 = 400 * Word
    BY BytePowers, SMT DEF Word, Byte
  <2>3. 2 * n >= -(Byte ^ 6) /\ 2 * n < Byte ^ 6
    BY Zenon DEF InMantissa
  <2>4. 2 * n >= -(400 * Word) /\ 2 * n < 400 * Word
    BY ONLY <2>2, <2>3, Zenon
  <2> QED
    BY ONLY <2>1, <2>4, ms = IF n < 0 THEN -n ELSE n, SMT
<1>2. ms \in Nat
  BY <1>1
<1>3. q \in Nat /\ ms = 10 * q + (ms % 10) /\ (ms % 10) \in 0 .. 9
  BY <1>2
<1> DEFINE r == ms % 10
           p == q \div 60
           s == q % 60
           h == q \div (60 * MinutesPerHour)
           mi == p % MinutesPerHour
<1>4. /\ p \in Nat /\ s \in Nat /\ q = 60 * p + s
      /\ h \in Nat /\ mi \in Nat /\ p = 4 * h + mi
  <2>0. q \in Nat
    BY <1>3
  <2>1. p \in Nat /\ s \in Nat /\ q = 60 * p + s
    BY ONLY <2>0, SMT
  <2>2. h = q \div 240 /\ mi = p % 4
    BY DEF MinutesPerHour
  <2>3. q \div 240 \in Nat
    BY ONLY <2>0, SMT
  <2>4. q \div 240 = p \div 4
    BY ONLY <2>0, SMT
  <2> HIDE DEF p, s, h, mi
  <2>5. p \div 4 \in Nat /\ p % 4 \in Nat /\ p = 4 * (p \div 4) + (p % 4)
    BY <2>1, SMT
  <2> QED
    BY <2>1, <2>2, <2>3, <2>4, <2>5, Zenon
<1> HIDE DEF p, s, h, mi, r
<1>5. h < Word
  <2>1. ms >= 10 * q /\ q >= 60 * p /\ p >= 4 * h
    BY <1>3, <1>4 DEF r
  <2>2. ms >= 2400 * h
    BY ONLY <2>1, <1>2, <1>3, <1>4, SMT
  <2> QED
    BY ONLY <1>1, <1>2, <1>4, <2>2, SMT
<1>6. r * UsPerMs \in 0 .. 90 /\ r * UsPerMs = 10 * r /\ r \in Nat
  <2>1. r \in 0 .. 9
    BY <1>3 DEF r
  <2>2. UsPerMs = 10
    BY DEF UsPerMs
  <2> QED
    BY ONLY <2>1, <2>2, SMT
<1>7. TotalTime(n < 0, h, mi, s, r * UsPerMs) = (IF n < 0 THEN -1 ELSE 1) * (10 * ms)
  <2>1. TotalTime(n < 0, h, mi, s, r * UsPerMs)
          = (IF n < 0 THEN -1 ELSE 1) * (((h * 4 + mi) * 60 + s) * 100 + r * UsPerMs)
    BY DEF TotalTime, MinutesPerHour
  <2>2. h * 4 + mi = p
    BY <1>4
  <2>3. p * 60 + s = q
    BY <1>4
  <2>4. q * 100 + 10 * r = 10 * ms
    BY <1>2, <1>3 DEF r
  <2> QED
    BY <1>6, <2>1, <2>2, <2>3, <2>4, Zenon
<1>8. (IF n < 0 THEN -1 ELSE 1) * (10 * ms) = 10 * n
  BY <1>1, <1>2
<1> QED
  BY <1>2, <1>3, <1>4, <1>5, <1>6, <1>7, <1>8 DEF r, p, s, h, mi

LEMMA TextClock ==
    ASSUME NEW b \in Seq(Nat), IsTime(b), NEW neg \in BOOLEAN
    PROVE  LET us == IF Len(b) = 10 THEN 10 * b[10] ELSE 0
               t == Clock(neg, Natural(SubSeq(b, 1, 2)), Natural(SubSeq(b, 4, 5)), Natural(SubSeq(b, 7, 8)), us)
           IN  /\ IsTimeParts(t)
               /\ TimeOf(t) = TotalTime(neg, 10 * b[1] + b[2], 10 * b[4] + b[5], 10 * b[7] + b[8], us)
<1> DEFINE us == IF Len(b) = 10 THEN 10 * b[10] ELSE 0
<1>1. Len(b) = 8 \/ Len(b) = 10
  BY Zenon DEF IsTime
<1>2. \A i \in DOMAIN b \ {3, 6, 9} : b[i] < 10
  BY Zenon DEF IsTime
<1>d. DOMAIN b = 1 .. Len(b) /\ \A i \in 1 .. Len(b) : b[i] \in Nat
  BY ONLY b \in Seq(Nat), SMT
<1>a. \A i \in {1, 2, 4, 5, 7, 8} : i \in 1 .. Len(b) /\ i \in DOMAIN b \ {3, 6, 9}
  BY ONLY <1>1, <1>d, SMT
<1>b. Len(b) = 10 => 10 \in 1 .. Len(b) /\ 10 \in DOMAIN b \ {3, 6, 9}
  BY ONLY <1>d, SMT
<1>3. /\ Natural(SubSeq(b, 1, 2)) = 10 * b[1] + b[2]
      /\ Natural(SubSeq(b, 4, 5)) = 10 * b[4] + b[5]
      /\ Natural(SubSeq(b, 7, 8)) = 10 * b[7] + b[8]
  <2>1. \A i \in Pos : i + 1 <= Len(b) => Natural(SubSeq(b, i, i + 1)) = 10 * b[i] + b[i + 1]
    BY TwoDigits
  <2>2. 1 \in Pos /\ 4 \in Pos /\ 7 \in Pos /\ 1 + 1 = 2 /\ 4 + 1 = 5 /\ 7 + 1 = 8
    BY DEF Pos
  <2>3. 2 <= Len(b) /\ 5 <= Len(b) /\ 8 <= Len(b)
    <3>1. \A n : n = 8 \/ n = 10 => 2 <= n /\ 5 <= n /\ 8 <= n
      BY ONLY SMT
    <3> QED
      BY ONLY <1>1, <3>1, Zenon
  <2> QED
    BY <2>1, <2>2, <2>3
<1>4. \A i \in {1, 2, 4, 5, 7, 8} : b[i] \in Nat /\ b[i] < 10
  BY ONLY <1>2, <1>d, <1>a, Zenon
<1>5. us \in 0 .. 90
  <2>1. CASE Len(b) = 10
    <3>1. b[10] \in Nat /\ b[10] < 10
      BY ONLY <1>2, <1>d, <1>b, <2>1, Zenon
    <3>2. \A n \in Nat : n < 10 => 10 * n \in 0 .. 90
      BY ONLY SMT
    <3>3. us = 10 * b[10]
      BY ONLY <2>1, Zenon
    <3> QED
      BY ONLY <3>1, <3>2, <3>3, Zenon
  <2>2. CASE Len(b) # 10
    BY ONLY <2>2, SMT
  <2> QED
    BY <2>1, <2>2
<1> DEFINE h == 10 * b[1] + b[2]
           m == 10 * b[4] + b[5]
           s == 10 * b[7] + b[8]
<1>6. h \in Nat /\ m \in Nat /\ s \in Nat /\ h < 100
  <2>1. \A x, y : x \in Nat /\ x < 10 /\ y \in Nat /\ y < 10 => 10 * x + y \in Nat /\ 10 * x + y < 100
    BY ONLY SMT
  <2> QED
    BY ONLY <1>4, <2>1, Zenon
<1>7. h < Word
  <2>1. 100 < Word
    BY SMT DEF Word, Byte
  <2>2. Word \in Int
    BY Quarter
  <2> HIDE DEF h
  <2> QED
    BY ONLY <1>6, <2>1, <2>2, SMT
<1> HIDE DEF us, h, m, s
<1>8. IsTimeParts(Clock(neg, h, m, s, us)) /\ TimeOf(Clock(neg, h, m, s, us)) = TotalTime(neg, h, m, s, us)
  <2>1. neg \in BOOLEAN
    OBVIOUS
  <2>2. IsTimeParts(Clock(neg, h, m, s, us))
    BY ONLY <1>5, <1>6, <1>7, <2>1, ClockParts, Zenon
  <2>3. TimeOf(Clock(neg, h, m, s, us)) = TotalTime(neg, h, m, s, us)
    BY ONLY <1>5, <1>6, <1>7, <2>1, ClockParts, Zenon
  <2> QED
    BY <2>2, <2>3
<1> QED
  BY <1>3, <1>8 DEF us, h, m, s

\* The parts of a time are those of the time that is meant.
LEMMA TimeMade ==
    ASSUME NEW v, IsValue(v), IsHeld(v), toTimeParts(v) # <<>>
    PROVE  /\ IsTimeParts(toTimeParts(v)[1])
           /\ TimeOf(toTimeParts(v)[1]) = IF Is(v, "num") THEN 10 * v.num ELSE TextTime(v.str)
           /\ v # Null
<1>0. Is(v, "num") \/ Is(v, "str") => v # Null
  <2>1. DOMAIN Null = {"null"}
    BY DEF Null
  <2> QED
    BY <2>1 DEF Is
<1>1. CASE Is(v, "num")
  <2> DEFINE n == v.num
             ms == IF n < 0 THEN -n ELSE n
             q == ms \div 10
             t == Clock(n < 0, q \div (60 * MinutesPerHour), (q \div 60) % MinutesPerHour, q % 60,
                        (ms % 10) * UsPerMs)
  <2>1. toTimeParts(v) = <<t>>
    BY <1>1 DEF toTimeParts
  <2>2. InMantissa(n, 6) /\ ms = (IF n < 0 THEN -n ELSE n) /\ q = ms \div 10 /\ (n < 0) \in BOOLEAN
    BY <1>1 DEF IsHeld
  <2>3. IsTimeParts(t) /\ TimeOf(t) = 10 * n
    <3> DEFINE h == q \div (60 * MinutesPerHour)
               mi == (q \div 60) % MinutesPerHour
               s == q % 60
               us == (ms % 10) * UsPerMs
               neg == n < 0
    <3> HIDE DEF n, ms, q
    <3>1. /\ h \in Nat /\ h < Word /\ mi \in Nat /\ s \in Nat /\ us \in 0 .. 90
          /\ TotalTime(neg, h, mi, s, us) = 10 * n
      BY <2>2, NumberTime
    <3>2. neg \in BOOLEAN
      BY <2>2
    <3> HIDE DEF h, mi, s, us, neg
    <3>3. IsTimeParts(Clock(neg, h, mi, s, us)) /\ TimeOf(Clock(neg, h, mi, s, us)) = 10 * n
      BY <3>1, <3>2, ClockParts
    <3> QED
      BY <3>3 DEF h, mi, s, us, neg
  <2> HIDE DEF t
  <2> QED
    BY <1>0, <1>1, <2>1, <2>3
<1>2. CASE ~Is(v, "num")
  <2> DEFINE s == IF Is(v, "str") THEN v.str ELSE <<>>
             neg == s # <<>> /\ s[1] = Minus
             b == IF neg THEN Tail(s) ELSE s
             us == IF Len(b) = 10 THEN 10 * b[10] ELSE 0
             t == Clock(neg, Natural(SubSeq(b, 1, 2)), Natural(SubSeq(b, 4, 5)), Natural(SubSeq(b, 7, 8)), us)
  <2>1. toTimeParts(v) = IF ~IsTime(b) THEN <<>> ELSE <<t>>
    <3>1. 1 + 1 = 2 /\ 4 + 1 = 5 /\ 7 + 1 = 8
      OBVIOUS
    <3> QED
      BY <1>2, <3>1 DEF toTimeParts
  <2>2. IsTime(b) /\ toTimeParts(v) = <<t>>
    BY <2>1
  <2>3. s \in Seq(Nat) /\ b \in Seq(Nat) /\ neg \in BOOLEAN
    <3>1. s \in Seq(Nat)
      BY DEF IsValue
    <3> HIDE DEF s
    <3>2. CASE neg
      BY <3>1, <3>2
    <3>3. CASE ~neg
      BY <3>1, <3>3
    <3> QED
      BY <3>2, <3>3
  <2>4. s # <<>>
    <3>1. Len(b) # 0
      <4> HIDE DEF b
      <4>1. Len(b) = 8 \/ Len(b) = 10
        BY <2>2, Zenon DEF IsTime
      <4>2. \A n : n = 8 \/ n = 10 => n # 0
        BY ONLY SMT
      <4> QED
        BY ONLY <4>1, <4>2, Zenon
    <3> HIDE DEF s
    <3>2. CASE s = <<>>
      <4>1. ~neg /\ b = <<>>
        BY <3>2
      <4> HIDE DEF b
      <4> QED
        BY <3>1, <4>1
    <3> QED
      BY <3>2
  <2>5. Is(v, "str") /\ s = v.str
    BY <2>4
  <2>6. IsTimeParts(t)
        /\ TimeOf(t) = TotalTime(neg, 10 * b[1] + b[2], 10 * b[4] + b[5], 10 * b[7] + b[8], us)
    <3> HIDE DEF b, neg
    <3> QED
      BY <2>2, <2>3, TextClock
  <2>7. TextTime(s) = TotalTime(neg, 10 * b[1] + b[2], 10 * b[4] + b[5], 10 * b[7] + b[8], us)
    <3> HIDE DEF s
    <3>1. neg <=> s[1] = Minus
      BY <2>4
    <3>2. 1 + 1 = 2 /\ 4 + 1 = 5 /\ 7 + 1 = 8
      OBVIOUS
    <3> QED
      BY <2>4, <3>1, <3>2 DEF TextTime
  <2> HIDE DEF t, s, b, us, neg
  <2>8. TimeOf(t) = TextTime(v.str)
    BY <2>5, <2>6, <2>7
  <2>9. toTimeParts(v)[1] = t
    BY <2>2
  <2> QED
    BY <1>0, <1>2, <2>5, <2>6, <2>8, <2>9
<1> QED
  BY <1>1, <1>2

LEMMA TimeEncodes ==
    ASSUME NEW v, IsValue(v), IsHeld(v), NEW u, NEW zone, NEW json, timeEncoder(v) # <<>>
    PROVE  Encodes(timeEncoder(v), "TIME", u, zone, MeantAs("TIME", v, json))
<1> DEFINE t == toTimeParts(v)[1]
           w == writeTime(t)
<1>1. toTimeParts(v) # <<>>
  BY TimeRefused
<1>2. /\ IsTimeParts(t) /\ TimeOf(t) = (IF Is(v, "num") THEN 10 * v.num ELSE TextTime(v.str))
      /\ v # Null
  BY <1>1, TimeMade
<1>3. timeEncoder(v) = Encoded("TIME", FALSE, timeLength(t), w)
  BY <1>1 DEF timeEncoder, Unless
<1> HIDE DEF t
<1>4. Reads("TIME", u, zone, w, [time |-> TimeOf(t)]) /\ Len(w) = timeLength(t)
  BY <1>2, TimeReads
<1>5. MeantAs("TIME", v, json) = [time |-> TimeOf(t)]
  BY <1>2, TimeMeant
<1> HIDE DEF w
<1> QED
  BY <1>3, <1>4, <1>5, EncodesIs

-----------------------------------------------------------------------------
\* What a parameter is made to: the server reads x from it.
Carries(p, zone, x) ==
    /\ p.type \in DOMAIN TypeCode /\ p.unsigned \in BOOLEAN /\ p.isNull \in BOOLEAN
    /\ p.isNull => x = Null
    /\ ~p.isNull => Reads(p.type, p.unsigned, zone, p.bytes, x) /\ p.length = Len(p.bytes)

LEMMA WireTyped ==
    ASSUME NEW type \in SUPPORTED, NEW json
    PROVE  /\ wireType(type, json) \in DOMAIN TypeCode
           /\ type \in TEMPORAL_TYPES \union {"DOUBLE", "FLOAT", "TIME"} => wireType(type, json) = type
<1>0. DOMAIN TypeCode = {"DECIMAL", "TINY", "SHORT", "LONG", "FLOAT", "DOUBLE", "NULL", "TIMESTAMP", "LONGLONG",
                         "DATE", "TIME", "DATETIME", "JSON", "VAR_STRING", "STRING", "BLOB"}
  BY DEF TypeCode
<1>1. DOMAIN WIRE_TYPE = {"INT24", "YEAR", "ENUM", "SET", "VECTOR"}
  BY DEF WIRE_TYPE
<1>2. CASE type = "JSON" /\ json
  <2>1. wireType(type, json) = "VAR_STRING"
    BY <1>1, <1>2 DEF wireType
  <2> QED
    BY <1>0, <1>2, <2>1 DEF TEMPORAL_TYPES
<1>3. CASE type \in DOMAIN WIRE_TYPE
  <2>1. wireType(type, json) = WIRE_TYPE[type]
    BY <1>1, <1>3 DEF wireType
  <2>2. WIRE_TYPE[type] \in {"LONG", "SHORT", "STRING", "BLOB"}
    BY <1>1, <1>3 DEF WIRE_TYPE
  <2> QED
    BY <1>0, <1>1, <1>3, <2>1, <2>2 DEF TEMPORAL_TYPES
<1>4. CASE ~(type = "JSON" /\ json) /\ type \notin DOMAIN WIRE_TYPE
  <2>1. wireType(type, json) = type
    BY <1>4 DEF wireType
  <2>2. type \in DOMAIN TypeCode
    BY <1>0, <1>1, <1>4 DEF SUPPORTED, INTEGER_BYTES, TEMPORAL_TYPES, LENGTH_CODED
  <2> QED
    BY <2>1, <2>2
<1> QED
  BY <1>2, <1>3, <1>4

LEMMA NullParameter ==
    ASSUME NEW t, NEW u, NEW e, e = Parameter(t, u, TRUE, 0, <<>>), t \in DOMAIN TypeCode, u \in BOOLEAN,
           NEW zone, NEW x, x = Null
    PROVE  Carries(e[1], zone, x)
<1> DEFINE p == [type |-> t, unsigned |-> u, isNull |-> TRUE, length |-> 0, bytes |-> <<>>]
<1>1. e[1] = p
  BY DEF Parameter
<1>2. p.type = t /\ p.unsigned = u /\ p.isNull = TRUE
  OBVIOUS
<1> HIDE DEF p
<1> QED
  BY <1>1, <1>2, Zenon DEF Carries

LEMMA EncodedCarries ==
    ASSUME NEW e, NEW t, NEW u, NEW zone, NEW x, Encodes(e, t, u, zone, x), t \in DOMAIN TypeCode, u \in BOOLEAN
    PROVE  Carries([e[1] EXCEPT !.type = t, !.unsigned = u], zone, x)
<1> DEFINE p == e[1]
           q == [p EXCEPT !.type = t, !.unsigned = u]
<1>1. /\ p.isNull = FALSE /\ p.length = Len(p.bytes)
      /\ DOMAIN p = {"type", "unsigned", "isNull", "length", "bytes"}
      /\ Reads(t, u, zone, p.bytes, x)
  BY DEF Encodes
<1> HIDE DEF p
<1>2. q.type = t /\ q.unsigned = u /\ q.isNull = FALSE /\ q.length = p.length /\ q.bytes = p.bytes
  BY <1>1
<1> HIDE DEF q
<1>3. Carries(q, zone, x)
  BY <1>1, <1>2, Zenon DEF Carries
<1> QED
  BY <1>3 DEF p, q

\* The text of a value.
LEMMA TextHeld ==
    ASSUME NEW v, IsValue(v), IsHeld(v),
           \E kind \in {"str", "buf", "json", "num", "bigint"} : Is(v, kind)
    PROVE  IsText(TextOf(v))
<1>1. PICK kind \in Kinds : DOMAIN v = {kind}
  BY DEF IsValue
<1>k. \A k : Is(v, k) <=> k = kind
  BY <1>1 DEF Is
<1>2. CASE kind = "str"
  <2>1. TextOf(v) = v.str
    BY <1>k, <1>2 DEF TextOf
  <2> QED
    BY <1>k, <1>2, <2>1 DEF IsHeld
<1>3. CASE kind = "buf"
  <2>1. TextOf(v) = v.buf
    BY <1>k, <1>3 DEF TextOf
  <2> QED
    BY <1>k, <1>3, <2>1 DEF IsHeld
<1>4. CASE kind = "json"
  <2>1. TextOf(v) = v.json
    BY <1>k, <1>4 DEF TextOf
  <2> QED
    BY <1>k, <1>4, <2>1 DEF IsHeld
<1>5. CASE kind = "num"
  <2>1. TextOf(v) = Text(v.num)
    BY <1>k, <1>5 DEF TextOf
  <2>2. InMantissa(v.num, 6)
    BY <1>k, <1>5 DEF IsHeld
  <2> QED
    BY <2>1, <2>2, HeldText
<1>6. CASE kind = "bigint"
  <2>1. TextOf(v) = Text(v.bigint)
    BY <1>k, <1>6 DEF TextOf
  <2>2. InInteger(v.bigint)
    BY <1>k, <1>6 DEF IsHeld
  <2> QED
    BY <2>1, <2>2, HeldText
<1> QED
  BY <1>k, <1>2, <1>3, <1>4, <1>5, <1>6

LEMMA OneKind ==
    ASSUME NEW v, IsValue(v), Is(v, "num")
    PROVE  ~Is(v, "dbl") /\ IntegerOf(v) = v.num
<1>1. PICK kind \in Kinds : DOMAIN v = {kind}
  BY DEF IsValue
<1>2. DOMAIN v = {"num"}
  BY <1>1 DEF Is
<1> QED
  BY <1>2 DEF Is, IntegerOf

\* Every encoder of a typed value.
LEMMA EncoderEncodes ==
    ASSUME NEW v, IsValue(v), IsHeld(v), v # Null, NEW type \in SUPPORTED, IsHeldAs(type, v),
           NEW u \in BOOLEAN, NEW zone \in ZoneNames, NEW json \in BOOLEAN,
           encoderFor(v, type, u, zone) # <<>>
    PROVE  Encodes(encoderFor(v, type, u, zone), wireType(type, json), u, zone, MeantAs(type, v, json))
<1> DEFINE e == encoderFor(v, type, u, zone)
           wire == wireType(type, json)
<1>0. DOMAIN INTEGER_BYTES = {"TINY", "SHORT", "YEAR", "INT24", "LONG", "LONGLONG"}
  BY DEF INTEGER_BYTES
<1>n. type # "NULL"
  BY DEF IsHeldAs
<1>w. type \in TEMPORAL_TYPES \union {"DOUBLE", "FLOAT", "TIME"} => wire = type
  BY WireTyped
<1>1. CASE type \in DOMAIN INTEGER_BYTES
  <2>1. e = integerEncoder(v, type, u)
    BY <1>n, <1>1, Encoders
  <2>2. Is(v, "str") /\ IsDigits(v.str) => InInteger(Integer(v.str))
    BY <1>1 DEF IsHeldAs
  <2>3. integerEncoder(v, type, u) # <<>>
    BY <2>1
  <2> QED
    BY <1>1, <2>1, <2>2, <2>3, IntegerEncodes
<1>2. CASE type \in TEMPORAL_TYPES
  <2>1. e = temporalEncoder(v, type, zone)
    BY <1>n, <1>2, Encoders
  <2>2. Is(v, "date")
    BY <2>1, TemporalRefused
  <2> QED
    BY <1>w, <1>2, <2>1, <2>2, DateEncodes
<1>3. CASE type = "TIME"
  <2>1. e = timeEncoder(v)
    BY <1>n, <1>3, Encoders
  <2> QED
    BY <1>w, <1>3, <2>1, TimeEncodes
<1>4. CASE type = "DOUBLE" \/ type = "FLOAT"
  <2>1. \/ Is(v, "num") /\ ~Is(v, "dbl") /\ IntegerOf(v) = v.num
        \/ Is(v, "dbl")
    BY <1>4, OneKind DEF IsHeldAs
  <2>2. CASE type = "DOUBLE"
    <3>1. e = Encoded("DOUBLE", u, 8, writeDouble(v))
      BY <1>0, <2>2 DEF encoderFor, TEMPORAL_TYPES, LENGTH_CODED
    <3>2. Encodes(Encoded("DOUBLE", u, 8, writeDouble(v)), "DOUBLE", u, zone, MeantAs("DOUBLE", v, json))
      BY <2>1, RealEncodes
    <3> QED
      BY <1>w, <2>2, <3>1, <3>2
  <2>3. CASE type = "FLOAT"
    <3>1. e = Encoded("FLOAT", u, 4, writeFloat(v))
      BY <1>0, <2>3 DEF encoderFor, TEMPORAL_TYPES, LENGTH_CODED
    <3>2. InMantissa(Mantissa(v)[1], 3)
      BY <2>3 DEF IsHeldAs
    <3>3. Encodes(Encoded("FLOAT", u, 4, writeFloat(v)), "FLOAT", u, zone, MeantAs("FLOAT", v, json))
      BY <2>1, <3>2, RealEncodes
    <3> QED
      BY <1>w, <2>3, <3>1, <3>3
  <2> QED
    BY <1>4, <2>2, <2>3
<1>5. CASE type \in LENGTH_CODED \union {"JSON"}
  <2>1. PICK t : e = LengthCodedParameter(t, TextOf(v))
    <3>1. CASE type = "JSON"
      BY <1>0, <3>1 DEF encoderFor, TEMPORAL_TYPES, LENGTH_CODED, jsonEncoder
    <3>2. CASE type \in LENGTH_CODED
      BY <1>0, <3>2 DEF encoderFor, TEMPORAL_TYPES, LENGTH_CODED, lengthCodedEncoder
    <3> QED
      BY <1>5, <3>1, <3>2
  <2>2. IsText(TextOf(v))
    <3>1. \E kind \in {"str", "buf", "json", "num", "bigint"} : Is(v, kind)
      BY <1>5 DEF IsHeldAs
    <3> QED
      BY <3>1, TextHeld
  <2>3. /\ wire \in {"JSON", "BLOB", "DECIMAL", "VAR_STRING", "STRING"}
        /\ MeantAs(type, v, json) = TextAs(wire, TextOf(v))
    BY <1>5, TextMeant
  <2> HIDE DEF wire, e
  <2>4. Encodes(LengthCodedParameter(t, TextOf(v)), wire, u, zone, TextAs(wire, TextOf(v)))
    BY <2>2, <2>3, TextEncodes
  <2> QED
    BY <2>1, <2>3, <2>4 DEF wire, e
<1> QED
  BY <1>n, <1>1, <1>2, <1>3, <1>4, <1>5 DEF SUPPORTED

\* A value that comes with a type is carried as it is meant.
LEMMA TypedCarries ==
    ASSUME NEW p, p.typed \in SUPPORTED, p.unsigned \in BOOLEAN, IsValue(p.value), IsHeld(p.value),
           p.value = Null \/ IsHeldAs(p.typed, p.value),
           NEW zone \in ZoneNames, NEW json \in BOOLEAN, encodeTypedParameter(p, zone, json) # <<>>
    PROVE  Carries(encodeTypedParameter(p, zone, json)[1], zone, MeantAs(p.typed, p.value, json))
<1> DEFINE v == p.value
           type == p.typed
           u == p.unsigned
           wire == wireType(type, json)
           e == encoderFor(v, type, u, zone)
<1>w. wire \in DOMAIN TypeCode
  BY WireTyped
<1>1. CASE v = Null
  <2>1. encodeTypedParameter(p, zone, json) = Parameter(wire, u, TRUE, 0, <<>>)
    BY <1>1 DEF encodeTypedParameter
  <2>2. MeantAs(type, v, json) = Null
    BY <1>1 DEF MeantAs
  <2> QED
    BY <1>w, <2>1, <2>2, NullParameter
<1>2. CASE v # Null
  <2>1. IsHeldAs(type, v) /\ type # "NULL"
    BY <1>2 DEF IsHeldAs
  <2>2. encodeTypedParameter(p, zone, json)
          = IF e = <<>> THEN <<>> ELSE <<[e[1] EXCEPT !.type = wire, !.unsigned = u]>>
    BY <1>2, <2>1 DEF encodeTypedParameter, Unless
  <2>3. e # <<>>
    BY <2>2
  <2> DEFINE q == [e[1] EXCEPT !.type = wire, !.unsigned = u]
  <2>4. encodeTypedParameter(p, zone, json) = <<q>>
    BY <2>2, <2>3
  <2>5. Encodes(e, wire, u, zone, MeantAs(type, v, json))
    BY <1>2, <2>1, <2>3, EncoderEncodes
  <2>6. Carries(q, zone, MeantAs(type, v, json))
    <3> HIDE DEF e, wire
    <3> QED
      BY <1>w, <2>5, EncodedCarries
  <2> HIDE DEF q
  <2>7. <<q>>[1] = q
    OBVIOUS
  <2> QED
    BY <2>4, <2>6, <2>7
<1> QED
  BY <1>1, <1>2

LEMMA EncodesCarries ==
    ASSUME NEW t \in DOMAIN TypeCode, NEW u \in BOOLEAN, NEW length, NEW bytes, NEW zone, NEW x,
           Encodes(Encoded(t, u, length, bytes), t, u, zone, x)
    PROVE  Carries(Encoded(t, u, length, bytes)[1], zone, x)
<1> DEFINE e == Encoded(t, u, length, bytes)
<1>1. e[1].type = t /\ e[1].unsigned = u
  BY DEF Encoded, Parameter
<1> HIDE DEF e
<1>2. e[1].isNull = FALSE /\ e[1].length = Len(e[1].bytes) /\ Reads(t, u, zone, e[1].bytes, x)
  BY DEF Encodes, e
<1>3. Carries(e[1], zone, x)
  BY <1>1, <1>2, Zenon DEF Carries
<1> QED
  BY <1>3 DEF e

LEMMA TypeCodes ==
    DOMAIN TypeCode = {"DECIMAL", "TINY", "SHORT", "LONG", "FLOAT", "DOUBLE", "NULL", "TIMESTAMP", "LONGLONG",
                       "DATE", "TIME", "DATETIME", "JSON", "VAR_STRING", "STRING", "BLOB"}
BY DEF TypeCode

LEMMA TextCarries ==
    ASSUME NEW type \in {"JSON", "BLOB", "VAR_STRING"}, NEW zone, NEW s, IsText(s)
    PROVE  Carries(LengthCodedParameter(type, s)[1], zone, TextAs(type, s))
<1> DEFINE length == lengthCodedNumberLength(Len(s)) + Len(s)
           bytes == writeLengthCodedBuffer(s)
<1>1. LengthCodedParameter(type, s) = Encoded(type, FALSE, length, bytes)
  BY DEF LengthCodedParameter
<1>2. Encodes(LengthCodedParameter(type, s), type, FALSE, zone, TextAs(type, s))
  BY TextEncodes
<1>3. type \in DOMAIN TypeCode /\ FALSE \in BOOLEAN
  BY TypeCodes
<1> HIDE DEF length, bytes
<1> QED
  BY <1>1, <1>2, <1>3, EncodesCarries

\* A value without a type is carried as it is meant, or as the digits of an
\* integer of more than a number.
LEMMA GuessedCarries ==
    ASSUME NEW v, IsValue(v), IsHeld(v), NEW zone \in ZoneNames, NEW json \in BOOLEAN,
           Guessed(v, zone, json) # <<>>
    PROVE  \E x : Conveys(x, v, json) /\ Carries(Guessed(v, zone, json)[1], zone, x)
<1>1. PICK kind \in Kinds : DOMAIN v = {kind}
  BY DEF IsValue
<1>k. \A k : Is(v, k) <=> k = kind
  BY <1>1 DEF Is
<1>d. kind # "null" => v # Null
  BY <1>1 DEF Null
<1>f. FALSE \in BOOLEAN
  OBVIOUS
<1> DEFINE e == Guessed(v, zone, json)
           mean == Meant(v, json)
<1>c. ASSUME Carries(e[1], zone, mean) PROVE \E x : Conveys(x, v, json) /\ Carries(e[1], zone, x)
  <2>1. Conveys(mean, v, json)
    BY Zenon DEF Conveys
  <2> QED
    BY <1>c, <2>1, Zenon
<1>2. CASE kind = "undefined"
  BY <1>k, <1>2 DEF Guessed
<1>3. CASE kind = "null"
  <2>1. e = Parameter("NULL", FALSE, TRUE, 0, <<>>)
    BY <1>k, <1>3 DEF Guessed
  <2>2. v = Null
    BY <1>k, <1>3 DEF IsHeld
  <2>3. mean = MeantAs("STRING", v, json)
    BY <1>1, <1>3, MeantGuessed
  <2>4. mean = Null
    BY <2>2, <2>3 DEF MeantAs
  <2>5. "NULL" \in DOMAIN TypeCode
    BY TypeCodes
  <2>6. Carries(e[1], zone, mean)
    BY <1>f, <2>1, <2>4, <2>5, NullParameter
  <2> QED
    BY <1>c, <2>6
<1>4. CASE kind \in {"num", "dbl"}
  <2>1. e = Encoded("DOUBLE", FALSE, 8, writeDouble(v))
    BY <1>k, <1>4 DEF Guessed
  <2>2. mean = MeantAs("DOUBLE", v, json)
    BY <1>1, <1>4, MeantGuessed
  <2>3. \/ Is(v, "num") /\ ~Is(v, "dbl") /\ IntegerOf(v) = v.num
        \/ Is(v, "dbl")
    BY <1>k, <1>4, OneKind
  <2>4. v # Null
    BY <1>d, <1>4
  <2>5. Encodes(Encoded("DOUBLE", FALSE, 8, writeDouble(v)), "DOUBLE", FALSE, zone, MeantAs("DOUBLE", v, json))
    BY <2>3, <2>4, RealEncodes
  <2>6. "DOUBLE" \in DOMAIN TypeCode
    BY TypeCodes
  <2>7. Carries(e[1], zone, mean)
    BY <1>f, <2>1, <2>2, <2>5, <2>6, EncodesCarries
  <2> QED
    BY <1>c, <2>7
<1>5. CASE kind = "bool"
  <2> DEFINE k == IF v.bool THEN 1 ELSE 0
             w == 1
  <2>1. e = Encoded("TINY", FALSE, 1, <<k>>)
    BY <1>k, <1>5 DEF Guessed
  <2>2. mean = MeantAs("DOUBLE", v, json)
    BY <1>1, <1>5, MeantGuessed
  <2>3. mean = [number |-> <<k, 0>>]
    <3>1. IntegerOf(v) = k /\ ~Is(v, "dbl") /\ v # Null
      BY <1>k, <1>d, <1>5 DEF IntegerOf
    <3> QED
      BY <2>2, <3>1, RealMeant
  <2>4. k \in {0, 1} /\ k \in Int
    OBVIOUS
  <2> HIDE DEF k
  <2>5. ToLe(k, 1) = <<k>>
    <3>1. Byte = 20 /\ Byte ^ 0 = 1
      BY BytePowers
    <3>2. k \div 1 = k /\ k % 20 = k
      BY <2>4
    <3>3. ToLe(k, 1)[1] = k
      BY <3>1, <3>2 DEF ToLe
    <3>4. ToLe(k, 1) \in Seq(Nat) /\ Len(ToLe(k, 1)) = 1
      BY <2>4, ToLeTyped
    <3> HIDE DEF w
    <3> QED
      BY <3>3, <3>4
  <2>6. Fits(k, 1, FALSE)
    <3>1. Byte ^ 1 = 20
      BY BytePowers
    <3> QED
      BY <2>4, <3>1 DEF Fits
  <2>7. Reads("TINY", FALSE, zone, ToLe(k, w), [number |-> <<k, 0>>]) /\ Len(ToLe(k, w)) = w
    <3> DEFINE t == "TINY"
               u == FALSE
    <3>1. <<t, w>> \in {<<"TINY", 1>>, <<"SHORT", 2>>, <<"LONG", 4>>} /\ Fits(k, w, u) /\ u \in BOOLEAN
      BY <2>6
    <3> HIDE DEF w, t, u
    <3>2. Reads(t, u, zone, ToLe(k, w), [number |-> <<k, 0>>]) /\ Len(ToLe(k, w)) = w
      BY <2>4, <3>1, WholeReads
    <3> QED
      BY <3>2 DEF t, u
  <2>8. Reads("TINY", FALSE, zone, <<k>>, [number |-> <<k, 0>>]) /\ 1 = Len(<<k>>)
    BY <2>5, <2>7
  <2>9. Encodes(Encoded("TINY", FALSE, 1, <<k>>), "TINY", FALSE, zone, [number |-> <<k, 0>>])
    <3> DEFINE b == <<k>>
    <3> HIDE DEF b
    <3> QED
      BY <2>8, EncodesIs DEF b
  <2>10. "TINY" \in DOMAIN TypeCode
    BY TypeCodes
  <2>11. Carries(e[1], zone, mean)
    BY <1>f, <2>1, <2>3, <2>9, <2>10, EncodesCarries
  <2> QED
    BY <1>c, <2>11
<1>6. CASE kind = "date"
  <2> DEFINE w == writeDate(v.date, zone, LocalMinutes)
  <2>1. e = Encoded("DATETIME", FALSE, 12, w)
    BY <1>k, <1>6 DEF Guessed
  <2>2. mean = MeantAs("DATETIME", v, json)
    BY <1>1, <1>6, MeantGuessed
  <2>3. "DATETIME" \in TEMPORAL_TYPES /\ "DATETIME" \in DOMAIN TypeCode /\ Is(v, "date") /\ v # Null
    BY <1>k, <1>d, <1>6, TypeCodes DEF TEMPORAL_TYPES
  <2>4. temporalEncoder(v, "DATETIME", zone) = Encoded("DATETIME", FALSE, 12, w)
    BY <2>3 DEF temporalEncoder
  <2>5. Encodes(temporalEncoder(v, "DATETIME", zone), "DATETIME", FALSE, zone, MeantAs("DATETIME", v, json))
    BY <2>3, DateEncodes
  <2> HIDE DEF w
  <2>6. Carries(e[1], zone, mean)
    BY <1>f, <2>1, <2>2, <2>3, <2>4, <2>5, EncodesCarries
  <2> QED
    BY <1>c, <2>6
<1>7. CASE kind = "json"
  <2> DEFINE t == IF json THEN "VAR_STRING" ELSE "JSON"
  <2>1. e = LengthCodedParameter(t, v.json) /\ TextOf(v) = v.json
    BY <1>k, <1>7 DEF Guessed, TextOf
  <2>2. mean = MeantAs("JSON", v, json)
    BY <1>1, <1>7, MeantGuessed
  <2>3. wireType("JSON", json) = t
    BY DEF wireType, WIRE_TYPE
  <2>4. IsText(v.json)
    BY <1>k, <1>7 DEF IsHeld
  <2>5. v # Null /\ "JSON" \in LENGTH_CODED \union {"JSON"}
    BY <1>d, <1>7
  <2>6. mean = TextAs(t, v.json)
    BY <2>1, <2>2, <2>3, <2>5, TextMeant
  <2>7. t \in {"JSON", "BLOB", "VAR_STRING"}
    OBVIOUS
  <2> HIDE DEF t
  <2>8. Carries(e[1], zone, mean)
    BY <2>1, <2>4, <2>6, <2>7, TextCarries
  <2> QED
    BY <1>c, <2>8
<1>8. CASE kind = "buf"
  <2>1. e = LengthCodedParameter("BLOB", v.buf) /\ TextOf(v) = v.buf
    BY <1>k, <1>8 DEF Guessed, TextOf
  <2>2. mean = MeantAs("BLOB", v, json)
    BY <1>1, <1>8, MeantGuessed
  <2>3. wireType("BLOB", json) = "BLOB"
    BY DEF wireType, WIRE_TYPE
  <2>4. IsText(v.buf)
    BY <1>k, <1>8 DEF IsHeld
  <2>5. v # Null /\ "BLOB" \in LENGTH_CODED \union {"JSON"} /\ "BLOB" \in {"JSON", "BLOB", "VAR_STRING"}
    BY <1>d, <1>8 DEF LENGTH_CODED
  <2>6. mean = TextAs("BLOB", v.buf)
    BY <2>1, <2>2, <2>3, <2>5, TextMeant
  <2>7. Carries(e[1], zone, mean)
    BY <2>1, <2>4, <2>5, <2>6, TextCarries
  <2> QED
    BY <1>c, <2>7
<1>9. CASE kind \in {"str", "bigint"}
  <2>1. e = LengthCodedParameter("VAR_STRING", TextOf(v))
    BY <1>k, <1>9 DEF Guessed
  <2>2. IsText(TextOf(v))
    <3>1. \E k \in {"str", "buf", "json", "num", "bigint"} : Is(v, k)
      BY <1>k, <1>9
    <3> QED
      BY <3>1, TextHeld
  <2>3. Carries(e[1], zone, Str(TextOf(v)))
    <3>1. TextAs("VAR_STRING", TextOf(v)) = Str(TextOf(v)) /\ "VAR_STRING" \in {"JSON", "BLOB", "VAR_STRING"}
      BY DEF TextAs
    <3> QED
      BY <2>1, <2>2, <3>1, TextCarries
  <2>4. Conveys(Str(TextOf(v)), v, json)
    <3>1. CASE kind = "bigint"
      <4>1. TextOf(v) = Text(v.bigint) /\ Is(v, "bigint")
        BY <1>k, <3>1 DEF TextOf
      <4> QED
        BY <4>1 DEF Conveys
    <3>2. CASE kind = "str"
      <4>1. mean = MeantAs("STRING", v, json)
        BY <1>1, <3>2, MeantGuessed
      <4>2. wireType("STRING", json) = "STRING"
        BY DEF wireType, WIRE_TYPE
      <4>3. v # Null /\ "STRING" \in LENGTH_CODED \union {"JSON"}
        BY <1>d, <3>2 DEF LENGTH_CODED
      <4>4. mean = TextAs("STRING", TextOf(v))
        BY <4>1, <4>2, <4>3, TextMeant
      <4>5. mean = Str(TextOf(v))
        BY <4>4 DEF TextAs
      <4> QED
        BY <4>5 DEF Conveys
    <3> QED
      BY <1>9, <3>1, <3>2
  <2> QED
    BY <2>3, <2>4, Zenon
<1> QED
  BY <1>2, <1>3, <1>4, <1>5, <1>6, <1>7, <1>8, <1>9 DEF Kinds

\* An integer in the type of its placeholder is the integer that is meant.
LEMMA HintCarries ==
    ASSUME NEW v, IsValue(v), IsHeld(v), NEW type, NEW unsigned \in BOOLEAN, integerHint(v, type, unsigned) # <<>>,
           NEW zone \in ZoneNames, NEW json \in BOOLEAN
    PROVE  Carries(encodeTypedParameter(integerHint(v, type, unsigned)[1], zone, json)[1], zone, Meant(v, json))
<1> DEFINE n == IF Is(v, "bigint") \/ Is(v, "bool") \/ Is(v, "num") THEN toInteger(v) ELSE <<>>
           x == [bigint |-> n[1]]
           p == Typed(type, x, unsigned)
<1>0. encodeTypedParameter(integerHint(v, type, unsigned)[1], zone, json) # <<>>
  BY HintSent
<1>1. type \in HINT_UPGRADABLE /\ n # <<>> /\ integerHint(v, type, unsigned) = <<p>>
  BY DEF integerHint
<1>2. PICK kind \in Kinds : DOMAIN v = {kind}
  BY DEF IsValue
<1>3. kind \in {"bigint", "bool", "num"} /\ toInteger(v) = n
  BY <1>1, <1>2 DEF Is
<1>4. PICK k \in Int : n = <<k>>
  <2>1. Is(v, "bigint") \/ Is(v, "bool") \/ Is(v, "num")
    BY <1>1
  <2> HIDE DEF n
  <2> QED
    BY <1>1, <1>3, <2>1, ToInteger
<1>5. IntegerOf(v) = k /\ InInteger(k) /\ v # Null
  <2>1. ~Is(v, "str")
    BY <1>2, <1>3 DEF Is
  <2> HIDE DEF n
  <2> QED
    BY <1>3, <1>4, <2>1, IntegerValue
<1>6. n[1] = k
  <2> HIDE DEF n
  <2> QED
    BY <1>4
<1> HIDE DEF n
<1>7. DOMAIN x = {"bigint"} /\ x.bigint = k
  BY <1>6
<1> HIDE DEF x
<1>8. p.typed = type /\ p.value = x /\ p.unsigned = unsigned
  BY DEF Typed
<1> HIDE DEF p
<1>9. IsValue(x) /\ IsHeld(x) /\ IntegerOf(x) = k /\ x # Null
  <2>1. IsValue(x)
    BY <1>7 DEF IsValue, Is, Kinds
  <2>2. IsHeld(x)
    BY <1>5, <1>7 DEF IsHeld, Is
  <2>3. IntegerOf(x) = k
    BY <1>7 DEF IntegerOf, Is
  <2>4. DOMAIN Null = {"null"}
    BY DEF Null
  <2> QED
    BY <1>7, <2>1, <2>2, <2>3, <2>4
<1>10. type \in SUPPORTED /\ type \in DOMAIN INTEGER_BYTES
  BY <1>1 DEF HINT_UPGRADABLE, INTEGER_BYTES, SUPPORTED
<1>11. IsHeldAs(type, x)
  BY <1>1, <1>7 DEF HINT_UPGRADABLE, IsHeldAs, Is, LENGTH_CODED
<1>12. MeantAs(type, x, json) = [number |-> <<k, 0>>]
  BY <1>9, <1>10, IntegerMeant
<1>13. Meant(v, json) = [number |-> <<k, 0>>]
  <2>1. Meant(v, json) = MeantAs("DOUBLE", v, json)
    BY <1>2, <1>3, MeantGuessed
  <2>2. ~Is(v, "dbl")
    BY <1>2, <1>3 DEF Is
  <2> QED
    BY <1>5, <2>1, <2>2, RealMeant
<1>14. integerHint(v, type, unsigned)[1] = p
  BY <1>1
<1>15. Carries(encodeTypedParameter(p, zone, json)[1], zone, MeantAs(p.typed, p.value, json))
  BY <1>0, <1>8, <1>9, <1>10, <1>11, <1>14, TypedCarries
<1> QED
  BY <1>8, <1>12, <1>13, <1>14, <1>15

\* Whatever the value and the hint, what toParameter() makes carries the value.
LEMMA ParameterCarries ==
    ASSUME NEW v, IsParameter(v), IsHeldParameter(v), NEW zone \in ZoneNames, NEW json \in BOOLEAN,
           NEW hint, hint # <<>> => hint[1].unsigned \in BOOLEAN,
           toParameter(v, zone, json, hint) # <<>>
    PROVE  \E x : Conveys(x, v, json) /\ Carries(toParameter(v, zone, json, hint)[1], zone, x)
<1>1. CASE Is(v, "typed")
  <2>1. Hinted(v, hint) = <<v>>
    BY <1>1 DEF Hinted
  <2>2. <<v>> # <<>> /\ <<v>>[1] = v
    OBVIOUS
  <2>3. toParameter(v, zone, json, hint) = encodeTypedParameter(v, zone, json)
    BY <2>1, <2>2 DEF toParameter
  <2>4. /\ v.typed \in SUPPORTED /\ v.unsigned \in BOOLEAN /\ IsValue(v.value) /\ IsHeld(v.value)
        /\ v.value = Null \/ IsHeldAs(v.typed, v.value)
    BY <1>1, Zenon DEF IsParameter, IsHeldParameter
  <2>5. Carries(encodeTypedParameter(v, zone, json)[1], zone, MeantAs(v.typed, v.value, json))
    BY <2>3, <2>4, TypedCarries
  <2>6. Meant(v, json) = MeantAs(v.typed, v.value, json)
    BY <1>1, MeantTyped
  <2>7. Conveys(Meant(v, json), v, json)
    BY Zenon DEF Conveys
  <2> QED
    BY <2>3, <2>5, <2>6, <2>7, Zenon
<1>2. CASE ~Is(v, "typed")
  <2>1. IsValue(v) /\ IsHeld(v)
    BY <1>2, Zenon DEF IsParameter, IsHeldParameter
  <2>2. CASE Hinted(v, hint) = <<>>
    <3>1. toParameter(v, zone, json, hint) = Guessed(v, zone, json)
      BY <2>2 DEF toParameter
    <3>2. Guessed(v, zone, json) # <<>>
      BY <3>1
    <3>3. \E x : Conveys(x, v, json) /\ Carries(Guessed(v, zone, json)[1], zone, x)
      BY <2>1, <3>2, GuessedCarries
    <3> QED
      BY <3>1, <3>3
  <2>3. CASE Hinted(v, hint) # <<>>
    <3> DEFINE type == hint[1].type
               u == hint[1].unsigned
    <3>1. hint # <<>> /\ Hinted(v, hint) = integerHint(v, type, u)
      BY <1>2, <2>3 DEF Hinted
    <3>2. integerHint(v, type, u) # <<>> /\ u \in BOOLEAN
      BY <2>3, <3>1
    <3>3. toParameter(v, zone, json, hint) = encodeTypedParameter(integerHint(v, type, u)[1], zone, json)
      BY <2>3, <3>1 DEF toParameter
    <3> HIDE DEF type, u
    <3>4. Carries(encodeTypedParameter(integerHint(v, type, u)[1], zone, json)[1], zone, Meant(v, json))
      BY <2>1, <3>2, HintCarries
    <3>5. Conveys(Meant(v, json), v, json)
      BY Zenon DEF Conveys
    <3> QED
      BY <3>3, <3>4, <3>5, Zenon
  <2> QED
    BY <2>2, <2>3
<1> QED
  BY <1>1, <1>2

-----------------------------------------------------------------------------
\* The server goes through the types and the values as they were written.

LEMMA TypeRead == ASSUME NEW type \in DOMAIN TypeCode
                  PROVE  TypeCode[type] \in Nat /\ ServerType(TypeCode[type]) = type
<1> DEFINE Named(c) ==
             CASE c = 0 -> "DECIMAL" [] c = 1 -> "TINY" [] c = 2 -> "SHORT" [] c = 3 -> "LONG"
               [] c = 4 -> "FLOAT" [] c = 5 -> "DOUBLE" [] c = 6 -> "NULL" [] c = 7 -> "TIMESTAMP"
               [] c = 8 -> "LONGLONG" [] c = 10 -> "DATE" [] c = 11 -> "TIME" [] c = 12 -> "DATETIME"
               [] c = 14 -> "JSON" [] c = 15 -> "VAR_STRING" [] c = 16 -> "STRING" [] c = 17 -> "BLOB"
<1>1. /\ TypeCode["DECIMAL"] = 0 /\ TypeCode["TINY"] = 1 /\ TypeCode["SHORT"] = 2 /\ TypeCode["LONG"] = 3
      /\ TypeCode["FLOAT"] = 4 /\ TypeCode["DOUBLE"] = 5 /\ TypeCode["NULL"] = 6
      /\ TypeCode["TIMESTAMP"] = 7 /\ TypeCode["LONGLONG"] = 8 /\ TypeCode["DATE"] = 10
      /\ TypeCode["TIME"] = 11 /\ TypeCode["DATETIME"] = 12 /\ TypeCode["JSON"] = 14
      /\ TypeCode["VAR_STRING"] = 15 /\ TypeCode["STRING"] = 16 /\ TypeCode["BLOB"] = 17
  BY DEF TypeCode
<1>2. \A t \in DOMAIN TypeCode : TypeCode[t] \in Nat /\ Named(TypeCode[t]) = t
  BY <1>1, TypeCodes
<1> HIDE DEF Named
<1>3. \A t \in DOMAIN TypeCode : TypeCode[t] = TypeCode[type] => t = type
  <2> SUFFICES ASSUME NEW t \in DOMAIN TypeCode, TypeCode[t] = TypeCode[type] PROVE t = type
    OBVIOUS
  <2>1. Named(TypeCode[t]) = t /\ Named(TypeCode[type]) = type
    BY <1>2
  <2> QED
    BY <2>1, Zenon
<1> QED
  BY <1>2, <1>3 DEF ServerType

LEMMA AppendTo ==
    ASSUME NEW n \in Nat, NEW x, NEW i \in 1 .. n
    PROVE  Append([k \in 1 .. (i - 1) |-> x[k]], x[i]) = [k \in 1 .. i |-> x[k]]
<1> DEFINE s == [k \in 1 .. (i - 1) |-> x[k]]
           X == {x[k] : k \in 1 .. n}
<1>1. s \in Seq(X) /\ Len(s) = i - 1 /\ x[i] \in X
  OBVIOUS
<1>2. \A k \in 1 .. i : Append(s, x[i])[k] = x[k]
  <2> SUFFICES ASSUME NEW k \in 1 .. i PROVE Append(s, x[i])[k] = x[k]
    OBVIOUS
  <2>1. k # i => k \in 1 .. (i - 1)
    OBVIOUS
  <2>2. k # i => s[k] = x[k]
    BY <2>1
  <2> HIDE DEF s
  <2> QED
    BY <1>1, <2>1, <2>2
<1>3. Append(s, x[i]) \in Seq(X) /\ Len(Append(s, x[i])) = i
  <2> HIDE DEF s, X
  <2> QED
    BY <1>1
<1> DEFINE a == Append(s, x[i])
<1> HIDE DEF s, X
<1>4. DOMAIN a = 1 .. i
  BY <1>3
<1>5. a = [k \in 1 .. i |-> a[k]]
  BY <1>3, <1>4
<1> QED
  BY <1>2, <1>5 DEF s

\* A list that grows by x[i] at step i, where the reader is at o[i].
Grown(x, o, i) == [list |-> [k \in 1 .. i |-> x[k]], o |-> o[i]]

LEMMA GrownNext ==
    ASSUME NEW n \in Nat, NEW x, NEW o, NEW i \in 1 .. n
    PROVE  Grown(x, o, i) = [list |-> Append(Grown(x, o, i - 1).list, x[i]), o |-> o[i]]
<1>1. Grown(x, o, i - 1).list = [k \in 1 .. (i - 1) |-> x[k]]
  BY DEF Grown
<1> QED
  BY <1>1, AppendTo DEF Grown

Grows(f, n, x, o) ==
    /\ f[0] = [list |-> <<>>, o |-> o[0]]
    /\ \A i \in 1 .. n :
          f[i - 1].o = o[i - 1] => f[i] = [list |-> Append(f[i - 1].list, x[i]), o |-> o[i]]

LEMMA GrownAll ==
    ASSUME NEW n \in Nat, NEW x, NEW o, NEW f, Grows(f, n, x, o)
    PROVE  f[n] = Grown(x, o, n)
<1>0. /\ f[0] = [list |-> <<>>, o |-> o[0]]
      /\ \A i \in 1 .. n :
            f[i - 1].o = o[i - 1] => f[i] = [list |-> Append(f[i - 1].list, x[i]), o |-> o[i]]
  BY DEF Grows
<1> DEFINE S == {i \in 0 .. n : f[i] = Grown(x, o, i)}
<1>1. 0 \in S
  <2>1. [k \in 1 .. 0 |-> x[k]] = <<>>
    OBVIOUS
  <2> QED
    BY <1>0, <2>1 DEF Grown
<1>2. ASSUME NEW i \in 1 .. n, i - 1 \in S PROVE i \in S
  <2>1. f[i - 1] = Grown(x, o, i - 1)
    BY <1>2
  <2>2. Grown(x, o, i - 1).o = o[i - 1]
    BY DEF Grown
  <2>3. f[i] = [list |-> Append(f[i - 1].list, x[i]), o |-> o[i]]
    BY <1>0, <2>1, <2>2
  <2>5. Grown(x, o, i) = [list |-> Append(Grown(x, o, i - 1).list, x[i]), o |-> o[i]]
    BY GrownNext
  <2>4. f[i] = Grown(x, o, i)
    BY <2>1, <2>3, <2>5, Zenon
  <2> QED
    BY <2>4
<1>3. 0 .. n \subseteq S
  <2> HIDE DEF S
  <2> QED
    BY <1>1, <1>2, UpTo
<1> QED
  BY <1>3, n \in 0 .. n

\* What stands in a request for a parameter: its type and its name, its value.
NamePart(named, name) == IF named THEN writeLengthCodedBuffer(name) ELSE <<>>
TypePart(p, named, name) == <<TypeCode[p.type], Unsigned0x80(p)>> \o NamePart(named, name)
Understood(p, name) == [type |-> p.type, unsigned |-> p.unsigned, name |-> name]

\* How the server reads them.
NameAt(b, o, named) == IF named THEN readLengthCodedString(b, o + 2) ELSE At(Str(<<>>), o + 2)
TypeAt(b, o, named) ==
    [type |-> ServerType(b[o]), unsigned |-> b[o + 1] = 1, name |-> NameAt(b, o, named).v.str]
ValueAt(b, bitmap, i, t, zone, o) ==
    IF BitSet(b[bitmap + ((i - 1) \div Bits)], (i - 1) % Bits) THEN At(Null, o)
    ELSE ServerValue(t.type, t.unsigned, zone, b, o)

LEMMA TypePartTyped ==
    ASSUME NEW p, p.type \in DOMAIN TypeCode, NEW named \in BOOLEAN, NEW name, IsText(name)
    PROVE  /\ TypePart(p, named, name) \in Seq(Nat) /\ NamePart(named, name) \in Seq(Nat)
           /\ Len(TypePart(p, named, name)) = 2 + (IF named THEN lengthCodedStringLength(name) ELSE 0)
           /\ <<TypeCode[p.type], Unsigned0x80(p)>> \in Seq(Nat)
<1> DEFINE s == <<TypeCode[p.type], Unsigned0x80(p)>>
           t == NamePart(named, name)
<1>1. s \in Seq(Nat) /\ Len(s) = 2
  <2>1. TypeCode[p.type] \in Nat
    BY TypeRead
  <2>2. Unsigned0x80(p) \in Nat
    BY DEF Unsigned0x80
  <2> QED
    BY <2>1, <2>2
<1>2. t \in Seq(Nat) /\ Len(t) = (IF named THEN lengthCodedStringLength(name) ELSE 0)
  <2>1. CASE named
    <3>1. name \in Seq(Nat)
      BY DEF IsText
    <3> QED
      BY <2>1, <3>1, BufferWritten DEF NamePart
  <2>2. CASE ~named
    BY <2>2 DEF NamePart
  <2> QED
    BY <2>1, <2>2
<1>3. TypePart(p, named, name) = s \o t
  BY DEF TypePart
<1> HIDE DEF s, t
<1>4. s \o t \in Seq(Nat) /\ Len(s \o t) = Len(s) + Len(t)
  BY <1>1, <1>2, ConcatNat
<1>5. Len(s \o t) = 2 + (IF named THEN lengthCodedStringLength(name) ELSE 0)
  BY <1>1, <1>2, <1>4
<1> QED
  BY <1>1, <1>2, <1>3, <1>4, <1>5 DEF s, t

LEMMA TypePartRead ==
    ASSUME NEW p, p.type \in DOMAIN TypeCode, p.unsigned \in BOOLEAN, NEW named \in BOOLEAN, NEW name,
           IsText(name), ~named => name = <<>>,
           NEW b \in Seq(Nat), NEW o \in Pos, Sits(b, o, TypePart(p, named, name))
    PROVE  /\ TypeAt(b, o, named) = Understood(p, name)
           /\ NameAt(b, o, named).o = o + Len(TypePart(p, named, name))
<1> DEFINE s == <<TypeCode[p.type], Unsigned0x80(p)>>
           t == NamePart(named, name)
           u == Unsigned0x80(p)
           m == IF named THEN lengthCodedStringLength(name) ELSE 0
<1>1. s \in Seq(Nat) /\ t \in Seq(Nat) /\ Len(s) = 2 /\ s[1] = TypeCode[p.type] /\ s[2] = u
      /\ Len(TypePart(p, named, name)) = 2 + m
  BY TypePartTyped
<1>2. Sits(b, o, s) /\ Sits(b, o + 2, t) /\ o + 2 \in Pos
  <2>1. Sits(b, o, s \o t)
    BY DEF TypePart
  <2>2. Len(b) \in Nat
    OBVIOUS
  <2> HIDE DEF s, t
  <2>3. Sits(b, o, s) /\ o + Len(s) \in Pos /\ Sits(b, o + Len(s), t)
    BY <1>1, <2>1, <2>2, SitsParts
  <2> QED
    BY <1>1, <2>3
<1>3. b[o] = TypeCode[p.type] /\ b[o + 1] = u
  <2> HIDE DEF s, u
  <2>1. 1 \in 1 .. Len(s) /\ 2 \in 1 .. Len(s) /\ o + 1 - 1 = o /\ o + 2 - 1 = o + 1
    BY <1>1 DEF Pos
  <2>2. b[o + 1 - 1] = s[1] /\ b[o + 2 - 1] = s[2]
    BY <1>2, <2>1 DEF Sits
  <2> QED
    BY <1>1, <2>1, <2>2
<1>4. ServerType(b[o]) = p.type
  BY <1>3, TypeRead
<1>5. (b[o + 1] = 1) <=> p.unsigned
  BY <1>3 DEF Unsigned0x80
<1>6. NameAt(b, o, named) = At(Str(name), o + 2 + m)
  <2>1. CASE named
    <3>1. Sits(b, o + 2, writeLengthCodedBuffer(name))
      BY <1>2, <2>1 DEF NamePart
    <3>2. readLengthCodedString(b, o + 2) = At(Str(name), o + 2 + lengthCodedStringLength(name))
      BY <1>2, <3>1, StringRead
    <3> QED
      BY <2>1, <3>2 DEF NameAt
  <2>2. CASE ~named
    <3>1. o + 2 + 0 = o + 2
      BY DEF Pos
    <3> QED
      BY <2>2, <3>1 DEF NameAt
  <2> QED
    BY <2>1, <2>2
<1>7. NameAt(b, o, named).v.str = name /\ NameAt(b, o, named).o = o + 2 + m
  BY <1>6 DEF At, Str
<1>8. TypeAt(b, o, named) = Understood(p, name)
  <2> DEFINE c == b[o + 1] = 1
  <2>1. c = p.unsigned
    BY <1>5
  <2>2. TypeAt(b, o, named) = [type |-> ServerType(b[o]), unsigned |-> c, name |-> NameAt(b, o, named).v.str]
    BY DEF TypeAt
  <2> HIDE DEF c
  <2> QED
    BY <1>4, <1>7, <2>1, <2>2, Zenon DEF Understood
<1>9. o + 2 + m = o + (2 + m)
  <2>1. m \in Nat
    <3>1. name \in Seq(Nat)
      BY DEF IsText
    <3> QED
      BY <3>1, BufferWritten
  <2> HIDE DEF m
  <2> QED
    BY <2>1 DEF Pos
<1> QED
  BY <1>1, <1>7, <1>8, <1>9

LEMMA ValueRead ==
    ASSUME NEW p, NEW zone, NEW x, Carries(p, zone, x), NEW b \in Seq(Nat), NEW o \in Pos,
           Sits(b, o, ValueBytes(p)), NEW bitmap, NEW i, NEW name,
           BitSet(b[bitmap + ((i - 1) \div Bits)], (i - 1) % Bits) <=> p.isNull
    PROVE  ValueAt(b, bitmap, i, Understood(p, name), zone, o) = At(x, o + ValueLength(p))
<1>1. CASE p.isNull
  <2>1. ValueAt(b, bitmap, i, Understood(p, name), zone, o) = At(Null, o) /\ ValueLength(p) = 0
    BY <1>1 DEF ValueAt, ValueLength
  <2>2. x = Null /\ o + 0 = o
    BY <1>1 DEF Carries, Pos
  <2> QED
    BY <2>1, <2>2
<1>2. CASE ~p.isNull
  <2>1. /\ ValueAt(b, bitmap, i, Understood(p, name), zone, o) = ServerValue(p.type, p.unsigned, zone, b, o)
        /\ ValueLength(p) = p.length /\ ValueBytes(p) = p.bytes
    BY <1>2 DEF ValueAt, ValueLength, ValueBytes, Understood
  <2>2. Reads(p.type, p.unsigned, zone, p.bytes, x) /\ p.length = Len(p.bytes)
    BY <1>2 DEF Carries
  <2>3. Sits(b, o, p.bytes)
    BY <2>1
  <2>4. ServerValue(p.type, p.unsigned, zone, b, o) = At(x, o + Len(p.bytes))
    BY <2>2, <2>3 DEF Reads
  <2> QED
    BY <2>1, <2>2, <2>4
<1> QED
  BY <1>1, <1>2

\* A request as the server meets it: a bit, a type with a name, and a value for
\* each parameter.
Met(n, p, x, name, named, zone, b, o, e, d) ==
    /\ \A i \in 1 .. n : Carries(p[i], zone, x[i]) /\ IsText(name[i]) /\ (~named => name[i] = <<>>)
    /\ \A i \in 1 .. n : BitSet(b[o + ((i - 1) \div Bits)], (i - 1) % Bits) <=> p[i].isNull
    /\ e[0] = o + BitmapLength(n) + 1
    /\ \A i \in 1 .. n : /\ e[i - 1] \in Pos /\ Sits(b, e[i - 1], TypePart(p[i], named, name[i]))
                         /\ e[i] = e[i - 1] + Len(TypePart(p[i], named, name[i]))
    /\ d[0] = e[n]
    /\ \A i \in 1 .. n : /\ d[i - 1] \in Pos /\ Sits(b, d[i - 1], ValueBytes(p[i]))
                         /\ d[i] = d[i - 1] + ValueLength(p[i])

LEMMA ServerRead ==
    ASSUME NEW n \in Nat, NEW p, NEW x, NEW name, NEW named \in BOOLEAN, NEW zone,
           NEW b \in Seq(Nat), NEW o \in Pos, NEW e, NEW d, Met(n, p, x, name, named, zone, b, o, e, d)
    PROVE  ServerParams(b, o, n, named, zone)
             = [list |-> [i \in 1 .. n |-> [name |-> name[i], value |-> x[i]]], o |-> d[n]]
<1>p. /\ \A i \in 1 .. n : Carries(p[i], zone, x[i]) /\ IsText(name[i]) /\ (~named => name[i] = <<>>)
      /\ \A i \in 1 .. n : BitSet(b[o + ((i - 1) \div Bits)], (i - 1) % Bits) <=> p[i].isNull
      /\ e[0] = o + BitmapLength(n) + 1
  BY DEF Met
<1>e. \A i \in 1 .. n : /\ e[i - 1] \in Pos /\ Sits(b, e[i - 1], TypePart(p[i], named, name[i]))
                        /\ e[i] = e[i - 1] + Len(TypePart(p[i], named, name[i]))
  BY DEF Met
<1>d. /\ d[0] = e[n]
      /\ \A i \in 1 .. n : /\ d[i - 1] \in Pos /\ Sits(b, d[i - 1], ValueBytes(p[i]))
                           /\ d[i] = d[i - 1] + ValueLength(p[i])
  BY DEF Met
<1> DEFINE ty == [i \in 1 .. n |-> Understood(p[i], name[i])]
           va == [i \in 1 .. n |-> [name |-> name[i], value |-> x[i]]]
           TB(g) == [i \in 0 .. n |->
                       IF i = 0 THEN [list |-> <<>>, o |-> o + BitmapLength(n) + 1]
                       ELSE [list |-> Append(g[i - 1].list, TypeAt(b, g[i - 1].o, named)),
                             o |-> NameAt(b, g[i - 1].o, named).o]]
           th == CHOOSE g : g = TB(g)
           VB(g) == [i \in 0 .. n |->
                       IF i = 0 THEN [list |-> <<>>, o |-> th[n].o]
                       ELSE [list |-> Append(g[i - 1].list,
                                             [name |-> th[n].list[i].name,
                                              value |-> ValueAt(b, o, i, th[n].list[i], zone, g[i - 1].o).v]),
                             o |-> ValueAt(b, o, i, th[n].list[i], zone, g[i - 1].o).o]]
           vh == CHOOSE g : g = VB(g)
<1>0. \A i \in 1 .. n : i \in 0 .. n /\ i # 0 /\ i - 1 \in 0 .. n
  OBVIOUS
<1>z. 0 \in 0 .. n /\ n \in 0 .. n
  OBVIOUS
<1>1. ASSUME NEW g, NEW i \in 1 .. n, g[i - 1].o = e[i - 1]
      PROVE TB(g)[i] = [list |-> Append(g[i - 1].list, ty[i]), o |-> e[i]]
  <2>1. /\ TypeAt(b, e[i - 1], named) = Understood(p[i], name[i])
        /\ NameAt(b, e[i - 1], named).o = e[i - 1] + Len(TypePart(p[i], named, name[i]))
    <3>1. p[i].type \in DOMAIN TypeCode /\ p[i].unsigned \in BOOLEAN
      BY <1>p DEF Carries
    <3>2. e[i - 1] \in Pos /\ Sits(b, e[i - 1], TypePart(p[i], named, name[i]))
      BY <1>e
    <3>3. IsText(name[i]) /\ (~named => name[i] = <<>>)
      BY <1>p
    <3> DEFINE q == e[i - 1]
               s == p[i]
               m == name[i]
    <3>5. /\ s.type \in DOMAIN TypeCode /\ s.unsigned \in BOOLEAN /\ q \in Pos
          /\ Sits(b, q, TypePart(s, named, m)) /\ IsText(m) /\ (~named => m = <<>>)
      BY ONLY <3>1, <3>2, <3>3, Zenon
    <3>6. named \in BOOLEAN /\ b \in Seq(Nat)
      OBVIOUS
    <3> HIDE DEF q, s, m
    <3>4. /\ TypeAt(b, q, named) = Understood(s, m)
          /\ NameAt(b, q, named).o = q + Len(TypePart(s, named, m))
      BY ONLY <3>5, <3>6, TypePartRead
    <3> QED
      BY <3>4 DEF q, s, m
  <2>2. ty[i] = Understood(p[i], name[i])
    OBVIOUS
  <2>3. TB(g)[i] = [list |-> Append(g[i - 1].list, TypeAt(b, g[i - 1].o, named)),
                    o |-> NameAt(b, g[i - 1].o, named).o]
    BY <1>0
  <2>4. e[i] = e[i - 1] + Len(TypePart(p[i], named, name[i]))
    BY <1>e
  <2> HIDE DEF TB, ty
  <2> QED
    BY <1>1, <2>1, <2>2, <2>3, <2>4
<1>2. th = TB(th)
  <2> DEFINE T == [i \in 0 .. n |-> Grown(ty, e, i)]
  <2>1. T[0] = [list |-> <<>>, o |-> o + BitmapLength(n) + 1]
    <3>1. [k \in 1 .. 0 |-> ty[k]] = <<>>
      OBVIOUS
    <3>2. T[0] = Grown(ty, e, 0)
      BY <1>z
    <3> HIDE DEF T, ty
    <3> QED
      BY <1>p, <3>1, <3>2 DEF Grown
  <2>2. ASSUME NEW i \in 1 .. n PROVE T[i] = TB(T)[i]
    <3>1. T[i - 1] = Grown(ty, e, i - 1) /\ T[i] = Grown(ty, e, i)
      BY <1>0
    <3>2. T[i - 1].o = e[i - 1]
      BY <3>1 DEF Grown
    <3>3. TB(T)[i] = [list |-> Append(T[i - 1].list, ty[i]), o |-> e[i]]
      <4> HIDE DEF T, TB, ty
      <4> QED
        BY <1>1, <3>2
    <3> HIDE DEF T, TB, ty
    <3>4. Grown(ty, e, i) = [list |-> Append(Grown(ty, e, i - 1).list, ty[i]), o |-> e[i]]
      BY ONLY n \in Nat, i \in 1 .. n, GrownNext
    <3> QED
      BY <3>1, <3>3, <3>4, Zenon
  <2>3. T = TB(T)
    <3>1. \A i \in 0 .. n : T[i] = TB(T)[i]
      <4>1. \A i \in 0 .. n : i = 0 \/ i \in 1 .. n
        OBVIOUS
      <4>2. TB(T)[0] = [list |-> <<>>, o |-> o + BitmapLength(n) + 1]
        BY <1>z
      <4> HIDE DEF T, TB
      <4> QED
        BY <2>1, <2>2, <4>1, <4>2
    <3>2. T = [i \in 0 .. n |-> T[i]]
      OBVIOUS
    <3>3. TB(T) = [i \in 0 .. n |-> TB(T)[i]]
      OBVIOUS
    <3> HIDE DEF T, TB
    <3> QED
      BY <3>1, <3>2, <3>3
  <2> HIDE DEF T, TB
  <2> QED
    BY <2>3
<1>3. th[n] = Grown(ty, e, n)
  <2>1. th[0] = [list |-> <<>>, o |-> e[0]]
    <3>1. TB(th)[0] = [list |-> <<>>, o |-> o + BitmapLength(n) + 1]
      BY <1>z
    <3> HIDE DEF TB, th
    <3> QED
      BY <1>p, <1>2, <3>1
  <2> HIDE DEF TB, th, ty
  <2>2. \A i \in 1 .. n : th[i - 1].o = e[i - 1] => th[i] = [list |-> Append(th[i - 1].list, ty[i]), o |-> e[i]]
    BY <1>1, <1>2
  <2>3. Grows(th, n, ty, e)
    BY ONLY <2>1, <2>2, Zenon DEF Grows
  <2> QED
    BY <2>3, GrownAll
<1>4. th[n].o = d[0] /\ \A i \in 1 .. n : th[n].list[i] = Understood(p[i], name[i])
  <2>1. \A i \in 1 .. n : ty[i] = Understood(p[i], name[i])
    OBVIOUS
  <2>2. Grown(ty, e, n).o = e[n] /\ \A i \in 1 .. n : Grown(ty, e, n).list[i] = ty[i]
    BY DEF Grown
  <2> HIDE DEF th, ty
  <2> QED
    BY <1>d, <1>3, <2>1, <2>2
<1> HIDE DEF th
<1>5. ASSUME NEW g, NEW i \in 1 .. n, g[i - 1].o = d[i - 1]
      PROVE VB(g)[i] = [list |-> Append(g[i - 1].list, va[i]), o |-> d[i]]
  <2>1. ValueAt(b, o, i, Understood(p[i], name[i]), zone, d[i - 1]) = At(x[i], d[i - 1] + ValueLength(p[i]))
    <3>1. d[i - 1] \in Pos /\ Sits(b, d[i - 1], ValueBytes(p[i])) /\ Carries(p[i], zone, x[i])
      BY <1>p, <1>d
    <3>2. BitSet(b[o + ((i - 1) \div Bits)], (i - 1) % Bits) <=> p[i].isNull
      BY <1>p
    <3> DEFINE q == d[i - 1]
               s == p[i]
               m == name[i]
               y == x[i]
    <3> HIDE DEF q, s, m, y
    <3>3. ValueAt(b, o, i, Understood(s, m), zone, q) = At(y, q + ValueLength(s))
      BY ONLY <3>1, <3>2, ValueRead, b \in Seq(Nat) DEF q, s, m, y
    <3> QED
      BY <3>3 DEF q, s, m, y
  <2>2. va[i] = [name |-> name[i], value |-> x[i]]
    OBVIOUS
  <2>3. VB(g)[i] = [list |-> Append(g[i - 1].list,
                                    [name |-> th[n].list[i].name,
                                     value |-> ValueAt(b, o, i, th[n].list[i], zone, g[i - 1].o).v]),
                    o |-> ValueAt(b, o, i, th[n].list[i], zone, g[i - 1].o).o]
    BY <1>0
  <2>4. ValueAt(b, o, i, th[n].list[i], zone, g[i - 1].o) = At(x[i], d[i])
    <3>1. d[i] = d[i - 1] + ValueLength(p[i])
      BY <1>d
    <3> QED
      BY <1>4, <1>5, <2>1, <3>1, Zenon
  <2>5. th[n].list[i].name = name[i]
    <3>1. th[n].list[i] = Understood(p[i], name[i])
      BY <1>4
    <3>2. Understood(p[i], name[i]).name = name[i]
      BY ONLY Zenon DEF Understood
    <3> QED
      BY ONLY <3>1, <3>2, Zenon
  <2>6. At(x[i], d[i]).v = x[i] /\ At(x[i], d[i]).o = d[i]
    BY DEF At
  <2> HIDE DEF VB, va
  <2> QED
    BY <2>2, <2>3, <2>4, <2>5, <2>6, Zenon
<1>6. vh = VB(vh)
  <2> DEFINE T == [i \in 0 .. n |-> Grown(va, d, i)]
  <2>1. T[0] = [list |-> <<>>, o |-> th[n].o]
    <3>1. [k \in 1 .. 0 |-> va[k]] = <<>>
      OBVIOUS
    <3>2. T[0] = Grown(va, d, 0)
      BY <1>z
    <3> HIDE DEF T, va
    <3> QED
      BY <1>4, <3>1, <3>2 DEF Grown
  <2>2. ASSUME NEW i \in 1 .. n PROVE T[i] = VB(T)[i]
    <3>1. T[i - 1] = Grown(va, d, i - 1) /\ T[i] = Grown(va, d, i)
      BY <1>0
    <3>2. T[i - 1].o = d[i - 1]
      BY <3>1 DEF Grown
    <3>3. VB(T)[i] = [list |-> Append(T[i - 1].list, va[i]), o |-> d[i]]
      <4> HIDE DEF T, VB, va
      <4> QED
        BY <1>5, <3>2
    <3> HIDE DEF T, VB, va
    <3>4. Grown(va, d, i) = [list |-> Append(Grown(va, d, i - 1).list, va[i]), o |-> d[i]]
      BY ONLY n \in Nat, i \in 1 .. n, GrownNext
    <3> QED
      BY <3>1, <3>3, <3>4, Zenon
  <2>3. T = VB(T)
    <3>1. \A i \in 0 .. n : T[i] = VB(T)[i]
      <4>1. \A i \in 0 .. n : i = 0 \/ i \in 1 .. n
        OBVIOUS
      <4>2. VB(T)[0] = [list |-> <<>>, o |-> th[n].o]
        BY <1>z
      <4> HIDE DEF T, VB
      <4> QED
        BY <2>1, <2>2, <4>1, <4>2
    <3>2. T = [i \in 0 .. n |-> T[i]]
      OBVIOUS
    <3>3. VB(T) = [i \in 0 .. n |-> VB(T)[i]]
      OBVIOUS
    <3> HIDE DEF T, VB
    <3> QED
      BY <3>1, <3>2, <3>3
  <2> HIDE DEF T, VB
  <2> QED
    BY <2>3
<1>7. vh[n] = Grown(va, d, n)
  <2>1. vh[0] = [list |-> <<>>, o |-> d[0]]
    <3>1. VB(vh)[0] = [list |-> <<>>, o |-> th[n].o]
      BY <1>z
    <3> HIDE DEF VB, vh
    <3> QED
      BY <1>4, <1>6, <3>1
  <2> HIDE DEF VB, vh, va
  <2>2. \A i \in 1 .. n : vh[i - 1].o = d[i - 1] => vh[i] = [list |-> Append(vh[i - 1].list, va[i]), o |-> d[i]]
    BY <1>5, <1>6
  <2>3. Grows(vh, n, va, d)
    BY ONLY <2>1, <2>2, Zenon DEF Grows
  <2> QED
    BY <2>3, GrownAll
<1>8. ServerParams(b, o, n, named, zone) = vh[n]
  BY Zenon DEF ServerParams, th, TypeAt, NameAt, ValueAt, At
<1>9. Grown(va, d, n) = [list |-> va, o |-> d[n]]
  <2>1. [k \in 1 .. n |-> va[k]] = va
    OBVIOUS
  <2> HIDE DEF va
  <2> QED
    BY <2>1 DEF Grown
<1> HIDE DEF vh
<1> QED
  BY <1>7, <1>8, <1>9

-----------------------------------------------------------------------------
\* The pieces of a request sit one after the other.
Laid(f, n, e) ==
    /\ e \in [0 .. n -> Nat] /\ e[0] = 0 /\ \A i \in 1 .. n : e[i] = e[i - 1] + Len(f[i])
    /\ FlattenSeq(f) \in Seq(Nat) /\ Len(FlattenSeq(f)) = e[n]
    /\ \A b \in Seq(Nat), o \in Pos : Sits(b, o, FlattenSeq(f)) =>
          \A i \in 1 .. n : o + e[i - 1] \in Pos /\ Sits(b, o + e[i - 1], f[i])

LEMMA PartsLaid ==
    ASSUME NEW n \in Nat, NEW f \in [1 .. n -> Seq(Nat)]
    PROVE  \E e : Laid(f, n, e)
<1> DEFINE sizes == [i \in 1 .. n |-> Len(f[i])]
<1>1. f \in Seq(Seq(Nat)) /\ Len(f) = n
  OBVIOUS
<1>2. sizes \in Seq(Nat) /\ Len(sizes) = n /\ \A i \in 1 .. n : sizes[i] = Len(f[i])
  <2>1. \A i \in 1 .. n : Len(f[i]) \in Nat
    OBVIOUS
  <2> QED
    BY <2>1
<1> HIDE DEF sizes
<1>3. PICK e \in [0 .. n -> Nat] : e[0] = 0 /\ \A i \in 1 .. n : e[i] = e[i - 1] + sizes[i]
  BY <1>2, EndsExist
<1>4. Ends(f, e)
  BY <1>1, <1>2, <1>3 DEF Ends
<1>5. /\ FlattenSeq(f) \in Seq(Nat) /\ Len(FlattenSeq(f)) = e[n]
      /\ \A b \in Seq(Nat), o \in Pos : Sits(b, o, FlattenSeq(f)) =>
            \A i \in 1 .. n : o + e[i - 1] \in Pos /\ Sits(b, o + e[i - 1], f[i])
  BY <1>1, <1>4, FlattenSits
<1>6. Laid(f, n, e)
  BY <1>2, <1>3, <1>5 DEF Laid
<1> QED
  BY <1>6

\* The lengths that were counted are those of the types, names and values.
LEMMA LengthsAdd ==
    ASSUME NEW n \in Nat, NEW t, NEW v, NEW et, NEW ev, Laid(t, n, et), Laid(v, n, ev), NEW sizes \in Seq(Nat),
           Len(sizes) = n,
           \A i \in 1 .. n : Len(t[i]) \in Nat /\ Len(v[i]) \in Nat /\ Len(t[i]) + Len(v[i]) = 2 + sizes[i]
    PROVE  n * 2 + Total(sizes) = Len(FlattenSeq(t)) + Len(FlattenSeq(v))
<1>1. PICK e \in [0 .. n -> Nat] : e[0] = 0 /\ \A i \in 1 .. n : e[i] = e[i - 1] + sizes[i]
  BY EndsExist
<1>2. Total(sizes) = e[n]
  BY <1>1, TotalIs
<1>3. /\ et \in [0 .. n -> Nat] /\ et[0] = 0 /\ \A i \in 1 .. n : et[i] = et[i - 1] + Len(t[i])
      /\ ev \in [0 .. n -> Nat] /\ ev[0] = 0 /\ \A i \in 1 .. n : ev[i] = ev[i - 1] + Len(v[i])
      /\ Len(FlattenSeq(t)) = et[n] /\ Len(FlattenSeq(v)) = ev[n]
  BY DEF Laid
<1> DEFINE S == {i \in 0 .. n : et[i] + ev[i] = i * 2 + e[i]}
<1>4. 0 \in S
  BY <1>1, <1>3
<1>5. ASSUME NEW i \in 1 .. n, i - 1 \in S PROVE i \in S
  <2>1. /\ et[i] = et[i - 1] + Len(t[i]) /\ ev[i] = ev[i - 1] + Len(v[i]) /\ e[i] = e[i - 1] + sizes[i]
        /\ Len(t[i]) + Len(v[i]) = 2 + sizes[i]
    BY <1>1, <1>3
  <2>2. /\ i - 1 \in 0 .. n /\ i \in 0 .. n /\ i \in Int
        /\ et[i - 1] \in Nat /\ ev[i - 1] \in Nat /\ e[i - 1] \in Nat
        /\ et[i] \in Nat /\ ev[i] \in Nat /\ sizes[i] \in Nat
    BY <1>1, <1>3
  <2>3. et[i - 1] + ev[i - 1] = (i - 1) * 2 + e[i - 1]
    BY <1>5
  <2> DEFINE a == Len(t[i])
             c == Len(v[i])
             u == et[i - 1]
             w == ev[i - 1]
             x == e[i - 1]
             s == sizes[i]
  <2>4. (u + a) + (w + c) = i * 2 + (x + s)
    <3>1. u \in Nat /\ w \in Nat /\ x \in Nat /\ s \in Nat /\ i \in Int
      BY <2>2
    <3>2. u + w = (i - 1) * 2 + x /\ a + c = 2 + s /\ u + a \in Nat /\ w + c \in Nat
      BY <2>1, <2>2, <2>3
    <3>3. a \in Int /\ c \in Int
      OBVIOUS
    <3> HIDE DEF a, c, u, w, x, s
    <3> QED
      BY ONLY <3>1, <3>2, <3>3, SMT
  <2> QED
    BY <2>1, <2>2, <2>4
<1>6. 0 .. n \subseteq S
  <2> HIDE DEF S
  <2> QED
    BY <1>4, <1>5, UpTo
<1>7. n \in S
  <2> HIDE DEF S
  <2> QED
    BY <1>6
<1> QED
  BY <1>2, <1>3, <1>7

\* A request with its parameters: the server reads them from where the bitmap
\* starts, as many bytes as were counted.
Parameters(n, p, x, name, named, zone) ==
    \A i \in 1 .. n : Carries(p[i], zone, x[i]) /\ IsText(name[i]) /\ (~named => name[i] = <<>>)

TypeParts(n, p, name, named) == [i \in 1 .. n |-> TypePart(p[i], named, name[i])]
ValueParts(n, p) == [i \in 1 .. n |-> ValueBytes(p[i])]
Sizes(n, p, name, named) ==
    [i \in 1 .. n |-> (IF named THEN lengthCodedStringLength(name[i]) ELSE 0) + ValueLength(p[i])]

LEMMA ValuePartTyped ==
    ASSUME NEW p, NEW zone, NEW x, Carries(p, zone, x)
    PROVE  ValueBytes(p) \in Seq(Nat) /\ Len(ValueBytes(p)) = ValueLength(p) /\ ValueLength(p) \in Nat
<1>1. CASE p.isNull
  BY <1>1 DEF ValueBytes, ValueLength
<1>2. CASE ~p.isNull
  <2>1. ValueBytes(p) = p.bytes /\ ValueLength(p) = p.length
    BY <1>2 DEF ValueBytes, ValueLength
  <2>2. p.bytes \in Seq(Nat) /\ p.length = Len(p.bytes)
    BY <1>2 DEF Carries, Reads
  <2> QED
    BY <2>1, <2>2
<1> QED
  BY <1>1, <1>2

PartsAre(n, p, name, named, t, v, s) ==
    /\ t \in [1 .. n -> Seq(Nat)] /\ v \in [1 .. n -> Seq(Nat)] /\ s \in Seq(Nat) /\ Len(s) = n
    /\ \A i \in 1 .. n :
          /\ Len(t[i]) \in Nat /\ Len(v[i]) \in Nat /\ Len(t[i]) + Len(v[i]) = 2 + s[i]
          /\ t[i] = TypePart(p[i], named, name[i])
          /\ v[i] = ValueBytes(p[i]) /\ Len(v[i]) = ValueLength(p[i])

LEMMA PartsLengthed ==
    ASSUME NEW n \in Nat, NEW p, NEW x, NEW name, NEW named \in BOOLEAN, NEW zone,
           Parameters(n, p, x, name, named, zone)
    PROVE  PartsAre(n, p, name, named, TypeParts(n, p, name, named), ValueParts(n, p),
                    Sizes(n, p, name, named))
<1> DEFINE t == TypeParts(n, p, name, named)
           v == ValueParts(n, p)
           s == Sizes(n, p, name, named)
           m(i) == IF named THEN lengthCodedStringLength(name[i]) ELSE 0
<1>1. ASSUME NEW i \in 1 .. n
      PROVE /\ TypePart(p[i], named, name[i]) \in Seq(Nat) /\ Len(TypePart(p[i], named, name[i])) = 2 + m(i)
            /\ ValueBytes(p[i]) \in Seq(Nat) /\ Len(ValueBytes(p[i])) = ValueLength(p[i])
            /\ ValueLength(p[i]) \in Nat /\ m(i) \in Nat
  <2>1. Carries(p[i], zone, x[i]) /\ IsText(name[i]) /\ p[i].type \in DOMAIN TypeCode
    BY DEF Parameters, Carries
  <2>2. TypePart(p[i], named, name[i]) \in Seq(Nat) /\ Len(TypePart(p[i], named, name[i])) = 2 + m(i)
    BY <2>1, TypePartTyped
  <2>3. /\ ValueBytes(p[i]) \in Seq(Nat) /\ Len(ValueBytes(p[i])) = ValueLength(p[i])
        /\ ValueLength(p[i]) \in Nat
    BY <2>1, ValuePartTyped
  <2>4. m(i) \in Nat
    <3>1. name[i] \in Seq(Nat)
      BY <2>1 DEF IsText
    <3>2. lengthCodedStringLength(name[i]) \in Nat
      BY <3>1, BufferWritten
    <3> QED
      BY <3>2
  <2> QED
    BY <2>2, <2>3, <2>4
<1>2. t \in [1 .. n -> Seq(Nat)] /\ v \in [1 .. n -> Seq(Nat)]
  BY <1>1 DEF TypeParts, ValueParts
<1>3. s \in Seq(Nat) /\ Len(s) = n
  <2>1. \A i \in 1 .. n : m(i) + ValueLength(p[i]) \in Nat
    <3>1. \A a \in Nat, c \in Nat : a + c \in Nat
      BY ONLY SMT
    <3> QED
      BY ONLY <1>1, <3>1, Zenon
  <2>2. s = [i \in 1 .. n |-> m(i) + ValueLength(p[i])]
    BY DEF Sizes
  <2> QED
    BY <2>1, <2>2
<1>4. ASSUME NEW i \in 1 .. n
      PROVE /\ t[i] = TypePart(p[i], named, name[i]) /\ v[i] = ValueBytes(p[i])
            /\ s[i] = m(i) + ValueLength(p[i])
  BY DEF TypeParts, ValueParts, Sizes
<1>5. ASSUME NEW i \in 1 .. n
      PROVE /\ Len(t[i]) \in Nat /\ Len(v[i]) \in Nat /\ Len(t[i]) + Len(v[i]) = 2 + s[i]
            /\ Len(v[i]) = ValueLength(p[i])
  <2>1. Len(t[i]) = 2 + m(i) /\ Len(v[i]) = ValueLength(p[i]) /\ s[i] = m(i) + ValueLength(p[i])
        /\ m(i) \in Nat /\ ValueLength(p[i]) \in Nat
    BY <1>1, <1>4
  <2> HIDE DEF t, v, s, m
  <2> QED
    BY <2>1
<1> HIDE DEF t, v, s, m
<1>6. \A i \in 1 .. n :
         /\ Len(t[i]) \in Nat /\ Len(v[i]) \in Nat /\ Len(t[i]) + Len(v[i]) = 2 + s[i]
         /\ t[i] = TypePart(p[i], named, name[i])
         /\ v[i] = ValueBytes(p[i]) /\ Len(v[i]) = ValueLength(p[i])
  BY ONLY <1>4, <1>5, Zenon
<1>7. PartsAre(n, p, name, named, t, v, s)
  BY ONLY <1>2, <1>3, <1>6, Zenon DEF PartsAre
<1> QED
  BY <1>7 DEF t, v, s

Section(n, p, x, name, named, zone, b, o, q, t, v) ==
    /\ n \in Nat /\ Len(p) = n /\ named \in BOOLEAN /\ Parameters(n, p, x, name, named, zone)
    /\ b \in Seq(Nat) /\ o \in Pos /\ Sits(b, o, WrittenBitmap(p)) /\ q = o + BitmapLength(n) + 1
    /\ t = FlattenSeq(TypeParts(n, p, name, named)) /\ v = FlattenSeq(ValueParts(n, p))
    /\ Sits(b, q, t) /\ Sits(b, q + Len(t), v)

LEMMA ServerReads ==
    ASSUME NEW n, NEW p, NEW x, NEW name, NEW named, NEW zone, NEW b, NEW o, NEW q, NEW t, NEW v,
           Section(n, p, x, name, named, zone, b, o, q, t, v)
    PROVE  ServerParams(b, o, n, named, zone)
             = [list |-> [i \in 1 .. n |-> [name |-> name[i], value |-> x[i]]], o |-> q + Len(t) + Len(v)]
<1> SUFFICES ASSUME n \in Nat, Len(p) = n, named \in BOOLEAN, Parameters(n, p, x, name, named, zone),
                    b \in Seq(Nat), o \in Pos, Sits(b, o, WrittenBitmap(p)), q = o + BitmapLength(n) + 1,
                    t = FlattenSeq(TypeParts(n, p, name, named)), v = FlattenSeq(ValueParts(n, p)),
                    Sits(b, q, t), Sits(b, q + Len(t), v)
             PROVE  ServerParams(b, o, n, named, zone)
                      = [list |-> [i \in 1 .. n |-> [name |-> name[i], value |-> x[i]]],
                         o |-> q + Len(t) + Len(v)]
  BY Zenon DEF Section
<1> DEFINE tp == TypeParts(n, p, name, named)
           vp == ValueParts(n, p)
           sz == Sizes(n, p, name, named)
<1>1. /\ tp \in [1 .. n -> Seq(Nat)] /\ vp \in [1 .. n -> Seq(Nat)] /\ sz \in Seq(Nat) /\ Len(sz) = n
      /\ \A i \in 1 .. n :
            /\ Len(tp[i]) \in Nat /\ Len(vp[i]) \in Nat /\ Len(tp[i]) + Len(vp[i]) = 2 + sz[i]
            /\ tp[i] = TypePart(p[i], named, name[i]) /\ vp[i] = ValueBytes(p[i])
            /\ Len(vp[i]) = ValueLength(p[i])
  <2>1. PartsAre(n, p, name, named, tp, vp, sz)
    BY PartsLengthed
  <2> HIDE DEF tp, vp, sz
  <2> QED
    BY <2>1 DEF PartsAre
<1> HIDE DEF tp, vp, sz
<1>2. PICK et : Laid(tp, n, et)
  BY <1>1, PartsLaid
<1>3. PICK ev : Laid(vp, n, ev)
  BY <1>1, PartsLaid
<1>5. /\ et \in [0 .. n -> Nat] /\ et[0] = 0 /\ \A i \in 1 .. n : et[i] = et[i - 1] + Len(tp[i])
      /\ t \in Seq(Nat) /\ Len(t) = et[n]
      /\ \A c \in Seq(Nat), a \in Pos : Sits(c, a, t) =>
            \A i \in 1 .. n : a + et[i - 1] \in Pos /\ Sits(c, a + et[i - 1], tp[i])
  BY <1>2 DEF Laid, tp
<1>6. /\ ev \in [0 .. n -> Nat] /\ ev[0] = 0 /\ \A i \in 1 .. n : ev[i] = ev[i - 1] + Len(vp[i])
      /\ v \in Seq(Nat) /\ Len(v) = ev[n]
      /\ \A c \in Seq(Nat), a \in Pos : Sits(c, a, v) =>
            \A i \in 1 .. n : a + ev[i - 1] \in Pos /\ Sits(c, a + ev[i - 1], vp[i])
  BY <1>3 DEF Laid, vp
<1>7. q \in Pos /\ q + Len(t) \in Pos
  <2>1. q \in Pos
    BY DEF Sits
  <2>2. q + Len(t) \in Pos
    BY DEF Sits
  <2> QED
    BY <2>1, <2>2
<1>8. /\ \A i \in 1 .. n : q + et[i - 1] \in Pos /\ Sits(b, q + et[i - 1], tp[i])
      /\ \A i \in 1 .. n : q + Len(t) + ev[i - 1] \in Pos /\ Sits(b, q + Len(t) + ev[i - 1], vp[i])
  <2> DEFINE r == q + Len(t)
  <2>1. r \in Pos /\ Sits(b, r, v)
    BY <1>7
  <2> HIDE DEF r
  <2>2. \A i \in 1 .. n : r + ev[i - 1] \in Pos /\ Sits(b, r + ev[i - 1], vp[i])
    BY <1>6, <2>1
  <2>3. \A i \in 1 .. n : q + et[i - 1] \in Pos /\ Sits(b, q + et[i - 1], tp[i])
    BY <1>5, <1>7
  <2> QED
    BY <2>2, <2>3 DEF r
<1> DEFINE e == [i \in 0 .. n |-> q + et[i]]
           d == [i \in 0 .. n |-> q + Len(t) + ev[i]]
<1>9. \A i \in 1 .. n : /\ e[i - 1] \in Pos /\ Sits(b, e[i - 1], TypePart(p[i], named, name[i]))
                        /\ e[i] = e[i - 1] + Len(TypePart(p[i], named, name[i]))
  <2> SUFFICES ASSUME NEW i \in 1 .. n
               PROVE  /\ e[i - 1] \in Pos /\ Sits(b, e[i - 1], tp[i]) /\ e[i] = e[i - 1] + Len(tp[i])
    BY <1>1
  <2>0. i \in 0 .. n /\ i - 1 \in 0 .. n
    OBVIOUS
  <2>1. e[i - 1] = q + et[i - 1] /\ e[i] = q + et[i]
    BY <2>0
  <2>2. et[i] = et[i - 1] + Len(tp[i]) /\ et[i - 1] \in Nat /\ Len(tp[i]) \in Nat /\ q \in Nat
    BY <1>1, <1>5, <1>7, <2>0 DEF Pos
  <2> HIDE DEF e
  <2>3. e[i] = e[i - 1] + Len(tp[i])
    BY ONLY <2>1, <2>2, SMT
  <2> QED
    BY <1>8, <2>1, <2>3
<1>10. \A i \in 1 .. n : /\ d[i - 1] \in Pos /\ Sits(b, d[i - 1], ValueBytes(p[i]))
                         /\ d[i] = d[i - 1] + ValueLength(p[i])
  <2> SUFFICES ASSUME NEW i \in 1 .. n
               PROVE  /\ d[i - 1] \in Pos /\ Sits(b, d[i - 1], vp[i]) /\ d[i] = d[i - 1] + Len(vp[i])
    BY <1>1
  <2> DEFINE r == q + Len(t)
  <2>0. i \in 0 .. n /\ i - 1 \in 0 .. n
    OBVIOUS
  <2>1. d[i - 1] = r + ev[i - 1] /\ d[i] = r + ev[i]
    BY <2>0
  <2>2. ev[i] = ev[i - 1] + Len(vp[i]) /\ ev[i - 1] \in Nat /\ Len(vp[i]) \in Nat /\ r \in Nat
    BY <1>1, <1>6, <1>7, <2>0 DEF Pos
  <2>4. r + ev[i - 1] \in Pos /\ Sits(b, r + ev[i - 1], vp[i])
    BY <1>8
  <2> HIDE DEF d, r
  <2>3. d[i] = d[i - 1] + Len(vp[i])
    BY ONLY <2>1, <2>2, SMT
  <2> QED
    BY <2>1, <2>3, <2>4
<1>11. e[0] = o + BitmapLength(n) + 1 /\ d[0] = e[n] /\ d[n] = q + Len(t) + Len(v)
  <2>1. 0 \in 0 .. n /\ n \in 0 .. n
    OBVIOUS
  <2>2. e[0] = q + et[0] /\ e[n] = q + et[n] /\ d[0] = q + Len(t) + ev[0] /\ d[n] = q + Len(t) + ev[n]
    BY <2>1
  <2> HIDE DEF e, d
  <2>3. q + 0 = q /\ q + Len(t) + 0 = q + Len(t)
    BY <1>7 DEF Pos
  <2> QED
    BY <1>5, <1>6, <2>2, <2>3
<1>12. \A i \in 1 .. n : BitSet(b[o + ((i - 1) \div Bits)], (i - 1) % Bits) <=> p[i].isNull
  <2> DEFINE w == WrittenBitmap(p)
  <2>1. /\ w \in Seq(Nat) /\ Len(w) = BitmapLength(n)
        /\ \A i \in 1 .. n :
              /\ 1 + ((i - 1) \div Bits) \in 1 .. BitmapLength(n)
              /\ BitSet(w[1 + ((i - 1) \div Bits)], (i - 1) % Bits) <=> p[i].isNull
    <3>1. \A i \in 1 .. Len(p) : p[i].isNull \in BOOLEAN
      BY DEF Parameters, Carries
    <3>2. Len(p) \in Nat
      OBVIOUS
    <3> QED
      BY <3>1, <3>2, BitmapIs
  <2>2. Sits(b, o, w)
    OBVIOUS
  <2> HIDE DEF w
  <2> SUFFICES ASSUME NEW i \in 1 .. n PROVE BitSet(b[o + ((i - 1) \div Bits)], (i - 1) % Bits) <=> p[i].isNull
    OBVIOUS
  <2> DEFINE k == (i - 1) \div Bits
  <2>3. k \in Int
    BY DEF Bits
  <2>4. 1 + k \in 1 .. Len(w) /\ (BitSet(w[1 + k], (i - 1) % Bits) <=> p[i].isNull)
    BY <2>1
  <2> HIDE DEF k
  <2>5. o + (1 + k) - 1 = o + k
    BY <2>3 DEF Pos
  <2>6. b[o + (1 + k) - 1] = w[1 + k]
    BY <2>2, <2>4 DEF Sits
  <2>7. b[o + k] = w[1 + k]
    BY <2>5, <2>6
  <2> QED
    BY <2>4, <2>7 DEF k
<1>13. \A i \in 1 .. n : Carries(p[i], zone, x[i]) /\ IsText(name[i]) /\ (~named => name[i] = <<>>)
  BY DEF Parameters
<1> HIDE DEF e, d
<1>14. ServerParams(b, o, n, named, zone)
         = [list |-> [i \in 1 .. n |-> [name |-> name[i], value |-> x[i]]], o |-> d[n]]
  <2>1. Met(n, p, x, name, named, zone, b, o, e, d)
    BY ONLY <1>9, <1>10, <1>11, <1>12, <1>13, Zenon DEF Met
  <2> QED
    BY <2>1, ServerRead
<1> QED
  BY <1>11, <1>14 DEF tp, vp, sz

-----------------------------------------------------------------------------
\* A packet of eight pieces, each where the ones before it end.
Pieces(b, p1, p2, p3, p4, p5, p6, p7, p8) ==
    /\ b \in Seq(Nat)
    /\ Sits(b, 1, p1)
    /\ Sits(b, 1 + Len(p1), p2)
    /\ Sits(b, 1 + (Len(p1) + Len(p2)), p3)
    /\ Sits(b, 1 + (Len(p1) + Len(p2) + Len(p3)), p4)
    /\ Sits(b, 1 + (Len(p1) + Len(p2) + Len(p3) + Len(p4)), p5)
    /\ Sits(b, 1 + (Len(p1) + Len(p2) + Len(p3) + Len(p4) + Len(p5)), p6)
    /\ Sits(b, 1 + (Len(p1) + Len(p2) + Len(p3) + Len(p4) + Len(p5) + Len(p6)), p7)
    /\ Sits(b, 1 + (Len(p1) + Len(p2) + Len(p3) + Len(p4) + Len(p5) + Len(p6) + Len(p7)), p8)
    /\ Len(b) = Len(p1) + Len(p2) + Len(p3) + Len(p4) + Len(p5) + Len(p6) + Len(p7) + Len(p8)

LEMMA EightPieces ==
    ASSUME NEW p1 \in Seq(Nat), NEW p2 \in Seq(Nat), NEW p3 \in Seq(Nat), NEW p4 \in Seq(Nat),
           NEW p5 \in Seq(Nat), NEW p6 \in Seq(Nat), NEW p7 \in Seq(Nat), NEW p8 \in Seq(Nat)
    PROVE  Pieces(p1 \o p2 \o p3 \o p4 \o p5 \o p6 \o p7 \o p8, p1, p2, p3, p4, p5, p6, p7, p8)
<1> DEFINE c2 == p1 \o p2
           c3 == c2 \o p3
           c4 == c3 \o p4
           c5 == c4 \o p5
           c6 == c5 \o p6
           c7 == c6 \o p7
           b == c7 \o p8
<1>1. c2 \in Seq(Nat) /\ Len(c2) = Len(p1) + Len(p2)
  BY ConcatNat
<1>2. c3 \in Seq(Nat) /\ Len(c3) = Len(c2) + Len(p3)
  <2> HIDE DEF c2
  <2> QED
    BY <1>1, ConcatNat
<1>3. c4 \in Seq(Nat) /\ Len(c4) = Len(c3) + Len(p4)
  <2> HIDE DEF c3
  <2> QED
    BY <1>2, ConcatNat
<1>4. c5 \in Seq(Nat) /\ Len(c5) = Len(c4) + Len(p5)
  <2> HIDE DEF c4
  <2> QED
    BY <1>3, ConcatNat
<1>5. c6 \in Seq(Nat) /\ Len(c6) = Len(c5) + Len(p6)
  <2> HIDE DEF c5
  <2> QED
    BY <1>4, ConcatNat
<1>6. c7 \in Seq(Nat) /\ Len(c7) = Len(c6) + Len(p7)
  <2> HIDE DEF c6
  <2> QED
    BY <1>5, ConcatNat
<1>7. b \in Seq(Nat) /\ Len(b) = Len(c7) + Len(p8)
  <2> HIDE DEF c7
  <2> QED
    BY <1>6, ConcatNat
<1>p. 1 \in Pos
  BY DEF Pos
<1>8. Sits(b, 1, c7) /\ Sits(b, 1 + Len(c7), p8)
  <2>1. Sits(b, 1, b)
    <3> HIDE DEF b
    <3> QED
      BY <1>7, SitsWhole
  <2>2. Sits(b, 1, c7 \o p8)
    BY <2>1
  <2>3. Len(b) \in Nat
    <3> HIDE DEF b
    <3> QED
      BY <1>7
  <2> HIDE DEF b, c7
  <2> QED
    BY <1>6, <1>p, <2>2, <2>3, SitsParts
<1>n. Len(b) \in Nat
  <2> HIDE DEF b
  <2> QED
    BY <1>7
<1> HIDE DEF b
<1>9. Sits(b, 1, c6) /\ Sits(b, 1 + Len(c6), p7)
  <2>1. Sits(b, 1, c6 \o p7)
    BY <1>8
  <2> HIDE DEF c6, c7
  <2> QED
    BY <1>5, <1>p, <1>n, <2>1, SitsParts
<1>10. Sits(b, 1, c5) /\ Sits(b, 1 + Len(c5), p6)
  <2>1. Sits(b, 1, c5 \o p6)
    BY <1>9
  <2> HIDE DEF c5, c6, c7
  <2> QED
    BY <1>4, <1>p, <1>n, <2>1, SitsParts
<1>11. Sits(b, 1, c4) /\ Sits(b, 1 + Len(c4), p5)
  <2>1. Sits(b, 1, c4 \o p5)
    BY <1>10
  <2> HIDE DEF c4, c5, c6, c7
  <2> QED
    BY <1>3, <1>p, <1>n, <2>1, SitsParts
<1>12. Sits(b, 1, c3) /\ Sits(b, 1 + Len(c3), p4)
  <2>1. Sits(b, 1, c3 \o p4)
    BY <1>11
  <2> HIDE DEF c3, c4, c5, c6, c7
  <2> QED
    BY <1>2, <1>p, <1>n, <2>1, SitsParts
<1>13. Sits(b, 1, c2) /\ Sits(b, 1 + Len(c2), p3)
  <2>1. Sits(b, 1, c2 \o p3)
    BY <1>12
  <2> HIDE DEF c2, c3, c4, c5, c6, c7
  <2> QED
    BY <1>1, <1>p, <1>n, <2>1, SitsParts
<1>14. Sits(b, 1, p1) /\ Sits(b, 1 + Len(p1), p2)
  <2>1. Sits(b, 1, p1 \o p2)
    BY <1>13
  <2> HIDE DEF c2, c3, c4, c5, c6, c7
  <2> QED
    BY <1>p, <1>n, <2>1, SitsParts
<1> HIDE DEF c2, c3, c4, c5, c6, c7
<1>15. Pieces(b, p1, p2, p3, p4, p5, p6, p7, p8)
  BY ONLY <1>1, <1>2, <1>3, <1>4, <1>5, <1>6, <1>7, <1>8, <1>9, <1>10, <1>11, <1>12, <1>13, <1>14, Zenon
  DEF Pieces
<1> QED
  BY <1>15 DEF b, c2, c3, c4, c5, c6, c7

\* A list is followed by a list.
LEMMA ListsJoined ==
    ASSUME NEW N \in Nat, NEW M \in Nat, NEW s, s = [i \in 1 .. N |-> s[i]], NEW t, t = [i \in 1 .. M |-> t[i]]
    PROVE  /\ Len(s \o t) = N + M /\ DOMAIN (s \o t) = 1 .. N + M
           /\ \A i \in 1 .. N + M : (s \o t)[i] = IF i <= N THEN s[i] ELSE t[i - N]
<1> DEFINE T == {s[i] : i \in 1 .. N} \union {t[i] : i \in 1 .. M}
<1>1. s \in Seq(T) /\ Len(s) = N
  <2>1. s \in [1 .. N -> T]
    OBVIOUS
  <2> HIDE DEF T
  <2> QED
    BY <2>1
<1>2. t \in Seq(T) /\ Len(t) = M
  <2>1. t \in [1 .. M -> T]
    OBVIOUS
  <2> HIDE DEF T
  <2> QED
    BY <2>1
<1> HIDE DEF T
<1>3. /\ s \o t \in Seq(T) /\ Len(s \o t) = Len(s) + Len(t)
      /\ \A i \in 1 .. Len(s) + Len(t) : (s \o t)[i] = IF i <= Len(s) THEN s[i] ELSE t[i - Len(s)]
  BY <1>1, <1>2, ConcatProperties
<1>4. DOMAIN (s \o t) = 1 .. Len(s \o t)
  BY <1>3
<1> QED
  BY <1>1, <1>2, <1>3, <1>4

-----------------------------------------------------------------------------
\* What a request is made from: the parameters of a statement, which have no
\* name, then the attributes.
Attributes(r) == IF r.useAttributes THEN r.attributes ELSE <<>>
Given(r) ==
    (IF r.command = "query" THEN <<>>
     ELSE [i \in DOMAIN r.params |-> [name |-> <<>>, value |-> r.params[i]]]) \o Attributes(r)
Unnamed(r) == IF r.command = "query" THEN 0 ELSE Len(r.params)
Names(r) == [i \in 1 .. Len(Given(r)) |-> Given(r)[i].name]

\* How each of them is encoded.
ZoneOf(r) == IF r.command = "query" THEN "local" ELSE r.timezone
AsString(r, i) == r.jsonAsString /\ ~(r.command = "query") /\ i <= Len(r.params)
HintOf(r, i) == IF i <= Unnamed(r) THEN r.hints[i] ELSE <<>>
EncodedAt(r, i) == toParameter(Given(r)[i].value, ZoneOf(r), AsString(r, i), HintOf(r, i))
ParametersOf(r) == [i \in 1 .. Len(Given(r)) |-> EncodedAt(r, i)[1]]

LEMMA GivenIs ==
    ASSUME NEW r \in Requests
    PROVE  /\ Unnamed(r) \in Nat /\ Len(Attributes(r)) \in Nat /\ Len(Given(r)) = Unnamed(r) + Len(Attributes(r))
           /\ DOMAIN Attributes(r) = 1 .. Len(Attributes(r))
           /\ \A i \in 1 .. Len(Given(r)) :
                 Given(r)[i] = IF i <= Unnamed(r) THEN [name |-> <<>>, value |-> r.params[i]]
                               ELSE Attributes(r)[i - Unnamed(r)]
<1> DEFINE s == IF r.command = "query" THEN <<>>
                ELSE [i \in DOMAIN r.params |-> [name |-> <<>>, value |-> r.params[i]]]
           t == Attributes(r)
           N == Unnamed(r)
           M == Len(Attributes(r))
<1>0. /\ Len(r.params) \in Nat /\ DOMAIN r.params = 1 .. Len(r.params)
      /\ Len(r.attributes) \in Nat /\ DOMAIN r.attributes = 1 .. Len(r.attributes)
      /\ r.attributes = [i \in DOMAIN r.attributes |-> r.attributes[i]]
  BY RequestsAssumption DEF IsList
<1>1. N \in Nat
  BY <1>0 DEF Unnamed
<1>2. s = [i \in 1 .. N |-> s[i]] /\ \A i \in 1 .. N : s[i] = [name |-> <<>>, value |-> r.params[i]]
  <2>1. CASE r.command = "query"
    <3>1. s = <<>> /\ N = 0
      BY <2>1 DEF Unnamed
    <3>2. <<>> = [i \in 1 .. 0 |-> <<>>[i]] /\ 1 .. 0 = {}
      OBVIOUS
    <3> HIDE DEF s, N
    <3> QED
      BY <3>1, <3>2
  <2>2. CASE r.command # "query"
    <3>1. s = [i \in DOMAIN r.params |-> [name |-> <<>>, value |-> r.params[i]]]
      BY <2>2
    <3>2. N = Len(r.params)
      BY <2>2 DEF Unnamed
    <3> HIDE DEF s, N
    <3> QED
      BY <1>0, <3>1, <3>2
  <2> QED
    BY <2>1, <2>2
<1>3. t = [i \in 1 .. M |-> t[i]] /\ M \in Nat /\ DOMAIN t = 1 .. M
  <2>1. CASE r.useAttributes
    BY <1>0, <2>1 DEF Attributes
  <2>2. CASE ~r.useAttributes
    BY <2>2 DEF Attributes
  <2> QED
    BY <2>1, <2>2
<1>4. Given(r) = s \o t
  BY DEF Given
<1> HIDE DEF s, t, N, M
<1>5. Len(s \o t) = N + M /\ \A i \in 1 .. N + M : (s \o t)[i] = IF i <= N THEN s[i] ELSE t[i - N]
  BY <1>1, <1>2, <1>3, ListsJoined
<1>6. \A i \in 1 .. N + M : i <= N => i \in 1 .. N
  BY <1>1, <1>3
<1>7. \A i \in 1 .. N + M : (s \o t)[i] = IF i <= N THEN [name |-> <<>>, value |-> r.params[i]] ELSE t[i - N]
  BY <1>2, <1>5, <1>6
<1> QED
  BY <1>1, <1>3, <1>4, <1>5, <1>7 DEF t, N, M

LEMMA GivenTyped ==
    ASSUME NEW r \in Requests
    PROVE  /\ Len(Given(r)) \in Lengths
           /\ \A i \in 1 .. Len(Given(r)) :
                 /\ IsParameter(Given(r)[i].value) /\ IsHeldParameter(Given(r)[i].value)
                 /\ IsText(Given(r)[i].name) /\ (~r.useAttributes => Given(r)[i].name = <<>>)
<1> DEFINE g == Given(r)
           N == Unnamed(r)
           A == Attributes(r)
           M == Len(A)
           K == Len(r.params)
           J == Len(r.attributes)
<1>0. /\ N \in Nat /\ M \in Nat /\ Len(g) = N + M
      /\ \A i \in 1 .. Len(g) :
            g[i] = IF i <= N THEN [name |-> <<>>, value |-> r.params[i]] ELSE A[i - N]
  BY GivenIs
<1>1. /\ K \in Nat /\ DOMAIN r.params = 1 .. K /\ J \in Nat /\ DOMAIN r.attributes = 1 .. J
  BY RequestsAssumption DEF IsList
<1>2. N <= K
  BY <1>1 DEF Unnamed
<1>3. M <= J /\ (M > 0 => r.useAttributes /\ A = r.attributes)
  <2>1. CASE r.useAttributes
    BY <1>1, <2>1 DEF Attributes
  <2>2. CASE ~r.useAttributes
    BY <1>1, <2>2 DEF Attributes
  <2> QED
    BY <2>1, <2>2
<1>4. K + J < SafeWord * Word
  BY ValuesAssumption
<1> DEFINE W == SafeWord * Word
<1>5. W \in Int
  BY BytePowers DEF SafeWord
<1>6. IsText(<<>>)
  <2>1. 0 < W
    BY BytePowers DEF SafeWord
  <2>2. <<>> \in Seq(Nat) /\ Len(<<>>) = 0
    OBVIOUS
  <2> QED
    BY <2>1, <2>2 DEF IsText
<1>w. K + J < W
  BY <1>4
<1> HIDE DEF g, N, A, M, K, J, W
<1>7. Len(g) \in Nat /\ Len(g) < W
  BY ONLY <1>0, <1>1, <1>2, <1>3, <1>w, <1>5, SMT
<1>8. ASSUME NEW i \in 1 .. Len(g)
      PROVE  /\ IsParameter(g[i].value) /\ IsHeldParameter(g[i].value)
             /\ IsText(g[i].name) /\ (~r.useAttributes => g[i].name = <<>>)
  <2>1. CASE i <= N
    <3>1. i \in 1 .. K
      BY ONLY <1>0, <1>1, <1>2, <2>1, i \in 1 .. Len(g), SMT
    <3>2. IsParameter(r.params[i]) /\ IsHeldParameter(r.params[i])
      BY <1>1, <3>1, RequestsAssumption, ValuesAssumption
    <3>3. g[i] = [name |-> <<>>, value |-> r.params[i]]
      BY <1>0, <2>1
    <3>4. g[i].name = <<>> /\ g[i].value = r.params[i]
      BY <3>3
    <3> QED
      BY ONLY <1>6, <3>2, <3>4, Zenon
  <2>2. CASE ~(i <= N)
    <3>1. i - N \in 1 .. M /\ M > 0 /\ i - N \in 1 .. J
      BY ONLY <1>0, <1>1, <1>3, <2>2, i \in 1 .. Len(g), SMT
    <3>2. r.useAttributes /\ A = r.attributes
      BY <1>3, <3>1
    <3>3. i - N \in DOMAIN r.attributes
      BY <1>1, <3>1
    <3> DEFINE a == r.attributes[i - N]
    <3>4. IsParameter(a.value) /\ IsHeldParameter(a.value) /\ IsText(a.name)
      BY <3>3, RequestsAssumption, ValuesAssumption
    <3>5. g[i] = a
      BY <1>0, <2>2, <3>2
    <3> HIDE DEF a
    <3> QED
      BY ONLY <3>2, <3>4, <3>5, Zenon
  <2> QED
    BY <2>1, <2>2
<1>9. Len(g) \in Lengths
  BY <1>7 DEF Lengths, W
<1> QED
  BY <1>8, <1>9 DEF g

\* What the server is to find for each of them.
Found(r, x) ==
    /\ Parameters(Len(Given(r)), ParametersOf(r), x, Names(r), r.useAttributes, ZoneOf(r))
    /\ \A i \in 1 .. Len(Given(r)) : Conveys(x[i], Given(r)[i].value, AsString(r, i))

LEMMA AllCarried ==
    ASSUME NEW r \in Requests, \A i \in 1 .. Len(Given(r)) : EncodedAt(r, i) # <<>>
    PROVE  \E x : Found(r, x)
<1> DEFINE n == Len(Given(r))
           Carried(i, x) == Conveys(x, Given(r)[i].value, AsString(r, i)) /\ Carries(EncodedAt(r, i)[1], ZoneOf(r), x)
<1>1. ASSUME NEW i \in 1 .. n PROVE \E x : Carried(i, x)
  <2>1. IsParameter(Given(r)[i].value) /\ IsHeldParameter(Given(r)[i].value)
    BY GivenTyped
  <2>2. ZoneOf(r) \in ZoneNames
    BY ValuesAssumption DEF ZoneOf, ZoneNames
  <2>3. AsString(r, i) \in BOOLEAN
    BY DEF AsString
  <2>4. HintOf(r, i) # <<>> => HintOf(r, i)[1].unsigned \in BOOLEAN
    <3> SUFFICES ASSUME i <= Unnamed(r), r.hints[i] # <<>> PROVE r.hints[i][1].unsigned \in BOOLEAN
      BY DEF HintOf
    <3>0. n \in Nat /\ i >= 1 /\ i \in Int
      BY GivenTyped DEF Lengths
    <3>1. r.command = "execute" /\ i <= Len(r.params)
      <4>1. CASE r.command = "query"
        <5>1. Unnamed(r) = 0
          BY <4>1 DEF Unnamed
        <5> HIDE DEF n
        <5> QED
          BY <3>0, <5>1
      <4>2. CASE r.command # "query"
        <5>1. r.command = "execute"
          BY <4>2, RequestsAssumption
        <5>2. Unnamed(r) = Len(r.params)
          BY <4>2 DEF Unnamed
        <5> QED
          BY <5>1, <5>2
      <4> QED
        BY <4>1, <4>2
    <3>2. Len(r.params) \in Nat /\ DOMAIN r.params = 1 .. Len(r.params)
      BY RequestsAssumption DEF IsList
    <3>3. i \in DOMAIN r.params
      <4> HIDE DEF n
      <4> QED
        BY <3>0, <3>1, <3>2
    <3> QED
      BY <3>1, <3>3, ValuesAssumption
  <2> DEFINE v == Given(r)[i].value
             zone == ZoneOf(r)
             json == AsString(r, i)
             hint == HintOf(r, i)
  <2>5. toParameter(v, zone, json, hint) # <<>> /\ EncodedAt(r, i) = toParameter(v, zone, json, hint)
    BY DEF EncodedAt
  <2> HIDE DEF v, zone, json, hint
  <2>6. \E x : Conveys(x, v, json) /\ Carries(toParameter(v, zone, json, hint)[1], zone, x)
    <3>1. /\ IsParameter(v) /\ IsHeldParameter(v) /\ zone \in ZoneNames /\ json \in BOOLEAN
          /\ hint # <<>> => hint[1].unsigned \in BOOLEAN
      BY <2>1, <2>2, <2>3, <2>4 DEF v, zone, json, hint
    <3> QED
      BY ONLY <2>5, <3>1, ParameterCarries
  <2> QED
    BY <2>5, <2>6 DEF v, zone, json
<1> DEFINE x == [i \in 1 .. n |-> CHOOSE y : Carried(i, y)]
<1>2. ASSUME NEW i \in 1 .. n PROVE Carried(i, x[i])
  <2>1. x[i] = CHOOSE y : Carried(i, y)
    OBVIOUS
  <2> HIDE DEF Carried, x
  <2> QED
    BY <1>1, <2>1
<1>3. Parameters(n, ParametersOf(r), x, Names(r), r.useAttributes, ZoneOf(r))
  <2> SUFFICES ASSUME NEW i \in 1 .. n
               PROVE  /\ Carries(ParametersOf(r)[i], ZoneOf(r), x[i]) /\ IsText(Names(r)[i])
                      /\ ~r.useAttributes => Names(r)[i] = <<>>
    BY Zenon DEF Parameters
  <2>1. ParametersOf(r)[i] = EncodedAt(r, i)[1] /\ Names(r)[i] = Given(r)[i].name
    BY DEF ParametersOf, Names
  <2>2. IsText(Given(r)[i].name) /\ (~r.useAttributes => Given(r)[i].name = <<>>)
    BY GivenTyped
  <2>3. Carries(EncodedAt(r, i)[1], ZoneOf(r), x[i])
    BY <1>2
  <2> HIDE DEF x
  <2> QED
    BY <2>1, <2>2, <2>3
<1>4. \A i \in 1 .. n : Conveys(x[i], Given(r)[i].value, AsString(r, i))
  BY <1>2
<1> HIDE DEF x
<1>5. Found(r, x)
  BY <1>3, <1>4, Zenon DEF Found
<1> QED
  BY <1>5

-----------------------------------------------------------------------------
\* What ServerUnderstands says of a request and its packet.
Start(r, b) ==
    (IF r.useAttributes THEN readLengthCodedNumber(b, IF r.command = "query" THEN 2 ELSE 11).o
     ELSE IF r.command = "query" THEN 2 ELSE 11)
    + (IF r.command = "query" /\ r.useAttributes THEN 1 ELSE 0)

Reading(r, b) ==
    IF Len(Given(r)) = 0 THEN [list |-> <<>>, o |-> Start(r, b)]
    ELSE ServerParams(b, Start(r, b), Len(Given(r)), r.useAttributes, ZoneOf(r))

Understands(r, packet) ==
    LET b == packet.bytes
        query == r.command = "query"
    IN /\ b[1] = (IF query THEN QUERY ELSE STMT_EXECUTE)
       /\ r.useAttributes => readLengthCodedNumber(b, IF query THEN 2 ELSE 11).v = Num(Len(Given(r)))
       /\ \A i \in 1 .. Len(Given(r)) :
             /\ Reading(r, b).list[i].name = Given(r)[i].name
             /\ Conveys(Reading(r, b).list[i].value, Given(r)[i].value, AsString(r, i))
       /\ SubSeq(b, Reading(r, b).o, Len(b)) = (IF query THEN r.sql ELSE <<>>)
       /\ ~query => Le(Bytes(b, 2, 4)) = r.id
       /\ Len(b) = packet.length

\* A piece at the end of a packet is what is left of it.
LEMMA SitsLast ==
    ASSUME NEW b \in Seq(Nat), NEW o, NEW s \in Seq(Nat), Sits(b, o, s), Len(b) = o + Len(s) - 1
    PROVE  SubSeq(b, o, Len(b)) = s
<1>1. Bytes(b, o, Len(s)) = s
  BY SitsBytes
<1> QED
  BY <1>1 DEF Bytes

\* What was found is what the reading has.
LEMMA ReadingFound ==
    ASSUME NEW r, Len(Given(r)) \in Nat, NEW x, Found(r, x), NEW b, NEW o,
           Reading(r, b) = [list |-> [i \in 1 .. Len(Given(r)) |-> [name |-> Names(r)[i], value |-> x[i]]],
                            o |-> o]
    PROVE  \A i \in 1 .. Len(Given(r)) :
              /\ Reading(r, b).list[i].name = Given(r)[i].name
              /\ Conveys(Reading(r, b).list[i].value, Given(r)[i].value, AsString(r, i))
<1> SUFFICES ASSUME NEW i \in 1 .. Len(Given(r))
             PROVE  /\ Reading(r, b).list[i].name = Given(r)[i].name
                    /\ Conveys(Reading(r, b).list[i].value, Given(r)[i].value, AsString(r, i))
  OBVIOUS
<1>1. Names(r)[i] = Given(r)[i].name
  BY DEF Names
<1>2. Conveys(x[i], Given(r)[i].value, AsString(r, i))
  BY DEF Found
<1>3. Reading(r, b).list[i] = [name |-> Names(r)[i], value |-> x[i]]
  OBVIOUS
<1>4. Reading(r, b).list[i].name = Names(r)[i] /\ Reading(r, b).list[i].value = x[i]
  BY <1>3
<1> QED
  BY ONLY <1>1, <1>2, <1>4, Zenon

\* COM_QUERY without attributes.
LEMMA PlainUnderstood ==
    ASSUME NEW r \in Requests, r.command = "query", ~r.useAttributes \/ r.attributes = <<>>
    PROVE  Understands(r, PlainQuery(r)[1])
<1> DEFINE b == PlainQuery(r)[1].bytes
           head == IF r.useAttributes THEN <<0, 1>> ELSE <<>>
           p1 == <<QUERY>>
           h == p1 \o head
           w == IF r.useAttributes THEN 3 ELSE 1
<1>0. r.useAttributes \in BOOLEAN /\ r.sql \in Seq(Nat) /\ QUERY = 3
  BY RequestsAssumption, ValuesAssumption DEF QUERY
<1>1. b = h \o r.sql /\ PlainQuery(r)[1].length = w + Len(r.sql)
  BY DEF PlainQuery
<1>2. h \in Seq(Nat) /\ Len(h) = w /\ h[1] = 3 /\ (r.useAttributes => h[2] = 0)
  <2>1. p1 \in Seq(Nat) /\ Len(p1) = 1 /\ p1[1] = 3
    BY <1>0
  <2>2. /\ head \in Seq(Nat) /\ 1 + Len(head) = w /\ Len(head) \in Nat
        /\ r.useAttributes => Len(head) = 2 /\ head[1] = 0
    <3>1. <<0, 1>> \in Seq(Nat) /\ Len(<<0, 1>>) = 2 /\ <<0, 1>>[1] = 0
      OBVIOUS
    <3>2. <<>> \in Seq(Nat) /\ Len(<<>>) = 0
      OBVIOUS
    <3> QED
      BY <1>0, <3>1, <3>2
  <2> HIDE DEF p1, head, w
  <2>3. /\ h \in Seq(Nat) /\ Len(h) = Len(p1) + Len(head)
        /\ \A i \in 1 .. Len(p1) + Len(head) : h[i] = IF i <= Len(p1) THEN p1[i] ELSE head[i - Len(p1)]
    BY <2>1, <2>2, ConcatProperties
  <2>4. h[1] = 3
    BY <2>1, <2>2, <2>3
  <2>5. r.useAttributes => h[2] = 0
    <3>1. r.useAttributes => 2 \in 1 .. Len(p1) + Len(head) /\ ~(2 <= Len(p1)) /\ 2 - Len(p1) = 1
      BY <2>1, <2>2
    <3> QED
      BY <2>2, <2>3, <3>1
  <2> QED
    BY <2>1, <2>2, <2>3, <2>4, <2>5
<1>3. Len(Given(r)) = 0
  <2>1. Unnamed(r) = 0 /\ Len(Attributes(r)) = 0
    BY DEF Unnamed, Attributes
  <2> QED
    BY <2>1, GivenIs
<1>w. w \in {1, 3}
  OBVIOUS
<1>b. b = PlainQuery(r)[1].bytes
  OBVIOUS
<1> HIDE DEF h, b
<1>4. b \in Seq(Nat) /\ Len(b) = w + Len(r.sql) /\ Len(b) \in Nat
  <2>1. b \in Seq(Nat) /\ Len(b) = Len(h) + Len(r.sql)
    BY <1>0, <1>1, <1>2, ConcatNat
  <2>2. Len(b) \in Nat
    BY <2>1
  <2> HIDE DEF w
  <2> QED
    BY ONLY <1>2, <2>1, <2>2, Zenon
<1>5. Sits(b, 1, h) /\ Sits(b, 1 + w, r.sql)
  <2>0. Sits(b, 1, b)
    BY <1>4, SitsWhole
  <2>1. Sits(b, 1, h \o r.sql) /\ 1 \in Pos
    BY <1>1, <2>0 DEF Pos
  <2>2. Len(b) \in Nat
    BY <1>4
  <2>3. Sits(b, 1, h) /\ Sits(b, 1 + Len(h), r.sql)
    BY <1>0, <1>2, <2>1, <2>2, SitsParts
  <2> QED
    BY <1>2, <2>3
<1>6. b[1] = 3 /\ (r.useAttributes => b[2] = 0)
  <2>1. \A k \in 1 .. w : b[1 + k - 1] = h[k]
    BY <1>2, <1>5 DEF Sits
  <2>2. 1 \in 1 .. w /\ (r.useAttributes => 2 \in 1 .. w) /\ 1 + 1 - 1 = 1 /\ 1 + 2 - 1 = 2
    OBVIOUS
  <2> QED
    BY <1>2, <2>1, <2>2
<1>7. r.useAttributes => readLengthCodedNumber(b, 2) = At(Num(0), 3)
  <2> SUFFICES ASSUME r.useAttributes PROVE readLengthCodedNumber(b, 2) = At(Num(0), 3)
    OBVIOUS
  <2>1. Has(b, 2, 1)
    <3>1. Len(r.sql) \in Nat /\ Len(b) = 3 + Len(r.sql)
      BY <1>0, <1>4
    <3> QED
      BY <3>1 DEF Has
  <2>2. b[2] = 0 /\ 0 < NullTag /\ 2 + 1 = 3
    BY <1>6 DEF NullTag
  <2> QED
    BY <2>1, <2>2, Zenon DEF readLengthCodedNumber
<1>8. Start(r, b) = 1 + w
  <2>1. CASE r.useAttributes
    <3>1. readLengthCodedNumber(b, 2).o = 3
      BY <1>7, <2>1 DEF At
    <3>2. Start(r, b) = 3 + 1
      BY <2>1, <3>1 DEF Start
    <3> QED
      BY <2>1, <3>2
  <2>2. CASE ~r.useAttributes
    <3>1. Start(r, b) = 2 + 0
      BY <2>2 DEF Start
    <3> QED
      BY <2>2, <3>1
  <2> QED
    BY <2>1, <2>2
<1>9. Reading(r, b).o = 1 + w
  BY <1>3, <1>8 DEF Reading
<1>10. SubSeq(b, 1 + w, Len(b)) = r.sql
  <2>0. Len(r.sql) \in Nat
    BY <1>0
  <2>1. Len(b) = 1 + w + Len(r.sql) - 1
    <3>1. \A a \in {1, 3}, m \in Nat : \A k : k = a + m => k = 1 + a + m - 1
      BY ONLY SMT
    <3> HIDE DEF w
    <3> QED
      BY ONLY <1>w, <1>4, <2>0, <3>1, Zenon
  <2> DEFINE o == 1 + w
  <2>2. Sits(b, o, r.sql) /\ Len(b) = o + Len(r.sql) - 1
    BY <1>5, <2>1
  <2> HIDE DEF o
  <2> QED
    BY <1>0, <1>4, <2>2, SitsLast DEF o
<1>11. r.useAttributes => readLengthCodedNumber(b, 2).v = Num(0)
  BY <1>7 DEF At
<1>12. \A i \in 1 .. Len(Given(r)) : FALSE
  BY <1>3
<1>13. Len(b) = PlainQuery(r)[1].length
  BY <1>1, <1>4
<1> DEFINE packet == PlainQuery(r)[1]
<1>15. packet.bytes = b /\ packet.length = Len(b)
  BY <1>13, <1>b
<1> HIDE DEF packet
<1>16. Understands(r, packet)
  BY ONLY r.command = "query", <1>0, <1>3, <1>6, <1>9, <1>10, <1>11, <1>12, <1>15, Zenon DEF Understands
<1> QED
  BY <1>16 DEF packet

-----------------------------------------------------------------------------
\* The types and the values of a request.
TypeBytes(r) == FlattenSeq(TypeParts(Len(Given(r)), ParametersOf(r), Names(r), r.useAttributes))
DataBytes(r) == FlattenSeq(ValueParts(Len(Given(r)), ParametersOf(r)))
SizesOf(r) == Sizes(Len(Given(r)), ParametersOf(r), Names(r), r.useAttributes)

LEMMA SectionTyped ==
    ASSUME NEW r \in Requests, NEW x, Found(r, x)
    PROVE  /\ Len(Given(r)) \in Nat /\ Len(ParametersOf(r)) = Len(Given(r))
           /\ WrittenBitmap(ParametersOf(r)) \in Seq(Nat)
           /\ Len(WrittenBitmap(ParametersOf(r))) = BitmapLength(Len(Given(r)))
           /\ BitmapLength(Len(Given(r))) \in Nat
           /\ TypeBytes(r) \in Seq(Nat) /\ DataBytes(r) \in Seq(Nat)
           /\ Len(TypeBytes(r)) \in Nat /\ Len(DataBytes(r)) \in Nat /\ Total(SizesOf(r)) \in Nat
           /\ Len(Given(r)) * 2 + Total(SizesOf(r)) = Len(TypeBytes(r)) + Len(DataBytes(r))
           /\ Len(Given(r)) = 0 => Len(TypeBytes(r)) = 0 /\ Len(DataBytes(r)) = 0
<1> DEFINE n == Len(Given(r))
           p == ParametersOf(r)
           name == Names(r)
           named == r.useAttributes
           zone == ZoneOf(r)
           tp == TypeParts(n, p, name, named)
           vp == ValueParts(n, p)
           sz == Sizes(n, p, name, named)
<1>1. n \in Nat
  BY GivenTyped DEF Lengths
<1>2. Len(p) = n
  BY <1>1 DEF ParametersOf
<1>3. named \in BOOLEAN
  BY RequestsAssumption
<1>4. Parameters(n, p, x, name, named, zone)
  BY DEF Found
<1>5. TypeBytes(r) = FlattenSeq(tp) /\ DataBytes(r) = FlattenSeq(vp) /\ SizesOf(r) = sz
  BY DEF TypeBytes, DataBytes, SizesOf
<1> HIDE DEF n, p, name, named, zone
<1>6. \A i \in 1 .. Len(p) : p[i].isNull \in BOOLEAN
  BY <1>2, <1>4 DEF Parameters, Carries
<1>7. WrittenBitmap(p) \in Seq(Nat) /\ Len(WrittenBitmap(p)) = BitmapLength(n) /\ BitmapLength(n) \in Nat
  BY <1>1, <1>2, <1>6, BitmapIs
<1>8. PartsAre(n, p, name, named, tp, vp, sz)
  BY <1>1, <1>3, <1>4, PartsLengthed
<1> HIDE DEF tp, vp, sz
<1>9. /\ tp \in [1 .. n -> Seq(Nat)] /\ vp \in [1 .. n -> Seq(Nat)] /\ sz \in Seq(Nat) /\ Len(sz) = n
      /\ \A i \in 1 .. n : Len(tp[i]) \in Nat /\ Len(vp[i]) \in Nat /\ Len(tp[i]) + Len(vp[i]) = 2 + sz[i]
  BY <1>8 DEF PartsAre
<1>10. PICK et : Laid(tp, n, et)
  BY <1>1, <1>9, PartsLaid
<1>11. PICK ev : Laid(vp, n, ev)
  BY <1>1, <1>9, PartsLaid
<1>12. n * 2 + Total(sz) = Len(FlattenSeq(tp)) + Len(FlattenSeq(vp))
  BY ONLY <1>1, <1>9, <1>10, <1>11, LengthsAdd
<1>13. FlattenSeq(tp) \in Seq(Nat) /\ FlattenSeq(vp) \in Seq(Nat)
  BY <1>10, <1>11 DEF Laid
<1>14. Len(FlattenSeq(tp)) \in Nat /\ Len(FlattenSeq(vp)) \in Nat
  BY <1>13
<1>15. Total(sz) \in Nat
  <2>1. PICK e \in [0 .. n -> Nat] : e[0] = 0 /\ \A i \in 1 .. n : e[i] = e[i - 1] + sz[i]
    BY <1>9, EndsExist
  <2>2. Total(sz) = e[n]
    BY <1>9, <2>1, TotalIs
  <2> QED
    BY <1>1, <2>1, <2>2
<1>16. n = 0 => Len(FlattenSeq(tp)) = 0 /\ Len(FlattenSeq(vp)) = 0
  BY <1>10, <1>11 DEF Laid
<1> QED
  BY <1>1, <1>2, <1>5, <1>7, <1>12, <1>13, <1>14, <1>15, <1>16 DEF n, p

LEMMA SectionRead ==
    ASSUME NEW r \in Requests, NEW x, Found(r, x), Len(Given(r)) # 0, NEW b \in Seq(Nat), NEW o \in Pos,
           Start(r, b) = o, Sits(b, o, WrittenBitmap(ParametersOf(r))),
           NEW q, q = o + BitmapLength(Len(Given(r))) + 1,
           Sits(b, q, TypeBytes(r)), Sits(b, q + Len(TypeBytes(r)), DataBytes(r))
    PROVE  Reading(r, b) = [list |-> [i \in 1 .. Len(Given(r)) |-> [name |-> Names(r)[i], value |-> x[i]]],
                            o |-> q + Len(TypeBytes(r)) + Len(DataBytes(r))]
<1> DEFINE n == Len(Given(r))
           p == ParametersOf(r)
           name == Names(r)
           named == r.useAttributes
           zone == ZoneOf(r)
           t == TypeBytes(r)
           v == DataBytes(r)
<1>1. n \in Nat /\ Len(p) = n
  BY SectionTyped
<1>2. named \in BOOLEAN
  BY RequestsAssumption
<1>3. Parameters(n, p, x, name, named, zone)
  BY DEF Found
<1>4. t = FlattenSeq(TypeParts(n, p, name, named)) /\ v = FlattenSeq(ValueParts(n, p))
  BY DEF TypeBytes, DataBytes
<1>5. Sits(b, o, WrittenBitmap(p)) /\ Sits(b, q, t) /\ Sits(b, q + Len(t), v) /\ q = o + BitmapLength(n) + 1
  OBVIOUS
<1>6. Reading(r, b) = ServerParams(b, o, n, named, zone)
  BY DEF Reading
<1> HIDE DEF n, p, name, named, zone, t, v
<1>7. ServerParams(b, o, n, named, zone)
        = [list |-> [i \in 1 .. n |-> [name |-> name[i], value |-> x[i]]], o |-> q + Len(t) + Len(v)]
  <2>1. b \in Seq(Nat) /\ o \in Pos
    OBVIOUS
  <2>2. Section(n, p, x, name, named, zone, b, o, q, t, v)
    BY ONLY <1>1, <1>2, <1>3, <1>4, <1>5, <2>1, Zenon DEF Section
  <2> QED
    BY ONLY <2>2, ServerReads
<1> QED
  BY <1>6, <1>7 DEF n, name, t, v

\* The parameters of a packet are those that were encoded.
LEMMA QueryMade ==
    ASSUME NEW r \in Requests, r.command = "query", r.useAttributes, r.attributes # <<>>,
           queryToPacket(r) # <<>>
    PROVE  /\ queryToPacket(r) = QueryPacket(r, ParametersOf(r))
           /\ \A i \in 1 .. Len(Given(r)) : EncodedAt(r, i) # <<>> /\ Names(r)[i] = r.attributes[i].name
<1> DEFINE n == Len(Given(r))
           encoded == [i \in DOMAIN r.attributes |-> toParameter(r.attributes[i].value, "local", FALSE, <<>>)]
<1>1. /\ Unnamed(r) = 0 /\ Attributes(r) = r.attributes /\ ZoneOf(r) = "local"
      /\ \A i : (AsString(r, i) <=> FALSE)
  BY DEF Unnamed, Attributes, ZoneOf, AsString
<1>2. /\ n = 0 + Len(r.attributes) /\ Len(r.attributes) \in Nat /\ DOMAIN r.attributes = 1 .. Len(r.attributes)
      /\ \A i \in 1 .. n : Given(r)[i] = IF i <= 0 THEN [name |-> <<>>, value |-> r.params[i]]
                                         ELSE r.attributes[i - 0]
  BY <1>1, GivenIs
<1>3. n \in Nat /\ n = Len(r.attributes) /\ DOMAIN r.attributes = 1 .. n
  <2> HIDE DEF n
  <2> QED
    BY <1>2
<1>4. \A i \in 1 .. n : Given(r)[i] = r.attributes[i] /\ HintOf(r, i) = <<>>
  <2> SUFFICES ASSUME NEW i \in 1 .. n PROVE Given(r)[i] = r.attributes[i] /\ HintOf(r, i) = <<>>
    OBVIOUS
  <2>1. ~(i <= 0) /\ i - 0 = i
    <3> HIDE DEF n
    <3> QED
      BY <1>3
  <2> QED
    BY <1>1, <1>2, <2>1 DEF HintOf
<1>5. \A i \in 1 .. n : EncodedAt(r, i) = toParameter(r.attributes[i].value, "local", FALSE, <<>>)
  <2> SUFFICES ASSUME NEW i \in 1 .. n
               PROVE  EncodedAt(r, i) = toParameter(r.attributes[i].value, "local", FALSE, <<>>)
    OBVIOUS
  <2>1. AsString(r, i) = FALSE
    BY DEF AsString
  <2> QED
    BY <1>1, <1>4, <2>1 DEF EncodedAt
<1>6. queryToPacket(r) = IF \E i \in DOMAIN encoded : encoded[i] = <<>> THEN <<>>
                         ELSE QueryPacket(r, [i \in DOMAIN encoded |-> encoded[i][1]])
  BY DEF queryToPacket, AllEncoded
<1>7. DOMAIN encoded = 1 .. n /\ \A i \in 1 .. n : encoded[i] = EncodedAt(r, i)
  BY <1>3, <1>5
<1> HIDE DEF encoded
<1>8. [i \in DOMAIN encoded |-> encoded[i][1]] = ParametersOf(r)
  <2> HIDE DEF n
  <2>1. ParametersOf(r) = [i \in 1 .. n |-> EncodedAt(r, i)[1]]
    BY DEF ParametersOf, n
  <2> QED
    BY <1>7, <2>1
<1>9. \A i \in 1 .. n : EncodedAt(r, i) # <<>>
  BY <1>6, <1>7
<1>10. \A i \in 1 .. n : Names(r)[i] = r.attributes[i].name
  BY <1>4 DEF Names
<1> QED
  BY <1>6, <1>7, <1>8, <1>9, <1>10

\* The pieces of COM_QUERY with attributes.
LEMMA QueryBytes ==
    ASSUME NEW r, NEW n, n = Len(Given(r)), NEW p, p = ParametersOf(r), Len(p) = n, r.useAttributes,
           \A i \in 1 .. n : Names(r)[i] = r.attributes[i].name
    PROVE  /\ QueryPacket(r, p)[1].bytes
                = <<QUERY>> \o writeLengthCodedNumber(n) \o writeLengthCodedNumber(1) \o WrittenBitmap(p) \o <<1>>
                  \o TypeBytes(r) \o DataBytes(r) \o r.sql
           /\ QueryPacket(r, p)[1].length
                = 1 + lengthCodedNumberLength(n) + 1 + BitmapLength(n) + 1 + n * 2 + Total(SizesOf(r)) + Len(r.sql)
<1> DEFINE T == [i \in 1 .. n |-> <<TypeCode[p[i].type], Unsigned0x80(p[i])>>
                                  \o writeLengthCodedBuffer(r.attributes[i].name)]
           V == [i \in 1 .. n |-> ValueBytes(p[i])]
           S == [i \in 1 .. n |-> lengthCodedStringLength(r.attributes[i].name) + ValueLength(p[i])]
<1>1. T = TypeParts(n, p, Names(r), r.useAttributes)
  BY DEF TypeParts, TypePart, NamePart
<1>2. V = ValueParts(n, p)
  BY DEF ValueParts
<1>3. S = Sizes(n, p, Names(r), r.useAttributes)
  BY DEF Sizes
<1>4. /\ QueryPacket(r, p)[1].bytes
           = <<QUERY>> \o writeLengthCodedNumber(n) \o writeLengthCodedNumber(1) \o WrittenBitmap(p) \o <<1>>
             \o FlattenSeq(T) \o FlattenSeq(V) \o r.sql
      /\ QueryPacket(r, p)[1].length
           = 1 + lengthCodedNumberLength(n) + 1 + BitmapLength(n) + 1 + n * 2 + Total(S) + Len(r.sql)
  BY Zenon DEF QueryPacket, Joined
<1> HIDE DEF T, V, S
<1> QED
  BY <1>1, <1>2, <1>3, <1>4 DEF TypeBytes, DataBytes, SizesOf

LEMMA OneWritten == writeLengthCodedNumber(1) \in Seq(Nat) /\ Len(writeLengthCodedNumber(1)) = 1
<1>1. ToLe(1, 1) \in Seq(Nat) /\ Len(ToLe(1, 1)) = 1
  BY ToLeTyped
<1>2. 1 < NullTag
  BY DEF NullTag
<1> QED
  BY <1>1, <1>2, Zenon DEF writeLengthCodedNumber

LEMMA QueryUnderstood ==
    ASSUME NEW r \in Requests, r.command = "query", r.useAttributes, r.attributes # <<>>,
           queryToPacket(r) # <<>>
    PROVE  Understands(r, queryToPacket(r)[1])
<1> DEFINE n == Len(Given(r))
           p == ParametersOf(r)
           packet == queryToPacket(r)[1]
           b == packet.bytes
           k == lengthCodedNumberLength(n)
           m == BitmapLength(n)
           p1 == <<QUERY>>
           p2 == writeLengthCodedNumber(n)
           p3 == writeLengthCodedNumber(1)
           p4 == WrittenBitmap(p)
           p5 == <<1>>
           t == TypeBytes(r)
           v == DataBytes(r)
<1>0. r.sql \in Seq(Nat) /\ Len(r.sql) \in Nat /\ QUERY = 3
  <2>1. r.sql \in Seq(Nat)
    BY ValuesAssumption
  <2> QED
    BY ONLY <2>1 DEF QUERY
<1>1. /\ queryToPacket(r) = QueryPacket(r, p)
      /\ \A i \in 1 .. n : EncodedAt(r, i) # <<>> /\ Names(r)[i] = r.attributes[i].name
  BY QueryMade
<1>2. PICK x : Found(r, x)
  BY <1>1, AllCarried
<1>3. /\ n \in Nat /\ Len(p) = n /\ p4 \in Seq(Nat) /\ Len(p4) = m /\ m \in Nat
      /\ t \in Seq(Nat) /\ v \in Seq(Nat) /\ Len(t) \in Nat /\ Len(v) \in Nat
      /\ n * 2 + Total(SizesOf(r)) = Len(t) + Len(v) /\ Total(SizesOf(r)) \in Nat
  BY <1>2, SectionTyped
<1>4. /\ b = p1 \o p2 \o p3 \o p4 \o p5 \o t \o v \o r.sql
      /\ packet.length = 1 + k + 1 + m + 1 + n * 2 + Total(SizesOf(r)) + Len(r.sql)
  <2>1. \A i \in 1 .. n : Names(r)[i] = r.attributes[i].name
    BY <1>1
  <2>2. Len(p) = n
    BY <1>3
  <2>3. /\ QueryPacket(r, p)[1].bytes = p1 \o p2 \o p3 \o p4 \o p5 \o t \o v \o r.sql
        /\ QueryPacket(r, p)[1].length = 1 + k + 1 + m + 1 + n * 2 + Total(SizesOf(r)) + Len(r.sql)
    BY <2>1, <2>2, QueryBytes
  <2> QED
    BY <1>1, <2>3
<1>5. n \in Lengths
  BY GivenTyped
<1>6. p2 \in Seq(Nat) /\ Len(p2) = k /\ k \in Nat
  BY <1>3, NumberWritten
<1>7. p3 \in Seq(Nat) /\ Len(p3) = 1
  BY OneWritten
<1>8. p1 \in Seq(Nat) /\ Len(p1) = 1 /\ p1[1] = 3 /\ p5 \in Seq(Nat) /\ Len(p5) = 1
  BY <1>0
<1>9. n # 0
  <2>1. Unnamed(r) = 0 /\ Attributes(r) = r.attributes
    BY DEF Unnamed, Attributes
  <2>2. n = 0 + Len(r.attributes) /\ Len(r.attributes) \in Nat
    BY <2>1, GivenIs
  <2>3. r.attributes = [i \in DOMAIN r.attributes |-> r.attributes[i]] /\ DOMAIN r.attributes = 1 .. Len(r.attributes)
    BY RequestsAssumption DEF IsList
  <2>4. Len(r.attributes) # 0
    <3> SUFFICES ASSUME Len(r.attributes) = 0 PROVE FALSE
      OBVIOUS
    <3>1. DOMAIN r.attributes = 1 .. 0 /\ 1 .. 0 = {}
      BY <2>3
    <3>2. r.attributes = [i \in 1 .. 0 |-> r.attributes[i]]
      BY <2>3, <3>1
    <3>3. [i \in 1 .. 0 |-> r.attributes[i]] = <<>>
      OBVIOUS
    <3> QED
      BY <3>2, <3>3
  <2> HIDE DEF n
  <2> QED
    BY <2>2, <2>4
<1>s. Start(r, b) = readLengthCodedNumber(b, 2).o + 1
  BY DEF Start
<1>r. /\ packet.bytes = b /\ n = Len(Given(r)) /\ r.command = "query" /\ r.useAttributes
  OBVIOUS
<1> HIDE DEF n, p, packet, b, k, m, p1, p2, p3, p4, p5, t, v
<1> DEFINE s == r.sql
           q == 3 + k + m + 1
           u == q + Len(t)
           z == u + Len(v)
<1>10. /\ b \in Seq(Nat) /\ Sits(b, 1, p1) /\ Sits(b, 2, p2) /\ Sits(b, 3 + k, p4)
       /\ Sits(b, q, t) /\ Sits(b, u, v) /\ Sits(b, z, s) /\ Len(b) = z + Len(s) - 1
       /\ 2 + k + 1 = 3 + k /\ packet.length = z + Len(s) - 1 /\ 3 + k \in Pos /\ 2 \in Pos
       /\ z = q + Len(t) + Len(v)
  <2>0. s \in Seq(Nat) /\ Len(s) \in Nat
    BY <1>0
  <2> HIDE DEF s
  <2>1. Pieces(b, p1, p2, p3, p4, p5, t, v, s)
    <3>1. b = p1 \o p2 \o p3 \o p4 \o p5 \o t \o v \o s
      BY <1>4 DEF s
    <3>2. Pieces(p1 \o p2 \o p3 \o p4 \o p5 \o t \o v \o s, p1, p2, p3, p4, p5, t, v, s)
      BY ONLY <1>3, <1>6, <1>7, <1>8, <2>0, EightPieces
    <3> QED
      BY ONLY <3>1, <3>2
  <2>2. /\ b \in Seq(Nat) /\ Sits(b, 1, p1) /\ Sits(b, 1 + Len(p1), p2)
        /\ Sits(b, 1 + (Len(p1) + Len(p2) + Len(p3)), p4)
        /\ Sits(b, 1 + (Len(p1) + Len(p2) + Len(p3) + Len(p4) + Len(p5)), t)
        /\ Sits(b, 1 + (Len(p1) + Len(p2) + Len(p3) + Len(p4) + Len(p5) + Len(t)), v)
        /\ Sits(b, 1 + (Len(p1) + Len(p2) + Len(p3) + Len(p4) + Len(p5) + Len(t) + Len(v)), s)
        /\ Len(b) = Len(p1) + Len(p2) + Len(p3) + Len(p4) + Len(p5) + Len(t) + Len(v) + Len(s)
    BY ONLY <2>1, Zenon DEF Pieces
  <2> DEFINE lt == Len(t)
             lv == Len(v)
             ls == Len(s)
             total == Total(SizesOf(r))
  <2>4. /\ 1 + Len(p1) = 2 /\ 1 + (Len(p1) + Len(p2) + Len(p3)) = 3 + k
        /\ 1 + (Len(p1) + Len(p2) + Len(p3) + Len(p4) + Len(p5)) = q
        /\ 1 + (Len(p1) + Len(p2) + Len(p3) + Len(p4) + Len(p5) + Len(t)) = u
        /\ 1 + (Len(p1) + Len(p2) + Len(p3) + Len(p4) + Len(p5) + Len(t) + Len(v)) = z
        /\ Len(p1) + Len(p2) + Len(p3) + Len(p4) + Len(p5) + Len(t) + Len(v) + Len(s) = z + Len(s) - 1
    <3> DEFINE l1 == Len(p1)
               l2 == Len(p2)
               l3 == Len(p3)
               l4 == Len(p4)
               l5 == Len(p5)
    <3>1. /\ l1 = 1 /\ l2 = k /\ l3 = 1 /\ l4 = m /\ l5 = 1 /\ k \in Nat /\ m \in Nat
          /\ lt \in Nat /\ lv \in Nat /\ ls \in Nat
      BY <1>3, <1>6, <1>7, <1>8, <2>0
    <3> HIDE DEF l1, l2, l3, l4, l5, lt, lv, ls
    <3>2. /\ 1 + l1 = 2 /\ 1 + (l1 + l2 + l3) = 3 + k
          /\ 1 + (l1 + l2 + l3 + l4 + l5) = 3 + k + m + 1
          /\ 1 + (l1 + l2 + l3 + l4 + l5 + lt) = 3 + k + m + 1 + lt
          /\ 1 + (l1 + l2 + l3 + l4 + l5 + lt + lv) = 3 + k + m + 1 + lt + lv
          /\ l1 + l2 + l3 + l4 + l5 + lt + lv + ls = 3 + k + m + 1 + lt + lv + ls - 1
      BY ONLY <3>1, SMT
    <3> QED
      BY ONLY <3>2 DEF l1, l2, l3, l4, l5, lt, lv, ls, q, u, z
  <2>5. 2 + k + 1 = 3 + k /\ 3 + k \in Pos /\ 2 \in Pos
    BY <1>6 DEF Pos
  <2>6. packet.length = z + Len(s) - 1
    <3>1. /\ n * 2 + total = lt + lv /\ packet.length = 1 + k + 1 + m + 1 + n * 2 + total + ls
          /\ n \in Nat /\ lt \in Nat /\ lv \in Nat /\ ls \in Nat /\ k \in Nat /\ m \in Nat
      BY <1>3, <1>4, <1>6, <2>0 DEF s
    <3>2. total \in Nat
      BY <1>3
    <3> DEFINE l == packet.length
    <3>3. l = 1 + k + 1 + m + 1 + n * 2 + total + ls
      BY <3>1
    <3> HIDE DEF lt, lv, ls, total, l
    <3>4. l = 3 + k + m + 1 + lt + lv + ls - 1
      BY ONLY <3>1, <3>2, <3>3, SMT
    <3> QED
      BY <3>4 DEF l, lt, lv, ls
  <2> HIDE DEF q, u, z
  <2>7. Sits(b, 2, p2) /\ Sits(b, 3 + k, p4) /\ Sits(b, q, t) /\ Sits(b, u, v) /\ Sits(b, z, s)
        /\ Len(b) = z + Len(s) - 1
    BY ONLY <2>2, <2>4, Zenon
  <2>8. z = q + Len(t) + Len(v)
    BY DEF z, u
  <2> QED
    BY ONLY <2>2, <2>5, <2>6, <2>7, <2>8, Zenon
<1>11. readLengthCodedNumber(b, 2) = At(Num(n), 2 + k)
  <2>1. Sits(b, 2, writeLengthCodedNumber(n))
    BY <1>10 DEF p2
  <2> QED
    BY <1>5, <1>10, <2>1, NumberRead DEF k
<1>12. readLengthCodedNumber(b, 2).o = 2 + k /\ readLengthCodedNumber(b, 2).v = Num(n)
  BY <1>11 DEF At
<1> DEFINE o == 3 + k
<1>13. Start(r, b) = o /\ o \in Pos /\ q = o + m + 1
  BY <1>s, <1>10, <1>12
<1>14. Reading(r, b) = [list |-> [i \in 1 .. n |-> [name |-> Names(r)[i], value |-> x[i]]], o |-> z]
  <2>1. /\ Sits(b, o, WrittenBitmap(ParametersOf(r))) /\ q = o + BitmapLength(Len(Given(r))) + 1
        /\ Sits(b, q, TypeBytes(r)) /\ Sits(b, q + Len(TypeBytes(r)), DataBytes(r)) /\ Len(Given(r)) # 0
    BY <1>9, <1>10, <1>13 DEF p4, p, m, n, t, v, u
  <2>2. z = q + Len(TypeBytes(r)) + Len(DataBytes(r))
    BY <1>10 DEF t, v
  <2>3. b \in Seq(Nat) /\ o \in Pos /\ Start(r, b) = o
    BY <1>10, <1>13
  <2> HIDE DEF o, q, z
  <2>4. Reading(r, b) = [list |-> [i \in 1 .. Len(Given(r)) |-> [name |-> Names(r)[i], value |-> x[i]]],
                         o |-> q + Len(TypeBytes(r)) + Len(DataBytes(r))]
    BY <1>2, <2>1, <2>3, SectionRead
  <2> QED
    BY ONLY <2>2, <2>4 DEF n
<1> HIDE DEF q, u, z, o
<1>15. \A i \in 1 .. n :
          /\ Reading(r, b).list[i].name = Given(r)[i].name
          /\ Conveys(Reading(r, b).list[i].value, Given(r)[i].value, AsString(r, i))
  <2>1. Len(Given(r)) \in Nat
    BY <1>3 DEF n
  <2> QED
    BY <1>2, <1>14, <2>1, ReadingFound DEF n
<1>16. Reading(r, b).o = z
  BY <1>14
<1>17. SubSeq(b, z, Len(b)) = s
  <2>1. s \in Seq(Nat)
    BY <1>0
  <2> HIDE DEF s
  <2> QED
    BY <1>10, <2>1, SitsLast
<1>18. b[1] = 3
  <2>1. 1 \in 1 .. Len(p1) /\ 1 + 1 - 1 = 1
    BY <1>8
  <2>2. b[1 + 1 - 1] = p1[1]
    BY <1>10, <2>1 DEF Sits
  <2> QED
    BY <1>8, <2>1, <2>2
<1>19. Len(b) = packet.length
  BY <1>10
<1>20. Understands(r, packet)
  <2>1. /\ packet.bytes = b /\ n = Len(Given(r)) /\ r.command = "query" /\ r.useAttributes
        /\ QUERY = 3 /\ s = r.sql
    BY <1>r, <1>0
  <2> HIDE DEF s
  <2> QED
    BY ONLY <2>1, <1>12, <1>15, <1>16, <1>17, <1>18, <1>19, Zenon DEF Understands
<1> QED
  BY <1>20 DEF packet

\* The same for COM_STMT_EXECUTE.
LEMMA ExecuteMade ==
    ASSUME NEW r \in Requests, r.command # "query", executeToPacket(r) # <<>>
    PROVE  /\ executeToPacket(r) = ExecutePacket(r, ParametersOf(r))
           /\ \A i \in 1 .. Len(Given(r)) : EncodedAt(r, i) # <<>>
<1> DEFINE n == Len(Given(r))
           N == Len(r.params)
           M == Len(Attributes(r))
           s == [i \in DOMAIN r.params |-> toParameter(r.params[i], r.timezone, r.jsonAsString, r.hints[i])]
           t == IF ~r.useAttributes THEN <<>>
                ELSE [i \in DOMAIN r.attributes |-> toParameter(r.attributes[i].value, r.timezone, FALSE, <<>>)]
           encoded == s \o t
<1>0. /\ r.useAttributes \in BOOLEAN /\ N \in Nat /\ DOMAIN r.params = 1 .. N
  BY RequestsAssumption DEF IsList
<1>1. Unnamed(r) = N /\ ZoneOf(r) = r.timezone
  BY DEF Unnamed, ZoneOf
<1>2. /\ n = N + M /\ M \in Nat /\ DOMAIN Attributes(r) = 1 .. M
      /\ \A i \in 1 .. n : Given(r)[i] = IF i <= N THEN [name |-> <<>>, value |-> r.params[i]]
                                         ELSE Attributes(r)[i - N]
  BY <1>1, GivenIs
<1>3. s = [i \in 1 .. N |-> s[i]]
  BY <1>0
<1>4. t = [i \in 1 .. M |-> t[i]] /\ \A i \in 1 .. M :
          t[i] = toParameter(Attributes(r)[i].value, r.timezone, FALSE, <<>>)
  <2>1. CASE r.useAttributes
    BY <1>2, <2>1 DEF Attributes
  <2>2. CASE ~r.useAttributes
    <3>1. M = 0 /\ t = <<>>
      BY <2>2 DEF Attributes
    <3>2. <<>> = [i \in 1 .. 0 |-> <<>>[i]] /\ 1 .. 0 = {}
      OBVIOUS
    <3> HIDE DEF t, M
    <3> QED
      BY <3>1, <3>2
  <2> QED
    BY <1>0, <2>1, <2>2
<1>s. \A i \in 1 .. N : s[i] = toParameter(r.params[i], r.timezone, r.jsonAsString, r.hints[i])
  BY <1>0
<1>5. executeToPacket(r) = IF \E i \in DOMAIN encoded : encoded[i] = <<>> THEN <<>>
                           ELSE ExecutePacket(r, [i \in DOMAIN encoded |-> encoded[i][1]])
  BY DEF executeToPacket, AllEncoded
<1>m. n = Len(Given(r))
  OBVIOUS
<1>x. N = Len(r.params)
  OBVIOUS
<1> HIDE DEF s, t, M, N, n
<1>6. /\ DOMAIN (s \o t) = 1 .. N + M /\ \A i \in 1 .. N + M : (s \o t)[i] = IF i <= N THEN s[i] ELSE t[i - N]
  BY <1>0, <1>2, <1>3, <1>4, ListsJoined
<1>7. DOMAIN encoded = 1 .. n /\ \A i \in 1 .. n : encoded[i] = EncodedAt(r, i)
  <2>1. ASSUME NEW i \in 1 .. n PROVE encoded[i] = EncodedAt(r, i)
    <3>1. EncodedAt(r, i) = toParameter(Given(r)[i].value, r.timezone, AsString(r, i), HintOf(r, i))
      BY <1>1 DEF EncodedAt
    <3>0. encoded[i] = IF i <= N THEN s[i] ELSE t[i - N]
      BY <1>2, <1>6
    <3>2. CASE i <= N
      <4>1. i \in 1 .. N
        BY <1>0, <1>2, <3>2
      <4>2. encoded[i] = toParameter(r.params[i], r.timezone, r.jsonAsString, r.hints[i])
        BY <1>s, <3>0, <3>2, <4>1
      <4>3. Given(r)[i] = [name |-> <<>>, value |-> r.params[i]]
        BY <1>2, <3>2
      <4>4. Given(r)[i].value = r.params[i]
        BY <4>3
      <4>5. AsString(r, i) = r.jsonAsString
        <5>1. r.jsonAsString \in BOOLEAN
          BY ValuesAssumption
        <5>2. AsString(r, i) <=> r.jsonAsString
          BY <1>x, <3>2 DEF AsString
        <5>3. AsString(r, i) \in BOOLEAN
          BY DEF AsString
        <5> QED
          BY <5>1, <5>2, <5>3
      <4>6. HintOf(r, i) = r.hints[i]
        BY <1>1, <3>2 DEF HintOf
      <4> QED
        BY ONLY <3>1, <4>2, <4>4, <4>5, <4>6, Zenon
    <3>3. CASE ~(i <= N)
      <4>1. i - N \in 1 .. M
        BY <1>0, <1>2, <3>3
      <4>2. encoded[i] = toParameter(Attributes(r)[i - N].value, r.timezone, FALSE, <<>>)
        BY <1>4, <3>0, <3>3, <4>1
      <4>4. Given(r)[i] = Attributes(r)[i - N]
        BY <1>2, <3>3
      <4>5. AsString(r, i) = FALSE
        BY <1>x, <3>3 DEF AsString
      <4>6. HintOf(r, i) = <<>>
        BY <1>1, <3>3 DEF HintOf
      <4> QED
        BY ONLY <3>1, <4>2, <4>4, <4>5, <4>6, Zenon
    <3> QED
      BY <3>2, <3>3
  <2> QED
    BY <1>2, <1>6, <2>1
<1> HIDE DEF encoded
<1>8. [i \in DOMAIN encoded |-> encoded[i][1]] = ParametersOf(r)
  <2>1. ParametersOf(r) = [i \in 1 .. n |-> EncodedAt(r, i)[1]]
    BY DEF ParametersOf, n
  <2> QED
    BY <1>7, <2>1
<1>9. \A i \in 1 .. n : EncodedAt(r, i) # <<>>
  BY <1>5, <1>7
<1> QED
  BY <1>5, <1>7, <1>8, <1>9, <1>m

\* The name of a parameter without a name is empty.
LEMMA EmptyName == writeLengthCodedBuffer(<<>>) = <<0>> /\ lengthCodedStringLength(<<>>) = 1
<1>1. ToLe(0, 1) = <<0>>
  <2>1. ToLe(0, 1) \in Seq(Nat) /\ Len(ToLe(0, 1)) = 1
    BY ToLeTyped
  <2>2. ToLe(0, 1)[1] = (0 \div (Byte ^ (1 - 1))) % Byte
    BY DEF ToLe
  <2>3. Byte ^ (1 - 1) = 1 /\ Byte = 20
    BY BytePowers, SMT
  <2>4. (0 \div 1) % 20 = 0
    OBVIOUS
  <2>5. ToLe(0, 1)[1] = 0
    BY <2>2, <2>3, <2>4
  <2> DEFINE w == ToLe(0, 1)
  <2>6. w \in Seq(Nat) /\ Len(w) = 1 /\ w[1] = 0
    BY <2>1, <2>5
  <2> HIDE DEF w
  <2>7. w = <<0>>
    BY ONLY <2>6
  <2> QED
    BY <2>7 DEF w
<1>2. 0 < NullTag /\ Len(<<>>) = 0
  BY DEF NullTag
<1>3. writeLengthCodedNumber(0) = <<0>> /\ lengthCodedNumberLength(0) = 1
  BY <1>1, <1>2, Zenon DEF writeLengthCodedNumber, lengthCodedNumberLength
<1>4. <<0>> \o <<>> = <<0>>
  OBVIOUS
<1> QED
  BY <1>2, <1>3, <1>4 DEF writeLengthCodedBuffer, lengthCodedStringLength

LEMMA ExecuteNames ==
    ASSUME NEW r \in Requests, r.command # "query", NEW i \in 1 .. Len(Given(r))
    PROVE  /\ NamePart(r.useAttributes, Names(r)[i])
                = IF ~r.useAttributes THEN <<>>
                  ELSE IF i <= Len(r.params) THEN <<0>> ELSE writeLengthCodedBuffer(r.attributes[i - Len(r.params)].name)
           /\ (IF r.useAttributes THEN lengthCodedStringLength(Names(r)[i]) ELSE 0)
                = IF ~r.useAttributes THEN 0
                  ELSE IF i <= Len(r.params) THEN 1 ELSE lengthCodedStringLength(r.attributes[i - Len(r.params)].name)
<1>1. CASE ~r.useAttributes
  BY <1>1 DEF NamePart
<1>2. CASE r.useAttributes
  <2>1. Unnamed(r) = Len(r.params) /\ Attributes(r) = r.attributes
    BY <1>2 DEF Unnamed, Attributes
  <2>2. Given(r)[i] = IF i <= Len(r.params) THEN [name |-> <<>>, value |-> r.params[i]]
                      ELSE r.attributes[i - Len(r.params)]
    BY <2>1, GivenIs
  <2>3. Names(r)[i] = Given(r)[i].name
    BY DEF Names
  <2>4. Names(r)[i] = IF i <= Len(r.params) THEN <<>> ELSE r.attributes[i - Len(r.params)].name
    <3>1. CASE i <= Len(r.params)
      <4>1. Given(r)[i] = [name |-> <<>>, value |-> r.params[i]]
        BY <2>2, <3>1
      <4>2. Given(r)[i].name = <<>>
        BY <4>1
      <4> QED
        BY <2>3, <3>1, <4>2
    <3>2. CASE ~(i <= Len(r.params))
      BY <2>2, <2>3, <3>2
    <3> QED
      BY <3>1, <3>2
  <2> QED
    BY <1>2, <2>4, EmptyName, Zenon DEF NamePart
<1> QED
  BY <1>1, <1>2

LEMMA ExecuteBytes ==
    ASSUME NEW r \in Requests, r.command # "query", NEW n, n = Len(Given(r)), NEW p, p = ParametersOf(r),
           Len(p) = n
    PROVE  /\ ExecutePacket(r, p)[1].bytes
                = <<STMT_EXECUTE>> \o ToLe(r.id, 4)
                  \o <<IF r.useAttributes THEN PARAMETER_COUNT_AVAILABLE ELSE 0>> \o ToLe(1, 4)
                  \o (IF r.useAttributes THEN writeLengthCodedNumber(n) ELSE <<>>)
                  \o (IF n = 0 THEN <<>> ELSE WrittenBitmap(p) \o <<1>>) \o TypeBytes(r) \o DataBytes(r)
           /\ ExecutePacket(r, p)[1].length
                = 10 + (IF r.useAttributes THEN lengthCodedNumberLength(n) ELSE 0)
                  + (IF n = 0 THEN 0 ELSE BitmapLength(n) + 1 + n * 2) + Total(SizesOf(r))
<1> DEFINE N == Len(r.params)
           NameBytes(i) == IF ~r.useAttributes THEN <<>>
                           ELSE IF i <= N THEN <<0>> ELSE writeLengthCodedBuffer(r.attributes[i - N].name)
           NameLength(i) == IF ~r.useAttributes THEN 0
                            ELSE IF i <= N THEN 1 ELSE lengthCodedStringLength(r.attributes[i - N].name)
           T == [i \in 1 .. n |-> <<TypeCode[p[i].type], Unsigned0x80(p[i])>> \o NameBytes(i)]
           V == [i \in 1 .. n |-> ValueBytes(p[i])]
           S == [i \in 1 .. n |-> NameLength(i) + ValueLength(p[i])]
<1>0. \A i \in 1 .. n : /\ NamePart(r.useAttributes, Names(r)[i]) = NameBytes(i)
                        /\ (IF r.useAttributes THEN lengthCodedStringLength(Names(r)[i]) ELSE 0) = NameLength(i)
  BY ExecuteNames
<1>4. /\ ExecutePacket(r, p)[1].bytes
           = <<STMT_EXECUTE>> \o ToLe(r.id, 4)
             \o <<IF r.useAttributes THEN PARAMETER_COUNT_AVAILABLE ELSE 0>> \o ToLe(1, 4)
             \o (IF r.useAttributes THEN writeLengthCodedNumber(n) ELSE <<>>)
             \o (IF n = 0 THEN <<>> ELSE WrittenBitmap(p) \o <<1>>) \o FlattenSeq(T) \o FlattenSeq(V)
      /\ ExecutePacket(r, p)[1].length
           = 10 + (IF r.useAttributes THEN lengthCodedNumberLength(n) ELSE 0)
             + (IF n = 0 THEN 0 ELSE BitmapLength(n) + 1 + n * 2) + Total(S)
  BY Zenon DEF ExecutePacket, Joined
<1> HIDE DEF NameBytes, NameLength
<1>1. T = TypeParts(n, p, Names(r), r.useAttributes)
  BY <1>0 DEF TypeParts, TypePart
<1>2. V = ValueParts(n, p)
  BY DEF ValueParts
<1>3. S = Sizes(n, p, Names(r), r.useAttributes)
  BY <1>0 DEF Sizes
<1> HIDE DEF T, V, S
<1> QED
  BY <1>1, <1>2, <1>3, <1>4 DEF TypeBytes, DataBytes, SizesOf

LEMMA ExecuteUnderstood ==
    ASSUME NEW r \in Requests, r.command # "query", executeToPacket(r) # <<>>
    PROVE  Understands(r, executeToPacket(r)[1])
<1> DEFINE n == Len(Given(r))
           p == ParametersOf(r)
           packet == executeToPacket(r)[1]
           b == packet.bytes
           k == IF r.useAttributes THEN lengthCodedNumberLength(n) ELSE 0
           m == IF n = 0 THEN 0 ELSE BitmapLength(n) + 1
           w == WrittenBitmap(p)
           p1 == <<STMT_EXECUTE>>
           p2 == ToLe(r.id, 4)
           p3 == <<IF r.useAttributes THEN PARAMETER_COUNT_AVAILABLE ELSE 0>>
           p4 == ToLe(1, 4)
           p5 == IF r.useAttributes THEN writeLengthCodedNumber(n) ELSE <<>>
           p6 == IF n = 0 THEN <<>> ELSE w \o <<1>>
           t == TypeBytes(r)
           v == DataBytes(r)
           total == Total(SizesOf(r))
<1>0. r.id \in Nat /\ r.id < Word /\ r.useAttributes \in BOOLEAN /\ STMT_EXECUTE = 13
  <2>1. r.id \in 0 .. (Word - 1) /\ r.useAttributes \in BOOLEAN
    BY RequestsAssumption, ValuesAssumption
  <2>2. Word \in Int
    BY Quarter
  <2> QED
    BY ONLY <2>1, <2>2 DEF STMT_EXECUTE
<1>1. executeToPacket(r) = ExecutePacket(r, p) /\ \A i \in 1 .. n : EncodedAt(r, i) # <<>>
  BY ExecuteMade
<1>2. PICK x : Found(r, x)
  BY <1>1, AllCarried
<1>3. /\ n \in Nat /\ Len(p) = n /\ w \in Seq(Nat) /\ Len(w) = BitmapLength(n) /\ BitmapLength(n) \in Nat
      /\ t \in Seq(Nat) /\ v \in Seq(Nat) /\ Len(t) \in Nat /\ Len(v) \in Nat
      /\ n * 2 + total = Len(t) + Len(v) /\ total \in Nat /\ (n = 0 => Len(t) = 0 /\ Len(v) = 0)
  BY <1>2, SectionTyped
<1>4. /\ b = p1 \o p2 \o p3 \o p4 \o p5 \o p6 \o t \o v
      /\ packet.length = 10 + k + (IF n = 0 THEN 0 ELSE BitmapLength(n) + 1 + n * 2) + total
  <2>1. Len(p) = n
    BY <1>3
  <2>2. /\ ExecutePacket(r, p)[1].bytes = p1 \o p2 \o p3 \o p4 \o p5 \o p6 \o t \o v
        /\ ExecutePacket(r, p)[1].length
             = 10 + k + (IF n = 0 THEN 0 ELSE BitmapLength(n) + 1 + n * 2) + total
    BY <2>1, ExecuteBytes
  <2> QED
    BY <1>1, <2>2
<1>5. n \in Lengths
  BY GivenTyped
<1>6. p1 \in Seq(Nat) /\ Len(p1) = 1 /\ p1[1] = 13
  BY <1>0
<1>7. p2 \in Seq(Nat) /\ Len(p2) = 4 /\ p4 \in Seq(Nat) /\ Len(p4) = 4
  <2> DEFINE i == r.id
             f == 4
  <2>1. i \in Int /\ 1 \in Int /\ f \in {1, 2, 3, 4, 6}
    BY <1>0
  <2> HIDE DEF i, f
  <2>2. ToLe(i, f) \in Seq(Nat) /\ Len(ToLe(i, f)) = f /\ ToLe(1, f) \in Seq(Nat) /\ Len(ToLe(1, f)) = f
    BY ONLY <2>1, ToLeTyped
  <2> QED
    BY <2>2 DEF i, f
<1>8. p3 \in Seq(Nat) /\ Len(p3) = 1
  <2>1. PARAMETER_COUNT_AVAILABLE \in Nat
    BY DEF PARAMETER_COUNT_AVAILABLE
  <2> QED
    BY <2>1
<1>9. p5 \in Seq(Nat) /\ Len(p5) = k /\ k \in Nat
  <2>1. CASE r.useAttributes
    BY <1>3, <2>1, NumberWritten
  <2>2. CASE ~r.useAttributes
    BY <2>2
  <2> QED
    BY <1>0, <2>1, <2>2
<1>10. p6 \in Seq(Nat) /\ Len(p6) = m /\ m \in Nat
  <2>1. CASE n = 0
    BY <2>1
  <2>2. CASE n # 0
    <3> DEFINE one == <<1>>
    <3>1. one \in Seq(Nat) /\ Len(one) = 1
      OBVIOUS
    <3>2. p6 = w \o one /\ m = BitmapLength(n) + 1
      BY <2>2
    <3> HIDE DEF w, one, p6, m
    <3>3. w \o one \in Seq(Nat) /\ Len(w \o one) = Len(w) + Len(one)
      BY <1>3, <3>1, ConcatNat
    <3> QED
      BY <1>3, <3>1, <3>2, <3>3
  <2> QED
    BY <2>1, <2>2
<1>11. packet.length = 10 + k + m + Len(t) + Len(v)
  <2>1. CASE n = 0
    <3>1. packet.length = 10 + k + 0 + total /\ m = 0 /\ total = 0 /\ Len(t) = 0 /\ Len(v) = 0
      <4>1. packet.length = 10 + k + 0 + total /\ m = 0 /\ Len(t) = 0 /\ Len(v) = 0
        BY <1>3, <1>4, <2>1
      <4>2. total = 0
        <5> HIDE DEF n, t, v, total
        <5>1. 0 * 2 + total = 0 + 0
          BY <1>3, <2>1
        <5> QED
          BY ONLY <1>3, <5>1
      <4> QED
        BY <4>1, <4>2
    <3> HIDE DEF n, k, m, t, v, total, packet
    <3> QED
      BY ONLY <1>9, <3>1
  <2>2. CASE n # 0
    <3> DEFINE y == BitmapLength(n)
               lt == Len(t)
               lv == Len(v)
    <3>1. /\ packet.length = 10 + k + (y + 1 + n * 2) + total /\ m = y + 1 /\ n * 2 + total = lt + lv
          /\ y \in Nat /\ lt \in Nat /\ lv \in Nat /\ n \in Nat /\ k \in Nat /\ total \in Nat
      BY <1>3, <1>4, <1>9, <2>2
    <3> HIDE DEF n, k, m, t, v, total, packet, y, lt, lv
    <3>2. packet.length = 10 + k + m + lt + lv
      BY ONLY <3>1, SMT
    <3> QED
      BY <3>2 DEF lt, lv
  <2> QED
    BY <2>1, <2>2
<1>s. Start(r, b) = IF r.useAttributes THEN readLengthCodedNumber(b, 11).o + 0 ELSE 11 + 0
  BY DEF Start
<1>r. /\ packet.bytes = b /\ n = Len(Given(r)) /\ r.command # "query" /\ r.useAttributes \in BOOLEAN
      /\ k = (IF r.useAttributes THEN lengthCodedNumberLength(n) ELSE 0)
      /\ p5 = (IF r.useAttributes THEN writeLengthCodedNumber(n) ELSE <<>>)
      /\ (n # 0 => p6 = w \o <<1>> /\ m = BitmapLength(n) + 1) /\ (n = 0 => m = 0)
      /\ p2 = ToLe(r.id, 4)
  BY <1>0
<1> HIDE DEF n, p, packet, b, k, m, w, p1, p2, p3, p4, p5, p6, t, v, total
<1> DEFINE o == 11 + k
           q == o + m
           u == q + Len(t)
           z == u + Len(v)
<1>12. /\ b \in Seq(Nat) /\ Sits(b, 1, p1) /\ Sits(b, 2, p2) /\ Sits(b, 11, p5) /\ Sits(b, o, p6)
       /\ Sits(b, q, t) /\ Sits(b, u, v) /\ Len(b) = z - 1 /\ packet.length = z - 1
       /\ o \in Pos /\ 11 \in Pos /\ z \in Pos /\ Len(b) \in Nat
  <2>1. Pieces(b, p1, p2, p3, p4, p5, p6, t, v)
    <3>1. b = p1 \o p2 \o p3 \o p4 \o p5 \o p6 \o t \o v
      BY <1>4
    <3>2. Pieces(p1 \o p2 \o p3 \o p4 \o p5 \o p6 \o t \o v, p1, p2, p3, p4, p5, p6, t, v)
      BY ONLY <1>3, <1>6, <1>7, <1>8, <1>9, <1>10, EightPieces
    <3> QED
      BY ONLY <3>1, <3>2
  <2>2. /\ b \in Seq(Nat) /\ Sits(b, 1, p1) /\ Sits(b, 1 + Len(p1), p2)
        /\ Sits(b, 1 + (Len(p1) + Len(p2) + Len(p3) + Len(p4)), p5)
        /\ Sits(b, 1 + (Len(p1) + Len(p2) + Len(p3) + Len(p4) + Len(p5)), p6)
        /\ Sits(b, 1 + (Len(p1) + Len(p2) + Len(p3) + Len(p4) + Len(p5) + Len(p6)), t)
        /\ Sits(b, 1 + (Len(p1) + Len(p2) + Len(p3) + Len(p4) + Len(p5) + Len(p6) + Len(t)), v)
        /\ Len(b) = Len(p1) + Len(p2) + Len(p3) + Len(p4) + Len(p5) + Len(p6) + Len(t) + Len(v)
    BY ONLY <2>1, Zenon DEF Pieces
  <2> DEFINE lt == Len(t)
             lv == Len(v)
             l1 == Len(p1)
             l2 == Len(p2)
             l3 == Len(p3)
             l4 == Len(p4)
             l5 == Len(p5)
             l6 == Len(p6)
             l == packet.length
  <2>3. /\ l1 = 1 /\ l2 = 4 /\ l3 = 1 /\ l4 = 4 /\ l5 = k /\ l6 = m /\ k \in Nat /\ m \in Nat
        /\ lt \in Nat /\ lv \in Nat /\ l = 10 + k + m + lt + lv
    BY <1>3, <1>6, <1>7, <1>8, <1>9, <1>10, <1>11
  <2> HIDE DEF l1, l2, l3, l4, l5, l6, lt, lv, l
  <2>4. /\ 1 + l1 = 2 /\ 1 + (l1 + l2 + l3 + l4) = 11
        /\ 1 + (l1 + l2 + l3 + l4 + l5) = 11 + k
        /\ 1 + (l1 + l2 + l3 + l4 + l5 + l6) = 11 + k + m
        /\ 1 + (l1 + l2 + l3 + l4 + l5 + l6 + lt) = 11 + k + m + lt
        /\ l1 + l2 + l3 + l4 + l5 + l6 + lt + lv = 11 + k + m + lt + lv - 1
        /\ l = 11 + k + m + lt + lv - 1
        /\ 11 + k \in Nat \ {0} /\ 11 \in Nat \ {0} /\ 11 + k + m + lt + lv \in Nat \ {0}
        /\ 11 + k + m + lt + lv - 1 \in Nat
    BY ONLY <2>3, SMT
  <2>5. /\ 1 + Len(p1) = 2 /\ 1 + (Len(p1) + Len(p2) + Len(p3) + Len(p4)) = 11
        /\ 1 + (Len(p1) + Len(p2) + Len(p3) + Len(p4) + Len(p5)) = o
        /\ 1 + (Len(p1) + Len(p2) + Len(p3) + Len(p4) + Len(p5) + Len(p6)) = q
        /\ 1 + (Len(p1) + Len(p2) + Len(p3) + Len(p4) + Len(p5) + Len(p6) + Len(t)) = u
        /\ Len(p1) + Len(p2) + Len(p3) + Len(p4) + Len(p5) + Len(p6) + Len(t) + Len(v) = z - 1
        /\ packet.length = z - 1
    BY ONLY <2>4 DEF l1, l2, l3, l4, l5, l6, lt, lv, l, o, q, u, z
  <2>6. o \in Pos /\ 11 \in Pos /\ z \in Pos /\ z - 1 \in Nat
    BY ONLY <2>4 DEF lt, lv, o, q, u, z, Pos
  <2> HIDE DEF o, q, u, z
  <2> QED
    BY ONLY <2>2, <2>5, <2>6, Zenon
<1>z. z = q + Len(t) + Len(v) /\ u = q + Len(t) /\ q = o + m /\ o = 11 + k
  OBVIOUS
<1> HIDE DEF o, q, u, z
<1>13. r.useAttributes => readLengthCodedNumber(b, 11) = At(Num(n), o)
  <2> SUFFICES ASSUME r.useAttributes PROVE readLengthCodedNumber(b, 11) = At(Num(n), o)
    OBVIOUS
  <2>1. Sits(b, 11, writeLengthCodedNumber(n)) /\ k = lengthCodedNumberLength(n)
    BY <1>12, <1>r
  <2>2. b \in Seq(Nat) /\ 11 \in Pos
    BY <1>12
  <2> DEFINE c == 11
  <2>3. Sits(b, c, writeLengthCodedNumber(n)) /\ c \in Pos
    BY <2>1, <2>2
  <2> HIDE DEF c
  <2>4. readLengthCodedNumber(b, c) = At(Num(n), c + lengthCodedNumberLength(n))
    BY ONLY <1>5, <2>2, <2>3, NumberRead
  <2> QED
    BY <1>z, <2>1, <2>4 DEF c
<1>14. r.useAttributes => readLengthCodedNumber(b, 11).v = Num(n) /\ readLengthCodedNumber(b, 11).o = o
  BY <1>13 DEF At
<1>15. Start(r, b) = o
  <2>1. o + 0 = o
    BY <1>12 DEF Pos
  <2>2. CASE r.useAttributes
    BY <1>s, <1>14, <2>1, <2>2
  <2>3. CASE ~r.useAttributes
    <3>1. k = 0
      BY <1>r, <2>3
    <3>2. o = 11 + 0
      BY <1>z, <3>1
    <3> QED
      BY <1>s, <2>3, <3>2
  <2> QED
    BY <1>r, <2>2, <2>3
<1> DEFINE ReadRight ==
             /\ Reading(r, b).o = z
             /\ \A i \in 1 .. n :
                   /\ Reading(r, b).list[i].name = Given(r)[i].name
                   /\ Conveys(Reading(r, b).list[i].value, Given(r)[i].value, AsString(r, i))
<1>16. ASSUME n = 0 PROVE ReadRight
  <2>1. Reading(r, b) = [list |-> <<>>, o |-> o]
    BY <1>15, <1>16 DEF Reading, n
  <2>2. m = 0 /\ Len(t) = 0 /\ Len(v) = 0
    BY <1>3, <1>r, <1>16
  <2>3. z = o + 0 + 0 + 0
    BY <1>z, <2>2
  <2>4. z = o
    BY <1>12, <2>3 DEF Pos
  <2>5. Reading(r, b).o = z
    BY <2>1, <2>4
  <2>6. \A i \in 1 .. n : FALSE
    BY <1>16
  <2>7. ReadRight
    BY ONLY <2>5, <2>6, Zenon
  <2> QED
    BY <2>7
<1>17. ASSUME n # 0 PROVE ReadRight
  <2>1. p6 = w \o <<1>> /\ m = BitmapLength(n) + 1
    BY <1>r, <1>17
  <2> DEFINE one == <<1>>
  <2>2. one \in Seq(Nat)
    OBVIOUS
  <2>3. Sits(b, o, w \o one)
    BY <1>12, <2>1
  <2> HIDE DEF one
  <2>4. Sits(b, o, w)
    BY ONLY <1>3, <1>12, <2>2, <2>3, SitsParts
  <2>5. q = o + BitmapLength(n) + 1
    <3>1. q = o + (BitmapLength(n) + 1)
      BY <1>z, <2>1
    <3>2. BitmapLength(n) \in Nat /\ o \in Nat
      BY <1>3, <1>12 DEF Pos
    <3> QED
      BY ONLY <3>1, <3>2
  <2>6. /\ Sits(b, o, WrittenBitmap(ParametersOf(r))) /\ q = o + BitmapLength(Len(Given(r))) + 1
        /\ Sits(b, q, TypeBytes(r)) /\ Sits(b, q + Len(TypeBytes(r)), DataBytes(r)) /\ Len(Given(r)) # 0
        /\ z = q + Len(TypeBytes(r)) + Len(DataBytes(r))
    BY <1>12, <1>17, <1>z, <2>4, <2>5 DEF w, p, n, t, v
  <2>7. b \in Seq(Nat) /\ o \in Pos /\ Start(r, b) = o
    BY <1>12, <1>15
  <2>8. Reading(r, b) = [list |-> [i \in 1 .. Len(Given(r)) |-> [name |-> Names(r)[i], value |-> x[i]]],
                         o |-> q + Len(TypeBytes(r)) + Len(DataBytes(r))]
    BY <1>2, <2>6, <2>7, SectionRead
  <2>9. Reading(r, b) = [list |-> [i \in 1 .. Len(Given(r)) |-> [name |-> Names(r)[i], value |-> x[i]]], o |-> z]
    BY ONLY <2>6, <2>8
  <2>10. Len(Given(r)) \in Nat
    BY <1>3 DEF n
  <2>11. \A i \in 1 .. n :
            /\ Reading(r, b).list[i].name = Given(r)[i].name
            /\ Conveys(Reading(r, b).list[i].value, Given(r)[i].value, AsString(r, i))
    BY <1>2, <2>9, <2>10, ReadingFound DEF n
  <2>12. Reading(r, b).o = z
    BY <2>9
  <2>13. ReadRight
    BY ONLY <2>11, <2>12, Zenon
  <2> QED
    BY <2>13
<1>18. ReadRight
  BY <1>16, <1>17
<1>19. SubSeq(b, z, Len(b)) = <<>>
  <2> DEFINE s == <<>>
  <2>1. s \in Seq(Nat) /\ Len(s) = 0 /\ 1 .. 0 = {}
    OBVIOUS
  <2>2. Sits(b, z, s)
    <3>1. z + 0 - 1 = z - 1 /\ z - 1 <= z - 1
      BY <1>12 DEF Pos
    <3>2. \A i \in 1 .. Len(s) : b[z + i - 1] = s[i]
      BY <2>1
    <3> HIDE DEF s
    <3> QED
      BY <1>12, <2>1, <3>1, <3>2 DEF Sits
  <2>3. Len(b) = z + Len(s) - 1
    <3>1. z + 0 - 1 = z - 1
      BY <1>12 DEF Pos
    <3> QED
      BY <1>12, <2>1, <3>1
  <2> HIDE DEF s
  <2>4. SubSeq(b, z, Len(b)) = s
    BY <1>12, <2>1, <2>2, <2>3, SitsLast
  <2> QED
    BY <2>4 DEF s
<1>20. b[1] = 13
  <2>1. 1 \in 1 .. Len(p1) /\ 1 + 1 - 1 = 1
    BY <1>6
  <2>2. b[1 + 1 - 1] = p1[1]
    BY <1>12, <2>1 DEF Sits
  <2> QED
    BY <1>6, <2>1, <2>2
<1>21. Le(Bytes(b, 2, 4)) = r.id
  <2> DEFINE i == r.id
             c == 2
             f == 4
  <2>1. Sits(b, c, ToLe(i, f)) /\ b \in Seq(Nat) /\ f \in {1, 2, 3, 4, 6}
    BY <1>12, <1>r
  <2>2. i \in Int /\ i \in Nat /\ i < Word
    BY <1>0
  <2>3. Byte ^ f = Word
    BY Quarter
  <2> HIDE DEF i, c, f
  <2>4. Le(Bytes(b, c, f)) = i % (Byte ^ f)
    BY ONLY <2>1, <2>2, FixedRead
  <2>5. i % Word = i
    BY ONLY <2>2, WithinWord
  <2>6. Le(Bytes(b, c, f)) = i
    BY ONLY <2>3, <2>4, <2>5
  <2> QED
    BY <2>6 DEF i, c, f
<1>22. Len(b) = packet.length
  BY <1>12
<1>23. Understands(r, packet)
  <2>1. /\ packet.bytes = b /\ n = Len(Given(r)) /\ ~(r.command = "query") /\ STMT_EXECUTE = 13
    BY <1>r, <1>0
  <2>2. r.useAttributes => readLengthCodedNumber(b, 11).v = Num(n)
    BY <1>14
  <2> QED
    BY ONLY <2>1, <2>2, <1>18, <1>19, <1>20, <1>21, <1>22, Zenon DEF Understands
<1> QED
  BY <1>23 DEF packet

\* A server that reads a request finds in it what the application gave: its
\* parameters and attributes with their names, values and NULLs in the types it
\* was told, the text or the id of the statement, and nothing behind them; and
\* the request is as long as Query and Execute computed before they wrote it.
THEOREM ServerUnderstandsHolds == Spec => []ServerUnderstands
<1> DEFINE Sent(r) == <<[request |-> r, packet |-> toPacket(r)]>>
           Inv == sent = <<>> \/ \E r \in Requests : sent = Sent(r)
<1>1. Init => Inv
  BY DEF Init, InitRequests
<1>2. Inv /\ [Next]_<<rowVars, sent>> => Inv'
  <2> SUFFICES ASSUME Inv, [Next]_<<rowVars, sent>> PROVE Inv'
    OBVIOUS
  <2>1. CASE UNCHANGED sent
    BY <2>1
  <2>2. ASSUME NEW r \in Requests, Send(r) PROVE Inv'
    <3>1. sent' = Sent(r)
      BY <2>2 DEF Send
    <3> QED
      BY <3>1
  <2> QED
    BY <2>1, <2>2 DEF Next
<1>3. ASSUME NEW r \in Requests, toPacket(r) # <<>> PROVE Understands(r, toPacket(r)[1])
  <2>1. CASE r.command = "query"
    <3>1. toPacket(r) = queryToPacket(r) /\ queryToPacket(r) # <<>>
      BY <1>3, <2>1 DEF toPacket
    <3>2. CASE ~r.useAttributes \/ r.attributes = <<>>
      <4>1. queryToPacket(r) = PlainQuery(r)
        BY <3>2 DEF queryToPacket
      <4> QED
        BY <2>1, <3>1, <3>2, <4>1, PlainUnderstood
    <3>3. CASE r.useAttributes /\ r.attributes # <<>>
      BY <2>1, <3>1, <3>3, QueryUnderstood
    <3>4. r.useAttributes \in BOOLEAN
      BY RequestsAssumption
    <3> QED
      BY <3>2, <3>3, <3>4
  <2>2. CASE r.command # "query"
    <3>1. toPacket(r) = executeToPacket(r) /\ executeToPacket(r) # <<>>
      BY <1>3, <2>2 DEF toPacket
    <3> QED
      BY <2>2, <3>1, ExecuteUnderstood
  <2> QED
    BY <2>1, <2>2
<1>4. Inv => ServerUnderstands
  <2> SUFFICES ASSUME Inv, sent # <<>>, sent[1].packet # <<>> PROVE ServerUnderstands
    BY DEF ServerUnderstands
  <2>1. PICK r \in Requests : sent = Sent(r)
    OBVIOUS
  <2>2. sent[1].request = r /\ sent[1].packet = toPacket(r)
    BY <2>1
  <2>3. Understands(sent[1].request, sent[1].packet[1])
    BY <1>3, <2>2
  <2> HIDE DEF Inv
  <2> QED
    BY ONLY <2>3, Zenon DEF ServerUnderstands, Understands, Reading, Start, Given, Attributes, ZoneOf, AsString
<1> QED
  BY <1>1, <1>2, <1>4, PTL DEF Spec
=============================================================================
