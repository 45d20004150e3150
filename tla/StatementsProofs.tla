-------------------------- MODULE StatementsProofs --------------------------
(***************************************************************************)
(* Theorems about Statements, for any number of keys, statements and       *)
(* calls: a Prepare reads the packets of its answer and no others, the     *)
(* server keeps no statement open that the driver has forgotten, and       *)
(* execute() sends a statement of its own that is open.                    *)
(***************************************************************************)
EXTENDS Statements, TLAPS

-----------------------------------------------------------------------------
(* Sequences.                                                              *)

LEMMA TailIndex ==
  ASSUME NEW S, NEW s \in Seq(S), s # <<>>
  PROVE  /\ Head(s) \in S /\ Head(s) = s[1] /\ 1 \in DOMAIN s
         /\ Tail(s) \in Seq(S) /\ Len(Tail(s)) = Len(s) - 1 /\ DOMAIN Tail(s) = 1 .. Len(s) - 1
         /\ \A i \in 1 .. Len(s) - 1 : Tail(s)[i] = s[i + 1]
         /\ DOMAIN s = 1 .. Len(s) /\ Len(s) \in Nat \ {0}
OBVIOUS

LEMMA EmptySeq == ASSUME NEW S, NEW s \in Seq(S), Len(s) = 0 PROVE s = <<>>
OBVIOUS

LEMMA Element == ASSUME NEW S, NEW s \in Seq(S), NEW i \in DOMAIN s PROVE s[i] \in S
OBVIOUS

LEMMA ConcatIndex ==
  ASSUME NEW S, NEW s \in Seq(S), NEW t \in Seq(S)
  PROVE  /\ s \o t \in Seq(S) /\ Len(s \o t) = Len(s) + Len(t)
         /\ DOMAIN s = 1 .. Len(s) /\ DOMAIN t = 1 .. Len(t)
         /\ DOMAIN (s \o t) = 1 .. Len(s) + Len(t)
         /\ Len(s) \in Nat /\ Len(t) \in Nat
         /\ \A i \in 1 .. Len(s) : (s \o t)[i] = s[i]
         /\ \A i \in 1 .. Len(t) : (s \o t)[i + Len(s)] = t[i]
         /\ \A i \in DOMAIN (s \o t) : i \in 1 .. Len(s) \/ i - Len(s) \in 1 .. Len(t)
         /\ \A i \in DOMAIN (s \o t) : i > Len(s) => (s \o t)[i] = t[i - Len(s)]
<1>1. /\ s \o t \in Seq(S) /\ Len(s \o t) = Len(s) + Len(t)
      /\ DOMAIN s = 1 .. Len(s) /\ DOMAIN t = 1 .. Len(t)
      /\ Len(s) \in Nat /\ Len(t) \in Nat
  OBVIOUS
<1>2. DOMAIN (s \o t) = 1 .. Len(s) + Len(t)
  BY <1>1
<1>3. \A i \in 1 .. Len(s) : (s \o t)[i] = s[i]
  OBVIOUS
<1>4. \A i \in 1 .. Len(t) : (s \o t)[i + Len(s)] = t[i]
  OBVIOUS
<1>5. \A i \in DOMAIN (s \o t) : i > Len(s) => (s \o t)[i] = t[i - Len(s)]
  <2> SUFFICES ASSUME NEW i \in 1 .. Len(s) + Len(t), i > Len(s)
               PROVE  (s \o t)[i] = t[i - Len(s)]
    BY <1>2
  <2>1. i - Len(s) \in 1 .. Len(t) /\ (i - Len(s)) + Len(s) = i
    BY <1>1
  <2> QED
    BY <1>4, <2>1
<1>6. \A i \in DOMAIN (s \o t) : i \in 1 .. Len(s) \/ i - Len(s) \in 1 .. Len(t)
  BY <1>1, <1>2
<1> QED
  BY <1>1, <1>2, <1>3, <1>4, <1>5, <1>6

LEMMA RemoveIndex ==
  ASSUME NEW S, NEW s \in Seq(S), NEW i \in DOMAIN s
  PROVE  /\ RemoveAt(s, i) \in Seq(S) /\ Len(RemoveAt(s, i)) = Len(s) - 1
         /\ DOMAIN RemoveAt(s, i) = 1 .. Len(s) - 1
         /\ \A j \in 1 .. Len(s) - 1 : RemoveAt(s, i)[j] = IF j < i THEN s[j] ELSE s[j + 1]
<1> DEFINE a == SubSeq(s, 1, i - 1)
           b == SubSeq(s, i + 1, Len(s))
<1>1. i \in 1 .. Len(s) /\ Len(s) \in Nat
  OBVIOUS
<1>2. a \in Seq(S) /\ Len(a) = i - 1 /\ \A j \in 1 .. i - 1 : a[j] = s[j]
  BY <1>1
<1>3. b \in Seq(S) /\ Len(b) = Len(s) - i /\ \A j \in 1 .. Len(s) - i : b[j] = s[j + i]
  BY <1>1
<1>4. RemoveAt(s, i) = a \o b
  BY DEF RemoveAt
<1> HIDE DEF a, b
<1>5. /\ a \o b \in Seq(S) /\ Len(a \o b) = Len(a) + Len(b)
      /\ DOMAIN (a \o b) = 1 .. Len(a) + Len(b)
      /\ \A j \in 1 .. Len(a) : (a \o b)[j] = a[j]
      /\ \A j \in DOMAIN (a \o b) : j > Len(a) => (a \o b)[j] = b[j - Len(a)]
  <2>1. a \in Seq(S) /\ b \in Seq(S)
    BY <1>2, <1>3
  <2> QED
    BY <2>1, ConcatIndex
<1>6. Len(a) + Len(b) = Len(s) - 1
  BY <1>1, <1>2, <1>3
<1>7. ASSUME NEW j \in 1 .. Len(s) - 1
      PROVE  (a \o b)[j] = IF j < i THEN s[j] ELSE s[j + 1]
  <2>1. CASE j < i
    <3>1. j \in 1 .. i - 1
      BY <1>1, <2>1
    <3> QED
      BY <1>2, <1>5, <2>1, <3>1
  <2>2. CASE ~(j < i)
    <3>1. /\ j - (i - 1) \in 1 .. Len(s) - i /\ j > i - 1
          /\ (j - (i - 1)) + i = j + 1
      BY <1>1, <2>2
    <3>2. (a \o b)[j] = b[j - (i - 1)]
      BY <1>2, <1>5, <1>6, <3>1
    <3> QED
      BY <1>3, <2>2, <3>1, <3>2
  <2> QED
    BY <2>1, <2>2
<1> QED
  BY <1>4, <1>5, <1>6, <1>7

LEMMA IdsFacts ==
  ASSUME NEW S, NEW s \in Seq(S)
  PROVE  /\ \A i \in DOMAIN s : /\ Ids(RemoveAt(s, i)) \subseteq Ids(s)
                                /\ Ids(s) \subseteq Ids(RemoveAt(s, i)) \union {s[i].id}
                                /\ \A x \in Ids(RemoveAt(s, i)) :
                                      \E j \in DOMAIN s : j # i /\ s[j].id = x
         /\ \A x \in S : Ids(Append(s, x)) = Ids(s) \union {x.id}
<1>1. DOMAIN s = 1 .. Len(s) /\ Len(s) \in Nat
  OBVIOUS
<1>2. ASSUME NEW i \in DOMAIN s
      PROVE  /\ Ids(RemoveAt(s, i)) \subseteq Ids(s)
             /\ Ids(s) \subseteq Ids(RemoveAt(s, i)) \union {s[i].id}
             /\ \A x \in Ids(RemoveAt(s, i)) : \E j \in DOMAIN s : j # i /\ s[j].id = x
  <2> DEFINE t == RemoveAt(s, i)
  <2>1. DOMAIN t = 1 .. Len(s) - 1
        /\ \A j \in 1 .. Len(s) - 1 : t[j] = IF j < i THEN s[j] ELSE s[j + 1]
    BY RemoveIndex
  <2> HIDE DEF t
  <2>2. ASSUME NEW j \in DOMAIN t PROVE \E n \in DOMAIN s : n # i /\ s[n].id = t[j].id
    <3>1. CASE j < i
      BY <1>1, <2>1, <2>2, <3>1
    <3>2. CASE ~(j < i)
      <4>1. j + 1 \in DOMAIN s /\ j + 1 # i /\ t[j] = s[j + 1]
        BY <1>1, <2>1, <2>2, <3>2
      <4> QED
        BY <4>1
    <3> QED
      BY <3>1, <3>2
  <2>3. ASSUME NEW j \in DOMAIN s, j # i PROVE \E n \in DOMAIN t : t[n].id = s[j].id
    <3>1. CASE j < i
      <4>1. j \in DOMAIN t /\ t[j] = s[j]
        BY <1>1, <2>1, <2>3, <3>1
      <4> QED
        BY <4>1
    <3>2. CASE ~(j < i)
      <4>1. j - 1 \in 1 .. Len(s) - 1 /\ ~(j - 1 < i) /\ (j - 1) + 1 = j
        BY <1>1, <2>3, <3>2
      <4>2. j - 1 \in DOMAIN t /\ t[j - 1] = s[j]
        BY <2>1, <4>1
      <4> QED
        BY <4>2
    <3> QED
      BY <3>1, <3>2
  <2> QED
    BY <2>2, <2>3 DEF Ids, t
<1>3. ASSUME NEW x \in S PROVE Ids(Append(s, x)) = Ids(s) \union {x.id}
  <2> DEFINE t == Append(s, x)
  <2>1. DOMAIN t = 1 .. Len(s) + 1 /\ t[Len(s) + 1] = x /\ \A i \in 1 .. Len(s) : t[i] = s[i]
    OBVIOUS
  <2> HIDE DEF t
  <2>2. \A i \in DOMAIN t : i \in DOMAIN s \/ i = Len(s) + 1
    BY <1>1, <2>1
  <2>3. DOMAIN s \subseteq DOMAIN t /\ Len(s) + 1 \in DOMAIN t
    BY <1>1, <2>1
  <2>4. Ids(t) = Ids(s) \union {x.id}
    BY <1>1, <2>1, <2>2, <2>3 DEF Ids
  <2> QED
    BY <2>4 DEF t
<1> QED
  BY <1>2, <1>3

-----------------------------------------------------------------------------
(* The inductive invariant.                                                *)

\* A Prepare p of execute() and the Execute e that gets its statement.
Joined(p, e) == e.kind = "execute" /\ e.call = p.call /\ e.key = p.key /\ e.id = 0

Paired(e) == e.kind = "execute" /\ e.call # 0

\* Each Prepare of execute() has its Execute right behind it, and each such
\* Execute its Prepare before it, unless it is the first of all.
PairsOf(q) ==
    /\ \A i \in DOMAIN q : q[i].kind = "prepare" =>
          /\ q[i].key \in Keys
          /\ q[i].call # 0 => i + 1 \in DOMAIN q /\ Joined(q[i], q[i + 1])
    /\ \A i \in DOMAIN q : Paired(q[i]) /\ i > 1 => q[i - 1].kind = "prepare" /\ Joined(q[i - 1], q[i])

HeadFree(q) == q # <<>> => ~Paired(q[1])

Closing(q) == {q[i].id : i \in {n \in DOMAIN q : q[n].kind = "close"}}

\* The first command is an Execute that has its statement and starts next.
Given(e) ==
    /\ current = None /\ ~calling
    /\ e.id \in DOMAIN prepared /\ prepared[e.id] = e.key
    /\ e.id \in open \union userClosed

HeadInv ==
    /\ queue # <<>> /\ Paired(queue[1]) =>
          \/ current.kind = "prepare" /\ current.cmd.call # 0
          \/ Given(queue[1])
    /\ current.kind = "prepare" =>
          /\ current.cmd.key \in Keys
          /\ current.cmd.call # 0 => queue # <<>> /\ Joined(current.cmd, queue[1])

\* The server has forgotten its statements, and the driver is yet to clear
\* the cache (or never will).
Forgotten == \/ current.kind = "reset" /\ current.ok
             \/ current.kind = "quit"

CacheInv ==
    /\ \A i \in DOMAIN cache : prepared[cache[i].id] = cache[i].key
    /\ Forgotten \/ Ids(cache) \subseteq open \union userClosed
    /\ Forgotten => open = {}
    /\ Closing(queue) \subseteq DOMAIN prepared
    /\ Closing(queue) \intersect Ids(cache) \subseteq userClosed

\* The statement that is being prepared is new.
NewInv ==
    current.kind = "prepare" =>
        /\ current.id \in open
        /\ current.id \notin Ids(cache) \union handles \union Closing(queue)
        /\ prepared[current.id] = current.cmd.key
        /\ Keyed(current.cmd.key) = {}

\* NoneLeaked, by the closes that are queued.
Kept ==
    ended \/ open \subseteq Ids(cache) \union Closing(queue)
                        \union (IF current.kind = "prepare" THEN {current.id} ELSE {})

\* n definitions and the EOF behind them.
Block(n) == Append(Definitions(n), "EOF")

\* What is still to come for the step that the Prepare c waits in.
Rest(c, packets) ==
    LET ps == c.parameterCount - c.parameters
        fs == c.fieldCount - c.fields
    IN \/ /\ c.step = "prepareHeader" /\ c.parameters = 0 /\ c.fields = 0
          /\ \E n \in 0 .. ps, m \in 0 .. fs :
                packets = <<"header">> \o Announced(c.parameterCount, n) \o Announced(c.fieldCount, m)
       \/ /\ c.step = "readParameter" /\ c.fields = 0 /\ ps > 0
          /\ \E n \in 0 .. ps, m \in 0 .. fs : packets = Block(n) \o Announced(c.fieldCount, m)
       \/ /\ c.step = "parametersEOF" /\ c.fields = 0
          /\ \E m \in 0 .. fs : packets = Block(0) \o Announced(c.fieldCount, m)
       \/ /\ c.step = "readField" /\ fs > 0
          /\ \E m \in 0 .. fs : packets = Block(m)
       \/ c.step = "fieldsEOF" /\ packets = Block(0)

PacketsInv == IF current.kind = "prepare" THEN Rest(current, incoming) ELSE incoming = <<>>

Inv == /\ TypeOK /\ PairsOf(queue) /\ HeadInv
       /\ CacheInv /\ NewInv /\ Kept /\ ExecutesOpenStatement

-----------------------------------------------------------------------------
(* The state keeps its types.                                              *)

\* The commands by their fields.
LEMMA CommandType ==
  /\ \A k \in Kinds, key \in Keys \union {NoKey}, call \in 0 .. MaxCalls, id \in Nat :
        Cmd(k, key, call, id) \in Commands
  /\ \A e \in Commands : /\ e.kind \in Kinds /\ e.key \in Keys \union {NoKey}
                         /\ e.call \in 0 .. MaxCalls /\ e.id \in Nat
                         /\ \A id \in Nat : [e EXCEPT !.id = id] \in Commands
  /\ None \in [kind : {"none", "change", "quit"}]
  /\ \A k \in Kinds, key \in Keys \union {NoKey}, id \in Nat : Cmd(k, key, 0, id) \in Commands
<1>1. 0 \in 0 .. MaxCalls
  BY ConstantsAssumption
<1> QED
  BY <1>1 DEF Cmd, Commands, None

LEMMA CurrentCases ==
  ASSUME TypeOK
  PROVE  /\ current.kind = "prepare" => current \in Preparing
         /\ current.kind = "execute" => current \in Executing
         /\ current.kind = "reset" => current \in Resetting
         /\ current.kind \in {"none", "prepare", "execute", "reset", "change", "quit"}
         /\ current.kind = "none" <=> current = None
BY DEF TypeOK, Preparing, Executing, Resetting, None

LEMMA HeadType ==
  ASSUME TypeOK, queue # <<>>
  PROVE  /\ Head(queue) \in Commands /\ Tail(queue) \in Seq(Commands)
         /\ Head(queue).kind \in Kinds /\ Head(queue).key \in Keys \union {NoKey}
         /\ Head(queue).call \in 0 .. MaxCalls /\ Head(queue).id \in Nat
<1>1. Head(queue) \in Commands /\ Tail(queue) \in Seq(Commands)
  BY DEF TypeOK
<1> QED
  BY <1>1 DEF Commands

LEMMA InitInv == Init => Inv /\ PacketsInv
<1> SUFFICES ASSUME Init PROVE Inv /\ PacketsInv
  OBVIOUS
<1>1. /\ queue = <<>> /\ cache = <<>> /\ prepared = <<>> /\ incoming = <<>>
      /\ current = None /\ Ids(cache) = {} /\ Closing(queue) = {}
      /\ current.kind = "none"
  BY DEF Init, Ids, Closing, None
<1>2. current \in [kind : {"none", "change", "quit"}]
  BY <1>1 DEF None
<1>3. TypeOK
  <2>1. queue \in Seq(Commands) /\ prepared \in Seq(Keys)
    BY <1>1
  <2>2. incoming \in Seq({"header", "def", "EOF"})
    BY <1>1
  <2>3. cache \in Seq([key : Keys, id : Nat])
    BY <1>1
  <2>4. /\ Len(cache) <= MaxStatements /\ DOMAIN cache = {}
        /\ refused \in Nat /\ calls \in 0 .. MaxCalls
    BY <1>1, ConstantsAssumption DEF Init
  <2>5. open = {} /\ handles = {} /\ userClosed = {} /\ {ended, calling, evictOnDelete} \subseteq BOOLEAN
    BY DEF Init
  <2> QED
    BY <1>1, <1>2, <2>1, <2>2, <2>3, <2>4, <2>5 DEF TypeOK
<1>4. DOMAIN queue = {} /\ DOMAIN cache = {}
  BY <1>1
<1>5. PairsOf(queue) /\ HeadInv /\ PacketsInv
  BY <1>1, <1>4 DEF PairsOf, HeadInv, PacketsInv
<1>6. CacheInv /\ NewInv /\ Kept /\ ExecutesOpenStatement
  BY <1>1, <1>4 DEF Init, CacheInv, NewInv, Kept, ExecutesOpenStatement, Forgotten
<1> QED
  BY <1>3, <1>5, <1>6 DEF Inv

-----------------------------------------------------------------------------
(* What the operations on the queue do to pairs and closes.                *)

\* An operation that keeps each command with its neighbours keeps the pairs.
LEMMA PairsTail ==
  ASSUME NEW q \in Seq(Commands), q # <<>>, PairsOf(q)
  PROVE  /\ PairsOf(Tail(q))
         /\ q[1].kind = "prepare" /\ q[1].call # 0 =>
               /\ Tail(q) # <<>> /\ Joined(q[1], Tail(q)[1])
         /\ ~(q[1].kind = "prepare" /\ q[1].call # 0) => HeadFree(Tail(q))
<1> DEFINE t == Tail(q)
<1>1. /\ DOMAIN t = 1 .. Len(q) - 1 /\ DOMAIN q = 1 .. Len(q) /\ Len(q) \in Nat \ {0}
      /\ \A i \in 1 .. Len(q) - 1 : t[i] = q[i + 1]
      /\ t \in Seq(Commands)
  BY TailIndex
<1> HIDE DEF t
<1>2. ASSUME NEW i \in DOMAIN t
      PROVE  /\ i + 1 \in DOMAIN q /\ t[i] = q[i + 1] /\ i + 1 > 1
             /\ i + 1 + 1 \in DOMAIN q => i + 1 \in DOMAIN t /\ t[i + 1] = q[i + 1 + 1]
             /\ i > 1 => i - 1 \in DOMAIN t /\ t[i - 1] = q[i] /\ i + 1 - 1 = i
  <2>1. i \in 1 .. Len(q) - 1 /\ i + 1 \in DOMAIN q /\ t[i] = q[i + 1]
    BY <1>1
  <2>2. i > 1 => i - 1 \in DOMAIN t /\ (i - 1) + 1 = i /\ i + 1 - 1 = i
    BY <1>1, <2>1
  <2>3. i + 1 + 1 \in DOMAIN q => i + 1 \in DOMAIN t
    BY <1>1, <2>1
  <2> QED
    BY <1>1, <2>1, <2>2, <2>3
<1>3. ASSUME NEW i \in DOMAIN t, t[i].kind = "prepare"
      PROVE  t[i].key \in Keys /\ (t[i].call # 0 => i + 1 \in DOMAIN t /\ Joined(t[i], t[i + 1]))
  <2> DEFINE j == i + 1
  <2>1. j \in DOMAIN q /\ t[i] = q[j] /\ (j + 1 \in DOMAIN q => i + 1 \in DOMAIN t /\ t[i + 1] = q[j + 1])
    BY <1>2
  <2> HIDE DEF j
  <2>2. q[j].key \in Keys /\ (q[j].call # 0 => j + 1 \in DOMAIN q /\ Joined(q[j], q[j + 1]))
    BY <1>3, <2>1 DEF PairsOf
  <2> QED
    BY <2>1, <2>2
<1>4. ASSUME NEW i \in DOMAIN t, Paired(t[i]), i > 1
      PROVE  t[i - 1].kind = "prepare" /\ Joined(t[i - 1], t[i])
  <2> DEFINE j == i + 1
  <2>1. j \in DOMAIN q /\ Paired(q[j]) /\ j > 1 /\ j - 1 = i /\ t[i] = q[j]
    BY <1>2, <1>4
  <2> HIDE DEF j
  <2>2. q[i].kind = "prepare" /\ Joined(q[i], q[j])
    BY <2>1 DEF PairsOf
  <2> QED
    BY <1>2, <1>4, <2>1, <2>2
<1>5. PairsOf(t)
  BY <1>3, <1>4 DEF PairsOf
<1>6. 1 \in DOMAIN q /\ 1 + 1 = 2 /\ 2 - 1 = 1 /\ (2 \in DOMAIN q <=> 1 \in DOMAIN t)
      /\ (1 \in DOMAIN t => t[1] = q[2]) /\ (1 \in DOMAIN t <=> t # <<>>)
  <2>1. 1 \in DOMAIN q /\ (2 \in DOMAIN q <=> 1 \in DOMAIN t) /\ (1 \in DOMAIN t => t[1] = q[1 + 1])
    BY <1>1
  <2>2. 1 \in DOMAIN t <=> t # <<>>
    BY <1>1
  <2> QED
    BY <2>1, <2>2
<1>7. q[1].kind = "prepare" /\ q[1].call # 0 => t # <<>> /\ Joined(q[1], t[1])
  BY <1>6 DEF PairsOf
<1>8. ASSUME t # <<>>, Paired(t[1]) PROVE q[1].kind = "prepare" /\ q[1].call # 0
  <2>1. q[1].kind = "prepare" /\ Joined(q[1], q[2])
    BY <1>6, <1>8 DEF PairsOf
  <2> QED
    BY <1>6, <1>8, <2>1 DEF Joined, Paired
<1> QED
  BY <1>5, <1>7, <1>8 DEF HeadFree, t

LEMMA PairsConcat ==
  ASSUME NEW q \in Seq(Commands), NEW c \in Seq(Commands), PairsOf(q), PairsOf(c), HeadFree(c)
  PROVE  /\ PairsOf(q \o c)
         /\ q # <<>> => q \o c # <<>> /\ (q \o c)[1] = q[1]
         /\ HeadFree(q) => HeadFree(q \o c)
<1> DEFINE t == q \o c
<1>1. /\ t \in Seq(Commands)
      /\ DOMAIN t = 1 .. Len(q) + Len(c) /\ DOMAIN q = 1 .. Len(q) /\ DOMAIN c = 1 .. Len(c)
      /\ Len(q) \in Nat /\ Len(c) \in Nat
      /\ \A i \in 1 .. Len(q) : t[i] = q[i]
      /\ \A i \in 1 .. Len(c) : t[i + Len(q)] = c[i]
      /\ \A i \in DOMAIN t : i > Len(q) => t[i] = c[i - Len(q)]
  <2> HIDE DEF t
  <2> QED
    BY ConcatIndex DEF t
<1> HIDE DEF t
<1>2. ASSUME NEW i \in DOMAIN t, t[i].kind = "prepare"
      PROVE  t[i].key \in Keys /\ (t[i].call # 0 => i + 1 \in DOMAIN t /\ Joined(t[i], t[i + 1]))
  <2>1. CASE i <= Len(q)
    <3>1. i \in DOMAIN q /\ t[i] = q[i] /\ (i + 1 \in DOMAIN q => i + 1 \in DOMAIN t /\ t[i + 1] = q[i + 1])
      BY <1>1, <2>1
    <3> QED
      BY <1>2, <3>1 DEF PairsOf
  <2>2. CASE i > Len(q)
    <3> DEFINE j == i - Len(q)
    <3>1. j \in DOMAIN c /\ t[i] = c[j]
      BY <1>1, <2>2
    <3>2. j + 1 \in DOMAIN c => i + 1 \in DOMAIN t /\ (j + 1) + Len(q) = i + 1 /\ j + 1 \in 1 .. Len(c)
      BY <1>1, <2>2
    <3> HIDE DEF j
    <3>3. j + 1 \in DOMAIN c => i + 1 \in DOMAIN t /\ t[i + 1] = c[j + 1]
      BY <1>1, <3>2
    <3> QED
      BY <1>2, <3>1, <3>3 DEF PairsOf
  <2> QED
    BY <1>1, <2>1, <2>2
<1>3. ASSUME NEW i \in DOMAIN t, Paired(t[i]), i > 1
      PROVE  t[i - 1].kind = "prepare" /\ Joined(t[i - 1], t[i])
  <2>1. CASE i <= Len(q)
    <3>1. i \in DOMAIN q /\ t[i] = q[i] /\ t[i - 1] = q[i - 1]
      BY <1>1, <1>3, <2>1
    <3> QED
      BY <1>3, <3>1 DEF PairsOf
  <2>2. CASE i > Len(q)
    <3> DEFINE j == i - Len(q)
    <3>1. j \in DOMAIN c /\ t[i] = c[j]
      BY <1>1, <2>2
    <3>2. c # <<>> /\ 1 \in DOMAIN c
      BY <1>1, <3>1
    <3>3. j # 1
      BY <1>3, <3>1, <3>2 DEF HeadFree
    <3>4. j > 1 /\ j - 1 \in 1 .. Len(c) /\ (j - 1) + Len(q) = i - 1
      BY <1>1, <2>2, <3>1, <3>3
    <3> HIDE DEF j
    <3>5. t[i - 1] = c[j - 1]
      BY <1>1, <3>4
    <3> QED
      BY <1>3, <3>1, <3>4, <3>5 DEF PairsOf
  <2> QED
    BY <1>1, <2>1, <2>2
<1>4. PairsOf(t)
  BY <1>2, <1>3 DEF PairsOf
<1>5. q # <<>> => t # <<>> /\ t[1] = q[1]
  BY <1>1
<1>6. q = <<>> /\ t # <<>> => c # <<>> /\ t[1] = c[1]
  <2> SUFFICES ASSUME q = <<>>, t # <<>> PROVE c # <<>> /\ t[1] = c[1]
    OBVIOUS
  <2>1. Len(q) = 0 /\ DOMAIN t # {}
    BY <1>1
  <2>2. 1 \in 1 .. Len(c) /\ 1 + 0 = 1
    BY <1>1, <2>1
  <2> QED
    BY <1>1, <2>1, <2>2
<1> QED
  BY <1>4, <1>5, <1>6 DEF HeadFree, t

LEMMA PairsGive ==
  ASSUME NEW q \in Seq(Commands), q # <<>>, PairsOf(q), q[1].kind = "execute", NEW id \in Nat
  PROVE  LET t == [q EXCEPT ![1].id = id]
         IN  /\ t \in Seq(Commands) /\ t # <<>> /\ PairsOf(t)
             /\ t[1].kind = "execute" /\ t[1].call = q[1].call /\ t[1].key = q[1].key
             /\ t[1].id = id
             /\ Closing(t) = Closing(q)
<1> DEFINE t == [q EXCEPT ![1].id = id]
<1>1. 1 \in DOMAIN q /\ DOMAIN q = 1 .. Len(q) /\ q[1] \in Commands
  BY TailIndex
<1>2. [q[1] EXCEPT !.id = id] \in Commands
  BY <1>1, CommandType
<1>3. t = [q EXCEPT ![1] = [q[1] EXCEPT !.id = id]]
  BY <1>1
<1>4. t \in Seq(Commands) /\ DOMAIN t = DOMAIN q /\ Len(t) = Len(q)
  BY <1>1, <1>2, <1>3
<1>5. /\ t[1].kind = q[1].kind /\ t[1].call = q[1].call /\ t[1].key = q[1].key /\ t[1].id = id
      /\ \A i \in DOMAIN q : i # 1 => t[i] = q[i]
  <2>1. /\ t[1] = [q[1] EXCEPT !.id = id]
        /\ \A i \in DOMAIN q : i # 1 => t[i] = q[i]
    BY <1>1
  <2>2. /\ [q[1] EXCEPT !.id = id].id = id /\ [q[1] EXCEPT !.id = id].kind = q[1].kind
        /\ [q[1] EXCEPT !.id = id].key = q[1].key /\ [q[1] EXCEPT !.id = id].call = q[1].call
    BY <1>1 DEF Commands
  <2> QED
    BY <2>1, <2>2
<1> HIDE DEF t
<1>6. \A i \in DOMAIN q : i + 1 # 1
  BY <1>1
<1>7. PairsOf(t)
  <2>1. ASSUME NEW i \in DOMAIN t, t[i].kind = "prepare"
        PROVE  t[i].key \in Keys /\ (t[i].call # 0 => i + 1 \in DOMAIN t /\ Joined(t[i], t[i + 1]))
    BY <1>4, <1>5, <1>6, <2>1 DEF PairsOf
  <2>2. ASSUME NEW i \in DOMAIN t, Paired(t[i]), i > 1
        PROVE  t[i - 1].kind = "prepare" /\ Joined(t[i - 1], t[i])
    <3>1. i \in DOMAIN q /\ t[i] = q[i] /\ i - 1 \in DOMAIN q
      BY <1>1, <1>4, <1>5, <2>2
    <3>2. q[i - 1].kind = "prepare" /\ Joined(q[i - 1], q[i])
      BY <2>2, <3>1 DEF PairsOf
    <3>3. i - 1 # 1
      BY <3>2
    <3> QED
      BY <1>5, <3>1, <3>2, <3>3
  <2> QED
    BY <2>1, <2>2 DEF PairsOf
<1>8. Closing(t) = Closing(q)
  <2>1. \A i \in DOMAIN q : t[i].kind = q[i].kind /\ (q[i].kind = "close" => t[i] = q[i])
    BY <1>5
  <2> QED
    BY <1>4, <2>1 DEF Closing
<1>9. t # <<>>
  BY <1>1, <1>4
<1> QED
  BY <1>4, <1>5, <1>7, <1>8, <1>9 DEF t

LEMMA ClosingFacts ==
  ASSUME NEW q \in Seq(Commands)
  PROVE  /\ \A c \in Seq(Commands) : Closing(q \o c) = Closing(q) \union Closing(c)
         /\ q # <<>> => /\ Closing(Tail(q)) \subseteq Closing(q)
                        /\ Closing(q) \subseteq Closing(Tail(q)) \union {Head(q).id}
                        /\ Head(q).kind # "close" => Closing(Tail(q)) = Closing(q)
                        /\ Head(q).kind = "close" => Head(q).id \in Closing(q)
<1>1. ASSUME NEW c \in Seq(Commands) PROVE Closing(q \o c) = Closing(q) \union Closing(c)
  <2> DEFINE t == q \o c
  <2>1. /\ DOMAIN t = 1 .. Len(q) + Len(c) /\ DOMAIN q = 1 .. Len(q) /\ DOMAIN c = 1 .. Len(c)
        /\ Len(q) \in Nat /\ Len(c) \in Nat
        /\ \A i \in 1 .. Len(q) : t[i] = q[i]
        /\ \A i \in 1 .. Len(c) : t[i + Len(q)] = c[i]
        /\ \A i \in DOMAIN t : i > Len(q) => t[i] = c[i - Len(q)]
        /\ \A i \in DOMAIN t : i \in 1 .. Len(q) \/ i - Len(q) \in 1 .. Len(c)
    <3> HIDE DEF t
    <3> QED
      BY ConcatIndex DEF t
  <2> HIDE DEF t
  <2>2. \A i \in DOMAIN q : i \in DOMAIN t /\ t[i] = q[i]
    BY <2>1
  <2>3. \A i \in DOMAIN c : i + Len(q) \in DOMAIN t /\ t[i + Len(q)] = c[i]
    BY <2>1
  <2>4. ASSUME NEW i \in DOMAIN t
        PROVE  (i \in DOMAIN q /\ t[i] = q[i]) \/ \E j \in DOMAIN c : t[i] = c[j]
    <3>1. CASE i \in 1 .. Len(q)
      BY <2>1, <3>1
    <3>2. CASE i - Len(q) \in 1 .. Len(c)
      <4>1. i > Len(q)
        BY <2>1, <3>2
      <4>2. t[i] = c[i - Len(q)] /\ i - Len(q) \in DOMAIN c
        BY <2>1, <3>2, <4>1
      <4> QED
        BY <4>2
    <3> QED
      BY <2>1, <3>1, <3>2
  <2>5. Closing(t) = Closing(q) \union Closing(c)
    BY <2>2, <2>3, <2>4 DEF Closing
  <2> QED
    BY <2>5 DEF t
<1>2. ASSUME q # <<>>
      PROVE  /\ Closing(Tail(q)) \subseteq Closing(q)
             /\ Closing(q) \subseteq Closing(Tail(q)) \union {Head(q).id}
             /\ Head(q).kind # "close" => Closing(Tail(q)) = Closing(q)
             /\ Head(q).kind = "close" => Head(q).id \in Closing(q)
  <2> DEFINE t == Tail(q)
  <2>1. /\ Head(q) = q[1] /\ 1 \in DOMAIN q
        /\ DOMAIN t = 1 .. Len(q) - 1 /\ DOMAIN q = 1 .. Len(q) /\ Len(q) \in Nat \ {0}
        /\ \A i \in 1 .. Len(q) - 1 : t[i] = q[i + 1]
    <3> HIDE DEF t
    <3> QED
      BY <1>2, TailIndex DEF t
  <2> HIDE DEF t
  <2>2. \A i \in DOMAIN t : i + 1 \in DOMAIN q /\ t[i] = q[i + 1]
    BY <2>1
  <2>3. ASSUME NEW i \in DOMAIN q PROVE i = 1 \/ \E j \in DOMAIN t : t[j] = q[i]
    <3>1. i # 1 => i - 1 \in 1 .. Len(q) - 1 /\ (i - 1) + 1 = i
      BY <2>1
    <3> QED
      BY <2>1, <3>1
  <2> QED
    BY <2>1, <2>2, <2>3 DEF Closing, t
<1> QED
  BY <1>1, <1>2

-----------------------------------------------------------------------------
(* The calls of the user.                                                  *)

\* The commands cs at the end of the queue; the cache, the handles and the
\* statements that the user closed by hand change as a call may change them.
CallStep(cs) ==
    /\ Settled \/ calling
    /\ cs \in Seq(Commands) /\ PairsOf(cs) /\ HeadFree(cs)
    /\ queue' = queue \o cs
    /\ UNCHANGED <<current, open, prepared, incoming, refused, calling, evictOnDelete>>
    /\ calls' \in 0 .. MaxCalls /\ ended' \in BOOLEAN /\ (ended => ended')
    /\ handles' \subseteq handles /\ userClosed \subseteq userClosed'
    /\ userClosed' \subseteq userClosed \union handles
    /\ cache' \in Seq([key : Keys, id : Nat]) /\ Len(cache') <= MaxStatements
    /\ \A i, j \in DOMAIN cache' : cache'[i].key = cache'[j].key => i = j
    /\ \A i \in DOMAIN cache' : \E j \in DOMAIN cache : cache'[i] = cache[j]
    /\ Ids(cache) \subseteq Ids(cache)' \union Closing(cs)
    /\ Closing(cs) \subseteq Ids(cache) \union handles
    /\ Closing(cs) \intersect Ids(cache)' \subseteq userClosed'

\* A call adds its pairs at the end, and closes what the cache or the user
\* let go; what waits and what is active stays as it is.
LEMMA CallKeeps ==
  ASSUME Inv, NEW cs, CallStep(cs)
  PROVE  Inv'
<1>1. /\ queue \in Seq(Commands) /\ cs \in Seq(Commands) /\ PairsOf(queue) /\ PairsOf(cs)
      /\ HeadFree(cs) /\ queue' = queue \o cs
  BY DEF Inv, TypeOK, CallStep
<1>2. /\ PairsOf(queue \o cs)
      /\ queue # <<>> => queue \o cs # <<>> /\ (queue \o cs)[1] = queue[1]
      /\ HeadFree(queue) => HeadFree(queue \o cs)
  BY <1>1, PairsConcat
<1>3. Closing(queue \o cs) = Closing(queue) \union Closing(cs)
  BY <1>1, ClosingFacts
<1>4. Closing(queue)' = Closing(queue) \union Closing(cs) /\ PairsOf(queue)'
  BY <1>1, <1>2, <1>3 DEF Closing, PairsOf
<1>5. Ids(cache)' \subseteq Ids(cache)
  BY DEF CallStep, Ids
<1>6. TypeOK'
  <2>1. queue' \in Seq(Commands)
    BY <1>1, ConcatIndex
  <2>2. (open \union handles \union userClosed \union Ids(cache) \subseteq DOMAIN prepared)'
    BY <1>5 DEF CallStep, Inv, TypeOK
  <2>3. /\ cache' \in Seq([key : Keys, id : Nat]) /\ Len(cache') <= MaxStatements
        /\ \A i, j \in DOMAIN cache' : cache'[i].key = cache'[j].key => i = j
        /\ calls' \in 0 .. MaxCalls /\ ended' \in BOOLEAN
    BY DEF CallStep
  <2>4. UNCHANGED <<current, prepared, incoming, refused, calling, evictOnDelete>>
    BY DEF CallStep
  <2>5. TypeOK
    BY DEF Inv
  <2> QED
    BY <2>1, <2>2, <2>3, <2>4, <2>5 DEF TypeOK
<1>7. HeadInv'
  <2>1. UNCHANGED <<current, prepared, open, calling>>
    BY DEF CallStep
  <2>2. current.kind = "prepare" =>
          /\ current.cmd.key \in Keys
          /\ current.cmd.call # 0 => queue' # <<>> /\ Joined(current.cmd, queue'[1])
    BY <1>1, <1>2 DEF Inv, HeadInv
  <2>3. ASSUME queue' # <<>>, Paired(queue'[1])
        PROVE  current.kind = "prepare" /\ current.cmd.call # 0
    <3>1. ~HeadFree(queue \o cs)
      BY <1>1, <2>3 DEF HeadFree
    <3>2. queue # <<>> /\ Paired(queue[1])
      BY <1>2, <3>1 DEF HeadFree
    <3>3. ~(current = None /\ ~calling)
      BY <3>2 DEF CallStep, Settled
    <3> QED
      BY <3>2, <3>3 DEF Inv, HeadInv, Given
  <2> QED
    BY <2>1, <2>2, <2>3 DEF HeadInv
<1>8. CacheInv'
  <2>1. UNCHANGED <<current, prepared, open>>
    BY DEF CallStep
  <2>2. \A i \in DOMAIN cache' : prepared[cache'[i].id] = cache'[i].key
    BY DEF CallStep, Inv, CacheInv
  <2>3. Forgotten' <=> Forgotten
    BY <2>1 DEF Forgotten
  <2>4. Closing(queue)' \subseteq DOMAIN prepared
    BY <1>4 DEF CallStep, Inv, CacheInv, TypeOK
  <2>5. Closing(queue)' \intersect Ids(cache)' \subseteq userClosed'
    BY <1>4, <1>5 DEF CallStep, Inv, CacheInv
  <2>6. Forgotten \/ Ids(cache)' \subseteq open \union userClosed'
    BY <1>5 DEF CallStep, Inv, CacheInv
  <2>7. Forgotten => open = {}
    BY DEF Inv, CacheInv
  <2> QED
    BY <2>1, <2>2, <2>3, <2>4, <2>5, <2>6, <2>7 DEF CacheInv
<1>9. NewInv'
  <2> SUFFICES ASSUME current'.kind = "prepare"
               PROVE  /\ current'.id \in open'
                      /\ current'.id \notin Ids(cache)' \union handles' \union Closing(queue)'
                      /\ prepared'[current'.id] = current'.cmd.key
                      /\ Keyed(current.cmd.key)' = {}
    BY DEF NewInv
  <2>1. UNCHANGED <<current, prepared, open>> /\ handles' \subseteq handles
        /\ Closing(cs) \subseteq Ids(cache) \union handles
    BY DEF CallStep
  <2>2. /\ current.id \in open /\ prepared[current.id] = current.cmd.key
        /\ current.id \notin Ids(cache) \union handles \union Closing(queue)
        /\ Keyed(current.cmd.key) = {}
    BY <2>1 DEF Inv, NewInv
  <2>3. Keyed(current.cmd.key)' = {}
    BY <2>1, <2>2 DEF CallStep, Keyed
  <2> QED
    BY <1>4, <1>5, <2>1, <2>2, <2>3
<1>10. Kept'
  <2>1. UNCHANGED <<current, open>> /\ (ended => ended')
        /\ Ids(cache) \subseteq Ids(cache)' \union Closing(cs)
    BY DEF CallStep
  <2>2. Kept
    BY DEF Inv
  <2> QED
    BY <1>4, <2>1, <2>2 DEF Kept
<1>11. ExecutesOpenStatement'
  <2>1. UNCHANGED <<current, prepared>> /\ userClosed \subseteq userClosed'
    BY DEF CallStep
  <2>2. ExecutesOpenStatement
    BY DEF Inv
  <2> QED
    BY <2>1, <2>2 DEF ExecutesOpenStatement
<1> QED
  BY <1>4, <1>6, <1>7, <1>8, <1>9, <1>10, <1>11 DEF Inv

\* One command that is no part of a pair.
LEMMA OneCommand ==
  ASSUME NEW e \in Commands, e.kind # "prepare" \/ (e.call = 0 /\ e.key \in Keys), ~Paired(e)
  PROVE  /\ <<e>> \in Seq(Commands) /\ PairsOf(<<e>>) /\ HeadFree(<<e>>)
         /\ Closing(<<e>>) = IF e.kind = "close" THEN {e.id} ELSE {}
<1> DEFINE s == <<e>>
<1>1. s \in Seq(Commands) /\ DOMAIN s = {1} /\ s[1] = e /\ \A i \in DOMAIN s : i = 1
  OBVIOUS
<1> HIDE DEF s
<1>2. PairsOf(s)
  BY <1>1 DEF PairsOf
<1>3. HeadFree(s)
  BY <1>1 DEF HeadFree
<1>4. Closing(s) = IF e.kind = "close" THEN {e.id} ELSE {}
  BY <1>1 DEF Closing
<1> QED
  BY <1>1, <1>2, <1>3, <1>4 DEF s

\* A call that adds commands and leaves the cache alone.
LEMMA PlainCall ==
  ASSUME Inv, NEW cs \in Seq(Commands), Call(cs), PairsOf(cs), HeadFree(cs), UNCHANGED cache,
         handles' \subseteq handles, userClosed \subseteq userClosed',
         userClosed' \subseteq userClosed \union handles,
         Closing(cs) \subseteq handles, Closing(cs) \subseteq userClosed'
  PROVE  Inv'
<1>1. /\ cache \in Seq([key : Keys, id : Nat]) /\ Len(cache) <= MaxStatements
      /\ \A i, j \in DOMAIN cache : cache[i].key = cache[j].key => i = j
      /\ calls \in 0 .. MaxCalls /\ ended \in BOOLEAN
  BY DEF Inv, TypeOK
<1>2. calls' \in 0 .. MaxCalls
  BY <1>1, ConstantsAssumption DEF Call
<1>3. Ids(cache)' = Ids(cache)
  BY DEF Ids
<1>4. CallStep(cs)
  BY <1>1, <1>2, <1>3 DEF Call, CallStep
<1> QED
  BY <1>4, CallKeeps

LEMMA IdOfCache ==
  ASSUME TypeOK, NEW i \in DOMAIN cache
  PROVE  /\ cache[i] \in [key : Keys, id : Nat] /\ cache[i].id \in Ids(cache)
         /\ cache[i].id \in DOMAIN prepared /\ cache[i].id \in Nat /\ cache[i].key \in Keys
<1>1. cache[i] \in [key : Keys, id : Nat]
  <2>1. cache \in Seq([key : Keys, id : Nat])
    BY DEF TypeOK
  <2> QED
    BY <2>1, Element
<1>2. cache[i].id \in Ids(cache)
  BY DEF Ids
<1>3. cache[i].id \in DOMAIN prepared
  BY <1>2 DEF TypeOK
<1> QED
  BY <1>1, <1>2, <1>3

\* Two statements of the cache have two keys and two ids.
LEMMA CacheRemove ==
  ASSUME TypeOK, CacheInv, NEW i \in DOMAIN cache
  PROVE  LET t == RemoveAt(cache, i)
         IN  /\ t \in Seq([key : Keys, id : Nat]) /\ Len(t) = Len(cache) - 1
             /\ Len(cache) \in Nat \ {0}
             /\ \A n \in DOMAIN t : \E j \in DOMAIN cache : t[n] = cache[j] /\ j # i
             /\ \A n, m \in DOMAIN t : t[n].key = t[m].key => n = m
             /\ Ids(t) \subseteq Ids(cache) /\ cache[i].id \notin Ids(t)
             /\ Ids(cache) \subseteq Ids(t) \union {cache[i].id}
<1> DEFINE t == RemoveAt(cache, i)
<1>1. /\ cache \in Seq([key : Keys, id : Nat])
      /\ \A n, m \in DOMAIN cache : cache[n].key = cache[m].key => n = m
      /\ \A n \in DOMAIN cache : prepared[cache[n].id] = cache[n].key
  BY DEF TypeOK, CacheInv
<1>2. /\ t \in Seq([key : Keys, id : Nat]) /\ Len(t) = Len(cache) - 1
      /\ DOMAIN t = 1 .. Len(cache) - 1
      /\ \A j \in 1 .. Len(cache) - 1 : t[j] = IF j < i THEN cache[j] ELSE cache[j + 1]
  BY <1>1, RemoveIndex
<1>3. /\ Ids(t) \subseteq Ids(cache) /\ Ids(cache) \subseteq Ids(t) \union {cache[i].id}
      /\ \A x \in Ids(t) : \E j \in DOMAIN cache : j # i /\ cache[j].id = x
  BY <1>1, IdsFacts
<1> HIDE DEF t
<1>4. DOMAIN cache = 1 .. Len(cache) /\ Len(cache) \in Nat \ {0} /\ i \in 1 .. Len(cache)
  BY <1>1
<1> DEFINE at(n) == IF n < i THEN n ELSE n + 1
<1>5. ASSUME NEW n \in DOMAIN t
      PROVE  at(n) \in DOMAIN cache /\ at(n) # i /\ t[n] = cache[at(n)]
  <2>1. n \in 1 .. Len(cache) - 1 /\ t[n] = IF n < i THEN cache[n] ELSE cache[n + 1]
    BY <1>2
  <2>2. at(n) \in 1 .. Len(cache) /\ at(n) # i
    BY <1>4, <2>1
  <2> QED
    BY <1>4, <2>1, <2>2
<1>6. ASSUME NEW n \in DOMAIN t, NEW m \in DOMAIN t, at(n) = at(m) PROVE n = m
  <2>1. n \in 1 .. Len(cache) - 1 /\ m \in 1 .. Len(cache) - 1
    BY <1>2
  <2> QED
    BY <1>4, <1>6, <2>1
<1> HIDE DEF at
<1>7. \A n, m \in DOMAIN t : t[n].key = t[m].key => n = m
  BY <1>1, <1>5, <1>6
<1>8. cache[i].id \notin Ids(t)
  <2>1. ASSUME NEW j \in DOMAIN cache, j # i PROVE cache[j].id # cache[i].id
    BY <1>1, <2>1
  <2> QED
    BY <1>3, <2>1
<1> QED
  BY <1>2, <1>3, <1>4, <1>5, <1>7, <1>8 DEF t

LEMMA PrepareKeeps == \A key \in Keys : Inv /\ Prepare(key) => Inv'
<1> SUFFICES ASSUME NEW key \in Keys, Inv, Prepare(key) PROVE Inv'
  OBVIOUS
<1> DEFINE e == Cmd("prepare", key, 0, 0)
<1>1. e.kind = "prepare" /\ e.call = 0 /\ e.key = key
  BY DEF Cmd
<1>2. e \in Commands
  BY CommandType DEF Kinds
<1>3. Call(<<e>>) /\ UNCHANGED <<cache, handles, userClosed>>
  BY DEF Prepare
<1> HIDE DEF e
<1>4. <<e>> \in Seq(Commands) /\ PairsOf(<<e>>) /\ HeadFree(<<e>>) /\ Closing(<<e>>) = {}
  BY <1>1, <1>2, OneCommand DEF Paired
<1> QED
  BY <1>3, <1>4, PlainCall

LEMMA ExecuteKeeps == \A key \in Keys : Inv /\ Execute(key) => Inv'
<1> SUFFICES ASSUME NEW key \in Keys, Inv, Execute(key) PROVE Inv'
  OBVIOUS
<1> DEFINE p == Cmd("prepare", key, calls + 1, 0)
           e == Cmd("execute", key, calls + 1, 0)
<1>1. Call(<<p, e>>) /\ UNCHANGED <<cache, handles, userClosed>>
  BY DEF Execute
<1>2. calls + 1 \in 0 .. MaxCalls /\ calls + 1 # 0
  BY ConstantsAssumption DEF Inv, TypeOK, Execute, Call
<1>3. /\ p.kind = "prepare" /\ p.call = calls + 1 /\ p.key = key /\ p.id = 0
      /\ e.kind = "execute" /\ e.call = calls + 1 /\ e.key = key /\ e.id = 0
  BY DEF Cmd
<1>4. p \in Commands /\ e \in Commands
  BY <1>2, CommandType DEF Kinds
<1> HIDE DEF p, e
<1> DEFINE s == <<p, e>>
<1>5. s \in Seq(Commands) /\ DOMAIN s = {1, 2} /\ s[1] = p /\ s[2] = e
  BY <1>4
<1> HIDE DEF s
<1>6. PairsOf(s)
  <2>1. \A i \in DOMAIN s : s[i].kind = "prepare" => i = 1
    BY <1>3, <1>5
  <2>2. \A i \in DOMAIN s : i > 1 => i = 2
    BY <1>5
  <2>3. Joined(s[1], s[2]) /\ s[1].kind = "prepare" /\ s[1].key \in Keys
        /\ 1 + 1 = 2 /\ 2 - 1 = 1 /\ 2 \in DOMAIN s
    BY <1>3, <1>5 DEF Joined
  <2>4. \A i \in DOMAIN s : s[i].kind = "prepare" =>
          s[i].key \in Keys /\ (s[i].call # 0 => i + 1 \in DOMAIN s /\ Joined(s[i], s[i + 1]))
    BY <2>1, <2>3
  <2>5. \A i \in DOMAIN s : Paired(s[i]) /\ i > 1 =>
          s[i - 1].kind = "prepare" /\ Joined(s[i - 1], s[i])
    BY <2>2, <2>3
  <2> QED
    BY <2>4, <2>5 DEF PairsOf
<1>7. HeadFree(s) /\ Closing(s) = {}
  BY <1>3, <1>5 DEF HeadFree, Paired, Closing
<1>8. Call(s)
  BY <1>1 DEF s
<1> QED
  BY <1>1, <1>5, <1>6, <1>7, <1>8, PlainCall

LEMMA HandleKeeps == \A id \in handles : Inv /\ (HandleExecute(id) \/ HandleClose(id)) => Inv'
<1> SUFFICES ASSUME NEW id \in handles, Inv, HandleExecute(id) \/ HandleClose(id) PROVE Inv'
  OBVIOUS
<1>1. id \in Nat /\ prepared[id] \in Keys
  <2>1. id \in DOMAIN prepared /\ prepared \in Seq(Keys)
    BY DEF Inv, TypeOK
  <2> QED
    BY <2>1
<1>2. CASE HandleExecute(id)
  <2> DEFINE e == Cmd("execute", prepared[id], 0, id)
  <2>1. Call(<<e>>) /\ UNCHANGED <<cache, handles, userClosed>>
    BY <1>2 DEF HandleExecute
  <2>2. e.kind = "execute" /\ e.call = 0
    BY DEF Cmd
  <2>3. e \in Commands
    BY <1>1, CommandType DEF Kinds
  <2> HIDE DEF e
  <2>4. <<e>> \in Seq(Commands) /\ PairsOf(<<e>>) /\ HeadFree(<<e>>) /\ Closing(<<e>>) = {}
    BY <2>2, <2>3, OneCommand DEF Paired
  <2> QED
    BY <2>1, <2>4, PlainCall
<1>3. CASE HandleClose(id)
  <2> DEFINE e == Cmd("close", NoKey, 0, id)
  <2>1. /\ Call(<<e>>) /\ UNCHANGED cache
        /\ handles' = handles \ {id} /\ userClosed' = userClosed \union {id}
    BY <1>3 DEF HandleClose
  <2>2. e.kind = "close" /\ e.id = id
    BY DEF Cmd
  <2>3. e \in Commands
    BY <1>1, CommandType DEF Kinds
  <2> HIDE DEF e
  <2>4. <<e>> \in Seq(Commands) /\ PairsOf(<<e>>) /\ HeadFree(<<e>>) /\ Closing(<<e>>) = {id}
    BY <2>2, <2>3, OneCommand DEF Paired
  <2> QED
    BY <2>1, <2>4, PlainCall
<1> QED
  BY <1>2, <1>3

LEMMA ResetCallsKeep == Inv /\ (Reset \/ ChangeUser) => Inv'
<1> SUFFICES ASSUME Inv, NEW k \in {"reset", "change"},
                    Call(<<Cmd(k, NoKey, 0, 0)>>), UNCHANGED <<cache, handles, userClosed>>
             PROVE  Inv'
  BY DEF Reset, ChangeUser
<1> DEFINE e == Cmd(k, NoKey, 0, 0)
<1>1. e.kind = k
  BY DEF Cmd
<1>2. e \in Commands
  BY CommandType DEF Kinds
<1> HIDE DEF e
<1>3. <<e>> \in Seq(Commands) /\ PairsOf(<<e>>) /\ HeadFree(<<e>>) /\ Closing(<<e>>) = {}
  BY <1>1, <1>2, OneCommand DEF Paired
<1>4. Call(<<e>>)
  BY DEF e
<1> QED
  BY <1>3, <1>4, PlainCall

LEMMA EndKeeps == Inv /\ end => Inv'
<1> SUFFICES ASSUME Inv, end PROVE Inv'
  OBVIOUS
<1> DEFINE e == Cmd("quit", NoKey, 0, 0)
           cs == <<e>>
<1>1. e.kind = "quit"
  BY DEF Cmd
<1>2. e \in Commands
  BY CommandType DEF Kinds
<1>3. queue' = queue \o cs
  BY DEF Inv, TypeOK, end
<1> HIDE DEF e
<1>4. cs \in Seq(Commands) /\ PairsOf(cs) /\ HeadFree(cs) /\ Closing(cs) = {}
  BY <1>1, <1>2, OneCommand DEF Paired
<1> HIDE DEF cs
<1>5. /\ cache \in Seq([key : Keys, id : Nat]) /\ Len(cache) <= MaxStatements
      /\ \A i, j \in DOMAIN cache : cache[i].key = cache[j].key => i = j
      /\ calls \in 0 .. MaxCalls
  BY DEF Inv, TypeOK
<1>6. UNCHANGED <<cache, calls, handles, userClosed, current, open, prepared, incoming, refused,
                  calling, evictOnDelete>>
      /\ ended' = TRUE /\ (Settled \/ calling)
  BY DEF end
<1>7. Ids(cache)' = Ids(cache)
  BY <1>6 DEF Ids
<1>8. CallStep(cs)
  BY <1>3, <1>4, <1>5, <1>6, <1>7 DEF CallStep
<1> QED
  BY <1>8, CallKeeps

LEMMA UnprepareKeeps == \A key \in Keys : Inv /\ unprepare(key) => Inv'
<1> SUFFICES ASSUME NEW key \in Keys, Inv, unprepare(key) PROVE Inv'
  OBVIOUS
<1>1. PICK i \in Keyed(key) : /\ Call(CloseDeleted(cache[i]))
                              /\ cache' = RemoveAt(cache, i)
                              /\ handles' = handles \ {cache[i].id}
                              /\ UNCHANGED userClosed
  BY DEF unprepare
<1>2. i \in DOMAIN cache /\ TypeOK /\ CacheInv
  BY DEF Keyed, Inv
<1> DEFINE e == Cmd("close", NoKey, 0, cache[i].id)
           N == IF evictOnDelete THEN 2 ELSE 1
           cs == [n \in 1 .. N |-> e]
<1>3. CloseDeleted(cache[i]) = cs
  BY DEF CloseDeleted
<1>4. e \in Commands /\ e.kind = "close" /\ e.id = cache[i].id
  <2>1. e.kind = "close" /\ e.id = cache[i].id
    BY DEF Cmd
  <2>2. cache[i].id \in Nat
    BY <1>2, IdOfCache
  <2>3. e \in Commands
    BY <2>2, CommandType DEF Kinds
  <2> QED
    BY <2>1, <2>3
<1> HIDE DEF e
<1>5. /\ cs \in Seq(Commands) /\ 1 \in DOMAIN cs /\ cs[1] = e
      /\ \A n \in DOMAIN cs : cs[n] = e
  <2>1. N \in Nat /\ 1 \in 1 .. N
    OBVIOUS
  <2> HIDE DEF N
  <2> QED
    BY <1>4, <2>1
<1> HIDE DEF cs
<1>6. PairsOf(cs) /\ HeadFree(cs) /\ Closing(cs) = {cache[i].id}
  <2>1. PairsOf(cs) /\ HeadFree(cs)
    BY <1>4, <1>5 DEF PairsOf, HeadFree, Paired
  <2>2. Closing(cs) = {cache[i].id}
    BY <1>4, <1>5 DEF Closing
  <2> QED
    BY <2>1, <2>2
<1> DEFINE t == RemoveAt(cache, i)
<1>7. /\ t \in Seq([key : Keys, id : Nat]) /\ Len(t) = Len(cache) - 1 /\ Len(cache) \in Nat \ {0}
      /\ \A n \in DOMAIN t : \E j \in DOMAIN cache : t[n] = cache[j]
      /\ \A n, m \in DOMAIN t : t[n].key = t[m].key => n = m
      /\ Ids(t) \subseteq Ids(cache) /\ cache[i].id \notin Ids(t)
      /\ Ids(cache) \subseteq Ids(t) \union {cache[i].id}
  BY <1>2, CacheRemove
<1> HIDE DEF t
<1>8. cache' = t /\ Ids(cache)' = Ids(t)
  BY <1>1 DEF t, Ids
<1>9. /\ UNCHANGED <<current, open, prepared, incoming, ended, refused, calling, evictOnDelete>>
      /\ (Settled \/ calling) /\ queue' = queue \o cs /\ calls' = calls + 1 /\ calls < MaxCalls
      /\ handles' \subseteq handles /\ UNCHANGED userClosed
  BY <1>1, <1>3 DEF Call
<1>10. calls' \in 0 .. MaxCalls /\ ended \in BOOLEAN /\ Len(t) <= MaxStatements
  BY <1>2, <1>7, <1>9, ConstantsAssumption DEF TypeOK
<1>11. cache[i].id \in Ids(cache)
  BY <1>2, IdOfCache
<1>12. CallStep(cs)
  BY <1>5, <1>6, <1>7, <1>8, <1>9, <1>10, <1>11 DEF CallStep
<1> QED
  BY <1>12, CallKeeps

-----------------------------------------------------------------------------
(* The steps of the driver.                                                *)

\* The closes of evicted or deleted statements.
LEMMA ClosesFacts ==
  ASSUME TypeOK, NEW q \in Seq(Commands), NEW st \in Seq([key : Keys, id : Nat]), CloseEach(q, st)
  PROVE  /\ refused' \in Nat
         /\ \E cs \in Seq(Commands) :
              /\ queue' = q \o cs /\ PairsOf(cs) /\ HeadFree(cs)
              /\ Closing(cs) \subseteq Ids(st)
              /\ ~ended => Closing(cs) = Ids(st)
<1>1. refused \in Nat /\ Len(st) \in Nat
  BY DEF TypeOK
<1>2. CASE ended
  <2>1. queue' = q /\ refused' = refused + Len(st)
    BY <1>2 DEF CloseEach
  <2>2. refused' \in Nat
    BY <1>1, <2>1
  <2>3. q \o <<>> = q /\ <<>> \in Seq(Commands) /\ DOMAIN <<>> = {}
    OBVIOUS
  <2>4. PairsOf(<<>>) /\ HeadFree(<<>>) /\ Closing(<<>>) = {}
    BY <2>3 DEF PairsOf, HeadFree, Closing
  <2> QED
    BY <1>2, <2>1, <2>2, <2>3, <2>4
<1>3. CASE ~ended
  <2> DEFINE cs == [i \in DOMAIN st |-> Cmd("close", NoKey, 0, st[i].id)]
  <2>1. queue' = q \o cs /\ refused' = refused
    BY <1>3 DEF CloseEach
  <2>2. \A i \in DOMAIN st : Cmd("close", NoKey, 0, st[i].id) \in Commands
    <3> SUFFICES ASSUME NEW i \in DOMAIN st PROVE Cmd("close", NoKey, 0, st[i].id) \in Commands
      OBVIOUS
    <3>1. st[i] \in [key : Keys, id : Nat]
      BY Element
    <3>2. st[i].id \in Nat
      BY <3>1
    <3> QED
      BY <3>2, CommandType DEF Kinds
  <2>3. cs \in Seq(Commands) /\ DOMAIN cs = DOMAIN st
    <3>1. DOMAIN st = 1 .. Len(st)
      OBVIOUS
    <3>2. cs \in [1 .. Len(st) -> Commands]
      BY <2>2, <3>1
    <3> QED
      BY <1>1, <3>1, <3>2
  <2>4. \A i \in DOMAIN cs : cs[i].kind = "close" /\ cs[i].id = st[i].id
    BY DEF Cmd
  <2> HIDE DEF cs
  <2>5. PairsOf(cs)
    BY <2>4 DEF PairsOf, Paired
  <2>6. HeadFree(cs)
    <3>1. cs # <<>> => 1 \in DOMAIN cs
      BY <2>3
    <3> QED
      BY <2>4, <3>1 DEF HeadFree, Paired
  <2>7. Closing(cs) = Ids(st)
    BY <2>3, <2>4 DEF Closing, Ids
  <2> QED
    BY <1>1, <2>1, <2>3, <2>5, <2>6, <2>7
<1> QED
  BY <1>2, <1>3

\* q0 is what is left of the queue, cs the closes behind it; no Prepare
\* becomes or stays active.
DriveStep(q0, cs) ==
    /\ q0 \in Seq(Commands) /\ PairsOf(q0) /\ HeadFree(q0) /\ Closing(q0) \subseteq Closing(queue)
    /\ cs \in Seq(Commands) /\ PairsOf(cs) /\ HeadFree(cs)
    /\ Closing(cs) \subseteq Ids(cache)
    /\ queue' = q0 \o cs
    /\ current' \in Executing \union Resetting \union [kind : {"none", "change", "quit"}]
    /\ UNCHANGED <<prepared, incoming, userClosed, ended, calls, evictOnDelete>>
    /\ calling' \in BOOLEAN /\ refused' \in Nat
    /\ open' \subseteq open /\ handles' \subseteq handles
    /\ (cache' = cache /\ cs = <<>>) \/ cache' = <<>>

LEMMA DriveKeeps ==
  ASSUME Inv, NEW q0, NEW cs, DriveStep(q0, cs),
         ended \/ open' \subseteq Ids(cache)' \union Closing(q0) \union Closing(cs),
         Forgotten' \/ Ids(cache)' \subseteq open' \union userClosed,
         Forgotten' => open' = {},
         ExecutesOpenStatement'
  PROVE  Inv'
<1>1. /\ q0 \in Seq(Commands) /\ cs \in Seq(Commands) /\ PairsOf(q0) /\ PairsOf(cs)
      /\ HeadFree(q0) /\ HeadFree(cs) /\ queue' = q0 \o cs
  BY DEF DriveStep
<1>2. PairsOf(q0 \o cs) /\ HeadFree(q0 \o cs) /\ q0 \o cs \in Seq(Commands)
  BY <1>1, PairsConcat, ConcatIndex
<1>3. Closing(q0 \o cs) = Closing(q0) \union Closing(cs)
  BY <1>1, ClosingFacts
<1>4. Closing(queue)' = Closing(q0) \union Closing(cs) /\ PairsOf(queue)'
  BY <1>1, <1>2, <1>3 DEF Closing, PairsOf
<1>5. Ids(<<>>) = {} /\ Closing(<<>>) = {} /\ DOMAIN <<>> = {}
  BY DEF Ids, Closing
<1>6. (Ids(cache)' = Ids(cache) /\ Closing(cs) = {}) \/ Ids(cache)' = {}
  BY <1>5 DEF DriveStep, Ids
<1>7. current'.kind # "prepare"
  BY DEF DriveStep, Executing, Resetting
<1>8. /\ cache' \in Seq([key : Keys, id : Nat]) /\ Len(cache') <= MaxStatements
      /\ \A i, j \in DOMAIN cache' : cache'[i].key = cache'[j].key => i = j
      /\ \A i \in DOMAIN cache' : prepared[cache'[i].id] = cache'[i].key
  <2>1. CASE cache' = cache
    BY <2>1 DEF Inv, TypeOK, CacheInv
  <2>2. CASE cache' = <<>>
    <3>1. DOMAIN cache' = {} /\ Len(cache') = 0
      BY <1>5, <2>2
    <3>2. cache' \in Seq([key : Keys, id : Nat])
      BY <2>2
    <3>3. Len(cache') <= MaxStatements
      BY <3>1, ConstantsAssumption
    <3> QED
      BY <3>1, <3>2, <3>3
  <2> QED
    BY <2>1, <2>2 DEF DriveStep
<1>9. TypeOK'
  <2>1. (open \union handles \union userClosed \union Ids(cache) \subseteq DOMAIN prepared)'
    BY <1>6 DEF DriveStep, Inv, TypeOK
  <2>2. /\ UNCHANGED <<prepared, incoming, userClosed, ended, calls, evictOnDelete>>
        /\ calling' \in BOOLEAN /\ refused' \in Nat
        /\ current' \in Executing \union Resetting \union [kind : {"none", "change", "quit"}]
    BY DEF DriveStep
  <2>3. TypeOK
    BY DEF Inv
  <2> QED
    BY <1>1, <1>2, <1>8, <2>1, <2>2, <2>3 DEF TypeOK
<1>10. HeadInv' /\ NewInv'
  BY <1>1, <1>2, <1>7 DEF HeadInv, NewInv, HeadFree
<1>11. CacheInv'
  <2>1. UNCHANGED <<prepared, userClosed>>
    BY DEF DriveStep
  <2>2. Closing(queue)' \subseteq DOMAIN prepared
    BY <1>4 DEF DriveStep, Inv, CacheInv, TypeOK
  <2>3. Closing(queue)' \intersect Ids(cache)' \subseteq userClosed
    BY <1>4, <1>6 DEF DriveStep, Inv, CacheInv
  <2> QED
    BY <1>8, <2>1, <2>2, <2>3 DEF CacheInv
<1>12. Kept'
  BY <1>4 DEF Kept, DriveStep
<1> QED
  BY <1>4, <1>9, <1>10, <1>11, <1>12 DEF Inv

\* The driver takes a command that is no Prepare and no Execute of a pair
\* with its Prepare still waiting.
LEMMA TakeHead ==
  ASSUME Inv, queue # <<>>, Head(queue).kind = "prepare" => Head(queue).call = 0
  PROVE  /\ Tail(queue) \in Seq(Commands) /\ PairsOf(Tail(queue)) /\ HeadFree(Tail(queue))
         /\ Closing(Tail(queue)) \subseteq Closing(queue)
         /\ Closing(queue) \subseteq Closing(Tail(queue)) \union {Head(queue).id}
         /\ Head(queue).kind # "close" => Closing(Tail(queue)) = Closing(queue)
         /\ Head(queue).kind = "close" => Head(queue).id \in Closing(queue)
         /\ Tail(queue) \o <<>> = Tail(queue) /\ Head(queue) \in Commands
<1>1. queue \in Seq(Commands) /\ PairsOf(queue)
  BY DEF Inv, TypeOK
<1>2. Head(queue) = queue[1] /\ Head(queue) \in Commands /\ Tail(queue) \in Seq(Commands)
  BY <1>1, TailIndex
<1>3. PairsOf(Tail(queue)) /\ HeadFree(Tail(queue))
  BY <1>1, <1>2, PairsTail
<1>4. Tail(queue) \o <<>> = Tail(queue)
  BY <1>2
<1> QED
  BY <1>1, <1>2, <1>3, <1>4, ClosingFacts

LEMMA NoCloses ==
  <<>> \in Seq(Commands) /\ PairsOf(<<>>) /\ HeadFree(<<>>) /\ Closing(<<>>) = {}
<1>1. <<>> \in Seq(Commands) /\ DOMAIN <<>> = {}
  OBVIOUS
<1> QED
  BY <1>1 DEF PairsOf, HeadFree, Closing

LEMMA CloseKeeps == Inv /\ CloseStatementStart => Inv'
<1> SUFFICES ASSUME Inv, CloseStatementStart PROVE Inv'
  OBVIOUS
<1> DEFINE h == Head(queue)
           t == Tail(queue)
<1>1. /\ current = None /\ queue # <<>> /\ h.kind = "close"
      /\ open' = open \ {h.id} /\ queue' = t /\ calling' = FALSE
      /\ UNCHANGED <<current, cache, prepared, incoming, handles, userClosed, ended, refused,
                     calls, evictOnDelete>>
  BY DEF CloseStatementStart
<1>2. /\ t \in Seq(Commands) /\ PairsOf(t) /\ HeadFree(t) /\ Closing(t) \subseteq Closing(queue)
      /\ Closing(queue) \subseteq Closing(t) \union {h.id} /\ h.id \in Closing(queue)
      /\ t \o <<>> = t
  BY <1>1, TakeHead
<1> HIDE DEF h, t
<1>3. /\ Ids(cache)' = Ids(cache) /\ current.kind = "none" /\ (Forgotten' <=> FALSE)
      /\ ~Forgotten /\ refused \in Nat
  BY <1>1 DEF Ids, Forgotten, None, Inv, TypeOK
<1>4. DriveStep(t, <<>>)
  <2>1. current' \in [kind : {"none", "change", "quit"}]
    BY <1>1 DEF None
  <2> QED
    BY <1>1, <1>2, <1>3, <2>1, NoCloses DEF DriveStep
<1>5. Forgotten' \/ Ids(cache)' \subseteq open' \union userClosed
  BY <1>1, <1>2, <1>3 DEF Inv, CacheInv
<1>6. ended \/ open' \subseteq Ids(cache)' \union Closing(t) \union Closing(<<>>)
  BY <1>1, <1>2, <1>3 DEF Inv, Kept
<1>7. ExecutesOpenStatement'
  BY <1>1, <1>3 DEF ExecutesOpenStatement
<1> QED
  BY <1>3, <1>4, <1>5, <1>6, <1>7, DriveKeeps

LEMMA QuitKeeps == Inv /\ QuitStart => Inv'
<1> SUFFICES ASSUME Inv, QuitStart PROVE Inv'
  OBVIOUS
<1> DEFINE h == Head(queue)
           t == Tail(queue)
<1>1. /\ current = None /\ queue # <<>> /\ h.kind = "quit"
      /\ current' = [kind |-> "quit"]
      /\ open' = {} /\ queue' = t /\ calling' = FALSE
      /\ UNCHANGED <<cache, prepared, incoming, handles, userClosed, ended, refused,
                     calls, evictOnDelete>>
  BY DEF QuitStart
<1>2. /\ t \in Seq(Commands) /\ PairsOf(t) /\ HeadFree(t) /\ Closing(t) \subseteq Closing(queue)
      /\ t \o <<>> = t
  BY <1>1, TakeHead
<1> HIDE DEF h, t
<1>3. /\ Forgotten' /\ current'.kind = "quit" /\ refused \in Nat
      /\ current' \in [kind : {"none", "change", "quit"}]
  BY <1>1 DEF Forgotten, Inv, TypeOK
<1>4. DriveStep(t, <<>>)
  BY <1>1, <1>2, <1>3, NoCloses DEF DriveStep
<1>5. ExecutesOpenStatement'
  BY <1>3 DEF ExecutesOpenStatement
<1> QED
  BY <1>1, <1>3, <1>4, <1>5, DriveKeeps

LEMMA ResetStartKeeps == \A ok \in BOOLEAN : Inv /\ ResetStart(ok) => Inv'
<1> SUFFICES ASSUME NEW ok \in BOOLEAN, Inv, ResetStart(ok) PROVE Inv'
  OBVIOUS
<1> DEFINE h == Head(queue)
           t == Tail(queue)
<1>1. /\ current = None /\ queue # <<>> /\ h.kind = "reset"
      /\ current' = [kind |-> "reset", ok |-> ok]
      /\ open' = (IF ok THEN {} ELSE open) /\ handles' = (IF ok THEN {} ELSE handles)
      /\ queue' = t /\ calling' = FALSE
      /\ UNCHANGED <<cache, prepared, incoming, userClosed, ended, refused, calls, evictOnDelete>>
  BY DEF ResetStart
<1>2. /\ t \in Seq(Commands) /\ PairsOf(t) /\ HeadFree(t) /\ Closing(t) = Closing(queue)
      /\ t \o <<>> = t
  BY <1>1, TakeHead
<1> HIDE DEF h, t
<1>3. /\ (Forgotten' <=> ok) /\ current'.kind = "reset" /\ refused \in Nat
      /\ current' \in Resetting /\ Ids(cache)' = Ids(cache)
      /\ ~Forgotten /\ current.kind = "none"
  BY <1>1 DEF Forgotten, Inv, TypeOK, Resetting, Ids, None
<1>4. DriveStep(t, <<>>)
  BY <1>1, <1>2, <1>3, NoCloses DEF DriveStep
<1>5. ExecutesOpenStatement'
  BY <1>3 DEF ExecutesOpenStatement
<1>6. Forgotten' \/ Ids(cache)' \subseteq open' \union userClosed
  BY <1>1, <1>3 DEF Inv, CacheInv
<1>7. ended \/ open' \subseteq Ids(cache)' \union Closing(t) \union Closing(<<>>)
  BY <1>1, <1>2, <1>3 DEF Inv, Kept
<1>8. Forgotten' => open' = {}
  BY <1>1, <1>3
<1> QED
  BY <1>4, <1>5, <1>6, <1>7, <1>8, DriveKeeps

LEMMA ChangeUserKeeps == Inv /\ ChangeUserStart => Inv'
<1> SUFFICES ASSUME Inv, ChangeUserStart PROVE Inv'
  OBVIOUS
<1> DEFINE h == Head(queue)
           t == Tail(queue)
<1>1. /\ current = None /\ queue # <<>> /\ h.kind = "change"
      /\ current' = [kind |-> "change"]
      /\ open' = {} /\ handles' = {} /\ cache' = <<>> /\ CloseEach(t, Deleted(cache))
      /\ calling' = FALSE
      /\ UNCHANGED <<prepared, incoming, userClosed, ended, calls, evictOnDelete>>
  BY DEF ChangeUserStart
<1>2. /\ t \in Seq(Commands) /\ PairsOf(t) /\ HeadFree(t) /\ Closing(t) \subseteq Closing(queue)
  BY <1>1, TakeHead
<1> HIDE DEF h, t
<1>3. /\ ~Forgotten' /\ current'.kind = "change"
      /\ current' \in [kind : {"none", "change", "quit"}]
  BY <1>1 DEF Forgotten
<1>4. Deleted(cache) \in Seq([key : Keys, id : Nat]) /\ Ids(Deleted(cache)) \subseteq Ids(cache) /\ TypeOK
      /\ Ids(cache)' = {}
  <2>1. cache \in Seq([key : Keys, id : Nat]) /\ <<>> \in Seq([key : Keys, id : Nat]) /\ Ids(<<>>) = {}
    BY DEF Inv, TypeOK, Ids
  <2> QED
    BY <1>1, <2>1 DEF Deleted, Inv, Ids
<1>5. PICK cs \in Seq(Commands) : /\ queue' = t \o cs /\ PairsOf(cs) /\ HeadFree(cs)
                                  /\ Closing(cs) \subseteq Ids(Deleted(cache))
  BY <1>1, <1>2, <1>4, ClosesFacts
<1>6. refused' \in Nat
  BY <1>1, <1>2, <1>4, ClosesFacts
<1>7. DriveStep(t, cs)
  BY <1>1, <1>2, <1>3, <1>4, <1>5, <1>6 DEF DriveStep
<1>8. ExecutesOpenStatement'
  BY <1>3 DEF ExecutesOpenStatement
<1> QED
  BY <1>1, <1>3, <1>4, <1>7, <1>8, DriveKeeps

\* A command that is active and no Prepare has no Execute of a pair behind it.
LEMMA ActiveHeadFree ==
  ASSUME Inv, current # None, current.kind # "prepare" PROVE HeadFree(queue)
BY DEF Inv, HeadInv, Given, HeadFree

LEMMA ResponseKeeps == Inv /\ Response => Inv'
<1> SUFFICES ASSUME Inv, Response PROVE Inv'
  OBVIOUS
<1>1. /\ current.kind \in {"execute", "reset", "change"} /\ current' = None /\ calling' = TRUE
      /\ UNCHANGED <<open, prepared, incoming, handles, userClosed, ended, calls, evictOnDelete>>
  BY DEF Response
<1>2. /\ current.kind # "prepare" /\ current # None
      /\ ~Forgotten' /\ current' \in [kind : {"none", "change", "quit"}] /\ current'.kind = "none"
  BY <1>1 DEF None, Forgotten
<1>3. queue \in Seq(Commands) /\ PairsOf(queue) /\ HeadFree(queue) /\ queue \o <<>> = queue
      /\ TypeOK /\ refused \in Nat
  BY <1>2, ActiveHeadFree DEF Inv, TypeOK
<1>4. ExecutesOpenStatement'
  BY <1>2 DEF ExecutesOpenStatement
<1>5. CASE current.kind = "reset" /\ current.ok
  <2>1. cache' = <<>> /\ CloseEach(queue, Deleted(cache))
    BY <1>5 DEF Response, resetConnectionResponse
  <2>2. open = {}
    BY <1>5 DEF Forgotten, Inv, CacheInv
  <2>3. Deleted(cache) \in Seq([key : Keys, id : Nat]) /\ Ids(Deleted(cache)) \subseteq Ids(cache)
        /\ Ids(cache)' = {}
    <3>1. cache \in Seq([key : Keys, id : Nat]) /\ <<>> \in Seq([key : Keys, id : Nat]) /\ Ids(<<>>) = {}
      BY DEF Inv, TypeOK, Ids
    <3> QED
      BY <2>1, <3>1 DEF Deleted, Ids
  <2>4. PICK cs \in Seq(Commands) : /\ queue' = queue \o cs /\ PairsOf(cs) /\ HeadFree(cs)
                                    /\ Closing(cs) \subseteq Ids(Deleted(cache))
    BY <1>3, <2>1, <2>3, ClosesFacts
  <2>5. refused' \in Nat
    BY <1>3, <2>1, <2>3, ClosesFacts
  <2>6. DriveStep(queue, cs)
    BY <1>1, <1>2, <1>3, <2>1, <2>3, <2>4, <2>5 DEF DriveStep
  <2> QED
    BY <1>1, <1>2, <1>4, <2>2, <2>3, <2>6, DriveKeeps
<1>6. CASE ~(current.kind = "reset" /\ current.ok)
  <2>1. UNCHANGED <<cache, queue, refused>>
    BY <1>6 DEF Response, resetConnectionResponse
  <2>2. DriveStep(queue, <<>>)
    BY <1>1, <1>2, <1>3, <2>1, NoCloses DEF DriveStep
  <2>3. ~Forgotten /\ Ids(cache)' = Ids(cache)
    BY <1>1, <1>6, <2>1 DEF Forgotten, Ids
  <2>4. Ids(cache)' \subseteq open' \union userClosed
    BY <1>1, <2>3 DEF Inv, CacheInv
  <2>5. ended \/ open' \subseteq Ids(cache)' \union Closing(queue) \union Closing(<<>>)
    BY <1>1, <1>2, <2>3 DEF Inv, Kept
  <2> QED
    BY <1>2, <1>4, <2>2, <2>4, <2>5, DriveKeeps
<1> QED
  BY <1>5, <1>6

\* The Execute of a pair comes first only when its statement was given.
LEMMA ExecuteStartKeeps == Inv /\ ExecuteStart => Inv'
<1> SUFFICES ASSUME Inv, ExecuteStart PROVE Inv'
  OBVIOUS
<1> DEFINE h == Head(queue)
           t == Tail(queue)
<1>1. /\ current = None /\ queue # <<>> /\ h.kind = "execute"
      /\ current' = [kind |-> "execute", cmd |-> h, known |-> h.id \in open]
      /\ queue' = t /\ calling' = FALSE
      /\ UNCHANGED <<cache, open, prepared, incoming, handles, userClosed, ended, refused,
                     calls, evictOnDelete>>
  BY DEF ExecuteStart
<1>2. /\ t \in Seq(Commands) /\ PairsOf(t) /\ HeadFree(t) /\ Closing(t) = Closing(queue)
      /\ t \o <<>> = t /\ h \in Commands
  BY <1>1, TakeHead
<1>3. h = queue[1]
  BY <1>1, TailIndex DEF Inv, TypeOK
<1> HIDE DEF h, t
<1>4. /\ current' \in Executing /\ ~Forgotten' /\ ~Forgotten /\ current.kind = "none"
      /\ Ids(cache)' = Ids(cache) /\ refused \in Nat
      /\ current'.kind = "execute" /\ current'.cmd = h /\ current'.known = (h.id \in open)
  BY <1>1, <1>2 DEF Executing, Forgotten, None, Ids, Inv, TypeOK
<1>5. DriveStep(t, <<>>)
  BY <1>1, <1>2, <1>4, NoCloses DEF DriveStep
<1>6. ExecutesOpenStatement'
  <2> SUFFICES ASSUME h.call # 0
               PROVE  /\ h.id # 0 /\ prepared[h.id] = h.key
                      /\ h.id \in open \/ h.id \in userClosed
    BY <1>1, <1>4 DEF ExecutesOpenStatement
  <2>1. Given(h)
    BY <1>1, <1>3, <1>4 DEF Inv, HeadInv, Paired
  <2>2. \A id \in DOMAIN prepared : id # 0
    BY DEF Inv, TypeOK
  <2> QED
    BY <2>1, <2>2 DEF Given
<1>7. Ids(cache)' \subseteq open' \union userClosed
  BY <1>1, <1>4 DEF Inv, CacheInv
<1>8. ended \/ open' \subseteq Ids(cache)' \union Closing(t) \union Closing(<<>>)
  BY <1>1, <1>2, <1>4 DEF Inv, Kept
<1> QED
  BY <1>4, <1>5, <1>6, <1>7, <1>8, DriveKeeps

\* The server refuses: a Prepare goes, and the Execute of its pair with it.
LEMMA PrepareErrorKeeps == Inv /\ PrepareError => Inv'
<1> SUFFICES ASSUME Inv, PrepareError PROVE Inv'
  OBVIOUS
<1> DEFINE h == Head(queue)
           t == Tail(queue)
           q0 == IF h.call = 0 THEN t ELSE Tail(t)
<1>1. /\ current = None /\ queue # <<>> /\ h.kind = "prepare" /\ queue' = q0 /\ calling' = TRUE
      /\ UNCHANGED <<current, cache, open, prepared, incoming, handles, userClosed, ended,
                     refused, calls, evictOnDelete>>
  BY DEF PrepareError
<1>2. /\ queue \in Seq(Commands) /\ PairsOf(queue) /\ h = queue[1]
      /\ t \in Seq(Commands) /\ PairsOf(t) /\ Closing(t) = Closing(queue)
      /\ h.call # 0 => t # <<>> /\ Joined(h, t[1])
      /\ h.call = 0 => HeadFree(t)
  <2>1. queue \in Seq(Commands) /\ PairsOf(queue)
    BY DEF Inv, TypeOK
  <2>2. h = queue[1] /\ t \in Seq(Commands)
    BY <1>1, <2>1, TailIndex
  <2>3. PairsOf(t) /\ (h.call # 0 => t # <<>> /\ Joined(h, t[1])) /\ (h.call = 0 => HeadFree(t))
    BY <1>1, <2>1, <2>2, PairsTail
  <2>4. Closing(t) = Closing(queue)
    BY <1>1, <2>1, ClosingFacts
  <2> QED
    BY <2>1, <2>2, <2>3, <2>4
<1> HIDE DEF h, t
<1>3. q0 \in Seq(Commands) /\ PairsOf(q0) /\ HeadFree(q0) /\ Closing(q0) = Closing(queue)
  <2>1. CASE h.call = 0
    BY <1>2, <2>1
  <2>2. CASE h.call # 0
    <3>1. t # <<>> /\ t[1].kind = "execute"
      BY <1>2, <2>2 DEF Joined
    <3>2. Head(t) = t[1] /\ Tail(t) \in Seq(Commands)
      BY <1>2, <3>1, TailIndex
    <3>3. PairsOf(Tail(t)) /\ HeadFree(Tail(t))
      BY <1>2, <3>1, PairsTail
    <3>4. Closing(Tail(t)) = Closing(t)
      BY <1>2, <3>1, <3>2, ClosingFacts
    <3> QED
      BY <1>2, <2>2, <3>2, <3>3, <3>4
  <2> QED
    BY <2>1, <2>2
<1> HIDE DEF q0
<1>4. q0 \o <<>> = q0
  BY <1>3
<1>5. /\ Ids(cache)' = Ids(cache) /\ current'.kind = "none" /\ current.kind = "none"
      /\ current' \in [kind : {"none", "change", "quit"}]
      /\ ~Forgotten' /\ ~Forgotten /\ refused \in Nat
  BY <1>1 DEF Ids, None, Forgotten, Inv, TypeOK
<1>6. DriveStep(q0, <<>>)
  BY <1>1, <1>3, <1>4, <1>5, NoCloses DEF DriveStep
<1>7. Ids(cache)' \subseteq open' \union userClosed
  BY <1>1, <1>5 DEF Inv, CacheInv
<1>8. ended \/ open' \subseteq Ids(cache)' \union Closing(q0) \union Closing(<<>>)
  BY <1>1, <1>3, <1>5 DEF Inv, Kept
<1>9. ExecutesOpenStatement'
  BY <1>5 DEF ExecutesOpenStatement
<1> QED
  BY <1>5, <1>6, <1>7, <1>8, <1>9, DriveKeeps

\* A statement at the end of a cache that has no other of its key.
Distinct(s) == \A n, m \in DOMAIN s : s[n].key = s[m].key => n = m
Lacks(s, key) == \A n \in DOMAIN s : s[n].key # key

\* t is s with the statement x behind it.
Appended(t, s, x) ==
    /\ t \in Seq([key : Keys, id : Nat]) /\ Len(t) = Len(s) + 1
    /\ Distinct(t)
    /\ \A n \in DOMAIN t : t[n] = x \/ \E m \in DOMAIN s : t[n] = s[m]
    /\ Ids(t) = Ids(s) \union {x.id}

LEMMA AppendStatement ==
  ASSUME NEW s \in Seq([key : Keys, id : Nat]), NEW x \in [key : Keys, id : Nat],
         Distinct(s), Lacks(s, x.key)
  PROVE  Appended(Append(s, x), s, x)
<1> DEFINE t == Append(s, x)
<1>1. /\ t \in Seq([key : Keys, id : Nat]) /\ Len(t) = Len(s) + 1
      /\ DOMAIN t = 1 .. Len(s) + 1 /\ DOMAIN s = 1 .. Len(s) /\ Len(s) \in Nat
      /\ t[Len(s) + 1] = x /\ \A n \in 1 .. Len(s) : t[n] = s[n]
  OBVIOUS
<1>2. Ids(t) = Ids(s) \union {x.id}
  <2>1. \A y \in [key : Keys, id : Nat] : Ids(Append(s, y)) = Ids(s) \union {y.id}
    BY IdsFacts
  <2> QED
    BY <2>1
<1> HIDE DEF t
<1>3. \A n \in DOMAIN t : (n \in DOMAIN s /\ t[n] = s[n]) \/ (n = Len(s) + 1 /\ t[n] = x)
  BY <1>1
<1>4. Distinct(t)
  BY <1>3 DEF Distinct, Lacks
<1> QED
  BY <1>1, <1>2, <1>3, <1>4 DEF t, Appended

\* What a Prepare from the cache gives away is open, or the user closed it.
LEMMA PrepareFromCacheKeeps == Inv /\ PrepareFromCache => Inv'
<1> SUFFICES ASSUME Inv, PrepareFromCache PROVE Inv'
  OBVIOUS
<1> DEFINE h == Head(queue)
           t == Tail(queue)
<1>1. current = None /\ queue # <<>> /\ h.kind = "prepare" /\ TypeOK /\ CacheInv
      /\ UNCHANGED <<current, open, prepared, incoming, userClosed, ended, refused, calls,
                     evictOnDelete>>
  BY DEF PrepareFromCache, Inv
<1>2. PICK i \in Keyed(h.key) :
         /\ cache' = Append(RemoveAt(cache, i), cache[i])
         /\ queue' = Give(t, h, cache[i].id)
         /\ handles' = (IF h.call = 0 THEN handles \cup {cache[i].id} ELSE handles)
         /\ calling' = (h.call = 0)
  BY DEF PrepareFromCache
<1>3. /\ queue \in Seq(Commands) /\ PairsOf(queue) /\ h = queue[1]
      /\ t \in Seq(Commands) /\ PairsOf(t) /\ Closing(t) = Closing(queue)
      /\ h.call # 0 => t # <<>> /\ Joined(h, t[1])
      /\ h.call = 0 => HeadFree(t)
  <2>1. queue \in Seq(Commands) /\ PairsOf(queue)
    BY DEF Inv, TypeOK
  <2>2. h = queue[1] /\ t \in Seq(Commands)
    BY <1>1, <2>1, TailIndex
  <2>3. PairsOf(t) /\ (h.call # 0 => t # <<>> /\ Joined(h, t[1])) /\ (h.call = 0 => HeadFree(t))
    BY <1>1, <2>1, <2>2, PairsTail
  <2>4. Closing(t) = Closing(queue)
    BY <1>1, <2>1, ClosingFacts
  <2> QED
    BY <2>1, <2>2, <2>3, <2>4
<1> HIDE DEF h, t
<1>4. i \in DOMAIN cache /\ cache[i].key = h.key
  BY DEF Keyed
<1> DEFINE id == cache[i].id
           c0 == RemoveAt(cache, i)
           c == Append(c0, cache[i])
<1>5. /\ cache[i] \in [key : Keys, id : Nat] /\ id \in Nat /\ id \in Ids(cache)
      /\ id \in DOMAIN prepared /\ prepared[id] = h.key
  BY <1>1, <1>4, IdOfCache DEF CacheInv
<1>6. /\ c0 \in Seq([key : Keys, id : Nat]) /\ Len(c0) = Len(cache) - 1 /\ Len(cache) \in Nat \ {0}
      /\ \A n \in DOMAIN c0 : \E j \in DOMAIN cache : c0[n] = cache[j] /\ j # i
      /\ \A n, m \in DOMAIN c0 : c0[n].key = c0[m].key => n = m
      /\ Ids(c0) \subseteq Ids(cache) /\ Ids(cache) \subseteq Ids(c0) \union {id}
  BY <1>1, <1>4, CacheRemove
<1> HIDE DEF c0
<1>7. \A n \in DOMAIN c0 : c0[n].key # cache[i].key
  BY <1>1, <1>4, <1>6 DEF TypeOK
<1>8. /\ c \in Seq([key : Keys, id : Nat]) /\ Len(c) = Len(c0) + 1
      /\ \A n, m \in DOMAIN c : c[n].key = c[m].key => n = m
      /\ \A n \in DOMAIN c : c[n] = cache[i] \/ \E m \in DOMAIN c0 : c[n] = c0[m]
      /\ Ids(c) = Ids(c0) \union {id}
  <2>1. Distinct(c0) /\ Lacks(c0, cache[i].key)
    BY <1>6, <1>7 DEF Distinct, Lacks
  <2> HIDE DEF c
  <2>2. c = Append(c0, cache[i]) /\ cache[i].id = id
    BY DEF c
  <2>3. Appended(Append(c0, cache[i]), c0, cache[i])
    BY <1>5, <1>6, <2>1, AppendStatement
  <2>4. Appended(c, c0, cache[i])
    BY <2>2, <2>3
  <2> QED
    BY <2>2, <2>4 DEF Distinct, Appended
<1>9. cache' = c
  BY <1>2 DEF c0
<1> HIDE DEF c
<1>10. /\ Len(cache') <= MaxStatements /\ Ids(cache)' = Ids(cache)
       /\ cache' \in Seq([key : Keys, id : Nat])
       /\ \A n, m \in DOMAIN cache' : cache'[n].key = cache'[m].key => n = m
       /\ \A n \in DOMAIN cache' : \E j \in DOMAIN cache : cache'[n] = cache[j]
  <2>1. Len(cache') = Len(cache) /\ Len(cache) <= MaxStatements
    BY <1>1, <1>6, <1>8, <1>9 DEF TypeOK
  <2>2. Ids(c) = Ids(cache)
    BY <1>5, <1>6, <1>8
  <2>3. \A n \in DOMAIN c : \E j \in DOMAIN cache : c[n] = cache[j]
    BY <1>4, <1>6, <1>8
  <2> QED
    BY <1>8, <1>9, <2>1, <2>2, <2>3 DEF Ids
<1> HIDE DEF id
<1>11. /\ queue' \in Seq(Commands) /\ PairsOf(queue)' /\ Closing(queue)' = Closing(queue)
       /\ queue' # <<>> /\ Paired(queue'[1]) =>
             queue'[1].id = id /\ queue'[1].key = h.key /\ calling' = FALSE
       /\ calling' \in BOOLEAN
  <2>1. CASE h.call = 0
    <3>1. queue' = t
      BY <1>2, <2>1 DEF Give
    <3> QED
      BY <1>2, <1>3, <2>1, <3>1 DEF HeadFree, PairsOf, Closing
  <2>2. CASE h.call # 0
    <3>1. queue' = [t EXCEPT ![1].id = id]
      BY <1>2, <2>2 DEF Give, id
    <3>2. t # <<>> /\ t[1].kind = "execute" /\ t[1].key = h.key
      BY <1>3, <2>2 DEF Joined
    <3> DEFINE g == [t EXCEPT ![1].id = id]
    <3>3. g \in Seq(Commands) /\ PairsOf(g) /\ g[1].key = t[1].key /\ g[1].id = id /\ Closing(g) = Closing(t)
      BY <1>3, <1>5, <3>2, PairsGive
    <3> HIDE DEF g
    <3>4. queue' = g
      BY <3>1 DEF g
    <3>5. calling' = FALSE
      BY <1>2, <2>2
    <3>6. PairsOf(queue)' /\ Closing(queue)' = Closing(queue)
      BY <1>3, <3>3, <3>4 DEF PairsOf, Closing
    <3> QED
      BY <3>2, <3>3, <3>4, <3>5, <3>6
  <2> QED
    BY <2>1, <2>2
<1>12. /\ current.kind = "none" /\ current'.kind = "none" /\ ~Forgotten /\ ~Forgotten'
  BY <1>1 DEF None, Forgotten
<1>13. TypeOK'
  <2>1. (open \union handles \union userClosed \union Ids(cache) \subseteq DOMAIN prepared)'
    <3>1. handles' \subseteq handles \union {id}
      BY <1>2 DEF id
    <3> QED
      BY <1>1, <1>5, <1>10, <3>1 DEF TypeOK
  <2> QED
    BY <1>1, <1>10, <1>11, <2>1 DEF TypeOK
<1>14. id \in open \union userClosed
  BY <1>1, <1>5, <1>12 DEF CacheInv
<1>15. HeadInv'
  <2>1. queue' # <<>> /\ Paired(queue'[1]) => Given(queue[1])'
    BY <1>1, <1>5, <1>11, <1>14 DEF Given
  <2> QED
    BY <1>12, <2>1 DEF HeadInv
<1>16. CacheInv'
  <2>1. \A n \in DOMAIN cache' : prepared[cache'[n].id] = cache'[n].key
    BY <1>1, <1>10 DEF CacheInv
  <2> QED
    BY <1>1, <1>10, <1>11, <1>12, <2>1 DEF CacheInv
<1>17. NewInv' /\ ExecutesOpenStatement'
  BY <1>12 DEF NewInv, ExecutesOpenStatement
<1>18. Kept'
  BY <1>1, <1>10, <1>11, <1>12 DEF Kept, Inv
<1> QED
  BY <1>11, <1>13, <1>15, <1>16, <1>17, <1>18 DEF Inv

\* The server makes a new statement.
LEMMA PrepareStartKeeps ==
  \A p, f \in 0 .. MaxDefs, sp, sf \in Nat :
    Inv /\ PrepareStart(p, sp, f, sf) /\ incoming' \in Seq({"header", "def", "EOF"}) => Inv'
<1> SUFFICES ASSUME NEW p \in 0 .. MaxDefs, NEW f \in 0 .. MaxDefs, NEW sp \in Nat, NEW sf \in Nat,
                    Inv, PrepareStart(p, sp, f, sf), incoming' \in Seq({"header", "def", "EOF"})
             PROVE  Inv'
  OBVIOUS
<1> DEFINE h == Head(queue)
           t == Tail(queue)
           id == Len(prepared) + 1
<1>1. /\ current = None /\ queue # <<>> /\ h.kind = "prepare" /\ TypeOK /\ CacheInv
      /\ Keyed(h.key) = {}
      /\ current' = [kind |-> "prepare", cmd |-> h, step |-> "prepareHeader", id |-> id,
                     parameterCount |-> p, fieldCount |-> f, parameters |-> 0, fields |-> 0]
      /\ prepared' = Append(prepared, h.key)
      /\ open' = open \cup {id}
      /\ queue' = t /\ calling' = FALSE
      /\ UNCHANGED <<cache, handles, userClosed, ended, refused, calls, evictOnDelete>>
  BY DEF PrepareStart, Inv
<1>2. /\ queue \in Seq(Commands) /\ PairsOf(queue) /\ h = queue[1] /\ h \in Commands
      /\ t \in Seq(Commands) /\ PairsOf(t) /\ Closing(t) = Closing(queue)
      /\ h.call # 0 => t # <<>> /\ Joined(h, t[1])
      /\ h.call = 0 => HeadFree(t)
      /\ h.key \in Keys
  <2>1. queue \in Seq(Commands) /\ PairsOf(queue)
    BY DEF Inv, TypeOK
  <2>2. h = queue[1] /\ t \in Seq(Commands) /\ h \in Commands /\ 1 \in DOMAIN queue
    BY <1>1, <2>1, TailIndex
  <2>3. PairsOf(t) /\ (h.call # 0 => t # <<>> /\ Joined(h, t[1])) /\ (h.call = 0 => HeadFree(t))
    BY <1>1, <2>1, <2>2, PairsTail
  <2>4. Closing(t) = Closing(queue)
    BY <1>1, <2>1, ClosingFacts
  <2>5. h.key \in Keys
    BY <1>1, <2>1, <2>2 DEF PairsOf
  <2> QED
    BY <2>1, <2>2, <2>3, <2>4, <2>5
<1> HIDE DEF h, t
<1>3. /\ prepared' \in Seq(Keys) /\ id \in Nat /\ id \in DOMAIN prepared' /\ prepared'[id] = h.key
      /\ id \notin DOMAIN prepared /\ DOMAIN prepared \subseteq DOMAIN prepared'
      /\ \A n \in DOMAIN prepared : prepared'[n] = prepared[n]
  <2>1. prepared \in Seq(Keys) /\ prepared' = Append(prepared, h.key) /\ h.key \in Keys
    BY <1>1, <1>2 DEF TypeOK
  <2> QED
    BY <2>1
<1> HIDE DEF id
<1>4. /\ current'.kind = "prepare" /\ current'.cmd = h /\ current'.id = id
      /\ current.kind = "none" /\ ~Forgotten /\ ~Forgotten' /\ Ids(cache)' = Ids(cache)
  BY <1>1 DEF Forgotten, None, Ids
<1>5. PairsOf(queue)' /\ Closing(queue)' = Closing(queue)
  BY <1>1, <1>2 DEF PairsOf, Closing
<1>6. TypeOK'
  <2>1. current' \in Preparing
    BY <1>1, <1>2, <1>3 DEF Preparing
  <2>2. (open \union handles \union userClosed \union Ids(cache) \subseteq DOMAIN prepared)'
    BY <1>1, <1>3, <1>4 DEF TypeOK
  <2> QED
    BY <1>1, <1>2, <1>3, <2>1, <2>2 DEF TypeOK
<1>7. HeadInv'
  <2>1. h.call # 0 => queue' # <<>> /\ Joined(h, queue'[1])
    BY <1>1, <1>2
  <2>2. queue' # <<>> /\ Paired(queue'[1]) => h.call # 0
    BY <1>1, <1>2 DEF HeadFree
  <2> QED
    BY <1>2, <1>4, <2>1, <2>2 DEF HeadInv
<1>8. CacheInv'
  <2>1. ASSUME NEW i \in DOMAIN cache PROVE prepared'[cache[i].id] = cache[i].key
    BY <1>1, <1>3, IdOfCache DEF CacheInv
  <2>2. /\ Ids(cache)' \subseteq open' \union userClosed'
        /\ Closing(queue)' \subseteq DOMAIN prepared'
        /\ Closing(queue)' \intersect Ids(cache)' \subseteq userClosed'
    BY <1>1, <1>3, <1>4, <1>5 DEF CacheInv
  <2> QED
    BY <1>1, <1>4, <2>1, <2>2 DEF CacheInv
<1>9. NewInv'
  <2>1. id \notin Ids(cache) \union handles \union Closing(queue)
    BY <1>1, <1>3 DEF TypeOK, CacheInv
  <2>2. {i \in DOMAIN cache' : cache'[i].key = h.key} = {}
    BY <1>1 DEF Keyed
  <2>3. Keyed(current.cmd.key)' = {}
    BY <1>4, <2>2 DEF Keyed
  <2> QED
    BY <1>1, <1>3, <1>4, <1>5, <2>1, <2>3 DEF NewInv
<1>10. Kept'
  BY <1>1, <1>4, <1>5 DEF Kept, Inv
<1>11. ExecutesOpenStatement'
  BY <1>4 DEF ExecutesOpenStatement
<1> QED
  BY <1>5, <1>6, <1>7, <1>8, <1>9, <1>10, <1>11 DEF Inv

\* What a packet changes of a Prepare.
LEMMA NextStepFacts ==
  ASSUME current \in Preparing, current.step # "protocolError", NEW packet
  PROVE  LET after == nextStep(packet)
         IN  /\ after.kind = "prepare" /\ after.cmd = current.cmd /\ after.id = current.id
             /\ after.parameterCount = current.parameterCount
             /\ after.fieldCount = current.fieldCount
             /\ after.parameters \in {current.parameters, current.parameters + 1}
             /\ after.fields \in {current.fields, current.fields + 1}
             /\ after.step # "done" => after \in Preparing
<1> DEFINE Steps == {"prepareHeader", "readParameter", "parametersEOF", "readField",
                     "fieldsEOF", "protocolError", "done"}
           after == nextStep(packet)
<1>1. PICK st \in Steps, ps \in {current.parameters, current.parameters + 1},
           fs \in {current.fields, current.fields + 1} :
        after = [current EXCEPT !.step = st, !.parameters = ps, !.fields = fs]
  <2>1. \A st \in Steps : [current EXCEPT !.step = st] =
           [current EXCEPT !.step = st, !.parameters = current.parameters, !.fields = current.fields]
    BY DEF Preparing
  <2>2. \A st \in Steps : [current EXCEPT !.parameters = @ + 1, !.step = st] =
           [current EXCEPT !.step = st, !.parameters = current.parameters + 1, !.fields = current.fields]
    BY DEF Preparing
  <2>3. \A st \in Steps : [current EXCEPT !.fields = @ + 1, !.step = st] =
           [current EXCEPT !.step = st, !.parameters = current.parameters, !.fields = current.fields + 1]
    BY DEF Preparing
  <2>4. AfterParameters \in Steps
    BY DEF AfterParameters
  <2>5. CASE current.step = "prepareHeader"
    BY <2>1, <2>4, <2>5 DEF nextStep
  <2>6. CASE current.step = "parametersEOF"
    BY <2>1, <2>4, <2>6 DEF nextStep
  <2>7. CASE current.step = "fieldsEOF"
    BY <2>1, <2>7 DEF nextStep
  <2>8. CASE current.step = "readParameter"
    <3>1. after = readParameter(packet)
      BY <2>8 DEF nextStep
    <3>2. CASE packet = "EOF"
      BY <2>1, <2>4, <3>1, <3>2 DEF readParameter
    <3>3. CASE packet # "EOF"
      <4> DEFINE st0 == IF current.parameters + 1 = current.parameterCount
                        THEN "parametersEOF" ELSE current.step
      <4>1. st0 \in Steps
        BY <2>8
      <4>2. after = [current EXCEPT !.parameters = @ + 1, !.step = st0]
        BY <3>1, <3>3 DEF readParameter
      <4> HIDE DEF st0, after
      <4> QED
        BY <2>2, <4>1, <4>2
    <3> QED
      BY <3>2, <3>3
  <2>9. CASE current.step = "readField"
    <3>1. after = readField(packet)
      BY <2>9 DEF nextStep
    <3>2. CASE packet = "EOF"
      BY <2>1, <3>1, <3>2 DEF readField
    <3>3. CASE packet # "EOF"
      <4> DEFINE st0 == IF current.fields + 1 = current.fieldCount
                        THEN "fieldsEOF" ELSE current.step
      <4>1. st0 \in Steps
        BY <2>9
      <4>2. after = [current EXCEPT !.fields = @ + 1, !.step = st0]
        BY <3>1, <3>3 DEF readField
      <4> HIDE DEF st0, after
      <4> QED
        BY <2>3, <4>1, <4>2
    <3> QED
      BY <3>2, <3>3
  <2> QED
    BY <2>5, <2>6, <2>7, <2>8, <2>9 DEF Preparing
<1>2. current.parameters \in Nat /\ current.fields \in Nat
  BY DEF Preparing
<1>3. ps \in Nat /\ fs \in Nat
  BY <1>2
<1> HIDE DEF after
<1>4. /\ after.kind = "prepare" /\ after.cmd = current.cmd /\ after.id = current.id
      /\ after.parameterCount = current.parameterCount /\ after.fieldCount = current.fieldCount
      /\ after.parameters = ps /\ after.fields = fs /\ after.step = st
  BY <1>1 DEF Preparing
<1>5. st # "done" => after \in Preparing
  BY <1>1, <1>3 DEF Preparing
<1> QED
  BY <1>4, <1>5 DEF after

\* set() of the statement that was prepared: what it evicts is not kept.
LEMMA SetFacts ==
  ASSUME Inv, current.kind = "prepare"
  PROVE  LET s == [key |-> current.cmd.key, id |-> current.id]
             kept == Set(s).kept
             evicted == Set(s).evicted
         IN  /\ kept \in Seq([key : Keys, id : Nat]) /\ Len(kept) <= MaxStatements
             /\ \A n, m \in DOMAIN kept : kept[n].key = kept[m].key => n = m
             /\ \A n \in DOMAIN kept : kept[n] = s \/ \E m \in DOMAIN cache : kept[n] = cache[m]
             /\ evicted \in Seq([key : Keys, id : Nat])
             /\ Ids(evicted) \subseteq Ids(cache) \ Ids(kept)
             /\ Ids(kept) \subseteq Ids(cache) \union {current.id}
             /\ Ids(cache) \union {current.id} \subseteq Ids(kept) \union Ids(evicted)
<1> DEFINE s == [key |-> current.cmd.key, id |-> current.id]
           kept == Set(s).kept
           evicted == Set(s).evicted
<1>1. /\ TypeOK /\ CacheInv /\ current.id \in DOMAIN prepared /\ current.cmd.key \in Keys
      /\ current.id \notin Ids(cache) /\ Keyed(current.cmd.key) = {}
  BY DEF Inv, NewInv, HeadInv, TypeOK
<1>2. current.id \in Nat
  BY <1>1 DEF TypeOK
<1>3. /\ s \in [key : Keys, id : Nat] /\ s.id = current.id /\ s.key = current.cmd.key
  BY <1>1, <1>2
<1>4. \A n \in DOMAIN cache : cache[n].key # s.key
  BY <1>1, <1>3 DEF Keyed
<1>5. /\ cache \in Seq([key : Keys, id : Nat]) /\ Len(cache) <= MaxStatements /\ Len(cache) \in Nat
      /\ \A n, m \in DOMAIN cache : cache[n].key = cache[m].key => n = m
      /\ MaxStatements \in Nat \ {0}
  <2>1. cache \in Seq([key : Keys, id : Nat]) /\ Len(cache) <= MaxStatements
        /\ \A n, m \in DOMAIN cache : cache[n].key = cache[m].key => n = m
    BY <1>1 DEF TypeOK
  <2> QED
    BY <2>1, ConstantsAssumption
<1> DEFINE full == Len(cache) >= MaxStatements
<1>6. CASE ~full
  <2>1. Set(s) = [kept |-> Append(cache, s), evicted |-> <<>>]
    BY <1>6 DEF Set
  <2>2. kept = Append(cache, s) /\ evicted = <<>>
    BY <2>1
  <2>3. Ids(evicted) = {} /\ evicted \in Seq([key : Keys, id : Nat])
    <3>1. <<>> \in Seq([key : Keys, id : Nat]) /\ DOMAIN <<>> = {}
      OBVIOUS
    <3>2. Ids(<<>>) = {}
      BY <3>1 DEF Ids
    <3> HIDE DEF evicted
    <3> QED
      BY <2>2, <3>1, <3>2
  <2> HIDE DEF s, kept, evicted
  <2>4. /\ kept \in Seq([key : Keys, id : Nat]) /\ Len(kept) = Len(cache) + 1
        /\ \A n, m \in DOMAIN kept : kept[n].key = kept[m].key => n = m
        /\ \A n \in DOMAIN kept : kept[n] = s \/ \E m \in DOMAIN cache : kept[n] = cache[m]
        /\ Ids(kept) = Ids(cache) \union {s.id}
    <3>1. /\ cache \in Seq([key : Keys, id : Nat]) /\ s \in [key : Keys, id : Nat]
          /\ Distinct(cache) /\ Lacks(cache, s.key)
          /\ kept = Append(cache, s)
      BY <1>3, <1>4, <1>5, <2>2 DEF Distinct, Lacks
    <3>2. Appended(Append(cache, s), cache, s)
      BY <3>1, AppendStatement
    <3>3. Appended(kept, cache, s)
      BY <3>1, <3>2
    <3> QED
      BY <3>3 DEF Distinct, Appended
  <2>5. Len(kept) <= MaxStatements
    BY <1>5, <1>6, <2>4
  <2> QED
    BY <1>3, <2>3, <2>4, <2>5 DEF s, kept, evicted
<1>7. CASE full
  <2>1. Set(s) = [kept |-> Append(Tail(cache), s), evicted |-> <<Head(cache)>>]
    BY <1>7 DEF Set
  <2>2. kept = Append(Tail(cache), s) /\ evicted = <<Head(cache)>>
    BY <2>1
  <2>3. cache # <<>>
    BY <1>5, <1>7
  <2> DEFINE c0 == RemoveAt(cache, 1)
  <2>4. /\ Head(cache) = cache[1] /\ 1 \in DOMAIN cache /\ Tail(cache) \in Seq([key : Keys, id : Nat])
        /\ Len(Tail(cache)) = Len(cache) - 1
        /\ \A i \in 1 .. Len(cache) - 1 : Tail(cache)[i] = cache[i + 1]
    BY <1>5, <2>3, TailIndex
  <2>5. c0 \in Seq([key : Keys, id : Nat]) /\ Len(c0) = Len(cache) - 1
        /\ \A j \in 1 .. Len(cache) - 1 : c0[j] = IF j < 1 THEN cache[j] ELSE cache[j + 1]
    BY <1>5, <2>4, RemoveIndex
  <2>6. /\ \A n \in DOMAIN c0 : \E j \in DOMAIN cache : c0[n] = cache[j] /\ j # 1
        /\ \A n, m \in DOMAIN c0 : c0[n].key = c0[m].key => n = m
        /\ Ids(c0) \subseteq Ids(cache) /\ cache[1].id \notin Ids(c0)
        /\ Ids(cache) \subseteq Ids(c0) \union {cache[1].id}
    BY <1>1, <2>4, CacheRemove
  <2> HIDE DEF c0
  <2>7. Tail(cache) = c0
    <3>1. \A j \in 1 .. Len(cache) - 1 : c0[j] = Tail(cache)[j]
      BY <1>5, <2>4, <2>5
    <3> DEFINE d == Tail(cache)
    <3>2. d \in Seq([key : Keys, id : Nat]) /\ Len(d) = Len(c0) /\ \A j \in 1 .. Len(c0) : c0[j] = d[j]
      BY <2>4, <2>5, <3>1
    <3> HIDE DEF d
    <3>3. d = c0
      BY <2>5, <3>2
    <3> QED
      BY <3>3 DEF d
  <2>8. Ids(evicted) = {cache[1].id} /\ evicted \in Seq([key : Keys, id : Nat])
        /\ cache[1].id \in Ids(cache)
    <3>1. cache[1] \in [key : Keys, id : Nat] /\ cache[1].id \in Ids(cache)
      BY <1>1, <2>4, IdOfCache
    <3> DEFINE e == <<cache[1]>>
    <3>2. e \in Seq([key : Keys, id : Nat]) /\ DOMAIN e = {1} /\ e[1] = cache[1]
      BY <3>1
    <3> HIDE DEF e
    <3>3. Ids(e) = {cache[1].id}
      BY <3>2 DEF Ids
    <3>4. evicted = e
      BY <2>2, <2>4 DEF e
    <3> QED
      BY <3>1, <3>2, <3>3, <3>4
  <2> HIDE DEF s, kept, evicted
  <2>9. \A n \in DOMAIN c0 : c0[n].key # s.key
    BY <1>4, <2>6
  <2>10. kept = Append(c0, s)
    BY <2>2, <2>7
  <2>11. /\ kept \in Seq([key : Keys, id : Nat]) /\ Len(kept) = Len(c0) + 1
         /\ \A n, m \in DOMAIN kept : kept[n].key = kept[m].key => n = m
         /\ \A n \in DOMAIN kept : kept[n] = s \/ \E m \in DOMAIN c0 : kept[n] = c0[m]
         /\ Ids(kept) = Ids(c0) \union {s.id}
    <3>1. /\ c0 \in Seq([key : Keys, id : Nat]) /\ s \in [key : Keys, id : Nat]
          /\ Distinct(c0) /\ Lacks(c0, s.key)
          /\ kept = Append(c0, s)
      BY <1>3, <2>5, <2>6, <2>9, <2>10 DEF Distinct, Lacks
    <3>2. Appended(Append(c0, s), c0, s)
      BY <3>1, AppendStatement
    <3>3. Appended(kept, c0, s)
      BY <3>1, <3>2
    <3> QED
      BY <3>3 DEF Distinct, Appended
  <2>12. Len(kept) <= MaxStatements
    BY <1>5, <2>5, <2>11
  <2>13. \A n \in DOMAIN kept : kept[n] = s \/ \E m \in DOMAIN cache : kept[n] = cache[m]
    BY <2>6, <2>11
  <2>14. cache[1].id # s.id
    BY <1>1, <1>3, <2>8
  <2> QED
    BY <1>3, <2>6, <2>8, <2>11, <2>12, <2>13, <2>14 DEF s, kept, evicted
<1> QED
  BY <1>6, <1>7

\* A packet for a Prepare; the last one puts the statement into the cache,
\* closes the one that this evicts, and gives it to its Execute.
LEMMA PreparePacketKeeps == Inv /\ PacketsInv /\ PreparePacket => Inv'
<1> SUFFICES ASSUME Inv, PacketsInv, PreparePacket PROVE Inv'
  OBVIOUS
<1> DEFINE after == nextStep(Head(incoming))
           s == [key |-> current.cmd.key, id |-> current.id]
           kept == Set(s).kept
           evicted == Set(s).evicted
           g == Give(queue, current.cmd, current.id)
<1>1. /\ current.kind = "prepare" /\ incoming # <<>> /\ incoming' = Tail(incoming)
      /\ UNCHANGED <<open, prepared, userClosed, ended, calls, evictOnDelete>>
      /\ IF after.step # "done"
         THEN current' = after /\ UNCHANGED <<cache, queue, refused, handles, calling>>
         ELSE /\ current' = None
              /\ cache' = kept
              /\ CloseEach(g, evicted)
              /\ handles' = (IF current.cmd.call = 0 THEN handles \cup {current.id} ELSE handles)
              /\ calling' = (current.cmd.call = 0)
  BY DEF PreparePacket
<1>2. /\ TypeOK /\ PairsOf(queue) /\ HeadInv /\ CacheInv /\ NewInv /\ Kept
      /\ queue \in Seq(Commands) /\ current \in Preparing /\ incoming' \in Seq({"header", "def", "EOF"})
      /\ ~Forgotten
  <2>1. TypeOK /\ PairsOf(queue) /\ HeadInv /\ CacheInv /\ NewInv /\ Kept
    BY DEF Inv
  <2>2. current \in Preparing
    BY <1>1, <2>1, CurrentCases
  <2>3. incoming \in Seq({"header", "def", "EOF"}) /\ queue \in Seq(Commands)
    BY <2>1 DEF TypeOK
  <2>4. Tail(incoming) \in Seq({"header", "def", "EOF"})
    BY <1>1, <2>3, TailIndex
  <2> QED
    BY <1>1, <2>1, <2>2, <2>3, <2>4 DEF Forgotten
<1>3. current.step # "protocolError"
  BY <1>1 DEF PacketsInv, Rest
<1>4. /\ after.kind = "prepare" /\ after.cmd = current.cmd /\ after.id = current.id
      /\ after.step # "done" => after \in Preparing
  BY <1>2, <1>3, NextStepFacts
<1>5. /\ kept \in Seq([key : Keys, id : Nat]) /\ Len(kept) <= MaxStatements
      /\ \A n, m \in DOMAIN kept : kept[n].key = kept[m].key => n = m
      /\ \A n \in DOMAIN kept : kept[n] = s \/ \E m \in DOMAIN cache : kept[n] = cache[m]
      /\ evicted \in Seq([key : Keys, id : Nat])
      /\ Ids(evicted) \subseteq Ids(cache) \ Ids(kept)
      /\ Ids(kept) \subseteq Ids(cache) \union {current.id}
      /\ Ids(cache) \union {current.id} \subseteq Ids(kept) \union Ids(evicted)
  BY <1>1, SetFacts
<1>6. s.id = current.id /\ s.key = current.cmd.key
  OBVIOUS
<1> HIDE DEF after, s, kept, evicted, g
<1>7. CASE after.step # "done"
  <2>1. current' = after /\ UNCHANGED <<cache, queue, refused, handles, calling>>
    BY <1>1, <1>7
  <2>2. /\ current'.kind = "prepare" /\ current'.cmd = current.cmd /\ current'.id = current.id
        /\ current' \in Preparing /\ Ids(cache)' = Ids(cache) /\ Closing(queue)' = Closing(queue)
        /\ ~Forgotten'
    BY <1>4, <1>7, <2>1 DEF Ids, Closing, Forgotten
  <2>3. TypeOK'
    BY <1>1, <1>2, <2>1, <2>2 DEF TypeOK
  <2>4. PairsOf(queue)' /\ HeadInv'
    <3>1. PairsOf(queue)'
      BY <1>2, <2>1 DEF PairsOf
    <3>2. queue # <<>> /\ Paired(queue[1]) => current.cmd.call # 0
      BY <1>1, <1>2 DEF HeadInv, Given, None
    <3>3. current.cmd.key \in Keys /\ (current.cmd.call # 0 => queue # <<>> /\ Joined(current.cmd, queue[1]))
      BY <1>1, <1>2 DEF HeadInv
    <3> QED
      BY <2>1, <2>2, <3>1, <3>2, <3>3 DEF HeadInv
  <2>5. CacheInv'
    BY <1>1, <1>2, <2>1, <2>2 DEF CacheInv
  <2>6. NewInv' /\ Kept'
    <3>1. Keyed(current.cmd.key)' = {}
      BY <1>1, <1>2, <2>1, <2>2 DEF NewInv, Keyed
    <3> QED
      BY <1>1, <1>2, <2>1, <2>2, <3>1 DEF NewInv, Kept
  <2>7. ExecutesOpenStatement'
    BY <2>2 DEF ExecutesOpenStatement
  <2> QED
    BY <2>3, <2>4, <2>5, <2>6, <2>7 DEF Inv
<1>8. CASE after.step = "done"
  <2>1. /\ current' = None /\ cache' = kept /\ CloseEach(g, evicted)
        /\ handles' = (IF current.cmd.call = 0 THEN handles \cup {current.id} ELSE handles)
        /\ calling' = (current.cmd.call = 0)
    BY <1>1, <1>8
  <2>2. /\ g \in Seq(Commands) /\ PairsOf(g) /\ Closing(g) = Closing(queue)
        /\ current.cmd.call = 0 => HeadFree(g)
        /\ current.cmd.call # 0 => g # <<>> /\ g[1].id = current.id /\ g[1].key = current.cmd.key
    <3>1. CASE current.cmd.call = 0
      <4>1. g = queue
        BY <3>1 DEF Give, g
      <4>2. HeadFree(queue)
        BY <1>1, <1>2, <3>1 DEF HeadInv, HeadFree, Given, None
      <4> QED
        BY <1>2, <3>1, <4>1, <4>2
    <3>2. CASE current.cmd.call # 0
      <4>1. g = [queue EXCEPT ![1].id = current.id]
        BY <3>2 DEF Give, g
      <4>2. queue # <<>> /\ queue[1].kind = "execute" /\ queue[1].key = current.cmd.key
        BY <1>1, <1>2, <3>2 DEF HeadInv, Joined
      <4>3. current.id \in Nat
        BY <1>2 DEF Preparing
      <4>4. LET t == [queue EXCEPT ![1].id = current.id]
            IN  /\ t \in Seq(Commands) /\ t # <<>> /\ PairsOf(t)
                /\ t[1].key = queue[1].key /\ t[1].id = current.id /\ Closing(t) = Closing(queue)
        BY <1>2, <4>2, <4>3, PairsGive
      <4> QED
        BY <3>2, <4>1, <4>2, <4>4
    <3> QED
      BY <3>1, <3>2
  <2>3. PICK cs \in Seq(Commands) : /\ queue' = g \o cs /\ PairsOf(cs) /\ HeadFree(cs)
                                    /\ Closing(cs) \subseteq Ids(evicted)
                                    /\ ~ended => Closing(cs) = Ids(evicted)
    BY <1>2, <1>5, <2>1, <2>2, ClosesFacts
  <2>4. refused' \in Nat
    BY <1>2, <1>5, <2>1, <2>2, ClosesFacts
  <2>5. /\ PairsOf(g \o cs) /\ (HeadFree(g) => HeadFree(g \o cs)) /\ g \o cs \in Seq(Commands)
        /\ g # <<>> => g \o cs # <<>> /\ (g \o cs)[1] = g[1]
    BY <2>2, <2>3, PairsConcat, ConcatIndex
  <2>6. Closing(g \o cs) = Closing(g) \union Closing(cs)
    BY <2>2, <2>3, ClosingFacts
  <2>7. Closing(queue)' = Closing(queue) \union Closing(cs) /\ PairsOf(queue)'
    <3>1. Closing(queue)' = Closing(g \o cs)
      BY <2>3 DEF Closing
    <3>2. PairsOf(queue)'
      BY <2>3, <2>5 DEF PairsOf
    <3> QED
      BY <2>2, <2>6, <3>1, <3>2
  <2>8. /\ current'.kind = "none" /\ ~Forgotten' /\ Ids(cache)' = Ids(kept)
        /\ current' \in [kind : {"none", "change", "quit"}]
    BY <2>1 DEF None, Forgotten, Ids
  <2>9. /\ current.id \in open /\ current.id \in DOMAIN prepared
        /\ prepared[current.id] = current.cmd.key
        /\ current.id \notin Ids(cache) \union Closing(queue)
    BY <1>1, <1>2 DEF NewInv, TypeOK
  <2>10. TypeOK'
    <3>1. (open \union handles \union userClosed \union Ids(cache) \subseteq DOMAIN prepared)'
      <4>1. handles' \subseteq handles \union {current.id}
        BY <2>1
      <4> QED
        BY <1>1, <1>2, <1>5, <2>8, <2>9, <4>1 DEF TypeOK
    <3>2. calling' \in BOOLEAN /\ queue' \in Seq(Commands)
      BY <2>1, <2>3, <2>5
    <3>3. /\ cache' \in Seq([key : Keys, id : Nat]) /\ Len(cache') <= MaxStatements
          /\ \A i, j \in DOMAIN cache' : cache'[i].key = cache'[j].key => i = j
      BY <1>5, <2>1
    <3> QED
      BY <1>1, <1>2, <2>4, <2>8, <3>1, <3>2, <3>3 DEF TypeOK
  <2>11. HeadInv'
    <3>1. CASE current.cmd.call = 0
      <4>1. HeadFree(queue')
        BY <2>2, <2>3, <2>5, <3>1
      <4> QED
        BY <2>8, <4>1 DEF HeadInv, HeadFree
    <3>2. CASE current.cmd.call # 0
      <4>1. queue'[1].id = current.id /\ queue'[1].key = current.cmd.key /\ calling' = FALSE
        BY <2>1, <2>2, <2>3, <2>5, <3>2
      <4>2. Given(queue[1])'
        BY <1>1, <2>1, <2>9, <4>1 DEF Given
      <4> QED
        BY <2>8, <4>2 DEF HeadInv
    <3> QED
      BY <3>1, <3>2
  <2>12. CacheInv'
    <3>1. \A n \in DOMAIN cache' : prepared[cache'[n].id] = cache'[n].key
      BY <1>2, <1>5, <1>6, <2>1, <2>9 DEF CacheInv
    <3>2. Ids(cache)' \subseteq open \union userClosed
      BY <1>2, <1>5, <2>8, <2>9 DEF CacheInv
    <3>3. Closing(queue)' \subseteq DOMAIN prepared /\ Closing(queue)' \intersect Ids(cache)' \subseteq userClosed
      <4>1. Ids(evicted) \subseteq DOMAIN prepared
        BY <1>2, <1>5 DEF TypeOK
      <4> QED
        BY <1>2, <1>5, <2>3, <2>7, <2>8, <2>9, <4>1 DEF CacheInv
    <3> QED
      BY <1>1, <2>8, <3>1, <3>2, <3>3 DEF CacheInv
  <2>13. NewInv' /\ ExecutesOpenStatement'
    BY <2>8 DEF NewInv, ExecutesOpenStatement
  <2>14. Kept'
    <3> SUFFICES ASSUME ~ended PROVE open \subseteq Ids(kept) \union Closing(queue)'
      BY <1>1, <2>8 DEF Kept
    <3>1. open \subseteq Ids(cache) \union Closing(queue) \union {current.id}
      BY <1>1, <1>2 DEF Kept
    <3> QED
      BY <1>5, <2>3, <2>7, <3>1
  <2> QED
    BY <2>7, <2>10, <2>11, <2>12, <2>13, <2>14 DEF Inv
<1> QED
  BY <1>7, <1>8

-----------------------------------------------------------------------------
(* The packets of a Prepare.                                               *)

Packets == {"header", "def", "EOF"}

\* The first packet of what the server sends, and what is left behind it.
LEMMA BlockFacts ==
  /\ \A n \in Nat : Block(n) \in Seq(Packets) /\ Block(n) # <<>>
  /\ Block(0) = <<"EOF">> /\ Head(Block(0)) = "EOF" /\ Tail(Block(0)) = <<>>
  /\ \A n \in Nat \ {0} : Head(Block(n)) = "def" /\ Tail(Block(n)) = Block(n - 1)
<1>1. ASSUME NEW n \in Nat
      PROVE  /\ Block(n) \in Seq(Packets) /\ Len(Block(n)) = n + 1 /\ DOMAIN Block(n) = 1 .. n + 1
             /\ Block(n)[n + 1] = "EOF" /\ \A i \in 1 .. n : Block(n)[i] = "def"
  <2> DEFINE d == Definitions(n)
  <2>1. d \in Seq(Packets) /\ Len(d) = n /\ \A i \in 1 .. n : d[i] = "def"
    <3>1. CASE n = 0
      BY <3>1 DEF Definitions, Packets
    <3>2. CASE n # 0
      BY <3>2 DEF Definitions, Packets
    <3> QED
      BY <3>1, <3>2
  <2> HIDE DEF d
  <2>2. Block(n) = Append(d, "EOF")
    BY DEF Block, d
  <2>3. "EOF" \in Packets
    BY DEF Packets
  <2> QED
    BY <2>1, <2>2, <2>3
<1>2. Block(0) = <<"EOF">>
  BY DEF Block, Definitions
<1>3. Head(Block(0)) = "EOF" /\ Tail(Block(0)) = <<>>
  <2> DEFINE b == <<"EOF">>
  <2>1. b \in Seq(Packets) /\ b # <<>> /\ Len(b) = 1 /\ b[1] = "EOF"
    BY DEF Packets
  <2> HIDE DEF b
  <2>2. Head(b) = "EOF" /\ Tail(b) \in Seq(Packets) /\ Len(Tail(b)) = 0
    BY <2>1, TailIndex
  <2>3. Tail(b) = <<>>
    BY <2>2, EmptySeq
  <2> QED
    BY <1>2, <2>2, <2>3 DEF b
<1>4. ASSUME NEW n \in Nat \ {0} PROVE Head(Block(n)) = "def" /\ Tail(Block(n)) = Block(n - 1)
  <2> DEFINE b == Block(n)
             c == Block(n - 1)
  <2>1. /\ b \in Seq(Packets) /\ Len(b) = n + 1
        /\ b[n + 1] = "EOF" /\ \A i \in 1 .. n : b[i] = "def"
    BY <1>1
  <2>2. n - 1 \in Nat /\ (n - 1) + 1 = n
    OBVIOUS
  <2>3. /\ c \in Seq(Packets) /\ Len(c) = n
        /\ c[n] = "EOF" /\ \A i \in 1 .. n - 1 : c[i] = "def"
    BY <1>1, <2>2
  <2> HIDE DEF b, c
  <2>4. b # <<>>
    BY <2>1
  <2>5. /\ Head(b) = b[1] /\ Tail(b) \in Seq(Packets) /\ Len(Tail(b)) = n
        /\ \A i \in 1 .. n : Tail(b)[i] = b[i + 1]
    BY <2>1, <2>4, TailIndex
  <2>6. \A i \in 1 .. n : Tail(b)[i] = c[i]
    <3> SUFFICES ASSUME NEW i \in 1 .. n PROVE Tail(b)[i] = c[i]
      OBVIOUS
    <3>1. CASE i = n
      BY <2>1, <2>3, <2>5, <3>1
    <3>2. CASE i # n
      <4>1. i \in 1 .. n - 1 /\ i + 1 \in 1 .. n
        BY <3>2
      <4> QED
        BY <2>1, <2>3, <2>5, <4>1
    <3> QED
      BY <3>1, <3>2
  <2> DEFINE t == Tail(b)
  <2>7. t \in Seq(Packets) /\ Len(t) = Len(c) /\ \A i \in 1 .. Len(c) : t[i] = c[i]
    BY <2>3, <2>5, <2>6
  <2> HIDE DEF t
  <2>8. t = c
    BY <2>3, <2>7
  <2>9. Head(b) = "def"
    BY <2>1, <2>5
  <2> QED
    BY <2>8, <2>9 DEF b, c, t
<1>5. ASSUME NEW n \in Nat PROVE Block(n) \in Seq(Packets) /\ Block(n) # <<>>
  <2> DEFINE b == Block(n)
  <2>1. b \in Seq(Packets) /\ Len(b) = n + 1
    BY <1>1
  <2> HIDE DEF b
  <2>2. b # <<>>
    BY <2>1
  <2> QED
    BY <2>1, <2>2 DEF b
<1> QED
  BY <1>2, <1>3, <1>4, <1>5

LEMMA HeadOfConcat ==
  ASSUME NEW s \in Seq(Packets), s # <<>>, NEW t \in Seq(Packets)
  PROVE  /\ s \o t \in Seq(Packets) /\ s \o t # <<>>
         /\ Head(s \o t) = Head(s) /\ Tail(s \o t) = Tail(s) \o t /\ <<>> \o t = t /\ s \o <<>> = s
<1> DEFINE u == s \o t
           v == Tail(s) \o t
<1>1. /\ u \in Seq(Packets) /\ Len(u) = Len(s) + Len(t)
      /\ Len(s) \in Nat /\ Len(t) \in Nat /\ DOMAIN u = 1 .. Len(s) + Len(t)
      /\ \A i \in 1 .. Len(s) : u[i] = s[i]
      /\ \A i \in DOMAIN u : i > Len(s) => u[i] = t[i - Len(s)]
  <2> HIDE DEF u
  <2> QED
    BY ConcatIndex DEF u
<1>2. /\ Tail(s) \in Seq(Packets) /\ Len(Tail(s)) = Len(s) - 1 /\ Head(s) = s[1] /\ Len(s) # 0
      /\ \A i \in 1 .. Len(s) - 1 : Tail(s)[i] = s[i + 1]
  BY TailIndex
<1>3. /\ v \in Seq(Packets) /\ Len(v) = Len(Tail(s)) + Len(t) /\ DOMAIN v = 1 .. Len(Tail(s)) + Len(t)
      /\ \A i \in 1 .. Len(Tail(s)) : v[i] = Tail(s)[i]
      /\ \A i \in DOMAIN v : i > Len(Tail(s)) => v[i] = t[i - Len(Tail(s))]
  <2> HIDE DEF v
  <2> QED
    BY <1>2, ConcatIndex DEF v
<1> HIDE DEF u, v
<1>4. u # <<>>
  BY <1>1, <1>2
<1>5. /\ Head(u) = u[1] /\ Tail(u) \in Seq(Packets) /\ Len(Tail(u)) = Len(u) - 1
      /\ \A i \in 1 .. Len(u) - 1 : Tail(u)[i] = u[i + 1]
  BY <1>1, <1>4, TailIndex
<1>6. Len(Tail(u)) = Len(v) /\ Len(v) = Len(s) + Len(t) - 1
  BY <1>1, <1>2, <1>3, <1>5
<1>7. ASSUME NEW i \in 1 .. Len(v) PROVE Tail(u)[i] = v[i]
  <2>1. i \in 1 .. Len(u) - 1 /\ i \in Nat /\ i \in DOMAIN v /\ Tail(u)[i] = u[i + 1] /\ i + 1 \in DOMAIN u
    BY <1>1, <1>3, <1>5, <1>6
  <2>2. CASE i <= Len(s) - 1
    <3>1. i \in 1 .. Len(s) - 1 /\ i + 1 \in 1 .. Len(s) /\ i \in 1 .. Len(Tail(s))
      BY <1>1, <1>2, <2>1, <2>2
    <3> QED
      BY <1>1, <1>2, <1>3, <2>1, <3>1
  <2>3. CASE i > Len(s) - 1
    <3>1. i + 1 > Len(s) /\ i > Len(Tail(s)) /\ i + 1 - Len(s) = i - Len(Tail(s))
      BY <1>1, <1>2, <2>1, <2>3
    <3>2. u[i + 1] = t[i + 1 - Len(s)]
      BY <1>1, <2>1, <3>1
    <3>3. v[i] = t[i - Len(Tail(s))]
      BY <1>3, <2>1, <3>1
    <3> QED
      BY <2>1, <3>1, <3>2, <3>3
  <2> QED
    BY <1>1, <2>1, <2>2, <2>3
<1> DEFINE w == Tail(u)
<1>8. w \in Seq(Packets) /\ Len(w) = Len(v) /\ \A i \in 1 .. Len(v) : w[i] = v[i]
  BY <1>5, <1>6, <1>7
<1> HIDE DEF w
<1>9. w = v
  BY <1>3, <1>8
<1>10. Head(u) = Head(s)
  BY <1>1, <1>2, <1>5
<1>11. <<>> \o t = t /\ s \o <<>> = s
  OBVIOUS
<1> QED
  BY <1>1, <1>4, <1>9, <1>10, <1>11 DEF u, v, w

\* A packet for a Prepare leaves the packets for its next step, and none
\* when it is done.
Follows(after, rest) == IF after.step = "done" THEN rest = <<>> ELSE Rest(after, rest)

LEMMA PacketStep ==
  ASSUME current \in Preparing, Rest(current, incoming)
  PROVE  /\ incoming # <<>> /\ incoming \in Seq(Packets)
         /\ Follows(nextStep(Head(incoming)), Tail(incoming))
<1> DEFINE after == nextStep(Head(incoming))
           rest == Tail(incoming)
           pc == current.parameterCount
           fc == current.fieldCount
           ps == pc - current.parameters
           fs == fc - current.fields
<1>1. /\ pc \in Nat /\ fc \in Nat /\ current.parameters \in Nat /\ current.fields \in Nat
      /\ ps \in Int /\ fs \in Int
      /\ ps = pc - current.parameters /\ fs = fc - current.fields
  BY ConstantsAssumption DEF Preparing
<1> SUFFICES incoming # <<>> /\ incoming \in Seq(Packets) /\ Follows(after, rest)
  OBVIOUS
<1> HIDE DEF pc, fc, ps, fs
<1>2. \A n \in Nat, m \in Nat : Announced(m, n) \in Seq(Packets)
  BY BlockFacts DEF Announced, Block
<1>3. \A n \in Nat, m \in Nat : Announced(m, n) = IF m = 0 THEN <<>> ELSE Block(n)
  BY DEF Announced, Block
\* The parameters are read: the columns come next, if there are any.
<1>4. ASSUME current.fields = 0, NEW m \in 0 .. fs, rest = Announced(fc, m),
             after = [current EXCEPT !.step = AfterParameters]
      PROVE  Follows(after, rest)
  <2>1. m \in Nat /\ fs = fc
    BY <1>1, <1>4
  <2>2. CASE fc > 0
    <3>1. AfterParameters = "readField" /\ rest = Block(m)
      BY <1>1, <1>3, <1>4, <2>1, <2>2 DEF AfterParameters, fc
    <3>2. after.step = "readField" /\ after.fieldCount = fc /\ after.fields = current.fields
      BY <1>4, <3>1 DEF Preparing, fc
    <3> HIDE DEF after, rest
    <3>3. after.fieldCount - after.fields > 0 /\ m \in 0 .. after.fieldCount - after.fields
      BY <1>1, <1>4, <2>1, <2>2, <3>2
    <3> QED
      BY <3>1, <3>2, <3>3 DEF Rest, Follows
  <2>3. CASE ~(fc > 0)
    <3>1. AfterParameters = "done" /\ rest = <<>>
      BY <1>1, <1>3, <1>4, <2>1, <2>3 DEF AfterParameters, fc
    <3>2. after.step = "done"
      BY <1>4, <3>1 DEF Preparing
    <3> QED
      BY <3>1, <3>2 DEF Follows
  <2> QED
    BY <2>2, <2>3
<1>5. CASE current.step = "prepareHeader" /\ current.parameters = 0 /\ current.fields = 0
           /\ \E n \in 0 .. ps, m \in 0 .. fs :
                 incoming = <<"header">> \o Announced(pc, n) \o Announced(fc, m)
  <2>1. PICK n \in 0 .. ps, m \in 0 .. fs :
           incoming = <<"header">> \o Announced(pc, n) \o Announced(fc, m)
    BY <1>5
  <2>2. n \in Nat /\ m \in Nat /\ ps = pc
    BY <1>1, <1>5
  <2> DEFINE a == Announced(pc, n)
             b == Announced(fc, m)
             h == <<"header">>
  <2>3. a \in Seq(Packets) /\ b \in Seq(Packets) /\ h \in Seq(Packets) /\ h # <<>>
    <3>1. a \in Seq(Packets) /\ b \in Seq(Packets)
      BY <1>1, <1>2, <2>2
    <3> QED
      BY <3>1 DEF Packets
  <2>4. Tail(h) = <<>>
    <3>1. Tail(h) \in Seq(Packets) /\ Len(Tail(h)) = Len(h) - 1
      BY <2>3, TailIndex
    <3> QED
      BY <3>1
  <2> HIDE DEF a, b, h
  <2>5. h \o a \in Seq(Packets) /\ h \o a # <<>> /\ Tail(h \o a) = <<>> \o a /\ <<>> \o a = a
    <3>1. h \o a \in Seq(Packets) /\ h \o a # <<>> /\ Tail(h \o a) = Tail(h) \o a /\ <<>> \o a = a
      BY <2>3, HeadOfConcat
    <3> QED
      BY <2>4, <3>1
  <2> DEFINE u == h \o a
  <2>6. u \o b \in Seq(Packets) /\ u \o b # <<>> /\ Tail(u \o b) = a \o b
    <3>1. u \in Seq(Packets) /\ u # <<>> /\ Tail(u) = a
      BY <2>5
    <3> HIDE DEF u
    <3> QED
      BY <2>3, <3>1, HeadOfConcat
  <2>7. incoming \in Seq(Packets) /\ incoming # <<>> /\ rest = a \o b
    BY <2>1, <2>6 DEF a, b, h, u
  <2>8. after = [current EXCEPT !.step = IF pc > 0 THEN "readParameter" ELSE AfterParameters]
    BY <1>5 DEF nextStep, pc
  <2>9. CASE pc > 0
    <3>1. after = [current EXCEPT !.step = "readParameter"]
      BY <2>8, <2>9
    <3>2. /\ after.step = "readParameter" /\ after.fields = 0 /\ after.parameters = 0
          /\ after.parameterCount = pc /\ after.fieldCount = fc
      BY <1>5, <3>1 DEF Preparing, pc, fc
    <3>3. a = Block(n)
      BY <1>1, <1>3, <2>2, <2>9 DEF a
    <3>4. rest = Block(n) \o Announced(fc, m)
      BY <2>7, <3>3 DEF b
    <3> HIDE DEF after, rest
    <3>5. /\ after.parameterCount - after.parameters > 0
          /\ n \in 0 .. after.parameterCount - after.parameters
          /\ m \in 0 .. after.fieldCount - after.fields
      BY <1>1, <1>5, <2>2, <2>9, <3>2
    <3>6. Rest(after, rest)
      BY <3>2, <3>4, <3>5 DEF Rest
    <3> QED
      BY <2>7, <3>2, <3>6 DEF Follows
  <2>10. CASE ~(pc > 0)
    <3>1. a = <<>>
      BY <1>1, <1>3, <2>2, <2>10 DEF a
    <3>2. <<>> \o b = b
      BY <2>3
    <3>3. rest = Announced(fc, m)
      BY <2>7, <3>1, <3>2 DEF b
    <3>4. after = [current EXCEPT !.step = AfterParameters]
      BY <2>8, <2>10
    <3> QED
      BY <1>4, <1>5, <2>7, <3>3, <3>4
  <2> QED
    BY <2>9, <2>10
<1>6. CASE current.step = "readParameter" /\ current.fields = 0 /\ ps > 0
           /\ \E n \in 0 .. ps, m \in 0 .. fs : incoming = Block(n) \o Announced(fc, m)
  <2>1. PICK n \in 0 .. ps, m \in 0 .. fs : incoming = Block(n) \o Announced(fc, m)
    BY <1>6
  <2> DEFINE b == Announced(fc, m)
             k == Block(n)
  <2>2. n \in Nat /\ m \in Nat /\ b \in Seq(Packets) /\ k \in Seq(Packets) /\ k # <<>>
    <3>1. n \in Nat /\ m \in Nat
      BY <1>1
    <3> QED
      BY <1>1, <1>2, <3>1, BlockFacts
  <2>3. /\ k \o b \in Seq(Packets) /\ k \o b # <<>> /\ Head(k \o b) = Head(k)
        /\ Tail(k \o b) = Tail(k) \o b /\ <<>> \o b = b
    <3> HIDE DEF b, k
    <3> QED
      BY <2>2, HeadOfConcat
  <2>4. /\ incoming \in Seq(Packets) /\ incoming # <<>> /\ Head(incoming) = Head(k)
        /\ rest = Tail(k) \o b
    BY <2>1, <2>3
  <2>5. after = readParameter(Head(incoming))
    BY <1>6 DEF nextStep
  <2>6. CASE n = 0
    <3>1. Head(incoming) = "EOF" /\ rest = b
      BY <2>3, <2>4, <2>6, BlockFacts
    <3>2. after = [current EXCEPT !.step = AfterParameters]
      BY <2>5, <3>1 DEF readParameter
    <3> QED
      BY <1>4, <1>6, <2>4, <3>1, <3>2
  <2>7. CASE n # 0
    <3>1. Head(incoming) = "def" /\ rest = Block(n - 1) \o b /\ n - 1 \in Nat
      <4>1. n \in Nat \ {0}
        BY <2>2, <2>7
      <4>2. Head(k) = "def" /\ Tail(k) = Block(n - 1)
        BY <4>1, BlockFacts
      <4>3. n - 1 \in Nat
        BY <4>1
      <4> HIDE DEF k, b, rest
      <4> QED
        BY <2>4, <4>2, <4>3
    <3> DEFINE st == IF current.parameters + 1 = pc THEN "parametersEOF" ELSE "readParameter"
    <3>2. after = [current EXCEPT !.parameters = @ + 1, !.step = st]
      BY <1>6, <2>5, <3>1 DEF readParameter, pc
    <3>3. /\ after.step = st /\ after.fields = 0 /\ after.parameters = current.parameters + 1
          /\ after.parameterCount = pc /\ after.fieldCount = fc
      BY <1>6, <3>2 DEF Preparing, pc, fc
    <3> HIDE DEF after, rest
    <3>4. m \in 0 .. after.fieldCount - after.fields
      <4>1. fs = after.fieldCount - after.fields
        BY <1>1, <1>6, <3>3
      <4> QED
        BY <4>1
    <3>5. CASE current.parameters + 1 = pc
      <4>1. n = 1
        BY <1>1, <2>7, <3>5
      <4>2. rest = Block(0) \o Announced(after.fieldCount, m)
        BY <3>1, <3>3, <4>1
      <4>3. after.step = "parametersEOF"
        BY <3>3, <3>5
      <4>4. Rest(after, rest)
        BY <3>3, <3>4, <4>2, <4>3 DEF Rest
      <4> QED
        BY <2>4, <4>3, <4>4 DEF Follows
    <3>6. CASE current.parameters + 1 # pc
      <4>1. /\ after.parameterCount - after.parameters > 0
            /\ n - 1 \in 0 .. after.parameterCount - after.parameters
        BY <1>1, <1>6, <2>7, <3>3, <3>6
      <4>2. rest = Block(n - 1) \o Announced(after.fieldCount, m)
        BY <3>1, <3>3
      <4>3. after.step = "readParameter"
        BY <3>3, <3>6
      <4>4. Rest(after, rest)
        BY <3>3, <3>4, <4>1, <4>2, <4>3 DEF Rest
      <4> QED
        BY <2>4, <4>3, <4>4 DEF Follows
    <3> QED
      BY <3>5, <3>6
  <2> QED
    BY <2>6, <2>7
<1>7. CASE current.step = "parametersEOF" /\ current.fields = 0
           /\ \E m \in 0 .. fs : incoming = Block(0) \o Announced(fc, m)
  <2>1. PICK m \in 0 .. fs : incoming = Block(0) \o Announced(fc, m)
    BY <1>7
  <2> DEFINE b == Announced(fc, m)
             k == Block(0)
  <2>2. m \in Nat /\ b \in Seq(Packets) /\ k \in Seq(Packets) /\ k # <<>>
    <3>1. m \in Nat /\ 0 \in Nat
      BY <1>1
    <3> QED
      BY <1>1, <1>2, <3>1, BlockFacts
  <2>3. /\ k \o b \in Seq(Packets) /\ k \o b # <<>> /\ Head(k \o b) = Head(k)
        /\ Tail(k \o b) = Tail(k) \o b /\ <<>> \o b = b
    <3> HIDE DEF b, k
    <3> QED
      BY <2>2, HeadOfConcat
  <2>4. /\ incoming \in Seq(Packets) /\ incoming # <<>> /\ Head(incoming) = "EOF" /\ rest = b
    BY <2>1, <2>3, BlockFacts
  <2>5. after = [current EXCEPT !.step = AfterParameters]
    BY <1>7, <2>4 DEF nextStep
  <2> QED
    BY <1>4, <1>7, <2>4, <2>5
<1>8. CASE current.step = "readField" /\ fs > 0 /\ \E m \in 0 .. fs : incoming = Block(m)
  <2>1. PICK m \in 0 .. fs : incoming = Block(m)
    BY <1>8
  <2>2. m \in Nat /\ incoming \in Seq(Packets) /\ incoming # <<>>
    BY <1>1, <2>1, BlockFacts
  <2>3. after = readField(Head(incoming))
    BY <1>8 DEF nextStep
  <2>4. CASE m = 0
    <3>1. Head(incoming) = "EOF" /\ rest = <<>>
      BY <2>1, <2>4, BlockFacts
    <3>2. after = [current EXCEPT !.step = "done"]
      BY <2>3, <3>1 DEF readField
    <3>3. after.step = "done"
      BY <3>2 DEF Preparing
    <3> QED
      BY <2>2, <3>1, <3>3 DEF Follows
  <2>5. CASE m # 0
    <3>1. Head(incoming) = "def" /\ rest = Block(m - 1) /\ m - 1 \in Nat
      <4>1. m \in Nat \ {0}
        BY <2>2, <2>5
      <4>2. Head(Block(m)) = "def" /\ Tail(Block(m)) = Block(m - 1)
        BY <4>1, BlockFacts
      <4>3. m - 1 \in Nat
        BY <4>1
      <4> QED
        BY <2>1, <4>2, <4>3
    <3> DEFINE st == IF current.fields + 1 = fc THEN "fieldsEOF" ELSE "readField"
    <3>2. after = [current EXCEPT !.fields = @ + 1, !.step = st]
      BY <1>8, <2>3, <3>1 DEF readField, fc
    <3>3. /\ after.step = st /\ after.fields = current.fields + 1 /\ after.fieldCount = fc
      BY <3>2 DEF Preparing, fc
    <3> HIDE DEF after, rest
    <3>4. CASE current.fields + 1 = fc
      <4>1. m = 1
        BY <1>1, <2>5, <3>4
      <4>2. rest = Block(0) /\ after.step = "fieldsEOF"
        BY <3>1, <3>3, <3>4, <4>1
      <4>3. Rest(after, rest)
        BY <4>2 DEF Rest
      <4> QED
        BY <2>2, <4>2, <4>3 DEF Follows
    <3>5. CASE current.fields + 1 # fc
      <4>1. after.fieldCount - after.fields > 0 /\ m - 1 \in 0 .. after.fieldCount - after.fields
        BY <1>1, <1>8, <2>5, <3>3, <3>5
      <4>2. after.step = "readField"
        BY <3>3, <3>5
      <4>3. Rest(after, rest)
        BY <3>1, <4>1, <4>2 DEF Rest
      <4> QED
        BY <2>2, <4>2, <4>3 DEF Follows
    <3> QED
      BY <3>4, <3>5
  <2> QED
    BY <2>4, <2>5
<1>9. CASE current.step = "fieldsEOF" /\ incoming = Block(0)
  <2>1. incoming \in Seq(Packets) /\ incoming # <<>> /\ Head(incoming) = "EOF" /\ rest = <<>>
    BY <1>9, BlockFacts
  <2>2. after = [current EXCEPT !.step = "done"]
    BY <1>9, <2>1 DEF nextStep
  <2>3. after.step = "done"
    BY <2>2 DEF Preparing
  <2> QED
    BY <2>1, <2>3 DEF Follows
<1> QED
  BY <1>5, <1>6, <1>7, <1>8, <1>9 DEF Rest, pc, fc, ps, fs

-----------------------------------------------------------------------------
(* The theorems.                                                           *)

IInv == Inv /\ PacketsInv

LEMMA PacketsKeep == Inv /\ PacketsInv /\ [Next]_vars => PacketsInv'
<1> SUFFICES ASSUME Inv, PacketsInv, [Next]_vars PROVE PacketsInv'
  OBVIOUS
<1>1. CASE UNCHANGED <<current, incoming>>
  BY <1>1 DEF PacketsInv
<1>2. CASE UNCHANGED incoming /\ current.kind # "prepare" /\ current'.kind # "prepare"
  BY <1>2 DEF PacketsInv
<1>3. CASE \E key \in Keys : Prepare(key) \/ Execute(key) \/ unprepare(key)
  BY <1>1, <1>3 DEF Prepare, Execute, unprepare, Call
<1>4. CASE \E id \in handles : HandleExecute(id) \/ HandleClose(id)
  BY <1>1, <1>4 DEF HandleExecute, HandleClose, Call
<1>5. CASE Reset \/ ChangeUser \/ end
  BY <1>1, <1>5 DEF Reset, ChangeUser, end, Call
<1>6. CASE PrepareFromCache \/ PrepareError \/ CloseStatementStart
  BY <1>1, <1>6 DEF PrepareFromCache, PrepareError, CloseStatementStart
<1>7. CASE ExecuteStart
  BY <1>2, <1>7 DEF ExecuteStart, None
<1>8. CASE ChangeUserStart
  BY <1>2, <1>8 DEF ChangeUserStart, None
<1>9. CASE QuitStart
  BY <1>2, <1>9 DEF QuitStart, None
<1>10. CASE \E ok \in BOOLEAN : ResetStart(ok)
  BY <1>2, <1>10 DEF ResetStart, None
<1>11. CASE Response
  BY <1>2, <1>11 DEF Response, None
<1>12. CASE \E p, f \in 0 .. MaxDefs : \E sp \in 0 .. p, sf \in 0 .. f : PrepareStart(p, sp, f, sf)
  <2>1. PICK p \in 0 .. MaxDefs, f \in 0 .. MaxDefs :
           \E sp \in 0 .. p, sf \in 0 .. f : PrepareStart(p, sp, f, sf)
    BY <1>12
  <2>2. PICK sp \in 0 .. p, sf \in 0 .. f : PrepareStart(p, sp, f, sf)
    BY <2>1
  <2>3. /\ current' = [kind |-> "prepare", cmd |-> Head(queue), step |-> "prepareHeader",
                       id |-> Len(prepared) + 1, parameterCount |-> p, fieldCount |-> f,
                       parameters |-> 0, fields |-> 0]
        /\ incoming' = <<"header">> \o Announced(p, sp) \o Announced(f, sf)
    BY <2>2 DEF PrepareStart
  <2>4. /\ current'.kind = "prepare" /\ current'.step = "prepareHeader"
        /\ current'.parameters = 0 /\ current'.fields = 0
        /\ current'.parameterCount = p /\ current'.fieldCount = f
    BY <2>3
  <2>5. p - 0 = p /\ f - 0 = f
    OBVIOUS
  <2>6. Rest(current', incoming')
    BY <2>3, <2>4, <2>5 DEF Rest
  <2> QED
    BY <2>4, <2>6 DEF PacketsInv
<1>13. CASE PreparePacket
  <2> DEFINE after == nextStep(Head(incoming))
  <2>1. /\ current.kind = "prepare" /\ incoming' = Tail(incoming)
        /\ IF after.step # "done" THEN current' = after ELSE current' = None
    BY <1>13 DEF PreparePacket
  <2>2. current \in Preparing /\ current.step # "protocolError"
    BY <2>1, CurrentCases DEF Inv, PacketsInv, Rest
  <2>3. Follows(after, Tail(incoming))
    BY <2>1, <2>2, PacketStep DEF PacketsInv
  <2>4. after.kind = "prepare"
    BY <2>2, NextStepFacts
  <2> HIDE DEF after
  <2>5. CASE after.step = "done"
    <3>1. incoming' = <<>> /\ current'.kind = "none"
      BY <2>1, <2>3, <2>5 DEF Follows, None
    <3> QED
      BY <3>1 DEF PacketsInv
  <2>6. CASE after.step # "done"
    <3>1. Rest(current', incoming') /\ current'.kind = "prepare"
      BY <2>1, <2>3, <2>4, <2>6 DEF Follows
    <3> QED
      BY <3>1 DEF PacketsInv
  <2> QED
    BY <2>5, <2>6
<1>14. CASE UNCHANGED vars
  BY <1>1, <1>14 DEF vars
<1> QED
  BY <1>3, <1>4, <1>5, <1>6, <1>7, <1>8, <1>9, <1>10, <1>11, <1>12, <1>13, <1>14 DEF Next

\* What the server sends for a Prepare are packets.
LEMMA AnswerType ==
  ASSUME NEW p, NEW f, NEW sp \in Nat, NEW sf \in Nat
  PROVE  <<"header">> \o Announced(p, sp) \o Announced(f, sf) \in Seq(Packets)
<1> DEFINE a == Announced(p, sp)
           b == Announced(f, sf)
           h == <<"header">>
<1>1. <<>> \in Seq(Packets) /\ h \in Seq(Packets)
  BY DEF Packets
<1>2. a \in Seq(Packets) /\ b \in Seq(Packets)
  BY <1>1, BlockFacts DEF Announced, Block
<1> HIDE DEF a, b, h
<1>3. h \o a \in Seq(Packets)
  BY <1>1, <1>2, ConcatIndex
<1>4. (h \o a) \o b \in Seq(Packets)
  BY <1>2, <1>3, ConcatIndex
<1> QED
  BY <1>4 DEF a, b, h

LEMMA InvKeeps == Inv /\ PacketsInv /\ [Next]_vars => Inv'
<1> SUFFICES ASSUME Inv, PacketsInv, [Next]_vars PROVE Inv'
  OBVIOUS
<1>1. CASE \E key \in Keys : Prepare(key) \/ Execute(key) \/ unprepare(key)
  BY <1>1, PrepareKeeps, ExecuteKeeps, UnprepareKeeps
<1>2. CASE \E id \in handles : HandleExecute(id) \/ HandleClose(id)
  BY <1>2, HandleKeeps
<1>3. CASE Reset \/ ChangeUser \/ end
  BY <1>3, ResetCallsKeep, EndKeeps
<1>4. CASE PrepareFromCache \/ PrepareError \/ PreparePacket
  BY <1>4, PrepareFromCacheKeeps, PrepareErrorKeeps, PreparePacketKeeps
<1>5. CASE \E p, f \in 0 .. MaxDefs : \E sp \in 0 .. p, sf \in 0 .. f : PrepareStart(p, sp, f, sf)
  <2>1. PICK p \in 0 .. MaxDefs, f \in 0 .. MaxDefs :
           \E sp \in 0 .. p, sf \in 0 .. f : PrepareStart(p, sp, f, sf)
    BY <1>5
  <2>2. PICK sp \in 0 .. p, sf \in 0 .. f : PrepareStart(p, sp, f, sf)
    BY <2>1
  <2>3. sp \in Nat /\ sf \in Nat
    OBVIOUS
  <2>4. incoming' = <<"header">> \o Announced(p, sp) \o Announced(f, sf)
    BY <2>2 DEF PrepareStart
  <2>5. incoming' \in Seq({"header", "def", "EOF"})
    BY <2>3, <2>4, AnswerType DEF Packets
  <2> QED
    BY <2>2, <2>3, <2>5, PrepareStartKeeps
<1>6. CASE ExecuteStart \/ CloseStatementStart \/ ChangeUserStart \/ Response \/ QuitStart
  BY <1>6, ExecuteStartKeeps, CloseKeeps, ChangeUserKeeps, ResponseKeeps, QuitKeeps
<1>7. CASE \E ok \in BOOLEAN : ResetStart(ok)
  BY <1>7, ResetStartKeeps
<1>8. CASE UNCHANGED vars
  <2>1. Closing(queue)' = Closing(queue) /\ Ids(cache)' = Ids(cache) /\ (Forgotten' <=> Forgotten)
        /\ Keyed(current.cmd.key)' = Keyed(current.cmd.key)
    BY <1>8 DEF vars, Closing, Ids, Forgotten, Keyed
  <2>2. TypeOK' /\ PairsOf(queue)' /\ HeadInv'
    BY <1>8 DEF vars, Inv, TypeOK, PairsOf, HeadInv, Given, Ids
  <2>3. CacheInv' /\ NewInv' /\ Kept' /\ ExecutesOpenStatement'
    BY <1>8, <2>1 DEF vars, Inv, CacheInv, NewInv, Kept, ExecutesOpenStatement
  <2> QED
    BY <2>2, <2>3 DEF Inv
<1> QED
  BY <1>1, <1>2, <1>3, <1>4, <1>5, <1>6, <1>7, <1>8 DEF Next

\* Whatever the user calls and the server answers, the pairs of Prepare and
\* Execute, the cache, the closes that are queued and the packets that are
\* to come agree with each other and with the server.
THEOREM IInvHolds == Spec => []IInv
<1>1. Init => IInv
  BY InitInv DEF IInv
<1>2. IInv /\ [Next]_vars => IInv'
  BY InvKeeps, PacketsKeep DEF IInv
<1> QED
  BY <1>1, <1>2, PTL DEF Spec

\* A Prepare takes exactly the packets of its answer, also of a server that
\* announces more parameters or columns than it sends (prepare.js).
THEOREM ReadsItsAnswerHolds == Spec => []ReadsItsAnswer
<1>1. IInv => ReadsItsAnswer
  <2> SUFFICES ASSUME IInv PROVE ReadsItsAnswer
    OBVIOUS
  <2>1. TypeOK /\ PacketsInv
    BY DEF IInv, Inv
  <2>2. ASSUME current.kind = "prepare"
        PROVE  current.step # "protocolError" /\ incoming # <<>>
    <3>1. Rest(current, incoming) /\ current \in Preparing
      BY <2>1, <2>2, CurrentCases DEF PacketsInv
    <3> QED
      BY <3>1, PacketStep DEF Rest
  <2> QED
    BY <2>1, <2>2 DEF ReadsItsAnswer, PacketsInv
<1> QED
  BY <1>1, IInvHolds, PTL

\* A statement that the server has open is in the cache, being prepared, or
\* its close is queued (close of an eviction, unprepare()), until end().
THEOREM NoneLeakedHolds == Spec => []NoneLeaked
<1>1. IInv => NoneLeaked
  <2> SUFFICES ASSUME IInv PROVE NoneLeaked
    OBVIOUS
  <2> QED
    BY DEF IInv, Inv, Kept, Closing, NoneLeaked
<1> QED
  BY <1>1, IInvHolds, PTL

\* What execute() sends is a statement of its own SQL that the server has
\* open, unless the user closed it by hand (connection.js execute).
THEOREM ExecutesOpenStatementHolds == Spec => []ExecutesOpenStatement
<1>1. IInv => ExecutesOpenStatement
  BY DEF IInv, Inv
<1> QED
  BY <1>1, IInvHolds, PTL

=============================================================================
