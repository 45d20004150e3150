-------------------------- MODULE ConnectionProofs --------------------------
(***************************************************************************)
(* Machine-checked proofs about a connection, for any number of commands,  *)
(* packets and configurations.  They follow the actions: what a handler    *)
(* does to the queue, to the packets in transit, to the flags and to the   *)
(* callbacks, each for the part of the invariant that is about it.         *)
(***************************************************************************)
EXTENDS ConnectionInv, SequenceTheorems, FiniteSetTheorems, TLAPS

-----------------------------------------------------------------------------
(* Sequences.                                                              *)

\* What is left of a list when its first m elements are gone.
LEMMA SuffixFacts ==
  ASSUME NEW S, NEW s \in Seq(S), NEW m \in Nat, m <= Len(s)
  PROVE  LET t == SubSeq(s, m + 1, Len(s))
         IN  /\ t \in Seq(S) /\ Len(t) = Len(s) - m /\ DOMAIN t = 1 .. Len(s) - m
             /\ \A i \in 1 .. Len(s) - m : t[i] = s[i + m]
             /\ Elems(t) \subseteq Elems(s)
<1> DEFINE t == SubSeq(s, m + 1, Len(s))
<1>1. Len(s) \in Nat /\ DOMAIN s = 1 .. Len(s) /\ Len(s) - m \in Nat
  OBVIOUS
<1>2. Len(t) = Len(s) - m
  OBVIOUS
<1>3. t \in Seq(S) /\ DOMAIN t = 1 .. Len(t)
  OBVIOUS
<1>4. \A i \in 1 .. Len(s) - m : t[i] = s[i + m] /\ i + m \in 1 .. Len(s)
  OBVIOUS
<1>5. Elems(t) \subseteq Elems(s)
  <2> HIDE DEF t
  <2> QED
    BY <1>1, <1>2, <1>3, <1>4 DEF Elems
<1> QED
  BY <1>2, <1>3, <1>4, <1>5

LEMMA ConcatFacts ==
  ASSUME NEW S, NEW s \in Seq(S), NEW t \in Seq(S)
  PROVE  /\ s \o t \in Seq(S) /\ Len(s \o t) = Len(s) + Len(t)
         /\ DOMAIN (s \o t) = 1 .. Len(s) + Len(t)
         /\ \A i \in 1 .. Len(s) : (s \o t)[i] = s[i]
         /\ \A i \in 1 .. Len(t) : (s \o t)[i + Len(s)] = t[i]
         /\ Elems(s \o t) = Elems(s) \union Elems(t)
<1>1. /\ Len(s) \in Nat /\ DOMAIN s = 1 .. Len(s)
      /\ Len(t) \in Nat /\ DOMAIN t = 1 .. Len(t)
  OBVIOUS
<1>2. /\ s \o t \in Seq(S) /\ Len(s \o t) = Len(s) + Len(t)
      /\ DOMAIN (s \o t) = 1 .. Len(s) + Len(t)
      /\ \A i \in 1 .. Len(s) : (s \o t)[i] = s[i]
      /\ \A i \in 1 .. Len(t) : (s \o t)[i + Len(s)] = t[i]
  BY <1>1
<1>3. \A i \in 1 .. Len(s) + Len(t) :
        i \in 1 .. Len(s) \/ (i - Len(s) \in 1 .. Len(t) /\ i = (i - Len(s)) + Len(s))
  BY <1>1
<1>4. \A i \in 1 .. Len(t) : i + Len(s) \in 1 .. Len(s) + Len(t)
  BY <1>1
<1>5. \A i \in 1 .. Len(s) : i \in 1 .. Len(s) + Len(t)
  BY <1>1
<1>6. Elems(s \o t) \subseteq Elems(s) \union Elems(t)
  <2> SUFFICES ASSUME NEW i \in 1 .. Len(s) + Len(t)
               PROVE  (s \o t)[i] \in Elems(s) \union Elems(t)
    BY <1>2 DEF Elems
  <2>1. CASE i \in 1 .. Len(s)
    BY <1>1, <1>2, <2>1 DEF Elems
  <2>2. CASE i - Len(s) \in 1 .. Len(t) /\ i = (i - Len(s)) + Len(s)
    BY <1>1, <1>2, <2>2 DEF Elems
  <2> QED
    BY <1>3, <2>1, <2>2
<1>7. Elems(s) \union Elems(t) \subseteq Elems(s \o t)
  BY <1>1, <1>2, <1>4, <1>5 DEF Elems
<1> QED
  BY <1>2, <1>6, <1>7

LEMMA AppendFacts ==
  ASSUME NEW S, NEW s \in Seq(S), NEW x \in S
  PROVE  /\ Append(s, x) \in Seq(S) /\ Len(Append(s, x)) = Len(s) + 1
         /\ DOMAIN Append(s, x) = 1 .. Len(s) + 1
         /\ \A i \in 1 .. Len(s) : Append(s, x)[i] = s[i]
         /\ Append(s, x)[Len(s) + 1] = x
         /\ Elems(Append(s, x)) = Elems(s) \union {x}
<1>1. Len(s) \in Nat /\ DOMAIN s = 1 .. Len(s)
  OBVIOUS
<1>2. /\ Append(s, x) \in Seq(S) /\ Len(Append(s, x)) = Len(s) + 1
      /\ DOMAIN Append(s, x) = 1 .. Len(s) + 1
      /\ \A i \in 1 .. Len(s) : Append(s, x)[i] = s[i]
      /\ Append(s, x)[Len(s) + 1] = x
  BY <1>1
<1>3. \A i \in 1 .. Len(s) + 1 : i \in 1 .. Len(s) \/ i = Len(s) + 1
  BY <1>1
<1>4. \A i \in 1 .. Len(s) : i \in 1 .. Len(s) + 1
  BY <1>1
<1> QED
  BY <1>1, <1>2, <1>3, <1>4 DEF Elems

LEMMA TailFacts ==
  ASSUME NEW S, NEW s \in Seq(S), s # <<>>
  PROVE  /\ Head(s) \in S /\ Head(s) \in Elems(s) /\ Head(s) = s[1]
         /\ Tail(s) \in Seq(S) /\ Len(Tail(s)) = Len(s) - 1
         /\ DOMAIN Tail(s) = 1 .. Len(s) - 1 /\ Len(s) >= 1
         /\ \A i \in 1 .. Len(s) - 1 : Tail(s)[i] = s[i + 1]
         /\ Elems(Tail(s)) \subseteq Elems(s)
<1>1. Len(s) \in Nat /\ DOMAIN s = 1 .. Len(s) /\ Len(s) >= 1
  OBVIOUS
<1>2. /\ Head(s) \in S /\ Head(s) = s[1]
      /\ Tail(s) \in Seq(S) /\ Len(Tail(s)) = Len(s) - 1
      /\ DOMAIN Tail(s) = 1 .. Len(s) - 1
      /\ \A i \in 1 .. Len(s) - 1 : Tail(s)[i] = s[i + 1]
  BY <1>1
<1>3. 1 \in 1 .. Len(s) /\ \A i \in 1 .. Len(s) - 1 : i + 1 \in 1 .. Len(s)
  BY <1>1
<1> QED
  BY <1>1, <1>2, <1>3 DEF Elems

LEMMA ElemsEmpty == Elems(<<>>) = {} /\ DOMAIN <<>> = {}
BY DEF Elems

-----------------------------------------------------------------------------
(* Commands and queues.                                                    *)

LEMMA NamesDiffer ==
  /\ Handshake # Quit /\ Handshake # None /\ Quit # None
  /\ Handshake \notin Cmds /\ Quit \notin Cmds /\ None \notin Cmds
  /\ None \notin Names
<1>1. \A a, b : IsFiniteSet({a, b}) /\ Cardinality({a, b}) <= 2
  <2> SUFFICES ASSUME NEW a, NEW b
               PROVE  IsFiniteSet({a, b}) /\ Cardinality({a, b}) <= 2
    OBVIOUS
  <2>1. IsFiniteSet({a}) /\ Cardinality({a}) = 1
    BY FS_Singleton
  <2>2. {a, b} = {a} \union {b}
    OBVIOUS
  <2> QED
    BY <2>1, <2>2, FS_AddElement
<1>2. Handshake # Quit
  <2> SUFFICES ASSUME Handshake = Quit PROVE FALSE
    OBVIOUS
  <2>1. {Handshake, Quit, None} = {Handshake, None}
    OBVIOUS
  <2>2. Cardinality({Handshake, None}) = 3 /\ Cardinality({Handshake, None}) <= 2
    BY <1>1, <2>1, NamesAssumption
  <2> QED
    BY <2>2
<1>3. Handshake # None
  <2>1. Handshake = None => {Handshake, Quit, None} = {Handshake, Quit}
    OBVIOUS
  <2> QED
    BY <1>1, <2>1, NamesAssumption
<1>4. Quit # None
  <2>1. Quit = None => {Handshake, Quit, None} = {Handshake, None}
    OBVIOUS
  <2> QED
    BY <1>1, <2>1, NamesAssumption
<1> QED
  BY <1>2, <1>3, <1>4, NamesAssumption DEF Names

LEMMA JobFacts ==
  /\ \A j \in Jobs : /\ j = Job(j.cmd, j.step) /\ j.cmd \in Names
                     /\ j.step \in {"prepare", "run"} /\ j # NoJob
  /\ \A k \in Names, x \in {"prepare", "run"} :
        Job(k, x) \in Jobs /\ Job(k, x).cmd = k /\ Job(k, x).step = x
  /\ NoJob.cmd = None /\ NoJob.step = "run" /\ NoJob \notin Jobs
  /\ \A k, l, x, y : Job(k, x) = Job(l, y) <=> k = l /\ x = y
<1>1. \A j \in Jobs : j = Job(j.cmd, j.step) /\ j.cmd \in Names /\ j.step \in {"prepare", "run"}
  BY DEF Jobs, Job
<1>2. NoJob.cmd = None /\ NoJob.step = "run"
  BY DEF NoJob
<1>3. \A k \in Names, x \in {"prepare", "run"} :
        Job(k, x) \in Jobs /\ Job(k, x).cmd = k /\ Job(k, x).step = x
  BY DEF Jobs, Job
<1>4. \A k, l, x, y : Job(k, x) = Job(l, y) <=> k = l /\ x = y
  BY DEF Job
<1> QED
  BY <1>1, <1>2, <1>3, <1>4, NamesDiffer

LEMMA CmdsOfFacts ==
  ASSUME NEW s \in Seq(Jobs)
  PROVE  /\ CmdsOf(s) = {j.cmd : j \in Elems(s)}
         /\ CmdsOf(s) \subseteq Names
         /\ \A i \in 1 .. Len(s) : s[i] \in Jobs /\ s[i] \in Elems(s) /\ s[i].cmd \in CmdsOf(s)
         /\ \A k \in CmdsOf(s) : \E i \in 1 .. Len(s) : s[i].cmd = k
<1>1. DOMAIN s = 1 .. Len(s) /\ \A i \in 1 .. Len(s) : s[i] \in Jobs
  OBVIOUS
<1> QED
  BY <1>1, JobFacts DEF CmdsOf, Elems

\* What the results of js add to the calls of a callback.
LEMMA CallsAfterFacts ==
  ASSUME NEW js \in Seq(Jobs), calls \in [Cmds \union {Quit} -> 0 .. 2]
  PROVE  /\ CallsAfter(js) \in [Cmds \union {Quit} -> 0 .. 2]
         /\ \A k \in Cmds \union {Quit} :
              /\ CallsAfter(js)[k] >= calls[k]
              /\ k \notin CmdsOf(js) \/ k \in Silent => CallsAfter(js)[k] = calls[k]
              /\ k \in CmdsOf(js) /\ k \notin Silent =>
                    /\ CallsAfter(js)[k] >= 1
                    /\ calls[k] < 2 => CallsAfter(js)[k] > calls[k]
              /\ calls[k] = 0 /\ (\A i, j \in DOMAIN js :
                                     js[i].cmd = k /\ js[j].cmd = k => i = j)
                    => CallsAfter(js)[k] <= 1
<1> DEFINE At(k) == {i \in DOMAIN js : js[i].cmd = k /\ k \notin Silent}
<1>1. IsFiniteSet(DOMAIN js) /\ DOMAIN js = 1 .. Len(js) /\ Len(js) \in Nat
  <2>1. DOMAIN js = 1 .. Len(js) /\ Len(js) \in Nat
    OBVIOUS
  <2> QED
    BY <2>1, FS_Interval
<1>2. ASSUME NEW k
      PROVE  /\ IsFiniteSet(At(k)) /\ Cardinality(At(k)) \in Nat
             /\ Cardinality(At(k)) = 0 <=> At(k) = {}
  BY <1>1, FS_Subset, FS_CardinalityType, FS_EmptySet
<1>3. ASSUME NEW k, \A i, j \in DOMAIN js : js[i].cmd = k /\ js[j].cmd = k => i = j
      PROVE  Cardinality(At(k)) <= 1
  <2>1. CASE At(k) = {}
    <3>1. Cardinality(At(k)) = 0
      BY <1>2, <2>1
    <3> HIDE DEF At
    <3> QED
      BY <3>1
  <2>2. CASE At(k) # {}
    <3> PICK i \in At(k) : TRUE
      BY <2>2
    <3>1. At(k) = {i}
      BY <1>3
    <3>2. Cardinality(At(k)) = 1
      BY <3>1, FS_Singleton
    <3> HIDE DEF At
    <3> QED
      BY <3>2
  <2> QED
    BY <2>1, <2>2
<1>4. CallsAfter(js) = [k \in Cmds \union {Quit} |->
                          IF calls[k] + Cardinality(At(k)) > 2 THEN 2
                          ELSE calls[k] + Cardinality(At(k))]
  BY DEF CallsAfter
<1>5. ASSUME NEW k
      PROVE  /\ k \notin CmdsOf(js) \/ k \in Silent => At(k) = {}
             /\ k \in CmdsOf(js) /\ k \notin Silent => At(k) # {}
  BY DEF CmdsOf
<1> HIDE DEF At
<1>6. ASSUME NEW k \in Cmds \union {Quit}
      PROVE  /\ CallsAfter(js)[k] \in 0 .. 2
             /\ CallsAfter(js)[k] >= calls[k]
             /\ k \notin CmdsOf(js) \/ k \in Silent => CallsAfter(js)[k] = calls[k]
             /\ k \in CmdsOf(js) /\ k \notin Silent =>
                   /\ CallsAfter(js)[k] >= 1
                   /\ calls[k] < 2 => CallsAfter(js)[k] > calls[k]
             /\ calls[k] = 0 /\ (\A i, j \in DOMAIN js :
                                    js[i].cmd = k /\ js[j].cmd = k => i = j)
                   => CallsAfter(js)[k] <= 1
  <2>1. calls[k] \in 0 .. 2
    OBVIOUS
  <2>2. CallsAfter(js)[k] = IF calls[k] + Cardinality(At(k)) > 2 THEN 2
                            ELSE calls[k] + Cardinality(At(k))
    BY <1>4
  <2> QED
    BY <1>2, <1>3, <1>5, <2>1, <2>2
<1> QED
  BY <1>4, <1>6

LEMMA PreparedAfterFacts ==
  ASSUME NEW js \in Seq(Jobs), prepared \in [Executes -> {"no", "ok", "failed"}]
  PROVE  /\ PreparedAfter(js) \in [Executes -> {"no", "ok", "failed"}]
         /\ \A k \in Executes : k \notin CmdsOf(js) => PreparedAfter(js)[k] = prepared[k]
         /\ \A k \in Executes : PreparedAfter(js)[k] = "failed" =>
               prepared[k] = "failed" \/ k \in CmdsOf(js)
<1>1. \A k \in Executes : Job(k, "prepare") \in Elems(js) => k \in CmdsOf(js)
  <2>1. Executes \subseteq Names
    BY KindsAssumption DEF Names
  <2> QED
    BY <2>1, JobFacts, CmdsOfFacts
<1> QED
  BY <1>1 DEF PreparedAfter

\* The pending commands are the active one and those that wait.
LEMMA PendingFacts ==
  ASSUME current \in Jobs \union {NoJob}, commands \in Seq(Jobs)
  PROVE  /\ Pending \in Seq(Jobs) /\ DOMAIN Pending = 1 .. Len(Pending) /\ Len(Pending) \in Nat
         /\ current = NoJob => Pending = commands
         /\ current # NoJob => /\ Len(Pending) = 1 + Len(commands) /\ Pending[1] = current
                               /\ \A i \in 1 .. Len(commands) : Pending[i + 1] = commands[i]
                               /\ Elems(Pending) = {current} \union Elems(commands)
                               /\ CmdsOf(Pending) = {current.cmd} \union CmdsOf(commands)
                               /\ current \in Jobs
<1>1. CASE current = NoJob
  <2>1. Pending = commands
    BY <1>1 DEF Pending
  <2> QED
    BY <1>1, <2>1
<1>2. CASE current # NoJob
  <2>1. Pending = <<current>> \o commands /\ current \in Jobs
    BY <1>2 DEF Pending
  <2>2. <<current>> \in Seq(Jobs) /\ Len(<<current>>) = 1 /\ <<current>>[1] = current
    BY <2>1
  <2>3. Elems(<<current>>) = {current}
    BY <2>2 DEF Elems
  <2> HIDE DEF Pending
  <2>4. /\ Pending \in Seq(Jobs) /\ Len(Pending) = 1 + Len(commands) /\ Pending[1] = current
        /\ \A i \in 1 .. Len(commands) : Pending[i + 1] = commands[i]
        /\ Elems(Pending) = {current} \union Elems(commands)
    <3> DEFINE c == <<current>>
    <3>1. c \in Seq(Jobs) /\ Len(c) = 1 /\ c[1] = current /\ Elems(c) = {current}
          /\ Pending = c \o commands
      BY <2>1, <2>2, <2>3
    <3> HIDE DEF c
    <3>2. /\ Pending \in Seq(Jobs) /\ Len(Pending) = Len(c) + Len(commands)
          /\ Pending[1] = c[1]
          /\ \A i \in 1 .. Len(commands) : Pending[i + Len(c)] = commands[i]
          /\ Elems(Pending) = Elems(c) \union Elems(commands)
      <4>1. 1 \in 1 .. Len(c)
        BY <3>1
      <4>2. c \in Seq(Jobs) /\ commands \in Seq(Jobs)
        BY <3>1
      <4>3. /\ c \o commands \in Seq(Jobs) /\ Len(c \o commands) = Len(c) + Len(commands)
            /\ \A i \in 1 .. Len(c) : (c \o commands)[i] = c[i]
            /\ \A i \in 1 .. Len(commands) : (c \o commands)[i + Len(c)] = commands[i]
            /\ Elems(c \o commands) = Elems(c) \union Elems(commands)
        BY <4>2, ConcatFacts
      <4> QED
        BY <3>1, <4>1, <4>3
    <3> QED
      BY <3>1, <3>2
  <2>5. CmdsOf(Pending) = {current.cmd} \union CmdsOf(commands)
    BY <2>4, CmdsOfFacts
  <2> QED
    BY <1>2, <2>1, <2>4, <2>5
<1> QED
  BY <1>1, <1>2

\* A queue whose first m elements are done, or with m elements dropped.
LEMMA ShapeSuffix ==
  ASSUME NEW s \in Seq(Jobs), NEW t \in Seq(Jobs), NEW m \in 0 .. Len(s),
         Len(t) = Len(s) - m, \A i \in 1 .. Len(t) : t[i] = s[i + m],
         Shape(s)
  PROVE  Shape(t)
<1>1. DOMAIN s = 1 .. Len(s) /\ DOMAIN t = 1 .. Len(t) /\ Len(s) \in Nat /\ Len(t) \in Nat
  OBVIOUS
<1>2. \A i \in 1 .. Len(t) : i + m \in 1 .. Len(s) /\ t[i] = s[i + m]
  BY <1>1
<1>3. ASSUME NEW i \in 1 .. Len(t), t[i].step = "prepare"
      PROVE  t[i].cmd \in Executes /\ i < Len(t) /\ t[i + 1] = Job(t[i].cmd, "run")
  <2>1. s[i + m].cmd \in Executes /\ i + m < Len(s) /\ s[i + m + 1] = Job(s[i + m].cmd, "run")
    BY <1>1, <1>2, <1>3 DEF Shape
  <2>2. i < Len(t) /\ i + 1 \in 1 .. Len(t) /\ i + m + 1 = (i + 1) + m
    BY <1>1, <2>1
  <2> QED
    BY <1>2, <2>1, <2>2
<1>4. ASSUME NEW i \in 1 .. Len(t), i > 1, t[i].step = "run", t[i].cmd \in Executes
      PROVE  t[i - 1] = Job(t[i].cmd, "prepare")
  <2>0. i + m > 1 /\ i + m \in 1 .. Len(s) /\ t[i] = s[i + m]
    BY <1>1, <1>2, <1>4
  <2> DEFINE x == i + m
  <2>3. \A y \in DOMAIN s : y > 1 /\ s[y].step = "run" /\ s[y].cmd \in Executes =>
          s[y - 1] = Job(s[y].cmd, "prepare")
    BY DEF Shape
  <2>4. x \in DOMAIN s /\ x > 1 /\ s[x].step = "run" /\ s[x].cmd \in Executes
    BY <1>1, <2>0, <1>4
  <2>1. s[i + m - 1] = Job(s[i + m].cmd, "prepare")
    <3> HIDE DEF x
    <3>1. s[x - 1] = Job(s[x].cmd, "prepare")
      BY <2>3, <2>4
    <3> QED
      BY <3>1 DEF x
  <2>2. i - 1 \in 1 .. Len(t) /\ i + m - 1 = (i - 1) + m
    BY <1>1, <1>4
  <2> QED
    BY <1>2, <2>1, <2>2
<1>5. ASSUME NEW i \in 1 .. Len(t), NEW j \in 1 .. Len(t), t[i] = t[j]
      PROVE  i = j
  <2>0. \A x, y \in 1 .. Len(s) : s[x] = s[y] => x = y
    BY <1>1 DEF Shape
  <2>1. i + m = j + m
    BY <1>2, <1>5, <2>0
  <2> QED
    BY <2>1
<1>6. ASSUME NEW i \in 1 .. Len(t)
      PROVE  /\ t[i].cmd = Quit => i = Len(t)
             /\ t[i].cmd = Handshake => i = 1
  <2>1. s[i + m].cmd = Quit => i + m = Len(s)
    BY <1>1, <1>2 DEF Shape
  <2>2. s[i + m].cmd = Handshake => i + m = 1
    BY <1>1, <1>2 DEF Shape
  <2> QED
    BY <1>1, <1>2, <2>1, <2>2
<1> QED
  BY <1>1, <1>3, <1>4, <1>5, <1>6 DEF Shape

\* A queue with new commands behind it.
LEMMA ShapePush ==
  ASSUME NEW s \in Seq(Jobs), NEW js \in Seq(Jobs), NEW t \in Seq(Jobs),
         Len(t) = Len(s) + Len(js),
         \A i \in 1 .. Len(s) : t[i] = s[i],
         \A i \in 1 .. Len(js) : t[i + Len(s)] = js[i],
         Shape(s), Shape(js),
         Quit \notin CmdsOf(s), Handshake \notin CmdsOf(js),
         \A i \in DOMAIN js : \A j \in DOMAIN s : js[i].cmd # s[j].cmd,
         Len(js) > 0 /\ js[1].step = "run" => js[1].cmd \notin Executes
  PROVE  Shape(t)
<1> DEFINE n == Len(s)
<1>1. /\ DOMAIN s = 1 .. n /\ DOMAIN t = 1 .. Len(t) /\ n \in Nat /\ Len(t) \in Nat
      /\ DOMAIN js = 1 .. Len(js) /\ Len(js) \in Nat /\ Len(t) = n + Len(js)
  OBVIOUS
<1>2. ASSUME NEW i \in 1 .. Len(t)
      PROVE  \/ i \in 1 .. n /\ t[i] = s[i]
             \/ i > n /\ i - n \in 1 .. Len(js) /\ t[i] = js[i - n]
  <2>1. CASE i <= n
    BY <1>1, <2>1
  <2>2. CASE i > n
    <3>1. i - n \in 1 .. Len(js) /\ (i - n) + n = i
      BY <1>1, <2>2
    <3> QED
      BY <2>2, <3>1
  <2> QED
    BY <1>1, <2>1, <2>2
<1>21. \A i \in 1 .. n : i \in 1 .. Len(t) /\ t[i] = s[i]
  BY <1>1
<1>22. \A i \in 1 .. Len(js) : i + n \in 1 .. Len(t) /\ t[i + n] = js[i]
  BY <1>1
<1> HIDE DEF n
<1>3. ASSUME NEW i \in 1 .. Len(t), t[i].step = "prepare"
      PROVE  t[i].cmd \in Executes /\ i < Len(t) /\ t[i + 1] = Job(t[i].cmd, "run")
  <2>1. CASE i \in 1 .. n /\ t[i] = s[i]
    <3>1. s[i].cmd \in Executes /\ i < Len(s) /\ s[i + 1] = Job(s[i].cmd, "run")
      BY <1>1, <1>3, <2>1 DEF Shape
    <3>2. i + 1 \in 1 .. n /\ i < Len(t)
      BY <1>1, <2>1, <3>1 DEF n
    <3> QED
      BY <1>21, <2>1, <3>1, <3>2
  <2>2. CASE i > n /\ i - n \in 1 .. Len(js) /\ t[i] = js[i - n]
    <3>1. /\ js[i - n].cmd \in Executes /\ i - n < Len(js)
          /\ js[(i - n) + 1] = Job(js[i - n].cmd, "run")
      BY <1>1, <1>3, <2>2 DEF Shape
    <3>2. (i - n) + 1 \in 1 .. Len(js) /\ ((i - n) + 1) + n = i + 1 /\ i < Len(t)
      BY <1>1, <2>2, <3>1
    <3> QED
      BY <1>22, <2>2, <3>1, <3>2
  <2> QED
    BY <1>2, <2>1, <2>2
<1>4. ASSUME NEW i \in 1 .. Len(t), i > 1, t[i].step = "run", t[i].cmd \in Executes
      PROVE  t[i - 1] = Job(t[i].cmd, "prepare")
  <2>1. CASE i \in 1 .. n /\ t[i] = s[i]
    <3>1. s[i - 1] = Job(s[i].cmd, "prepare")
      BY <1>1, <1>4, <2>1 DEF Shape
    <3>2. i - 1 \in 1 .. n
      BY <1>1, <1>4, <2>1
    <3> QED
      BY <1>21, <2>1, <3>1, <3>2
  <2>2. CASE i > n /\ i - n \in 1 .. Len(js) /\ t[i] = js[i - n]
    <3>1. i - n > 1
      <4>1. i - n # 1
        BY <1>1, <1>4, <2>2
      <4> QED
        BY <1>1, <2>2, <4>1
    <3>2. js[(i - n) - 1] = Job(js[i - n].cmd, "prepare")
      BY <1>1, <1>4, <2>2, <3>1 DEF Shape
    <3>3. (i - n) - 1 \in 1 .. Len(js) /\ ((i - n) - 1) + n = i - 1
      BY <1>1, <2>2, <3>1
    <3> QED
      BY <1>22, <2>2, <3>2, <3>3
  <2> QED
    BY <1>2, <2>1, <2>2
<1>5. ASSUME NEW i \in 1 .. Len(t), NEW j \in 1 .. Len(t), t[i] = t[j]
      PROVE  i = j
  <2>1. CASE i \in 1 .. n /\ t[i] = s[i] /\ j \in 1 .. n /\ t[j] = s[j]
    <3>1. \A x, y \in 1 .. n : s[x] = s[y] => x = y
      BY <1>1 DEF Shape
    <3> QED
      BY <1>5, <2>1, <3>1
  <2>2. CASE /\ i > n /\ i - n \in 1 .. Len(js) /\ t[i] = js[i - n]
             /\ j > n /\ j - n \in 1 .. Len(js) /\ t[j] = js[j - n]
    <3>0. \A x, y \in 1 .. Len(js) : js[x] = js[y] => x = y
      BY <1>1 DEF Shape
    <3>1. i - n = j - n
      BY <1>5, <2>2, <3>0
    <3> QED
      BY <1>1, <3>1
  <2>3. CASE /\ i \in 1 .. n /\ t[i] = s[i]
             /\ j - n \in 1 .. Len(js) /\ t[j] = js[j - n]
    BY <1>1, <1>5, <2>3
  <2>4. CASE /\ j \in 1 .. n /\ t[j] = s[j]
             /\ i - n \in 1 .. Len(js) /\ t[i] = js[i - n]
    BY <1>1, <1>5, <2>4
  <2> QED
    BY <1>2, <2>1, <2>2, <2>3, <2>4
<1>6. ASSUME NEW i \in 1 .. Len(t)
      PROVE  /\ t[i].cmd = Quit => i = Len(t)
             /\ t[i].cmd = Handshake => i = 1
  <2>1. CASE i \in 1 .. n /\ t[i] = s[i]
    <3>1. s[i].cmd # Quit
      BY <1>1, <2>1 DEF CmdsOf
    <3>2. s[i].cmd = Handshake => i = 1
      BY <1>1, <2>1 DEF Shape
    <3> QED
      BY <2>1, <3>1, <3>2
  <2>2. CASE i > n /\ i - n \in 1 .. Len(js) /\ t[i] = js[i - n]
    <3>1. js[i - n].cmd # Handshake /\ (js[i - n].cmd = Quit => i - n = Len(js))
      BY <1>1, <2>2 DEF Shape, CmdsOf
    <3> QED
      BY <1>1, <2>2, <3>1
  <2> QED
    BY <1>2, <2>1, <2>2
<1> QED
  BY <1>1, <1>3, <1>4, <1>5, <1>6 DEF Shape

\* What a call puts into the queue.
NewJobs(k) == IF k \in Executes THEN <<Job(k, "prepare"), Job(k, "run")>>
              ELSE <<Job(k, "run")>>

LEMMA NewJobsFacts ==
  ASSUME NEW k \in Cmds \union {Quit}
  PROVE  /\ NewJobs(k) \in Seq(Jobs) /\ Shape(NewJobs(k)) /\ CmdsOf(NewJobs(k)) = {k}
         /\ Len(NewJobs(k)) = (IF k \in Executes THEN 2 ELSE 1) /\ Len(NewJobs(k)) > 0
         /\ NewJobs(k)[1].step = "run" => k \notin Executes
         /\ \A i \in DOMAIN NewJobs(k) : NewJobs(k)[i].cmd = k
<1>1. k \in Names /\ k # Handshake /\ (k = Quit => k \notin Executes)
  BY NamesDiffer, KindsAssumption DEF Names
<1>2. /\ Job(k, "run") \in Jobs /\ Job(k, "run").cmd = k /\ Job(k, "run").step = "run"
      /\ Job(k, "prepare") \in Jobs /\ Job(k, "prepare").cmd = k
      /\ Job(k, "prepare").step = "prepare" /\ Job(k, "prepare") # Job(k, "run")
  BY <1>1, JobFacts
<1>3. CASE k \in Executes
  <2> DEFINE s == <<Job(k, "prepare"), Job(k, "run")>>
  <2>1. /\ s \in Seq(Jobs) /\ Len(s) = 2 /\ DOMAIN s = {1, 2}
        /\ s[1] = Job(k, "prepare") /\ s[2] = Job(k, "run") /\ NewJobs(k) = s
    BY <1>2, <1>3 DEF NewJobs
  <2> HIDE DEF s
  <2>2. Shape(s)
    BY <1>1, <1>2, <1>3, <2>1 DEF Shape
  <2>3. CmdsOf(s) = {k}
    BY <1>2, <2>1 DEF CmdsOf
  <2> QED
    <3>1. \A i \in DOMAIN s : s[i].cmd = k
      BY <1>2, <2>1
    <3>2. s[1].step # "run"
      BY <1>2, <2>1
    <3>3. Len(s) = (IF k \in Executes THEN 2 ELSE 1) /\ Len(s) > 0
      BY <1>3, <2>1
    <3>4. NewJobs(k) = s /\ s \in Seq(Jobs)
      BY <2>1
    <3> QED
      BY <2>2, <2>3, <3>1, <3>2, <3>3, <3>4
<1>4. CASE k \notin Executes
  <2> DEFINE s == <<Job(k, "run")>>
  <2>1. /\ s \in Seq(Jobs) /\ Len(s) = 1 /\ DOMAIN s = {1}
        /\ s[1] = Job(k, "run") /\ NewJobs(k) = s
    BY <1>2, <1>4 DEF NewJobs
  <2> HIDE DEF s
  <2>2. Shape(s)
    BY <1>1, <1>2, <1>4, <2>1 DEF Shape
  <2>3. CmdsOf(s) = {k}
    BY <1>2, <2>1 DEF CmdsOf
  <2> QED
    <3>1. \A i \in DOMAIN s : s[i].cmd = k
      BY <1>2, <2>1
    <3> QED
      BY <1>4, <2>1, <2>2, <2>3, <3>1
<1> QED
  BY <1>3, <1>4

-----------------------------------------------------------------------------
(* What the handlers do to the queue.                                      *)

\* The active command and the next m - 1 leave the queue, and the one behind
\* them, if there is one, is started.
Popped(m) ==
    /\ m \in 1 .. Len(Pending)
    /\ Pending' \in Seq(Jobs)
    /\ Len(Pending') = Len(Pending) - m
    /\ \A i \in 1 .. Len(Pending') : Pending'[i] = Pending[i + m]
    /\ m = Len(Pending) => current' = NoJob /\ commands' = <<>> /\ started' = FALSE
    /\ m < Len(Pending) => current' = Pending[m + 1] /\ current' \in Jobs /\ started' = TRUE
    /\ commands' \in Seq(Jobs)

\* What Advance does besides.
Moved(m, prep, cl, tm) ==
    /\ \A i \in 2 .. m : Instant(Pending[i], prep)
    /\ m < Len(Pending) => ~Instant(current', prep)
    /\ prepared' = prep
    /\ \/ /\ calls' = cl /\ closing' = closing
          /\ m = Len(Pending) => \A i \in 2 .. m : Pending[i].cmd # Quit
       \/ /\ m = Len(Pending) /\ \E i \in 2 .. m : Pending[i].cmd = Quit
          /\ closing' = TRUE
          /\ calls' = [cl EXCEPT ![Quit] = IF @ = 2 THEN 2 ELSE @ + 1]
    /\ timer' = [k \in Cmds |-> tm[k] \/ (current' = Job(k, "run") /\ k \in Timed)]
    /\ badWrite' \in BOOLEAN /\ closing' \in BOOLEAN
    /\ asked' \in {asked, NoJob, current'}
    /\ asked' # NoJob => asked' = asked \/ ~gone
    /\ sent' \in {sent, 0}

LEMMA AdvanceFacts ==
  ASSUME current \in Jobs, commands \in Seq(Jobs), {closing, badWrite} \subseteq BOOLEAN,
         NEW prep, NEW cl, NEW tm \in [Cmds -> BOOLEAN],
         Advance(prep, cl, tm)
  PROVE  \E m \in 1 .. Len(Pending) : Popped(m) /\ Moved(m, prep, cl, tm)
<1> DEFINE L == Len(commands)
<1>1. PICK n \in 0 .. L :
        /\ \A i \in 1 .. n : Instant(commands[i], prep)
        /\ n < L => ~Instant(commands[n + 1], prep)
        /\ prepared' = prep
        /\ commands' = SubSeq(commands, n + 2, Len(commands))
        /\ IF n < Len(commands)
           THEN /\ current' = commands[n + 1] /\ started' = TRUE
                /\ Start(commands[n + 1], tm)
                /\ calls' = cl
                /\ UNCHANGED closing
           ELSE /\ current' = NoJob /\ started' = FALSE
                /\ timer' = tm
                /\ IF \E i \in 1 .. n : commands[i].cmd = Quit
                   THEN StartQuit(cl)
                   ELSE calls' = cl /\ UNCHANGED <<closing, badWrite>>
                /\ UNCHANGED <<asked, sent>>
  BY DEF Advance
<1>2. /\ Pending \in Seq(Jobs) /\ Len(Pending) = 1 + L /\ Pending[1] = current
      /\ \A i \in 1 .. L : Pending[i + 1] = commands[i]
      /\ L \in Nat /\ DOMAIN commands = 1 .. L /\ current # NoJob
  <2>1. current # NoJob /\ L \in Nat /\ DOMAIN commands = 1 .. L
    BY JobFacts
  <2> QED
    BY <2>1, PendingFacts
<1>3. ASSUME n < L
      PROVE  /\ commands' \in Seq(Jobs) /\ Len(commands') = L - (n + 1)
             /\ \A i \in 1 .. L - (n + 1) : commands'[i] = commands[i + (n + 1)]
  <2>1. n + 1 \in Nat /\ n + 1 <= Len(commands) /\ (n + 1) + 1 = n + 2
    BY <1>2, <1>3
  <2> QED
    BY <1>1, <2>1, SuffixFacts
<1>4. ASSUME n = L
      PROVE  commands' = <<>>
  <2>1. L + 2 \in Int /\ L \in Int /\ L < L + 2
    BY <1>2
  <2>2. SubSeq(commands, L + 2, L) = <<>>
    BY <2>1, SubSeqEmpty
  <2> QED
    BY <1>1, <1>4, <2>2
<1>5. \A i \in 2 .. n + 1 : Pending[i] = commands[i - 1] /\ i - 1 \in 1 .. n
  <2>1. \A i \in 2 .. n + 1 : i - 1 \in 1 .. L /\ i - 1 \in 1 .. n /\ (i - 1) + 1 = i
    BY <1>2
  <2> QED
    BY <1>2, <2>1
<1>6. \A i \in 2 .. n + 1 : Instant(Pending[i], prep)
  BY <1>1, <1>5
<1>7. CASE n < L
  <2>1. current' = commands[n + 1] /\ n + 1 \in 1 .. L /\ commands[n + 1] \in Jobs
    BY <1>1, <1>2, <1>7
  <2>2. current' = Pending[(n + 1) + 1] /\ current' # NoJob /\ current' \in Jobs
    BY <1>2, <2>1, JobFacts
  <2>3. /\ Pending' \in Seq(Jobs) /\ Len(Pending') = L - n /\ Pending'[1] = current'
        /\ \A i \in 1 .. L - (n + 1) : Pending'[i + 1] = commands'[i]
    <3>1. Pending' = <<current'>> \o commands'
      BY <2>2 DEF Pending
    <3> DEFINE c == <<current'>>
    <3>2. c \in Seq(Jobs) /\ Len(c) = 1 /\ c[1] = current' /\ Pending' = c \o commands'
      BY <2>2, <3>1
    <3> HIDE DEF c
    <3>3. /\ c \o commands' \in Seq(Jobs) /\ Len(c \o commands') = Len(c) + Len(commands')
          /\ \A i \in 1 .. Len(c) : (c \o commands')[i] = c[i]
          /\ \A i \in 1 .. Len(commands') : (c \o commands')[i + Len(c)] = commands'[i]
      <4>1. c \in Seq(Jobs) /\ commands' \in Seq(Jobs)
        BY <1>3, <1>7, <3>2
      <4> QED
        BY <4>1, ConcatFacts
    <3>4. 1 \in 1 .. Len(c) /\ 1 + (L - (n + 1)) = L - n
      BY <1>2, <3>2
    <3> QED
      BY <1>3, <1>7, <3>2, <3>3, <3>4
  <2>4. \A i \in 1 .. L - n : Pending'[i] = Pending[i + (n + 1)]
    <3> SUFFICES ASSUME NEW i \in 1 .. L - n
                 PROVE  Pending'[i] = Pending[i + (n + 1)]
      OBVIOUS
    <3>1. CASE i = 1
      <4>1. (n + 1) + 1 = i + (n + 1)
        BY <3>1
      <4> QED
        BY <2>2, <2>3, <3>1, <4>1
    <3>2. CASE i # 1
      <4>1. i - 1 \in 1 .. L - (n + 1) /\ (i - 1) + 1 = i /\ (i - 1) + (n + 1) \in 1 .. L
        BY <1>2, <1>7, <3>2
      <4>2. Pending'[i] = commands[(i - 1) + (n + 1)]
        BY <1>3, <1>7, <2>3, <4>1
      <4>3. ((i - 1) + (n + 1)) + 1 = i + (n + 1)
        BY <1>2
      <4> QED
        BY <1>2, <4>1, <4>2, <4>3
    <3> QED
      BY <3>1, <3>2
  <2>5. n + 1 \in 1 .. Len(Pending) /\ n + 1 < Len(Pending) /\ Len(Pending) - (n + 1) = L - n
    BY <1>2, <1>7
  <2> DEFINE m == n + 1
  <2>9. /\ m \in 1 .. Len(Pending) /\ m < Len(Pending) /\ Len(Pending') = Len(Pending) - m
        /\ L - n = Len(Pending') /\ \A i \in 1 .. Len(Pending') : Pending'[i] = Pending[i + m]
        /\ current' = Pending[m + 1]
    BY <2>2, <2>3, <2>4, <2>5
  <2>10. m # Len(Pending)
    BY <2>5
  <2>11. commands' \in Seq(Jobs)
    BY <1>3, <1>7
  <2>12. started' = TRUE
    BY <1>1, <1>7
  <2>6. Popped(n + 1)
    <3> HIDE DEF m
    <3>1. Popped(m)
      BY <2>2, <2>3, <2>9, <2>10, <2>11, <2>12 DEF Popped
    <3> QED
      BY <3>1 DEF m
  <2>7. /\ timer' = [k \in Cmds |-> tm[k] \/ (current' = Job(k, "run") /\ k \in Timed)]
        /\ badWrite' \in BOOLEAN
        /\ asked' \in {asked, NoJob, current'} /\ sent' \in {sent, 0}
        /\ asked' # NoJob => asked' = asked \/ ~gone
    <3>1. Start(current', tm)
      BY <1>1, <1>7, <2>1
    <3>2. \A k : (k = current'.cmd /\ current'.step = "run") <=> current' = Job(k, "run")
      BY <2>2, JobFacts
    <3>3. timer' = [k \in Cmds |-> tm[k] \/ (current' = Job(k, "run") /\ k \in Timed)]
      <4>1. timer' = [k \in Cmds |-> tm[k] \/ (k = current'.cmd /\ current'.step = "run"
                                                            /\ k \in Timed)]
        BY <3>1 DEF Start
      <4>2. \A k \in Cmds : (k = current'.cmd /\ current'.step = "run" /\ k \in Timed)
                             <=> (current' = Job(k, "run") /\ k \in Timed)
        BY <3>2
      <4> QED
        BY <4>1, <4>2
    <3> QED
      BY <3>1, <3>3 DEF Start
  <2>8. Moved(n + 1, prep, cl, tm)
    <3> HIDE DEF m
    <3>1. n + 1 # Len(Pending)
      BY <2>10 DEF m
    <3> QED
      BY <1>1, <1>6, <1>7, <2>1, <2>7, <3>1 DEF Moved
  <2> QED
    BY <2>5, <2>6, <2>8
<1>8. CASE n = L
  <2>1. current' = NoJob /\ started' = FALSE /\ commands' = <<>> /\ timer' = tm
    BY <1>1, <1>2, <1>4, <1>8
  <2>2. Pending' = <<>>
    BY <2>1 DEF Pending
  <2>3. /\ n + 1 \in 1 .. Len(Pending) /\ n + 1 = Len(Pending)
        /\ Len(Pending) - (n + 1) = 0 /\ Len(<<>>) = 0 /\ <<>> \in Seq(Jobs)
    BY <1>2, <1>8
  <2>4. Popped(n + 1)
    BY <2>1, <2>2, <2>3 DEF Popped
  <2>5. \A k : NoJob # Job(k, "run") \/ k \notin Cmds
    BY NamesDiffer DEF NoJob, Job
  <2>6. timer' = [k \in Cmds |-> tm[k] \/ (current' = Job(k, "run") /\ k \in Timed)]
    BY <2>1, <2>5
  <2>7. CASE \E i \in 1 .. n : commands[i].cmd = Quit
    <3>1. \E i \in 2 .. n + 1 : Pending[i].cmd = Quit
      <4> PICK i \in 1 .. n : commands[i].cmd = Quit
        BY <2>7
      <4>1. i + 1 \in 2 .. n + 1 /\ i \in 1 .. L
        BY <1>2
      <4> QED
        BY <1>2, <4>1
    <3>2. StartQuit(cl) /\ UNCHANGED <<asked, sent>>
      BY <1>1, <1>2, <1>8, <2>7
    <3>4. badWrite' \in BOOLEAN /\ closing' \in BOOLEAN
      BY <3>2 DEF StartQuit
    <3>5. asked' = asked /\ sent' = sent /\ ~(n + 1 < Len(Pending))
      BY <2>3, <3>2
    <3>6. /\ closing' = TRUE
          /\ calls' = [cl EXCEPT ![Quit] = IF @ = 2 THEN 2 ELSE @ + 1]
      BY <3>2 DEF StartQuit
    <3> HIDE DEF L
    <3>3. Moved(n + 1, prep, cl, tm)
      BY <1>1, <1>6, <2>3, <2>6, <3>1, <3>4, <3>5, <3>6 DEF Moved
    <3> QED
      BY <2>3, <2>4, <3>3
  <2>8. CASE ~\E i \in 1 .. n : commands[i].cmd = Quit
    <3>1. calls' = cl /\ UNCHANGED <<closing, badWrite, asked, sent>>
      BY <1>1, <1>2, <1>8, <2>8
    <3>3. badWrite' \in BOOLEAN /\ closing' \in BOOLEAN /\ ~(n + 1 < Len(Pending))
      BY <2>3, <3>1
    <3>4. \A i \in 2 .. n + 1 : Pending[i].cmd # Quit
      BY <1>5, <2>8
    <3> HIDE DEF L
    <3>2. Moved(n + 1, prep, cl, tm)
      BY <1>1, <1>6, <2>3, <2>6, <3>1, <3>3, <3>4 DEF Moved
    <3> QED
      BY <2>3, <2>4, <3>2
  <2> QED
    BY <2>7, <2>8
<1> HIDE DEF L
<1>9. L \in Nat
  BY <1>2
<1> QED
  BY <1>1, <1>7, <1>8, <1>9

\* New commands behind those that are pending.
Pushed(js) ==
    /\ Pending' = Pending \o js
    /\ current' \in Jobs /\ commands' \in Seq(Jobs)
    /\ current # NoJob => current' = current
    /\ current = NoJob => Pending = <<>> /\ current' = js[1]

LEMMA PushFacts ==
  ASSUME current \in Jobs \union {NoJob}, commands \in Seq(Jobs), NEW js \in Seq(Jobs),
         \/ current # NoJob /\ current' = current /\ commands' = commands \o js
         \/ /\ current = NoJob /\ commands = <<>>
            /\ current' \in Jobs /\ commands' \in Seq(Jobs)
            /\ js = <<current'>> \o commands' /\ js[1] = current'
  PROVE  Pushed(js)
<1>1. CASE current # NoJob /\ current' = current /\ commands' = commands \o js
  <2> DEFINE c == <<current>>
  <2>1. c \in Seq(Jobs) /\ Pending = c \o commands /\ current \in Jobs
    BY <1>1 DEF Pending
  <2>2. Pending' = c \o (commands \o js)
    BY <1>1 DEF Pending
  <2> HIDE DEF c
  <2>3. c \o (commands \o js) = (c \o commands) \o js /\ commands \o js \in Seq(Jobs)
    <3>1. c \in Seq(Jobs) /\ commands \in Seq(Jobs) /\ js \in Seq(Jobs)
      BY <2>1
    <3> QED
      BY <3>1, ConcatAssociative, ConcatProperties
  <2> QED
    BY <1>1, <2>1, <2>2, <2>3 DEF Pushed
<1>2. CASE /\ current = NoJob /\ commands = <<>>
           /\ current' \in Jobs /\ commands' \in Seq(Jobs)
           /\ js = <<current'>> \o commands' /\ js[1] = current'
  <2>1. Pending = <<>> /\ Pending' = js
    BY <1>2, JobFacts DEF Pending
  <2>2. Pending \o js = js
    BY <2>1
  <2> QED
    BY <1>2, <2>1, <2>2 DEF Pushed
<1> QED
  BY <1>1, <1>2

\* What query(), execute() and end() put into the queue.
LEMMA AddFacts ==
  ASSUME current \in Jobs \union {NoJob}, commands \in Seq(Jobs),
         current = NoJob => commands = <<>>,
         NEW k \in Cmds \union {Quit}, NEW more,
         NEW j, IF k \in Executes THEN j = Job(k, "prepare") /\ more = <<Job(k, "run")>>
                ELSE j = Job(k, "run") /\ more = <<>>,
         IF current # NoJob THEN commands' = commands \o <<j>> \o more /\ current' = current
         ELSE current' = j /\ commands' = more
  PROVE  Pushed(NewJobs(k))
<1>1. Job(k, "run") \in Jobs /\ Job(k, "prepare") \in Jobs
  BY JobFacts DEF Names
<1>2. /\ j \in Jobs /\ more \in Seq(Jobs) /\ <<j>> \in Seq(Jobs)
      /\ NewJobs(k) = <<j>> \o more /\ NewJobs(k)[1] = j /\ NewJobs(k) \in Seq(Jobs)
  <2>1. CASE k \in Executes
    <3>1. j = Job(k, "prepare") /\ more = <<Job(k, "run")>>
      BY <2>1
    <3>2. <<Job(k, "prepare"), Job(k, "run")>> = <<Job(k, "prepare")>> \o <<Job(k, "run")>>
      OBVIOUS
    <3> QED
      BY <1>1, <2>1, <3>1, <3>2 DEF NewJobs
  <2>2. CASE k \notin Executes
    <3>1. j = Job(k, "run") /\ more = <<>>
      BY <2>2
    <3>2. <<Job(k, "run")>> = <<Job(k, "run")>> \o <<>>
      OBVIOUS
    <3> QED
      BY <1>1, <2>2, <3>1, <3>2 DEF NewJobs
  <2> QED
    BY <2>1, <2>2
<1>3. commands \o <<j>> \o more = commands \o NewJobs(k)
  BY <1>2, ConcatAssociative
<1> HIDE DEF NewJobs
<1> QED
  BY <1>2, <1>3, PushFacts

-----------------------------------------------------------------------------
(* The steps: Deliver by what handlePacket does with the packet.           *)

Handling == /\ ~paused /\ current # NoJob /\ ~fatal
            /\ chunk # <<>> /\ chunk' = Tail(chunk)
            /\ UNCHANGED <<issued, destroyed>>

Hold == /\ paused /\ chunk # <<>> /\ chunk' = Tail(chunk)
        /\ held' = Append(held, Head(chunk))
        /\ UNCHANGED <<queueVars, resultVars, issued, paused, endVars, loginVars, serverVars>>
Discard == /\ ~paused /\ current = NoJob /\ chunk # <<>> /\ chunk' = Tail(chunk)
           /\ Unexpected
           /\ UNCHANGED <<issued, destroyed>>
Ignore == /\ ~paused /\ current # NoJob /\ fatal
          /\ chunk # <<>> /\ chunk' = Tail(chunk)
          /\ UNCHANGED <<queueVars, resultVars, issued, paused, held, endVars, loginVars,
                         serverVars>>

HandlePart == Handling /\ Head(chunk).kind = "part" /\ Part /\ UNCHANGED ticks
HandleGiveUp == Handling /\ Head(chunk).kind = "part" /\ GiveUpLogin /\ UNCHANGED ticks
HandleThrow == Handling /\ Head(chunk).kind = "part" /\ HandlerThrows /\ UNCHANGED ticks
HandleRow == Handling /\ Head(chunk).kind = "part" /\ RowThrows /\ UNCHANGED ticks

SameFlags == UNCHANGED <<paused, held, accepting, fatal, protoErr, stream, gone>>
HandleLogin == Handling /\ Head(chunk).kind = "ok" /\ current.cmd = Handshake
               /\ HandshakeDone /\ SameFlags
HandlePrepared == Handling /\ Head(chunk).kind = "ok" /\ current.step = "prepare"
                  /\ prepareDone(current.cmd) /\ SameFlags
HandleDone == Handling /\ Head(chunk).kind = "ok" /\ current.step = "run"
              /\ current.cmd \in Cmds /\ done(current.cmd) /\ SameFlags
HandleRefusal == Handling /\ Head(chunk).kind = "err" /\ current.cmd = Handshake
                 /\ HandshakeError(FALSE, hello) /\ UNCHANGED ticks
HandleErr ==
    /\ Handling /\ Head(chunk).kind = "err" /\ current.cmd # Handshake
    /\ Advance(IF current.step = "prepare"
               THEN [prepared EXCEPT ![current.cmd] = "failed"] ELSE prepared,
               CallsAfter(<<current>>),
               [k \in Cmds |-> timer[k] /\ current # Job(k, "run")])
    /\ UNCHANGED <<ticks, loginVars>> /\ SameFlags

LEMMA DeliverCases ==
  ASSUME Deliver
  PROVE  \/ Hold \/ Discard \/ Ignore
         \/ HandlePart \/ HandleGiveUp \/ HandleThrow \/ HandleRow
         \/ HandleLogin \/ HandlePrepared \/ HandleDone
         \/ HandleRefusal \/ HandleErr
<1> DEFINE p == Head(chunk)
<1>1. CASE /\ paused
           /\ held' = Append(held, p)
           /\ UNCHANGED <<queueVars, resultVars, paused, endVars, loginVars, serverVars>>
  BY <1>1 DEF Deliver, Hold
<1>2. CASE ~paused /\ current = NoJob /\ Unexpected
  BY <1>2 DEF Deliver, Discard
<1>3. CASE /\ ~paused /\ current # NoJob /\ fatal
           /\ UNCHANGED <<queueVars, resultVars, paused, held, endVars, loginVars,
                          serverVars>>
  BY <1>3 DEF Deliver, Ignore
<1>4. CASE /\ ~paused /\ current # NoJob /\ ~fatal
           /\ \/ p.kind = "part" /\ PartPacket /\ UNCHANGED ticks
              \/ p.kind = "ok" /\ OkPacket
              \/ p.kind = "err" /\ ErrPacket
  <2>1. Handling
    BY <1>4 DEF Deliver, Handling
  <2>2. CASE p.kind = "part" /\ PartPacket /\ UNCHANGED ticks
    BY <2>1, <2>2 DEF PartPacket, HandlePart, HandleGiveUp, HandleThrow, HandleRow
  <2>3. CASE p.kind = "ok" /\ OkPacket
    BY <2>1, <2>3 DEF OkPacket, HandleLogin, HandlePrepared, HandleDone, SameFlags
  <2>4. CASE p.kind = "err" /\ ErrPacket
    BY <2>1, <2>4 DEF ErrPacket, HandleRefusal, HandleErr, SameFlags
  <2> QED
    BY <1>4, <2>2, <2>3, <2>4
<1> QED
  BY <1>1, <1>2, <1>3, <1>4 DEF Deliver

-----------------------------------------------------------------------------
(* Types.                                                                  *)

LEMMA PacketFacts ==
  /\ \A j \in Jobs \union {NoJob}, x \in {"part", "ok", "err", "nothing"} :
        Packet(j, x) \in Packets /\ Packet(j, x).job = j /\ Packet(j, x).kind = x
  /\ Nothing \in Packets /\ Nothing.job = NoJob /\ Nothing.kind = "nothing"
  /\ \A p \in Packets : /\ p.job \in Jobs \union {NoJob}
                        /\ p.kind \in {"part", "ok", "err", "nothing"}
                        /\ p = Nothing <=> p.job = NoJob /\ p.kind = "nothing"
BY DEF Packet, Packets, Nothing

LEMMA AdvanceType ==
  ASSUME TypeOK, current # NoJob,
         NEW prep \in [Executes -> {"no", "ok", "failed"}],
         NEW cl \in [Cmds \union {Quit} -> 0 .. 2],
         NEW tm \in [Cmds -> BOOLEAN],
         Advance(prep, cl, tm)
  PROVE  /\ current' \in Jobs \union {NoJob}
         /\ commands' \in Seq(Jobs)
         /\ prepared' \in [Executes -> {"no", "ok", "failed"}]
         /\ timer' \in [Cmds -> BOOLEAN]
         /\ calls' \in [Cmds \union {Quit} -> 0 .. 2]
         /\ {started', closing', badWrite'} \subseteq BOOLEAN
         /\ asked' \in Jobs \union {NoJob}
         /\ sent' \in 0 .. MaxParts
<1>1. PICK m \in 1 .. Len(Pending) : Popped(m) /\ Moved(m, prep, cl, tm)
  <2>1. current \in Jobs /\ commands \in Seq(Jobs) /\ {closing, badWrite} \subseteq BOOLEAN
    BY DEF TypeOK
  <2> QED
    BY <2>1, AdvanceFacts
<1>2. current' \in Jobs \union {NoJob} /\ commands' \in Seq(Jobs) /\ started' \in BOOLEAN
  <2>1. Len(Pending) \in Nat
    BY PendingFacts DEF TypeOK
  <2>2. m = Len(Pending) \/ m < Len(Pending)
    BY <2>1
  <2> QED
    BY <1>1, <2>2 DEF Popped
<1>3. timer' \in [Cmds -> BOOLEAN] /\ prepared' \in [Executes -> {"no", "ok", "failed"}]
  BY <1>1 DEF Moved
<1>4. calls' \in [Cmds \union {Quit} -> 0 .. 2]
  <2>1. \A x \in 0 .. 2 : (IF x = 2 THEN 2 ELSE x + 1) \in 0 .. 2
    OBVIOUS
  <2> QED
    BY <1>1, <2>1 DEF Moved
<1>5. asked' \in Jobs \union {NoJob} /\ sent' \in 0 .. MaxParts
  <2>1. 0 \in 0 .. MaxParts
    BY PartsAssumption
  <2> QED
    BY <1>1, <1>2, <2>1 DEF Moved, TypeOK
<1> QED
  BY <1>1, <1>2, <1>3, <1>4, <1>5 DEF Moved

LEMMA TypeInit == Init => TypeOK
<1> SUFFICES ASSUME Init PROVE TypeOK
  OBVIOUS
<1>1. Job(Handshake, "run") \in Jobs
  BY JobFacts DEF Names
<1>2. <<>> \in Seq(Jobs) /\ <<>> \in Seq(Cmds) /\ <<>> \in Seq(Cmds \union {Quit})
      /\ <<>> \in Seq(Packets)
  OBVIOUS
<1>3. 0 \in 0 .. MaxParts
  BY PartsAssumption
<1>4. {started, paused, closing, accepting, fatal, protoErr, badWrite, connectTimer,
       hello, connected, emitted, destroyed, gone} \subseteq BOOLEAN
  BY DEF Init
<1>5. /\ prepared \in [Executes -> {"no", "ok", "failed"}]
      /\ timer \in [Cmds -> BOOLEAN]
      /\ calls \in [Cmds \union {Quit} -> 0 .. 2]
  BY DEF Init
<1> QED
  BY <1>1, <1>2, <1>3, <1>4, <1>5 DEF Init, TypeOK

LEMMA NotifyErrorType ==
  ASSUME TypeOK, NEW s \in {"open", "ended", "closed"}, notifyError(s)
  PROVE  /\ current' \in Jobs \union {NoJob}
         /\ commands' \in Seq(Jobs)
         /\ prepared' \in [Executes -> {"no", "ok", "failed"}]
         /\ calls' \in [Cmds \union {Quit} -> 0 .. 2]
         /\ {started', connectTimer', closing', accepting', emitted'} \subseteq BOOLEAN
         /\ stream' \in {"open", "ended", "closed"}
         /\ connectCb' \in {"none", "waiting", "ok", "err"}
<1>1. /\ CallsAfter(Pending) \in [Cmds \union {Quit} -> 0 .. 2]
      /\ PreparedAfter(Pending) \in [Executes -> {"no", "ok", "failed"}]
  BY PendingFacts, CallsAfterFacts, PreparedAfterFacts DEF TypeOK
<1>2. <<>> \in Seq(Jobs)
  OBVIOUS
<1> QED
  BY <1>1, <1>2 DEF notifyError, EmitError, TypeOK, queueVars

LEMMA HandshakeErrorType ==
  ASSUME TypeOK, NEW b \in BOOLEAN, NEW h \in BOOLEAN, HandshakeError(b, h)
  PROVE  /\ current' \in Jobs \union {NoJob}
         /\ commands' \in Seq(Jobs)
         /\ prepared' \in [Executes -> {"no", "ok", "failed"}]
         /\ calls' \in [Cmds \union {Quit} -> 0 .. 2]
         /\ {started', connectTimer', closing', accepting', fatal', protoErr', hello',
             emitted'} \subseteq BOOLEAN
         /\ stream' \in {"open", "ended", "closed"}
         /\ connectCb' \in {"none", "waiting", "ok", "err"}
<1>1. /\ CallsAfter(commands) \in [Cmds \union {Quit} -> 0 .. 2]
      /\ PreparedAfter(commands) \in [Executes -> {"no", "ok", "failed"}]
  BY CallsAfterFacts, PreparedAfterFacts DEF TypeOK
<1>2. <<>> \in Seq(Jobs)
  OBVIOUS
<1>3. (accepting /\ ~b) \in BOOLEAN
  OBVIOUS
<1> QED
  BY <1>1, <1>2, <1>3 DEF HandshakeError, EmitError, TypeOK

LEMMA DeliverType ==
  ASSUME TypeOK, Deliver
  PROVE  TypeOK'
<1> USE DEF TypeOK, queueVars, resultVars, endVars, loginVars, serverVars
<1>1. chunk # <<>> => Head(chunk) \in Packets /\ Tail(chunk) \in Seq(Packets)
  BY TailFacts
<1>2. ASSUME current # NoJob
      PROVE  /\ CallsAfter(<<current>>) \in [Cmds \union {Quit} -> 0 .. 2]
             /\ current \in Jobs
  <2>1. <<current>> \in Seq(Jobs)
    BY <1>2
  <2> QED
    BY <1>2, <2>1, CallsAfterFacts
<1>3. CASE Hold
  <2>1. Append(held, Head(chunk)) \in Seq(Packets)
    BY <1>1, <1>3, AppendFacts DEF Hold
  <2> QED
    BY <1>1, <1>3, <2>1 DEF Hold
<1>4. CASE Discard
  BY <1>1, <1>4 DEF Discard, Unexpected, close, protocolError, EmitError
<1>5. CASE Ignore
  BY <1>1, <1>5 DEF Ignore
<1>6. CASE HandlePart
  <2>1. (hello \/ current.cmd = Handshake) \in BOOLEAN
    OBVIOUS
  <2>2. hello' \in BOOLEAN /\ paused' \in BOOLEAN
    BY <1>6, <2>1 DEF HandlePart, Part
  <2> QED
    BY <1>1, <1>6, <2>2 DEF HandlePart, Handling, Part
<1>7. CASE HandleGiveUp
  <2>1. HandshakeError(TRUE, TRUE)
    BY <1>7 DEF HandleGiveUp, GiveUpLogin
  <2> QED
    BY <1>1, <1>7, <2>1, HandshakeErrorType DEF HandleGiveUp, Handling, HandshakeError
<1>8. CASE HandleThrow
  <2>1. notifyError("ended") /\ fatal' = TRUE
    BY <1>8 DEF HandleThrow, HandlerThrows, handleFatalError
  <2> QED
    BY <1>1, <1>8, <2>1, NotifyErrorType DEF HandleThrow, Handling, HandlerThrows
<1>9. CASE HandleRow
  <2>1. current # NoJob /\ Advance(prepared, CallsAfter(<<current>>), timer)
    BY <1>9 DEF HandleRow, Handling, RowThrows
  <2> QED
    BY <1>1, <1>2, <1>9, <2>1, AdvanceType DEF HandleRow, Handling, RowThrows
<1>10. CASE HandleLogin
  <2>1. current # NoJob /\ Advance(prepared, calls, timer)
    BY <1>10 DEF HandleLogin, Handling, HandshakeDone
  <2> QED
    BY <1>1, <1>10, <2>1, AdvanceType DEF HandleLogin, Handling, HandshakeDone, SameFlags
<1>11. CASE HandlePrepared
  <2>1. current # NoJob /\ Advance([prepared EXCEPT ![current.cmd] = "ok"], calls, timer)
    BY <1>11 DEF HandlePrepared, Handling, prepareDone
  <2>2. [prepared EXCEPT ![current.cmd] = "ok"] \in [Executes -> {"no", "ok", "failed"}]
    OBVIOUS
  <2> QED
    BY <1>1, <1>11, <2>1, <2>2, AdvanceType
    DEF HandlePrepared, Handling, prepareDone, SameFlags
<1>12. CASE HandleDone
  <2>1. current # NoJob /\ Advance(prepared, calls, [timer EXCEPT ![current.cmd] = FALSE])
    BY <1>12 DEF HandleDone, Handling, done
  <2>2. [timer EXCEPT ![current.cmd] = FALSE] \in [Cmds -> BOOLEAN]
    OBVIOUS
  <2>3. ticks' \in Seq(Cmds)
    BY <1>12 DEF HandleDone, done
  <2> QED
    BY <1>1, <1>12, <2>1, <2>2, <2>3, AdvanceType DEF HandleDone, Handling, done, SameFlags
<1>13. CASE HandleRefusal
  <2>1. HandshakeError(FALSE, hello) /\ hello \in BOOLEAN
    BY <1>13 DEF HandleRefusal
  <2> QED
    BY <1>1, <1>13, <2>1, HandshakeErrorType DEF HandleRefusal, Handling, HandshakeError
<1>14. CASE HandleErr
  <2> DEFINE prep == IF current.step = "prepare"
                     THEN [prepared EXCEPT ![current.cmd] = "failed"] ELSE prepared
             tm == [k \in Cmds |-> timer[k] /\ current # Job(k, "run")]
  <2>1. current # NoJob /\ Advance(prep, CallsAfter(<<current>>), tm)
    BY <1>14 DEF HandleErr, Handling
  <2>2. prep \in [Executes -> {"no", "ok", "failed"}] /\ tm \in [Cmds -> BOOLEAN]
    OBVIOUS
  <2> HIDE DEF prep, tm
  <2> QED
    BY <1>1, <1>2, <1>14, <2>1, <2>2, AdvanceType DEF HandleErr, Handling, SameFlags
<1> QED
  BY <1>3, <1>4, <1>5, <1>6, <1>7, <1>8, <1>9, <1>10, <1>11, <1>12, <1>13, <1>14, DeliverCases

LEMMA IssueType ==
  ASSUME TypeOK, current = NoJob => commands = <<>>, NEW k \in Cmds, Issue(k)
  PROVE  TypeOK'
<1> USE DEF TypeOK, queueVars
<1>1. issued' \in Seq(Cmds \union {Quit})
  <2>1. Append(issued, k) \in Seq(Cmds \union {Quit})
    BY AppendFacts
  <2> QED
    BY <2>1 DEF Issue
<1>2. UNCHANGED <<prepared, ticks, paused, chunk, closing, accepting, fatal, protoErr,
                  stream, destroyed, connectTimer, hello, connected, gone>>
  BY DEF Issue
<1>3. ASSUME NEW j \in Jobs, NEW more \in Seq(Jobs), addCommand(j, more),
             UNCHANGED <<calls, emitted, connectCb>>
      PROVE  TypeOK'
  <2>1. CASE current # NoJob
    <3>1. commands \o <<j>> \o more \in Seq(Jobs)
      <4>1. <<j>> \in Seq(Jobs)
        OBVIOUS
      <4> QED
        BY <4>1, ConcatProperties
    <3> QED
      BY <1>1, <1>2, <1>3, <2>1, <3>1 DEF addCommand
  <2>2. CASE current = NoJob /\ (paused \/ fatal)
    <3>1. Append(held, Nothing) \in Seq(Packets)
      BY AppendFacts, PacketFacts
    <3> QED
      BY <1>1, <1>2, <1>3, <2>2, <3>1 DEF addCommand
  <2>3. CASE current = NoJob /\ ~(paused \/ fatal)
    <3>1. Start(j, timer) /\ started' = TRUE /\ UNCHANGED held /\ current' = j /\ commands' = more
      BY <1>3, <2>3 DEF addCommand
    <3>2. timer' \in [Cmds -> BOOLEAN] /\ 0 \in 0 .. MaxParts
      BY <3>1, PartsAssumption DEF Start
    <3>3. asked' \in Jobs \union {NoJob} /\ sent' \in 0 .. MaxParts /\ badWrite' \in BOOLEAN
      BY <3>1, <3>2 DEF Start
    <3> QED
      BY <1>1, <1>2, <1>3, <3>1, <3>2, <3>3
  <2> QED
    BY <2>1, <2>2, <2>3
<1>4. ASSUME NEW js \in Seq(Jobs), addCommandClosedState(js)
      PROVE  TypeOK'
  <2>1. CallsAfter(js) \in [Cmds \union {Quit} -> 0 .. 2]
    BY CallsAfterFacts
  <2> QED
    BY <1>1, <1>2, <1>4, <2>1 DEF addCommandClosedState, EmitError
<1>5. /\ Job(k, "run") \in Jobs /\ Job(k, "prepare") \in Jobs
  BY JobFacts DEF Names
<1>6. /\ <<>> \in Seq(Jobs) /\ <<Job(k, "run")>> \in Seq(Jobs)
      /\ <<Job(k, "prepare"), Job(k, "run")>> \in Seq(Jobs)
  BY <1>5
<1>7. CASE k \in Executes /\ execute(k)
  BY <1>3, <1>4, <1>5, <1>6, <1>7 DEF execute
<1>8. CASE k \notin Executes /\ query(k)
  BY <1>3, <1>4, <1>5, <1>6, <1>8 DEF query
<1> QED
  BY <1>7, <1>8 DEF Issue

LEMMA EndType ==
  ASSUME TypeOK, End
  PROVE  TypeOK'
<1> USE DEF TypeOK, queueVars, loginVars, serverVars
<1>1. issued' \in Seq(Cmds \union {Quit})
  <2>1. Append(issued, Quit) \in Seq(Cmds \union {Quit})
    BY AppendFacts
  <2> QED
    BY <2>1 DEF End
<1>2. /\ UNCHANGED <<prepared, timer, ticks, paused, chunk, fatal, protoErr, stream,
                     destroyed, loginVars, serverVars>>
      /\ accepting' = FALSE
  BY DEF End
<1>3. Job(Quit, "run") \in Jobs /\ <<Job(Quit, "run")>> \in Seq(Jobs)
  BY JobFacts DEF Names
<1>4. CASE accepting /\ current = NoJob /\ ~paused /\ ~fatal
  <2>1. StartQuit(calls) /\ UNCHANGED <<queueVars, held>>
    BY <1>4 DEF End
  <2>2. calls' \in [Cmds \union {Quit} -> 0 .. 2]
    <3>1. \A x \in 0 .. 2 : (IF x = 2 THEN 2 ELSE x + 1) \in 0 .. 2
      OBVIOUS
    <3> QED
      BY <2>1, <3>1 DEF StartQuit
  <2>3. closing' \in BOOLEAN /\ badWrite' \in BOOLEAN
    BY <2>1 DEF StartQuit
  <2> QED
    BY <1>1, <1>2, <2>1, <2>2, <2>3
<1>5. CASE ~(accepting /\ current = NoJob /\ ~paused /\ ~fatal)
  <2>1. UNCHANGED <<started, closing, badWrite>>
    BY <1>5 DEF End
  <2>2. CASE accepting /\ current # NoJob
    <3>1. Append(commands, Job(Quit, "run")) \in Seq(Jobs)
      BY <1>3, AppendFacts
    <3> QED
      BY <1>1, <1>2, <1>5, <2>1, <2>2, <3>1 DEF End
  <2>3. CASE accepting /\ current = NoJob
    <3>1. Append(held, Nothing) \in Seq(Packets)
      BY AppendFacts, PacketFacts
    <3> QED
      BY <1>1, <1>2, <1>3, <1>5, <2>1, <2>3, <3>1 DEF End
  <2>4. CASE ~accepting
    <3>1. CallsAfter(<<Job(Quit, "run")>>) \in [Cmds \union {Quit} -> 0 .. 2]
      BY <1>3, CallsAfterFacts
    <3> QED
      BY <1>1, <1>2, <1>5, <2>1, <2>4, <3>1 DEF End
  <2> QED
    BY <2>2, <2>3, <2>4
<1> QED
  BY <1>4, <1>5

LEMMA DataType ==
  ASSUME TypeOK, NEW n \in 0 .. MaxParts, NEW last \in {"none", "ok", "err"}, Data(n, last)
  PROVE  TypeOK'
<1> USE DEF TypeOK, queueVars, resultVars, endVars, loginVars
<1>1. MaxParts \in Nat /\ n \in Nat
  BY PartsAssumption
<1>2. Parts(asked, n) \in Seq(Packets)
  <2>1. Packet(asked, "part") \in Packets
    BY PacketFacts
  <2> DEFINE p == Packet(asked, "part")
  <2> HIDE DEF p
  <2>3. p \in Packets
    BY <2>1 DEF p
  <2>2. [i \in 1 .. n |-> p] \in Seq(Packets)
    <3> HIDE DEF TypeOK, queueVars, resultVars, endVars, loginVars
    <3> QED
      BY <1>1, <2>3
  <2> QED
    BY <2>2 DEF Parts, p
<1>3. (IF last = "none" THEN <<>> ELSE <<Packet(asked, last)>>) \in Seq(Packets)
  <2>1. last # "none" => Packet(asked, last) \in Packets
    BY PacketFacts
  <2> QED
    BY <2>1
<1>4. chunk' \in Seq(Packets)
  BY <1>2, <1>3, ConcatProperties DEF Data
<1>5. sent' \in 0 .. MaxParts
  BY <1>1 DEF Data
<1> QED
  BY <1>4, <1>5 DEF Data

LEMMA ResumeFacts ==
  ASSUME TypeOK, Resume
  PROVE  \E n \in 0 .. Len(held) :
           /\ \A i \in 1 .. n : held[i] # Nothing
           /\ n < Len(held) => held[n + 1] = Nothing
           /\ chunk' \in Seq(Packets) /\ held' \in Seq(Packets)
           /\ Len(chunk') = n + Len(chunk)
           /\ \A i \in 1 .. n : chunk'[i] = held[i]
           /\ \A i \in 1 .. Len(chunk) : chunk'[i + n] = chunk[i]
           /\ Len(held') = IF n < Len(held) THEN Len(held) - (n + 1) ELSE 0
           /\ \A i \in 1 .. Len(held') : held'[i] = held[i + (n + 1)]
           /\ Elems(chunk') \subseteq Elems(held) \union Elems(chunk)
           /\ Elems(held') \subseteq Elems(held)
<1>1. PICK n \in 0 .. Len(held) :
        /\ \A i \in 1 .. n : held[i] # Nothing
        /\ n < Len(held) => held[n + 1] = Nothing
        /\ chunk' = SubSeq(held, 1, n) \o chunk
        /\ held' = SubSeq(held, n + 2, Len(held))
  BY DEF Resume
<1>2. held \in Seq(Packets) /\ chunk \in Seq(Packets) /\ Len(held) \in Nat /\ n \in Nat
  BY DEF TypeOK
<1> DEFINE a == SubSeq(held, 1, n)
<1>3. a \in Seq(Packets) /\ Len(a) = n /\ DOMAIN a = 1 .. n
  BY <1>2
<1>31. \A i \in 1 .. n : a[i] = held[i] /\ i \in 1 .. Len(held)
  BY <1>2
<1>4. chunk' = a \o chunk
  BY <1>1
<1> HIDE DEF a
<1>5. Elems(a) \subseteq Elems(held)
  <2>1. DOMAIN held = 1 .. Len(held)
    BY <1>2
  <2> QED
    BY <1>3, <1>31, <2>1 DEF Elems
<1>6. /\ a \o chunk \in Seq(Packets) /\ Len(a \o chunk) = Len(a) + Len(chunk)
      /\ \A i \in 1 .. Len(a) : (a \o chunk)[i] = a[i]
      /\ \A i \in 1 .. Len(chunk) : (a \o chunk)[i + Len(a)] = chunk[i]
      /\ Elems(a \o chunk) = Elems(a) \union Elems(chunk)
  <2>1. a \in Seq(Packets) /\ chunk \in Seq(Packets)
    BY <1>2, <1>3
  <2> QED
    BY <2>1, ConcatFacts
<1>7. /\ chunk' \in Seq(Packets) /\ Len(chunk') = n + Len(chunk)
      /\ \A i \in 1 .. n : chunk'[i] = held[i]
      /\ \A i \in 1 .. Len(chunk) : chunk'[i + n] = chunk[i]
      /\ Elems(chunk') \subseteq Elems(held) \union Elems(chunk)
  BY <1>3, <1>31, <1>4, <1>5, <1>6
<1>8. /\ held' \in Seq(Packets)
      /\ Len(held') = IF n < Len(held) THEN Len(held) - (n + 1) ELSE 0
      /\ \A i \in 1 .. Len(held') : held'[i] = held[i + (n + 1)]
      /\ Elems(held') \subseteq Elems(held)
  <2>1. CASE n < Len(held)
    <3>1. n + 1 \in Nat /\ n + 1 <= Len(held) /\ (n + 1) + 1 = n + 2
      BY <1>2, <2>1
    <3> QED
      BY <1>1, <1>2, <2>1, <3>1, SuffixFacts
  <2>2. CASE ~(n < Len(held))
    <3>1. n + 2 \in Int /\ Len(held) \in Int /\ Len(held) < n + 2
      BY <1>2, <2>2
    <3>2. held' = <<>>
      BY <1>1, <3>1, SubSeqEmpty
    <3>3. Len(held') = 0 /\ held' \in Seq(Packets) /\ Elems(held') = {}
      BY <3>2, ElemsEmpty
    <3> QED
      BY <2>2, <3>3
  <2> QED
    BY <2>1, <2>2
<1> QED
  BY <1>1, <1>7, <1>8

LEMMA TypeStep ==
  ASSUME TypeOK, current = NoJob => commands = <<>>, [Next]_vars
  PROVE  TypeOK'
<1> USE DEF TypeOK, queueVars, resultVars, flowVars, endVars, loginVars, serverVars
<1>1. ASSUME NEW k \in Cmds, Issue(k) PROVE TypeOK'
  BY <1>1, IssueType
<1>2. ASSUME NEW k \in Cmds, QueryTimeout(k) PROVE TypeOK'
  <2>1. <<Job(k, "run")>> \in Seq(Jobs)
    BY JobFacts DEF Names
  <2>2. CallsAfter(<<Job(k, "run")>>) \in [Cmds \union {Quit} -> 0 .. 2]
    BY <2>1, CallsAfterFacts
  <2>3. [timer EXCEPT ![k] = FALSE] \in [Cmds -> BOOLEAN]
    OBVIOUS
  <2> QED
    BY <1>2, <2>2, <2>3 DEF QueryTimeout
<1>3. CASE End
  BY <1>3, EndType
<1>4. CASE Destroy
  BY <1>4 DEF Destroy, close
<1>5. CASE Pause
  BY <1>5 DEF Pause
<1>6. CASE Resume
  <2>1. chunk' \in Seq(Packets) /\ held' \in Seq(Packets)
    BY <1>6, ResumeFacts
  <2> QED
    BY <1>6, <2>1 DEF Resume
<1>7. CASE Connect
  BY <1>7 DEF Connect
<1>8. CASE Deliver
  BY <1>8, DeliverType
<1>9. CASE RunTick
  <2>1. Head(ticks) \in Cmds /\ Tail(ticks) \in Seq(Cmds)
    BY <1>9, TailFacts DEF RunTick
  <2>2. <<Job(Head(ticks), "run")>> \in Seq(Jobs)
    BY <2>1, JobFacts DEF Names
  <2>3. CallsAfter(<<Job(Head(ticks), "run")>>) \in [Cmds \union {Quit} -> 0 .. 2]
    BY <2>2, CallsAfterFacts
  <2> QED
    BY <1>9, <2>1, <2>3 DEF RunTick
<1>10. CASE ConnectTimeout
  <2>1. PICK s \in {"open", "ended", "closed"} : notifyError(s) /\ fatal' = TRUE
    BY <1>10 DEF ConnectTimeout, handleFatalError
  <2> QED
    BY <1>10, <2>1, NotifyErrorType DEF ConnectTimeout
<1>11. CASE StreamClose
  <2>1. CASE closing
    BY <1>11, <2>1 DEF StreamClose
  <2>2. CASE ~closing
    <3>1. notifyError("closed")
      BY <1>11, <2>2 DEF StreamClose
    <3> QED
      BY <1>11, <2>2, <3>1, NotifyErrorType DEF StreamClose
  <2> QED
    BY <2>1, <2>2
<1>12. ASSUME NEW reset \in BOOLEAN, StreamError(reset) PROVE TypeOK'
  <2>1. CASE reset /\ closing
    BY <1>12, <2>1 DEF StreamError
  <2>2. CASE ~(reset /\ closing)
    <3>1. notifyError(stream) /\ fatal' = TRUE
      BY <1>12, <2>2 DEF StreamError, handleFatalError
    <3> QED
      BY <1>12, <2>2, <3>1, NotifyErrorType DEF StreamError
  <2> QED
    BY <2>1, <2>2
<1>13. ASSUME NEW n \in 0 .. MaxParts, NEW last \in {"none", "ok", "err"}, Data(n, last)
       PROVE  TypeOK'
  BY <1>13, DataType
<1>14. CASE Farewell
  <2>1. <<Packet(NoJob, "err")>> \in Seq(Packets)
    BY PacketFacts
  <2> QED
    BY <1>14, <2>1 DEF Farewell
<1>15. CASE UNCHANGED vars
  BY <1>15 DEF vars
<1> QED
  BY <1>1, <1>2, <1>3, <1>4, <1>5, <1>6, <1>7, <1>8, <1>9, <1>10, <1>11, <1>12, <1>13,
     <1>14, <1>15 DEF Next

-----------------------------------------------------------------------------
(* The steps by what they do to the commands and their callbacks.          *)

LossVars == <<fatal, protoErr>>

Rests == UNCHANGED <<queueVars, resultVars, issued, connected>> /\ (accepting' => accepting)

\* An error that is fatal, or of the login, drops the queue.
Fails(js) ==
    /\ js = Pending \/ (js = commands /\ current.cmd = Handshake)
    /\ calls' = CallsAfter(js) /\ prepared' = PreparedAfter(js)
    /\ commands' = <<>>
    /\ \/ current' = NoJob /\ started' = FALSE
       \/ current' = current /\ started' = started /\ ~HasResult(current)
    /\ Bubbles => emitted' = TRUE
    /\ UNCHANGED <<timer, ticks, issued, connected>>
    /\ accepting' => accepting

TimesOut(k) ==
    /\ timer[k] /\ ticks = <<>>
    /\ timer' = [timer EXCEPT ![k] = FALSE]
    /\ calls' = CallsAfter(<<Job(k, "run")>>)
    /\ UNCHANGED <<queueVars, prepared, ticks, issued, connected, accepting, LossVars>>

Ticks ==
    /\ ticks # <<>> /\ ticks' = Tail(ticks)
    /\ calls' = CallsAfter(<<Job(Head(ticks), "run")>>)
    /\ UNCHANGED <<queueVars, prepared, timer, issued, connected, accepting, LossVars>>

\* A call that is put into the queue.
Queues(k) ==
    /\ k \notin Elems(issued) /\ issued' = Append(issued, k)
    /\ accepting /\ (accepting' => k # Quit)
    /\ Pushed(NewJobs(k))
    /\ \/ timer' = timer /\ started' = (started /\ current # NoJob)
       \/ /\ current = NoJob /\ started' = TRUE
          /\ timer' = [l \in Cmds |-> timer[l] \/ (current' = Job(l, "run") /\ l \in Timed)]
    /\ UNCHANGED <<prepared, calls, ticks, connected, LossVars>>

\* A call that is answered at once.
Refuses(k) ==
    /\ k \notin Elems(issued) /\ issued' = Append(issued, k)
    /\ accepting' => accepting /\ k # Quit
    /\ \/ calls' = CallsAfter(NewJobs(k))
       \/ k = Quit /\ calls' = [calls EXCEPT ![Quit] = IF @ = 2 THEN 2 ELSE @ + 1]
    /\ UNCHANGED <<queueVars, prepared, timer, ticks, connected, LossVars>>

Finishes(m, prep, cl, tm) ==
    /\ current # NoJob /\ Popped(m) /\ Moved(m, prep, cl, tm)
    /\ UNCHANGED <<issued, accepting, LossVars>>

FinishLogin(m) ==
    /\ current.cmd = Handshake
    /\ Finishes(m, prepared, calls, timer)
    /\ ticks' = ticks

FinishPrepare(m) ==
    /\ current.step = "prepare"
    /\ Finishes(m, [prepared EXCEPT ![current.cmd] = "ok"], calls, timer)
    /\ UNCHANGED <<ticks, connected>>

FinishRun(m) ==
    /\ current.step = "run" /\ current.cmd \in Cmds
    /\ Finishes(m, prepared, calls, [timer EXCEPT ![current.cmd] = FALSE])
    /\ ticks' = IF \/ current.cmd \in Silent
                   \/ current.cmd \in Timed /\ ~timer[current.cmd] THEN ticks
                ELSE Append(ticks, current.cmd)
    /\ UNCHANGED connected

FinishErr(m) ==
    /\ current.cmd # Handshake
    /\ Finishes(m, IF current.step = "prepare"
                   THEN [prepared EXCEPT ![current.cmd] = "failed"] ELSE prepared,
                CallsAfter(<<current>>),
                [k \in Cmds |-> timer[k] /\ current # Job(k, "run")])
    /\ UNCHANGED <<ticks, connected>>

FinishRow(m) ==
    /\ "row" \in Faults /\ current.step = "run" /\ current.cmd \in Cmds
    /\ Finishes(m, prepared, CallsAfter(<<current>>), timer)
    /\ UNCHANGED <<ticks, connected>>

Finishing(m) ==
    FinishLogin(m) \/ FinishPrepare(m) \/ FinishRun(m) \/ FinishErr(m) \/ FinishRow(m)

QueueStep ==
    \/ Rests
    \/ \E js \in {Pending, commands} : Fails(js)
    \/ \E k \in Cmds : TimesOut(k)
    \/ Ticks
    \/ \E k \in Cmds \union {Quit} : Queues(k) \/ Refuses(k)
    \/ \E m \in 1 .. Len(Pending) : Finishing(m)

LEMMA NotifyErrorStep ==
  ASSUME NEW s, notifyError(s), UNCHANGED <<timer, ticks, issued, connected>>
  PROVE  IF fatal THEN Rests ELSE Fails(Pending)
<1>1. CASE fatal
  BY <1>1 DEF notifyError, Rests, queueVars, resultVars
<1>2. CASE ~fatal
  <2>1. /\ calls' = CallsAfter(Pending) /\ prepared' = PreparedAfter(Pending)
        /\ commands' = <<>> /\ accepting' = FALSE
    BY <1>2 DEF notifyError
  <2>2. \/ current' = NoJob /\ started' = FALSE
        \/ current' = current /\ started' = started /\ ~HasResult(current)
    BY <1>2 DEF notifyError
  <2>3. Bubbles => emitted' = TRUE
    BY <1>2 DEF notifyError, EmitError
  <2> QED
    <3>1. Fails(Pending)
      BY <2>1, <2>2, <2>3 DEF Fails
    <3> QED
      BY <1>2, <3>1
<1> QED
  BY <1>1, <1>2

LEMMA HandshakeErrorStep ==
  ASSUME NEW b, NEW h, HandshakeError(b, h), UNCHANGED <<ticks, issued>>,
         current.cmd = Handshake
  PROVE  Fails(commands)
BY DEF HandshakeError, Fails, EmitError

LEMMA HandleStep ==
  ASSUME TypeOK, Handling,
         \/ HandleRow \/ HandleLogin \/ HandlePrepared \/ HandleDone \/ HandleErr
  PROVE  \E m \in 1 .. Len(Pending) :
           \/ FinishLogin(m) /\ HandleLogin
           \/ FinishPrepare(m) /\ HandlePrepared
           \/ FinishRun(m) /\ HandleDone
           \/ FinishErr(m) /\ HandleErr
           \/ FinishRow(m) /\ HandleRow
<1> USE DEF LossVars
<1>1. /\ current \in Jobs /\ commands \in Seq(Jobs) /\ {closing, badWrite} \subseteq BOOLEAN
      /\ current # NoJob /\ timer \in [Cmds -> BOOLEAN] /\ issued' = issued
  BY DEF TypeOK, Handling
<1>2. CASE HandleRow
  <2>1. Advance(prepared, CallsAfter(<<current>>), timer)
    BY <1>2 DEF HandleRow, RowThrows
  <2>2. PICK m \in 1 .. Len(Pending) : /\ Popped(m)
                                       /\ Moved(m, prepared, CallsAfter(<<current>>), timer)
    BY <1>1, <2>1, AdvanceFacts
  <2>3. FinishRow(m)
    BY <1>1, <1>2, <2>2 DEF HandleRow, RowThrows, FinishRow, Finishes, loginVars
  <2> QED
    BY <1>2, <2>3
<1>3. CASE HandleLogin
  <2>1. Advance(prepared, calls, timer)
    BY <1>3 DEF HandleLogin, HandshakeDone
  <2>2. PICK m \in 1 .. Len(Pending) : Popped(m) /\ Moved(m, prepared, calls, timer)
    BY <1>1, <2>1, AdvanceFacts
  <2>3. FinishLogin(m)
    BY <1>1, <1>3, <2>2 DEF HandleLogin, HandshakeDone, FinishLogin, Finishes, SameFlags
  <2> QED
    BY <1>3, <2>3
<1>4. CASE HandlePrepared
  <2>1. Advance([prepared EXCEPT ![current.cmd] = "ok"], calls, timer)
    BY <1>4 DEF HandlePrepared, prepareDone
  <2>2. PICK m \in 1 .. Len(Pending) :
          Popped(m) /\ Moved(m, [prepared EXCEPT ![current.cmd] = "ok"], calls, timer)
    BY <1>1, <2>1, AdvanceFacts
  <2>3. FinishPrepare(m)
    BY <1>1, <1>4, <2>2
    DEF HandlePrepared, prepareDone, FinishPrepare, Finishes, SameFlags, loginVars
  <2> QED
    BY <1>4, <2>3
<1>5. CASE HandleDone
  <2> DEFINE tm == [timer EXCEPT ![current.cmd] = FALSE]
  <2>1. Advance(prepared, calls, tm)
    BY <1>5 DEF HandleDone, done
  <2>2. tm \in [Cmds -> BOOLEAN]
    BY <1>1
  <2>3. PICK m \in 1 .. Len(Pending) : Popped(m) /\ Moved(m, prepared, calls, tm)
    BY <1>1, <2>1, <2>2, AdvanceFacts
  <2>4. FinishRun(m)
    BY <1>1, <1>5, <2>3 DEF HandleDone, done, FinishRun, Finishes, SameFlags, loginVars
  <2> QED
    BY <1>5, <2>4
<1>6. CASE HandleErr
  <2> DEFINE tm == [k \in Cmds |-> timer[k] /\ current # Job(k, "run")]
             prep == IF current.step = "prepare"
                     THEN [prepared EXCEPT ![current.cmd] = "failed"] ELSE prepared
  <2>1. Advance(prep, CallsAfter(<<current>>), tm)
    BY <1>6 DEF HandleErr
  <2>2. tm \in [Cmds -> BOOLEAN]
    BY <1>1
  <2>3. PICK m \in 1 .. Len(Pending) :
          Popped(m) /\ Moved(m, prep, CallsAfter(<<current>>), tm)
    <3> HIDE DEF tm, prep
    <3> QED
      BY <1>1, <2>1, <2>2, AdvanceFacts
  <2>4. FinishErr(m)
    BY <1>1, <1>6, <2>3 DEF HandleErr, FinishErr, Finishes, SameFlags, loginVars
  <2> QED
    BY <1>6, <2>4
<1> QED
  BY <1>2, <1>3, <1>4, <1>5, <1>6

LEMMA IssueStep ==
  ASSUME TypeOK, current = NoJob => commands = <<>> /\ ~started, NEW k \in Cmds, Issue(k)
  PROVE  Queues(k) \/ Refuses(k)
<1> USE DEF LossVars
<1>1. current \in Jobs \union {NoJob} /\ commands \in Seq(Jobs) /\ started \in BOOLEAN
  BY DEF TypeOK
<1>2. /\ k \notin Elems(issued) /\ issued' = Append(issued, k) /\ k # Quit
      /\ UNCHANGED <<prepared, ticks, accepting, fatal, protoErr, connected>>
  BY NamesDiffer DEF Issue
<1>3. ASSUME NEW j, NEW more,
             IF k \in Executes THEN j = Job(k, "prepare") /\ more = <<Job(k, "run")>>
             ELSE j = Job(k, "run") /\ more = <<>>,
             accepting, addCommand(j, more), UNCHANGED calls
      PROVE  Queues(k)
  <2>0. j \in Jobs /\ (j = Job(j.cmd, j.step))
    BY <1>3, JobFacts DEF Names
  <2>1. IF current # NoJob THEN commands' = commands \o <<j>> \o more /\ current' = current
        ELSE current' = j /\ commands' = more
    BY <1>3 DEF addCommand
  <2>2. Pushed(NewJobs(k))
    BY <1>1, <1>3, <2>1, AddFacts
  <2>3. \/ timer' = timer /\ started' = (started /\ current # NoJob)
        \/ /\ current = NoJob /\ started' = TRUE
           /\ timer' = [l \in Cmds |-> timer[l] \/ (current' = Job(l, "run") /\ l \in Timed)]
    <3>1. CASE current # NoJob
      BY <1>1, <1>3, <3>1 DEF addCommand
    <3>2. CASE current = NoJob /\ (paused \/ fatal)
      BY <1>1, <1>3, <3>2 DEF addCommand
    <3>3. CASE current = NoJob /\ ~(paused \/ fatal)
      <4>1. started' = TRUE /\ Start(j, timer) /\ current' = j
        BY <1>3, <3>3 DEF addCommand
      <4>2. \A l : (l = j.cmd /\ j.step = "run") <=> j = Job(l, "run")
        BY <2>0, JobFacts
      <4>3. timer' = [l \in Cmds |-> timer[l] \/ (l = j.cmd /\ j.step = "run" /\ l \in Timed)]
        BY <4>1 DEF Start
      <4>4. \A l \in Cmds : (l = j.cmd /\ j.step = "run" /\ l \in Timed)
                             <=> (j = Job(l, "run") /\ l \in Timed)
        BY <4>2
      <4>5. timer' = [l \in Cmds |-> timer[l] \/ (current' = Job(l, "run") /\ l \in Timed)]
        BY <4>1, <4>3, <4>4
      <4> QED
        BY <3>3, <4>1, <4>5
    <3> QED
      BY <3>1, <3>2, <3>3
  <2> QED
    BY <1>2, <1>3, <2>2, <2>3 DEF Queues
<1>4. ASSUME addCommandClosedState(NewJobs(k))
      PROVE  Refuses(k)
  BY <1>2, <1>4 DEF addCommandClosedState, Refuses, queueVars
<1>5. CASE k \in Executes /\ execute(k)
  <2>1. CASE accepting
    BY <1>3, <1>5, <2>1 DEF execute
  <2>2. CASE ~accepting
    BY <1>4, <1>5, <2>2 DEF execute, NewJobs
  <2> QED
    BY <2>1, <2>2
<1>6. CASE k \notin Executes /\ query(k)
  <2>1. CASE accepting
    BY <1>3, <1>6, <2>1 DEF query
  <2>2. CASE ~accepting
    BY <1>4, <1>6, <2>2 DEF query, NewJobs
  <2> QED
    BY <2>1, <2>2
<1> QED
  BY <1>5, <1>6 DEF Issue

LEMMA EndStep ==
  ASSUME TypeOK, current = NoJob => commands = <<>> /\ ~started, End
  PROVE  Queues(Quit) \/ Refuses(Quit)
<1> USE DEF LossVars, loginVars
<1>1. current \in Jobs \union {NoJob} /\ commands \in Seq(Jobs) /\ started \in BOOLEAN
  BY DEF TypeOK
<1>2. /\ Quit \notin Elems(issued) /\ issued' = Append(issued, Quit) /\ accepting' = FALSE
      /\ UNCHANGED <<prepared, timer, ticks, fatal, protoErr, connected>>
      /\ Quit \notin Executes
  BY NamesDiffer, KindsAssumption DEF End
<1>3. NewJobs(Quit) = <<Job(Quit, "run")>>
  BY <1>2 DEF NewJobs
<1>4. CASE accepting /\ current = NoJob /\ ~paused /\ ~fatal
  <2>1. StartQuit(calls) /\ UNCHANGED queueVars
    BY <1>4 DEF End
  <2> QED
    BY <1>2, <2>1 DEF Refuses, StartQuit
<1>5. CASE ~accepting
  <2>1. calls' = CallsAfter(<<Job(Quit, "run")>>) /\ UNCHANGED queueVars
    BY <1>5 DEF End, queueVars
  <2> QED
    BY <1>2, <1>3, <2>1 DEF Refuses
<1>6. CASE accepting /\ ~(current = NoJob /\ ~paused /\ ~fatal)
  <2>1. /\ calls' = calls /\ started' = started
        /\ IF current # NoJob
           THEN commands' = Append(commands, Job(Quit, "run")) /\ current' = current
           ELSE current' = Job(Quit, "run") /\ commands' = commands
    BY <1>6 DEF End
  <2>2. Job(Quit, "run") \in Jobs
    BY JobFacts DEF Names
  <2>3. Append(commands, Job(Quit, "run")) = commands \o <<Job(Quit, "run")>> \o <<>>
    BY <1>1, <2>2
  <2>4. IF current # NoJob
        THEN commands' = commands \o <<Job(Quit, "run")>> \o <<>> /\ current' = current
        ELSE current' = Job(Quit, "run") /\ commands' = <<>>
    BY <1>1, <2>1, <2>3
  <2>5. Pushed(NewJobs(Quit))
    BY <1>1, <1>2, <2>4, AddFacts
  <2>6. started' = (started /\ current # NoJob)
    BY <1>1, <2>1
  <2> QED
    BY <1>2, <1>6, <2>1, <2>5, <2>6 DEF Queues
<1> QED
  BY <1>4, <1>5, <1>6

\* A call of the application, a timeout, a tick or news from the server.
AppStep ==
    \/ Rests
    \/ \E k \in Cmds : TimesOut(k)
    \/ Ticks
    \/ \E k \in Cmds \union {Quit} : Queues(k) \/ Refuses(k)

\* The steps of the socket and of timers that lose the connection, and those
\* that only tell that it is closed.
SocketStep == ConnectTimeout \/ StreamClose \/ \E reset \in BOOLEAN : StreamError(reset)

LEMMA AppClass ==
  ASSUME TypeOK, current = NoJob => commands = <<>> /\ ~started, [Next]_vars,
         ~Deliver, ~SocketStep
  PROVE  AppStep
<1> USE DEF LossVars, queueVars, resultVars, flowVars, endVars, loginVars, serverVars
<1>1. ASSUME NEW k \in Cmds, Issue(k) PROVE AppStep
  BY <1>1, IssueStep DEF AppStep
<1>2. ASSUME NEW k \in Cmds, QueryTimeout(k) PROVE AppStep
  <2>1. TimesOut(k)
    BY <1>2 DEF QueryTimeout, TimesOut, Quiet
  <2> QED
    BY <2>1 DEF AppStep
<1>3. CASE End
  BY <1>3, EndStep DEF AppStep
<1>4. CASE Destroy
  BY <1>4 DEF Destroy, close, AppStep, Rests
<1>5. CASE Pause
  BY <1>5 DEF Pause, AppStep, Rests
<1>6. CASE Resume
  BY <1>6 DEF Resume, AppStep, Rests
<1>7. CASE Connect
  BY <1>7 DEF Connect, AppStep, Rests
<1>8. CASE RunTick
  <2>1. Ticks
    BY <1>8 DEF RunTick, Ticks
  <2> QED
    BY <2>1 DEF AppStep
<1>9. ASSUME NEW n \in 0 .. MaxParts, NEW last \in {"none", "ok", "err"}, Data(n, last)
       PROVE  AppStep
  BY <1>9 DEF Data, AppStep, Rests
<1>10. CASE Farewell
  BY <1>10 DEF Farewell, AppStep, Rests
<1>11. CASE UNCHANGED vars
  BY <1>11 DEF vars, AppStep, Rests
<1> QED
  BY <1>1, <1>2, <1>3, <1>4, <1>5, <1>6, <1>7, <1>8, <1>9, <1>10, <1>11 DEF Next, SocketStep

LEMMA SocketClass ==
  ASSUME SocketStep
  PROVE  ticks = <<>> /\ (Rests \/ Fails(Pending))
<1> USE DEF LossVars, queueVars, resultVars, flowVars, endVars, loginVars, serverVars
<1>0. ticks = <<>>
  BY DEF SocketStep, ConnectTimeout, StreamClose, StreamError, Quiet
<1> SUFFICES Rests \/ Fails(Pending)
  BY <1>0
<1>1. CASE ConnectTimeout
  <2>1. PICK s \in {"open", "ended", "closed"} : notifyError(s)
    BY <1>1 DEF ConnectTimeout, handleFatalError
  <2>2. UNCHANGED <<timer, ticks, issued, connected>>
    BY <1>1 DEF ConnectTimeout
  <2> QED
    BY <2>1, <2>2, NotifyErrorStep
<1>2. CASE StreamClose
  <2>1. CASE closing
    BY <1>2, <2>1 DEF StreamClose, Rests
  <2>2. CASE ~closing
    <3>1. notifyError("closed") /\ UNCHANGED <<timer, ticks, issued, connected>>
      BY <1>2, <2>2 DEF StreamClose
    <3> QED
      BY <3>1, NotifyErrorStep
  <2> QED
    BY <2>1, <2>2
<1>3. ASSUME NEW reset \in BOOLEAN, StreamError(reset) PROVE Rests \/ Fails(Pending)
  <2>1. CASE reset /\ closing
    BY <1>3, <2>1 DEF StreamError, Rests
  <2>2. CASE ~(reset /\ closing)
    <3>1. notifyError(stream) /\ UNCHANGED <<timer, ticks, issued, connected>>
      BY <1>3, <2>2 DEF StreamError, handleFatalError
    <3> QED
      BY <3>1, NotifyErrorStep
  <2> QED
    BY <2>1, <2>2
<1> QED
  BY <1>0, <1>1, <1>2, <1>3 DEF SocketStep

LEMMA DeliverClass ==
  ASSUME TypeOK, Deliver
  PROVE  \/ Rests
         \/ Handling /\ \E js \in {Pending, commands} : Fails(js)
         \/ Handling /\ \E m \in 1 .. Len(Pending) :
              \/ FinishLogin(m) \/ FinishPrepare(m) \/ (FinishRun(m) /\ HandleDone)
              \/ FinishErr(m) \/ FinishRow(m)
<1> USE DEF LossVars, queueVars, resultVars, flowVars, endVars, loginVars, serverVars
<1>1. CASE Hold
  BY <1>1 DEF Hold, Rests
<1>2. CASE Discard
  BY <1>2 DEF Discard, Unexpected, close, Rests
<1>3. CASE Ignore
  BY <1>3 DEF Ignore, Rests
<1>4. CASE HandlePart
  BY <1>4 DEF HandlePart, Handling, Part, Rests
<1>5. CASE HandleGiveUp
  <2>1. Handling /\ Fails(commands)
    BY <1>5, HandshakeErrorStep DEF HandleGiveUp, Handling, GiveUpLogin
  <2> QED
    BY <2>1
<1>6. CASE HandleThrow
  <2>1. /\ notifyError("ended") /\ UNCHANGED <<timer, ticks, issued, connected>>
        /\ Handling /\ ~fatal
    BY <1>6 DEF HandleThrow, Handling, HandlerThrows, handleFatalError
  <2> QED
    BY <2>1, NotifyErrorStep
<1>7. CASE HandleRefusal
  <2>1. Handling /\ Fails(commands)
    BY <1>7, HandshakeErrorStep DEF HandleRefusal, Handling
  <2> QED
    BY <2>1
<1>8. CASE HandleRow \/ HandleLogin \/ HandlePrepared \/ HandleDone \/ HandleErr
  <2>1. Handling
    BY <1>8 DEF HandleRow, HandleLogin, HandlePrepared, HandleDone, HandleErr
  <2> QED
    BY <1>8, <2>1, HandleStep
<1> QED
  BY <1>1, <1>2, <1>3, <1>4, <1>5, <1>6, <1>7, <1>8, DeliverCases

LEMMA StepClass ==
  ASSUME TypeOK, current = NoJob => commands = <<>> /\ ~started, [Next]_vars
  PROVE  QueueStep
<1>1. CASE Deliver
  BY <1>1, DeliverClass DEF QueueStep, Finishing
<1>2. CASE SocketStep
  BY <1>2, SocketClass DEF QueueStep
<1>3. CASE ~Deliver /\ ~SocketStep
  BY <1>3, AppClass DEF QueueStep, AppStep
<1> QED
  BY <1>1, <1>2, <1>3

-----------------------------------------------------------------------------
(* The queue.                                                              *)

LEMMA PendingEmpty == current = NoJob /\ commands = <<>> => Pending = <<>>
BY DEF Pending

\* Pending is a function of current and commands.
LEMMA PendingSame == UNCHANGED <<current, commands>> => Pending' = Pending
BY DEF Pending

\* What is pending when an error has dropped the queue.
LEMMA FailsFacts ==
  ASSUME TypeOK, QueueInv, NEW js \in {Pending, commands}, Fails(js)
  PROVE  /\ js \in Seq(Jobs)
         /\ \A k \in Cmds \union {Quit} : k \in CmdsOf(js) <=> k \in CmdsOf(Pending)
         /\ \/ /\ current' = NoJob /\ started' = FALSE /\ Pending' = <<>>
            \/ /\ current' = current /\ started' = started /\ current # NoJob
               /\ ~HasResult(current) /\ current.cmd \in Silent \union {Handshake}
               /\ current.step = "run"
               /\ Pending' = <<current>> /\ current \in Jobs
               /\ Len(Pending) >= 1 /\ Pending[1] = current
         /\ commands' = <<>>
<1>1. current \in Jobs \union {NoJob} /\ commands \in Seq(Jobs)
  BY DEF TypeOK
<1>2. js \in Seq(Jobs)
  BY <1>1, PendingFacts
<1>3. ASSUME NEW k \in Cmds \union {Quit}
      PROVE  k \in CmdsOf(js) <=> k \in CmdsOf(Pending)
  <2>1. CASE js = Pending
    BY <2>1
  <2>2. CASE js = commands /\ current.cmd = Handshake
    <3>1. current # NoJob /\ k # Handshake
      BY <2>2, JobFacts, NamesDiffer
    <3> QED
      BY <1>1, <2>2, <3>1, PendingFacts
  <2> QED
    BY <2>1, <2>2 DEF Fails
<1>4. CASE current' = NoJob /\ started' = FALSE
  <2>1. Pending' = <<>>
    BY <1>4, PendingEmpty DEF Fails, Pending
  <2> QED
    BY <1>2, <1>3, <1>4, <2>1 DEF Fails
<1>5. CASE current' = current /\ started' = started /\ ~HasResult(current)
  <2>1. current.cmd \in Silent \union {Handshake} /\ current.step # "prepare"
    BY <1>5 DEF HasResult
  <2>2. current # NoJob
    BY <2>1, JobFacts, NamesDiffer, KindsAssumption
  <2>3. current \in Jobs /\ current.step = "run"
    BY <1>1, <2>1, <2>2, JobFacts
  <2>4. Pending' = <<current>>
    <3>1. <<current>> \o <<>> = <<current>>
      OBVIOUS
    <3>2. Pending' = <<current'>> \o commands'
      BY <1>5, <2>2 DEF Pending
    <3> QED
      BY <1>5, <3>1, <3>2 DEF Fails
  <2>5. Len(Pending) >= 1 /\ Pending[1] = current
    <3>1. Len(Pending) = 1 + Len(commands) /\ Len(commands) \in Nat /\ Pending[1] = current
      BY <1>1, <2>2, PendingFacts
    <3> QED
      BY <3>1
  <2> QED
    BY <1>2, <1>3, <1>5, <2>1, <2>2, <2>3, <2>4, <2>5 DEF Fails
<1> QED
  BY <1>4, <1>5 DEF Fails

\* What is pending when a command has ended.
LEMMA PopFacts ==
  ASSUME TypeOK, QueueInv, current # NoJob, NEW m \in 1 .. Len(Pending), Popped(m)
  PROVE  /\ Pending' \in Seq(Jobs) /\ Shape(Pending')
         /\ CmdsOf(Pending') \subseteq CmdsOf(Pending)
         /\ Elems(Pending') \subseteq Elems(Pending)
         /\ \A i \in 1 .. Len(Pending') : Pending'[i] = Pending[i + m]
                                          /\ i + m \in 1 .. Len(Pending) /\ i + m > 1
         /\ current' = NoJob => commands' = <<>> /\ Pending' = <<>>
         /\ current' = NoJob => started' = FALSE
         /\ current' # NoJob => /\ current' \in Jobs /\ started' = TRUE /\ m < Len(Pending)
                                /\ current' = Pending[m + 1] /\ current'.cmd # Handshake
         /\ Len(Pending) \in Nat /\ Len(Pending') \in Nat /\ Len(Pending') = Len(Pending) - m
<1>1. /\ Pending \in Seq(Jobs) /\ Len(Pending) \in Nat /\ DOMAIN Pending = 1 .. Len(Pending)
  BY PendingFacts DEF TypeOK
<1>2. /\ Pending' \in Seq(Jobs) /\ Len(Pending') = Len(Pending) - m
      /\ \A i \in 1 .. Len(Pending') : Pending'[i] = Pending[i + m]
  BY DEF Popped
<1>3. \A i \in 1 .. Len(Pending') : i + m \in 1 .. Len(Pending) /\ i + m > 1
  BY <1>1, <1>2
<1>4. Shape(Pending')
  <2>1. m \in 0 .. Len(Pending) /\ Shape(Pending)
    BY <1>1 DEF QueueInv
  <2> QED
    BY <1>1, <1>2, <2>1, ShapeSuffix
<1>5. DOMAIN Pending' = 1 .. Len(Pending') /\ Len(Pending') \in Nat
  BY <1>2
<1>6. /\ CmdsOf(Pending') \subseteq CmdsOf(Pending)
      /\ Elems(Pending') \subseteq Elems(Pending)
  BY <1>1, <1>2, <1>3, <1>5 DEF CmdsOf, Elems
<1>7. CASE m = Len(Pending)
  <2>1. current' = NoJob /\ commands' = <<>> /\ started' = FALSE
    BY <1>7 DEF Popped
  <2>2. Pending' = <<>>
    BY <2>1 DEF Pending
  <2> QED
    BY <1>1, <1>2, <1>3, <1>4, <1>5, <1>6, <2>1, <2>2
<1>8. CASE m < Len(Pending)
  <2>1. current' = Pending[m + 1] /\ current' \in Jobs /\ started' = TRUE
    BY <1>8 DEF Popped
  <2>2. m + 1 \in DOMAIN Pending /\ m + 1 # 1
    BY <1>1, <1>8
  <2>3. current'.cmd # Handshake
    BY <2>1, <2>2 DEF QueueInv, Shape
  <2>4. current' # NoJob
    BY <2>1, JobFacts
  <2> QED
    BY <1>1, <1>2, <1>3, <1>4, <1>5, <1>6, <1>8, <2>1, <2>3, <2>4
<1>9. m = Len(Pending) \/ m < Len(Pending)
  <2>1. Len(Pending) \in Nat
    BY <1>1
  <2> QED
    BY <2>1
<1> QED
  BY <1>7, <1>8, <1>9

\* An Execute becomes the active command only behind its Prepare.
LEMMA ExecuteReady ==
  ASSUME TypeOK, QueueInv, NEW m \in 1 .. Len(Pending), Finishing(m),
         current' # NoJob, current'.cmd \in Executes, current'.step = "run"
  PROVE  prepared'[current'.cmd] = "ok"
<1> DEFINE k == current'.cmd
<1>1. current # NoJob /\ Popped(m)
  BY DEF Finishing, FinishLogin, FinishPrepare, FinishRun, FinishErr, FinishRow, Finishes
<1>2. PICK prep, cl, tm : Moved(m, prep, cl, tm)
  BY DEF Finishing, FinishLogin, FinishPrepare, FinishRun, FinishErr, FinishRow, Finishes
<1>3. current' = Pending[m + 1] /\ m < Len(Pending) /\ Len(Pending) \in Nat
  BY <1>1, PopFacts
<1>4. Pending[m] = Job(k, "prepare") /\ Pending[m].step = "prepare" /\ Pending[m].cmd = k
  <2>1. m + 1 \in DOMAIN Pending /\ m + 1 > 1 /\ (m + 1) - 1 = m
    BY <1>3, PendingFacts DEF TypeOK
  <2>2. Pending[m] = Job(k, "prepare")
    <3>1. Shape(Pending)
      BY DEF QueueInv
    <3>2. Pending[(m + 1) - 1] = Job(Pending[m + 1].cmd, "prepare")
      BY <1>3, <2>1, <3>1 DEF Shape
    <3> QED
      BY <1>3, <2>1, <3>2
  <2>3. k \in Names
    BY KindsAssumption DEF Names
  <2> QED
    BY <2>2, <2>3, JobFacts
<1>5. m = 1
  <2> SUFFICES ASSUME m # 1 PROVE FALSE
    OBVIOUS
  <2>1. m \in 2 .. m
    OBVIOUS
  <2>2. Instant(Pending[m], prep)
    BY <1>2, <2>1 DEF Moved
  <2>3. k # Quit
    BY NamesDiffer, KindsAssumption
  <2> QED
    BY <1>4, <2>2, <2>3 DEF Instant
<1>6. current.step = "prepare" /\ current.cmd = k
  BY <1>1, <1>4, <1>5, PendingFacts DEF TypeOK
<1>7. k # Handshake
  BY NamesDiffer, KindsAssumption
<1>8. CASE FinishPrepare(m)
  BY <1>6, <1>8 DEF FinishPrepare, Finishes, Moved, TypeOK
<1>9. CASE FinishErr(m)
  <2> DEFINE p == [prepared EXCEPT ![current.cmd] = "failed"]
  <2>1. ~Instant(current', p)
    BY <1>3, <1>6, <1>9 DEF FinishErr, Finishes, Moved
  <2>2. p[k] = "failed"
    BY <1>6 DEF TypeOK
  <2> HIDE DEF p
  <2> QED
    BY <2>1, <2>2 DEF Instant
<1> QED
  BY <1>6, <1>7, <1>8, <1>9 DEF Finishing, FinishLogin, FinishRun, FinishRow

LEMMA QueueStepInv ==
  ASSUME TypeOK, QueueInv, QueueStep
  PROVE  QueueInv'
<1>1. /\ current \in Jobs \union {NoJob} /\ commands \in Seq(Jobs)
      /\ issued \in Seq(Cmds \union {Quit})
      /\ prepared \in [Executes -> {"no", "ok", "failed"}]
  BY DEF TypeOK
<1>2. ASSUME UNCHANGED <<queueVars, prepared, connected>>,
             accepting' => accepting,
             \/ issued' = issued
             \/ \E k \in Cmds \union {Quit} : /\ issued' = Append(issued, k)
                                              /\ accepting' => k # Quit
      PROVE  QueueInv'
  <2>1. Pending' = Pending
    BY <1>2, PendingSame DEF queueVars
  <2>2. /\ Elems(issued) \subseteq Elems(issued')
        /\ Quit \in Elems(issued') => ~accepting'
    <3>1. CASE issued' = issued
      BY <1>2, <3>1 DEF QueueInv
    <3>2. ASSUME NEW k \in Cmds \union {Quit}, issued' = Append(issued, k),
                 accepting' => k # Quit
          PROVE  /\ Elems(issued) \subseteq Elems(issued')
                 /\ Quit \in Elems(issued') => ~accepting'
      <4>1. Elems(issued') = Elems(issued) \union {k}
        BY <1>1, <3>2, AppendFacts
      <4> QED
        BY <1>2, <3>2, <4>1 DEF QueueInv
    <3> QED
      BY <1>2, <3>1, <3>2
  <2> QED
    BY <1>2, <2>1, <2>2 DEF QueueInv, queueVars
<1>3. CASE Rests
  BY <1>2, <1>3 DEF Rests, resultVars
<1>4. ASSUME NEW js \in {Pending, commands}, Fails(js)
      PROVE  QueueInv'
  <2>1. UNCHANGED <<issued, connected>> /\ (accepting' => accepting)
    BY <1>4 DEF Fails
  <2>2. CASE current' = NoJob /\ started' = FALSE /\ Pending' = <<>> /\ commands' = <<>>
    <3>1. Shape(<<>>) /\ CmdsOf(<<>>) = {}
      BY DEF Shape, CmdsOf
    <3>2. NoJob.cmd # Handshake /\ NoJob.cmd \notin Executes
      BY JobFacts, NamesDiffer, KindsAssumption
    <3> QED
      BY <2>1, <2>2, <3>1, <3>2 DEF QueueInv
  <2>3. CASE /\ current' = current /\ started' = started /\ current # NoJob
             /\ current.cmd \in Silent \union {Handshake} /\ current.step = "run"
             /\ Pending' = <<current>> /\ current \in Jobs
    <3> DEFINE c == <<current>>
    <3>1. Len(c) = 1 /\ DOMAIN c = {1} /\ c[1] = current
      BY <2>3
    <3>2. current.cmd \notin Executes
      BY <2>3, NamesDiffer, KindsAssumption
    <3>3. current.cmd \in CmdsOf(Pending)
      BY <1>1, <2>3, PendingFacts
    <3>4. Pending' = c
      BY <2>3
    <3> HIDE DEF c
    <3>5. Shape(c)
      BY <2>3, <3>1, <3>2 DEF Shape
    <3>6. CmdsOf(c) \subseteq CmdsOf(Pending)
      BY <3>1, <3>3 DEF CmdsOf
    <3> QED
      BY <2>1, <2>3, <3>2, <3>4, <3>5, <3>6 DEF QueueInv
  <2> QED
    BY <1>4, <2>2, <2>3, FailsFacts
<1>5. ASSUME NEW k \in Cmds, TimesOut(k) PROVE QueueInv'
  BY <1>2, <1>5 DEF TimesOut
<1>6. CASE Ticks
  BY <1>2, <1>6 DEF Ticks
<1>7. ASSUME NEW k \in Cmds \union {Quit}, Refuses(k) PROVE QueueInv'
  BY <1>2, <1>7 DEF Refuses
<1>8. ASSUME NEW k \in Cmds \union {Quit}, Queues(k) PROVE QueueInv'
  <2> DEFINE js == NewJobs(k)
  <2>1. /\ Pending \in Seq(Jobs) /\ js \in Seq(Jobs) /\ Shape(js) /\ CmdsOf(js) = {k}
        /\ Len(js) > 0 /\ (js[1].step = "run" => k \notin Executes)
        /\ \A i \in DOMAIN js : js[i].cmd = k
    BY <1>1, PendingFacts, NewJobsFacts
  <2>2. /\ Pending' = Pending \o js /\ k \notin Elems(issued) /\ k # Handshake
        /\ Elems(issued') = Elems(issued) \union {k}
        /\ accepting /\ Quit \notin Elems(issued)
    <3>1. Elems(Append(issued, k)) = Elems(issued) \union {k}
      BY <1>1, AppendFacts
    <3>2. k # Handshake
      BY NamesDiffer
    <3> QED
      BY <1>8, <3>1, <3>2 DEF Queues, Pushed, QueueInv
  <2>21. 1 \in DOMAIN js /\ js[1].cmd = k
    BY <2>1
  <2> HIDE DEF js
  <2>3. /\ Pending' \in Seq(Jobs) /\ Len(Pending') = Len(Pending) + Len(js)
        /\ \A i \in 1 .. Len(Pending) : Pending'[i] = Pending[i]
        /\ \A i \in 1 .. Len(js) : Pending'[i + Len(Pending)] = js[i]
        /\ Elems(Pending') = Elems(Pending) \union Elems(js)
    <3>1. Pending \in Seq(Jobs) /\ js \in Seq(Jobs)
      BY <2>1
    <3> QED
      BY <2>2, <3>1, ConcatFacts
  <2>4. Quit \notin CmdsOf(Pending) /\ k \notin CmdsOf(Pending)
    BY <2>2, NamesDiffer DEF QueueInv
  <2>5. \A i \in DOMAIN js : \A j \in DOMAIN Pending : js[i].cmd # Pending[j].cmd
    BY <2>1, <2>4 DEF CmdsOf
  <2>6. Shape(Pending')
    <3>1. Handshake \notin CmdsOf(js) /\ Shape(Pending)
          /\ (js[1].step = "run" => js[1].cmd \notin Executes)
      BY <2>1, <2>2, <2>21 DEF QueueInv
    <3> QED
      BY <2>1, <2>3, <2>4, <2>5, <3>1, ShapePush
  <2>7. CmdsOf(Pending') = CmdsOf(Pending) \union {k}
    <3>1. /\ CmdsOf(Pending') = {j.cmd : j \in Elems(Pending')}
          /\ CmdsOf(Pending) = {j.cmd : j \in Elems(Pending)}
          /\ CmdsOf(js) = {j.cmd : j \in Elems(js)}
      BY <2>1, <2>3, CmdsOfFacts
    <3>2. CmdsOf(Pending') = CmdsOf(Pending) \union CmdsOf(js)
      BY <2>3, <3>1
    <3> QED
      BY <2>1, <3>2
  <2>8. CmdsOf(Pending') \subseteq {Handshake} \union Elems(issued')
    BY <2>2, <2>7 DEF QueueInv
  <2>9. Quit \in Elems(issued') => ~accepting'
    BY <1>8, <2>2 DEF Queues
  <2>10. current' \in Jobs /\ current' # NoJob /\ UNCHANGED <<prepared, connected>>
    BY <1>8, JobFacts DEF Queues, Pushed
  <2>11. CASE current # NoJob
    <3>1. current' = current /\ (started => started')
      BY <1>8, <2>11 DEF Queues, Pushed
    <3> QED
      BY <2>6, <2>8, <2>9, <2>10, <2>11, <3>1 DEF QueueInv
  <2>12. CASE current = NoJob
    <3>1. current' = js[1] /\ current'.cmd = k
      BY <1>8, <2>12, <2>21 DEF Queues, Pushed, js
    <3> QED
      BY <2>1, <2>2, <2>6, <2>8, <2>9, <2>10, <3>1 DEF QueueInv
  <2> QED
    BY <2>11, <2>12
<1>9. ASSUME NEW m \in 1 .. Len(Pending), Finishing(m) PROVE QueueInv'
  <2>1. current # NoJob /\ Popped(m) /\ UNCHANGED <<issued, accepting>>
    BY <1>9 DEF Finishing, FinishLogin, FinishPrepare, FinishRun, FinishErr, FinishRow, Finishes
  <2>2. /\ Shape(Pending') /\ CmdsOf(Pending') \subseteq CmdsOf(Pending)
        /\ current' = NoJob => commands' = <<>> /\ started' = FALSE
        /\ current' # NoJob => started' = TRUE /\ current'.cmd # Handshake
    BY <2>1, PopFacts
  <2>3. current' # NoJob /\ current'.cmd \in Executes /\ current'.step = "run" =>
          prepared'[current'.cmd] = "ok"
    BY <1>9, ExecuteReady
  <2>4. current' = NoJob => current'.cmd # Handshake /\ current'.cmd \notin Executes
    BY JobFacts, NamesDiffer, KindsAssumption
  <2> QED
    BY <2>1, <2>2, <2>3, <2>4 DEF QueueInv
<1> QED
  BY <1>3, <1>4, <1>5, <1>6, <1>7, <1>8, <1>9 DEF QueueStep

LEMMA QueueInitInv == Init => QueueInv
<1> SUFFICES ASSUME Init PROVE QueueInv
  OBVIOUS
<1>1. current = Job(Handshake, "run") /\ commands = <<>> /\ started = TRUE /\ issued = <<>>
      /\ connected = FALSE
  BY DEF Init
<1>2. current \in Jobs /\ current.cmd = Handshake /\ current.step = "run" /\ current # NoJob
  BY <1>1, JobFacts DEF Names
<1> DEFINE c == <<current>>
<1>3. c = Pending /\ Len(c) = 1 /\ DOMAIN c = {1} /\ c[1] = current
  BY <1>1, <1>2 DEF Pending
<1>4. Elems(issued) = {}
  BY <1>1, ElemsEmpty
<1>5. Handshake \notin Executes /\ Handshake # Quit
  BY NamesDiffer, KindsAssumption
<1> HIDE DEF c
<1>6. Shape(c)
  BY <1>2, <1>3, <1>5 DEF Shape
<1>7. CmdsOf(c) = {Handshake}
  BY <1>2, <1>3 DEF CmdsOf
<1> QED
  BY <1>1, <1>2, <1>3, <1>4, <1>5, <1>6, <1>7 DEF QueueInv

-----------------------------------------------------------------------------
(* Callbacks.                                                              *)

\* A command that is no execute() has one object in the queue.
LEMMA OneObject ==
  ASSUME NEW s \in Seq(Jobs), Shape(s)
  PROVE  \A i, j \in DOMAIN s : s[i].cmd = s[j].cmd /\ s[i].cmd \notin Executes => i = j
<1> SUFFICES ASSUME NEW i \in DOMAIN s, NEW j \in DOMAIN s, s[i].cmd = s[j].cmd,
                    s[i].cmd \notin Executes
             PROVE  i = j
  OBVIOUS
<1>1. s[i] \in Jobs /\ s[j] \in Jobs
  OBVIOUS
<1>2. s[i].step = "run" /\ s[j].step = "run"
  BY <1>1, JobFacts DEF Shape
<1>3. s[i] = Job(s[i].cmd, s[i].step) /\ s[j] = Job(s[j].cmd, s[j].step)
  BY <1>1, JobFacts
<1>4. s[i] = s[j]
  BY <1>2, <1>3
<1> QED
  BY <1>4 DEF Shape

\* The other objects of the first command are right behind it: a Prepare has
\* its Execute, and an Execute has none.
LEMMA FirstObject ==
  ASSUME NEW s \in Seq(Jobs), Shape(s), NEW i \in DOMAIN s, i > 1, s[i].cmd = s[1].cmd
  PROVE  /\ i = 2 /\ s[1] = Job(s[1].cmd, "prepare") /\ s[2] = Job(s[1].cmd, "run")
         /\ s[1].cmd \in Executes
<1>1. DOMAIN s = 1 .. Len(s) /\ Len(s) \in Nat /\ 1 \in DOMAIN s
  OBVIOUS
<1>2. s[i] \in Jobs /\ s[1] \in Jobs
  BY <1>1
<1>3. s[1].cmd \in Executes
  BY <1>1, OneObject
<1>4. s[1].step = "run" \/ s[1].step = "prepare"
  BY <1>2, JobFacts
<1>5. s[i].step = "run" \/ s[i].step = "prepare"
  BY <1>2, JobFacts
<1>6. s[1] = Job(s[1].cmd, s[1].step) /\ s[i] = Job(s[1].cmd, s[i].step)
  BY <1>2, JobFacts
<1>7. \A x, y \in DOMAIN s : s[x] = s[y] => x = y
  BY DEF Shape
<1>8. s[1].step # s[i].step
  BY <1>1, <1>6, <1>7
<1>9. s[1].step = "prepare"
  <2> SUFFICES ASSUME s[1].step = "run", s[i].step = "prepare" PROVE FALSE
    BY <1>4, <1>5, <1>8
  <2>1. i < Len(s) /\ s[i + 1] = Job(s[i].cmd, "run")
    BY DEF Shape
  <2>2. i + 1 \in DOMAIN s /\ s[i + 1] = s[1] /\ i + 1 # 1
    BY <1>1, <1>6, <2>1
  <2> QED
    BY <1>1, <1>7, <2>2
<1>10. 1 < Len(s) /\ s[1 + 1] = Job(s[1].cmd, "run")
  BY <1>1, <1>9 DEF Shape
<1>11. s[i].step = "run"
  BY <1>5, <1>8, <1>9
<1>12. 2 \in DOMAIN s /\ s[2] = s[i]
  BY <1>1, <1>6, <1>10, <1>11
<1> QED
  BY <1>3, <1>6, <1>7, <1>9, <1>10, <1>12

\* A command that has ended is gone, unless it was a Prepare that has got a
\* statement.
LEMMA FinishGone ==
  ASSUME TypeOK, QueueInv, NEW m \in 1 .. Len(Pending), Finishing(m),
         current.cmd \in CmdsOf(Pending')
  PROVE  FinishPrepare(m) /\ current.step = "prepare" /\ ~FinishErr(m) /\ ~FinishRow(m)
<1> DEFINE k == current.cmd
<1>1. current # NoJob /\ Popped(m)
  BY DEF Finishing, FinishLogin, FinishPrepare, FinishRun, FinishErr, FinishRow, Finishes
<1>2. /\ Pending \in Seq(Jobs) /\ Shape(Pending) /\ DOMAIN Pending = 1 .. Len(Pending)
      /\ Pending[1] = current /\ Len(Pending) \in Nat
  BY <1>1, PendingFacts DEF TypeOK, QueueInv
<1>3. PICK i \in 1 .. Len(Pending') : Pending'[i].cmd = k
  BY <1>1, PopFacts, CmdsOfFacts
<1>4. Pending[i + m].cmd = Pending[1].cmd /\ i + m \in DOMAIN Pending /\ i + m > 1
  BY <1>1, <1>2, <1>3, PopFacts
<1>5. /\ i + m = 2 /\ k \in Executes /\ current = Job(k, "prepare")
      /\ Pending[2] = Job(k, "run")
  BY <1>2, <1>4, FirstObject
<1>6. m = 1 /\ m < Len(Pending)
  BY <1>2, <1>4, <1>5
<1>7. current' = Job(k, "run") /\ current' # NoJob
  <2>1. current' = Pending[m + 1] /\ current' \in Jobs
    BY <1>1, <1>6 DEF Popped
  <2> QED
    BY <1>5, <1>6, <2>1, JobFacts
<1>8. k \in Names /\ k # Handshake
  BY KindsAssumption, <1>5, NamesDiffer DEF Names
<1>9. current.step = "prepare" /\ current'.cmd = k /\ current'.step = "run"
  BY <1>5, <1>7, <1>8, JobFacts
<1>10. ~FinishErr(m)
  <2> SUFFICES ASSUME FinishErr(m) PROVE FALSE
    OBVIOUS
  <2> DEFINE p == [prepared EXCEPT ![k] = "failed"]
  <2>1. ~Instant(current', p)
    BY <1>6, <1>9 DEF FinishErr, Finishes, Moved
  <2>2. p[k] = "failed"
    BY <1>5 DEF TypeOK
  <2> HIDE DEF p
  <2> QED
    BY <1>5, <1>9, <2>1, <2>2 DEF Instant
<1> QED
  BY <1>8, <1>9, <1>10 DEF Finishing, FinishLogin, FinishRun, FinishRow

LEMMA SingleJob ==
  ASSUME NEW k \in Cmds \union {Quit}
  PROVE  /\ <<Job(k, "run")>> \in Seq(Jobs) /\ CmdsOf(<<Job(k, "run")>>) = {k}
         /\ \A i, j \in DOMAIN <<Job(k, "run")>> : i = j
<1>1. Job(k, "run") \in Jobs /\ Job(k, "run").cmd = k
  BY JobFacts DEF Names
<1> DEFINE s == <<Job(k, "run")>>
<1>2. s \in Seq(Jobs) /\ DOMAIN s = {1} /\ s[1] = Job(k, "run")
  BY <1>1
<1> HIDE DEF s
<1>3. CmdsOf(s) = {k}
  BY <1>1, <1>2 DEF CmdsOf
<1>4. \A i, j \in DOMAIN s : i = j
  BY <1>2
<1> QED
  BY <1>2, <1>3, <1>4 DEF s

\* calls after one more result of k.
LEMMA SingleCall ==
  ASSUME NEW k \in Cmds \union {Quit}, calls \in [Cmds \union {Quit} -> 0 .. 2]
  PROVE  LET c == CallsAfter(<<Job(k, "run")>>)
         IN  /\ \A l \in Cmds \union {Quit} : l # k => c[l] = calls[l]
             /\ k \in Silent => c[k] = calls[k]
             /\ k \notin Silent => c[k] >= 1
             /\ calls[k] = 0 => c[k] <= 1
             /\ c \in [Cmds \union {Quit} -> 0 .. 2]
<1> DEFINE s == <<Job(k, "run")>>
<1>1. s \in Seq(Jobs) /\ CmdsOf(s) = {k} /\ \A i, j \in DOMAIN s : i = j
  BY SingleJob
<1> HIDE DEF s
<1> SUFFICES /\ \A l \in Cmds \union {Quit} : l # k => CallsAfter(s)[l] = calls[l]
             /\ k \in Silent => CallsAfter(s)[k] = calls[k]
             /\ k \notin Silent => CallsAfter(s)[k] >= 1
             /\ calls[k] = 0 => CallsAfter(s)[k] <= 1
             /\ CallsAfter(s) \in [Cmds \union {Quit} -> 0 .. 2]
  BY DEF s
<1> QED
  BY <1>1, CallsAfterFacts

LEMMA CurrentCall ==
  ASSUME TypeOK, current # NoJob
  PROVE  LET c == CallsAfter(<<current>>)
         IN  /\ \A l \in Cmds \union {Quit} : l # current.cmd => c[l] = calls[l]
             /\ current.cmd \in Cmds \union {Quit} =>
                  /\ current.cmd \in Silent => c[current.cmd] = calls[current.cmd]
                  /\ current.cmd \notin Silent => c[current.cmd] >= 1
                  /\ calls[current.cmd] = 0 => c[current.cmd] <= 1
             /\ c \in [Cmds \union {Quit} -> 0 .. 2]
<1> DEFINE s == <<current>>
<1>0. current \in Jobs /\ calls \in [Cmds \union {Quit} -> 0 .. 2]
  BY DEF TypeOK
<1>1. s \in Seq(Jobs) /\ DOMAIN s = {1} /\ s[1] = current
  BY <1>0
<1> HIDE DEF s
<1>2. CmdsOf(s) = {current.cmd} /\ \A i, j \in DOMAIN s : i = j
  BY <1>1 DEF CmdsOf
<1> SUFFICES /\ \A l \in Cmds \union {Quit} : l # current.cmd => CallsAfter(s)[l] = calls[l]
             /\ current.cmd \in Cmds \union {Quit} =>
                  /\ current.cmd \in Silent => CallsAfter(s)[current.cmd] = calls[current.cmd]
                  /\ current.cmd \notin Silent => CallsAfter(s)[current.cmd] >= 1
                  /\ calls[current.cmd] = 0 => CallsAfter(s)[current.cmd] <= 1
             /\ CallsAfter(s) \in [Cmds \union {Quit} -> 0 .. 2]
  BY DEF s
<1> QED
  BY <1>0, <1>1, <1>2, CallsAfterFacts

\* What an error that drops the queue does to the callbacks.
LEMMA FailsCalls ==
  ASSUME TypeOK, QueueInv, CallInv, NEW js \in {Pending, commands}, Fails(js)
  PROVE  \A k \in Cmds \union {Quit} :
            /\ k \notin CmdsOf(Pending) \/ k \in Silent => calls'[k] = calls[k]
            /\ k \in CmdsOf(Pending) /\ k \notin Silent => calls'[k] > calls[k]
            /\ calls'[k] >= calls[k]
            /\ k \notin Timed \union Executes => calls'[k] <= 1
            /\ k \in Elems(issued) \/ calls'[k] = 0
<1>1. js \in Seq(Jobs) /\ calls \in [Cmds \union {Quit} -> 0 .. 2] /\ calls' = CallsAfter(js)
  BY FailsFacts DEF TypeOK, Fails
<1> SUFFICES ASSUME NEW k \in Cmds \union {Quit}
             PROVE  /\ k \notin CmdsOf(Pending) \/ k \in Silent => calls'[k] = calls[k]
                    /\ k \in CmdsOf(Pending) /\ k \notin Silent => calls'[k] > calls[k]
                    /\ calls'[k] >= calls[k]
                    /\ k \notin Timed \union Executes => calls'[k] <= 1
                    /\ k \in Elems(issued) \/ calls'[k] = 0
  OBVIOUS
<1>2. k \in CmdsOf(js) <=> k \in CmdsOf(Pending)
  BY FailsFacts
<1>3. k \notin CmdsOf(Pending) \/ k \in Silent => calls'[k] = calls[k]
  BY <1>1, <1>2, CallsAfterFacts
<1>4. k \in CmdsOf(Pending) => calls[k] = 0 \/ TimedOut(k)
  BY DEF CallInv
<1>5. k \in CmdsOf(Pending) /\ k \notin Silent => calls'[k] > calls[k]
  <2>1. k \in CmdsOf(Pending) => calls[k] < 2
    BY <1>4 DEF TimedOut
  <2> QED
    BY <1>1, <1>2, <2>1, CallsAfterFacts
<1>6. k \notin Timed \union Executes => calls'[k] <= 1
  <2> SUFFICES ASSUME k \notin Timed \union Executes, k \in CmdsOf(Pending), k \notin Silent
               PROVE  calls'[k] <= 1
    BY <1>3 DEF CallInv
  <2>1. calls[k] = 0
    BY <1>4 DEF TimedOut
  <2>2. /\ Pending \in Seq(Jobs) /\ Shape(Pending) /\ DOMAIN Pending = 1 .. Len(Pending)
        /\ commands \in Seq(Jobs) /\ current \in Jobs \union {NoJob}
    BY PendingFacts DEF TypeOK, QueueInv
  <2>3. \A i, j \in DOMAIN Pending : Pending[i].cmd = k /\ Pending[j].cmd = k => i = j
    BY <2>2, OneObject
  <2>4. \A i, j \in DOMAIN js : js[i].cmd = k /\ js[j].cmd = k => i = j
    <3>1. CASE js = Pending
      BY <2>3, <3>1
    <3>2. CASE js = commands /\ current.cmd = Handshake
      <4>1. current # NoJob
        BY <3>2, JobFacts, NamesDiffer
      <4>2. /\ Len(Pending) = 1 + Len(commands) /\ Len(commands) \in Nat
            /\ \A i \in 1 .. Len(commands) : Pending[i + 1] = commands[i]
            /\ DOMAIN commands = 1 .. Len(commands)
        <5>1. commands \in Seq(Jobs) /\ current \in Jobs \union {NoJob}
          BY <2>2
        <5>2. Len(commands) \in Nat /\ DOMAIN commands = 1 .. Len(commands)
          BY <5>1
        <5> QED
          BY <4>1, <5>1, <5>2, PendingFacts
      <4> SUFFICES ASSUME NEW i \in 1 .. Len(commands), NEW j \in 1 .. Len(commands),
                          commands[i].cmd = k, commands[j].cmd = k
                   PROVE  i = j
        BY <3>2, <4>2
      <4>3. i + 1 \in DOMAIN Pending /\ j + 1 \in DOMAIN Pending
        BY <2>2, <4>2
      <4>4. i + 1 = j + 1
        BY <2>3, <4>2, <4>3
      <4> QED
        BY <4>4
    <3> QED
      BY <3>1, <3>2 DEF Fails
  <2> QED
    BY <1>1, <2>1, <2>4, CallsAfterFacts
<1>7. k \in Elems(issued) \/ calls'[k] = 0
  <2> SUFFICES ASSUME k \notin Elems(issued) PROVE calls'[k] = 0
    OBVIOUS
  <2>1. k \notin CmdsOf(Pending) /\ calls[k] = 0
    BY NamesDiffer DEF QueueInv, CallInv
  <2> QED
    BY <1>3, <2>1
<1>8. calls'[k] >= calls[k]
  BY <1>1, CallsAfterFacts
<1> QED
  BY <1>3, <1>5, <1>6, <1>7, <1>8

LEMMA AppendIssued ==
  ASSUME TypeOK, CallInv, NEW k \in Cmds \union {Quit}, k \notin Elems(issued),
         issued' = Append(issued, k)
  PROVE  /\ Elems(issued') = Elems(issued) \union {k}
         /\ \A i, j \in DOMAIN issued' : issued'[i] = issued'[j] => i = j
<1>1. /\ Elems(issued') = Elems(issued) \union {k}
      /\ DOMAIN issued' = 1 .. Len(issued) + 1
      /\ \A i \in 1 .. Len(issued) : issued'[i] = issued[i]
      /\ issued'[Len(issued) + 1] = k
  <2>1. issued \in Seq(Cmds \union {Quit})
    BY DEF TypeOK
  <2>2. /\ Elems(Append(issued, k)) = Elems(issued) \union {k}
        /\ DOMAIN Append(issued, k) = 1 .. Len(issued) + 1
        /\ \A i \in 1 .. Len(issued) : Append(issued, k)[i] = issued[i]
        /\ Append(issued, k)[Len(issued) + 1] = k
    BY <2>1, AppendFacts
  <2> QED
    BY <2>2
<1>2. DOMAIN issued = 1 .. Len(issued) /\ Len(issued) \in Nat
  BY DEF TypeOK
<1>3. \A i \in 1 .. Len(issued) : issued[i] # k
  BY <1>2 DEF Elems
<1>4. \A i \in 1 .. Len(issued) + 1 : i \in 1 .. Len(issued) \/ i = Len(issued) + 1
  BY <1>2
<1>5. \A i, j \in 1 .. Len(issued) : issued[i] = issued[j] => i = j
  BY <1>2 DEF CallInv
<1> QED
  BY <1>1, <1>3, <1>4, <1>5

\* What a new command adds to the commands that are pending.
LEMMA PushedCmds ==
  ASSUME TypeOK, NEW k \in Cmds \union {Quit}, Pushed(NewJobs(k))
  PROVE  /\ CmdsOf(Pending') = CmdsOf(Pending) \union {k}
         /\ Pending' \in Seq(Jobs) /\ Pending \in Seq(Jobs)
         /\ Len(Pending') = Len(Pending) + Len(NewJobs(k))
         /\ \A i \in 1 .. Len(Pending) : Pending'[i] = Pending[i]
         /\ \A i \in 1 .. Len(NewJobs(k)) : Pending'[i + Len(Pending)].cmd = k
<1> DEFINE js == NewJobs(k)
<1>1. /\ Pending \in Seq(Jobs) /\ js \in Seq(Jobs) /\ CmdsOf(js) = {k}
      /\ \A i \in DOMAIN js : js[i].cmd = k
  BY PendingFacts, NewJobsFacts DEF TypeOK
<1>2. Pending' = Pending \o js /\ DOMAIN js = 1 .. Len(js)
  BY <1>1 DEF Pushed
<1> HIDE DEF js
<1>3. /\ Pending' \in Seq(Jobs) /\ Len(Pending') = Len(Pending) + Len(js)
      /\ \A i \in 1 .. Len(Pending) : Pending'[i] = Pending[i]
      /\ \A i \in 1 .. Len(js) : Pending'[i + Len(Pending)] = js[i]
      /\ Elems(Pending') = Elems(Pending) \union Elems(js)
  <2>1. Pending \in Seq(Jobs) /\ js \in Seq(Jobs)
    BY <1>1
  <2> QED
    BY <1>2, <2>1, ConcatFacts
<1>4. CmdsOf(Pending') = CmdsOf(Pending) \union CmdsOf(js)
  <2>1. /\ CmdsOf(Pending') = {j.cmd : j \in Elems(Pending')}
        /\ CmdsOf(Pending) = {j.cmd : j \in Elems(Pending)}
        /\ CmdsOf(js) = {j.cmd : j \in Elems(js)}
    BY <1>1, <1>3, CmdsOfFacts
  <2> QED
    BY <1>3, <2>1
<1> QED
  BY <1>1, <1>2, <1>3, <1>4 DEF js

\* The parts of CallInv that say something of one command.
CallInvOf(k) ==
    /\ k \notin Elems(issued) => calls[k] = 0
    /\ k \in CmdsOf(Pending) => calls[k] = 0 \/ TimedOut(k)
    /\ k \notin Timed \union Executes => calls[k] <= 1
TickInvOf(k) ==
    k \in Elems(ticks) => k \in Elems(issued) \ CmdsOf(Pending) /\ calls[k] = 0
TimerInvOf(k) ==
    timer[k] => /\ k \in Timed \intersect Elems(issued)
                /\ k \in CmdsOf(Pending) => current = Job(k, "run") /\ started

LEMMA CallInvParts ==
  /\ CallInv => \A k \in Cmds \union {Quit} : CallInvOf(k)
  /\ CallInv => \A k : TickInvOf(k)
  /\ CallInv => \A k \in Cmds : TimerInvOf(k)
BY DEF CallInv, CallInvOf, TickInvOf, TimerInvOf

LEMMA CallInvFromParts ==
  ASSUME \A i, j \in DOMAIN issued' : issued'[i] = issued'[j] => i = j,
         \A i, j \in DOMAIN ticks' : ticks'[i] = ticks'[j] => i = j,
         \A k \in Cmds \union {Quit} : CallInvOf(k)',
         ticks' \in Seq(Cmds),
         \A k \in Cmds : TickInvOf(k)' /\ TimerInvOf(k)'
  PROVE  CallInv'
<1>1. Elems(ticks') \subseteq Cmds
  BY DEF Elems
<1> QED
  BY <1>1 DEF CallInv, CallInvOf, TickInvOf, TimerInvOf

LEMMA FailsCallInv ==
  ASSUME TypeOK, QueueInv, CallInv, NEW js \in {Pending, commands}, Fails(js)
  PROVE  CallInv'
<1>1. UNCHANGED <<issued, ticks, timer>> /\ ticks \in Seq(Cmds)
  BY DEF Fails, TypeOK
<1>2. \/ Pending' = <<>>
      \/ /\ Pending' = <<current>> /\ current \in Jobs /\ current' = current
         /\ started' = started /\ current.cmd \in Silent \union {Handshake}
         /\ current # NoJob
  BY FailsFacts
<1>3. \A k \in CmdsOf(Pending') : /\ k = current.cmd /\ current' = current /\ started' = started
                                  /\ k \in Silent \union {Handshake} /\ k \in CmdsOf(Pending)
  <2>1. CASE Pending' = <<>>
    BY <2>1 DEF CmdsOf
  <2>2. CASE /\ Pending' = <<current>> /\ current \in Jobs /\ current' = current
             /\ started' = started /\ current.cmd \in Silent \union {Handshake}
             /\ current # NoJob
    <3>1. CmdsOf(Pending') = {current.cmd}
      BY <2>2 DEF CmdsOf
    <3>2. current.cmd \in CmdsOf(Pending)
      BY <2>2, PendingFacts DEF TypeOK
    <3> QED
      BY <2>2, <3>1, <3>2
  <2> QED
    BY <1>2, <2>1, <2>2
<1>4. ASSUME NEW k \in Cmds \union {Quit}
      PROVE  CallInvOf(k)'
  <2>1. CallInvOf(k) /\ k # Handshake
    BY CallInvParts, NamesDiffer
  <2>2. /\ k \in Elems(issued) \/ calls'[k] = 0
        /\ k \notin Timed \union Executes => calls'[k] <= 1
        /\ k \in Silent => calls'[k] = calls[k]
    BY FailsCalls
  <2>3. k \in CmdsOf(Pending') => calls'[k] = 0 \/ TimedOut(k)'
    BY <1>1, <1>3, <2>1, <2>2 DEF CallInvOf, TimedOut
  <2> QED
    BY <1>1, <2>2, <2>3 DEF CallInvOf
<1>5. ASSUME NEW k \in Cmds
      PROVE  TickInvOf(k)' /\ TimerInvOf(k)'
  <2>1. TickInvOf(k) /\ TimerInvOf(k)
    BY CallInvParts
  <2>2. k \notin CmdsOf(Pending) => calls'[k] = calls[k]
    BY FailsCalls
  <2> QED
    BY <1>1, <1>3, <2>1, <2>2 DEF TickInvOf, TimerInvOf
<1> QED
  BY <1>1, <1>4, <1>5, CallInvFromParts DEF CallInv

LEMMA TimesOutCallInv ==
  ASSUME TypeOK, QueueInv, CallInv, NEW c \in Cmds, TimesOut(c)
  PROVE  CallInv'
<1>1. /\ UNCHANGED <<issued, ticks, current, started>> /\ ticks = <<>> /\ ticks \in Seq(Cmds)
      /\ Pending' = Pending /\ timer[c]
      /\ timer \in [Cmds -> BOOLEAN] /\ timer' = [timer EXCEPT ![c] = FALSE]
  BY PendingSame DEF TimesOut, TypeOK, queueVars
<1>2. /\ \A l \in Cmds \union {Quit} : l # c => calls'[l] = calls[l]
      /\ c \in Silent => calls'[c] = calls[c]
      /\ calls[c] = 0 => calls'[c] <= 1
      /\ calls' \in [Cmds \union {Quit} -> 0 .. 2]
  BY SingleCall DEF TimesOut, TypeOK
<1>3. /\ c \in Timed \intersect Elems(issued)
      /\ c \in CmdsOf(Pending) => current = Job(c, "run") /\ started
  BY <1>1 DEF CallInv
<1>4. ASSUME NEW k \in Cmds \union {Quit}
      PROVE  CallInvOf(k)'
  <2>1. CallInvOf(k)
    BY CallInvParts
  <2>2. CASE k # c
    <3>1. TimedOut(k) => TimedOut(k)'
      BY <1>1, <1>2, <2>2 DEF TimedOut
    <3> QED
      BY <1>1, <1>2, <2>1, <2>2, <3>1 DEF CallInvOf
  <2>3. CASE k = c
    <3>1. k \in CmdsOf(Pending) => calls[k] = 0
      BY <1>1, <2>1, <2>3 DEF CallInvOf, TimedOut
    <3>2. k \in CmdsOf(Pending) => calls'[k] = 0 \/ calls'[k] = 1
      BY <1>2, <2>3, <3>1
    <3>3. k \in CmdsOf(Pending) /\ calls'[k] = 1 => TimedOut(k)'
      BY <1>1, <1>3, <2>3 DEF TimedOut
    <3> QED
      BY <1>1, <1>3, <2>3, <3>2, <3>3 DEF CallInvOf
  <2> QED
    BY <2>2, <2>3
<1>5. ASSUME NEW k \in Cmds
      PROVE  TickInvOf(k)' /\ TimerInvOf(k)'
  <2>1. TimerInvOf(k)
    BY CallInvParts
  <2> QED
    BY <1>1, <2>1, ElemsEmpty DEF TickInvOf, TimerInvOf
<1> QED
  BY <1>1, <1>4, <1>5, CallInvFromParts DEF CallInv

LEMMA TicksCallInv ==
  ASSUME TypeOK, QueueInv, CallInv, Ticks
  PROVE  CallInv'
<1> DEFINE h == Head(ticks)
<1>1. /\ UNCHANGED <<issued, timer, current, started>>
      /\ Pending' = Pending /\ ticks # <<>> /\ ticks' = Tail(ticks)
  BY PendingSame DEF Ticks, queueVars
<1>2. /\ h \in Cmds /\ h \in Elems(ticks) /\ h = ticks[1]
      /\ ticks' \in Seq(Cmds) /\ DOMAIN ticks' = 1 .. Len(ticks) - 1
      /\ \A i \in 1 .. Len(ticks) - 1 : ticks'[i] = ticks[i + 1]
      /\ Elems(ticks') \subseteq Elems(ticks)
      /\ Len(ticks) \in Nat /\ DOMAIN ticks = 1 .. Len(ticks)
  BY <1>1, TailFacts DEF TypeOK
<1>3. \A i, j \in DOMAIN ticks : ticks[i] = ticks[j] => i = j
  BY DEF CallInv
<1>4. h \notin Elems(ticks')
  <2> SUFFICES ASSUME NEW i \in 1 .. Len(ticks) - 1, ticks'[i] = h PROVE FALSE
    BY <1>2 DEF Elems
  <2>1. i + 1 \in DOMAIN ticks /\ 1 \in DOMAIN ticks /\ ticks[i + 1] = ticks[1] /\ i + 1 # 1
    BY <1>2
  <2> QED
    BY <1>3, <2>1
<1>5. \A i, j \in DOMAIN ticks' : ticks'[i] = ticks'[j] => i = j
  <2> SUFFICES ASSUME NEW i \in 1 .. Len(ticks) - 1, NEW j \in 1 .. Len(ticks) - 1,
                      ticks'[i] = ticks'[j]
               PROVE  i = j
    BY <1>2
  <2>1. i + 1 \in DOMAIN ticks /\ j + 1 \in DOMAIN ticks /\ ticks[i + 1] = ticks[j + 1]
    BY <1>2
  <2>2. i + 1 = j + 1
    BY <1>3, <2>1
  <2> QED
    BY <2>2
<1>6. /\ \A l \in Cmds \union {Quit} : l # h => calls'[l] = calls[l]
      /\ calls[h] = 0 => calls'[h] <= 1
  BY <1>2, SingleCall DEF Ticks, TypeOK
<1>7. calls[h] = 0 /\ h \in Elems(issued) /\ h \notin CmdsOf(Pending)
  BY <1>2 DEF CallInv
<1> HIDE DEF h
<1>8. ASSUME NEW k \in Cmds \union {Quit}
      PROVE  CallInvOf(k)'
  <2>1. CallInvOf(k)
    BY CallInvParts
  <2>2. CASE k # h
    <3>1. TimedOut(k) => TimedOut(k)'
      BY <1>1, <1>6, <2>2 DEF TimedOut
    <3> QED
      BY <1>1, <1>6, <2>1, <2>2, <3>1 DEF CallInvOf
  <2>3. CASE k = h
    BY <1>1, <1>6, <1>7, <2>3 DEF CallInvOf
  <2> QED
    BY <2>2, <2>3
<1>9. ASSUME NEW k \in Cmds
      PROVE  TickInvOf(k)' /\ TimerInvOf(k)'
  <2>1. TickInvOf(k) /\ TimerInvOf(k)
    BY CallInvParts
  <2> QED
    BY <1>1, <1>2, <1>4, <1>6, <2>1 DEF TickInvOf, TimerInvOf
<1> QED
  BY <1>1, <1>2, <1>5, <1>8, <1>9, CallInvFromParts DEF CallInv

LEMMA QueuesCallInv ==
  ASSUME TypeOK, QueueInv, CallInv, NEW c \in Cmds \union {Quit}, Queues(c)
  PROVE  CallInv'
<1>1. /\ UNCHANGED <<prepared, calls, ticks>> /\ c \notin Elems(issued)
      /\ issued' = Append(issued, c)
      /\ Pushed(NewJobs(c)) /\ c # Handshake /\ ticks \in Seq(Cmds)
      /\ timer \in [Cmds -> BOOLEAN]
  BY NamesDiffer DEF Queues, TypeOK
<1>2. /\ Elems(issued') = Elems(issued) \union {c}
      /\ \A i, j \in DOMAIN issued' : issued'[i] = issued'[j] => i = j
  BY <1>1, AppendIssued
<1>3. CmdsOf(Pending') = CmdsOf(Pending) \union {c}
  BY <1>1, PushedCmds
<1>4. c \notin CmdsOf(Pending) /\ calls[c] = 0
  BY <1>1 DEF QueueInv, CallInv
<1>5. current # NoJob => /\ current' = current /\ timer' = timer
                         /\ started \in BOOLEAN /\ started' = started
  BY <1>1 DEF Queues, Pushed, TypeOK
<1>6. current = NoJob => /\ current'.cmd = c /\ CmdsOf(Pending) = {}
                         /\ current' \in Jobs
  <2>1. Len(NewJobs(c)) > 0 /\ NewJobs(c) \in Seq(Jobs)
        /\ \A i \in DOMAIN NewJobs(c) : NewJobs(c)[i].cmd = c
    BY NewJobsFacts
  <2>2. NewJobs(c)[1].cmd = c
    BY <2>1
  <2>3. CmdsOf(<<>>) = {}
    BY DEF CmdsOf
  <2> QED
    BY <1>1, <2>2, <2>3 DEF Pushed
<1>7. ASSUME NEW k \in Cmds \union {Quit}
      PROVE  CallInvOf(k)'
  <2>1. CallInvOf(k)
    BY CallInvParts
  <2>2. TimedOut(k) => TimedOut(k)'
    <3>1. TimedOut(k) => current # NoJob
      BY JobFacts, NamesDiffer DEF TimedOut, Names
    <3> QED
      BY <1>1, <1>5, <3>1 DEF TimedOut
  <2>3. k \in CmdsOf(Pending') => calls'[k] = 0 \/ TimedOut(k)'
    BY <1>1, <1>3, <1>4, <2>1, <2>2 DEF CallInvOf
  <2> QED
    BY <1>1, <1>2, <2>1, <2>3 DEF CallInvOf
<1>8. ASSUME NEW k \in Cmds
      PROVE  TickInvOf(k)' /\ TimerInvOf(k)'
  <2>1. TickInvOf(k) /\ TimerInvOf(k)
    BY CallInvParts
  <2>2. TickInvOf(k)'
    BY <1>1, <1>2, <1>3, <2>1 DEF TickInvOf
  <2>3. CASE current # NoJob
    BY <1>1, <1>2, <1>3, <1>5, <2>1, <2>2, <2>3 DEF TimerInvOf
  <2>4. CASE current = NoJob
    <3>1. timer'[k] => timer[k] \/ (current' = Job(k, "run") /\ k \in Timed /\ started' = TRUE)
      BY <1>1 DEF Queues
    <3>2. current' = Job(k, "run") => k = c
      BY <1>6, <2>4, JobFacts DEF Names
    <3>3. timer[k] => k # c /\ k \in Timed \intersect Elems(issued) /\ k \notin CmdsOf(Pending')
      BY <1>1, <1>3, <1>6, <2>1, <2>4 DEF TimerInvOf
    <3> QED
      BY <1>2, <2>2, <3>1, <3>2, <3>3 DEF TimerInvOf
  <2> QED
    BY <2>3, <2>4
<1> QED
  BY <1>1, <1>2, <1>7, <1>8, CallInvFromParts DEF CallInv

LEMMA RefusesCallInv ==
  ASSUME TypeOK, QueueInv, CallInv, NEW c \in Cmds \union {Quit}, Refuses(c)
  PROVE  CallInv'
<1>1. /\ UNCHANGED <<current, commands, started, prepared, timer, ticks>>
      /\ c \notin Elems(issued) /\ issued' = Append(issued, c)
      /\ Pending' = Pending /\ c # Handshake /\ ticks \in Seq(Cmds)
      /\ calls \in [Cmds \union {Quit} -> 0 .. 2]
  BY NamesDiffer, PendingSame DEF Refuses, TypeOK, queueVars
<1>2. /\ Elems(issued') = Elems(issued) \union {c}
      /\ \A i, j \in DOMAIN issued' : issued'[i] = issued'[j] => i = j
  BY <1>1, AppendIssued
<1>3. c \notin CmdsOf(Pending) /\ calls[c] = 0
  BY <1>1 DEF QueueInv, CallInv
<1>4. /\ \A l \in Cmds \union {Quit} : l # c => calls'[l] = calls[l]
      /\ c \notin Executes => calls'[c] <= 1
  <2>1. CASE calls' = CallsAfter(NewJobs(c))
    <3>1. /\ NewJobs(c) \in Seq(Jobs) /\ CmdsOf(NewJobs(c)) = {c}
          /\ c \notin Executes => Len(NewJobs(c)) = 1
      BY NewJobsFacts
    <3>2. c \notin Executes => \A i, j \in DOMAIN NewJobs(c) : i = j
      BY <3>1
    <3> QED
      BY <1>1, <1>3, <2>1, <3>1, <3>2, CallsAfterFacts
  <2>2. CASE c = Quit /\ calls' = [calls EXCEPT ![Quit] = IF @ = 2 THEN 2 ELSE @ + 1]
    BY <1>1, <1>3, <2>2
  <2> QED
    BY <2>1, <2>2 DEF Refuses
<1>5. ASSUME NEW k \in Cmds \union {Quit}
      PROVE  CallInvOf(k)'
  <2>1. CallInvOf(k)
    BY CallInvParts
  <2>2. CASE k # c
    <3>1. TimedOut(k) => TimedOut(k)'
      BY <1>1, <1>4, <2>2 DEF TimedOut
    <3> QED
      BY <1>1, <1>2, <1>4, <2>1, <2>2, <3>1 DEF CallInvOf
  <2>3. CASE k = c
    BY <1>1, <1>2, <1>3, <1>4, <2>3 DEF CallInvOf
  <2> QED
    BY <2>2, <2>3
<1>6. ASSUME NEW k \in Cmds
      PROVE  TickInvOf(k)' /\ TimerInvOf(k)'
  <2>1. TickInvOf(k) /\ TimerInvOf(k)
    BY CallInvParts
  <2> QED
    BY <1>1, <1>2, <1>4, <2>1 DEF TickInvOf, TimerInvOf
<1> QED
  BY <1>1, <1>2, <1>5, <1>6, CallInvFromParts DEF CallInv

\* What the end of a command does to callbacks, timers and ticks.
LEMMA FinishCalls ==
  ASSUME TypeOK, QueueInv, CallInv, NEW m \in 1 .. Len(Pending), Finishing(m)
  PROVE  /\ \A k \in Cmds \union {Quit} : k # current.cmd /\ k # Quit => calls'[k] = calls[k]
         /\ \A k \in Cmds \union {Quit} : calls'[k] >= calls[k]
         /\ Pending' # <<>> => calls'[Quit] = calls[Quit] \/ current.cmd = Quit
         /\ current.cmd \in Cmds \union {Quit} =>
               /\ calls[current.cmd] = 0 => calls'[current.cmd] <= 1
               /\ calls'[current.cmd] = calls[current.cmd] \/ FinishErr(m) \/ FinishRow(m)
         /\ calls[Quit] = 0 => calls'[Quit] <= 1
         /\ calls'[Quit] # calls[Quit] => Quit \in CmdsOf(Pending)
         /\ \A k \in Cmds : /\ timer'[k] => \/ timer[k]
                                            \/ current' = Job(k, "run") /\ k \in Timed
                            /\ ~FinishRow(m) /\ current = Job(k, "run") /\ current' # current
                                  => ~timer'[k]
<1>1. PICK prep, cl, tm :
        /\ Moved(m, prep, cl, tm) /\ Popped(m) /\ current # NoJob
        /\ cl = calls \/ (cl = CallsAfter(<<current>>) /\ (FinishErr(m) \/ FinishRow(m)))
        /\ \A k \in Cmds : /\ tm[k] => timer[k]
                           /\ ~FinishRow(m) /\ current = Job(k, "run") => ~tm[k]
  <2>1. timer \in [Cmds -> BOOLEAN]
    BY DEF TypeOK
  <2>2. CASE FinishLogin(m)
    <3>1. \A k \in Cmds : current # Job(k, "run")
      BY <2>2, JobFacts, NamesDiffer DEF FinishLogin, Names
    <3> QED
      BY <2>2, <3>1 DEF FinishLogin, Finishes
  <2>3. CASE FinishPrepare(m)
    <3>1. \A k \in Cmds : current # Job(k, "run")
      BY <2>3, JobFacts DEF FinishPrepare, Names
    <3> QED
      BY <2>3, <3>1 DEF FinishPrepare, Finishes
  <2>4. CASE FinishRun(m)
    <3> DEFINE t == [timer EXCEPT ![current.cmd] = FALSE]
    <3>1. \A k \in Cmds : /\ t[k] => timer[k]
                          /\ current = Job(k, "run") => ~t[k]
      BY <2>1, <2>4, JobFacts DEF FinishRun, Names
    <3> QED
      BY <2>4, <3>1 DEF FinishRun, Finishes
  <2>5. CASE FinishErr(m)
    <3> DEFINE t == [k \in Cmds |-> timer[k] /\ current # Job(k, "run")]
    <3>1. \A k \in Cmds : /\ t[k] => timer[k]
                          /\ current = Job(k, "run") => ~t[k]
      BY <2>1
    <3>2. /\ Popped(m) /\ current # NoJob
          /\ Moved(m, IF current.step = "prepare"
                      THEN [prepared EXCEPT ![current.cmd] = "failed"] ELSE prepared,
                   CallsAfter(<<current>>), t)
      BY <2>5 DEF FinishErr, Finishes
    <3> HIDE DEF t
    <3> QED
      BY <2>5, <3>1, <3>2
  <2>6. CASE FinishRow(m)
    BY <2>6 DEF FinishRow, Finishes
  <2> QED
    BY <2>2, <2>3, <2>4, <2>5, <2>6 DEF Finishing
<1>2. /\ calls \in [Cmds \union {Quit} -> 0 .. 2]
      /\ cl \in [Cmds \union {Quit} -> 0 .. 2]
      /\ \A l \in Cmds \union {Quit} : l # current.cmd => cl[l] = calls[l]
      /\ \A l \in Cmds \union {Quit} : cl[l] >= calls[l]
      /\ current.cmd \in Cmds \union {Quit} => (calls[current.cmd] = 0 => cl[current.cmd] <= 1)
  <2>1. calls \in [Cmds \union {Quit} -> 0 .. 2]
    BY DEF TypeOK
  <2>2. CASE cl = calls
    BY <2>1, <2>2
  <2>3. CASE cl = CallsAfter(<<current>>)
    <3>1. <<current>> \in Seq(Jobs)
      BY <1>1 DEF TypeOK
    <3>2. \A l \in Cmds \union {Quit} : cl[l] >= calls[l]
      BY <2>1, <2>3, <3>1, CallsAfterFacts
    <3> QED
      BY <1>1, <2>1, <2>3, <3>2, CurrentCall
  <2> QED
    BY <1>1, <2>2, <2>3
<1>3. /\ Pending \in Seq(Jobs) /\ Shape(Pending) /\ DOMAIN Pending = 1 .. Len(Pending)
      /\ Pending[1] = current /\ Len(Pending) \in Nat
  BY <1>1, PendingFacts DEF TypeOK, QueueInv
<1>4. \/ calls' = cl
      \/ /\ Pending' = <<>> /\ Quit \in CmdsOf(Pending) /\ current.cmd # Quit
         /\ calls' = [cl EXCEPT ![Quit] = IF @ = 2 THEN 2 ELSE @ + 1]
  <2>1. CASE calls' = cl
    BY <2>1
  <2>2. CASE /\ m = Len(Pending) /\ \E i \in 2 .. m : Pending[i].cmd = Quit
             /\ calls' = [cl EXCEPT ![Quit] = IF @ = 2 THEN 2 ELSE @ + 1]
    <3> PICK i \in 2 .. m : Pending[i].cmd = Quit
      BY <2>2
    <3>1. i \in DOMAIN Pending /\ 1 \in DOMAIN Pending
      BY <1>3, <2>2
    <3>2. Quit \in CmdsOf(Pending)
      BY <3>1 DEF CmdsOf
    <3>3. current.cmd # Quit
      BY <1>3, <3>1 DEF Shape
    <3>4. Pending' = <<>>
      BY <1>1, <2>2 DEF Popped, Pending
    <3> QED
      BY <2>2, <3>2, <3>3, <3>4
  <2> QED
    BY <1>1, <2>1, <2>2 DEF Moved
<1>5. timer' = [k \in Cmds |-> tm[k] \/ (current' = Job(k, "run") /\ k \in Timed)]
  BY <1>1 DEF Moved
<1>6. \A k \in Cmds : /\ timer'[k] => timer[k] \/ (current' = Job(k, "run") /\ k \in Timed)
                      /\ ~FinishRow(m) /\ current = Job(k, "run") /\ current' # current
                            => ~timer'[k]
  BY <1>1, <1>5
<1>7. current.cmd \in CmdsOf(Pending)
  BY <1>3 DEF CmdsOf
<1>8. CASE calls' = cl
  BY <1>1, <1>2, <1>6, <1>7, <1>8
<1>9. CASE /\ Pending' = <<>> /\ Quit \in CmdsOf(Pending) /\ current.cmd # Quit
           /\ calls' = [cl EXCEPT ![Quit] = IF @ = 2 THEN 2 ELSE @ + 1]
  <2>1. /\ \A l \in Cmds \union {Quit} : l # Quit => calls'[l] = cl[l]
        /\ calls'[Quit] = IF cl[Quit] = 2 THEN 2 ELSE cl[Quit] + 1
        /\ cl[Quit] = calls[Quit]
    BY <1>2, <1>9
  <2>2. \A l \in Cmds \union {Quit} : calls'[l] >= calls[l]
    BY <1>2, <2>1
  <2>3. calls[Quit] = 0 => calls'[Quit] <= 1
    BY <2>1
  <2>4. current.cmd \in Cmds \union {Quit} =>
          /\ calls[current.cmd] = 0 => calls'[current.cmd] <= 1
          /\ calls'[current.cmd] = calls[current.cmd] \/ FinishErr(m) \/ FinishRow(m)
    BY <1>1, <1>2, <1>9, <2>1
  <2> QED
    BY <1>2, <1>6, <1>9, <2>1, <2>2, <2>3, <2>4
<1> QED
  BY <1>4, <1>8, <1>9

LEMMA FinishCallInv ==
  ASSUME TypeOK, QueueInv, CallInv, TypeOK', QueueInv',
         NEW m \in 1 .. Len(Pending), Finishing(m)
  PROVE  CallInv'
<1> DEFINE c == current.cmd
<1>1. current # NoJob /\ Popped(m) /\ issued' = issued
  BY DEF Finishing, FinishLogin, FinishPrepare, FinishRun, FinishErr, FinishRow, Finishes
<1>2. /\ CmdsOf(Pending') \subseteq CmdsOf(Pending) /\ Pending' \in Seq(Jobs)
      /\ current' # NoJob => current' \in Jobs /\ started' = TRUE
      /\ Pending[1] = current /\ c \in CmdsOf(Pending) /\ current \in Jobs
  BY <1>1, PopFacts, PendingFacts DEF TypeOK
<1>3. c \in CmdsOf(Pending') =>
        FinishPrepare(m) /\ current.step = "prepare" /\ ~FinishErr(m) /\ ~FinishRow(m)
  BY FinishGone
<1>4. Pending' = <<>> => CmdsOf(Pending') = {}
  BY DEF CmdsOf
<1>5. ASSUME NEW k \in Cmds \union {Quit}, k \in CmdsOf(Pending')
      PROVE  calls'[k] = 0
  <2>1. calls'[k] = calls[k]
    <3>1. CASE k = c
      BY <1>3, <1>5, <3>1, FinishCalls
    <3>2. CASE k # c
      BY <1>4, <1>5, <3>2, FinishCalls
    <3> QED
      BY <3>1, <3>2
  <2>2. calls[k] = 0 \/ TimedOut(k)
    BY <1>2, <1>5, CallInvParts DEF CallInvOf
  <2>3. ~TimedOut(k)
    <3> SUFFICES ASSUME TimedOut(k) PROVE FALSE
      OBVIOUS
    <3>1. current = Job(k, "run") /\ k = c /\ current.step = "run"
      BY JobFacts DEF TimedOut, Names
    <3> QED
      BY <1>3, <1>5, <3>1
  <2> QED
    BY <2>1, <2>2, <2>3
<1>6. ASSUME NEW k \in Cmds \union {Quit}
      PROVE  CallInvOf(k)'
  <2>1. CallInvOf(k)
    BY CallInvParts
  <2>2. CASE k \in Elems(issued)
    <3>1. k \notin Timed \union Executes => calls'[k] <= 1
      <4> SUFFICES ASSUME k \notin Timed \union Executes PROVE calls'[k] <= 1
        OBVIOUS
      <4>1. CASE k # c /\ k # Quit
        BY <2>1, <4>1, FinishCalls DEF CallInvOf
      <4>2. CASE k = c
        <5>1. calls[k] = 0
          BY <1>2, <2>1, <4>2 DEF CallInvOf, TimedOut
        <5> QED
          BY <4>2, <5>1, FinishCalls
      <4>3. CASE k = Quit
        <5>1. CASE calls'[Quit] # calls[Quit]
          <6>1. Quit \in CmdsOf(Pending)
            BY <5>1, FinishCalls
          <6>2. calls[Quit] = 0
            BY <2>1, <4>3, <6>1 DEF CallInvOf, TimedOut
          <6> QED
            BY <4>3, <6>2, FinishCalls
        <5> QED
          BY <2>1, <4>3, <5>1 DEF CallInvOf
      <4> QED
        BY <4>1, <4>2, <4>3
    <3> QED
      BY <1>1, <1>5, <2>2, <3>1 DEF CallInvOf
  <2>3. CASE k \notin Elems(issued)
    <3>1. k \notin CmdsOf(Pending) /\ k # Handshake
      BY <2>3, NamesDiffer DEF QueueInv
    <3>2. calls'[k] = calls[k] /\ k # c
      BY <1>2, <3>1, FinishCalls
    <3> QED
      BY <1>1, <1>2, <2>1, <2>3, <3>1, <3>2 DEF CallInvOf
  <2> QED
    BY <2>2, <2>3
<1>7. ASSUME NEW k \in Cmds
      PROVE  TimerInvOf(k)'
  <2>1. TimerInvOf(k)
    BY CallInvParts
  <2> SUFFICES ASSUME timer'[k]
               PROVE  /\ k \in Timed \intersect Elems(issued)
                      /\ k \in CmdsOf(Pending') => current' = Job(k, "run") /\ started'
    BY <1>1 DEF TimerInvOf
  <2>2. CASE current' = Job(k, "run") /\ k \in Timed
    <3>1. current' # NoJob /\ current'.cmd = k
      BY <2>2, JobFacts DEF Names
    <3>2. k \in CmdsOf(Pending')
      <4>1. /\ m < Len(Pending) /\ current' = Pending[m + 1] /\ Len(Pending) \in Nat
            /\ Len(Pending') = Len(Pending) - m
            /\ \A i \in 1 .. Len(Pending') : Pending'[i] = Pending[i + m]
        BY <1>1, <3>1, PopFacts
      <4>2. 1 \in 1 .. Len(Pending') /\ m + 1 = 1 + m
        BY <4>1
      <4>3. Pending'[1] = current'
        BY <4>1, <4>2
      <4>4. Pending'[1].cmd \in CmdsOf(Pending')
        BY <1>2, <4>2, CmdsOfFacts
      <4> QED
        BY <3>1, <4>3, <4>4
    <3>3. k \in Elems(issued)
      BY <1>1, <3>2, NamesDiffer DEF QueueInv
    <3> QED
      BY <1>2, <2>2, <3>1, <3>3
  <2>3. CASE timer[k]
    <3>1. k \in Timed \intersect Elems(issued)
      BY <2>1, <2>3 DEF TimerInvOf
    <3>2. k \notin CmdsOf(Pending')
      <4> SUFFICES ASSUME k \in CmdsOf(Pending') PROVE FALSE
        OBVIOUS
      <4>1. current = Job(k, "run")
        BY <1>2, <2>1, <2>3 DEF TimerInvOf
      <4>2. k = c /\ current.step = "run"
        BY <4>1, JobFacts DEF Names
      <4> QED
        BY <1>3, <4>2
    <3> QED
      BY <3>1, <3>2
  <2> QED
    BY <2>2, <2>3, FinishCalls
<1>8. \/ ticks' = ticks
      \/ /\ FinishRun(m) /\ c \in Cmds \ Silent /\ (c \notin Timed \/ timer[c])
         /\ ticks' = Append(ticks, c)
  BY DEF Finishing, FinishLogin, FinishPrepare, FinishRun, FinishErr, FinishRow
<1>9. ASSUME NEW k \in Cmds, k \in Elems(ticks)
      PROVE  k \in Elems(issued) \ CmdsOf(Pending') /\ calls'[k] = 0 /\ k # c
  <2>1. k \in Elems(issued) \ CmdsOf(Pending) /\ calls[k] = 0
    BY <1>9, CallInvParts DEF TickInvOf
  <2>2. k # c /\ k # Quit
    BY <1>2, <2>1, NamesDiffer
  <2> QED
    BY <1>2, <2>1, <2>2, FinishCalls
<1>10. ticks \in Seq(Cmds) /\ \A i, j \in DOMAIN ticks : ticks[i] = ticks[j] => i = j
  BY DEF TypeOK, CallInv
<1>11. CASE ticks' = ticks
  <2>1. \A k \in Cmds : TickInvOf(k)'
    BY <1>1, <1>9, <1>11 DEF TickInvOf
  <2> QED
    BY <1>1, <1>6, <1>7, <1>10, <1>11, <2>1, CallInvFromParts DEF CallInv
<1>12. CASE /\ FinishRun(m) /\ c \in Cmds \ Silent /\ (c \notin Timed \/ timer[c])
            /\ ticks' = Append(ticks, c)
  <2>1. /\ ticks' \in Seq(Cmds) /\ DOMAIN ticks' = 1 .. Len(ticks) + 1
        /\ \A i \in 1 .. Len(ticks) : ticks'[i] = ticks[i]
        /\ ticks'[Len(ticks) + 1] = c
        /\ Elems(ticks') = Elems(ticks) \union {c}
    <3>1. c \in Cmds
      BY <1>12
    <3>2. /\ Append(ticks, c) \in Seq(Cmds) /\ DOMAIN Append(ticks, c) = 1 .. Len(ticks) + 1
          /\ \A i \in 1 .. Len(ticks) : Append(ticks, c)[i] = ticks[i]
          /\ Append(ticks, c)[Len(ticks) + 1] = c
          /\ Elems(Append(ticks, c)) = Elems(ticks) \union {c}
      BY <1>10, <3>1, AppendFacts
    <3> QED
      BY <1>12, <3>2
  <2>2. DOMAIN ticks = 1 .. Len(ticks) /\ Len(ticks) \in Nat
    BY <1>10
  <2>3. \A i \in 1 .. Len(ticks) : ticks[i] # c
    <3> SUFFICES ASSUME NEW i \in 1 .. Len(ticks), ticks[i] = c PROVE FALSE
      OBVIOUS
    <3>1. c \in Elems(ticks) /\ c \in Cmds
      BY <1>12, <2>2 DEF Elems
    <3> QED
      BY <1>9, <3>1
  <2>4. \A i, j \in DOMAIN ticks' : ticks'[i] = ticks'[j] => i = j
    <3>1. \A i \in 1 .. Len(ticks) + 1 : i \in 1 .. Len(ticks) \/ i = Len(ticks) + 1
      BY <2>2
    <3> HIDE DEF c
    <3> QED
      BY <1>10, <2>1, <2>2, <2>3, <3>1
  <2>5. c \in Elems(issued) \ CmdsOf(Pending') /\ calls'[c] = 0
    <3>1. c \in Elems(issued)
      BY <1>2, <1>12, NamesDiffer DEF QueueInv
    <3>2. current.step = "run" /\ c # Quit
      BY <1>12, NamesDiffer DEF FinishRun
    <3>3. c \notin CmdsOf(Pending')
      BY <1>3, <3>2
    <3>4. calls[c] = 0
      BY <1>2, <1>12, CallInvParts DEF CallInvOf, TimedOut
    <3>5. calls' = calls \/ calls' = [calls EXCEPT ![Quit] = IF @ = 2 THEN 2 ELSE @ + 1]
      BY <1>12 DEF FinishRun, Finishes, Moved
    <3>6. calls'[c] = calls[c]
      BY <1>12, <3>2, <3>5 DEF TypeOK
    <3> QED
      BY <3>1, <3>3, <3>4, <3>6
  <2>6. \A k \in Cmds : TickInvOf(k)'
    BY <1>1, <1>9, <2>1, <2>5 DEF TickInvOf
  <2> QED
    BY <1>1, <1>6, <1>7, <2>1, <2>4, <2>6, CallInvFromParts DEF CallInv
<1> QED
  BY <1>8, <1>11, <1>12

LEMMA CallStepInv ==
  ASSUME TypeOK, QueueInv, CallInv, TypeOK', QueueInv', QueueStep
  PROVE  CallInv'
<1>1. CASE Rests
  <2>1. Pending' = Pending
    BY <1>1, PendingSame DEF Rests, queueVars
  <2>2. \A k : TimedOut(k)' <=> TimedOut(k)
    BY <1>1 DEF Rests, queueVars, resultVars, TimedOut
  <2> QED
    BY <1>1, <2>1, <2>2 DEF Rests, queueVars, resultVars, CallInv
<1> QED
  BY <1>1, FailsCallInv, TimesOutCallInv, TicksCallInv, QueuesCallInv, RefusesCallInv,
     FinishCallInv DEF QueueStep

LEMMA CallInitInv == Init => CallInv
<1> SUFFICES ASSUME Init PROVE CallInv
  OBVIOUS
<1>1. /\ issued = <<>> /\ ticks = <<>> /\ timer = [k \in Cmds |-> FALSE]
      /\ calls = [k \in Cmds \union {Quit} |-> 0]
  BY DEF Init
<1> QED
  BY <1>1, ElemsEmpty DEF CallInv

-----------------------------------------------------------------------------
(* What holds whatever goes wrong.                                         *)

LEMMA CommandInit == Init => CommandInv
BY TypeInit, QueueInitInv, CallInitInv DEF CommandInv

LEMMA CommandStep ==
  ASSUME CommandInv, [Next]_vars
  PROVE  CommandInv' /\ QueueStep
<1>1. TypeOK /\ QueueInv /\ CallInv /\ (current = NoJob => commands = <<>> /\ ~started)
  BY DEF CommandInv, QueueInv
<1>2. TypeOK' /\ QueueStep
  BY <1>1, TypeStep, StepClass
<1>3. QueueInv'
  BY <1>1, <1>2, QueueStepInv
<1> QED
  BY <1>1, <1>2, <1>3, CallStepInv DEF CommandInv

\* In every state the variables have their types, the queue has its shape and
\* callbacks and timers belong to the commands they should: addCommand,
\* handlePacket, Command.execute, _notifyError and the timeouts keep it so.
THEOREM CommandInvHolds == Spec => []CommandInv
<1>1. Init => CommandInv
  BY CommandInit
<1>2. CommandInv /\ [Next]_vars => CommandInv'
  BY CommandStep
<1> QED
  BY <1>1, <1>2, PTL DEF Spec

\* An Execute that has been started has the statement that its Prepare has got
\* (Execute.start reads this.statement.id).
THEOREM StatementReadyHolds == Spec => []StatementReady
<1>1. CommandInv => StatementReady
  <2> SUFFICES ASSUME CommandInv, NEW k \in Executes, current = Job(k, "run")
               PROVE  prepared[k] = "ok"
    BY DEF StatementReady
  <2>1. current.cmd = k /\ current.step = "run"
    BY KindsAssumption, JobFacts DEF Names
  <2> QED
    BY <2>1 DEF CommandInv, QueueInv
<1> QED
  BY <1>1, CommandInvHolds, PTL

\* A query without a timeout has its callback called once at most: by Query.done,
\* by Command.execute, by _notifyError or by _addCommandClosedState.
THEOREM QueryCalledOnceHolds == Spec => []QueryCalledOnce
<1>1. CommandInv => QueryCalledOnce
  BY DEF CommandInv, CallInv, QueryCalledOnce
<1> QED
  BY <1>1, CommandInvHolds, PTL

LEMMA LossSurfacesStep ==
  ASSUME CommandInv, [Next]_vars, ~Lost, Lost',
         NEW j \in Elems(Pending) \ Elems(Pending')
  PROVE  j.cmd = Handshake \/ emitted' \/ calls'[j.cmd] > calls[j.cmd]
<1>1. TypeOK /\ QueueInv /\ CallInv /\ QueueStep
  BY CommandStep DEF CommandInv
<1>2. CASE UNCHANGED LossVars
  BY <1>2 DEF LossVars, Lost
<1>3. CASE Rests
  BY <1>3, PendingSame DEF Rests, queueVars
<1>4. ASSUME NEW js \in {Pending, commands}, Fails(js)
      PROVE  j.cmd = Handshake \/ emitted' \/ calls'[j.cmd] > calls[j.cmd]
  <2>1. /\ Pending \in Seq(Jobs) /\ current \in Jobs \union {NoJob} /\ commands \in Seq(Jobs)
    BY <1>1, PendingFacts DEF TypeOK
  <2>2. j \in Jobs /\ j.cmd \in Names /\ j.cmd \in CmdsOf(Pending)
    BY <2>1, CmdsOfFacts, JobFacts DEF Elems
  <2>3. CASE j.cmd \in Silent
    <3>1. ~HasResult(j) /\ j.cmd # Handshake
      <4>1. j.step = "run"
        <5>1. j.step = "prepare" => j.cmd \in Executes
          BY <1>1 DEF QueueInv, Shape, Elems
        <5> QED
          BY <2>2, <2>3, <5>1, JobFacts, KindsAssumption
      <4>2. j.cmd # Handshake
        BY <2>3, NamesDiffer, KindsAssumption
      <4> QED
        BY <2>3, <4>1, <4>2 DEF HasResult
    <3>2. j = current \/ j \in Elems(commands)
      BY <2>1, PendingFacts
    <3>3. Bubbles
      BY <3>1, <3>2 DEF Bubbles
    <3> QED
      BY <1>4, <3>3 DEF Fails
  <2>4. CASE j.cmd \in (Cmds \union {Quit}) \ Silent
    BY <1>1, <1>4, <2>2, <2>4, FailsCalls
  <2> QED
    BY <2>2, <2>3, <2>4 DEF Names
<1> QED
  BY <1>1, <1>2, <1>3, <1>4
  DEF QueueStep, TimesOut, Ticks, Queues, Refuses, Finishing, FinishLogin, FinishPrepare,
      FinishRun, FinishErr, FinishRow, Finishes

\* A command that a lost connection drops has its callback called, or the
\* connection emits 'error': _notifyError tells the application one or the other.
THEOREM LossSurfacesHolds == Spec => LossSurfaces
<1>1. CommandInv /\ [Next]_vars =>
        [~Lost /\ Lost' =>
           \A j \in Elems(Pending) \ Elems(Pending') :
              j.cmd = Handshake \/ emitted' \/ calls'[j.cmd] > calls[j.cmd]]_vars
  BY LossSurfacesStep
<1> QED
  BY <1>1, CommandInvHolds, PTL DEF Spec, LossSurfaces

-----------------------------------------------------------------------------
(***************************************************************************)
(* The order of requests, replies and callbacks, from the rest of the      *)
(* inductive invariant: packets belong to the active command, no call is   *)
(* forgotten, and callbacks come in the order of the calls.                *)
(***************************************************************************)

-----------------------------------------------------------------------------
(* The Nothing that starts a command.                                      *)

\* Steps that hold no packet.
LEMMA NothingKept ==
  ASSUME NothingInv, held' = held, Nothing \notin Elems(chunk'),
         paused => /\ paused' /\ (started' => started)
                   /\ accepting' => accepting /\ (current # NoJob => current' # NoJob)
  PROVE  NothingInv'
BY DEF NothingInv

LEMMA NothingTail ==
  ASSUME TypeOK, NothingInv, chunk # <<>>
  PROVE  /\ Nothing \notin Elems(Tail(chunk)) /\ Head(chunk) # Nothing
         /\ Head(chunk) \in Packets /\ Tail(chunk) \in Seq(Packets)
<1>1. chunk \in Seq(Packets)
  BY DEF TypeOK
<1> QED
  BY <1>1, TailFacts DEF NothingInv

\* notifyError starts no command and takes no more.
LEMMA NotifyNothing ==
  ASSUME NEW s, notifyError(s)
  PROVE  (started' => started) /\ accepting' = FALSE
BY DEF notifyError, queueVars

LEMMA DeliverNothing ==
  ASSUME TypeOK, NothingInv, Deliver
  PROVE  NothingInv'
<1> USE DEF queueVars, resultVars, endVars
<1>1. chunk # <<>> /\ chunk' = Tail(chunk)
  BY DEF Deliver
<1>2. Nothing \notin Elems(chunk') /\ Head(chunk) # Nothing
  BY <1>1, NothingTail
<1>3. CASE Hold
  <2> DEFINE p == Head(chunk)
  <2>1. p \in Packets /\ p # Nothing /\ held \in Seq(Packets) /\ held' = Append(held, p)
    BY <1>1, <1>3, NothingTail DEF Hold, TypeOK
  <2> HIDE DEF p
  <2>2. /\ Elems(held') = Elems(held) \union {p}
        /\ DOMAIN held' = 1 .. Len(held) + 1 /\ DOMAIN held = 1 .. Len(held)
        /\ \A i \in 1 .. Len(held) : held'[i] = held[i]
        /\ held'[Len(held) + 1] = p /\ Len(held) \in Nat
    BY <2>1, AppendFacts
  <2>3. \A i \in DOMAIN held' : held'[i] = Nothing => i \in DOMAIN held /\ held[i] = Nothing
    BY <2>1, <2>2
  <2>4. Nothing \in Elems(held') => Nothing \in Elems(held)
    BY <2>1, <2>2
  <2>5. UNCHANGED <<paused, started, accepting, current>>
    BY <1>3 DEF Hold
  <2> QED
    BY <1>2, <2>3, <2>4, <2>5 DEF NothingInv
<1>4. CASE ~Hold
  <2>1. held' = held /\ ~paused
    <3>1. CASE Discard
      BY <3>1 DEF Discard, Unexpected
    <3>2. CASE Ignore
      BY <3>2 DEF Ignore
    <3>3. CASE HandlePart
      BY <3>3 DEF HandlePart, Handling, Part
    <3>4. CASE HandleGiveUp
      BY <3>4 DEF HandleGiveUp, Handling, GiveUpLogin, HandshakeError
    <3>5. CASE HandleThrow
      BY <3>5 DEF HandleThrow, Handling, HandlerThrows
    <3>6. CASE HandleRow
      BY <3>6 DEF HandleRow, Handling, RowThrows
    <3>7. CASE HandleLogin \/ HandlePrepared \/ HandleDone \/ HandleErr
      BY <3>7 DEF HandleLogin, HandlePrepared, HandleDone, HandleErr, Handling, SameFlags
    <3>8. CASE HandleRefusal
      BY <3>8 DEF HandleRefusal, Handling, HandshakeError
    <3> QED
      BY <1>4, <3>1, <3>2, <3>3, <3>4, <3>5, <3>6, <3>7, <3>8, DeliverCases
  <2> QED
    BY <1>2, <2>1, NothingKept
<1> QED
  BY <1>3, <1>4

-----------------------------------------------------------------------------
(* What the server sends.                                                  *)

LEMMA DataFacts ==
  ASSUME TypeOK, NEW n \in 0 .. MaxParts, NEW last \in {"none", "ok", "err"}, Data(n, last)
  PROVE  /\ chunk' \in Seq(Packets)
         /\ \A i \in 1 .. Len(chunk') :
              /\ chunk'[i].job = asked /\ chunk'[i] \in Packets
              /\ \/ chunk'[i].kind = "part"
                 \/ i = Len(chunk') /\ chunk'[i].kind = last /\ last # "none"
         /\ \A x \in Elems(chunk') : x.job = asked /\ x.kind \in {"part", last}
<1> DEFINE s == Parts(asked, n)
           t == IF last = "none" THEN <<>> ELSE <<Packet(asked, last)>>
<1>1. n \in Nat /\ asked \in Jobs \union {NoJob} /\ chunk' = s \o t
  BY PartsAssumption DEF TypeOK, Data
<1>2. /\ s \in Seq(Packets) /\ Len(s) = n
      /\ \A i \in 1 .. n : s[i].job = asked /\ s[i].kind = "part" /\ s[i] \in Packets
  <2> DEFINE p == Packet(asked, "part")
  <2>1. p \in Packets /\ p.job = asked /\ p.kind = "part"
    BY <1>1, PacketFacts
  <2>2. s = [i \in 1 .. n |-> p]
    BY DEF Parts
  <2> HIDE DEF p, s
  <2> QED
    BY <1>1, <2>1, <2>2
<1>3. /\ t \in Seq(Packets) /\ Len(t) = IF last = "none" THEN 0 ELSE 1
      /\ last # "none" => t[1].job = asked /\ t[1].kind = last /\ t[1] \in Packets
  <2> DEFINE p == Packet(asked, last)
  <2>1. last # "none" => p \in Packets /\ p.job = asked /\ p.kind = last
    BY <1>1, PacketFacts
  <2>2. t = IF last = "none" THEN <<>> ELSE <<p>>
    OBVIOUS
  <2> HIDE DEF p, t
  <2>3. CASE last = "none"
    BY <2>2, <2>3
  <2>4. CASE last # "none"
    BY <2>1, <2>2, <2>4
  <2> QED
    BY <2>3, <2>4
<1> HIDE DEF s, t
<1>4. /\ chunk' \in Seq(Packets) /\ Len(chunk') = Len(s) + Len(t)
      /\ DOMAIN chunk' = 1 .. Len(s) + Len(t)
      /\ \A i \in 1 .. Len(s) : chunk'[i] = s[i]
      /\ \A i \in 1 .. Len(t) : chunk'[i + Len(s)] = t[i]
  BY <1>1, <1>2, <1>3, ConcatFacts
<1>5. ASSUME NEW i \in 1 .. Len(chunk')
      PROVE  /\ chunk'[i].job = asked /\ chunk'[i] \in Packets
             /\ \/ chunk'[i].kind = "part"
                \/ i = Len(chunk') /\ chunk'[i].kind = last /\ last # "none"
  <2>1. CASE i <= n
    BY <1>1, <1>2, <1>4, <2>1
  <2>2. CASE ~(i <= n)
    <3>1. last # "none" /\ i = 1 + n /\ i = Len(chunk') /\ 1 \in 1 .. Len(t) /\ n = Len(s)
      BY <1>1, <1>2, <1>3, <1>4, <2>2
    <3>2. chunk'[i] = t[1]
      BY <1>4, <3>1
    <3> QED
      BY <1>3, <3>1, <3>2
  <2> QED
    BY <2>1, <2>2
<1>6. \A x \in Elems(chunk') : x.job = asked /\ x.kind \in {"part", last}
  BY <1>4, <1>5 DEF Elems
<1> QED
  BY <1>4, <1>5, <1>6

-----------------------------------------------------------------------------
(* What a call of the application does to the packets.                     *)

Adds ==
    /\ UNCHANGED <<chunk, paused, gone, connected, ticks, fatal, protoErr, stream, destroyed>>
    /\ accepting' => accepting
    /\ ~accepting => UNCHANGED <<current, started, commands, held, asked>>
    /\ \/ UNCHANGED <<current, started, held, asked>>
       \/ /\ current = NoJob /\ accepting /\ current' \in Jobs /\ current'.cmd # Handshake
          /\ \/ paused /\ held' = Append(held, Nothing) /\ ~started' /\ asked' = asked
             \/ /\ ~paused /\ held' = held
                /\ \/ fatal /\ asked' = asked
                   \/ started' /\ asked' \in {asked, IF gone THEN NoJob ELSE current'}

LEMMA IssueAdds ==
  ASSUME TypeOK, NEW k \in Cmds, Issue(k)
  PROVE  Adds /\ UNCHANGED <<closing, accepting>>
<1> USE DEF queueVars
<1>1. /\ UNCHANGED <<chunk, paused, gone, connected, ticks, fatal, protoErr, stream,
                     destroyed, closing, accepting>>
  BY DEF Issue
<1>2. ASSUME NEW j \in Jobs, j.cmd # Handshake, NEW more, accepting, addCommand(j, more)
      PROVE  \/ UNCHANGED <<current, started, held, asked>>
             \/ /\ current = NoJob /\ current' \in Jobs /\ current'.cmd # Handshake
                /\ \/ paused /\ held' = Append(held, Nothing) /\ ~started' /\ asked' = asked
                   \/ /\ ~paused /\ held' = held
                      /\ \/ fatal /\ asked' = asked
                         \/ started' /\ asked' \in {asked, IF gone THEN NoJob ELSE current'}
  <2>1. CASE current # NoJob
    BY <1>2, <2>1 DEF addCommand
  <2>2. CASE current = NoJob /\ (paused \/ fatal)
    <3>1. current' = j /\ started' = FALSE /\ asked' = asked
          /\ held' = IF paused THEN Append(held, Nothing) ELSE held
      BY <1>2, <2>2 DEF addCommand
    <3> QED
      BY <1>2, <2>2, <3>1
  <2>3. CASE current = NoJob /\ ~paused /\ ~fatal
    <3>1. current' = j /\ started' = TRUE /\ held' = held /\ Start(j, timer)
      BY <1>2, <2>3 DEF addCommand
    <3>2. asked' = asked \/ asked' = (IF gone THEN NoJob ELSE j)
      BY <3>1 DEF Start
    <3> QED
      BY <1>2, <2>3, <3>1, <3>2
  <2> QED
    BY <2>1, <2>2, <2>3
<1>3. \A x \in {"prepare", "run"} : Job(k, x) \in Jobs /\ Job(k, x).cmd # Handshake
  BY JobFacts, NamesDiffer DEF Names
<1>4. CASE accepting
  <2>1. (\E more : addCommand(Job(k, "run"), more)) \/ \E more : addCommand(Job(k, "prepare"), more)
    BY <1>4 DEF Issue, query, execute
  <2> QED
    BY <1>1, <1>2, <1>3, <1>4, <2>1 DEF Adds
<1>5. CASE ~accepting
  <2>1. UNCHANGED <<current, started, commands, held, asked>>
    BY <1>5 DEF Issue, query, execute, addCommandClosedState
  <2> QED
    BY <1>1, <1>5, <2>1 DEF Adds
<1> QED
  BY <1>4, <1>5

LEMMA EndAdds ==
  ASSUME TypeOK, current = NoJob => commands = <<>> /\ ~started, End
  PROVE  /\ Adds /\ accepting' = FALSE
         /\ \/ closing' = closing
            \/ closing' = TRUE /\ UNCHANGED queueVars /\ current = NoJob
<1> USE DEF queueVars, loginVars, serverVars
<1>1. /\ UNCHANGED <<chunk, paused, gone, connected, ticks, fatal, protoErr, stream,
                     destroyed, asked>>
      /\ accepting' = FALSE
  BY DEF End
<1>2. Job(Quit, "run") \in Jobs /\ Job(Quit, "run").cmd # Handshake
  BY JobFacts, NamesDiffer DEF Names
<1>3. CASE accepting /\ current = NoJob /\ ~paused /\ ~fatal
  <2>1. UNCHANGED <<current, started, held>> /\ closing' = TRUE /\ UNCHANGED queueVars
    BY <1>3 DEF End, StartQuit
  <2> QED
    BY <1>1, <1>3, <2>1 DEF Adds
<1>4. CASE accepting /\ current # NoJob
  <2>1. UNCHANGED <<current, started, held, closing>>
    BY <1>4 DEF End
  <2> QED
    BY <1>1, <1>4, <2>1 DEF Adds
<1>5. CASE accepting /\ current = NoJob /\ (paused \/ fatal)
  <2>1. /\ current' = Job(Quit, "run") /\ UNCHANGED <<started, closing>>
        /\ held' = IF paused THEN Append(held, Nothing) ELSE held
    BY <1>5 DEF End
  <2> QED
    BY <1>1, <1>2, <1>5, <2>1 DEF Adds
<1>6. CASE ~accepting
  <2>1. UNCHANGED <<current, started, commands, held, closing>>
    BY <1>6 DEF End
  <2> QED
    BY <1>1, <1>6, <2>1 DEF Adds
<1> QED
  BY <1>3, <1>4, <1>5, <1>6

LEMMA AddsNothing ==
  ASSUME TypeOK, NothingInv, Adds
  PROVE  NothingInv'
<1>1. CASE UNCHANGED <<current, started, held, asked>>
  BY <1>1 DEF Adds, NothingInv
<1>2. CASE current = NoJob /\ accepting /\ ~paused /\ held' = held
  BY <1>2 DEF Adds, NothingInv
<1>3. CASE /\ current = NoJob /\ accepting /\ paused /\ held' = Append(held, Nothing)
           /\ current' \in Jobs /\ ~started'
  <2>1. Nothing \notin Elems(held)
    BY <1>3 DEF NothingInv
  <2>2. held \in Seq(Packets) /\ Nothing \in Packets
    BY PacketFacts DEF TypeOK
  <2>3. /\ DOMAIN held' = 1 .. Len(held) + 1 /\ Len(held) \in Nat
        /\ \A i \in 1 .. Len(held) : held'[i] = held[i] /\ held[i] # Nothing
    <3>1. /\ DOMAIN held' = 1 .. Len(held) + 1 /\ Len(held) \in Nat
          /\ \A i \in 1 .. Len(held) : held'[i] = held[i]
      BY <1>3, <2>2, AppendFacts
    <3> QED
      BY <2>1, <2>2, <3>1 DEF Elems
  <2>4. \A i, j \in DOMAIN held' : held'[i] = Nothing /\ held'[j] = Nothing => i = j
    BY <2>3
  <2>5. current' # NoJob /\ paused' /\ chunk' = chunk
    BY <1>3, JobFacts DEF Adds
  <2> QED
    BY <1>3, <2>4, <2>5 DEF NothingInv
<1> QED
  BY <1>1, <1>2, <1>3 DEF Adds

LEMMA ResumeNothing ==
  ASSUME TypeOK, NothingInv, Resume
  PROVE  NothingInv'
<1>1. PICK n \in 0 .. Len(held) :
           /\ \A i \in 1 .. n : held[i] # Nothing
           /\ n < Len(held) => held[n + 1] = Nothing
           /\ chunk' \in Seq(Packets) /\ held' \in Seq(Packets)
           /\ Len(chunk') = n + Len(chunk)
           /\ \A i \in 1 .. n : chunk'[i] = held[i]
           /\ \A i \in 1 .. Len(chunk) : chunk'[i + n] = chunk[i]
           /\ Len(held') = IF n < Len(held) THEN Len(held) - (n + 1) ELSE 0
           /\ \A i \in 1 .. Len(held') : held'[i] = held[i + (n + 1)]
  BY ResumeFacts
<1>2. /\ held \in Seq(Packets) /\ chunk \in Seq(Packets) /\ Len(held) \in Nat
      /\ Len(chunk) \in Nat /\ DOMAIN held = 1 .. Len(held) /\ DOMAIN chunk = 1 .. Len(chunk)
      /\ DOMAIN held' = 1 .. Len(held') /\ DOMAIN chunk' = 1 .. Len(chunk')
  BY <1>1 DEF TypeOK
<1>3. \A i \in DOMAIN chunk' : chunk'[i] # Nothing
  <2> SUFFICES ASSUME NEW i \in 1 .. n + Len(chunk) PROVE chunk'[i] # Nothing
    BY <1>1, <1>2
  <2>0. i \in Nat /\ i >= 1 /\ n \in Nat
    BY <1>2
  <2>1. CASE i <= n
    <3>1. i \in 1 .. n
      BY <2>0, <2>1
    <3> QED
      BY <1>1, <3>1
  <2>2. CASE i > n
    <3>1. i - n \in 1 .. Len(chunk) /\ (i - n) + n = i
      BY <1>2, <2>2
    <3>2. chunk'[i] = chunk[i - n]
      BY <1>1, <3>1
    <3>3. chunk[i - n] \in Elems(chunk)
      BY <1>2, <3>1 DEF Elems
    <3> QED
      BY <3>2, <3>3 DEF NothingInv
  <2> QED
    BY <2>0, <2>1, <2>2
<1>4. \A i \in DOMAIN held' : held'[i] # Nothing
  <2> SUFFICES ASSUME NEW i \in 1 .. Len(held') PROVE held'[i] # Nothing
    BY <1>2
  <2> DEFINE L == Len(held)
             M == Len(held')
  <2>3. L \in Nat /\ n \in 0 .. L /\ M = (IF n < L THEN L - (n + 1) ELSE 0) /\ i \in 1 .. M
    BY <1>1, <1>2
  <2>1. n < L /\ i + (n + 1) \in 1 .. L /\ n + 1 \in 1 .. L /\ i + (n + 1) # n + 1
    <3> HIDE DEF L, M
    <3> QED
      BY <2>3
  <2>2. held'[i] = held[i + (n + 1)] /\ held[n + 1] = Nothing
    BY <1>1, <2>1
  <2> QED
    BY <1>2, <2>1, <2>2 DEF NothingInv
<1> QED
  BY <1>3, <1>4 DEF NothingInv, Elems

LEMMA DataNothing ==
  ASSUME TypeOK, NothingInv,
         \/ \E n \in 0 .. MaxParts, last \in {"none", "ok", "err"} : Data(n, last)
         \/ Farewell
  PROVE  NothingInv'
<1>1. ~paused /\ held' = held
  BY DEF Data, Farewell
<1>2. Nothing \notin Elems(chunk')
  <2>1. ASSUME NEW n \in 0 .. MaxParts, NEW last \in {"none", "ok", "err"}, Data(n, last)
        PROVE  Nothing \notin Elems(chunk')
    <3>1. \A x \in Elems(chunk') : x.job = asked
      BY <2>1, DataFacts
    <3>2. asked # NoJob
      BY <2>1 DEF Data
    <3> QED
      BY <3>1, <3>2, PacketFacts
  <2>2. CASE Farewell
    <3> DEFINE p == Packet(NoJob, "err")
    <3>1. chunk' = <<p>> /\ p.kind = "err"
      BY <2>2 DEF Farewell, Packet
    <3>2. p # Nothing
      BY <3>1, PacketFacts
    <3> QED
      BY <3>1, <3>2 DEF Elems
  <2> QED
    BY <2>1, <2>2
<1> QED
  BY <1>1, <1>2, NothingKept

LEMMA NothingStep ==
  ASSUME CommandInv, NothingInv, [Next]_vars
  PROVE  NothingInv'
<1> USE DEF queueVars, flowVars, endVars, loginVars, serverVars
<1>1. TypeOK /\ (current = NoJob => commands = <<>> /\ ~started)
  BY DEF CommandInv, QueueInv
<1>2. Nothing \notin Elems(chunk)
  BY DEF NothingInv
<1>3. ASSUME NEW k \in Cmds, Issue(k) PROVE NothingInv'
  BY <1>1, <1>3, IssueAdds, AddsNothing
<1>4. CASE End
  BY <1>1, <1>4, EndAdds, AddsNothing
<1>5. ASSUME NEW k \in Cmds, QueryTimeout(k) PROVE NothingInv'
  BY <1>2, <1>5, NothingKept DEF QueryTimeout
<1>6. CASE Destroy \/ Pause \/ Connect \/ RunTick \/ UNCHANGED vars
  BY <1>2, <1>6, NothingKept DEF Destroy, close, Pause, Connect, RunTick, vars
<1>7. CASE Resume
  BY <1>1, <1>7, ResumeNothing
<1>8. CASE Deliver
  BY <1>1, <1>8, DeliverNothing
<1>9. CASE ConnectTimeout \/ StreamClose \/ \E reset \in BOOLEAN : StreamError(reset)
  <2>1. UNCHANGED flowVars
    BY <1>9 DEF ConnectTimeout, StreamClose, StreamError
  <2>2. (\E s : notifyError(s)) \/ UNCHANGED <<queueVars, accepting>>
    BY <1>9 DEF ConnectTimeout, StreamClose, StreamError, handleFatalError
  <2>3. CASE \E s : notifyError(s)
    BY <1>2, <2>1, <2>3, NothingKept, NotifyNothing
  <2>4. CASE UNCHANGED <<queueVars, accepting>>
    BY <1>2, <2>1, <2>4, NothingKept
  <2> QED
    BY <2>2, <2>3, <2>4
<1>10. CASE \/ \E n \in 0 .. MaxParts, last \in {"none", "ok", "err"} : Data(n, last)
            \/ Farewell
  BY <1>1, <1>10, DataNothing
<1> QED
  BY <1>3, <1>4, <1>5, <1>6, <1>7, <1>8, <1>9, <1>10 DEF Next

LEMMA NothingInit == Init => NothingInv
BY DEF Init, NothingInv, Elems

-----------------------------------------------------------------------------
(* What the flags say of each other.                                       *)

\* The last part of CloseInv: a connection that is closing has no command left
\* that has to be called back.
Idle == ~accepting /\ commands = <<>> /\ (current = NoJob \/ ~HasResult(current))
MustBeIdle ==
    /\ closing /\ ~destroyed
    /\ connected \/ "login" \notin Faults \/ current.cmd = Handshake

LEMMA CloseParts ==
  CloseInv <=> /\ fatal \/ protoErr => closing
               /\ stream # "open" => closing
               /\ gone => asked = NoJob /\ (closing \/ connected)
               /\ MustBeIdle => Idle
BY DEF CloseInv, MustBeIdle, Idle

\* Steps that neither close the connection nor start a command.
LEMMA CloseKept ==
  ASSUME CloseInv, UNCHANGED <<closing, destroyed, fatal, protoErr, stream, gone>>,
         asked' = asked \/ (asked' # NoJob => ~gone),
         connected' = connected \/ (connected' /\ current.cmd = Handshake),
         current'.cmd = Handshake => current.cmd = Handshake,
         Idle => Idle'
  PROVE  CloseInv'
<1>1. MustBeIdle' => MustBeIdle
  BY DEF MustBeIdle
<1>2. MustBeIdle' => Idle'
  BY <1>1, CloseParts
<1> QED
  BY <1>2, CloseParts DEF CloseInv, MustBeIdle, Idle

\* Steps that close the connection.
LEMMA CloseIdle ==
  ASSUME closing', Idle' \/ destroyed', gone' => asked' = NoJob
  PROVE  CloseInv'
BY DEF CloseInv, Idle

LEMMA NotifyClose ==
  ASSUME TypeOK, CloseInv, NEW s \in {"open", "ended", "closed"}, notifyError(s),
         UNCHANGED <<destroyed, connected>>, gone' /\ asked' = NoJob
  PROVE  CloseInv'
<1>1. CASE fatal
  <2>1. /\ UNCHANGED <<current, commands, closing>> /\ accepting' = FALSE /\ closing
    BY <1>1 DEF notifyError, queueVars, CloseInv
  <2>2. MustBeIdle' => Idle'
    <3>1. MustBeIdle' => MustBeIdle
      BY <2>1 DEF MustBeIdle
    <3> QED
      BY <2>1, <3>1, CloseParts DEF Idle, HasResult
  <2> QED
    BY <2>1, <2>2 DEF CloseInv, MustBeIdle, Idle
<1>2. CASE ~fatal
  <2>1. /\ closing' = TRUE /\ accepting' = FALSE /\ commands' = <<>>
        /\ \/ current' = NoJob
           \/ current' = current /\ ~HasResult(current)
    BY <1>2 DEF notifyError
  <2>2. Idle'
    BY <2>1 DEF Idle, HasResult
  <2> QED
    BY <2>1, <2>2, CloseIdle
<1> QED
  BY <1>1, <1>2

LEMMA AddsClose ==
  ASSUME TypeOK, QueueInv, CloseInv, Adds,
         \/ closing' = closing
         \/ /\ closing' = TRUE /\ UNCHANGED queueVars /\ current = NoJob /\ accepting' = FALSE
  PROVE  CloseInv'
<1>1. /\ UNCHANGED <<destroyed, fatal, protoErr, stream, gone, connected>>
      /\ accepting' => accepting
      /\ ~accepting => UNCHANGED <<current, started, commands, held, asked>>
  BY DEF Adds
<1>2. asked' = asked \/ (asked' # NoJob => ~gone)
  BY DEF Adds
<1>3. current'.cmd = Handshake => current.cmd = Handshake
  BY DEF Adds
<1>4. CASE closing' = closing
  <2>1. Idle => Idle'
    BY <1>1 DEF Idle, HasResult
  <2> QED
    BY <1>1, <1>2, <1>3, <1>4, <2>1, CloseKept
<1>5. CASE closing' = TRUE /\ UNCHANGED queueVars /\ current = NoJob /\ accepting' = FALSE
  <2>1. Idle'
    BY <1>5 DEF Idle, HasResult, QueueInv, queueVars
  <2>2. gone' => asked' = NoJob
    BY <1>1, <1>2 DEF CloseInv
  <2> QED
    BY <1>5, <2>1, <2>2, CloseIdle
<1> QED
  BY <1>4, <1>5

LEMMA FinishClose ==
  ASSUME TypeOK, QueueInv, CloseInv, NEW m \in 1 .. Len(Pending), Finishing(m),
         UNCHANGED <<destroyed, stream, gone>>,
         connected' = connected \/ (connected' /\ current.cmd = Handshake)
  PROVE  CloseInv'
<1>1. PICK prep, cl, tm : /\ current # NoJob /\ Popped(m) /\ Moved(m, prep, cl, tm)
                          /\ UNCHANGED <<issued, accepting, fatal, protoErr>>
  BY DEF Finishing, FinishLogin, FinishPrepare, FinishRun, FinishErr, FinishRow, Finishes,
         LossVars
<1>2. /\ current' = NoJob => commands' = <<>>
      /\ current' # NoJob => current'.cmd # Handshake /\ m < Len(Pending)
      /\ Len(Pending) \in Nat
  BY <1>1, PopFacts
<1>3. asked' = asked \/ (asked' # NoJob => ~gone)
  BY <1>1 DEF Moved
<1>4. current'.cmd # Handshake
  BY <1>2, JobFacts, NamesDiffer
<1>5. CASE closing' = closing
  <2>1. Idle => Idle'
    <3> SUFFICES ASSUME Idle PROVE Idle'
      OBVIOUS
    <3>1. Len(Pending) = 1
      BY <1>1, PendingFacts DEF TypeOK, Idle
    <3>2. current' = NoJob
      BY <1>2, <3>1
    <3> QED
      BY <1>1, <1>2, <3>2 DEF Idle
  <2> QED
    BY <1>1, <1>3, <1>4, <1>5, <2>1, CloseKept
<1>6. CASE closing' # closing
  <2>1. closing' = TRUE /\ m = Len(Pending) /\ \E i \in 2 .. m : Pending[i].cmd = Quit
    BY <1>1, <1>6 DEF Moved
  <2>2. Quit \in CmdsOf(Pending)
    <3>1. \A i \in 2 .. m : i \in DOMAIN Pending
      BY <1>2, PendingFacts DEF TypeOK
    <3> QED
      BY <2>1, <3>1 DEF CmdsOf
  <2>3. ~accepting
    BY <2>2, NamesDiffer DEF QueueInv
  <2>4. Idle'
    BY <1>1, <1>2, <2>1, <2>3 DEF Idle
  <2>5. gone' => asked' = NoJob
    BY <1>3 DEF CloseInv
  <2> QED
    BY <2>1, <2>4, <2>5, CloseIdle
<1> QED
  BY <1>5, <1>6

-----------------------------------------------------------------------------
(* The packet that is being handled.                                       *)

LEMMA TransitFacts ==
  ASSUME TypeOK
  PROVE  /\ Transit \in Seq(Packets) /\ Len(Transit) = Len(held) + Len(chunk)
         /\ Len(held) \in Nat /\ Len(chunk) \in Nat
         /\ DOMAIN Transit = 1 .. Len(held) + Len(chunk)
         /\ DOMAIN held = 1 .. Len(held) /\ DOMAIN chunk = 1 .. Len(chunk)
         /\ \A i \in 1 .. Len(held) : Transit[i] = held[i]
         /\ \A i \in 1 .. Len(chunk) : Transit[i + Len(held)] = chunk[i]
         /\ InTransit = Elems(held) \union Elems(chunk)
         /\ InTransit \subseteq Packets
<1>1. held \in Seq(Packets) /\ chunk \in Seq(Packets)
  BY DEF TypeOK
<1>2. /\ Transit \in Seq(Packets) /\ Len(Transit) = Len(held) + Len(chunk)
      /\ DOMAIN Transit = 1 .. Len(held) + Len(chunk)
      /\ \A i \in 1 .. Len(held) : Transit[i] = held[i]
      /\ \A i \in 1 .. Len(chunk) : Transit[i + Len(held)] = chunk[i]
      /\ InTransit = Elems(held) \union Elems(chunk)
  BY <1>1, ConcatFacts DEF Transit, InTransit
<1>3. Elems(held) \subseteq Packets /\ Elems(chunk) \subseteq Packets
  BY <1>1 DEF Elems
<1> QED
  BY <1>1, <1>2, <1>3

\* Unless the connection is paused, nothing is held when a packet is handled or
\* when data comes.
LEMMA HeldEmpty ==
  ASSUME TypeOK, NothingInv, ReplyInv, ~paused, chunk # <<>> \/ ~gone
  PROVE  held = <<>>
<1> DEFINE T == Transit
<1>1. /\ held \in Seq(Packets) /\ Len(held) \in Nat /\ Len(chunk) \in Nat
      /\ DOMAIN T = 1 .. Len(held) + Len(chunk) /\ DOMAIN held = 1 .. Len(held)
      /\ \A i \in 1 .. Len(held) : T[i] = held[i]
      /\ \A i \in 1 .. Len(chunk) : T[i + Len(held)] = chunk[i]
      /\ chunk \in Seq(Packets)
  BY TransitFacts DEF TypeOK
<1> SUFFICES ASSUME held # <<>> PROVE FALSE
  OBVIOUS
<1>2. 1 \in 1 .. Len(held) /\ held[1] \in Elems(held) /\ T[1] = held[1] /\ 1 \in DOMAIN T
  BY <1>1 DEF Elems
<1>3. IsFarewell(T[1])
  BY <1>2 DEF NothingInv, ReplyInv, IsReply, IsFarewell
<1>4. gone /\ \A j \in DOMAIN T : j # 1 => T[j] = Nothing
  BY <1>2, <1>3 DEF ReplyInv
<1>5. chunk # <<>>
  BY <1>4
<1>6. 1 \in 1 .. Len(chunk) /\ 1 + Len(held) \in DOMAIN T /\ 1 + Len(held) # 1
  BY <1>1, <1>2, <1>5
<1>7. chunk[1] = Nothing
  BY <1>1, <1>4, <1>6
<1> QED
  BY <1>1, <1>6, <1>7 DEF NothingInv, Elems

\* The packet that ends a reply, or an ERR that answers nothing, comes last.
LEMMA LastPacket ==
  ASSUME TypeOK, NothingInv, ReplyInv, ~paused, chunk # <<>>, Head(chunk).kind # "part"
  PROVE  held = <<>> /\ Tail(chunk) = <<>> /\ (InOrderReplies => asked = NoJob)
<1> DEFINE T == Transit
<1>0. held = <<>>
  BY HeldEmpty
<1>1. /\ Len(chunk) \in Nat /\ Len(held) = 0
      /\ DOMAIN T = 1 .. Len(held) + Len(chunk)
      /\ \A i \in 1 .. Len(chunk) : T[i + Len(held)] = chunk[i]
      /\ chunk \in Seq(Packets)
  BY <1>0, TransitFacts DEF TypeOK
<1>2. /\ Head(chunk) = chunk[1] /\ Len(chunk) >= 1 /\ Tail(chunk) \in Seq(Packets)
      /\ Len(Tail(chunk)) = Len(chunk) - 1
  BY <1>1, TailFacts
<1>3. DOMAIN T = 1 .. Len(chunk) /\ \A i \in 1 .. Len(chunk) : T[i] = chunk[i] /\ chunk[i] # Nothing
  <2>1. DOMAIN T = 1 .. Len(chunk) /\ \A i \in 1 .. Len(chunk) : T[i] = chunk[i]
    <3>1. \A i \in 1 .. Len(chunk) : i + Len(held) = i
      BY <1>1
    <3> QED
      BY <1>1, <3>1
  <2> QED
    BY <1>1, <2>1 DEF NothingInv, Elems
<1>4. 1 \in DOMAIN T /\ T[1] # Nothing /\ T[1].kind # "part"
  BY <1>2, <1>3
<1>5. (InOrderReplies => asked = NoJob) /\ \A j \in DOMAIN T : j > 1 => T[j] = Nothing
  BY <1>4 DEF ReplyInv
<1>6. ~(Len(chunk) > 1)
  <2> SUFFICES ASSUME Len(chunk) > 1 PROVE FALSE
    OBVIOUS
  <2>1. 2 \in DOMAIN T /\ 2 \in 1 .. Len(chunk)
    BY <1>3
  <2> QED
    BY <1>3, <1>5, <2>1
<1>7. Tail(chunk) = <<>>
  BY <1>1, <1>2, <1>6
<1> QED
  BY <1>0, <1>5, <1>7

\* A refusal of the login answers the handshake, and only some servers do.
LEMMA RefusalFacts ==
  ASSUME CommandInv, NothingInv, SyncInv, HandleRefusal
  PROVE  /\ ~Lost /\ "login" \in Faults /\ ~connected
         /\ Head(chunk).job = current /\ held = <<>> /\ Tail(chunk) = <<>>
         /\ InOrderReplies => asked = NoJob
<1>1. /\ TypeOK /\ Handling /\ current.cmd = Handshake /\ ~connected /\ ~fatal /\ ~paused
      /\ chunk # <<>> /\ Head(chunk).kind = "err" /\ Head(chunk) # Nothing
  BY NothingTail DEF HandleRefusal, Handling, CommandInv, QueueInv
<1>2. Head(chunk) \in InTransit /\ Head(chunk) \in Packets
  <2>1. chunk \in Seq(Packets)
    BY <1>1 DEF TypeOK
  <2> QED
    BY <1>1, <2>1, TailFacts, TransitFacts
<1>3. ~protoErr
  BY <1>1, <1>2 DEF SyncInv, LostLogin
<1>4. ReplyInv
  BY <1>1, <1>3 DEF SyncInv, Lost
<1>5. IsReply(Head(chunk))
  <2> SUFFICES ASSUME ~IsReply(Head(chunk)) PROVE FALSE
    OBVIOUS
  <2>1. IsFarewell(Head(chunk))
    BY <1>1 DEF IsReply, IsFarewell
  <2>2. PICK i \in DOMAIN Transit : Transit[i] = Head(chunk)
    BY <1>2 DEF InTransit, Elems
  <2> QED
    BY <1>1, <1>4, <2>1, <2>2 DEF ReplyInv
<1>6. Head(chunk).job = current /\ "login" \in Faults
  BY <1>1, <1>2, <1>4, <1>5 DEF ReplyInv, Matched
<1>7. (InOrderReplies => asked = NoJob) /\ held = <<>> /\ Tail(chunk) = <<>>
  BY <1>1, <1>4, LastPacket
<1> QED
  BY <1>1, <1>3, <1>6, <1>7 DEF Lost

LEMMA HandleFinish ==
  ASSUME TypeOK, Handling, HandleRow \/ HandleLogin \/ HandlePrepared \/ HandleDone \/ HandleErr
  PROVE  /\ UNCHANGED <<issued, destroyed, stream, gone, paused, held, fatal, protoErr>>
         /\ connected' = connected \/ (connected' /\ current.cmd = Handshake)
         /\ chunk' = Tail(chunk)
         /\ \E m \in 1 .. Len(Pending) : Finishing(m)
<1>1. /\ UNCHANGED <<issued, destroyed, stream, gone, paused, held, fatal, protoErr>>
      /\ chunk' = Tail(chunk)
  BY DEF HandleRow, RowThrows, HandleLogin, HandlePrepared, HandleDone, HandleErr, Handling,
         SameFlags
<1>2. connected' = connected \/ (connected' /\ current.cmd = Handshake)
  BY DEF HandleRow, RowThrows, HandleLogin, HandshakeDone, HandlePrepared, prepareDone,
         HandleDone, done, HandleErr, loginVars
<1>3. \E m \in 1 .. Len(Pending) : Finishing(m)
  BY HandleStep DEF Finishing
<1> QED
  BY <1>1, <1>2, <1>3

LEMMA DeliverClose ==
  ASSUME CommandInv, NothingInv, SyncInv, Deliver
  PROVE  CloseInv'
<1> USE DEF queueVars, endVars, loginVars, serverVars
<1>1. TypeOK /\ QueueInv /\ CloseInv /\ (current = NoJob => commands = <<>> /\ ~started)
  BY DEF CommandInv, QueueInv, SyncInv
<1>2. CASE Hold \/ Ignore \/ HandlePart
  <2>1. /\ UNCHANGED <<queueVars, accepting, closing, destroyed, fatal, protoErr, stream>>
        /\ UNCHANGED <<gone, asked, connected>>
    BY <1>2 DEF Hold, Ignore, HandlePart, Handling, Part
  <2>2. Idle => Idle'
    BY <2>1 DEF Idle, HasResult
  <2> QED
    BY <1>1, <2>1, <2>2, CloseKept
<1>3. CASE Discard
  <2>1. closing' = TRUE /\ accepting' = FALSE /\ UNCHANGED <<queueVars, asked, gone>>
        /\ current = NoJob
    BY <1>3 DEF Discard, Unexpected, close
  <2>2. Idle'
    BY <1>1, <2>1 DEF Idle
  <2> QED
    BY <1>1, <2>1, <2>2, CloseIdle DEF CloseInv
<1>4. CASE HandleGiveUp
  <2>1. /\ closing' = TRUE /\ accepting' = FALSE /\ current' = NoJob /\ commands' = <<>>
        /\ UNCHANGED <<asked, gone>>
    BY <1>4 DEF HandleGiveUp, GiveUpLogin, HandshakeError
  <2>2. Idle'
    BY <2>1 DEF Idle
  <2> QED
    BY <1>1, <2>1, <2>2, CloseIdle DEF CloseInv
<1>5. CASE HandleThrow
  <2>1. /\ notifyError("ended") /\ gone' /\ asked' = NoJob /\ UNCHANGED destroyed
        /\ UNCHANGED connected
    BY <1>5 DEF HandleThrow, Handling, HandlerThrows, handleFatalError
  <2> QED
    BY <1>1, <2>1, NotifyClose
<1>6. CASE HandleRefusal
  <2>1. /\ closing' = TRUE /\ current' = NoJob /\ commands' = <<>>
        /\ UNCHANGED <<asked, gone, connected>>
    BY <1>6 DEF HandleRefusal, HandshakeError
  <2>2. "login" \in Faults /\ ~connected
    BY <1>6, RefusalFacts
  <2>3. ~MustBeIdle'
    BY <2>1, <2>2, JobFacts, NamesDiffer DEF MustBeIdle
  <2> QED
    BY <1>1, <2>1, <2>3 DEF CloseInv, MustBeIdle
<1>7. CASE HandleRow \/ HandleLogin \/ HandlePrepared \/ HandleDone \/ HandleErr
  <2>1. Handling
    BY <1>7 DEF HandleRow, HandleLogin, HandlePrepared, HandleDone, HandleErr
  <2> QED
    BY <1>1, <1>7, <2>1, HandleFinish, FinishClose
<1> QED
  BY <1>2, <1>3, <1>4, <1>5, <1>6, <1>7, DeliverCases

LEMMA SocketFacts ==
  ASSUME TypeOK, CloseInv, SocketStep
  PROVE  /\ Quiet /\ gone' = TRUE /\ asked' = NoJob
         /\ UNCHANGED <<timer, ticks, issued, flowVars, destroyed, connected>>
         /\ \/ /\ closing /\ closing' = closing
               /\ UNCHANGED <<queueVars, accepting, calls, prepared, fatal, protoErr>>
            \/ /\ \E s \in {"open", "ended", "closed"} : notifyError(s)
               /\ Lost' /\ (~fatal' => ~fatal /\ protoErr' /\ ~closing /\ (~paused \/ gone))
<1> USE DEF loginVars, flowVars, Lost
<1>1. CASE ConnectTimeout
  <2>1. \E s \in {"open", "ended", "closed"} : notifyError(s)
    BY <1>1 DEF ConnectTimeout, handleFatalError
  <2> QED
    BY <1>1, <2>1 DEF ConnectTimeout, handleFatalError
<1>2. CASE StreamClose
  <2>1. CASE closing
    BY <1>2, <2>1 DEF StreamClose
  <2>2. CASE ~closing
    <3>1. notifyError("closed") /\ ~fatal /\ protoErr' = TRUE /\ fatal' = fatal
      BY <1>2, <2>2 DEF StreamClose, CloseInv
    <3> QED
      BY <1>2, <2>2, <3>1 DEF StreamClose
  <2> QED
    BY <2>1, <2>2
<1>3. ASSUME NEW reset \in BOOLEAN, StreamError(reset)
      PROVE  /\ Quiet /\ gone' = TRUE /\ asked' = NoJob
             /\ UNCHANGED <<timer, ticks, issued, flowVars, destroyed, connected>>
             /\ \/ /\ closing /\ closing' = closing
                   /\ UNCHANGED <<queueVars, accepting, calls, prepared, fatal, protoErr>>
                \/ /\ \E s \in {"open", "ended", "closed"} : notifyError(s)
                   /\ Lost' /\ (~fatal' => ~fatal /\ protoErr' /\ ~closing /\ (~paused \/ gone))
  <2>1. CASE reset /\ closing
    BY <1>3, <2>1 DEF StreamError
  <2>2. CASE ~(reset /\ closing)
    <3>1. notifyError(stream) /\ fatal' = TRUE /\ stream \in {"open", "ended", "closed"}
      BY <1>3, <2>2 DEF StreamError, handleFatalError, TypeOK
    <3> QED
      BY <1>3, <3>1 DEF StreamError
  <2> QED
    BY <2>1, <2>2
<1> QED
  BY <1>1, <1>2, <1>3 DEF SocketStep

LEMMA CloseStep ==
  ASSUME CommandInv, NothingInv, SyncInv, [Next]_vars
  PROVE  CloseInv'
<1> USE DEF queueVars, endVars, loginVars, serverVars
<1>1. TypeOK /\ QueueInv /\ CloseInv /\ (current = NoJob => commands = <<>> /\ ~started)
  BY DEF CommandInv, QueueInv, SyncInv
<1>2. ASSUME NEW k \in Cmds, Issue(k) PROVE CloseInv'
  BY <1>1, <1>2, IssueAdds, AddsClose
<1>3. CASE End
  <2>1. destroyed' = destroyed
    BY <1>3 DEF End
  <2> QED
    BY <1>1, <1>3, <2>1, EndAdds, AddsClose
<1>4. CASE \/ \E k \in Cmds : QueryTimeout(k)
           \/ Pause \/ Resume \/ Connect \/ RunTick \/ UNCHANGED vars
           \/ \E n \in 0 .. MaxParts, last \in {"none", "ok", "err"} : Data(n, last)
  <2>1. /\ UNCHANGED <<queueVars, endVars, connected, gone>>
        /\ asked' = asked \/ ~gone
    BY <1>4 DEF QueryTimeout, Pause, Resume, Connect, RunTick, vars, Data
  <2>2. Idle => Idle'
    BY <2>1 DEF Idle, HasResult
  <2> QED
    BY <1>1, <2>1, <2>2, CloseKept
<1>5. CASE Destroy
  <2>1. closing' /\ destroyed' /\ UNCHANGED serverVars
    BY <1>5 DEF Destroy, close
  <2> QED
    BY <1>1, <2>1, CloseIdle DEF CloseInv
<1>6. CASE Deliver
  BY <1>6, DeliverClose
<1>7. CASE SocketStep
  <2>1. /\ gone' = TRUE /\ asked' = NoJob
        /\ UNCHANGED <<destroyed, connected>>
        /\ \/ /\ closing /\ closing' = closing
              /\ UNCHANGED <<queueVars, accepting, calls, prepared, fatal, protoErr>>
           \/ \E s \in {"open", "ended", "closed"} : notifyError(s)
    BY <1>1, <1>7, SocketFacts
  <2>2. CASE /\ closing /\ closing' = closing
             /\ UNCHANGED <<queueVars, accepting, calls, prepared, fatal, protoErr>>
    <3>1. (MustBeIdle' => MustBeIdle) /\ (Idle => Idle')
      BY <2>1, <2>2 DEF MustBeIdle, Idle, HasResult
    <3> QED
      BY <1>1, <2>1, <2>2, <3>1, CloseParts DEF CloseInv, MustBeIdle, Idle
  <2>3. CASE \E s \in {"open", "ended", "closed"} : notifyError(s)
    BY <1>1, <2>1, <2>3, NotifyClose
  <2> QED
    BY <2>1, <2>2, <2>3
<1>8. CASE Farewell
  <2>1. /\ UNCHANGED <<queueVars, endVars, connected>> /\ asked' = NoJob /\ connected
    BY <1>8 DEF Farewell
  <2>2. (MustBeIdle' => MustBeIdle) /\ (Idle => Idle')
    BY <2>1 DEF MustBeIdle, Idle, HasResult
  <2> QED
    BY <1>1, <2>1, <2>2, CloseParts DEF CloseInv, MustBeIdle, Idle
<1> QED
  BY <1>2, <1>3, <1>4, <1>5, <1>6, <1>7, <1>8 DEF Next, SocketStep

-----------------------------------------------------------------------------
(* What a step leaves of the packets.                                      *)

\* Packets are handled, or a Nothing is added, and the replies stay in order.
Thinned ==
    \E f \in [DOMAIN Transit' -> Int] : \A i \in DOMAIN Transit' :
        Transit'[i] # Nothing =>
          /\ f[i] \in DOMAIN Transit /\ Transit'[i] = Transit[f[i]]
          /\ \A j \in DOMAIN Transit' : Transit'[j] # Nothing =>
                /\ f[j] \in Int /\ (j # i => f[j] # f[i])
                /\ IsReply(Transit'[i]) /\ j > i => f[j] > f[i]

LEMMA ThinnedFacts ==
  ASSUME Thinned
  PROVE  InTransit' \subseteq InTransit \union {Nothing}
BY DEF Thinned, InTransit, Elems

LEMMA ThinnedOrder ==
  ASSUME ReplyInv, Thinned, NEW i \in DOMAIN Transit', Transit'[i] # Nothing
  PROVE  /\ Transit'[i].kind # "part" =>
              /\ InOrderReplies => asked = NoJob
              /\ \A j \in DOMAIN Transit' : j > i => Transit'[j] = Nothing
         /\ IsFarewell(Transit'[i]) =>
              /\ Transit'[i].kind = "err" /\ gone /\ connected
              /\ \A j \in DOMAIN Transit' : j # i => Transit'[j] = Nothing
<1>1. PICK f \in [DOMAIN Transit' -> Int] : \A k \in DOMAIN Transit' :
        Transit'[k] # Nothing =>
          /\ f[k] \in DOMAIN Transit /\ Transit'[k] = Transit[f[k]]
          /\ \A j \in DOMAIN Transit' : Transit'[j] # Nothing =>
                /\ f[j] \in Int /\ (j # k => f[j] # f[k])
                /\ IsReply(Transit'[k]) /\ j > k => f[j] > f[k]
  BY DEF Thinned
<1> DEFINE a == f[i]
<1>2. /\ a \in DOMAIN Transit /\ Transit[a] = Transit'[i]
      /\ \A j \in DOMAIN Transit' : Transit'[j] # Nothing =>
            /\ f[j] \in DOMAIN Transit /\ Transit[f[j]] # Nothing
            /\ (j # i => f[j] # a)
            /\ IsReply(Transit'[i]) /\ j > i => f[j] > a
  BY <1>1
<1> HIDE DEF a
<1>3. ASSUME Transit'[i].kind # "part"
      PROVE  /\ InOrderReplies => asked = NoJob
             /\ IsReply(Transit'[i]) => \A j \in DOMAIN Transit' : j > i => Transit'[j] = Nothing
  <2>1. /\ InOrderReplies => asked = NoJob
        /\ \A j \in DOMAIN Transit : j > a => Transit[j] = Nothing
    BY <1>2, <1>3 DEF ReplyInv
  <2> QED
    BY <1>2, <2>1
<1>4. ASSUME IsFarewell(Transit'[i])
      PROVE  /\ Transit'[i].kind = "err" /\ gone /\ connected
             /\ \A j \in DOMAIN Transit' : j # i => Transit'[j] = Nothing
  <2>1. /\ Transit'[i].kind = "err" /\ gone /\ connected
        /\ \A j \in DOMAIN Transit : j # a => Transit[j] = Nothing
    BY <1>2, <1>4 DEF ReplyInv
  <2> QED
    BY <1>2, <2>1
<1>5. IsReply(Transit'[i]) \/ IsFarewell(Transit'[i])
  BY DEF IsReply, IsFarewell
<1>6. \A j \in DOMAIN Transit' : j > i => j # i
  BY DEF Transit
<1>7. Transit'[i].kind = "err" => Transit'[i].kind # "part"
  OBVIOUS
<1> QED
  BY <1>3, <1>4, <1>5, <1>6, <1>7

LEMMA ThinnedReply ==
  ASSUME ReplyInv, Thinned,
         Matched' => \A p \in InTransit' : IsReply(p) => p.job = current' /\ started',
         Matched' => (asked' # NoJob => asked' = current' /\ started'),
         InOrderReplies /\ asked = NoJob =>
            asked' = NoJob \/ (~gone /\ \A p \in InTransit' : ~IsReply(p)),
         ~InOrderReplies => (current' # NoJob => started') /\ (paused' => current' # NoJob),
         gone => gone', connected => connected',
         paused' \/ \A p \in Elems(held') : ~IsReply(p),
         ticks' # <<>> => ticks # <<>> \/ InTransit' \subseteq {Nothing}
  PROVE  ReplyInv'
<1>1. InTransit' \subseteq InTransit \union {Nothing}
  BY ThinnedFacts
<1>2. ASSUME NEW i \in DOMAIN Transit', Transit'[i] # Nothing
      PROVE  /\ Transit'[i].kind # "part" =>
                  /\ InOrderReplies => asked' = NoJob
                  /\ \A j \in DOMAIN Transit' : j > i => Transit'[j] = Nothing
             /\ IsFarewell(Transit'[i]) =>
                  /\ Transit'[i].kind = "err" /\ gone' /\ connected'
                  /\ \A j \in DOMAIN Transit' : j # i => Transit'[j] = Nothing
  <2>1. /\ Transit'[i].kind # "part" =>
              /\ InOrderReplies => asked = NoJob
              /\ \A j \in DOMAIN Transit' : j > i => Transit'[j] = Nothing
        /\ IsFarewell(Transit'[i]) =>
              /\ Transit'[i].kind = "err" /\ gone /\ connected
              /\ \A j \in DOMAIN Transit' : j # i => Transit'[j] = Nothing
    BY <1>2, ThinnedOrder
  <2>2. Transit'[i] \in InTransit'
    BY <1>2 DEF InTransit, Elems
  <2>3. IsReply(Transit'[i]) \/ IsFarewell(Transit'[i])
    BY <1>2 DEF IsReply, IsFarewell
  <2>4. Transit'[i].kind # "part" /\ InOrderReplies => asked' = NoJob
    BY <2>1, <2>2, <2>3
  <2> QED
    BY <2>1, <2>4
<1>3. \A p \in InTransit' : p.job.cmd = Handshake /\ p.kind = "err" => "login" \in Faults
  BY <1>1, PacketFacts DEF ReplyInv
<1>4. ticks' # <<>> => InTransit' \subseteq {Nothing}
  BY <1>1 DEF ReplyInv
<1>5. \A i \in DOMAIN Transit' : IsFarewell(Transit'[i]) => Transit'[i] # Nothing
  BY DEF IsFarewell
<1> QED
  BY <1>2, <1>3, <1>4, <1>5 DEF ReplyInv, IsFarewell, IsReply, InOrderReplies

LEMMA TransitNext ==
  ASSUME NEW h \in Seq(Packets), NEW c \in Seq(Packets), held' = h, chunk' = c
  PROVE  /\ Transit' = h \o c /\ DOMAIN Transit' = 1 .. Len(h) + Len(c)
         /\ Len(h) \in Nat /\ Len(c) \in Nat
         /\ \A i \in 1 .. Len(h) : Transit'[i] = h[i]
         /\ \A i \in 1 .. Len(c) : Transit'[i + Len(h)] = c[i]
<1>1. Transit' = h \o c
  BY DEF Transit
<1>2. Len(h) \in Nat /\ Len(c) \in Nat
  OBVIOUS
<1> QED
  BY <1>1, <1>2, ConcatFacts

LEMMA ThinSame ==
  ASSUME TypeOK, Transit' = Transit
  PROVE  Thinned
<1> DEFINE f == [i \in DOMAIN Transit |-> i]
<1>1. DOMAIN Transit = 1 .. Len(Transit) /\ Len(Transit) \in Nat
  BY TransitFacts
<1>2. f \in [DOMAIN Transit' -> Int] /\ \A i \in DOMAIN Transit : f[i] = i
  BY <1>1
<1> HIDE DEF f
<1>3. \A i \in DOMAIN Transit' :
        Transit'[i] # Nothing =>
          /\ f[i] \in DOMAIN Transit /\ Transit'[i] = Transit[f[i]]
          /\ \A j \in DOMAIN Transit' : Transit'[j] # Nothing =>
                /\ f[j] \in Int /\ (j # i => f[j] # f[i])
                /\ IsReply(Transit'[i]) /\ j > i => f[j] > f[i]
  BY <1>1, <1>2
<1> QED
  BY <1>2, <1>3 DEF Thinned

LEMMA ThinTail ==
  ASSUME TypeOK, chunk # <<>>, held' = held, chunk' = Tail(chunk)
  PROVE  Thinned /\ InTransit' \subseteq InTransit
<1> DEFINE h == held
           t == Tail(chunk)
           n == Len(held)
           f == [i \in DOMAIN Transit' |-> IF i <= n THEN i ELSE i + 1]
<1>1. /\ h \in Seq(Packets) /\ t \in Seq(Packets) /\ Len(t) = Len(chunk) - 1
      /\ \A i \in 1 .. Len(t) : t[i] = chunk[i + 1]
      /\ Len(chunk) \in Nat
  BY TailFacts DEF TypeOK
<1>2. /\ DOMAIN Transit' = 1 .. n + Len(t) /\ n \in Nat /\ Len(t) \in Nat
      /\ \A i \in 1 .. n : Transit'[i] = h[i]
      /\ \A i \in 1 .. Len(t) : Transit'[i + n] = t[i]
  BY <1>1, TransitNext
<1>3. /\ DOMAIN Transit = 1 .. n + Len(chunk)
      /\ \A i \in 1 .. n : Transit[i] = h[i]
      /\ \A i \in 1 .. Len(chunk) : Transit[i + n] = chunk[i]
  BY TransitFacts
<1>4. /\ f \in [DOMAIN Transit' -> Int]
      /\ \A i \in DOMAIN Transit' : f[i] = IF i <= n THEN i ELSE i + 1
  BY <1>2
<1> HIDE DEF f, h, t, n
<1>5. \A i \in DOMAIN Transit' : f[i] \in DOMAIN Transit /\ Transit'[i] = Transit[f[i]]
  <2> SUFFICES ASSUME NEW i \in DOMAIN Transit'
               PROVE  f[i] \in DOMAIN Transit /\ Transit'[i] = Transit[f[i]]
    OBVIOUS
  <2>1. CASE i <= n
    BY <1>1, <1>2, <1>3, <1>4, <2>1
  <2>2. CASE i > n
    <3>1. i - n \in 1 .. Len(t) /\ (i - n) + n = i /\ (i - n) + 1 \in 1 .. Len(chunk)
          /\ ((i - n) + 1) + n = i + 1 /\ f[i] = i + 1
      BY <1>1, <1>2, <1>4, <2>2
    <3>2. Transit'[i] = t[i - n] /\ t[i - n] = chunk[(i - n) + 1]
      BY <1>1, <1>2, <3>1
    <3> DEFINE k == (i - n) + 1
    <3>4. k \in 1 .. Len(chunk) /\ k + n = i + 1
      BY <3>1
    <3>5. Transit[k + n] = chunk[k] /\ k + n \in 1 .. n + Len(chunk)
      <4> HIDE DEF k
      <4> QED
        BY <1>1, <1>2, <1>3, <3>4
    <3>3. Transit[i + 1] = chunk[(i - n) + 1] /\ i + 1 \in DOMAIN Transit
      BY <1>3, <3>4, <3>5
    <3> QED
      BY <3>1, <3>2, <3>3
  <2> QED
    BY <1>2, <2>1, <2>2
<1>6. \A i, j \in DOMAIN Transit' : f[i] \in Int /\ f[j] \in Int /\ (j > i => f[j] > f[i])
                                    /\ (j # i => f[j] # f[i])
  BY <1>2, <1>4
<1>7. Thinned
  BY <1>4, <1>5, <1>6 DEF Thinned
<1> QED
  BY <1>5, <1>7 DEF InTransit, Elems

LEMMA ThinHold ==
  ASSUME TypeOK, chunk # <<>>, held' = Append(held, Head(chunk)), chunk' = Tail(chunk)
  PROVE  Transit' = Transit
<1> DEFINE h == Append(held, Head(chunk))
           t == Tail(chunk)
           n == Len(held)
<1>1. /\ held \in Seq(Packets) /\ chunk \in Seq(Packets)
      /\ Head(chunk) = chunk[1] /\ chunk[1] \in Packets
      /\ t \in Seq(Packets) /\ Len(t) = Len(chunk) - 1 /\ Len(chunk) >= 1
      /\ \A i \in 1 .. Len(t) : t[i] = chunk[i + 1]
      /\ Len(chunk) \in Nat /\ n \in Nat
  BY TailFacts DEF TypeOK
<1>2. /\ h \in Seq(Packets) /\ Len(h) = n + 1 /\ h[n + 1] = chunk[1]
      /\ \A i \in 1 .. n : h[i] = held[i]
  BY <1>1, AppendFacts
<1>3. /\ Transit' = h \o t /\ DOMAIN Transit' = 1 .. Len(h) + Len(t)
      /\ \A i \in 1 .. Len(h) : Transit'[i] = h[i]
      /\ \A i \in 1 .. Len(t) : Transit'[i + Len(h)] = t[i]
  BY <1>1, <1>2, TransitNext
<1>4. /\ Transit \in Seq(Packets) /\ Len(Transit) = n + Len(chunk)
      /\ \A i \in 1 .. n : Transit[i] = held[i]
      /\ \A i \in 1 .. Len(chunk) : Transit[i + n] = chunk[i]
  BY TransitFacts
<1>5. Transit' \in Seq(Packets)
  BY <1>1, <1>2, <1>3, ConcatFacts
<1> HIDE DEF h, t, n
<1>6. Len(Transit') = n + Len(chunk)
  <2>1. Len(h) + Len(t) = n + Len(chunk) /\ Len(h) + Len(t) \in Nat
    <3> DEFINE a == Len(h)
               b == Len(t)
               d == Len(chunk)
    <3>1. a = n + 1 /\ b = d - 1 /\ d \in Nat /\ n \in Nat /\ d >= 1
      BY <1>1, <1>2
    <3> HIDE DEF a, b, d
    <3>2. a + b = n + d /\ a + b \in Nat
      BY <3>1
    <3> QED
      BY <3>2 DEF a, b, d
  <2>2. DOMAIN Transit' = 1 .. n + Len(chunk)
    BY <1>3, <2>1
  <2> DEFINE K == n + Len(chunk)
  <2>3. K \in Nat /\ DOMAIN Transit' = 1 .. K
    BY <2>1, <2>2
  <2> HIDE DEF K
  <2>4. Len(Transit') = K
    BY <1>5, <2>3
  <2> QED
    BY <2>4 DEF K
<1>7. ASSUME NEW i \in 1 .. n + Len(chunk) PROVE Transit'[i] = Transit[i]
  <2>1. CASE i <= n
    <3>1. i \in 1 .. n /\ i \in 1 .. Len(h)
      BY <1>1, <1>2, <2>1
    <3> QED
      BY <1>2, <1>3, <1>4, <3>1
  <2>2. CASE i = n + 1
    <3>1. i \in 1 .. Len(h) /\ 1 \in 1 .. Len(chunk) /\ i = 1 + n
      BY <1>1, <1>2, <2>2
    <3>2. Transit'[i] = h[i] /\ h[i] = chunk[1]
      BY <1>2, <1>3, <2>2, <3>1
    <3>3. Transit[i] = chunk[1]
      BY <1>4, <3>1
    <3> QED
      BY <3>2, <3>3
  <2>3. CASE i > n + 1
    <3> DEFINE k == i - (n + 1)
    <3>1. k \in 1 .. Len(t) /\ k + Len(h) = i /\ k + 1 \in 1 .. Len(chunk) /\ (k + 1) + n = i
      BY <1>1, <1>2, <2>3
    <3> HIDE DEF k
    <3>2. Transit'[i] = t[k] /\ t[k] = chunk[k + 1]
      BY <1>1, <1>3, <3>1
    <3>3. Transit[i] = chunk[k + 1]
      BY <1>4, <3>1
    <3> QED
      BY <3>2, <3>3
  <2> QED
    BY <1>1, <2>1, <2>2, <2>3
<1> QED
  BY <1>4, <1>5, <1>6, <1>7

LEMMA ThinAdd ==
  ASSUME TypeOK, held' = Append(held, Nothing), chunk' = chunk
  PROVE  Thinned
<1> DEFINE h == Append(held, Nothing)
           n == Len(held)
           f == [i \in DOMAIN Transit' |-> IF i <= n THEN i ELSE i - 1]
<1>1. /\ h \in Seq(Packets) /\ Len(h) = n + 1 /\ h[n + 1] = Nothing /\ n \in Nat
      /\ \A i \in 1 .. n : h[i] = held[i]
      /\ chunk \in Seq(Packets) /\ Len(chunk) \in Nat
  BY PacketFacts, AppendFacts DEF TypeOK
<1>2. /\ DOMAIN Transit' = 1 .. Len(h) + Len(chunk)
      /\ \A i \in 1 .. Len(h) : Transit'[i] = h[i]
      /\ \A i \in 1 .. Len(chunk) : Transit'[i + Len(h)] = chunk[i]
  BY <1>1, TransitNext
<1>3. /\ DOMAIN Transit = 1 .. n + Len(chunk)
      /\ \A i \in 1 .. n : Transit[i] = held[i]
      /\ \A i \in 1 .. Len(chunk) : Transit[i + n] = chunk[i]
  BY TransitFacts
<1>4. /\ f \in [DOMAIN Transit' -> Int]
      /\ \A i \in DOMAIN Transit' : f[i] = IF i <= n THEN i ELSE i - 1
  BY <1>2
<1> HIDE DEF f, h, n
<1>5. ASSUME NEW i \in DOMAIN Transit', Transit'[i] # Nothing
      PROVE  f[i] \in DOMAIN Transit /\ Transit'[i] = Transit[f[i]] /\ i # n + 1
  <2>1. CASE i <= n
    <3>1. i \in 1 .. n /\ i \in 1 .. Len(h) /\ i # n + 1
      BY <1>1, <1>2, <2>1
    <3> QED
      BY <1>1, <1>2, <1>3, <1>4, <2>1, <3>1
  <2>2. CASE i = n + 1
    <3>1. i \in 1 .. Len(h)
      BY <1>1, <2>2
    <3> QED
      BY <1>1, <1>2, <1>5, <2>2, <3>1
  <2>3. CASE i > n + 1
    <3> DEFINE k == i - (n + 1)
               L == Len(chunk)
    <3>0. i \in Nat /\ i <= (n + 1) + L /\ n \in Nat /\ L \in Nat
      BY <1>1, <1>2
    <3>1. k \in 1 .. L /\ k + Len(h) = i /\ k + n = i - 1 /\ f[i] = i - 1
      <4>1. f[i] = i - 1
        BY <1>4, <2>3, <3>0
      <4>2. k \in 1 .. L /\ k + (n + 1) = i /\ k + n = i - 1
        BY <2>3, <3>0
      <4> QED
        BY <1>1, <4>1, <4>2
    <3> HIDE DEF k
    <3>2. Transit'[i] = chunk[k]
      BY <1>2, <3>1
    <3>3. Transit[k + n] = chunk[k] /\ k + n \in 1 .. n + L
      BY <1>1, <1>3, <3>1
    <3> QED
      BY <1>1, <1>3, <2>3, <3>1, <3>2, <3>3
  <2> QED
    BY <1>1, <1>2, <2>1, <2>2, <2>3
<1>6. ASSUME NEW i \in DOMAIN Transit', NEW j \in DOMAIN Transit', i # n + 1, j # n + 1
      PROVE  f[i] \in Int /\ f[j] \in Int /\ (j > i => f[j] > f[i]) /\ (j # i => f[j] # f[i])
  <2>1. i \in Int /\ j \in Int /\ n \in Nat
    BY <1>1, <1>2
  <2>2. f[i] = (IF i <= n THEN i ELSE i - 1) /\ f[j] = IF j <= n THEN j ELSE j - 1
    BY <1>4
  <2> QED
    BY <1>6, <2>1, <2>2
<1> QED
  BY <1>4, <1>5, <1>6 DEF Thinned

LEMMA ThinResume ==
  ASSUME TypeOK, NothingInv, ReplyInv, Resume
  PROVE  Thinned /\ InTransit' \subseteq InTransit
<1>1. PICK n \in 0 .. Len(held) :
           /\ \A i \in 1 .. n : held[i] # Nothing
           /\ n < Len(held) => held[n + 1] = Nothing
           /\ chunk' \in Seq(Packets) /\ held' \in Seq(Packets)
           /\ Len(chunk') = n + Len(chunk)
           /\ \A i \in 1 .. n : chunk'[i] = held[i]
           /\ \A i \in 1 .. Len(chunk) : chunk'[i + n] = chunk[i]
           /\ Len(held') = IF n < Len(held) THEN Len(held) - (n + 1) ELSE 0
           /\ \A i \in 1 .. Len(held') : held'[i] = held[i + (n + 1)]
  BY ResumeFacts
<1> DEFINE H == Len(held)
           L == Len(chunk)
           M == Len(held')
           c == chunk'
           h == held'
<1>2. /\ DOMAIN Transit = 1 .. H + L /\ H \in Nat /\ L \in Nat
      /\ \A i \in 1 .. H : Transit[i] = held[i]
      /\ \A i \in 1 .. L : Transit[i + H] = chunk[i]
  BY TransitFacts
<1>3. /\ DOMAIN Transit' = 1 .. M + (n + L) /\ M \in Nat
      /\ \A i \in 1 .. M : Transit'[i] = h[i]
      /\ \A i \in 1 .. n + L : Transit'[i + M] = c[i]
  <2>1. h \in Seq(Packets) /\ c \in Seq(Packets) /\ held' = h /\ chunk' = c /\ Len(c) = n + L
        /\ M = Len(h)
    BY <1>1
  <2> HIDE DEF h, c, L
  <2> QED
    BY <2>1, TransitNext
<1>4. /\ n \in Nat /\ n <= H
      /\ M = IF n < H THEN H - (n + 1) ELSE 0
      /\ n < H => held[n + 1] = Nothing
      /\ \A i \in 1 .. n : c[i] = held[i]
      /\ \A i \in 1 .. L : c[i + n] = chunk[i]
      /\ \A i \in 1 .. M : h[i] = held[i + (n + 1)]
  BY <1>1
<1> HIDE DEF H, L, M, c, h
<1>5. CASE n = H
  <2> DEFINE f == [i \in DOMAIN Transit' |-> i]
  <2>1. M = 0 /\ DOMAIN Transit' = 1 .. H + L
    BY <1>2, <1>3, <1>4, <1>5
  <2>2. \A i \in 1 .. H + L : f[i] = i /\ f[i] \in Int /\ i \in Int
    BY <2>1
  <2>3. ASSUME NEW i \in 1 .. H + L PROVE Transit'[i] = Transit[i]
    <3>0. i + M = i /\ i \in 1 .. n + L
      BY <1>2, <1>5, <2>1
    <3>1. Transit'[i] = c[i]
      BY <1>3, <3>0
    <3>2. CASE i <= H
      <4>1. i \in 1 .. n /\ i \in 1 .. H
        BY <1>2, <1>5, <3>2
      <4> QED
        BY <1>2, <1>4, <3>1, <4>1
    <3>3. CASE i > H
      <4> DEFINE k == i - H
      <4>1. k \in 1 .. L /\ k + n = i /\ k + H = i
        BY <1>2, <1>5, <3>3
      <4> HIDE DEF k
      <4> QED
        BY <1>2, <1>4, <3>1, <4>1
    <3> QED
      BY <1>2, <3>2, <3>3
  <2>4. f \in [DOMAIN Transit' -> Int]
    BY <2>1
  <2> HIDE DEF f
  <2>5. Thinned
    BY <1>2, <2>1, <2>2, <2>3, <2>4 DEF Thinned
  <2> QED
    BY <1>2, <2>1, <2>3, <2>5 DEF InTransit, Elems
<1>6. CASE n # H
  <2> DEFINE f == [i \in DOMAIN Transit' |-> IF i <= M THEN i + (n + 1)
                                             ELSE IF i <= M + n THEN i - M ELSE i + 1]
  <2>0. n \in Nat /\ H \in Nat /\ L \in Nat /\ M \in Nat
    BY <1>2, <1>3, <1>4
  <2>1. n < H /\ M = H - (n + 1)
    BY <1>4, <1>6, <2>0
  <2>2. ASSUME NEW i \in DOMAIN Transit'
        PROVE  /\ f[i] = IF i <= M THEN i + (n + 1) ELSE IF i <= M + n THEN i - M ELSE i + 1
               /\ i \in 1 .. M + (n + L) /\ f[i] \in Int
    BY <1>2, <1>3, <1>4
  <2>3. f \in [DOMAIN Transit' -> Int]
    BY <2>2
  <2> HIDE DEF f
  <2>4. ASSUME NEW i \in DOMAIN Transit'
        PROVE  f[i] \in DOMAIN Transit /\ Transit'[i] = Transit[f[i]]
    <3>0. i \in Nat /\ i >= 1 /\ i <= M + (n + L)
      BY <1>2, <1>3, <1>4, <2>2
    <3>1. CASE i <= M
      <4>1. f[i] = i + (n + 1) /\ i + (n + 1) \in 1 .. H /\ i \in 1 .. M
        BY <1>2, <1>4, <2>1, <2>2, <3>0, <3>1
      <4>2. i + (n + 1) \in 1 .. H + L
        BY <1>2, <4>1
      <4> QED
        BY <1>2, <1>3, <1>4, <4>1, <4>2
    <3>2. CASE i > M /\ i <= M + n
      <4> DEFINE k == i - M
      <4>1. f[i] = k /\ k \in 1 .. n /\ k \in 1 .. H /\ k \in 1 .. n + L /\ k + M = i
            /\ k \in 1 .. H + L
        <5>1. f[i] = i - M
          BY <2>0, <2>2, <3>0, <3>2
        <5> QED
          BY <2>0, <2>1, <3>0, <3>2, <5>1
      <4> HIDE DEF k
      <4> QED
        BY <1>2, <1>3, <1>4, <4>1
    <3>3. CASE i > M + n
      <4> DEFINE k == i - (M + n)
      <4>1. f[i] = i + 1 /\ k \in 1 .. L /\ k + n \in 1 .. n + L /\ (k + n) + M = i
            /\ k + H = i + 1 /\ k + H \in 1 .. H + L
        <5>1. f[i] = i + 1
          BY <2>0, <2>2, <3>0, <3>3
        <5>2. k \in 1 .. L /\ k + n \in 1 .. n + L /\ (k + n) + M = i
          BY <2>0, <3>0, <3>3
        <5>3. k + H = i + 1
          BY <2>0, <2>1, <3>0
        <5>4. k + H \in 1 .. H + L
          BY <2>0, <5>2
        <5> QED
          BY <5>1, <5>2, <5>3, <5>4
      <4> HIDE DEF k
      <4>2. Transit'[i] = c[k + n] /\ c[k + n] = chunk[k] /\ Transit[k + H] = chunk[k]
        BY <1>2, <1>3, <1>4, <4>1
      <4> QED
        BY <1>2, <4>1, <4>2
    <3> QED
      BY <1>3, <1>4, <3>0, <3>1, <3>2, <3>3
  <2>5. ASSUME NEW i \in DOMAIN Transit', NEW j \in DOMAIN Transit', j # i
        PROVE  f[j] # f[i]
    <3>1. /\ f[i] = IF i <= M THEN i + (n + 1) ELSE IF i <= M + n THEN i - M ELSE i + 1
          /\ f[j] = IF j <= M THEN j + (n + 1) ELSE IF j <= M + n THEN j - M ELSE j + 1
          /\ i \in Int /\ j \in Int /\ i >= 1 /\ j >= 1
      BY <2>2
    <3> QED
      BY <2>0, <2>1, <2>5, <3>1
  <2>6. \A i \in DOMAIN Transit' : ~IsReply(Transit'[i])
    <3>1. n + 1 \in DOMAIN held /\ held[n + 1] = Nothing
      <4>1. n + 1 \in 1 .. H /\ DOMAIN held = 1 .. Len(held)
        BY <1>2, <1>4, <2>1, TransitFacts
      <4> QED
        BY <1>4, <2>1, <4>1 DEF H
    <3>2. ~started /\ InOrderReplies
      BY <3>1 DEF NothingInv, Elems, ReplyInv
    <3>3. \A p \in InTransit : ~IsReply(p)
      BY <3>2 DEF ReplyInv, Matched
    <3> QED
      BY <2>4, <3>3 DEF InTransit, Elems
  <2>7. Thinned
    BY <2>2, <2>3, <2>4, <2>5, <2>6 DEF Thinned
  <2> QED
    BY <2>4, <2>7 DEF InTransit, Elems
<1> QED
  BY <1>5, <1>6

-----------------------------------------------------------------------------
(* Requests and replies stay in step.                                      *)

LEMMA LostKept ==
  ASSUME LostLogin, protoErr' /\ ~fatal' => protoErr /\ ~fatal,
         ~accepting => ~accepting' /\ UNCHANGED <<current, commands>>,
         ticks' # <<>> => ticks # <<>>,
         current.cmd = Handshake => (asked' = asked \/ asked' = NoJob),
         InTransit' \subseteq InTransit \union {Nothing}
  PROVE  LostLogin'
BY DEF LostLogin, HasResult

\* Steps that leave the queue and the packets alone.
LEMMA SameSync ==
  ASSUME TypeOK, SyncInv, CloseInv',
         UNCHANGED <<current, started, commands, held, chunk, connected, fatal, protoErr>>,
         accepting' => accepting, ticks' # <<>> => ticks # <<>>,
         asked' = asked \/ asked' = NoJob, gone => gone',
         paused' = paused \/ (paused' /\ InOrderReplies)
  PROVE  SyncInv'
<1>1. Transit' = Transit /\ InTransit' = InTransit
  BY DEF Transit, InTransit, Elems
<1>2. LostLogin'
  BY <1>1, LostKept DEF SyncInv
<1>3. ASSUME ~Lost' PROVE ReplyInv'
  <2>1. ReplyInv
    BY <1>3 DEF Lost, SyncInv
  <2>2. Thinned
    BY <1>1, ThinSame
  <2>3. /\ Matched' => \A p \in InTransit' : IsReply(p) => p.job = current' /\ started'
        /\ Matched' => (asked' # NoJob => asked' = current' /\ started')
        /\ paused' \/ \A p \in Elems(held') : ~IsReply(p)
        /\ ~InOrderReplies => (current' # NoJob => started') /\ (paused' => current' # NoJob)
    BY <1>1, <2>1 DEF ReplyInv, Matched, InOrderReplies
  <2> QED
    BY <2>1, <2>2, <2>3, ThinnedReply
<1> QED
  BY <1>2, <1>3 DEF SyncInv

LEMMA AddsSync ==
  ASSUME TypeOK, NothingInv, SyncInv, CloseInv', Adds
  PROVE  SyncInv'
<1>1. /\ UNCHANGED <<chunk, paused, gone, connected, ticks, fatal, protoErr, stream, destroyed>>
      /\ accepting' => accepting
      /\ ~accepting => UNCHANGED <<current, started, commands, held, asked>>
  BY DEF Adds
<1>2. /\ held \in Seq(Packets) /\ chunk \in Seq(Packets)
      /\ InTransit = Elems(held) \union Elems(chunk)
  BY TransitFacts DEF TypeOK
<1>3. CASE UNCHANGED <<current, started, held, asked>>
  <2>1. Transit' = Transit /\ InTransit' = InTransit
    BY <1>1, <1>3 DEF Transit, InTransit, Elems
  <2>2. LostLogin'
    <3>1. /\ ~accepting => ~accepting' /\ UNCHANGED <<current, commands>>
          /\ protoErr' /\ ~fatal' => protoErr /\ ~fatal
          /\ ticks' # <<>> => ticks # <<>>
          /\ asked' = asked
      BY <1>1, <1>3
    <3> QED
      BY <2>1, <3>1, LostKept DEF SyncInv
  <2>3. ~Lost' => ReplyInv'
    BY <1>1, <1>3, <2>1 DEF SyncInv, Lost, ReplyInv, Matched, InOrderReplies
  <2> QED
    BY <2>2, <2>3 DEF SyncInv
<1>4. CASE /\ current = NoJob /\ accepting /\ current' \in Jobs /\ current'.cmd # Handshake
           /\ \/ paused /\ held' = Append(held, Nothing) /\ ~started' /\ asked' = asked
              \/ /\ ~paused /\ held' = held
                 /\ \/ fatal /\ asked' = asked
                    \/ started' /\ asked' \in {asked, IF gone THEN NoJob ELSE current'}
  <2>1. LostLogin'
    <3>1. ~(protoErr /\ ~fatal)
      BY <1>4 DEF SyncInv, LostLogin
    <3>2. ~(protoErr' /\ ~fatal')
      BY <1>1, <3>1
    <3> QED
      BY <3>2 DEF LostLogin
  <2>2. ASSUME ~Lost' PROVE ReplyInv'
    <3>1. ReplyInv
      BY <1>1, <2>2 DEF Lost, SyncInv
    <3>2. Thinned
      <4>1. CASE held' = held
        BY <1>1, <4>1, ThinSame DEF Transit
      <4> QED
        BY <1>1, <1>4, <4>1, ThinAdd
    <3>3. InTransit' \subseteq InTransit \union {Nothing}
      BY <3>2, ThinnedFacts
    <3>4. ASSUME InOrderReplies PROVE \A p \in InTransit' : ~IsReply(p)
      <4>1. \A p \in InTransit : ~IsReply(p)
        <5> SUFFICES ASSUME NEW p \in InTransit, IsReply(p) PROVE FALSE
          OBVIOUS
        <5>1. p.job = NoJob
          BY <1>4, <3>1, <3>4 DEF ReplyInv, Matched
        <5> QED
          BY <5>1 DEF IsReply
      <4> QED
        BY <3>3, <4>1, PacketFacts DEF IsReply
    <3>5. InOrderReplies => asked = NoJob
      BY <1>4, <3>1 DEF ReplyInv, Matched
    <3>6. /\ InOrderReplies => (asked' # NoJob => asked' = current' /\ started')
          /\ InOrderReplies => asked' = NoJob \/ ~gone
      BY <1>4, <3>5
    <3>7. paused' \/ \A p \in Elems(held') : ~IsReply(p)
      BY <1>1, <1>4, <3>1 DEF ReplyInv
    <3>8. Matched' => InOrderReplies
      BY <1>4 DEF Matched, InOrderReplies
    <3>9. ~InOrderReplies => (current' # NoJob => started') /\ (paused' => current' # NoJob)
      <4>1. ~fatal
        BY <1>1, <2>2 DEF Lost
      <4> QED
        BY <1>1, <1>4, <3>1, <4>1 DEF ReplyInv
    <3> QED
      BY <1>1, <3>1, <3>2, <3>4, <3>6, <3>7, <3>8, <3>9, ThinnedReply
  <2> QED
    BY <2>1, <2>2 DEF SyncInv
<1> QED
  BY <1>3, <1>4 DEF Adds

LEMMA ResumeSync ==
  ASSUME TypeOK, NothingInv, SyncInv, CloseInv', Resume
  PROVE  SyncInv'
<1> USE DEF queueVars, resultVars, endVars, loginVars, serverVars
<1>1. /\ UNCHANGED <<current, started, commands, connected, fatal, protoErr, accepting,
                     ticks, asked, gone>>
  BY DEF Resume
<1>2. PICK n \in 0 .. Len(held) :
           /\ n < Len(held) => held[n + 1] = Nothing
           /\ chunk' \in Seq(Packets) /\ held' \in Seq(Packets)
           /\ Len(held') = IF n < Len(held) THEN Len(held) - (n + 1) ELSE 0
           /\ Elems(chunk') \subseteq Elems(held) \union Elems(chunk)
           /\ Elems(held') \subseteq Elems(held)
  BY ResumeFacts
<1>3. InTransit' \subseteq InTransit
  <2> DEFINE h == held'
             c == chunk'
  <2>1. h \in Seq(Packets) /\ c \in Seq(Packets)
    BY <1>2
  <2>2. InTransit' = Elems(h \o c)
    BY DEF InTransit, Transit, Elems
  <2>3. Elems(h) \subseteq Elems(held) /\ Elems(c) \subseteq Elems(held) \union Elems(chunk)
    BY <1>2
  <2> HIDE DEF h, c
  <2>4. InTransit' = Elems(h) \union Elems(c)
    BY <2>1, <2>2, ConcatFacts
  <2>5. InTransit = Elems(held) \union Elems(chunk)
    BY TransitFacts
  <2> QED
    BY <2>3, <2>4, <2>5
<1>4. LostLogin'
  BY <1>1, <1>3, LostKept DEF SyncInv
<1>5. ASSUME ~Lost' PROVE ReplyInv'
  <2>1. ReplyInv
    BY <1>1, <1>5 DEF Lost, SyncInv
  <2>2. Thinned
    BY <2>1, ThinResume
  <2>3. /\ Matched' => \A p \in InTransit' : IsReply(p) => p.job = current' /\ started'
        /\ Matched' => (asked' # NoJob => asked' = current' /\ started')
    BY <1>1, <1>3, <2>1 DEF ReplyInv, Matched, InOrderReplies
  <2>5. ~InOrderReplies => (current' # NoJob => started') /\ (paused' => current' # NoJob)
    BY <1>1, <2>1 DEF ReplyInv, Resume
  <2>4. \A p \in Elems(held') : ~IsReply(p)
    <3>1. CASE n < Len(held)
      <4>1. n + 1 \in DOMAIN held /\ held[n + 1] = Nothing
        BY <1>2, <3>1, TransitFacts
      <4>2. ~started /\ InOrderReplies
        BY <2>1, <4>1 DEF NothingInv, Elems, ReplyInv
      <4>3. Elems(held') \subseteq InTransit
        BY <1>2, TransitFacts
      <4> QED
        BY <2>1, <4>2, <4>3 DEF ReplyInv, Matched
    <3>2. CASE ~(n < Len(held))
      BY <1>2, <3>2 DEF Elems
    <3> QED
      BY <3>1, <3>2
  <2> QED
    BY <1>1, <2>1, <2>2, <2>3, <2>4, <2>5, ThinnedReply
<1> QED
  BY <1>4, <1>5 DEF SyncInv

\* A packet that is held, discarded or part of a reply.
LEMMA PartSync ==
  ASSUME CommandInv, NothingInv, SyncInv, CloseInv', Hold \/ Discard \/ Ignore \/ HandlePart
  PROVE  SyncInv'
<1> USE DEF queueVars, resultVars, endVars, loginVars, serverVars
<1>1. /\ TypeOK /\ chunk # <<>> /\ chunk' = Tail(chunk)
      /\ held' = held \/ held' = Append(held, Head(chunk))
      /\ UNCHANGED <<current, started, commands, connected, fatal, protoErr, ticks, asked, gone>>
      /\ accepting' => accepting
      /\ paused' \/ held' = held
  <2>1. TypeOK
    BY DEF CommandInv
  <2>2. CASE Hold
    BY <2>1, <2>2 DEF Hold
  <2>3. CASE Discard
    BY <2>1, <2>3 DEF Discard, Unexpected, close
  <2>4. CASE Ignore
    BY <2>1, <2>4 DEF Ignore
  <2>5. CASE HandlePart
    BY <2>1, <2>5 DEF HandlePart, Handling, Part
  <2> QED
    BY <2>2, <2>3, <2>4, <2>5
<1>2. /\ ~(fatal /\ ~Lost')
      /\ paused' \/ ~paused
      /\ paused' => paused \/ current # NoJob
  BY <1>1 DEF Lost, Hold, Discard, Ignore, HandlePart, Handling, Unexpected
<1>3. Thinned /\ InTransit' \subseteq InTransit
  <2>1. CASE held' = held
    BY <1>1, <2>1, ThinTail
  <2>2. CASE held' = Append(held, Head(chunk))
    <3>1. Transit' = Transit
      BY <1>1, <2>2, ThinHold
    <3> QED
      BY <1>1, <3>1, ThinSame DEF InTransit, Elems
  <2> QED
    BY <1>1, <2>1, <2>2
<1>4. LostLogin'
  BY <1>1, <1>3, LostKept DEF SyncInv
<1>5. ASSUME ~Lost' PROVE ReplyInv'
  <2>1. ReplyInv
    BY <1>1, <1>5 DEF Lost, SyncInv
  <2>2. /\ Matched' => \A p \in InTransit' : IsReply(p) => p.job = current' /\ started'
        /\ Matched' => (asked' # NoJob => asked' = current' /\ started')
        /\ paused' \/ \A p \in Elems(held') : ~IsReply(p)
        /\ ~InOrderReplies => (current' # NoJob => started') /\ (paused' => current' # NoJob)
    BY <1>1, <1>2, <1>3, <2>1 DEF ReplyInv, Matched, InOrderReplies
  <2> QED
    BY <1>1, <1>3, <2>1, <2>2, ThinnedReply
<1> QED
  BY <1>4, <1>5 DEF SyncInv

\* When nothing is left to be handled.
LEMMA ClearReply ==
  ASSUME held' = <<>>, chunk' = <<>>,
         Matched' => (asked' # NoJob => asked' = current' /\ started'),
         ~InOrderReplies => (current' # NoJob => started') /\ (paused' => current' # NoJob)
  PROVE  ReplyInv' /\ InTransit' = {}
<1>1. Transit' = <<>>
  BY DEF Transit
<1>2. InTransit' = {} /\ DOMAIN Transit' = {} /\ Elems(held') = {}
  BY <1>1 DEF InTransit, Elems
<1> QED
  BY <1>2 DEF ReplyInv, InOrderReplies

LEMMA FinishSync ==
  ASSUME CommandInv, NothingInv, SyncInv, CloseInv',
         HandleRow \/ HandleLogin \/ HandlePrepared \/ HandleDone \/ HandleErr
  PROVE  SyncInv'
<1>1. /\ TypeOK /\ QueueInv /\ Handling /\ ~paused /\ ~fatal /\ chunk # <<>>
      /\ HandleRow \/ Head(chunk).kind \in {"ok", "err"}
      /\ current # NoJob
      /\ HandleRow => current.cmd # Handshake /\ ~InOrderReplies /\ ticks' = ticks
  BY NamesDiffer DEF CommandInv, HandleRow, RowThrows, InOrderReplies, HandleLogin, HandlePrepared, HandleDone, HandleErr, Handling
<1>2. /\ UNCHANGED <<issued, destroyed, stream, gone, paused, held, fatal, protoErr, accepting>>
      /\ chunk' = Tail(chunk)
  BY <1>1, HandleFinish DEF HandleRow, RowThrows, HandleLogin, HandlePrepared, HandleDone,
                            HandleErr, SameFlags
<1>3. PICK m \in 1 .. Len(Pending) :
           \/ FinishLogin(m) /\ HandleLogin
           \/ FinishPrepare(m) /\ HandlePrepared
           \/ FinishRun(m) /\ HandleDone
           \/ FinishErr(m) /\ HandleErr
           \/ FinishRow(m) /\ HandleRow
  BY <1>1, HandleStep
<1>4. PICK prep, cl, tm : Popped(m) /\ Moved(m, prep, cl, tm)
  BY <1>3 DEF FinishLogin, FinishPrepare, FinishRun, FinishErr, FinishRow, Finishes
<1>5. /\ current' = NoJob => commands' = <<>>
      /\ current' # NoJob => started' = TRUE /\ m < Len(Pending) /\ current'.cmd # Handshake
  BY <1>1, <1>4, PopFacts
<1>6. CASE protoErr
  <2>1. /\ ticks = <<>> /\ ~accepting /\ commands = <<>> /\ ~HasResult(current)
        /\ current.cmd = Handshake => InTransit \subseteq {Nothing}
    BY <1>1, <1>6 DEF SyncInv, LostLogin
  <2>2. current.cmd # Handshake
    <3>1. chunk \in Seq(Packets)
      BY <1>1 DEF TypeOK
    <3>2. Head(chunk) \in InTransit /\ Head(chunk) # Nothing
      BY <1>1, <3>1, TailFacts, TransitFacts, NothingTail
    <3> QED
      BY <2>1, <3>2
  <2>3. Len(Pending) = 1
    BY <1>1, <2>1, PendingFacts DEF TypeOK
  <2>4. current' = NoJob /\ commands' = <<>>
    BY <1>5, <2>3
  <2>5. ticks' = <<>>
    <3>1. ~(ticks' = Append(ticks, current.cmd) /\ FinishRun(m)) \/ current.cmd \in Silent
      BY <2>1, <2>2 DEF HasResult
    <3>2. ticks' = ticks \/ (FinishRun(m) /\ current.cmd \notin Silent)
      BY <1>3 DEF FinishLogin, FinishPrepare, FinishRun, FinishErr, FinishRow,
                  HandleRow, RowThrows
    <3> QED
      BY <2>1, <2>2, <3>2 DEF HasResult, FinishRun
  <2>6. NoJob.cmd # Handshake
    BY JobFacts, NamesDiffer
  <2>7. LostLogin'
    BY <1>2, <2>1, <2>4, <2>5, <2>6 DEF LostLogin
  <2> QED
    BY <1>2, <1>6, <2>7 DEF SyncInv, Lost
<1>7. CASE ~protoErr
  <2>1. ReplyInv
    BY <1>1, <1>7 DEF SyncInv, Lost
  <2>2. /\ Matched' => InOrderReplies
        /\ (current' # NoJob => started') /\ (paused' => current' # NoJob)
    <3>1. current'.cmd # Handshake
      BY <1>5, JobFacts, NamesDiffer
    <3> QED
      BY <1>1, <1>2, <1>5, <3>1 DEF Matched, InOrderReplies
  <2>3. LostLogin'
    BY <1>2, <1>7 DEF LostLogin
  <2>4. CASE HandleRow
    <3>1. Thinned /\ InTransit' \subseteq InTransit
      BY <1>1, <1>2, ThinTail
    <3>2. /\ ~Matched' /\ ~InOrderReplies /\ gone' = gone /\ ticks' = ticks
          /\ connected => connected'
      BY <1>1, <1>2, <2>2, <2>4, HandleFinish
    <3>3. \A p \in Elems(held') : ~IsReply(p)
      BY <1>1, <1>2, <2>1 DEF ReplyInv
    <3>4. ReplyInv'
      BY <2>1, <2>2, <3>1, <3>2, <3>3, ThinnedReply
    <3> QED
      BY <2>3, <3>4 DEF SyncInv
  <2>5. CASE ~HandleRow
    <3>1. held = <<>> /\ Tail(chunk) = <<>> /\ (InOrderReplies => asked = NoJob)
      BY <1>1, <2>1, <2>5, LastPacket
    <3>2. InOrderReplies => (asked' # NoJob => asked' = current' /\ started')
      BY <1>4, <1>5, <3>1 DEF Moved
    <3>3. ReplyInv'
      BY <1>2, <2>2, <3>1, <3>2, ClearReply
    <3> QED
      BY <2>3, <3>3 DEF SyncInv
  <2> QED
    BY <2>4, <2>5
<1> QED
  BY <1>6, <1>7

LEMMA RefusalSync ==
  ASSUME CommandInv, NothingInv, SyncInv, CloseInv', HandleGiveUp \/ HandleThrow \/ HandleRefusal
  PROVE  SyncInv'
<1>1. CASE HandleGiveUp \/ HandleThrow
  <2>1. fatal' = TRUE
    BY <1>1 DEF HandleGiveUp, GiveUpLogin, HandshakeError, HandleThrow, HandlerThrows,
                handleFatalError
  <2> QED
    BY <2>1 DEF SyncInv, LostLogin, Lost
<1>2. CASE HandleRefusal
  <2>1. ~Lost /\ (InOrderReplies => asked = NoJob) /\ held = <<>> /\ Tail(chunk) = <<>>
    BY <1>2, RefusalFacts
  <2>2. /\ fatal' = hello /\ protoErr' = hello /\ asked' = asked /\ held' = held
        /\ chunk' = Tail(chunk) /\ current' = NoJob /\ ~paused'
    BY <1>2 DEF HandleRefusal, Handling, HandshakeError, serverVars
  <2>4. Matched' => InOrderReplies
    BY <2>2, JobFacts, NamesDiffer DEF Matched, InOrderReplies
  <2>3. ReplyInv'
    BY <2>1, <2>2, <2>4, ClearReply
  <2> QED
    BY <2>2, <2>3 DEF SyncInv, LostLogin, Lost
<1> QED
  BY <1>1, <1>2

LEMMA SocketSync ==
  ASSUME CommandInv, NothingInv, SyncInv, CloseInv', SocketStep
  PROVE  SyncInv'
<1> USE DEF queueVars, flowVars
<1>1. TypeOK /\ QueueInv /\ CloseInv
  BY DEF CommandInv, SyncInv
<1>2. /\ Quiet /\ gone' = TRUE /\ asked' = NoJob
      /\ UNCHANGED <<timer, ticks, issued, flowVars, destroyed, connected>>
  BY <1>1, SocketFacts
<1>3. CASE /\ closing /\ closing' = closing
           /\ UNCHANGED <<queueVars, accepting, calls, prepared, fatal, protoErr>>
  BY <1>1, <1>2, <1>3, SameSync
<1>4. CASE /\ \E s \in {"open", "ended", "closed"} : notifyError(s)
           /\ Lost' /\ (~fatal' => ~fatal /\ protoErr' /\ ~closing /\ (~paused \/ gone))
  <2>1. CASE fatal'
    BY <1>4, <2>1 DEF SyncInv, LostLogin, Lost
  <2>2. CASE ~fatal'
    <3>1. ~fatal /\ ~closing /\ (~paused \/ gone) /\ ~Lost
      BY <1>1, <1>4, <2>2 DEF CloseInv, Lost
    <3>2. /\ accepting' = FALSE /\ commands' = <<>>
          /\ \/ current' = NoJob
             \/ current' = current /\ ~HasResult(current)
      BY <1>4, <3>1 DEF notifyError
    <3>3. current'.cmd = Handshake => InTransit' \subseteq {Nothing}
      <4> SUFFICES ASSUME current'.cmd = Handshake PROVE InTransit' = {}
        OBVIOUS
      <4>1. current.cmd = Handshake
        BY <3>2, JobFacts, NamesDiffer
      <4>2. ~gone /\ ~paused
        BY <1>1, <3>1, <4>1 DEF CloseInv, QueueInv
      <4>3. ReplyInv
        BY <3>1 DEF SyncInv
      <4>4. held = <<>> /\ chunk = <<>>
        BY <1>1, <1>2, <4>2, <4>3, HeldEmpty DEF Quiet
      <4> QED
        BY <1>2, <4>4 DEF InTransit, Transit, Elems
    <3>4. ticks' = <<>>
      BY <1>2 DEF Quiet
    <3>5. LostLogin'
      BY <1>2, <3>2, <3>3, <3>4 DEF LostLogin, HasResult
    <3> QED
      BY <1>4, <3>5 DEF SyncInv
  <2> QED
    BY <2>1, <2>2
<1> QED
  BY <1>1, <1>3, <1>4, SocketFacts

LEMMA DataSync ==
  ASSUME CommandInv, NothingInv, SyncInv, CloseInv',
         NEW n \in 0 .. MaxParts, NEW last \in {"none", "ok", "err"}, Data(n, last)
  PROVE  SyncInv'
<1> USE DEF queueVars, resultVars, endVars, loginVars
<1>1. /\ TypeOK /\ Quiet /\ ~paused /\ ~fatal /\ ~gone /\ asked # NoJob
      /\ UNCHANGED <<current, started, commands, fatal, protoErr, ticks, held, paused, gone>>
      /\ UNCHANGED <<connected, accepting>>
      /\ asked' = IF last = "none" THEN asked ELSE NoJob
  BY DEF CommandInv, Data
<1>2. LostLogin'
  <2>1. protoErr => current.cmd # Handshake
    BY <1>1 DEF SyncInv, LostLogin
  <2> QED
    BY <1>1, <2>1 DEF SyncInv, LostLogin, HasResult
<1>3. ASSUME ~Lost' PROVE ReplyInv'
  <2>1. ReplyInv
    BY <1>1, <1>3 DEF SyncInv, Lost
  <2>2. held = <<>> /\ ticks' = <<>> /\ Elems(held') = {}
    BY <1>1, <2>1, HeldEmpty DEF Quiet, Elems
  <2> DEFINE c == chunk'
  <2>3. /\ c \in Seq(Packets)
        /\ \A i \in 1 .. Len(c) : /\ c[i].job = asked /\ c[i] \in Packets
                                  /\ \/ c[i].kind = "part"
                                     \/ i = Len(c) /\ c[i].kind = last /\ last # "none"
    BY <1>1, DataFacts
  <2>4. Transit' = c
    BY <1>1, <2>2, <2>3 DEF Transit
  <2> HIDE DEF c
  <2>5. DOMAIN c = 1 .. Len(c) /\ Len(c) \in Nat
    BY <2>3
  <2>6. \A p \in InTransit' : p.job = asked /\ (p.kind = "err" => last = "err")
    <3>1. InTransit' = Elems(c)
      BY <2>4 DEF InTransit, Elems
    <3>2. \A i \in 1 .. Len(c) : c[i].job = asked /\ (c[i].kind = "err" => last = "err")
      BY <2>3
    <3> QED
      BY <2>5, <3>1, <3>2 DEF Elems
  <2>7. /\ Matched' => asked = current /\ started
        /\ ~InOrderReplies => (current' # NoJob => started') /\ (paused' => current' # NoJob)
    BY <1>1, <2>1 DEF ReplyInv, Matched, InOrderReplies
  <2>8. \A i \in DOMAIN Transit' : Transit'[i] # Nothing /\ Transit'[i].kind # "part" =>
          asked' = NoJob /\ \A j \in DOMAIN Transit' : j > i => Transit'[j] = Nothing
    <3> SUFFICES ASSUME NEW i \in 1 .. Len(c), c[i].kind # "part"
                 PROVE  asked' = NoJob /\ \A j \in 1 .. Len(c) : j > i => c[j] = Nothing
      BY <2>4, <2>5
    <3>1. i = Len(c) /\ last # "none"
      BY <2>3
    <3> QED
      BY <1>1, <2>5, <3>1
  <2>9. \A i \in DOMAIN Transit' : ~IsFarewell(Transit'[i])
    BY <1>1, <2>3, <2>4, <2>5 DEF IsFarewell
  <2>10. \A p \in InTransit' : p.job.cmd = Handshake /\ p.kind = "err" => "login" \in Faults
    BY <2>6 DEF Data
  <2> QED
    BY <1>1, <2>2, <2>6, <2>7, <2>8, <2>9, <2>10 DEF ReplyInv, InOrderReplies
<1> QED
  BY <1>2, <1>3 DEF SyncInv

LEMMA FarewellSync ==
  ASSUME CommandInv, NothingInv, SyncInv, CloseInv', Farewell
  PROVE  SyncInv'
<1> USE DEF queueVars, resultVars, endVars, loginVars
<1>1. /\ TypeOK /\ QueueInv /\ Quiet /\ ~paused /\ ~gone /\ connected
      /\ UNCHANGED <<current, started, commands, fatal, protoErr, ticks, held, paused>>
      /\ UNCHANGED <<connected, accepting>> /\ gone' = TRUE /\ asked' = NoJob
      /\ chunk' = <<Packet(NoJob, "err")>>
  BY DEF CommandInv, Farewell
<1>2. current.cmd # Handshake
  BY <1>1 DEF QueueInv
<1>3. LostLogin'
  BY <1>1, <1>2 DEF SyncInv, LostLogin, HasResult
<1>4. ASSUME ~Lost' PROVE ReplyInv'
  <2>1. ReplyInv
    BY <1>1, <1>4 DEF SyncInv, Lost
  <2>2. held = <<>> /\ ticks' = <<>> /\ Elems(held') = {}
    BY <1>1, <2>1, HeldEmpty DEF Quiet, Elems
  <2> DEFINE p == Packet(NoJob, "err")
             c == <<p>>
  <2>3. p.job = NoJob /\ p.kind = "err" /\ NoJob.cmd # Handshake
    BY PacketFacts, JobFacts, NamesDiffer
  <2>4. DOMAIN c = {1} /\ c[1] = p /\ chunk' = c
    BY <1>1
  <2>5. Transit' = c
    BY <1>1, <2>2 DEF Transit
  <2> HIDE DEF c, p
  <2>6. InTransit' = {p} /\ DOMAIN Transit' = {1} /\ Transit'[1] = p
    BY <2>4, <2>5 DEF InTransit, Elems
  <2> QED
    BY <1>1, <2>1, <2>2, <2>3, <2>6 DEF ReplyInv, IsReply, InOrderReplies
<1> QED
  BY <1>3, <1>4 DEF SyncInv

LEMMA SyncStep ==
  ASSUME CommandInv, NothingInv, SyncInv, [Next]_vars
  PROVE  SyncInv'
<1> USE DEF queueVars, flowVars, endVars, loginVars, serverVars
<1>1. TypeOK /\ CloseInv' /\ (current = NoJob => commands = <<>> /\ ~started)
  BY CloseStep DEF CommandInv, QueueInv
<1>2. ASSUME NEW k \in Cmds, Issue(k) PROVE SyncInv'
  BY <1>1, <1>2, IssueAdds, AddsSync
<1>3. CASE End
  BY <1>1, <1>3, EndAdds, AddsSync
<1>4. CASE \/ \E k \in Cmds : QueryTimeout(k)
           \/ Destroy \/ Pause \/ Connect \/ RunTick \/ UNCHANGED vars
  <2>1. /\ UNCHANGED <<current, started, commands, held, chunk, connected, fatal, protoErr>>
        /\ ticks' # <<>> => ticks # <<>>
        /\ asked' = asked /\ gone' = gone
    BY <1>4 DEF QueryTimeout, Destroy, Pause, Connect, RunTick, vars, resultVars
  <2>2. (accepting' => accepting) /\ (paused' = paused \/ (paused' /\ InOrderReplies))
    <3>1. CASE Destroy
      BY <3>1 DEF Destroy, close
    <3>2. CASE Pause
      BY <3>2, FaultAssumption DEF Pause, InOrderReplies
    <3>3. CASE \E k \in Cmds : QueryTimeout(k)
      BY <3>3 DEF QueryTimeout
    <3>4. CASE Connect \/ RunTick
      BY <3>4 DEF Connect, RunTick
    <3>5. CASE UNCHANGED vars
      BY <3>5 DEF vars
    <3> QED
      BY <1>4, <3>1, <3>2, <3>3, <3>4, <3>5
  <2> QED
    BY <1>1, <2>1, <2>2, SameSync
<1>5. CASE Resume
  BY <1>1, <1>5, ResumeSync
<1>6. CASE Deliver
  <2> QED
    BY <1>1, <1>6, DeliverCases, PartSync, FinishSync, RefusalSync
<1>7. CASE SocketStep
  BY <1>1, <1>7, SocketSync
<1>8. ASSUME NEW n \in 0 .. MaxParts, NEW last \in {"none", "ok", "err"}, Data(n, last)
      PROVE  SyncInv'
  BY <1>1, <1>8, DataSync
<1>9. CASE Farewell
  BY <1>1, <1>9, FarewellSync
<1> QED
  BY <1>2, <1>3, <1>4, <1>5, <1>6, <1>7, <1>8, <1>9 DEF Next, SocketStep

LEMMA SyncInit == Init => SyncInv
<1> SUFFICES ASSUME Init PROVE SyncInv
  OBVIOUS
<1>1. Transit = <<>> /\ InTransit = {} /\ DOMAIN Transit = {} /\ Elems(held) = {}
  BY DEF Init, Transit, InTransit, Elems
<1>2. CloseInv /\ LostLogin
  BY DEF Init, CloseInv, LostLogin
<1>3. ReplyInv
  BY <1>1 DEF Init, ReplyInv
<1> QED
  BY <1>2, <1>3 DEF SyncInv


-----------------------------------------------------------------------------
(* Requests and replies stay in step.                                      *)

SyncIInv == CommandInv /\ NothingInv /\ SyncInv

LEMMA SyncIInvHolds == Spec => []SyncIInv
<1>1. Init => SyncIInv
  BY CommandInit, NothingInit, SyncInit DEF SyncIInv
<1>2. SyncIInv /\ [Next]_vars => SyncIInv'
  BY CommandStep, NothingStep, SyncStep DEF SyncIInv
<1> QED
  BY <1>1, <1>2, PTL DEF Spec

\* Every packet that is still to be handled, and the reply the server is
\* sending, belong to the active command (handlePacket of
\* lib/base/connection.js goes by nothing but the order of packets), unless
\* the decoding of a row may end a command early.
THEOREM InStepHolds == Spec => []InStep
<1>1. SyncIInv => InStep
  <2> SUFFICES ASSUME SyncIInv PROVE InStep
    OBVIOUS
  <2>1. TypeOK
    BY DEF SyncIInv, CommandInv
  <2>2. ASSUME ~Lost, InOrderReplies,
               NEW j \in {p.job : p \in Elems(held \o chunk)} \union {asked}, j # NoJob
        PROVE  j = current /\ started
    <3>1. ReplyInv /\ Matched
      BY <2>2 DEF SyncIInv, SyncInv, Matched
    <3>2. CASE j = asked
      BY <2>2, <3>1, <3>2 DEF ReplyInv
    <3>3. ASSUME NEW p \in Elems(held \o chunk), j = p.job
          PROVE  j = current /\ started
      BY <2>2, <3>1, <3>3 DEF ReplyInv, IsReply, InTransit, Transit
    <3> QED
      BY <2>2, <3>2, <3>3
  <2> QED
    BY <2>1, <2>2 DEF InStep, InOrderReplies
<1> QED
  BY <1>1, SyncIInvHolds, PTL


-----------------------------------------------------------------------------
(* The steps by what they do to the callbacks, once more.                  *)

LEMMA HandlingFacts ==
  ASSUME CommandInv, NothingInv, SyncInv, Handling
  PROVE  ticks = <<>> /\ (HandleDone => started \/ current.cmd \in Silent)
<1>1. /\ TypeOK /\ ~fatal /\ chunk # <<>> /\ current # NoJob
  BY DEF Handling, CommandInv
<1>2. Head(chunk) \in InTransit /\ Head(chunk) # Nothing
  <2>1. chunk \in Seq(Packets)
    BY <1>1 DEF TypeOK
  <2> QED
    BY <1>1, <2>1, TailFacts, TransitFacts, NothingTail
<1>3. CASE protoErr
  <2>1. ticks = <<>> /\ ~HasResult(current)
    BY <1>1, <1>3 DEF SyncInv, LostLogin
  <2>2. ASSUME HandleDone PROVE current.cmd \in Silent
    BY <2>1, <2>2, NamesDiffer DEF HandleDone, HasResult
  <2> QED
    BY <2>1, <2>2
<1>4. CASE ~protoErr
  <2>1. ReplyInv
    BY <1>1, <1>4 DEF SyncInv, Lost
  <2>2. ticks = <<>>
    BY <1>2, <2>1 DEF ReplyInv
  <2>3. ASSUME HandleDone PROVE started
    <3>1. CASE ~InOrderReplies
      BY <1>1, <2>1, <3>1 DEF ReplyInv
    <3>2. CASE InOrderReplies
      <4>1. ~IsFarewell(Head(chunk))
        <5>1. PICK i \in DOMAIN Transit : Transit[i] = Head(chunk)
          BY <1>2 DEF InTransit, Elems
        <5> QED
          BY <2>1, <2>3, <5>1 DEF ReplyInv, HandleDone
      <4>2. IsReply(Head(chunk))
        BY <1>2, <4>1 DEF IsReply, IsFarewell
      <4> QED
        BY <1>2, <2>1, <3>2, <4>2 DEF ReplyInv, Matched
    <3> QED
      BY <3>1, <3>2
  <2> QED
    BY <2>2, <2>3
<1> QED
  BY <1>3, <1>4

\* The active command ends by a packet.
Ends(m) ==
    \/ FinishLogin(m) \/ FinishPrepare(m) \/ FinishErr(m) \/ FinishRow(m)
    \/ FinishRun(m) /\ (started \/ current.cmd \in Silent)

\* An error, or the end of a command, comes only when no callback is deferred.
OrderStep ==
    \/ AppStep
    \/ ticks = <<>> /\ \E js \in {Pending, commands} : Fails(js)
    \/ ticks = <<>> /\ \E m \in 1 .. Len(Pending) : Ends(m)

LEMMA OrderClass ==
  ASSUME CommandInv, NothingInv, SyncInv, [Next]_vars
  PROVE  OrderStep
<1>1. TypeOK /\ (current = NoJob => commands = <<>> /\ ~started)
  BY DEF CommandInv, QueueInv
<1>2. CASE Deliver
  <2>1. CASE Rests
    BY <2>1 DEF OrderStep, AppStep
  <2>2. CASE Handling /\ \E js \in {Pending, commands} : Fails(js)
    BY <2>2, HandlingFacts DEF OrderStep
  <2>3. ASSUME Handling, NEW m \in 1 .. Len(Pending),
               \/ FinishLogin(m) \/ FinishPrepare(m) \/ (FinishRun(m) /\ HandleDone)
               \/ FinishErr(m) \/ FinishRow(m)
        PROVE  OrderStep
    <3>1. ticks = <<>> /\ Ends(m)
      BY <2>3, HandlingFacts DEF Ends
    <3> QED
      BY <3>1 DEF OrderStep
  <2> QED
    BY <1>1, <1>2, <2>1, <2>2, <2>3, DeliverClass
<1>3. CASE SocketStep
  BY <1>3, SocketClass DEF OrderStep, AppStep
<1>4. CASE ~Deliver /\ ~SocketStep
  BY <1>1, <1>4, AppClass DEF OrderStep
<1> QED
  BY <1>2, <1>3, <1>4

LEMMA EndsFinishing == \A m : Ends(m) => Finishing(m)
BY DEF Ends, Finishing

\* A call that has been answered stays so.
LEMMA AnsweredKept ==
  ASSUME TypeOK, QueueInv, CallInv, TypeOK', OrderStep,
         NEW k \in Cmds \union {Quit}, Answered(k)
  PROVE  Answered(k)'
<1>1. /\ calls \in [Cmds \union {Quit} -> 0 .. 2] /\ calls[k] > 0
      /\ calls[k] \in Nat /\ calls'[k] \in Nat
  <2>1. calls \in [Cmds \union {Quit} -> 0 .. 2] /\ calls' \in [Cmds \union {Quit} -> 0 .. 2]
    BY DEF TypeOK
  <2> QED
    BY <2>1 DEF Answered
<1> SUFFICES calls'[k] > 0
  BY DEF Answered
<1>2. CASE Rests
  BY <1>1, <1>2 DEF Rests, resultVars
<1>3. ASSUME NEW c \in Cmds, calls' = CallsAfter(<<Job(c, "run")>>)
      PROVE  calls'[k] > 0
  <2>1. /\ k # c => calls'[k] = calls[k]
        /\ c \in Silent => calls'[c] = calls[c]
        /\ c \notin Silent => calls'[c] >= 1
        /\ calls' \in [Cmds \union {Quit} -> 0 .. 2]
    BY <1>1, <1>3, SingleCall
  <2> QED
    BY <1>1, <2>1
<1>4. CASE (\E c \in Cmds : TimesOut(c)) \/ Ticks
  <2>1. CASE Ticks
    <3>1. Head(ticks) \in Cmds
      BY <2>1, TailFacts DEF Ticks, TypeOK
    <3> QED
      BY <1>3, <2>1, <3>1 DEF Ticks
  <2> QED
    BY <1>3, <1>4, <2>1 DEF TimesOut
<1>5. ASSUME NEW c \in Cmds \union {Quit}, Queues(c) \/ Refuses(c)
      PROVE  calls'[k] > 0
  <2>1. CASE calls' = CallsAfter(NewJobs(c))
    <3>1. CallsAfter(NewJobs(c))[k] >= calls[k] /\ CallsAfter(NewJobs(c))[k] \in 0 .. 2
      <4>1. NewJobs(c) \in Seq(Jobs)
        BY NewJobsFacts
      <4> QED
        BY <1>1, <4>1, CallsAfterFacts
    <3> QED
      BY <1>1, <2>1, <3>1
  <2>2. CASE calls' = [calls EXCEPT ![Quit] = IF @ = 2 THEN 2 ELSE @ + 1]
    BY <1>1, <2>2
  <2>3. CASE Queues(c)
    BY <1>1, <2>3 DEF Queues
  <2> QED
    BY <1>5, <2>1, <2>2, <2>3 DEF Refuses
<1>6. ASSUME NEW js \in {Pending, commands}, Fails(js)
      PROVE  calls'[k] > 0
  <2>1. calls'[k] = calls[k] \/ calls'[k] > calls[k]
    BY <1>6, FailsCalls
  <2> QED
    BY <1>1, <2>1
<1>7. ASSUME NEW m \in 1 .. Len(Pending), Finishing(m)
      PROVE  calls'[k] > 0
  <2>1. calls'[k] >= calls[k]
    BY <1>7, FinishCalls
  <2> QED
    BY <1>1, <2>1
<1> QED
  BY <1>2, <1>4, <1>5, <1>6, <1>7, EndsFinishing DEF OrderStep, AppStep


-----------------------------------------------------------------------------
(* No call is forgotten.                                                   *)

\* The commands of a queue, by their places.
LEMMA CmdsPlace ==
  ASSUME TypeOK
  PROVE  /\ Pending \in Seq(Jobs) /\ DOMAIN Pending = 1 .. Len(Pending) /\ Len(Pending) \in Nat
         /\ \A i \in DOMAIN Pending : Pending[i].cmd \in CmdsOf(Pending)
         /\ \A k \in CmdsOf(Pending) : \E i \in DOMAIN Pending : Pending[i].cmd = k
         /\ current # NoJob => Pending[1] = current
<1>1. current \in Jobs \union {NoJob} /\ commands \in Seq(Jobs)
  BY DEF TypeOK
<1> QED
  BY <1>1, PendingFacts DEF CmdsOf

\* A command that ends with an error has its callback called.
LEMMA ErrAnswers ==
  ASSUME TypeOK, QueueInv, CallInv, TypeOK', NEW m \in 1 .. Len(Pending),
         FinishErr(m) \/ FinishRow(m),
         NEW c \in Cmds \union {Quit}, c = current.cmd, c \notin Silent
  PROVE  Answered(c)'
<1> DEFINE cl == CallsAfter(<<current>>)
<1>1. PICK prep, tm : Moved(m, prep, cl, tm) /\ current # NoJob
  BY DEF FinishErr, FinishRow, Finishes
<1>2. cl \in [Cmds \union {Quit} -> 0 .. 2] /\ cl[c] >= 1
  BY <1>1, CurrentCall
<1> HIDE DEF cl
<1>3. \/ calls' = cl
      \/ calls' = [cl EXCEPT ![Quit] = IF @ = 2 THEN 2 ELSE @ + 1]
  BY <1>1 DEF Moved
<1>4. calls'[c] >= 1
  <2>1. CASE calls' = cl
    BY <1>2, <2>1
  <2>2. CASE calls' = [cl EXCEPT ![Quit] = IF @ = 2 THEN 2 ELSE @ + 1]
    BY <1>2, <2>2
  <2> QED
    BY <1>3, <2>1, <2>2
<1>5. calls'[c] \in Nat
  <2>1. calls' \in [Cmds \union {Quit} -> 0 .. 2]
    BY DEF TypeOK
  <2> QED
    BY <2>1
<1> QED
  BY <1>4, <1>5 DEF Answered

\* The commands that end with the active one without being sent: the Execute
\* of a Prepare that has failed, and Quit.
LEMMA InstantAnswered ==
  ASSUME TypeOK, QueueInv, CallInv, TypeOK', NEW m \in 1 .. Len(Pending), Finishing(m),
         NEW i \in 2 .. m, Pending[i].cmd \in Cmds \union {Quit}
  PROVE  /\ Pending[i].cmd = Quit => Answered(Quit)'
         /\ Pending[i].cmd # Quit =>
              Pending[i].cmd \in Executes /\ prepared'[Pending[i].cmd] = "failed"
<1>1. PICK prep, cl, tm :
         /\ Moved(m, prep, cl, tm) /\ current # NoJob
         /\ cl = calls \/ cl = CallsAfter(<<current>>)
  BY DEF Finishing, FinishLogin, FinishPrepare, FinishRun, FinishErr, FinishRow, Finishes
<1>2. Instant(Pending[i], prep) /\ prepared' = prep
  BY <1>1 DEF Moved
<1>3. /\ Pending \in Seq(Jobs) /\ Len(Pending) \in Nat /\ DOMAIN Pending = 1 .. Len(Pending)
      /\ Pending[1] = current
  BY <1>1, CmdsPlace
<1>4. ASSUME Pending[i].cmd = Quit PROVE Answered(Quit)'
  <2>1. i = Len(Pending) /\ m = Len(Pending)
    <3>1. i \in DOMAIN Pending
      BY <1>3
    <3>2. i = Len(Pending)
      BY <1>4, <3>1 DEF QueueInv, Shape
    <3>3. i \in Nat /\ m \in Nat /\ i <= m /\ m <= Len(Pending)
      BY <1>3
    <3> DEFINE len == Len(Pending)
    <3>4. len \in Nat /\ i = len /\ m <= len
      BY <1>3, <3>2, <3>3
    <3> HIDE DEF len
    <3>5. m = len
      BY <3>3, <3>4
    <3> QED
      BY <3>2, <3>5 DEF len
  <2>2. calls' = [cl EXCEPT ![Quit] = IF @ = 2 THEN 2 ELSE @ + 1]
    BY <1>1, <1>4, <2>1 DEF Moved
  <2>3. cl \in [Cmds \union {Quit} -> 0 .. 2]
    <3>1. calls \in [Cmds \union {Quit} -> 0 .. 2]
      BY DEF TypeOK
    <3> QED
      BY <1>1, <3>1, CurrentCall
  <2>4. calls'[Quit] = IF cl[Quit] = 2 THEN 2 ELSE cl[Quit] + 1
    BY <2>2, <2>3
  <2>5. cl[Quit] \in 0 .. 2
    BY <2>3
  <2> QED
    BY <2>4, <2>5 DEF Answered
<1>5. ASSUME Pending[i].cmd # Quit
      PROVE  Pending[i].cmd \in Executes /\ prepared'[Pending[i].cmd] = "failed"
  BY <1>2, <1>5 DEF Instant
<1> QED
  BY <1>4, <1>5

\* A callback that is called once more has been called.
LEMMA CalledAnswers ==
  ASSUME TypeOK, TypeOK', NEW k \in Cmds \union {Quit}, calls'[k] > calls[k] \/ calls'[k] >= 1
  PROVE  Answered(k)'
<1>1. calls[k] \in Nat /\ calls'[k] \in Nat
  <2>1. calls \in [Cmds \union {Quit} -> 0 .. 2] /\ calls' \in [Cmds \union {Quit} -> 0 .. 2]
    BY DEF TypeOK
  <2> QED
    BY <2>1
<1> QED
  BY <1>1 DEF Answered

LEMMA IssuedFacts ==
  ASSUME TypeOK
  PROVE  \A k \in Elems(issued) : k \in Cmds \union {Quit}
<1>1. issued \in Seq(Cmds \union {Quit})
  BY DEF TypeOK
<1>2. \A i \in DOMAIN issued : issued[i] \in Cmds \union {Quit}
  BY <1>1
<1> QED
  BY <1>2 DEF Elems

LEMMA KindsFacts ==
  /\ Executes \subseteq Cmds /\ Timed \subseteq Cmds /\ Silent \subseteq Cmds
  /\ \A k \in Executes : k \notin Silent
  /\ NoJob.cmd \notin Cmds /\ Handshake \notin Cmds /\ Quit \notin Cmds
BY KindsAssumption, NamesDiffer, JobFacts

LEMMA FailsKept ==
  ASSUME TypeOK, QueueInv, CallInv, KeptInv, TypeOK', OrderStep,
         NEW js \in {Pending, commands}, Fails(js)
  PROVE  KeptInv'
<1>1. /\ js \in Seq(Jobs) /\ \A k \in Cmds \union {Quit} : k \in CmdsOf(js) <=> k \in CmdsOf(Pending)
      /\ \/ current' = NoJob
         \/ current' = current /\ current.cmd \in Silent \union {Handshake}
  BY FailsFacts
<1>2. prepared' = PreparedAfter(js) /\ ticks' = ticks /\ issued' = issued
  BY DEF Fails
<1>3. ASSUME NEW k \in Cmds \union {Quit}, k \notin Silent, k \in CmdsOf(Pending)
      PROVE  Answered(k)'
  <2>1. calls'[k] > calls[k]
    BY <1>3, FailsCalls
  <2> QED
    BY <2>1, CalledAnswers
<1>4. ASSUME NEW k \in Executes, prepared'[k] = "failed"
      PROVE  Answered(k)'
  <2>1. k \in Cmds \union {Quit} /\ k \notin Silent
    BY KindsFacts
  <2>2. prepared \in [Executes -> {"no", "ok", "failed"}]
    BY DEF TypeOK
  <2>3. prepared[k] = "failed" \/ k \in CmdsOf(js)
    BY <1>1, <1>2, <1>4, <2>2, PreparedAfterFacts
  <2>4. CASE prepared[k] = "failed"
    BY <2>1, <2>4, AnsweredKept DEF KeptInv
  <2> QED
    BY <1>1, <1>3, <2>1, <2>3, <2>4
<1>5. ASSUME NEW k \in Elems(issued') \ Silent
      PROVE  Answered(k)' \/ k \in CmdsOf(Pending') \union Elems(ticks')
  <2>1. k \in Cmds \union {Quit} /\ k \in Elems(issued)
    BY <1>2, IssuedFacts
  <2>2. Answered(k) \/ k \in CmdsOf(Pending) \union Elems(ticks)
    BY <1>5, <2>1 DEF KeptInv
  <2> QED
    BY <1>2, <1>3, <1>5, <2>1, <2>2, AnsweredKept
<1>6. current'.cmd \notin Timed \ Silent
  BY <1>1, KindsFacts
<1> QED
  BY <1>4, <1>5, <1>6 DEF KeptInv

LEMMA TimesOutKept ==
  ASSUME TypeOK, QueueInv, CallInv, KeptInv, TypeOK', OrderStep, NEW c \in Cmds, TimesOut(c)
  PROVE  KeptInv'
<1>1. /\ UNCHANGED <<current, started, commands, prepared, ticks, issued>>
      /\ timer' = [timer EXCEPT ![c] = FALSE] /\ calls' = CallsAfter(<<Job(c, "run")>>)
  BY DEF TimesOut, queueVars
<1>2. Pending' = Pending
  BY <1>1, PendingSame
<1>3. ASSUME NEW k \in Executes, prepared'[k] = "failed"
      PROVE  Answered(k)'
  BY <1>1, <1>3, KindsFacts, AnsweredKept DEF KeptInv
<1>4. ASSUME NEW k \in Elems(issued') \ Silent
      PROVE  Answered(k)' \/ k \in CmdsOf(Pending') \union Elems(ticks')
  <2>1. k \in Cmds \union {Quit}
    BY <1>1, IssuedFacts
  <2> QED
    BY <1>1, <1>2, <1>4, <2>1, AnsweredKept DEF KeptInv
<1>5. ASSUME NEW k \in Timed \ Silent, k = current.cmd, current.step = "run", started,
             ~timer'[k]
      PROVE  Answered(k)'
  <2>1. k \in Cmds
    BY KindsFacts
  <2>2. CASE k = c
    <3>1. calls'[k] >= 1
      <4>1. calls \in [Cmds \union {Quit} -> 0 .. 2]
        BY DEF TypeOK
      <4> QED
        BY <1>1, <1>5, <2>2, <4>1, SingleCall
    <3> QED
      BY <2>1, <3>1, CalledAnswers
  <2>3. CASE k # c
    <3>1. ~timer[k]
      <4>1. timer \in [Cmds -> BOOLEAN]
        BY DEF TypeOK
      <4> QED
        BY <1>1, <1>5, <2>1, <2>3, <4>1
    <3>2. Answered(k)
      BY <1>5, <3>1 DEF KeptInv
    <3> QED
      BY <2>1, <3>2, AnsweredKept
  <2> QED
    BY <2>2, <2>3
<1>6. KeptInv' <=>
        /\ \A k \in Executes : prepared'[k] = "failed" => Answered(k)'
        /\ \A k \in Elems(issued') \ Silent :
              Answered(k)' \/ k \in CmdsOf(Pending') \union Elems(ticks')
        /\ current'.cmd \in Timed \ Silent /\ current'.step = "run" /\ started'
              /\ ~timer'[current'.cmd] => calls'[current'.cmd] > 0
  BY DEF KeptInv, Answered
<1>7. current.cmd \in Timed \ Silent /\ current.step = "run" /\ started
         /\ ~timer'[current.cmd] => calls'[current.cmd] > 0
  BY <1>5 DEF Answered
<1> QED
  BY <1>1, <1>3, <1>4, <1>6, <1>7

LEMMA HeadOrTail ==
  ASSUME NEW S, NEW s \in Seq(S), s # <<>>, NEW x \in Elems(s)
  PROVE  x = Head(s) \/ x \in Elems(Tail(s))
<1>1. PICK i \in DOMAIN s : s[i] = x
  BY DEF Elems
<1>2. /\ DOMAIN s = 1 .. Len(s) /\ Len(s) \in Nat
      /\ Head(s) = s[1] /\ DOMAIN Tail(s) = 1 .. Len(s) - 1
      /\ \A j \in 1 .. Len(s) - 1 : Tail(s)[j] = s[j + 1]
  BY TailFacts
<1>3. CASE i = 1
  BY <1>1, <1>2, <1>3
<1>4. CASE i # 1
  <2>1. i - 1 \in 1 .. Len(s) - 1 /\ (i - 1) + 1 = i
    BY <1>1, <1>2, <1>4
  <2>2. Tail(s)[i - 1] = x /\ i - 1 \in DOMAIN Tail(s)
    BY <1>1, <1>2, <2>1
  <2> QED
    BY <2>2 DEF Elems
<1> QED
  BY <1>3, <1>4

LEMMA TicksKeptCall ==
  ASSUME TypeOK, QueueInv, CallInv, TypeOK', Ticks,
         NEW k \in Elems(ticks), k \notin Silent
  PROVE  Answered(k)' \/ k \in Elems(ticks')
<1>1. /\ ticks \in Seq(Cmds) /\ ticks # <<>> /\ ticks' = Tail(ticks)
      /\ calls' = CallsAfter(<<Job(Head(ticks), "run")>>)
      /\ calls \in [Cmds \union {Quit} -> 0 .. 2]
  BY DEF Ticks, TypeOK
<1>2. Head(ticks) \in Cmds
  BY <1>1, TailFacts
<1>3. CASE k = Head(ticks)
  <2>1. calls'[k] >= 1
    BY <1>1, <1>2, <1>3, SingleCall
  <2> QED
    BY <1>2, <1>3, <2>1, CalledAnswers
<1> QED
  BY <1>1, <1>3, HeadOrTail

LEMMA TicksKept ==
  ASSUME TypeOK, QueueInv, CallInv, KeptInv, TypeOK', OrderStep, Ticks
  PROVE  KeptInv'
<1>1. UNCHANGED <<current, started, commands, prepared, timer, issued>>
  BY DEF Ticks, queueVars
<1>2. Pending' = Pending
  BY <1>1, PendingSame
<1>3. ASSUME NEW k \in Executes, prepared'[k] = "failed"
      PROVE  Answered(k)'
  BY <1>1, <1>3, KindsFacts, AnsweredKept DEF KeptInv
<1>4. ASSUME NEW k \in Elems(issued') \ Silent
      PROVE  Answered(k)' \/ k \in CmdsOf(Pending') \union Elems(ticks')
  <2>1. k \in Cmds \union {Quit}
    BY <1>1, IssuedFacts
  <2>2. Answered(k) \/ k \in CmdsOf(Pending) \union Elems(ticks)
    BY <1>1, <1>4 DEF KeptInv
  <2> QED
    BY <1>2, <1>4, <2>1, <2>2, AnsweredKept, TicksKeptCall
<1>5. ASSUME NEW k \in Timed \ Silent, k = current.cmd, current.step = "run", started, ~timer[k]
      PROVE  Answered(k)'
  BY <1>5, KindsFacts, AnsweredKept DEF KeptInv
<1>6. current.cmd \in Timed \ Silent /\ current.step = "run" /\ started
         /\ ~timer[current.cmd] => calls'[current.cmd] > 0
  BY <1>5 DEF Answered
<1> QED
  BY <1>1, <1>3, <1>4, <1>6 DEF KeptInv, Answered

LEMMA QueuesKept ==
  ASSUME TypeOK, QueueInv, CallInv, KeptInv, TypeOK', OrderStep,
         NEW c \in Cmds \union {Quit}, Queues(c)
  PROVE  KeptInv'
<1>1. /\ Pushed(NewJobs(c)) /\ c \notin Elems(issued) /\ issued' = Append(issued, c)
      /\ UNCHANGED <<prepared, calls, ticks>>
      /\ current \in Jobs \union {NoJob}
  BY DEF Queues, TypeOK
<1>2. CmdsOf(Pending') = CmdsOf(Pending) \union {c} /\ Elems(issued') = Elems(issued) \union {c}
  BY <1>1, PushedCmds, AppendIssued
<1>3. ASSUME NEW k \in Executes, prepared'[k] = "failed"
      PROVE  Answered(k)'
  BY <1>1, <1>3, KindsFacts, AnsweredKept DEF KeptInv
<1>4. ASSUME NEW k \in Elems(issued') \ Silent
      PROVE  Answered(k)' \/ k \in CmdsOf(Pending') \union Elems(ticks')
  <2>1. CASE k \in Elems(issued)
    <3>1. Answered(k) \/ k \in CmdsOf(Pending) \union Elems(ticks)
      BY <1>4, <2>1 DEF KeptInv
    <3> QED
      BY <1>1, <1>2, <3>1 DEF Answered
  <2> QED
    BY <1>2, <1>4, <2>1
<1>5. ASSUME current'.cmd \in Timed \ Silent, current'.step = "run", started',
             ~timer'[current'.cmd]
      PROVE  calls'[current'.cmd] > 0
  <2>1. CASE timer' = timer /\ started /\ current # NoJob
    <3>1. current' = current
      BY <1>1, <2>1 DEF Pushed
    <3> QED
      BY <1>1, <1>5, <2>1, <3>1 DEF KeptInv, Answered
  <2>2. CASE timer' = [l \in Cmds |-> timer[l] \/ (current' = Job(l, "run") /\ l \in Timed)]
    <3>1. current' \in Jobs /\ current'.cmd \in Cmds
      BY <1>1, <1>5, KindsFacts DEF Pushed
    <3>2. current' = Job(current'.cmd, "run")
      BY <1>5, <3>1, JobFacts
    <3>3. timer'[current'.cmd]
      BY <1>5, <2>2, <3>1, <3>2
    <3> QED
      BY <1>5, <3>3
  <2> QED
    BY <1>5, <2>1, <2>2 DEF Queues
<1> QED
  BY <1>3, <1>4, <1>5 DEF KeptInv, Answered

\* A call that is refused is answered, if it has a callback.
LEMMA RefusedAnswered ==
  ASSUME TypeOK, TypeOK', NEW c \in Cmds \union {Quit}, Refuses(c), c \notin Silent
  PROVE  Answered(c)'
<1>1. calls \in [Cmds \union {Quit} -> 0 .. 2]
  BY DEF TypeOK
<1>2. CASE calls' = CallsAfter(NewJobs(c))
  <2>1. NewJobs(c) \in Seq(Jobs) /\ c \in CmdsOf(NewJobs(c))
    BY NewJobsFacts
  <2>2. calls'[c] >= 1
    BY <1>1, <1>2, <2>1, CallsAfterFacts
  <2> QED
    BY <2>2, CalledAnswers
<1>3. CASE c = Quit /\ calls' = [calls EXCEPT ![Quit] = IF @ = 2 THEN 2 ELSE @ + 1]
  <2>1. calls[Quit] \in 0 .. 2 /\ calls'[Quit] = IF calls[Quit] = 2 THEN 2 ELSE calls[Quit] + 1
    BY <1>1, <1>3
  <2>2. calls'[Quit] >= 1
    BY <2>1
  <2> QED
    BY <1>3, <2>2, CalledAnswers
<1> QED
  BY <1>2, <1>3 DEF Refuses

LEMMA RefusesKept ==
  ASSUME TypeOK, QueueInv, CallInv, KeptInv, TypeOK', OrderStep,
         NEW c \in Cmds \union {Quit}, Refuses(c)
  PROVE  KeptInv'
<1>1. /\ UNCHANGED <<current, started, commands, prepared, timer, ticks>>
      /\ c \notin Elems(issued) /\ issued' = Append(issued, c)
  BY DEF Refuses, queueVars
<1>2. Pending' = Pending /\ Elems(issued') = Elems(issued) \union {c}
  BY <1>1, PendingSame, AppendIssued
<1>3. ASSUME NEW k \in Executes, prepared'[k] = "failed"
      PROVE  Answered(k)'
  BY <1>1, <1>3, KindsFacts, AnsweredKept DEF KeptInv
<1>4. ASSUME NEW k \in Elems(issued') \ Silent
      PROVE  Answered(k)' \/ k \in CmdsOf(Pending') \union Elems(ticks')
  <2>1. CASE k \in Elems(issued)
    <3>1. k \in Cmds \union {Quit}
      BY <2>1, IssuedFacts
    <3>2. Answered(k) \/ k \in CmdsOf(Pending) \union Elems(ticks)
      BY <1>4, <2>1 DEF KeptInv
    <3> QED
      BY <1>1, <1>2, <3>1, <3>2, AnsweredKept
  <2> QED
    BY <1>2, <1>4, <2>1, RefusedAnswered
<1>5. ASSUME NEW k \in Timed \ Silent, k = current.cmd, current.step = "run", started, ~timer[k]
      PROVE  Answered(k)'
  BY <1>5, KindsFacts, AnsweredKept DEF KeptInv
<1>6. current.cmd \in Timed \ Silent /\ current.step = "run" /\ started
         /\ ~timer[current.cmd] => calls'[current.cmd] > 0
  BY <1>5 DEF Answered
<1> QED
  BY <1>1, <1>3, <1>4, <1>6 DEF KeptInv, Answered

\* A Prepare whose reply is complete is followed by its Execute.
LEMMA PreparedNext ==
  ASSUME TypeOK, QueueInv, NEW m \in 1 .. Len(Pending), FinishPrepare(m)
  PROVE  1 \in DOMAIN Pending' /\ Pending'[1].cmd = current.cmd
<1>1. /\ current # NoJob /\ current.step = "prepare" /\ Popped(m)
      /\ \A i \in 2 .. m : Instant(Pending[i], [prepared EXCEPT ![current.cmd] = "ok"])
  BY DEF FinishPrepare, Finishes, Moved
<1>2. /\ Pending[1] = current /\ DOMAIN Pending = 1 .. Len(Pending) /\ Len(Pending) \in Nat
      /\ Pending' \in Seq(Jobs) /\ Len(Pending') = Len(Pending) - m
      /\ \A i \in 1 .. Len(Pending') : Pending'[i] = Pending[i + m]
  BY <1>1, CmdsPlace, PopFacts
<1>3. 1 \in DOMAIN Pending
  BY <1>2
<1>4. current.cmd \in Executes /\ 1 < Len(Pending) /\ Pending[2] = Job(current.cmd, "run")
  BY <1>1, <1>2, <1>3 DEF QueueInv, Shape
<1>5. current.cmd \in Cmds /\ current.cmd # Quit
  BY <1>4, KindsFacts
<1>6. Pending[2].cmd = current.cmd
  BY <1>4, <1>5, JobFacts DEF Names
<1>7. ~Instant(Pending[2], [prepared EXCEPT ![current.cmd] = "ok"])
  <2>1. prepared \in [Executes -> {"no", "ok", "failed"}]
    BY DEF TypeOK
  <2> QED
    BY <1>4, <1>5, <1>6, <2>1 DEF Instant
<1>8. m = 1
  BY <1>1, <1>2, <1>7
<1>9. 1 \in 1 .. Len(Pending') /\ Pending'[1] = Pending[2]
  BY <1>2, <1>4, <1>8
<1> QED
  BY <1>2, <1>6, <1>9

\* An execute() whose Prepare has failed is answered.
LEMMA EndsPrepared ==
  ASSUME TypeOK, QueueInv, CallInv, KeptInv, TypeOK', OrderStep,
         NEW m \in 1 .. Len(Pending), Ends(m)
  PROVE  \A l \in Executes : prepared'[l] = "failed" => Answered(l)'
<1>1. Finishing(m)
  BY EndsFinishing
<1>2. ASSUME NEW l \in Executes, prepared'[l] = "failed"
      PROVE  Answered(l)'
  <2>1. l \in Cmds \union {Quit} /\ l \notin Silent
    BY KindsFacts
  <2>2. CASE prepared[l] = "failed"
    BY <2>1, <2>2, AnsweredKept DEF KeptInv
  <2>3. CASE FinishErr(m) /\ l = current.cmd
    BY <2>1, <2>3, ErrAnswers
  <2>4. prepared[l] = "failed" \/ (FinishErr(m) /\ l = current.cmd)
    <3>1. prepared \in [Executes -> {"no", "ok", "failed"}]
      BY DEF TypeOK
    <3>2. CASE FinishLogin(m) \/ FinishRun(m) \/ FinishRow(m)
      BY <1>2, <3>2 DEF FinishLogin, FinishRun, FinishRow, Finishes, Moved
    <3>3. CASE FinishPrepare(m)
      <4>1. prepared' = [prepared EXCEPT ![current.cmd] = "ok"]
        BY <3>3 DEF FinishPrepare, Finishes, Moved
      <4> QED
        BY <1>2, <3>1, <4>1
    <3>4. CASE FinishErr(m)
      <4>1. prepared' = IF current.step = "prepare"
                        THEN [prepared EXCEPT ![current.cmd] = "failed"] ELSE prepared
        BY <3>4 DEF FinishErr, Finishes, Moved
      <4> QED
        BY <1>2, <3>1, <3>4, <4>1
    <3> QED
      BY <1>1, <3>2, <3>3, <3>4 DEF Finishing
  <2> QED
    BY <2>2, <2>3, <2>4
<1> QED
  BY <1>2

\* A call whose command leaves the queue is answered, or its callback is
\* deferred; that of an execute() may go on with its Execute.
LEMMA EndsAnswered ==
  ASSUME TypeOK, QueueInv, CallInv, KeptInv, TypeOK', OrderStep,
         NEW m \in 1 .. Len(Pending), Ends(m), NEW i \in 1 .. m,
         NEW k \in Cmds \union {Quit}, k = Pending[i].cmd, k \notin Silent
  PROVE  \/ Answered(k)'
         \/ k = current.cmd /\ k \in Cmds /\ FinishRun(m) /\ ticks' = Append(ticks, k)
         \/ k = current.cmd /\ 1 \in DOMAIN Pending' /\ Pending'[1].cmd = k
<1>1. /\ current # NoJob
      /\ Finishing(m)
  BY EndsFinishing DEF Ends, FinishLogin, FinishPrepare, FinishRun, FinishErr, FinishRow, Finishes
<1>2. Pending[1] = current
  BY <1>1, CmdsPlace
<1>3. \A l \in Executes : prepared'[l] = "failed" => Answered(l)'
  BY EndsPrepared
<1>4. CASE i # 1
  <2>1. i \in 2 .. m
    BY <1>4
  <2>2. /\ k = Quit => Answered(Quit)'
        /\ k # Quit => k \in Executes /\ prepared'[k] = "failed"
    BY <1>1, <2>1, InstantAnswered
  <2> QED
    BY <1>3, <2>2
<1>5. CASE i = 1
  <2>1. k = current.cmd
    BY <1>2, <1>5
  <2>2. CASE FinishLogin(m)
    BY <2>1, <2>2, NamesDiffer DEF FinishLogin
  <2>3. CASE FinishPrepare(m)
    BY <2>1, <2>3, PreparedNext
  <2>4. CASE FinishErr(m) \/ FinishRow(m)
    BY <2>1, <2>4, ErrAnswers
  <2>5. CASE FinishRun(m) /\ (started \/ current.cmd \in Silent)
    <3>1. k \in Cmds /\ current.step = "run" /\ started
      BY <2>1, <2>5 DEF FinishRun
    <3>2. CASE k \in Timed /\ ~timer[k]
      <4>1. Answered(k)
        BY <2>1, <3>1, <3>2 DEF KeptInv
      <4> QED
        BY <4>1, AnsweredKept
    <3>3. CASE ~(k \in Timed /\ ~timer[k])
      BY <2>1, <2>5, <3>1, <3>3 DEF FinishRun
    <3> QED
      BY <3>2, <3>3
  <2> QED
    BY <2>2, <2>3, <2>4, <2>5 DEF Ends
<1> QED
  BY <1>4, <1>5

LEMMA EndsFacts ==
  ASSUME TypeOK, QueueInv, NEW m \in 1 .. Len(Pending), Ends(m)
  PROVE  /\ current # NoJob /\ Popped(m) /\ issued' = issued
         /\ Pending \in Seq(Jobs) /\ DOMAIN Pending = 1 .. Len(Pending) /\ Len(Pending) \in Nat
         /\ Pending[1] = current /\ current \in Jobs
         /\ Pending' \in Seq(Jobs) /\ DOMAIN Pending' = 1 .. Len(Pending) - m
         /\ \A i \in 1 .. Len(Pending) - m : Pending'[i] = Pending[i + m]
         /\ \/ ticks' = ticks
            \/ FinishRun(m) /\ current.cmd \in Cmds /\ ticks' = Append(ticks, current.cmd)
         /\ current' # NoJob => /\ current' \in Jobs
                                /\ \A k \in Timed : current' = Job(k, "run") => timer'[k]
<1>1. Finishing(m) /\ current # NoJob /\ Popped(m) /\ issued' = issued
  BY EndsFinishing DEF Ends, FinishLogin, FinishPrepare, FinishRun, FinishErr, FinishRow, Finishes
<1>2. /\ Pending \in Seq(Jobs) /\ DOMAIN Pending = 1 .. Len(Pending) /\ Len(Pending) \in Nat
      /\ Pending[1] = current /\ current \in Jobs
  BY <1>1, CmdsPlace DEF TypeOK
<1>3. /\ Pending' \in Seq(Jobs) /\ Len(Pending') = Len(Pending) - m
      /\ \A i \in 1 .. Len(Pending') : Pending'[i] = Pending[i + m]
      /\ current' # NoJob => current' \in Jobs
  BY <1>1, PopFacts
<1>4. DOMAIN Pending' = 1 .. Len(Pending')
  BY <1>3
<1>5. ticks' = ticks \/ (FinishRun(m) /\ current.cmd \in Cmds /\ ticks' = Append(ticks, current.cmd))
  BY <1>1 DEF Finishing, FinishLogin, FinishPrepare, FinishRun, FinishErr, FinishRow
<1>6. \A k \in Timed : current' = Job(k, "run") => timer'[k]
  <2>1. PICK tm : timer' = [k \in Cmds |-> tm[k] \/ (current' = Job(k, "run") /\ k \in Timed)]
    BY <1>1 DEF Finishing, FinishLogin, FinishPrepare, FinishRun, FinishErr, FinishRow,
                Finishes, Moved
  <2> QED
    BY <2>1, KindsFacts
<1> QED
  BY <1>1, <1>2, <1>3, <1>4, <1>5, <1>6

LEMMA EndsKept ==
  ASSUME TypeOK, QueueInv, CallInv, KeptInv, TypeOK', OrderStep,
         NEW m \in 1 .. Len(Pending), Ends(m)
  PROVE  KeptInv'
<1>1. \A k \in Executes : prepared'[k] = "failed" => Answered(k)'
  BY EndsPrepared
<1>2. /\ Pending \in Seq(Jobs) /\ DOMAIN Pending = 1 .. Len(Pending) /\ Len(Pending) \in Nat
      /\ Pending' \in Seq(Jobs) /\ DOMAIN Pending' = 1 .. Len(Pending) - m
      /\ \A i \in 1 .. Len(Pending) - m : Pending'[i] = Pending[i + m]
      /\ issued' = issued
      /\ \A k \in CmdsOf(Pending) : \E i \in DOMAIN Pending : Pending[i].cmd = k
  BY EndsFacts, CmdsPlace
<1>3. Elems(ticks) \subseteq Elems(ticks')
      /\ \A k \in Cmds : ticks' = Append(ticks, k) => k \in Elems(ticks')
  <2>1. \A k \in Cmds : Elems(Append(ticks, k)) = Elems(ticks) \union {k}
    <3>1. ticks \in Seq(Cmds)
      BY DEF TypeOK
    <3> QED
      BY <3>1, AppendFacts
  <2>2. ticks' = ticks \/ (current.cmd \in Cmds /\ ticks' = Append(ticks, current.cmd))
    BY EndsFacts
  <2> QED
    BY <2>1, <2>2
<1>4. ASSUME NEW k \in Elems(issued) \ Silent
      PROVE  Answered(k)' \/ k \in CmdsOf(Pending') \union Elems(ticks')
  <2>1. k \in Cmds \union {Quit}
    BY <1>4, IssuedFacts
  <2>2. Answered(k) \/ k \in CmdsOf(Pending) \/ k \in Elems(ticks)
    BY <1>4 DEF KeptInv
  <2>3. CASE k \in CmdsOf(Pending)
    <3>1. PICK i \in DOMAIN Pending : Pending[i].cmd = k
      BY <1>2, <2>3
    <3>2. CASE i <= m
      <4>1. i \in 1 .. m
        BY <1>2, <3>1, <3>2
      <4>2. \/ Answered(k)'
            \/ k \in Cmds /\ ticks' = Append(ticks, k)
            \/ 1 \in DOMAIN Pending' /\ Pending'[1].cmd = k
        BY <1>4, <2>1, <3>1, <4>1, EndsAnswered
      <4> QED
        BY <1>3, <4>2 DEF CmdsOf
    <3>3. CASE ~(i <= m)
      <4>1. i - m \in 1 .. Len(Pending) - m /\ (i - m) + m = i
        BY <1>2, <3>1, <3>3
      <4>2. i - m \in DOMAIN Pending' /\ Pending'[i - m].cmd = k
        BY <1>2, <3>1, <4>1
      <4> QED
        BY <4>2 DEF CmdsOf
    <3> QED
      BY <3>2, <3>3
  <2> QED
    BY <1>3, <2>1, <2>2, <2>3, AnsweredKept
<1>5. ASSUME current'.cmd \in Timed \ Silent, current'.step = "run", ~timer'[current'.cmd]
      PROVE  FALSE
  <2>1. current' \in Jobs
    BY <1>5, EndsFacts, KindsFacts
  <2>2. current' = Job(current'.cmd, "run")
    BY <1>5, <2>1, JobFacts
  <2> QED
    BY <1>5, <2>1, <2>2, EndsFacts, JobFacts
<1> QED
  BY <1>1, <1>2, <1>4, <1>5 DEF KeptInv

LEMMA KeptInit == Init => KeptInv
<1> SUFFICES ASSUME Init PROVE KeptInv
  OBVIOUS
<1>1. Elems(issued) = {} /\ current.cmd = Handshake
  BY JobFacts, ElemsEmpty DEF Init, Names
<1>2. \A k \in Executes : prepared[k] # "failed"
  BY DEF Init
<1> QED
  BY <1>1, <1>2, KindsFacts DEF KeptInv

LEMMA KeptStep ==
  ASSUME CommandInv, CommandInv', KeptInv, OrderStep
  PROVE  KeptInv'
<1>1. TypeOK /\ QueueInv /\ CallInv /\ TypeOK'
  BY DEF CommandInv
<1>2. CASE Rests
  <2>1. Pending' = Pending
    BY <1>2, PendingSame DEF Rests, queueVars
  <2> QED
    BY <1>2, <2>1 DEF Rests, queueVars, resultVars, KeptInv, Answered
<1>3. CASE AppStep
  BY <1>1, <1>2, <1>3, TimesOutKept, TicksKept, QueuesKept, RefusesKept DEF AppStep
<1> QED
  BY <1>1, <1>3, FailsKept, EndsKept DEF OrderStep


-----------------------------------------------------------------------------
(* Callbacks come in the order of the calls.                               *)

\* OrderInv for two commands.
OrderOf(k, l) ==
    /\ l \notin Elems(ticks)
    /\ \A i \in DOMAIN Pending : Pending[i].cmd = l =>
          k \in Elems(ticks) \/ \E j \in 1 .. i - 1 : Pending[j].cmd = k

LEMMA OrderParts ==
  OrderInv <=> \A k, l \in Ordered : Before(k, l) /\ ~Answered(k) => OrderOf(k, l)
BY DEF OrderInv, OrderOf

LEMMA BeforeFacts ==
  ASSUME TypeOK, CallInv, NEW k, NEW l, Before(k, l)
  PROVE  k # l /\ k \in Elems(issued) /\ l \in Elems(issued)
<1>1. PICK i, j \in DOMAIN issued : i < j /\ issued[i] = k /\ issued[j] = l
  BY DEF Before
<1>2. DOMAIN issued = 1 .. Len(issued) /\ Len(issued) \in Nat
  BY DEF TypeOK
<1>3. i # j
  BY <1>1, <1>2
<1> QED
  BY <1>1, <1>3 DEF CallInv, Elems

LEMMA BeforeAppend ==
  ASSUME TypeOK, NEW c \in Cmds \union {Quit}, issued' = Append(issued, c),
         NEW k, NEW l, Before(k, l)'
  PROVE  /\ k \in Elems(issued)
         /\ l = c \/ Before(k, l)
<1>1. PICK i, j \in DOMAIN issued' : i < j /\ issued'[i] = k /\ issued'[j] = l
  BY DEF Before
<1>2. issued \in Seq(Cmds \union {Quit}) /\ Len(issued) \in Nat /\ DOMAIN issued = 1 .. Len(issued)
  BY DEF TypeOK
<1>3. /\ DOMAIN issued' = 1 .. Len(issued) + 1
      /\ \A n \in 1 .. Len(issued) : issued'[n] = issued[n]
      /\ issued'[Len(issued) + 1] = c
  BY <1>2, AppendFacts
<1> DEFINE len == Len(issued)
<1>4. len \in Nat /\ i \in 1 .. len + 1 /\ j \in 1 .. len + 1 /\ i < j
  BY <1>1, <1>2, <1>3
<1> HIDE DEF len
<1>5. i \in 1 .. len /\ (j \in 1 .. len \/ j = len + 1)
  BY <1>4
<1>6. issued[i] = k /\ i \in DOMAIN issued
  BY <1>1, <1>2, <1>3, <1>5 DEF len
<1>7. CASE j = len + 1
  BY <1>1, <1>3, <1>6, <1>7 DEF Elems, len
<1>8. CASE j \in 1 .. len
  <2>1. issued[j] = l /\ j \in DOMAIN issued
    BY <1>1, <1>2, <1>3, <1>8 DEF len
  <2> QED
    BY <1>1, <1>6, <2>1 DEF Elems, Before
<1> QED
  BY <1>5, <1>7, <1>8

LEMMA OrderedFacts ==
  \A k \in Ordered : k \in Cmds \union {Quit} /\ k \in Cmds /\ k \notin Silent /\ k # Quit
                     /\ k # Handshake /\ k \notin Timed
BY NamesDiffer DEF Ordered

\* No call is left unanswered by an error that drops the queue.
LEMMA FailsAnswers ==
  ASSUME TypeOK, QueueInv, CallInv, KeptInv, TypeOK', OrderStep, ticks = <<>>,
         NEW js \in {Pending, commands}, Fails(js),
         NEW k \in Elems(issued), k \notin Silent
  PROVE  Answered(k)'
<1>1. k \in Cmds \union {Quit}
  BY IssuedFacts
<1>2. CASE k \in CmdsOf(Pending)
  <2>1. calls'[k] > calls[k]
    BY <1>1, <1>2, FailsCalls
  <2> QED
    BY <1>1, <2>1, CalledAnswers
<1>3. Elems(ticks) = {}
  BY ElemsEmpty
<1> QED
  BY <1>1, <1>2, <1>3, AnsweredKept DEF KeptInv

LEMMA TicksOrder ==
  ASSUME TypeOK, QueueInv, CallInv, TypeOK', Ticks, NEW k \in Ordered, NEW l \in Ordered,
         OrderOf(k, l), ~Answered(k)'
  PROVE  OrderOf(k, l)'
<1>1. Pending' = Pending
  BY PendingSame DEF Ticks, queueVars
<1>2. Elems(ticks') \subseteq Elems(ticks)
  <2>1. ticks \in Seq(Cmds) /\ ticks # <<>> /\ ticks' = Tail(ticks)
    BY DEF TypeOK, Ticks
  <2> QED
    BY <2>1, TailFacts
<1>3. k \in Elems(ticks) => k \in Elems(ticks')
  BY OrderedFacts, TicksKeptCall
<1> QED
  BY <1>1, <1>2, <1>3 DEF OrderOf

LEMMA QueuesOrder ==
  ASSUME TypeOK, QueueInv, CallInv, KeptInv, OrderInv,
         NEW c \in Cmds \union {Quit}, Queues(c), NEW k \in Ordered, NEW l \in Ordered,
         Before(k, l)', ~Answered(k)
  PROVE  OrderOf(k, l)'
<1>1. /\ Pushed(NewJobs(c)) /\ c \notin Elems(issued) /\ issued' = Append(issued, c)
      /\ ticks' = ticks
  BY DEF Queues
<1>2. k \in Elems(issued) /\ (l = c \/ Before(k, l))
  BY <1>1, BeforeAppend
<1>3. /\ Pending \in Seq(Jobs) /\ DOMAIN Pending = 1 .. Len(Pending) /\ Len(Pending) \in Nat
      /\ \A i \in 1 .. Len(Pending) : Pending[i].cmd \in CmdsOf(Pending)
      /\ \A x \in CmdsOf(Pending) : \E i \in 1 .. Len(Pending) : Pending[i].cmd = x
  BY CmdsPlace
<1>4. /\ Pending' \in Seq(Jobs) /\ DOMAIN Pending' = 1 .. Len(Pending')
      /\ \A i \in 1 .. Len(Pending) : Pending'[i] = Pending[i]
      /\ \A i \in 1 .. Len(Pending') : i \in 1 .. Len(Pending) \/ i > Len(Pending)
      /\ \A i \in 1 .. Len(Pending') : i > Len(Pending) => Pending'[i].cmd = c
  <2>1. /\ Pending' \in Seq(Jobs)
        /\ Len(Pending') = Len(Pending) + Len(NewJobs(c)) /\ Len(NewJobs(c)) \in Nat
        /\ \A i \in 1 .. Len(Pending) : Pending'[i] = Pending[i]
        /\ \A i \in 1 .. Len(NewJobs(c)) : Pending'[i + Len(Pending)].cmd = c
    BY <1>1, PushedCmds, NewJobsFacts
  <2>2. ASSUME NEW i \in 1 .. Len(Pending'), i > Len(Pending)
        PROVE  Pending'[i].cmd = c
    <3>1. i - Len(Pending) \in 1 .. Len(NewJobs(c)) /\ (i - Len(Pending)) + Len(Pending) = i
      BY <1>3, <2>1, <2>2
    <3> QED
      BY <2>1, <3>1
  <2> QED
    BY <1>3, <2>1, <2>2
<1>5. CASE l = c
  <2>1. l \notin Elems(ticks) /\ l \notin CmdsOf(Pending)
    BY <1>1, <1>5, OrderedFacts DEF CallInv, QueueInv
  <2>2. ASSUME NEW i \in DOMAIN Pending', Pending'[i].cmd = l, k \notin Elems(ticks)
        PROVE  \E j \in 1 .. i - 1 : Pending'[j].cmd = k
    <3>1. k \in CmdsOf(Pending)
      BY <1>2, <2>2, OrderedFacts DEF KeptInv
    <3>2. PICK j \in 1 .. Len(Pending) : Pending[j].cmd = k
      BY <1>3, <3>1
    <3>3. i > Len(Pending)
      BY <1>3, <1>4, <2>1, <2>2
    <3>4. j \in 1 .. i - 1
      BY <1>3, <1>4, <2>2, <3>2, <3>3
    <3> QED
      BY <1>4, <3>2, <3>4
  <2> QED
    BY <1>1, <2>1, <2>2 DEF OrderOf
<1>6. CASE l # c
  <2>1. OrderOf(k, l)
    BY <1>2, <1>6, OrderParts
  <2>2. ASSUME NEW i \in DOMAIN Pending', Pending'[i].cmd = l, k \notin Elems(ticks)
        PROVE  \E j \in 1 .. i - 1 : Pending'[j].cmd = k
    <3>1. i \in 1 .. Len(Pending) /\ Pending[i].cmd = l
      BY <1>4, <1>6, <2>2
    <3>2. PICK j \in 1 .. i - 1 : Pending[j].cmd = k
      BY <1>3, <2>1, <2>2, <3>1 DEF OrderOf
    <3>3. j \in 1 .. Len(Pending)
      BY <1>3, <3>1, <3>2
    <3> QED
      BY <1>4, <3>2, <3>3
  <2> QED
    BY <1>1, <2>1, <2>2 DEF OrderOf
<1> QED
  BY <1>5, <1>6


LEMMA RefusesOrder ==
  ASSUME TypeOK, QueueInv, CallInv, OrderInv,
         NEW c \in Cmds \union {Quit}, Refuses(c), NEW k \in Ordered, NEW l \in Ordered,
         Before(k, l)', ~Answered(k)
  PROVE  OrderOf(k, l)'
<1>1. /\ c \notin Elems(issued) /\ issued' = Append(issued, c)
      /\ ticks' = ticks /\ Pending' = Pending
  BY PendingSame DEF Refuses, queueVars
<1>2. k \in Elems(issued) /\ (l = c \/ Before(k, l))
  BY <1>1, BeforeAppend
<1>3. CASE l = c
  <2>1. l \notin Elems(ticks) /\ l \notin CmdsOf(Pending)
    BY <1>1, <1>3, OrderedFacts DEF CallInv, QueueInv
  <2> QED
    BY <1>1, <2>1 DEF OrderOf, CmdsOf
<1>4. CASE Before(k, l)
  BY <1>1, <1>4, OrderParts DEF OrderOf
<1> QED
  BY <1>2, <1>3, <1>4

\* The next command of a call that has not been answered does not end first.
LEMMA FirstAnswered ==
  ASSUME TypeOK, current # NoJob, ticks = <<>>,
         NEW k, NEW l, OrderOf(k, l)
  PROVE  current.cmd # l
<1> SUFFICES ASSUME current.cmd = l PROVE FALSE
  OBVIOUS
<1>1. 1 \in DOMAIN Pending /\ Pending[1] = current
  BY PendingFacts DEF TypeOK
<1>2. \E j \in 1 .. 1 - 1 : Pending[j].cmd = k
  BY <1>1, ElemsEmpty DEF OrderOf
<1> QED
  BY <1>2

LEMMA EndsOrder ==
  ASSUME TypeOK, QueueInv, CallInv, KeptInv, TypeOK', OrderStep, ticks = <<>>,
         NEW m \in 1 .. Len(Pending), Ends(m), NEW k \in Ordered, NEW l \in Ordered,
         Before(k, l), OrderOf(k, l), ~Answered(k)'
  PROVE  OrderOf(k, l)'
<1>1. /\ current # NoJob /\ Len(Pending) \in Nat
      /\ DOMAIN Pending = 1 .. Len(Pending)
      /\ DOMAIN Pending' = 1 .. Len(Pending) - m
      /\ \A i \in 1 .. Len(Pending) - m : Pending'[i] = Pending[i + m]
      /\ ticks' = ticks \/ (current.cmd \in Cmds /\ ticks' = Append(ticks, current.cmd))
  BY EndsFacts
<1>2. current.cmd # l /\ k # l
  BY <1>1, FirstAnswered, BeforeFacts
<1>3. \A x \in Cmds : Elems(Append(ticks, x)) = {x}
  <2>1. ticks \in Seq(Cmds)
    BY DEF TypeOK
  <2> DEFINE t == ticks
  <2> HIDE DEF t
  <2>2. \A x \in Cmds : Elems(Append(t, x)) = Elems(t) \union {x}
    <3>1. t \in Seq(Cmds)
      BY <2>1 DEF t
    <3> QED
      BY <3>1, AppendFacts
  <2>3. Elems(ticks) = {}
    BY ElemsEmpty
  <2> QED
    BY <2>2, <2>3 DEF t
<1>4. l \notin Elems(ticks')
  BY <1>1, <1>2, <1>3, ElemsEmpty
<1>5. ASSUME NEW i \in DOMAIN Pending', Pending'[i].cmd = l, k \notin Elems(ticks')
      PROVE  \E j \in 1 .. i - 1 : Pending'[j].cmd = k
  <2>1. i \in 1 .. Len(Pending) - m /\ i + m \in DOMAIN Pending /\ Pending[i + m].cmd = l
    BY <1>1, <1>5
  <2>2. PICK j \in 1 .. i + m - 1 : Pending[j].cmd = k
    BY <2>1, ElemsEmpty DEF OrderOf
  <2>3. CASE j <= m
    <3>1. j \in 1 .. m
      BY <2>2, <2>3
    <3>2. \/ k \in Cmds /\ ticks' = Append(ticks, k)
          \/ 1 \in DOMAIN Pending' /\ Pending'[1].cmd = k
      BY <2>2, <3>1, OrderedFacts, EndsAnswered
    <3>3. 1 \in DOMAIN Pending' /\ Pending'[1].cmd = k
      BY <1>3, <1>5, <3>2
    <3>4. i # 1
      BY <1>2, <1>5, <3>3
    <3>5. 1 \in 1 .. i - 1
      BY <1>1, <3>4, <2>1
    <3> QED
      BY <3>3, <3>5
  <2>4. CASE ~(j <= m)
    <3>1. /\ j - m \in 1 .. i - 1 /\ j - m \in 1 .. Len(Pending) - m
          /\ (j - m) + m = j
      BY <1>1, <2>1, <2>2, <2>4
    <3>2. Pending'[j - m].cmd = k
      BY <1>1, <2>2, <3>1
    <3> QED
      BY <3>1, <3>2
  <2> QED
    BY <2>3, <2>4
<1> QED
  BY <1>4, <1>5 DEF OrderOf

LEMMA OrderInit == Init => OrderInv
<1> SUFFICES ASSUME Init PROVE OrderInv
  OBVIOUS
<1>1. DOMAIN issued = {}
  BY ElemsEmpty DEF Init
<1> QED
  BY <1>1 DEF OrderInv, Before

LEMMA OrderStepInv ==
  ASSUME CommandInv, CommandInv', KeptInv, OrderInv, OrderStep
  PROVE  OrderInv'
<1>1. TypeOK /\ QueueInv /\ CallInv /\ TypeOK'
  BY DEF CommandInv
<1> SUFFICES ASSUME NEW k \in Ordered, NEW l \in Ordered, Before(k, l)', ~Answered(k)'
             PROVE  OrderOf(k, l)'
  BY DEF OrderInv, OrderOf
<1>2. ~Answered(k)
  BY <1>1, OrderedFacts, AnsweredKept
<1>3. issued' = issued => /\ Before(k, l) /\ OrderOf(k, l)
                          /\ k \in Elems(issued)
  <2> SUFFICES ASSUME issued' = issued PROVE Before(k, l) /\ OrderOf(k, l) /\ k \in Elems(issued)
    OBVIOUS
  <2>1. Before(k, l)
    BY DEF Before
  <2> QED
    BY <1>1, <1>2, <2>1, BeforeFacts, OrderParts
<1>4. CASE Rests
  <2>1. Pending' = Pending /\ ticks' = ticks /\ issued' = issued
    BY <1>4, PendingSame DEF Rests, queueVars, resultVars
  <2> QED
    BY <1>3, <2>1 DEF OrderOf
<1>5. ASSUME NEW c \in Cmds, TimesOut(c) PROVE OrderOf(k, l)'
  <2>1. Pending' = Pending /\ ticks' = ticks /\ issued' = issued
    BY <1>5, PendingSame DEF TimesOut, queueVars
  <2> QED
    BY <1>3, <2>1 DEF OrderOf
<1>6. CASE Ticks
  <2>1. issued' = issued
    BY <1>6 DEF Ticks
  <2> QED
    BY <1>1, <1>3, <1>6, <2>1, TicksOrder
<1>7. CASE AppStep
  BY <1>1, <1>2, <1>4, <1>5, <1>6, <1>7, QueuesOrder, RefusesOrder DEF AppStep
<1>8. ASSUME ticks = <<>>, NEW js \in {Pending, commands}, Fails(js)
      PROVE  OrderOf(k, l)'
  <2>1. issued' = issued
    BY <1>8 DEF Fails
  <2>2. Answered(k)'
    BY <1>1, <1>3, <1>8, <2>1, OrderedFacts, FailsAnswers
  <2> QED
    BY <2>2
<1>9. ASSUME ticks = <<>>, NEW m \in 1 .. Len(Pending), Ends(m)
      PROVE  OrderOf(k, l)'
  <2>1. issued' = issued
    BY <1>1, <1>9, EndsFacts
  <2> QED
    BY <1>1, <1>3, <1>9, <2>1, EndsOrder
<1> QED
  BY <1>7, <1>8, <1>9 DEF OrderStep

-----------------------------------------------------------------------------

\* The whole inductive invariant of the connection.
THEOREM IInvHolds == Spec => []IInv
<1>1. Init => IInv
  BY CommandInit, NothingInit, SyncInit, KeptInit, OrderInit DEF IInv
<1>2. IInv /\ [Next]_vars => IInv'
  <2> SUFFICES ASSUME IInv, [Next]_vars PROVE IInv'
    OBVIOUS
  <2>1. CommandInv /\ NothingInv /\ SyncInv /\ KeptInv /\ OrderInv
    BY DEF IInv
  <2>2. CommandInv' /\ NothingInv' /\ SyncInv' /\ OrderStep
    BY <2>1, CommandStep, NothingStep, SyncStep, OrderClass
  <2>3. KeptInv' /\ OrderInv'
    BY <2>1, <2>2, KeptStep, OrderStepInv
  <2> QED
    BY <2>2, <2>3 DEF IInv
<1> QED
  BY <1>1, <1>2, PTL DEF Spec

\* When the socket is gone and nothing is left to run, every call with a
\* callback has been answered: nothing that end(), an error or the loss of the
\* connection takes out of _commands is forgotten.
THEOREM NoneDroppedHolds == Spec => []NoneDropped
<1>1. IInv => NoneDropped
  <2> SUFFICES ASSUME CommandInv, SyncInv, KeptInv,
                      stream = "closed", ticks = <<>>, ~destroyed,
                      connected \/ "login" \notin Faults,
                      NEW k \in Elems(issued) \ Silent
               PROVE  Answered(k)
    BY DEF IInv, NoneDropped, Quiet
  <2>1. TypeOK /\ CloseInv
    BY DEF CommandInv, SyncInv
  <2>2. commands = <<>> /\ (current = NoJob \/ ~HasResult(current))
    BY <2>1 DEF CloseInv
  <2>3. k \in Cmds \union {Quit}
    BY <2>1, IssuedFacts
  <2>4. k \notin CmdsOf(Pending)
    <3> SUFFICES ASSUME k \in CmdsOf(Pending) PROVE FALSE
      OBVIOUS
    <3>1. CmdsOf(commands) = {}
      BY <2>2, ElemsEmpty DEF CmdsOf
    <3>2. current \in Jobs \union {NoJob} /\ commands \in Seq(Jobs)
      BY <2>1 DEF TypeOK
    <3>3. current # NoJob /\ k = current.cmd
      BY <3>1, <3>2, PendingFacts
    <3>4. current.cmd \in Silent \union {Handshake}
      BY <2>2, <3>3 DEF HasResult
    <3> QED
      BY <2>3, <3>3, <3>4, NamesDiffer
  <2> QED
    BY <2>4, ElemsEmpty DEF KeptInv
<1> QED
  BY <1>1, IInvHolds, PTL

LEMMA InOrderStep ==
  ASSUME IInv, CommandInv', [Next]_vars, NEW k \in Ordered, NEW l \in Ordered,
         Before(k, l), ~Answered(l), Answered(l)'
  PROVE  Answered(k)'
<1> SUFFICES ASSUME ~Answered(k)' PROVE FALSE
  OBVIOUS
<1>1. /\ TypeOK /\ QueueInv /\ CallInv /\ TypeOK' /\ KeptInv /\ OrderInv
      /\ CommandInv /\ OrderStep
  BY OrderClass DEF IInv, CommandInv
<1>2. ~Answered(k)
  BY <1>1, OrderedFacts, AnsweredKept
<1>3. k \in Elems(issued) /\ l \in Elems(issued) /\ OrderOf(k, l)
  BY <1>1, <1>2, BeforeFacts, OrderParts
<1>4. calls'[l] # calls[l]
  BY DEF Answered
<1>5. l \in Cmds /\ l \in Cmds \union {Quit} /\ l # Quit /\ l \notin Timed /\ l \notin Silent
  BY OrderedFacts
<1>6. calls \in [Cmds \union {Quit} -> 0 .. 2]
  BY <1>1 DEF TypeOK
<1>7. CASE Rests
  BY <1>4, <1>7 DEF Rests, resultVars
<1>8. ASSUME NEW c \in Cmds, TimesOut(c) PROVE FALSE
  <2>1. c \in Timed /\ calls' = CallsAfter(<<Job(c, "run")>>)
    BY <1>1, <1>8 DEF TimesOut, CallInv
  <2> QED
    BY <1>4, <1>5, <1>6, <2>1, SingleCall
<1>9. CASE Ticks
  <2>1. ticks \in Seq(Cmds) /\ ticks # <<>> /\ calls' = CallsAfter(<<Job(Head(ticks), "run")>>)
    BY <1>1, <1>9 DEF Ticks, TypeOK
  <2>2. Head(ticks) \in Cmds /\ Head(ticks) \in Elems(ticks)
    BY <2>1, TailFacts
  <2>3. l # Head(ticks)
    BY <1>3, <2>2 DEF OrderOf
  <2> QED
    BY <1>4, <1>5, <1>6, <2>1, <2>2, <2>3, SingleCall
<1>10. ASSUME NEW c \in Cmds \union {Quit}, Queues(c) PROVE FALSE
  BY <1>4, <1>10 DEF Queues
<1>11. ASSUME NEW c \in Cmds \union {Quit}, Refuses(c) PROVE FALSE
  <2>1. l # c
    BY <1>3, <1>11 DEF Refuses
  <2>2. CASE calls' = CallsAfter(NewJobs(c))
    <3>1. NewJobs(c) \in Seq(Jobs) /\ l \notin CmdsOf(NewJobs(c))
      BY <2>1, NewJobsFacts
    <3> QED
      BY <1>4, <1>5, <1>6, <2>2, <3>1, CallsAfterFacts
  <2>3. CASE calls' = [calls EXCEPT ![Quit] = IF @ = 2 THEN 2 ELSE @ + 1]
    BY <1>4, <1>5, <1>6, <2>3
  <2> QED
    BY <1>11, <2>2, <2>3 DEF Refuses
<1>12. CASE AppStep
  BY <1>7, <1>8, <1>9, <1>10, <1>11, <1>12 DEF AppStep
<1>13. ASSUME ticks = <<>>, NEW js \in {Pending, commands}, Fails(js) PROVE FALSE
  BY <1>1, <1>3, <1>13, OrderedFacts, FailsAnswers
<1>14. ASSUME ticks = <<>>, NEW m \in 1 .. Len(Pending), Ends(m) PROVE FALSE
  <2>1. current.cmd # l
    BY <1>1, <1>3, <1>14, EndsFacts, FirstAnswered
  <2> QED
    BY <1>1, <1>4, <1>5, <1>14, <2>1, EndsFinishing, FinishCalls
<1> QED
  BY <1>1, <1>12, <1>13, <1>14 DEF OrderStep

\* No command that the connection has taken is called back before an earlier
\* one, although Query.done defers its callback with nextTick and errors are
\* passed on at once.
THEOREM CallbacksInOrderHolds == Spec => CallbacksInOrder
<1>1. IInv /\ IInv' /\ [Next]_vars =>
        [\A k, l \in Cmds \ (Silent \union Timed) :
           Before(k, l) /\ Taken(l) /\ ~Answered(l) /\ Answered(l)' => Answered(k)']_vars
  <2> SUFFICES ASSUME IInv, CommandInv', [Next]_vars, NEW k \in Ordered, NEW l \in Ordered,
                      Before(k, l), ~Answered(l), Answered(l)'
               PROVE  Answered(k)'
    BY DEF IInv, Ordered
  <2> QED
    BY InOrderStep
<1> QED
  BY <1>1, IInvHolds, PTL DEF Spec, CallbacksInOrder

=============================================================================
