----------------------------- MODULE RingQueue -----------------------------
(***************************************************************************)
(* lib/ring_queue.js: a circular buffer whose capacity is a power of two.  *)
(* It holds the commands of a connection and the waiters of a pool.  The   *)
(* object is the record q; an operation is an operator from q to q, and an *)
(* action of that name is the public call.  x & mask is x % (mask + 1),    *)
(* also for the negative x of unshift.                                     *)
(***************************************************************************)
EXTENDS Integers, Sequences, FiniteSets

CONSTANTS Items, undefined, NotInt, Counts, Inserts, MaxLen,
    MIN_SHRINK_TAIL \* 10000 in the code; small, so that shrinking happens

ASSUME UndefinedAssumption == undefined \notin Items /\ NotInt \notin Int
ASSUME ArgumentsAssumption == Counts \subseteq Int \union {undefined} /\ Inserts \subseteq Seq(Items)
ASSUME BoundsAssumption == MaxLen \in Nat /\ MIN_SHRINK_TAIL \in Nat \ {0}

VARIABLES
    q,              \* [list, mask, head, tail]; list is a function on slots
    ret             \* what the last call returned

capacity(o) == o.mask + 1
length(o) == (o.tail - o.head) % capacity(o)
isEmpty(o) == o.head = o.tail

\* The capacities that doubling leads to.
Powers[k \in 0 .. MaxLen + 2] == IF k = 0 THEN 1 ELSE 2 * Powers[k - 1]
Capacities == {Powers[k] : k \in 2 .. MaxLen + 2}

Blank(n) == [slot \in 0 .. n - 1 |-> undefined]

\* The items from head on, in two pieces when they wrap around.
toArray(o) ==
    LET part(a, b) == [i \in 1 .. b - a |-> o.list[a + i - 1]]
    IN  IF o.head <= o.tail THEN part(o.head, o.tail)
        ELSE part(o.head, capacity(o)) \o part(0, o.tail)

Abstract == INSTANCE Deque WITH items <- toArray(q)

-----------------------------------------------------------------------------

\* Faulty: forgets that the items wrap around: the list is only extended.
growInPlace(o) ==
    LET n == capacity(o)
    IN  [list |-> [slot \in 0 .. 2 * n - 1 |-> IF slot < n THEN o.list[slot] ELSE undefined],
         mask |-> 2 * o.mask + 1, head |-> o.head, tail |-> o.head + n]

grow(o) ==
    LET n == capacity(o)
        kept == [i \in 0 .. n - 1 |-> o.list[(o.head + i) % n]]
    IN  [list |-> [slot \in 0 .. 2 * n - 1 |-> IF slot < n THEN kept[slot] ELSE undefined],
         mask |-> 2 * o.mask + 1, head |-> 0, tail |-> n]

shrink(o) ==
    LET n == capacity(o) \div 2
    IN  [o EXCEPT !.list = [slot \in 0 .. n - 1 |-> o.list[slot]], !.mask = n - 1]

\* Halve the list, if it is long and nearly empty at its start.
maybeShrink(o, head, tail) ==
    IF head < 2 /\ tail > MIN_SHRINK_TAIL /\ tail <= capacity(o) \div 4
    THEN shrink(o) ELSE o

rebuild(o, s) ==
    LET fits == {c \in Capacities : c >= capacity(o) /\ c > Len(s)}
        n == CHOOSE c \in fits : \A d \in fits : c <= d
    IN  [list |-> [slot \in 0 .. n - 1 |-> IF slot < Len(s) THEN s[slot + 1] ELSE undefined],
         mask |-> n - 1, head |-> 0, tail |-> Len(s)]

push(o, x) ==
    LET p == [o EXCEPT !.list[o.tail] = x, !.tail = (@ + 1) % capacity(o)]
    IN  IF isEmpty(p) THEN grow(p) ELSE p

unshift(o, x) ==
    LET h == (o.head - 1) % capacity(o)
        p == [o EXCEPT !.list[h] = x, !.head = h]
    IN  IF isEmpty(p) THEN grow(p) ELSE p

\* Faulty: the slot keeps the item that has left.
shiftKeeping(o) ==
    IF isEmpty(o) THEN o
    ELSE maybeShrink([o EXCEPT !.head = (@ + 1) % capacity(o)], o.head, o.tail)

shift(o) ==
    IF isEmpty(o) THEN o
    ELSE maybeShrink([o EXCEPT !.list[o.head] = undefined,
                               !.head = (@ + 1) % capacity(o)], o.head, o.tail)

pop(o) ==
    LET t == (o.tail - 1) % capacity(o)
    IN  IF isEmpty(o) THEN o
        ELSE maybeShrink([o EXCEPT !.list[t] = undefined, !.tail = t], o.head, o.tail)

Within(o, i) == i # NotInt /\ i < length(o) /\ i >= -length(o)
FromStart(o, i) == IF i < 0 THEN i + length(o) ELSE i

peekAt(o, i) ==
    IF ~Within(o, i) THEN undefined
    ELSE o.list[(o.head + FromStart(o, i)) % capacity(o)]

\* The items on the shorter side of the hole move one slot towards it.
removeOne(o, i) ==
    LET n == capacity(o)
        at == FromStart(o, i)
        offset(slot) == (slot - o.head) % n
    IN  IF ~Within(o, i) THEN o
        ELSE IF 2 * at < length(o)
        THEN [o EXCEPT
                !.list = [slot \in DOMAIN @ |->
                            IF offset(slot) = 0 THEN undefined
                            ELSE IF offset(slot) <= at THEN @[(slot - 1) % n] ELSE @[slot]],
                !.head = (@ + 1) % n]
        ELSE [o EXCEPT
                !.list = [slot \in DOMAIN @ |->
                            IF offset(slot) = length(o) - 1 THEN undefined
                            ELSE IF offset(slot) \in at .. length(o) - 2
                            THEN @[(slot + 1) % n] ELSE @[slot]],
                !.tail = (@ - 1) % n]

\* [q, ret] of remove: one item in place, several by rebuilding the list.
remove(o, i, count) ==
    LET at == FromStart(o, i)
        s == toArray(o)
    IN  IF ~Within(o, i) \/ (count # undefined /\ count < 1)
        THEN [q |-> o, ret |-> Abstract!Undefined]
        ELSE IF count \in {1, undefined}
        THEN [q |-> removeOne(o, at), ret |-> Abstract!Array(<<peekAt(o, at)>>)]
        ELSE [q |-> rebuild(o, Abstract!Spliced(s, at, count, <<>>)),
              ret |-> Abstract!Array(Abstract!Cut(s, at, count))]

splice(o, i, count, new) ==
    LET at == FromStart(o, i)
        n == IF count = undefined THEN 1 ELSE count
        s == toArray(o)
    IN  IF i = NotInt \/ at > length(o) THEN [q |-> o, ret |-> Abstract!Undefined]
        ELSE IF new = <<>> THEN remove(o, at, count)
        ELSE IF at < 0 \/ n < 0 THEN [q |-> o, ret |-> Abstract!Undefined]
        ELSE [q |-> rebuild(o, Abstract!Spliced(s, at, n, new)),
              ret |-> IF n > 0 /\ at >= length(o) THEN Abstract!Undefined
                      ELSE Abstract!Array(Abstract!Cut(s, at, n))]

-----------------------------------------------------------------------------

Init ==
    /\ q = [list |-> Blank(4), mask |-> 3, head |-> 0, tail |-> 0]
    /\ ret = Abstract!Undefined

Push(x) ==
    /\ length(q) < MaxLen
    /\ q' = push(q, x)
    /\ ret' = Abstract!Number(length(q'))

Unshift(x) ==
    /\ length(q) < MaxLen
    /\ q' = unshift(q, x)
    /\ ret' = Abstract!Number(length(q'))

Shift ==
    /\ q' = shift(q)
    /\ ret' = Abstract!Value(IF isEmpty(q) THEN undefined ELSE q.list[q.head])

Pop ==
    /\ q' = pop(q)
    /\ ret' = Abstract!Value(peekAt(q, -1))

PeekAt(i) == ret' = Abstract!Value(peekAt(q, i)) /\ UNCHANGED q

RemoveOne(i) ==
    /\ q' = removeOne(q, i)
    /\ ret' = Abstract!Value(peekAt(q, i))

Remove(i, count) ==
    /\ q' = remove(q, i, count).q
    /\ ret' = remove(q, i, count).ret

Splice(i, count, new) ==
    /\ length(q) + Len(new) <= MaxLen
    /\ q' = splice(q, i, count, new).q
    /\ ret' = splice(q, i, count, new).ret

Clear ==
    /\ q' = [q EXCEPT !.list = Blank(capacity(q)), !.head = 0, !.tail = 0]
    /\ UNCHANGED ret

Next ==
    \/ \E x \in Items : Push(x) \/ Unshift(x)
    \/ Shift \/ Pop \/ Clear
    \/ \E i \in Abstract!Indices : PeekAt(i) \/ RemoveOne(i)
    \/ \E i \in Abstract!Indices, n \in Counts :
          Remove(i, n) \/ \E new \in Inserts : Splice(i, n, new)

vars == <<q, ret>>

Spec == Init /\ [][Next]_vars

-----------------------------------------------------------------------------

\* The fields of the buffer have their types, the capacity is a power of two
\* and there is always a free slot, so that head = tail means empty.
TypeOK ==
    /\ capacity(q) \in Capacities
    /\ q.list \in [0 .. q.mask -> Items \union {undefined}]
    /\ q.head \in 0 .. q.mask /\ q.tail \in 0 .. q.mask

\* Slots that hold no item hold nothing: whatever sequence of growing,
\* shrinking, moving and wrapping came before, a command or waiter that has
\* left the queue is not kept alive by it, and none can come back.
OnlyItemsHeld ==
    /\ TypeOK
    /\ \A slot \in DOMAIN q.list :
          q.list[slot] # undefined <=> (slot - q.head) % capacity(q) < length(q)

\* The buffer implements the double-ended queue: every call changes the
\* sequence toArray() gives, and returns, as the same call on a sequence does.
Implements == Abstract!Spec

=============================================================================
