------------------------------- MODULE Deque -------------------------------
(***************************************************************************)
(* What lib/ring_queue.js promises to the command queue of a connection    *)
(* and to the waiting list of a pool: a double-ended queue that is a       *)
(* sequence, without slots, capacity or wrap-around.                       *)
(***************************************************************************)
EXTENDS Integers, Sequences, FiniteSets

CONSTANTS
    Items,          \* what callers put into the queue
    undefined,      \* the JavaScript value; also an argument left out
    NotInt,         \* an index that is not a 32-bit integer
    Counts,         \* counts passed to remove and splice, undefined included
    Inserts,        \* the items passed to splice
    MaxLen          \* bound: the queue is not made longer than this

VARIABLES
    items,          \* the sequence
    ret             \* what the last call returned

\* A call returns a number, one value, or an array; the three kinds in one shape.
Number(n) == [number |-> n, values |-> <<>>]
Value(x) == [number |-> -1, values |-> <<x>>]
Array(s) == [number |-> -2, values |-> s]
Undefined == Value(undefined)

Indices == (-(MaxLen + 2)) .. (MaxLen + 1) \union {NotInt}

\* Array.prototype.splice of JavaScript, for 0 <= i <= Len(s).
Spliced(s, i, n, new) == SubSeq(s, 1, i) \o new \o SubSeq(s, i + n + 1, Len(s))
Cut(s, i, n) == SubSeq(s, i + 1, IF i + n > Len(s) THEN Len(s) ELSE i + n)

\* An index from the end is counted from the start.
FromStart(i) == IF i < 0 THEN i + Len(items) ELSE i
Within(i) == i # NotInt /\ i < Len(items) /\ i >= -Len(items)

Init == items = <<>> /\ ret = Undefined

Push(x) ==
    /\ items' = Append(items, x)
    /\ ret' = Number(Len(items) + 1)

Unshift(x) ==
    /\ items' = <<x>> \o items
    /\ ret' = Number(Len(items) + 1)

Shift ==
    \/ items = <<>> /\ ret' = Undefined /\ UNCHANGED items
    \/ items # <<>> /\ ret' = Value(Head(items)) /\ items' = Tail(items)

Pop ==
    \/ items = <<>> /\ ret' = Undefined /\ UNCHANGED items
    \/ /\ items # <<>>
       /\ ret' = Value(items[Len(items)])
       /\ items' = SubSeq(items, 1, Len(items) - 1)

PeekAt(i) ==
    /\ ret' = IF Within(i) THEN Value(items[FromStart(i) + 1]) ELSE Undefined
    /\ UNCHANGED items

RemoveOne(i) ==
    \/ ~Within(i) /\ ret' = Undefined /\ UNCHANGED items
    \/ /\ Within(i)
       /\ ret' = Value(items[FromStart(i) + 1])
       /\ items' = Spliced(items, FromStart(i), 1, <<>>)

\* Without a count one item is removed; a count below one removes nothing.
Remove(i, count) ==
    LET n == IF count = undefined THEN 1 ELSE count
    IN  \/ ~(Within(i) /\ n >= 1) /\ ret' = Undefined /\ UNCHANGED items
        \/ /\ Within(i) /\ n >= 1
           /\ ret' = Array(Cut(items, FromStart(i), n))
           /\ items' = Spliced(items, FromStart(i), n, <<>>)

\* Nothing to insert: splice is remove (an index below -Len is then brought
\* up twice).  Inserting at the very end returns undefined unless count is 0.
Splice(i, count, new) ==
    LET at == FromStart(i)
        n == IF count = undefined THEN 1 ELSE count
        reject == i = NotInt \/ at > Len(items) \/ (new # <<>> /\ (at < 0 \/ n < 0))
    IN  \/ reject /\ ret' = Undefined /\ UNCHANGED items
        \/ ~reject /\ new = <<>> /\ Remove(at, count)
        \/ /\ ~reject /\ new # <<>>
           /\ items' = Spliced(items, at, n, new)
           /\ ret' = IF n > 0 /\ at = Len(items) THEN Undefined
                     ELSE Array(Cut(items, at, n))

Clear == items' = <<>> /\ UNCHANGED ret

Next ==
    \/ \E x \in Items : Push(x) \/ Unshift(x)
    \/ Shift \/ Pop \/ Clear
    \/ \E i \in Indices : PeekAt(i) \/ RemoveOne(i)
    \/ \E i \in Indices, n \in Counts : Remove(i, n) \/ \E new \in Inserts : Splice(i, n, new)

Spec == Init /\ [][Next]_<<items, ret>>

=============================================================================
