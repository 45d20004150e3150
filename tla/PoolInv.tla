------------------------------ MODULE PoolInv -------------------------------
(***************************************************************************)
(* The inductive invariant behind the theorems of PoolProofs.              *)
(***************************************************************************)
EXTENDS Pool

\* A callback carries what it needs.
TickShape(t) ==
    \A i \in DOMAIN t :
        /\ t[i].op = "reset" <=> t[i].req = None
        /\ t[i].op \in {"give", "reset"} <=> t[i].conn # None

\* A connection that belongs to an open pool is counted, has an open socket
\* and accepts commands; and the pool counts no other.
PooledLive ==
    ~closed => /\ all = {c \in Conns : pooled[c]}
               /\ \A c \in Conns : pooled[c] => Accepting(c)

\* A connection that is being opened is being opened for a request.
ConnectHeld ==
    \A c \in Conns : task[c] = "connect" =>
        /\ Holders(c) # {}
        /\ stream[c] \in {"open", "fin"}

\* `_released' guards a second release() of a connection nobody holds.
ReleasedGuards ==
    "staleRelease" \in Calls /\ ~closed =>
        \A c \in Conns : pooled[c] /\ Holders(c) = {} => released[c]

\* No connection is idle while a request waits in the queue.
NoIdleWhileQueued == free = <<>> \/ queue = <<>>

IInv ==
    /\ TypeOK
    /\ NoIdleWhileQueued
    /\ TickShape(ticks)
    /\ OneOwner
    /\ RequestOnce
    /\ PooledLive
    /\ ConnectHeld
    /\ ReleasedGuards

\* pool.releaseConnection(c) leaves `_released' alone, so an application that
\* uses it must not call c.release() as well.
WellUsed == ~ {"releaseConnection", "staleRelease"} \subseteq Calls

-----------------------------------------------------------------------------
(* What more the proofs of the single properties need.                     *)

\* The connections that pool.end() still waits for.
Quitting == {c \in Conns : quit[c] = "queued"}

\* While pool.end() waits, the calls of endCB that are missing are at least
\* as many as the Quit commands that have not started.
EndInv ==
    /\ \A c \in Conns : task[c] # "reset"
    /\ closed <=> endCb # "none"
    /\ endCb \in {"none", "ok"} => Quitting = {}
    /\ endCb = "waiting" => endCount + Cardinality(Quitting) <= Cardinality(all)

\* While a request waits in the queue, the connections there are and the
\* retries under way fill the limit.
Retries(t) == {i \in DOMAIN t : t[i].op = "retry"}

Backed ==
    queue # <<>> /\ ~closed =>
        Cardinality(all) + Cardinality(Retries(ticks)) >= ConnectionLimit

\* `_released' is not set while somebody holds the connection, so release()
\* does give it back.
HeldUnreleased == \A r \in Reqs : has[r] # None => ~released[has[r]]

\* A connection that may yet be delivered belongs to the pool: it is idle,
\* in a callback, opening, or being reset with an answer to come.
DeliverablePooled ==
    ~closed => \A c \in Conns :
        \/ c \in Elems(free) \union ConnsOf(ticks)
        \/ task[c] = "connect" /\ stream[c] = "open"
        \/ task[c] = "reset" /\ stream[c] \in {"open", "closing"}
        => pooled[c]

=============================================================================
