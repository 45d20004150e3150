-------------------------------- MODULE Pool --------------------------------
(***************************************************************************)
(* The connection pool of node-mysql2: lib/base/pool.js with              *)
(* lib/pool_connection.js, and as much of lib/base/connection.js as the    *)
(* pool can observe of a connection (connecting, a reset in flight, a Quit *)
(* in the command queue, the socket).                                      *)
(*                                                                         *)
(* Scheduling.  Node runs one callback at a time, and it drains the        *)
(* process.nextTick queue (`ticks') before it delivers any socket or timer *)
(* event.  So a step caused by I/O or a timer needs ticks = <<>>, a tick   *)
(* runs in FIFO order, and the application may call the pool at any time   *)
(* (from a callback, or from code that runs before the ticks do).          *)
(*                                                                         *)
(* A request r in Reqs is one call of pool.getConnection; those of Queries *)
(* are the calls pool.query and pool.execute make themselves.  A member of *)
(* Conns names a PoolConnection object; a name is used again once nothing  *)
(* refers to the object any more.                                          *)
(***************************************************************************)
EXTENDS Integers, Sequences, FiniteSets

CONSTANTS
    Conns,              \* names for PoolConnection objects
    None,               \* no connection, no request
    Reqs,               \* requests for a connection
    Queries,            \* the requests made by pool.query / pool.execute
    ConnectionLimit,    \* config.connectionLimit (0: unlimited)
    QueueLimit,         \* config.queueLimit (0: unlimited)
    MaxIdle,            \* config.maxIdle
    WaitForConnections, \* config.waitForConnections
    ResetOnRelease,     \* config.resetOnRelease
    GracefulEnd,        \* config.connectionConfig.gracefulEnd
    Calls,              \* what the application does, see CallNames
    TrailingError       \* the server may send an unsolicited ERR packet in
                        \* the same chunk as the reply to a command

\* What an application may do with the pool and its connections:
\*   release            connection.release() by its holder
\*   releaseConnection  pool.releaseConnection(connection) by its holder
\*   staleRelease       connection.release() once more, after giving it back
\*   destroy            connection.destroy() by its holder
\*   staleDestroy       connection.destroy() after giving it back
\*   endConn            connection.end() by its holder
\*   end                pool.end()
\*   again              request connections for ever, not a bounded number
CallNames == {"release", "releaseConnection", "staleRelease", "destroy",
              "staleDestroy", "endConn", "end", "again"}

ASSUME NoneAssumption == None \notin Conns \union Reqs
ASSUME QueriesAssumption == Queries \subseteq Reqs
ASSUME LimitsAssumption == /\ ConnectionLimit \in Nat
                           /\ QueueLimit \in Nat
                           /\ MaxIdle \in Nat
ASSUME FlagsAssumption == /\ WaitForConnections \in BOOLEAN
                          /\ ResetOnRelease \in BOOLEAN
                          /\ GracefulEnd \in BOOLEAN
                          /\ TrailingError \in BOOLEAN
ASSUME CallsAssumption == Calls \subseteq CallNames
ASSUME FiniteAssumption == IsFiniteSet(Conns)

VARIABLES
    closed,     \* _closed
    all,        \* _allConnections
    free,       \* _freeConnections, oldest first
    queue,      \* _connectionQueue, oldest first
    ticks,      \* callbacks handed to process.nextTick by the pool
    pooled,     \* connection._pool # null
    released,   \* connection._released
    stream,     \* the socket of a connection
    task,       \* the command of a connection that the pool waits for
    quit,       \* the Quit command that pool.end() gave a connection
    req,        \* what has become of a request
    has,        \* the connection being opened for, or held by, a request
    endCb,      \* the callback of pool.end()
    endCount    \* closedConnections of pool.end()

connVars == <<pooled, released, stream, task, quit>>
endVars == <<endCb, endCount>>
vars == <<closed, all, free, queue, ticks, connVars, req, has, endVars>>

-----------------------------------------------------------------------------
(* The state.                                                              *)

\* "give": hand conn to req, "fail": call req back with an error, "retry":
\* run getConnection for req again, "reset": the reset of conn succeeded.
Tick(op, r, c) == [op |-> op, req |-> r, conn |-> c]

Ticks == [op: {"give", "fail", "retry", "reset"},
          req: Reqs \union {None}, conn: Conns \union {None}]

\* "open"; "fin": the server has closed its side; "closing": this side has
\* closed or has sent COM_QUIT, replies may still come in; "dead": no socket.
StreamStates == {"open", "fin", "closing", "dead"}

TypeOK ==
    /\ closed \in BOOLEAN
    /\ all \subseteq Conns
    /\ free \in Seq(Conns)
    /\ queue \in Seq(Reqs)
    /\ ticks \in Seq(Ticks)
    /\ pooled \in [Conns -> BOOLEAN]
    /\ released \in [Conns -> BOOLEAN]
    /\ stream \in [Conns -> StreamStates]
    /\ task \in [Conns -> {"idle", "connect", "reset"}]
    /\ quit \in [Conns -> {"no", "queued", "done"}]
    /\ req \in [Reqs -> {"new", "waiting", "holding", "done"}]
    /\ has \in [Reqs -> Conns \union {None}]
    /\ endCb \in {"none", "waiting", "ok", "err"}
    /\ endCount \in Nat

Init ==
    /\ closed = FALSE
    /\ all = {}
    /\ free = <<>>
    /\ queue = <<>>
    /\ ticks = <<>>
    /\ pooled = [c \in Conns |-> FALSE]
    /\ released = [c \in Conns |-> FALSE]
    /\ stream = [c \in Conns |-> "dead"]
    /\ task = [c \in Conns |-> "idle"]
    /\ quit = [c \in Conns |-> "no"]
    /\ req = [r \in Reqs |-> "new"]
    /\ has = [r \in Reqs |-> None]
    /\ endCb = "none"
    /\ endCount = 0

Elems(s) == {s[i] : i \in DOMAIN s}

\* The connections that callbacks in t carry, and the requests they are for.
ConnsOf(t) == {t[i].conn : i \in DOMAIN t} \ {None}
ReqsOf(t) == {t[i].req : i \in DOMAIN t} \ {None}

Holders(c) == {r \in Reqs : has[r] = c}

\* No list, callback or pending command refers to c: its name may be used
\* for a new PoolConnection.
Fresh(c) ==
    /\ c \notin all \union Elems(free) \union ConnsOf(ticks)
    /\ Holders(c) = {}
    /\ task[c] = "idle"
    /\ quit[c] # "queued"

\* connection.addCommand has not been replaced by _addCommandClosedState.
Accepting(c) == stream[c] = "open" /\ quit[c] = "no"

\* connection.close(): shut this side of the socket.
Shut(c) == [stream EXCEPT ![c] = IF @ = "dead" THEN @ ELSE "closing"]

-----------------------------------------------------------------------------
(* What the pool does to its lists.  tk is what is left of ticks.          *)

\* spliceConnection(queue, connection): drop the first occurrence.
spliceConnection(s, c) ==
    IF c \notin Elems(s) THEN s
    ELSE LET i == CHOOSE i \in DOMAIN s :
                      /\ s[i] = c
                      /\ \A j \in 1 .. i - 1 : s[j] # c
         IN  SubSeq(s, 1, i - 1) \o SubSeq(s, i + 1, Len(s))

\* Faulty: pop() for shift(), the newest waiter tries first.
ServeNewest(tk) ==
    IF queue = <<>>
    THEN ticks' = tk /\ UNCHANGED queue
    ELSE /\ queue' = SubSeq(queue, 1, Len(queue) - 1)
         /\ ticks' = Append(tk, Tick("retry", queue[Len(queue)], None))

\* A place has become free without a connection: let the oldest waiter try
\* again, from the next tick.
ServeNext(tk) ==
    IF queue = <<>>
    THEN ticks' = tk /\ UNCHANGED queue
    ELSE /\ queue' = Tail(queue)
         /\ ticks' = Append(tk, Tick("retry", Head(queue), None))

\* Faulty: the waiter that gets the connection stays in the queue.
ReleaseToPeeked(c, tk) ==
    IF queue = <<>>
    THEN free' = Append(free, c) /\ ticks' = tk /\ UNCHANGED queue
    ELSE /\ ticks' = Append(tk, Tick("give", Head(queue), c))
         /\ UNCHANGED <<queue, free>>

handleSuccessfulRelease(c, tk) ==
    IF queue = <<>>
    THEN /\ free' = Append(free, c)
         /\ ticks' = tk
         /\ UNCHANGED queue
    ELSE /\ queue' = Tail(queue)
         /\ ticks' = Append(tk, Tick("give", Head(queue), c))
         /\ UNCHANGED free

\* The callback of the reset got an error: the connection leaves the pool.
ResetFailed(c) ==
    /\ pooled' = [pooled EXCEPT ![c] = FALSE]
    /\ all' = all \ {c}
    /\ ServeNext(ticks)
    /\ UNCHANGED free

\* Faulty: the connection is reset and offered at the same time.
ReleaseDuringReset(c) ==
    /\ pooled[c]
    /\ task' = [task EXCEPT ![c] = IF Accepting(c) THEN "reset" ELSE @]
    /\ handleSuccessfulRelease(c, ticks)
    /\ UNCHANGED <<all, pooled, stream>>

\* pool.releaseConnection(connection).  A command given to a connection
\* that is not accepting any more fails at once.
releaseConnection(c) ==
    \/ /\ ~pooled[c]
       /\ ServeNext(ticks)
       /\ UNCHANGED <<all, free, pooled, stream, task>>
    \/ /\ pooled[c] /\ ResetOnRelease /\ Accepting(c)
       /\ task' = [task EXCEPT ![c] = "reset"]
       /\ UNCHANGED <<all, free, queue, ticks, pooled, stream>>
    \/ /\ pooled[c] /\ ResetOnRelease /\ ~Accepting(c)
       /\ ResetFailed(c)
       /\ stream' = Shut(c)
       /\ UNCHANGED task
    \/ /\ pooled[c] /\ ~ResetOnRelease
       /\ handleSuccessfulRelease(c, ticks)
       /\ UNCHANGED <<all, pooled, stream, task>>

\* Faulty: without the test of `_released'.
releaseUnguarded(c) ==
    IF ~pooled[c] \/ closed
    THEN UNCHANGED <<all, free, queue, ticks, pooled, released, stream, task>>
    ELSE released' = [released EXCEPT ![c] = TRUE] /\ releaseConnection(c)

\* connection.release()
release(c) ==
    IF released[c] \/ ~pooled[c] \/ closed
    THEN UNCHANGED <<all, free, queue, ticks, pooled, released, stream, task>>
    ELSE /\ released' = [released EXCEPT ![c] = TRUE]
         /\ releaseConnection(c)

\* Faulty: _removeConnection does not call releaseConnection: nobody tells
\* the waiters that a place is free.
removeQuietly(c) ==
    IF ~pooled[c] \/ closed
    THEN UNCHANGED <<all, free, queue, ticks, pooled>>
    ELSE /\ pooled' = [pooled EXCEPT ![c] = FALSE]
         /\ all' = all \ {c}
         /\ free' = spliceConnection(free, c)
         /\ UNCHANGED <<queue, ticks>>

\* Faulty: the connection stays in _freeConnections.
removeFromAllOnly(c) ==
    IF ~pooled[c] \/ closed
    THEN UNCHANGED <<all, free, queue, ticks, pooled>>
    ELSE /\ pooled' = [pooled EXCEPT ![c] = FALSE]
         /\ all' = all \ {c}
         /\ ServeNext(ticks)
         /\ UNCHANGED free

\* connection._removeFromPool(), with pool._removeConnection(connection)
removeFromPool(c) ==
    IF ~pooled[c] \/ closed
    THEN UNCHANGED <<all, free, queue, ticks, pooled>>
    ELSE /\ pooled' = [pooled EXCEPT ![c] = FALSE]
         /\ all' = all \ {c}
         /\ free' = spliceConnection(free, c)
         /\ ServeNext(ticks)

\* Faulty: calls back one connection too early, and one too late.
endCBEarly(n, a) ==
    IF endCb # "waiting" \/ n = 0
    THEN UNCHANGED endVars
    ELSE /\ endCount' = endCount + n
         /\ endCb' = IF endCount + n >= Cardinality(a) - 1 THEN "ok" ELSE "waiting"

endCBLate(n, a) ==
    IF endCb # "waiting" \/ n = 0
    THEN UNCHANGED endVars
    ELSE /\ endCount' = endCount + n
         /\ endCb' = IF endCount + n > Cardinality(a) THEN "ok" ELSE "waiting"

\* endCB() n times in a row, with a the connections still in the pool.
endCB(n, a) ==
    IF endCb # "waiting" \/ n = 0
    THEN UNCHANGED endVars
    ELSE /\ endCount' = endCount + n
         /\ endCb' = IF endCount + n >= Cardinality(a) THEN "ok" ELSE "waiting"

\* The commands before it are done: the Quit of pool.end(), if any, starts.
StartQuit(c, a) ==
    IF quit[c] = "queued"
    THEN quit' = [quit EXCEPT ![c] = "done"] /\ endCB(1, a)
    ELSE UNCHANGED <<quit, endVars>>

\* The callback of r has been called and r keeps no connection.
Answered(r) ==
    /\ req' = [req EXCEPT ![r] = "done"]
    /\ has' = [has EXCEPT ![r] = None]

-----------------------------------------------------------------------------
(* pool.getConnection                                                      *)

\* cb is called from the next tick, with an error.
FailLater(r, tk) ==
    /\ ticks' = Append(tk, Tick("fail", r, None))
    /\ req' = [req EXCEPT ![r] = "waiting"]
    /\ UNCHANGED <<all, free, queue, connVars, has>>

\* _freeConnections.pop(): the connection released last.
TakeFree(r, tk) ==
    /\ free # <<>>
    /\ free' = SubSeq(free, 1, Len(free) - 1)
    /\ ticks' = Append(tk, Tick("give", r, free[Len(free)]))
    /\ req' = [req EXCEPT ![r] = "waiting"]
    /\ UNCHANGED <<all, queue, connVars, has>>

BelowLimit == ConnectionLimit = 0 \/ Cardinality(all) < ConnectionLimit

\* new PoolConnection and connection.connect(...)
Create(r, tk) ==
    \E c \in Conns :
        /\ Fresh(c)
        /\ all' = all \union {c}
        /\ pooled' = [pooled EXCEPT ![c] = TRUE]
        /\ released' = [released EXCEPT ![c] = FALSE]
        /\ stream' = [stream EXCEPT ![c] = "open"]
        /\ task' = [task EXCEPT ![c] = "connect"]
        /\ quit' = [quit EXCEPT ![c] = "no"]
        /\ req' = [req EXCEPT ![r] = "waiting"]
        /\ has' = [has EXCEPT ![r] = c]
        /\ ticks' = tk
        /\ UNCHANGED <<free, queue>>

QueueFull == QueueLimit # 0 /\ Len(queue) >= QueueLimit

\* cb is called with "Queue limit reached." before getConnection returns.
Refuse(r, tk) ==
    /\ ticks' = tk
    /\ Answered(r)
    /\ UNCHANGED <<all, free, queue, connVars>>

Enqueue(r, tk) ==
    /\ queue' = Append(queue, r)
    /\ ticks' = tk
    /\ req' = [req EXCEPT ![r] = "waiting"]
    /\ UNCHANGED <<all, free, connVars, has>>

getConnection(r, tk) ==
    /\ \/ closed /\ FailLater(r, tk)
       \/ ~closed /\ TakeFree(r, tk)
       \/ ~closed /\ free = <<>> /\ BelowLimit /\ Create(r, tk)
       \/ /\ ~closed /\ free = <<>> /\ ~BelowLimit
          /\ \/ ~WaitForConnections /\ FailLater(r, tk)
             \/ WaitForConnections /\ QueueFull /\ Refuse(r, tk)
             \/ WaitForConnections /\ ~QueueFull /\ Enqueue(r, tk)
    /\ UNCHANGED <<closed, endVars>>

-----------------------------------------------------------------------------
(* The application's calls.                                                *)

\* pool.getConnection(cb), pool.query(...) or pool.execute(...)
Request(r) ==
    /\ req[r] = "new" \/ (req[r] = "done" /\ "again" \in Calls)
    /\ getConnection(r, ticks)

\* The application holds a connection that it got from getConnection.
Holds(r, c) == req[r] = "holding" /\ has[r] = c /\ r \notin Queries

Release(r, c) ==
    /\ "release" \in Calls
    /\ Holds(r, c)
    /\ release(c)
    /\ Answered(r)
    /\ UNCHANGED <<closed, quit, endVars>>

ReleaseViaPool(r, c) ==
    /\ "releaseConnection" \in Calls
    /\ Holds(r, c)
    /\ releaseConnection(c)
    /\ Answered(r)
    /\ UNCHANGED <<closed, released, quit, endVars>>

\* The application has given c back and nobody has got it since.
GivenBack(c) == Holders(c) = {} /\ stream[c] # "dead"

\* A second connection.release(), before the pool hands c out again.
StaleRelease(c) ==
    /\ "staleRelease" \in Calls
    /\ GivenBack(c)
    /\ release(c)
    /\ UNCHANGED <<closed, quit, req, has, endVars>>

Destroy(r, c) ==
    /\ "destroy" \in Calls
    /\ Holds(r, c)
    /\ removeFromPool(c)
    /\ stream' = Shut(c)
    /\ Answered(r)
    /\ UNCHANGED <<closed, released, task, quit, endVars>>

\* connection.destroy() on a connection that has been given back.
StaleDestroy(c) ==
    /\ "staleDestroy" \in Calls
    /\ GivenBack(c)
    /\ removeFromPool(c)
    /\ stream' = Shut(c)
    /\ UNCHANGED <<closed, released, task, quit, req, has, endVars>>

\* connection.end(): with gracefulEnd it leaves the pool and sends COM_QUIT,
\* otherwise it is release() with a warning.
EndConn(r, c) ==
    /\ "endConn" \in Calls
    /\ Holds(r, c)
    /\ \/ /\ GracefulEnd
          /\ removeFromPool(c)
          /\ stream' = Shut(c)
          /\ UNCHANGED <<released, task>>
       \/ ~GracefulEnd /\ release(c)
    /\ Answered(r)
    /\ UNCHANGED <<closed, quit, endVars>>

FailTick(r) == Tick("fail", r, None)

\* pool.end(cb).  `idle' are the connections with no command in progress:
\* their Quit starts at once.  The others have it queued behind what they
\* are doing: connecting, a reset, a query of the pool, or of the application.
EndPool ==
    /\ "end" \in Calls
    /\ endCb = "none"
    /\ closed' = TRUE
    /\ queue' = <<>>
    /\ ticks' = ticks \o [i \in 1 .. Len(queue) |-> FailTick(queue[i])]
    /\ \E idle \in SUBSET {c \in all : /\ task[c] = "idle"
                                       /\ Holders(c) \intersect Queries = {}} :
          /\ quit' = [c \in Conns |-> IF c \in idle THEN "done"
                                      ELSE IF c \in all THEN "queued"
                                      ELSE quit[c]]
          /\ stream' = [c \in Conns |-> IF c \in idle THEN "closing"
                                        ELSE stream[c]]
          /\ endCount' = Cardinality(idle)
          /\ endCb' = IF idle = all THEN "ok" ELSE "waiting"
    /\ UNCHANGED <<all, free, pooled, released, task, req, has>>

-----------------------------------------------------------------------------
(* process.nextTick                                                        *)

\* Faulty: `_released' is not cleared, so the next release() does nothing.
GiveStillReleased(r, c) ==
    /\ UNCHANGED released
    /\ IF r \in Queries /\ ~Accepting(c)
       THEN Answered(r)
       ELSE /\ req' = [req EXCEPT ![r] = "holding"]
            /\ has' = [has EXCEPT ![r] = c]

\* cb(null, connection).  pool.query starts its query; on a connection that
\* accepts no command the query fails and the connection is not given back.
Give(r, c) ==
    /\ released' = [released EXCEPT ![c] = FALSE]
    /\ IF r \in Queries /\ ~Accepting(c)
       THEN Answered(r)
       ELSE /\ req' = [req EXCEPT ![r] = "holding"]
            /\ has' = [has EXCEPT ![r] = c]

RunTick ==
    /\ ticks # <<>>
    /\ LET t == Head(ticks) IN
       \/ /\ t.op = "give"
          /\ Give(t.req, t.conn)
          /\ ticks' = Tail(ticks)
          /\ UNCHANGED <<closed, all, free, queue, pooled, stream, task, quit,
                         endVars>>
       \/ /\ t.op = "fail"
          /\ Answered(t.req)
          /\ ticks' = Tail(ticks)
          /\ UNCHANGED <<closed, all, free, queue, connVars, endVars>>
       \/ /\ t.op = "retry"
          /\ getConnection(t.req, Tail(ticks))
       \/ /\ t.op = "reset"
          /\ handleSuccessfulRelease(t.conn, Tail(ticks))
          /\ UNCHANGED <<closed, all, connVars, req, has, endVars>>

-----------------------------------------------------------------------------
(* The socket of a connection.                                             *)

\* The handshake of c succeeds: connect's callback runs, then a queued Quit.
ConnectOk(r, c) ==
    /\ ticks = <<>>
    /\ has[r] = c /\ task[c] = "connect" /\ stream[c] = "open"
    /\ task' = [task EXCEPT ![c] = "idle"]
    /\ IF closed
       THEN Answered(r)
       ELSE req' = [req EXCEPT ![r] = "holding"] /\ UNCHANGED has
    /\ stream' = IF quit[c] = "queued" THEN Shut(c) ELSE stream
    /\ StartQuit(c, all)
    /\ UNCHANGED <<closed, all, free, queue, ticks, pooled, released>>

\* The server closes its side: 'end' on the socket.
StreamEnd(c) ==
    /\ ticks = <<>>
    /\ stream[c] = "open"
    /\ stream' = [stream EXCEPT ![c] = "fin"]
    /\ removeFromPool(c)
    /\ UNCHANGED <<closed, released, task, quit, req, has, endVars>>

\* The socket, or the protocol, of c fails and _notifyError passes the error
\* to every command of c: 'error', or 'close' that this side did not ask for.
StreamFail(c) ==
    /\ ticks # <<>> => TrailingError /\ ticks[Len(ticks)].conn = c
    /\ stream[c] # "dead"
    /\ stream' = [stream EXCEPT ![c] = "dead"]
    /\ IF task[c] = "reset" THEN ResetFailed(c) ELSE removeFromPool(c)
    /\ task' = [task EXCEPT ![c] = "idle"]
    /\ LET failed == {r \in Holders(c) : req[r] = "waiting" \/ r \in Queries}
       IN  /\ req' = [r \in Reqs |-> IF r \in failed THEN "done" ELSE req[r]]
           /\ has' = [r \in Reqs |-> IF r \in failed THEN None ELSE has[r]]
    /\ quit' = IF quit[c] = "queued" THEN [quit EXCEPT ![c] = "done"] ELSE quit
    /\ endCb' = IF quit[c] = "queued" /\ endCb = "waiting" THEN "err" ELSE endCb
    /\ UNCHANGED <<closed, released, endCount>>

\* The socket of a connection that this side is closing goes away: `_closing'
\* is set, so no command hears of it.
StreamGone(c) ==
    /\ ticks = <<>>
    /\ stream[c] = "closing"
    /\ stream' = [stream EXCEPT ![c] = "dead"]
    /\ task' = [task EXCEPT ![c] = "idle"]
    /\ UNCHANGED <<closed, all, free, queue, ticks, pooled, released, quit, req,
                   has, endVars>>

\* The server answers the reset of c.  The answer may come after destroy(),
\* which only shuts this side.  A success is reported from the next tick, an
\* error at once; then a queued Quit starts.
ResetReply(c, ok) ==
    /\ ticks = <<>>
    /\ task[c] = "reset" /\ stream[c] \in {"open", "closing"}
    /\ task' = [task EXCEPT ![c] = "idle"]
    /\ IF ok
       THEN /\ ticks' = Append(ticks, Tick("reset", None, c))
            /\ UNCHANGED <<all, free, queue, pooled>>
       ELSE ResetFailed(c)
    /\ stream' = IF ~ok \/ quit[c] = "queued" THEN Shut(c) ELSE stream
    /\ StartQuit(c, all')
    /\ UNCHANGED <<closed, released, req, has>>

\* The query of a pool.query ends: the pool releases the connection, or
\* destroys it when the server reports that it is read-only.
QueryEnd(r, c, readOnly) ==
    /\ ticks = <<>>
    /\ r \in Queries /\ req[r] = "holding" /\ has[r] = c /\ stream[c] = "open"
    /\ Answered(r)
    /\ \/ ~closed /\ ~readOnly /\ release(c) /\ UNCHANGED <<quit, endVars>>
       \/ /\ ~closed /\ readOnly
          /\ removeFromPool(c)
          /\ stream' = Shut(c)
          /\ UNCHANGED <<released, task, quit, endVars>>
       \/ /\ closed
          /\ StartQuit(c, all)
          /\ stream' = Shut(c)
          /\ UNCHANGED <<all, free, queue, ticks, pooled, released, task>>
    /\ UNCHANGED closed

\* conn.query or conn.execute throws (a bad parameter): catch and release.
QueryThrow(r, c) ==
    /\ r \in Queries /\ req[r] = "holding" /\ has[r] = c /\ ~closed
    /\ release(c)
    /\ Answered(r)
    /\ UNCHANGED <<closed, quit, endVars>>

\* The application's own commands on c are done and the queued Quit starts.
QuitRuns(c) ==
    /\ ticks = <<>>
    /\ quit[c] = "queued" /\ task[c] = "idle"
    /\ stream[c] \in {"open", "closing"}
    /\ Holders(c) \intersect Queries = {}
    /\ StartQuit(c, all)
    /\ stream' = Shut(c)
    /\ UNCHANGED <<closed, all, free, queue, ticks, pooled, released, task, req,
                   has>>

\* The timer of _removeIdleTimeoutConnections ends the k connections that
\* have been idle longest: down to maxIdle, and the ones past idleTimeout.
\* It tests maxIdle < connectionLimit once, and pool.end() clears it.
IdleTimer(k) ==
    /\ ticks = <<>>
    /\ MaxIdle < ConnectionLimit /\ ~closed
    /\ k >= Len(free) - MaxIdle
    /\ LET gone == {free[i] : i \in 1 .. k} IN
       /\ \A c \in gone : pooled[c]
       /\ Cardinality(gone) = k
       /\ pooled' = [c \in Conns |-> pooled[c] /\ c \notin gone]
       /\ stream' = [c \in Conns |-> IF c \in gone THEN "closing" ELSE stream[c]]
       /\ all' = all \ gone
    /\ free' = SubSeq(free, k + 1, Len(free))
    /\ LET n == IF k < Len(queue) THEN k ELSE Len(queue) IN
       /\ ticks' = [i \in 1 .. n |-> Tick("retry", queue[i], None)]
       /\ queue' = SubSeq(queue, n + 1, Len(queue))
    /\ UNCHANGED <<closed, released, task, quit, req, has, endVars>>

-----------------------------------------------------------------------------
AppNext ==
    \/ \E r \in Reqs : Request(r)
    \/ \E r \in Reqs, c \in Conns :
          \/ Release(r, c)
          \/ ReleaseViaPool(r, c)
          \/ Destroy(r, c)
          \/ EndConn(r, c)
    \/ \E c \in Conns : StaleRelease(c) \/ StaleDestroy(c)
    \/ EndPool

StreamNext ==
    \/ \E r \in Reqs, c \in Conns :
          \/ ConnectOk(r, c)
          \/ \E readOnly \in BOOLEAN : QueryEnd(r, c, readOnly)
          \/ QueryThrow(r, c)
    \/ \E c \in Conns :
          \/ StreamEnd(c)
          \/ StreamFail(c)
          \/ StreamGone(c)
          \/ \E ok \in BOOLEAN : ResetReply(c, ok)
          \/ QuitRuns(c)
    \/ \E k \in 1 .. Len(free) : IdleTimer(k)

Next == AppNext \/ RunTick \/ StreamNext

Spec == Init /\ [][Next]_vars

-----------------------------------------------------------------------------
(* Safety.                                                                 *)

Distinct(s) == \A i, j \in DOMAIN s : s[i] = s[j] => i = j

OnePerConn(t) == \A i, j \in DOMAIN t :
                    t[i].conn = t[j].conn /\ t[i].conn # None => i = j

OnePerReq(t) == \A i, j \in DOMAIN t :
                    t[i].req = t[j].req /\ t[i].req # None => i = j

\* A connection is in one place: held by (or being opened for) one request,
\* once in _freeConnections, in one pending callback, or being reset.  Two
\* users of one connection would see each other's transactions and results.
OneOwner ==
    /\ \A r1, r2 \in Reqs : has[r1] = has[r2] /\ has[r1] # None => r1 = r2
    /\ Distinct(free)
    /\ OnePerConn(ticks)
    /\ Elems(free) \intersect ConnsOf(ticks) = {}
    /\ \A c \in Elems(free) \union ConnsOf(ticks) : Holders(c) = {} /\ task[c] = "idle"
    /\ \A r \in Reqs : has[r] # None =>
          task[has[r]] = IF req[r] = "waiting" THEN "connect" ELSE "idle"

\* Every accepted request waits in exactly one place (the queue, a tick or a
\* connection being opened), and no other request waits anywhere: so the
\* callback of getConnection is never lost and never called twice.
RequestOnce ==
    /\ Distinct(queue)
    /\ OnePerReq(ticks)
    /\ Elems(queue) \intersect ReqsOf(ticks) = {}
    /\ \A r \in Reqs :
          /\ r \in Elems(queue) \union ReqsOf(ticks)
                <=> req[r] = "waiting" /\ has[r] = None
          /\ req[r] = "holding" => has[r] # None
          /\ req[r] \in {"new", "done"} => has[r] = None

\* A request waits in the queue only while every connection the limit allows
\* exists, is used by somebody, or is about to be replaced by a pending retry.
NoLostWakeup ==
    queue # <<>> /\ ~closed =>
        /\ free = <<>>
        /\ Cardinality(all)
             + Cardinality({i \in DOMAIN ticks : ticks[i].op = "retry"})
           >= ConnectionLimit

\* No connection that counts against the limit has been forgotten: it is
\* held, idle in the pool, or on its way to the one or the other.
NoLeak ==
    ~closed => \A c \in all :
        \/ Holders(c) # {}
        \/ c \in Elems(free) \union ConnsOf(ticks)
        \/ task[c] = "reset"

\* pool.end() reports success only when no Quit waits behind other commands.
EndMeansEnded == endCb = "ok" => \A c \in Conns : quit[c] # "queued"

-----------------------------------------------------------------------------
(* Action properties.                                                      *)

\* A connection handed out by an open pool can be used: it still belongs to
\* the pool and takes commands.
DeliveredLive ==
    [][\A r \in Reqs : req[r] # "holding" /\ req'[r] = "holding" /\ ~closed
          => pooled[has'[r]] /\ Accepting(has'[r])]_vars

\* Requests are served in the order they were queued: a step that takes a
\* request out of the queue takes every request queued before it as well.
QueueIsFifo ==
    [][\A i, j \in DOMAIN queue :
          i < j /\ queue[j] \notin Elems(queue') => queue[i] \notin Elems(queue')]_vars

-----------------------------------------------------------------------------
(* Liveness.                                                               *)

\* What the environment owes a command of c that the pool waits for: an
\* answer, or the end of the socket.
Settles(c) ==
    \/ StreamFail(c)
    \/ StreamGone(c)
    \/ \E r \in Reqs : ConnectOk(r, c) \/ (\E ro \in BOOLEAN : QueryEnd(r, c, ro))
    \/ \E ok \in BOOLEAN : ResetReply(c, ok)
    \/ QuitRuns(c)

InProgress(c) ==
    \/ task[c] # "idle"
    \/ quit[c] = "queued"
    \/ Holders(c) \intersect Queries # {}

\* Ticks run.  A connection attempt ends (connectTimeout), a command is
\* answered or its socket fails, and an application gives back what it got.
Fairness ==
    /\ WF_vars(RunTick)
    /\ \A c \in Conns : WF_vars(InProgress(c) /\ Settles(c))
    /\ \A r \in Reqs : WF_vars(\E c \in Conns : Release(r, c))

FairSpec == Spec /\ Fairness

\* Every request gets its callback: nobody waits for ever in the queue, for a
\* tick, or for a connection that never opens.
RequestAnswered == \A r \in Reqs : req[r] = "waiting" ~> req[r] # "waiting"

\* pool.end() calls back, whatever the connections were doing.
EndCallsBack == endCb = "waiting" ~> endCb # "waiting"

=============================================================================
