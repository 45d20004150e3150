---------------------------- MODULE PoolCluster ----------------------------
(***************************************************************************)
(* lib/pool_cluster.js: several pools behind one object.  A request names  *)
(* a pattern, the cluster picks a node that matches it and is not offline, *)
(* and asks the pool of that node.  The pool (module Pool) answers later,  *)
(* with a connection or an error; an error counts against the node, which  *)
(* at the limit goes offline for a time or is removed for good, and the    *)
(* request may be tried again on another node.                             *)
(*                                                                         *)
(* A node is an object: after remove() and add() with the same id there    *)
(* are two of that id, and requests may still be waiting on the first.     *)
(***************************************************************************)
EXTENDS Integers, Sequences, FiniteSets, SequencesExt

CONSTANTS
    Ids,            \* names of nodes
    Nodes,          \* node objects 1 .. n, made in this order
    Matches,        \* for each pattern in its domain, the ids it matches
    Reqs,           \* calls of getConnection, each made once
    Wants,          \* the pattern and the selector of each: RR, RANDOM, ORDER
    Queries,        \* those made by query() and execute() of a namespace
    Options,        \* values of canRetry, removeNodeErrorCount (limit), and
                    \* whether restoreNodeTimeout > 0 (restore)
    Ends,           \* calls of end(), 1 .. n, in this order
    None

ASSUME IdsAssumption == IsFiniteSet(Ids)
ASSUME NoneAssumption == None \notin Nodes /\ None \notin Ids
ASSUME NodesAssumption == IsFiniteSet(Nodes) /\ Nodes = 1 .. Cardinality(Nodes)
ASSUME WantsAssumption ==
    Wants \in [Reqs -> [pattern : DOMAIN Matches, selector : {"RR", "RANDOM", "ORDER"}]]
ASSUME QueriesAssumption == Queries \subseteq Reqs
ASSUME OptionsAssumption == Options \subseteq [canRetry : BOOLEAN, limit : Nat \ {0}, restore : BOOLEAN]

VARIABLES
    config,         \* one of the Options
    nodes,          \* _nodes: the object of each id, or None
    serviceable,    \* _serviceableNodeIds
    findCaches,     \* _findCaches: from some patterns to lists of ids
    cursor,         \* the index of each RR namespace
    node,           \* of each object: id, errorCount, _offlineUntil, its pool
    req,            \* of each request: where it is
    ending          \* the calls of end(), and the closure of the first one

vars == <<config, nodes, serviceable, findCaches, cursor, node, req, ending>>

Patterns == DOMAIN Matches

\* _offlineUntil: "never" is 0, then a time to come, then a time that is past.
Offline == {"never", "future", "past"}
Unused == [id |-> None, errorCount |-> 0, offlineUntil |-> "never", pool |-> "none"]

Init ==
    /\ config \in Options
    /\ nodes = [id \in Ids |-> None]
    /\ serviceable = <<>>
    /\ findCaches = <<>>
    /\ cursor = [p \in Patterns |-> 0]
    /\ node = [o \in Nodes |-> Unused]
    /\ req = [r \in Reqs |-> [at |-> "idle"]]
    /\ ending = [closed |-> FALSE, first |-> None, waiting |-> 0, pools |-> {},
                 call |-> [e \in Ends |-> "none"], times |-> [e \in Ends |-> 0]]

-----------------------------------------------------------------------------
\* The cluster as a value, so that one callback can change it several times.

Cluster == [nodes |-> nodes, serviceable |-> serviceable, findCaches |-> findCaches,
            cursor |-> cursor, node |-> node]

\* A node that has been removed is forgotten once no request waits for it.
Garbage(c, o) == /\ c.node[o].pool = "ended" /\ o \notin {c.nodes[id] : id \in Ids}
                 /\ \A r \in Reqs : req'[r].at = "asked" => req'[r].node # o

Becomes(c) ==
    /\ nodes' = c.nodes /\ serviceable' = c.serviceable
    /\ findCaches' = c.findCaches /\ cursor' = c.cursor
    /\ node' = [o \in Nodes |-> IF Garbage(c, o) THEN [Unused EXCEPT !.pool = "ended"] ELSE c.node[o]]

\* The members of a list that are in the set S, in their order (filter).
Only(list, S) ==
    LET f[n \in 0 .. Len(list)] ==
          IF n = 0 THEN <<>>
          ELSE IF list[n] \in S THEN Append(f[n - 1], list[n]) ELSE f[n - 1]
    IN  f[Len(list)]

\* _findNodeIds fills the cache and reads it.
Found(c, p) ==
    IF p \in DOMAIN c.findCaches THEN c.findCaches[p] ELSE Only(c.serviceable, Matches[p])

Cached(c, p) ==
    [c EXCEPT !.findCaches = [x \in DOMAIN @ \union {p} |-> IF x = p THEN Found(c, p) ELSE @[x]]]

\* Faulty: offline nodes are found, too.
OnlineOrNot(c, p) == Found(c, p)

Online(c, p) ==
    Only(Found(c, p), {id \in ToSet(Found(c, p)) : c.node[c.nodes[id]].offlineUntil # "future"})

\* The index of a round-robin selector only counts modulo the number of ids.
Period == LET f[n \in 0 .. Cardinality(Ids)] == IF n = 0 THEN 1 ELSE n * f[n - 1] IN f[Cardinality(Ids)]

\* The choices of a selector: position, and the cursor afterwards.  One node
\* that is found is taken without asking the selector.
Selected(c, p, selector) ==
    LET n == Len(Online(c, p))
    IN  IF n = 1 \/ selector = "ORDER" THEN {[pos |-> 1, cursor |-> c.cursor[p]]}
        ELSE IF selector = "RANDOM" THEN [pos : 1 .. n, cursor : {c.cursor[p]}]
        ELSE {[pos |-> 1 + (c.cursor[p] % n), cursor |-> (c.cursor[p] + 1) % Period]}

clearFindCaches(c) == [c EXCEPT !.findCaches = <<>>]

\* The ids leave the cluster; the pools of the objects are ended.
Without(c, ids, objects) ==
    clearFindCaches([c EXCEPT
        !.serviceable = Only(@, Ids \ ids),
        !.nodes = [id \in Ids |-> IF id \in ids THEN None ELSE @[id]],
        !.node = [o \in Nodes |-> IF o \in objects THEN [@[o] EXCEPT !.pool = "ended"] ELSE @[o]]])

removeNode(c, o) ==
    LET id == c.node[o].id
    IN  IF id \notin ToSet(c.serviceable) THEN c ELSE Without(c, {id}, {o})

\* Faulty: the limit is passed, not reached.
increaseBeyond(c, o) ==
    LET n == c.node[o].errorCount + 1
        counted == [c EXCEPT !.node[o].errorCount = IF n > config.limit THEN config.limit ELSE n]
    IN  IF n <= config.limit THEN counted
        ELSE IF config.restore THEN [counted EXCEPT !.node[o].offlineUntil = "future"]
        ELSE removeNode(counted, o)

\* Faulty: the error is compared with the limit but not counted.
increaseForgets(c, o) ==
    IF c.node[o].errorCount + 1 < config.limit THEN c
    ELSE IF config.restore THEN [c EXCEPT !.node[o].offlineUntil = "future"]
    ELSE removeNode(c, o)

\* Above the limit the count is only compared with the limit, and cut to it
\* by the next success: it is kept at the limit.
increaseErrorCount(c, o) ==
    LET n == c.node[o].errorCount + 1
        counted == [c EXCEPT !.node[o].errorCount = IF n > config.limit THEN config.limit ELSE n]
    IN  IF n < config.limit THEN counted
        ELSE IF config.restore THEN [counted EXCEPT !.node[o].offlineUntil = "future"]
        ELSE removeNode(counted, o)

decreaseErrorCount(c, o) ==
    [c EXCEPT !.node[o].errorCount = IF @ < 1 THEN 0 ELSE @ - 1,
              !.node[o].offlineUntil = "never"]

-----------------------------------------------------------------------------
\* Requests.

\* PoolNamespace.getConnection on the cluster c: a node is asked, or there is
\* none and the request fails (with a code that tells whether one is offline).
\* `late' is a request to a pool that has been ended: it can only fail.
Ask(c, r) ==
    LET p == Wants[r].pattern
        found == Cached(c, p)
    IN  \/ /\ Online(c, p) = <<>>
           /\ req' = [req EXCEPT ![r] = [at |-> "failed"]]
           /\ Becomes(found)
        \/ /\ Online(c, p) # <<>>
           /\ \E s \in Selected(c, p, Wants[r].selector) :
                LET o == c.nodes[Online(c, p)[s.pos]]
                IN  /\ req' = [req EXCEPT ![r] =
                         [at |-> "asked", node |-> o, late |-> c.node[o].pool = "ended"]]
                    /\ Becomes([found EXCEPT !.cursor[p] = s.cursor])

GetConnection(r) ==
    /\ req[r].at = "idle"
    /\ Ask(Cluster, r)
    /\ UNCHANGED <<config, ending>>

\* The pool gives a connection.  query() and execute() of the namespace then
\* run on it and release it at their end; getConnection hands it over.
AnswerOk(r) ==
    /\ req[r].at = "asked" /\ ~req[r].late
    /\ req' = [req EXCEPT ![r] = [at |-> IF r \in Queries THEN "running" ELSE "done"]]
    /\ Becomes(decreaseErrorCount(Cluster, req[r].node))
    /\ UNCHANGED <<config, ending>>

\* The pool answers with an error: it counts, and the request is tried again
\* as long as a node is online.
Retried(c, r) == config.canRetry /\ Online(c, Wants[r].pattern) # <<>>

AnswerError(r) ==
    /\ req[r].at = "asked"
    /\ LET c == increaseErrorCount(Cluster, req[r].node)
           looked == IF config.canRetry THEN Cached(c, Wants[r].pattern) ELSE c
       IN  \/ Retried(c, r) /\ Ask(looked, r)
           \/ /\ ~Retried(c, r)
              /\ req' = [req EXCEPT ![r] = [at |-> "failed"]]
              /\ Becomes(looked)
    /\ UNCHANGED <<config, ending>>

\* 'end' of the command, or an exception from conn.query().
QueryEnd(r) ==
    /\ req[r].at = "running"
    /\ req' = [req EXCEPT ![r].at = "done"]
    /\ UNCHANGED <<config, nodes, serviceable, findCaches, cursor, node, ending>>

-----------------------------------------------------------------------------
\* Membership and time.

\* Faulty: the caches are kept.
AddOnly(id) ==
    /\ nodes[id] = None
    /\ \E o \in Nodes :
          /\ node[o] = Unused /\ \A x \in Nodes : x < o => node[x] # Unused
          /\ node' = [node EXCEPT ![o].id = id, ![o].pool = "open"]
          /\ nodes' = [nodes EXCEPT ![id] = o]
    /\ serviceable' = Append(serviceable, id)
    /\ UNCHANGED <<config, findCaches, cursor, req, ending>>

\* add() does nothing when the id is in use, and does not look at _closed.
Add(id) ==
    /\ nodes[id] = None
    /\ \E o \in Nodes :
          /\ node[o] = Unused /\ \A x \in Nodes : x < o => node[x] # Unused
          /\ node' = [node EXCEPT ![o].id = id, ![o].pool = "open"]
          /\ nodes' = [nodes EXCEPT ![id] = o]
    /\ serviceable' = Append(serviceable, id)
    /\ findCaches' = <<>>
    /\ UNCHANGED <<config, cursor, req, ending>>

\* remove(): the loop removes one node after the other, and the list it goes
\* through is not the one that each removal shortens.
RemoveNodes(p) ==
    /\ UNCHANGED req
    /\ LET looked == Cached(Cluster, p)
           gone == {id \in ToSet(Found(Cluster, p)) : nodes[id] # None}
       IN  Becomes(IF gone = {} THEN looked ELSE Without(looked, gone, {nodes[id] : id \in gone}))
    /\ UNCHANGED <<config, ending>>

\* The getter `trace' of a namespace looks the pattern up, too.
Trace(p) ==
    /\ UNCHANGED req
    /\ Becomes(Cached(Cluster, p))
    /\ UNCHANGED <<config, ending>>

TimePasses(o) ==
    /\ node[o].offlineUntil = "future"
    /\ node' = [node EXCEPT ![o].offlineUntil = "past"]
    /\ UNCHANGED <<config, nodes, serviceable, findCaches, cursor, req, ending>>

-----------------------------------------------------------------------------
\* end()

CanEnd(e) == ending.call[e] = "none" /\ \A x \in Ends : x < e => ending.call[x] # "none"
CallBack(e) == [ending EXCEPT !.call[e] = "called", !.times[e] = @ + 1]

\* The first call of end() ends every pool in the order of _nodes.  A pool
\* without connections (`empty') calls back at once; if those before it have,
\* too, the count is back at zero and the callback of end() is called.  With
\* no node at all it is called from nextTick.
End(e, empty) ==
    /\ CanEnd(e) /\ ~ending.closed
    /\ LET ids == ToSet(serviceable)
           objects == {nodes[id] : id \in ids}
           early == ids # {} /\ nodes[Head(serviceable)] \in empty
       IN  /\ empty \subseteq objects
           /\ \A r \in Reqs : req[r].at = "asked" => req[r].node \notin empty
           /\ ending' = [closed |-> TRUE, first |-> e, waiting |-> Cardinality(objects \ empty),
                         pools |-> objects \ empty,
                         call |-> [ending.call EXCEPT ![e] =
                                     IF ids = {} THEN "tick" ELSE IF early THEN "called" ELSE "first"],
                         times |-> [ending.times EXCEPT ![e] = IF early THEN 1 ELSE 0]]
           /\ node' = [o \in Nodes |-> IF o \in objects THEN [node[o] EXCEPT !.pool = "ended"] ELSE node[o]]
    /\ UNCHANGED <<config, nodes, serviceable, findCaches, cursor, req>>

\* Another call finds _closed and calls back from nextTick.
EndAgain(e) ==
    /\ CanEnd(e) /\ ending.closed
    /\ ending' = [ending EXCEPT !.call[e] = "tick"]
    /\ UNCHANGED <<config, nodes, serviceable, findCaches, cursor, node, req>>

EndTick(e) ==
    /\ ending.call[e] = "tick"
    /\ ending' = CallBack(e)
    /\ UNCHANGED <<config, nodes, serviceable, findCaches, cursor, node, req>>

\* Faulty: every pool calls back, after an error as well.
onEndUnguarded(e, err) ==
    IF err \/ ending.waiting - 1 <= 0 THEN [CallBack(e) EXCEPT !.waiting = IF err THEN @ ELSE @ - 1]
    ELSE [ending EXCEPT !.waiting = @ - 1]

\* onEnd: the first error, or the last of the pools, calls back.
onEnd(e, err) ==
    IF ending.call[e] = "called" THEN ending
    ELSE IF err \/ ending.waiting - 1 <= 0 THEN [CallBack(e) EXCEPT !.waiting = IF err THEN @ ELSE @ - 1]
    ELSE [ending EXCEPT !.waiting = @ - 1]

PoolEnded(o, err) ==
    /\ o \in ending.pools
    /\ ending' = [onEnd(ending.first, err) EXCEPT !.pools = @ \ {o}]
    /\ UNCHANGED <<config, nodes, serviceable, findCaches, cursor, node, req>>

-----------------------------------------------------------------------------

Next ==
    \/ \E r \in Reqs : GetConnection(r) \/ AnswerOk(r) \/ AnswerError(r) \/ QueryEnd(r)
    \/ \E id \in Ids : Add(id)
    \/ \E p \in Patterns : RemoveNodes(p) \/ Trace(p)
    \/ \E o \in Nodes : TimePasses(o) \/ \E err \in BOOLEAN : PoolEnded(o, err)
    \/ \E e \in Ends : EndAgain(e) \/ EndTick(e) \/ \E empty \in SUBSET Nodes : End(e, empty)

Spec == Init /\ [][Next]_vars

-----------------------------------------------------------------------------
\* Properties.

InService == {nodes[id] : id \in ToSet(serviceable)}

\* Types; the list of serviceable ids and the table of nodes name the same
\* nodes, each once and under its own id.
TypeOK ==
    /\ serviceable \in SeqOf(Ids, Cardinality(Ids)) /\ IsInjective(serviceable)
    /\ \A id \in Ids : /\ nodes[id] \in Nodes \union {None}
                       /\ nodes[id] # None <=> id \in ToSet(serviceable)
                       /\ nodes[id] # None => node[nodes[id]].id = id
    /\ DOMAIN findCaches \subseteq Patterns
    /\ \A o \in Nodes : node[o].errorCount \in 0 .. config.limit /\ node[o].offlineUntil \in Offline
    /\ ending.waiting \in -1 .. Cardinality(Nodes)

\* What a cache says of a pattern is what a search would find now: nodes that
\* are added or removed, by the application or for their errors, in the middle
\* of a retry too, are never hidden or brought back by it (_clearFindCaches).
CachesFresh ==
    /\ TypeOK
    /\ \A p \in DOMAIN findCaches :
          findCaches[p] = Only(serviceable, Matches[p])

\* A node in service is out of use exactly when it has used up its errors:
\* below the limit it is never offline, at the limit it is, or it would have
\* been removed (_increaseErrorCount, _decreaseErrorCount).
OfflineAtLimit ==
    \A o \in InService :
        node[o].errorCount = config.limit <=> config.restore /\ node[o].offlineUntil # "never"

\* A request, the first time or again after an error, is only ever sent to a
\* node that is in service and not offline once the callback has done its
\* work: never to the node whose error has just used it up.
AsksOnlineNode ==
    [][\A r \in Reqs :
         req'[r] # req[r] /\ req'[r].at = "asked" =>
           LET o == req'[r].node
           IN  /\ nodes'[node'[o].id] = o /\ node'[o].offlineUntil # "future"
               /\ node'[o].id \in Matches[Wants[r].pattern]]_vars

\* Each call of end() is called back at most once, whatever the pools answer,
\* at once, later or with an error, and in whatever order.
EndOnce == \A e \in Ends : ending.times[e] <= 1

\* The sum of w over the nodes.
Total(w) ==
    LET f[n \in 0 .. Cardinality(Nodes)] == IF n = 0 THEN 0 ELSE f[n - 1] + w[n]
    IN  f[Cardinality(Nodes)]

\* The errors that the nodes in service may still make, and one more for each
\* of them; a request that waits for a node out of service has one try beyond.
ErrorsLeft ==
    Total([o \in Nodes |-> IF o \in InService THEN 1 + config.limit - node[o].errorCount ELSE 0])
RetriesLeft(r) == ErrorsLeft + IF req[r].node \in InService THEN 0 ELSE 1

\* Without restoreNodeTimeout retries come to an end, also in a cluster that
\* is being ended: each uses up one of the errors that the nodes in service
\* may still make, or leaves a node that is no longer in service.
RetryUsesUp ==
    [][\A r \in Reqs :
         AnswerError(r) /\ req'[r].at = "asked" /\ ~config.restore => RetriesLeft(r)' < RetriesLeft(r)]_vars

=============================================================================
