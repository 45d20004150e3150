----------------------------- MODULE Statements -----------------------------
(***************************************************************************)
(* Prepared statements of one connection: Prepare, Execute,                *)
(* CloseStatement, ResetConnection and ChangeUser of lib/commands with the *)
(* cache `_statements' of lib/base/connection.js, an LRU map from the key  *)
(* of a query to its statement.  The commands run one at a time in the     *)
(* order of the queue; what Connection.tla says of the queue is taken as   *)
(* given here.                                                             *)
(*                                                                         *)
(* The driver starts commands in one synchronous loop: the user acts when  *)
(* the loop has stopped (Settled), or inside a callback (`calling').  The  *)
(* server answers in order, so what it does with a request is part of the  *)
(* action that sends it.                                                   *)
(***************************************************************************)
EXTENDS Integers, Sequences, FiniteSets, SequencesExt

CONSTANTS
    Keys,           \* statement keys (the SQL with the options that matter)
    MaxStatements,  \* config.maxPreparedStatements
    MaxCalls,       \* bound: calls the user makes
    MaxDefs         \* bound: parameters and columns of a statement

ASSUME ConstantsAssumption ==
    MaxStatements \in Nat \ {0} /\ MaxCalls \in Nat /\ MaxDefs \in Nat

VARIABLES
    queue,          \* _commands
    current,        \* _command with the step it waits in, or None
    cache,          \* _statements, least recently used first: [key, id]
    open,           \* at the server: the ids of open statements
    prepared,       \* at the server: id -> key, of every statement ever made
    incoming,       \* packets that the server has sent for the command
    handles,        \* statements the user got from prepare() and may still use
    userClosed,     \* statements the user closed through such a handle
    ended,          \* end() was called: addCommand refuses
    refused,        \* how often the driver's own close() was refused then
    calling,        \* a user's callback runs
    calls,          \* calls of the user so far
    evictOnDelete   \* whether delete() and clear() of the LRU call onEviction

vars == <<queue, current, cache, open, prepared, incoming, handles, userClosed,
          ended, refused, calling, calls, evictOnDelete>>

None == [kind |-> "none"]
NoKey == "no key"

Kinds == {"prepare", "execute", "close", "reset", "change", "quit"}
Commands == [kind : Kinds, key : Keys \union {NoKey}, call : 0 .. MaxCalls, id : Nat]
Cmd(kind, key, call, id) == [kind |-> kind, key |-> key, call |-> call, id |-> id]

\* The commands that wait for packets.
Preparing == [kind : {"prepare"}, cmd : Commands, id : Nat,
              step : {"prepareHeader", "readParameter", "parametersEOF", "readField",
                      "fieldsEOF", "protocolError"},
              parameterCount : 0 .. MaxDefs, fieldCount : 0 .. MaxDefs,
              parameters : Nat, fields : Nat]
Executing == [kind : {"execute"}, cmd : Commands, known : BOOLEAN]
Resetting == [kind : {"reset"}, ok : BOOLEAN]

Init ==
    /\ queue = <<>> /\ current = None /\ cache = <<>>
    /\ open = {} /\ prepared = <<>> /\ incoming = <<>>
    /\ handles = {} /\ userClosed = {}
    /\ ended = FALSE /\ refused = 0 /\ calling = FALSE /\ calls = 0
    /\ evictOnDelete \in BOOLEAN

-----------------------------------------------------------------------------
\* The cache (lru.min) and what its evictions do.

Keyed(key) == {i \in DOMAIN cache : cache[i].key = key}
Ids(s) == {s[i].id : i \in DOMAIN s}

\* Faulty: the oldest statement is dropped, and stays open.
SetSilently(s) ==
    [kept |-> Append(SubSeq(cache, IF Len(cache) < MaxStatements THEN 1 ELSE 2, Len(cache)), s),
     evicted |-> <<>>]

\* set() of a new key: the least recently used statement makes room.
Set(s) ==
    LET full == Len(cache) >= MaxStatements
    IN  [kept |-> Append(IF full THEN Tail(cache) ELSE cache, s),
         evicted |-> IF full THEN <<Head(cache)>> ELSE <<>>]

\* statement.close() of each: a CloseStatement at the end of the queue q, or
\* an 'error' event when the connection is ending.
CloseEach(q, statements) ==
    IF ended THEN queue' = q /\ refused' = refused + Len(statements)
    ELSE /\ queue' = q \o [i \in DOMAIN statements |-> Cmd("close", NoKey, 0, statements[i].id)]
         /\ UNCHANGED refused

Deleted(statements) == IF evictOnDelete THEN statements ELSE <<>>

-----------------------------------------------------------------------------
\* The user.

Settled == current # None \/ queue = <<>>

Call(commands) ==
    /\ (Settled \/ calling) /\ ~ended /\ calls < MaxCalls
    /\ calls' = calls + 1
    /\ queue' = queue \o commands
    /\ UNCHANGED <<current, open, prepared, incoming, ended, refused, calling, evictOnDelete>>

Prepare(key) ==
    Call(<<Cmd("prepare", key, 0, 0)>>) /\ UNCHANGED <<cache, handles, userClosed>>

\* execute() adds a Prepare and an Execute that gets its statement from it.
Execute(key) ==
    /\ Call(<<Cmd("prepare", key, calls + 1, 0), Cmd("execute", key, calls + 1, 0)>>)
    /\ UNCHANGED <<cache, handles, userClosed>>

HandleExecute(id) ==
    /\ id \in handles
    /\ Call(<<Cmd("execute", prepared[id], 0, id)>>)
    /\ UNCHANGED <<cache, handles, userClosed>>

HandleClose(id) ==
    /\ id \in handles
    /\ Call(<<Cmd("close", NoKey, 0, id)>>)
    /\ handles' = handles \ {id} /\ userClosed' = userClosed \cup {id}
    /\ UNCHANGED cache

Reset == Call(<<Cmd("reset", NoKey, 0, 0)>>) /\ UNCHANGED <<cache, handles, userClosed>>
ChangeUser == Call(<<Cmd("change", NoKey, 0, 0)>>) /\ UNCHANGED <<cache, handles, userClosed>>

CloseDeleted(s) ==
    [n \in 1 .. (IF evictOnDelete THEN 2 ELSE 1) |-> Cmd("close", NoKey, 0, s.id)]

\* Faulty: the statement is closed and stays in the cache.
unprepareKeeps(key) ==
    \E i \in Keyed(key) :
        /\ Call(CloseDeleted(cache[i]))
        /\ handles' = handles \ {cache[i].id}
        /\ UNCHANGED <<cache, userClosed>>

\* unprepare() deletes the statement and closes it; if delete() calls
\* onEviction, it is closed twice.
unprepare(key) ==
    \E i \in Keyed(key) :
        /\ Call(CloseDeleted(cache[i]))
        /\ cache' = RemoveAt(cache, i)
        /\ handles' = handles \ {cache[i].id}
        /\ UNCHANGED userClosed

end ==
    /\ (Settled \/ calling) /\ ~ended
    /\ ended' = TRUE
    /\ queue' = Append(queue, Cmd("quit", NoKey, 0, 0))
    /\ UNCHANGED <<current, cache, open, prepared, incoming, handles, userClosed,
                   refused, calling, calls, evictOnDelete>>

-----------------------------------------------------------------------------
\* Prepare.  The Execute that execute() has added right behind it gets the
\* statement; a Prepare of prepare() hands it to the user.

Give(q, cmd, id) == IF cmd.call = 0 THEN q ELSE [q EXCEPT ![1].id = id]

\* What the server sends for a Prepare: an error, or a header and the
\* definitions it announces.  `short' says that of the parameters (or of the
\* columns) it announces more than it sends.
Definitions(n) == IF n = 0 THEN <<>> ELSE [i \in 1 .. n |-> "def"]
Announced(n, sent) == IF n = 0 THEN <<>> ELSE Append(Definitions(sent), "EOF")

PrepareFromCache ==
    /\ current = None /\ queue # <<>> /\ Head(queue).kind = "prepare"
    /\ LET cmd == Head(queue)
       IN  \E i \in Keyed(cmd.key) :
              /\ cache' = Append(RemoveAt(cache, i), cache[i])
              /\ queue' = Give(Tail(queue), cmd, cache[i].id)
              /\ handles' = IF cmd.call = 0 THEN handles \cup {cache[i].id} ELSE handles
              /\ calling' = (cmd.call = 0)
    /\ UNCHANGED <<current, open, prepared, incoming, userClosed, ended, refused, calls, evictOnDelete>>

PrepareStart(params, sentParams, fields, sentFields) ==
    /\ current = None /\ queue # <<>> /\ Head(queue).kind = "prepare"
    /\ Keyed(Head(queue).key) = {}
    /\ current' = [kind |-> "prepare", cmd |-> Head(queue), step |-> "prepareHeader",
                   id |-> Len(prepared) + 1, parameterCount |-> params, fieldCount |-> fields,
                   parameters |-> 0, fields |-> 0]
    /\ prepared' = Append(prepared, Head(queue).key)
    /\ open' = open \cup {Len(prepared) + 1}
    /\ incoming' = <<"header">> \o Announced(params, sentParams) \o Announced(fields, sentFields)
    /\ queue' = Tail(queue) /\ calling' = FALSE
    /\ UNCHANGED <<cache, handles, userClosed, ended, refused, calls, evictOnDelete>>

\* The server refuses: the Execute right behind it is skipped.
PrepareError ==
    /\ current = None /\ queue # <<>> /\ Head(queue).kind = "prepare"
    /\ Keyed(Head(queue).key) = {}
    /\ queue' = IF Head(queue).call = 0 THEN Tail(queue) ELSE Tail(Tail(queue))
    /\ calling' = TRUE
    /\ UNCHANGED <<current, cache, open, prepared, incoming, handles, userClosed, ended,
                   refused, calls, evictOnDelete>>

\* Faulty: an EOF before the last parameter is taken for the last of all.
readParameterEnds(packet) ==
    IF packet = "EOF" THEN [current EXCEPT !.step = "done"]
    ELSE [current EXCEPT !.parameters = @ + 1,
                         !.step = IF current.parameters + 1 = current.parameterCount
                                  THEN "parametersEOF" ELSE @]

AfterParameters == IF current.fieldCount > 0 THEN "readField" ELSE "done"

\* readParameter: the EOF may come before all parameters that were announced.
readParameter(packet) ==
    IF packet = "EOF" THEN [current EXCEPT !.step = AfterParameters]
    ELSE [current EXCEPT !.parameters = @ + 1,
                         !.step = IF current.parameters + 1 = current.parameterCount
                                  THEN "parametersEOF" ELSE @]

readField(packet) ==
    IF packet = "EOF" THEN [current EXCEPT !.step = "done"]
    ELSE [current EXCEPT !.fields = @ + 1,
                         !.step = IF current.fields + 1 = current.fieldCount THEN "fieldsEOF" ELSE @]

\* The other steps: prepareHeader, and the two that insist on an EOF.
nextStep(packet) ==
    CASE current.step = "prepareHeader" ->
            [current EXCEPT !.step = IF current.parameterCount > 0 THEN "readParameter" ELSE AfterParameters]
      [] current.step = "readParameter" -> readParameter(packet)
      [] current.step = "readField" -> readField(packet)
      [] current.step = "parametersEOF" ->
            [current EXCEPT !.step = IF packet = "EOF" THEN AfterParameters ELSE "protocolError"]
      [] current.step = "fieldsEOF" ->
            [current EXCEPT !.step = IF packet = "EOF" THEN "done" ELSE "protocolError"]

\* A packet for a Prepare.  prepareDone puts the statement into the cache.
PreparePacket ==
    /\ current.kind = "prepare" /\ incoming # <<>>
    /\ incoming' = Tail(incoming)
    /\ LET after == nextStep(Head(incoming))
           set == Set([key |-> current.cmd.key, id |-> current.id])
       IN  IF after.step # "done"
           THEN current' = after /\ UNCHANGED <<cache, queue, refused, handles, calling>>
           ELSE /\ current' = None
                /\ cache' = set.kept
                /\ CloseEach(Give(queue, current.cmd, current.id), set.evicted)
                /\ handles' = IF current.cmd.call = 0 THEN handles \cup {current.id} ELSE handles
                /\ calling' = (current.cmd.call = 0)
    /\ UNCHANGED <<open, prepared, userClosed, ended, calls, evictOnDelete>>

-----------------------------------------------------------------------------
\* The other commands.

\* `known': the server has the statement; otherwise it answers with an error.
ExecuteStart ==
    /\ current = None /\ queue # <<>> /\ Head(queue).kind = "execute"
    /\ current' = [kind |-> "execute", cmd |-> Head(queue), known |-> Head(queue).id \in open]
    /\ queue' = Tail(queue) /\ calling' = FALSE
    /\ UNCHANGED <<cache, open, prepared, incoming, handles, userClosed, ended, refused, calls, evictOnDelete>>

CloseStatementStart ==
    /\ current = None /\ queue # <<>> /\ Head(queue).kind = "close"
    /\ open' = open \ {Head(queue).id}
    /\ queue' = Tail(queue) /\ calling' = FALSE
    /\ UNCHANGED <<current, cache, prepared, incoming, handles, userClosed, ended, refused, calls, evictOnDelete>>

\* The server forgets all statements, or does not know the command (ok).
ResetStart(ok) ==
    /\ current = None /\ queue # <<>> /\ Head(queue).kind = "reset"
    /\ current' = [kind |-> "reset", ok |-> ok]
    /\ open' = IF ok THEN {} ELSE open
    /\ handles' = IF ok THEN {} ELSE handles
    /\ queue' = Tail(queue) /\ calling' = FALSE
    /\ UNCHANGED <<cache, prepared, incoming, userClosed, ended, refused, calls, evictOnDelete>>

\* ChangeUser clears the cache as it starts.
ChangeUserStart ==
    /\ current = None /\ queue # <<>> /\ Head(queue).kind = "change"
    /\ current' = [kind |-> "change"]
    /\ open' = {} /\ handles' = {}
    /\ cache' = <<>> /\ CloseEach(Tail(queue), Deleted(cache))
    /\ calling' = FALSE
    /\ UNCHANGED <<prepared, incoming, userClosed, ended, calls, evictOnDelete>>

\* resetConnectionResponse; an ERR packet does not get there.
resetConnectionResponse ==
    IF current.ok THEN cache' = <<>> /\ CloseEach(queue, Deleted(cache))
    ELSE UNCHANGED <<cache, queue, refused>>

\* The answer to any command but a Prepare.
Response ==
    /\ current.kind \in {"execute", "reset", "change"}
    /\ IF current.kind = "reset" THEN resetConnectionResponse ELSE UNCHANGED <<cache, queue, refused>>
    /\ current' = None /\ calling' = TRUE
    /\ UNCHANGED <<open, prepared, incoming, handles, userClosed, ended, calls, evictOnDelete>>

QuitStart ==
    /\ current = None /\ queue # <<>> /\ Head(queue).kind = "quit"
    /\ current' = [kind |-> "quit"] /\ open' = {}
    /\ queue' = Tail(queue) /\ calling' = FALSE
    /\ UNCHANGED <<cache, prepared, incoming, handles, userClosed, ended, refused, calls, evictOnDelete>>

Next ==
    \/ \E key \in Keys : Prepare(key) \/ Execute(key) \/ unprepare(key)
    \/ \E id \in handles : HandleExecute(id) \/ HandleClose(id)
    \/ Reset \/ ChangeUser \/ end
    \/ PrepareFromCache \/ PrepareError \/ PreparePacket
    \/ \E p, f \in 0 .. MaxDefs : \E sp \in 0 .. p, sf \in 0 .. f : PrepareStart(p, sp, f, sf)
    \/ ExecuteStart \/ CloseStatementStart \/ ChangeUserStart \/ Response \/ QuitStart
    \/ \E ok \in BOOLEAN : ResetStart(ok)

Spec == Init /\ [][Next]_vars

-----------------------------------------------------------------------------
\* Properties.

TypeOK ==
    /\ queue \in Seq(Commands)
    /\ current \in Preparing \union Executing \union Resetting
                   \union [kind : {"none", "change", "quit"}]
    /\ cache \in Seq([key : Keys, id : Nat]) /\ Len(cache) <= MaxStatements
    /\ \A i, j \in DOMAIN cache : cache[i].key = cache[j].key => i = j
    /\ prepared \in Seq(Keys)
    /\ open \union handles \union userClosed \union Ids(cache) \subseteq DOMAIN prepared
    /\ incoming \in Seq({"header", "def", "EOF"})
    /\ {ended, calling, evictOnDelete} \subseteq BOOLEAN
    /\ refused \in Nat /\ calls \in 0 .. MaxCalls

\* A Prepare takes exactly the packets of its answer, also when the server
\* announced more parameters or columns than it sends: the next command does
\* not find packets of this one, and no protocol error comes of it.
ReadsItsAnswer ==
    /\ TypeOK
    /\ current.kind # "prepare" => incoming = <<>>
    /\ current.kind = "prepare" => current.step # "protocolError" /\ incoming # <<>>

\* No statement stays open at the server that the driver has forgotten: it is
\* in the cache, being prepared, or its close is queued, whatever evictions,
\* resets and unprepares there were.
NoneLeaked ==
    ended \/ open \subseteq Ids(cache)
                        \cup {queue[i].id : i \in {n \in DOMAIN queue : queue[n].kind = "close"}}
                        \cup (IF current.kind = "prepare" THEN {current.id} ELSE {})

\* What execute() sends is a statement of its own SQL that the server has
\* open, although evictions, unprepare and resets were called while it
\* waited; only a statement that the user closed by hand may be gone.
ExecutesOpenStatement ==
    current.kind = "execute" /\ current.cmd.call # 0 =>
        /\ current.cmd.id # 0 /\ prepared[current.cmd.id] = current.cmd.key
        /\ current.known \/ current.cmd.id \in userClosed

=============================================================================
