----------------------------- MODULE Connection -----------------------------
(***************************************************************************)
(* One client connection of node-mysql2: the command queue, the handshake, *)
(* packet dispatch, back-pressure, timeouts, errors and shutdown of        *)
(* lib/base/connection.js, with the life of a command in                   *)
(* lib/commands/{command,query,execute,prepare,quit,client_handshake}.js.  *)
(*                                                                         *)
(* The protocol answers one command at a time, so commands wait in a queue *)
(* until the reply of the one before is complete.  A reply is some "part"  *)
(* packets (the hello, column definitions, rows) and an "ok" or "err".     *)
(*                                                                         *)
(* Scheduling.  The packets of one chunk of data (`chunk') are handled one *)
(* after the other in one callback; then the nextTick callbacks (`ticks')  *)
(* run; only then another event of the socket or a timer is delivered.     *)
(* The application calls the connection at any time.                       *)
(***************************************************************************)
EXTENDS Integers, Sequences, FiniteSets

CONSTANTS
    Cmds,           \* the calls of query() and execute()
    Executes,       \* the calls of execute(): a Prepare, then an Execute
    Timed,          \* the calls with a `timeout' option
    Silent,         \* the calls without a callback
    Handshake,      \* the ClientHandshake command
    Quit,           \* the Quit command of end()
    None,           \* no command
    MaxParts,       \* bound: packets of one reply before the last
    Calls,          \* what the application does, see CallNames
    Faults          \* what goes wrong, see FaultNames

\*   pause      pause() from the handler of a row, and resume() later
\*   pauseIdle  pause() at any time
\*   end        end(callback)
\*   destroy    destroy() or close()
\*   connect    connect(callback), while commands may be queued
CallNames == {"pause", "pauseIdle", "end", "destroy", "connect"}

\*   login   the server or the client gives up on the handshake
\*   leave   the server sends an ERR that answers nothing, and closes
\*   row     decoding a row throws (a typeCast function does)
\*   throw   another packet handler, or a listener it calls, throws
\*   error   the socket reports an error
FaultNames == {"login", "leave", "row", "throw", "error"}

ASSUME NamesAssumption == /\ Cardinality({Handshake, Quit, None}) = 3
                          /\ Cmds \intersect {Handshake, Quit, None} = {}
ASSUME KindsAssumption == /\ Executes \union Timed \union Silent \subseteq Cmds
                          /\ Executes \intersect Silent = {}
ASSUME PartsAssumption == MaxParts \in Nat
ASSUME CallAssumption == Calls \subseteq CallNames
\* The rest of the reply to a command that a bad row has ended would start a
\* command that an idle pause() has kept from starting.
ASSUME FaultAssumption == /\ Faults \subseteq FaultNames
                          /\ "row" \in Faults => "pauseIdle" \notin Calls

VARIABLES
    current,        \* _command
    started,        \* _command.next # null
    commands,       \* _commands
    prepared,       \* of an execute: its statement, or none
    timer,          \* queryTimeout of a command is running
    calls,          \* how often the callback of a command was called (2: more)
    ticks,          \* callbacks of successful commands given to nextTick
    issued,         \* the commands of the application, in order
    paused,         \* _paused
    held,           \* _paused_packets
    chunk,          \* the packets the parser has still to hand over
    closing,        \* _closing
    accepting,      \* addCommand is not _addCommandClosedState
    fatal,          \* _fatalError # null
    protoErr,       \* _protocolError # null
    stream,         \* the socket
    badWrite,       \* a write to a socket that is not open will fail
    connectTimer,   \* connectTimeout is running
    hello,          \* handshakeCommand.handshake # null
    connected,      \* _handshakePacket # null
    connectCb,      \* the callback of connect()
    emitted,        \* the connection has emitted 'error'
    destroyed,      \* the application has closed the connection
    asked,          \* the command the server is answering
    sent,           \* packets of its answer so far
    gone            \* the server has left

queueVars == <<current, started, commands>>
resultVars == <<prepared, timer, calls, ticks>>
flowVars == <<paused, held, chunk>>
endVars == <<closing, accepting, fatal, protoErr, stream, badWrite, destroyed>>
loginVars == <<connectTimer, hello, connected, connectCb, emitted>>
serverVars == <<asked, sent, gone>>
vars == <<queueVars, resultVars, issued, flowVars, endVars, loginVars, serverVars>>

-----------------------------------------------------------------------------
(* The state.                                                              *)

Names == Cmds \union {Handshake, Quit}

\* A command object in the queue: execute() makes two.
Job(k, step) == [cmd |-> k, step |-> step]
Jobs == [cmd: Names, step: {"prepare", "run"}]
NoJob == [cmd |-> None, step |-> "run"]

\* NoJob packets answer no command.  Nothing is what addCommand hands to
\* handlePacket to start a command.
Packet(j, kind) == [job |-> j, kind |-> kind]
Packets == [job: Jobs \union {NoJob}, kind: {"part", "ok", "err", "nothing"}]
Nothing == Packet(NoJob, "nothing")

TypeOK ==
    /\ current \in Jobs \union {NoJob}
    /\ commands \in Seq(Jobs)
    /\ prepared \in [Executes -> {"no", "ok", "failed"}]
    /\ timer \in [Cmds -> BOOLEAN]
    /\ calls \in [Cmds \union {Quit} -> 0 .. 2]
    /\ ticks \in Seq(Cmds)
    /\ issued \in Seq(Cmds \union {Quit})
    /\ held \in Seq(Packets)
    /\ chunk \in Seq(Packets)
    /\ {started, paused, closing, accepting, fatal, protoErr, badWrite, connectTimer,
        hello, connected, emitted, destroyed, gone} \subseteq BOOLEAN
    /\ stream \in {"open", "ended", "closed"}
    /\ connectCb \in {"none", "waiting", "ok", "err"}
    /\ asked \in Jobs \union {NoJob}
    /\ sent \in 0 .. MaxParts

\* The constructor has added the handshake, which waits for the hello.
Init ==
    /\ current = Job(Handshake, "run") /\ started = TRUE /\ commands = <<>>
    /\ prepared = [k \in Executes |-> "no"]
    /\ timer = [k \in Cmds |-> FALSE]
    /\ calls = [k \in Cmds \union {Quit} |-> 0]
    /\ ticks = <<>> /\ issued = <<>>
    /\ paused = FALSE /\ held = <<>> /\ chunk = <<>>
    /\ closing = FALSE /\ accepting = TRUE /\ fatal = FALSE /\ protoErr = FALSE
    /\ stream = "open" /\ badWrite = FALSE /\ destroyed = FALSE
    /\ connectTimer = TRUE /\ hello = FALSE /\ connected = FALSE
    /\ connectCb = "none" /\ emitted = FALSE
    /\ asked = Job(Handshake, "run") /\ sent = 0 /\ gone = FALSE

Elems(s) == {s[i] : i \in DOMAIN s}

\* The command objects that are not finished.
Pending == (IF current = NoJob THEN <<>> ELSE <<current>>) \o commands

\* command.onResult: a Prepare of execute() always has one, which passes an
\* error on to the callback of the execute.
HasResult(j) == j.step = "prepare" \/ j.cmd \notin Silent \union {Handshake}

\* calls after the onResult of every command object in js got an error.
CallsAfter(js) ==
    [k \in Cmds \union {Quit} |->
        LET n == calls[k] + Cardinality({i \in DOMAIN js :
                                           js[i].cmd = k /\ k \notin Silent})
        IN  IF n > 2 THEN 2 ELSE n]

\* prepared after that: the callback of a Prepare takes the error.
PreparedAfter(js) == [k \in Executes |-> IF Job(k, "prepare") \in Elems(js)
                                         THEN "failed" ELSE prepared[k]]

-----------------------------------------------------------------------------
(* Errors and closing.                                                     *)

\* connection.emit('error'): connect()'s listener may be waiting for it.
EmitError == /\ emitted' = TRUE
             /\ connectCb' = IF connectCb = "waiting" THEN "err" ELSE connectCb

\* connection.close(), with the socket in state s.
close(s) == /\ closing' = TRUE
            /\ stream' = IF s = "open" THEN "ended" ELSE s
            /\ accepting' = FALSE

\* Faulty Bubbles: only the active command is looked at.
BubblesActiveOnly ==
    \/ current = NoJob
    \/ ~HasResult(current) /\ ~(current.cmd = Handshake /\ commands # <<>>)

\* Faulty Bubbles: an error of the handshake is left to queued commands even
\* when there are none.
BubblesNotHandshake ==
    \/ current = NoJob
    \/ ~HasResult(current) /\ current.cmd # Handshake
    \/ \E j \in Elems(commands) : ~HasResult(j)

\* _notifyError tells the connection when the active command, or one in the
\* queue, has no callback; the handshake leaves it to the commands behind it.
Bubbles ==
    \/ current = NoJob
    \/ ~HasResult(current) /\ ~(current.cmd = Handshake /\ commands # <<>>)
    \/ \E j \in Elems(commands) : ~HasResult(j)

\* Faulty notifyError: the queue is dropped and not told.
notifyErrorActiveOnly(s) ==
    /\ connectTimer' = FALSE
    /\ calls' = CallsAfter(<<current>>)
    /\ prepared' = PreparedAfter(Pending)
    /\ commands' = <<>> /\ current' = NoJob /\ started' = FALSE
    /\ UNCHANGED <<emitted, connectCb>>
    /\ close(s)

\* _notifyError(err) with a fatal error and the socket in state s.
notifyError(s) ==
    /\ connectTimer' = FALSE
    /\ IF fatal
       THEN /\ stream' = s
            /\ UNCHANGED <<queueVars, prepared, calls, emitted, connectCb, closing>>
       ELSE /\ calls' = CallsAfter(Pending)
            /\ prepared' = PreparedAfter(Pending)
            /\ commands' = <<>>
            /\ IF HasResult(current)
               THEN current' = NoJob /\ started' = FALSE
               ELSE UNCHANGED <<current, started>>
            /\ IF Bubbles THEN EmitError ELSE UNCHANGED <<emitted, connectCb>>
            /\ closing' = TRUE
            /\ stream' = IF s = "open" THEN "ended" ELSE s
    /\ accepting' = FALSE

\* _handleFatalError(err)
handleFatalError(s) == notifyError(s) /\ fatal' = TRUE

-----------------------------------------------------------------------------
(* Running commands.                                                       *)

\* Faulty Instant: the Execute is sent although there is no statement.
InstantQuitOnly(j, prep) == j.cmd = Quit

\* A command that is done as soon as it starts: Quit, and the Execute whose
\* Prepare has failed, with prep the prepared statements.
Instant(j, prep) ==
    \/ j.cmd = Quit
    \/ j.step = "run" /\ j.cmd \in Executes /\ prep[j.cmd] = "failed"

\* start() of j: the timeout begins and the command is written, with tm the
\* timers of the others.
Start(j, tm) ==
    /\ timer' = [k \in Cmds |-> tm[k] \/ (k = j.cmd /\ j.step = "run" /\ k \in Timed)]
    /\ IF stream = "open"
       THEN asked' = (IF gone THEN NoJob ELSE j) /\ sent' = 0 /\ UNCHANGED badWrite
       ELSE badWrite' = TRUE /\ UNCHANGED <<asked, sent>>

\* Quit.start: no reply is expected.
StartQuit(cl) ==
    /\ closing' = TRUE
    /\ calls' = [cl EXCEPT ![Quit] = IF @ = 2 THEN 2 ELSE @ + 1]
    /\ badWrite' = (badWrite \/ stream # "open")

\* Faulty Advance: the next command becomes the active one but handlePacket()
\* is not called to start it.
AdvanceIdle(prep, cl, tm) ==
    /\ prepared' = prep /\ calls' = cl /\ timer' = tm
    /\ started' = FALSE
    /\ current' = IF commands = <<>> THEN NoJob ELSE Head(commands)
    /\ commands' = IF commands = <<>> THEN <<>> ELSE Tail(commands)
    /\ UNCHANGED <<closing, badWrite, asked, sent>>

\* The current command is done: _commands.shift() and handlePacket(), again
\* for every command that is done at once.  prep, cl and tm are prepared,
\* calls and the timers after the command.
Advance(prep, cl, tm) ==
    \E n \in 0 .. Len(commands) :
        /\ \A i \in 1 .. n : Instant(commands[i], prep)
        /\ n < Len(commands) => ~Instant(commands[n + 1], prep)
        /\ prepared' = prep
        /\ commands' = SubSeq(commands, n + 2, Len(commands))
        /\ IF n < Len(commands)
           THEN /\ current' = commands[n + 1] /\ started' = TRUE
                /\ Start(commands[n + 1], tm)
                /\ calls' = cl
                /\ UNCHANGED closing
           ELSE /\ current' = NoJob /\ started' = FALSE
                /\ timer' = tm
                /\ IF \E i \in 1 .. n : commands[i].cmd = Quit
                   THEN StartQuit(cl)
                   ELSE calls' = cl /\ UNCHANGED <<closing, badWrite>>
                /\ UNCHANGED <<asked, sent>>

\* Faulty addCommand: the queue is a stack.
addCommandFirst(j, more) ==
    IF current # NoJob
    THEN /\ commands' = <<j>> \o more \o commands
         /\ UNCHANGED <<current, started, timer, held, badWrite, asked, sent>>
    ELSE /\ current' = j /\ commands' = more /\ started' = TRUE
         /\ Start(j, timer) /\ UNCHANGED held

\* addCommand(j) with the jobs `more' right behind it.
addCommand(j, more) ==
    IF current # NoJob
    THEN /\ commands' = commands \o <<j>> \o more
         /\ UNCHANGED <<current, started, timer, held, badWrite, asked, sent>>
    ELSE /\ current' = j
         /\ commands' = more
         /\ IF paused \/ fatal
            THEN /\ held' = IF paused THEN Append(held, Nothing) ELSE held
                 /\ started' = FALSE
                 /\ UNCHANGED <<timer, badWrite, asked, sent>>
            ELSE started' = TRUE /\ Start(j, timer) /\ UNCHANGED held

-----------------------------------------------------------------------------
(* The application.                                                        *)

\* _addCommandClosedState for each command object of js: called back at once,
\* or 'error' when there is no callback.
addCommandClosedState(js) ==
    /\ calls' = CallsAfter(js)
    /\ IF \E j \in Elems(js) : ~HasResult(j)
       THEN EmitError ELSE UNCHANGED <<emitted, connectCb>>
    /\ UNCHANGED <<queueVars, timer, held, badWrite, asked, sent>>

query(k) ==
    \/ /\ accepting
       /\ addCommand(Job(k, "run"), <<>>)
       /\ UNCHANGED <<calls, emitted, connectCb>>
    \/ ~accepting /\ addCommandClosedState(<<Job(k, "run")>>)

\* execute(sql, values, cb) adds a Prepare and, right behind it, an Execute.
execute(k) ==
    \/ /\ accepting
       /\ addCommand(Job(k, "prepare"), <<Job(k, "run")>>)
       /\ UNCHANGED <<calls, emitted, connectCb>>
    \/ ~accepting /\ addCommandClosedState(<<Job(k, "prepare"), Job(k, "run")>>)

Issue(k) ==
    /\ k \notin Elems(issued)
    /\ issued' = Append(issued, k)
    /\ IF k \in Executes THEN execute(k) ELSE query(k)
    /\ UNCHANGED <<prepared, ticks, paused, chunk, closing, accepting, fatal, protoErr,
                   stream, destroyed, connectTimer, hello, connected, gone>>

\* end(callback)
End ==
    /\ "end" \in Calls /\ Quit \notin Elems(issued)
    /\ issued' = Append(issued, Quit)
    /\ accepting' = FALSE
    /\ IF accepting /\ current = NoJob /\ ~paused /\ ~fatal
       THEN StartQuit(calls) /\ UNCHANGED <<queueVars, held>>
       ELSE /\ IF accepting
               THEN /\ calls' = calls
                    /\ IF current # NoJob
                       THEN /\ commands' = Append(commands, Job(Quit, "run"))
                            /\ UNCHANGED <<current, held>>
                       ELSE /\ current' = Job(Quit, "run")
                            /\ held' = IF paused THEN Append(held, Nothing) ELSE held
                            /\ UNCHANGED commands
               ELSE /\ calls' = CallsAfter(<<Job(Quit, "run")>>)
                    /\ UNCHANGED <<current, commands, held>>
            /\ UNCHANGED <<started, closing, badWrite>>
    /\ UNCHANGED <<prepared, timer, ticks, paused, chunk, fatal, protoErr, stream,
                   destroyed, loginVars, serverVars>>

\* destroy(), close()
Destroy ==
    /\ "destroy" \in Calls /\ ~destroyed
    /\ destroyed' = TRUE
    /\ close(stream)
    /\ connectTimer' = FALSE
    /\ UNCHANGED <<queueVars, resultVars, issued, flowVars, fatal, protoErr, badWrite,
                   hello, connected, connectCb, emitted, serverVars>>

Pause ==
    /\ "pauseIdle" \in Calls /\ ~paused
    /\ paused' = TRUE
    /\ UNCHANGED <<queueVars, resultVars, issued, held, chunk, endVars, loginVars,
                   serverVars>>

\* Faulty Resume: what was held comes after the rest of the chunk.
ResumeBehind ==
    /\ paused
    /\ paused' = FALSE
    /\ chunk' = chunk \o held /\ held' = <<>>
    /\ UNCHANGED <<queueVars, resultVars, issued, endVars, loginVars, serverVars>>

\* resume() hands over what was held, in order, up to a Nothing, which ends
\* its loop (`while ((packet = shift()))').
Resume ==
    /\ paused
    /\ paused' = FALSE
    /\ \E n \in 0 .. Len(held) :
          /\ \A i \in 1 .. n : held[i] # Nothing
          /\ n < Len(held) => held[n + 1] = Nothing
          /\ chunk' = SubSeq(held, 1, n) \o chunk
          /\ held' = SubSeq(held, n + 2, Len(held))
    /\ UNCHANGED <<queueVars, resultVars, issued, endVars, loginVars, serverVars>>

\* connect(callback)
Connect ==
    /\ "connect" \in Calls /\ connectCb = "none"
    /\ connectCb' = IF fatal \/ protoErr THEN "err"
                    ELSE IF connected THEN "ok" ELSE "waiting"
    /\ UNCHANGED <<queueVars, resultVars, issued, flowVars, endVars, connectTimer, hello,
                   connected, emitted, serverVars>>

-----------------------------------------------------------------------------
(* Packets.                                                                *)

protocolError == IF closing THEN UNCHANGED <<emitted, connectCb>> ELSE EmitError

\* handlePacket(packet) without an active command: protocolError, then close().
Unexpected ==
    /\ protocolError
    /\ close(stream)
    /\ connectTimer' = FALSE
    /\ UNCHANGED <<queueVars, resultVars, paused, held, fatal, protoErr, badWrite,
                   hello, connected, serverVars>>

\* The handshake emits 'error': the listener of the connection, then the one
\* that handshakeInit has added, then the command is done.
HandshakeError(isFatal, h) ==
    /\ connectTimer' = FALSE
    /\ calls' = CallsAfter(commands)
    /\ prepared' = PreparedAfter(commands)
    /\ IF Bubbles THEN EmitError ELSE UNCHANGED <<emitted, connectCb>>
    /\ closing' = TRUE
    /\ stream' = IF isFatal /\ stream = "open" THEN "ended" ELSE stream
    /\ accepting' = (accepting /\ ~isFatal)
    /\ fatal' = h /\ protoErr' = h /\ hello' = h
    /\ current' = NoJob /\ started' = FALSE /\ commands' = <<>>
    /\ UNCHANGED <<timer, paused, held, badWrite, connected, serverVars>>

\* A packet that is part of a reply: the hello, a field, a row, whose handler
\* may pause the connection.
Part ==
    /\ hello' = (hello \/ current.cmd = Handshake)
    /\ paused' \in {FALSE, /\ "pause" \in Calls
                           /\ current.cmd \in Silent}
    /\ UNCHANGED <<queueVars, prepared, timer, calls, held, closing, accepting, fatal,
                   protoErr, stream, badWrite, connectTimer, connected, connectCb,
                   emitted, serverVars>>

\* The client gives up: no TLS, an authentication plugin fails, an unknown
\* packet.
GiveUpLogin ==
    /\ "login" \in Faults /\ current.cmd = Handshake
    /\ HandshakeError(TRUE, TRUE)

\* An exception in the handler of a packet: a fatal error, stream.destroy().
HandlerThrows ==
    /\ "throw" \in Faults
    /\ handleFatalError("ended")
    /\ gone' = TRUE /\ asked' = NoJob
    /\ UNCHANGED <<timer, paused, held, protoErr, badWrite, hello, connected, sent>>

\* An exception in decoding a row only ends the command, whose timer goes on.
RowThrows ==
    /\ "row" \in Faults /\ current.cmd \in Cmds /\ current.step = "run"
    /\ Advance(prepared, CallsAfter(<<current>>), timer)
    /\ UNCHANGED <<paused, held, accepting, fatal, protoErr, stream, loginVars, gone>>

PartPacket == Part \/ GiveUpLogin \/ HandlerThrows \/ RowThrows

\* Faulty ErrPacket: execute does not return true, the command stays active.
ErrPacketStays ==
    /\ calls' = CallsAfter(<<current>>)
    /\ UNCHANGED <<queueVars, prepared, timer, ticks, paused, held, closing, accepting,
                   fatal, protoErr, stream, badWrite, loginVars, serverVars>>

\* The packet is an ERR: Command.execute.
ErrPacket ==
    IF current.cmd = Handshake
    THEN HandshakeError(FALSE, hello) /\ UNCHANGED ticks
    ELSE /\ Advance(IF current.step = "prepare"
                    THEN [prepared EXCEPT ![current.cmd] = "failed"] ELSE prepared,
                    CallsAfter(<<current>>),
                    [k \in Cmds |-> timer[k] /\ current # Job(k, "run")])
         /\ UNCHANGED <<ticks, paused, held, accepting, fatal, protoErr, stream,
                        loginVars, gone>>

\* 'end' of the handshake: 'connect' is emitted.
HandshakeDone ==
    /\ connectTimer' = FALSE
    /\ connected' = TRUE
    /\ connectCb' = IF connectCb = "waiting" THEN "ok" ELSE connectCb
    /\ Advance(prepared, calls, timer)
    /\ UNCHANGED <<ticks, hello, emitted>>

prepareDone(k) ==
    /\ Advance([prepared EXCEPT ![k] = "ok"], calls, timer)
    /\ UNCHANGED <<ticks, loginVars>>

\* done() of a query or an execute: nothing to do when it has timed out.
done(k) ==
    /\ ticks' = IF k \in Silent \/ (k \in Timed /\ ~timer[k]) THEN ticks
                ELSE Append(ticks, k)
    /\ Advance(prepared, calls, [timer EXCEPT ![k] = FALSE])
    /\ UNCHANGED loginVars

\* The last packet of a reply.
OkPacket ==
    /\ \/ current.cmd = Handshake /\ HandshakeDone
       \/ current.step = "prepare" /\ prepareDone(current.cmd)
       \/ current.step = "run" /\ current.cmd \in Cmds /\ done(current.cmd)
    /\ UNCHANGED <<paused, held, accepting, fatal, protoErr, stream, gone>>

\* handlePacket(packet) for the next packet of the chunk.
Deliver ==
    /\ chunk # <<>>
    /\ chunk' = Tail(chunk)
    /\ LET p == Head(chunk) IN
       \/ /\ paused
          /\ held' = Append(held, p)
          /\ UNCHANGED <<queueVars, resultVars, paused, endVars, loginVars, serverVars>>
       \/ ~paused /\ current = NoJob /\ Unexpected
       \/ /\ ~paused /\ current # NoJob /\ fatal
          /\ UNCHANGED <<queueVars, resultVars, paused, held, endVars, loginVars,
                         serverVars>>
       \/ /\ ~paused /\ current # NoJob /\ ~fatal
          /\ \/ p.kind = "part" /\ PartPacket /\ UNCHANGED ticks
             \/ p.kind = "ok" /\ OkPacket
             \/ p.kind = "err" /\ ErrPacket
    /\ UNCHANGED <<issued, destroyed>>

-----------------------------------------------------------------------------
(* Ticks, timers and the socket.                                           *)

Quiet == chunk = <<>> /\ ticks = <<>>

RunTick ==
    /\ chunk = <<>> /\ ticks # <<>>
    /\ ticks' = Tail(ticks)
    /\ calls' = CallsAfter(<<Job(Head(ticks), "run")>>)
    /\ UNCHANGED <<queueVars, prepared, timer, issued, flowVars, endVars, loginVars,
                   serverVars>>

\* query._handleTimeoutError: the command stays the active one.
QueryTimeout(k) ==
    /\ Quiet /\ timer[k]
    /\ timer' = [timer EXCEPT ![k] = FALSE]
    /\ calls' = CallsAfter(<<Job(k, "run")>>)
    /\ UNCHANGED <<queueVars, prepared, ticks, issued, flowVars, endVars, loginVars,
                   serverVars>>

\* connection._handleTimeoutError destroys the socket.
ConnectTimeout ==
    /\ Quiet /\ connectTimer
    /\ handleFatalError(IF stream = "closed" THEN "closed" ELSE "ended")
    /\ gone' = TRUE /\ asked' = NoJob
    /\ UNCHANGED <<timer, ticks, issued, flowVars, protoErr, badWrite, destroyed, hello,
                   connected, sent>>

\* _handleNetworkError: an error of the socket, or of a write that failed.
\* A reset is ignored while closing.
StreamError(reset) ==
    /\ Quiet
    /\ badWrite \/ ("error" \in Faults /\ stream # "closed")
    /\ reset => "error" \in Faults
    /\ badWrite' = FALSE
    /\ IF reset /\ closing
       THEN /\ connectTimer' = FALSE
            /\ UNCHANGED <<queueVars, prepared, calls, emitted, connectCb, closing,
                           stream, accepting, fatal>>
       ELSE handleFatalError(stream)
    /\ gone' = TRUE /\ asked' = NoJob
    /\ UNCHANGED <<timer, ticks, issued, flowVars, protoErr, destroyed, hello, connected,
                   sent>>

\* 'close' of the socket, which is not seen while it is paused.
StreamClose ==
    /\ Quiet /\ stream # "closed"
    /\ ~paused \/ gone
    /\ asked' = NoJob /\ gone' = TRUE
    /\ IF closing
       THEN /\ stream' = "closed"
            /\ UNCHANGED <<queueVars, prepared, calls, loginVars, accepting, closing,
                           protoErr>>
       ELSE /\ protoErr' = TRUE
            /\ notifyError("closed")
            /\ UNCHANGED <<hello, connected>>
    /\ UNCHANGED <<timer, ticks, issued, flowVars, fatal, badWrite, destroyed, sent>>

-----------------------------------------------------------------------------
(* The server answers the command it was sent.                             *)

Parts(j, n) == [i \in 1 .. n |-> Packet(j, "part")]

\* A chunk of data with the next n parts, or with the end of the reply too.
Data(n, last) ==
    /\ Quiet /\ ~paused /\ ~fatal /\ ~gone
    /\ stream # "closed"
    /\ asked # NoJob
    /\ sent + n <= MaxParts
    /\ last = "none" => n > 0
    /\ asked.cmd = Handshake => /\ last = "ok" => sent + n > 0
                                /\ last = "err" => "login" \in Faults
    /\ chunk' = Parts(asked, n) \o (IF last = "none" THEN <<>>
                                    ELSE <<Packet(asked, last)>>)
    /\ sent' = sent + n
    /\ asked' = IF last = "none" THEN asked ELSE NoJob
    /\ UNCHANGED <<queueVars, resultVars, issued, paused, held, endVars, loginVars, gone>>

\* An ERR that answers nothing: the server shuts down or gives up on an idle
\* client.
Farewell ==
    /\ "leave" \in Faults /\ connected
    /\ Quiet /\ ~paused /\ ~fatal /\ ~gone
    /\ stream # "closed"
    /\ chunk' = <<Packet(NoJob, "err")>>
    /\ gone' = TRUE /\ asked' = NoJob
    /\ UNCHANGED <<queueVars, resultVars, issued, paused, held, endVars, loginVars, sent>>

-----------------------------------------------------------------------------
Next ==
    \/ \E k \in Cmds : Issue(k) \/ QueryTimeout(k)
    \/ End \/ Destroy \/ Pause \/ Resume \/ Connect
    \/ Deliver \/ RunTick
    \/ ConnectTimeout \/ StreamClose
    \/ \E reset \in BOOLEAN : StreamError(reset)
    \/ \E n \in 0 .. MaxParts, last \in {"none", "ok", "err"} : Data(n, last)
    \/ Farewell

Spec == Init /\ [][Next]_vars

\* Node runs callbacks; an application that pauses for back-pressure resumes;
\* a server that has a command answers it or goes, and then the socket closes;
\* a write to a socket that has ended fails; a running connect timer fires.
Fairness ==
    /\ WF_vars(Deliver) /\ WF_vars(RunTick) /\ WF_vars(Resume)
    /\ WF_vars(\E n \in 0 .. MaxParts, last \in {"none", "ok", "err"} : Data(n, last))
    /\ WF_vars(gone /\ StreamClose)
    /\ WF_vars(badWrite /\ StreamError(FALSE))
    /\ WF_vars(ConnectTimeout)

FairSpec == Spec /\ Fairness

-----------------------------------------------------------------------------
(* What a connection promises.                                             *)

\* What happened to a connection that is not usable any more.
Lost == fatal \/ protoErr

Answered(k) == calls[k] > 0

\* Requests and replies stay in step: every packet still to be handled, and
\* the reply the server is sending, belong to the active command, which has
\* been started.  handlePacket has nothing but the order of packets to tell
\* whose reply they are.  (With it, that the state has its types.)
InStep ==
    /\ TypeOK
    /\ ~Lost /\ "row" \notin Faults =>
          \A j \in {p.job : p \in Elems(held \o chunk)} \union {asked} :
              j # NoJob => j = current /\ started

\* The Execute of an execute() is only sent with the statement that its
\* Prepare has got (Execute.start reads this.statement.id).
StatementReady ==
    \A k \in Executes : current = Job(k, "run") /\ started => prepared[k] = "ok"

\* A query without a timeout has its callback called once at most, whatever
\* happens to the connection: _notifyError, Command.execute and Query.done
\* all call it.
QueryCalledOnce == \A k \in Cmds \ (Timed \union Executes) : calls[k] =< 1

\* When the socket is gone and the event loop has nothing left to do, every
\* call has had its callback, unless the application has destroyed the
\* connection or the login has failed.
NoneDropped ==
    stream = "closed" /\ Quiet /\ held = <<>> /\ ~badWrite
        /\ ~destroyed /\ (connected \/ "login" \notin Faults)
    => \A k \in Elems(issued) \ Silent : Answered(k)

\* The commands the connection has taken and not finished, ticks included.
Taken(k) == k \in {j.cmd : j \in Elems(Pending)} \union Elems(ticks)

Before(k, l) == \E i, j \in DOMAIN issued : i < j /\ issued[i] = k /\ issued[j] = l

\* Callbacks come in the order of the calls: no command the connection has
\* taken is called back before an earlier one, although Query.done defers its
\* callback with nextTick and errors are passed on at once.  (The callback of
\* end() does overtake that of the last query: Quit.start calls it at once.)
CallbacksInOrder ==
    [][\A k, l \in Cmds \ (Silent \union Timed) :
          Before(k, l) /\ Taken(l) /\ ~Answered(l) /\ Answered(l)' => Answered(k)']_vars

\* A lost connection drops no command silently: one that leaves the queue
\* then has its callback called, or the connection emits 'error'.
LossSurfaces ==
    [][~Lost /\ Lost' =>
         \A j \in Elems(Pending) \ Elems(Pending') :
            j.cmd = Handshake \/ emitted' \/ calls'[j.cmd] > calls[j.cmd]]_vars

\* Every call is called back in the end.
CalledBack == \A k \in Cmds \ Silent : k \in Elems(issued) ~> Answered(k)

\* connect(callback), called before the handshake has ended, is answered
\* however it ends, if no command is queued behind it to take the error.
ConnectAnswered ==
    connectCb = "waiting" /\ current.cmd = Handshake
        ~> connectCb # "waiting" \/ issued # <<>>

=============================================================================
