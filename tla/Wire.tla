-------------------------------- MODULE Wire --------------------------------
(***************************************************************************)
(* The way of packets between the server and the command that reads or     *)
(* writes them: sequence ids and writePacket of lib/base/connection.js,    *)
(* lib/packet_parser.js, and lib/compressed_protocol.js.                   *)
(*                                                                         *)
(* What the server sends is fixed at the start (`packets', `stream').  A   *)
(* plain connection gets it in chunks cut anywhere.  A compressed one gets *)
(* it in compressed frames, which hold the stream cut anywhere; the outer  *)
(* parser that finds those frames is the same one with a header of seven   *)
(* bytes, and is checked as such (mode "plain" with headerLength 7).       *)
(*                                                                         *)
(* zlib works inline for small data and on a thread pool for large data;   *)
(* two queues keep the order.  A queue is state: "idle", "tick" (_running, *)
(* with _next in process.nextTick) or "busy" (a task is on the pool).      *)
(***************************************************************************)
EXTENDS PacketParser, FiniteSets

CONSTANTS
    Streams,        \* for each mode, lists of payload lengths the server sends
    FrameSizes,     \* how many bytes of the stream a compressed frame may hold
    Writes,         \* lists of packets a command writes, each of a size class
    SEQ             \* sequence ids count modulo this: 256

\* A compressed frame holds some bytes.
ASSUME ConstantsAssumption ==
    /\ BYTE \in Nat \ {0, 1} /\ SEQ \in Nat \ {0, 1}
    /\ FrameSizes \subseteq Nat \ {0}
    /\ DOMAIN Streams = {"plain", "compressed"}
    /\ \A m \in DOMAIN Streams : \A lengths \in Streams[m] : lengths \in Seq(Nat)
    /\ \A sizes \in Writes : sizes \in Seq({"tiny", "small", "large"})

VARIABLES
    mode,           \* "plain" or "compressed"
    packets,        \* what the server sends: [id, content, numPackets, last]
    stream,         \* its bytes
    pos,            \* how many of them have been received
    parser,         \* packetParser, or _inflatedPacketsParser
    sequenceId,     \* of the connection, before each packet that was handled
    failed,         \* _fatalError
    inflateQueue, deflateQueue,
    compressedSequenceId,
    toWrite,        \* packets that the command has still to write
    called, written \* writes of compressed frames: the calls, what was written

vars == <<mode, packets, stream, pos, parser, sequenceId, failed, inflateQueue,
          deflateQueue, compressedSequenceId, toWrite, called, written>>

-----------------------------------------------------------------------------
\* The server (external): a payload of MAX_PACKET_LENGTH or more continues in
\* further packets until one is shorter, which may be empty.

Pieces(length) == length \div MAX_PACKET_LENGTH + 1

\* The bytes of a payload are marked with the number of the packet.
Payload(k, length) == [i \in 1 .. length |-> 100 * k + i]

Framed(payload, id, headerLength) ==
    LET piece(j) == SubSeq(payload, (j - 1) * MAX_PACKET_LENGTH + 1,
                           IF j * MAX_PACKET_LENGTH < Len(payload)
                           THEN j * MAX_PACKET_LENGTH ELSE Len(payload))
        frame(j) == LengthBytes(Len(piece(j))) \o <<(id + j - 1) % SEQ>>
                    \o [i \in 1 .. headerLength - 4 |-> 0] \o piece(j)
    IN  Concat([j \in 1 .. Pieces(Len(payload)) |-> frame(j)])

\* The packets of a list of lengths, and the stream they make.
Sent(lengths, headerLength) ==
    LET id[k \in 1 .. Len(lengths) + 1] ==
            IF k = 1 THEN 0 ELSE (id[k - 1] + Pieces(lengths[k - 1])) % SEQ
        bytes(k) == Framed(Payload(k, lengths[k]), id[k], headerLength)
        last[k \in 0 .. Len(lengths)] == IF k = 0 THEN 0 ELSE last[k - 1] + Len(bytes(k))
    IN  [packets |-> [k \in 1 .. Len(lengths) |->
                        [sequenceId |-> id[k], numPackets |-> Pieces(lengths[k]),
                         content |-> [i \in 1 .. headerLength - 4 |-> 0] \o Payload(k, lengths[k]),
                         last |-> last[k]]],
         stream |-> Concat([k \in 1 .. Len(lengths) |-> bytes(k)])]

-----------------------------------------------------------------------------

IdleQueue == [state |-> "idle", tasks |-> <<>>]

Init ==
    \E m \in {"plain", "compressed"}, headerLength \in {4, 7} :
      /\ mode = m /\ (m = "compressed" => headerLength = 4)
      /\ \E lengths \in Streams[m] :
            /\ packets = Sent(lengths, headerLength).packets
            /\ stream = Sent(lengths, headerLength).stream
      /\ pos = 0
      /\ parser = NewParser(headerLength)
      /\ sequenceId = <<0>>
      /\ failed = FALSE
      /\ inflateQueue = IdleQueue /\ deflateQueue = IdleQueue
      /\ compressedSequenceId = 0
      /\ toWrite \in IF m = "compressed" THEN Writes ELSE {<<>>}
      /\ called = <<>> /\ written = <<>>

Bumped(id, n) == (id + n) % SEQ

\* The parser takes bytes; handlePacket bumps the sequence id for each packet
\* and skips it when there has been a fatal error.
Parse(bytes) ==
    LET p == execute(parser, bytes)
        new == SubSeq(p.out, Len(parser.out) + 1, Len(p.out))
        ids[k \in 0 .. Len(new)] ==
            IF k = 0 THEN sequenceId[Len(sequenceId)] ELSE Bumped(ids[k - 1], new[k].numPackets)
    IN  IF failed THEN parser' = [p EXCEPT !.out = parser.out] /\ UNCHANGED sequenceId
        ELSE parser' = p /\ sequenceId' = sequenceId \o [k \in 1 .. Len(new) |-> ids[k]]

-----------------------------------------------------------------------------
\* A plain connection.

Receive(n) ==
    /\ mode = "plain"
    /\ pos + n <= Len(stream)
    /\ pos' = pos + n
    /\ Parse(SubSeq(stream, pos + 1, pos + n))
    /\ UNCHANGED <<mode, packets, stream, failed, inflateQueue, deflateQueue,
                   compressedSequenceId, toWrite, called, written>>

-----------------------------------------------------------------------------
\* The compressed protocol.

\* Queue.push and Queue._next.
Pushed(queue, task) ==
    [state |-> IF queue.state = "idle" THEN "tick" ELSE queue.state,
     tasks |-> Append(queue.tasks, task)]
Next_(queue) ==
    IF queue.tasks = <<>> THEN IdleQueue ELSE [queue EXCEPT !.state = "busy"]

\* Faulty: the next task is not scheduled.
DoneForgets(queue) == [state |-> "stuck", tasks |-> Tail(queue.tasks)]

Done(queue) == [state |-> "tick", tasks |-> Tail(queue.tasks)]

Inflated(bytes) ==
    /\ compressedSequenceId' = Bumped(compressedSequenceId, 1)
    /\ Parse(bytes)

\* handleCompressedPacket.  A frame is "raw" (not compressed), "small" (below
\* MAX_SYNC_INFLATE_LENGTH) or "large"; ok tells whether it can be inflated.
\* After an error of zlib the rest of the chunk is still taken apart.
ReceiveFrame(n, kind, ok) ==
    /\ mode = "compressed"
    /\ pos + n <= Len(stream)
    /\ pos' = pos + n
    /\ LET bytes == SubSeq(stream, pos + 1, pos + n)
       IN  \/ /\ inflateQueue.state = "idle" /\ kind \in {"raw", "small"}
              /\ IF kind = "raw" \/ ok THEN Inflated(bytes) /\ UNCHANGED failed
                 ELSE failed' = TRUE /\ UNCHANGED <<parser, sequenceId, compressedSequenceId>>
              /\ UNCHANGED inflateQueue
           \/ /\ inflateQueue.state # "idle" \/ kind = "large"
              /\ inflateQueue' = Pushed(inflateQueue, [bytes |-> bytes, kind |-> kind, ok |-> ok])
              /\ UNCHANGED <<parser, sequenceId, failed, compressedSequenceId>>
    /\ UNCHANGED <<mode, packets, stream, deflateQueue, toWrite, called, written>>

\* _next from nextTick: a raw frame is handled at once, others go to the pool.
InflateTick ==
    /\ inflateQueue.state = "tick"
    /\ LET q == Next_(inflateQueue)
       IN  IF q.state = "busy" /\ Head(q.tasks).kind = "raw"
           THEN Inflated(Head(q.tasks).bytes) /\ inflateQueue' = Done(q)
           ELSE inflateQueue' = q /\ UNCHANGED <<parser, sequenceId, compressedSequenceId>>
    /\ UNCHANGED <<mode, packets, stream, pos, failed, deflateQueue, toWrite, called, written>>

\* The callback of zlib.inflate.  After an error task.done() is not called.
InflateDone ==
    /\ inflateQueue.state = "busy"
    /\ LET task == Head(inflateQueue.tasks)
       IN  IF task.ok THEN /\ Inflated(task.bytes)
                           /\ inflateQueue' = Done(inflateQueue) /\ UNCHANGED failed
           ELSE /\ failed' = TRUE /\ inflateQueue' = [inflateQueue EXCEPT !.state = "stuck"]
                /\ UNCHANGED <<parser, sequenceId, compressedSequenceId>>
    /\ UNCHANGED <<mode, packets, stream, pos, deflateQueue, toWrite, called, written>>

\* Faulty: small buffers never wait.
WriteInline(ok) ==
    /\ toWrite # <<>> /\ ~failed
    /\ LET size == Head(toWrite)
           frame == [seqId |-> compressedSequenceId, call |-> Len(called) + 1]
       IN  /\ called' = Append(called, frame)
           /\ \/ /\ size \in {"tiny", "small"}
                 /\ IF size = "tiny" \/ ok THEN written' = Append(written, frame) /\ UNCHANGED failed
                    ELSE failed' = TRUE /\ UNCHANGED written
                 /\ UNCHANGED deflateQueue
              \/ /\ size = "large"
                 /\ deflateQueue' = Pushed(deflateQueue, [frame |-> frame, ok |-> ok])
                 /\ UNCHANGED <<written, failed>>
    /\ toWrite' = Tail(toWrite)
    /\ compressedSequenceId' = Bumped(compressedSequenceId, 1)
    /\ UNCHANGED <<mode, packets, stream, pos, parser, sequenceId, inflateQueue>>

\* writeCompressed of one buffer: "tiny" (below MIN_COMPRESS_LENGTH), "small"
\* (below MAX_SYNC_DEFLATE_LENGTH) or "large".  (A buffer longer than
\* MAX_COMPRESSED_LENGTH is written as several: a list of such sizes.)  The
\* frame is compressed, or not if that makes it longer: its bytes are abstract.
Write(ok) ==
    /\ toWrite # <<>> /\ ~failed
    /\ LET size == Head(toWrite)
           frame == [seqId |-> compressedSequenceId, call |-> Len(called) + 1]
       IN  /\ called' = Append(called, frame)
           /\ \/ /\ deflateQueue.state = "idle" /\ size \in {"tiny", "small"}
                 /\ IF size = "tiny" \/ ok THEN written' = Append(written, frame) /\ UNCHANGED failed
                    ELSE failed' = TRUE /\ UNCHANGED written
                 /\ UNCHANGED deflateQueue
              \/ /\ deflateQueue.state # "idle" \/ size = "large"
                 /\ deflateQueue' = Pushed(deflateQueue, [frame |-> frame, ok |-> ok])
                 /\ UNCHANGED <<written, failed>>
    /\ toWrite' = Tail(toWrite)
    /\ compressedSequenceId' = Bumped(compressedSequenceId, 1)
    /\ UNCHANGED <<mode, packets, stream, pos, parser, sequenceId, inflateQueue>>

DeflateTick ==
    /\ deflateQueue.state = "tick"
    /\ deflateQueue' = Next_(deflateQueue)
    /\ UNCHANGED <<mode, packets, stream, pos, parser, sequenceId, failed, inflateQueue,
                   compressedSequenceId, toWrite, called, written>>

\* The callback of zlib.deflate; it writes even if the connection has failed.
DeflateDone ==
    /\ deflateQueue.state = "busy"
    /\ LET task == Head(deflateQueue.tasks)
       IN  IF task.ok THEN /\ written' = Append(written, task.frame)
                           /\ deflateQueue' = Done(deflateQueue) /\ UNCHANGED failed
           ELSE /\ failed' = TRUE /\ deflateQueue' = [deflateQueue EXCEPT !.state = "stuck"]
                /\ UNCHANGED written
    /\ UNCHANGED <<mode, packets, stream, pos, parser, sequenceId, inflateQueue,
                   compressedSequenceId, toWrite, called>>

Next ==
    \/ \E n \in 1 .. Len(stream) : Receive(n)
    \/ \E n \in FrameSizes, kind \in {"raw", "small", "large"}, ok \in BOOLEAN :
          ReceiveFrame(n, kind, ok)
    \/ InflateTick \/ InflateDone \/ DeflateTick \/ DeflateDone
    \/ \E ok \in BOOLEAN : Write(ok)

\* Ticks run and zlib calls back.
Fairness == WF_vars(InflateTick \/ InflateDone) /\ WF_vars(DeflateTick \/ DeflateDone)

Spec == Init /\ [][Next]_vars /\ Fairness

-----------------------------------------------------------------------------
\* writePacket of the connection: payloads above the limit are written in
\* pieces.  The bytes it writes for a list of payload lengths.

\* Faulty: every piece has the same sequence id.
writePacketSameId(payload, id) ==
    IF Len(payload) < MAX_PACKET_LENGTH THEN LengthBytes(Len(payload)) \o <<id>> \o payload
    ELSE LET n == (Len(payload) - 1) \div MAX_PACKET_LENGTH + 1
             piece(j) == SubSeq(payload, (j - 1) * MAX_PACKET_LENGTH + 1,
                                IF j < n THEN j * MAX_PACKET_LENGTH ELSE Len(payload))
         IN  Concat([j \in 1 .. n |-> LengthBytes(Len(piece(j))) \o <<id>> \o piece(j)])

writePacket(payload, id) ==
    IF Len(payload) < MAX_PACKET_LENGTH THEN LengthBytes(Len(payload)) \o <<id>> \o payload
    ELSE LET n == (Len(payload) - 1) \div MAX_PACKET_LENGTH + 1
             piece(j) == SubSeq(payload, (j - 1) * MAX_PACKET_LENGTH + 1,
                                IF j < n THEN j * MAX_PACKET_LENGTH ELSE Len(payload))
         IN  Concat([j \in 1 .. n |-> LengthBytes(Len(piece(j))) \o <<Bumped(id, j - 1)>> \o piece(j)])

-----------------------------------------------------------------------------
\* Properties.

\* The packets that are complete in the first n bytes of the stream.
Complete(n) ==
    LET k == Cardinality({i \in 1 .. Len(packets) : packets[i].last <= n})
    IN  [i \in 1 .. k |-> [sequenceId |-> packets[i].sequenceId, content |-> packets[i].content,
                           numPackets |-> packets[i].numPackets]]

Prefix(s, t) == Len(s) <= Len(t) /\ s = SubSeq(t, 1, Len(s))

TypeOK ==
    /\ pos \in 0 .. Len(stream) /\ failed \in BOOLEAN
    /\ parser.mode \in {"start", "header2", "header3", "payload"}
    /\ \A queue \in {inflateQueue, deflateQueue} :
          /\ queue.state \in {"idle", "tick", "busy", "stuck"}
          /\ queue.state = "idle" => queue.tasks = <<>>
          /\ queue.state \in {"busy", "stuck"} => queue.tasks # <<>>
    /\ compressedSequenceId \in 0 .. SEQ - 1

\* Wherever the stream is cut into chunks, in a header or in a payload, the
\* parser has handed over exactly the packets that are complete, each with its
\* content, its sequence ids and the number of pieces it came in.  Frames
\* inflated inline do not overtake frames on the thread pool: nothing is
\* handled out of order or after a failure, and once nothing waits all that
\* are complete have been handled.  The client counts as the server does: the
\* warning "got packets out of order" never comes on a stream in order.
FramingExact ==
    /\ TypeOK
    /\ Prefix(parser.out, Complete(pos))
    /\ mode = "plain" \/ (inflateQueue.state = "idle" /\ ~failed) => parser.out = Complete(pos)
    /\ \A k \in 1 .. Len(parser.out) : parser.out[k].sequenceId = sequenceId[k]

\* The same for what is written: frames leave in the order of the calls, with
\* the ids they were given, and none is left behind.
WrittenInOrder ==
    /\ Prefix(written, called)
    /\ deflateQueue.state = "idle" /\ ~failed => written = called

\* What writePacket writes is what the protocol asks for, so that a parser
\* reads the payloads back; except when a payload is a multiple of
\* MAX_PACKET_LENGTH: the empty packet that must follow is missing.
ReadBack(lengths) ==
    LET from == Sent(lengths, 4)
        bytes == Concat([k \in DOMAIN lengths |->
                            writePacket(from.packets[k].content, from.packets[k].sequenceId)])
        read == execute(NewParser(4), bytes).out
    IN  bytes = from.stream /\ [k \in DOMAIN read |-> read[k].content]
                                = [k \in DOMAIN lengths |-> from.packets[k].content]

WriteReadBack ==
    pos = 0 => \A lengths \in Streams["plain"] :
        (\A k \in DOMAIN lengths : lengths[k] = 0 \/ lengths[k] % MAX_PACKET_LENGTH # 0) => ReadBack(lengths)

\* Every frame received is handled in the end, unless the connection fails.
Drains == []<>(failed \/ (inflateQueue.state = "idle" /\ deflateQueue.state = "idle"))

=============================================================================
