---------------------------- MODULE PacketParser ----------------------------
(***************************************************************************)
(* lib/packet_parser.js: cuts a stream of bytes into packets.  A parser is *)
(* a record; execute(p, chunk) is the parser after a chunk, with the       *)
(* packets it has handed to onPacket appended to p.out.  packet_parser     *)
(* keeps what it waits for in the method `execute' stands for: p.mode.     *)
(* The headers are 4 bytes, or 7 of the compressed protocol.               *)
(***************************************************************************)
EXTENDS Integers, Sequences

CONSTANT BYTE   \* values of a byte: 256; less in models, all lengths with it

\* 16777215: a payload of this length goes on in the next packet.
MAX_PACKET_LENGTH == BYTE * BYTE * BYTE - 1

LengthBytes(n) == <<n % BYTE, (n \div BYTE) % BYTE, n \div (BYTE * BYTE)>>

readPacketLength(b, off) ==
    IF b[off + 2] + b[off + 3] = 0 THEN b[off + 1]
    ELSE b[off + 1] + b[off + 2] * BYTE + b[off + 3] * BYTE * BYTE

\* buffer: the bytes of an incomplete packet, from the fourth of its header on.
NewParser(headerLength) ==
    [mode |-> "start", headerLength |-> headerLength, length |-> 0, buffer |-> <<>>,
     largePacketParts |-> <<>>, firstPacketSequenceId |-> 0, out |-> <<>>]

\* `content' is what a reader finds from packet.offset on: it starts after
\* four bytes, also when the header has seven.
Emit(p, id, content, numPackets) ==
    [p EXCEPT !.out = Append(@, [sequenceId |-> id, content |-> content, numPackets |-> numPackets])]

Concat(parts) == LET f[n \in 0 .. Len(parts)] == IF n = 0 THEN <<>> ELSE f[n - 1] \o parts[n]
                 IN  f[Len(parts)]

flushLargePacket(p) ==
    [Emit(p, p.firstPacketSequenceId,
          [i \in 1 .. p.headerLength - 4 |-> 0] \o Concat(p.largePacketParts), Len(p.largePacketParts))
     EXCEPT !.largePacketParts = <<>>]

\* A whole packet, header included: handed over, or kept as a part of a large one.
onFrame(p, frame) ==
    LET id == frame[4]
        parts == Append(p.largePacketParts, SubSeq(frame, p.headerLength + 1, Len(frame)))
        kept == [p EXCEPT !.largePacketParts = parts,
                          !.firstPacketSequenceId = IF p.largePacketParts = <<>> THEN id ELSE @]
    IN  IF p.length < MAX_PACKET_LENGTH /\ p.largePacketParts = <<>>
        THEN Emit(p, id, SubSeq(frame, 5, Len(frame)), 1)
        ELSE IF p.length < MAX_PACKET_LENGTH THEN flushLargePacket(kept) ELSE kept

\* A turn of the loop of executeStart, at l.start of the chunk: a whole packet.
Turn(l, chunk) ==
    LET length == readPacketLength(chunk, l.start)
        end == l.start + length + l.parser.headerLength
    IN  IF Len(chunk) - l.start >= 3 /\ Len(chunk) >= end
        THEN [parser |-> onFrame([l.parser EXCEPT !.length = length], SubSeq(chunk, l.start + 1, end)),
              start |-> end]
        ELSE l

\* After the loop: less than a packet is left of the chunk.
Leftover(p, rest) ==
    CASE Len(rest) = 0 -> p
      [] Len(rest) = 1 -> [p EXCEPT !.length = rest[1], !.mode = "header2"]
      [] Len(rest) = 2 -> [p EXCEPT !.length = rest[1] + rest[2] * BYTE, !.mode = "header3"]
      [] OTHER -> [p EXCEPT !.length = readPacketLength(rest, 0),
                            !.buffer = SubSeq(rest, 4, Len(rest)), !.mode = "payload"]

\* A packet has four bytes or more: the loop has ended after that many turns.
executeStart(p, chunk) ==
    LET loop[n \in 0 .. Len(chunk) \div 4] ==
            IF n = 0 THEN [parser |-> p, start |-> 0] ELSE Turn(loop[n - 1], chunk)
        end == loop[Len(chunk) \div 4]
    IN  Leftover(end.parser, SubSeq(chunk, end.start + 1, Len(chunk)))

\* The first three bytes of the header are known: p.length.
executePayload(p, chunk) ==
    LET remaining == p.length - Len(p.buffer) + p.headerLength - 3
        frame == LengthBytes(p.length) \o p.buffer \o SubSeq(chunk, 1, remaining)
    IN  IF Len(chunk) >= remaining
        THEN executeStart([onFrame(p, frame) EXCEPT !.buffer = <<>>, !.mode = "start"],
                          SubSeq(chunk, remaining + 1, Len(chunk)))
        ELSE [p EXCEPT !.buffer = @ \o chunk]

executeHeader3(p, chunk) ==
    executePayload([p EXCEPT !.length = @ + chunk[1] * BYTE * BYTE, !.mode = "payload"], Tail(chunk))

\* Faulty: the second byte of the length is taken for the third.
executeHeader2Shifted(p, chunk) ==
    LET q == [p EXCEPT !.length = @ + chunk[1] * BYTE * BYTE, !.mode = "header3"]
    IN  IF Len(chunk) > 1 THEN executeHeader3(q, Tail(chunk)) ELSE q

executeHeader2(p, chunk) ==
    LET q == [p EXCEPT !.length = @ + chunk[1] * BYTE, !.mode = "header3"]
    IN  IF Len(chunk) > 1 THEN executeHeader3(q, Tail(chunk)) ELSE q

execute(p, chunk) ==
    CASE p.mode = "start" -> executeStart(p, chunk)
      [] p.mode = "header2" -> executeHeader2(p, chunk)
      [] p.mode = "header3" -> executeHeader3(p, chunk)
      [] p.mode = "payload" -> executePayload(p, chunk)

=============================================================================
