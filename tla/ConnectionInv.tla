--------------------------- MODULE ConnectionInv ---------------------------
(***************************************************************************)
(* The inductive invariants behind the theorems of ConnectionProofs.       *)
(***************************************************************************)
EXTENDS Connection

-----------------------------------------------------------------------------
(* The queue.                                                              *)

\* Command objects in a queue: none is there twice, the two of an execute()
\* follow each other, nothing follows a Quit and nothing precedes a handshake.
\* (The first may be an Execute whose Prepare is done.)
Shape(s) ==
    /\ \A i \in DOMAIN s : s[i].step = "prepare" =>
          s[i].cmd \in Executes /\ i < Len(s) /\ s[i + 1] = Job(s[i].cmd, "run")
    /\ \A i \in DOMAIN s : i > 1 /\ s[i].step = "run" /\ s[i].cmd \in Executes =>
          s[i - 1] = Job(s[i].cmd, "prepare")
    /\ \A i, j \in DOMAIN s : s[i] = s[j] => i = j
    /\ \A i \in DOMAIN s : s[i].cmd = Quit => i = Len(s)
    /\ \A i \in DOMAIN s : s[i].cmd = Handshake => i = 1

\* The commands of a queue.
CmdsOf(s) == {s[i].cmd : i \in DOMAIN s}

QueueInv ==
    /\ current = NoJob => commands = <<>> /\ ~started
    /\ Shape(Pending)
    /\ CmdsOf(Pending) \subseteq {Handshake} \union Elems(issued)
    /\ Quit \in Elems(issued) => ~accepting
    /\ current.cmd = Handshake => started /\ ~connected
    /\ current.cmd \in Executes /\ current.step = "run" =>
          started /\ prepared[current.cmd] = "ok"

-----------------------------------------------------------------------------
(* Packets.                                                                *)

\* A Nothing is held once at most, while the connection is paused with a
\* command that has not been started.
NothingInv ==
    /\ Nothing \notin Elems(chunk)
    /\ \A i, j \in DOMAIN held : held[i] = Nothing /\ held[j] = Nothing => i = j
    /\ Nothing \in Elems(held) => /\ paused /\ ~started
                                  /\ accepting => current # NoJob

\* The packets that are still to be handled, in order.
Transit == held \o chunk
InTransit == Elems(Transit)

IsReply(p) == p.job # NoJob
\* An ERR that answers nothing.
IsFarewell(p) == p.job = NoJob /\ p # Nothing

\* No packet ends a command before its reply is complete.
InOrderReplies == "row" \notin Faults

\* A reply may be read by another command only after a bad row.
Matched == InOrderReplies \/ current.cmd = Handshake

\* The packets that are still to be handled belong to the active command; the
\* last one of its reply is behind all others, and the server then says no
\* more.  An ERR that answers nothing comes alone.
ReplyInv ==
    /\ Matched => \A p \in InTransit : IsReply(p) => p.job = current /\ started
    /\ Matched => (asked # NoJob => asked = current /\ started)
    /\ \A i \in DOMAIN Transit : Transit[i] # Nothing /\ Transit[i].kind # "part" =>
          /\ InOrderReplies => asked = NoJob
          /\ \A j \in DOMAIN Transit : j > i => Transit[j] = Nothing
    /\ \A i \in DOMAIN Transit : IsFarewell(Transit[i]) =>
          /\ Transit[i].kind = "err" /\ gone /\ connected
          /\ \A j \in DOMAIN Transit : j # i => Transit[j] = Nothing
    /\ \A p \in InTransit : p.job.cmd = Handshake /\ p.kind = "err" => "login" \in Faults
    /\ ~paused => \A p \in Elems(held) : ~IsReply(p)
    /\ ticks # <<>> => InTransit \subseteq {Nothing}
    /\ ~InOrderReplies => (current # NoJob => started) /\ (paused => current # NoJob)

\* While a command is left after the loss of a connection before its hello,
\* no packet may make it one that was not lost.
LostLogin ==
    protoErr /\ ~fatal => /\ current.cmd = Handshake =>
                                asked = NoJob /\ InTransit \subseteq {Nothing}
                          /\ ticks = <<>> /\ ~accepting /\ commands = <<>>
                          /\ current = NoJob \/ ~HasResult(current)

\* What the server, the socket and the flags say of each other.
CloseInv ==
    /\ fatal \/ protoErr => closing
    /\ stream # "open" => closing
    /\ gone => asked = NoJob /\ (closing \/ connected)
    /\ closing /\ ~destroyed /\ (connected \/ "login" \notin Faults \/ current.cmd = Handshake)
          => ~accepting /\ commands = <<>> /\ (current = NoJob \/ ~HasResult(current))

SyncInv == /\ CloseInv
           /\ LostLogin
           /\ ~Lost => ReplyInv

-----------------------------------------------------------------------------
(* Callbacks.                                                              *)

\* The timeout of the active command has called its callback.
TimedOut(k) == k \in Timed /\ current = Job(k, "run") /\ started /\ ~timer[k] /\ calls[k] = 1

CallInv ==
    /\ \A i, j \in DOMAIN issued : issued[i] = issued[j] => i = j
    /\ \A k \in Cmds \union {Quit} :
          /\ k \notin Elems(issued) => calls[k] = 0
          /\ k \in CmdsOf(Pending) => calls[k] = 0 \/ TimedOut(k)
          /\ k \notin Timed \union Executes => calls[k] <= 1
    /\ \A i, j \in DOMAIN ticks : ticks[i] = ticks[j] => i = j
    /\ \A k \in Elems(ticks) : /\ k \in Elems(issued) \ CmdsOf(Pending)
                               /\ calls[k] = 0
    /\ \A k \in Cmds : timer[k] =>
          /\ k \in Timed \intersect Elems(issued)
          /\ k \in CmdsOf(Pending) => current = Job(k, "run") /\ started

\* No call is forgotten: one that has not been called back is in the queue or
\* in a tick.
KeptInv ==
    /\ \A k \in Executes : prepared[k] = "failed" => Answered(k)
    /\ \A k \in Elems(issued) \ Silent :
          Answered(k) \/ k \in CmdsOf(Pending) \union Elems(ticks)
    /\ current.cmd \in Timed \ Silent /\ current.step = "run" /\ started /\ ~timer[current.cmd] =>
          Answered(current.cmd)

Ordered == Cmds \ (Silent \union Timed)

\* Commands wait in the order of their calls, and a callback that is deferred
\* to a tick waits for none but those before it.
OrderInv ==
    \A k, l \in Ordered : Before(k, l) /\ ~Answered(k) =>
        /\ l \notin Elems(ticks)
        /\ \A i \in DOMAIN Pending : Pending[i].cmd = l =>
              k \in Elems(ticks) \/ \E j \in 1 .. i - 1 : Pending[j].cmd = k

-----------------------------------------------------------------------------

CommandInv == TypeOK /\ QueueInv /\ CallInv

IInv == CommandInv /\ NothingInv /\ SyncInv /\ KeptInv /\ OrderInv

=============================================================================
