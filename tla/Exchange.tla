------------------------------ MODULE Exchange ------------------------------
(* What one connection puts on the wire and takes from it: the requests it   *)
(* encodes (Requests) and the results it decodes (RowParsers), over the same *)
(* codec.  A process either encodes a request or reads the results of its    *)
(* connections: neither leaves anything the other reads, so that the two are *)
(* explored side by side, from the start, and not multiplied.                *)
EXTENDS RowParsers, Requests

Init == InitRows /\ InitRequests

Next ==
    /\ sent = <<>>
    /\ \/ NextRows /\ UNCHANGED sent
       \/ InitRows /\ (\E r \in Requests : Send(r)) /\ UNCHANGED rowVars

Spec == Init /\ [][Next]_<<rowVars, sent>>

=============================================================================
