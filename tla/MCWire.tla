------------------------------- MODULE MCWire -------------------------------
(***************************************************************************)
(* A small instance of Wire for TLC: bytes have two values, so a packet is *)
(* full at seven bytes of payload.                                         *)
(***************************************************************************)
EXTENDS Wire, TLC

MCLengths == {0, 1, 3, 6, 7, 8, 15}
MCStreams ==
    [m \in {"plain", "compressed"} |->
        IF m = "plain" THEN {<<a, b>> : a \in MCLengths, b \in MCLengths}
        ELSE {<<0, 1>>}]
MCWrites == {<<"large", "tiny">>, <<"small", "large", "small">>}

=============================================================================
