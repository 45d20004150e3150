---------------------------- MODULE MCRingQueue ----------------------------
(***************************************************************************)
(* A small instance of RingQueue for TLC.                                  *)
(***************************************************************************)
EXTENDS RingQueue, TLC

CONSTANTS a, b

MCItems == {a, b}
MCCounts == {0, 1, 3, undefined}
MCInserts == {<<>>, <<a, b>>}

=============================================================================
