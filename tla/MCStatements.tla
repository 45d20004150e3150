---------------------------- MODULE MCStatements ----------------------------
(***************************************************************************)
(* A small instance of Statements for TLC.                                 *)
(***************************************************************************)
EXTENDS Statements, TLC

Symmetry == Permutations(Keys)

=============================================================================
