---------------------------- MODULE MCConnection ----------------------------
(***************************************************************************)
(* Small instances of Connection for TLC.  Calls of the same kind are      *)
(* interchangeable.                                                        *)
(***************************************************************************)
EXTENDS Connection, TLC

Kind(k) == <<k \in Executes, k \in Timed, k \in Silent>>
Symmetry == {f \in Permutations(Cmds) : \A k \in Cmds : Kind(f[k]) = Kind(k)}

=============================================================================
