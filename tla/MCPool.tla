------------------------------- MODULE MCPool -------------------------------
(***************************************************************************)
(* Small instances of Pool for TLC.  Connections are interchangeable, and  *)
(* so are the requests that are not queries, and the queries.              *)
(***************************************************************************)
EXTENDS PoolInv, TLC

Symmetry == Permutations(Conns) \union Permutations(Reqs \ Queries)
                                \union Permutations(Queries)

=============================================================================
