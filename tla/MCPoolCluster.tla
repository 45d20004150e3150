--------------------------- MODULE MCPoolCluster ---------------------------
(***************************************************************************)
(* A small instance of PoolCluster: two ids, a pattern for both and one    *)
(* for the first, which makes a symmetry of the ids unsound.               *)
(***************************************************************************)
EXTENDS PoolCluster, TLC

MCIds == {"A", "B"}
MCMatches == [p \in {"*", "A"} |-> IF p = "*" THEN {"A", "B"} ELSE {"A"}]

CONSTANTS r1, q1
MCWants == [r \in {r1, q1} |-> [pattern |-> IF r = r1 THEN "*" ELSE "A", selector |-> "RR"]]

\* Nodes are removed at the second error, or go offline at the first.
MCOptions == {[canRetry |-> TRUE, limit |-> 2, restore |-> FALSE],
              [canRetry |-> TRUE, limit |-> 1, restore |-> TRUE]}

\* Bounds, both on what does not interact: only nodes that are removed for
\* their errors need a third object, and a second call of end() changes
\* nothing that a request looks at.
Bounded ==
    /\ config.restore => node[3] = Unused
    /\ ending.call[2] # "none" => \A r \in Reqs : req[r].at \in {"idle", "done"}

=============================================================================
