----------------------------- MODULE MCPgEngine -----------------------------
(***************************************************************************)
(* Instances of PgEngine for TLC: one worker on each of two nodes, or two  *)
(* workers on one, and one queue.                                          *)
(***************************************************************************)
EXTENDS PgEngine, TLC

CONSTANTS n1, n2, w1, w2, j1, j2, q1

TwoNodes == [w \in Workers |-> IF w = w1 THEN n1 ELSE n2]
OneNode == [w \in Workers |-> n1]
OneQueue == [j \in Jobs |-> q1]
NoLimit == [q \in Queues |-> 0]
RetryTwice == [j \in Jobs |-> 2]
RetryTwiceOrNever == [j \in Jobs |-> IF j = j1 THEN 2 ELSE -1]
RetryDefault == [j \in Jobs |-> 0]
Symmetry == Permutations(Workers)
=============================================================================
