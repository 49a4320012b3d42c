--------------------------- MODULE MCMemoryEngine ---------------------------
(***************************************************************************)
(* Instances of MemoryEngine for TLC: one node, two workers, one or two    *)
(* jobs on one or two queues.                                              *)
(***************************************************************************)
EXTENDS MemoryEngine

CONSTANTS n1, w1, w2, j1, j2, q1, q2

MCNodeOf == [w \in Workers |-> n1]
TwoQueues == [j \in Jobs |-> IF j = j1 THEN q1 ELSE q2]
OneQueue == [j \in Jobs |-> q1]
NoLimit == [q \in Queues |-> 0]
LimitOne == [q \in Queues |-> 1]
Rank == [q \in Queues |-> IF q = q1 THEN 1 ELSE 2]
Symmetry == Permutations(Workers)
RetryTwice == [j \in Jobs |-> 2]
RetryDefaultOrNever == [j \in Jobs |-> IF j = j1 THEN 0 ELSE -1]
=============================================================================
