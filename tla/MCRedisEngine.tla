---------------------------- MODULE MCRedisEngine ----------------------------
(***************************************************************************)
(* The instance of RedisEngine for TLC: one node, two workers, one job.    *)
(***************************************************************************)
EXTENDS RedisEngine, TLC

CONSTANTS n1, w1, w2, j1, q1

OneNode == [w \in Workers |-> n1]
OneQueue == [j \in Jobs |-> q1]
NoLimit == [q \in Queues |-> 0]
Rank == [q \in Queues |-> 1]
Symmetry == Permutations(Workers)
RetryTwice == [j \in Jobs |-> 2]
=============================================================================
