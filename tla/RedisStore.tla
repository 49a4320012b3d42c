----------------------------- MODULE RedisStore -----------------------------
(***************************************************************************)
(* internal/storage/redis: the keys of the backend and what its scripts    *)
(* and pipelines do to them.  A Lua script is atomic.  A pipeline is not a *)
(* transaction, but it is sent in one write and run in one go, so it is    *)
(* one step here.  Between two scripts or pipelines of an operation        *)
(* anything may happen: Dequeue, Requeue, DeleteJob, ScheduleRetry,        *)
(* GetOrphanedJobs, GetDueScheduled and RemoveExpired are halves that      *)
(* RedisEngine puts together.  The EXISTS or HGETALL before the write of   *)
(* HeartbeatJob, SetJobResult, deleteJob and each promoted job belongs to  *)
(* the step of that write.                                                 *)
(***************************************************************************)
EXTENDS Engine, SequencesExt

CONSTANTS
    Priority,      \* position of a queue in cfg.Queues, the key order of BRPOP
    DefaultQueue,  \* the queue of a hash without a queue field
    BatchSize,     \* cfg.SchedulerBatchSize
    MaxQueue       \* bound on the length of a queue

ASSUME RedisAssumption ==
    /\ Priority \in [Queues -> Nat]
    /\ \A p, q \in Queues : Priority[p] = Priority[q] => p = q
    /\ DefaultQueue \in Queues
    /\ BatchSize \in Nat \ {0}
    /\ MaxQueue \in Nat \ {0}

VARIABLES
    state,         \* field state of the job hash, or why there is no hash
    body,          \* jobs whose hash has the fields that Enqueue wrote
    failures,      \* Failed elements of the list of states
    progress,      \* field progress_at, as seen from the orphan cutoff
    index,         \* the sets state:<name> that some operation reads
    queues,        \* the lists queue:<name>, oldest element first
    scheduled,     \* the sorted set of due times
    requeued       \* history: the jobs that Requeue has put back into a list

storeVars == <<state, body, failures, progress, index, queues, scheduled, requeued>>

\* The orphan scan reads the first of these, the retention sweep the others;
\* the sets of the other states only serve listings.
Indexes == {"Processing", "Succeeded", "Failed", "Deleted"}

StoreTypeOK ==
    /\ state \in [Jobs -> JobStates \cup Missing]
    /\ body \subseteq Jobs
    /\ failures \in [Jobs -> 0..AttemptCap]
    /\ progress \in [Jobs -> {"none", "fresh", "stale"}]
    /\ index \in [Indexes -> SUBSET Jobs]
    /\ queues \in [Queues -> Seq(Jobs)]
    /\ scheduled \subseteq Jobs
    /\ requeued \subseteq Jobs

StoreInit ==
    /\ state = [j \in Jobs |-> "Unborn"]
    /\ body = {}
    /\ failures = [j \in Jobs |-> 0]
    /\ progress = [j \in Jobs |-> "none"]
    /\ index = [s \in Indexes |-> {}]
    /\ queues = [q \in Queues |-> <<>>]
    /\ scheduled = {}
    /\ requeued = {}

Exists(j) == state[j] \notin Missing

\* HSET state, with progress_at set or removed.
SetState(j, new, at) ==
    /\ state' = [state EXCEPT ![j] = new]
    /\ progress' = [progress EXCEPT ![j] = at]

\* SREM from one set, SADD to another.
Reindex(j, old, new) ==
    index' = [s \in Indexes |-> IF s = new THEN index[s] \cup {j}
                                ELSE IF s = old THEN index[s] \ {j}
                                ELSE index[s]]

LPush(q, j) ==
    /\ Len(queues[q]) < MaxQueue
    /\ queues' = [queues EXCEPT ![q] = Append(@, j)]

\* The field queue of a job hash.
QueueField(j) == IF j \in body THEN QueueOf[j] ELSE DefaultQueue

-----------------------------------------------------------------------------
(* New jobs *)

Enqueue(j) ==
    /\ state[j] = "Unborn"
    /\ SetState(j, "Enqueued", "none")
    /\ body' = body \cup {j}
    /\ LPush(QueueOf[j], j)
    /\ UNCHANGED <<failures, index, scheduled, requeued>>

AddScheduled(j) ==
    /\ state[j] = "Unborn"
    /\ SetState(j, "Scheduled", "none")
    /\ body' = body \cup {j}
    /\ scheduled' = scheduled \cup {j}
    /\ UNCHANGED <<failures, index, queues, requeued>>

-----------------------------------------------------------------------------
(* Dequeue *)

\* BRPOP takes the oldest element of the first list that has one.
BRPop(qs, j) ==
    /\ \E q \in qs :
          /\ queues[q] # <<>>
          /\ \A p \in qs : Priority[p] < Priority[q] => queues[p] = <<>>
          /\ j = Head(queues[q])
          /\ queues' = [queues EXCEPT ![q] = Tail(@)]
    /\ UNCHANGED <<state, body, failures, progress, index, scheduled, requeued>>

\* finalizeDequeueScript, for a hash that exists, whatever state it is in.
finalizeDequeue(j) ==
    /\ SetState(j, "Processing", "fresh")
    /\ Reindex(j, "Enqueued", "Processing")
    /\ UNCHANGED <<body, failures, queues, scheduled, requeued>>

-----------------------------------------------------------------------------
(* Transitions *)

\* AttemptCount after one more Failed element; counts from AttemptCap on are one.
CountFailure(j) ==
    failures' = [failures EXCEPT ![j] = IF @ < AttemptCap THEN @ + 1 ELSE @]

\* applyStateScript, a compare-and-set.  No caller sets Processing.
ApplyState(j, expected, new) ==
    /\ state[j] = expected
    /\ SetState(j, new, "none")
    /\ Reindex(j, expected, new)
    /\ IF new = "Failed" THEN CountFailure(j) ELSE UNCHANGED failures
    /\ UNCHANGED <<body, queues, scheduled, requeued>>

\* The reading halves of Requeue, DeleteJob and ScheduleRetry.
Check(j) == Exists(j) /\ state[j] \notin IrreversibleStates
CheckRetry(j) == state[j] = "Failed"

\* The pipelines that follow.  HSET creates the hash again if the job has been
\* erased meanwhile, without the fields of body.
WriteRequeue(j, q) ==
    /\ SetState(j, "Enqueued", "none")
    /\ Reindex(j, "Processing", "Enqueued")
    /\ LPush(q, j)
    /\ requeued' = requeued \cup {j}
    /\ UNCHANGED <<body, failures, scheduled>>

WriteDelete(j) ==
    /\ SetState(j, "Deleted", "none")
    /\ UNCHANGED <<body, failures, index, queues, scheduled, requeued>>

\* Faulty variant: the sorted set is left alone.
WriteRetryNoZAdd(j) ==
    /\ state' = [state EXCEPT ![j] = "Scheduled"]
    /\ Reindex(j, "Failed", "Scheduled")
    /\ UNCHANGED <<body, failures, progress, queues, scheduled, requeued>>

\* Faulty variant: the job stays in the set of Failed jobs.
WriteRetryNoSRem(j) ==
    /\ state' = [state EXCEPT ![j] = "Scheduled"]
    /\ scheduled' = scheduled \cup {j}
    /\ UNCHANGED <<body, failures, progress, index, queues, requeued>>

WriteRetry(j) ==
    /\ state' = [state EXCEPT ![j] = "Scheduled"]
    /\ scheduled' = scheduled \cup {j}
    /\ Reindex(j, "Failed", "Scheduled")
    /\ UNCHANGED <<body, failures, progress, queues, requeued>>

SetJobResult(j) ==
    /\ Exists(j)
    /\ UNCHANGED storeVars

-----------------------------------------------------------------------------
(* Scheduled jobs *)

\* promoteScheduledScript removes the due members and returns them ...
promoteScheduled(due) ==
    /\ due # {}
    /\ Cardinality(due) <= BatchSize
    /\ scheduled' = scheduled \ due
    /\ UNCHANGED <<state, body, failures, progress, index, queues, requeued>>

\* ... and each of them that has a hash is enqueued by a pipeline of its own.
PromoteJob(j) ==
    IF Exists(j)
      THEN /\ state' = [state EXCEPT ![j] = "Enqueued"]
           /\ LPush(QueueField(j), j)
           /\ UNCHANGED <<body, failures, progress, index, scheduled, requeued>>
      ELSE UNCHANGED storeVars

-----------------------------------------------------------------------------
(* Heartbeats, orphans, retention *)

HeartbeatJob(j) ==
    /\ Exists(j)
    /\ progress' = [progress EXCEPT ![j] = "fresh"]
    /\ UNCHANGED <<state, body, failures, index, queues, scheduled, requeued>>

\* GetOrphanedJobs on one member of the Processing set.
LooksOrphaned(j) == progress[j] # "fresh"

\* progress_at passes the orphan cutoff.
BecomeStale(j) ==
    /\ progress[j] = "fresh"
    /\ progress' = [progress EXCEPT ![j] = "stale"]
    /\ UNCHANGED <<state, body, failures, index, queues, scheduled, requeued>>

\* LREM with count 0: the other elements are left, in their order.
LRem(q, j) ==
    LET kept == {i \in DOMAIN queues[q] : queues[q][i] # j} IN
    \E at \in [1..Cardinality(kept) -> kept] :
        /\ \A a, b \in DOMAIN at : a < b => at[a] < at[b]
        /\ queues' = [queues EXCEPT ![q] = [i \in DOMAIN at |-> queues[q][at[i]]]]

\* The pipeline of deleteJob, for a member of one of the sets.  The list is only
\* cleared when the hash still told its queue.
deleteJob(j, s) ==
    /\ state' = [state EXCEPT ![j] = "Removed"]
    /\ body' = body \ {j}
    /\ failures' = [failures EXCEPT ![j] = 0]
    /\ progress' = [progress EXCEPT ![j] = "none"]
    /\ index' = [index EXCEPT ![s] = @ \ {j}]
    /\ IF j \in body THEN LRem(QueueOf[j], j) ELSE UNCHANGED queues
    /\ scheduled' = scheduled \ {j}
    /\ UNCHANGED requeued

=============================================================================
