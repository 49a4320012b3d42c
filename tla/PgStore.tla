------------------------------- MODULE PgStore -------------------------------
(***************************************************************************)
(* internal/storage/postgres: the tables jobs, job_states, scheduled_jobs  *)
(* and continuations, and the transactions on them.  A transaction that    *)
(* locks its job row first (FOR UPDATE), or is one statement, is a single  *)
(* step.  Requeue and DeleteJob read the state without a lock and write    *)
(* without a condition: they are two steps, Check and Write, and anything  *)
(* may happen in between.                                                  *)
(***************************************************************************)
EXTENDS Engine

CONSTANTS
    NonJson,   \* jobs whose handler prints something that is not JSON
    BatchSize  \* cfg.SchedulerBatchSize

ASSUME PgAssumption ==
    /\ NonJson \subseteq Jobs
    /\ BatchSize \in Nat \ {0}

VARIABLES
    state,         \* jobs.state, or why there is no row
    failures,      \* Failed rows of job_states
    progress,      \* jobs.progress_at, as seen from the orphan cutoff
    rows,          \* job_id column of scheduled_jobs
    continuations  \* rows of continuations, by parent

storeVars == <<state, failures, progress, rows, continuations>>

StoreTypeOK ==
    /\ state \in [Jobs -> JobStates \cup Missing]
    /\ failures \in [Jobs -> 0..AttemptCap]
    /\ progress \in [Jobs -> {"null", "fresh", "stale"}]
    /\ rows \in SUBSET Jobs
    /\ continuations \in [Jobs -> SUBSET Conditions]

StoreInit ==
    /\ state = [j \in Jobs |-> "Unborn"]
    /\ failures = [j \in Jobs |-> 0]
    /\ progress = [j \in Jobs |-> "null"]
    /\ rows = {}
    /\ continuations = [j \in Jobs |-> {}]

Exists(j) == state[j] \notin Missing

\* The job's state and progress_at after an UPDATE.
SetState(j, new, at) ==
    /\ state' = [state EXCEPT ![j] = new]
    /\ progress' = [progress EXCEPT ![j] = at]

\* One more Failed row; the engine only compares the count with RetryMax, so
\* counts from AttemptCap on are one.
CountFailure(j) ==
    failures' = [failures EXCEPT ![j] = IF @ < AttemptCap THEN @ + 1 ELSE @]

-----------------------------------------------------------------------------

Enqueue(j) ==
    /\ state[j] = "Unborn"
    /\ SetState(j, "Enqueued", "null")
    /\ UNCHANGED <<failures, rows, continuations>>

\* Faulty variant: the UPDATE does not set progress_at.
DequeueNoProgress(qs, j) ==
    /\ state[j] = "Enqueued"
    /\ QueueOf[j] \in qs
    /\ SetState(j, "Processing", "null")
    /\ UNCHANGED <<failures, rows, continuations>>

\* tryDequeue takes the eligible row with the lowest token that no other
\* transaction holds (SKIP LOCKED): any eligible row can be that one.
Dequeue(qs, j) ==
    /\ state[j] = "Enqueued"
    /\ QueueOf[j] \in qs
    /\ SetState(j, "Processing", "fresh")
    /\ UNCHANGED <<failures, rows, continuations>>

\* The first half of Requeue and of DeleteJob: the state they read allows it.
Check(j) == Exists(j) /\ state[j] \notin IrreversibleStates

\* The second half.  If the row has gone meanwhile, nothing is written.
WriteRequeue(j) ==
    IF Exists(j)
      THEN /\ SetState(j, "Enqueued", "null")
           /\ UNCHANGED <<failures, rows, continuations>>
      ELSE UNCHANGED storeVars

WriteDelete(j) ==
    IF Exists(j)
      THEN /\ SetState(j, "Deleted", "null")
           /\ UNCHANGED <<failures, rows, continuations>>
      ELSE UNCHANGED storeVars

\* applyStateTx, a compare-and-set under the row lock.  No caller sets
\* Processing, so progress_at is always cleared.
ApplyState(j, expected, new) ==
    /\ state[j] = expected
    /\ SetState(j, new, "null")
    /\ IF new = "Failed" THEN CountFailure(j) ELSE UNCHANGED failures
    /\ UNCHANGED <<rows, continuations>>

\* Faulty variant: the old row is deleted and no new one inserted.
ScheduleRetryNoRow(j) ==
    /\ state[j] = "Failed"
    /\ state' = [state EXCEPT ![j] = "Scheduled"]
    /\ rows' = rows \ {j}
    /\ UNCHANGED <<failures, progress, continuations>>

\* Replaces the scheduled_jobs row the job may still have.
ScheduleRetry(j) ==
    /\ state[j] = "Failed"
    /\ state' = [state EXCEPT ![j] = "Scheduled"]
    /\ rows' = rows \cup {j}
    /\ UNCHANGED <<failures, progress, continuations>>

\* The cast to jsonb refuses any other text.  The column it writes is only read
\* by mergeContinuationArgs, which MemoryEngine follows.
SetJobResult(j) ==
    /\ Exists(j)
    /\ j \notin NonJson
    /\ UNCHANGED storeVars

HeartbeatJob(j) ==
    /\ Exists(j)
    /\ progress' = [progress EXCEPT ![j] = "fresh"]
    /\ UNCHANGED <<state, failures, rows, continuations>>

\* Faulty variant: the cutoff is not applied.
GetOrphanedJobsNoCutoff == {j \in Jobs : state[j] = "Processing"}

GetOrphanedJobs == {j \in Jobs : state[j] = "Processing" /\ progress[j] = "stale"}

\* progress_at passes the orphan cutoff.
BecomeStale(j) ==
    /\ progress[j] = "fresh"
    /\ progress' = [progress EXCEPT ![j] = "stale"]
    /\ UNCHANGED <<state, failures, rows, continuations>>

AddScheduled(j) ==
    /\ state[j] = "Unborn"
    /\ SetState(j, "Scheduled", "null")
    /\ rows' = rows \cup {j}
    /\ UNCHANGED <<failures, continuations>>

\* Faulty variant: the due rows stay.
GetDueScheduledKeepsRows(due) ==
    /\ due # {}
    /\ Cardinality(due) <= BatchSize
    /\ state' = [j \in Jobs |-> IF j \in due THEN "Enqueued" ELSE state[j]]
    /\ UNCHANGED <<failures, progress, rows, continuations>>

\* Deletes the due rows and enqueues their jobs, whatever state these are in.
GetDueScheduled(due) ==
    /\ due # {}
    /\ Cardinality(due) <= BatchSize
    /\ rows' = rows \ due
    /\ state' = [j \in Jobs |-> IF j \in due THEN "Enqueued" ELSE state[j]]
    /\ UNCHANGED <<failures, progress, continuations>>

\* The foreign key refuses a parent that does not exist.
AddContinuation(parent, condition) ==
    /\ Exists(parent)
    /\ continuations' = [continuations EXCEPT ![parent] = @ \cup {condition}]
    /\ UNCHANGED <<state, failures, progress, rows>>

\* One DELETE; job_states, scheduled_jobs and continuations cascade.
RemoveExpired(expired) ==
    /\ expired # {}
    /\ \A j \in expired : state[j] \in ExpirableStates
    /\ state' = [j \in Jobs |-> IF j \in expired THEN "Removed" ELSE state[j]]
    /\ failures' = [j \in Jobs |-> IF j \in expired THEN 0 ELSE failures[j]]
    /\ progress' = [j \in Jobs |-> IF j \in expired THEN "null" ELSE progress[j]]
    /\ rows' = rows \ expired
    /\ continuations' = [j \in Jobs |-> IF j \in expired THEN {} ELSE continuations[j]]

=============================================================================
