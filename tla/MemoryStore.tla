----------------------------- MODULE MemoryStore -----------------------------
(***************************************************************************)
(* internal/storage/memory: the maps of Storage and the methods that       *)
(* change them.  Every method holds Storage.mu from its first to its last  *)
(* access, so a method is one step.  The history jobStates[j] is kept as   *)
(* its last element (state) and its number of Failed elements (failures);  *)
(* the processing and queueTokens maps are written and never read, and the *)
(* counters are statistics no operation reads.                             *)
(***************************************************************************)
EXTENDS Engine, SequencesExt

CONSTANTS
    Priority,   \* position of a queue in cfg.Queues
    BatchSize,  \* cfg.SchedulerBatchSize
    MaxQueue    \* bound on the length of a queue

ASSUME MemoryAssumption ==
    /\ Priority \in [Queues -> Nat]
    /\ \A p, q \in Queues : Priority[p] = Priority[q] => p = q
    /\ BatchSize \in Nat \ {0}
    /\ MaxQueue \in Nat \ {0}
    /\ IsFiniteSet(Jobs)

VARIABLES
    state,          \* last element of jobStates, or why there is none
    failures,       \* Failed elements of jobStates
    result,         \* Job.Result, as the worker whose output it is
    queues,         \* Storage.queues
    scheduled,      \* keys of Storage.scheduled
    progress,       \* Storage.progress, as seen from the orphan cutoff
    continuations,  \* Storage.continuations, by parent
    fatal           \* the runtime has thrown: unlock of an unlocked mutex

storeVars == <<state, failures, result, queues, scheduled, progress, continuations,
               fatal>>

StoreTypeOK ==
    /\ state \in [Jobs -> JobStates \cup Missing]
    /\ failures \in [Jobs -> 0..AttemptCap]
    /\ result \in [Jobs -> Workers \cup {NoWorker}]
    /\ queues \in [Queues -> Seq(Jobs)]
    /\ scheduled \in SUBSET Jobs
    /\ progress \in [Jobs -> {"none", "fresh", "stale"}]
    /\ continuations \in [Jobs -> SUBSET Conditions]
    /\ fatal \in BOOLEAN

StoreInit ==
    /\ state = [j \in Jobs |-> "Unborn"]
    /\ failures = [j \in Jobs |-> 0]
    /\ result = [j \in Jobs |-> NoWorker]
    /\ queues = [q \in Queues |-> <<>>]
    /\ scheduled = {}
    /\ progress = [j \in Jobs |-> "none"]
    /\ continuations = [j \in Jobs |-> {}]
    /\ fatal = FALSE

Exists(j) == state[j] \notin Missing

PushBack(j) ==
    /\ Len(queues[QueueOf[j]]) < MaxQueue
    /\ queues' = [queues EXCEPT ![QueueOf[j]] = Append(@, j)]

\* AttemptCount(jobStates[j]) after one more Failed element.  The engine only
\* compares the count with RetryMax, so counts from AttemptCap on are one.
AttemptCount(j) == IF failures[j] < AttemptCap THEN failures[j] + 1 ELSE failures[j]

-----------------------------------------------------------------------------

\* Enqueue under a fresh ID.
Enqueue(j) ==
    /\ state[j] = "Unborn"
    /\ state' = [state EXCEPT ![j] = "Enqueued"]
    /\ PushBack(j)
    /\ UNCHANGED <<failures, result, scheduled, progress, continuations, fatal>>

\* The first queue of the list, in configuration order, that has an element.
FirstNonEmpty(qs, q) ==
    /\ q \in qs
    /\ queues[q] # <<>>
    /\ \A p \in qs : Priority[p] < Priority[q] => queues[p] = <<>>

\* Dequeue pops an ID whose job exists.  Its current state is not consulted.
Dequeue(q, j) ==
    /\ j = Head(queues[q])
    /\ Exists(j)
    /\ queues' = [queues EXCEPT ![q] = Tail(@)]
    /\ state' = [state EXCEPT ![j] = "Processing"]
    /\ progress' = [progress EXCEPT ![j] = "fresh"]
    /\ UNCHANGED <<failures, result, scheduled, continuations, fatal>>

\* Dequeue pops an ID whose job is gone.  The loop unlocks and continues, so
\* the Unlock that ends this pass, or the one of a goroutine that locked the
\* mutex in between, finds it unlocked; the Go runtime throws.
DequeueMissing(q) ==
    /\ ~Exists(Head(queues[q]))
    /\ queues' = [queues EXCEPT ![q] = Tail(@)]
    /\ fatal' = TRUE
    /\ UNCHANGED <<state, failures, result, scheduled, progress, continuations>>

\* Faulty variant: the state is appended but the ID is not pushed.
RequeueNoPush(j) ==
    /\ Exists(j)
    /\ state[j] \notin IrreversibleStates
    /\ state' = [state EXCEPT ![j] = "Enqueued"]
    /\ UNCHANGED <<failures, result, queues, scheduled, progress, continuations, fatal>>

\* Requeue, refused for a missing job or an irreversible state.
Requeue(j) ==
    /\ Exists(j)
    /\ state[j] \notin IrreversibleStates
    /\ state' = [state EXCEPT ![j] = "Enqueued"]
    /\ PushBack(j)
    /\ UNCHANGED <<failures, result, scheduled, progress, continuations, fatal>>

\* ApplyState: a compare-and-set on the name of the current state.
ApplyState(j, expected, new) ==
    /\ state[j] = expected
    /\ state' = [state EXCEPT ![j] = new]
    /\ failures' = [failures EXCEPT ![j] = IF new = "Failed" THEN AttemptCount(j) ELSE @]
    /\ UNCHANGED <<result, queues, scheduled, progress, continuations, fatal>>

\* Faulty variant: the state is appended but no key is stored.
ScheduleRetryNoKey(j) ==
    /\ state[j] = "Failed"
    /\ state' = [state EXCEPT ![j] = "Scheduled"]
    /\ UNCHANGED <<failures, result, queues, scheduled, progress, continuations, fatal>>

ScheduleRetry(j) ==
    /\ state[j] = "Failed"
    /\ state' = [state EXCEPT ![j] = "Scheduled"]
    /\ scheduled' = scheduled \cup {j}
    /\ UNCHANGED <<failures, result, queues, progress, continuations, fatal>>

SetJobResult(j, w) ==
    /\ Exists(j)
    /\ result' = [result EXCEPT ![j] = w]
    /\ UNCHANGED <<state, failures, queues, scheduled, progress, continuations, fatal>>

HeartbeatJob(j) ==
    /\ Exists(j)
    /\ progress' = [progress EXCEPT ![j] = "fresh"]
    /\ UNCHANGED <<state, failures, result, queues, scheduled, continuations, fatal>>

\* Every job with an old progress entry, whatever its state.
GetOrphanedJobs == {j \in Jobs : progress[j] = "stale"}

\* The progress entry of j passes the orphan cutoff.
BecomeStale(j) ==
    /\ progress[j] = "fresh"
    /\ progress' = [progress EXCEPT ![j] = "stale"]
    /\ UNCHANGED <<state, failures, result, queues, scheduled, continuations, fatal>>

AddScheduled(j) ==
    /\ state[j] = "Unborn"
    /\ state' = [state EXCEPT ![j] = "Scheduled"]
    /\ scheduled' = scheduled \cup {j}
    /\ UNCHANGED <<failures, result, queues, progress, continuations, fatal>>

\* Faulty variant: the promoted keys stay.
GetDueScheduledKeepsKeys(due) ==
    /\ due # {}
    /\ Cardinality(due) <= BatchSize
    /\ state' = [j \in Jobs |-> IF j \in due THEN "Enqueued" ELSE state[j]]
    /\ \E j \in due : PushBack(j)
    /\ UNCHANGED <<failures, result, scheduled, progress, continuations, fatal>>

\* GetDueScheduled promotes the due jobs it collected, at most BatchSize, in
\* the arbitrary order in which Go iterates over the map.
GetDueScheduled(due) ==
    /\ due # {}
    /\ Cardinality(due) <= BatchSize
    /\ scheduled' = scheduled \ due
    /\ state' = [j \in Jobs |-> IF j \in due THEN "Enqueued" ELSE state[j]]
    /\ \E pushed \in [Queues -> SetToAllKPermutations(due)] :
          /\ \A q \in Queues : pushed[q] \in SetToSeqs({j \in due : QueueOf[j] = q})
          /\ \A q \in Queues : Len(queues[q] \o pushed[q]) <= MaxQueue
          /\ queues' = [q \in Queues |-> queues[q] \o pushed[q]]
    /\ UNCHANGED <<failures, result, progress, continuations, fatal>>

AddContinuation(parent, condition) ==
    /\ continuations' = [continuations EXCEPT ![parent] = @ \cup {condition}]
    /\ UNCHANGED <<state, failures, result, queues, scheduled, progress, fatal>>

\* Faulty variant: the progress entry stays.
RemoveExpiredKeepsProgress(expired) ==
    /\ expired # {}
    /\ \A j \in expired : state[j] \in ExpirableStates
    /\ state' = [j \in Jobs |-> IF j \in expired THEN "Removed" ELSE state[j]]
    /\ scheduled' = scheduled \ expired
    /\ UNCHANGED <<failures, result, progress, continuations, queues, fatal>>

\* RemoveExpired erases the expired jobs, but not their queue elements.
RemoveExpired(expired) ==
    /\ expired # {}
    /\ \A j \in expired : state[j] \in ExpirableStates
    /\ state' = [j \in Jobs |-> IF j \in expired THEN "Removed" ELSE state[j]]
    /\ failures' = [j \in Jobs |-> IF j \in expired THEN 0 ELSE failures[j]]
    /\ result' = [j \in Jobs |-> IF j \in expired THEN NoWorker ELSE result[j]]
    /\ progress' = [j \in Jobs |-> IF j \in expired THEN "none" ELSE progress[j]]
    /\ scheduled' = scheduled \ expired
    /\ continuations' = [j \in Jobs |-> IF j \in expired THEN {} ELSE continuations[j]]
    /\ UNCHANGED <<queues, fatal>>

DeleteJob(j) ==
    /\ Exists(j)
    /\ state[j] \notin IrreversibleStates
    /\ state' = [state EXCEPT ![j] = "Deleted"]
    /\ progress' = [progress EXCEPT ![j] = "none"]
    /\ UNCHANGED <<failures, result, queues, scheduled, continuations, fatal>>

=============================================================================
