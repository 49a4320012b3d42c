---------------------------- MODULE MemoryEngine ----------------------------
(***************************************************************************)
(* A gfire process on the memory backend: worker goroutines, the           *)
(* scheduler, coordinator and cleanup loops and the REST handlers, all     *)
(* sharing one MemoryStore.  The memory backend ignores the context it is  *)
(* given, so a done jobCtx never makes a storage call fail.                *)
(***************************************************************************)
EXTENDS MemoryStore

CONSTANTS
    Ops,             \* the REST operations clients use, and the loops that run
    MaxApiOps,       \* bound on requeue, cancel, delete and continue requests
    Punctual         \* goroutines keep their intervals well below the orphan cutoff

ASSUME MemoryEngineAssumption ==
    /\ MaxApiOps \in Nat
    /\ Punctual \in BOOLEAN

VARIABLES
    orphans,  \* coordinatorTick: orphans still to be requeued, per node
    apiOps    \* requests made so far

vars == <<engineVars, storeVars, orphans, apiOps>>

Init ==
    /\ EngineInit
    /\ StoreInit
    /\ orphans = [n \in Nodes |-> {}]
    /\ apiOps = 0

-----------------------------------------------------------------------------
(* Workers *)

\* Once the handler has returned nothing on this backend looks at jobCtx, so
\* its deadline is only taken into account until then.
WorkerLocal(w) ==
    /\ \/ PickQueues(w) \/ WorkerExit(w) \/ Execute(w) \/ Return(w)
       \/ pc[w] = "run" /\ JobTimeout(w)
    /\ UNCHANGED <<storeVars, orphans, apiOps>>

DequeueJob(w) ==
    /\ pc[w] = "dequeue"
    /\ \E q \in Queues, j \in Jobs : FirstNonEmpty(elig[w], q) /\ Dequeue(q, j) /\ GotTicket(w, j)
    /\ UNCHANGED <<orphans, apiOps>>

\* The runtime throws, and nothing recovers from that: the process is gone.
DequeueThrows(w) ==
    /\ pc[w] = "dequeue"
    /\ \E q \in Queues : FirstNonEmpty(elig[w], q) /\ DequeueMissing(q)
    /\ CrashEngine(NodeOf[w])
    /\ orphans' = [orphans EXCEPT ![NodeOf[w]] = {}]
    /\ UNCHANGED apiOps

DequeueEmpty(w) ==
    /\ pc[w] = "dequeue"
    /\ \A q \in elig[w] : queues[q] = <<>>
    /\ NoTicket(w)
    /\ UNCHANGED <<storeVars, orphans, apiOps>>

LoadJob(w) ==
    /\ pc[w] = "load"
    /\ IF Exists(job[w]) THEN BeginRun(w, failures[job[w]]) ELSE AbandonTicket(w)
    /\ UNCHANGED <<storeVars, orphans, apiOps>>

Heartbeat(w) ==
    /\ InFlight(w)
    /\ ctx[w] = "live"
    /\ HeartbeatJob(job[w])
    /\ UNCHANGED <<engineVars, orphans, apiOps>>

\* A storage call of finalizeSuccess or finalizeFailure answers ErrNotFound or
\* ErrStateConflict: processTicket logs it and returns.
Refused(w) == Advance(w, "return") /\ UNCHANGED storeVars

SetResult(w) ==
    /\ pc[w] = "setResult"
    /\ IF Exists(job[w])
         THEN SetJobResult(job[w], w) /\ Advance(w, "applySucceeded")
         ELSE Refused(w)
    /\ UNCHANGED <<orphans, apiOps>>

\* ApplyState from Processing to a state that ends processTicket.
FinishAs(w, label, new) ==
    /\ pc[w] = label
    /\ IF state[job[w]] = "Processing"
         THEN ApplyState(job[w], "Processing", new) /\ Finalized(w, new)
         ELSE Refused(w)
    /\ UNCHANGED <<orphans, apiOps>>

ApplySucceeded(w) == FinishAs(w, "applySucceeded", "Succeeded")
ApplyCancelled(w) == FinishAs(w, "applyCancelled", "Cancelled")

ApplyFailed(w) ==
    /\ pc[w] = "applyFailed"
    /\ IF state[job[w]] = "Processing"
         THEN ApplyState(job[w], "Processing", "Failed") /\ Advance(w, AfterFailed(w))
         ELSE Refused(w)
    /\ UNCHANGED <<orphans, apiOps>>

ApplyDead(w) ==
    /\ pc[w] = "applyDead"
    /\ IF state[job[w]] = "Failed"
         THEN ApplyState(job[w], "Failed", "Dead") /\ Finalized(w, "Dead")
         ELSE Refused(w)
    /\ UNCHANGED <<orphans, apiOps>>

RetryLater(w) ==
    /\ pc[w] = "scheduleRetry"
    /\ IF state[job[w]] = "Failed"
         THEN ScheduleRetry(job[w]) /\ Advance(w, "return")
         ELSE Refused(w)
    /\ UNCHANGED <<orphans, apiOps>>

\* GetContinuations, then GetJob on the parent.
FireContinuations(w) ==
    /\ pc[w] = "fire"
    /\ LoadContinuations(w, IF Exists(job[w]) THEN continuations[job[w]] ELSE {})
    /\ UNCHANGED <<storeVars, orphans, apiOps>>

EnqueueChild(w) ==
    /\ pc[w] = "firing"
    /\ \E c \in todo[w], child \in Jobs : FiredContinuation(w, c) /\ Enqueue(child)
    /\ UNCHANGED <<orphans, apiOps>>

WorkerStore(w) ==
    \/ DequeueJob(w) \/ DequeueThrows(w) \/ DequeueEmpty(w) \/ LoadJob(w)
    \/ SetResult(w) \/ ApplySucceeded(w) \/ ApplyCancelled(w) \/ ApplyFailed(w)
    \/ ApplyDead(w) \/ RetryLater(w) \/ FireContinuations(w) \/ EnqueueChild(w)

-----------------------------------------------------------------------------
(* Background loops *)

TickScheduler(n) ==
    /\ running[n]
    /\ \E due \in SUBSET scheduled : GetDueScheduled(due)
    /\ UNCHANGED <<engineVars, orphans, apiOps>>

\* coordinatorTick: take the list of orphans, then requeue one after another.
OrphanScan(n) ==
    /\ "orphan" \in Ops
    /\ running[n]
    /\ orphans[n] = {}
    /\ GetOrphanedJobs # {}
    /\ orphans' = [orphans EXCEPT ![n] = GetOrphanedJobs]
    /\ UNCHANGED <<engineVars, storeVars, apiOps>>

OrphanRequeue(n) ==
    /\ \E j \in orphans[n] :
          /\ orphans' = [orphans EXCEPT ![n] = @ \ {j}]
          /\ IF Exists(j) /\ state[j] \notin IrreversibleStates
               THEN Requeue(j)
               ELSE UNCHANGED storeVars
    /\ UNCHANGED <<engineVars, apiOps>>

\* The orphan cutoff (5m) is long beside a heartbeat interval (60s) and the poll
\* of an idle worker (100ms): with Punctual goroutines it runs out neither on the
\* job of a busy worker, nor on one that an idle worker is about to fetch.
HeldOrFetched(j) ==
    \E w \in Workers :
        \/ job[w] = j
        \/ /\ pc[w] \in {"idle", "dequeue"}
           /\ QueueOf[j] \in queuesUnderLimit(NodeOf[w])
           /\ j \in Range(queues[QueueOf[j]])

\* The retention may run out on a job whose queue element waits behind others,
\* but not between two storage calls of the worker that is finalizing it.
MidFinalize(j) == \E w \in Workers : job[w] = j /\ pc[w] \in {"applyDead", "scheduleRetry", "fire"}

CleanupTick(n) ==
    /\ "cleanup" \in Ops
    /\ running[n]
    /\ \E expired \in SUBSET {j \in Jobs : ~MidFinalize(j)} : RemoveExpired(expired)
    /\ UNCHANGED <<engineVars, orphans, apiOps>>

Stale(j) ==
    /\ Punctual => ~HeldOrFetched(j)
    /\ BecomeStale(j)
    /\ UNCHANGED <<engineVars, orphans, apiOps>>

-----------------------------------------------------------------------------
(* REST handlers.  RunServer shuts the API down before it stops the engine. *)

Request(n, op) ==
    /\ op \in Ops
    /\ running[n]
    /\ apiOps < MaxApiOps
    /\ apiOps' = apiOps + 1

\* handleBatchEnqueue does this for each of its jobs, one after another.
handleEnqueue(n, j) ==
    /\ running[n]
    /\ Enqueue(j)
    /\ UNCHANGED <<engineVars, orphans, apiOps>>

handleSchedule(n, j) ==
    /\ "schedule" \in Ops
    /\ running[n]
    /\ AddScheduled(j)
    /\ UNCHANGED <<engineVars, orphans, apiOps>>

handleRequeue(n, j) ==
    /\ Request(n, "requeue")
    /\ Requeue(j)
    /\ UNCHANGED <<engineVars, orphans>>

handleCancel(n, j) ==
    /\ Request(n, "cancel")
    /\ CancelJob(n, j)
    /\ UNCHANGED <<storeVars, orphans>>

handleDelete(n, j) ==
    /\ Request(n, "delete")
    /\ DeleteJob(j)
    /\ UNCHANGED <<engineVars, orphans>>

\* The parent is not looked up: an entry may come after the parent has ended
\* or has been erased.
handleContinue(n, j, c) ==
    /\ Request(n, "continue")
    /\ state[j] # "Unborn"
    /\ AddContinuation(j, c)
    /\ UNCHANGED <<engineVars, orphans>>

Stop(n) ==
    /\ "stop" \in Ops
    /\ StopEngine(n)
    /\ UNCHANGED <<storeVars, orphans, apiOps>>

-----------------------------------------------------------------------------

Next ==
    \/ \E w \in Workers : WorkerLocal(w) \/ WorkerStore(w) \/ Heartbeat(w)
    \/ \E n \in Nodes : TickScheduler(n) \/ OrphanScan(n) \/ OrphanRequeue(n)
                          \/ CleanupTick(n) \/ Stop(n)
    \/ \E j \in Jobs : Stale(j)
    \/ \E n \in Nodes, j \in Jobs :
          \/ handleEnqueue(n, j) \/ handleSchedule(n, j) \/ handleRequeue(n, j)
          \/ handleCancel(n, j) \/ handleDelete(n, j)
          \/ \E c \in Conditions : handleContinue(n, j, c)

Spec == Init /\ [][Next]_vars

-----------------------------------------------------------------------------

TypeOK ==
    /\ EngineTypeOK
    /\ StoreTypeOK
    /\ orphans \in [Nodes -> SUBSET Jobs]
    /\ apiOps \in 0..MaxApiOps

\* No job is lost: one that still has to run is in its queue, in the scheduled
\* map or in the progress map the orphan scan reads, whatever deletes,
\* requeues, promotions and stale workers did to it meanwhile.
Tracked ==
    \A j \in Jobs :
        /\ state[j] = "Enqueued" => j \in Range(queues[QueueOf[j]])
        /\ state[j] = "Scheduled" => j \in scheduled
        /\ state[j] \in {"Processing", "Failed"} => progress[j] # "none"

\* GetDueScheduled dereferences the job of every scheduled key and
\* HeartbeatJob never revives an erased one: the sweep leaves no such key.
NoDanglingKeys == \A j \in Jobs : ~Exists(j) => j \notin scheduled /\ progress[j] = "none"

\* A job that has succeeded, died, been cancelled or been deleted is never run
\* or queued again; only the retention sweep ends such a state.
IrreversibleStable ==
    [][\A j \in Jobs : state[j] \in IrreversibleStates => state'[j] \in {state[j], "Removed"}]_vars

\* The storage methods may be called concurrently without breaking the mutex
\* that guards them.
NoFatalUnlock == ~fatal

-----------------------------------------------------------------------------
(* Without manual requeues, deletions and orphan recovery (Ops offers none) *)
(* every job has one claim on being run, and lives as JobLifecycle says.    *)

Unfinished == {"load", "run", "setResult", "applySucceeded", "applyCancelled", "applyFailed"}

\* The places that entitle somebody to act on job j.
Claims(j) ==
    Cardinality({i \in DOMAIN queues[QueueOf[j]] : queues[QueueOf[j]][i] = j})
        + Cardinality({j} \cap scheduled)
        + Cardinality({w \in Workers : job[w] = j
                           /\ pc[w] \in Unfinished \cup {"applyDead", "scheduleRetry"}})

\* A live job has exactly one claim, of the kind its state names, and a
\* finished one has none left: no second execution, no resurrection.
ExactlyOneClaim ==
    \A j \in Jobs :
        /\ Claims(j) = IF state[j] \in IrreversibleStates \cup Missing THEN 0 ELSE 1
        /\ state[j] = "Processing" => \E w \in Workers : job[w] = j /\ pc[w] \in Unfinished
        /\ state[j] = "Failed" =>
              \E w \in Workers : job[w] = j /\ pc[w] \in {"applyDead", "scheduleRetry"}

\* The children of a succeeded run are given that run's output, never the
\* output of another worker (mergeContinuationArgs reads Job.Result).
ParentResultIsOwn ==
    \A w \in Workers :
        pc[w] \in {"fire", "firing"} /\ terminal[w] = "Succeeded" =>
            result[job[w]] \in {w, NoWorker}

Lifecycle == INSTANCE JobLifecycle WITH
    life <- state, tries <- failures, MaxTries <- [j \in Jobs |-> MaxFailures(j)]

\* The engine on the memory backend implements the lifecycle: every storage
\* call of workers and loops is one step of one job along it.
ImplementsLifecycle == Lifecycle!LifeSpec

-----------------------------------------------------------------------------
(* Fairness: goroutines are scheduled, a handler returns (its deadline ends *)
(* in SIGKILL), tickers fire and a due time comes.                          *)

WorkerProgress(w) ==
    \/ (PickQueues(w) \/ WorkerExit(w) \/ Execute(w) \/ Return(w)) /\ UNCHANGED <<storeVars, orphans, apiOps>>
    \/ WorkerStore(w)

Fairness ==
    /\ \A w \in Workers : WF_vars(WorkerProgress(w))
    /\ \A n \in Nodes : /\ WF_vars(TickScheduler(n))
                         /\ WF_vars(OrphanScan(n))
                         /\ WF_vars(OrphanRequeue(n))

FairSpec == Spec /\ Fairness

\* Every accepted job comes to rest in a final state and stays there with no
\* work left behind, once clients stop interfering with it, unless Dequeue has
\* taken the process down.
EventuallySettled ==
    \A j \in Jobs :
        <>[](\/ fatal
             \/ /\ state[j] \in IrreversibleStates \cup Missing
                /\ j \notin Range(queues[QueueOf[j]])
                /\ j \notin scheduled)

=============================================================================
