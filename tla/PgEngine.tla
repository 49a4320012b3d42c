------------------------------ MODULE PgEngine ------------------------------
(***************************************************************************)
(* gfire processes on one PostgreSQL database: the workers, loops and REST *)
(* handlers of every node over one PgStore, with what a process and a      *)
(* network can do to them.  pgx refuses to start a transaction for a done  *)
(* context, so once jobCtx is done every finalizing call of its worker     *)
(* fails.                                                                  *)
(***************************************************************************)
EXTENDS PgStore

CONSTANTS
    Ops,         \* the REST operations clients use, and the mishaps that occur
    MaxApiOps,   \* bound on requeue, cancel, delete and continue requests
    MaxMishaps,  \* bound on crashes, stops, lost connections and timeouts
    Punctual     \* heartbeats keep their interval well below the orphan cutoff

ASSUME PgEngineAssumption ==
    /\ MaxApiOps \in Nat
    /\ MaxMishaps \in Nat
    /\ Punctual \in BOOLEAN

VARIABLES
    orphans,  \* coordinatorTick: orphans still to be requeued, per node
    open,     \* Requeue and DeleteJob transactions between Check and Write
    apiOps,   \* requests made so far
    mishaps   \* mishaps so far

vars == <<engineVars, storeVars, orphans, open, apiOps, mishaps>>

\* A transaction belongs to a REST handler or to the coordinator of a node.
Tx == [node : Nodes, by : {"api", "coordinator"}, op : {"requeue", "delete"}, job : Jobs]

Init ==
    /\ EngineInit
    /\ StoreInit
    /\ orphans = [n \in Nodes |-> {}]
    /\ open = {}
    /\ apiOps = 0
    /\ mishaps = 0

othersUnchanged == UNCHANGED <<orphans, open, apiOps, mishaps>>

Mishap(kind) ==
    /\ kind \in Ops
    /\ mishaps < MaxMishaps
    /\ mishaps' = mishaps + 1
    /\ UNCHANGED <<orphans, open, apiOps>>

-----------------------------------------------------------------------------
(* Workers *)

WorkerLocal(w) ==
    /\ PickQueues(w) \/ WorkerExit(w) \/ Execute(w) \/ Return(w)
    /\ UNCHANGED storeVars
    /\ othersUnchanged

DequeueJob(w) ==
    /\ pc[w] = "dequeue"
    /\ running[NodeOf[w]]
    /\ \E j \in Jobs : Dequeue(elig[w], j) /\ GotTicket(w, j)
    /\ othersUnchanged

\* Nothing to fetch, or runCtx is done.
DequeueEmpty(w) ==
    /\ pc[w] = "dequeue"
    /\ running[NodeOf[w]] => \A j \in Jobs : state[j] = "Enqueued" => QueueOf[j] \notin elig[w]
    /\ NoTicket(w)
    /\ UNCHANGED storeVars
    /\ othersUnchanged

\* GetJob with a context of its own.
LoadJob(w) ==
    /\ pc[w] = "load"
    /\ IF Exists(job[w]) THEN BeginRun(w, failures[job[w]]) ELSE AbandonTicket(w)
    /\ UNCHANGED storeVars
    /\ othersUnchanged

\* So does the heartbeat, but its goroutine ends with jobCtx.
Heartbeat(w) ==
    /\ InFlight(w)
    /\ ctx[w] = "live"
    /\ HeartbeatJob(job[w])
    /\ UNCHANGED engineVars
    /\ othersUnchanged

\* The call fails: processTicket logs it and returns.
Refused(w) == Advance(w, "return") /\ UNCHANGED storeVars

SetResult(w) ==
    /\ pc[w] = "setResult"
    /\ IF ctx[w] = "live" /\ Exists(job[w]) /\ job[w] \notin NonJson
         THEN SetJobResult(job[w]) /\ Advance(w, "applySucceeded")
         ELSE Refused(w)
    /\ othersUnchanged

\* ApplyState to a state that ends processTicket.  Cancelled is only attempted
\* with a jobCtx that is done, and then always refused.
FinishAs(w, label, expected, new) ==
    /\ pc[w] = label
    /\ IF ctx[w] = "live" /\ state[job[w]] = expected
         THEN ApplyState(job[w], expected, new) /\ Finalized(w, new)
         ELSE Refused(w)
    /\ othersUnchanged

ApplySucceeded(w) == FinishAs(w, "applySucceeded", "Processing", "Succeeded")
ApplyCancelled(w) == FinishAs(w, "applyCancelled", "Processing", "Cancelled")
ApplyDead(w) == FinishAs(w, "applyDead", "Failed", "Dead")

ApplyFailed(w) ==
    /\ pc[w] = "applyFailed"
    /\ IF ctx[w] = "live" /\ state[job[w]] = "Processing"
         THEN ApplyState(job[w], "Processing", "Failed") /\ Advance(w, AfterFailed(w))
         ELSE Refused(w)
    /\ othersUnchanged

RetryLater(w) ==
    /\ pc[w] = "scheduleRetry"
    /\ IF ctx[w] = "live" /\ state[job[w]] = "Failed"
         THEN ScheduleRetry(job[w]) /\ Advance(w, "return")
         ELSE Refused(w)
    /\ othersUnchanged

\* fireContinuations works with a context of its own.
FireContinuations(w) ==
    /\ pc[w] = "fire"
    /\ LoadContinuations(w, IF Exists(job[w]) THEN continuations[job[w]] ELSE {})
    /\ UNCHANGED storeVars
    /\ othersUnchanged

EnqueueChild(w) ==
    /\ pc[w] = "firing"
    /\ \E c \in todo[w], child \in Jobs : FiredContinuation(w, c) /\ Enqueue(child)
    /\ othersUnchanged

WorkerStore(w) ==
    \/ DequeueJob(w) \/ DequeueEmpty(w) \/ LoadJob(w) \/ SetResult(w)
    \/ ApplySucceeded(w) \/ ApplyCancelled(w) \/ ApplyDead(w) \/ ApplyFailed(w)
    \/ RetryLater(w) \/ FireContinuations(w) \/ EnqueueChild(w)

-----------------------------------------------------------------------------
(* Background loops.  The context of the loops is runCtx. *)

TickScheduler(n) ==
    /\ running[n]
    /\ \E due \in SUBSET rows : GetDueScheduled(due)
    /\ UNCHANGED engineVars
    /\ othersUnchanged

CoordinatorBusy(n) == orphans[n] # {} \/ \E tx \in open : tx.node = n /\ tx.by = "coordinator"

\* coordinatorTick: take the list of orphans ...
OrphanScan(n) ==
    /\ running[n]
    /\ ~CoordinatorBusy(n)
    /\ GetOrphanedJobs # {}
    /\ orphans' = [orphans EXCEPT ![n] = GetOrphanedJobs]
    /\ UNCHANGED <<engineVars, storeVars, open, apiOps, mishaps>>

\* ... and requeue one after another.
OrphanCheck(n) ==
    /\ running[n]
    /\ ~\E tx \in open : tx.node = n /\ tx.by = "coordinator"
    /\ \E j \in orphans[n] :
          /\ orphans' = [orphans EXCEPT ![n] = @ \ {j}]
          /\ open' = IF Check(j)
                       THEN open \cup {[node |-> n, by |-> "coordinator", op |-> "requeue", job |-> j]}
                       ELSE open
    /\ UNCHANGED <<engineVars, storeVars, apiOps, mishaps>>

\* The writing half of a transaction, and its commit.
Write(tx) ==
    /\ IF tx.op = "requeue" THEN WriteRequeue(tx.job) ELSE WriteDelete(tx.job)
    /\ open' = open \ {tx}
    /\ UNCHANGED <<engineVars, orphans, apiOps, mishaps>>

\* The orphan cutoff (5m) is long beside the heartbeat interval (60s): with
\* Punctual heartbeats the progress of a job that a worker holds stays fresh.
Held(j) == \E w \in Workers : job[w] = j

Stale(j) ==
    /\ Punctual => ~Held(j)
    /\ BecomeStale(j)
    /\ UNCHANGED engineVars
    /\ othersUnchanged

\* The retention (hours) is long beside the two calls of a finalizing worker.
CleanupTick(n) ==
    /\ "cleanup" \in Ops
    /\ running[n]
    /\ \E expired \in SUBSET {j \in Jobs : ~Held(j)} : RemoveExpired(expired)
    /\ UNCHANGED engineVars
    /\ othersUnchanged

-----------------------------------------------------------------------------
(* REST handlers *)

Request(n, op) ==
    /\ op \in Ops
    /\ running[n]
    /\ apiOps < MaxApiOps
    /\ apiOps' = apiOps + 1

\* Bound on the IDs: where continuations occur, clients leave one for a child.
IdForClient(j) == "continue" \in Ops => \E child \in Jobs \ {j} : state[child] = "Unborn"

handleEnqueue(n, j) ==
    /\ running[n]
    /\ IdForClient(j)
    /\ Enqueue(j)
    /\ UNCHANGED engineVars
    /\ othersUnchanged

handleSchedule(n, j) ==
    /\ "schedule" \in Ops
    /\ running[n]
    /\ IdForClient(j)
    /\ AddScheduled(j)
    /\ UNCHANGED engineVars
    /\ othersUnchanged

\* handleRequeue and handleDelete up to the state check.
Begin(n, op, j) ==
    /\ Request(n, op)
    /\ Check(j)
    /\ open' = open \cup {[node |-> n, by |-> "api", op |-> op, job |-> j]}
    /\ UNCHANGED <<engineVars, storeVars, orphans, mishaps>>

handleCancel(n, j) ==
    /\ Request(n, "cancel")
    /\ CancelJob(n, j)
    /\ UNCHANGED <<storeVars, orphans, open, mishaps>>

handleContinue(n, j, c) ==
    /\ Request(n, "continue")
    /\ AddContinuation(j, c)
    /\ UNCHANGED <<engineVars, orphans, open, mishaps>>

-----------------------------------------------------------------------------
(* Mishaps *)

Timeout(w) ==
    /\ Mishap("timeout")
    /\ JobTimeout(w)
    /\ UNCHANGED storeVars

\* The connection breaks under a call: nothing has been committed ...
CallFails(w) ==
    /\ Mishap("fault")
    /\ \/ pc[w] = "load" /\ AbandonTicket(w)
       \/ /\ pc[w] \in {"setResult", "applySucceeded", "applyFailed", "applyDead", "scheduleRetry"}
          /\ Advance(w, "return")
    /\ UNCHANGED storeVars

\* ... or it has, and only the acknowledgement is lost.
AckLost(w) ==
    /\ Mishap("fault")
    /\ ctx[w] = "live"
    /\ \/ /\ pc[w] = "dequeue" /\ running[NodeOf[w]]
          /\ \E j \in Jobs : Dequeue(elig[w], j)
          /\ NoTicket(w)
       \/ /\ \/ pc[w] = "setResult" /\ SetJobResult(job[w])
             \/ pc[w] = "applySucceeded" /\ ApplyState(job[w], "Processing", "Succeeded")
             \/ pc[w] = "applyFailed" /\ ApplyState(job[w], "Processing", "Failed")
             \/ pc[w] = "applyDead" /\ ApplyState(job[w], "Failed", "Dead")
             \/ pc[w] = "scheduleRetry" /\ ScheduleRetry(job[w])
          /\ Advance(w, "return")

\* A dial for a new connection times out under Dequeue.
DialTimesOut(w) ==
    /\ Mishap("dial")
    /\ pc[w] = "dequeue"
    /\ LoopEnds(w)
    /\ UNCHANGED storeVars

\* The process ends, killed or told to: what becomes of the coordinator's and
\* the handlers' transactions.  The server rolls back those of a dead process;
\* Stop comes after the API has been shut down and takes runCtx from the
\* coordinator.
EndsNode(n, kind, aborted) ==
    /\ kind \in Ops
    /\ mishaps < MaxMishaps
    /\ mishaps' = mishaps + 1
    /\ orphans' = [orphans EXCEPT ![n] = {}]
    /\ open' = {tx \in open : ~(tx.node = n /\ tx.by \in aborted)}
    /\ UNCHANGED <<storeVars, apiOps>>

Crash(n) ==
    /\ running[n]
    /\ CrashEngine(n)
    /\ EndsNode(n, "crash", {"api", "coordinator"})

Stop(n) ==
    /\ StopEngine(n)
    /\ EndsNode(n, "stop", {"coordinator"})

\* A new process takes over once the old one is gone.
Restart(n) ==
    /\ StartEngine(n)
    /\ open' = {tx \in open : tx.node # n}
    /\ UNCHANGED <<storeVars, orphans, apiOps, mishaps>>

-----------------------------------------------------------------------------

Next ==
    \/ \E w \in Workers : WorkerLocal(w) \/ WorkerStore(w) \/ Heartbeat(w)
                            \/ Timeout(w) \/ CallFails(w) \/ AckLost(w) \/ DialTimesOut(w)
    \/ \E n \in Nodes : TickScheduler(n) \/ OrphanScan(n) \/ OrphanCheck(n)
                          \/ CleanupTick(n) \/ Crash(n) \/ Stop(n) \/ Restart(n)
    \/ \E tx \in open : Write(tx)
    \/ \E j \in Jobs : Stale(j)
    \/ \E n \in Nodes, j \in Jobs :
          \/ handleEnqueue(n, j) \/ handleSchedule(n, j) \/ handleCancel(n, j)
          \/ \E op \in {"requeue", "delete"} : Begin(n, op, j)
          \/ \E c \in Conditions : handleContinue(n, j, c)

Spec == Init /\ [][Next]_vars

-----------------------------------------------------------------------------

TypeOK ==
    /\ EngineTypeOK
    /\ StoreTypeOK
    /\ orphans \in [Nodes -> SUBSET Jobs]
    /\ open \subseteq Tx
    /\ apiOps \in 0..MaxApiOps
    /\ mishaps \in 0..MaxMishaps

\* Whatever transactions race, a job that still has to run can be found by the
\* query that is to find it: a Scheduled job has its scheduled_jobs row, a
\* Processing one a progress_at, and no row outlives its job.
Findable ==
    \A j \in Jobs :
        /\ state[j] = "Scheduled" => j \in rows
        /\ state[j] = "Processing" => progress[j] # "null"
        /\ ~Exists(j) => j \notin rows

\* A Failed job is in the hands of the worker that will retry or bury it; no
\* loop ever looks at Failed jobs.
FailedOwned ==
    \A j \in Jobs : state[j] = "Failed" =>
        \E w \in Workers : job[w] = j /\ pc[w] \in {"applyDead", "scheduleRetry"}

\* No two workers have the same job between fetching and finalizing it: orphan
\* recovery takes a job only from a run that is over.
SingleRunner ==
    \A v, w \in Workers :
        v # w /\ job[v] # NoJob /\ job[v] = job[w] =>
            \E u \in {v, w} : pc[u] \in {"fire", "firing", "return"}

\* A job fails at most as often as MaxFailures grants, however often the process
\* that runs it crashes, times out or loses its connection; a retry is only
\* scheduled while there is a failure left.
RetryBudget ==
    \A j \in Jobs :
        /\ failures[j] <= MaxFailures(j)
        /\ state[j] = "Scheduled" => failures[j] < MaxFailures(j)

\* A job that has succeeded or died is never queued or run again.
IrreversibleStable ==
    [][\A j \in Jobs : state[j] \in IrreversibleStates => state'[j] \in {state[j], "Removed"}]_vars

-----------------------------------------------------------------------------
(* Fairness: goroutines are scheduled, a handler returns, tickers fire, due *)
(* and cutoff times come, and a dead process is started again.              *)

Fairness ==
    /\ \A w \in Workers : WF_vars(WorkerLocal(w) \/ WorkerStore(w))
    /\ \A n \in Nodes : /\ WF_vars(TickScheduler(n))
                         /\ WF_vars(OrphanScan(n))
                         /\ WF_vars(OrphanCheck(n))
                         /\ WF_vars(Restart(n))
    /\ WF_vars(\E tx \in open : Write(tx))
    /\ \A j \in Jobs : WF_vars(Stale(j))

FairSpec == Spec /\ Fairness

\* Every worker goroutine of a process that runs has ended (see DialTimesOut).
Deserted(n) == running[n] /\ \A w \in Workers : NodeOf[w] = n => pc[w] = "stopped"

\* Once crashes, faults and requests are over, every accepted job comes to rest
\* in a state that no loop acts on, with nothing left to run, unless dials that
\* timed out have taken all workers of a process.
EventuallySettled ==
    \/ \E n \in Nodes : <>[]Deserted(n)
    \/ \A j \in Jobs :
          <>[](state[j] \in IrreversibleStates \cup {"Failed"} \cup Missing /\ j \notin rows)

\* A run that ended because its context was cancelled leaves the job Cancelled.
CancelledIsRecorded ==
    \A j \in Jobs :
        (\E w \in Workers : job[w] = j /\ pc[w] = "applyCancelled" /\ ctx[w] = "cancelled")
            ~> state[j] = "Cancelled"

\* What the documentation says of RetryMax: "0 = no retries, -1 = infinite".
RetryMaxAsDocumented ==
    \A j \in Jobs :
        /\ RetryMax[j] = 0 => failures[j] <= 1
        /\ RetryMax[j] = -1 => state[j] # "Dead"

\* And of a requeue by a client: it "resets the retry counter".
RequeueResets ==
    [][\A tx \in open :
          tx.by = "api" /\ tx.op = "requeue" /\ Write(tx) => failures'[tx.job] = 0]_vars

\* And of the worker loop, which goes on after a Dequeue that fails: a process
\* that runs has all its workers.
WorkersLast == \A w \in Workers : running[NodeOf[w]] => pc[w] # "stopped"

=============================================================================
