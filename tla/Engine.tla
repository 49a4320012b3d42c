-------------------------------- MODULE Engine --------------------------------
(***************************************************************************)
(* The process-local half of internal/engine: worker goroutines, the       *)
(* in-flight counters behind queue_limits, the cancel map and the run      *)
(* context.  Nothing here touches the storage backend; MemoryEngine and    *)
(* PgEngine join these fragments with a store.                             *)
(*                                                                         *)
(* A worker is a program counter over workerLoop and processTicket, cut    *)
(* at every storage call.  The local statements around a storage call are  *)
(* part of the same step.                                                  *)
(***************************************************************************)
EXTENDS JobDomain, FiniteSets

CONSTANTS
    Nodes,       \* gfire processes, one Engine each
    Workers,     \* worker goroutines
    Jobs,        \* job IDs
    Queues,      \* queue names
    NodeOf,      \* the engine a worker goroutine belongs to
    QueueOf,     \* Job.Queue, fixed when the job is created
    QueueLimit,  \* cfg.QueueLimits; 0 or less means unlimited
    RetryMax,    \* Job.RetryMax as submitted
    AttemptCap,  \* bound on recorded failures, see AttemptCount
    NoJob, NoWorker

ASSUME EngineAssumption ==
    /\ IsFiniteSet(Workers)
    /\ NodeOf \in [Workers -> Nodes]
    /\ QueueOf \in [Jobs -> Queues]
    /\ QueueLimit \in [Queues -> Int]
    /\ RetryMax \in [Jobs -> Int]
    /\ AttemptCap \in Nat \ {0}
    /\ \A j \in Jobs : effectiveRetryMax(RetryMax[j]) <= AttemptCap
    /\ NoJob \notin Jobs
    /\ NoWorker \notin Workers

VARIABLES
    pc,        \* where each worker is in workerLoop / processTicket
    job,       \* the job of the ticket a worker holds
    attempt,   \* local variable attempt of processTicket
    ctx,       \* jobCtx: live, or why it is done
    elig,      \* local variable queues of workerLoop
    terminal,  \* local variable terminal of processTicket
    todo,      \* continuation entries fireContinuations has yet to enqueue
    active,    \* Engine.active
    cancels,   \* Engine.cancels, as the worker whose jobCtx it cancels
    running    \* runCtx of the node is not cancelled

engineVars == <<pc, job, attempt, ctx, elig, terminal, todo, active, cancels, running>>

\* Control points.  From "run" on, the deferred calls of processTicket are
\* pending, so the worker is in flight until it has left "return".
InFlightPCs == {"run", "setResult", "applySucceeded", "applyCancelled", "applyFailed",
                "applyDead", "scheduleRetry", "fire", "firing", "return"}
PCs == InFlightPCs \cup {"idle", "dequeue", "load", "stopped"}

InFlight(w) == pc[w] \in InFlightPCs

EngineTypeOK ==
    /\ pc \in [Workers -> PCs]
    /\ job \in [Workers -> Jobs \cup {NoJob}]
    /\ attempt \in [Workers -> 0..AttemptCap]
    /\ ctx \in [Workers -> {"live", "cancelled", "expired", "stopped"}]
    /\ elig \in [Workers -> SUBSET Queues]
    /\ terminal \in [Workers -> JobStates \cup {""}]
    /\ todo \in [Workers -> SUBSET Conditions]
    /\ active \in [Nodes -> [Queues -> Nat]]
    /\ cancels \in [Nodes -> [Jobs -> Workers \cup {NoWorker}]]
    /\ running \in [Nodes -> BOOLEAN]

EngineInit ==
    /\ pc = [w \in Workers |-> "idle"]
    /\ job = [w \in Workers |-> NoJob]
    /\ attempt = [w \in Workers |-> 0]
    /\ ctx = [w \in Workers |-> "live"]
    /\ elig = [w \in Workers |-> {}]
    /\ terminal = [w \in Workers |-> ""]
    /\ todo = [w \in Workers |-> {}]
    /\ active = [n \in Nodes |-> [q \in Queues |-> 0]]
    /\ cancels = [n \in Nodes |-> [j \in Jobs |-> NoWorker]]
    /\ running = [n \in Nodes |-> TRUE]

Goto(w, label) == pc' = [pc EXCEPT ![w] = label]

-----------------------------------------------------------------------------
(* workerLoop *)

queuesUnderLimit(n) == {q \in Queues : QueueLimit[q] <= 0 \/ active[n][q] < QueueLimit[q]}

\* A pass of the loop finds a queue below its limit and calls Dequeue.  With
\* none the worker backs off and looks again, which changes nothing.
PickQueues(w) ==
    /\ pc[w] = "idle"
    /\ running[NodeOf[w]]
    /\ queuesUnderLimit(NodeOf[w]) # {}
    /\ elig' = [elig EXCEPT ![w] = queuesUnderLimit(NodeOf[w])]
    /\ Goto(w, "dequeue")
    /\ UNCHANGED <<job, attempt, ctx, terminal, todo, active, cancels, running>>

\* runCtx is done: the loop returns.
WorkerExit(w) ==
    /\ pc[w] = "idle"
    /\ ~running[NodeOf[w]]
    /\ Goto(w, "stopped")
    /\ UNCHANGED <<job, attempt, ctx, elig, terminal, todo, active, cancels, running>>

\* Dequeue returned a ticket.
GotTicket(w, j) ==
    /\ job' = [job EXCEPT ![w] = j]
    /\ elig' = [elig EXCEPT ![w] = {}]
    /\ Goto(w, "load")
    /\ UNCHANGED <<attempt, ctx, terminal, todo, active, cancels, running>>

\* Dequeue returned ErrQueueEmpty, an error that is logged, or the error of a
\* done runCtx, which ends the loop.
NoTicket(w) ==
    /\ elig' = [elig EXCEPT ![w] = {}]
    /\ Goto(w, IF running[NodeOf[w]] THEN "idle" ELSE "stopped")
    /\ UNCHANGED <<job, attempt, ctx, terminal, todo, active, cancels, running>>

\* Dequeue returned an error that Is context.DeadlineExceeded although runCtx is
\* alive, as a dial that timed out does: the loop returns, and the process goes
\* on with one worker less.
LoopEnds(w) ==
    /\ elig' = [elig EXCEPT ![w] = {}]
    /\ Goto(w, "stopped")
    /\ UNCHANGED <<job, attempt, ctx, terminal, todo, active, cancels, running>>

-----------------------------------------------------------------------------
(* processTicket *)

incActive(n, q) == active' = [active EXCEPT ![n][q] = @ + 1]

\* Faulty variants: the slot is given back twice without a floor, or never.
decActiveTwice(n, q) == active' = [active EXCEPT ![n][q] = @ - 2]
decActiveNever(n, q) == active' = active

decActive(n, q) == active' = [active EXCEPT ![n][q] = IF @ > 0 THEN @ - 1 ELSE @]
registerCancel(n, j, w) == cancels' = [cancels EXCEPT ![n][j] = w]

\* Faulty variant: the entry stays.
unregisterCancelNever(n, j) == cancels' = cancels

unregisterCancel(n, j) == cancels' = [cancels EXCEPT ![n][j] = NoWorker]

\* GetJob succeeded with n Failed states in the history: count the job as in
\* flight, derive jobCtx from runCtx, publish its cancel function, start the
\* heartbeat goroutine and enter the handler.
BeginRun(w, n) ==
    /\ attempt' = [attempt EXCEPT ![w] = n]
    /\ ctx' = [ctx EXCEPT ![w] = IF running[NodeOf[w]] THEN "live" ELSE "stopped"]
    /\ incActive(NodeOf[w], QueueOf[job[w]])
    /\ registerCancel(NodeOf[w], job[w], w)
    /\ Goto(w, "run")
    /\ UNCHANGED <<job, elig, terminal, todo, running>>

\* GetJob failed: processTicket returns before anything is deferred.
AbandonTicket(w) ==
    /\ job' = [job EXCEPT ![w] = NoJob]
    /\ Goto(w, "idle")
    /\ UNCHANGED <<attempt, ctx, elig, terminal, todo, active, cancels, running>>

\* The handler returns.  A done context may still lose the race with a handler
\* that has finished, so every outcome stays possible; a context error only
\* comes from a done context.  Success with empty output skips SetJobResult.
ExecOutcomes(w) ==
    {"setResult", "applySucceeded", "applyFailed"}
        \cup (IF ctx[w] = "live" THEN {} ELSE {"applyCancelled"})

Execute(w) ==
    /\ pc[w] = "run"
    /\ \E label \in ExecOutcomes(w) : Goto(w, label)
    /\ UNCHANGED <<job, attempt, ctx, elig, terminal, todo, active, cancels, running>>

\* Faulty variants: the failure just stored is not counted, or an exhausted job
\* is not buried.
AfterFailedOffByOne(w) ==
    IF attempt[w] >= effectiveRetryMax(RetryMax[job[w]]) THEN "applyDead" ELSE "scheduleRetry"

AfterFailedNotBuried(w) ==
    IF attempt[w] + 1 >= effectiveRetryMax(RetryMax[job[w]]) THEN "return" ELSE "scheduleRetry"

\* finalizeFailure after Processing -> Failed has been stored.
AfterFailed(w) ==
    IF attempt[w] + 1 >= effectiveRetryMax(RetryMax[job[w]]) THEN "applyDead" ELSE "scheduleRetry"

\* A worker moves on inside processTicket, keeping its locals.
Advance(w, label) ==
    /\ Goto(w, label)
    /\ UNCHANGED <<job, attempt, ctx, elig, terminal, todo, active, cancels, running>>

\* finalizeSuccess / finalizeFailure returned the terminal state s.
Finalized(w, s) ==
    /\ terminal' = [terminal EXCEPT ![w] = s]
    /\ Goto(w, "fire")
    /\ UNCHANGED <<job, attempt, ctx, elig, todo, active, cancels, running>>

\* fireContinuations read the entries of the parent.
LoadContinuations(w, entries) ==
    /\ todo' = [todo EXCEPT ![w] = {c \in entries : continuationMatches(terminal[w], c)}]
    /\ Goto(w, "firing")
    /\ UNCHANGED <<job, attempt, ctx, elig, terminal, active, cancels, running>>

\* One child of fireContinuations has been enqueued.
FiredContinuation(w, c) ==
    /\ todo' = [todo EXCEPT ![w] = @ \ {c}]
    /\ UNCHANGED <<pc, job, attempt, ctx, elig, terminal, active, cancels, running>>

\* The deferred calls of processTicket, and back to the top of workerLoop.
Return(w) ==
    /\ \/ pc[w] = "return"
       \/ pc[w] = "firing" /\ todo[w] = {}
    /\ unregisterCancel(NodeOf[w], job[w])
    /\ decActive(NodeOf[w], QueueOf[job[w]])
    /\ job' = [job EXCEPT ![w] = NoJob]
    /\ attempt' = [attempt EXCEPT ![w] = 0]
    /\ ctx' = [ctx EXCEPT ![w] = "live"]
    /\ terminal' = [terminal EXCEPT ![w] = ""]
    /\ Goto(w, "idle")
    /\ UNCHANGED <<elig, todo, running>>

-----------------------------------------------------------------------------
(* Context events *)

\* WithTimeout fires.
JobTimeout(w) ==
    /\ InFlight(w)
    /\ ctx[w] = "live"
    /\ ctx' = [ctx EXCEPT ![w] = "expired"]
    /\ UNCHANGED <<pc, job, attempt, elig, terminal, todo, active, cancels, running>>

\* CancelJob: without an entry the API answers ErrNotProcessing.
CancelJob(n, j) ==
    /\ cancels[n][j] # NoWorker
    /\ LET w == cancels[n][j] IN
           ctx' = [ctx EXCEPT ![w] = IF @ = "live" THEN "cancelled" ELSE @]
    /\ UNCHANGED <<pc, job, attempt, elig, terminal, todo, active, cancels, running>>

\* Engine.Stop cancels runCtx, and with it every jobCtx derived from it.
StopEngine(n) ==
    /\ running[n]
    /\ running' = [running EXCEPT ![n] = FALSE]
    /\ ctx' = [w \in Workers |->
                 IF NodeOf[w] = n /\ InFlight(w) /\ ctx[w] = "live" THEN "stopped" ELSE ctx[w]]
    /\ UNCHANGED <<pc, job, attempt, elig, terminal, todo, active, cancels>>

\* The process of node n dies: goroutines, counters and contexts are gone.
CrashEngine(n) ==
    LET Dies(w) == NodeOf[w] = n IN
    /\ pc' = [w \in Workers |-> IF Dies(w) THEN "stopped" ELSE pc[w]]
    /\ job' = [w \in Workers |-> IF Dies(w) THEN NoJob ELSE job[w]]
    /\ attempt' = [w \in Workers |-> IF Dies(w) THEN 0 ELSE attempt[w]]
    /\ ctx' = [w \in Workers |-> IF Dies(w) THEN "live" ELSE ctx[w]]
    /\ elig' = [w \in Workers |-> IF Dies(w) THEN {} ELSE elig[w]]
    /\ terminal' = [w \in Workers |-> IF Dies(w) THEN "" ELSE terminal[w]]
    /\ todo' = [w \in Workers |-> IF Dies(w) THEN {} ELSE todo[w]]
    /\ active' = [active EXCEPT ![n] = [q \in Queues |-> 0]]
    /\ cancels' = [cancels EXCEPT ![n] = [j \in Jobs |-> NoWorker]]
    /\ running' = [running EXCEPT ![n] = FALSE]

\* A new process on node n, after the old one has ended: New and Start.
StartEngine(n) ==
    /\ ~running[n]
    /\ \A w \in Workers : NodeOf[w] = n => pc[w] = "stopped"
    /\ running' = [running EXCEPT ![n] = TRUE]
    /\ pc' = [w \in Workers |-> IF NodeOf[w] = n THEN "idle" ELSE pc[w]]
    /\ UNCHANGED <<job, attempt, ctx, elig, terminal, todo, active, cancels>>

-----------------------------------------------------------------------------
(* What the process-local half promises on every backend *)

\* The failures a job may have: RetryMax of them, ten where a client left it out
\* or sent 0, and the one of the first run for a negative value.
MaxFailures(j) ==
    IF RetryMax[j] > 0 THEN RetryMax[j] ELSE IF RetryMax[j] = 0 THEN 10 ELSE 1

\* Engine.active counts exactly the workers between incActive and decActive,
\* so the limit check and WaitUntilIdle never run on a leaked slot.
ActiveAccurate ==
    \A n \in Nodes, q \in Queues :
        active[n][q] =
            Cardinality({w \in Workers : NodeOf[w] = n /\ InFlight(w) /\ QueueOf[job[w]] = q})

\* An entry of the cancel map belongs to a run of that very job that is still in
\* flight on that node: none outlives its run, so that a cancel is accepted only
\* for a job that is being run here.
CancelHitsItsJob ==
    \A n \in Nodes, j \in Jobs :
        cancels[n][j] # NoWorker =>
            LET w == cancels[n][j] IN NodeOf[w] = n /\ InFlight(w) /\ job[w] = j

=============================================================================
