----------------------------- MODULE RedisEngine -----------------------------
(***************************************************************************)
(* gfire processes on one Redis.  An operation of several commands is a    *)
(* call in `open` between the command that reads, or pops, and the one     *)
(* that writes; worker, coordinator, sweep and REST calls interleave       *)
(* freely in between.  go-redis refuses a command for a done context, but  *)
(* a BRPOP that is already blocking goes on until its timeout.             *)
(***************************************************************************)
EXTENDS RedisStore

CONSTANTS
    Ops,         \* the REST operations clients use, and the mishaps that occur
    MaxEvents,   \* bound on requeue, cancel and delete requests, crashes,
                 \* stops, lost connections and timeouts, all told
    Punctual     \* heartbeats keep their interval well below the orphan cutoff

ASSUME RedisEngineAssumption ==
    /\ MaxEvents \in Nat
    /\ Punctual \in BOOLEAN
    /\ Workers \cap {"api", "coordinator", "sweep"} = {}

VARIABLES
    open,       \* calls between two of their commands
    scan,       \* GetOrphanedJobs: members not yet looked at, per node
    orphans,    \* coordinatorTick: orphans still to be requeued, per node
    promoting,  \* GetDueScheduled: removed members not yet enqueued, per node
    hit,        \* jobs that a mishap has taken from the call that carried them
    events      \* requests and mishaps so far

loopVars == <<scan, orphans, promoting>>
vars == <<engineVars, storeVars, open, loopVars, hit, events>>

\* by: the worker whose call it is, or what else makes calls on the node.
\* arg: the queue that Requeue pushes to, or the set that the sweep reads.
Calls == [node : Nodes, by : Workers \cup {"api", "coordinator", "sweep"},
          op : {"claim", "retry", "requeue", "delete", "erase"}, job : Jobs,
          arg : Queues \cup Indexes \cup {""}]

Call(n, by, op, j, arg) == [node |-> n, by |-> by, op |-> op, job |-> j, arg |-> arg]

Busy(n, by) == \E c \in open : c.node = n /\ c.by = by
Opens(c) == open' = open \cup {c}
Closes(c) == open' = open \ {c}

Init ==
    /\ EngineInit
    /\ StoreInit
    /\ open = {}
    /\ scan = [n \in Nodes |-> {}]
    /\ orphans = [n \in Nodes |-> {}]
    /\ promoting = [n \in Nodes |-> {}]
    /\ hit = {}
    /\ events = 0

othersUnchanged == UNCHANGED <<open, loopVars, hit, events>>

-----------------------------------------------------------------------------
(* Workers *)

WorkerLocal(w) ==
    /\ PickQueues(w) \/ WorkerExit(w) \/ Execute(w) \/ Return(w)
    /\ UNCHANGED storeVars
    /\ othersUnchanged

\* Dequeue: BRPOP answers, even if runCtx has ended while it was blocking ...
Pop(w) ==
    /\ pc[w] = "dequeue"
    /\ ~Busy(NodeOf[w], w)
    /\ \E j \in Jobs : BRPop(elig[w], j) /\ Opens(Call(NodeOf[w], w, "claim", j, ""))
    /\ UNCHANGED <<engineVars, loopVars, hit, events>>

\* ... or finds nothing, or runCtx is done before it is sent.
DequeueEmpty(w) ==
    /\ pc[w] = "dequeue"
    /\ ~Busy(NodeOf[w], w)
    /\ running[NodeOf[w]] => \A q \in elig[w] : queues[q] = <<>>
    /\ NoTicket(w)
    /\ UNCHANGED storeVars
    /\ othersUnchanged

\* The script after BRPOP: the ticket, another round for an ID without a hash,
\* or, with runCtx done, an error that leaves the ID in no list at all.
Claim(c) ==
    /\ c.op = "claim"
    /\ IF ~running[c.node]
         THEN NoTicket(c.by) /\ UNCHANGED storeVars /\ hit' = hit \cup {c.job}
       ELSE IF Exists(c.job)
         THEN finalizeDequeue(c.job) /\ GotTicket(c.by, c.job) /\ UNCHANGED hit
       ELSE UNCHANGED <<engineVars, storeVars, hit>>
    /\ Closes(c)
    /\ UNCHANGED <<loopVars, events>>

\* GetJob with a context of its own; a hash without the field id is an error.
LoadJob(w) ==
    /\ pc[w] = "load"
    /\ IF job[w] \in body THEN BeginRun(w, failures[job[w]]) ELSE AbandonTicket(w)
    /\ UNCHANGED storeVars
    /\ othersUnchanged

Heartbeat(w) ==
    /\ InFlight(w)
    /\ ctx[w] = "live"
    /\ HeartbeatJob(job[w])
    /\ UNCHANGED engineVars
    /\ othersUnchanged

\* A Failed job whose worker gives up is in nobody's hands.
Finalizing(w) == pc[w] \in {"applyDead", "scheduleRetry"} /\ state[job[w]] = "Failed"
Strands(w) == hit' = IF Finalizing(w) THEN hit \cup {job[w]} ELSE hit

\* The call fails: processTicket logs it and returns.
Refused(w) ==
    /\ Advance(w, "return")
    /\ UNCHANGED storeVars
    /\ IF ctx[w] = "live" THEN UNCHANGED hit ELSE Strands(w)

SetResult(w) ==
    /\ pc[w] = "setResult"
    /\ IF ctx[w] = "live" /\ Exists(job[w])
         THEN SetJobResult(job[w]) /\ Advance(w, "applySucceeded") /\ UNCHANGED hit
         ELSE Refused(w)
    /\ UNCHANGED <<open, loopVars, events>>

\* ApplyState to a state that ends processTicket.
FinishAs(w, label, expected, new) ==
    /\ pc[w] = label
    /\ IF ctx[w] = "live" /\ state[job[w]] = expected
         THEN ApplyState(job[w], expected, new) /\ Finalized(w, new) /\ UNCHANGED hit
         ELSE Refused(w)
    /\ UNCHANGED <<open, loopVars, events>>

ApplySucceeded(w) == FinishAs(w, "applySucceeded", "Processing", "Succeeded")
ApplyCancelled(w) == FinishAs(w, "applyCancelled", "Processing", "Cancelled")
ApplyDead(w) == FinishAs(w, "applyDead", "Failed", "Dead")

ApplyFailed(w) ==
    /\ pc[w] = "applyFailed"
    /\ IF ctx[w] = "live" /\ state[job[w]] = "Processing"
         THEN ApplyState(job[w], "Processing", "Failed") /\ Advance(w, AfterFailed(w)) /\ UNCHANGED hit
         ELSE Refused(w)
    /\ UNCHANGED <<open, loopVars, events>>

\* ScheduleRetry: read the state ...
RetryCheck(w) ==
    /\ pc[w] = "scheduleRetry"
    /\ ~Busy(NodeOf[w], w)
    /\ IF ctx[w] = "live" /\ CheckRetry(job[w])
         THEN /\ Opens(Call(NodeOf[w], w, "retry", job[w], ""))
              /\ UNCHANGED <<engineVars, storeVars, hit>>
         ELSE Refused(w) /\ UNCHANGED open
    /\ UNCHANGED <<loopVars, events>>

\* ... and write, whatever it is by now.
Retry(c) ==
    /\ c.op = "retry"
    /\ IF ctx[c.by] = "live"
         THEN WriteRetry(c.job) /\ Advance(c.by, "return") /\ UNCHANGED hit
         ELSE Refused(c.by)
    /\ Closes(c)
    /\ UNCHANGED <<loopVars, events>>

\* fireContinuations: the clients of this module add no continuations.
FireContinuations(w) ==
    /\ pc[w] = "fire"
    /\ LoadContinuations(w, {})
    /\ UNCHANGED storeVars
    /\ othersUnchanged

WorkerStore(w) ==
    \/ Pop(w) \/ DequeueEmpty(w) \/ LoadJob(w) \/ SetResult(w)
    \/ ApplySucceeded(w) \/ ApplyCancelled(w) \/ ApplyDead(w) \/ ApplyFailed(w)
    \/ RetryCheck(w) \/ FireContinuations(w)
    \/ \E c \in open : c.by = w /\ (Claim(c) \/ Retry(c))

-----------------------------------------------------------------------------
(* Background loops.  The context of the loops is runCtx. *)

\* GetDueScheduled: take the due members ...
TickScheduler(n, due) ==
    /\ running[n]
    /\ promoting[n] = {}
    /\ promoteScheduled(due)
    /\ promoting' = [promoting EXCEPT ![n] = due]
    /\ UNCHANGED <<engineVars, open, scan, orphans, hit, events>>

\* ... and enqueue one after another.
Promote(n) ==
    /\ running[n]
    /\ \E j \in promoting[n] :
          /\ PromoteJob(j)
          /\ promoting' = [promoting EXCEPT ![n] = @ \ {j}]
    /\ UNCHANGED <<engineVars, open, scan, orphans, hit, events>>

\* coordinatorTick: list the Processing set ...
ScanIndex(n) ==
    /\ running[n]
    /\ scan[n] = {} /\ orphans[n] = {} /\ ~Busy(n, "coordinator")
    /\ index["Processing"] # {}
    /\ scan' = [scan EXCEPT ![n] = index["Processing"]]
    /\ UNCHANGED <<engineVars, storeVars, open, orphans, promoting, hit, events>>

\* ... look at the progress of each member, which may no longer be one ...
Scanned(n, j, orphaned) ==
    /\ scan' = [scan EXCEPT ![n] = @ \ {j}]
    /\ orphans' = IF orphaned THEN [orphans EXCEPT ![n] = @ \cup {j}] ELSE orphans
    /\ UNCHANGED <<engineVars, storeVars, open, promoting, hit>>

ScanJob(n) ==
    /\ running[n]
    /\ \E j \in scan[n] : Scanned(n, j, LooksOrphaned(j))
    /\ UNCHANGED events

\* ... and requeue the orphans, one after another.
OrphanCheck(n) ==
    /\ running[n]
    /\ scan[n] = {} /\ ~Busy(n, "coordinator")
    /\ \E j \in orphans[n] :
          /\ orphans' = [orphans EXCEPT ![n] = @ \ {j}]
          /\ IF Check(j) THEN Opens(Call(n, "coordinator", "requeue", j, QueueField(j)))
                         ELSE UNCHANGED open
    /\ UNCHANGED <<engineVars, storeVars, scan, promoting, hit, events>>

\* RemoveExpired: a member whose updated_at is before the cutoff.  The retention
\* (hours) is long beside a run.
Held(j) == \E w \in Workers : job[w] = j

SweepCheck(n) ==
    /\ "cleanup" \in Ops
    /\ running[n]
    /\ ~Busy(n, "sweep")
    /\ \E s \in Indexes \ {"Processing"} : \E j \in index[s] :
          Exists(j) /\ ~Held(j) /\ Opens(Call(n, "sweep", "erase", j, s))
    /\ UNCHANGED <<engineVars, storeVars, loopVars, hit, events>>

\* The pipeline that ends a call of a REST handler, the coordinator or the
\* sweep.  A job that is requeued is carried again.
Write(c) ==
    /\ \/ c.op = "requeue" /\ WriteRequeue(c.job, c.arg) /\ hit' = hit \ {c.job}
       \/ c.op = "delete" /\ WriteDelete(c.job) /\ UNCHANGED hit
       \/ c.op = "erase" /\ deleteJob(c.job, c.arg) /\ UNCHANGED hit
    /\ Closes(c)
    /\ UNCHANGED <<engineVars, loopVars, events>>

WriteBy(n, by) == \E c \in open : c.node = n /\ c.by = by /\ Write(c)

Coordinator(n) == ScanIndex(n) \/ ScanJob(n) \/ OrphanCheck(n) \/ WriteBy(n, "coordinator")
Sweep(n) == SweepCheck(n) \/ WriteBy(n, "sweep")

\* With Punctual heartbeats the progress of a job that a worker holds stays fresh.
Stale(j) ==
    /\ Punctual => ~Held(j)
    /\ BecomeStale(j)
    /\ UNCHANGED engineVars
    /\ othersUnchanged

-----------------------------------------------------------------------------
(* REST handlers *)

Request(n, op) ==
    /\ op \in Ops
    /\ running[n]
    /\ events < MaxEvents
    /\ events' = events + 1

handleEnqueue(n, j) ==
    /\ running[n]
    /\ Enqueue(j)
    /\ UNCHANGED engineVars
    /\ othersUnchanged

handleSchedule(n, j) ==
    /\ "schedule" \in Ops
    /\ running[n]
    /\ AddScheduled(j)
    /\ UNCHANGED engineVars
    /\ othersUnchanged

\* handleRequeue and handleDelete up to the state check.
Begin(n, op, j) ==
    /\ Request(n, op)
    /\ Check(j)
    /\ Opens(Call(n, "api", op, j, IF op = "requeue" THEN QueueField(j) ELSE ""))
    /\ UNCHANGED <<engineVars, storeVars, loopVars, hit>>

handleCancel(n, j) ==
    /\ Request(n, "cancel")
    /\ CancelJob(n, j)
    /\ UNCHANGED <<storeVars, open, loopVars, hit>>

-----------------------------------------------------------------------------
(* Mishaps *)

Mishap(kind) ==
    /\ kind \in Ops
    /\ events < MaxEvents
    /\ events' = events + 1

Timeout(w) ==
    /\ Mishap("timeout")
    /\ JobTimeout(w)
    /\ UNCHANGED <<storeVars, open, loopVars, hit>>

\* The connection breaks under a command: it has not been run ...
CallFails(w) ==
    /\ Mishap("fault")
    /\ \/ pc[w] = "load" /\ AbandonTicket(w) /\ UNCHANGED <<open, hit>>
       \/ /\ pc[w] \in {"setResult", "applySucceeded", "applyFailed", "applyDead", "scheduleRetry"}
          /\ Advance(w, "return")
          /\ Strands(w)
          /\ open' = {c \in open : c.by # w}
       \/ \E c \in open : c.by = w /\ c.op = "claim" /\ Closes(c) /\ NoTicket(w)
                            /\ hit' = hit \cup {c.job}
    /\ UNCHANGED <<storeVars, loopVars>>

\* ... or it has, and only the answer is lost.
AckLost(w) ==
    /\ Mishap("fault")
    /\ \/ /\ pc[w] = "dequeue" /\ ~Busy(NodeOf[w], w)
          /\ \E j \in Jobs : BRPop(elig[w], j) /\ hit' = hit \cup {j}
          /\ NoTicket(w) /\ UNCHANGED open
       \/ \E c \in open : /\ c.by = w /\ c.op = "claim" /\ running[c.node] /\ Exists(c.job)
                          /\ finalizeDequeue(c.job) /\ NoTicket(w) /\ Closes(c) /\ UNCHANGED hit
       \/ \E c \in open : /\ c.by = w /\ c.op = "retry" /\ ctx[w] = "live"
                          /\ WriteRetry(c.job) /\ Advance(w, "return") /\ Closes(c) /\ UNCHANGED hit
       \/ /\ ctx[w] = "live"
          /\ \/ /\ \/ pc[w] = "applySucceeded" /\ ApplyState(job[w], "Processing", "Succeeded")
                   \/ pc[w] = "applyDead" /\ ApplyState(job[w], "Failed", "Dead")
                /\ UNCHANGED hit
             \/ /\ pc[w] = "applyFailed" /\ ApplyState(job[w], "Processing", "Failed")
                /\ hit' = hit \cup {job[w]}
          /\ Advance(w, "return") /\ UNCHANGED open
    /\ UNCHANGED loopVars

\* A dial for a new connection times out under BRPOP.
DialTimesOut(w) ==
    /\ Mishap("dial")
    /\ pc[w] = "dequeue"
    /\ ~Busy(NodeOf[w], w)
    /\ LoopEnds(w)
    /\ UNCHANGED <<storeVars, open, loopVars, hit>>

\* GetOrphanedJobs takes a failed HGET for a missing progress_at.
ScanFails(n) ==
    /\ Mishap("fault")
    /\ \E j \in scan[n] : Scanned(n, j, TRUE)

\* GetDueScheduled returns at the first pipeline that fails, and leaves out the
\* jobs that it could not read.
PromoteFails(n) ==
    /\ Mishap("fault")
    /\ \E dropped \in {promoting[n]} \cup {{j} : j \in promoting[n]} :
          /\ dropped # {}
          /\ promoting' = [promoting EXCEPT ![n] = @ \ dropped]
          /\ hit' = hit \cup dropped
    /\ UNCHANGED <<engineVars, storeVars, open, scan, orphans>>

\* The loops of a process that ends, and the calls it has open: `aborted` are
\* those that are not finished.
EndsLoops(n, aborted) ==
    /\ scan' = [scan EXCEPT ![n] = {}]
    /\ orphans' = [orphans EXCEPT ![n] = {}]
    /\ promoting' = [promoting EXCEPT ![n] = {}]
    /\ open' = {c \in open : ~(c.node = n /\ c.by \in aborted)}

Crash(n) ==
    /\ Mishap("crash")
    /\ running[n]
    /\ CrashEngine(n)
    /\ EndsLoops(n, Workers \cup {"api", "coordinator", "sweep"})
    /\ hit' = hit \cup promoting[n]
                  \cup {c.job : c \in {d \in open : d.node = n /\ d.op = "claim"}}
                  \cup {job[w] : w \in {v \in Workers : NodeOf[v] = n /\ Finalizing(v)}}
    /\ UNCHANGED storeVars

\* Stop ends runCtx under the loops; workers meet it at their next command.
Stop(n) ==
    /\ Mishap("stop")
    /\ StopEngine(n)
    /\ EndsLoops(n, {"coordinator", "sweep"})
    /\ hit' = hit \cup promoting[n]
    /\ UNCHANGED storeVars

\* A new process takes over once the old one is gone.
Restart(n) ==
    /\ StartEngine(n)
    /\ open' = {c \in open : c.node # n}
    /\ UNCHANGED <<storeVars, loopVars, hit, events>>

-----------------------------------------------------------------------------

Next ==
    \/ \E w \in Workers : WorkerLocal(w) \/ WorkerStore(w) \/ Heartbeat(w)
                            \/ Timeout(w) \/ CallFails(w) \/ AckLost(w) \/ DialTimesOut(w)
    \/ \E n \in Nodes, due \in SUBSET scheduled : TickScheduler(n, due)
    \/ \E n \in Nodes : Promote(n) \/ Coordinator(n) \/ Sweep(n) \/ WriteBy(n, "api")
                          \/ ScanFails(n) \/ PromoteFails(n) \/ Crash(n) \/ Stop(n) \/ Restart(n)
    \/ \E j \in Jobs : Stale(j)
    \/ \E n \in Nodes, j \in Jobs :
          \/ handleEnqueue(n, j) \/ handleSchedule(n, j) \/ handleCancel(n, j)
          \/ \E op \in {"requeue", "delete"} : Begin(n, op, j)

Spec == Init /\ [][Next]_vars

-----------------------------------------------------------------------------

TypeOK ==
    /\ EngineTypeOK
    /\ StoreTypeOK
    /\ open \subseteq Calls
    /\ scan \in [Nodes -> SUBSET Jobs]
    /\ orphans \in [Nodes -> SUBSET Jobs]
    /\ promoting \in [Nodes -> SUBSET Jobs]
    /\ hit \subseteq Jobs
    /\ events \in 0..MaxEvents

Queued(j) == \E q \in Queues : j \in Range(queues[q])

\* Who brings a job that exists and still has to run to its next state.  What the
\* sweep may erase is the matter of SweepSparesLive.
Carried(j) ==
    CASE state[j] = "Enqueued" -> Queued(j) \/ \E c \in open : c.op = "claim" /\ c.job = j
      [] state[j] = "Scheduled" -> j \in scheduled \/ \E n \in Nodes : j \in promoting[n]
      [] state[j] = "Processing" -> j \in index["Processing"]
      [] state[j] = "Failed" -> \E w \in Workers : job[w] = j /\ pc[w] \in {"applyDead", "scheduleRetry"}
      [] OTHER -> TRUE

\* However the commands of workers, loops and requests interleave, a job that
\* exists and still has to run is in the list, the sorted set, the index or the
\* hands of the call that will find it; only a mishap under the very call that
\* carries a job can drop it.
NothingLost == \A j \in Jobs : Carried(j) \/ j \in hit

\* RemoveExpired goes by the sets of Succeeded and Failed jobs, which not every
\* pipeline keeps up to date.  Still it erases a job that has not ended only if
\* the job had been requeued, or was stranded in Failed by a mishap.
SweepSparesLive ==
    [][\A j \in Jobs : Exists(j) /\ state'[j] = "Removed" =>
          state[j] \in IrreversibleStates \/ j \in hit \cup requeued]_vars

\* What the documentation says of a crash and of a rolling update: jobs are
\* "never lost", "zero job loss".
NeverLost == \A j \in Jobs : Carried(j)

\* What the storage interface says of RemoveExpired: it "deletes all jobs with
\* terminal states".
OnlyTerminalErased ==
    [][\A j \in Jobs : Exists(j) /\ state'[j] = "Removed" => state[j] \in ExpirableStates]_vars

=============================================================================
