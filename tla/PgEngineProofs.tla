--------------------------- MODULE PgEngineProofs ---------------------------
(***************************************************************************)
(* Proofs about PgEngine for every set of nodes, workers, jobs and queues  *)
(* and every number of requests and mishaps.                               *)
(***************************************************************************)
EXTENDS PgEngine, EngineProofs, TLAPS, FiniteSetTheorems

-----------------------------------------------------------------------------
(* Every step is one step of the engine beside one transaction. *)

\* What a step may do to the tables.
StoreStep ==
    \/ UNCHANGED storeVars
    \/ \E j \in Jobs :
          \/ Enqueue(j) \/ AddScheduled(j) \/ ScheduleRetry(j)
          \/ HeartbeatJob(j) \/ BecomeStale(j) \/ WriteRequeue(j) \/ WriteDelete(j)
          \/ \E qs \in SUBSET Queues : Dequeue(qs, j)
          \/ \E new \in {"Succeeded", "Failed", "Cancelled"} : ApplyState(j, "Processing", new)
          \/ ApplyState(j, "Failed", "Dead")
          \/ \E c \in Conditions : AddContinuation(j, c)
    \/ \E due \in SUBSET rows : GetDueScheduled(due)
    \/ \E expired \in SUBSET Jobs : RemoveExpired(expired)

\* The coordinator's lists, the open transactions and the bounds.
OthersTypeOK ==
    /\ orphans \in [Nodes -> SUBSET Jobs]
    /\ open \subseteq Tx
    /\ apiOps \in 0..MaxApiOps
    /\ mishaps \in 0..MaxMishaps

\* The finalizing calls of a worker, which all have the same shape.
LEMMA FinishDecomposes ==
    ASSUME EngineTypeOK, HoldsJob, NEW w \in Workers,
           ApplySucceeded(w) \/ ApplyCancelled(w) \/ ApplyDead(w) \/ ApplyFailed(w) \/ RetryLater(w)
    PROVE  EngineStep /\ StoreStep
  <1>0. pc[w] \notin {"idle", "dequeue", "stopped"} => job[w] \in Jobs
    BY DEF HoldsJob
  <1>1. {"Succeeded", "Cancelled", "Dead"} \subseteq JobStates
    BY DEF JobStates
  <1> USE DEF Refused, InFlight, InFlightPCs, EngineStep, StoreStep
  <1>2. CASE ApplySucceeded(w)
    BY <1>0, <1>1, <1>2 DEF ApplySucceeded, FinishAs
  <1>3. CASE ApplyCancelled(w)
    BY <1>0, <1>1, <1>3 DEF ApplyCancelled, FinishAs
  <1>4. CASE ApplyDead(w)
    BY <1>0, <1>1, <1>4 DEF ApplyDead, FinishAs
  <1>5. CASE ApplyFailed(w)
    BY <1>0, <1>5 DEF ApplyFailed, AfterFailed
  <1>6. CASE RetryLater(w)
    BY <1>0, <1>6 DEF RetryLater
  <1> QED
    BY <1>2, <1>3, <1>4, <1>5, <1>6

\* A worker's step, with or without its mishaps.
LEMMA WorkerDecomposes ==
    ASSUME TypeOK, HoldsJob, NEW w \in Workers,
           \/ WorkerLocal(w) \/ WorkerStore(w) \/ Heartbeat(w)
           \/ Timeout(w) \/ CallFails(w) \/ AckLost(w) \/ DialTimesOut(w)
    PROVE  EngineStep /\ StoreStep /\ OthersTypeOK'
  <1>a. pc[w] \notin {"idle", "dequeue", "stopped"} => job[w] \in Jobs
    BY DEF HoldsJob
  <1>b. EngineTypeOK /\ OthersTypeOK /\ MaxMishaps \in Nat
    BY PgEngineAssumption DEF TypeOK, OthersTypeOK
  <1>c. elig[w] \in SUBSET Queues /\ todo[w] \in SUBSET Conditions
    BY <1>b DEF EngineTypeOK
  <1>1. othersUnchanged => OthersTypeOK'
    BY <1>b DEF othersUnchanged, OthersTypeOK
  <1>2. ASSUME NEW kind, Mishap(kind) PROVE OthersTypeOK'
    BY <1>b, <1>2 DEF Mishap, OthersTypeOK
  <1>3. CASE WorkerLocal(w)
    BY <1>1, <1>3 DEF WorkerLocal, EngineStep, StoreStep
  <1>4. CASE DequeueJob(w)
    BY <1>1, <1>4, <1>c DEF DequeueJob, EngineStep, StoreStep
  <1>5. CASE DequeueEmpty(w)
    BY <1>1, <1>5 DEF DequeueEmpty, EngineStep, StoreStep
  <1>6. CASE LoadJob(w)
    <2>1. failures[job[w]] \in 0..AttemptCap
      BY <1>6, <1>a DEF LoadJob, TypeOK, StoreTypeOK
    <2> QED
      BY <1>1, <1>6, <2>1 DEF LoadJob, EngineStep, StoreStep
  <1>7. CASE SetResult(w)
    BY <1>1, <1>7 DEF SetResult, SetJobResult, Refused, InFlight, InFlightPCs, EngineStep, StoreStep
  <1>8. CASE ApplySucceeded(w) \/ ApplyCancelled(w) \/ ApplyDead(w) \/ ApplyFailed(w) \/ RetryLater(w)
    <2>1. othersUnchanged
      BY <1>8 DEF ApplySucceeded, ApplyCancelled, ApplyDead, FinishAs, ApplyFailed, RetryLater
    <2> QED
      BY <1>1, <1>8, <1>b, <2>1, FinishDecomposes
  <1>9. CASE FireContinuations(w)
    <2>1. (IF Exists(job[w]) THEN continuations[job[w]] ELSE {}) \in SUBSET Conditions
      BY <1>9, <1>a DEF FireContinuations, TypeOK, StoreTypeOK
    <2> QED
      BY <1>1, <1>9, <2>1 DEF FireContinuations, InFlight, InFlightPCs, EngineStep, StoreStep
  <1>10. CASE EnqueueChild(w)
    BY <1>1, <1>10, <1>c DEF EnqueueChild, EngineStep, StoreStep
  <1>11. CASE Heartbeat(w)
    BY <1>1, <1>11, <1>a DEF Heartbeat, InFlight, InFlightPCs, EngineStep, StoreStep
  <1>12. CASE Timeout(w)
    BY <1>2, <1>12 DEF Timeout, EngineStep, StoreStep
  <1>13. CASE CallFails(w)
    BY <1>2, <1>13 DEF CallFails, InFlight, InFlightPCs, EngineStep, StoreStep
  <1>14. CASE AckLost(w)
    <2>1. OthersTypeOK'
      BY <1>2, <1>14 DEF AckLost
    <2>2. EngineStep
      BY <1>14 DEF AckLost, InFlight, InFlightPCs, EngineStep
    <2>3. CASE pc[w] = "dequeue" /\ \E j \in Jobs : Dequeue(elig[w], j)
      BY <1>c, <2>1, <2>2, <2>3 DEF StoreStep
    <2>4. CASE pc[w] = "setResult" /\ SetJobResult(job[w])
      BY <2>1, <2>2, <2>4 DEF SetJobResult, StoreStep
    <2>5. CASE \/ pc[w] = "applySucceeded" /\ ApplyState(job[w], "Processing", "Succeeded")
               \/ pc[w] = "applyFailed" /\ ApplyState(job[w], "Processing", "Failed")
               \/ pc[w] = "applyDead" /\ ApplyState(job[w], "Failed", "Dead")
               \/ pc[w] = "scheduleRetry" /\ ScheduleRetry(job[w])
      BY <1>a, <2>1, <2>2, <2>5 DEF StoreStep
    <2> QED
      BY <1>14, <2>1, <2>2, <2>3, <2>4, <2>5 DEF AckLost
  <1>15. CASE DialTimesOut(w)
    BY <1>2, <1>15 DEF DialTimesOut, EngineStep, StoreStep
  <1> QED
    BY <1>3, <1>4, <1>5, <1>6, <1>7, <1>8, <1>9, <1>10, <1>11, <1>12, <1>13, <1>14, <1>15 DEF WorkerStore

\* The steps of the loops, of the handlers and of the end of a process.
LEMMA NextDecomposes ==
    ASSUME TypeOK, HoldsJob, Next
    PROVE  EngineStep /\ StoreStep /\ OthersTypeOK'
  <1>a. OthersTypeOK /\ MaxMishaps \in Nat /\ MaxApiOps \in Nat /\ rows \in SUBSET Jobs
    BY PgEngineAssumption DEF TypeOK, StoreTypeOK, OthersTypeOK
  <1>b. othersUnchanged => OthersTypeOK'
    BY <1>a DEF othersUnchanged, OthersTypeOK
  <1>1. CASE \E w \in Workers : \/ WorkerLocal(w) \/ WorkerStore(w) \/ Heartbeat(w)
                                \/ Timeout(w) \/ CallFails(w) \/ AckLost(w) \/ DialTimesOut(w)
    BY <1>1, WorkerDecomposes
  <1>2. ASSUME NEW n \in Nodes, TickScheduler(n) \/ OrphanScan(n) \/ OrphanCheck(n) \/ CleanupTick(n)
        PROVE  EngineStep /\ StoreStep /\ OthersTypeOK'
    <2>1. CASE TickScheduler(n)
      BY <1>b, <2>1 DEF TickScheduler, EngineStep, StoreStep
    <2>2. CASE OrphanScan(n)
      BY <1>a, <2>2 DEF OrphanScan, GetOrphanedJobs, OthersTypeOK, EngineStep, StoreStep
    <2>3. CASE OrphanCheck(n)
      <3>1. ASSUME NEW j \in orphans[n]
            PROVE  [node |-> n, by |-> "coordinator", op |-> "requeue", job |-> j] \in Tx
        BY <1>a DEF Tx, OthersTypeOK
      <3>2. OthersTypeOK'
        BY <1>a, <2>3, <3>1 DEF OrphanCheck, OthersTypeOK
      <3> QED
        BY <2>3, <3>2 DEF OrphanCheck, EngineStep, StoreStep
    <2>4. CASE CleanupTick(n)
      BY <1>b, <2>4 DEF CleanupTick, EngineStep, StoreStep
    <2> QED
      BY <1>2, <2>1, <2>2, <2>3, <2>4
  <1>3. ASSUME NEW n \in Nodes, Crash(n) \/ Stop(n) \/ Restart(n)
        PROVE  EngineStep /\ StoreStep /\ OthersTypeOK'
    <2>1. EngineStep /\ StoreStep
      BY <1>3 DEF Crash, Stop, Restart, EndsNode, EngineStep, StoreStep
    <2>2. OthersTypeOK'
      BY <1>3, <1>a DEF Crash, Stop, Restart, EndsNode, OthersTypeOK
    <2> QED
      BY <2>1, <2>2
  <1>4. ASSUME NEW tx \in open, Write(tx)
        PROVE  EngineStep /\ StoreStep /\ OthersTypeOK'
    <2>1. tx.job \in Jobs
      BY <1>a DEF Tx, OthersTypeOK
    <2> QED
      BY <1>4, <1>a, <2>1 DEF Write, OthersTypeOK, EngineStep, StoreStep
  <1>5. CASE \E j \in Jobs : Stale(j)
    BY <1>5, <1>b DEF Stale, EngineStep, StoreStep
  <1>6. ASSUME NEW n \in Nodes, NEW j \in Jobs, handleEnqueue(n, j) \/ handleSchedule(n, j)
        PROVE  EngineStep /\ StoreStep /\ OthersTypeOK'
    BY <1>6, <1>b DEF handleEnqueue, handleSchedule, EngineStep, StoreStep
  <1>7. ASSUME NEW n \in Nodes, NEW j \in Jobs, handleCancel(n, j)
        PROVE  EngineStep /\ StoreStep /\ OthersTypeOK'
    BY <1>7, <1>a DEF handleCancel, Request, OthersTypeOK, EngineStep, StoreStep
  <1>8. ASSUME NEW n \in Nodes, NEW j \in Jobs, NEW c \in Conditions, handleContinue(n, j, c)
        PROVE  EngineStep /\ StoreStep /\ OthersTypeOK'
    BY <1>8, <1>a DEF handleContinue, Request, OthersTypeOK, EngineStep, StoreStep
  <1>9. ASSUME NEW n \in Nodes, NEW j \in Jobs, NEW op \in {"requeue", "delete"}, Begin(n, op, j)
        PROVE  EngineStep /\ StoreStep /\ OthersTypeOK'
    <2>1. [node |-> n, by |-> "api", op |-> op, job |-> j] \in Tx
      BY DEF Tx
    <2> QED
      BY <1>9, <1>a, <2>1 DEF Begin, Request, OthersTypeOK, EngineStep, StoreStep
  <1> QED
    BY <1>1, <1>2, <1>3, <1>4, <1>5, <1>6, <1>7, <1>8, <1>9 DEF Next

-----------------------------------------------------------------------------
(* The tables *)

\* Every transaction keeps the types of the columns it writes.
LEMMA StoreStepType ==
    ASSUME StoreTypeOK, StoreStep
    PROVE  StoreTypeOK'
  <1> USE DEF StoreTypeOK, SetState
  <1>0. 0 \in 0..AttemptCap
    BY EngineAssumption
  <1>1. CASE UNCHANGED storeVars
    BY <1>1 DEF storeVars
  <1>2. ASSUME NEW j \in Jobs, Enqueue(j) \/ AddScheduled(j) \/ ScheduleRetry(j)
        PROVE  StoreTypeOK'
    BY <1>2 DEF Enqueue, AddScheduled, ScheduleRetry, JobStates
  <1>3. ASSUME NEW j \in Jobs, HeartbeatJob(j) \/ BecomeStale(j)
        PROVE  StoreTypeOK'
    BY <1>3 DEF HeartbeatJob, BecomeStale
  <1>4. ASSUME NEW j \in Jobs, WriteRequeue(j) \/ WriteDelete(j)
        PROVE  StoreTypeOK'
    BY <1>4 DEF WriteRequeue, WriteDelete, storeVars, JobStates
  <1>5. ASSUME NEW j \in Jobs, NEW qs, Dequeue(qs, j)
        PROVE  StoreTypeOK'
    BY <1>5 DEF Dequeue, JobStates
  <1>6. ASSUME NEW j \in Jobs, NEW from, NEW new \in {"Succeeded", "Failed", "Cancelled", "Dead"},
               ApplyState(j, from, new)
        PROVE  StoreTypeOK'
    <2>1. failures[j] \in 0..AttemptCap /\ AttemptCap \in Nat
      BY EngineAssumption
    <2>2. (IF failures[j] < AttemptCap THEN failures[j] + 1 ELSE failures[j]) \in 0..AttemptCap
      BY <2>1
    <2>3. failures' \in [Jobs -> 0..AttemptCap]
      BY <1>6, <2>2 DEF ApplyState, CountFailure
    <2> QED
      BY <1>6, <2>3 DEF ApplyState, JobStates
  <1>7. ASSUME NEW j \in Jobs, NEW c \in Conditions, AddContinuation(j, c)
        PROVE  StoreTypeOK'
    BY <1>7 DEF AddContinuation
  <1>8. ASSUME NEW due \in SUBSET rows, GetDueScheduled(due)
        PROVE  StoreTypeOK'
    BY <1>8 DEF GetDueScheduled, JobStates
  <1>9. ASSUME NEW expired \in SUBSET Jobs, RemoveExpired(expired)
        PROVE  StoreTypeOK'
    <2>1. failures' \in [Jobs -> 0..AttemptCap]
      BY <1>0, <1>9 DEF RemoveExpired
    <2>2. state' \in [Jobs -> JobStates \cup Missing] /\ rows' \in SUBSET Jobs
      BY <1>9 DEF RemoveExpired, Missing
    <2>3. progress' \in [Jobs -> {"null", "fresh", "stale"}]
      BY <1>9 DEF RemoveExpired
    <2>4. continuations' \in [Jobs -> SUBSET Conditions]
      BY <1>9 DEF RemoveExpired
    <2> QED
      BY <2>1, <2>2, <2>3, <2>4
  <1> QED
    BY <1>1, <1>2, <1>3, <1>4, <1>5, <1>6, <1>7, <1>8, <1>9 DEF StoreStep

\* No transaction hides a job from the query that is to find it.
LEMMA StoreStepFindable ==
    ASSUME StoreTypeOK, Findable, StoreStep
    PROVE  Findable'
  <1> DEFINE Good(k) ==
          /\ state[k] = "Scheduled" => k \in rows
          /\ state[k] = "Processing" => progress[k] # "null"
          /\ state[k] \in Missing => k \notin rows
  <1> SUFFICES ASSUME NEW k \in Jobs
               PROVE  Good(k)'
    BY DEF Findable, Exists
  <1>0. Good(k)
    BY DEF Findable, Exists
  <1> USE <1>0 DEF StoreTypeOK, SetState, Missing
  <1>1. CASE UNCHANGED storeVars
    BY <1>1 DEF storeVars
  <1>2. ASSUME NEW j \in Jobs, Enqueue(j) \/ AddScheduled(j) \/ ScheduleRetry(j)
        PROVE  Good(k)'
    BY <1>2 DEF Enqueue, AddScheduled, ScheduleRetry
  <1>3. ASSUME NEW j \in Jobs, HeartbeatJob(j) \/ BecomeStale(j)
        PROVE  Good(k)'
    BY <1>3 DEF HeartbeatJob, BecomeStale
  <1>4. ASSUME NEW j \in Jobs, WriteRequeue(j) \/ WriteDelete(j)
        PROVE  Good(k)'
    BY <1>4 DEF WriteRequeue, WriteDelete, storeVars, Exists
  <1>5. ASSUME NEW j \in Jobs, NEW qs, Dequeue(qs, j)
        PROVE  Good(k)'
    BY <1>5 DEF Dequeue
  <1>6. ASSUME NEW j \in Jobs, NEW from \in {"Processing", "Failed"},
               NEW new \in {"Succeeded", "Failed", "Cancelled", "Dead"}, ApplyState(j, from, new)
        PROVE  Good(k)'
    BY <1>6 DEF ApplyState
  <1>7. ASSUME NEW j \in Jobs, NEW c \in Conditions, AddContinuation(j, c)
        PROVE  Good(k)'
    BY <1>7 DEF AddContinuation
  <1>8. ASSUME NEW due \in SUBSET rows, GetDueScheduled(due)
        PROVE  Good(k)'
    BY <1>8 DEF GetDueScheduled
  <1>9. ASSUME NEW expired \in SUBSET Jobs, RemoveExpired(expired)
        PROVE  Good(k)'
    BY <1>9 DEF RemoveExpired
  <1> QED
    BY <1>1, <1>2, <1>3, <1>4, <1>5, <1>6, <1>7, <1>8, <1>9 DEF StoreStep

-----------------------------------------------------------------------------
(* What holds with any number of nodes, whatever clients and networks do *)

BaseInv == TypeOK /\ EngineInv /\ Findable

\* The empty tables and the idle engines are a right start ...
LEMMA InitBaseInv == Init => BaseInv
  <1> SUFFICES ASSUME Init PROVE BaseInv
    OBVIOUS
  <1>1. EngineInv
    BY EngineInitInv DEF Init
  <1>2. StoreTypeOK
    <2>1. 0 \in 0..AttemptCap
      BY EngineAssumption
    <2>2. failures \in [Jobs -> 0..AttemptCap]
      BY <2>1 DEF Init, StoreInit
    <2>3. state \in [Jobs -> JobStates \cup Missing] /\ rows \in SUBSET Jobs
      BY DEF Init, StoreInit, Missing
    <2>4. progress \in [Jobs -> {"null", "fresh", "stale"}]
      BY DEF Init, StoreInit
    <2>5. continuations \in [Jobs -> SUBSET Conditions]
      BY DEF Init, StoreInit
    <2> QED
      BY <2>2, <2>3, <2>4, <2>5 DEF StoreTypeOK
  <1>3. OthersTypeOK
    BY PgEngineAssumption DEF Init, OthersTypeOK
  <1>4. Findable
    BY DEF Init, StoreInit, Findable
  <1> QED
    BY <1>1, <1>2, <1>3, <1>4 DEF BaseInv, TypeOK, OthersTypeOK, EngineInv

\* ... and every step keeps them right.
LEMMA NextBaseInv == BaseInv /\ [Next]_vars => BaseInv'
  <1> SUFFICES ASSUME BaseInv, [Next]_vars PROVE BaseInv'
    OBVIOUS
  <1>1. EngineStep /\ StoreStep /\ OthersTypeOK'
    <2>1. CASE Next
      BY <2>1, NextDecomposes DEF BaseInv, EngineInv
    <2>2. CASE UNCHANGED vars
      <3>1. UNCHANGED <<engineVars, storeVars, orphans, open, apiOps, mishaps>>
        BY <2>2 DEF vars
      <3>2. EngineStep /\ StoreStep
        BY <3>1 DEF EngineStep, StoreStep
      <3>3. OthersTypeOK'
        BY <3>1 DEF BaseInv, TypeOK, OthersTypeOK
      <3> QED
        BY <3>2, <3>3
    <2> QED
      BY <2>1, <2>2
  <1>2. EngineInv'
    BY <1>1, EngineStepInv DEF BaseInv
  <1>3. StoreTypeOK' /\ Findable'
    BY <1>1, StoreStepType, StoreStepFindable DEF BaseInv, TypeOK
  <1> QED
    BY <1>1, <1>2, <1>3 DEF BaseInv, TypeOK, OthersTypeOK, EngineInv

\* So the base invariant always holds.
LEMMA BaseInductive == Spec => []BaseInv
  <1> QED
    BY InitBaseInv, NextBaseInv, PTL DEF Spec

\* Every variable of the engines, the tables and the transactions keeps its
\* type on any number of nodes.
THEOREM PgTypeCorrect == Spec => []TypeOK
  <1>1. BaseInv => TypeOK
    BY DEF BaseInv
  <1> QED
    BY <1>1, BaseInductive, PTL

\* A job that still has to run is never hidden from the query that is to find
\* it: for any number of nodes, whatever transactions, crashes and lost
\* acknowledgements race.
THEOREM JobsStayFindable == Spec => []Findable
  <1>1. BaseInv => Findable
    BY DEF BaseInv
  <1> QED
    BY <1>1, BaseInductive, PTL

\* The in-flight counters and the cancel map of every process are right on
\* PostgreSQL as well, where a process may crash and be started again: the
\* counters are those of its workers in flight, and a cancel hits its job.
THEOREM EngineTablesRight == Spec => [](ActiveAccurate /\ CancelHitsItsJob)
  <1>1. BaseInv => ActiveAccurate /\ CancelHitsItsJob
    BY DEF BaseInv, EngineInv
  <1> QED
    BY <1>1, BaseInductive, PTL

-----------------------------------------------------------------------------
(* Who owns a Failed job, while no context ends *)

\* No process or connection fails, no deadline passes and nobody cancels a job.
Calm == MaxMishaps = 0 /\ "cancel" \notin Ops

\* Then every context is live, so that every finalizing call reaches the
\* database, and the only worker that lets go of a Failed job has moved it on.
CalmInv ==
    /\ running = [n \in Nodes |-> TRUE]
    /\ \A w \in Workers : ctx[w] = "live"
    /\ FailedOwned

\* A worker in its normal steps keeps its context and moves a Failed job on
\* before it lets go of it.
LEMMA WorkerCalm ==
    ASSUME BaseInv, CalmInv, NEW w \in Workers, WorkerLocal(w) \/ WorkerStore(w) \/ Heartbeat(w)
    PROVE  CalmInv'
  <1>t. /\ pc \in [Workers -> PCs]
        /\ job \in [Workers -> Jobs \cup {NoJob}]
        /\ ctx \in [Workers -> {"live", "cancelled", "expired", "stopped"}]
        /\ state \in [Jobs -> JobStates \cup Missing]
    BY DEF BaseInv, TypeOK, EngineTypeOK, StoreTypeOK
  <1>a. /\ running = [n \in Nodes |-> TRUE]
        /\ \A v \in Workers : ctx[v] = "live"
        /\ NodeOf \in [Workers -> Nodes]
    BY EngineAssumption DEF BaseInv, TypeOK, CalmInv
  <1>b. ASSUME NEW v \in Workers PROVE pc[v] \notin {"idle", "dequeue", "stopped"} => job[v] \in Jobs
    BY DEF BaseInv, EngineInv, HoldsJob
  <1> DEFINE Owns(v, k) == job[v] = k /\ pc[v] \in {"applyDead", "scheduleRetry"}
             Owned(k) == \E v \in Workers : Owns(v, k)
  <1>c. \A k \in Jobs : state[k] = "Failed" => Owned(k)
    BY DEF CalmInv, FailedOwned
  <1> SUFFICES /\ running' = running
               /\ \A v \in Workers : ctx'[v] = "live"
               /\ \A k \in Jobs : state'[k] = "Failed" => Owned(k)'
    BY <1>a DEF CalmInv, FailedOwned
  <1> USE <1>t DEF Goto
  <1>1. CASE WorkerLocal(w)
    <2>1. running' = running /\ state' = state /\ \A v \in Workers : ctx'[v] = "live"
      BY <1>1, <1>a DEF WorkerLocal, PickQueues, WorkerExit, Execute, Return, storeVars
    <2>2. \A v \in Workers, k \in Jobs : Owns(v, k) => Owns(v, k)'
      BY <1>1 DEF WorkerLocal, PickQueues, WorkerExit, Execute, Return
    <2> QED
      BY <1>c, <2>1, <2>2
  <1>2. CASE DequeueJob(w) \/ DequeueEmpty(w)
    <2>1. running' = running /\ ctx' = ctx /\ \A k \in Jobs : state'[k] = "Failed" => state[k] = "Failed"
      BY <1>2 DEF DequeueJob, DequeueEmpty, GotTicket, NoTicket, Dequeue, SetState, storeVars
    <2>2. \A v \in Workers, k \in Jobs : Owns(v, k) => Owns(v, k)'
      BY <1>2 DEF DequeueJob, DequeueEmpty, GotTicket, NoTicket
    <2> QED
      BY <1>a, <1>c, <2>1, <2>2
  <1>3. CASE LoadJob(w) \/ SetResult(w) \/ FireContinuations(w)
    <2>1. running' = running /\ state' = state /\ \A v \in Workers : ctx'[v] = "live"
      BY <1>3, <1>a DEF LoadJob, SetResult, SetJobResult, FireContinuations, BeginRun, AbandonTicket, Refused,
                        Advance, LoadContinuations, storeVars
    <2>2. \A v \in Workers, k \in Jobs : Owns(v, k) => Owns(v, k)'
      BY <1>3 DEF LoadJob, SetResult, FireContinuations, BeginRun, AbandonTicket, Refused, Advance,
                  LoadContinuations
    <2> QED
      BY <1>c, <2>1, <2>2
  <1>4. CASE ApplySucceeded(w) \/ ApplyCancelled(w)
    <2>1. running' = running /\ ctx' = ctx /\ \A k \in Jobs : state'[k] = "Failed" => state[k] = "Failed"
      BY <1>4 DEF ApplySucceeded, ApplyCancelled, FinishAs, ApplyState, SetState, Refused, Finalized, Advance,
                  storeVars
    <2>2. \A v \in Workers, k \in Jobs : Owns(v, k) => Owns(v, k)'
      BY <1>4 DEF ApplySucceeded, ApplyCancelled, FinishAs, Refused, Finalized, Advance
    <2> QED
      BY <1>a, <1>c, <2>1, <2>2
  <1>5. CASE ApplyDead(w) \/ RetryLater(w)
    <2>1. running' = running /\ ctx' = ctx /\ \A k \in Jobs : state'[k] = "Failed" => state[k] = "Failed"
      BY <1>5 DEF ApplyDead, RetryLater, FinishAs, ApplyState, ScheduleRetry, SetState, Refused, Finalized,
                  Advance, storeVars
    <2>2. \A v \in Workers, k \in Jobs : v # w /\ Owns(v, k) => Owns(v, k)'
      BY <1>5 DEF ApplyDead, RetryLater, FinishAs, Refused, Finalized, Advance
    <2>3. job[w] \in Jobs
      BY <1>5, <1>b DEF ApplyDead, RetryLater, FinishAs
    <2>4. state'[job[w]] # "Failed"
      BY <1>5, <1>a, <2>3 DEF ApplyDead, RetryLater, FinishAs, ApplyState, ScheduleRetry, SetState, Refused,
                              storeVars
    <2> QED
      BY <1>a, <1>c, <2>1, <2>2, <2>4
  <1>6. CASE ApplyFailed(w)
    <2>1. /\ running' = running /\ ctx' = ctx
          /\ \A k \in Jobs : state'[k] = "Failed" => state[k] = "Failed" \/ (k = job[w] /\ state[k] = "Processing")
      BY <1>6 DEF ApplyFailed, ApplyState, SetState, Refused, Advance, storeVars
    <2>2. \A v \in Workers, k \in Jobs : Owns(v, k) => Owns(v, k)'
      BY <1>6 DEF ApplyFailed, Refused, Advance
    <2>3. state[job[w]] = "Processing" => job'[w] = job[w] /\ pc'[w] \in {"applyDead", "scheduleRetry"}
      BY <1>6, <1>a DEF ApplyFailed, Advance, AfterFailed
    <2> QED
      BY <1>a, <1>c, <2>1, <2>2, <2>3
  <1>7. CASE EnqueueChild(w) \/ Heartbeat(w)
    <2>1. /\ running' = running /\ ctx' = ctx /\ pc' = pc /\ job' = job
          /\ \A k \in Jobs : state'[k] = "Failed" => state[k] = "Failed"
      BY <1>7 DEF EnqueueChild, FiredContinuation, Enqueue, SetState, Heartbeat, HeartbeatJob, engineVars
    <2> QED
      BY <1>a, <1>c, <2>1
  <1> QED
    BY <1>1, <1>2, <1>3, <1>4, <1>5, <1>6, <1>7 DEF WorkerStore

\* Nothing else makes a job Failed, and no worker is stopped or cancelled.
LEMMA NextCalm ==
    ASSUME Calm, BaseInv, CalmInv, [Next]_vars
    PROVE  CalmInv'
  <1>a. mishaps = 0
    BY DEF Calm, BaseInv, TypeOK
  <1>b. StoreTypeOK /\ running = [n \in Nodes |-> TRUE]
    BY DEF BaseInv, TypeOK, CalmInv
  <1>1. CASE \E w \in Workers : WorkerLocal(w) \/ WorkerStore(w) \/ Heartbeat(w)
    BY <1>1, WorkerCalm
  <1>2. ASSUME UNCHANGED engineVars, \A k \in Jobs : state'[k] = "Failed" => state[k] = "Failed"
        PROVE  CalmInv'
    BY <1>2 DEF engineVars, CalmInv, FailedOwned
  <1> USE DEF StoreTypeOK, SetState
  <1>3. CASE \E w \in Workers : Timeout(w) \/ CallFails(w) \/ AckLost(w) \/ DialTimesOut(w)
    BY <1>3, <1>a DEF Calm, Timeout, CallFails, AckLost, DialTimesOut, Mishap
  <1>4. ASSUME NEW n \in Nodes, Crash(n) \/ Stop(n) \/ Restart(n) PROVE FALSE
    BY <1>4, <1>a, <1>b DEF Calm, Crash, Stop, EndsNode, Restart, StartEngine
  <1>5. ASSUME NEW n \in Nodes, TickScheduler(n) \/ CleanupTick(n) PROVE CalmInv'
    BY <1>2, <1>5, <1>b DEF TickScheduler, GetDueScheduled, CleanupTick, RemoveExpired
  <1>6. ASSUME NEW n \in Nodes, OrphanScan(n) \/ OrphanCheck(n) PROVE CalmInv'
    BY <1>2, <1>6 DEF OrphanScan, OrphanCheck, storeVars
  <1>7. ASSUME NEW tx \in open, Write(tx) PROVE CalmInv'
    BY <1>2, <1>7, <1>b DEF Write, WriteRequeue, WriteDelete, storeVars
  <1>8. ASSUME NEW j \in Jobs, Stale(j) PROVE CalmInv'
    BY <1>2, <1>8 DEF Stale, BecomeStale
  <1>9. ASSUME NEW n \in Nodes, NEW j \in Jobs, handleEnqueue(n, j) \/ handleSchedule(n, j) PROVE CalmInv'
    BY <1>2, <1>9, <1>b DEF handleEnqueue, Enqueue, handleSchedule, AddScheduled
  <1>10. ASSUME NEW n \in Nodes, NEW j \in Jobs, handleCancel(n, j) PROVE FALSE
    BY <1>10 DEF handleCancel, Request, Calm
  <1>11. ASSUME NEW n \in Nodes, NEW j \in Jobs, NEW op, Begin(n, op, j) PROVE CalmInv'
    BY <1>2, <1>11 DEF Begin, storeVars
  <1>12. ASSUME NEW n \in Nodes, NEW j \in Jobs, NEW c, handleContinue(n, j, c) PROVE CalmInv'
    BY <1>2, <1>12 DEF handleContinue, AddContinuation
  <1>13. CASE UNCHANGED vars
    BY <1>2, <1>13 DEF vars, storeVars
  <1> QED
    BY <1>1, <1>3, <1>4, <1>5, <1>6, <1>7, <1>8, <1>9, <1>10, <1>11, <1>12, <1>13 DEF Next

\* While no process, connection or context ends, a Failed job always has a
\* worker that is about to retry or bury it, for any number of nodes, whatever
\* clients requeue and delete meanwhile, and even if runs overlap.
THEOREM FailedHasOwner ==
    ASSUME Calm
    PROVE  Spec => []FailedOwned
  <1>1. Init => CalmInv
    <2> SUFFICES ASSUME Init PROVE CalmInv
      OBVIOUS
    <2>1. running = [n \in Nodes |-> TRUE]
      BY DEF Init, EngineInit
    <2>2. \A w \in Workers : ctx[w] = "live"
      BY DEF Init, EngineInit
    <2>3. \A j \in Jobs : state[j] # "Failed"
      BY DEF Init, StoreInit
    <2> QED
      BY <2>1, <2>2, <2>3 DEF CalmInv, FailedOwned
  <1>2. BaseInv /\ CalmInv /\ [Next]_vars => CalmInv'
    BY NextCalm
  <1>3. CalmInv => FailedOwned
    BY DEF CalmInv
  <1> QED
    BY <1>1, <1>2, <1>3, BaseInductive, PTL DEF Spec

-----------------------------------------------------------------------------
(* One node, punctual heartbeats *)

\* A single process at a time, whose heartbeats keep their interval, and no
\* requeue or delete by hand.  Crashes, stops, restarts, deadlines, broken
\* connections, lost acknowledgements and cancels may occur in any number.
SingleNode ==
    /\ \A m, n \in Nodes : m = n
    /\ Punctual
    /\ "requeue" \notin Ops
    /\ "delete" \notin Ops

\* What a worker that owns its job knows about it.
OwnerKnows ==
    \A w \in Workers :
        /\ pc[w] \in Executing \cup {"load"} => state[job[w]] = "Processing"
        /\ pc[w] \in Executing => attempt[w] = failures[job[w]]
        /\ pc[w] \in Settling => state[job[w]] = "Failed"
        /\ pc[w] = "scheduleRetry" => failures[job[w]] < MaxFailures(job[w])

\* No job has two owners.
OneOwner ==
    \A v, w \in Workers :
        pc[v] \in Owning /\ pc[w] \in Owning /\ job[v] = job[w] => v = w

\* Only Scheduled jobs have a scheduled_jobs row.
RowsExact == \A j \in rows : state[j] = "Scheduled"

\* A job is Processing and its progress is past the cutoff ...
Abandoned(j) == state[j] = "Processing" /\ progress[j] = "stale"

\* ... only when it is in nobody's hands.
StaleIsFree == \A j \in Jobs : Abandoned(j) => ~Held(j)

\* What the coordinator has listed, or has checked and is about to requeue, is
\* still abandoned, and it works on one job at a time.
ListedAbandoned ==
    /\ \A n \in Nodes : \A j \in orphans[n] : Abandoned(j)
    /\ \A tx \in open :
          /\ tx.by = "coordinator"
          /\ tx.op = "requeue"
          /\ Abandoned(tx.job)
          /\ tx.job \notin orphans[tx.node]
    /\ \A tx, ty \in open : tx = ty

\* A job that may still be run has not used up its failures.
WithinBudget ==
    \A j \in Jobs :
        /\ failures[j] <= MaxFailures(j)
        /\ state[j] \in {"Unborn", "Enqueued", "Processing", "Scheduled"} => failures[j] < MaxFailures(j)

\* The inductive invariant of one node.
SoloInv ==
    OwnerKnows /\ OneOwner /\ RowsExact /\ StaleIsFree /\ ListedAbandoned /\ WithinBudget

-----------------------------------------------------------------------------
(* The steps of one node, as far as owners and tables are concerned *)

\* Worker v goes on holding what it holds.
Same(v) == pc'[v] = pc[v] /\ job'[v] = job[v] /\ attempt'[v] = attempt[v]

\* Worker w gives up its claim on the job it holds.
LetsGo(w) == pc'[w] \notin Owning /\ job'[w] = job[w]

\* Worker v drops its job, or goes on with it without a word to the database.
Quietly(v) ==
    /\ job'[v] \in Jobs => job'[v] = job[v]
    /\ pc'[v] \in Owning =>
          /\ pc[v] \in Owning /\ job'[v] = job[v]
          /\ \/ attempt'[v] = attempt[v] /\ pc'[v] = pc[v]
             \/ attempt'[v] = attempt[v] /\ pc[v] \in Executing /\ pc'[v] \in Executing
             \/ attempt'[v] = failures[job[v]] /\ pc[v] = "load" /\ pc'[v] \in Executing

\* A step that writes nothing about a job, but may forget what the coordinator
\* was about to do: all local steps, failed calls, crashes and restarts.
QuietStep ==
    /\ UNCHANGED <<state, failures, progress, rows>>
    /\ \A v \in Workers : Quietly(v)
    /\ \A n \in Nodes : orphans'[n] \subseteq orphans[n]
    /\ open' \subseteq open

\* A step with which worker w fetches a job or stores what became of its own.
OwnerStep(w) ==
    /\ \A v \in Workers \ {w} : Same(v)
    /\ UNCHANGED <<orphans, open>>
    /\ \/ /\ pc[w] \notin Owning
          /\ \E j \in Jobs, qs \in SUBSET Queues :
                Dequeue(qs, j) /\ (LetsGo(w) \/ (pc'[w] = "load" /\ job'[w] = j))
       \/ /\ pc[w] \in Executing
          /\ \E new \in {"Succeeded", "Cancelled"} : ApplyState(job[w], "Processing", new)
          /\ LetsGo(w)
       \/ /\ pc[w] \in Executing
          /\ ApplyState(job[w], "Processing", "Failed")
          /\ LetsGo(w) \/ (pc'[w] = AfterFailed(w) /\ job'[w] = job[w])
       \/ pc[w] = "applyDead" /\ ApplyState(job[w], "Failed", "Dead") /\ LetsGo(w)
       \/ pc[w] = "scheduleRetry" /\ ScheduleRetry(job[w]) /\ LetsGo(w)

\* A transaction that no worker's claim depends on.
TableStep ==
    /\ \A v \in Workers : Same(v)
    /\ UNCHANGED <<orphans, open>>
    /\ \/ \E j \in Jobs : Enqueue(j) \/ AddScheduled(j)
       \/ \E j \in Jobs : HeartbeatJob(j) /\ Held(j)
       \/ \E j \in Jobs : BecomeStale(j) /\ ~Held(j)
       \/ \E due \in SUBSET rows : GetDueScheduled(due)
       \/ \E expired \in SUBSET {j \in Jobs : ~Held(j)} : RemoveExpired(expired)

\* A step of the coordinator.
CoordinatorStep ==
    /\ \A v \in Workers : Same(v)
    /\ \/ \E n \in Nodes : OrphanScan(n) \/ OrphanCheck(n)
       \/ \E tx \in open : /\ WriteRequeue(tx.job)
                           /\ open' = open \ {tx}
                           /\ UNCHANGED orphans

\* Every step is one of these.
SoloStep == QuietStep \/ (\E w \in Workers : OwnerStep(w)) \/ TableStep \/ CoordinatorStep

\* A finalizing call of a worker: it is carried out, or refused and dropped.
LEMMA FinishIsSolo ==
    ASSUME BaseInv, NEW w \in Workers,
           ApplySucceeded(w) \/ ApplyCancelled(w) \/ ApplyDead(w) \/ ApplyFailed(w) \/ RetryLater(w)
    PROVE  SoloStep
  <1>a. /\ pc \in [Workers -> PCs]
        /\ job \in [Workers -> Jobs \cup {NoJob}]
        /\ attempt \in [Workers -> 0..AttemptCap]
    BY DEF BaseInv, TypeOK, EngineTypeOK
  <1>b. othersUnchanged
    BY DEF ApplySucceeded, ApplyCancelled, ApplyDead, FinishAs, ApplyFailed, RetryLater
  <1>1. CASE Refused(w)
    <2>1. \A v \in Workers : Quietly(v)
      BY <1>1, <1>a DEF Refused, Advance, Goto, Quietly, Owning, Executing, Settling
    <2> QED
      BY <1>1, <1>b, <2>1 DEF Refused, storeVars, othersUnchanged, QuietStep, SoloStep
  <1>2. ASSUME NEW s, Finalized(w, s)
        PROVE  LetsGo(w) /\ \A v \in Workers \ {w} : Same(v)
    BY <1>2, <1>a DEF Finalized, Goto, LetsGo, Same, Owning, Executing, Settling
  <1>3. ASSUME NEW label, Advance(w, label)
        PROVE  /\ pc'[w] = label /\ job'[w] = job[w] /\ attempt'[w] = attempt[w]
               /\ \A v \in Workers \ {w} : Same(v)
    BY <1>3, <1>a DEF Advance, Goto, Same
  <1>4. UNCHANGED <<orphans, open>>
    BY <1>b DEF othersUnchanged
  <1>5. CASE ApplySucceeded(w) /\ ~Refused(w)
    <2>1. ApplyState(job[w], "Processing", "Succeeded") /\ Finalized(w, "Succeeded")
      BY <1>5 DEF ApplySucceeded, FinishAs
    <2>2. pc[w] \in Executing
      BY <1>5 DEF ApplySucceeded, FinishAs, Executing
    <2>3. OwnerStep(w)
      BY <1>2, <1>4, <2>1, <2>2 DEF OwnerStep
    <2> QED
      BY <2>3 DEF SoloStep
  <1>6. CASE ApplyCancelled(w) /\ ~Refused(w)
    <2>1. ApplyState(job[w], "Processing", "Cancelled") /\ Finalized(w, "Cancelled")
      BY <1>6 DEF ApplyCancelled, FinishAs
    <2>2. pc[w] \in Executing
      BY <1>6 DEF ApplyCancelled, FinishAs, Executing
    <2>3. OwnerStep(w)
      BY <1>2, <1>4, <2>1, <2>2 DEF OwnerStep
    <2> QED
      BY <2>3 DEF SoloStep
  <1>7. CASE ApplyDead(w) /\ ~Refused(w)
    <2>1. ApplyState(job[w], "Failed", "Dead") /\ Finalized(w, "Dead") /\ pc[w] = "applyDead"
      BY <1>7 DEF ApplyDead, FinishAs
    <2>2. OwnerStep(w)
      BY <1>2, <1>4, <2>1 DEF OwnerStep
    <2> QED
      BY <2>2 DEF SoloStep
  <1>8. CASE ApplyFailed(w) /\ ~Refused(w)
    <2>1. ApplyState(job[w], "Processing", "Failed") /\ Advance(w, AfterFailed(w))
      BY <1>8 DEF ApplyFailed
    <2>2. pc[w] \in Executing
      BY <1>8 DEF ApplyFailed, Executing
    <2>3. OwnerStep(w)
      BY <1>3, <1>4, <2>1, <2>2 DEF OwnerStep
    <2> QED
      BY <2>3 DEF SoloStep
  <1>9. CASE RetryLater(w) /\ ~Refused(w)
    <2>1. ScheduleRetry(job[w]) /\ Advance(w, "return") /\ pc[w] = "scheduleRetry"
      BY <1>9 DEF RetryLater
    <2>2. LetsGo(w)
      BY <1>3, <2>1 DEF LetsGo, Owning, Executing, Settling
    <2>3. OwnerStep(w)
      BY <1>3, <1>4, <2>1, <2>2 DEF OwnerStep
    <2> QED
      BY <2>3 DEF SoloStep
  <1> QED
    BY <1>1, <1>5, <1>6, <1>7, <1>8, <1>9

\* The other normal steps of a worker.
LEMMA WorkerIsSolo ==
    ASSUME BaseInv, NEW w \in Workers, WorkerLocal(w) \/ WorkerStore(w) \/ Heartbeat(w)
    PROVE  SoloStep
  <1>a. /\ pc \in [Workers -> PCs]
        /\ job \in [Workers -> Jobs \cup {NoJob}]
        /\ attempt \in [Workers -> 0..AttemptCap]
    BY DEF BaseInv, TypeOK, EngineTypeOK
  <1>b. elig[w] \in SUBSET Queues
    BY DEF BaseInv, TypeOK, EngineTypeOK
  <1>c. NoJob \notin Jobs
    BY EngineAssumption
  <1>d. pc[w] \notin {"idle", "dequeue", "stopped"} => job[w] \in Jobs
    BY DEF BaseInv, EngineInv, HoldsJob
  <1>1. ASSUME UNCHANGED storeVars, othersUnchanged, \A v \in Workers : Quietly(v)
        PROVE  SoloStep
    BY <1>1 DEF storeVars, othersUnchanged, QuietStep, SoloStep
  <1> USE <1>a, <1>c DEF Goto
  <1>2. CASE WorkerLocal(w)
    <2>1. \A v \in Workers : Quietly(v)
      BY <1>2 DEF WorkerLocal, PickQueues, WorkerExit, Execute, ExecOutcomes, Return, Quietly,
                  Owning, Executing, Settling
    <2> QED
      BY <1>1, <1>2, <2>1 DEF WorkerLocal
  <1>3. CASE DequeueEmpty(w) \/ LoadJob(w) \/ SetResult(w) \/ FireContinuations(w)
    <2>1. CASE DequeueEmpty(w)
      <3>1. \A v \in Workers : Quietly(v)
        BY <2>1 DEF DequeueEmpty, NoTicket, Quietly, Owning, Executing, Settling
      <3> QED
        BY <1>1, <2>1, <3>1 DEF DequeueEmpty
    <2>2. CASE LoadJob(w)
      <3>1. \A v \in Workers : Quietly(v)
        BY <2>2 DEF LoadJob, BeginRun, AbandonTicket, Quietly, Owning, Executing, Settling
      <3> QED
        BY <1>1, <2>2, <3>1 DEF LoadJob
    <2>3. CASE SetResult(w)
      <3>1. \A v \in Workers : Quietly(v)
        BY <2>3 DEF SetResult, Refused, Advance, Quietly, Owning, Executing, Settling
      <3> QED
        BY <1>1, <2>3, <3>1 DEF SetResult, SetJobResult, Refused
    <2>4. CASE FireContinuations(w)
      <3>1. \A v \in Workers : Quietly(v)
        BY <2>4 DEF FireContinuations, LoadContinuations, Quietly, Owning, Executing, Settling
      <3> QED
        BY <1>1, <2>4, <3>1 DEF FireContinuations
    <2> QED
      BY <1>3, <2>1, <2>2, <2>3, <2>4
  <1>4. CASE DequeueJob(w)
    <2>1. PICK j \in Jobs : Dequeue(elig[w], j) /\ GotTicket(w, j)
      BY <1>4 DEF DequeueJob
    <2>2. /\ pc[w] \notin Owning /\ pc'[w] = "load" /\ job'[w] = j
          /\ \A v \in Workers \ {w} : Same(v)
      BY <1>4, <2>1 DEF DequeueJob, GotTicket, Same, Owning, Executing, Settling
    <2>3. UNCHANGED <<orphans, open>>
      BY <1>4 DEF DequeueJob, othersUnchanged
    <2>4. OwnerStep(w)
      BY <1>b, <2>1, <2>2, <2>3 DEF OwnerStep
    <2> QED
      BY <2>4 DEF SoloStep
  <1>5. CASE EnqueueChild(w) \/ Heartbeat(w)
    <2>1. \A v \in Workers : Same(v)
      BY <1>5 DEF EnqueueChild, FiredContinuation, Heartbeat, engineVars, Same
    <2>2. UNCHANGED <<orphans, open>>
      BY <1>5 DEF EnqueueChild, Heartbeat, othersUnchanged
    <2>3. \/ \E j \in Jobs : Enqueue(j)
          \/ \E j \in Jobs : HeartbeatJob(j) /\ Held(j)
      BY <1>5, <1>d DEF EnqueueChild, Heartbeat, InFlight, InFlightPCs, Held
    <2>4. TableStep
      BY <2>1, <2>2, <2>3 DEF TableStep
    <2> QED
      BY <2>4 DEF SoloStep
  <1> QED
    BY <1>2, <1>3, <1>4, <1>5, FinishIsSolo DEF WorkerStore

\* The mishaps of a worker: a call that was not carried out is a quiet step,
\* one whose acknowledgement was lost is the step it acknowledges.
LEMMA MishapIsSolo ==
    ASSUME BaseInv, NEW w \in Workers, Timeout(w) \/ CallFails(w) \/ AckLost(w) \/ DialTimesOut(w)
    PROVE  SoloStep
  <1>a. /\ pc \in [Workers -> PCs]
        /\ job \in [Workers -> Jobs \cup {NoJob}]
        /\ attempt \in [Workers -> 0..AttemptCap]
        /\ elig[w] \in SUBSET Queues
    BY DEF BaseInv, TypeOK, EngineTypeOK
  <1>b. NoJob \notin Jobs
    BY EngineAssumption
  <1>c. UNCHANGED <<orphans, open>>
    BY DEF Timeout, CallFails, AckLost, DialTimesOut, Mishap
  <1> USE <1>a, <1>b DEF Goto
  <1>1. ASSUME UNCHANGED storeVars, \A v \in Workers : Quietly(v)
        PROVE  SoloStep
    BY <1>1, <1>c DEF storeVars, QuietStep, SoloStep
  <1>2. CASE Timeout(w)
    <2>1. \A v \in Workers : Quietly(v)
      BY <1>2 DEF Timeout, JobTimeout, Quietly
    <2> QED
      BY <1>1, <1>2, <2>1 DEF Timeout
  <1>3. CASE CallFails(w)
    <2>1. \A v \in Workers : Quietly(v)
      BY <1>3 DEF CallFails, AbandonTicket, Advance, Quietly, Owning, Executing, Settling
    <2> QED
      BY <1>1, <1>3, <2>1 DEF CallFails
  <1>4. ASSUME Advance(w, "return")
        PROVE  /\ LetsGo(w) /\ \A v \in Workers \ {w} : Same(v)
               /\ \A v \in Workers : Quietly(v)
    BY <1>4 DEF Advance, LetsGo, Same, Quietly, Owning, Executing, Settling
  <1>5. ASSUME OwnerStep(w) PROVE SoloStep
    BY <1>5 DEF SoloStep
  <1>6. CASE pc[w] = "dequeue" /\ NoTicket(w) /\ \E j \in Jobs : Dequeue(elig[w], j)
    <2>1. pc[w] \notin Owning /\ LetsGo(w) /\ \A v \in Workers \ {w} : Same(v)
      BY <1>6 DEF NoTicket, LetsGo, Same, Owning, Executing, Settling
    <2> QED
      BY <1>5, <1>6, <1>a, <1>c, <2>1 DEF OwnerStep
  <1>7. CASE pc[w] = "setResult" /\ SetJobResult(job[w]) /\ Advance(w, "return")
    BY <1>1, <1>4, <1>7 DEF SetJobResult
  <1>8. CASE /\ Advance(w, "return")
             /\ \/ pc[w] = "applySucceeded" /\ ApplyState(job[w], "Processing", "Succeeded")
                \/ pc[w] = "applyFailed" /\ ApplyState(job[w], "Processing", "Failed")
                \/ pc[w] = "applyDead" /\ ApplyState(job[w], "Failed", "Dead")
                \/ pc[w] = "scheduleRetry" /\ ScheduleRetry(job[w])
    BY <1>4, <1>5, <1>8, <1>c DEF OwnerStep, Executing
  <1>9. CASE DialTimesOut(w)
    <2>1. \A v \in Workers : Quietly(v)
      BY <1>9 DEF DialTimesOut, LoopEnds, Quietly, Owning, Executing, Settling
    <2> QED
      BY <1>1, <1>9, <2>1 DEF DialTimesOut
  <1> QED
    BY <1>2, <1>3, <1>6, <1>7, <1>8, <1>9 DEF AckLost

\* The loops, the handlers and the end of the process.
LEMMA NextIsSolo ==
    ASSUME SingleNode, BaseInv, ListedAbandoned, [Next]_vars
    PROVE  SoloStep
  <1>a. /\ pc \in [Workers -> PCs]
        /\ job \in [Workers -> Jobs \cup {NoJob}]
        /\ attempt \in [Workers -> 0..AttemptCap]
        /\ orphans \in [Nodes -> SUBSET Jobs]
        /\ open \subseteq Tx
    BY DEF BaseInv, TypeOK, EngineTypeOK
  <1>b. NoJob \notin Jobs
    BY EngineAssumption
  <1>1. UNCHANGED engineVars => \A v \in Workers : Same(v) /\ Quietly(v)
    BY DEF engineVars, Same, Quietly
  <1>2. othersUnchanged => UNCHANGED <<orphans, open>>
    BY DEF othersUnchanged
  <1>3. CASE \E w \in Workers : \/ WorkerLocal(w) \/ WorkerStore(w) \/ Heartbeat(w)
                                \/ Timeout(w) \/ CallFails(w) \/ AckLost(w) \/ DialTimesOut(w)
    BY <1>3, WorkerIsSolo, MishapIsSolo
  <1>4. ASSUME NEW n \in Nodes, TickScheduler(n) \/ CleanupTick(n) PROVE SoloStep
    BY <1>1, <1>2, <1>4 DEF TickScheduler, CleanupTick, TableStep, SoloStep
  <1>5. ASSUME NEW n \in Nodes, OrphanScan(n) \/ OrphanCheck(n) PROVE SoloStep
    <2>1. UNCHANGED engineVars
      BY <1>5 DEF OrphanScan, OrphanCheck
    <2> QED
      BY <1>1, <1>5, <2>1 DEF CoordinatorStep, SoloStep
  <1>6. ASSUME NEW n \in Nodes, Crash(n) \/ Stop(n) \/ Restart(n) PROVE SoloStep
    <2>1. \A v \in Workers : Quietly(v)
      <3>1. CASE Crash(n)
        <4>1. \A v \in Workers : \/ pc'[v] = "stopped" /\ job'[v] = NoJob
                                 \/ Same(v)
          BY <3>1 DEF Crash, CrashEngine, Same
        <4> QED
          BY <1>b, <4>1 DEF Same, Quietly, Owning, Executing, Settling
      <3>2. CASE Stop(n)
        BY <3>2 DEF Stop, StopEngine, Quietly
      <3>3. CASE Restart(n)
        <4>1. \A v \in Workers : job'[v] = job[v] /\ (pc'[v] = "idle" \/ Same(v))
          BY <3>3 DEF Restart, StartEngine, Same
        <4> QED
          BY <4>1 DEF Same, Quietly, Owning, Executing, Settling
      <3> QED
        BY <1>6, <3>1, <3>2, <3>3
    <2>2. /\ UNCHANGED storeVars
          /\ \A m \in Nodes : orphans'[m] \subseteq orphans[m]
          /\ open' \subseteq open
      BY <1>6, <1>a DEF Crash, Stop, Restart, EndsNode
    <2> QED
      BY <2>1, <2>2 DEF storeVars, QuietStep, SoloStep
  <1>7. ASSUME NEW tx \in open, Write(tx) PROVE SoloStep
    <2>1. tx.op = "requeue"
      BY DEF ListedAbandoned
    <2> QED
      BY <1>1, <1>7, <2>1 DEF Write, CoordinatorStep, SoloStep
  <1>8. ASSUME NEW j \in Jobs, Stale(j) PROVE SoloStep
    BY <1>1, <1>2, <1>8 DEF Stale, SingleNode, TableStep, SoloStep
  <1>9. ASSUME NEW n \in Nodes, NEW j \in Jobs, handleEnqueue(n, j) \/ handleSchedule(n, j) PROVE SoloStep
    BY <1>1, <1>2, <1>9 DEF handleEnqueue, handleSchedule, TableStep, SoloStep
  <1>10. ASSUME NEW n \in Nodes, NEW j \in Jobs, handleCancel(n, j) PROVE SoloStep
    <2>1. /\ UNCHANGED <<pc, job, attempt, orphans, open>> /\ UNCHANGED storeVars
      BY <1>10 DEF handleCancel, CancelJob
    <2> QED
      BY <2>1 DEF storeVars, Quietly, QuietStep, SoloStep
  <1>11. ASSUME NEW n \in Nodes, NEW j \in Jobs, NEW op \in {"requeue", "delete"}, Begin(n, op, j)
         PROVE  SoloStep
    BY <1>11 DEF Begin, Request, SingleNode
  <1>12. ASSUME NEW n \in Nodes, NEW j \in Jobs, NEW c, handleContinue(n, j, c) PROVE SoloStep
    BY <1>1, <1>12 DEF handleContinue, AddContinuation, QuietStep, SoloStep
  <1>13. CASE UNCHANGED vars
    BY <1>1, <1>13 DEF vars, storeVars, QuietStep, SoloStep
  <1> QED
    BY <1>3, <1>4, <1>5, <1>6, <1>7, <1>8, <1>9, <1>10, <1>11, <1>12, <1>13 DEF Next

-----------------------------------------------------------------------------
(* One node keeps its owners apart *)

\* The types the following lemmas need, without those of the contexts.
SoloTypeOK ==
    /\ pc \in [Workers -> PCs]
    /\ job \in [Workers -> Jobs \cup {NoJob}]
    /\ attempt \in [Workers -> 0..AttemptCap]
    /\ \A w \in Workers : pc[w] \in Owning => job[w] \in Jobs
    /\ state \in [Jobs -> JobStates \cup Missing]
    /\ failures \in [Jobs -> Nat]
    /\ progress \in [Jobs -> {"null", "fresh", "stale"}]
    /\ rows \in SUBSET Jobs
    /\ orphans \in [Nodes -> SUBSET Jobs]
    /\ open \subseteq Tx

\* They are part of the base invariant.
LEMMA BaseSoloType == BaseInv => SoloTypeOK
  <1> SUFFICES ASSUME BaseInv PROVE SoloTypeOK
    OBVIOUS
  <1>1. \A w \in Workers : pc[w] \in Owning => job[w] \in Jobs
    BY DEF BaseInv, EngineInv, HoldsJob, Owning, Executing, Settling
  <1>2. failures \in [Jobs -> Nat]
    BY EngineAssumption DEF BaseInv, TypeOK, StoreTypeOK
  <1>3. /\ pc \in [Workers -> PCs]
        /\ job \in [Workers -> Jobs \cup {NoJob}]
        /\ attempt \in [Workers -> 0..AttemptCap]
    BY DEF BaseInv, TypeOK, EngineTypeOK
  <1> QED
    BY <1>1, <1>2, <1>3 DEF BaseInv, TypeOK, StoreTypeOK, SoloTypeOK

\* Steps that write nothing create no claim.
LEMMA QuietSolo ==
    ASSUME SoloTypeOK, SoloInv, QuietStep
    PROVE  SoloInv'
  <1> USE DEF SoloInv, SoloTypeOK, QuietStep
  <1>1. OwnerKnows'
    <2> SUFFICES ASSUME NEW w \in Workers, pc'[w] \in Owning
                 PROVE  /\ pc'[w] \in Executing \cup {"load"} => state[job'[w]] = "Processing"
                        /\ pc'[w] \in Executing => attempt'[w] = failures[job'[w]]
                        /\ pc'[w] \in Settling => state[job'[w]] = "Failed"
                        /\ pc'[w] = "scheduleRetry" => failures[job'[w]] < MaxFailures(job'[w])
      BY DEF OwnerKnows, Owning, Settling, MaxFailures
    <2>1. Quietly(w)
      OBVIOUS
    <2>2. /\ pc[w] \in Executing \cup {"load"} => state[job[w]] = "Processing"
          /\ pc[w] \in Executing => attempt[w] = failures[job[w]]
          /\ pc[w] \in Settling => state[job[w]] = "Failed"
          /\ pc[w] = "scheduleRetry" => failures[job[w]] < MaxFailures(job[w])
      BY DEF OwnerKnows
    <2> QED
      BY <2>1, <2>2 DEF Quietly, Owning, Executing, Settling
  <1>2. OneOwner'
    <2> SUFFICES ASSUME NEW v \in Workers, NEW w \in Workers,
                        pc'[v] \in Owning, pc'[w] \in Owning, job'[v] = job'[w]
                 PROVE  v = w
      BY DEF OneOwner
    <2> QED
      BY DEF OneOwner, Quietly
  <1>3. RowsExact'
    BY DEF RowsExact
  <1>4. \A j \in Jobs : Held(j)' => Held(j)
    BY DEF Held, Quietly
  <1>5. StaleIsFree'
    BY <1>4 DEF StaleIsFree, Abandoned
  <1>6. ListedAbandoned'
    <2>1. \A tx \in open' : tx.node \in Nodes
      BY DEF Tx
    <2> QED
      BY <2>1 DEF ListedAbandoned, Abandoned
  <1>7. WithinBudget'
    BY DEF WithinBudget, MaxFailures
  <1> QED
    BY <1>1, <1>2, <1>3, <1>5, <1>6, <1>7

\* A transaction of worker w on a job k that no other worker owns and that is
\* not abandoned, before or after.
LEMMA OwnedChange ==
    ASSUME SoloTypeOK, SoloInv, NEW w \in Workers, NEW k \in Jobs,
           \A v \in Workers \ {w} : Same(v),
           UNCHANGED <<orphans, open>>,
           \A x \in Jobs \ {k} : /\ state'[x] = state[x] /\ failures'[x] = failures[x]
                                 /\ progress'[x] = progress[x] /\ (x \in rows' <=> x \in rows),
           rows' \subseteq Jobs,
           \A v \in Workers \ {w} : pc[v] \in Owning => job[v] # k,
           ~Abandoned(k), ~Abandoned(k)',
           k \in rows' => state'[k] = "Scheduled",
           failures'[k] <= MaxFailures(k),
           state'[k] \in {"Unborn", "Enqueued", "Processing", "Scheduled"} => failures'[k] < MaxFailures(k),
           job'[w] \in {job[w], k},
           pc'[w] \in Owning =>
              /\ job'[w] = k
              /\ pc'[w] \notin Executing
              /\ pc'[w] = "load" => state'[k] = "Processing"
              /\ pc'[w] \in Settling => state'[k] = "Failed"
              /\ pc'[w] = "scheduleRetry" => failures'[k] < MaxFailures(k)
    PROVE  SoloInv'
  <1> USE DEF SoloInv, SoloTypeOK
  <1>1. OwnerKnows'
    <2> SUFFICES ASSUME NEW v \in Workers, pc'[v] \in Owning
                 PROVE  /\ pc'[v] \in Executing \cup {"load"} => state'[job'[v]] = "Processing"
                        /\ pc'[v] \in Executing => attempt'[v] = failures'[job'[v]]
                        /\ pc'[v] \in Settling => state'[job'[v]] = "Failed"
                        /\ pc'[v] = "scheduleRetry" => failures'[job'[v]] < MaxFailures(job'[v])
      BY DEF OwnerKnows, Owning, Settling, MaxFailures
    <2>1. CASE v = w
      BY <2>1
    <2>2. CASE v # w
      <3>1. Same(v) /\ job[v] # k /\ job[v] \in Jobs
        BY <2>2 DEF Same
      <3>2. /\ pc[v] \in Executing \cup {"load"} => state[job[v]] = "Processing"
            /\ pc[v] \in Executing => attempt[v] = failures[job[v]]
            /\ pc[v] \in Settling => state[job[v]] = "Failed"
            /\ pc[v] = "scheduleRetry" => failures[job[v]] < MaxFailures(job[v])
        BY DEF OwnerKnows
      <3> QED
        BY <3>1, <3>2 DEF Same
    <2> QED
      BY <2>1, <2>2
  <1>2. OneOwner'
    <2> SUFFICES ASSUME NEW u \in Workers, NEW v \in Workers,
                        pc'[u] \in Owning, pc'[v] \in Owning, job'[u] = job'[v]
                 PROVE  u = v
      BY DEF OneOwner
    <2> QED
      BY DEF OneOwner, Same
  <1>3. RowsExact'
    BY DEF RowsExact
  <1>4. \A x \in Jobs : Abandoned(x)' => Abandoned(x) /\ x # k
    BY DEF Abandoned
  <1>5. \A x \in Jobs : Abandoned(x) => Abandoned(x)'
    BY DEF Abandoned
  <1>6. \A x \in Jobs \ {k} : Held(x)' => Held(x)
    BY DEF Held, Same
  <1>7. StaleIsFree'
    BY <1>4, <1>6 DEF StaleIsFree
  <1>8. ListedAbandoned'
    <2>1. \A tx \in open : tx.node \in Nodes /\ tx.job \in Jobs
      BY DEF Tx
    <2> QED
      BY <1>5, <2>1 DEF ListedAbandoned
  <1>9. WithinBudget'
    BY DEF WithinBudget, MaxFailures
  <1> QED
    BY <1>1, <1>2, <1>3, <1>7, <1>8, <1>9

\* Fetching a job and storing what became of it.
LEMMA OwnerSolo ==
    ASSUME SoloTypeOK, SoloInv, NEW w \in Workers, OwnerStep(w)
    PROVE  SoloInv'
  <1>a. /\ \A v \in Workers \ {w} : Same(v)
        /\ UNCHANGED <<orphans, open>>
    BY DEF OwnerStep
  <1>b. pc[w] \in Owning =>
           /\ job[w] \in Jobs
           /\ ~Abandoned(job[w])
           /\ \A v \in Workers \ {w} : pc[v] \in Owning => job[v] # job[w]
    BY DEF SoloInv, SoloTypeOK, StaleIsFree, Held, OneOwner
  <1>c. \A j \in Jobs : MaxFailures(j) \in Nat /\ failures[j] \in Nat /\ failures[j] <= MaxFailures(j)
    BY BudgetBounds DEF SoloInv, SoloTypeOK, WithinBudget
  <1> USE DEF SoloTypeOK, SetState
  <1>1. ASSUME NEW j \in Jobs, NEW qs, pc[w] \notin Owning, Dequeue(qs, j),
               LetsGo(w) \/ (pc'[w] = "load" /\ job'[w] = j)
        PROVE  SoloInv'
    <2>1. \A v \in Workers \ {w} : pc[v] \in Owning => job[v] # j
      BY <1>1 DEF Dequeue, SoloInv, OwnerKnows, Owning
    <2>2. failures[j] < MaxFailures(j)
      BY <1>1 DEF Dequeue, SoloInv, WithinBudget
    <2>3. ~Abandoned(j) /\ ~Abandoned(j)' /\ state'[j] = "Processing" /\ j \notin rows
      BY <1>1 DEF Dequeue, Abandoned, SoloInv, RowsExact
    <2>4. /\ \A x \in Jobs \ {j} : state'[x] = state[x] /\ progress'[x] = progress[x]
          /\ failures' = failures /\ rows' = rows
      BY <1>1 DEF Dequeue
    <2>5. /\ job'[w] \in {job[w], j}
          /\ pc'[w] \in Owning => pc'[w] = "load" /\ job'[w] = j
      BY <1>1 DEF LetsGo
    <2> QED
      BY <1>a, <1>c, <2>1, <2>2, <2>3, <2>4, <2>5, OwnedChange DEF Executing, Settling
  <1>2. ASSUME pc[w] \in Executing, NEW new \in {"Succeeded", "Cancelled"},
               ApplyState(job[w], "Processing", new), LetsGo(w)
        PROVE  SoloInv'
    <2>1. pc[w] \in Owning
      BY <1>2 DEF Owning
    <2>2. /\ ~Abandoned(job[w])' /\ state'[job[w]] = new /\ job[w] \notin rows
          /\ rows' = rows /\ failures' = failures
          /\ \A x \in Jobs \ {job[w]} : state'[x] = state[x] /\ progress'[x] = progress[x]
      BY <1>2, <1>b, <2>1 DEF ApplyState, Abandoned, LetsGo, SoloInv, RowsExact
    <2>3. PICK k \in Jobs : k = job[w]
      BY <1>b, <2>1
    <2>4. job'[w] = k /\ ~Abandoned(k)'
      BY <1>2, <2>2, <2>3 DEF LetsGo
    <2> QED
      BY <1>2, <1>a, <1>b, <1>c, <2>1, <2>2, <2>3, <2>4, OwnedChange DEF LetsGo
  <1>3. ASSUME pc[w] \in Executing, ApplyState(job[w], "Processing", "Failed"),
               LetsGo(w) \/ (pc'[w] = AfterFailed(w) /\ job'[w] = job[w])
        PROVE  SoloInv'
    <2>1. pc[w] \in Owning
      BY <1>3 DEF Owning
    <2>0. PICK k \in Jobs : k = job[w]
      BY <1>b, <2>1
    <2>2. k \in Jobs /\ job'[w] = k /\ state[k] = "Processing" /\ attempt[w] = failures[k]
      BY <2>0, <1>3, <1>b, <2>1 DEF LetsGo, SoloInv, OwnerKnows
    <2>3. failures[k] < MaxFailures(k) /\ MaxFailures(k) <= AttemptCap /\ AttemptCap \in Nat
      BY <2>0, <2>2, BudgetBounds, EngineAssumption DEF SoloInv, WithinBudget
    <2>4. failures' = [failures EXCEPT ![k] = failures[k] + 1]
      BY <2>0, <1>3, <1>c, <2>2, <2>3 DEF ApplyState, CountFailure
    <2>5. /\ state'[k] = "Failed" /\ progress'[k] = "null" /\ k \notin rows /\ rows' = rows
          /\ \A x \in Jobs \ {k} : state'[x] = state[x] /\ progress'[x] = progress[x]
      BY <2>0, <1>3, <2>2 DEF ApplyState, SoloInv, RowsExact
    <2>6. /\ failures'[k] = failures[k] + 1 /\ failures'[k] <= MaxFailures(k)
          /\ \A x \in Jobs \ {k} : failures'[x] = failures[x]
      BY <2>0, <1>c, <2>2, <2>3, <2>4
    <2>7. pc'[w] = AfterFailed(w) => /\ pc'[w] \in Settling
                                     /\ pc'[w] = "scheduleRetry" => failures'[k] < MaxFailures(k)
      <3>1. /\ effectiveRetryMax(RetryMax[k]) \in Int
            /\ effectiveRetryMax(RetryMax[k]) <= MaxFailures(k)
        BY <2>0, <2>2, BudgetBounds
      <3>2. pc'[w] = AfterFailed(w) /\ pc'[w] = "scheduleRetry" =>
               ~(failures[k] + 1 >= effectiveRetryMax(RetryMax[k]))
        BY <2>0, <2>2 DEF AfterFailed
      <3>3. pc'[w] = AfterFailed(w) => pc'[w] \in Settling
        BY DEF AfterFailed, Settling
      <3> QED
        BY <2>0, <1>c, <2>2, <2>6, <3>1, <3>2, <3>3
    <2>8. ~Abandoned(k) /\ ~Abandoned(k)'
      BY <2>0, <1>b, <2>1, <2>2, <2>5 DEF Abandoned
    <2>9. pc'[w] \in Owning => /\ pc'[w] \in Settling
                               /\ pc'[w] = "scheduleRetry" => failures'[k] < MaxFailures(k)
      BY <2>0, <1>3, <2>7 DEF LetsGo
    <2>10. \A s \in Settling : s \notin Executing /\ s # "load"
      BY DEF Settling, Executing
    <2>11. \A v \in Workers \ {w} : pc[v] \in Owning => job[v] # k
      BY <2>0, <1>b, <2>1
    <2> QED
      BY <2>0, <1>a, <2>2, <2>5, <2>6, <2>8, <2>9, <2>10, <2>11, OwnedChange
  <1>4. ASSUME pc[w] = "applyDead", ApplyState(job[w], "Failed", "Dead"), LetsGo(w)
        PROVE  SoloInv'
    <2>1. pc[w] \in Owning
      BY <1>4 DEF Owning, Settling
    <2>0. PICK k \in Jobs : k = job[w]
      BY <1>b, <2>1
    <2>2. k \in Jobs /\ job'[w] = k
      BY <2>0, <1>4, <1>b, <2>1 DEF LetsGo
    <2>3. /\ state'[k] = "Dead" /\ progress'[k] = "null" /\ k \notin rows /\ rows' = rows
          /\ failures' = failures
          /\ \A x \in Jobs \ {k} : state'[x] = state[x] /\ progress'[x] = progress[x]
      BY <2>0, <1>4, <2>2 DEF ApplyState, SoloInv, RowsExact
    <2>4. ~Abandoned(k) /\ ~Abandoned(k)'
      BY <2>0, <1>b, <2>1, <2>2, <2>3 DEF Abandoned
    <2>5. \A v \in Workers \ {w} : pc[v] \in Owning => job[v] # k
      BY <2>0, <1>b, <2>1
    <2>6. pc'[w] \notin Owning
      BY <2>0, <1>4 DEF LetsGo
    <2> QED
      BY <2>0, <1>a, <1>c, <2>2, <2>3, <2>4, <2>5, <2>6, OwnedChange
  <1>5. ASSUME pc[w] = "scheduleRetry", ScheduleRetry(job[w]), LetsGo(w)
        PROVE  SoloInv'
    <2>1. pc[w] \in Owning
      BY <1>5 DEF Owning, Settling
    <2>0. PICK k \in Jobs : k = job[w]
      BY <1>b, <2>1
    <2>2. k \in Jobs /\ job'[w] = k /\ failures[k] < MaxFailures(k)
      BY <2>0, <1>5, <1>b, <2>1 DEF LetsGo, SoloInv, OwnerKnows
    <2>3. /\ state'[k] = "Scheduled" /\ progress' = progress /\ rows' = rows \cup {k}
          /\ failures' = failures
          /\ \A x \in Jobs \ {k} : state'[x] = state[x]
      BY <2>0, <1>5, <2>2 DEF ScheduleRetry
    <2>4. ~Abandoned(k) /\ ~Abandoned(k)'
      BY <2>0, <1>b, <2>1, <2>2, <2>3 DEF Abandoned
    <2>5. \A v \in Workers \ {w} : pc[v] \in Owning => job[v] # k
      BY <2>0, <1>b, <2>1
    <2>6. pc'[w] \notin Owning
      BY <2>0, <1>5 DEF LetsGo
    <2> QED
      BY <2>0, <1>a, <1>c, <2>2, <2>3, <2>4, <2>5, <2>6, OwnedChange
  <1> QED
    BY <1>1, <1>2, <1>3, <1>4, <1>5 DEF OwnerStep

\* Transactions that leave every owned job alone.  What they may do to job x:
\* create or promote it, erase it, or touch the progress of one that is held.
LEMMA TableSolo ==
    ASSUME SoloTypeOK, SoloInv, TableStep
    PROVE  SoloInv'
  <1>a. (\A v \in Workers : Same(v)) /\ UNCHANGED <<orphans, open>>
    BY DEF TableStep
  <1>b. \A w \in Workers : pc[w] \in Owning =>
           /\ job[w] \in Jobs /\ Held(job[w])
           /\ state[job[w]] \in {"Processing", "Failed"}
    BY DEF SoloInv, SoloTypeOK, OwnerKnows, Held, Owning
  <1>c. \A j \in Jobs : MaxFailures(j) \in Nat /\ 1 <= MaxFailures(j) /\ failures[j] \in Nat
    BY BudgetBounds DEF SoloTypeOK
  <1>d. \A x \in Jobs : Held(x)' <=> Held(x)
    BY <1>a DEF Held, Same
  <1>1. ASSUME NEW x \in Jobs
        PROVE  /\ Held(x) /\ state[x] \in {"Processing", "Failed"} =>
                     state'[x] = state[x] /\ failures'[x] = failures[x]
               /\ x \in rows' => state'[x] = "Scheduled"
               /\ Abandoned(x) => Abandoned(x)'
               /\ Abandoned(x)' => Abandoned(x) \/ ~Held(x)
               /\ failures'[x] <= MaxFailures(x)
               /\ state'[x] \in {"Unborn", "Enqueued", "Processing", "Scheduled"} =>
                     failures'[x] < MaxFailures(x)
    <2>a. /\ x \in rows => state[x] = "Scheduled"
          /\ Abandoned(x) => ~Held(x)
          /\ failures[x] <= MaxFailures(x)
          /\ state[x] \in {"Unborn", "Enqueued", "Processing", "Scheduled"} => failures[x] < MaxFailures(x)
      BY DEF SoloInv, RowsExact, StaleIsFree, WithinBudget
    <2> USE <1>c, <2>a DEF SoloTypeOK, SetState, Abandoned
    <2>1. CASE \E j \in Jobs : Enqueue(j) \/ AddScheduled(j)
      BY <2>1 DEF Enqueue, AddScheduled
    <2>2. CASE \E j \in Jobs : HeartbeatJob(j) /\ Held(j)
      BY <2>2 DEF HeartbeatJob
    <2>3. CASE \E j \in Jobs : BecomeStale(j) /\ ~Held(j)
      BY <2>3 DEF BecomeStale
    <2>4. CASE \E due \in SUBSET rows : GetDueScheduled(due)
      BY <2>4 DEF GetDueScheduled
    <2>5. CASE \E expired \in SUBSET {j \in Jobs : ~Held(j)} : RemoveExpired(expired)
      BY <2>5 DEF RemoveExpired, ExpirableStates
    <2> QED
      BY <2>1, <2>2, <2>3, <2>4, <2>5 DEF TableStep
  <1>e. rows' \subseteq Jobs
    BY DEF TableStep, Enqueue, AddScheduled, HeartbeatJob, BecomeStale, GetDueScheduled, RemoveExpired,
           SoloTypeOK
  <1> USE DEF SoloInv
  <1>2. OwnerKnows'
    <2> SUFFICES ASSUME NEW v \in Workers, pc'[v] \in Owning
                 PROVE  /\ pc'[v] \in Executing \cup {"load"} => state'[job'[v]] = "Processing"
                        /\ pc'[v] \in Executing => attempt'[v] = failures'[job'[v]]
                        /\ pc'[v] \in Settling => state'[job'[v]] = "Failed"
                        /\ pc'[v] = "scheduleRetry" => failures'[job'[v]] < MaxFailures(job'[v])
      BY DEF OwnerKnows, Owning, Settling, MaxFailures
    <2>1. Same(v) /\ pc[v] \in Owning
      BY <1>a DEF Same
    <2>2. state'[job[v]] = state[job[v]] /\ failures'[job[v]] = failures[job[v]]
      BY <1>1, <1>b, <2>1
    <2> QED
      BY <2>1, <2>2 DEF OwnerKnows, Same
  <1>3. OneOwner'
    BY <1>a DEF OneOwner, Same
  <1>4. RowsExact'
    BY <1>1, <1>e DEF RowsExact
  <1>5. StaleIsFree'
    BY <1>1, <1>d DEF StaleIsFree
  <1>6. ListedAbandoned'
    <2>1. \A tx \in open : tx.node \in Nodes /\ tx.job \in Jobs
      BY DEF Tx, SoloTypeOK
    <2> QED
      BY <1>1, <1>a, <2>1 DEF ListedAbandoned, SoloTypeOK
  <1>7. WithinBudget'
    BY <1>1 DEF WithinBudget, MaxFailures
  <1> QED
    BY <1>2, <1>3, <1>4, <1>5, <1>6, <1>7

\* The coordinator only takes a job whose run is over, and takes it once.
LEMMA CoordinatorSolo ==
    ASSUME SingleNode, SoloTypeOK, SoloInv, CoordinatorStep
    PROVE  SoloInv'
  <1>a. \A v \in Workers : Same(v)
    BY DEF CoordinatorStep
  <1>b. \A tx \in open : tx.node \in Nodes /\ tx.job \in Jobs
    BY DEF Tx, SoloTypeOK
  <1>c. \A x \in Jobs : Held(x)' <=> Held(x)
    BY <1>a DEF Held, Same
  <1>d. OneOwner'
    BY <1>a DEF SoloInv, OneOwner, Same
  <1>1. ASSUME UNCHANGED storeVars, ListedAbandoned'
        PROVE  SoloInv'
    <2>1. UNCHANGED <<state, failures, progress, rows>>
      BY <1>1 DEF storeVars
    <2>2. OwnerKnows'
      BY <1>a, <2>1 DEF SoloInv, OwnerKnows, Same, MaxFailures
    <2>3. RowsExact' /\ WithinBudget'
      BY <2>1 DEF SoloInv, RowsExact, WithinBudget, MaxFailures
    <2>4. StaleIsFree'
      BY <1>c, <2>1 DEF SoloInv, StaleIsFree, Abandoned
    <2> QED
      BY <1>1, <1>d, <2>2, <2>3, <2>4 DEF SoloInv
  <1>2. ASSUME NEW n \in Nodes, ~\E tx \in open : tx.node = n /\ tx.by = "coordinator"
        PROVE  open = {}
    BY <1>2, <1>b DEF SingleNode, SoloInv, ListedAbandoned
  <1>3. ASSUME NEW n \in Nodes, OrphanScan(n) PROVE SoloInv'
    <2>1. open = {} /\ open' = open
      BY <1>2, <1>3 DEF OrphanScan, CoordinatorBusy
    <2>2. UNCHANGED <<state, progress>> /\ UNCHANGED storeVars
      BY <1>3 DEF OrphanScan, storeVars
    <2>3. \A m \in Nodes : \A j \in orphans'[m] : j \in Jobs /\ Abandoned(j)
      BY <1>3 DEF OrphanScan, GetOrphanedJobs, Abandoned, SoloTypeOK, SoloInv, ListedAbandoned
    <2>4. ListedAbandoned'
      BY <2>1, <2>2, <2>3 DEF ListedAbandoned, Abandoned
    <2> QED
      BY <1>1, <2>2, <2>4
  <1>4. ASSUME NEW n \in Nodes, OrphanCheck(n) PROVE SoloInv'
    <2>1. open = {}
      BY <1>2, <1>4 DEF OrphanCheck
    <2>2. UNCHANGED <<state, progress>> /\ UNCHANGED storeVars
      BY <1>4 DEF OrphanCheck, storeVars
    <2>3. PICK j \in orphans[n] :
             /\ orphans' = [orphans EXCEPT ![n] = @ \ {j}]
             /\ open' \subseteq {[node |-> n, by |-> "coordinator", op |-> "requeue", job |-> j]}
      BY <1>4, <2>1 DEF OrphanCheck
    <2>4. Abandoned(j) /\ j \notin orphans'[n]
      BY <2>3 DEF SoloInv, ListedAbandoned, SoloTypeOK
    <2>5. \A m \in Nodes : orphans'[m] \subseteq orphans[m]
      BY <2>3 DEF SoloTypeOK
    <2>6. ListedAbandoned'
      BY <2>2, <2>3, <2>4, <2>5 DEF SoloInv, ListedAbandoned, Abandoned
    <2> QED
      BY <1>1, <2>2, <2>6
  <1>5. ASSUME NEW tx \in open, WriteRequeue(tx.job), open' = open \ {tx}, UNCHANGED orphans
        PROVE  SoloInv'
    <2>1. PICK k \in Jobs : k = tx.job
      BY <1>b
    <2>2. Abandoned(k) /\ ~Held(k)
      BY <2>1 DEF SoloInv, ListedAbandoned, StaleIsFree
    <2>3. /\ state' = [state EXCEPT ![k] = "Enqueued"]
          /\ progress' = [progress EXCEPT ![k] = "null"]
          /\ UNCHANGED <<failures, rows>>
      BY <1>5, <2>1, <2>2 DEF WriteRequeue, SetState, Exists, Missing, Abandoned
    <2>4. state'[k] = "Enqueued" /\ k \notin rows /\ ~Abandoned(k)'
      BY <2>2, <2>3 DEF SoloTypeOK, SoloInv, RowsExact, Abandoned
    <2>5. \A x \in Jobs \ {k} : state'[x] = state[x] /\ progress'[x] = progress[x]
      BY <2>3 DEF SoloTypeOK
    <2>6. \A v \in Workers : pc[v] \in Owning => job[v] \in Jobs \ {k}
      BY <2>2 DEF Held, SoloTypeOK
    <2>7. OwnerKnows'
      <3> SUFFICES ASSUME NEW v \in Workers, pc'[v] \in Owning
                   PROVE  /\ pc'[v] \in Executing \cup {"load"} => state'[job'[v]] = "Processing"
                          /\ pc'[v] \in Executing => attempt'[v] = failures'[job'[v]]
                          /\ pc'[v] \in Settling => state'[job'[v]] = "Failed"
                          /\ pc'[v] = "scheduleRetry" => failures'[job'[v]] < MaxFailures(job'[v])
        BY DEF OwnerKnows, Owning, Settling, MaxFailures
      <3>1. Same(v) /\ job[v] \in Jobs \ {k}
        BY <1>a, <2>6 DEF Same
      <3> QED
        BY <2>3, <2>5, <3>1 DEF SoloInv, OwnerKnows, Same
    <2>8. RowsExact'
      BY <2>3, <2>4, <2>5 DEF SoloInv, RowsExact, SoloTypeOK
    <2>9. StaleIsFree'
      BY <1>c, <2>4, <2>5 DEF SoloInv, StaleIsFree, Abandoned
    <2>10. ListedAbandoned'
      <3>1. open' = {}
        BY <1>5 DEF SoloInv, ListedAbandoned
      <3>2. \A n \in Nodes : k \notin orphans[n]
        BY <1>b, <2>1 DEF SingleNode, SoloInv, ListedAbandoned
      <3>3. \A n \in Nodes : \A j \in orphans[n] : j \in Jobs \ {k} /\ Abandoned(j)
        BY <3>2 DEF SoloTypeOK, SoloInv, ListedAbandoned
      <3>4. \A n \in Nodes : \A j \in orphans[n] : Abandoned(j)'
        BY <2>5, <3>3 DEF Abandoned
      <3> QED
        BY <1>5, <3>1, <3>4 DEF ListedAbandoned
    <2>11. WithinBudget'
      <3>1. failures[k] < MaxFailures(k)
        BY <2>2 DEF SoloInv, WithinBudget, Abandoned
      <3> QED
        BY <2>3, <2>5, <3>1 DEF SoloInv, WithinBudget, MaxFailures
    <2> QED
      BY <1>d, <2>7, <2>8, <2>9, <2>10, <2>11 DEF SoloInv
  <1> QED
    BY <1>3, <1>4, <1>5 DEF CoordinatorStep

\* Every step of a single node keeps the invariant.
LEMMA NextSoloInv ==
    ASSUME SingleNode, BaseInv, SoloInv, [Next]_vars
    PROVE  SoloInv'
  <1>1. SoloTypeOK
    BY BaseSoloType
  <1>2. SoloStep
    BY NextIsSolo DEF SoloInv
  <1> QED
    BY <1>1, <1>2, QuietSolo, OwnerSolo, TableSolo, CoordinatorSolo DEF SoloStep

\* Nothing is owned, listed or counted at first.
LEMMA InitSoloInv == Init => SoloInv
  <1> SUFFICES ASSUME Init PROVE SoloInv
    OBVIOUS
  <1>1. \A w \in Workers : pc[w] = "idle"
    BY DEF Init, EngineInit
  <1>2. \A j \in Jobs : state[j] = "Unborn" /\ failures[j] = 0 /\ progress[j] = "null"
    BY DEF Init, StoreInit
  <1>3. rows = {} /\ open = {} /\ \A n \in Nodes : orphans[n] = {}
    BY DEF Init, StoreInit
  <1>4. OwnerKnows /\ OneOwner
    BY <1>1 DEF OwnerKnows, OneOwner, Owning, Executing, Settling
  <1>5. RowsExact /\ StaleIsFree /\ ListedAbandoned
    BY <1>2, <1>3 DEF RowsExact, StaleIsFree, ListedAbandoned, Abandoned
  <1>6. WithinBudget
    BY <1>2, BudgetBounds DEF WithinBudget
  <1> QED
    BY <1>4, <1>5, <1>6 DEF SoloInv

\* On a single node the invariant always holds.
LEMMA SoloInductive ==
    ASSUME SingleNode
    PROVE  Spec => [](BaseInv /\ SoloInv)
  <1>1. BaseInv /\ SoloInv /\ [Next]_vars => SoloInv'
    BY NextSoloInv
  <1> QED
    BY <1>1, InitSoloInv, BaseInductive, PTL DEF Spec

\* On one node with punctual heartbeats no job is ever in the hands of two
\* workers between fetching and finalizing it, for any number of workers, jobs,
\* crashes, deadlines, broken connections and lost acknowledgements: orphan
\* recovery only takes a job whose run is over.
THEOREM NoDoubleRun ==
    ASSUME SingleNode
    PROVE  Spec => []SingleRunner
  <1>1. BaseInv /\ SoloInv => SingleRunner
    <2> SUFFICES ASSUME BaseInv, SoloInv, NEW v \in Workers, NEW w \in Workers,
                        v # w, job[v] # NoJob, job[v] = job[w]
                 PROVE  \E u \in {v, w} : pc[u] \in {"fire", "firing", "return"}
      BY DEF SingleRunner
    <2>1. pc[v] \in PCs /\ pc[w] \in PCs /\ job[v] \in Jobs
      BY DEF BaseInv, TypeOK, EngineTypeOK
    <2>2. pc[v] \notin {"idle", "dequeue", "stopped"} /\ pc[w] \notin {"idle", "dequeue", "stopped"}
      BY <2>1 DEF BaseInv, EngineInv, HoldsJob
    <2>3. ~(pc[v] \in Owning /\ pc[w] \in Owning)
      BY DEF SoloInv, OneOwner
    <2> QED
      BY <2>1, <2>2, <2>3 DEF PCs, InFlightPCs, Owning, Executing, Settling
  <1> QED
    BY <1>1, SoloInductive, PTL

\* There no job fails more often than RetryMax allows, whatever interrupts its
\* attempts, and one that waits for a retry has an attempt left.  The counting
\* bound AttemptCap may be any number from RetryMax on.
THEOREM BudgetKept ==
    ASSUME SingleNode
    PROVE  Spec => []RetryBudget
  <1>1. BaseInv /\ SoloInv => RetryBudget
    BY DEF SoloInv, WithinBudget, RetryBudget
  <1> QED
    BY <1>1, SoloInductive, PTL

\* And a job that has succeeded, died or been cancelled stays what it is until
\* the retention sweep erases it: no late answer, no promotion and no orphan
\* recovery ever brings it back.
THEOREM NoResurrection ==
    ASSUME SingleNode
    PROVE  Spec => IrreversibleStable
  <1> DEFINE Stays == \A j \in Jobs : state[j] \in IrreversibleStates => state'[j] \in {state[j], "Removed"}
  <1>1. BaseInv /\ SoloInv /\ [Next]_vars => [Stays]_vars
    <2> SUFFICES ASSUME BaseInv, SoloInv, Next PROVE Stays
      OBVIOUS
    <2>a. SoloTypeOK /\ SoloStep
      BY BaseSoloType, NextIsSolo DEF SoloInv
    <2> SUFFICES ASSUME NEW j \in Jobs, state[j] \in IrreversibleStates
                 PROVE  state'[j] \in {state[j], "Removed"}
      OBVIOUS
    <2> USE <2>a DEF SoloTypeOK, IrreversibleStates, SetState
    <2>1. CASE QuietStep
      BY <2>1 DEF QuietStep
    <2>2. ASSUME NEW w \in Workers, OwnerStep(w) PROVE state'[j] = state[j]
      BY <2>2 DEF OwnerStep, Dequeue, ApplyState, ScheduleRetry
    <2>3. CASE TableStep
      <3>1. j \notin rows
        BY DEF SoloInv, RowsExact
      <3> QED
        BY <2>3, <3>1 DEF TableStep, Enqueue, AddScheduled, HeartbeatJob, BecomeStale, GetDueScheduled,
                          RemoveExpired
    <2>4. CASE CoordinatorStep
      <3>1. \A tx \in open : state[tx.job] = "Processing"
        BY DEF SoloInv, ListedAbandoned, Abandoned
      <3> QED
        BY <2>4, <3>1 DEF CoordinatorStep, OrphanScan, OrphanCheck, WriteRequeue, storeVars
    <2> QED
      BY <2>1, <2>2, <2>3, <2>4 DEF SoloStep
  <1>2. IrreversibleStable <=> [][Stays]_vars
    BY DEF IrreversibleStable
  <1> QED
    BY <1>1, <1>2, SoloInductive, PTL DEF Spec

=============================================================================
