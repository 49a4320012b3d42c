------------------------- MODULE MemoryEngineProofs -------------------------
(***************************************************************************)
(* Proofs about MemoryEngine for every set of workers, jobs and queues and *)
(* every choice of the other constants.                                    *)
(***************************************************************************)
EXTENDS MemoryEngine, EngineProofs, TLAPS, FiniteSetTheorems, SequenceTheorems

-----------------------------------------------------------------------------
(* Sequences *)

\* A pushed element is in the queue, and the others stay.
LEMMA RangeAppend ==
    ASSUME NEW S, NEW s \in Seq(S), NEW e \in S
    PROVE  Append(s, e) \in Seq(S) /\ Range(Append(s, e)) = Range(s) \cup {e}
  <1>1. /\ Append(s, e) \in Seq(S)
        /\ Len(Append(s, e)) = Len(s) + 1
        /\ \A i \in 1..Len(s) : Append(s, e)[i] = s[i]
        /\ Append(s, e)[Len(s) + 1] = e
    BY AppendProperties
  <1>2. Range(s) = {s[i] : i \in 1..Len(s)}
    BY RangeEquality
  <1>3. Range(Append(s, e)) = {Append(s, e)[i] : i \in 1..Len(Append(s, e))}
    BY <1>1, RangeEquality
  <1>4. Len(s) \in Nat
    OBVIOUS
  <1> QED
    BY <1>1, <1>2, <1>3, <1>4

\* Popping the head keeps every other element.
LEMMA RangeTail ==
    ASSUME NEW S, NEW s \in Seq(S), s # <<>>, NEW x \in Range(s), x # Head(s)
    PROVE  x \in Range(Tail(s))
  <1>1. PICK i \in 1..Len(s) : s[i] = x
    BY RangeEquality
  <1>2. i # 1
    BY <1>1
  <1>3. Tail(s) \in Seq(S) /\ i - 1 \in 1..Len(Tail(s)) /\ Tail(s)[i - 1] = x
    BY <1>1, <1>2
  <1>4. Range(Tail(s)) = {Tail(s)[k] : k \in 1..Len(Tail(s))}
    BY <1>3, RangeEquality
  <1> QED
    BY <1>3, <1>4

\* A permutation of a finite set is a sequence over it that misses none of it.
LEMMA PermutationRange ==
    ASSUME NEW S, IsFiniteSet(S), NEW f \in SetToSeqs(S)
    PROVE  f \in Seq(S) /\ Range(f) = S
  <1> DEFINE D == 1..Cardinality(S)
  <1>1. Cardinality(S) \in Nat
    BY FS_CardinalityType
  <1>2. f \in [D -> S] /\ \A i, j \in D : i # j => f[i] # f[j]
    BY DEF SetToSeqs
  <1>3. f \in Seq(S)
    BY <1>1, <1>2
  <1>4. Cardinality(D) = Cardinality(S)
    BY <1>1, FS_Interval
  <1>5. f \in Injection(D, S)
    BY <1>2 DEF Injection, IsInjective
  <1>6. f \in Surjection(D, S)
    BY <1>4, <1>5, FS_Injection
  <1>7. Range(f) = S
    BY <1>2, <1>6 DEF Range, Surjection
  <1> QED
    BY <1>3, <1>7

-----------------------------------------------------------------------------
(* Every step of the system is one step of the engine beside one step of   *)
(* the store, so an invariant of either half is proved on that half alone. *)

\* What a step may do to the store's variables.
StoreStep ==
    \/ UNCHANGED storeVars
    \/ \E j \in Jobs :
          \/ Enqueue(j) \/ AddScheduled(j) \/ Requeue(j) \/ DeleteJob(j)
          \/ ScheduleRetry(j) \/ HeartbeatJob(j) \/ BecomeStale(j)
          \/ \E w \in Workers : SetJobResult(j, w)
          \/ \E new \in {"Succeeded", "Failed", "Cancelled"} : ApplyState(j, "Processing", new)
          \/ ApplyState(j, "Failed", "Dead")
          \/ \E c \in Conditions : AddContinuation(j, c)
    \/ \E q \in Queues : /\ queues[q] # <<>>
                         /\ DequeueMissing(q) \/ \E j \in Jobs : Dequeue(q, j)
    \/ \E due \in SUBSET scheduled : GetDueScheduled(due)
    \/ "cleanup" \in Ops /\ \E expired \in SUBSET Jobs : RemoveExpired(expired)

\* Every step of a worker is one fragment of the engine and one of the store.
LEMMA WorkerDecomposes ==
    ASSUME TypeOK, HoldsJob, NEW w \in Workers, WorkerLocal(w) \/ WorkerStore(w) \/ Heartbeat(w)
    PROVE  EngineStep /\ StoreStep /\ orphans' \in [Nodes -> SUBSET Jobs] /\ apiOps' \in 0..MaxApiOps
  <1> USE EngineAssumption DEF HoldsJob
  <1>0. /\ pc[w] \notin {"idle", "dequeue", "stopped"} => job[w] \in Jobs
        /\ NodeOf[w] \in Nodes
        /\ orphans \in [Nodes -> SUBSET Jobs]
        /\ apiOps \in 0..MaxApiOps
    BY DEF TypeOK
  <1>1. CASE WorkerLocal(w)
    BY <1>0, <1>1 DEF WorkerLocal, EngineStep, StoreStep
  <1>2. CASE DequeueJob(w)
    BY <1>0, <1>2 DEF DequeueJob, FirstNonEmpty, EngineStep, StoreStep
  <1>3. CASE DequeueThrows(w)
    BY <1>0, <1>3 DEF DequeueThrows, FirstNonEmpty, EngineStep, StoreStep
  <1>4. CASE DequeueEmpty(w)
    BY <1>0, <1>4 DEF DequeueEmpty, EngineStep, StoreStep
  <1>5. CASE LoadJob(w)
    <2>1. Exists(job[w]) => failures[job[w]] \in 0..AttemptCap
      BY <1>0, <1>5 DEF LoadJob, TypeOK, StoreTypeOK
    <2> QED
      BY <1>0, <1>5, <2>1 DEF LoadJob, EngineStep, StoreStep
  <1>6. CASE Heartbeat(w)
    BY <1>0, <1>6 DEF Heartbeat, InFlight, InFlightPCs, EngineStep, StoreStep
  <1>7. CASE SetResult(w)
    BY <1>0, <1>7 DEF SetResult, Refused, InFlight, InFlightPCs, EngineStep, StoreStep
  <1>8. CASE ApplySucceeded(w)
    BY <1>0, <1>8 DEF ApplySucceeded, FinishAs, Refused, InFlight, InFlightPCs, JobStates,
                      EngineStep, StoreStep
  <1>9. CASE ApplyCancelled(w)
    BY <1>0, <1>9 DEF ApplyCancelled, FinishAs, Refused, InFlight, InFlightPCs, JobStates,
                      EngineStep, StoreStep
  <1>10. CASE ApplyFailed(w)
    BY <1>0, <1>10 DEF ApplyFailed, AfterFailed, Refused, InFlight, InFlightPCs, EngineStep, StoreStep
  <1>11. CASE ApplyDead(w)
    BY <1>0, <1>11 DEF ApplyDead, Refused, InFlight, InFlightPCs, JobStates, EngineStep, StoreStep
  <1>12. CASE RetryLater(w)
    BY <1>0, <1>12 DEF RetryLater, Refused, InFlight, InFlightPCs, EngineStep, StoreStep
  <1>13. CASE FireContinuations(w)
    <2>1. (IF Exists(job[w]) THEN continuations[job[w]] ELSE {}) \in SUBSET Conditions
      BY <1>0, <1>13 DEF FireContinuations, TypeOK, StoreTypeOK
    <2> QED
      BY <1>0, <1>13, <2>1 DEF FireContinuations, InFlight, InFlightPCs, EngineStep, StoreStep
  <1>14. CASE EnqueueChild(w)
    <2>1. todo[w] \in SUBSET Conditions
      BY DEF TypeOK, EngineTypeOK
    <2> QED
      BY <1>0, <1>14, <2>1 DEF EnqueueChild, EngineStep, StoreStep
  <1> QED
    BY <1>1, <1>2, <1>3, <1>4, <1>5, <1>6, <1>7, <1>8, <1>9, <1>10, <1>11, <1>12, <1>13, <1>14
    DEF WorkerStore

\* So is every other step, which lets the two halves be proved apart.
LEMMA NextDecomposes ==
    ASSUME TypeOK, HoldsJob, Next
    PROVE  EngineStep /\ StoreStep /\ orphans' \in [Nodes -> SUBSET Jobs] /\ apiOps' \in 0..MaxApiOps
  <1>0. /\ orphans \in [Nodes -> SUBSET Jobs]
        /\ apiOps \in 0..MaxApiOps
        /\ MaxApiOps \in Nat
        /\ scheduled \in SUBSET Jobs
    BY MemoryEngineAssumption DEF TypeOK, StoreTypeOK
  <1>1. CASE \E w \in Workers : WorkerLocal(w) \/ WorkerStore(w) \/ Heartbeat(w)
    BY <1>1, WorkerDecomposes
  <1>2. ASSUME NEW n \in Nodes,
               TickScheduler(n) \/ OrphanScan(n) \/ OrphanRequeue(n) \/ CleanupTick(n) \/ Stop(n)
        PROVE  EngineStep /\ StoreStep /\ orphans' \in [Nodes -> SUBSET Jobs] /\ apiOps' \in 0..MaxApiOps
    <2>1. CASE TickScheduler(n)
      BY <1>0, <2>1 DEF TickScheduler, EngineStep, StoreStep
    <2>2. CASE OrphanScan(n)
      BY <1>0, <2>2 DEF OrphanScan, GetOrphanedJobs, EngineStep, StoreStep
    <2>3. CASE OrphanRequeue(n)
      BY <1>0, <2>3 DEF OrphanRequeue, EngineStep, StoreStep
    <2>4. CASE CleanupTick(n)
      BY <1>0, <2>4 DEF CleanupTick, EngineStep, StoreStep
    <2>5. CASE Stop(n)
      BY <1>0, <2>5 DEF Stop, EngineStep, StoreStep
    <2> QED
      BY <1>2, <2>1, <2>2, <2>3, <2>4, <2>5
  <1>3. CASE \E j \in Jobs : Stale(j)
    BY <1>0, <1>3 DEF Stale, EngineStep, StoreStep
  <1>4. ASSUME NEW n \in Nodes, NEW j \in Jobs, NEW c \in Conditions,
               \/ handleEnqueue(n, j) \/ handleSchedule(n, j) \/ handleRequeue(n, j)
               \/ handleCancel(n, j) \/ handleDelete(n, j) \/ handleContinue(n, j, c)
        PROVE  EngineStep /\ StoreStep /\ orphans' \in [Nodes -> SUBSET Jobs] /\ apiOps' \in 0..MaxApiOps
    <2>1. CASE handleEnqueue(n, j)
      BY <1>0, <2>1 DEF handleEnqueue, EngineStep, StoreStep
    <2>2. CASE handleSchedule(n, j)
      BY <1>0, <2>2 DEF handleSchedule, EngineStep, StoreStep
    <2>3. CASE handleRequeue(n, j)
      BY <1>0, <2>3 DEF handleRequeue, Request, EngineStep, StoreStep
    <2>4. CASE handleCancel(n, j)
      BY <1>0, <2>4 DEF handleCancel, Request, EngineStep, StoreStep
    <2>5. CASE handleDelete(n, j)
      BY <1>0, <2>5 DEF handleDelete, Request, EngineStep, StoreStep
    <2>6. CASE handleContinue(n, j, c)
      BY <1>0, <2>6 DEF handleContinue, Request, EngineStep, StoreStep
    <2> QED
      BY <1>4, <2>1, <2>2, <2>3, <2>4, <2>5, <2>6
  <1>5. "OnAny" \in Conditions
    BY DEF Conditions
  <1> QED
    BY <1>1, <1>2, <1>3, <1>4, <1>5 DEF Next

-----------------------------------------------------------------------------
(* The store's half *)

\* Appending to a queue keeps every queue a sequence of job IDs that holds
\* what it held, and the pushed job is in its queue.
LEMMA PushBackQueue ==
    ASSUME StoreTypeOK, NEW j \in Jobs, PushBack(j)
    PROVE  /\ queues' \in [Queues -> Seq(Jobs)]
           /\ j \in Range(queues'[QueueOf[j]])
           /\ \A q \in Queues : Range(queues[q]) \subseteq Range(queues'[q])
  <1>1. QueueOf[j] \in Queues
    BY EngineAssumption
  <1>2. queues \in [Queues -> Seq(Jobs)]
    BY DEF StoreTypeOK
  <1>3. queues[QueueOf[j]] \in Seq(Jobs)
    BY <1>1, <1>2
  <1>4. /\ Append(queues[QueueOf[j]], j) \in Seq(Jobs)
        /\ Range(Append(queues[QueueOf[j]], j)) = Range(queues[QueueOf[j]]) \cup {j}
    BY <1>3, RangeAppend
  <1>5. queues' = [queues EXCEPT ![QueueOf[j]] = Append(queues[QueueOf[j]], j)]
    BY DEF PushBack
  <1> QED
    BY <1>1, <1>2, <1>4, <1>5

\* Popping the head of a queue removes no other job from any queue.
LEMMA PopQueue ==
    ASSUME StoreTypeOK, NEW q \in Queues, queues[q] # <<>>,
           queues' = [queues EXCEPT ![q] = Tail(@)]
    PROVE  /\ queues' \in [Queues -> Seq(Jobs)]
           /\ Head(queues[q]) \in Jobs
           /\ \A p \in Queues : \A k \in Range(queues[p]) :
                 k # Head(queues[q]) => k \in Range(queues'[p])
  <1>1. queues \in [Queues -> Seq(Jobs)]
    BY DEF StoreTypeOK
  <1>2. queues[q] \in Seq(Jobs)
    BY <1>1
  <1>3. Tail(queues[q]) \in Seq(Jobs) /\ Head(queues[q]) \in Jobs
    BY <1>2
  <1>4. queues' \in [Queues -> Seq(Jobs)]
    BY <1>1, <1>3
  <1>5. ASSUME NEW p \in Queues, NEW k \in Range(queues[p]), k # Head(queues[q])
        PROVE  k \in Range(queues'[p])
    <2>1. CASE p = q
      <3>1. k \in Range(Tail(queues[q]))
        BY <1>2, <1>5, <2>1, RangeTail
      <3> QED
        BY <1>1, <2>1, <3>1
    <2>2. CASE p # q
      BY <1>1, <1>5, <2>2
    <2> QED
      BY <2>1, <2>2
  <1> QED
    BY <1>3, <1>4, <1>5

\* A promoted batch lands in its queues, behind what was there.
LEMMA PromotedQueue ==
    ASSUME StoreTypeOK, NEW due \in SUBSET Jobs, GetDueScheduled(due)
    PROVE  /\ queues' \in [Queues -> Seq(Jobs)]
           /\ \A j \in due : j \in Range(queues'[QueueOf[j]])
           /\ \A q \in Queues : Range(queues[q]) \subseteq Range(queues'[q])
  <1> DEFINE Of(q) == {j \in due : QueueOf[j] = q}
  <1>1. PICK pushed \in [Queues -> SetToAllKPermutations(due)] :
             /\ \A q \in Queues : pushed[q] \in SetToSeqs(Of(q))
             /\ queues' = [q \in Queues |-> queues[q] \o pushed[q]]
    BY DEF GetDueScheduled
  <1>2. queues \in [Queues -> Seq(Jobs)]
    BY DEF StoreTypeOK
  <1>3. ASSUME NEW q \in Queues
        PROVE  /\ queues'[q] \in Seq(Jobs)
               /\ Range(queues'[q]) = Range(queues[q]) \cup Of(q)
    <2>1. Of(q) \in SUBSET Jobs /\ IsFiniteSet(Of(q))
      BY MemoryAssumption, FS_Subset
    <2>2. pushed[q] \in SetToSeqs(Of(q))
      BY <1>1
    <2>3. pushed[q] \in Seq(Of(q)) /\ Range(pushed[q]) = Of(q)
      BY <2>1, <2>2, PermutationRange
    <2>4. pushed[q] \in Seq(Jobs)
      BY <2>1, <2>3
    <2>5. queues[q] \in Seq(Jobs) /\ queues'[q] = queues[q] \o pushed[q]
      BY <1>1, <1>2
    <2>6. queues[q] \o pushed[q] \in Seq(Jobs)
      BY <2>4, <2>5
    <2>7. Range(queues[q] \o pushed[q]) = Range(queues[q]) \cup Range(pushed[q])
      BY <2>4, <2>5, RangeConcatenation
    <2> QED
      BY <2>3, <2>5, <2>6, <2>7
  <1>4. queues' \in [Queues -> Seq(Jobs)]
    BY <1>1, <1>3
  <1>5. \A j \in due : QueueOf[j] \in Queues /\ j \in Of(QueueOf[j])
    BY EngineAssumption
  <1> QED
    BY <1>3, <1>4, <1>5

\* Every storage call keeps the types of the maps and queues it writes.
LEMMA StoreStepType ==
    ASSUME StoreTypeOK, StoreStep
    PROVE  StoreTypeOK'
  <1> USE DEF StoreTypeOK
  <1>1. CASE UNCHANGED storeVars
    BY <1>1 DEF storeVars
  <1>2. ASSUME NEW j \in Jobs, Enqueue(j) \/ Requeue(j)
        PROVE  StoreTypeOK'
    BY <1>2, PushBackQueue DEF Enqueue, Requeue, JobStates
  <1>3. ASSUME NEW j \in Jobs, AddScheduled(j) \/ ScheduleRetry(j) \/ DeleteJob(j)
        PROVE  StoreTypeOK'
    BY <1>3 DEF AddScheduled, ScheduleRetry, DeleteJob, JobStates
  <1>4. ASSUME NEW j \in Jobs, HeartbeatJob(j) \/ BecomeStale(j) \/ \E w \in Workers : SetJobResult(j, w)
        PROVE  StoreTypeOK'
    BY <1>4 DEF HeartbeatJob, BecomeStale, SetJobResult
  <1>5. ASSUME NEW j \in Jobs, NEW from, NEW new \in JobStates, ApplyState(j, from, new)
        PROVE  StoreTypeOK'
    <2>1. AttemptCap \in Nat
      BY EngineAssumption
    <2>2. AttemptCount(j) \in 0..AttemptCap
      BY <2>1 DEF AttemptCount
    <2> QED
      BY <1>5, <2>2 DEF ApplyState
  <1>6. ASSUME NEW j \in Jobs, NEW c \in Conditions, AddContinuation(j, c)
        PROVE  StoreTypeOK'
    BY <1>6 DEF AddContinuation
  <1>7. ASSUME NEW q \in Queues, queues[q] # <<>>, DequeueMissing(q) \/ \E j \in Jobs : Dequeue(q, j)
        PROVE  StoreTypeOK'
    BY <1>7, PopQueue DEF DequeueMissing, Dequeue, JobStates
  <1>8. ASSUME NEW due \in SUBSET scheduled, GetDueScheduled(due)
        PROVE  StoreTypeOK'
    <2>1. queues' \in [Queues -> Seq(Jobs)]
      BY <1>8, PromotedQueue
    <2> QED
      BY <1>8, <2>1 DEF GetDueScheduled, JobStates
  <1>9. ASSUME NEW expired \in SUBSET Jobs, RemoveExpired(expired)
        PROVE  StoreTypeOK'
    <2>1. 0 \in 0..AttemptCap
      BY EngineAssumption
    <2>2. failures' \in [Jobs -> 0..AttemptCap]
      BY <1>9, <2>1 DEF RemoveExpired
    <2>3. /\ state' \in [Jobs -> JobStates \cup Missing]
          /\ scheduled' \in SUBSET Jobs
      BY <1>9 DEF RemoveExpired, Missing
    <2>4. result' \in [Jobs -> Workers \cup {NoWorker}]
      BY <1>9 DEF RemoveExpired
    <2>5. progress' \in [Jobs -> {"none", "fresh", "stale"}]
      BY <1>9 DEF RemoveExpired
    <2>6. continuations' \in [Jobs -> SUBSET Conditions]
      BY <1>9 DEF RemoveExpired
    <2> QED
      BY <1>9, <2>2, <2>3, <2>4, <2>5, <2>6 DEF RemoveExpired
  <1>10. {"Succeeded", "Failed", "Cancelled", "Dead"} \subseteq JobStates
    BY DEF JobStates
  <1> QED
    BY <1>1, <1>2, <1>3, <1>4, <1>5, <1>6, <1>7, <1>8, <1>9, <1>10 DEF StoreStep

\* The two facts about the store keep each other: the scheduler promotes only
\* jobs that exist, and the sweep erases only jobs that nothing tracks.
StoreInv == StoreTypeOK /\ Tracked /\ NoDanglingKeys

\* No storage call loses a job from the place where the engine looks for it, or
\* leaves a key behind for a job that it erases.
LEMMA StoreStepInv ==
    ASSUME StoreInv, StoreStep
    PROVE  StoreInv'
  <1>0. StoreTypeOK'
    BY StoreStepType DEF StoreInv
  <1> DEFINE Good(k) ==
          /\ state[k] = "Enqueued" => k \in Range(queues[QueueOf[k]])
          /\ state[k] = "Scheduled" => k \in scheduled
          /\ state[k] \in {"Processing", "Failed"} => progress[k] # "none"
          /\ state[k] \in Missing => k \notin scheduled /\ progress[k] = "none"
  <1> SUFFICES ASSUME NEW k \in Jobs
               PROVE  Good(k)'
    BY <1>0 DEF StoreInv, Tracked, NoDanglingKeys, Exists
  <1>a. Good(k)
    BY DEF StoreInv, Tracked, NoDanglingKeys, Exists
  <1>b. QueueOf[k] \in Queues
    BY EngineAssumption
  <1>c. StoreTypeOK
    BY DEF StoreInv
  <1> HIDE DEF StoreInv
  <1> USE <1>a, <1>b, <1>c
  <1>1. CASE UNCHANGED storeVars
    BY <1>1 DEF storeVars
  <1>2. ASSUME NEW j \in Jobs, Enqueue(j) \/ Requeue(j)
        PROVE  Good(k)'
    <2>1. /\ j \in Range(queues'[QueueOf[j]])
          /\ Range(queues[QueueOf[k]]) \subseteq Range(queues'[QueueOf[k]])
      BY <1>2, PushBackQueue DEF Enqueue, Requeue
    <2> QED
      BY <1>2, <2>1 DEF Enqueue, Requeue, Exists, Missing, StoreTypeOK
  <1>3. ASSUME NEW j \in Jobs, AddScheduled(j) \/ ScheduleRetry(j) \/ DeleteJob(j)
        PROVE  Good(k)'
    BY <1>3 DEF AddScheduled, ScheduleRetry, DeleteJob, Missing, StoreTypeOK
  <1>4. ASSUME NEW j \in Jobs, HeartbeatJob(j) \/ BecomeStale(j) \/ \E w \in Workers : SetJobResult(j, w)
        PROVE  Good(k)'
    BY <1>4 DEF HeartbeatJob, BecomeStale, SetJobResult, Exists, StoreTypeOK
  <1>5. ASSUME NEW j \in Jobs,
               \/ \E new \in {"Succeeded", "Failed", "Cancelled"} : ApplyState(j, "Processing", new)
               \/ ApplyState(j, "Failed", "Dead")
        PROVE  Good(k)'
    BY <1>5 DEF ApplyState, Missing, StoreTypeOK
  <1>6. ASSUME NEW j \in Jobs, NEW c \in Conditions, AddContinuation(j, c)
        PROVE  Good(k)'
    BY <1>6 DEF AddContinuation
  <1>7. ASSUME NEW q \in Queues, queues[q] # <<>>, NEW j \in Jobs, Dequeue(q, j)
        PROVE  Good(k)'
    <2>1. k \in Range(queues[QueueOf[k]]) /\ k # j => k \in Range(queues'[QueueOf[k]])
      BY <1>7, PopQueue DEF Dequeue
    <2> QED
      BY <1>7, <2>1 DEF Dequeue, Missing, StoreTypeOK
  <1>8. ASSUME NEW q \in Queues, queues[q] # <<>>, DequeueMissing(q)
        PROVE  Good(k)'
    <2>1. k \in Range(queues[QueueOf[k]]) /\ k # Head(queues[q]) => k \in Range(queues'[QueueOf[k]])
      BY <1>8, PopQueue DEF DequeueMissing
    <2>2. state[k] = "Enqueued" => k # Head(queues[q])
      BY <1>8 DEF DequeueMissing, Exists, Missing
    <2> QED
      BY <1>8, <2>1, <2>2 DEF DequeueMissing
  <1>9. ASSUME NEW due \in SUBSET scheduled, GetDueScheduled(due)
        PROVE  Good(k)'
    <2>1. /\ k \in due => k \in Range(queues'[QueueOf[k]])
          /\ Range(queues[QueueOf[k]]) \subseteq Range(queues'[QueueOf[k]])
      BY <1>9, PromotedQueue DEF StoreTypeOK
    <2> QED
      BY <1>9, <2>1 DEF GetDueScheduled, Missing
  <1>10. ASSUME NEW expired \in SUBSET Jobs, RemoveExpired(expired)
        PROVE  Good(k)'
    BY <1>10 DEF RemoveExpired, ExpirableStates, Missing
  <1> QED
    BY <1>1, <1>2, <1>3, <1>4, <1>5, <1>6, <1>7, <1>8, <1>9, <1>10 DEF StoreStep

-----------------------------------------------------------------------------
(* The theorems *)

\* The inductive invariant.
IInv == TypeOK /\ EngineInv /\ StoreInv

\* The empty store and the idle engine satisfy the inductive invariant ...
LEMMA InitIInv == Init => IInv
  <1> SUFFICES ASSUME Init PROVE IInv
    OBVIOUS
  <1>1. EngineInv
    BY EngineInitInv DEF Init
  <1>3. StoreTypeOK
    <2>1. 0 \in 0..AttemptCap
      BY EngineAssumption
    <2>2. state \in [Jobs -> JobStates \cup Missing] /\ failures \in [Jobs -> 0..AttemptCap]
      BY <2>1 DEF Init, StoreInit, Missing
    <2>3. result \in [Jobs -> Workers \cup {NoWorker}] /\ progress \in [Jobs -> {"none", "fresh", "stale"}]
      BY DEF Init, StoreInit
    <2>4. queues \in [Queues -> Seq(Jobs)]
      BY DEF Init, StoreInit
    <2>5. continuations \in [Jobs -> SUBSET Conditions] /\ scheduled \in SUBSET Jobs
      BY DEF Init, StoreInit
    <2> QED
      BY <2>2, <2>3, <2>4, <2>5 DEF Init, StoreInit, StoreTypeOK
  <1>4. Tracked /\ NoDanglingKeys
    BY DEF Init, StoreInit, Tracked, NoDanglingKeys, Exists, Missing
  <1>5. orphans \in [Nodes -> SUBSET Jobs] /\ apiOps \in 0..MaxApiOps
    BY MemoryEngineAssumption DEF Init
  <1> QED
    BY <1>1, <1>3, <1>4, <1>5 DEF IInv, TypeOK, EngineInv, StoreInv

\* ... every step keeps it ...
LEMMA NextIInv == IInv /\ [Next]_vars => IInv'
  <1> SUFFICES ASSUME IInv, [Next]_vars PROVE IInv'
    OBVIOUS
  <1>1. CASE Next
    <2>1. EngineStep /\ StoreStep /\ orphans' \in [Nodes -> SUBSET Jobs] /\ apiOps' \in 0..MaxApiOps
      BY <1>1, NextDecomposes DEF IInv, EngineInv
    <2>2. EngineInv'
      BY <2>1, EngineStepInv DEF IInv
    <2>3. StoreInv'
      BY <2>1, StoreStepInv DEF IInv
    <2> QED
      BY <2>1, <2>2, <2>3 DEF IInv, TypeOK, EngineInv, StoreInv
  <1>2. CASE UNCHANGED vars
    <2>1. EngineStep /\ StoreStep /\ UNCHANGED <<orphans, apiOps>>
      BY <1>2 DEF vars, EngineStep, StoreStep
    <2>2. EngineInv'
      BY <2>1, EngineStepInv DEF IInv
    <2>3. StoreInv'
      BY <2>1, StoreStepInv DEF IInv
    <2> QED
      BY <2>1, <2>2, <2>3 DEF IInv, TypeOK, EngineInv, StoreInv
  <1> QED
    BY <1>1, <1>2

\* ... so it always holds.
LEMMA Inductive == Spec => []IInv
  <1> QED
    BY InitIInv, NextIInv, PTL DEF Spec

\* Every variable of the engine, the store and the loops keeps its type.
THEOREM TypeCorrect == Spec => []TypeOK
  <1>1. IInv => TypeOK
    BY DEF IInv
  <1> QED
    BY <1>1, Inductive, PTL

\* No job that still has to run is ever lost by the memory backend, for any
\* number of workers, jobs and queues and any interleaving of their calls.
THEOREM NoJobLost == Spec => []Tracked
  <1>1. IInv => Tracked
    BY DEF IInv, StoreInv
  <1> QED
    BY <1>1, Inductive, PTL

\* The maps of the memory backend never keep a key of an erased job.
THEOREM NoKeyDangles == Spec => []NoDanglingKeys
  <1>1. IInv => NoDanglingKeys
    BY DEF IInv, StoreInv
  <1> QED
    BY <1>1, Inductive, PTL

\* Cancelling a job never cancels the run of another job.
THEOREM CancelIsAimed == Spec => []CancelHitsItsJob
  <1>1. IInv => CancelHitsItsJob
    BY DEF IInv, EngineInv
  <1> QED
    BY <1>1, Inductive, PTL

\* The counters behind queue_limits never leak or miss a slot.
THEOREM NoSlotLeaks == Spec => []ActiveAccurate
  <1>1. IInv => ActiveAccurate
    BY DEF IInv, EngineInv
  <1> QED
    BY <1>1, Inductive, PTL

-----------------------------------------------------------------------------
(* The mutex *)

\* Every queue element names a job that exists.
QueuedExist == \A q \in Queues : \A j \in Range(queues[q]) : Exists(j)

\* Only the retention sweep erases a job whose queue element stays.
LEMMA StoreStepQueued ==
    ASSUME "cleanup" \notin Ops, StoreTypeOK, QueuedExist, fatal = FALSE, StoreStep
    PROVE  QueuedExist' /\ fatal' = FALSE
  <1>a. /\ queues \in [Queues -> Seq(Jobs)]
        /\ state \in [Jobs -> JobStates \cup Missing]
        /\ scheduled \subseteq Jobs
    BY DEF StoreTypeOK
  <1>b. \A q \in Queues : Range(queues[q]) \subseteq Jobs
    BY <1>a DEF Range
  <1>1. ASSUME \A j \in Jobs : Exists(j) => Exists(j)', fatal' = fatal,
               \A q \in Queues : \A j \in Range(queues'[q]) : j \in Range(queues[q]) \/ Exists(j)'
        PROVE  QueuedExist' /\ fatal' = FALSE
    BY <1>1, <1>b DEF QueuedExist
  <1>2. ASSUME \A j \in Jobs : Exists(j) => Exists(j)', fatal' = fatal, queues' = queues
        PROVE  QueuedExist' /\ fatal' = FALSE
    BY <1>1, <1>2
  <1>3. CASE UNCHANGED storeVars
    BY <1>2, <1>3 DEF storeVars, Exists
  <1>4. ASSUME NEW j \in Jobs, Enqueue(j) \/ Requeue(j)
        PROVE  QueuedExist' /\ fatal' = FALSE
    <2>1. /\ state' = [state EXCEPT ![j] = "Enqueued"] /\ fatal' = fatal
          /\ queues' = [queues EXCEPT ![QueueOf[j]] = Append(@, j)]
      BY <1>4 DEF Enqueue, Requeue, PushBack
    <2>2. \A k \in Jobs : Exists(k) => Exists(k)'
      BY <1>a, <2>1 DEF Exists, Missing
    <2>3. Exists(j)'
      BY <1>a, <2>1 DEF Exists, Missing
    <2>4. ASSUME NEW q \in Queues, NEW k \in Range(queues'[q]) PROVE k \in Range(queues[q]) \/ k = j
      <3>1. CASE q = QueueOf[j]
        <4>1. queues'[q] = Append(queues[q], j) /\ queues[q] \in Seq(Jobs)
          BY <1>a, <2>1, <3>1
        <4> QED
          BY <2>4, <4>1, RangeAppend
      <3>2. CASE q # QueueOf[j]
        BY <1>a, <2>1, <2>4, <3>2
      <3> QED
        BY <3>1, <3>2
    <2> QED
      BY <1>1, <2>1, <2>2, <2>3, <2>4
  <1>5. ASSUME NEW j \in Jobs,
               \/ AddScheduled(j) \/ DeleteJob(j) \/ ScheduleRetry(j) \/ HeartbeatJob(j) \/ BecomeStale(j)
               \/ \E w \in Workers : SetJobResult(j, w)
               \/ \E new \in {"Succeeded", "Failed", "Cancelled"} : ApplyState(j, "Processing", new)
               \/ ApplyState(j, "Failed", "Dead")
               \/ \E c \in Conditions : AddContinuation(j, c)
        PROVE  QueuedExist' /\ fatal' = FALSE
    <2>1. queues' = queues /\ fatal' = fatal
      BY <1>5 DEF AddScheduled, DeleteJob, ScheduleRetry, HeartbeatJob, BecomeStale, SetJobResult, ApplyState,
                  AddContinuation
    <2>2. \A k \in Jobs : Exists(k) => Exists(k)'
      BY <1>5, <1>a DEF AddScheduled, DeleteJob, ScheduleRetry, HeartbeatJob, BecomeStale, SetJobResult,
                        ApplyState, AddContinuation, Exists, Missing
    <2> QED
      BY <1>2, <2>1, <2>2
  <1>6. ASSUME NEW q \in Queues, queues[q] # <<>>, DequeueMissing(q) \/ \E j \in Jobs : Dequeue(q, j)
        PROVE  QueuedExist' /\ fatal' = FALSE
    <2>1. queues[q] \in Seq(Jobs)
      BY <1>a
    <2>2. Exists(Head(queues[q]))
      <3>1. 1 \in DOMAIN queues[q] /\ Head(queues[q]) = queues[q][1]
        BY <1>6, <2>1
      <3> QED
        BY <3>1 DEF QueuedExist, Range
    <2>3. PICK j \in Jobs : Dequeue(q, j)
      BY <1>6, <2>2 DEF DequeueMissing
    <2>4. /\ state' = [state EXCEPT ![j] = "Processing"] /\ fatal' = fatal
          /\ queues' = [queues EXCEPT ![q] = Tail(@)]
      BY <2>3 DEF Dequeue
    <2>5. \A k \in Jobs : Exists(k) => Exists(k)'
      BY <1>a, <2>4 DEF Exists, Missing
    <2>6. ASSUME NEW p \in Queues, NEW k \in Range(queues'[p]) PROVE k \in Range(queues[p])
      <3>1. CASE p = q
        <4>1. queues'[p] = Tail(queues[q])
          BY <1>a, <2>4, <3>1
        <4>2. PICK i \in DOMAIN Tail(queues[q]) : k = Tail(queues[q])[i]
          BY <2>6, <4>1 DEF Range
        <4>3. i + 1 \in DOMAIN queues[q] /\ k = queues[q][i + 1]
          BY <1>6, <2>1, <4>2
        <4> QED
          BY <3>1, <4>3 DEF Range
      <3>2. CASE p # q
        BY <1>a, <2>4, <2>6, <3>2
      <3> QED
        BY <3>1, <3>2
    <2> QED
      BY <1>1, <2>4, <2>5, <2>6
  <1>7. ASSUME NEW due \in SUBSET scheduled, GetDueScheduled(due)
        PROVE  QueuedExist' /\ fatal' = FALSE
    <2> DEFINE Of(q) == {j \in due : QueueOf[j] = q}
    <2>1. /\ state' = [j \in Jobs |-> IF j \in due THEN "Enqueued" ELSE state[j]]
          /\ fatal' = fatal
      BY <1>7 DEF GetDueScheduled
    <2>2. \A k \in Jobs : (Exists(k) \/ k \in due) => Exists(k)'
      BY <1>a, <2>1 DEF Exists, Missing
    <2>3. PICK pushed \in [Queues -> SetToAllKPermutations(due)] :
               /\ \A q \in Queues : pushed[q] \in SetToSeqs(Of(q))
               /\ queues' = [q \in Queues |-> queues[q] \o pushed[q]]
      BY <1>7 DEF GetDueScheduled
    <2>4. ASSUME NEW q \in Queues, NEW k \in Range(queues'[q]) PROVE k \in Range(queues[q]) \/ k \in due
      <3>1. Of(q) \in SUBSET Jobs /\ IsFiniteSet(Of(q))
        BY <1>a, MemoryAssumption, FS_Subset
      <3>2. pushed[q] \in Seq(Of(q)) /\ Range(pushed[q]) = Of(q)
        BY <2>3, <3>1, PermutationRange
      <3>3. pushed[q] \in Seq(Jobs) /\ queues[q] \in Seq(Jobs) /\ queues'[q] = queues[q] \o pushed[q]
        BY <1>a, <2>3, <3>1, <3>2
      <3>4. Range(queues'[q]) = Range(queues[q]) \cup Of(q)
        BY <3>2, <3>3, RangeConcatenation
      <3> QED
        BY <2>4, <3>4
    <2>5. due \subseteq Jobs
      BY <1>a
    <2> QED
      BY <1>1, <2>1, <2>2, <2>4, <2>5
  <1> QED
    BY <1>3, <1>4, <1>5, <1>6, <1>7 DEF StoreStep

\* Dequeue throws only where the retention sweep runs: without it the storage
\* mutex is never unlocked twice, whatever clients requeue, delete and cancel
\* and however often orphans are recovered.
THEOREM MutexHeld ==
    ASSUME "cleanup" \notin Ops
    PROVE  Spec => []NoFatalUnlock
  <1> DEFINE Sound == QueuedExist /\ fatal = FALSE
  <1>1. Init => Sound
    <2>1. Range(<<>>) = {}
      BY DEF Range
    <2> QED
      BY <2>1 DEF Init, StoreInit, QueuedExist
  <1>2. IInv /\ Sound /\ [Next]_vars => Sound'
    <2> SUFFICES ASSUME IInv, Sound, [Next]_vars PROVE Sound'
      OBVIOUS
    <2>1. StoreStep
      <3>1. CASE Next
        BY <3>1, NextDecomposes DEF IInv, EngineInv
      <3>2. CASE UNCHANGED vars
        BY <3>2 DEF vars, StoreStep
      <3> QED
        BY <3>1, <3>2
    <2> QED
      BY <2>1, StoreStepQueued DEF IInv, StoreInv
  <1>3. Sound => NoFatalUnlock
    BY DEF NoFatalUnlock
  <1> QED
    BY <1>1, <1>2, <1>3, Inductive, PTL DEF Spec

=============================================================================
