------------------------- MODULE RedisEngineProofs -------------------------
(***************************************************************************)
(* Proofs about RedisEngine for every set of nodes, workers, jobs and      *)
(* queues and any number of requests and mishaps.                          *)
(***************************************************************************)
EXTENDS RedisEngine, EngineProofs, TLAPS, FiniteSetTheorems, SequenceTheorems

-----------------------------------------------------------------------------
(* Lists *)

\* A pushed element is in the list, and the others stay.
LEMMA PushedList ==
    ASSUME NEW S, NEW s \in Seq(S), NEW e \in S
    PROVE  Append(s, e) \in Seq(S) /\ Range(Append(s, e)) = Range(s) \cup {e}
  <1>1. /\ Append(s, e) \in Seq(S)
        /\ Len(Append(s, e)) = Len(s) + 1
        /\ \A i \in 1..Len(s) : Append(s, e)[i] = s[i]
        /\ Append(s, e)[Len(s) + 1] = e
    BY AppendProperties
  <1>2. /\ DOMAIN s = 1..Len(s) /\ Len(s) \in Nat
        /\ DOMAIN Append(s, e) = 1..(Len(s) + 1)
    BY <1>1
  <1> QED
    BY <1>1, <1>2 DEF Range

\* Popping the oldest element leaves the others.
LEMMA PoppedList ==
    ASSUME NEW S, NEW s \in Seq(S), s # <<>>
    PROVE  Tail(s) \in Seq(S) /\ Head(s) \in S /\ Range(s) \ {Head(s)} \subseteq Range(Tail(s))
  <1>1. /\ Tail(s) \in Seq(S) /\ Head(s) \in S /\ Head(s) = s[1]
        /\ Len(Tail(s)) = Len(s) - 1
        /\ \A i \in 1..Len(Tail(s)) : Tail(s)[i] = s[i + 1]
    BY HeadTailProperties
  <1>2. /\ DOMAIN s = 1..Len(s) /\ Len(s) \in Nat
        /\ DOMAIN Tail(s) = 1..(Len(s) - 1)
    BY <1>1
  <1>3. ASSUME NEW x \in Range(s), x # Head(s) PROVE x \in Range(Tail(s))
    <2>1. PICK i \in 1..Len(s) : s[i] = x
      BY <1>2 DEF Range
    <2>2. i - 1 \in 1..(Len(s) - 1) /\ Tail(s)[i - 1] = x
      BY <1>1, <1>2, <1>3, <2>1
    <2> QED
      BY <1>2, <2>2 DEF Range
  <1> QED
    BY <1>1, <1>3

\* LREM leaves a list of the other elements and misses none of them: as many
\* places as there are other elements, each taken from another place.
LEMMA RemovedList ==
    ASSUME NEW q \in Queues, NEW j \in Jobs, queues \in [Queues -> Seq(Jobs)], LRem(q, j)
    PROVE  /\ queues' \in [Queues -> Seq(Jobs)]
           /\ \A p \in Queues : Range(queues[p]) \ {j} \subseteq Range(queues'[p])
  <1> DEFINE s == queues[q]
             kept == {i \in DOMAIN s : s[i] # j}
             D == 1..Cardinality(kept)
  <1>1. s \in Seq(Jobs) /\ DOMAIN s = 1..Len(s) /\ Len(s) \in Nat
    OBVIOUS
  <1>2. IsFiniteSet(kept) /\ Cardinality(kept) \in Nat
    <2>1. IsFiniteSet(1..Len(s))
      BY <1>1, FS_Interval
    <2>2. IsFiniteSet(kept)
      BY <1>1, <2>1, FS_Subset
    <2> QED
      BY <2>2, FS_CardinalityType
  <1>3. PICK at \in [D -> kept] :
           /\ \A a, b \in D : a < b => at[a] < at[b]
           /\ queues' = [queues EXCEPT ![q] = [i \in D |-> s[at[i]]]]
    BY DEF LRem
  <1> DEFINE t == [i \in D |-> s[at[i]]]
  <1>4. t \in Seq(Jobs)
    <2>1. \A i \in D : s[at[i]] \in Jobs
      BY <1>1, <1>3
    <2>2. t \in [D -> Jobs]
      BY <2>1
    <2>3. \A n \in Nat : [1..n -> Jobs] \subseteq Seq(Jobs)
      OBVIOUS
    <2> HIDE DEF t, kept
    <2> QED
      BY <1>2, <2>2, <2>3
  <1>5. \A x \in kept : \E i \in D : at[i] = x
    <2>1. ASSUME NEW a \in D, NEW b \in D, at[a] = at[b] PROVE a = b
      <3>1. at[a] \in Nat /\ at[b] \in Nat /\ a \in Nat /\ b \in Nat
        BY <1>1, <1>2, <1>3
      <3>2. ~(a < b) /\ ~(b < a)
        BY <1>3, <2>1, <3>1
      <3> QED
        BY <3>1, <3>2
    <2>2. at \in Injection(D, kept)
      BY <1>3, <2>1 DEF Injection, IsInjective
    <2>3. IsFiniteSet(D) /\ Cardinality(D) = Cardinality(kept)
      BY <1>2, FS_Interval
    <2>4. at \in Surjection(D, kept)
      BY <1>2, <2>2, <2>3, FS_Injection
    <2> QED
      BY <2>4 DEF Surjection
  <1>6. Range(s) \ {j} \subseteq Range(t)
    <2> SUFFICES ASSUME NEW x \in Range(s), x # j PROVE x \in Range(t)
      OBVIOUS
    <2>1. PICK i \in DOMAIN s : s[i] = x
      BY DEF Range
    <2>2. PICK a \in D : at[a] = i
      BY <1>5, <2>1
    <2>3. t[a] = x /\ DOMAIN t = D
      BY <2>1, <2>2
    <2> QED
      BY <2>3 DEF Range
  <1>7. queues'[q] = t /\ \A p \in Queues \ {q} : queues'[p] = queues[p]
    BY <1>3
  <1> HIDE DEF t
  <1> QED
    BY <1>3, <1>4, <1>6, <1>7 DEF t

-----------------------------------------------------------------------------
(* The invariant *)

\* A call knows what its second half needs, and the worker that makes it waits
\* for it where it opened it.
Sound(c) ==
    /\ c.op = "requeue" => c.arg \in Queues
    /\ c.op = "erase" => c.arg \in Indexes
    /\ c.op \in {"claim", "retry"} => c.by \in Workers /\ c.node = NodeOf[c.by]
    /\ c.op = "claim" => pc[c.by] = "dequeue"
    /\ c.op = "retry" => pc[c.by] = "scheduleRetry" /\ job[c.by] = c.job

\* All calls in progress are sound, and a worker waits for one at a time.
CallsSound ==
    /\ \A c \in open : Sound(c)
    /\ \A c, d \in open : /\ c.op \in {"claim", "retry"} /\ d.op \in {"claim", "retry"}
                          /\ c.by = d.by
                          => c = d

-----------------------------------------------------------------------------
(* What the scripts and pipelines do *)

\* One script or pipeline on the keys of job j.
JobStep(j) ==
    \/ Enqueue(j) \/ AddScheduled(j) \/ finalizeDequeue(j) \/ WriteDelete(j)
    \/ WriteRetry(j) \/ PromoteJob(j) \/ HeartbeatJob(j) \/ BecomeStale(j)
    \/ \E qs \in SUBSET Queues : BRPop(qs, j)
    \/ \E new \in {"Succeeded", "Failed", "Cancelled"} : ApplyState(j, "Processing", new)
    \/ ApplyState(j, "Failed", "Dead")
    \/ \E q \in Queues : WriteRequeue(j, q)
    \/ \E s \in Indexes : deleteJob(j, s)

\* What a step may do to the keys.
StoreStep ==
    \/ UNCHANGED storeVars
    \/ \E j \in Jobs : JobStep(j)
    \/ \E due \in SUBSET scheduled : promoteScheduled(due)

\* LPUSH keeps the lists lists of jobs, and takes nothing from any of them.
LEMMA LPushed ==
    ASSUME NEW q \in Queues, NEW j \in Jobs, queues \in [Queues -> Seq(Jobs)], LPush(q, j)
    PROVE  /\ queues' \in [Queues -> Seq(Jobs)]
           /\ j \in Range(queues'[q])
           /\ \A p \in Queues : Range(queues[p]) \subseteq Range(queues'[p])
  <1>1. queues' = [queues EXCEPT ![q] = Append(queues[q], j)]
    BY DEF LPush
  <1>2. queues[q] \in Seq(Jobs)
    OBVIOUS
  <1>3. Append(queues[q], j) \in Seq(Jobs) /\ Range(Append(queues[q], j)) = Range(queues[q]) \cup {j}
    BY <1>2, PushedList
  <1>4. queues'[q] = Append(queues[q], j) /\ \A p \in Queues \ {q} : queues'[p] = queues[p]
    BY <1>1
  <1>5. queues' \in [Queues -> Seq(Jobs)]
    BY <1>1, <1>3
  <1> QED
    BY <1>3, <1>4, <1>5

\* BRPOP takes no other job than the one it answers with.
LEMMA BRPopped ==
    ASSUME NEW qs \in SUBSET Queues, NEW j, queues \in [Queues -> Seq(Jobs)], BRPop(qs, j)
    PROVE  /\ queues' \in [Queues -> Seq(Jobs)]
           /\ j \in Jobs
           /\ \A p \in Queues : Range(queues[p]) \ {j} \subseteq Range(queues'[p])
  <1>1. PICK q \in qs : queues[q] # <<>> /\ j = Head(queues[q])
                          /\ queues' = [queues EXCEPT ![q] = Tail(queues[q])]
    BY DEF BRPop
  <1>2. q \in Queues /\ queues[q] \in Seq(Jobs)
    OBVIOUS
  <1>3. /\ Tail(queues[q]) \in Seq(Jobs) /\ j \in Jobs
        /\ Range(queues[q]) \ {j} \subseteq Range(Tail(queues[q]))
    BY <1>1, <1>2, PoppedList
  <1>4. queues'[q] = Tail(queues[q]) /\ \A p \in Queues \ {q} : queues'[p] = queues[p]
    BY <1>1, <1>2
  <1>5. queues' \in [Queues -> Seq(Jobs)]
    BY <1>1, <1>2, <1>3
  <1> QED
    BY <1>3, <1>4, <1>5

\* A script or pipeline on job k keeps the lists, and takes no other job from them.
LEMMA ListsKept ==
    ASSUME StoreTypeOK, NEW k \in Jobs, JobStep(k)
    PROVE  /\ queues' \in [Queues -> Seq(Jobs)]
           /\ \A p \in Queues : Range(queues[p]) \ {k} \subseteq Range(queues'[p])
  <1>0. queues \in [Queues -> Seq(Jobs)]
    BY DEF StoreTypeOK
  <1>1. QueueOf[k] \in Queues /\ QueueField(k) \in Queues
    BY EngineAssumption, RedisAssumption DEF QueueField
  <1>2. CASE UNCHANGED queues
    BY <1>0, <1>2
  <1>3. CASE \E q \in Queues : LPush(q, k)
    BY <1>0, <1>3, LPushed
  <1>4. CASE \E qs \in SUBSET Queues : BRPop(qs, k)
    BY <1>0, <1>4, BRPopped
  <1>5. CASE LRem(QueueOf[k], k)
    BY <1>0, <1>1, <1>5, RemovedList
  <1>6. \/ UNCHANGED queues \/ LRem(QueueOf[k], k)
        \/ \E q \in Queues : LPush(q, k)
        \/ \E qs \in SUBSET Queues : BRPop(qs, k)
    BY <1>1 DEF JobStep, Enqueue, AddScheduled, finalizeDequeue, WriteDelete, WriteRetry, PromoteJob,
                HeartbeatJob, BecomeStale, ApplyState, WriteRequeue, deleteJob, storeVars
  <1> QED
    BY <1>2, <1>3, <1>4, <1>5, <1>6

\* A script or pipeline keeps the types of the keys ...
LEMMA JobStepType ==
    ASSUME StoreTypeOK, NEW k \in Jobs, JobStep(k)
    PROVE  StoreTypeOK'
  <1>a. /\ state \in [Jobs -> JobStates \cup Missing]
        /\ progress \in [Jobs -> {"none", "fresh", "stale"}]
        /\ failures \in [Jobs -> 0..AttemptCap]
        /\ AttemptCap \in Nat \ {0}
        /\ body \subseteq Jobs /\ scheduled \subseteq Jobs
        /\ index \in [Indexes -> SUBSET Jobs]
        /\ requeued \subseteq Jobs
    BY EngineAssumption DEF StoreTypeOK
  <1>1. queues' \in [Queues -> Seq(Jobs)]
    BY ListsKept
  <1>2. state' \in [Jobs -> JobStates \cup Missing]
    BY <1>a DEF JobStep, Enqueue, AddScheduled, finalizeDequeue, WriteDelete, WriteRetry, PromoteJob,
                HeartbeatJob, BecomeStale, ApplyState, WriteRequeue, deleteJob, storeVars, BRPop,
                SetState, JobStates, Missing
  <1>3. progress' \in [Jobs -> {"none", "fresh", "stale"}]
    BY <1>a DEF JobStep, Enqueue, AddScheduled, finalizeDequeue, WriteDelete, WriteRetry, PromoteJob,
                HeartbeatJob, BecomeStale, ApplyState, WriteRequeue, deleteJob, storeVars, BRPop,
                SetState
  <1>4. failures' \in [Jobs -> 0..AttemptCap]
    <2> DEFINE more == IF failures[k] < AttemptCap THEN failures[k] + 1 ELSE failures[k]
    <2>0. more \in 0..AttemptCap
      BY <1>a
    <2>1. CountFailure(k) => failures' \in [Jobs -> 0..AttemptCap]
      <3>1. CountFailure(k) => failures' = [failures EXCEPT ![k] = more]
        BY DEF CountFailure
      <3> HIDE DEF more
      <3> QED
        BY <1>a, <2>0, <3>1
    <2>2. 0 \in 0..AttemptCap
      BY <1>a
    <2>3. \/ UNCHANGED failures \/ CountFailure(k) \/ failures' = [failures EXCEPT ![k] = 0]
      BY DEF JobStep, Enqueue, AddScheduled, finalizeDequeue, WriteDelete, WriteRetry, PromoteJob,
             HeartbeatJob, BecomeStale, ApplyState, WriteRequeue, deleteJob, storeVars, BRPop
    <2> QED
      BY <1>a, <2>1, <2>2, <2>3
  <1>5. body' \subseteq Jobs /\ scheduled' \subseteq Jobs /\ requeued' \subseteq Jobs
    BY <1>a DEF JobStep, Enqueue, AddScheduled, finalizeDequeue, WriteDelete, WriteRetry, PromoteJob,
                HeartbeatJob, BecomeStale, ApplyState, WriteRequeue, deleteJob, storeVars, BRPop
  <1>6. index' \in [Indexes -> SUBSET Jobs]
    <2>1. \A old, new : Reindex(k, old, new) => index' \in [Indexes -> SUBSET Jobs]
      BY <1>a DEF Reindex
    <2>2. \A s \in Indexes : index' = [index EXCEPT ![s] = @ \ {k}] => index' \in [Indexes -> SUBSET Jobs]
      BY <1>a
    <2>3. \/ UNCHANGED index \/ (\E old, new : Reindex(k, old, new))
          \/ \E s \in Indexes : index' = [index EXCEPT ![s] = @ \ {k}]
      BY DEF JobStep, Enqueue, AddScheduled, finalizeDequeue, WriteDelete, WriteRetry, PromoteJob,
             HeartbeatJob, BecomeStale, ApplyState, WriteRequeue, storeVars, BRPop, deleteJob
    <2> QED
      BY <1>a, <2>1, <2>2, <2>3
  <1> QED
    BY <1>1, <1>2, <1>3, <1>4, <1>5, <1>6 DEF StoreTypeOK

\* ... as removing due members from the sorted set does.
LEMMA StoreStepType ==
    ASSUME StoreTypeOK, StoreStep
    PROVE  StoreTypeOK'
  <1>1. CASE UNCHANGED storeVars
    BY <1>1 DEF storeVars, StoreTypeOK
  <1>2. CASE \E due \in SUBSET scheduled : promoteScheduled(due)
    BY <1>2 DEF promoteScheduled, StoreTypeOK
  <1> QED
    BY <1>1, <1>2, JobStepType DEF StoreStep

\* The keys that tell of job j say the same as before.
Spared(j) ==
    /\ state'[j] = state[j]
    /\ Queued(j) => Queued(j)'
    /\ j \in index["Processing"] => j \in index'["Processing"]
    /\ j \in scheduled => j \in scheduled'

\* A script or pipeline on job k leaves every other job alone.
LEMMA OthersSpared ==
    ASSUME StoreTypeOK, NEW k \in Jobs, JobStep(k), NEW j \in Jobs, j # k
    PROVE  Spared(j)
  <1>a. state \in [Jobs -> JobStates \cup Missing] /\ index \in [Indexes -> SUBSET Jobs]
    BY DEF StoreTypeOK
  <1>1. state'[j] = state[j]
    BY <1>a DEF JobStep, Enqueue, AddScheduled, finalizeDequeue, WriteDelete, WriteRetry, PromoteJob,
                HeartbeatJob, BecomeStale, ApplyState, WriteRequeue, deleteJob, storeVars, BRPop,
                SetState
  <1>2. Queued(j) => Queued(j)'
    BY ListsKept DEF Queued
  <1>3. j \in index["Processing"] => j \in index'["Processing"]
    <2>0. "Processing" \in Indexes
      BY DEF Indexes
    <2>1. \A old, new : Reindex(k, old, new) => index["Processing"] \ {k} \subseteq index'["Processing"]
      BY <1>a, <2>0 DEF Reindex
    <2>2. \A s \in Indexes : index' = [index EXCEPT ![s] = @ \ {k}]
                               => index["Processing"] \ {k} \subseteq index'["Processing"]
      BY <1>a, <2>0
    <2>3. \/ UNCHANGED index \/ (\E old, new : Reindex(k, old, new))
          \/ \E s \in Indexes : index' = [index EXCEPT ![s] = @ \ {k}]
      BY DEF JobStep, Enqueue, AddScheduled, finalizeDequeue, WriteDelete, WriteRetry, PromoteJob,
             HeartbeatJob, BecomeStale, ApplyState, WriteRequeue, storeVars, BRPop, deleteJob
    <2> QED
      BY <2>1, <2>2, <2>3
  <1>4. j \in scheduled => j \in scheduled'
    BY DEF JobStep, Enqueue, AddScheduled, finalizeDequeue, WriteDelete, WriteRetry, PromoteJob,
           HeartbeatJob, BecomeStale, ApplyState, WriteRequeue, deleteJob, storeVars, BRPop
  <1> QED
    BY <1>1, <1>2, <1>3, <1>4 DEF Spared

-----------------------------------------------------------------------------
(* Every step is one step of the engine beside at most one script or pipeline. *)

\* The calls in progress, what the loops of a node remember, and the bound.
OthersTypeOK ==
    /\ open \subseteq Calls
    /\ scan \in [Nodes -> SUBSET Jobs]
    /\ orphans \in [Nodes -> SUBSET Jobs]
    /\ promoting \in [Nodes -> SUBSET Jobs]
    /\ hit \subseteq Jobs
    /\ events \in 0..MaxEvents

\* What the calls of a worker look like.
LEMMA WorkerCall ==
    ASSUME OthersTypeOK, CallsSound, NEW c \in open
    PROVE  /\ c.job \in Jobs /\ c.node \in Nodes
           /\ c.op = "claim" => c.by \in Workers /\ pc[c.by] = "dequeue"
           /\ c.op = "retry" => c.by \in Workers /\ pc[c.by] = "scheduleRetry" /\ job[c.by] = c.job
           /\ c.op = "requeue" => c.arg \in Queues
           /\ c.op = "erase" => c.arg \in Indexes
  <1>1. c \in Calls
    BY DEF OthersTypeOK
  <1> QED
    BY <1>1 DEF Calls, CallsSound, Sound

\* A command that fails: the worker goes to its return and the store keeps its keys.
LEMMA RefusedStep ==
    ASSUME NEW w \in Workers, InFlight(w), job[w] \in Jobs, hit \subseteq Jobs, Refused(w)
    PROVE  EngineStep /\ StoreStep /\ hit' \subseteq Jobs
  <1>1. hit' \subseteq Jobs
    BY DEF Refused, Strands
  <1> QED
    BY <1>1 DEF Refused, EngineStep, StoreStep, InFlightPCs

\* The calls in which a worker takes a ticket.
LEMMA TicketDecomposes ==
    ASSUME TypeOK, HoldsJob, CallsSound, NEW w \in Workers,
           \/ Pop(w) \/ DequeueEmpty(w) \/ LoadJob(w)
           \/ \E c \in open : c.by = w /\ Claim(c)
    PROVE  EngineStep /\ StoreStep /\ OthersTypeOK'
  <1>a. OthersTypeOK /\ elig[w] \in SUBSET Queues /\ NodeOf[w] \in Nodes
    BY EngineAssumption DEF TypeOK, OthersTypeOK, EngineTypeOK
  <1>1. CASE Pop(w)
    <2>1. PICK j \in Jobs : BRPop(elig[w], j) /\ Opens(Call(NodeOf[w], w, "claim", j, ""))
      BY <1>1 DEF Pop
    <2>2. Call(NodeOf[w], w, "claim", j, "") \in Calls
      BY <1>a DEF Call, Calls
    <2>3. OthersTypeOK'
      BY <1>1, <1>a, <2>1, <2>2 DEF Pop, Opens, OthersTypeOK, loopVars
    <2>4. StoreStep
      BY <1>a, <2>1 DEF StoreStep, JobStep
    <2> QED
      BY <1>1, <2>3, <2>4 DEF Pop, EngineStep
  <1>2. CASE DequeueEmpty(w)
    BY <1>2, <1>a DEF DequeueEmpty, othersUnchanged, OthersTypeOK, loopVars, EngineStep, StoreStep
  <1>3. CASE LoadJob(w)
    <2>1. job[w] \in Jobs /\ failures[job[w]] \in 0..AttemptCap
      BY <1>3 DEF LoadJob, HoldsJob, TypeOK, StoreTypeOK
    <2>2. OthersTypeOK'
      BY <1>3, <1>a DEF LoadJob, othersUnchanged, OthersTypeOK, loopVars
    <2> QED
      BY <1>3, <2>1, <2>2 DEF LoadJob, EngineStep, StoreStep
  <1>4. ASSUME NEW c \in open, c.by = w, Claim(c)
        PROVE  EngineStep /\ StoreStep /\ OthersTypeOK'
    <2>1. c.job \in Jobs /\ pc[w] = "dequeue"
      BY <1>4, <1>a, WorkerCall DEF Claim
    <2>2. hit' \subseteq Jobs
      BY <1>4, <1>a, <2>1 DEF Claim, OthersTypeOK
    <2>3. OthersTypeOK'
      BY <1>4, <1>a, <2>2 DEF Claim, Closes, OthersTypeOK, loopVars
    <2>4. StoreStep
      BY <1>4, <2>1 DEF Claim, StoreStep, JobStep
    <2>5. EngineStep
      BY <1>4, <2>1 DEF Claim, EngineStep
    <2> QED
      BY <2>3, <2>4, <2>5
  <1> QED
    BY <1>1, <1>2, <1>3, <1>4

\* The calls in which a worker finalizes its job.
LEMMA FinalizeDecomposes ==
    ASSUME TypeOK, HoldsJob, CallsSound, NEW w \in Workers,
           \/ SetResult(w) \/ ApplySucceeded(w) \/ ApplyCancelled(w) \/ ApplyDead(w) \/ ApplyFailed(w)
           \/ RetryCheck(w) \/ FireContinuations(w)
           \/ \E c \in open : c.by = w /\ Retry(c)
    PROVE  EngineStep /\ StoreStep /\ OthersTypeOK'
  <1>a. OthersTypeOK /\ NodeOf[w] \in Nodes /\ hit \subseteq Jobs
    BY EngineAssumption DEF TypeOK, OthersTypeOK
  <1>b. pc[w] \notin {"idle", "dequeue", "stopped"} => job[w] \in Jobs
    BY DEF HoldsJob
  <1>c. {"Succeeded", "Cancelled", "Dead"} \subseteq JobStates
    BY DEF JobStates
  <1>d. \A label \in InFlightPCs : pc[w] = label => InFlight(w) /\ job[w] \in Jobs
    BY <1>b DEF InFlight, InFlightPCs
  <1>e. UNCHANGED <<open, loopVars, events>> /\ hit' \subseteq Jobs => OthersTypeOK'
    BY <1>a DEF OthersTypeOK, loopVars
  <1>1. CASE SetResult(w)
    <2>0. InFlight(w) /\ job[w] \in Jobs
      BY <1>1, <1>d DEF SetResult, InFlightPCs
    <2>1. CASE Refused(w)
      BY <1>1, <1>a, <1>e, <2>0, <2>1, RefusedStep DEF SetResult
    <2>2. CASE SetJobResult(job[w]) /\ Advance(w, "applySucceeded") /\ UNCHANGED hit
      BY <1>1, <1>a, <1>e, <2>0, <2>2 DEF SetResult, SetJobResult, EngineStep, StoreStep, InFlightPCs
    <2> QED
      BY <1>1, <2>1, <2>2 DEF SetResult
  <1>2. ASSUME NEW label, NEW expected, NEW new, FinishAs(w, label, expected, new),
               \/ label = "applySucceeded" /\ expected = "Processing" /\ new = "Succeeded"
               \/ label = "applyCancelled" /\ expected = "Processing" /\ new = "Cancelled"
               \/ label = "applyDead" /\ expected = "Failed" /\ new = "Dead"
        PROVE  EngineStep /\ StoreStep /\ OthersTypeOK'
    <2>0. InFlight(w) /\ job[w] \in Jobs
      BY <1>2, <1>d DEF FinishAs, InFlightPCs
    <2>1. CASE Refused(w)
      BY <1>2, <1>a, <1>e, <2>0, <2>1, RefusedStep DEF FinishAs
    <2>2. CASE ApplyState(job[w], expected, new) /\ Finalized(w, new) /\ UNCHANGED hit
      <3>1. StoreStep
        BY <1>2, <2>0, <2>2 DEF StoreStep, JobStep
      <3>2. EngineStep
        BY <1>2, <1>c, <2>0, <2>2 DEF EngineStep
      <3> QED
        BY <1>2, <1>a, <1>e, <2>2, <3>1, <3>2 DEF FinishAs
    <2> QED
      BY <1>2, <2>1, <2>2 DEF FinishAs
  <1>3. CASE ApplyFailed(w)
    <2>0. InFlight(w) /\ job[w] \in Jobs
      BY <1>3, <1>d DEF ApplyFailed, InFlightPCs
    <2>1. CASE Refused(w)
      BY <1>3, <1>a, <1>e, <2>0, <2>1, RefusedStep DEF ApplyFailed
    <2>2. CASE ApplyState(job[w], "Processing", "Failed") /\ Advance(w, AfterFailed(w)) /\ UNCHANGED hit
      <3>1. StoreStep
        BY <2>0, <2>2 DEF StoreStep, JobStep
      <3>2. EngineStep
        BY <2>0, <2>2 DEF EngineStep, AfterFailed, InFlightPCs
      <3> QED
        BY <1>3, <1>a, <1>e, <2>2, <3>1, <3>2 DEF ApplyFailed
    <2> QED
      BY <1>3, <2>1, <2>2 DEF ApplyFailed
  <1>4. CASE RetryCheck(w)
    <2>0. InFlight(w) /\ job[w] \in Jobs
      BY <1>4, <1>d DEF RetryCheck, InFlightPCs
    <2>1. CASE Refused(w) /\ UNCHANGED open
      BY <1>4, <1>a, <1>e, <2>0, <2>1, RefusedStep DEF RetryCheck
    <2>2. CASE /\ Opens(Call(NodeOf[w], w, "retry", job[w], ""))
               /\ UNCHANGED <<engineVars, storeVars, hit>>
      <3>1. Call(NodeOf[w], w, "retry", job[w], "") \in Calls
        BY <1>a, <2>0 DEF Call, Calls
      <3>2. OthersTypeOK'
        BY <1>4, <1>a, <2>2, <3>1 DEF RetryCheck, Opens, OthersTypeOK, loopVars
      <3> QED
        BY <2>2, <3>2 DEF EngineStep, StoreStep
    <2> QED
      BY <1>4, <2>1, <2>2 DEF RetryCheck
  <1>5. CASE FireContinuations(w)
    <2>1. InFlight(w) /\ {} \in SUBSET Conditions
      BY <1>5, <1>d DEF FireContinuations, InFlightPCs
    <2>2. EngineStep /\ StoreStep
      BY <1>5, <2>1 DEF FireContinuations, EngineStep, StoreStep
    <2> QED
      BY <1>5, <1>a, <1>e, <2>2 DEF FireContinuations, othersUnchanged
  <1>6. ASSUME NEW c \in open, c.by = w, Retry(c)
        PROVE  EngineStep /\ StoreStep /\ OthersTypeOK'
    <2>0. /\ c.job \in Jobs /\ pc[w] = "scheduleRetry" /\ InFlight(w) /\ job[w] \in Jobs
          /\ open' \subseteq Calls
      BY <1>6, <1>a, <1>d, WorkerCall DEF Retry, Closes, OthersTypeOK, InFlightPCs
    <2>e. hit' \subseteq Jobs => OthersTypeOK'
      BY <1>6, <1>a, <2>0 DEF Retry, OthersTypeOK, loopVars
    <2>1. CASE Refused(w)
      BY <1>a, <2>0, <2>e, <2>1, RefusedStep
    <2>2. CASE WriteRetry(c.job) /\ Advance(w, "return") /\ UNCHANGED hit
      BY <1>a, <2>0, <2>e, <2>2 DEF EngineStep, StoreStep, JobStep, InFlightPCs
    <2> QED
      BY <1>6, <2>1, <2>2 DEF Retry
  <1> QED
    BY <1>1, <1>2, <1>3, <1>4, <1>5, <1>6 DEF ApplySucceeded, ApplyCancelled, ApplyDead

\* What a broken connection does to a worker's calls.
LEMMA FaultDecomposes ==
    ASSUME TypeOK, HoldsJob, CallsSound, NEW w \in Workers, CallFails(w) \/ AckLost(w)
    PROVE  EngineStep /\ StoreStep /\ OthersTypeOK'
  <1>a. OthersTypeOK /\ elig[w] \in SUBSET Queues /\ hit \subseteq Jobs /\ MaxEvents \in Nat
    BY RedisEngineAssumption DEF TypeOK, OthersTypeOK, EngineTypeOK
  <1>b. pc[w] \notin {"idle", "dequeue", "stopped"} => job[w] \in Jobs
    BY DEF HoldsJob
  <1>c. events' \in 0..MaxEvents /\ UNCHANGED loopVars
    BY <1>a DEF CallFails, AckLost, Mishap, OthersTypeOK
  <1>d. open' \subseteq open /\ hit' \subseteq Jobs => OthersTypeOK'
    BY <1>a, <1>c DEF OthersTypeOK, loopVars
  <1>e. \A c : Closes(c) => open' \subseteq open
    BY DEF Closes
  <1>1. CASE CallFails(w)
    <2>1. CASE pc[w] = "load" /\ AbandonTicket(w) /\ UNCHANGED <<open, hit>>
      BY <1>1, <1>a, <1>d, <2>1 DEF CallFails, EngineStep, StoreStep
    <2>2. CASE /\ pc[w] \in {"setResult", "applySucceeded", "applyFailed", "applyDead", "scheduleRetry"}
               /\ Advance(w, "return")
               /\ Strands(w)
               /\ open' = {c \in open : c.by # w}
      <3>1. hit' \subseteq Jobs /\ InFlight(w)
        BY <1>a, <1>b, <2>2 DEF Strands, InFlight, InFlightPCs
      <3> QED
        BY <1>1, <1>d, <2>2, <3>1 DEF CallFails, EngineStep, StoreStep, InFlightPCs
    <2>3. ASSUME NEW c \in open, c.by = w, c.op = "claim", Closes(c), NoTicket(w), hit' = hit \cup {c.job}
          PROVE  EngineStep /\ StoreStep /\ OthersTypeOK'
      <3>1. c.job \in Jobs /\ pc[w] = "dequeue"
        BY <1>a, <2>3, WorkerCall
      <3> QED
        BY <1>1, <1>a, <1>d, <1>e, <2>3, <3>1 DEF CallFails, EngineStep, StoreStep
    <2> QED
      BY <1>1, <2>1, <2>2, <2>3 DEF CallFails
  <1>2. CASE AckLost(w)
    <2>1. ASSUME pc[w] = "dequeue", NEW j \in Jobs, BRPop(elig[w], j), hit' = hit \cup {j},
                 NoTicket(w), UNCHANGED open
          PROVE  EngineStep /\ StoreStep /\ OthersTypeOK'
      <3>1. StoreStep
        BY <1>a, <2>1 DEF StoreStep, JobStep
      <3> QED
        BY <1>a, <1>d, <2>1, <3>1 DEF EngineStep
    <2>2. ASSUME NEW c \in open, c.by = w, c.op = "claim", finalizeDequeue(c.job), NoTicket(w),
                 Closes(c), UNCHANGED hit
          PROVE  EngineStep /\ StoreStep /\ OthersTypeOK'
      <3>1. c.job \in Jobs /\ pc[w] = "dequeue"
        BY <1>a, <2>2, WorkerCall
      <3> QED
        BY <1>a, <1>d, <1>e, <2>2, <3>1 DEF EngineStep, StoreStep, JobStep
    <2>3. ASSUME NEW c \in open, c.by = w, c.op = "retry", WriteRetry(c.job), Advance(w, "return"),
                 Closes(c), UNCHANGED hit
          PROVE  EngineStep /\ StoreStep /\ OthersTypeOK'
      <3>1. c.job \in Jobs /\ InFlight(w)
        BY <1>a, <2>3, WorkerCall DEF InFlight, InFlightPCs
      <3> QED
        BY <1>a, <1>d, <1>e, <2>3, <3>1 DEF EngineStep, StoreStep, JobStep, InFlightPCs
    <2>4. ASSUME \/ pc[w] = "applySucceeded" /\ ApplyState(job[w], "Processing", "Succeeded") /\ UNCHANGED hit
                 \/ pc[w] = "applyDead" /\ ApplyState(job[w], "Failed", "Dead") /\ UNCHANGED hit
                 \/ /\ pc[w] = "applyFailed" /\ ApplyState(job[w], "Processing", "Failed")
                    /\ hit' = hit \cup {job[w]},
                 Advance(w, "return"), UNCHANGED open
          PROVE  EngineStep /\ StoreStep /\ OthersTypeOK'
      <3>1. job[w] \in Jobs /\ InFlight(w)
        BY <1>b, <2>4 DEF InFlight, InFlightPCs
      <3>2. StoreStep
        BY <2>4, <3>1 DEF StoreStep, JobStep
      <3>3. OthersTypeOK'
        BY <1>a, <1>d, <2>4, <3>1
      <3> QED
        BY <2>4, <3>1, <3>2, <3>3 DEF EngineStep, InFlightPCs
    <2> QED
      BY <1>2, <2>1, <2>2, <2>3, <2>4 DEF AckLost
  <1> QED
    BY <1>1, <1>2

\* The remaining steps of a worker.
LEMMA WorkerDecomposes ==
    ASSUME TypeOK, HoldsJob, CallsSound, NEW w \in Workers,
           \/ WorkerLocal(w) \/ WorkerStore(w) \/ Heartbeat(w)
           \/ Timeout(w) \/ CallFails(w) \/ AckLost(w) \/ DialTimesOut(w)
    PROVE  EngineStep /\ StoreStep /\ OthersTypeOK'
  <1>a. OthersTypeOK /\ MaxEvents \in Nat
    BY RedisEngineAssumption DEF TypeOK, OthersTypeOK
  <1>b. othersUnchanged => OthersTypeOK'
    BY <1>a DEF othersUnchanged, OthersTypeOK, loopVars
  <1>1. CASE WorkerLocal(w)
    BY <1>1, <1>b DEF WorkerLocal, EngineStep, StoreStep
  <1>2. CASE WorkerStore(w)
    BY <1>2, TicketDecomposes, FinalizeDecomposes DEF WorkerStore
  <1>3. CASE Heartbeat(w)
    <2>1. job[w] \in Jobs
      BY <1>3 DEF Heartbeat, InFlight, InFlightPCs, HoldsJob
    <2> QED
      BY <1>3, <1>b, <2>1 DEF Heartbeat, EngineStep, StoreStep, JobStep
  <1>4. CASE Timeout(w)
    BY <1>4, <1>a DEF Timeout, Mishap, OthersTypeOK, loopVars, EngineStep, StoreStep
  <1>5. CASE DialTimesOut(w)
    BY <1>5, <1>a DEF DialTimesOut, Mishap, OthersTypeOK, loopVars, EngineStep, StoreStep
  <1> QED
    BY <1>1, <1>2, <1>3, <1>4, <1>5, FaultDecomposes

\* The scheduler, coordinator and cleanup loops.
LEMMA LoopDecomposes ==
    ASSUME TypeOK, HoldsJob, CallsSound, NEW n \in Nodes,
           \/ \E due \in SUBSET scheduled : TickScheduler(n, due)
           \/ Promote(n) \/ Coordinator(n) \/ Sweep(n) \/ WriteBy(n, "api")
           \/ ScanFails(n) \/ PromoteFails(n)
    PROVE  EngineStep /\ StoreStep /\ OthersTypeOK'
  <1>a. OthersTypeOK /\ MaxEvents \in Nat /\ scheduled \subseteq Jobs /\ index \in [Indexes -> SUBSET Jobs]
    BY RedisEngineAssumption DEF TypeOK, OthersTypeOK, StoreTypeOK
  <1>b. scan[n] \subseteq Jobs /\ orphans[n] \subseteq Jobs /\ promoting[n] \subseteq Jobs /\ "Processing" \in Indexes
    BY <1>a DEF OthersTypeOK, Indexes
  <1>c. \A j \in Jobs : QueueField(j) \in Queues
    BY EngineAssumption, RedisAssumption DEF QueueField
  <1>1. ASSUME NEW due \in SUBSET scheduled, TickScheduler(n, due)
        PROVE  EngineStep /\ StoreStep /\ OthersTypeOK'
    <2>1. OthersTypeOK'
      BY <1>1, <1>a DEF TickScheduler, OthersTypeOK
    <2> QED
      BY <1>1, <2>1 DEF TickScheduler, EngineStep, StoreStep
  <1>2. CASE Promote(n)
    <2>1. PICK j \in promoting[n] : PromoteJob(j) /\ promoting' = [promoting EXCEPT ![n] = @ \ {j}]
      BY <1>2 DEF Promote
    <2>2. OthersTypeOK'
      BY <1>2, <1>a, <1>b, <2>1 DEF Promote, OthersTypeOK
    <2>3. StoreStep
      BY <1>b, <2>1 DEF StoreStep, JobStep
    <2> QED
      BY <1>2, <2>2, <2>3 DEF Promote, EngineStep
  <1>3. CASE ScanIndex(n)
    BY <1>3, <1>a, <1>b DEF ScanIndex, OthersTypeOK, EngineStep, StoreStep
  <1>4. CASE ScanJob(n) \/ ScanFails(n)
    <2>1. PICK j \in scan[n] : \E orphaned \in BOOLEAN : Scanned(n, j, orphaned)
      BY <1>4 DEF ScanJob, ScanFails, LooksOrphaned
    <2>2. scan' \in [Nodes -> SUBSET Jobs] /\ orphans' \in [Nodes -> SUBSET Jobs]
      BY <1>a, <1>b, <2>1 DEF Scanned, OthersTypeOK
    <2>3. events' = events \/ (events < MaxEvents /\ events' = events + 1)
      BY <1>4 DEF ScanJob, ScanFails, Mishap
    <2>4. events' \in 0..MaxEvents
      BY <1>a, <2>3 DEF OthersTypeOK
    <2> QED
      BY <1>a, <2>1, <2>2, <2>4 DEF Scanned, OthersTypeOK, EngineStep, StoreStep
  <1>5. CASE OrphanCheck(n)
    <2>1. PICK j \in orphans[n] :
             /\ orphans' = [orphans EXCEPT ![n] = @ \ {j}]
             /\ \/ Opens(Call(n, "coordinator", "requeue", j, QueueField(j)))
                \/ UNCHANGED open
      BY <1>5 DEF OrphanCheck
    <2>2. Call(n, "coordinator", "requeue", j, QueueField(j)) \in Calls
      BY <1>b, <1>c DEF Call, Calls
    <2>3. open' \subseteq Calls
      BY <1>a, <2>1, <2>2 DEF Opens, OthersTypeOK
    <2> QED
      BY <1>5, <1>a, <1>b, <2>1, <2>3 DEF OrphanCheck, OthersTypeOK, EngineStep, StoreStep
  <1>6. CASE SweepCheck(n)
    <2>1. PICK s \in Indexes : \E j \in index[s] : Opens(Call(n, "sweep", "erase", j, s))
      BY <1>6 DEF SweepCheck
    <2>3. PICK j \in index[s] : Opens(Call(n, "sweep", "erase", j, s))
      BY <2>1
    <2>2. Call(n, "sweep", "erase", j, s) \in Calls
      BY <1>a DEF Call, Calls
    <2> QED
      BY <1>6, <1>a, <2>2, <2>3 DEF SweepCheck, Opens, OthersTypeOK, loopVars, EngineStep, StoreStep
  <1>7. ASSUME NEW c \in open, Write(c)
        PROVE  EngineStep /\ StoreStep /\ OthersTypeOK'
    <2>1. /\ c.job \in Jobs
          /\ c.op = "requeue" => c.arg \in Queues
          /\ c.op = "erase" => c.arg \in Indexes
      BY <1>a, WorkerCall
    <2>2. OthersTypeOK'
      BY <1>7, <1>a DEF Write, Closes, OthersTypeOK, loopVars
    <2>3. StoreStep
      BY <1>7, <2>1 DEF Write, StoreStep, JobStep
    <2> QED
      BY <1>7, <2>2, <2>3 DEF Write, EngineStep
  <1>8. CASE PromoteFails(n)
    <2>1. OthersTypeOK'
      BY <1>8, <1>a, <1>b DEF PromoteFails, Mishap, OthersTypeOK
    <2> QED
      BY <1>8, <2>1 DEF PromoteFails, EngineStep, StoreStep
  <1> QED
    BY <1>1, <1>2, <1>3, <1>4, <1>5, <1>6, <1>7, <1>8 DEF Coordinator, Sweep, WriteBy

\* The end and the start of a process.
LEMMA ProcessDecomposes ==
    ASSUME TypeOK, HoldsJob, CallsSound, NEW n \in Nodes, Crash(n) \/ Stop(n) \/ Restart(n)
    PROVE  EngineStep /\ StoreStep /\ OthersTypeOK'
  <1>a. OthersTypeOK /\ MaxEvents \in Nat
    BY RedisEngineAssumption DEF TypeOK, OthersTypeOK
  <1>b. promoting[n] \subseteq Jobs
    BY <1>a DEF OthersTypeOK
  <1>1. CASE Crash(n)
    <2>1. ASSUME NEW v \in Workers, Finalizing(v)
          PROVE  job[v] \in Jobs
      BY <2>1 DEF Finalizing, HoldsJob
    <2>2. hit' \subseteq Jobs
      BY <1>1, <1>a, <1>b, <2>1, WorkerCall DEF Crash, OthersTypeOK
    <2>3. OthersTypeOK'
      BY <1>1, <1>a, <2>2 DEF Crash, Mishap, EndsLoops, OthersTypeOK
    <2> QED
      BY <1>1, <2>3 DEF Crash, EngineStep, StoreStep
  <1>2. CASE Stop(n)
    <2>1. OthersTypeOK'
      BY <1>2, <1>a, <1>b DEF Stop, Mishap, EndsLoops, OthersTypeOK
    <2> QED
      BY <1>2, <2>1 DEF Stop, EngineStep, StoreStep
  <1>3. CASE Restart(n)
    BY <1>3, <1>a DEF Restart, OthersTypeOK, loopVars, EngineStep, StoreStep
  <1> QED
    BY <1>1, <1>2, <1>3

\* The REST handlers.
LEMMA RequestDecomposes ==
    ASSUME TypeOK, HoldsJob, CallsSound, NEW n \in Nodes, NEW j \in Jobs,
           \/ handleEnqueue(n, j) \/ handleSchedule(n, j) \/ handleCancel(n, j)
           \/ \E op \in {"requeue", "delete"} : Begin(n, op, j)
    PROVE  EngineStep /\ StoreStep /\ OthersTypeOK'
  <1>a. OthersTypeOK /\ MaxEvents \in Nat
    BY RedisEngineAssumption DEF TypeOK, OthersTypeOK
  <1>b. othersUnchanged => OthersTypeOK'
    BY <1>a DEF othersUnchanged, OthersTypeOK, loopVars
  <1>c. QueueField(j) \in Queues
    BY EngineAssumption, RedisAssumption DEF QueueField
  <1>1. CASE handleEnqueue(n, j) \/ handleSchedule(n, j)
    BY <1>1, <1>b DEF handleEnqueue, handleSchedule, EngineStep, StoreStep, JobStep
  <1>2. CASE handleCancel(n, j)
    BY <1>2, <1>a DEF handleCancel, Request, OthersTypeOK, loopVars, EngineStep, StoreStep
  <1>3. ASSUME NEW op \in {"requeue", "delete"}, Begin(n, op, j)
        PROVE  EngineStep /\ StoreStep /\ OthersTypeOK'
    <2> DEFINE c == Call(n, "api", op, j, IF op = "requeue" THEN QueueField(j) ELSE "")
    <2>1. c \in Calls
      BY <1>c DEF Call, Calls
    <2>2. /\ open' = open \cup {c}
          /\ UNCHANGED <<loopVars, hit>>
          /\ events < MaxEvents /\ events' = events + 1
      BY <1>3 DEF Begin, Opens, Request
    <2> HIDE DEF c
    <2>3. OthersTypeOK'
      BY <1>a, <2>1, <2>2 DEF OthersTypeOK, loopVars
    <2> QED
      BY <1>3, <2>3 DEF Begin, EngineStep, StoreStep
  <1> QED
    BY <1>1, <1>2, <1>3

\* All steps together.
LEMMA NextDecomposes ==
    ASSUME TypeOK, HoldsJob, CallsSound, Next
    PROVE  EngineStep /\ StoreStep /\ OthersTypeOK'
  <1>1. ASSUME NEW j \in Jobs, Stale(j)
        PROVE  EngineStep /\ StoreStep /\ OthersTypeOK'
    <2>1. othersUnchanged => OthersTypeOK'
      BY DEF othersUnchanged, OthersTypeOK, loopVars, TypeOK
    <2> QED
      BY <1>1, <2>1 DEF Stale, EngineStep, StoreStep, JobStep
  <1> QED
    BY <1>1, WorkerDecomposes, LoopDecomposes, ProcessDecomposes, RequestDecomposes DEF Next

-----------------------------------------------------------------------------
(* Calls *)

\* At most worker w moves.
Moves(w) == \A v \in Workers \ {w} : pc'[v] = pc[v] /\ job'[v] = job[v]

\* The local steps of a worker move no other.
LEMMA LocalMoves ==
    ASSUME EngineTypeOK, NEW w \in Workers,
           \/ PickQueues(w) \/ WorkerExit(w) \/ Execute(w) \/ Return(w)
           \/ NoTicket(w) \/ LoopEnds(w) \/ AbandonTicket(w)
           \/ \E j : GotTicket(w, j) \/ Advance(w, j) \/ Finalized(w, j)
                       \/ LoadContinuations(w, j) \/ BeginRun(w, j)
    PROVE  Moves(w)
  <1>1. pc \in [Workers -> PCs] /\ job \in [Workers -> Jobs \cup {NoJob}]
    BY DEF EngineTypeOK
  <1> QED
    BY <1>1 DEF Moves, Goto, PickQueues, WorkerExit, Execute, Return, NoTicket, LoopEnds, AbandonTicket,
                GotTicket, Advance, Finalized, LoadContinuations, BeginRun

\* A call of worker w that waits for its second half.
Waits(c, w) == c.op \in {"claim", "retry"} /\ c.by = w

\* A worker that is neither dequeuing nor scheduling a retry, or is not busy,
\* has no such call; and it never has a second one.
LEMMA NoneWaits ==
    ASSUME CallsSound, NEW w \in Workers
    PROVE  /\ pc[w] \notin {"dequeue", "scheduleRetry"} => \A c \in open : ~Waits(c, w)
           /\ ~Busy(NodeOf[w], w) => \A c \in open : ~Waits(c, w)
           /\ \A c \in open : Waits(c, w) => \A d \in open \ {c} : ~Waits(d, w)
  <1>1. \A c \in open : Waits(c, w) => pc[w] \in {"dequeue", "scheduleRetry"} /\ c.node = NodeOf[w]
    BY DEF CallsSound, Sound, Waits
  <1> QED
    BY <1>1 DEF CallsSound, Waits, Busy

\* Calls that are still open stay sound while their workers wait.
LEMMA CallsKept ==
    ASSUME CallsSound, open' \subseteq open,
           \A c \in open' : c.op \in {"claim", "retry"}
                              => pc'[c.by] = pc[c.by] /\ job'[c.by] = job[c.by]
    PROVE  CallsSound'
  <1>1. ASSUME NEW c \in open' PROVE Sound(c)'
    BY DEF CallsSound, Sound
  <1> QED
    BY <1>1 DEF CallsSound

\* In particular when the one worker that moves leaves no call behind.
LEMMA CallsLeft ==
    ASSUME CallsSound, NEW w \in Workers, Moves(w), open' \subseteq open, \A c \in open' : ~Waits(c, w)
    PROVE  CallsSound'
  <1>1. ASSUME NEW c \in open', c.op \in {"claim", "retry"}
        PROVE  pc'[c.by] = pc[c.by] /\ job'[c.by] = job[c.by]
    BY <1>1 DEF CallsSound, Sound, Waits, Moves
  <1> QED
    BY <1>1, CallsKept

\* A new call that is sound, by a worker that has none.
LEMMA CallsOpened ==
    ASSUME CallsSound, NEW c, Opens(c), Sound(c), UNCHANGED <<pc, job>>,
           c.op \in {"claim", "retry"} => \A d \in open : ~Waits(d, c.by)
    PROVE  CallsSound'
  <1>1. ASSUME NEW d \in open' PROVE Sound(d)'
    BY DEF CallsSound, Sound, Opens
  <1>2. ASSUME NEW d \in open', NEW e \in open', d.op \in {"claim", "retry"}, e.op \in {"claim", "retry"},
               d.by = e.by
        PROVE  d = e
    BY <1>2 DEF CallsSound, Opens, Waits
  <1> QED
    BY <1>1, <1>2 DEF CallsSound

\* The calls in which a worker takes a ticket.
LEMMA TicketCalls ==
    ASSUME TypeOK, CallsSound, NEW w \in Workers,
           \/ Pop(w) \/ DequeueEmpty(w) \/ LoadJob(w)
           \/ \E c \in open : c.by = w /\ Claim(c)
    PROVE  CallsSound'
  <1>a. EngineTypeOK
    BY DEF TypeOK
  <1>1. CASE Pop(w)
    <2>1. PICK j \in Jobs : Opens(Call(NodeOf[w], w, "claim", j, ""))
      BY <1>1 DEF Pop
    <2>2. Sound(Call(NodeOf[w], w, "claim", j, ""))
      BY <1>1 DEF Pop, Sound, Call
    <2>3. \A d \in open : ~Waits(d, w)
      BY <1>1, NoneWaits DEF Pop
    <2> QED
      BY <1>1, <2>1, <2>2, <2>3, CallsOpened DEF Pop, Call, engineVars
  <1>2. CASE DequeueEmpty(w) \/ LoadJob(w)
    <2>1. \A d \in open : ~Waits(d, w)
      BY <1>2, NoneWaits DEF DequeueEmpty, LoadJob
    <2>2. Moves(w) /\ open' = open
      BY <1>2, <1>a, LocalMoves DEF DequeueEmpty, LoadJob, othersUnchanged
    <2> QED
      BY <2>1, <2>2, CallsLeft
  <1>3. ASSUME NEW c \in open, c.by = w, Claim(c)
        PROVE  CallsSound'
    <2>1. \A d \in open \ {c} : ~Waits(d, w)
      BY <1>3, NoneWaits DEF Claim, Waits
    <2>2. open' = open \ {c}
      BY <1>3 DEF Claim, Closes
    <2>3. Moves(w)
      <3>1. CASE NoTicket(w) \/ GotTicket(w, c.job)
        BY <1>a, <3>1, LocalMoves
      <3>2. CASE UNCHANGED engineVars
        BY <3>2 DEF engineVars, Moves
      <3> QED
        BY <1>3, <3>1, <3>2 DEF Claim
    <2> QED
      BY <2>1, <2>2, <2>3, CallsLeft
  <1> QED
    BY <1>1, <1>2, <1>3

\* The calls in which it finalizes its job, and its local steps.
LEMMA FinalizeCalls ==
    ASSUME TypeOK, CallsSound, NEW w \in Workers,
           \/ WorkerLocal(w) \/ SetResult(w) \/ ApplySucceeded(w) \/ ApplyCancelled(w) \/ ApplyDead(w)
           \/ ApplyFailed(w) \/ RetryCheck(w) \/ FireContinuations(w)
           \/ \E c \in open : c.by = w /\ Retry(c)
    PROVE  CallsSound'
  <1>a. EngineTypeOK
    BY DEF TypeOK
  <1>b. Refused(w) => Moves(w)
    BY <1>a, LocalMoves DEF Refused
  <1>1. CASE \/ WorkerLocal(w) \/ SetResult(w) \/ ApplyFailed(w) \/ FireContinuations(w)
             \/ ApplySucceeded(w) \/ ApplyCancelled(w) \/ ApplyDead(w)
    <2>1. open' = open /\ pc[w] \notin {"dequeue", "scheduleRetry"}
      BY <1>1 DEF WorkerLocal, SetResult, ApplyFailed, FireContinuations, ApplySucceeded, ApplyCancelled,
                  ApplyDead, FinishAs, othersUnchanged, PickQueues, WorkerExit, Execute, Return
    <2>2. Moves(w)
      <3>1. CASE WorkerLocal(w)
        BY <1>a, <3>1, LocalMoves DEF WorkerLocal
      <3>2. CASE SetResult(w)
        BY <1>a, <1>b, <3>2, LocalMoves DEF SetResult
      <3>3. CASE ApplyFailed(w)
        BY <1>a, <1>b, <3>3, LocalMoves DEF ApplyFailed
      <3>4. CASE FireContinuations(w)
        BY <1>a, <3>4, LocalMoves DEF FireContinuations
      <3>5. CASE ApplySucceeded(w) \/ ApplyCancelled(w) \/ ApplyDead(w)
        BY <1>a, <1>b, <3>5, LocalMoves DEF ApplySucceeded, ApplyCancelled, ApplyDead, FinishAs
      <3> QED
        BY <1>1, <3>1, <3>2, <3>3, <3>4, <3>5
    <2> QED
      BY <2>1, <2>2, NoneWaits, CallsLeft
  <1>2. CASE RetryCheck(w)
    <2>1. \A d \in open : ~Waits(d, w)
      BY <1>2, NoneWaits DEF RetryCheck
    <2>2. CASE Refused(w) /\ UNCHANGED open
      BY <1>b, <2>1, <2>2, CallsLeft
    <2>3. CASE /\ Opens(Call(NodeOf[w], w, "retry", job[w], ""))
               /\ UNCHANGED <<engineVars, storeVars, hit>>
      <3>1. Sound(Call(NodeOf[w], w, "retry", job[w], ""))
        BY <1>2 DEF RetryCheck, Sound, Call
      <3> QED
        BY <2>1, <2>3, <3>1, CallsOpened DEF Call, engineVars
    <2> QED
      BY <1>2, <2>2, <2>3 DEF RetryCheck
  <1>3. ASSUME NEW c \in open, c.by = w, Retry(c)
        PROVE  CallsSound'
    <2>1. \A d \in open \ {c} : ~Waits(d, w)
      BY <1>3, NoneWaits DEF Retry, Waits
    <2>2. open' = open \ {c}
      BY <1>3 DEF Retry, Closes
    <2>3. Moves(w)
      BY <1>3, <1>a, <1>b, LocalMoves DEF Retry
    <2> QED
      BY <2>1, <2>2, <2>3, CallsLeft
  <1> QED
    BY <1>1, <1>2, <1>3

\* A broken connection ends the call that it breaks.
LEMMA FaultCalls ==
    ASSUME TypeOK, CallsSound, NEW w \in Workers, CallFails(w) \/ AckLost(w)
    PROVE  CallsSound'
  <1>a. EngineTypeOK
    BY DEF TypeOK
  <1>1. ASSUME NEW c \in open, Waits(c, w), Closes(c), Moves(w)
        PROVE  CallsSound'
    BY <1>1, NoneWaits, CallsLeft DEF Closes
  <1>2. ASSUME \/ pc[w] \notin {"dequeue", "scheduleRetry"} /\ UNCHANGED open
               \/ ~Busy(NodeOf[w], w) /\ UNCHANGED open
               \/ open' = {c \in open : c.by # w},
               Moves(w)
        PROVE  CallsSound'
    <2>1. open' \subseteq open /\ \A c \in open' : ~Waits(c, w)
      BY <1>2, NoneWaits DEF Waits
    <2> QED
      BY <1>2, <2>1, CallsLeft
  <1>3. CASE CallFails(w)
    <2>1. Moves(w)
      BY <1>a, <1>3, LocalMoves DEF CallFails
    <2> QED
      BY <1>1, <1>2, <1>3, <2>1 DEF CallFails, Waits
  <1>4. CASE AckLost(w)
    <2>1. Moves(w)
      BY <1>a, <1>4, LocalMoves DEF AckLost
    <2> QED
      BY <1>1, <1>2, <1>4, <2>1 DEF AckLost, Waits
  <1> QED
    BY <1>3, <1>4

\* A worker that ends while it waits for BRPOP has no call open.
LEMMA DialCalls ==
    ASSUME TypeOK, CallsSound, NEW w \in Workers, DialTimesOut(w)
    PROVE  CallsSound'
  <1>1. Moves(w)
    BY LocalMoves DEF DialTimesOut, TypeOK
  <1>2. \A c \in open : ~Waits(c, w)
    BY NoneWaits DEF DialTimesOut
  <1>3. \A c \in open : c.op \in {"claim", "retry"} => c.by \in Workers \ {w}
    BY <1>2 DEF CallsSound, Sound, Waits
  <1>4. open' = open
    BY DEF DialTimesOut
  <1> QED
    BY <1>1, <1>3, <1>4, CallsKept DEF Moves

\* Everything else moves no worker, or ends the calls of those it moves.
LEMMA OtherCalls ==
    ASSUME TypeOK, CallsSound,
           \/ \E w \in Workers : Heartbeat(w) \/ Timeout(w)
           \/ \E n \in Nodes, due \in SUBSET scheduled : TickScheduler(n, due)
           \/ \E n \in Nodes : Promote(n) \/ Coordinator(n) \/ Sweep(n) \/ WriteBy(n, "api")
                                 \/ ScanFails(n) \/ PromoteFails(n) \/ Crash(n) \/ Stop(n) \/ Restart(n)
           \/ \E j \in Jobs : Stale(j)
           \/ \E n \in Nodes, j \in Jobs :
                 \/ handleEnqueue(n, j) \/ handleSchedule(n, j) \/ handleCancel(n, j)
                 \/ \E op \in {"requeue", "delete"} : Begin(n, op, j)
    PROVE  CallsSound'
  <1>a. \A j \in Jobs : QueueField(j) \in Queues
    BY EngineAssumption, RedisAssumption DEF QueueField
  <1>b. \A n \in Nodes : orphans[n] \subseteq Jobs
    BY DEF TypeOK
  <1>1. CASE open' \subseteq open /\ UNCHANGED <<pc, job>>
    BY <1>1, CallsKept
  <1>2. ASSUME NEW c, Opens(c), Sound(c), UNCHANGED <<pc, job>>, c.op \notin {"claim", "retry"}
        PROVE  CallsSound'
    BY <1>2, CallsOpened
  <1>3. CASE \/ \E w \in Workers : Heartbeat(w) \/ Timeout(w)
             \/ \E n \in Nodes, due \in SUBSET scheduled : TickScheduler(n, due)
             \/ \E n \in Nodes : Promote(n) \/ ScanFails(n) \/ PromoteFails(n) \/ ScanIndex(n) \/ ScanJob(n)
             \/ \E j \in Jobs : Stale(j)
             \/ \E n \in Nodes, j \in Jobs :
                   handleEnqueue(n, j) \/ handleSchedule(n, j) \/ handleCancel(n, j)
    <2>1. UNCHANGED <<open, pc, job>>
      BY <1>3 DEF Heartbeat, Timeout, JobTimeout, TickScheduler, Promote, ScanFails, PromoteFails, ScanIndex,
                  ScanJob, Scanned, Stale, handleEnqueue, handleSchedule, handleCancel, CancelJob,
                  othersUnchanged, engineVars
    <2> QED
      BY <1>1, <2>1
  <1>4. ASSUME NEW n \in Nodes, OrphanCheck(n)
        PROVE  CallsSound'
    <2>1. PICK j \in orphans[n] : \/ Opens(Call(n, "coordinator", "requeue", j, QueueField(j)))
                                  \/ UNCHANGED open
      BY <1>4 DEF OrphanCheck
    <2>2. UNCHANGED <<pc, job>>
      BY <1>4 DEF OrphanCheck, engineVars
    <2>3. Sound(Call(n, "coordinator", "requeue", j, QueueField(j)))
      BY <1>a, <1>b DEF Sound, Call
    <2>4. Call(n, "coordinator", "requeue", j, QueueField(j)).op = "requeue"
      BY DEF Call
    <2> QED
      BY <1>1, <1>2, <2>1, <2>2, <2>3, <2>4
  <1>5. ASSUME NEW n \in Nodes, SweepCheck(n)
        PROVE  CallsSound'
    <2>1. PICK s \in Indexes : \E j \in index[s] : Opens(Call(n, "sweep", "erase", j, s))
      BY <1>5 DEF SweepCheck
    <2>2. PICK j \in index[s] : Opens(Call(n, "sweep", "erase", j, s))
      BY <2>1
    <2>3. UNCHANGED <<pc, job>>
      BY <1>5 DEF SweepCheck, engineVars
    <2>4. Sound(Call(n, "sweep", "erase", j, s)) /\ Call(n, "sweep", "erase", j, s).op = "erase"
      BY DEF Sound, Call
    <2> QED
      BY <1>2, <2>2, <2>3, <2>4
  <1>6. ASSUME NEW n \in Nodes, NEW by, WriteBy(n, by)
        PROVE  CallsSound'
    BY <1>1, <1>6 DEF WriteBy, Write, Closes, engineVars
  <1>7. ASSUME NEW n \in Nodes, NEW j \in Jobs, NEW op \in {"requeue", "delete"}, Begin(n, op, j)
        PROVE  CallsSound'
    <2> DEFINE c == Call(n, "api", op, j, IF op = "requeue" THEN QueueField(j) ELSE "")
    <2>1. Sound(c) /\ c.op = op
      BY <1>a DEF Sound, Call
    <2>2. Opens(c) /\ UNCHANGED <<pc, job>>
      BY <1>7 DEF Begin, engineVars
    <2> HIDE DEF c
    <2> QED
      BY <1>2, <2>1, <2>2
  <1>8. ASSUME NEW n \in Nodes, Crash(n) \/ Restart(n)
        PROVE  CallsSound'
    <2>1. /\ open' \subseteq open
          /\ \A c \in open' : c.op \in {"claim", "retry"} => c.node # n /\ c.by \in Workers /\ NodeOf[c.by] # n
      BY <1>8 DEF Crash, Restart, EndsLoops, CallsSound, Sound
    <2>2. \A v \in Workers : NodeOf[v] # n => pc'[v] = pc[v] /\ job'[v] = job[v]
      BY <1>8 DEF Crash, CrashEngine, Restart, StartEngine
    <2> QED
      BY <2>1, <2>2, CallsKept
  <1>9. ASSUME NEW n \in Nodes, Stop(n)
        PROVE  CallsSound'
    BY <1>1, <1>9 DEF Stop, StopEngine, EndsLoops
  <1> QED
    BY <1>3, <1>4, <1>5, <1>6, <1>7, <1>8, <1>9 DEF Coordinator, Sweep

-----------------------------------------------------------------------------
(* Types *)

RedisInv == TypeOK /\ HoldsJob /\ CancelHitsItsJob /\ ActiveAccurate /\ CallsSound

\* Nothing is open or stored at the start.
LEMMA InitRedisInv == Init => RedisInv
  <1> SUFFICES ASSUME Init PROVE RedisInv
    OBVIOUS
  <1>1. EngineInv
    BY EngineInitInv DEF Init
  <1>2. StoreTypeOK
    <2>1. <<>> \in Seq(Jobs) /\ 0 \in 0..AttemptCap
      BY EngineAssumption
    <2> QED
      BY <2>1 DEF Init, StoreInit, StoreTypeOK, Missing
  <1>3. OthersTypeOK
    BY RedisEngineAssumption DEF Init, OthersTypeOK
  <1>4. CallsSound
    BY DEF Init, CallsSound
  <1> QED
    BY <1>1, <1>2, <1>3, <1>4 DEF RedisInv, EngineInv, TypeOK, OthersTypeOK

\* Every step keeps the types, the engine's tables and the calls.
LEMMA NextRedisInv ==
    ASSUME RedisInv, [Next]_vars
    PROVE  RedisInv'
  <1>1. CASE Next
    <2>1. EngineStep /\ StoreStep /\ OthersTypeOK'
      BY <1>1, NextDecomposes DEF RedisInv
    <2>2. EngineInv'
      BY <2>1, EngineStepInv DEF RedisInv, EngineInv, TypeOK
    <2>3. StoreTypeOK'
      BY <2>1, StoreStepType DEF RedisInv, TypeOK
    <2>4. CallsSound'
      <3>1. TypeOK /\ CallsSound
        BY DEF RedisInv
      <3> QED
        BY <1>1, <3>1, TicketCalls, FinalizeCalls, FaultCalls, DialCalls, OtherCalls DEF Next, WorkerStore
    <2> QED
      BY <2>1, <2>2, <2>3, <2>4 DEF RedisInv, EngineInv, TypeOK, OthersTypeOK
  <1>2. CASE UNCHANGED vars
    <2>1. EngineStep /\ StoreStep
      BY <1>2 DEF vars, EngineStep, StoreStep
    <2>2. EngineInv'
      BY <2>1, EngineStepInv DEF RedisInv, EngineInv, TypeOK
    <2>3. StoreTypeOK'
      BY <2>1, StoreStepType DEF RedisInv, TypeOK
    <2>4. OthersTypeOK'
      BY <1>2 DEF vars, loopVars, RedisInv, TypeOK, OthersTypeOK
    <2>5. CallsSound'
      BY <1>2, CallsKept DEF vars, engineVars, RedisInv
    <2> QED
      BY <2>2, <2>3, <2>4, <2>5 DEF RedisInv, EngineInv, TypeOK, OthersTypeOK
  <1> QED
    BY <1>1, <1>2

\* Type correctness of the whole Redis deployment, mishaps included.
THEOREM RedisTypeCorrect == Spec => []TypeOK
  <1>1. RedisInv => TypeOK
    BY DEF RedisInv
  <1> QED
    BY <1>1, InitRedisInv, NextRedisInv, PTL DEF Spec

\* On this backend too the in-flight counters count the workers in flight, and
\* an entry of the cancel map points at the worker that runs that job.
THEOREM RedisTablesRight == Spec => [](ActiveAccurate /\ CancelHitsItsJob)
  <1>1. RedisInv => ActiveAccurate /\ CancelHitsItsJob
    BY DEF RedisInv
  <1> QED
    BY <1>1, InitRedisInv, NextRedisInv, PTL DEF Spec

-----------------------------------------------------------------------------
(* Nothing is lost *)

\* Who carries a job beside its keys: a claim under way, a promotion, a worker.
Claimed(j) == \E c \in open : c.op = "claim" /\ c.job = j
Promoted(j) == \E n \in Nodes : j \in promoting[n]
InHands(j) == \E w \in Workers : job[w] = j /\ pc[w] \in Settling

\* The job is carried, or a mishap is on record.
Safe(j) == Carried(j) \/ j \in hit

\* The four cases of Carried as implications.
LEMMA CarriedCases ==
    ASSUME NEW j \in Jobs
    PROVE  Carried(j) <=> /\ state[j] = "Enqueued" => Queued(j) \/ Claimed(j)
                          /\ state[j] = "Scheduled" => j \in scheduled \/ Promoted(j)
                          /\ state[j] = "Processing" => j \in index["Processing"]
                          /\ state[j] = "Failed" => InHands(j)
  <1>1. CASE state[j] = "Enqueued"
    BY <1>1 DEF Carried, Claimed
  <1>2. CASE state[j] = "Scheduled"
    BY <1>2 DEF Carried, Promoted
  <1>3. CASE state[j] = "Processing"
    BY <1>3 DEF Carried
  <1>4. CASE state[j] = "Failed"
    BY <1>4 DEF Carried, InHands, Settling
  <1>5. CASE state[j] \notin {"Enqueued", "Scheduled", "Processing", "Failed"}
    BY <1>5 DEF Carried
  <1> QED
    BY <1>1, <1>2, <1>3, <1>4, <1>5

\* The same after a step.
LEMMA CarriedCasesNext ==
    ASSUME NEW j \in Jobs
    PROVE  Carried(j)' <=> /\ state'[j] = "Enqueued" => Queued(j)' \/ Claimed(j)'
                           /\ state'[j] = "Scheduled" => j \in scheduled' \/ Promoted(j)'
                           /\ state'[j] = "Processing" => j \in index'["Processing"]
                           /\ state'[j] = "Failed" => InHands(j)'
  <1>1. CASE state'[j] = "Enqueued"
    BY <1>1 DEF Carried, Claimed
  <1>2. CASE state'[j] = "Scheduled"
    BY <1>2 DEF Carried, Promoted
  <1>3. CASE state'[j] = "Processing"
    BY <1>3 DEF Carried
  <1>4. CASE state'[j] = "Failed"
    BY <1>4 DEF Carried, InHands, Settling
  <1>5. CASE state'[j] \notin {"Enqueued", "Scheduled", "Processing", "Failed"}
    BY <1>5 DEF Carried
  <1> QED
    BY <1>1, <1>2, <1>3, <1>4, <1>5

\* The calls, loops and workers that carry job j go on carrying it, or the
\* mishap that keeps them from it is on record.
Minded(j) ==
    /\ j \in hit => j \in hit'
    /\ state[j] = "Enqueued" /\ Claimed(j) => Claimed(j)' \/ j \in hit'
    /\ state[j] = "Scheduled" /\ Promoted(j) => Promoted(j)' \/ j \in hit'
    /\ state[j] = "Failed" /\ InHands(j) => InHands(j)' \/ j \in hit'

\* A job that is minded stays safe when its own keys are left alone.
LEMMA Bystander ==
    ASSUME StoreTypeOK, NEW j \in Jobs, Safe(j), Minded(j),
           UNCHANGED <<state, queues, index, scheduled>> \/ \E k \in Jobs \ {j} : JobStep(k)
    PROVE  Safe(j)'
  <1>1. Spared(j)
    <2>1. CASE UNCHANGED <<state, queues, index, scheduled>>
      BY <2>1 DEF Spared, Queued
    <2> QED
      BY <2>1, OthersSpared
  <1> QED
    BY <1>1, CarriedCases, CarriedCasesNext DEF Safe, Minded, Spared

\* A script or pipeline that sets the state of a job also puts the job where
\* the next step looks for it, except for the transition to Failed.
LEMMA WrittenSafe ==
    ASSUME StoreTypeOK, NEW k \in Jobs,
           \/ Enqueue(k) \/ AddScheduled(k) \/ finalizeDequeue(k) \/ WriteDelete(k) \/ WriteRetry(k)
           \/ Exists(k) /\ PromoteJob(k)
           \/ \E q \in Queues : WriteRequeue(k, q)
           \/ \E s \in Indexes : deleteJob(k, s)
           \/ \E expected, new : new \in {"Succeeded", "Cancelled", "Dead"} /\ ApplyState(k, expected, new)
    PROVE  Safe(k)'
  <1>a. /\ state \in [Jobs -> JobStates \cup Missing] /\ index \in [Indexes -> SUBSET Jobs]
        /\ queues \in [Queues -> Seq(Jobs)] /\ "Processing" \in Indexes
        /\ QueueOf[k] \in Queues /\ QueueField(k) \in Queues
    BY EngineAssumption, RedisAssumption DEF StoreTypeOK, QueueField, Indexes
  <1>b. \A q \in Queues : LPush(q, k) => Queued(k)'
    BY <1>a, LPushed DEF Queued
  <1>1. CASE \/ Enqueue(k) \/ (Exists(k) /\ PromoteJob(k)) \/ \E q \in Queues : WriteRequeue(k, q)
    <2>1. state'[k] = "Enqueued"
      BY <1>1, <1>a DEF Enqueue, PromoteJob, WriteRequeue, SetState
    <2>2. Queued(k)'
      BY <1>1, <1>a, <1>b DEF Enqueue, PromoteJob, WriteRequeue
    <2> QED
      BY <2>1, <2>2, CarriedCasesNext DEF Safe
  <1>2. CASE AddScheduled(k) \/ WriteRetry(k)
    <2>1. state'[k] = "Scheduled" /\ k \in scheduled'
      BY <1>2, <1>a DEF AddScheduled, WriteRetry, SetState
    <2> QED
      BY <2>1, CarriedCasesNext DEF Safe
  <1>3. CASE finalizeDequeue(k)
    <2>1. state'[k] = "Processing" /\ k \in index'["Processing"]
      BY <1>3, <1>a DEF finalizeDequeue, SetState, Reindex
    <2> QED
      BY <2>1, CarriedCasesNext DEF Safe
  <1>4. CASE \/ WriteDelete(k) \/ \E s \in Indexes : deleteJob(k, s)
             \/ \E expected, new : new \in {"Succeeded", "Cancelled", "Dead"} /\ ApplyState(k, expected, new)
    <2>1. state'[k] \in {"Deleted", "Removed", "Succeeded", "Cancelled", "Dead"}
      BY <1>4, <1>a DEF WriteDelete, deleteJob, ApplyState, SetState
    <2> QED
      BY <2>1, CarriedCasesNext DEF Safe
  <1> QED
    BY <1>1, <1>2, <1>3, <1>4

\* Opening a call ends no claim, closing one ends no other.
LEMMA ClaimsKept ==
    ASSUME NEW j, \/ open' = open \/ \E c : Opens(c)
                  \/ \E c : Closes(c) /\ (c.op # "claim" \/ c.job # j)
    PROVE  Claimed(j) => Claimed(j)'
  <1> QED
    BY DEF Claimed, Opens, Closes

\* A worker that settles no job, or not this one, takes it out of no hands.
LEMMA HandsKept ==
    ASSUME NEW w \in Workers, Moves(w), NEW j, pc[w] \notin Settling \/ job[w] # j
    PROVE  InHands(j) => InHands(j)'
  <1> QED
    BY DEF InHands, Moves

\* A refused command drops a Failed job only when the mishap is on record.
LEMMA RefusedMinds ==
    ASSUME EngineTypeOK, NEW w \in Workers, Refused(w), UNCHANGED promoting, NEW j \in Jobs,
           Claimed(j) => Claimed(j)',
           pc[w] \in Settling /\ ctx[w] = "live" => state[job[w]] # "Failed"
    PROVE  Minded(j)
  <1>1. Moves(w)
    BY LocalMoves DEF Refused
  <1>2. hit \subseteq hit'
    BY DEF Refused, Strands
  <1>3. state[j] = "Failed" /\ InHands(j) => InHands(j)' \/ j \in hit'
    <2>1. CASE pc[w] \notin Settling \/ job[w] # j
      BY <1>1, <2>1, HandsKept
    <2>2. CASE pc[w] \in Settling /\ job[w] = j
      BY <2>2 DEF Refused, Strands, Finalizing, Settling
    <2> QED
      BY <2>1, <2>2
  <1> QED
    BY <1>2, <1>3 DEF Minded, Promoted

\* A worker takes a ticket: between BRPOP and the script the call carries the job.
LEMMA TicketSafe ==
    ASSUME RedisInv, NothingLost, NEW w \in Workers,
           \/ Pop(w) \/ DequeueEmpty(w) \/ LoadJob(w)
           \/ \E c \in open : c.by = w /\ Claim(c)
    PROVE  NothingLost'
  <1> SUFFICES ASSUME NEW j \in Jobs PROVE Safe(j)'
    BY DEF NothingLost, Safe
  <1>a. EngineTypeOK /\ StoreTypeOK /\ OthersTypeOK /\ CallsSound /\ elig[w] \in SUBSET Queues /\ Safe(j)
    BY DEF RedisInv, TypeOK, OthersTypeOK, EngineTypeOK, NothingLost, Safe
  <1>1. CASE Pop(w)
    <2>1. PICK k \in Jobs : BRPop(elig[w], k) /\ Opens(Call(NodeOf[w], w, "claim", k, ""))
      BY <1>1 DEF Pop
    <2>2. JobStep(k)
      BY <1>a, <2>1 DEF JobStep
    <2>3. InHands(j)' <=> InHands(j)
      BY <1>1 DEF Pop, engineVars, InHands
    <2>4. Promoted(j)' <=> Promoted(j)
      BY <1>1 DEF Pop, loopVars, Promoted
    <2>5. hit' = hit
      BY <1>1 DEF Pop
    <2>6. Minded(j)
      BY <2>1, <2>3, <2>4, <2>5, ClaimsKept DEF Minded
    <2>7. CASE j # k
      BY <1>a, <2>2, <2>6, <2>7, Bystander
    <2>8. CASE j = k
      <3>1. Call(NodeOf[w], w, "claim", k, "").op = "claim" /\ Call(NodeOf[w], w, "claim", k, "").job = k
        BY DEF Call
      <3>2. Claimed(j)'
        BY <2>1, <2>8, <3>1 DEF Claimed, Opens
      <3>3. UNCHANGED <<state, index, scheduled>>
        BY <2>1 DEF BRPop
      <3> QED
        BY <1>a, <2>3, <2>4, <2>5, <3>2, <3>3, CarriedCases, CarriedCasesNext DEF Safe
    <2> QED
      BY <2>7, <2>8
  <1>2. CASE DequeueEmpty(w) \/ LoadJob(w)
    <2>1. /\ UNCHANGED <<state, queues, index, scheduled>>
          /\ open' = open /\ hit' = hit /\ promoting' = promoting
          /\ pc[w] \notin Settling
      BY <1>2 DEF DequeueEmpty, LoadJob, storeVars, othersUnchanged, loopVars, Settling
    <2>2. Moves(w)
      BY <1>2, <1>a, LocalMoves DEF DequeueEmpty, LoadJob
    <2>3. Minded(j)
      BY <2>1, <2>2, HandsKept, ClaimsKept DEF Minded, Promoted
    <2> QED
      BY <1>a, <2>1, <2>3, Bystander
  <1>3. ASSUME NEW c \in open, c.by = w, Claim(c) PROVE Safe(j)'
    <2>1. /\ c.job \in Jobs /\ pc[w] \notin Settling
          /\ Closes(c) /\ promoting' = promoting /\ hit \subseteq hit'
      BY <1>3, <1>a, WorkerCall DEF Claim, Settling, loopVars
    <2>2. Moves(w)
      <3>1. CASE NoTicket(w) \/ GotTicket(w, c.job)
        BY <1>a, <3>1, LocalMoves
      <3>2. CASE UNCHANGED engineVars
        BY <3>2 DEF engineVars, Moves
      <3> QED
        BY <1>3, <3>1, <3>2 DEF Claim
    <2>3. InHands(j) => InHands(j)'
      BY <2>1, <2>2, HandsKept
    <2>4. UNCHANGED storeVars \/ finalizeDequeue(c.job)
      BY <1>3 DEF Claim
    <2>5. CASE j # c.job
      <3>1. Minded(j)
        BY <2>1, <2>3, <2>5, ClaimsKept DEF Minded, Promoted
      <3>2. UNCHANGED <<state, queues, index, scheduled>> \/ JobStep(c.job)
        BY <2>4 DEF storeVars, JobStep
      <3> QED
        BY <1>a, <2>1, <2>5, <3>1, <3>2, Bystander
    <2>6. CASE j = c.job
      <3>1. CASE finalizeDequeue(c.job)
        BY <1>a, <2>6, <3>1, WrittenSafe
      <3>2. CASE j \in hit'
        BY <3>2 DEF Safe
      <3>3. CASE ~Exists(j) /\ UNCHANGED <<engineVars, storeVars, hit>>
        <4>1. state'[j] \in Missing
          BY <3>3 DEF Exists, storeVars
        <4> QED
          BY <4>1, CarriedCasesNext DEF Missing, Safe
      <3> QED
        BY <1>3, <2>6, <3>1, <3>2, <3>3 DEF Claim
    <2> QED
      BY <2>5, <2>6
  <1> QED
    BY <1>1, <1>2, <1>3

\* A worker settles its job: a Failed job stays in its hands until the next
\* state is stored, or the worker gives it up on record.
LEMMA FinalizeSafe ==
    ASSUME RedisInv, NothingLost, NEW w \in Workers,
           \/ WorkerLocal(w) \/ SetResult(w) \/ ApplySucceeded(w) \/ ApplyCancelled(w) \/ ApplyDead(w)
           \/ ApplyFailed(w) \/ RetryCheck(w) \/ FireContinuations(w)
           \/ \E c \in open : c.by = w /\ Retry(c)
    PROVE  NothingLost'
  <1> SUFFICES ASSUME NEW j \in Jobs PROVE Safe(j)'
    BY DEF NothingLost, Safe
  <1>a. EngineTypeOK /\ StoreTypeOK /\ OthersTypeOK /\ CallsSound /\ Safe(j)
    BY DEF RedisInv, TypeOK, OthersTypeOK, NothingLost, Safe
  <1>b. pc[w] \notin {"idle", "dequeue", "stopped"} => job[w] \in Jobs
    BY DEF RedisInv, HoldsJob
  <1>c. promoting' = promoting
    BY DEF WorkerLocal, SetResult, ApplySucceeded, ApplyCancelled, ApplyDead, FinishAs, ApplyFailed, RetryCheck,
           FireContinuations, Retry, othersUnchanged, loopVars
  <1>d. ASSUME Refused(w), Claimed(j) => Claimed(j)',
               pc[w] \in Settling /\ ctx[w] = "live" => state[job[w]] # "Failed"
        PROVE  Safe(j)'
    <2>1. Minded(j)
      BY <1>a, <1>c, <1>d, RefusedMinds
    <2> QED
      BY <1>a, <1>d, <2>1, Bystander DEF Refused, storeVars
  <1>1. CASE WorkerLocal(w) \/ FireContinuations(w) \/ (SetResult(w) /\ ~Refused(w))
    <2>1. /\ UNCHANGED <<state, queues, index, scheduled>>
          /\ open' = open /\ hit' = hit /\ pc[w] \notin Settling
      BY <1>1 DEF WorkerLocal, FireContinuations, SetResult, SetJobResult, storeVars, othersUnchanged, Settling,
                  PickQueues, WorkerExit, Execute, Return
    <2>2. Moves(w)
      BY <1>1, <1>a, LocalMoves DEF WorkerLocal, FireContinuations, SetResult
    <2>3. Minded(j)
      BY <1>c, <2>1, <2>2, HandsKept, ClaimsKept DEF Minded, Promoted
    <2> QED
      BY <1>a, <2>1, <2>3, Bystander
  <1>2. CASE SetResult(w) /\ Refused(w)
    BY <1>2, <1>d, ClaimsKept DEF SetResult, Settling
  <1>3. ASSUME NEW label, NEW expected, NEW new, FinishAs(w, label, expected, new),
               \/ label = "applySucceeded" /\ expected = "Processing" /\ new = "Succeeded"
               \/ label = "applyCancelled" /\ expected = "Processing" /\ new = "Cancelled"
               \/ label = "applyDead" /\ expected = "Failed" /\ new = "Dead"
        PROVE  Safe(j)'
    <2>0. pc[w] = label /\ open' = open
      BY <1>3 DEF FinishAs
    <2>1. CASE Refused(w) /\ ~(ctx[w] = "live" /\ state[job[w]] = expected)
      BY <1>3, <1>d, <2>0, <2>1, ClaimsKept DEF Settling
    <2>2. CASE ApplyState(job[w], expected, new) /\ Finalized(w, new) /\ UNCHANGED hit
      <3>1. PICK k \in Jobs : k = job[w]
        BY <1>3, <1>b, <2>0
      <3>2. JobStep(k) /\ new \in {"Succeeded", "Cancelled", "Dead"}
        BY <1>3, <2>2, <3>1 DEF JobStep
      <3>3. CASE j = k
        BY <1>a, <2>2, <3>1, <3>2, <3>3, WrittenSafe
      <3>4. CASE j # k
        <4>1. Moves(w)
          BY <1>a, <2>2, LocalMoves
        <4>2. Minded(j)
          BY <1>c, <2>0, <2>2, <3>1, <3>4, <4>1, HandsKept, ClaimsKept DEF Minded, Promoted
        <4> QED
          BY <1>a, <3>2, <3>4, <4>2, Bystander
      <3> QED
        BY <3>3, <3>4
    <2> QED
      BY <1>3, <2>1, <2>2 DEF FinishAs
  <1>4. CASE ApplyFailed(w)
    <2>0. pc[w] = "applyFailed" /\ open' = open /\ job[w] \in Jobs
      BY <1>4, <1>b DEF ApplyFailed
    <2>1. CASE Refused(w)
      BY <1>d, <2>0, <2>1, ClaimsKept DEF Settling
    <2>2. CASE ApplyState(job[w], "Processing", "Failed") /\ Advance(w, AfterFailed(w)) /\ UNCHANGED hit
      <3>1. PICK k \in Jobs : k = job[w]
        BY <2>0
      <3>2. JobStep(k)
        BY <2>2, <3>1 DEF JobStep
      <3>3. CASE j = k
        <4>1. InHands(j)'
          BY <1>a, <2>2, <3>1, <3>3 DEF InHands, Advance, Goto, AfterFailed, Settling, EngineTypeOK
        <4>2. state'[j] = "Failed"
          BY <1>a, <2>2, <3>1, <3>3 DEF ApplyState, SetState, StoreTypeOK
        <4> QED
          BY <4>1, <4>2, CarriedCasesNext DEF Safe
      <3>4. CASE j # k
        <4>1. Moves(w)
          BY <1>a, <2>2, LocalMoves
        <4>2. Minded(j)
          BY <1>c, <2>0, <2>2, <3>1, <3>4, <4>1, HandsKept, ClaimsKept DEF Minded, Promoted
        <4> QED
          BY <1>a, <3>2, <3>4, <4>2, Bystander
      <3> QED
        BY <3>3, <3>4
    <2> QED
      BY <1>4, <2>1, <2>2 DEF ApplyFailed
  <1>5. CASE RetryCheck(w)
    <2>1. CASE Refused(w) /\ UNCHANGED open /\ ~(ctx[w] = "live" /\ CheckRetry(job[w]))
      BY <1>d, <2>1, ClaimsKept DEF CheckRetry
    <2>2. CASE /\ Opens(Call(NodeOf[w], w, "retry", job[w], ""))
               /\ UNCHANGED <<engineVars, storeVars, hit>>
      <3>1. Minded(j)
        BY <1>c, <2>2, ClaimsKept DEF Minded, Promoted, InHands, engineVars
      <3> QED
        BY <1>a, <2>2, <3>1, Bystander DEF storeVars
    <2> QED
      BY <1>5, <2>1, <2>2 DEF RetryCheck
  <1>6. ASSUME NEW c \in open, c.by = w, Retry(c) PROVE Safe(j)'
    <2>0. /\ c.op = "retry" /\ c.job \in Jobs /\ job[w] = c.job /\ Closes(c)
          /\ Claimed(j) => Claimed(j)'
      BY <1>6, <1>a, WorkerCall, ClaimsKept DEF Retry
    <2>1. CASE Refused(w) /\ ctx[w] # "live"
      BY <1>d, <2>0, <2>1
    <2>2. CASE WriteRetry(c.job) /\ Advance(w, "return") /\ UNCHANGED hit
      <3>1. CASE j = c.job
        BY <1>a, <2>2, <3>1, WrittenSafe
      <3>2. CASE j # c.job
        <4>1. Moves(w)
          BY <1>a, <2>2, LocalMoves
        <4>2. Minded(j)
          BY <1>c, <2>0, <2>2, <3>2, <4>1, HandsKept DEF Minded, Promoted
        <4>3. JobStep(c.job)
          BY <2>2 DEF JobStep
        <4> QED
          BY <1>a, <2>0, <3>2, <4>2, <4>3, Bystander
      <3> QED
        BY <3>1, <3>2
    <2> QED
      BY <1>6, <2>1, <2>2 DEF Retry
  <1> QED
    BY <1>1, <1>2, <1>3, <1>4, <1>5, <1>6 DEF ApplySucceeded, ApplyCancelled, ApplyDead

\* A broken connection under a call that carries a job is on record, and a lost
\* answer leaves what the command has done.
LEMMA FaultSafe ==
    ASSUME RedisInv, NothingLost, NEW w \in Workers, CallFails(w) \/ AckLost(w)
    PROVE  NothingLost'
  <1> SUFFICES ASSUME NEW j \in Jobs PROVE Safe(j)'
    BY DEF NothingLost, Safe
  <1>a. EngineTypeOK /\ StoreTypeOK /\ OthersTypeOK /\ CallsSound /\ elig[w] \in SUBSET Queues /\ Safe(j)
    BY DEF RedisInv, TypeOK, OthersTypeOK, EngineTypeOK, NothingLost, Safe
  <1>b. pc[w] \notin {"idle", "dequeue", "stopped"} => job[w] \in Jobs
    BY DEF RedisInv, HoldsJob
  <1>c. promoting' = promoting /\ Moves(w)
    BY <1>a, LocalMoves DEF CallFails, AckLost, loopVars
  <1>1. CASE CallFails(w)
    <2>0. UNCHANGED <<state, queues, index, scheduled>>
      BY <1>1 DEF CallFails, storeVars
    <2>1. CASE pc[w] = "load" /\ AbandonTicket(w) /\ UNCHANGED <<open, hit>>
      <3>1. Minded(j)
        BY <1>c, <2>1, HandsKept, ClaimsKept DEF Minded, Promoted, Settling
      <3> QED
        BY <1>a, <2>0, <3>1, Bystander
    <2>2. CASE /\ pc[w] \in {"setResult", "applySucceeded", "applyFailed", "applyDead", "scheduleRetry"}
               /\ Advance(w, "return")
               /\ Strands(w)
               /\ open' = {c \in open : c.by # w}
      <3>1. Claimed(j) => Claimed(j)'
        BY <1>a, <2>2, WorkerCall DEF Claimed
      <3>2. state[j] = "Failed" /\ InHands(j) => InHands(j)' \/ j \in hit'
        <4>1. CASE pc[w] \notin Settling \/ job[w] # j
          BY <1>c, <4>1, HandsKept
        <4>2. CASE pc[w] \in Settling /\ job[w] = j
          BY <2>2, <4>2 DEF Strands, Finalizing, Settling
        <4> QED
          BY <4>1, <4>2
      <3>3. Minded(j)
        BY <1>c, <2>2, <3>1, <3>2 DEF Minded, Promoted, Strands
      <3> QED
        BY <1>a, <2>0, <3>3, Bystander
    <2>3. ASSUME NEW c \in open, c.by = w, c.op = "claim", Closes(c), hit' = hit \cup {c.job}
          PROVE  Safe(j)'
      <3>1. pc[w] \notin Settling
        BY <1>a, <2>3, WorkerCall DEF Settling
      <3>2. CASE j = c.job
        BY <2>3, <3>2 DEF Safe
      <3>3. CASE j # c.job
        <4>1. Minded(j)
          BY <1>c, <2>3, <3>1, <3>3, HandsKept, ClaimsKept DEF Minded, Promoted
        <4> QED
          BY <1>a, <2>0, <4>1, Bystander
      <3> QED
        BY <3>2, <3>3
    <2> QED
      BY <1>1, <2>1, <2>2, <2>3 DEF CallFails
  <1>2. ASSUME NEW k \in Jobs, JobStep(k), Safe(k)', hit \subseteq hit',
               pc[w] \notin Settling \/ job[w] = k,
               open' = open \/ \E c \in open : Closes(c) /\ (c.op # "claim" \/ c.job = k)
        PROVE  Safe(j)'
    <2>1. CASE j = k
      BY <1>2, <2>1
    <2>2. CASE j # k
      <3>1. Minded(j)
        BY <1>c, <1>2, <2>2, HandsKept, ClaimsKept DEF Minded, Promoted
      <3> QED
        BY <1>a, <1>2, <2>2, <3>1, Bystander
    <2> QED
      BY <2>1, <2>2
  <1>3. CASE AckLost(w)
    <2>1. ASSUME pc[w] = "dequeue", NEW k \in Jobs, BRPop(elig[w], k), hit' = hit \cup {k}, UNCHANGED open
          PROVE  Safe(j)'
      <3>1. Safe(k)'
        BY <2>1 DEF Safe
      <3>2. JobStep(k)
        BY <1>a, <2>1 DEF JobStep
      <3> QED
        BY <1>2, <2>1, <3>1, <3>2 DEF Settling
    <2>2. ASSUME NEW c \in open, c.by = w, c.op = "claim", finalizeDequeue(c.job), Closes(c), UNCHANGED hit
          PROVE  Safe(j)'
      <3>1. PICK k \in Jobs : k = c.job
        BY <1>a, <2>2, WorkerCall
      <3>2. JobStep(k) /\ pc[w] \notin Settling
        BY <1>a, <2>2, <3>1, WorkerCall DEF JobStep, Settling
      <3>3. Safe(k)'
        BY <1>a, <2>2, <3>1, WrittenSafe
      <3> QED
        BY <1>2, <2>2, <3>1, <3>2, <3>3
    <2>3. ASSUME NEW c \in open, c.by = w, c.op = "retry", WriteRetry(c.job), Closes(c), UNCHANGED hit
          PROVE  Safe(j)'
      <3>1. PICK k \in Jobs : k = c.job
        BY <1>a, <2>3, WorkerCall
      <3>2. JobStep(k) /\ job[w] = k
        BY <1>a, <2>3, <3>1, WorkerCall DEF JobStep
      <3>3. Safe(k)'
        BY <1>a, <2>3, <3>1, WrittenSafe
      <3> QED
        BY <1>2, <2>3, <3>1, <3>2, <3>3
    <2>4. ASSUME \/ pc[w] = "applySucceeded" /\ ApplyState(job[w], "Processing", "Succeeded") /\ UNCHANGED hit
                 \/ pc[w] = "applyDead" /\ ApplyState(job[w], "Failed", "Dead") /\ UNCHANGED hit
                 \/ /\ pc[w] = "applyFailed" /\ ApplyState(job[w], "Processing", "Failed")
                    /\ hit' = hit \cup {job[w]},
                 UNCHANGED open
          PROVE  Safe(j)'
      <3>1. PICK k \in Jobs : k = job[w]
        BY <1>b, <2>4
      <3>2. JobStep(k)
        BY <2>4, <3>1 DEF JobStep
      <3>3. Safe(k)'
        <4>1. CASE k \in hit'
          BY <4>1 DEF Safe
        <4>2. CASE ApplyState(k, "Processing", "Succeeded") \/ ApplyState(k, "Failed", "Dead")
          BY <1>a, <4>2, WrittenSafe
        <4> QED
          BY <2>4, <3>1, <4>1, <4>2
      <3>4. hit \subseteq hit'
        BY <2>4
      <3> QED
        BY <1>2, <2>4, <3>1, <3>2, <3>3, <3>4
    <2> QED
      BY <1>3, <2>1, <2>2, <2>3, <2>4 DEF AckLost
  <1> QED
    BY <1>1, <1>3

\* A step that leaves the keys, the workers and what the loops carry alone.
LEMMA QuietSafe ==
    ASSUME StoreTypeOK, NothingLost,
           UNCHANGED <<state, queues, index, scheduled, pc, job, promoting, hit>>,
           open' = open \/ \E c : Opens(c)
    PROVE  NothingLost'
  <1> SUFFICES ASSUME NEW j \in Jobs PROVE Safe(j)'
    BY DEF NothingLost, Safe
  <1>1. Minded(j)
    BY ClaimsKept DEF Minded, Promoted, InHands
  <1> QED
    BY <1>1, Bystander DEF NothingLost, Safe

\* A worker that ends while it waits for BRPOP has nothing in its hands.
LEMMA DialSafe ==
    ASSUME RedisInv, NothingLost, NEW w \in Workers, DialTimesOut(w)
    PROVE  NothingLost'
  <1> SUFFICES ASSUME NEW j \in Jobs PROVE Safe(j)'
    BY DEF NothingLost, Safe
  <1>1. StoreTypeOK /\ Safe(j) /\ Moves(w)
    BY LocalMoves DEF RedisInv, TypeOK, NothingLost, Safe, DialTimesOut
  <1>2. UNCHANGED <<state, queues, index, scheduled, open, promoting, hit>>
    BY DEF DialTimesOut, storeVars, loopVars
  <1>3. Minded(j)
    BY <1>1, <1>2, HandsKept, ClaimsKept DEF DialTimesOut, Minded, Promoted, Settling
  <1> QED
    BY <1>1, <1>2, <1>3, Bystander

\* The loops: a member of the sorted set is in the hands of the scheduler until
\* it is in its list.
LEMMA LoopSafe ==
    ASSUME RedisInv, NothingLost, NEW n \in Nodes,
           \/ \E due \in SUBSET scheduled : TickScheduler(n, due)
           \/ Promote(n) \/ Coordinator(n) \/ Sweep(n) \/ WriteBy(n, "api")
           \/ ScanFails(n) \/ PromoteFails(n)
    PROVE  NothingLost'
  <1>a. EngineTypeOK /\ StoreTypeOK /\ OthersTypeOK /\ CallsSound /\ \A i \in Jobs : Safe(i)
    BY DEF RedisInv, TypeOK, OthersTypeOK, NothingLost, Safe
  <1>b. promoting \in [Nodes -> SUBSET Jobs]
    BY <1>a DEF OthersTypeOK
  <1>1. ASSUME NEW due \in SUBSET scheduled, TickScheduler(n, due), NEW j \in Jobs
        PROVE  Safe(j)'
    <2>1. /\ UNCHANGED <<state, index, hit>> /\ scheduled' = scheduled \ due
          /\ promoting[n] = {} /\ promoting' = [promoting EXCEPT ![n] = due]
      BY <1>1 DEF TickScheduler, promoteScheduled
    <2>2. j \in scheduled \/ Promoted(j) => j \in scheduled' \/ Promoted(j)'
      BY <1>b, <2>1 DEF Promoted
    <2>3. /\ Queued(j)' <=> Queued(j)
          /\ Claimed(j)' <=> Claimed(j)
          /\ InHands(j)' <=> InHands(j)
      BY <1>1 DEF TickScheduler, promoteScheduled, engineVars, Queued, Claimed, InHands
    <2> QED
      BY <1>a, <2>1, <2>2, <2>3, CarriedCases, CarriedCasesNext DEF Safe
  <1>2. ASSUME Promote(n), NEW j \in Jobs
        PROVE  Safe(j)'
    <2>1. PICK k \in promoting[n] : PromoteJob(k) /\ promoting' = [promoting EXCEPT ![n] = @ \ {k}]
      BY <1>2 DEF Promote
    <2>2. k \in Jobs /\ JobStep(k)
      BY <1>b, <2>1 DEF JobStep
    <2>3. hit' = hit /\ open' = open
      BY <1>2 DEF Promote
    <2>4. CASE j # k
      <3>1. Promoted(j) => Promoted(j)'
        BY <1>b, <2>1, <2>4 DEF Promoted
      <3>2. InHands(j)' <=> InHands(j)
        BY <1>2 DEF Promote, engineVars, InHands
      <3>3. Minded(j)
        BY <2>3, <3>1, <3>2, ClaimsKept DEF Minded
      <3> QED
        BY <1>a, <2>2, <2>4, <3>3, Bystander
    <2>5. CASE j = k /\ Exists(k)
      BY <1>a, <2>1, <2>2, <2>5, WrittenSafe
    <2>6. CASE j = k /\ ~Exists(k)
      <3>1. state'[j] \in Missing
        BY <2>1, <2>6 DEF PromoteJob, Exists, storeVars
      <3> QED
        BY <3>1, CarriedCasesNext DEF Missing, Safe
    <2> QED
      BY <2>4, <2>5, <2>6
  <1>3. CASE ScanIndex(n) \/ ScanJob(n) \/ ScanFails(n) \/ OrphanCheck(n) \/ SweepCheck(n)
    <2>1. UNCHANGED <<state, queues, index, scheduled, pc, job, promoting, hit>>
      BY <1>3 DEF ScanIndex, ScanJob, ScanFails, Scanned, OrphanCheck, SweepCheck, engineVars, storeVars, loopVars
    <2>2. open' = open \/ \E c : Opens(c)
      BY <1>3 DEF ScanIndex, ScanJob, ScanFails, Scanned, OrphanCheck, SweepCheck
    <2> QED
      BY <1>a, <2>1, <2>2, QuietSafe
  <1>4. ASSUME NEW c \in open, Write(c), NEW j \in Jobs
        PROVE  Safe(j)'
    <2>1. PICK k \in Jobs : k = c.job
      BY <1>a, WorkerCall
    <2>2. /\ c.op # "claim" /\ Closes(c) /\ promoting' = promoting
          /\ hit' = hit \/ hit' = hit \ {k}
      BY <1>4, <2>1 DEF Write, loopVars
    <2>3. WriteDelete(k) \/ (\E q \in Queues : WriteRequeue(k, q)) \/ \E s \in Indexes : deleteJob(k, s)
      BY <1>4, <1>a, <2>1, WorkerCall DEF Write
    <2>4. CASE j = k
      BY <1>a, <2>3, <2>4, WrittenSafe
    <2>5. CASE j # k
      <3>1. InHands(j)' <=> InHands(j)
        BY <1>4 DEF Write, engineVars, InHands
      <3>2. Minded(j)
        BY <2>2, <2>5, <3>1, ClaimsKept DEF Minded, Promoted
      <3>3. JobStep(k)
        BY <2>3 DEF JobStep
      <3> QED
        BY <1>a, <2>5, <3>2, <3>3, Bystander
    <2> QED
      BY <2>4, <2>5
  <1>5. ASSUME PromoteFails(n), NEW j \in Jobs
        PROVE  Safe(j)'
    <2>1. PICK dropped : /\ promoting' = [promoting EXCEPT ![n] = @ \ dropped]
                         /\ hit' = hit \cup dropped
      BY <1>5 DEF PromoteFails
    <2>2. Promoted(j) => Promoted(j)' \/ j \in hit'
      BY <1>b, <2>1 DEF Promoted
    <2>3. UNCHANGED <<state, queues, index, scheduled, pc, job, open>>
      BY <1>5 DEF PromoteFails, engineVars, storeVars
    <2>4. Minded(j)
      BY <2>1, <2>2, <2>3, ClaimsKept DEF Minded, InHands
    <2> QED
      BY <1>a, <2>3, <2>4, Bystander
  <1>6. (\A j \in Jobs : Safe(j)') => NothingLost'
    BY DEF NothingLost, Safe
  <1> QED
    BY <1>1, <1>2, <1>3, <1>4, <1>5, <1>6 DEF Coordinator, Sweep, WriteBy

\* A process ends with what it carries on record, and one that has stopped of
\* its own accord carries nothing any more.
LEMMA ProcessSafe ==
    ASSUME RedisInv, NothingLost, NEW n \in Nodes, Crash(n) \/ Stop(n) \/ Restart(n)
    PROVE  NothingLost'
  <1> SUFFICES ASSUME NEW j \in Jobs PROVE Safe(j)'
    BY DEF NothingLost, Safe
  <1>a. EngineTypeOK /\ StoreTypeOK /\ OthersTypeOK /\ CallsSound /\ Safe(j)
    BY DEF RedisInv, TypeOK, OthersTypeOK, NothingLost, Safe
  <1>b. promoting \in [Nodes -> SUBSET Jobs]
    BY <1>a DEF OthersTypeOK
  <1>c. \A c \in open : c.op = "claim" => c.by \in Workers /\ c.node = NodeOf[c.by] /\ pc[c.by] = "dequeue"
    BY <1>a DEF CallsSound, Sound
  <1>d. UNCHANGED <<state, queues, index, scheduled>>
    BY DEF Crash, Stop, Restart, storeVars
  <1>1. CASE Crash(n)
    <2>1. Promoted(j) => Promoted(j)' \/ j \in hit'
      BY <1>1, <1>b DEF Crash, EndsLoops, Promoted
    <2>2. Claimed(j) => Claimed(j)' \/ j \in hit'
      BY <1>1 DEF Crash, EndsLoops, Claimed
    <2>3. state[j] = "Failed" /\ InHands(j) => InHands(j)' \/ j \in hit'
      <3>1. ASSUME state[j] = "Failed", NEW v \in Workers, job[v] = j, pc[v] \in Settling
            PROVE  (job'[v] = j /\ pc'[v] \in Settling) \/ j \in hit'
        <4>1. CASE NodeOf[v] = n
          BY <1>1, <3>1, <4>1 DEF Crash, Finalizing, Settling
        <4>2. CASE NodeOf[v] # n
          BY <1>1, <3>1, <4>2 DEF Crash, CrashEngine
        <4> QED
          BY <4>1, <4>2
      <3> QED
        BY <3>1 DEF InHands
    <2>4. Minded(j)
      BY <1>1, <2>1, <2>2, <2>3 DEF Crash, Minded
    <2> QED
      BY <1>a, <1>d, <2>4, Bystander
  <1>2. CASE Stop(n)
    <2>1. Promoted(j) => Promoted(j)' \/ j \in hit'
      BY <1>2, <1>b DEF Stop, EndsLoops, Promoted
    <2>2. Claimed(j) => Claimed(j)'
      BY <1>2, <1>c, RedisEngineAssumption DEF Stop, EndsLoops, Claimed
    <2>3. Minded(j)
      BY <1>2, <2>1, <2>2 DEF Stop, StopEngine, Minded, InHands
    <2> QED
      BY <1>a, <1>d, <2>3, Bystander
  <1>3. CASE Restart(n)
    <2>1. \A v \in Workers : NodeOf[v] = n => pc[v] = "stopped"
      BY <1>3 DEF Restart, StartEngine
    <2>2. Claimed(j) => Claimed(j)'
      BY <1>3, <1>c, <2>1 DEF Restart, Claimed
    <2>3. InHands(j) => InHands(j)'
      BY <1>3, <2>1 DEF Restart, StartEngine, InHands, Settling
    <2>4. Minded(j)
      BY <1>3, <2>2, <2>3 DEF Restart, Minded, Promoted, loopVars
    <2> QED
      BY <1>a, <1>d, <2>4, Bystander
  <1> QED
    BY <1>1, <1>2, <1>3

\* The remaining steps: requests, heartbeats and the passing of time.
LEMMA RequestSafe ==
    ASSUME RedisInv, NothingLost,
           \/ \E w \in Workers : Heartbeat(w) \/ Timeout(w)
           \/ \E j \in Jobs : Stale(j)
           \/ \E n \in Nodes, j \in Jobs :
                 \/ handleEnqueue(n, j) \/ handleSchedule(n, j) \/ handleCancel(n, j)
                 \/ \E op \in {"requeue", "delete"} : Begin(n, op, j)
    PROVE  NothingLost'
  <1>a. StoreTypeOK /\ \A i \in Jobs : Safe(i)
    BY DEF RedisInv, TypeOK, NothingLost, Safe
  <1>1. CASE \/ \E w \in Workers : Heartbeat(w) \/ Timeout(w)
             \/ \E j \in Jobs : Stale(j)
             \/ \E n \in Nodes, j \in Jobs : handleCancel(n, j)
    <2>1. UNCHANGED <<state, queues, index, scheduled, pc, job, promoting, hit, open>>
      BY <1>1 DEF Heartbeat, HeartbeatJob, Timeout, JobTimeout, Stale, BecomeStale, handleCancel, CancelJob,
                  othersUnchanged, loopVars, engineVars, storeVars
    <2> QED
      BY <1>a, <2>1, QuietSafe
  <1>2. ASSUME NEW n \in Nodes, NEW j \in Jobs, NEW op, Begin(n, op, j)
        PROVE  NothingLost'
    <2>1. /\ UNCHANGED <<state, queues, index, scheduled, pc, job, promoting, hit>>
          /\ \E c : Opens(c)
      BY <1>2 DEF Begin, loopVars, engineVars, storeVars
    <2> QED
      BY <1>a, <2>1, QuietSafe
  <1>3. ASSUME NEW n \in Nodes, NEW k \in Jobs, handleEnqueue(n, k) \/ handleSchedule(n, k), NEW j \in Jobs
        PROVE  Safe(j)'
    <2>1. /\ Enqueue(k) \/ AddScheduled(k)
          /\ UNCHANGED <<pc, job, promoting, hit, open>>
      BY <1>3 DEF handleEnqueue, handleSchedule, othersUnchanged, loopVars, engineVars
    <2>2. CASE j = k
      BY <1>a, <2>1, <2>2, WrittenSafe
    <2>3. CASE j # k
      <3>1. Minded(j) /\ JobStep(k)
        BY <2>1, ClaimsKept DEF Minded, Promoted, InHands, JobStep
      <3> QED
        BY <1>a, <2>3, <3>1, Bystander
    <2> QED
      BY <2>2, <2>3
  <1>4. (\A j \in Jobs : Safe(j)') => NothingLost'
    BY DEF NothingLost, Safe
  <1> QED
    BY <1>1, <1>2, <1>3, <1>4

\* However worker, loop and REST calls interleave between their commands, and
\* whatever crashes, stops, lost connections and timeouts occur, a job that exists
\* and still has to run is where something will find it, unless a mishap has hit the
\* very call that carried it.
THEOREM RedisNothingLost == Spec => []NothingLost
  <1> DEFINE Inv == RedisInv /\ NothingLost
  <1>1. Init => Inv
    <2>1. ASSUME Init, NEW j \in Jobs PROVE Carried(j)
      <3>1. state[j] = "Unborn"
        BY <2>1 DEF Init, StoreInit
      <3> QED
        BY <3>1, CarriedCases
    <2> QED
      BY <2>1, InitRedisInv DEF NothingLost
  <1>2. Inv /\ [Next]_vars => Inv'
    <2> SUFFICES ASSUME RedisInv, NothingLost, [Next]_vars PROVE NothingLost'
      BY NextRedisInv
    <2>1. CASE Next
      BY <2>1, TicketSafe, FinalizeSafe, FaultSafe, DialSafe, LoopSafe, ProcessSafe, RequestSafe DEF Next, WorkerStore
    <2>2. CASE UNCHANGED vars
      <3>1. UNCHANGED <<state, queues, index, scheduled, pc, job, promoting, hit, open>>
        BY <2>2 DEF vars, engineVars, storeVars, loopVars
      <3> QED
        BY <3>1, QuietSafe DEF RedisInv, TypeOK
    <2> QED
      BY <2>1, <2>2
  <1>3. Inv => NothingLost
    OBVIOUS
  <1> QED
    BY <1>1, <1>2, <1>3, PTL DEF Spec

=============================================================================
