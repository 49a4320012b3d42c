----------------------- MODULE MemoryLifecycleProofs -----------------------
(***************************************************************************)
(* What MemoryEngine does while nobody requeues, deletes or sweeps jobs:   *)
(* every job has one claim on being run, and the whole engine implements   *)
(* JobLifecycle.                                                           *)
(***************************************************************************)
EXTENDS MemoryEngineProofs

\* No manual requeue or delete, no orphan recovery and no retention sweep.
\* Scheduling, cancels, continuations and stopping the engine are allowed, and
\* so is any number of nodes, workers, jobs and queues.
Unattended == {"requeue", "delete", "orphan", "cleanup"} \cap Ops = {}

-----------------------------------------------------------------------------
(* The inductive invariant *)

\* A queue holds every Enqueued job of its name once, and nothing else.
QueuesExact ==
    \A q \in Queues :
        /\ IsInjective(queues[q])
        /\ Range(queues[q]) = {j \in Jobs : QueueOf[j] = q /\ state[j] = "Enqueued"}

\* The scheduled map holds the Scheduled jobs.
KeysExact == scheduled = {j \in Jobs : state[j] = "Scheduled"}

\* What a worker that owns its job knows about it.
OwnerKnows ==
    \A w \in Workers :
        /\ pc[w] \in Executing \cup {"load"} => state[job[w]] = "Processing"
        /\ pc[w] \in Executing => attempt[w] = failures[job[w]]
        /\ pc[w] \in Settling => state[job[w]] = "Failed"
        /\ pc[w] = "scheduleRetry" => failures[job[w]] < MaxFailures(job[w])
        /\ pc[w] = "applyDead" => failures[job[w]] >= MaxFailures(job[w])

\* No job has two owners ...
OneOwner ==
    \A v, w \in Workers :
        pc[v] \in Owning /\ pc[w] \in Owning /\ job[v] = job[w] => v = w

\* ... and a started one always has its owner.
HasOwner ==
    \A j \in Jobs :
        state[j] \in {"Processing", "Failed"} => \E w \in Workers : job[w] = j /\ pc[w] \in Owning

\* Nothing has been requeued, deleted or erased.
Untouched ==
    /\ \A n \in Nodes : orphans[n] = {}
    /\ \A j \in Jobs : state[j] \notin {"Removed", "Deleted", "Awaiting"}

\* A job that may still be run has not used up its failures.
WithinBudget ==
    \A j \in Jobs :
        state[j] \in {"Unborn", "Enqueued", "Processing", "Scheduled"} => failures[j] < MaxFailures(j)

\* A stored output is that of the run that has succeeded or is about to.
ResultsOwn ==
    /\ \A j \in Jobs, w \in Workers :
          result[j] = w => state[j] = "Succeeded" \/ (job[w] = j /\ pc[w] = "applySucceeded")
    /\ \A w \in Workers :
          pc[w] \in {"fire", "firing"} /\ terminal[w] = "Succeeded" =>
              state[job[w]] = "Succeeded" /\ result[job[w]] \in {w, NoWorker}

\* The inductive invariant of the claims.
ClaimInv ==
    /\ QueuesExact /\ KeysExact
    /\ OwnerKnows /\ OneOwner /\ HasOwner
    /\ Untouched /\ WithinBudget /\ ResultsOwn

-----------------------------------------------------------------------------
(* Sequences without duplicates *)

\* Pushing a new element makes no duplicate.
LEMMA InjectiveAppend ==
    ASSUME NEW S, NEW s \in Seq(S), NEW e \in S, IsInjective(s), e \notin Range(s)
    PROVE  IsInjective(Append(s, e))
  <1>1. /\ Append(s, e) \in Seq(S)
        /\ Len(Append(s, e)) = Len(s) + 1
        /\ \A i \in 1..Len(s) : Append(s, e)[i] = s[i]
        /\ Append(s, e)[Len(s) + 1] = e
    BY AppendProperties
  <1>2. /\ DOMAIN s = 1..Len(s) /\ Len(s) \in Nat
        /\ DOMAIN Append(s, e) = 1..(Len(s) + 1)
    BY <1>1
  <1>3. \A i \in 1..Len(s) : s[i] # e
    BY <1>2 DEF Range
  <1>4. \A i, k \in 1..Len(s) : s[i] = s[k] => i = k
    BY <1>2 DEF IsInjective
  <1>5. ASSUME NEW i \in 1..(Len(s) + 1), NEW k \in 1..(Len(s) + 1),
               Append(s, e)[i] = Append(s, e)[k]
        PROVE  i = k
    <2>1. CASE i \in 1..Len(s) /\ k \in 1..Len(s)
      BY <1>1, <1>4, <1>5, <2>1
    <2>2. CASE i = Len(s) + 1 /\ k \in 1..Len(s)
      BY <1>1, <1>3, <1>5, <2>2
    <2>3. CASE i \in 1..Len(s) /\ k = Len(s) + 1
      BY <1>1, <1>3, <1>5, <2>3
    <2> QED
      BY <1>2, <2>1, <2>2, <2>3
  <1> QED
    BY <1>2, <1>5 DEF IsInjective

\* Popping the head of a sequence without duplicates removes just that element.
LEMMA InjectiveTail ==
    ASSUME NEW S, NEW s \in Seq(S), s # <<>>, IsInjective(s)
    PROVE  IsInjective(Tail(s)) /\ Range(Tail(s)) = Range(s) \ {Head(s)}
  <1>1. /\ Tail(s) \in Seq(S)
        /\ Len(Tail(s)) = Len(s) - 1
        /\ \A i \in 1..Len(Tail(s)) : Tail(s)[i] = s[i + 1]
    BY HeadTailProperties
  <1>2. /\ DOMAIN s = 1..Len(s) /\ Len(s) \in Nat /\ Len(s) > 0
        /\ DOMAIN Tail(s) = 1..(Len(s) - 1)
    BY <1>1, EmptySeq
  <1>3. \A i, k \in 1..Len(s) : s[i] = s[k] => i = k
    BY <1>2 DEF IsInjective
  <1>4. \A i \in 1..(Len(s) - 1) : i + 1 \in 1..Len(s) /\ Tail(s)[i] = s[i + 1]
    BY <1>1, <1>2
  <1>5. IsInjective(Tail(s))
    <2> SUFFICES ASSUME NEW i \in 1..(Len(s) - 1), NEW k \in 1..(Len(s) - 1), Tail(s)[i] = Tail(s)[k]
                 PROVE  i = k
      BY <1>2 DEF IsInjective
    <2>1. i + 1 = k + 1
      BY <1>3, <1>4
    <2> QED
      BY <2>1
  <1>6. Head(s) = s[1] /\ 1 \in 1..Len(s)
    BY <1>2
  <1>7. ASSUME NEW x \in Range(Tail(s)) PROVE x \in Range(s) /\ x # Head(s)
    <2>1. PICK i \in 1..(Len(s) - 1) : Tail(s)[i] = x
      BY <1>2 DEF Range
    <2>2. i + 1 \in 1..Len(s) /\ s[i + 1] = x /\ i + 1 # 1
      BY <1>4, <2>1
    <2>3. x # s[1]
      BY <1>3, <1>6, <2>2
    <2> QED
      BY <1>2, <1>6, <2>2, <2>3 DEF Range
  <1>8. \A x \in Range(s) : x # Head(s) => x \in Range(Tail(s))
    BY RangeTail
  <1> QED
    BY <1>5, <1>7, <1>8

\* Joining two sequences without a common element makes no duplicate.
LEMMA InjectiveConcat ==
    ASSUME NEW S, NEW s \in Seq(S), NEW t \in Seq(S), IsInjective(s), IsInjective(t),
           Range(s) \cap Range(t) = {}
    PROVE  IsInjective(s \o t)
  <1>1. /\ s \o t \in Seq(S)
        /\ Len(s \o t) = Len(s) + Len(t)
        /\ \A i \in 1..(Len(s) + Len(t)) : (s \o t)[i] = IF i <= Len(s) THEN s[i] ELSE t[i - Len(s)]
    BY ConcatProperties
  <1>2. /\ DOMAIN s = 1..Len(s) /\ Len(s) \in Nat
        /\ DOMAIN t = 1..Len(t) /\ Len(t) \in Nat
        /\ DOMAIN (s \o t) = 1..(Len(s) + Len(t))
    BY <1>1
  <1>3. /\ \A i, k \in 1..Len(s) : s[i] = s[k] => i = k
        /\ \A i, k \in 1..Len(t) : t[i] = t[k] => i = k
    BY <1>2 DEF IsInjective
  <1>4. \A i \in 1..Len(s), k \in 1..Len(t) : s[i] # t[k]
    BY <1>2 DEF Range
  <1>5. ASSUME NEW i \in 1..(Len(s) + Len(t)), NEW k \in 1..(Len(s) + Len(t)),
               (s \o t)[i] = (s \o t)[k]
        PROVE  i = k
    <2>1. CASE i <= Len(s) /\ k <= Len(s)
      <3>1. i \in 1..Len(s) /\ k \in 1..Len(s) /\ s[i] = s[k]
        BY <1>1, <1>2, <1>5, <2>1
      <3> QED
        BY <1>3, <3>1
    <2>2. CASE i > Len(s) /\ k > Len(s)
      <3>1. i - Len(s) \in 1..Len(t) /\ k - Len(s) \in 1..Len(t) /\ t[i - Len(s)] = t[k - Len(s)]
        BY <1>1, <1>2, <1>5, <2>2
      <3>2. i - Len(s) = k - Len(s)
        BY <1>3, <3>1
      <3> QED
        BY <1>2, <3>2
    <2>3. CASE i <= Len(s) /\ k > Len(s)
      <3>1. i \in 1..Len(s) /\ k - Len(s) \in 1..Len(t) /\ s[i] = t[k - Len(s)]
        BY <1>1, <1>2, <1>5, <2>3
      <3> QED
        BY <1>4, <3>1
    <2>4. CASE i > Len(s) /\ k <= Len(s)
      <3>1. i - Len(s) \in 1..Len(t) /\ k \in 1..Len(s) /\ s[k] = t[i - Len(s)]
        BY <1>1, <1>2, <1>5, <2>4
      <3> QED
        BY <1>4, <3>1
    <2> QED
      BY <1>2, <2>1, <2>2, <2>3, <2>4
  <1> QED
    BY <1>2, <1>5 DEF IsInjective

\* A permutation has no duplicates.
LEMMA PermutationInjective ==
    ASSUME NEW S, NEW f \in SetToSeqs(S)
    PROVE  IsInjective(f)
  <1> DEFINE D == 1..Cardinality(S)
  <1>1. f \in [D -> S] /\ \A i, j \in D : i # j => f[i] # f[j]
    BY DEF SetToSeqs
  <1> QED
    BY <1>1 DEF IsInjective

-----------------------------------------------------------------------------
(* Queues and scheduled keys *)

Tables == QueuesExact /\ KeysExact

\* The jobs a queue must hold.
Waiting(q) == {j \in Jobs : QueueOf[j] = q /\ state[j] = "Enqueued"}

\* A job that is pushed as it becomes Enqueued.
LEMMA PushExact ==
    ASSUME StoreTypeOK, Tables, NEW j \in Jobs, Enqueue(j)
    PROVE  Tables'
  <1>1. /\ state' = [state EXCEPT ![j] = "Enqueued"] /\ state[j] = "Unborn"
        /\ queues' = [queues EXCEPT ![QueueOf[j]] = Append(@, j)]
        /\ scheduled' = scheduled
    BY DEF Enqueue, PushBack
  <1>2. QueueOf[j] \in Queues /\ state \in [Jobs -> JobStates \cup Missing]
        /\ queues \in [Queues -> Seq(Jobs)]
    BY EngineAssumption DEF StoreTypeOK
  <1>3. ASSUME NEW q \in Queues
        PROVE  IsInjective(queues'[q]) /\ Range(queues'[q]) = Waiting(q)'
    <2>a. IsInjective(queues[q]) /\ Range(queues[q]) = Waiting(q)
      BY DEF Tables, QueuesExact, Waiting
    <2>1. CASE q = QueueOf[j]
      <3>1. queues'[q] = Append(queues[q], j) /\ queues[q] \in Seq(Jobs)
        BY <1>1, <1>2, <2>1
      <3>2. j \notin Range(queues[q])
        BY <1>1, <2>a DEF Waiting
      <3>3. IsInjective(queues'[q])
        BY <2>a, <3>1, <3>2, InjectiveAppend
      <3>4. Range(queues'[q]) = Range(queues[q]) \cup {j}
        BY <3>1, RangeAppend
      <3>5. Waiting(q)' = Waiting(q) \cup {j}
        BY <1>1, <1>2, <2>1 DEF Waiting
      <3> QED
        BY <2>a, <3>3, <3>4, <3>5
    <2>2. CASE q # QueueOf[j]
      <3>1. queues'[q] = queues[q]
        BY <1>1, <1>2, <2>2
      <3>2. Waiting(q)' = Waiting(q)
        BY <1>1, <1>2, <2>2 DEF Waiting
      <3> QED
        BY <2>a, <3>1, <3>2
    <2> QED
      BY <2>1, <2>2
  <1>4. KeysExact'
    BY <1>1, <1>2 DEF Tables, KeysExact
  <1> QED
    BY <1>3, <1>4 DEF Tables, QueuesExact, Waiting

\* A job that is popped as it becomes Processing: the head of a queue is an
\* Enqueued job, so the pop takes the one element of the job it starts.
LEMMA PopExact ==
    ASSUME StoreTypeOK, Tables, NEW q \in Queues, queues[q] # <<>>, NEW j \in Jobs, Dequeue(q, j)
    PROVE  Tables' /\ state[j] = "Enqueued"
  <1>1. /\ state' = [state EXCEPT ![j] = "Processing"] /\ j = Head(queues[q])
        /\ queues' = [queues EXCEPT ![q] = Tail(@)]
        /\ scheduled' = scheduled
    BY DEF Dequeue
  <1>2. state \in [Jobs -> JobStates \cup Missing] /\ queues \in [Queues -> Seq(Jobs)]
    BY DEF StoreTypeOK
  <1>3. queues[q] \in Seq(Jobs) /\ IsInjective(queues[q]) /\ Range(queues[q]) = Waiting(q)
    BY <1>2 DEF Tables, QueuesExact, Waiting
  <1>4. j \in Waiting(q)
    <2>1. 1 \in DOMAIN queues[q] /\ queues[q][1] = j
      BY <1>1, <1>3
    <2> QED
      BY <1>3, <2>1 DEF Range
  <1>5. state[j] = "Enqueued" /\ QueueOf[j] = q
    BY <1>4 DEF Waiting
  <1>6. ASSUME NEW p \in Queues
        PROVE  IsInjective(queues'[p]) /\ Range(queues'[p]) = Waiting(p)'
    <2>1. CASE p = q
      <3>1. IsInjective(Tail(queues[q])) /\ Range(Tail(queues[q])) = Range(queues[q]) \ {j}
        BY <1>1, <1>3, InjectiveTail
      <3>2. queues'[q] = Tail(queues[q])
        BY <1>1, <1>2
      <3>3. Waiting(q)' = Waiting(q) \ {j}
        BY <1>1, <1>2 DEF Waiting
      <3> QED
        BY <1>3, <2>1, <3>1, <3>2, <3>3
    <2>2. CASE p # q
      <3>1. queues'[p] = queues[p]
        BY <1>1, <1>2, <2>2
      <3>2. Waiting(p)' = Waiting(p)
        BY <1>1, <1>2, <1>5, <2>2 DEF Waiting
      <3> QED
        BY <3>1, <3>2 DEF Tables, QueuesExact, Waiting
    <2> QED
      BY <2>1, <2>2
  <1>7. KeysExact'
    BY <1>1, <1>2, <1>5 DEF Tables, KeysExact
  <1> QED
    BY <1>5, <1>6, <1>7 DEF Tables, QueuesExact, Waiting

\* The jobs of a batch that are pushed as their keys go.
LEMMA PromoteExact ==
    ASSUME StoreTypeOK, Tables, NEW due \in SUBSET scheduled, GetDueScheduled(due)
    PROVE  Tables'
  <1> DEFINE Of(q) == {j \in due : QueueOf[j] = q}
  <1>1. /\ scheduled' = scheduled \ due
        /\ state' = [j \in Jobs |-> IF j \in due THEN "Enqueued" ELSE state[j]]
    BY DEF GetDueScheduled
  <1>2. PICK pushed \in [Queues -> SetToAllKPermutations(due)] :
             /\ \A q \in Queues : pushed[q] \in SetToSeqs(Of(q))
             /\ queues' = [q \in Queues |-> queues[q] \o pushed[q]]
    BY DEF GetDueScheduled
  <1>3. queues \in [Queues -> Seq(Jobs)] /\ due \subseteq Jobs
    BY DEF StoreTypeOK
  <1>4. \A j \in due : state[j] = "Scheduled"
    BY DEF Tables, KeysExact
  <1>5. ASSUME NEW q \in Queues
        PROVE  IsInjective(queues'[q]) /\ Range(queues'[q]) = Waiting(q)'
    <2>1. Of(q) \in SUBSET Jobs /\ IsFiniteSet(Of(q))
      BY <1>3, MemoryAssumption, FS_Subset
    <2>2. pushed[q] \in SetToSeqs(Of(q))
      BY <1>2
    <2>3. pushed[q] \in Seq(Of(q)) /\ Range(pushed[q]) = Of(q)
      BY <2>1, <2>2, PermutationRange
    <2>4. pushed[q] \in Seq(Jobs) /\ IsInjective(pushed[q])
      BY <2>1, <2>2, <2>3, PermutationInjective
    <2>5. /\ queues[q] \in Seq(Jobs) /\ queues'[q] = queues[q] \o pushed[q]
          /\ IsInjective(queues[q]) /\ Range(queues[q]) = Waiting(q)
      BY <1>2, <1>3 DEF Tables, QueuesExact, Waiting
    <2>6. Waiting(q) \cap Of(q) = {}
      BY <1>4 DEF Waiting
    <2>7. IsInjective(queues[q] \o pushed[q])
      BY <2>3, <2>4, <2>5, <2>6, InjectiveConcat
    <2>8. Range(queues[q] \o pushed[q]) = Range(queues[q]) \cup Range(pushed[q])
      BY <2>4, <2>5, RangeConcatenation
    <2>9. Waiting(q)' = Waiting(q) \cup Of(q)
      BY <1>1, <1>3 DEF Waiting
    <2> QED
      BY <2>3, <2>5, <2>7, <2>8, <2>9
  <1>6. KeysExact'
    BY <1>1, <1>3, <1>4 DEF Tables, KeysExact
  <1> QED
    BY <1>5, <1>6 DEF Tables, QueuesExact, Waiting

\* A job that moves between the other states, or to Scheduled with its key.
LEMMA OtherExact ==
    ASSUME StoreTypeOK, Tables, NEW j \in Jobs, NEW new \in JobStates \ {"Enqueued"},
           state[j] \notin {"Enqueued", "Scheduled"},
           state' = [state EXCEPT ![j] = new], queues' = queues,
           scheduled' = IF new = "Scheduled" THEN scheduled \cup {j} ELSE scheduled
    PROVE  Tables'
  <1>1. state \in [Jobs -> JobStates \cup Missing]
    BY DEF StoreTypeOK
  <1>2. \A q \in Queues : Waiting(q)' = Waiting(q)
    BY <1>1 DEF Waiting
  <1>3. KeysExact'
    BY <1>1 DEF Tables, KeysExact
  <1> QED
    BY <1>2, <1>3 DEF Tables, QueuesExact, Waiting

-----------------------------------------------------------------------------
(* The steps of the engine, as far as owners and tables are concerned *)

\* Worker v goes on holding what it holds.
Same(v) ==
    pc'[v] = pc[v] /\ job'[v] = job[v] /\ attempt'[v] = attempt[v] /\ terminal'[v] = terminal[v]

\* Worker v keeps the claim it has, or the lack of one.
Quietly(v) ==
    /\ pc'[v] \in Owning <=> pc[v] \in Owning
    /\ pc[v] \in Owning =>
          /\ job'[v] = job[v]
          /\ \/ pc'[v] = pc[v] /\ attempt'[v] = attempt[v]
             \/ pc[v] = "run" /\ pc'[v] \in Executing /\ attempt'[v] = attempt[v]
             \/ pc[v] = "load" /\ pc'[v] \in Executing /\ attempt'[v] = failures[job[v]]
    /\ pc'[v] \in {"fire", "firing"} =>
          pc[v] \in {"fire", "firing"} /\ job'[v] = job[v] /\ terminal'[v] = terminal[v]

\* A step that writes nothing a claim depends on.
QuietStep ==
    /\ UNCHANGED <<state, failures, result, queues, scheduled, orphans>>
    /\ \A v \in Workers : Quietly(v)

\* Worker w goes on to label with its job.
GoesOn(w, label) == pc'[w] = label /\ job'[w] = job[w]

\* A step with which worker w fetches a job or stores what became of its own.
OwnerStep(w) ==
    /\ \A v \in Workers \ {w} : Same(v)
    /\ UNCHANGED orphans
    /\ \/ /\ pc[w] \notin Owning
          /\ \E q \in Queues, j \in Jobs :
                queues[q] # <<>> /\ Dequeue(q, j) /\ pc'[w] = "load" /\ job'[w] = j
       \/ /\ pc[w] = "setResult"
          /\ SetJobResult(job[w], w) /\ GoesOn(w, "applySucceeded") /\ attempt'[w] = attempt[w]
       \/ /\ pc[w] \in {"applySucceeded", "applyCancelled"}
          /\ LET new == IF pc[w] = "applySucceeded" THEN "Succeeded" ELSE "Cancelled" IN
                ApplyState(job[w], "Processing", new) /\ GoesOn(w, "fire") /\ terminal'[w] = new
       \/ /\ pc[w] = "applyFailed"
          /\ ApplyState(job[w], "Processing", "Failed") /\ GoesOn(w, AfterFailed(w))
       \/ /\ pc[w] = "applyDead"
          /\ ApplyState(job[w], "Failed", "Dead") /\ GoesOn(w, "fire") /\ terminal'[w] = "Dead"
       \/ /\ pc[w] = "scheduleRetry"
          /\ ScheduleRetry(job[w]) /\ GoesOn(w, "return")

\* A storage call that no worker's claim depends on.
TableStep ==
    /\ \A v \in Workers : Same(v)
    /\ UNCHANGED orphans
    /\ \/ \E j \in Jobs : Enqueue(j) \/ AddScheduled(j)
       \/ \E due \in SUBSET scheduled : GetDueScheduled(due)

\* Every step is one of these.
ClaimStep == QuietStep \/ (\E w \in Workers : OwnerStep(w)) \/ TableStep

\* The types these steps are about, which the earlier invariant contains.
ClaimTypeOK ==
    /\ pc \in [Workers -> PCs]
    /\ job \in [Workers -> Jobs \cup {NoJob}]
    /\ attempt \in [Workers -> 0..AttemptCap]
    /\ terminal \in [Workers -> JobStates \cup {""}]
    /\ \A w \in Workers : pc[w] \notin {"idle", "dequeue", "stopped"} => job[w] \in Jobs
    /\ NoJob \notin Jobs /\ NoWorker \notin Workers
    /\ StoreTypeOK

\* They follow from the invariant of MemoryEngineProofs.
LEMMA IInvClaimType == IInv => ClaimTypeOK
  <1> SUFFICES ASSUME IInv PROVE ClaimTypeOK
    OBVIOUS
  <1>1. /\ pc \in [Workers -> PCs]
        /\ job \in [Workers -> Jobs \cup {NoJob}]
        /\ attempt \in [Workers -> 0..AttemptCap]
        /\ terminal \in [Workers -> JobStates \cup {""}]
    BY DEF IInv, TypeOK, EngineTypeOK
  <1>2. \A w \in Workers : pc[w] \notin {"idle", "dequeue", "stopped"} => job[w] \in Jobs
    BY DEF IInv, EngineInv, HoldsJob
  <1> QED
    BY <1>1, <1>2, EngineAssumption DEF IInv, StoreInv, ClaimTypeOK

\* The state of an owned job is what its owner expects, so no storage call of a
\* worker is refused.
LEMMA OwnerExpects ==
    ASSUME ClaimTypeOK, ClaimInv, NEW w \in Workers
    PROVE  /\ pc[w] \in Executing \cup {"load"} =>
                 state[job[w]] = "Processing" /\ Exists(job[w]) /\ job[w] \in Jobs
           /\ pc[w] \in Settling => state[job[w]] = "Failed" /\ job[w] \in Jobs
  <1> QED
    BY DEF ClaimTypeOK, ClaimInv, OwnerKnows, Executing, Settling, Exists, Missing

\* The storing steps of a worker.
LEMMA StoreIsOwner ==
    ASSUME ClaimTypeOK, ClaimInv, NEW w \in Workers,
           \/ DequeueJob(w) \/ SetResult(w) \/ ApplySucceeded(w) \/ ApplyCancelled(w)
           \/ ApplyFailed(w) \/ ApplyDead(w) \/ RetryLater(w)
    PROVE  OwnerStep(w)
  <1>a. /\ pc[w] \in Executing \cup {"load"} =>
              state[job[w]] = "Processing" /\ Exists(job[w]) /\ job[w] \in Jobs
        /\ pc[w] \in Settling => state[job[w]] = "Failed" /\ job[w] \in Jobs
    BY OwnerExpects
  <1>b. UNCHANGED orphans
    BY DEF DequeueJob, SetResult, ApplySucceeded, ApplyCancelled, FinishAs, ApplyFailed, ApplyDead, RetryLater
  <1>c. /\ pc \in [Workers -> PCs]
        /\ job \in [Workers -> Jobs \cup {NoJob}]
        /\ attempt \in [Workers -> 0..AttemptCap]
        /\ terminal \in [Workers -> JobStates \cup {""}]
    BY DEF ClaimTypeOK
  <1>1. ASSUME NEW label, Advance(w, label)
        PROVE  /\ GoesOn(w, label) /\ attempt'[w] = attempt[w]
               /\ \A v \in Workers \ {w} : Same(v)
    BY <1>1, <1>c DEF Advance, Goto, GoesOn, Same
  <1>2. ASSUME NEW s, Finalized(w, s)
        PROVE  /\ GoesOn(w, "fire") /\ terminal'[w] = s
               /\ \A v \in Workers \ {w} : Same(v)
    BY <1>2, <1>c DEF Finalized, Goto, GoesOn, Same
  <1>3. CASE DequeueJob(w)
    <2>1. PICK q \in Queues, j \in Jobs : FirstNonEmpty(elig[w], q) /\ Dequeue(q, j) /\ GotTicket(w, j)
      BY <1>3 DEF DequeueJob
    <2>2. /\ pc[w] \notin Owning /\ pc'[w] = "load" /\ job'[w] = j
          /\ \A v \in Workers \ {w} : Same(v)
      BY <1>3, <1>c, <2>1 DEF DequeueJob, GotTicket, Goto, Same, Owning, Executing, Settling
    <2>3. queues[q] # <<>>
      BY <2>1 DEF FirstNonEmpty
    <2> QED
      BY <1>b, <2>1, <2>2, <2>3 DEF OwnerStep
  <1>4. CASE SetResult(w)
    <2>1. pc[w] = "setResult" /\ SetJobResult(job[w], w) /\ Advance(w, "applySucceeded")
      BY <1>4, <1>a DEF SetResult, Executing
    <2> QED
      BY <1>1, <1>b, <2>1 DEF OwnerStep
  <1>5. CASE ApplySucceeded(w)
    <2>1. /\ pc[w] = "applySucceeded"
          /\ ApplyState(job[w], "Processing", "Succeeded") /\ Finalized(w, "Succeeded")
      BY <1>5, <1>a DEF ApplySucceeded, FinishAs, Executing
    <2> QED
      BY <1>2, <1>b, <2>1 DEF OwnerStep
  <1>6. CASE ApplyCancelled(w)
    <2>1. /\ pc[w] = "applyCancelled"
          /\ ApplyState(job[w], "Processing", "Cancelled") /\ Finalized(w, "Cancelled")
      BY <1>6, <1>a DEF ApplyCancelled, FinishAs, Executing
    <2> QED
      BY <1>2, <1>b, <2>1 DEF OwnerStep
  <1>7. CASE ApplyFailed(w)
    <2>1. /\ pc[w] = "applyFailed"
          /\ ApplyState(job[w], "Processing", "Failed") /\ Advance(w, AfterFailed(w))
      BY <1>7, <1>a DEF ApplyFailed, Executing
    <2> QED
      BY <1>1, <1>b, <2>1 DEF OwnerStep
  <1>8. CASE ApplyDead(w)
    <2>1. /\ pc[w] = "applyDead"
          /\ ApplyState(job[w], "Failed", "Dead") /\ Finalized(w, "Dead")
      BY <1>8, <1>a DEF ApplyDead, Settling
    <2> QED
      BY <1>2, <1>b, <2>1 DEF OwnerStep
  <1>9. CASE RetryLater(w)
    <2>1. pc[w] = "scheduleRetry" /\ ScheduleRetry(job[w]) /\ Advance(w, "return")
      BY <1>9, <1>a DEF RetryLater, Settling
    <2> QED
      BY <1>1, <1>b, <2>1 DEF OwnerStep
  <1> QED
    BY <1>3, <1>4, <1>5, <1>6, <1>7, <1>8, <1>9

\* The head of a queue is a job, so Dequeue never meets an erased one.
LEMMA NeverThrows ==
    ASSUME ClaimTypeOK, ClaimInv, NEW w \in Workers
    PROVE  ~DequeueThrows(w)
  <1> SUFFICES ASSUME NEW q \in Queues, FirstNonEmpty(elig[w], q), DequeueMissing(q)
               PROVE  FALSE
    BY DEF DequeueThrows
  <1>1. queues[q] \in Seq(Jobs) /\ queues[q] # <<>>
    BY DEF ClaimTypeOK, StoreTypeOK, FirstNonEmpty
  <1>2. Head(queues[q]) \in Range(queues[q])
    <2>1. 1 \in DOMAIN queues[q] /\ Head(queues[q]) = queues[q][1]
      BY <1>1
    <2> QED
      BY <2>1 DEF Range
  <1>3. state[Head(queues[q])] = "Enqueued"
    BY <1>2 DEF ClaimInv, QueuesExact
  <1> QED
    BY <1>3 DEF DequeueMissing, Exists, Missing

\* The other steps of a worker.
LEMMA WorkerIsClaim ==
    ASSUME ClaimTypeOK, ClaimInv, NEW w \in Workers, WorkerLocal(w) \/ WorkerStore(w) \/ Heartbeat(w)
    PROVE  ClaimStep
  <1>c. /\ pc \in [Workers -> PCs]
        /\ job \in [Workers -> Jobs \cup {NoJob}]
        /\ attempt \in [Workers -> 0..AttemptCap]
        /\ terminal \in [Workers -> JobStates \cup {""}]
    BY DEF ClaimTypeOK
  <1>1. ASSUME UNCHANGED storeVars, UNCHANGED orphans, \A v \in Workers : Quietly(v)
        PROVE  ClaimStep
    BY <1>1 DEF storeVars, QuietStep, ClaimStep
  <1>q. ASSUME NEW v \in Workers, Same(v) PROVE Quietly(v)
    BY <1>q DEF Same, Quietly
  <1> USE <1>c DEF Goto
  <1>2. CASE WorkerLocal(w)
    <2>1. \A v \in Workers \ {w} : Same(v)
      BY <1>2 DEF WorkerLocal, PickQueues, WorkerExit, Execute, Return, JobTimeout, Same
    <2>2. Quietly(w)
      BY <1>2 DEF WorkerLocal, PickQueues, WorkerExit, Execute, ExecOutcomes, Return, JobTimeout, Quietly,
                  Owning, Executing, Settling
    <2>3. UNCHANGED storeVars /\ UNCHANGED orphans
      BY <1>2 DEF WorkerLocal
    <2> QED
      BY <1>1, <1>q, <2>1, <2>2, <2>3
  <1>3. CASE DequeueEmpty(w)
    <2>1. \A v \in Workers \ {w} : Same(v)
      BY <1>3 DEF DequeueEmpty, NoTicket, Same
    <2>2. Quietly(w)
      BY <1>3 DEF DequeueEmpty, NoTicket, Quietly, Owning, Executing, Settling
    <2> QED
      BY <1>1, <1>3, <1>q, <2>1, <2>2 DEF DequeueEmpty
  <1>4. CASE LoadJob(w)
    <2>a. BeginRun(w, failures[job[w]]) /\ pc[w] = "load"
      BY <1>4, OwnerExpects DEF LoadJob
    <2>1. \A v \in Workers \ {w} : Same(v)
      BY <2>a DEF BeginRun, Same
    <2>2. Quietly(w)
      BY <2>a DEF BeginRun, Quietly, Owning, Executing, Settling
    <2> QED
      BY <1>1, <1>4, <1>q, <2>1, <2>2 DEF LoadJob
  <1>5. CASE FireContinuations(w)
    <2>1. \A v \in Workers \ {w} : Same(v)
      BY <1>5 DEF FireContinuations, LoadContinuations, Same
    <2>2. Quietly(w)
      BY <1>5 DEF FireContinuations, LoadContinuations, Quietly, Owning, Executing, Settling
    <2> QED
      BY <1>1, <1>5, <1>q, <2>1, <2>2 DEF FireContinuations
  <1>6. CASE Heartbeat(w)
    <2>1. \A v \in Workers : Same(v)
      BY <1>6 DEF Heartbeat, engineVars, Same
    <2>2. UNCHANGED <<state, failures, result, queues, scheduled, orphans>>
      BY <1>6 DEF Heartbeat, HeartbeatJob
    <2> QED
      BY <1>q, <2>1, <2>2 DEF QuietStep, ClaimStep
  <1>7. CASE EnqueueChild(w)
    <2>1. \A v \in Workers : Same(v)
      BY <1>7 DEF EnqueueChild, FiredContinuation, Same
    <2>2. UNCHANGED orphans /\ \E j \in Jobs : Enqueue(j)
      BY <1>7 DEF EnqueueChild
    <2> QED
      BY <2>1, <2>2 DEF TableStep, ClaimStep
  <1>8. CASE \/ DequeueJob(w) \/ SetResult(w) \/ ApplySucceeded(w) \/ ApplyCancelled(w)
             \/ ApplyFailed(w) \/ ApplyDead(w) \/ RetryLater(w)
    BY <1>8, StoreIsOwner DEF ClaimStep
  <1> QED
    BY <1>2, <1>3, <1>4, <1>5, <1>6, <1>7, <1>8, NeverThrows DEF WorkerStore

\* The loops and the handlers.
LEMMA NextIsClaim ==
    ASSUME Unattended, ClaimTypeOK, ClaimInv, [Next]_vars
    PROVE  ClaimStep
  <1>q. ASSUME UNCHANGED <<state, failures, result, queues, scheduled, orphans>>,
               UNCHANGED <<pc, job, attempt, terminal>>
        PROVE  ClaimStep
    BY <1>q DEF Quietly, QuietStep, ClaimStep
  <1>s. ASSUME UNCHANGED engineVars PROVE \A v \in Workers : Same(v)
    BY <1>s DEF engineVars, Same
  <1>1. CASE \E w \in Workers : WorkerLocal(w) \/ WorkerStore(w) \/ Heartbeat(w)
    BY <1>1, WorkerIsClaim
  <1>2. ASSUME NEW n \in Nodes, TickScheduler(n) PROVE ClaimStep
    BY <1>2, <1>s DEF TickScheduler, TableStep, ClaimStep
  <1>3. ASSUME NEW n \in Nodes, OrphanScan(n) \/ OrphanRequeue(n) \/ CleanupTick(n) PROVE ClaimStep
    <2>1. orphans[n] = {} /\ "orphan" \notin Ops /\ "cleanup" \notin Ops
      BY DEF ClaimInv, Untouched, Unattended
    <2> QED
      BY <1>3, <2>1 DEF OrphanScan, OrphanRequeue, CleanupTick
  <1>4. ASSUME NEW n \in Nodes, Stop(n) PROVE ClaimStep
    BY <1>4, <1>q DEF Stop, StopEngine, storeVars
  <1>5. ASSUME NEW j \in Jobs, Stale(j) PROVE ClaimStep
    BY <1>5, <1>q DEF Stale, BecomeStale, engineVars
  <1>6. ASSUME NEW n \in Nodes, NEW j \in Jobs, handleEnqueue(n, j) \/ handleSchedule(n, j)
        PROVE  ClaimStep
    BY <1>6, <1>s DEF handleEnqueue, handleSchedule, TableStep, ClaimStep
  <1>7. ASSUME NEW n \in Nodes, NEW j \in Jobs, handleRequeue(n, j) \/ handleDelete(n, j)
        PROVE  ClaimStep
    BY <1>7 DEF handleRequeue, handleDelete, Request, Unattended
  <1>8. ASSUME NEW n \in Nodes, NEW j \in Jobs, handleCancel(n, j) PROVE ClaimStep
    BY <1>8, <1>q DEF handleCancel, CancelJob, storeVars
  <1>9. ASSUME NEW n \in Nodes, NEW j \in Jobs, NEW c, handleContinue(n, j, c) PROVE ClaimStep
    BY <1>9, <1>q DEF handleContinue, AddContinuation, engineVars
  <1>10. CASE UNCHANGED vars
    BY <1>10, <1>q DEF vars, engineVars, storeVars
  <1> QED
    BY <1>1, <1>2, <1>3, <1>4, <1>5, <1>6, <1>7, <1>8, <1>9, <1>10 DEF Next

-----------------------------------------------------------------------------
(* The invariant is kept *)

\* What OwnerKnows says of one worker.
Knows(w) ==
    /\ pc[w] \in Executing \cup {"load"} => state[job[w]] = "Processing"
    /\ pc[w] \in Executing => attempt[w] = failures[job[w]]
    /\ pc[w] \in Settling => state[job[w]] = "Failed"
    /\ pc[w] = "scheduleRetry" => failures[job[w]] < MaxFailures(job[w])
    /\ pc[w] = "applyDead" => failures[job[w]] >= MaxFailures(job[w])

\* A step that writes nothing about a job keeps every claim as it is.
LEMMA QuietClaim ==
    ASSUME ClaimTypeOK, ClaimInv, QuietStep
    PROVE  ClaimInv'
  <1> USE DEF ClaimInv, QuietStep
  <1>0. ClaimTypeOK /\ \A v \in Workers : Quietly(v)
    OBVIOUS
  <1>1. QueuesExact' /\ KeysExact' /\ Untouched' /\ WithinBudget'
    BY DEF QueuesExact, KeysExact, Untouched, WithinBudget, MaxFailures
  <1>2. OwnerKnows'
    <2> SUFFICES ASSUME NEW w \in Workers PROVE Knows(w)'
      BY DEF OwnerKnows, Knows
    <2>1. Knows(w) /\ Quietly(w)
      BY DEF OwnerKnows, Knows
    <2> QED
      BY <2>1 DEF Knows, Quietly, Owning, Executing, Settling
  <1>3. OneOwner'
    <2> SUFFICES ASSUME NEW v \in Workers, NEW w \in Workers,
                        pc'[v] \in Owning, pc'[w] \in Owning, job'[v] = job'[w]
                 PROVE  v = w
      BY DEF OneOwner
    <2> QED
      BY <1>0 DEF OneOwner, Quietly
  <1>4. HasOwner'
    <2> SUFFICES ASSUME NEW j \in Jobs, state[j] \in {"Processing", "Failed"}
                 PROVE  \E w \in Workers : job'[w] = j /\ pc'[w] \in Owning
      BY DEF HasOwner
    <2>1. PICK w \in Workers : job[w] = j /\ pc[w] \in Owning
      BY DEF HasOwner
    <2> QED
      BY <1>0, <2>1 DEF Quietly
  <1>5. ResultsOwn'
    <2>1. ASSUME NEW j \in Jobs, NEW w \in Workers, result[j] = w
          PROVE  state[j] = "Succeeded" \/ (job'[w] = j /\ pc'[w] = "applySucceeded")
      <3>1. state[j] = "Succeeded" \/ (job[w] = j /\ pc[w] = "applySucceeded")
        BY <2>1 DEF ResultsOwn
      <3>2. pc[w] = "applySucceeded" => job'[w] = job[w] /\ pc'[w] = pc[w]
        BY <1>0 DEF Quietly, Owning, Executing
      <3> QED
        BY <3>1, <3>2
    <2>2. ASSUME NEW w \in Workers, pc'[w] \in {"fire", "firing"}, terminal'[w] = "Succeeded"
          PROVE  state[job'[w]] = "Succeeded" /\ result[job'[w]] \in {w, NoWorker}
      BY <1>0, <2>2 DEF Quietly, ResultsOwn
    <2> QED
      BY <2>1, <2>2 DEF ResultsOwn
  <1> QED
    BY <1>1, <1>2, <1>3, <1>4, <1>5

\* A storage call of worker w on a job k that no other worker owns.
LEMMA OwnedChange ==
    ASSUME ClaimTypeOK, ClaimInv, NEW w \in Workers, NEW k \in Jobs,
           \A v \in Workers \ {w} : Same(v),
           UNCHANGED orphans,
           \A x \in Jobs \ {k} : /\ state'[x] = state[x] /\ failures'[x] = failures[x]
                                 /\ result'[x] = result[x],
           Tables',
           \A v \in Workers \ {w} : pc[v] \in Owning => job[v] # k,
           pc[w] \in Owning => job[w] = k,
           state[k] # "Succeeded",
           state'[k] \notin {"Removed", "Deleted", "Awaiting"},
           state'[k] \in {"Unborn", "Enqueued", "Processing", "Scheduled"} => failures'[k] < MaxFailures(k),
           job'[w] = k,
           state'[k] \in {"Processing", "Failed"} => pc'[w] \in Owning,
           Knows(w)',
           \A v \in Workers : result'[k] = v =>
              state'[k] = "Succeeded" \/ (v = w /\ pc'[w] = "applySucceeded"),
           pc'[w] \in {"fire", "firing"} /\ terminal'[w] = "Succeeded" =>
              state'[k] = "Succeeded" /\ result'[k] \in {w, NoWorker}
    PROVE  ClaimInv'
  <1> USE DEF ClaimInv
  <1>a. ASSUME NEW v \in Workers, pc[v] \notin {"idle", "dequeue", "stopped"} PROVE job[v] \in Jobs
    BY <1>a DEF ClaimTypeOK
  <1>b. Owning \cap {"idle", "dequeue", "stopped"} = {}
    BY DEF Owning, Executing, Settling
  <1>1. QueuesExact' /\ KeysExact'
    BY DEF Tables
  <1>2. OwnerKnows'
    <2> SUFFICES ASSUME NEW v \in Workers PROVE Knows(v)'
      BY DEF OwnerKnows, Knows
    <2>1. CASE v = w
      BY <2>1
    <2>2. CASE v # w /\ pc[v] \in Owning
      <3>1. Same(v) /\ job[v] # k /\ job[v] \in Jobs
        BY <1>a, <1>b, <2>2
      <3>2. Knows(v)
        BY DEF OwnerKnows, Knows
      <3> QED
        BY <3>1, <3>2 DEF Same, Knows
    <2>3. CASE v # w /\ pc[v] \notin Owning
      BY <2>3 DEF Same, Knows, Owning, Settling
    <2> QED
      BY <2>1, <2>2, <2>3
  <1>3. OneOwner'
    <2> SUFFICES ASSUME NEW u \in Workers, NEW v \in Workers,
                        pc'[u] \in Owning, pc'[v] \in Owning, job'[u] = job'[v]
                 PROVE  u = v
      BY DEF OneOwner
    <2> QED
      BY DEF OneOwner, Same
  <1>4. HasOwner'
    <2> SUFFICES ASSUME NEW x \in Jobs, state'[x] \in {"Processing", "Failed"}
                 PROVE  \E v \in Workers : job'[v] = x /\ pc'[v] \in Owning
      BY DEF HasOwner
    <2>1. CASE x = k
      BY <2>1
    <2>2. CASE x # k
      <3>1. PICK v \in Workers : job[v] = x /\ pc[v] \in Owning
        BY <2>2 DEF HasOwner
      <3> QED
        BY <2>2, <3>1 DEF Same
    <2> QED
      BY <2>1, <2>2
  <1>5. Untouched' /\ WithinBudget'
    BY DEF Untouched, WithinBudget, MaxFailures
  <1>6. ResultsOwn'
    <2>1. ASSUME NEW x \in Jobs, NEW v \in Workers, result'[x] = v
          PROVE  state'[x] = "Succeeded" \/ (job'[v] = x /\ pc'[v] = "applySucceeded")
      <3>1. CASE x = k
        BY <2>1, <3>1
      <3>2. CASE x # k
        <4>1. state[x] = "Succeeded" \/ (job[v] = x /\ pc[v] = "applySucceeded")
          BY <2>1, <3>2 DEF ResultsOwn
        <4>2. job[v] = x /\ pc[v] = "applySucceeded" => v # w
          BY <3>2 DEF Owning, Executing
        <4> QED
          BY <3>2, <4>1, <4>2 DEF Same
      <3> QED
        BY <3>1, <3>2
    <2>2. ASSUME NEW v \in Workers, pc'[v] \in {"fire", "firing"}, terminal'[v] = "Succeeded"
          PROVE  state'[job'[v]] = "Succeeded" /\ result'[job'[v]] \in {v, NoWorker}
      <3>1. CASE v = w
        BY <2>2, <3>1
      <3>2. CASE v # w
        <4>1. Same(v) /\ pc[v] \in {"fire", "firing"} /\ terminal[v] = "Succeeded"
          BY <2>2, <3>2 DEF Same
        <4>2. /\ job[v] \in Jobs /\ state[job[v]] = "Succeeded"
              /\ result[job[v]] \in {v, NoWorker}
          BY <1>a, <4>1 DEF ResultsOwn
        <4> QED
          BY <4>1, <4>2 DEF Same
      <3> QED
        BY <3>1, <3>2
    <2> QED
      BY <2>1, <2>2 DEF ResultsOwn
  <1> QED
    BY <1>1, <1>2, <1>3, <1>4, <1>5, <1>6

\* An owned job belongs to its owner alone, and so does its output.
LEMMA OwnedAlone ==
    ASSUME ClaimTypeOK, ClaimInv, NEW w \in Workers, pc[w] \in Owning
    PROVE  \E k \in Jobs :
             /\ job[w] = k /\ Knows(w)
             /\ state[k] \in {"Processing", "Failed"}
             /\ \A v \in Workers \ {w} : pc[v] \in Owning => job[v] # k
             /\ \A v \in Workers : result[k] = v => v = w /\ pc[w] = "applySucceeded"
  <1>1. PICK k \in Jobs : job[w] = k
    BY DEF ClaimTypeOK, Owning, Executing, Settling
  <1>2. Knows(w)
    BY DEF ClaimInv, OwnerKnows, Knows
  <1>3. state[k] \in {"Processing", "Failed"}
    BY <1>1, <1>2 DEF Knows, Owning
  <1>4. \A v \in Workers \ {w} : pc[v] \in Owning => job[v] # k
    BY <1>1 DEF ClaimInv, OneOwner
  <1>5. ASSUME NEW v \in Workers, result[k] = v PROVE v = w /\ pc[w] = "applySucceeded"
    <2>1. job[v] = k /\ pc[v] = "applySucceeded"
      BY <1>3, <1>5 DEF ClaimInv, ResultsOwn
    <2>2. v = w
      BY <1>4, <2>1 DEF Owning, Executing
    <2> QED
      BY <2>1, <2>2
  <1> QED
    BY <1>1, <1>2, <1>3, <1>4, <1>5

\* Fetching a job and storing what became of it.
LEMMA OwnerClaim ==
    ASSUME ClaimTypeOK, ClaimInv, NEW w \in Workers, OwnerStep(w)
    PROVE  ClaimInv'
  <1>a. (\A v \in Workers \ {w} : Same(v)) /\ UNCHANGED orphans
    BY DEF OwnerStep
  <1>b. StoreTypeOK /\ Tables
    BY DEF ClaimTypeOK, ClaimInv, Tables
  <1>c. /\ state \in [Jobs -> JobStates \cup Missing]
        /\ failures \in [Jobs -> 0..AttemptCap] /\ AttemptCap \in Nat
        /\ result \in [Jobs -> Workers \cup {NoWorker}] /\ NoWorker \notin Workers
    BY EngineAssumption DEF ClaimTypeOK, StoreTypeOK
  <1>1. ASSUME NEW q \in Queues, NEW j \in Jobs, pc[w] \notin Owning, queues[q] # <<>>,
               Dequeue(q, j), pc'[w] = "load", job'[w] = j
        PROVE  ClaimInv'
    <2>1. Tables' /\ state[j] = "Enqueued"
      BY <1>1, <1>b, PopExact
    <2>2. /\ state' = [state EXCEPT ![j] = "Processing"]
          /\ UNCHANGED <<failures, result>>
      BY <1>1 DEF Dequeue
    <2>3. \A v \in Workers : pc[v] \in Owning => job[v] # j
      BY <2>1 DEF ClaimInv, OwnerKnows, Owning
    <2>4. \A v \in Workers : result[j] # v
      BY <2>1, <2>3 DEF ClaimInv, ResultsOwn, Owning, Executing
    <2>5. failures[j] < MaxFailures(j)
      BY <2>1 DEF ClaimInv, WithinBudget
    <2>6. state'[j] = "Processing" /\ \A x \in Jobs \ {j} : state'[x] = state[x]
      BY <1>c, <2>2
    <2>7. Knows(w)' /\ pc'[w] \in Owning /\ pc'[w] \notin {"fire", "firing"}
      BY <1>1, <2>6 DEF Knows, Owning, Executing, Settling
    <2> QED
      BY <1>1, <1>a, <2>1, <2>2, <2>3, <2>4, <2>5, <2>6, <2>7, OwnedChange
  <1>2. ASSUME pc[w] = "setResult", SetJobResult(job[w], w), GoesOn(w, "applySucceeded"),
               attempt'[w] = attempt[w]
        PROVE  ClaimInv'
    <2>1. PICK k \in Jobs :
             /\ job[w] = k /\ Knows(w)
             /\ \A v \in Workers \ {w} : pc[v] \in Owning => job[v] # k
      BY <1>2, OwnedAlone DEF Owning, Executing
    <2>2. /\ result' = [result EXCEPT ![k] = w]
          /\ UNCHANGED <<state, failures, queues, scheduled>>
      BY <1>2, <2>1 DEF SetJobResult
    <2>3. Tables'
      BY <1>b, <2>2 DEF Tables, QueuesExact, KeysExact
    <2>4. state[k] = "Processing" /\ attempt[w] = failures[k] /\ failures[k] < MaxFailures(k)
      BY <1>2, <2>1 DEF Knows, Executing, ClaimInv, WithinBudget
    <2>5. result'[k] = w /\ \A x \in Jobs \ {k} : result'[x] = result[x]
      BY <1>c, <2>2
    <2>6. job'[w] = k /\ pc'[w] = "applySucceeded"
      BY <1>2, <2>1 DEF GoesOn
    <2>7. Knows(w)' /\ pc'[w] \in Owning
      BY <1>2, <2>2, <2>4, <2>6 DEF Knows, Owning, Executing, Settling
    <2> QED
      BY <1>a, <2>1, <2>2, <2>3, <2>4, <2>5, <2>6, <2>7, OwnedChange
  <1>3. ASSUME pc[w] \in {"applySucceeded", "applyCancelled"}, NEW new,
               new = IF pc[w] = "applySucceeded" THEN "Succeeded" ELSE "Cancelled",
               ApplyState(job[w], "Processing", new), GoesOn(w, "fire"), terminal'[w] = new
        PROVE  ClaimInv'
    <2>1. PICK k \in Jobs :
             /\ job[w] = k /\ Knows(w)
             /\ \A v \in Workers \ {w} : pc[v] \in Owning => job[v] # k
             /\ \A v \in Workers : result[k] = v => v = w /\ pc[w] = "applySucceeded"
      BY <1>3, OwnedAlone DEF Owning, Executing
    <2>2. /\ state[k] = "Processing" /\ state' = [state EXCEPT ![k] = new]
          /\ failures' = [failures EXCEPT ![k] = @]
          /\ UNCHANGED <<result, queues, scheduled>>
      BY <1>3, <2>1 DEF ApplyState
    <2>3. Tables'
      BY <1>3, <1>b, <2>2, OtherExact DEF JobStates
    <2>4. /\ state'[k] = new /\ \A x \in Jobs \ {k} : state'[x] = state[x]
          /\ failures' = failures
      BY <1>c, <2>2
    <2>5. job'[w] = k /\ pc'[w] = "fire"
      BY <1>3, <2>1 DEF GoesOn
    <2>6. Knows(w)' /\ pc'[w] \notin Owning
      BY <2>5 DEF Knows, Owning, Executing, Settling
    <2>7. result[k] \in {w, NoWorker}
      BY <1>c, <2>1
    <2>8. \A v \in Workers : result'[k] = v => state'[k] = "Succeeded"
      BY <1>3, <2>1, <2>2, <2>4
    <2>9. terminal'[w] = "Succeeded" => state'[k] = "Succeeded" /\ result'[k] \in {w, NoWorker}
      BY <1>3, <2>2, <2>4, <2>7
    <2>10. /\ state[k] # "Succeeded"
           /\ state'[k] \notin {"Removed", "Deleted", "Awaiting", "Unborn", "Enqueued", "Processing",
                               "Scheduled", "Failed"}
      BY <1>3, <2>2, <2>4
    <2> QED
      BY <1>a, <2>1, <2>2, <2>3, <2>4, <2>5, <2>6, <2>8, <2>9, <2>10, OwnedChange
  <1>4. ASSUME pc[w] = "applyFailed", ApplyState(job[w], "Processing", "Failed"), GoesOn(w, AfterFailed(w))
        PROVE  ClaimInv'
    <2>1. PICK k \in Jobs :
             /\ job[w] = k /\ Knows(w)
             /\ \A v \in Workers \ {w} : pc[v] \in Owning => job[v] # k
             /\ \A v \in Workers : result[k] # v
      BY <1>4, OwnedAlone DEF Owning, Executing
    <2>2. state[k] = "Processing" /\ attempt[w] = failures[k]
      BY <1>4, <2>1 DEF Knows, Executing
    <2>3. failures[k] < MaxFailures(k) /\ MaxFailures(k) <= AttemptCap /\ MaxFailures(k) \in Nat
      BY <2>2, BudgetBounds DEF ClaimInv, WithinBudget
    <2>4. /\ state' = [state EXCEPT ![k] = "Failed"]
          /\ failures' = [failures EXCEPT ![k] = failures[k] + 1]
          /\ UNCHANGED <<result, queues, scheduled>>
      <3>1. AttemptCount(k) = failures[k] + 1
        BY <1>c, <2>3 DEF AttemptCount
      <3> QED
        BY <1>4, <2>1, <3>1 DEF ApplyState
    <2>5. Tables'
      BY <1>b, <2>2, <2>4, OtherExact DEF JobStates
    <2>6. /\ state'[k] = "Failed" /\ failures'[k] = failures[k] + 1
          /\ \A x \in Jobs \ {k} : state'[x] = state[x] /\ failures'[x] = failures[x]
      BY <1>c, <2>4
    <2>7. job'[w] = k /\ pc'[w] = IF failures'[k] >= effectiveRetryMax(RetryMax[k])
                                 THEN "applyDead" ELSE "scheduleRetry"
      BY <1>4, <2>1, <2>2, <2>6 DEF GoesOn, AfterFailed
    <2>8. /\ effectiveRetryMax(RetryMax[k]) \in Int /\ failures'[k] \in Nat \ {0}
          /\ failures'[k] >= effectiveRetryMax(RetryMax[k]) <=> failures'[k] >= MaxFailures(k)
          /\ failures'[k] < MaxFailures(k) <=> ~(failures'[k] >= MaxFailures(k))
      BY <1>c, <2>6, BudgetBounds
    <2>k. MaxFailures(k)' = MaxFailures(k)
      BY DEF MaxFailures
    <2>9. Knows(w)' /\ pc'[w] \in Owning /\ pc'[w] \notin {"fire", "firing"}
      BY <2>6, <2>7, <2>8, <2>k DEF Knows, Owning, Executing, Settling
    <2> QED
      BY <1>a, <2>1, <2>2, <2>4, <2>5, <2>6, <2>7, <2>9, OwnedChange
  <1>5. ASSUME pc[w] = "applyDead", ApplyState(job[w], "Failed", "Dead"), GoesOn(w, "fire"),
               terminal'[w] = "Dead"
        PROVE  ClaimInv'
    <2>1. PICK k \in Jobs :
             /\ job[w] = k
             /\ \A v \in Workers \ {w} : pc[v] \in Owning => job[v] # k
             /\ \A v \in Workers : result[k] # v
      BY <1>5, OwnedAlone DEF Owning, Settling
    <2>2. /\ state[k] = "Failed" /\ state' = [state EXCEPT ![k] = "Dead"]
          /\ failures' = [failures EXCEPT ![k] = @]
          /\ UNCHANGED <<result, queues, scheduled>>
      BY <1>5, <2>1 DEF ApplyState
    <2>3. Tables'
      BY <1>b, <2>2, OtherExact DEF JobStates
    <2>4. /\ state'[k] = "Dead" /\ \A x \in Jobs \ {k} : state'[x] = state[x]
          /\ failures' = failures
      BY <1>c, <2>2
    <2>5. job'[w] = k /\ pc'[w] = "fire"
      BY <1>5, <2>1 DEF GoesOn
    <2>6. Knows(w)' /\ pc'[w] \notin Owning
      BY <2>5 DEF Knows, Owning, Executing, Settling
    <2> QED
      BY <1>5, <1>a, <2>1, <2>2, <2>3, <2>4, <2>5, <2>6, OwnedChange
  <1>6. ASSUME pc[w] = "scheduleRetry", ScheduleRetry(job[w]), GoesOn(w, "return")
        PROVE  ClaimInv'
    <2>1. PICK k \in Jobs :
             /\ job[w] = k /\ Knows(w)
             /\ \A v \in Workers \ {w} : pc[v] \in Owning => job[v] # k
             /\ \A v \in Workers : result[k] # v
      BY <1>6, OwnedAlone DEF Owning, Settling
    <2>2. /\ state[k] = "Failed" /\ state' = [state EXCEPT ![k] = "Scheduled"]
          /\ scheduled' = scheduled \cup {k}
          /\ UNCHANGED <<failures, result, queues>>
      BY <1>6, <2>1 DEF ScheduleRetry
    <2>3. Tables'
      BY <1>b, <2>2, OtherExact DEF JobStates
    <2>4. state'[k] = "Scheduled" /\ \A x \in Jobs \ {k} : state'[x] = state[x]
      BY <1>c, <2>2
    <2>5. job'[w] = k /\ pc'[w] = "return"
      BY <1>6, <2>1 DEF GoesOn
    <2>6. Knows(w)' /\ pc'[w] \notin Owning
      BY <2>5 DEF Knows, Owning, Executing, Settling
    <2>7. failures[k] < MaxFailures(k)
      BY <1>6, <2>1 DEF Knows
    <2> QED
      BY <1>a, <2>1, <2>2, <2>3, <2>4, <2>5, <2>6, <2>7, OwnedChange
  <1> QED
    BY <1>1, <1>2, <1>3, <1>4, <1>5, <1>6 DEF OwnerStep

\* Creating and promoting jobs touches none that a worker owns.
LEMMA TableClaim ==
    ASSUME ClaimTypeOK, ClaimInv, TableStep
    PROVE  ClaimInv'
  <1>a. (\A v \in Workers : Same(v)) /\ UNCHANGED orphans
    BY DEF TableStep
  <1>b. StoreTypeOK /\ Tables
    BY DEF ClaimTypeOK, ClaimInv, Tables
  <1>c. state \in [Jobs -> JobStates \cup Missing] /\ scheduled \subseteq Jobs
    BY <1>b DEF StoreTypeOK
  <1> DEFINE Queued ==
          /\ Tables' /\ UNCHANGED <<failures, result>>
          /\ \A x \in Jobs :
                \/ state'[x] = state[x]
                \/ state[x] \in {"Unborn", "Scheduled"} /\ state'[x] \in {"Enqueued", "Scheduled"}
  <1>1. Queued
    <2>1. ASSUME NEW j \in Jobs, Enqueue(j) PROVE Queued
      BY <1>b, <1>c, <2>1, PushExact DEF Enqueue
    <2>2. ASSUME NEW j \in Jobs, AddScheduled(j) PROVE Queued
      <3>1. /\ state[j] = "Unborn" /\ state' = [state EXCEPT ![j] = "Scheduled"]
            /\ scheduled' = scheduled \cup {j}
            /\ UNCHANGED <<failures, result, queues>>
        BY <2>2 DEF AddScheduled
      <3>2. Tables'
        BY <1>b, <3>1, OtherExact DEF JobStates
      <3> QED
        BY <1>c, <3>1, <3>2
    <2>3. ASSUME NEW due \in SUBSET scheduled, GetDueScheduled(due) PROVE Queued
      <3>1. \A x \in due : state[x] = "Scheduled"
        BY <1>b DEF Tables, KeysExact
      <3>2. /\ state' = [j \in Jobs |-> IF j \in due THEN "Enqueued" ELSE state[j]]
            /\ UNCHANGED <<failures, result>>
        BY <2>3 DEF GetDueScheduled
      <3>3. Tables'
        BY <1>b, <2>3, PromoteExact
      <3> QED
        BY <1>c, <3>1, <3>2, <3>3
    <2> QED
      BY <2>1, <2>2, <2>3 DEF TableStep
  <1>2. \A v \in Workers : pc[v] \in Owning =>
           job[v] \in Jobs /\ state[job[v]] \in {"Processing", "Failed"} /\ Knows(v)
    BY OwnedAlone
  <1>3. OwnerKnows'
    <2> SUFFICES ASSUME NEW v \in Workers PROVE Knows(v)'
      BY DEF OwnerKnows, Knows
    <2>1. CASE pc[v] \in Owning
      <3>1. state'[job[v]] = state[job[v]] /\ Knows(v) /\ Same(v)
        BY <1>1, <1>2, <1>a, <2>1
      <3> QED
        BY <1>1, <3>1 DEF Knows, Same
    <2>2. CASE pc[v] \notin Owning
      BY <1>a, <2>2 DEF Knows, Same, Owning, Settling
    <2> QED
      BY <2>1, <2>2
  <1>4. OneOwner'
    BY <1>a DEF ClaimInv, OneOwner, Same
  <1>5. HasOwner'
    BY <1>1, <1>a DEF ClaimInv, HasOwner, Same
  <1>6. Untouched' /\ WithinBudget'
    BY <1>1, <1>a DEF ClaimInv, Untouched, WithinBudget, MaxFailures
  <1>7. ResultsOwn'
    <2>1. \A w \in Workers : pc[w] \in {"fire", "firing"} => job[w] \in Jobs
      BY DEF ClaimTypeOK
    <2>2. \A x \in Jobs : state[x] = "Succeeded" => state'[x] = "Succeeded"
      BY <1>1
    <2> QED
      BY <1>1, <1>a, <2>1, <2>2 DEF ClaimInv, ResultsOwn, Same
  <1> QED
    BY <1>1, <1>3, <1>4, <1>5, <1>6, <1>7 DEF ClaimInv, Tables

\* Every step keeps the claims as they should be ...
LEMMA NextClaimInv ==
    ASSUME Unattended, IInv, ClaimInv, [Next]_vars
    PROVE  ClaimInv'
  <1>1. ClaimTypeOK
    BY IInvClaimType
  <1>2. ClaimStep
    BY <1>1, NextIsClaim
  <1> QED
    BY <1>1, <1>2, QuietClaim, OwnerClaim, TableClaim DEF ClaimStep

\* ... and at first there are none.
LEMMA InitClaimInv == Init => ClaimInv
  <1> SUFFICES ASSUME Init PROVE ClaimInv
    OBVIOUS
  <1>1. \A w \in Workers : pc[w] = "idle"
    BY DEF Init, EngineInit
  <1>2. \A j \in Jobs : state[j] = "Unborn" /\ failures[j] = 0 /\ result[j] = NoWorker
    BY DEF Init, StoreInit
  <1>3. scheduled = {} /\ (\A n \in Nodes : orphans[n] = {}) /\ \A q \in Queues : queues[q] = <<>>
    BY DEF Init, StoreInit
  <1>4. QueuesExact /\ KeysExact
    <2>1. IsInjective(<<>>) /\ Range(<<>>) = {}
      BY DEF IsInjective, Range
    <2> QED
      BY <1>2, <1>3, <2>1 DEF QueuesExact, KeysExact
  <1>5. OwnerKnows /\ OneOwner /\ HasOwner /\ Untouched
    BY <1>1, <1>2, <1>3 DEF OwnerKnows, OneOwner, HasOwner, Untouched, Owning, Executing, Settling
  <1>6. WithinBudget
    BY <1>2, BudgetBounds DEF WithinBudget
  <1>7. ResultsOwn
    BY <1>1, <1>2, EngineAssumption DEF ResultsOwn
  <1> QED
    BY <1>4, <1>5, <1>6, <1>7 DEF ClaimInv

\* So the claims are always as they should be.
LEMMA ClaimInductive ==
    ASSUME Unattended
    PROVE  Spec => [](IInv /\ ClaimInv)
  <1>1. IInv /\ ClaimInv /\ [Next]_vars => ClaimInv'
    BY NextClaimInv
  <1> QED
    BY <1>1, InitClaimInv, Inductive, PTL DEF Spec

-----------------------------------------------------------------------------
(* The theorems *)

\* The places of a queue that hold job j.
LEMMA QueuePlaces ==
    ASSUME ClaimTypeOK, ClaimInv, NEW j \in Jobs
    PROVE  Cardinality({i \in DOMAIN queues[QueueOf[j]] : queues[QueueOf[j]][i] = j}) =
               IF state[j] = "Enqueued" THEN 1 ELSE 0
  <1> DEFINE s == queues[QueueOf[j]]
             P == {i \in DOMAIN s : s[i] = j}
  <1>1. QueueOf[j] \in Queues
    BY EngineAssumption
  <1>2. IsInjective(s) /\ (j \in Range(s) <=> state[j] = "Enqueued")
    BY <1>1 DEF ClaimInv, QueuesExact
  <1>3. CASE state[j] = "Enqueued"
    <2>1. PICK i \in DOMAIN s : s[i] = j
      BY <1>2, <1>3 DEF Range
    <2>2. P = {i}
      BY <1>2, <2>1 DEF IsInjective
    <2> QED
      BY <1>3, <2>2, FS_Singleton
  <1>4. CASE state[j] # "Enqueued"
    <2>1. P = {}
      BY <1>2, <1>4 DEF Range
    <2> QED
      BY <1>4, <2>1, FS_EmptySet
  <1> QED
    BY <1>3, <1>4

\* The workers that own job j.
LEMMA OwnerPlaces ==
    ASSUME ClaimTypeOK, ClaimInv, NEW j \in Jobs
    PROVE  Cardinality({w \in Workers : job[w] = j /\ pc[w] \in Owning}) =
               IF state[j] \in {"Processing", "Failed"} THEN 1 ELSE 0
  <1> DEFINE P == {w \in Workers : job[w] = j /\ pc[w] \in Owning}
  <1>1. CASE state[j] \in {"Processing", "Failed"}
    <2>1. PICK w \in Workers : job[w] = j /\ pc[w] \in Owning
      BY <1>1 DEF ClaimInv, HasOwner
    <2>2. P = {w}
      BY <2>1 DEF ClaimInv, OneOwner
    <2> QED
      BY <1>1, <2>2, FS_Singleton
  <1>2. CASE state[j] \notin {"Processing", "Failed"}
    <2>1. P = {}
      BY <1>2 DEF ClaimInv, OwnerKnows, Owning
    <2> QED
      BY <1>2, <2>1, FS_EmptySet
  <1> QED
    BY <1>1, <1>2

\* While nobody interferes by hand, every live job has exactly one claim on
\* being run - a queue element, a scheduled key or a worker, as its state says -
\* and a finished one has none, for any number of workers, jobs and queues.
THEOREM OneClaim ==
    ASSUME Unattended
    PROVE  Spec => []ExactlyOneClaim
  <1>1. IInv /\ ClaimInv => ExactlyOneClaim
    <2> SUFFICES ASSUME IInv, ClaimInv, NEW j \in Jobs
                 PROVE  /\ Claims(j) = IF state[j] \in IrreversibleStates \cup Missing THEN 0 ELSE 1
                        /\ state[j] = "Processing" => \E w \in Workers : job[w] = j /\ pc[w] \in Unfinished
                        /\ state[j] = "Failed" =>
                              \E w \in Workers : job[w] = j /\ pc[w] \in {"applyDead", "scheduleRetry"}
      BY DEF ExactlyOneClaim
    <2>1. ClaimTypeOK
      BY IInvClaimType
    <2>2. Owning = Unfinished \cup {"applyDead", "scheduleRetry"}
      BY DEF Owning, Executing, Settling, Unfinished
    <2>3. Cardinality({i \in DOMAIN queues[QueueOf[j]] : queues[QueueOf[j]][i] = j}) =
             IF state[j] = "Enqueued" THEN 1 ELSE 0
      BY <2>1, QueuePlaces
    <2>4. Cardinality({j} \cap scheduled) = IF state[j] = "Scheduled" THEN 1 ELSE 0
      <3>1. {j} \cap scheduled = IF state[j] = "Scheduled" THEN {j} ELSE {}
        BY DEF ClaimInv, KeysExact
      <3> QED
        BY <3>1, FS_Singleton, FS_EmptySet
    <2>5. Cardinality({w \in Workers : job[w] = j /\ pc[w] \in Unfinished \cup {"applyDead", "scheduleRetry"}}) =
             IF state[j] \in {"Processing", "Failed"} THEN 1 ELSE 0
      BY <2>1, <2>2, OwnerPlaces
    <2>6. /\ state[j] \in JobStates \cup Missing
          /\ state[j] \notin {"Removed", "Deleted", "Awaiting"}
      BY <2>1 DEF ClaimTypeOK, StoreTypeOK, ClaimInv, Untouched
    <2>7. Claims(j) = (IF state[j] = "Enqueued" THEN 1 ELSE 0)
                         + (IF state[j] = "Scheduled" THEN 1 ELSE 0)
                         + (IF state[j] \in {"Processing", "Failed"} THEN 1 ELSE 0)
      BY <2>3, <2>4, <2>5 DEF Claims
    <2>8. Claims(j) = IF state[j] \in IrreversibleStates \cup Missing THEN 0 ELSE 1
      BY <2>6, <2>7 DEF JobStates, Missing, IrreversibleStates
    <2>9. ASSUME state[j] \in {"Processing", "Failed"}
          PROVE  \E w \in Workers : /\ job[w] = j
                                    /\ state[j] = "Processing" => pc[w] \in Unfinished
                                    /\ state[j] = "Failed" => pc[w] \in {"applyDead", "scheduleRetry"}
      <3>1. PICK w \in Workers : job[w] = j /\ pc[w] \in Owning
        BY <2>9 DEF ClaimInv, HasOwner
      <3> QED
        BY <3>1 DEF ClaimInv, OwnerKnows, Owning, Executing, Settling, Unfinished
    <2> QED
      BY <2>8, <2>9
  <1> QED
    BY <1>1, ClaimInductive, PTL

\* There, the children of a run that succeeded are given the output of that
\* very run: no other worker ever writes Job.Result of the same job.
THEOREM OwnResult ==
    ASSUME Unattended
    PROVE  Spec => []ParentResultIsOwn
  <1>1. IInv /\ ClaimInv => ParentResultIsOwn
    BY DEF ClaimInv, ResultsOwn, ParentResultIsOwn
  <1> QED
    BY <1>1, ClaimInductive, PTL

\* There, a job that has succeeded, died or been cancelled stays what it is:
\* a resurrection on this backend always starts with a requeue, a delete, an
\* orphan recovery or a sweep.
THEOREM FinalIsFinal ==
    ASSUME Unattended
    PROVE  Spec => IrreversibleStable
  <1> DEFINE Stays == \A j \in Jobs : state[j] \in IrreversibleStates => state'[j] \in {state[j], "Removed"}
  <1>1. IInv /\ ClaimInv /\ [Next]_vars => [Stays]_vars
    <2> SUFFICES ASSUME IInv, ClaimInv, [Next]_vars, NEW j \in Jobs, state[j] \in IrreversibleStates
                 PROVE  state'[j] = state[j]
      OBVIOUS
    <2>1. ClaimTypeOK
      BY IInvClaimType
    <2>2. StoreTypeOK /\ Tables /\ state \in [Jobs -> JobStates \cup Missing]
      BY <2>1 DEF ClaimTypeOK, StoreTypeOK, ClaimInv, Tables
    <2>3. CASE QuietStep
      BY <2>3 DEF QuietStep
    <2>4. ASSUME NEW w \in Workers, OwnerStep(w) PROVE state'[j] = state[j]
      <3>1. ASSUME NEW q \in Queues, NEW k \in Jobs, queues[q] # <<>>, Dequeue(q, k)
            PROVE  state'[j] = state[j]
        <4>1. k # j
          BY <2>2, <3>1, PopExact DEF IrreversibleStates
        <4> QED
          BY <2>2, <3>1, <4>1 DEF Dequeue
      <3> QED
        BY <2>2, <2>4, <3>1 DEF OwnerStep, SetJobResult, ApplyState, ScheduleRetry, IrreversibleStates
    <2>5. CASE TableStep
      <3>1. j \notin scheduled
        BY DEF ClaimInv, KeysExact, IrreversibleStates
      <3> QED
        BY <2>2, <2>5, <3>1 DEF TableStep, Enqueue, AddScheduled, GetDueScheduled, IrreversibleStates
    <2> QED
      BY <2>1, <2>3, <2>4, <2>5, NextIsClaim DEF ClaimStep
  <1>2. IrreversibleStable <=> [][Stays]_vars
    BY DEF IrreversibleStable
  <1> QED
    BY <1>1, <1>2, ClaimInductive, PTL DEF Spec

-----------------------------------------------------------------------------
(* Refinement *)

\* The lifecycle's budget is the engine's.
LEMMA SameBudget ==
    ASSUME NEW j \in Jobs
    PROVE  Lifecycle!Exhausted(j) <=> failures[j] >= MaxFailures(j)
  <1> QED
    BY DEF Lifecycle!Exhausted

\* What a worker stores about its job is one step of that job's life.
LEMMA OwnerLives ==
    ASSUME ClaimTypeOK, ClaimInv, NEW w \in Workers, OwnerStep(w)
    PROVE  (\E j \in Jobs : \/ Lifecycle!Start(j) \/ Lifecycle!Succeed(j) \/ Lifecycle!Cancel(j)
                            \/ Lifecycle!Fail(j) \/ Lifecycle!Retry(j) \/ Lifecycle!Bury(j))
           \/ UNCHANGED <<state, failures>>
  <1>c. /\ state \in [Jobs -> JobStates \cup Missing]
        /\ failures \in [Jobs -> 0..AttemptCap] /\ AttemptCap \in Nat
    BY EngineAssumption DEF ClaimTypeOK, StoreTypeOK
  <1>k. pc[w] \in Owning => \E k \in Jobs : job[w] = k /\ Knows(w)
    BY OwnedAlone
  <1> USE DEF Lifecycle!Step
  <1>1. ASSUME NEW q \in Queues, NEW j \in Jobs, queues[q] # <<>>, Dequeue(q, j)
        PROVE  Lifecycle!Start(j)
    <2>1. state[j] = "Enqueued"
      BY <1>1, PopExact DEF ClaimTypeOK, ClaimInv, Tables
    <2> QED
      BY <1>1, <2>1 DEF Dequeue, Lifecycle!Start
  <1>2. ASSUME SetJobResult(job[w], w) PROVE UNCHANGED <<state, failures>>
    BY <1>2 DEF SetJobResult
  <1>3. ASSUME pc[w] \in {"applySucceeded", "applyCancelled"}, NEW new \in {"Succeeded", "Cancelled"},
               ApplyState(job[w], "Processing", new)
        PROVE  \E j \in Jobs : Lifecycle!Succeed(j) \/ Lifecycle!Cancel(j)
    <2>1. PICK k \in Jobs : job[w] = k
      BY <1>3, <1>k DEF Owning, Executing
    <2>2. failures' = [failures EXCEPT ![k] = @]
      BY <1>3, <2>1 DEF ApplyState
    <2>3. failures' = failures
      BY <1>c, <2>2
    <2> QED
      BY <1>3, <2>1, <2>3 DEF ApplyState, Lifecycle!Succeed, Lifecycle!Cancel
  <1>4. ASSUME pc[w] = "applyFailed", ApplyState(job[w], "Processing", "Failed")
        PROVE  \E j \in Jobs : Lifecycle!Fail(j)
    <2>1. PICK k \in Jobs : job[w] = k
      BY <1>4, <1>k DEF Owning, Executing
    <2>2. state[k] = "Processing" /\ state' = [state EXCEPT ![k] = "Failed"]
          /\ failures' = [failures EXCEPT ![k] = AttemptCount(k)]
      BY <1>4, <2>1 DEF ApplyState
    <2>3. failures[k] < MaxFailures(k) /\ MaxFailures(k) <= AttemptCap /\ MaxFailures(k) \in Nat
      BY <2>2, BudgetBounds DEF ClaimInv, WithinBudget
    <2>4. AttemptCount(k) = failures[k] + 1
      BY <1>c, <2>3 DEF AttemptCount
    <2> QED
      BY <2>2, <2>4 DEF Lifecycle!Fail
  <1>5. ASSUME pc[w] = "applyDead", ApplyState(job[w], "Failed", "Dead")
        PROVE  \E j \in Jobs : Lifecycle!Bury(j)
    <2>1. PICK k \in Jobs : job[w] = k /\ Knows(w)
      BY <1>5, <1>k DEF Owning, Settling
    <2>2. failures' = [failures EXCEPT ![k] = @]
      BY <1>5, <2>1 DEF ApplyState
    <2>3. failures' = failures
      BY <1>c, <2>2
    <2>4. Lifecycle!Exhausted(k)
      BY <1>5, <2>1, SameBudget DEF Knows
    <2> QED
      BY <1>5, <2>1, <2>3, <2>4 DEF ApplyState, Lifecycle!Bury
  <1>6. ASSUME pc[w] = "scheduleRetry", ScheduleRetry(job[w])
        PROVE  \E j \in Jobs : Lifecycle!Retry(j)
    <2>1. PICK k \in Jobs : job[w] = k /\ Knows(w)
      BY <1>6, <1>k DEF Owning, Settling
    <2>2. failures[k] \in Int /\ MaxFailures(k) \in Int
      BY <1>c, BudgetBounds
    <2>3. ~Lifecycle!Exhausted(k)
      BY <1>6, <2>1, <2>2, SameBudget DEF Knows
    <2> QED
      BY <1>6, <2>1, <2>3 DEF ScheduleRetry, Lifecycle!Retry
  <1> QED
    BY <1>1, <1>2, <1>3, <1>4, <1>5, <1>6 DEF OwnerStep

\* Creating and promoting jobs are the remaining steps of the lifecycle.
LEMMA TableLives ==
    ASSUME ClaimTypeOK, ClaimInv, TableStep
    PROVE  \/ \E j \in Jobs : Lifecycle!Submit(j)
           \/ \E due \in SUBSET Jobs : Lifecycle!Promote(due)
  <1>1. CASE \E j \in Jobs : Enqueue(j) \/ AddScheduled(j)
    BY <1>1 DEF Enqueue, AddScheduled, Lifecycle!Submit, Lifecycle!Step
  <1>2. ASSUME NEW due \in SUBSET scheduled, GetDueScheduled(due)
        PROVE  \E d \in SUBSET Jobs : Lifecycle!Promote(d)
    <2>1. due \in SUBSET Jobs /\ \A j \in due : state[j] = "Scheduled"
      BY DEF ClaimInv, KeysExact
    <2> QED
      BY <1>2, <2>1 DEF GetDueScheduled, Lifecycle!Promote
  <1> QED
    BY <1>1, <1>2 DEF TableStep

\* The engine on the memory backend implements the abstract lifecycle of a job:
\* every storage call of its workers, loops and handlers is one step of one job
\* along it (or of one promoted batch), and a job is declared dead after exactly
\* the failures that its retry budget grants.
THEOREM LifecycleImplemented ==
    ASSUME Unattended
    PROVE  Spec => ImplementsLifecycle
  <1>1. Init => Lifecycle!LifeInit
    BY DEF Init, StoreInit, Lifecycle!LifeInit
  <1>2. IInv /\ ClaimInv /\ [Next]_vars => [Lifecycle!LifeNext]_<<state, failures>>
    <2> SUFFICES ASSUME IInv, ClaimInv, [Next]_vars
                 PROVE  Lifecycle!LifeNext \/ UNCHANGED <<state, failures>>
      OBVIOUS
    <2>1. ClaimTypeOK
      BY IInvClaimType
    <2>2. ClaimStep
      BY <2>1, NextIsClaim
    <2>3. CASE QuietStep
      BY <2>3 DEF QuietStep
    <2>4. ASSUME NEW w \in Workers, OwnerStep(w)
          PROVE  Lifecycle!LifeNext \/ UNCHANGED <<state, failures>>
      BY <2>1, <2>4, OwnerLives DEF Lifecycle!LifeNext
    <2>5. CASE TableStep
      BY <2>1, <2>5, TableLives DEF Lifecycle!LifeNext
    <2> QED
      BY <2>2, <2>3, <2>4, <2>5 DEF ClaimStep
  <1>3. ImplementsLifecycle <=> Lifecycle!LifeInit /\ [][Lifecycle!LifeNext]_<<state, failures>>
    BY DEF ImplementsLifecycle, Lifecycle!LifeSpec, Lifecycle!lifeVars
  <1> QED
    BY <1>1, <1>2, <1>3, ClaimInductive, PTL DEF Spec

=============================================================================
