---------------------------- MODULE EngineProofs ----------------------------
(***************************************************************************)
(* Facts about the fragments of Engine, for every backend: a step of the   *)
(* process-local half keeps its types, the in-flight counters and the      *)
(* cancel map true, whatever store it is joined with.                      *)
(***************************************************************************)
EXTENDS Engine, TLAPS, FiniteSetTheorems

-----------------------------------------------------------------------------
(* Types *)

\* The in-flight counters stay naturals and the cancel map stays a map to
\* workers, even for an ID that names no job.
LEMMA ActiveTable ==
    ASSUME EngineTypeOK, NEW n \in Nodes, NEW q, incActive(n, q) \/ decActive(n, q)
    PROVE  active' \in [Nodes -> [Queues -> Nat]]
  <1> DEFINE old == active[n][q]
  <1>1. active \in [Nodes -> [Queues -> Nat]]
    BY DEF EngineTypeOK
  <1>2. q \in Queues => old \in Nat
    BY <1>1
  <1>3. q \in Queues => old + 1 \in Nat /\ (IF old > 0 THEN old - 1 ELSE old) \in Nat
    BY <1>2
  <1>4. CASE incActive(n, q)
    <2>1. active' = [active EXCEPT ![n] = [active[n] EXCEPT ![q] = old + 1]]
      BY <1>4 DEF incActive
    <2>2. [active[n] EXCEPT ![q] = old + 1] \in [Queues -> Nat]
      BY <1>1, <1>3
    <2> QED
      BY <1>1, <2>1, <2>2
  <1>5. CASE decActive(n, q)
    <2> DEFINE less == IF old > 0 THEN old - 1 ELSE old
    <2>1. active' = [active EXCEPT ![n] = [active[n] EXCEPT ![q] = less]]
      BY <1>5 DEF decActive
    <2>2. [active[n] EXCEPT ![q] = less] \in [Queues -> Nat]
      BY <1>1, <1>3
    <2> QED
      BY <1>1, <2>1, <2>2
  <1> QED
    BY <1>4, <1>5

\* Publishing and withdrawing a cancel function keep the cancel map a map.
LEMMA CancelTable ==
    ASSUME EngineTypeOK, NEW n \in Nodes, NEW j,
           (\E w \in Workers : registerCancel(n, j, w)) \/ unregisterCancel(n, j)
    PROVE  cancels' \in [Nodes -> [Jobs -> Workers \cup {NoWorker}]]
  <1>1. PICK w \in Workers \cup {NoWorker} : cancels' = [cancels EXCEPT ![n][j] = w]
    BY DEF registerCancel, unregisterCancel
  <1> QED
    BY <1>1 DEF EngineTypeOK

\* Every fragment of the engine keeps the types of the engine's variables.
LEMMA EngineLocalType ==
    ASSUME EngineTypeOK, NEW w \in Workers,
           PickQueues(w) \/ WorkerExit(w) \/ Execute(w) \/ Return(w) \/ JobTimeout(w)
             \/ NoTicket(w) \/ LoopEnds(w) \/ AbandonTicket(w)
    PROVE  EngineTypeOK'
  <1>0. 0 \in 0..AttemptCap
    BY EngineAssumption
  <1> USE EngineAssumption DEF EngineTypeOK, PCs, InFlightPCs, Goto
  <1>1. CASE PickQueues(w)
    BY <1>1 DEF PickQueues, queuesUnderLimit
  <1>2. CASE WorkerExit(w)
    BY <1>2 DEF WorkerExit
  <1>3. CASE Execute(w)
    BY <1>3 DEF Execute, ExecOutcomes
  <1>4. CASE Return(w)
    <2>1. active' \in [Nodes -> [Queues -> Nat]]
      BY <1>4, ActiveTable DEF Return
    <2>2. cancels' \in [Nodes -> [Jobs -> Workers \cup {NoWorker}]]
      BY <1>4, CancelTable DEF Return
    <2>3. pc' \in [Workers -> PCs]
      BY <1>4 DEF Return
    <2>5. job' \in [Workers -> Jobs \cup {NoJob}]
      BY <1>4 DEF Return
    <2>6. attempt' \in [Workers -> 0..AttemptCap]
      BY <1>0, <1>4 DEF Return
    <2>4. /\ ctx' \in [Workers -> {"live", "cancelled", "expired", "stopped"}]
          /\ terminal' \in [Workers -> JobStates \cup {""}]
      BY <1>4 DEF Return
    <2> QED
      BY <1>4, <2>1, <2>2, <2>3, <2>4, <2>5, <2>6 DEF Return
  <1>5. CASE JobTimeout(w)
    BY <1>5 DEF JobTimeout
  <1>6. CASE NoTicket(w) \/ LoopEnds(w)
    BY <1>6 DEF NoTicket, LoopEnds
  <1>7. CASE AbandonTicket(w)
    BY <1>7 DEF AbandonTicket
  <1> QED
    BY <1>1, <1>2, <1>3, <1>4, <1>5, <1>6, <1>7

\* The fragments that take the answer of a storage call keep the types too.
LEMMA EngineStepType ==
    ASSUME EngineTypeOK, NEW w \in Workers
    PROVE  /\ \A j \in Jobs : GotTicket(w, j) => EngineTypeOK'
           /\ \A n \in 0..AttemptCap : BeginRun(w, n) => EngineTypeOK'
           /\ \A label \in PCs : Advance(w, label) => EngineTypeOK'
           /\ \A s \in JobStates : Finalized(w, s) => EngineTypeOK'
           /\ \A entries \in SUBSET Conditions : LoadContinuations(w, entries) => EngineTypeOK'
           /\ \A c \in Conditions : FiredContinuation(w, c) => EngineTypeOK'
  <1> USE EngineAssumption DEF EngineTypeOK, Goto
  <1>1. ASSUME NEW j \in Jobs, GotTicket(w, j) PROVE EngineTypeOK'
    BY <1>1 DEF GotTicket, PCs
  <1>2. ASSUME NEW n \in 0..AttemptCap, BeginRun(w, n) PROVE EngineTypeOK'
    <2>1. active' \in [Nodes -> [Queues -> Nat]]
      BY <1>2, ActiveTable DEF BeginRun
    <2>2. cancels' \in [Nodes -> [Jobs -> Workers \cup {NoWorker}]]
      BY <1>2, CancelTable DEF BeginRun
    <2>3. /\ pc' \in [Workers -> PCs]
          /\ attempt' \in [Workers -> 0..AttemptCap]
          /\ ctx' \in [Workers -> {"live", "cancelled", "expired", "stopped"}]
      BY <1>2 DEF BeginRun, PCs, InFlightPCs
    <2> QED
      BY <1>2, <2>1, <2>2, <2>3 DEF BeginRun
  <1>3. ASSUME NEW label \in PCs, Advance(w, label) PROVE EngineTypeOK'
    BY <1>3 DEF Advance
  <1>4. ASSUME NEW s \in JobStates, Finalized(w, s) PROVE EngineTypeOK'
    BY <1>4 DEF Finalized, PCs, InFlightPCs
  <1>5. ASSUME NEW entries \in SUBSET Conditions, LoadContinuations(w, entries) PROVE EngineTypeOK'
    BY <1>5 DEF LoadContinuations, PCs, InFlightPCs
  <1>6. ASSUME NEW c \in Conditions, FiredContinuation(w, c) PROVE EngineTypeOK'
    BY <1>6 DEF FiredContinuation
  <1> QED
    BY <1>1, <1>2, <1>3, <1>4, <1>5, <1>6

\* So do cancelling a job and the end and the start of a node.
LEMMA EngineNodeType ==
    ASSUME EngineTypeOK, NEW n \in Nodes
    PROVE  /\ \A j \in Jobs : CancelJob(n, j) => EngineTypeOK'
           /\ StopEngine(n) => EngineTypeOK'
           /\ CrashEngine(n) => EngineTypeOK'
           /\ StartEngine(n) => EngineTypeOK'
  <1>0. 0 \in 0..AttemptCap
    BY EngineAssumption
  <1> USE EngineAssumption DEF EngineTypeOK
  <1>1. ASSUME NEW j \in Jobs, CancelJob(n, j) PROVE EngineTypeOK'
    BY <1>1 DEF CancelJob
  <1>2. ASSUME StopEngine(n) PROVE EngineTypeOK'
    BY <1>2 DEF StopEngine
  <1>3. ASSUME CrashEngine(n) PROVE EngineTypeOK'
    <2>1. /\ [q \in Queues |-> 0] \in [Queues -> Nat]
          /\ [j \in Jobs |-> NoWorker] \in [Jobs -> Workers \cup {NoWorker}]
      OBVIOUS
    <2>2. active' \in [Nodes -> [Queues -> Nat]]
      BY <1>3, <2>1 DEF CrashEngine
    <2>3. cancels' \in [Nodes -> [Jobs -> Workers \cup {NoWorker}]]
      BY <1>3, <2>1 DEF CrashEngine
    <2>11. pc' \in [Workers -> PCs]
      BY <1>3 DEF CrashEngine, PCs
    <2>4. job' \in [Workers -> Jobs \cup {NoJob}]
      BY <1>3 DEF CrashEngine
    <2>9. attempt' \in [Workers -> 0..AttemptCap]
      BY <1>0, <1>3 DEF CrashEngine
    <2>10. ctx' \in [Workers -> {"live", "cancelled", "expired", "stopped"}]
      BY <1>3 DEF CrashEngine
    <2>5. elig' \in [Workers -> SUBSET Queues]
      BY <1>3 DEF CrashEngine
    <2>6. terminal' \in [Workers -> JobStates \cup {""}]
      BY <1>3 DEF CrashEngine
    <2>7. todo' \in [Workers -> SUBSET Conditions]
      BY <1>3 DEF CrashEngine
    <2>8. running' \in [Nodes -> BOOLEAN]
      BY <1>3 DEF CrashEngine
    <2> QED
      BY <2>11, <2>2, <2>3, <2>4, <2>5, <2>6, <2>7, <2>8, <2>9, <2>10
  <1>4. ASSUME StartEngine(n) PROVE EngineTypeOK'
    BY <1>4 DEF StartEngine, PCs
  <1> QED
    BY <1>1, <1>2, <1>3, <1>4

\* What a step may do to the engine's variables.
EngineStep ==
    \/ UNCHANGED engineVars
    \/ \E w \in Workers :
          \/ PickQueues(w) \/ WorkerExit(w) \/ Execute(w) \/ Return(w) \/ JobTimeout(w)
          \/ pc[w] = "dequeue" /\ (NoTicket(w) \/ LoopEnds(w) \/ \E j \in Jobs : GotTicket(w, j))
          \/ pc[w] = "load" /\ (AbandonTicket(w) \/ \E n \in 0..AttemptCap : BeginRun(w, n))
          \/ InFlight(w) /\ \E label \in InFlightPCs : Advance(w, label)
          \/ InFlight(w) /\ \E s \in JobStates : Finalized(w, s)
          \/ InFlight(w) /\ \E entries \in SUBSET Conditions : LoadContinuations(w, entries)
          \/ \E c \in Conditions : FiredContinuation(w, c)
    \/ \E n \in Nodes :
          (\E j \in Jobs : CancelJob(n, j)) \/ StopEngine(n) \/ CrashEngine(n) \/ StartEngine(n)

\* A worker holds a job exactly from the ticket to its return.
HoldsJob == \A w \in Workers : pc[w] \notin {"idle", "dequeue", "stopped"} <=> job[w] \in Jobs

-----------------------------------------------------------------------------
(* The engine's half *)

EngineInv == EngineTypeOK /\ HoldsJob /\ CancelHitsItsJob /\ ActiveAccurate

\* The three type lemmas together: any step of the engine keeps the types.
LEMMA EngineStepTypeOK ==
    ASSUME EngineTypeOK, EngineStep
    PROVE  EngineTypeOK'
  <1>1. CASE UNCHANGED engineVars
    BY <1>1 DEF engineVars, EngineTypeOK
  <1>2. CASE \E n \in Nodes : \/ \E j \in Jobs : CancelJob(n, j)
                              \/ StopEngine(n) \/ CrashEngine(n) \/ StartEngine(n)
    BY <1>2, EngineNodeType
  <1>3. InFlightPCs \subseteq PCs
    BY DEF PCs
  <1>4. ASSUME NEW w \in Workers,
               \/ PickQueues(w) \/ WorkerExit(w) \/ Execute(w) \/ Return(w) \/ JobTimeout(w)
               \/ NoTicket(w) \/ LoopEnds(w) \/ AbandonTicket(w)
        PROVE  EngineTypeOK'
    BY <1>4, EngineLocalType
  <1>5. ASSUME NEW w \in Workers,
               \/ \E j \in Jobs : GotTicket(w, j)
               \/ \E n \in 0..AttemptCap : BeginRun(w, n)
               \/ \E label \in InFlightPCs : Advance(w, label)
               \/ \E s \in JobStates : Finalized(w, s)
               \/ \E entries \in SUBSET Conditions : LoadContinuations(w, entries)
               \/ \E c \in Conditions : FiredContinuation(w, c)
        PROVE  EngineTypeOK'
    BY <1>3, <1>5, EngineStepType
  <1> QED
    BY <1>1, <1>2, <1>4, <1>5 DEF EngineStep

\* Tickets are taken and dropped together with the control point.
LEMMA EngineStepHoldsJob ==
    ASSUME EngineTypeOK, HoldsJob, EngineStep
    PROVE  HoldsJob'
  <1> DEFINE Good(v) == pc[v] \notin {"idle", "dequeue", "stopped"} <=> job[v] \in Jobs
  <1> SUFFICES ASSUME NEW v \in Workers
               PROVE  Good(v)'
    BY DEF HoldsJob
  <1>0. NoJob \notin Jobs
    BY EngineAssumption
  <1> USE <1>0 DEF HoldsJob, EngineTypeOK, Goto
  <1>1. CASE UNCHANGED engineVars
    BY <1>1 DEF engineVars
  <1>2. ASSUME NEW w \in Workers,
               \/ PickQueues(w) \/ WorkerExit(w) \/ Execute(w) \/ Return(w) \/ JobTimeout(w)
               \/ (pc[w] = "dequeue" /\ (NoTicket(w) \/ LoopEnds(w))) \/ AbandonTicket(w)
        PROVE  Good(v)'
    BY <1>2 DEF PickQueues, WorkerExit, Execute, Return, JobTimeout, NoTicket, LoopEnds, AbandonTicket,
                InFlight, InFlightPCs, ExecOutcomes
  <1>3. ASSUME NEW w \in Workers, NEW j \in Jobs, GotTicket(w, j)
        PROVE  Good(v)'
    BY <1>3 DEF GotTicket
  <1>4. ASSUME NEW w \in Workers, NEW n, pc[w] = "load", BeginRun(w, n)
        PROVE  Good(v)'
    BY <1>4 DEF BeginRun
  <1>5. ASSUME NEW w \in Workers, InFlight(w),
               \/ \E label \in InFlightPCs : Advance(w, label)
               \/ \E s \in JobStates : Finalized(w, s)
               \/ \E entries \in SUBSET Conditions : LoadContinuations(w, entries)
        PROVE  Good(v)'
    BY <1>5 DEF Advance, Finalized, LoadContinuations, InFlight, InFlightPCs
  <1>6. ASSUME NEW w \in Workers, NEW c \in Conditions, FiredContinuation(w, c)
        PROVE  Good(v)'
    BY <1>6 DEF FiredContinuation
  <1>7. ASSUME NEW n \in Nodes, \/ \E j \in Jobs : CancelJob(n, j)
                                \/ StopEngine(n) \/ CrashEngine(n) \/ StartEngine(n)
        PROVE  Good(v)'
    <2>1. CASE (\E j \in Jobs : CancelJob(n, j)) \/ StopEngine(n)
      BY <2>1 DEF CancelJob, StopEngine
    <2>2. CASE CrashEngine(n)
      <3>1. IF NodeOf[v] = n THEN pc'[v] = "stopped" /\ job'[v] = NoJob
                             ELSE pc'[v] = pc[v] /\ job'[v] = job[v]
        BY <2>2 DEF CrashEngine
      <3> QED
        BY <3>1
    <2>3. CASE StartEngine(n)
      BY <2>3 DEF StartEngine
    <2> QED
      BY <1>7, <2>1, <2>2, <2>3
  <1> QED
    BY <1>1, <1>2, <1>3, <1>4, <1>5, <1>6, <1>7 DEF EngineStep

\* Only BeginRun publishes a cancel function, and whatever ends the run of a
\* worker withdraws the entry that points at it.
LEMMA EngineStepCancel ==
    ASSUME EngineInv, EngineStep
    PROVE  CancelHitsItsJob'
  <1>a. cancels' \in [Nodes -> [Jobs -> Workers \cup {NoWorker}]]
    BY EngineStepTypeOK DEF EngineInv, EngineTypeOK
  <1>b. NodeOf \in [Workers -> Nodes] /\ NoWorker \notin Workers
    BY EngineAssumption
  <1> SUFFICES ASSUME NEW m \in Nodes, NEW k \in Jobs, NEW v \in Workers, cancels'[m][k] = v
               PROVE  NodeOf[v] = m /\ pc'[v] \in InFlightPCs /\ job'[v] = k
    <2> SUFFICES ASSUME NEW m \in Nodes, NEW k \in Jobs, cancels'[m][k] # NoWorker
                 PROVE  LET w == cancels'[m][k] IN NodeOf[w] = m /\ pc'[w] \in InFlightPCs /\ job'[w] = k
      BY Zenon DEF CancelHitsItsJob, InFlight
    <2>1. cancels'[m][k] \in Workers
      BY <1>a
    <2> QED
      BY <2>1
  <1>0. cancels[m][k] = v => NodeOf[v] = m /\ pc[v] \in InFlightPCs /\ job[v] = k
    <2> SUFFICES ASSUME cancels[m][k] = v
                 PROVE  NodeOf[v] = m /\ InFlight(v) /\ job[v] = k
      BY DEF InFlight
    <2>1. cancels[m][k] # NoWorker
      BY <1>b
    <2>2. NodeOf[cancels[m][k]] = m /\ InFlight(cancels[m][k]) /\ job[cancels[m][k]] = k
      BY <2>1, Zenon DEF EngineInv, CancelHitsItsJob
    <2> QED
      BY <2>2, Zenon
  <1> USE <1>b DEF EngineInv, EngineTypeOK, Goto
  <1>1. CASE UNCHANGED engineVars
    BY <1>0, <1>1 DEF engineVars
  <1>2. ASSUME NEW w \in Workers, PickQueues(w) \/ WorkerExit(w) \/ Execute(w) \/ JobTimeout(w)
        PROVE  NodeOf[v] = m /\ pc'[v] \in InFlightPCs /\ job'[v] = k
    BY <1>0, <1>2 DEF PickQueues, WorkerExit, Execute, ExecOutcomes, JobTimeout, InFlightPCs
  <1>3. ASSUME NEW w \in Workers, Return(w)
        PROVE  NodeOf[v] = m /\ pc'[v] \in InFlightPCs /\ job'[v] = k
    <2>1. cancels' = [cancels EXCEPT ![NodeOf[w]][job[w]] = NoWorker]
      BY <1>3 DEF Return, unregisterCancel
    <2>2. cancels[m][k] = v /\ ~(m = NodeOf[w] /\ k = job[w])
      BY <2>1
    <2>3. v # w
      BY <1>0, <2>2
    <2> QED
      BY <1>0, <1>3, <2>2, <2>3 DEF Return
  <1>4. ASSUME NEW w \in Workers, pc[w] = "dequeue",
               NoTicket(w) \/ LoopEnds(w) \/ \E j \in Jobs : GotTicket(w, j)
        PROVE  NodeOf[v] = m /\ pc'[v] \in InFlightPCs /\ job'[v] = k
    <2>1. CASE NoTicket(w)
      BY <1>0, <1>4, <2>1 DEF NoTicket, InFlightPCs
    <2>2. CASE LoopEnds(w)
      BY <1>0, <1>4, <2>2 DEF LoopEnds, InFlightPCs
    <2>3. CASE \E j \in Jobs : GotTicket(w, j)
      BY <1>0, <1>4, <2>3 DEF GotTicket, InFlightPCs
    <2> QED
      BY <1>4, <2>1, <2>2, <2>3
  <1>5. ASSUME NEW w \in Workers, pc[w] = "load", AbandonTicket(w)
        PROVE  NodeOf[v] = m /\ pc'[v] \in InFlightPCs /\ job'[v] = k
    BY <1>0, <1>5 DEF AbandonTicket, InFlightPCs
  <1>6. ASSUME NEW w \in Workers, NEW n, pc[w] = "load", BeginRun(w, n)
        PROVE  NodeOf[v] = m /\ pc'[v] \in InFlightPCs /\ job'[v] = k
    <2>1. cancels' = [cancels EXCEPT ![NodeOf[w]][job[w]] = w]
      BY <1>6 DEF BeginRun, registerCancel
    <2>2. CASE m = NodeOf[w] /\ k = job[w]
      <3>1. v = w
        BY <2>1, <2>2
      <3> QED
        BY <1>6, <2>2, <3>1 DEF BeginRun, InFlightPCs
    <2>3. CASE ~(m = NodeOf[w] /\ k = job[w])
      <3>1. cancels[m][k] = v
        BY <2>1, <2>3
      <3> QED
        BY <1>0, <1>6, <3>1 DEF BeginRun, InFlightPCs
    <2> QED
      BY <2>2, <2>3
  <1>7. ASSUME NEW w \in Workers, InFlight(w),
               \/ \E label \in InFlightPCs : Advance(w, label)
               \/ \E s \in JobStates : Finalized(w, s)
               \/ \E entries \in SUBSET Conditions : LoadContinuations(w, entries)
        PROVE  NodeOf[v] = m /\ pc'[v] \in InFlightPCs /\ job'[v] = k
    BY <1>0, <1>7 DEF Advance, Finalized, LoadContinuations, InFlightPCs
  <1>8. ASSUME NEW w \in Workers, NEW c \in Conditions, FiredContinuation(w, c)
        PROVE  NodeOf[v] = m /\ pc'[v] \in InFlightPCs /\ job'[v] = k
    BY <1>0, <1>8 DEF FiredContinuation
  <1>9. ASSUME NEW n \in Nodes, (\E j \in Jobs : CancelJob(n, j)) \/ StopEngine(n)
        PROVE  NodeOf[v] = m /\ pc'[v] \in InFlightPCs /\ job'[v] = k
    BY <1>0, <1>9 DEF CancelJob, StopEngine
  <1>10. ASSUME NEW n \in Nodes, CrashEngine(n)
        PROVE  NodeOf[v] = m /\ pc'[v] \in InFlightPCs /\ job'[v] = k
    <2>1. cancels' = [cancels EXCEPT ![n] = [j \in Jobs |-> NoWorker]]
      BY <1>10 DEF CrashEngine
    <2>2. m # n /\ cancels[m][k] = v
      BY <2>1
    <2> QED
      BY <1>0, <1>10, <2>2 DEF CrashEngine
  <1>11. ASSUME NEW n \in Nodes, StartEngine(n)
        PROVE  NodeOf[v] = m /\ pc'[v] \in InFlightPCs /\ job'[v] = k
    BY <1>0, <1>11 DEF StartEngine, InFlightPCs
  <1> QED
    BY <1>1, <1>2, <1>3, <1>4, <1>5, <1>6, <1>7, <1>8, <1>9, <1>10, <1>11 DEF EngineStep

\* The workers that hold a slot of queue q on node n.
Slots(n, q) == {w \in Workers : NodeOf[w] = n /\ InFlight(w) /\ QueueOf[job[w]] = q}

\* The slots in use can be counted, since there are finitely many workers.
LEMMA SlotsFinite ==
    ASSUME NEW n, NEW q
    PROVE  IsFiniteSet(Slots(n, q)) /\ Cardinality(Slots(n, q)) \in Nat
  <1>1. Slots(n, q) \in SUBSET Workers /\ IsFiniteSet(Workers)
    BY EngineAssumption DEF Slots
  <1> QED
    BY <1>1, FS_Subset, FS_CardinalityType

\* Giving back and taking a slot.
LEMMA SlotCount ==
    ASSUME NEW S, IsFiniteSet(S), NEW x
    PROVE  /\ x \in S => Cardinality(S \ {x}) = Cardinality(S) - 1 /\ Cardinality(S) > 0
           /\ x \notin S => Cardinality(S \cup {x}) = Cardinality(S) + 1
  <1>1. x \in S => Cardinality(S) # 0
    BY FS_EmptySet
  <1>2. Cardinality(S) \in Nat
    BY FS_CardinalityType
  <1>3. x \in S => Cardinality(S \ {x}) = Cardinality(S) - 1
    BY FS_RemoveElement
  <1>4. x \notin S => Cardinality(S \cup {x}) = Cardinality(S) + 1
    BY FS_AddElement
  <1> QED
    BY <1>1, <1>2, <1>3, <1>4

\* incActive and decActive are called exactly when a worker takes and leaves a
\* slot, so the counters are the numbers of slots taken.
LEMMA EngineStepActive ==
    ASSUME EngineInv, EngineStep
    PROVE  ActiveAccurate'
  <1>a. /\ NodeOf \in [Workers -> Nodes]
        /\ QueueOf \in [Jobs -> Queues]
    BY EngineAssumption
  <1>b. \A n \in Nodes, q \in Queues : active[n][q] = Cardinality(Slots(n, q))
    BY DEF EngineInv, ActiveAccurate, Slots
  <1>c. active \in [Nodes -> [Queues -> Nat]]
    BY DEF EngineInv, EngineTypeOK
  <1> SUFFICES ASSUME NEW m \in Nodes, NEW p \in Queues
               PROVE  active'[m][p] = Cardinality(Slots(m, p)')
    BY DEF ActiveAccurate, Slots
  <1>d. active[m][p] = Cardinality(Slots(m, p))
    BY <1>b
  <1> USE <1>a DEF EngineInv, EngineTypeOK, Goto
  <1>1. CASE UNCHANGED engineVars
    <2>1. Slots(m, p)' = Slots(m, p) /\ active' = active
      BY <1>1 DEF engineVars, Slots, InFlight
    <2> QED
      BY <1>d, <2>1
  <1>2. ASSUME NEW w \in Workers, PickQueues(w) \/ WorkerExit(w) \/ Execute(w) \/ JobTimeout(w)
        PROVE  active'[m][p] = Cardinality(Slots(m, p)')
    <2>1. active' = active /\ job' = job
      BY <1>2 DEF PickQueues, WorkerExit, Execute, JobTimeout
    <2>2. \A v \in Workers : pc'[v] \in InFlightPCs <=> pc[v] \in InFlightPCs
      BY <1>2 DEF PickQueues, WorkerExit, Execute, ExecOutcomes, JobTimeout, InFlightPCs
    <2>3. Slots(m, p)' = Slots(m, p)
      BY <2>1, <2>2 DEF Slots, InFlight
    <2> QED
      BY <1>d, <2>1, <2>3
  <1>3. ASSUME NEW w \in Workers, Return(w)
        PROVE  active'[m][p] = Cardinality(Slots(m, p)')
    <2>1. InFlight(w) /\ job[w] \in Jobs
      BY <1>3 DEF Return, InFlight, InFlightPCs, HoldsJob
    <2>2. /\ \A v \in Workers \ {w} : pc'[v] = pc[v] /\ job'[v] = job[v]
          /\ pc'[w] \notin InFlightPCs
      BY <1>3 DEF Return, InFlightPCs
    <2>3. Slots(m, p)' = Slots(m, p) \ {w}
      BY <2>2 DEF Slots, InFlight
    <2>4. active' = [active EXCEPT ![NodeOf[w]][QueueOf[job[w]]] = IF @ > 0 THEN @ - 1 ELSE @]
      BY <1>3 DEF Return, decActive
    <2>5. CASE m = NodeOf[w] /\ p = QueueOf[job[w]]
      <3>1. w \in Slots(m, p)
        BY <2>1, <2>5 DEF Slots
      <3>2. /\ Cardinality(Slots(m, p) \ {w}) = Cardinality(Slots(m, p)) - 1
            /\ Cardinality(Slots(m, p)) > 0
        BY <3>1, SlotsFinite, SlotCount
      <3>4. active'[m][p] = IF active[m][p] > 0 THEN active[m][p] - 1 ELSE active[m][p]
        BY <1>c, <2>4, <2>5
      <3> QED
        BY <1>d, <2>3, <3>2, <3>4
    <2>6. CASE ~(m = NodeOf[w] /\ p = QueueOf[job[w]])
      <3>1. Slots(m, p) \ {w} = Slots(m, p)
        BY <2>6 DEF Slots
      <3>2. active'[m][p] = active[m][p]
        BY <1>c, <2>4, <2>6
      <3> QED
        BY <1>d, <2>3, <3>1, <3>2
    <2> QED
      BY <2>5, <2>6
  <1>4. ASSUME NEW w \in Workers, pc[w] \in {"dequeue", "load"},
               NoTicket(w) \/ LoopEnds(w) \/ AbandonTicket(w) \/ \E j \in Jobs : GotTicket(w, j)
        PROVE  active'[m][p] = Cardinality(Slots(m, p)')
    <2>1. /\ active' = active
          /\ \A v \in Workers \ {w} : pc'[v] = pc[v] /\ job'[v] = job[v]
          /\ pc[w] \notin InFlightPCs /\ pc'[w] \notin InFlightPCs
      BY <1>4 DEF NoTicket, LoopEnds, AbandonTicket, GotTicket, InFlightPCs
    <2>2. Slots(m, p)' = Slots(m, p)
      BY <2>1 DEF Slots, InFlight
    <2> QED
      BY <1>d, <2>1, <2>2
  <1>5. ASSUME NEW w \in Workers, NEW n, pc[w] = "load", BeginRun(w, n)
        PROVE  active'[m][p] = Cardinality(Slots(m, p)')
    <2>1. /\ \A v \in Workers \ {w} : pc'[v] = pc[v]
          /\ job' = job
          /\ pc[w] \notin InFlightPCs /\ pc'[w] \in InFlightPCs
      BY <1>5 DEF BeginRun, InFlightPCs
    <2>2. active' = [active EXCEPT ![NodeOf[w]][QueueOf[job[w]]] = @ + 1]
      BY <1>5 DEF BeginRun, incActive
    <2>3. w \notin Slots(m, p)
      BY <2>1 DEF Slots, InFlight
    <2>4. CASE m = NodeOf[w] /\ p = QueueOf[job[w]]
      <3>1. Slots(m, p)' = Slots(m, p) \cup {w}
        <4> SUFFICES ASSUME NEW v \in Workers
                     PROVE  v \in Slots(m, p)' <=> v \in Slots(m, p) \cup {w}
          BY DEF Slots
        <4>1. CASE v = w
          BY <2>1, <2>4, <4>1 DEF Slots, InFlight
        <4>2. CASE v # w
          BY <2>1, <4>2 DEF Slots, InFlight
        <4> QED
          BY <4>1, <4>2
      <3>2. Cardinality(Slots(m, p) \cup {w}) = Cardinality(Slots(m, p)) + 1
        BY <2>3, SlotsFinite, SlotCount
      <3>3. active'[m][p] = active[m][p] + 1
        BY <1>c, <2>2, <2>4
      <3> QED
        BY <1>d, <3>1, <3>2, <3>3
    <2>5. CASE ~(m = NodeOf[w] /\ p = QueueOf[job[w]])
      <3>1. Slots(m, p)' = Slots(m, p)
        BY <2>1, <2>5 DEF Slots, InFlight
      <3>2. active'[m][p] = active[m][p]
        BY <1>c, <2>2, <2>5
      <3> QED
        BY <1>d, <3>1, <3>2
    <2> QED
      BY <2>4, <2>5
  <1>6. ASSUME NEW w \in Workers, InFlight(w),
               \/ \E label \in InFlightPCs : Advance(w, label)
               \/ \E s \in JobStates : Finalized(w, s)
               \/ \E entries \in SUBSET Conditions : LoadContinuations(w, entries)
        PROVE  active'[m][p] = Cardinality(Slots(m, p)')
    <2>1. active' = active /\ job' = job
      BY <1>6 DEF Advance, Finalized, LoadContinuations
    <2>2. \A v \in Workers : pc'[v] \in InFlightPCs <=> pc[v] \in InFlightPCs
      BY <1>6 DEF Advance, Finalized, LoadContinuations, InFlight, InFlightPCs
    <2>3. Slots(m, p)' = Slots(m, p)
      BY <2>1, <2>2 DEF Slots, InFlight
    <2> QED
      BY <1>d, <2>1, <2>3
  <1>7. ASSUME \/ \E w \in Workers, c \in Conditions : FiredContinuation(w, c)
               \/ \E n \in Nodes : (\E j \in Jobs : CancelJob(n, j)) \/ StopEngine(n)
        PROVE  active'[m][p] = Cardinality(Slots(m, p)')
    <2>1. active' = active /\ job' = job /\ pc' = pc
      BY <1>7 DEF FiredContinuation, CancelJob, StopEngine
    <2>2. Slots(m, p)' = Slots(m, p)
      BY <2>1 DEF Slots, InFlight
    <2> QED
      BY <1>d, <2>1, <2>2
  <1>8. ASSUME NEW n \in Nodes, CrashEngine(n)
        PROVE  active'[m][p] = Cardinality(Slots(m, p)')
    <2>1. /\ active' = [active EXCEPT ![n] = [q \in Queues |-> 0]]
          /\ \A v \in Workers : NodeOf[v] = n => pc'[v] \notin InFlightPCs
          /\ \A v \in Workers : NodeOf[v] # n => pc'[v] = pc[v] /\ job'[v] = job[v]
      BY <1>8 DEF CrashEngine, InFlightPCs
    <2>2. CASE m = n
      <3>1. Slots(m, p)' = {}
        BY <2>1, <2>2 DEF Slots, InFlight
      <3>2. active'[m][p] = 0
        BY <1>c, <2>1, <2>2
      <3> QED
        BY <3>1, <3>2, FS_EmptySet
    <2>3. CASE m # n
      <3>1. Slots(m, p)' = Slots(m, p)
        BY <2>1, <2>3 DEF Slots, InFlight
      <3>2. active'[m][p] = active[m][p]
        BY <1>c, <2>1, <2>3
      <3> QED
        BY <1>d, <3>1, <3>2
    <2> QED
      BY <2>2, <2>3
  <1>9. ASSUME NEW n \in Nodes, StartEngine(n)
        PROVE  active'[m][p] = Cardinality(Slots(m, p)')
    <2>1. active' = active /\ job' = job
      BY <1>9 DEF StartEngine
    <2>2. \A v \in Workers : pc'[v] \in InFlightPCs <=> pc[v] \in InFlightPCs
      BY <1>9 DEF StartEngine, InFlightPCs
    <2>3. Slots(m, p)' = Slots(m, p)
      BY <2>1, <2>2 DEF Slots, InFlight
    <2> QED
      BY <1>d, <2>1, <2>3
  <1> QED
    BY <1>1, <1>2, <1>3, <1>4, <1>5, <1>6, <1>7, <1>8, <1>9 DEF EngineStep

-----------------------------------------------------------------------------
(* The engine's half on any backend *)

\* Idle workers with empty counters and an empty cancel map are right ...
LEMMA EngineInitInv == EngineInit => EngineInv
  <1> SUFFICES ASSUME EngineInit PROVE EngineInv
    OBVIOUS
  <1>1. EngineTypeOK
    <2>1. 0 \in 0..AttemptCap
      BY EngineAssumption
    <2>2. /\ pc \in [Workers -> PCs]
          /\ job \in [Workers -> Jobs \cup {NoJob}]
          /\ elig \in [Workers -> SUBSET Queues]
          /\ todo \in [Workers -> SUBSET Conditions]
      BY DEF EngineInit, PCs
    <2>3. /\ attempt \in [Workers -> 0..AttemptCap]
          /\ active \in [Nodes -> [Queues -> Nat]]
      BY <2>1 DEF EngineInit
    <2>4. /\ ctx \in [Workers -> {"live", "cancelled", "expired", "stopped"}]
          /\ terminal \in [Workers -> JobStates \cup {""}]
          /\ cancels \in [Nodes -> [Jobs -> Workers \cup {NoWorker}]]
          /\ running \in [Nodes -> BOOLEAN]
      BY DEF EngineInit
    <2> QED
      BY <2>2, <2>3, <2>4 DEF EngineTypeOK
  <1>2. HoldsJob /\ CancelHitsItsJob
    BY EngineAssumption DEF EngineInit, HoldsJob, CancelHitsItsJob
  <1>3. ActiveAccurate
    <2>1. \A n \in Nodes, q \in Queues : Slots(n, q) = {} /\ active[n][q] = 0
      BY DEF EngineInit, Slots, InFlight, InFlightPCs
    <2> QED
      BY <2>1, FS_EmptySet DEF ActiveAccurate, Slots
  <1> QED
    BY <1>1, <1>2, <1>3 DEF EngineInv

\* ... and every step keeps them right, crashes and restarts included.
LEMMA EngineStepInv ==
    ASSUME EngineInv, EngineStep
    PROVE  EngineInv'
  <1> QED
    BY EngineStepTypeOK, EngineStepHoldsJob, EngineStepCancel, EngineStepActive DEF EngineInv

-----------------------------------------------------------------------------
(* Owners and budgets *)

\* Where a worker may still change the state of its job: Executing before the
\* outcome is stored, Settling after a failure has been.
Executing == {"run", "setResult", "applySucceeded", "applyCancelled", "applyFailed"}
Settling == {"applyDead", "scheduleRetry"}
Owning == Executing \cup Settling \cup {"load"}

\* A job is granted at least one failure, and never more than are counted; from
\* the first failure on it is what effectiveRetryMax says.
LEMMA BudgetBounds ==
    ASSUME NEW j \in Jobs
    PROVE  /\ MaxFailures(j) \in Nat /\ 1 <= MaxFailures(j) /\ MaxFailures(j) <= AttemptCap
           /\ effectiveRetryMax(RetryMax[j]) \in Int /\ effectiveRetryMax(RetryMax[j]) <= MaxFailures(j)
           /\ MaxFailures(j) \in {1, effectiveRetryMax(RetryMax[j])}
  <1>1. /\ RetryMax[j] \in Int /\ AttemptCap \in Nat \ {0}
        /\ effectiveRetryMax(RetryMax[j]) <= AttemptCap
    BY EngineAssumption
  <1>2. effectiveRetryMax(RetryMax[j]) = IF RetryMax[j] = 0 THEN 10 ELSE RetryMax[j]
    BY DEF effectiveRetryMax, defaultRetryMax
  <1> QED
    BY <1>1, <1>2 DEF MaxFailures

=============================================================================
