---------------------------- MODULE RegistryProofs ----------------------------
(***************************************************************************)
(* Safety of Registry for any requests, keys, processes and thresholds.    *)
(* A step moves one half, keys or servers, and each half has an inductive  *)
(* invariant of its own.                                                   *)
(***************************************************************************)
EXTENDS Registry, TLAPS

\* The values of one request: what a position says about the backend.
Positioned ==
    \A r \in Requests :
        /\ at[r] \in {"missed", "failed"} => backend # "memory"
        /\ at[r] = "created" => backend = "redis"

\* The memory map names the job of every key that has one.
MemoryKeyed ==
    backend = "memory" =>
        /\ \A id \in rows : keys[KeyOf[id]] = id
        /\ \A r \in Requests : at[r] = "done" => answer[r] = keys[KeyOf[r]]

\* The unique index, and that an answer names a row of the key, past or present.
PostgresKeyed ==
    backend = "postgres" =>
        /\ \A r, s \in rows : KeyOf[r] = KeyOf[s] => r = s
        /\ \A r \in Requests :
              at[r] = "done" => answer[r] \in rows \cup erased /\ KeyOf[answer[r]] = KeyOf[r]

\* A key whose requests came one after another and were all let finish.
Clean(k) == backend = "redis" /\ k \notin disturbed

\* On Redis a clean key has one request under way at most; before its SET there
\* is no key, before its Enqueue no job either, and afterwards the key names
\* the one job and every answer.  None of its requests has failed.
RedisKeyed ==
    /\ \A r, s \in Requests :
          Clean(KeyOf[r]) /\ KeyOf[r] = KeyOf[s]
             /\ at[r] \in {"missed", "created"} /\ at[s] \in {"missed", "created"} => r = s
    /\ \A r \in Requests :
          Clean(KeyOf[r]) /\ at[r] \in {"missed", "created"} => keys[KeyOf[r]] = NoJob
    /\ \A r \in Requests, id \in rows :
          Clean(KeyOf[r]) /\ at[r] = "missed" => KeyOf[id] # KeyOf[r]
    /\ \A id \in rows : Clean(KeyOf[id]) => keys[KeyOf[id]] = id \/ at[id] = "created"
    /\ \A r \in Requests : Clean(KeyOf[r]) /\ at[r] = "done" => answer[r] = keys[KeyOf[r]]
    /\ \A r \in Requests : Clean(KeyOf[r]) => at[r] # "failed"

KeyInv == Positioned /\ MemoryKeyed /\ PostgresKeyed /\ RedisKeyed

\* A running process with an entry is at most one interval old, and a sweep has
\* no running process in its hands but a late one.
ServerInv ==
    /\ RunningIsListed
    /\ \A n \in up \cap listed : age[n] <= IF n \in beaten THEN 0 ELSE 1
    /\ \A n \in Nodes : verdict[n] \cap up \subseteq late

IInv == TypeOK /\ KeyInv /\ ServerInv

-----------------------------------------------------------------------------

\* Every variable of the initial state has its type and the invariant holds.
LEMMA InitIInv == Init => IInv
  BY RegistryAssumption
     DEF Init, IInv, TypeOK, KeyInv, ServerInv, Positions, Positioned, MemoryKeyed,
         PostgresKeyed, RedisKeyed, Clean, RunningIsListed

\* A step of a request keeps the types.
LEMMA KeyStepTypes ==
    ASSUME IInv, NEW r \in Requests, UNCHANGED <<backend, serverVars>>,
           Serve(r) \/ Lookup(r) \/ Create(r) \/ Record(r) \/ Hit(r) \/ Erase(r)
    PROVE  TypeOK'
<1> USE RegistryAssumption DEF IInv, TypeOK, Positions, serverVars, Goto, Answer
<1>1. CASE Serve(r) BY <1>1 DEF Serve
<1>2. CASE Lookup(r) BY <1>2 DEF Lookup, Known
<1>3. CASE Create(r) BY <1>3 DEF Create
<1>4. CASE Record(r) BY <1>4 DEF Record
<1>5. CASE Hit(r) BY <1>5 DEF Hit, Mishap
<1>6. CASE Erase(r) BY <1>6 DEF Erase
<1> QED BY <1>1, <1>2, <1>3, <1>4, <1>5, <1>6

\* A step of a process keeps the types.
LEMMA ServerStepTypes ==
    ASSUME IInv, ServerNext
    PROVE  TypeOK'
<1> USE RegistryAssumption DEF IInv, TypeOK, Positions, keyVars, RegisterServer, UnregisterServer
<1>1. UNCHANGED <<backend, keyVars>> BY DEF ServerNext
<1>2. CASE Tick BY <1>1, <1>2 DEF Tick
<1>3. ASSUME NEW n \in Nodes, Start(n) PROVE TypeOK' BY <1>1, <1>3 DEF Start
<1>4. ASSUME NEW n \in Nodes, ServerStep(n) PROVE TypeOK'
  BY <1>1, <1>4 DEF ServerStep, Heartbeat, HeartbeatGet, HeartbeatSet, Unregister
<1>5. ASSUME NEW n \in Nodes, Sweep(n) PROVE TypeOK' BY <1>1, <1>5 DEF Sweep, Expired
<1>6. ASSUME NEW n \in Nodes, Crash(n) \/ Stop(n) PROVE TypeOK'
  BY <1>1, <1>6 DEF Crash, Stop, Ends, Mishap
<1> QED BY <1>2, <1>3, <1>4, <1>5, <1>6 DEF ServerNext

-----------------------------------------------------------------------------

\* EnqueueIdempotent keeps the invariant of the keys.
LEMMA KeyStepKeyInv ==
    ASSUME IInv, TypeOK', NEW r \in Requests, UNCHANGED backend,
           Serve(r) \/ Lookup(r) \/ Create(r) \/ Record(r) \/ Hit(r) \/ Erase(r)
    PROVE  KeyInv'
<1> USE RegistryAssumption DEF IInv, KeyInv
<1>1. CASE Serve(r)
  <2> USE <1>1 DEF Serve, Answer, Goto, TypeOK
  <2>1. backend = "memory" OBVIOUS
  <2>2. Positioned' BY DEF Positioned
  <2>3. MemoryKeyed' BY DEF MemoryKeyed
  <2>4. PostgresKeyed' BY <2>1 DEF PostgresKeyed
  <2>5. RedisKeyed' BY <2>1 DEF RedisKeyed, Clean
  <2> QED BY <2>2, <2>3, <2>4, <2>5
<1>2. CASE Lookup(r)
  <2> USE <1>2 DEF Lookup, Known, Answer, Goto, TypeOK
  <2>1. Positioned' BY DEF Positioned
  <2>2. MemoryKeyed' BY DEF MemoryKeyed
  <2>3. PostgresKeyed' BY DEF PostgresKeyed
  <2>4. RedisKeyed' BY DEF RedisKeyed, Clean, Underway
  <2> QED BY <2>1, <2>2, <2>3, <2>4
<1>3. CASE Create(r)
  <2> USE <1>3 DEF Create, Known, Answer, Goto, TypeOK
  <2>1. Positioned' BY DEF Positioned
  <2>2. MemoryKeyed' BY DEF MemoryKeyed, Positioned
  <2>3. PostgresKeyed' BY DEF PostgresKeyed
  <2>4. RedisKeyed' BY DEF RedisKeyed, Clean
  <2> QED BY <2>1, <2>2, <2>3, <2>4
<1>4. CASE Record(r)
  <2> USE <1>4 DEF Record, Answer, Goto, TypeOK
  <2>1. backend = "redis" BY DEF Positioned
  <2>2. Positioned' BY DEF Positioned
  <2>3. MemoryKeyed' BY <2>1 DEF MemoryKeyed
  <2>4. PostgresKeyed' BY <2>1 DEF PostgresKeyed
  <2>5. RedisKeyed' BY DEF RedisKeyed, Clean
  <2> QED BY <2>2, <2>3, <2>4, <2>5
<1>5. CASE Hit(r)
  <2> USE <1>5 DEF Hit, Known, Answer, Goto, TypeOK
  <2>1. Positioned' BY DEF Positioned
  <2>2. MemoryKeyed' BY DEF MemoryKeyed
  <2>3. PostgresKeyed' BY DEF PostgresKeyed, Positioned
  <2>4. RedisKeyed' BY DEF RedisKeyed, Clean
  <2> QED BY <2>1, <2>2, <2>3, <2>4
<1>6. CASE Erase(r)
  <2> USE <1>6 DEF Erase, TypeOK
  <2>1. Positioned' BY DEF Positioned
  <2>2. MemoryKeyed' BY DEF MemoryKeyed
  <2>3. PostgresKeyed' BY DEF PostgresKeyed
  <2>4. RedisKeyed' BY DEF RedisKeyed, Clean
  <2> QED BY <2>1, <2>2, <2>3, <2>4
<1> QED BY <1>1, <1>2, <1>3, <1>4, <1>5, <1>6

\* Starting, beating, sweeping and ending keep the invariant of the servers.
LEMMA ServerStepServerInv ==
    ASSUME IInv, ServerNext
    PROVE  ServerInv'
<1> USE RegistryAssumption DEF IInv, TypeOK, ServerInv, RunningIsListed, RegisterServer, UnregisterServer
<1>1. CASE Tick BY <1>1 DEF Tick
<1>2. ASSUME NEW n \in Nodes, Start(n) PROVE ServerInv' BY <1>2 DEF Start
<1>3. ASSUME NEW n \in Nodes, ServerStep(n) PROVE ServerInv'
  <2>1. CASE Heartbeat(n) BY <2>1 DEF Heartbeat, LoopIdle
  <2>2. CASE HeartbeatGet(n) BY <2>2 DEF HeartbeatGet, LoopIdle
  <2>3. CASE HeartbeatSet(n) BY <2>3 DEF HeartbeatSet
  <2>4. CASE Unregister(n) BY <2>4 DEF Unregister
  <2> QED BY <1>3, <2>1, <2>2, <2>3, <2>4 DEF ServerStep
<1>4. ASSUME NEW n \in Nodes, Sweep(n) PROVE ServerInv' BY <1>4 DEF Sweep, Expired
<1>5. ASSUME NEW n \in Nodes, Crash(n) \/ Stop(n) PROVE ServerInv'
  BY <1>5 DEF Crash, Stop, Ends
<1> QED BY <1>1, <1>2, <1>3, <1>4, <1>5 DEF ServerNext

-----------------------------------------------------------------------------

\* The invariant is inductive.
LEMMA StepIInv == IInv /\ [Next]_vars => IInv'
<1> SUFFICES ASSUME IInv, [Next]_vars PROVE IInv' OBVIOUS
<1>1. CASE KeyNext
  <2>1. PICK r \in Requests : Serve(r) \/ Lookup(r) \/ Create(r) \/ Record(r) \/ Hit(r) \/ Erase(r)
    BY <1>1 DEF KeyNext
  <2>2. UNCHANGED <<backend, serverVars>> BY <1>1 DEF KeyNext
  <2>3. TypeOK' BY <2>1, <2>2, KeyStepTypes
  <2>4. KeyInv' BY <2>1, <2>2, <2>3, KeyStepKeyInv
  <2>5. ServerInv' BY <2>2 DEF IInv, ServerInv, RunningIsListed, serverVars
  <2> QED BY <2>3, <2>4, <2>5 DEF IInv
<1>2. CASE ServerNext
  <2>1. UNCHANGED <<backend, keyVars>> BY <1>2 DEF ServerNext
  <2>2. KeyInv'
    BY <2>1 DEF IInv, KeyInv, Positioned, MemoryKeyed, PostgresKeyed, RedisKeyed, Clean, keyVars
  <2> QED BY <1>2, <2>2, ServerStepTypes, ServerStepServerInv DEF IInv
<1>3. CASE UNCHANGED vars
  BY <1>3 DEF IInv, TypeOK, KeyInv, ServerInv, Positioned, MemoryKeyed, PostgresKeyed, RedisKeyed,
              Clean, RunningIsListed, vars, keyVars, serverVars
<1> QED BY <1>1, <1>2, <1>3 DEF Next

\* It holds in every state of a behaviour.
LEMMA Invariance == Spec => []IInv
  BY InitIInv, StepIInv, PTL DEF Spec

\* Every variable keeps its type, and a request has an answer exactly when it
\* has been answered.
THEOREM RegistryTypeCorrect == Spec => []TypeOK
<1>1. IInv => TypeOK BY DEF IInv
<1> QED BY <1>1, Invariance, PTL

\* EnqueueIdempotent never leaves two jobs under one key on memory and on
\* PostgreSQL, nor on Redis for a key whose requests were undisturbed.
THEOREM KeysNameOneJob == Spec => []OneJobPerKey
<1>1. IInv => OneJobPerKey
  BY RegistryAssumption
     DEF IInv, TypeOK, KeyInv, MemoryKeyed, PostgresKeyed, RedisKeyed, Clean, OneJobPerKey
<1> QED BY <1>1, Invariance, PTL

\* handleEnqueue answers a repeated key with the same job ID, up to the stated
\* exceptions, and that also when the repeated request lost its answer.
THEOREM RepeatsAgree == Spec => []SameKeySameJob
<1>1. ASSUME IInv PROVE SameKeySameJob
  <2> SUFFICES ASSUME NEW r \in Requests, NEW s \in Requests, KeyOf[r] = KeyOf[s],
                      NEW id \in Named(r), NEW other \in Named(s)
               PROVE  \/ id = other
                      \/ backend = "redis" /\ KeyOf[r] \in disturbed
                      \/ backend = "postgres" /\ (id \in erased \/ other \in erased)
    BY DEF SameKeySameJob
  <2> USE <1>1, RegistryAssumption DEF IInv, TypeOK, KeyInv, Named
  <2>1. CASE backend = "memory" BY <2>1 DEF MemoryKeyed, Positioned
  <2>2. CASE backend = "postgres"
    <3>1. id \in rows \cup erased /\ KeyOf[id] = KeyOf[r] BY <2>2 DEF PostgresKeyed
    <3>2. other \in rows \cup erased /\ KeyOf[other] = KeyOf[s] BY <2>2 DEF PostgresKeyed
    <3> QED BY <2>2, <3>1, <3>2 DEF PostgresKeyed
  <2>3. CASE backend = "redis" BY <2>3 DEF RedisKeyed, Clean
  <2> QED BY <2>1, <2>2, <2>3
<1> QED BY <1>1, Invariance, PTL

\* staleServerSweep takes no running process from the list, except one that came
\* up under its hands.
THEOREM RunningStaysListed == Spec => []RunningIsListed
<1>1. IInv => RunningIsListed BY DEF IInv, ServerInv
<1> QED BY <1>1, Invariance, PTL

=============================================================================
