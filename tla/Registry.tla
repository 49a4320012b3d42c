------------------------------- MODULE Registry -------------------------------
(***************************************************************************)
(* Two small registries that every backend keeps beside the jobs: which    *)
(* job an Idempotency-Key has created, and which servers are alive.  A     *)
(* method of the memory backend is one step under its mutex, a method of   *)
(* the others one step per statement, script or pipeline.                  *)
(*                                                                         *)
(* The ID of a job is the request that creates it.  handleBatchEnqueue     *)
(* makes one such request for each of its jobs, with the key key:index.    *)
(***************************************************************************)
EXTENDS Integers, FiniteSets

CONSTANTS
    Requests,       \* enqueue requests that carry an Idempotency-Key
    Keys,           \* the values of that header
    KeyOf,          \* the key of a request
    Nodes,          \* gfire processes, by server ID
    UnregisterAge,  \* ServerHeartbeatTTL * 3, in heartbeat intervals
    MaxMishaps,     \* bound on lost connections, done contexts, crashes and stops
    NoJob

ASSUME RegistryAssumption ==
    /\ KeyOf \in [Requests -> Keys]
    /\ UnregisterAge \in Nat \ {0}
    /\ MaxMishaps \in Nat
    /\ NoJob \notin Requests

VARIABLES
    backend,    \* the storage driver the processes were started with
    mishaps     \* mishaps so far

VARIABLES
    at,         \* where each request is in EnqueueIdempotent
    answer,     \* the job ID a request was answered with
    rows,       \* jobs that exist
    erased,     \* jobs the retention sweep has erased
    keys,       \* Storage.idempotency (memory), the keys idempotency:<key> (Redis)
    disturbed   \* keys with two requests under way at once, or one hit by a mishap

VARIABLES
    up,         \* processes that run
    listed,     \* servers with an entry
    age,        \* heartbeat intervals since LastHeartbeat
    beaten,     \* processes that have sent the heartbeat of this interval
    reading,    \* Heartbeat on Redis, between HGET and the pipeline
    verdict,    \* staleServerSweep: servers still to be unregistered, per process
    late        \* processes that came up while a sweep held a verdict on their ID

keyVars == <<at, answer, rows, erased, keys, disturbed>>
serverVars == <<up, listed, age, beaten, reading, verdict, late>>
vars == <<backend, mishaps, keyVars, serverVars>>

Positions == {"new", "missed", "created", "done", "failed"}

TypeOK ==
    /\ backend \in {"memory", "postgres", "redis"}
    /\ mishaps \in 0..MaxMishaps
    /\ at \in [Requests -> Positions]
    /\ answer \in [Requests -> Requests \cup {NoJob}]
    /\ \A r \in Requests : answer[r] # NoJob <=> at[r] = "done"
    /\ rows \subseteq Requests
    /\ erased \subseteq Requests
    /\ keys \in [Keys -> Requests \cup {NoJob}]
    /\ disturbed \subseteq Keys
    /\ up \subseteq Nodes
    /\ listed \subseteq Nodes
    /\ age \in [Nodes -> 0..(UnregisterAge + 1)]
    /\ beaten \subseteq Nodes
    /\ reading \subseteq Nodes
    /\ verdict \in [Nodes -> SUBSET Nodes]
    /\ late \subseteq Nodes

Init ==
    /\ backend \in {"memory", "postgres", "redis"}
    /\ mishaps = 0
    /\ at = [r \in Requests |-> "new"]
    /\ answer = [r \in Requests |-> NoJob]
    /\ rows = {}
    /\ erased = {}
    /\ keys = [k \in Keys |-> NoJob]
    /\ disturbed = {}
    /\ up = {}
    /\ listed = {}
    /\ age = [n \in Nodes |-> 0]
    /\ beaten = {}
    /\ reading = {}
    /\ verdict = [n \in Nodes |-> {}]
    /\ late = {}

Mishap ==
    /\ mishaps < MaxMishaps
    /\ mishaps' = mishaps + 1

-----------------------------------------------------------------------------
(* EnqueueIdempotent *)

Goto(r, position) == at' = [at EXCEPT ![r] = position]

\* 201 with the ID of job id.
Answer(r, id) ==
    /\ Goto(r, "done")
    /\ answer' = [answer EXCEPT ![r] = id]

Underway(k) == \E r \in Requests : KeyOf[r] = k /\ at[r] \in {"missed", "created"}

\* memory: look up, create and record under the mutex.
Serve(r) ==
    /\ backend = "memory"
    /\ at[r] = "new"
    /\ IF keys[KeyOf[r]] # NoJob
         THEN Answer(r, keys[KeyOf[r]]) /\ UNCHANGED <<rows, keys>>
         ELSE /\ Answer(r, r)
              /\ rows' = rows \cup {r}
              /\ keys' = [keys EXCEPT ![KeyOf[r]] = r]
    /\ UNCHANGED <<erased, disturbed, mishaps>>

\* Faulty variant: a miss of GET is not told from a value.
KnownOrMissing(k) ==
    IF backend = "postgres" THEN {id \in rows : KeyOf[id] = k} ELSE {keys[k]}

\* What SELECT (PostgreSQL) or GET (Redis) finds.
Known(k) ==
    IF backend = "postgres" THEN {id \in rows : KeyOf[id] = k} ELSE {keys[k]} \ {NoJob}

Lookup(r) ==
    /\ backend # "memory"
    /\ at[r] = "new"
    /\ \/ \E id \in Known(KeyOf[r]) : Answer(r, id) /\ UNCHANGED disturbed
       \/ /\ Known(KeyOf[r]) = {}
          /\ Goto(r, "missed")
          /\ disturbed' = IF Underway(KeyOf[r]) THEN disturbed \cup {KeyOf[r]} ELSE disturbed
          /\ UNCHANGED answer
    /\ UNCHANGED <<rows, erased, keys, mishaps>>

\* Faulty variant: the column idempotency_key has no unique index.
CreateNotUnique(r) ==
    /\ at[r] = "missed"
    /\ rows' = rows \cup {r}
    /\ IF backend = "redis" THEN Goto(r, "created") /\ UNCHANGED answer ELSE Answer(r, r)
    /\ UNCHANGED <<erased, keys, disturbed, mishaps>>

\* The INSERT, which the unique index refuses for a key in use (500), or the
\* Enqueue of Redis, which refuses nothing.
Create(r) ==
    /\ at[r] = "missed"
    /\ IF backend = "postgres" /\ Known(KeyOf[r]) # {}
         THEN Goto(r, "failed") /\ UNCHANGED <<answer, rows>>
         ELSE /\ rows' = rows \cup {r}
              /\ IF backend = "redis" THEN Goto(r, "created") /\ UNCHANGED answer
                                      ELSE Answer(r, r)
    /\ UNCHANGED <<erased, keys, disturbed, mishaps>>

\* Faulty variant: the key is never set.
RecordNothing(r) ==
    /\ at[r] = "created"
    /\ Answer(r, r)
    /\ UNCHANGED <<rows, erased, keys, disturbed, mishaps>>

\* Redis: SET, whoever holds the key by now.
Record(r) ==
    /\ at[r] = "created"
    /\ keys' = [keys EXCEPT ![KeyOf[r]] = r]
    /\ Answer(r, r)
    /\ UNCHANGED <<rows, erased, disturbed, mishaps>>

\* A connection breaks, the client goes away or the process dies.  A lookup
\* that fails counts as a miss; a SET that fails is ignored.
Hit(r) ==
    /\ Mishap
    /\ backend # "memory"
    /\ disturbed' = disturbed \cup {KeyOf[r]}
    /\ \/ at[r] = "new" /\ Goto(r, "missed") /\ UNCHANGED <<answer, rows>>
       \/ at[r] = "missed" /\ Goto(r, "failed") /\ UNCHANGED <<answer, rows>>
       \/ at[r] = "created" /\ Goto(r, "failed") /\ UNCHANGED <<answer, rows>>
       \/ at[r] = "created" /\ Answer(r, r) /\ UNCHANGED rows
       \/ /\ at[r] = "missed"  \* the answer to the INSERT or the pipeline is lost
          /\ backend = "postgres" => Known(KeyOf[r]) = {}
          /\ rows' = rows \cup {r}
          /\ Goto(r, "failed")
          /\ UNCHANGED answer
    /\ UNCHANGED <<erased, keys>>

\* RemoveExpired, long after the request: a row takes its key with it, a map
\* entry or a Redis key stays.
Erase(id) ==
    /\ id \in rows
    /\ ~Underway(KeyOf[id])
    /\ rows' = rows \ {id}
    /\ erased' = erased \cup {id}
    /\ UNCHANGED <<at, answer, keys, disturbed, mishaps>>

KeyNext ==
    /\ \E r \in Requests :
          Serve(r) \/ Lookup(r) \/ Create(r) \/ Record(r) \/ Hit(r) \/ Erase(r)
    /\ UNCHANGED <<backend, serverVars>>

-----------------------------------------------------------------------------
(* Servers.  Heartbeat and staleServerSweep run in one goroutine,           *)
(* coordinatorLoop, so a process is in at most one of them.                 *)

LoopIdle(n) == n \in up /\ n \notin reading /\ verdict[n] = {}

RegisterServer(n) ==
    /\ listed' = listed \cup {n}
    /\ age' = [age EXCEPT ![n] = 0]

UnregisterServer(n) == listed' = listed \ {n}

\* Engine.Start.  The memory backend lives and dies with its one process, which
\* is not stopped here.
Start(n) ==
    /\ n \notin up
    /\ backend = "memory" => up = {}
    /\ RegisterServer(n)
    /\ up' = up \cup {n}
    /\ beaten' = beaten \cup {n}
    /\ late' = IF \E m \in Nodes : n \in verdict[m] THEN late \cup {n} ELSE late
    /\ UNCHANGED <<reading, verdict, mishaps>>

\* coordinatorTick: a heartbeat for a server without an entry is refused with
\* ErrNotFound and logged; nothing registers it again.
Heartbeat(n) ==
    /\ backend # "redis"
    /\ LoopIdle(n)
    /\ n \notin beaten
    /\ age' = IF n \in listed THEN [age EXCEPT ![n] = 0] ELSE age
    /\ beaten' = beaten \cup {n}
    /\ UNCHANGED <<up, listed, reading, verdict, late, mishaps>>

\* Redis: read the entry ...
HeartbeatGet(n) ==
    /\ backend = "redis"
    /\ LoopIdle(n)
    /\ n \notin beaten
    /\ IF n \in listed THEN reading' = reading \cup {n} /\ UNCHANGED beaten
                       ELSE beaten' = beaten \cup {n} /\ UNCHANGED reading
    /\ UNCHANGED <<up, listed, age, verdict, late, mishaps>>

\* ... and write it back, even if it has been removed meanwhile.
HeartbeatSet(n) ==
    /\ n \in reading
    /\ RegisterServer(n)
    /\ reading' = reading \ {n}
    /\ beaten' = beaten \cup {n}
    /\ UNCHANGED <<up, verdict, late, mishaps>>

\* Faulty variants: a server is unregistered a heartbeat too early, or only by
\* itself.
ExpiredTooEarly(n) == {m \in listed : age[m] > 0}
ExpiredOwn(n) == {m \in listed : m = n /\ age[m] > UnregisterAge}

\* staleServerSweep: the servers past three times the TTL ...
Expired(n) == {m \in listed : age[m] > UnregisterAge}

Sweep(n) ==
    /\ LoopIdle(n)
    /\ Expired(n) # {}
    /\ verdict' = [verdict EXCEPT ![n] = Expired(n)]
    /\ UNCHANGED <<up, listed, age, beaten, reading, late, mishaps>>

\* ... are unregistered one after another, whatever their heartbeat is by now.
Unregister(n) ==
    /\ \E m \in verdict[n] :
          /\ UnregisterServer(m)
          /\ verdict' = [verdict EXCEPT ![n] = @ \ {m}]
    /\ UNCHANGED <<up, age, beaten, reading, late, mishaps>>

\* A heartbeat interval passes, in which every process has sent its heartbeat.
Tick ==
    /\ up \subseteq beaten
    /\ beaten' = {}
    /\ age' = [n \in Nodes |-> IF age[n] <= UnregisterAge THEN age[n] + 1 ELSE age[n]]
    /\ UNCHANGED <<up, listed, reading, verdict, late, mishaps>>

\* The end of a process; Stop waits for coordinatorLoop and unregisters, unless
\* that last call fails.
Ends(n) ==
    /\ Mishap
    /\ backend # "memory"
    /\ n \in up
    /\ up' = up \ {n}
    /\ late' = late \ {n}
    /\ beaten' = beaten \ {n}
    /\ reading' = reading \ {n}
    /\ verdict' = [verdict EXCEPT ![n] = {}]
    /\ UNCHANGED age

Crash(n) == Ends(n) /\ UNCHANGED listed
Stop(n) == Ends(n) /\ UnregisterServer(n)

ServerStep(n) == Heartbeat(n) \/ HeartbeatGet(n) \/ HeartbeatSet(n) \/ Unregister(n)

ServerNext ==
    /\ \/ \E n \in Nodes : Start(n) \/ ServerStep(n) \/ Sweep(n) \/ Crash(n) \/ Stop(n)
       \/ Tick
    /\ UNCHANGED <<backend, keyVars>>

-----------------------------------------------------------------------------

Next == KeyNext \/ ServerNext

Spec == Init /\ [][Next]_vars

\* Time passes, the tickers of coordinatorLoop fire, and its select, which picks
\* at random among tickers that are ready, does not pass one over for ever.
Fairness ==
    /\ WF_vars(Tick /\ UNCHANGED <<backend, keyVars>>)
    /\ \A n \in Nodes : /\ WF_vars(ServerStep(n) /\ UNCHANGED <<backend, keyVars>>)
                         /\ SF_vars(Sweep(n) /\ UNCHANGED <<backend, keyVars>>)

FairSpec == Spec /\ Fairness

-----------------------------------------------------------------------------

\* At any time an Idempotency-Key names at most one job that exists, however
\* requests with that key race, fail and are repeated; on Redis only as long as
\* they neither overlap nor are hit by a mishap.
OneJobPerKey ==
    \A r, s \in rows :
        KeyOf[r] = KeyOf[s] => r = s \/ (backend = "redis" /\ KeyOf[r] \in disturbed)

\* The job a request stands for: the one its answer names, or the one it has
\* created although its answer was lost.
Named(r) ==
    {id \in Requests : \/ at[r] = "done" /\ id = answer[r]
                       \/ at[r] = "failed" /\ id = r /\ id \in rows \cup erased}

\* Two requests with one key stand for the same job, a request whose answer was
\* lost included: the client that repeats it is given the job it created.  The
\* exceptions are the one above and, on PostgreSQL, that of a job whose row, and
\* with it the key, has been erased.
SameKeySameJob ==
    \A r, s \in Requests : KeyOf[r] = KeyOf[s] =>
        \A id \in Named(r), other \in Named(s) :
            \/ id = other
            \/ backend = "redis" /\ KeyOf[r] \in disturbed
            \/ backend = "postgres" /\ (id \in erased \/ other \in erased)

\* What the documents say of the header Idempotency-Key, without exception:
\* requests with the same key stand for the same job, so a client may repeat a
\* request.  EnqueueIdempotent on Redis, where GET, Enqueue and SET are three
\* commands, does not keep this.
KeyNamesOneJob ==
    \A r, s \in Requests : KeyOf[r] = KeyOf[s] =>
        \A id \in Named(r), other \in Named(s) : id = other

\* A process that keeps its heartbeat is listed as a server.  The one way out of
\* the list is a sweep that had judged its predecessor before it came up; then
\* no heartbeat brings it back.
RunningIsListed == up \subseteq listed \cup late

\* A process that is gone for good leaves the list, as long as another one runs.
DeadServersLeave ==
    \A n, m \in Nodes :
        <>[](n \notin up /\ m \in up) => <>[](n \notin listed)

=============================================================================
