----------------------------- MODULE Recurring ------------------------------
(***************************************************************************)
(* Recurring jobs: definitions in the store, the cron entries that every   *)
(* node keeps for the enabled ones, and the callbacks that a tick starts   *)
(* on all of these nodes, which compete for a lock with a TTL.             *)
(*                                                                         *)
(* Ticks of one definition are further apart (at least 10s, the timeout of *)
(* a callback) than its callbacks are long.  What a definition says to run *)
(* is left out, and so is the fact that reload keeps an entry whose        *)
(* definition has changed.                                                 *)
(***************************************************************************)
EXTENDS FiniteSets, Integers

CONSTANTS
    Nodes,       \* gfire processes on one store
    Defs,        \* IDs of recurring definitions
    NoNode,      \* the owner of a lock that nobody holds
    MaxApiOps,   \* bound on REST requests
    MaxMishaps   \* bound on crashes, stops, timeouts, faults and clock skew

ASSUME RecurringAssumption ==
    /\ IsFiniteSet(Nodes)
    /\ NoNode \notin Nodes
    /\ MaxApiOps \in Nat
    /\ MaxMishaps \in Nat

VARIABLES
    \* The store.
    defs,     \* "absent", "enabled" or "disabled"
    lastRun,  \* definitions with a last_run
    lock,     \* the locks row of a definition: its owner, and whether expires_at has passed
    \* The nodes.
    up,       \* nodes that run
    entries,  \* the cron entries of a node
    calls,    \* callbacks and trigger requests under way
    \* What has happened.
    served,   \* jobs enqueued by the callbacks of the last tick
    spoilt,   \* definitions whose last tick met a mishap or a lock left behind
    ran,      \* definitions that have been enqueued
    apiOps, mishaps

storeVars == <<defs, lastRun, lock>>
nodeVars == <<up, entries>>
vars == <<storeVars, nodeVars, calls, served, spoilt, ran, apiOps, mishaps>>

Free == [owner |-> NoNode, expired |-> FALSE]

\* A run of a fireFunc callback or of handleTriggerRecurring.  live: its context
\* is not done.  lapsed: its lease ran out early, by the clock of the store.
Call == [node : Nodes, def : Defs, by : {"cron", "trigger"},
         pc : {"acquire", "enqueue", "update", "release"}, live : BOOLEAN, lapsed : BOOLEAN]

NewCall(n, d, by, at) ==
    [node |-> n, def |-> d, by |-> by, pc |-> at, live |-> TRUE, lapsed |-> FALSE]

Callbacks(d) == {c \in calls : c.def = d /\ c.by = "cron"}

Init ==
    /\ defs = [d \in Defs |-> "absent"]
    /\ lastRun = {}
    /\ lock = [d \in Defs |-> Free]
    /\ up = Nodes
    /\ entries = [n \in Nodes |-> {}]
    /\ calls = {}
    /\ served = [d \in Defs |-> 0]
    /\ spoilt = Defs
    /\ ran = {}
    /\ apiOps = 0
    /\ mishaps = 0

-----------------------------------------------------------------------------
(* The store *)

Enabled == {d \in Defs : defs[d] = "enabled"}

UpsertRecurring(d, status) ==
    /\ defs' = [defs EXCEPT ![d] = status]
    /\ lastRun' = lastRun \ {d}

RemoveRecurring(d) ==
    /\ defs' = [defs EXCEPT ![d] = "absent"]
    /\ lastRun' = lastRun \ {d}

UpdateRecurringLastRun(d) == lastRun' = IF defs[d] = "absent" THEN lastRun ELSE lastRun \cup {d}

\* Faulty variant: the expired row is not deleted.
AcquirableIgnoringExpiry(d) == lock[d].owner = NoNode

\* The row in the way is deleted if it has expired; a new row gets a new owner.
Acquirable(d) == lock[d].owner = NoNode \/ lock[d].expired

AcquireLock(d, n) == lock' = [lock EXCEPT ![d] = [owner |-> n, expired |-> FALSE]]

\* Faulty variant: the owner is not compared.
ReleaseAnyOwner(c) == lock' = [lock EXCEPT ![c.def] = Free]

Release(c) ==
    lock' = IF lock[c.def].owner = c.node THEN [lock EXCEPT ![c.def] = Free] ELSE lock

-----------------------------------------------------------------------------
(* Callbacks and triggers *)

Become(c, new) == calls' = (calls \ {c}) \cup {new}
Goto(c, label) == Become(c, [c EXCEPT !.pc = label])
End(c) == calls' = calls \ {c}

\* fireFunc: take the lock, or leave the tick to the node that has it.
Acquire(c) ==
    /\ c.pc = "acquire"
    /\ IF c.live /\ Acquirable(c.def)
         THEN AcquireLock(c.def, c.node) /\ Goto(c, "enqueue")
         ELSE UNCHANGED lock /\ End(c)
    /\ UNCHANGED <<defs, lastRun, nodeVars, served, spoilt, ran, apiOps, mishaps>>

\* The new job is in the store.
Enqueued(c) ==
    /\ ran' = ran \cup {c.def}
    /\ served' = IF c.by = "cron" THEN [served EXCEPT ![c.def] = @ + 1] ELSE served

\* Faulty variants: the error is ignored, or the call repeated.
AfterFailedEnqueueUpdates(c) == Goto(c, "update")
AfterFailedEnqueueRetries(c) == Goto(c, "enqueue")

\* A failed Enqueue returns from the callback, through the deferred Release, or
\* from the request.
AfterFailedEnqueue(c) == IF c.by = "cron" THEN Goto(c, "release") ELSE End(c)

Enqueue(c) ==
    /\ c.pc = "enqueue"
    /\ IF c.live
         THEN Enqueued(c) /\ Goto(c, "update")
         ELSE UNCHANGED <<ran, served>> /\ AfterFailedEnqueue(c)
    /\ UNCHANGED <<storeVars, nodeVars, spoilt, apiOps, mishaps>>

\* An error of UpdateRecurringLastRun is only logged, or ignored.
AfterUpdate(c) == IF c.by = "cron" THEN Goto(c, "release") ELSE End(c)

Update(c) ==
    /\ c.pc = "update"
    /\ IF c.live THEN UpdateRecurringLastRun(c.def) ELSE UNCHANGED lastRun
    /\ AfterUpdate(c)
    /\ UNCHANGED <<defs, lock, nodeVars, served, spoilt, ran, apiOps, mishaps>>

\* The deferred Release has the context of the callback.
ReleaseStep(c) ==
    /\ c.pc = "release"
    /\ IF c.live THEN Release(c) ELSE UNCHANGED lock
    /\ End(c)
    /\ UNCHANGED <<defs, lastRun, nodeVars, served, spoilt, ran, apiOps, mishaps>>

CallStep(c) == Acquire(c) \/ Enqueue(c) \/ Update(c) \/ ReleaseStep(c)

-----------------------------------------------------------------------------
(* recurringLoop *)

\* A tick of d: cron starts the callback on every node with an entry for d.
Tick(d) ==
    /\ Callbacks(d) = {}
    /\ \E n \in up : d \in entries[n]
    /\ calls' = calls \cup {NewCall(n, d, "cron", "acquire") : n \in {m \in up : d \in entries[m]}}
    /\ served' = [served EXCEPT ![d] = 0]
    /\ spoilt' = IF lock[d].owner # NoNode /\ ~lock[d].expired THEN spoilt \cup {d} ELSE spoilt \ {d}
    /\ UNCHANGED <<storeVars, nodeVars, ran, apiOps, mishaps>>

\* Faulty variant: only what is gone is unscheduled.
ReloadedKeepsDisabled(n) == (entries[n] \cap {d \in Defs : defs[d] # "absent"}) \cup Enabled

\* reload: schedule what is new and enabled, unschedule what is disabled or gone.
Reloaded(n) == (entries[n] \cap Enabled) \cup (Enabled \ entries[n])

Reload(n) ==
    /\ n \in up
    /\ entries' = [entries EXCEPT ![n] = Reloaded(n)]
    /\ UNCHANGED <<storeVars, up, calls, served, spoilt, ran, apiOps, mishaps>>

-----------------------------------------------------------------------------
(* REST handlers *)

Request ==
    /\ up # {}
    /\ apiOps < MaxApiOps
    /\ apiOps' = apiOps + 1
    /\ UNCHANGED <<lock, nodeVars, served, spoilt, ran, mishaps>>

handleCreateRecurring(d, status) ==
    /\ Request
    /\ UpsertRecurring(d, status)
    /\ UNCHANGED calls

handleDeleteRecurring(d) ==
    /\ Request
    /\ RemoveRecurring(d)
    /\ UNCHANGED calls

\* Up to the definition being found, whether or not it is enabled.
handleTriggerRecurring(n, d) ==
    /\ Request
    /\ n \in up
    /\ defs[d] # "absent"
    /\ calls' = calls \cup {NewCall(n, d, "trigger", "enqueue")}
    /\ UNCHANGED <<defs, lastRun>>

-----------------------------------------------------------------------------
(* Time and mishaps *)

Mishap ==
    /\ mishaps < MaxMishaps
    /\ mishaps' = mishaps + 1
    /\ UNCHANGED apiOps

\* The TTL (30s) outlasts the context of the holder (10s) ...
Holds(c) == lock[c.def].owner = c.node /\ c.by = "cron" /\ c.pc # "acquire"

Expire(d) ==
    /\ lock[d].owner # NoNode
    /\ ~lock[d].expired
    /\ ~\E c \in Callbacks(d) : Holds(c) /\ c.live
    /\ lock' = [lock EXCEPT ![d].expired = TRUE]
    /\ UNCHANGED <<defs, lastRun, nodeVars, calls, served, spoilt, ran, apiOps, mishaps>>

\* ... unless the clock of the node that set expires_at is behind that of the
\* database that compares it with now().
ExpireEarly(c) ==
    /\ Mishap
    /\ Holds(c) /\ c.live /\ ~c.lapsed
    /\ lock' = [lock EXCEPT ![c.def].expired = TRUE]
    /\ Become(c, [c EXCEPT !.lapsed = TRUE])
    /\ UNCHANGED <<defs, lastRun, nodeVars, served, spoilt, ran>>

Spoils(c) == spoilt' = IF c.by = "cron" THEN spoilt \cup {c.def} ELSE spoilt

\* The callback's 10s are over, or the client of the trigger has gone.
Timeout(c) ==
    /\ Mishap
    /\ c.live
    /\ Become(c, [c EXCEPT !.live = FALSE])
    /\ Spoils(c)
    /\ UNCHANGED <<storeVars, nodeVars, served, ran>>

\* The connection breaks under a call: nothing has been committed ...
CallFails(c) ==
    /\ Mishap
    /\ CASE c.pc = "enqueue" -> AfterFailedEnqueue(c)
         [] c.pc = "update" -> AfterUpdate(c)
         [] OTHER -> End(c)
    /\ Spoils(c)
    /\ UNCHANGED <<storeVars, nodeVars, served, ran>>

\* ... or it has, and only the acknowledgement is lost.
AckLost(c) ==
    /\ Mishap
    /\ c.live
    /\ \/ /\ c.pc = "acquire" /\ Acquirable(c.def)
          /\ AcquireLock(c.def, c.node)
          /\ End(c)
          /\ UNCHANGED <<ran, served>>
       \/ /\ c.pc = "enqueue"
          /\ Enqueued(c)
          /\ AfterFailedEnqueue(c)
          /\ UNCHANGED lock
    /\ Spoils(c)
    /\ UNCHANGED <<defs, lastRun, nodeVars>>

\* What a process that has ended leaves behind.
Gone(n) ==
    /\ calls' = {c \in calls : c.node # n}
    /\ spoilt' = spoilt \cup {c.def : c \in {x \in calls : x.node = n /\ x.by = "cron"}}

Crash(n) ==
    /\ Mishap
    /\ n \in up
    /\ up' = up \ {n}
    /\ entries' = [entries EXCEPT ![n] = {}]
    /\ Gone(n)
    /\ UNCHANGED <<storeVars, served, ran>>

\* recurringLoop stops cron and returns; callbacks go on until the process exits.
Stop(n) ==
    /\ Mishap
    /\ n \in up
    /\ up' = up \ {n}
    /\ entries' = [entries EXCEPT ![n] = {}]
    /\ UNCHANGED <<storeVars, calls, served, spoilt, ran>>

\* A new process: loadAll, unless it fails and leaves everything to reload.
Start(n) ==
    /\ n \notin up
    /\ up' = up \cup {n}
    /\ Gone(n)
    /\ \/ /\ entries' = [entries EXCEPT ![n] = Enabled]
          /\ UNCHANGED <<apiOps, mishaps>>
       \/ /\ Mishap
          /\ UNCHANGED entries
    /\ UNCHANGED <<storeVars, served, ran>>

-----------------------------------------------------------------------------

Next ==
    \/ \E c \in calls : CallStep(c) \/ ExpireEarly(c) \/ Timeout(c) \/ CallFails(c) \/ AckLost(c)
    \/ \E d \in Defs : Tick(d) \/ Expire(d) \/ handleDeleteRecurring(d)
    \/ \E d \in Defs, status \in {"enabled", "disabled"} : handleCreateRecurring(d, status)
    \/ \E n \in Nodes, d \in Defs : handleTriggerRecurring(n, d)
    \/ \E n \in Nodes : Reload(n) \/ Crash(n) \/ Stop(n) \/ Start(n)

\* Goroutines are scheduled, tickers and cron fire, the TTL passes, and a dead
\* process is started again.
Fairness ==
    /\ WF_vars(\E c \in calls : CallStep(c))
    /\ \A d \in Defs : WF_vars(Tick(d)) /\ WF_vars(Expire(d))
    /\ \A n \in Nodes : WF_vars(Reload(n)) /\ WF_vars(Start(n))

Spec == Init /\ [][Next]_vars /\ Fairness

-----------------------------------------------------------------------------

\* The types, and: no callback enqueues more than one job, whatever it is told of
\* the outcome.
TypeOK ==
    /\ defs \in [Defs -> {"absent", "enabled", "disabled"}]
    /\ lastRun \subseteq Defs
    /\ lock \in [Defs -> [owner : Nodes \cup {NoNode}, expired : BOOLEAN]]
    /\ up \subseteq Nodes
    /\ entries \in [Nodes -> SUBSET Defs]
    /\ calls \subseteq Call
    /\ served \in [Defs -> 0..Cardinality(Nodes)]
    /\ spoilt \subseteq Defs
    /\ ran \subseteq Defs
    /\ apiOps \in 0..MaxApiOps
    /\ mishaps \in 0..MaxMishaps

\* A callback that is past AcquireLock has the lock to itself for as long as its
\* lease has not run out, although a callback whose lease did run out will still
\* call Release.
LeaseExclusive ==
    \A c \in calls :
        c.by = "cron" /\ c.pc # "acquire" /\ c.live /\ ~c.lapsed =>
            lock[c.def].owner = c.node /\ ~lock[c.def].expired

\* A tick is never lost between the nodes, each taking another for the one that
\* fires: once its callbacks are over it has produced a job, unless one of them
\* met a mishap or the lock was left behind from an earlier tick.
TickServed ==
    \A d \in Defs : Callbacks(d) = {} /\ d \notin spoilt => served[d] >= 1

\* A definition shows a last_run only when it has been enqueued: the two calls
\* of a fire are in this order, and the second is skipped when the first fails.
LastRunIsReal == lastRun \subseteq ran

\* The entries of all nodes come to agree with the enabled definitions, through
\* loadAll and reload, once requests and mishaps are over.
Reconciled == <>[](up = Nodes /\ \A n \in Nodes : entries[n] = Enabled)

\* A lock that a dead node, or a callback out of time, has left behind does not
\* silence its definition: an enabled definition fires again and again.
KeepsFiring == \A d \in Defs : <>[](defs[d] = "enabled") => []<>(served[d] > 0)

\* One job per tick: "acquires a distributed lock so only one node enqueues per tick".
OncePerTick == \A d \in Defs : served[d] <= 1

=============================================================================
