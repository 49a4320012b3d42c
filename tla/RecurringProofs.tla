-------------------------- MODULE RecurringProofs ---------------------------
(***************************************************************************)
(* The lock of a recurring definition is exclusive for as long as a lease  *)
(* lasts, for any number of nodes and definitions.  What makes the claim   *)
(* inductive is that owners are unique: a node has at most one callback of *)
(* a definition at a time, so that a Release that finds its own owner in   *)
(* the row cannot be the Release of another callback.  Further theorems:   *)
(* last_run, written by the call that follows Enqueue, is real; the types  *)
(* hold, with at most one firing per node and tick; a tick is not lost.    *)
(***************************************************************************)
EXTENDS Recurring, TLAPS, FiniteSetTheorems

\* The types that the lock needs.
LockTypes ==
    /\ lock \in [Defs -> [owner : Nodes \cup {NoNode}, expired : BOOLEAN]]
    /\ calls \subseteq Call

\* A node has at most one callback of a definition under way.
OwnersUnique ==
    \A c, e \in calls :
        c.by = "cron" /\ e.by = "cron" /\ c.def = e.def /\ c.node = e.node => c = e

\* The inductive invariant of the lock.
LeaseInv == LockTypes /\ OwnersUnique /\ LeaseExclusive

-----------------------------------------------------------------------------

\* A call that moves on keeps its identity; one that was past AcquireLock stays
\* past it, and neither regains its context nor its lease.
MovesOn(c, new) ==
    /\ new \in Call
    /\ new.node = c.node /\ new.def = c.def /\ new.by = c.by
    /\ c.pc # "acquire" \/ c.by = "trigger"
    /\ new.live => c.live
    /\ ~new.lapsed => ~c.lapsed

\* Moving on and ending leave the lock with those who have it.
LEMMA CallsProgress ==
    ASSUME LeaseInv, NEW c \in calls, UNCHANGED lock
    PROVE  /\ \A new : MovesOn(c, new) /\ Become(c, new) => LeaseInv'
           /\ End(c) => LeaseInv'
  <1> USE DEF LeaseInv, LockTypes, OwnersUnique, LeaseExclusive
  <1>1. ASSUME NEW new, MovesOn(c, new), Become(c, new) PROVE LeaseInv'
    <2>0. calls' = (calls \ {c}) \cup {new} /\ c \in Call
      BY <1>1 DEF Become
    <2>1. LockTypes'
      BY <1>1, <2>0 DEF MovesOn
    <2>2. OwnersUnique'
      BY <1>1, <2>0 DEF MovesOn
    <2>3. LeaseExclusive'
      BY <1>1, <2>0 DEF MovesOn, Call
    <2> QED
      BY <2>1, <2>2, <2>3
  <1>2. ASSUME End(c) PROVE LeaseInv'
    BY <1>2 DEF End
  <1> QED
    BY <1>1, <1>2

\* What a call does next is one of these moves.
LEMMA CallsMove ==
    ASSUME LeaseInv, NEW c \in calls, c.pc # "acquire", UNCHANGED lock
    PROVE  /\ \A label \in {"update", "release"} : Goto(c, label) => LeaseInv'
           /\ AfterFailedEnqueue(c) => LeaseInv'
           /\ AfterUpdate(c) => LeaseInv'
  <1>0. c \in Call
    BY DEF LeaseInv, LockTypes
  <1>1. ASSUME NEW label \in {"update", "release"}, Goto(c, label) PROVE LeaseInv'
    <2>1. MovesOn(c, [c EXCEPT !.pc = label])
      BY <1>0 DEF MovesOn, Call
    <2> QED
      BY <1>1, <2>1, CallsProgress DEF Goto
  <1> QED
    BY <1>1, CallsProgress DEF AfterFailedEnqueue, AfterUpdate

\* AcquireLock succeeds only when nobody's lease is left.
LEMMA AcquireExclusive ==
    ASSUME LeaseInv, NEW c \in calls, c.by = "cron", c.pc = "acquire", c.live,
           Acquirable(c.def), AcquireLock(c.def, c.node)
    PROVE  /\ Goto(c, "enqueue") => LeaseInv'
           /\ End(c) => LeaseInv'
  <1> USE DEF LeaseInv, LockTypes, OwnersUnique
  <1>0. c \in Call /\ c.def \in Defs /\ c.node \in Nodes
    BY DEF Call
  <1>1. /\ lock' \in [Defs -> [owner : Nodes \cup {NoNode}, expired : BOOLEAN]]
        /\ lock'[c.def] = [owner |-> c.node, expired |-> FALSE]
        /\ \A d \in Defs : d # c.def => lock'[d] = lock[d]
    BY <1>0 DEF AcquireLock
  <1>2. \A e \in calls : e.by = "cron" /\ e.pc # "acquire" /\ e.live /\ ~e.lapsed => e.def # c.def
    BY <1>0, RecurringAssumption DEF Acquirable, LeaseExclusive, Call
  <1>3. ASSUME Goto(c, "enqueue") PROVE LeaseInv'
    <2> DEFINE new == [c EXCEPT !.pc = "enqueue"]
    <2>1. /\ new \in Call
          /\ new.node = c.node /\ new.def = c.def /\ new.by = c.by
      BY <1>0 DEF Call
    <2>2. calls' = (calls \ {c}) \cup {new}
      BY <1>3 DEF Goto, Become
    <2> HIDE DEF new
    <2>3. LockTypes' /\ OwnersUnique'
      BY <1>1, <2>1, <2>2
    <2>4. LeaseExclusive'
      BY <1>1, <1>2, <2>1, <2>2 DEF LeaseExclusive, Call
    <2> QED
      BY <2>3, <2>4
  <1>4. ASSUME End(c) PROVE LeaseInv'
    BY <1>1, <1>2, <1>4 DEF LeaseExclusive, End, Call
  <1> QED
    BY <1>3, <1>4

\* Release touches the lock only of the callback that calls it.
LEMMA ReleaseKeepsOthers ==
    ASSUME LeaseInv, NEW c \in calls, c.by = "cron", Release(c), End(c)
    PROVE  LeaseInv'
  <1> USE DEF LeaseInv, LockTypes, OwnersUnique
  <1>0. c \in Call /\ c.def \in Defs /\ c.node \in Nodes
    BY DEF Call
  <1>1. /\ lock' \in [Defs -> [owner : Nodes \cup {NoNode}, expired : BOOLEAN]]
        /\ \A d \in Defs : lock'[d] # lock[d] => d = c.def /\ lock[d].owner = c.node
    BY <1>0 DEF Release, Free
  <1>2. LockTypes' /\ OwnersUnique'
    BY <1>1 DEF End
  <1>3. LeaseExclusive'
    <2> SUFFICES ASSUME NEW e \in calls, e # c,
                        e.by = "cron", e.pc # "acquire", e.live, ~e.lapsed
                 PROVE  lock'[e.def] = lock[e.def]
      BY DEF LeaseExclusive, End
    <2>1. e.def \in Defs /\ lock[e.def].owner = e.node
      BY DEF LeaseExclusive, Call
    <2> QED
      BY <1>1, <2>1
  <1> QED
    BY <1>2, <1>3

-----------------------------------------------------------------------------

\* A trigger is never at AcquireLock or Release, and ticks are for known nodes.
TriggerShape ==
    /\ up \subseteq Nodes
    /\ \A c \in calls : c.by = "trigger" => c.pc \in {"enqueue", "update"}

\* Triggers go from Enqueue to UpdateRecurringLastRun and end there.
LEMMA TriggersKept == TriggerShape /\ LockTypes /\ [Next]_vars => TriggerShape'
  <1> SUFFICES ASSUME TriggerShape, LockTypes, [Next]_vars PROVE TriggerShape'
    OBVIOUS
  <1> USE DEF TriggerShape, LockTypes, Goto, Become, End, Call, nodeVars
  <1>1. ASSUME NEW c \in calls, CallStep(c) PROVE TriggerShape'
    BY <1>1 DEF CallStep, Acquire, Enqueue, Update, ReleaseStep, AfterFailedEnqueue, AfterUpdate
  <1>2. ASSUME NEW c \in calls, ExpireEarly(c) \/ Timeout(c) \/ CallFails(c) \/ AckLost(c)
        PROVE  TriggerShape'
    BY <1>2 DEF ExpireEarly, Timeout, CallFails, AckLost, AfterFailedEnqueue, AfterUpdate
  <1>3. ASSUME NEW d \in Defs, Tick(d) PROVE TriggerShape'
    BY <1>3 DEF Tick, NewCall
  <1>4. ASSUME NEW n \in Nodes, NEW d \in Defs, handleTriggerRecurring(n, d)
        PROVE  TriggerShape'
    BY <1>4 DEF handleTriggerRecurring, Request, NewCall
  <1>5. ASSUME NEW n \in Nodes, Crash(n) \/ Start(n) PROVE TriggerShape'
    BY <1>5 DEF Crash, Start, Gone
  <1>6. CASE UNCHANGED calls /\ up' \subseteq up
    BY <1>6
  <1> QED
    BY <1>1, <1>2, <1>3, <1>4, <1>5, <1>6
    DEF Next, Expire, handleDeleteRecurring, handleCreateRecurring, Request, Reload, Stop, vars

\* Every step of a callback or trigger keeps the leases exclusive.
LEMMA CallStepLease ==
    ASSUME LeaseInv, TriggerShape, NEW c \in calls, CallStep(c)
    PROVE  LeaseInv'
  <1>0. c \in Call /\ (c.pc \in {"acquire", "release"} => c.by = "cron")
    BY DEF LeaseInv, LockTypes, TriggerShape, Call
  <1>1. CASE Acquire(c)
    BY <1>0, <1>1, AcquireExclusive, CallsProgress DEF Acquire
  <1>2. CASE Enqueue(c)
    BY <1>2, CallsMove DEF Enqueue, storeVars
  <1>3. CASE Update(c)
    BY <1>3, CallsMove DEF Update
  <1>4. CASE ReleaseStep(c)
    BY <1>0, <1>4, ReleaseKeepsOthers, CallsProgress DEF ReleaseStep
  <1> QED
    BY <1>1, <1>2, <1>3, <1>4 DEF CallStep

\* So does every mishap of a callback, an early expiry included.
LEMMA MishapLease ==
    ASSUME LeaseInv, TriggerShape, NEW c \in calls,
           ExpireEarly(c) \/ Timeout(c) \/ CallFails(c) \/ AckLost(c)
    PROVE  LeaseInv'
  <1> USE DEF LeaseInv, LockTypes, OwnersUnique
  <1>0. /\ c \in Call /\ c.def \in Defs /\ c.node \in Nodes
        /\ c.pc \in {"acquire", "release"} => c.by = "cron"
    BY DEF TriggerShape, Call
  <1>1. CASE ExpireEarly(c)
    <2> DEFINE new == [c EXCEPT !.lapsed = TRUE]
    <2>1. /\ new \in Call /\ new.lapsed
          /\ new.node = c.node /\ new.def = c.def /\ new.by = c.by
      BY <1>0 DEF Call
    <2>2. calls' = (calls \ {c}) \cup {new}
      BY <1>1 DEF ExpireEarly, Become
    <2>3. /\ lock' \in [Defs -> [owner : Nodes \cup {NoNode}, expired : BOOLEAN]]
          /\ \A d \in Defs : d # c.def => lock'[d] = lock[d]
          /\ lock[c.def].owner = c.node /\ c.by = "cron"
      BY <1>0, <1>1 DEF ExpireEarly, Holds
    <2> HIDE DEF new
    <2>4. LockTypes' /\ OwnersUnique'
      BY <2>1, <2>2, <2>3
    <2>5. LeaseExclusive'
      <3> SUFFICES ASSUME NEW e \in calls, e # c,
                          e.by = "cron", e.pc # "acquire", e.live, ~e.lapsed
                   PROVE  lock'[e.def].owner = e.node /\ ~lock'[e.def].expired
        BY <2>1, <2>2 DEF LeaseExclusive
      <3>1. e.def \in Defs /\ lock[e.def].owner = e.node /\ ~lock[e.def].expired
        BY DEF LeaseExclusive, Call
      <3> QED
        BY <2>3, <3>1
    <2> QED
      BY <2>4, <2>5
  <1>2. CASE Timeout(c)
    <2> DEFINE new == [c EXCEPT !.live = FALSE]
    <2>1. /\ new \in Call /\ ~new.live
          /\ new.node = c.node /\ new.def = c.def /\ new.by = c.by
      BY <1>0 DEF Call
    <2>2. calls' = (calls \ {c}) \cup {new} /\ lock' = lock
      BY <1>2 DEF Timeout, Become, storeVars
    <2> HIDE DEF new
    <2> QED
      BY <2>1, <2>2 DEF LeaseExclusive
  <1>3. CASE CallFails(c)
    <2>1. lock' = lock
      BY <1>3 DEF CallFails, storeVars
    <2> QED
      BY <1>0, <1>3, <2>1, CallsMove, CallsProgress DEF CallFails
  <1>4. CASE AckLost(c)
    BY <1>0, <1>4, AcquireExclusive, CallsMove DEF AckLost
  <1> QED
    BY <1>1, <1>2, <1>3, <1>4

-----------------------------------------------------------------------------

\* A tick starts at most one callback per node, and only when none is left.
LEMMA TickLease ==
    ASSUME LeaseInv, TriggerShape, NEW d \in Defs, Tick(d)
    PROVE  LeaseInv'
  <1> USE DEF LeaseInv, LockTypes, OwnersUnique
  <1> DEFINE New == {NewCall(n, d, "cron", "acquire") : n \in {m \in up : d \in entries[m]}}
  <1>1. lock' = lock /\ calls' = calls \cup New
    BY DEF Tick, storeVars
  <1>2. \A c \in calls : ~(c.def = d /\ c.by = "cron")
    BY DEF Tick, Callbacks
  <1>3. \A c \in New : /\ c \in Call /\ c.def = d /\ c.by = "cron" /\ c.pc = "acquire"
                       /\ \A e \in New : e.node = c.node => e = c
    <2> SUFFICES ASSUME NEW n \in up, NEW m \in up
                 PROVE  LET c == NewCall(n, d, "cron", "acquire")
                            e == NewCall(m, d, "cron", "acquire")
                        IN  /\ c \in Call /\ c.def = d /\ c.by = "cron" /\ c.pc = "acquire"
                            /\ e.node = c.node => e = c
      OBVIOUS
    <2> QED
      BY DEF NewCall, Call, TriggerShape
  <1> HIDE DEF New
  <1>4. LockTypes' /\ OwnersUnique'
    BY <1>1, <1>2, <1>3
  <1>5. LeaseExclusive'
    BY <1>1, <1>3 DEF LeaseExclusive
  <1> QED
    BY <1>4, <1>5

\* A lock expires by itself only when the context of its holder is over.
LEMMA ExpireLease ==
    ASSUME LeaseInv, NEW d \in Defs, Expire(d)
    PROVE  LeaseInv'
  <1> USE DEF LeaseInv, LockTypes, OwnersUnique
  <1>1. /\ lock' \in [Defs -> [owner : Nodes \cup {NoNode}, expired : BOOLEAN]]
        /\ \A e \in Defs : e # d => lock'[e] = lock[e]
        /\ calls' = calls
    BY DEF Expire
  <1>2. \A c \in calls : c.by = "cron" /\ c.pc # "acquire" /\ c.live /\ ~c.lapsed => c.def # d
    BY DEF Expire, Holds, Callbacks, LeaseExclusive
  <1>3. LeaseExclusive'
    BY <1>1, <1>2 DEF LeaseExclusive, Call
  <1> QED
    BY <1>1, <1>3

\* The steps left over start triggers, end processes or touch no call and no lock.
LEMMA OtherLease ==
    ASSUME LeaseInv, lock' = lock,
           \/ UNCHANGED calls
           \/ \E n \in Nodes : Gone(n)
           \/ \E n \in Nodes, d \in Defs : calls' = calls \cup {NewCall(n, d, "trigger", "enqueue")}
    PROVE  LeaseInv'
  <1> USE DEF LeaseInv, LockTypes, OwnersUnique, LeaseExclusive
  <1>1. CASE UNCHANGED calls
    BY <1>1
  <1>2. ASSUME NEW n \in Nodes, Gone(n) PROVE LeaseInv'
    BY <1>2 DEF Gone
  <1>3. ASSUME NEW n \in Nodes, NEW d \in Defs,
               calls' = calls \cup {NewCall(n, d, "trigger", "enqueue")}
        PROVE  LeaseInv'
    <2> DEFINE new == NewCall(n, d, "trigger", "enqueue")
    <2>1. new \in Call /\ new.by # "cron"
      BY DEF NewCall, Call
    <2> HIDE DEF new
    <2>2. calls' = calls \cup {new}
      BY <1>3 DEF new
    <2> QED
      BY <2>1, <2>2
  <1> QED
    BY <1>1, <1>2, <1>3

\* Every step keeps the leases exclusive.
LEMMA NextLease == LeaseInv /\ TriggerShape /\ [Next]_vars => LeaseInv'
  <1> SUFFICES ASSUME LeaseInv, TriggerShape, [Next]_vars PROVE LeaseInv'
    OBVIOUS
  <1>1. ASSUME NEW c \in calls,
               CallStep(c) \/ ExpireEarly(c) \/ Timeout(c) \/ CallFails(c) \/ AckLost(c)
        PROVE  LeaseInv'
    BY <1>1, CallStepLease, MishapLease
  <1>2. ASSUME NEW d \in Defs, Tick(d) \/ Expire(d) PROVE LeaseInv'
    BY <1>2, TickLease, ExpireLease
  <1>3. ASSUME NEW d \in Defs,
               \/ handleDeleteRecurring(d)
               \/ \E status \in {"enabled", "disabled"} : handleCreateRecurring(d, status)
        PROVE  LeaseInv'
    BY <1>3, OtherLease DEF handleDeleteRecurring, handleCreateRecurring, Request
  <1>4. ASSUME NEW n \in Nodes, NEW d \in Defs, handleTriggerRecurring(n, d) PROVE LeaseInv'
    BY <1>4, OtherLease DEF handleTriggerRecurring, Request
  <1>5. ASSUME NEW n \in Nodes, Reload(n) \/ Crash(n) \/ Stop(n) \/ Start(n) PROVE LeaseInv'
    BY <1>5, OtherLease DEF Reload, Crash, Stop, Start, storeVars
  <1>6. CASE UNCHANGED vars
    BY <1>6, OtherLease DEF vars, storeVars
  <1> QED
    BY <1>1, <1>2, <1>3, <1>4, <1>5, <1>6 DEF Next

\* The lock of fireFunc is exclusive while a lease lasts: whatever crashes, times
\* out or is delivered late, a callback past AcquireLock is the owner in the row
\* until its lease runs out, on any number of nodes.
THEOREM LeasesExclude == Spec => []LeaseExclusive
  <1>1. Init => LeaseInv /\ TriggerShape
    <2> SUFFICES ASSUME Init PROVE LeaseInv /\ TriggerShape
      OBVIOUS
    <2>1. lock \in [Defs -> [owner : Nodes \cup {NoNode}, expired : BOOLEAN]]
      BY DEF Init, Free
    <2> QED
      BY <2>1 DEF Init, LeaseInv, LockTypes, OwnersUnique, LeaseExclusive, TriggerShape
  <1>2. LeaseInv /\ TriggerShape /\ [Next]_vars => LeaseInv' /\ TriggerShape'
    BY NextLease, TriggersKept DEF LeaseInv
  <1>3. LeaseInv => LeaseExclusive
    BY DEF LeaseInv
  <1> QED
    BY <1>1, <1>2, <1>3, PTL DEF Spec

-----------------------------------------------------------------------------

\* A call that is about to write last_run has enqueued its job.
UpdatesFollow == \A c \in calls : c.pc = "update" => c.def \in ran

RunInv == LastRunIsReal /\ UpdatesFollow

\* Steps that forget calls, or bring calls that have not enqueued yet.
LEMMA NoNewUpdate ==
    ASSUME RunInv, ran' = ran, lastRun' \subseteq lastRun,
           \A e \in calls' : e \in calls \/ e.pc # "update"
    PROVE  RunInv'
  BY DEF RunInv, LastRunIsReal, UpdatesFollow

\* A callback or trigger writes last_run after its Enqueue was committed, whatever
\* the client was told.
LEMMA CallRuns ==
    ASSUME RunInv, LockTypes, NEW c \in calls,
           CallStep(c) \/ ExpireEarly(c) \/ Timeout(c) \/ CallFails(c) \/ AckLost(c)
    PROVE  RunInv'
  <1>0. c \in Call /\ c.def \in Defs
    BY DEF LockTypes, Call
  <1> USE DEF RunInv, LastRunIsReal, UpdatesFollow, storeVars, Goto, Become, End
  <1>1. CASE Acquire(c)
    BY <1>0, <1>1 DEF Acquire, Call
  <1>2. CASE Enqueue(c)
    BY <1>0, <1>2 DEF Enqueue, Enqueued, AfterFailedEnqueue, Call
  <1>3. CASE Update(c)
    BY <1>0, <1>3 DEF Update, UpdateRecurringLastRun, AfterUpdate, Call
  <1>4. CASE ReleaseStep(c)
    BY <1>4 DEF ReleaseStep
  <1>5. CASE ExpireEarly(c)
    BY <1>0, <1>5 DEF ExpireEarly, Call
  <1>6. CASE Timeout(c)
    BY <1>0, <1>6 DEF Timeout, Call
  <1>7. CASE CallFails(c)
    BY <1>0, <1>7 DEF CallFails, AfterFailedEnqueue, AfterUpdate, Call
  <1>8. CASE AckLost(c)
    BY <1>0, <1>8 DEF AckLost, Enqueued, AfterFailedEnqueue, Call
  <1> QED
    BY <1>1, <1>2, <1>3, <1>4, <1>5, <1>6, <1>7, <1>8 DEF CallStep

\* Every step leaves last_run to definitions that have been enqueued.
LEMMA NextRuns == RunInv /\ LockTypes /\ [Next]_vars => RunInv'
  <1> SUFFICES ASSUME RunInv, LockTypes, [Next]_vars PROVE RunInv'
    OBVIOUS
  <1>1. ASSUME NEW c \in calls,
               CallStep(c) \/ ExpireEarly(c) \/ Timeout(c) \/ CallFails(c) \/ AckLost(c)
        PROVE  RunInv'
    BY <1>1, CallRuns
  <1>2. ASSUME NEW d \in Defs, Tick(d) PROVE RunInv'
    BY <1>2, NoNewUpdate DEF Tick, NewCall, storeVars
  <1>3. ASSUME NEW d \in Defs,
               \/ Expire(d) \/ handleDeleteRecurring(d)
               \/ \E status \in {"enabled", "disabled"} : handleCreateRecurring(d, status)
        PROVE  RunInv'
    BY <1>3, NoNewUpdate
    DEF Expire, handleDeleteRecurring, handleCreateRecurring, Request, UpsertRecurring, RemoveRecurring
  <1>4. ASSUME NEW n \in Nodes, NEW d \in Defs, handleTriggerRecurring(n, d) PROVE RunInv'
    BY <1>4, NoNewUpdate DEF handleTriggerRecurring, Request, NewCall
  <1>5. ASSUME NEW n \in Nodes, Reload(n) \/ Crash(n) \/ Stop(n) \/ Start(n) PROVE RunInv'
    BY <1>5, NoNewUpdate DEF Reload, Crash, Stop, Start, Gone, storeVars
  <1>6. CASE UNCHANGED vars
    BY <1>6, NoNewUpdate DEF vars, storeVars
  <1> QED
    BY <1>1, <1>2, <1>3, <1>4, <1>5, <1>6 DEF Next

\* fireFunc and handleTriggerRecurring show a last_run only for a definition that
\* has been enqueued, whatever fails between their two calls.
THEOREM LastRunsAreReal == Spec => []LastRunIsReal
  <1>1. Init => LeaseInv /\ TriggerShape /\ RunInv
    <2> SUFFICES ASSUME Init PROVE LeaseInv /\ TriggerShape /\ RunInv
      OBVIOUS
    <2>1. lock \in [Defs -> [owner : Nodes \cup {NoNode}, expired : BOOLEAN]]
      BY DEF Init, Free
    <2>2. LeaseInv /\ TriggerShape
      BY <2>1 DEF Init, LeaseInv, LockTypes, OwnersUnique, LeaseExclusive, TriggerShape
    <2>3. RunInv
      BY DEF Init, RunInv, LastRunIsReal, UpdatesFollow
    <2> QED
      BY <2>2, <2>3
  <1>2. /\ LeaseInv /\ TriggerShape /\ RunInv
        /\ [Next]_vars
        => LeaseInv' /\ TriggerShape' /\ RunInv'
    BY NextLease, TriggersKept, NextRuns DEF LeaseInv
  <1>3. RunInv => LastRunIsReal
    BY DEF RunInv
  <1> QED
    BY <1>1, <1>2, <1>3, PTL DEF Spec

-----------------------------------------------------------------------------
(* Ticks *)

\* Nodes whose callback of d has yet to enqueue.
Pending(d) == {n \in Nodes : \E c \in calls : /\ c.by = "cron" /\ c.def = d /\ c.node = n
                                               /\ c.pc \in {"acquire", "enqueue"}}

\* What the callbacks of a tick have enqueued and what they may still enqueue.
ServedBound ==
    /\ served \in [Defs -> Nat]
    /\ \A d \in Defs : served[d] + Cardinality(Pending(d)) <= Cardinality(Nodes)

\* While a tick is unspoilt its callbacks have their contexts, and as long as
\* none has enqueued one is about to, or one may still take the lock.
TickAlive ==
    \A d \in Defs \ spoilt :
        /\ \A c \in calls : c.by = "cron" /\ c.def = d => c.live
        /\ \/ served[d] >= 1
           \/ \E c \in calls : /\ c.by = "cron" /\ c.def = d
                               /\ c.pc = "enqueue" \/ (c.pc = "acquire" /\ Acquirable(d))

\* The variables that LockTypes and ServedBound leave out.
PlainTypes ==
    /\ defs \in [Defs -> {"absent", "enabled", "disabled"}]
    /\ lastRun \subseteq Defs
    /\ up \subseteq Nodes
    /\ entries \in [Nodes -> SUBSET Defs]
    /\ spoilt \subseteq Defs
    /\ ran \subseteq Defs
    /\ apiOps \in 0..MaxApiOps
    /\ mishaps \in 0..MaxMishaps

\* A step of a call keeps them.
LEMMA CallPlain ==
    ASSUME PlainTypes, LockTypes, NEW c \in calls,
           CallStep(c) \/ ExpireEarly(c) \/ Timeout(c) \/ CallFails(c) \/ AckLost(c)
    PROVE  PlainTypes'
  <1>0. c.def \in Defs /\ MaxMishaps \in Nat
    BY RecurringAssumption DEF LockTypes, Call
  <1> USE DEF PlainTypes, storeVars, nodeVars
  <1>1. CASE Acquire(c) \/ ReleaseStep(c)
    BY <1>1 DEF Acquire, ReleaseStep
  <1>2. CASE Enqueue(c)
    BY <1>0, <1>2 DEF Enqueue, Enqueued
  <1>3. CASE Update(c)
    BY <1>0, <1>3 DEF Update, UpdateRecurringLastRun
  <1>4. CASE ExpireEarly(c)
    BY <1>0, <1>4 DEF ExpireEarly, Mishap
  <1>5. CASE Timeout(c)
    BY <1>0, <1>5 DEF Timeout, Mishap, Spoils
  <1>6. CASE CallFails(c)
    BY <1>0, <1>6 DEF CallFails, Mishap, Spoils
  <1>7. CASE AckLost(c)
    BY <1>0, <1>7 DEF AckLost, Mishap, Spoils, Enqueued
  <1> QED
    BY <1>1, <1>2, <1>3, <1>4, <1>5, <1>6, <1>7 DEF CallStep

\* So does every other step.
LEMMA NextPlain == PlainTypes /\ LockTypes /\ [Next]_vars => PlainTypes'
  <1> SUFFICES ASSUME PlainTypes, LockTypes, [Next]_vars PROVE PlainTypes'
    OBVIOUS
  <1>0. MaxApiOps \in Nat /\ MaxMishaps \in Nat /\ \A c \in calls : c.def \in Defs
    BY RecurringAssumption DEF LockTypes, Call
  <1> USE DEF PlainTypes, storeVars, nodeVars
  <1>1. ASSUME NEW d \in Defs, Tick(d) \/ Expire(d) PROVE PlainTypes'
    BY <1>1 DEF Tick, Expire
  <1>2. ASSUME NEW d \in Defs, NEW status \in {"enabled", "disabled"},
               handleDeleteRecurring(d) \/ handleCreateRecurring(d, status)
        PROVE  PlainTypes'
    BY <1>0, <1>2 DEF handleDeleteRecurring, handleCreateRecurring, Request, UpsertRecurring, RemoveRecurring
  <1>3. ASSUME NEW n \in Nodes, NEW d \in Defs, handleTriggerRecurring(n, d) PROVE PlainTypes'
    BY <1>0, <1>3 DEF handleTriggerRecurring, Request
  <1>4. ASSUME NEW n \in Nodes, Reload(n) PROVE PlainTypes'
    BY <1>4 DEF Reload, Reloaded, Enabled
  <1>5. ASSUME NEW n \in Nodes, Crash(n) PROVE PlainTypes'
    BY <1>0, <1>5 DEF Crash, Gone, Mishap
  <1>6. ASSUME NEW n \in Nodes, Stop(n) PROVE PlainTypes'
    BY <1>0, <1>6 DEF Stop, Mishap
  <1>7. ASSUME NEW n \in Nodes, Start(n) PROVE PlainTypes'
    BY <1>0, <1>7 DEF Start, Gone, Enabled, Mishap
  <1>8. CASE UNCHANGED vars
    BY <1>8 DEF vars
  <1> QED
    BY <1>1, <1>2, <1>3, <1>4, <1>5, <1>6, <1>7, <1>8, CallPlain DEF Next

\* What a step may do to the count of a definition: leave it, start it again, or
\* add one for a node that then has no more to add.
Counts(d) ==
    \/ served'[d] = served[d] /\ Pending(d)' \subseteq Pending(d)
    \/ served'[d] = 0
    \/ /\ served'[d] = served[d] + 1
       /\ \E n \in Pending(d) : Pending(d)' \subseteq Pending(d) \ {n}

\* Counting like this stays within the number of nodes.
LEMMA CountBound ==
    ASSUME ServedBound, served' \in [Defs -> Nat], \A d \in Defs : Counts(d)
    PROVE  ServedBound'
  <1> SUFFICES ASSUME NEW d \in Defs
               PROVE  served'[d] + Cardinality(Pending(d)') <= Cardinality(Nodes)
    BY DEF ServedBound
  <1> DEFINE P == Pending(d)
             Q == Pending(d)'
             N == Cardinality(Nodes)
  <1>1. IsFiniteSet(Nodes) /\ P \subseteq Nodes /\ Q \subseteq Nodes
    BY RecurringAssumption DEF Pending
  <1>2. IsFiniteSet(P) /\ IsFiniteSet(Q)
    BY <1>1, FS_Subset
  <1>3. Cardinality(P) \in Nat /\ Cardinality(Q) \in Nat /\ N \in Nat /\ Cardinality(Q) <= N
    BY <1>1, <1>2, FS_Subset, FS_CardinalityType
  <1>4. served[d] \in Nat /\ served'[d] \in Nat /\ served[d] + Cardinality(P) <= N
    BY DEF ServedBound
  <1>5. CASE served'[d] = served[d] /\ Q \subseteq P
    <2>1. Cardinality(Q) <= Cardinality(P)
      BY <1>2, <1>5, FS_Subset
    <2> HIDE DEF P, Q, N
    <2> QED
      BY <1>3, <1>4, <1>5, <2>1 DEF P, Q, N
  <1>6. CASE served'[d] = 0
    <2> HIDE DEF P, Q, N
    <2> QED
      BY <1>3, <1>6 DEF Q, N
  <1>7. ASSUME served'[d] = served[d] + 1, NEW n \in P, Q \subseteq P \ {n}
        PROVE  served'[d] + Cardinality(Q) <= N
    <2>1. IsFiniteSet(P \ {n}) /\ Cardinality(P \ {n}) = Cardinality(P) - 1
      BY <1>2, <1>7, FS_RemoveElement
    <2>2. Cardinality(Q) <= Cardinality(P \ {n})
      BY <1>7, <2>1, FS_Subset
    <2> HIDE DEF P, Q, N
    <2> QED
      BY <1>3, <1>4, <1>7, <2>1, <2>2
  <1> QED
    BY <1>5, <1>6, <1>7 DEF Counts

\* A callback that enqueues has been counted as pending, and is no more.
LEMMA EnqueueCounts ==
    ASSUME LeaseInv, ServedBound, NEW c \in calls, c.pc = "enqueue", Enqueued(c),
           Goto(c, "update") \/ AfterFailedEnqueue(c)
    PROVE  ServedBound'
  <1>0. c \in Call /\ c.def \in Defs /\ c.node \in Nodes
    BY DEF LeaseInv, LockTypes, Call
  <1>1. \A e \in calls' : e \in calls \ {c} \/ e.pc \notin {"acquire", "enqueue"}
    <2>1. ASSUME NEW label \in {"update", "release"}, Goto(c, label)
          PROVE  /\ calls' = (calls \ {c}) \cup {[c EXCEPT !.pc = label]}
                 /\ [c EXCEPT !.pc = label].pc = label
      BY <1>0, <2>1 DEF Goto, Become, Call
    <2>2. CASE Goto(c, "update") \/ Goto(c, "release")
      BY <2>1, <2>2
    <2>3. CASE End(c)
      BY <2>3 DEF End
    <2> QED
      BY <2>2, <2>3 DEF AfterFailedEnqueue
  <1>2. \A d \in Defs : Pending(d)' \subseteq Pending(d)
    BY <1>1 DEF Pending
  <1>3. served \in [Defs -> Nat]
    BY DEF ServedBound
  <1>4. CASE c.by = "trigger"
    <2>1. served' = served
      BY <1>4 DEF Enqueued
    <2> QED
      BY <1>2, <1>3, <2>1, CountBound DEF Counts
  <1>5. CASE c.by = "cron"
    <2>1. served' = [served EXCEPT ![c.def] = served[c.def] + 1]
      BY <1>5 DEF Enqueued
    <2>2. served' \in [Defs -> Nat] /\ served'[c.def] = served[c.def] + 1
      BY <1>0, <1>3, <2>1
    <2>3. c.node \in Pending(c.def)
      BY <1>0, <1>5 DEF Pending
    <2>4. c.node \notin Pending(c.def)'
      BY <1>1, <1>5 DEF Pending, LeaseInv, OwnersUnique
    <2>5. Counts(c.def)
      BY <1>0, <1>2, <2>2, <2>3, <2>4 DEF Counts
    <2>6. \A d \in Defs \ {c.def} : Counts(d)
      BY <1>0, <1>2, <1>3, <2>1 DEF Counts
    <2> QED
      BY <2>2, <2>5, <2>6, CountBound
  <1> QED
    BY <1>0, <1>4, <1>5 DEF Call

\* Steps that enqueue nothing and leave no callback with more to do.
LEMMA QuietCounts ==
    ASSUME ServedBound, served' = served,
           \A e \in calls' : e.by = "cron" /\ e.pc \in {"acquire", "enqueue"} =>
               \E c \in calls : /\ c.by = "cron" /\ c.def = e.def /\ c.node = e.node
                                /\ c.pc \in {"acquire", "enqueue"}
    PROVE  ServedBound'
  <1>1. \A d \in Defs : Pending(d)' \subseteq Pending(d)
    BY DEF Pending
  <1> QED
    BY <1>1, CountBound DEF Counts, ServedBound

\* The steps of a call.
LEMMA CallCounts ==
    ASSUME LeaseInv, ServedBound, NEW c \in calls,
           CallStep(c) \/ ExpireEarly(c) \/ Timeout(c) \/ CallFails(c) \/ AckLost(c)
    PROVE  ServedBound'
  <1>0. c \in Call
    BY DEF LeaseInv, LockTypes
  <1>1. ASSUME End(c), served' = served PROVE ServedBound'
    BY <1>1, QuietCounts DEF End
  <1>2. ASSUME NEW new, Become(c, new), served' = served,
               new.by = c.by /\ new.def = c.def /\ new.node = c.node,
               new.pc \in {"acquire", "enqueue"} => c.pc \in {"acquire", "enqueue"}
        PROVE  ServedBound'
    BY <1>2, QuietCounts DEF Become
  <1>3. ASSUME NEW label \in {"enqueue", "update", "release"}, Goto(c, label), served' = served,
               label = "enqueue" => c.pc = "acquire"
        PROVE  ServedBound'
    <2> DEFINE new == [c EXCEPT !.pc = label]
    <2>1. new.by = c.by /\ new.def = c.def /\ new.node = c.node /\ new.pc = label
      BY <1>0 DEF Call
    <2>2. Become(c, new)
      BY <1>3 DEF Goto
    <2> HIDE DEF new
    <2> QED
      BY <1>2, <1>3, <2>1, <2>2
  <1>4. ASSUME AfterFailedEnqueue(c) \/ AfterUpdate(c), served' = served PROVE ServedBound'
    BY <1>1, <1>3, <1>4 DEF AfterFailedEnqueue, AfterUpdate
  <1>5. CASE CallStep(c)
    <2>1. CASE Acquire(c)
      BY <1>1, <1>3, <2>1 DEF Acquire
    <2>2. CASE Enqueue(c)
      BY <1>4, <2>2, EnqueueCounts DEF Enqueue
    <2>3. CASE Update(c)
      BY <1>4, <2>3 DEF Update
    <2>4. CASE ReleaseStep(c)
      BY <1>1, <2>4 DEF ReleaseStep
    <2> QED
      BY <1>5, <2>1, <2>2, <2>3, <2>4 DEF CallStep
  <1>6. CASE ExpireEarly(c)
    <2> DEFINE new == [c EXCEPT !.lapsed = TRUE]
    <2>1. new.by = c.by /\ new.def = c.def /\ new.node = c.node /\ new.pc = c.pc
      BY <1>0 DEF Call
    <2>2. Become(c, new) /\ served' = served
      BY <1>6 DEF ExpireEarly
    <2> HIDE DEF new
    <2> QED
      BY <1>2, <2>1, <2>2
  <1>7. CASE Timeout(c)
    <2> DEFINE new == [c EXCEPT !.live = FALSE]
    <2>1. new.by = c.by /\ new.def = c.def /\ new.node = c.node /\ new.pc = c.pc
      BY <1>0 DEF Call
    <2>2. Become(c, new) /\ served' = served
      BY <1>7 DEF Timeout
    <2> HIDE DEF new
    <2> QED
      BY <1>2, <2>1, <2>2
  <1>8. CASE CallFails(c)
    <2>1. served' = served /\ (AfterFailedEnqueue(c) \/ AfterUpdate(c) \/ End(c))
      BY <1>8 DEF CallFails
    <2> QED
      BY <1>1, <1>4, <2>1
  <1>9. CASE AckLost(c)
    BY <1>1, <1>9, EnqueueCounts DEF AckLost
  <1> QED
    BY <1>5, <1>6, <1>7, <1>8, <1>9

\* All steps: a tick starts the count again.
LEMMA NextCounts ==
    LeaseInv /\ TriggerShape /\ ServedBound /\ [Next]_vars => ServedBound'
  <1> SUFFICES ASSUME LeaseInv, TriggerShape, ServedBound, [Next]_vars PROVE ServedBound'
    OBVIOUS
  <1>1. ASSUME NEW d \in Defs, Tick(d) PROVE ServedBound'
    <2>1. served' = [served EXCEPT ![d] = 0] /\ served \in [Defs -> Nat]
      BY <1>1 DEF Tick, ServedBound
    <2>2. served' \in [Defs -> Nat] /\ served'[d] = 0
      BY <2>1
    <2>3. \A e \in calls' : e \in calls \/ e.def = d
      BY <1>1 DEF Tick, NewCall
    <2>4. \A e \in Defs \ {d} : served'[e] = served[e] /\ Pending(e)' \subseteq Pending(e)
      BY <2>1, <2>3 DEF Pending
    <2> QED
      BY <2>2, <2>4, CountBound DEF Counts
  <1>2. ASSUME NEW n \in Nodes, NEW d \in Defs, handleTriggerRecurring(n, d) PROVE ServedBound'
    <2>1. served' = served /\ \A e \in calls' : e \in calls \/ e.by = "trigger"
      BY <1>2 DEF handleTriggerRecurring, Request, NewCall
    <2> QED
      BY <2>1, QuietCounts
  <1>3. CASE served' = served /\ calls' \subseteq calls
    BY <1>3, QuietCounts
  <1>4. ASSUME NEW d \in Defs, NEW status \in {"enabled", "disabled"},
               Expire(d) \/ handleDeleteRecurring(d) \/ handleCreateRecurring(d, status)
        PROVE  served' = served /\ calls' \subseteq calls
    BY <1>4 DEF Expire, handleDeleteRecurring, handleCreateRecurring, Request
  <1>5. ASSUME NEW n \in Nodes, Reload(n) \/ Crash(n) \/ Stop(n) \/ Start(n)
        PROVE  served' = served /\ calls' \subseteq calls
    BY <1>5 DEF Reload, Crash, Stop, Start, Gone
  <1>6. UNCHANGED vars => served' = served /\ calls' \subseteq calls
    BY DEF vars
  <1> QED
    BY <1>1, <1>2, <1>3, <1>4, <1>5, <1>6, CallCounts DEF Next

\* The state at the start.
LEMMA InitTicks == Init => LeaseInv /\ TriggerShape /\ PlainTypes /\ ServedBound /\ TickAlive
  <1> SUFFICES ASSUME Init PROVE LeaseInv /\ TriggerShape /\ PlainTypes /\ ServedBound /\ TickAlive
    OBVIOUS
  <1>1. lock \in [Defs -> [owner : Nodes \cup {NoNode}, expired : BOOLEAN]]
    BY DEF Init, Free
  <1>2. LeaseInv /\ TriggerShape /\ TickAlive
    BY <1>1 DEF Init, LeaseInv, LockTypes, OwnersUnique, LeaseExclusive, TriggerShape, TickAlive
  <1>3. PlainTypes
    BY RecurringAssumption DEF Init, PlainTypes
  <1>4. ServedBound
    <2>1. \A d \in Defs : Pending(d) = {} /\ served[d] = 0
      BY DEF Init, Pending
    <2>2. Cardinality(Nodes) \in Nat /\ Cardinality({}) = 0
      BY RecurringAssumption, FS_CardinalityType, FS_EmptySet
    <2>3. served \in [Defs -> Nat]
      BY DEF Init
    <2> QED
      BY <2>1, <2>2, <2>3 DEF ServedBound
  <1> QED
    BY <1>2, <1>3, <1>4

\* Types of the recurring half, with its one real claim: the callbacks of a tick
\* enqueue at most one job per node, whatever they are told of the outcome.
THEOREM RecurringTypeCorrect == Spec => []TypeOK
  <1> DEFINE Inv == LeaseInv /\ TriggerShape /\ PlainTypes /\ ServedBound
  <1>1. Init => Inv
    BY InitTicks
  <1>2. Inv /\ [Next]_vars => Inv'
    BY NextLease, TriggersKept, NextPlain, NextCounts DEF LeaseInv
  <1>3. Inv => TypeOK
    <2> SUFFICES ASSUME Inv PROVE served \in [Defs -> 0..Cardinality(Nodes)]
      BY DEF TypeOK, LeaseInv, LockTypes, PlainTypes
    <2>1. \A d \in Defs : Pending(d) \subseteq Nodes /\ IsFiniteSet(Nodes)
      BY RecurringAssumption DEF Pending
    <2>2. \A d \in Defs : Cardinality(Pending(d)) \in Nat /\ Cardinality(Nodes) \in Nat
      BY <2>1, FS_Subset, FS_CardinalityType
    <2>3. \A d \in Defs : served[d] \in 0..Cardinality(Nodes)
      BY <2>2 DEF ServedBound
    <2> QED
      BY <2>3 DEF ServedBound
  <1> QED
    BY <1>1, <1>2, <1>3, PTL DEF Spec

\* A step of a call: a callback that finds the lock taken leaves the tick to the
\* one that took it, and one that fails spoils the tick.
LEMMA CallAlive ==
    ASSUME LeaseInv, TriggerShape, ServedBound, TickAlive, NEW c \in calls,
           CallStep(c) \/ ExpireEarly(c) \/ Timeout(c) \/ CallFails(c) \/ AckLost(c)
    PROVE  TickAlive'
  <1> DEFINE Ready(e, d) == /\ e.by = "cron" /\ e.def = d
                            /\ e.pc = "enqueue" \/ (e.pc = "acquire" /\ Acquirable(d))
  <1>0. /\ c \in Call /\ c.def \in Defs /\ c.node \in Nodes
        /\ c.pc \in {"acquire", "release"} => c.by = "cron"
        /\ lock \in [Defs -> [owner : Nodes \cup {NoNode}, expired : BOOLEAN]]
        /\ served \in [Defs -> Nat]
    BY DEF LeaseInv, LockTypes, TriggerShape, Call, ServedBound
  <1> SUFFICES ASSUME NEW d \in Defs, d \notin spoilt'
               PROVE  /\ \A e \in calls' : e.by = "cron" /\ e.def = d => e.live
                      /\ served'[d] >= 1 \/ \E e \in calls' : Ready(e, d)'
    BY DEF TickAlive
  <1>1. d \notin spoilt
    BY DEF CallStep, Acquire, Enqueue, Update, ReleaseStep, ExpireEarly, Timeout, CallFails, AckLost, Spoils
  <1>2. /\ \A e \in calls : e.by = "cron" /\ e.def = d => e.live
        /\ served[d] >= 1 \/ \E e \in calls : Ready(e, d)
    BY <1>1 DEF TickAlive
  <1>3. served'[d] >= served[d] /\ served[d] \in Nat /\ served'[d] \in Nat
    BY <1>0 DEF CallStep, Acquire, Enqueue, Update, ReleaseStep, ExpireEarly, Timeout, CallFails, AckLost, Enqueued
  <1> DEFINE Moved(e) == e.by = c.by /\ e.def = c.def /\ (c.live => e.live)
  <1>4. ASSUME \A e \in calls' : e \in calls \/ Moved(e)
        PROVE  \A e \in calls' : e.by = "cron" /\ e.def = d => e.live
    BY <1>2, <1>4
  <1>5. ASSUME c.def # d \/ c.by # "cron" \/ c.pc \in {"update", "release"},
               calls \ {c} \subseteq calls', Acquirable(d) => Acquirable(d)'
        PROVE  served'[d] >= 1 \/ \E e \in calls' : Ready(e, d)'
    BY <1>2, <1>3, <1>5
  <1>6. ASSUME NEW label, Goto(c, label)
        PROVE  /\ calls \ {c} \subseteq calls' /\ \A e \in calls' : e \in calls \/ Moved(e)
               /\ \E e \in calls' : Moved(e) /\ e.pc = label
    <2>1. Moved([c EXCEPT !.pc = label]) /\ [c EXCEPT !.pc = label].pc = label
      BY <1>0 DEF Call
    <2>2. calls' = (calls \ {c}) \cup {[c EXCEPT !.pc = label]}
      BY <1>6 DEF Goto, Become
    <2> HIDE DEF Moved
    <2> QED
      BY <2>1, <2>2
  <1>7. ASSUME End(c)
        PROVE  calls \ {c} \subseteq calls' /\ \A e \in calls' : e \in calls
    BY <1>7 DEF End
  <1>8. ASSUME AfterFailedEnqueue(c) \/ AfterUpdate(c)
        PROVE  calls \ {c} \subseteq calls' /\ \A e \in calls' : e \in calls \/ Moved(e)
    BY <1>6, <1>7, <1>8 DEF AfterFailedEnqueue, AfterUpdate
  <1>9. lock'[d] = lock[d] => (Acquirable(d) => Acquirable(d)')
    BY DEF Acquirable
  <1>10. CASE Acquire(c) /\ c.live /\ Acquirable(c.def)
    <2>1. Goto(c, "enqueue") /\ AcquireLock(c.def, c.node) /\ c.by = "cron"
      BY <1>0, <1>10 DEF Acquire
    <2>2. CASE c.def = d
      <3>1. \E e \in calls' : Ready(e, d)'
        BY <1>6, <2>1, <2>2
      <3> QED
        BY <1>4, <1>6, <2>1, <3>1
    <2>3. CASE c.def # d
      <3>1. lock'[d] = lock[d]
        BY <1>0, <2>1, <2>3 DEF AcquireLock
      <3> QED
        BY <1>4, <1>5, <1>6, <1>9, <2>1, <2>3, <3>1
    <2> QED
      BY <2>2, <2>3
  <1>11. CASE Acquire(c) /\ ~(c.live /\ Acquirable(c.def))
    <2>1. End(c) /\ lock' = lock /\ c.by = "cron" /\ c.pc = "acquire" /\ served' = served
      BY <1>0, <1>11 DEF Acquire
    <2>2. ~Ready(c, d)
      BY <1>2, <1>11, <2>1
    <2>3. \A e \in calls \ {c} : Ready(e, d) => e \in calls' /\ Ready(e, d)'
      BY <1>7, <2>1 DEF Acquirable
    <2> HIDE DEF Ready
    <2> QED
      BY <1>2, <1>4, <1>7, <2>1, <2>2, <2>3
  <1>12. CASE Enqueue(c)
    <2>1. lock' = lock
      BY <1>12 DEF Enqueue, storeVars
    <2>2. calls \ {c} \subseteq calls' /\ \A e \in calls' : e \in calls \/ Moved(e)
      BY <1>6, <1>8, <1>12 DEF Enqueue
    <2>3. CASE c.def = d /\ c.by = "cron"
      <3>1. served' = [served EXCEPT ![d] = served[d] + 1]
        BY <1>2, <1>12, <2>3 DEF Enqueue, Enqueued
      <3>2. served'[d] >= 1
        BY <1>0, <1>3, <3>1
      <3> QED
        BY <1>4, <2>2, <3>2
    <2>4. CASE ~(c.def = d /\ c.by = "cron")
      BY <1>4, <1>5, <1>9, <2>1, <2>2, <2>4
    <2> QED
      BY <2>3, <2>4
  <1>13. CASE Update(c)
    <2>1. lock' = lock /\ c.pc = "update" /\ AfterUpdate(c)
      BY <1>13 DEF Update
    <2> QED
      BY <1>4, <1>5, <1>8, <1>9, <2>1
  <1>14. CASE ReleaseStep(c)
    <2>1. lock' = lock \/ lock' = [lock EXCEPT ![c.def] = Free]
      BY <1>14 DEF ReleaseStep, Release
    <2>2. Acquirable(d) => Acquirable(d)'
      BY <1>0, <2>1 DEF Acquirable, Free
    <2> QED
      BY <1>4, <1>5, <1>7, <1>14, <2>2 DEF ReleaseStep
  <1>15. CASE ExpireEarly(c)
    <2> DEFINE new == [c EXCEPT !.lapsed = TRUE]
    <2>1. new.by = c.by /\ new.def = c.def /\ new.pc = c.pc /\ new.live = c.live
      BY <1>0 DEF Call
    <2>2. calls' = (calls \ {c}) \cup {new} /\ served' = served
      BY <1>15 DEF ExpireEarly, Become
    <2> HIDE DEF new
    <2>3. Acquirable(d) => Acquirable(d)'
      BY <1>0, <1>15 DEF ExpireEarly, Acquirable
    <2>4. \A e \in calls : Ready(e, d) => \E f \in calls' : Ready(f, d)'
      BY <2>1, <2>2, <2>3
    <2>5. \A e \in calls' : e.by = "cron" /\ e.def = d => e.live
      BY <1>2, <2>1, <2>2
    <2> QED
      BY <1>2, <2>2, <2>4, <2>5
  <1>16. CASE Timeout(c) \/ CallFails(c) \/ AckLost(c)
    <2>1. ~(c.by = "cron" /\ c.def = d)
      BY <1>16 DEF Timeout, CallFails, AckLost, Spoils
    <2>2. lock'[d] = lock[d]
      BY <1>0, <1>16, <2>1 DEF Timeout, CallFails, AckLost, AcquireLock, storeVars
    <2>3. calls \ {c} \subseteq calls' /\ \A e \in calls' : e \in calls \/ (e.by = c.by /\ e.def = c.def)
      <3>1. CASE Timeout(c)
        <4> DEFINE new == [c EXCEPT !.live = FALSE]
        <4>1. new.by = c.by /\ new.def = c.def
          BY <1>0 DEF Call
        <4>2. calls' = (calls \ {c}) \cup {new}
          BY <3>1 DEF Timeout, Become
        <4> HIDE DEF new
        <4> QED
          BY <4>1, <4>2
      <3>2. CASE CallFails(c) \/ AckLost(c)
        <4>1. AfterFailedEnqueue(c) \/ AfterUpdate(c) \/ End(c)
          BY <3>2 DEF CallFails, AckLost
        <4> QED
          BY <1>7, <1>8, <4>1
      <3> QED
        BY <1>16, <3>1, <3>2
    <2>4. \A e \in calls' : e.by = "cron" /\ e.def = d => e.live
      BY <1>2, <2>1, <2>3
    <2> QED
      BY <1>5, <1>9, <2>1, <2>2, <2>3, <2>4
  <1> QED
    BY <1>10, <1>11, <1>12, <1>13, <1>14, <1>15, <1>16 DEF CallStep

\* All steps: a tick that finds the lock free, or out of date, is alive.
LEMMA NextAlive ==
    LeaseInv /\ TriggerShape /\ ServedBound /\ TickAlive /\ [Next]_vars => TickAlive'
  <1> SUFFICES ASSUME LeaseInv, TriggerShape, ServedBound, TickAlive, [Next]_vars PROVE TickAlive'
    OBVIOUS
  <1>0. lock \in [Defs -> [owner : Nodes \cup {NoNode}, expired : BOOLEAN]] /\ served \in [Defs -> Nat]
    BY DEF LeaseInv, LockTypes, ServedBound
  <1>1. ASSUME NEW d \in Defs, Tick(d) PROVE TickAlive'
    <2>1. /\ lock' = lock /\ served' = [served EXCEPT ![d] = 0]
          /\ \A e \in calls : ~(e.by = "cron" /\ e.def = d)
          /\ d \notin spoilt' => Acquirable(d)
          /\ \A e \in Defs \ {d} : e \notin spoilt' => e \notin spoilt
      BY <1>1 DEF Tick, Callbacks, Acquirable, storeVars
    <2> DEFINE New == {NewCall(n, d, "cron", "acquire") : n \in {m \in up : d \in entries[m]}}
    <2>2. calls' = calls \cup New /\ New # {}
      BY <1>1 DEF Tick
    <2>3. \A e \in New : e.by = "cron" /\ e.def = d /\ e.pc = "acquire" /\ e.live
      BY DEF NewCall
    <2> HIDE DEF New
    <2> SUFFICES ASSUME NEW x \in Defs, x \notin spoilt'
                 PROVE  /\ \A e \in calls' : e.by = "cron" /\ e.def = x => e.live
                        /\ \/ served'[x] >= 1
                           \/ \E e \in calls' : /\ e.by = "cron" /\ e.def = x
                                                /\ e.pc = "enqueue" \/ (e.pc = "acquire" /\ Acquirable(x)')
      BY DEF TickAlive
    <2>4. CASE x = d
      BY <2>1, <2>2, <2>3, <2>4 DEF Acquirable
    <2>5. CASE x # d
      <3>1. served'[x] = served[x] /\ (Acquirable(x)' <=> Acquirable(x))
        BY <1>0, <2>1, <2>5 DEF Acquirable
      <3> QED
        BY <2>1, <2>2, <2>3, <2>5, <3>1 DEF TickAlive
    <2> QED
      BY <2>4, <2>5
  <1>2. ASSUME served' = served, \A d \in Defs : Acquirable(d) => Acquirable(d)',
               \A e \in calls' : e \in calls \/ e.by # "cron",
               \A e \in calls : e \in calls' \/ (e.by = "cron" => e.def \in spoilt'),
               spoilt \subseteq spoilt'
        PROVE  TickAlive'
    BY <1>2 DEF TickAlive
  <1>3. ASSUME NEW d \in Defs, Expire(d) PROVE TickAlive'
    <2>1. \A e \in Defs : Acquirable(e) => Acquirable(e)'
      BY <1>0, <1>3 DEF Expire, Acquirable
    <2> QED
      BY <1>2, <1>3, <2>1 DEF Expire
  <1>4. UNCHANGED lock => \A d \in Defs : Acquirable(d) => Acquirable(d)'
    BY DEF Acquirable
  <1>5. ASSUME NEW d \in Defs, NEW status \in {"enabled", "disabled"},
               handleDeleteRecurring(d) \/ handleCreateRecurring(d, status)
        PROVE  TickAlive'
    BY <1>2, <1>4, <1>5 DEF handleDeleteRecurring, handleCreateRecurring, Request
  <1>6. ASSUME NEW n \in Nodes, NEW d \in Defs, handleTriggerRecurring(n, d) PROVE TickAlive'
    BY <1>2, <1>4, <1>6 DEF handleTriggerRecurring, Request, NewCall
  <1>7. ASSUME NEW n \in Nodes, Reload(n) \/ Stop(n) PROVE TickAlive'
    BY <1>2, <1>4, <1>7 DEF Reload, Stop, storeVars
  <1>8. ASSUME NEW n \in Nodes, Crash(n) \/ Start(n) PROVE TickAlive'
    BY <1>2, <1>4, <1>8 DEF Crash, Start, Gone, storeVars
  <1>9. CASE UNCHANGED vars
    BY <1>2, <1>4, <1>9 DEF vars, storeVars
  <1> QED
    BY <1>1, <1>3, <1>5, <1>6, <1>7, <1>8, <1>9, CallAlive DEF Next

\* A tick is never lost between the nodes: when its callbacks are over and none
\* met a mishap or a lock left behind, one of them has enqueued.
THEOREM TicksServed == Spec => []TickServed
  <1> DEFINE Inv == LeaseInv /\ TriggerShape /\ PlainTypes /\ ServedBound /\ TickAlive
  <1>1. Init => Inv
    BY InitTicks
  <1>2. Inv /\ [Next]_vars => Inv'
    BY NextLease, TriggersKept, NextPlain, NextCounts, NextAlive DEF LeaseInv
  <1>3. Inv => TickServed
    BY DEF TickAlive, TickServed, Callbacks
  <1> QED
    BY <1>1, <1>2, <1>3, PTL DEF Spec

=============================================================================
