---------------------------- MODULE JobLifecycle ----------------------------
(***************************************************************************)
(* What the engine promises about one run of a job's life, when nobody     *)
(* requeues or deletes jobs by hand: every job moves along a line from     *)
(* creation to a final state, an attempt at a time, and is declared dead   *)
(* after exactly the failed attempts it is granted.                        *)
(***************************************************************************)
EXTENDS Integers

CONSTANTS
    Jobs,
    MaxTries  \* the failed attempts each job is granted

VARIABLES
    life,   \* the state of each job
    tries   \* failed attempts so far

lifeVars == <<life, tries>>

LifeInit ==
    /\ life = [j \in Jobs |-> "Unborn"]
    /\ tries = [j \in Jobs |-> 0]

\* j moves from one state to the next without failing.
Step(j, from, to) ==
    /\ life[j] = from
    /\ life' = [life EXCEPT ![j] = to]
    /\ UNCHANGED tries

Exhausted(j) == tries[j] >= MaxTries[j]

Submit(j)  == Step(j, "Unborn", "Enqueued") \/ Step(j, "Unborn", "Scheduled")
Start(j)   == Step(j, "Enqueued", "Processing")
Succeed(j) == Step(j, "Processing", "Succeeded")
Cancel(j)  == Step(j, "Processing", "Cancelled")
Fail(j)    == /\ life[j] = "Processing"
              /\ life' = [life EXCEPT ![j] = "Failed"]
              /\ tries' = [tries EXCEPT ![j] = @ + 1]
Retry(j)   == ~Exhausted(j) /\ Step(j, "Failed", "Scheduled")
Bury(j)    == Exhausted(j) /\ Step(j, "Failed", "Dead")

\* The scheduler promotes a batch of due jobs in one storage call.
Promote(due) ==
    /\ due # {}
    /\ \A j \in due : life[j] = "Scheduled"
    /\ life' = [j \in Jobs |-> IF j \in due THEN "Enqueued" ELSE life[j]]
    /\ UNCHANGED tries

LifeNext ==
    \/ \E j \in Jobs : \/ Submit(j) \/ Start(j) \/ Succeed(j) \/ Cancel(j)
                       \/ Fail(j) \/ Retry(j) \/ Bury(j)
    \/ \E due \in SUBSET Jobs : Promote(due)

LifeSpec == LifeInit /\ [][LifeNext]_lifeVars

=============================================================================
