------------------------------ MODULE JobDomain ------------------------------
(***************************************************************************)
(* The vocabulary of internal/job: the states of a job, which of them are  *)
(* final, the conditions of a continuation, and the two small decision     *)
(* functions the engine applies to them.                                   *)
(***************************************************************************)
EXTENDS Integers

JobStates == {"Enqueued", "Processing", "Succeeded", "Failed", "Scheduled",
              "Deleted", "Awaiting", "Dead", "Cancelled"}

\* A job ID that no Enqueue has created yet, and one whose job the retention
\* sweep has erased: in both cases the store holds no job under that ID.
Missing == {"Unborn", "Removed"}

\* States from which Requeue and DeleteJob are refused.
IrreversibleStates == {"Succeeded", "Dead", "Cancelled", "Deleted"}

\* States the retention sweep erases (isTerminal of the memory backend, the
\* state list of the SQL DELETE).
ExpirableStates == {"Succeeded", "Failed", "Deleted"}

Conditions == {"OnSucceeded", "OnFailed", "OnAny"}

continuationMatches(terminalState, condition) ==
    \/ condition = "OnSucceeded" /\ terminalState = "Succeeded"
    \/ condition = "OnFailed"    /\ terminalState \in {"Failed", "Dead"}
    \/ condition = "OnAny"

defaultRetryMax == 10

\* Faulty variant: a negative value is taken for a missing one.
effectiveRetryMaxPositive(retryMax) == IF retryMax <= 0 THEN defaultRetryMax ELSE retryMax

effectiveRetryMax(retryMax) == IF retryMax = 0 THEN defaultRetryMax ELSE retryMax

=============================================================================
