---------------------------- MODULE PlanOutcomes ----------------------------
(***************************************************************************)
(* What one execution of a fresh plan may leave behind, as the callers of  *)
(* execute_plan see it: the statuses of the steps and the goal's status.   *)
(* Transaction.tla has the steps in between, and its run checks that they  *)
(* end in one of these outcomes.                                           *)
(***************************************************************************)
EXTENDS Integers, Sequences, FailureAnalysis

\* A step that failed after its tool ran may have left a rollback token.
AfterExecution == {"output_schema", "contract", "verification", "postcondition"}

\* Step f of n fails for the cause; the ones before it stand, were rolled
\* back, or could not be rolled back.
FailedAt(n, f, cause) ==
    {s \in [1 .. n -> {"PENDING", "VERIFIED", "ROLLED_BACK", "FAILED", "BLOCKED"}] :
       /\ \A k \in 1 .. f - 1 : s[k] \in {"VERIFIED", "ROLLED_BACK", "FAILED"}
       /\ \A k \in f + 1 .. n : s[k] = "PENDING"
       /\ \/ s[f] = CauseStatus(cause)
          \/ cause \in AfterExecution /\ s[f] = "ROLLED_BACK"}

\* A step before the failing one is FAILED only when its compensation failed;
\* the failing step itself may be so for its cause.
CompensationFailed(statuses, cause) ==
    \E k \in DOMAIN statuses :
        /\ statuses[k] = "FAILED"
        /\ \/ cause \in AfterExecution
           \/ \E f \in DOMAIN statuses : f > k /\ statuses[f] # "PENDING"

\* What may be the last failure event after an execution with these statuses.
LastEvents(statuses, cause) ==
    CauseEvents(cause)
    \cup (IF CompensationFailed(statuses, cause) THEN RollbackEvents ELSE {})

\* The budget is checked before the first step and marks one step.
OverBudget(n) ==
    {[k \in 1 .. n |-> IF k = f THEN "BLOCKED" ELSE "PENDING"] : f \in 1 .. n}

AllVerified(n) == [k \in 1 .. n |-> "VERIFIED"]

Outcomes(n) ==
    {AllVerified(n)} \cup OverBudget(n)
    \cup UNION {FailedAt(n, f, c) : f \in 1 .. n, c \in Causes \ {"budget"}}

\* _final_goal_status
GoalAfter(statuses) ==
    LET has(s) == \E k \in DOMAIN statuses : statuses[k] = s
    IN  IF statuses = <<>> \/ has("VERIFIED") THEN "PARTIALLY_DONE"
        ELSE IF has("BLOCKED") THEN "BLOCKED"
        ELSE "FAILED"
=============================================================================
