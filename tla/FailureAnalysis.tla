-------------------------- MODULE FailureAnalysis --------------------------
(***************************************************************************)
(* FailureAnalyzer of replanning.py: the kind of a failure is guessed from *)
(* the last failure event of the audit log.  An event is its type and the  *)
(* words _classify looks for in its type, reason and message.  Pure        *)
(* definitions, with the events execute_plan (transactions.py) writes.     *)
(***************************************************************************)
EXTENDS Integers

Event(type, words) == [type |-> type, words |-> words]
NoEvent == Event("none", {})

\* The words a tool's own message may bring into an event.
ToolWords == {{}, {"sandbox"}, {"network"}, {"timeout"}}

\* Why a step of a plan whose tools are registered does not get through.
Causes == {"budget", "attestation", "production", "contract_missing", "sandbox",
           "secrets", "idempotency", "precondition", "denied", "rejected",
           "dry_run", "execution", "output_schema", "contract", "verification",
           "postcondition"}

\* The status the step is left with.
CauseStatus(c) ==
    IF c \in {"dry_run", "execution", "output_schema", "contract",
              "verification", "postcondition"}
    THEN "FAILED" ELSE "BLOCKED"

\* The last failure event written for the cause.  A consumed idempotency key
\* is recorded as "step.idempotency_duplicate", which is not a failure event.
CauseEvents(c) ==
    CASE c = "budget" -> {Event("budget.exceeded", {})}
      [] c = "attestation" -> {Event("step.blocked", {"policy"})}
      [] c = "production" -> {Event("policy.blocked", w) :
              w \in {{"policy"}, {"policy", "network"}, {"policy", "timeout"},
                     {"policy", "sandbox"}}}
      [] c = "contract_missing" -> {Event("causal_contract.missing", {"policy"})}
      [] c = "sandbox" -> {Event("step.blocked", w) :
              w \in {{"policy", "sandbox"}, {"policy", "sandbox", "network"}}}
      [] c = "secrets" -> {Event("step.blocked", {})}
      [] c = "idempotency" -> {NoEvent}
      [] c = "precondition" -> {Event("step.precondition_failed", {})}
      [] c = "denied" -> {Event("step.blocked", {"policy"} \cup w) : w \in ToolWords}
      [] c = "rejected" -> {Event("approval.rejected", w) : w \in ToolWords}
      [] c = "dry_run" -> {Event("step.dry_run_failed", w) : w \in ToolWords}
      [] c = "execution" -> {Event("step.execution_failed", w) : w \in ToolWords}
      [] c = "output_schema" -> {Event("step.output_schema_failed", {})}
      [] c = "contract" -> {Event("step.causal_contract_verification_failed", {})}
      [] c = "verification" -> {Event("step.verification_failed", w) : w \in ToolWords}
      [] c = "postcondition" -> {Event("step.postcondition_failed", {})}

\* A failed compensation is recorded as "rollback_failed" with the tool's own
\* message, after the event of the cause; one that the egress policy blocks
\* leaves no failure event.
RollbackEvents == {Event("rollback_failed", w) : w \in ToolWords}

\* Defect: the words of the message are looked at before the rejection.
Classify_WordsFirst(e) ==
    IF "timeout" \in e.words THEN "TIMEOUT"
    ELSE IF e.type = "approval.rejected" THEN "APPROVAL_DENIED"
    ELSE "UNKNOWN"

\* _classify, in the order of its tests.
Classify(e) ==
    IF e.type = "approval.rejected" THEN "APPROVAL_DENIED"
    ELSE IF "unknown tool" \in e.words THEN "UNKNOWN_TOOL"
    ELSE IF "sandbox" \in e.words THEN "SANDBOX_UNAVAILABLE"
    ELSE IF "network" \in e.words THEN "NETWORK_BLOCKED"
    ELSE IF e.type \in {"causal_contract.missing",
                       "step.causal_contract_verification_failed",
                       "step.verification_failed"}
         THEN "CAUSAL_CONTRACT_FAILED"
    ELSE IF e.type = "step.output_schema_failed" THEN "OUTPUT_SCHEMA_FAILED"
    ELSE IF e.type = "step.precondition_failed" THEN "PRECONDITION_FAILED"
    ELSE IF e.type = "step.dry_run_failed" THEN "DRY_RUN_FAILED"
    ELSE IF "timeout" \in e.words THEN "TIMEOUT"
    ELSE IF e.type = "step.execution_failed" THEN "EXECUTION_FAILED"
    ELSE IF e.type = "step.postcondition_failed" THEN "POSTCONDITION_FAILED"
    ELSE IF "policy" \in e.words THEN "POLICY_DENIED"
    ELSE "UNKNOWN"

Retryable(kind) ==
    kind \in {"PRECONDITION_FAILED", "DRY_RUN_FAILED", "EXECUTION_FAILED",
              "OUTPUT_SCHEMA_FAILED", "CAUSAL_CONTRACT_FAILED", "TIMEOUT",
              "GOAL_EVALUATION_FAILED", "UNKNOWN_TOOL"}

\* analyze: a plan without a blocked, failed or rolled back step is not
\* retryable; otherwise the last failure event of the whole log decides.
AnalysisRetryable(statuses, last) ==
    /\ \E k \in DOMAIN statuses : statuses[k] \in {"BLOCKED", "FAILED", "ROLLED_BACK"}
    /\ Retryable(Classify(last))
=============================================================================
