--------------------------- MODULE GoalEvaluation ---------------------------
(***************************************************************************)
(* EvaluatorRegistry.evaluate of evaluator_registry.py: whether the success*)
(* criteria of a goal have evidence in the facts.  Pure definitions.       *)
(*                                                                         *)
(* A fact is Absent or one of the values the rules tell apart.  A textual  *)
(* criterion is the name of the rule it matches, "other" when none does.   *)
(* A typed criterion is a record [key, op, value, required].  The value of *)
(* contains, greater_than and less_than is the set of facts that compare   *)
(* so, empty when the types do not match.                                  *)
(***************************************************************************)
EXTENDS Integers, Sequences

Absent == "absent"

\* What the rules distinguish of each fact: github_pr may be open, closed
\* with a number, or a mapping with neither.
FactValues ==
    [tests_ok |-> {Absent, "true", "false"},
     file_written |-> {Absent, "written"},
     github_pr |-> {Absent, "open", "numbered", "empty"},
     github_ci_status |-> {Absent, "green", "red"}]

FactKeys == DOMAIN FactValues

Verdict(matched, st) == [matched |-> matched, status |-> st]

TestsPassRule(facts) ==
    Verdict(TRUE, CASE facts["tests_ok"] = "true" -> "SUCCEEDED"
                    [] facts["tests_ok"] = "false" -> "FAILED"
                    [] OTHER -> "UNKNOWN")

FileUpdatedRule(facts) ==
    Verdict(TRUE, IF facts["file_written"] # Absent THEN "SUCCEEDED" ELSE "UNKNOWN")

\* A pull request with a number counts whatever its state.
PROpenedRule(facts) ==
    Verdict(TRUE, IF facts["github_pr"] \in {"open", "numbered"}
                  THEN "SUCCEEDED" ELSE "UNKNOWN")

CIPassedRule(facts) ==
    Verdict(TRUE, CASE facts["github_ci_status"] = "green" -> "SUCCEEDED"
                    [] facts["github_ci_status"] = "red" -> "FAILED"
                    [] OTHER -> "UNKNOWN")

\* The first rule of the software engineering and github domains that matches.
EvaluateCriterion(c, facts) ==
    CASE c = "tests pass" -> TestsPassRule(facts)
      [] c = "file updated" -> FileUpdatedRule(facts)
      [] c = "pr opened" -> PROpenedRule(facts)
      [] c = "ci passed" -> CIPassedRule(facts)
      [] OTHER -> Verdict(FALSE, "UNKNOWN")

\* The typed operators; every one but "missing" needs the fact to be present.  For
\* "in" and the comparisons c.value is the set of values that satisfy them; a value
\* of another type is not in it, as the exception it raises counts as not satisfied.
TypedHolds(c, facts) ==
    LET actual == facts[c.key]
    IN  IF actual = Absent THEN c.op = "missing"
        ELSE CASE c.op = "missing" -> FALSE
               [] c.op = "exists" -> TRUE
               [] c.op = "equals" -> actual = c.value
               [] c.op = "not_equals" -> actual # c.value
               [] c.op \in {"in", "contains", "greater_than", "less_than"} ->
                    actual \in c.value
               [] c.op = "not_in" -> actual \notin c.value

\* An unobserved "exists" is unknown; any other unmet criterion fails when it
\* is required.
EvaluateTyped(c, facts) ==
    Verdict(TRUE,
            CASE TypedHolds(c, facts) -> "SUCCEEDED"
              [] ~TypedHolds(c, facts) /\ c.op = "exists" -> "UNKNOWN"
              [] OTHER -> IF c.required THEN "FAILED" ELSE "UNKNOWN")

\* GoalProgress.phase over the statuses of the plan's steps.
Phase(statuses) ==
    LET has(S) == \E k \in DOMAIN statuses : statuses[k] \in S
    IN  IF has({"BLOCKED"}) THEN "blocked"
        ELSE IF has({"FAILED", "ROLLED_BACK"}) THEN "failed"
        ELSE IF statuses # <<>> /\ \A k \in DOMAIN statuses : statuses[k] = "VERIFIED"
             THEN "complete"
        ELSE IF has({"VERIFIED"}) THEN "partial"
        ELSE "pending"

\* _FallbackRule: without a criterion any rule knows, the progress decides.
Fallback(phase) ==
    CASE phase = "complete" -> "SUCCEEDED"
      [] phase = "blocked" -> "BLOCKED"
      [] phase = "failed" -> "FAILED"
      [] phase = "partial" -> "PARTIAL"
      [] OTHER -> "UNKNOWN"

\* Defect: the optional criteria are not looked at, the unmatched are skipped.
Evaluate_SkipsUnmatched(criteria, typed, facts, phase) ==
    LET textual == {EvaluateCriterion(c, facts) : c \in criteria}
        required == {EvaluateTyped(c, facts) : c \in {t \in typed : t.required}}
                    \cup {v \in textual : v.matched}
        all == {EvaluateTyped(c, facts) : c \in typed} \cup textual
    IN  IF typed = {} /\ \A v \in textual : ~v.matched THEN Fallback(phase)
        ELSE IF \E v \in required : v.status = "FAILED" THEN "FAILED"
        ELSE IF required # {} /\ \A v \in required : v.status = "SUCCEEDED" THEN "SUCCEEDED"
        ELSE IF \E v \in all : v.status = "SUCCEEDED" THEN "PARTIAL"
        ELSE "UNKNOWN"

Evaluate(criteria, typed, facts, phase) ==
    LET textual == {EvaluateCriterion(c, facts) : c \in criteria}
        required == {EvaluateTyped(c, facts) : c \in {t \in typed : t.required}}
                    \cup textual
        all == {EvaluateTyped(c, facts) : c \in typed} \cup textual
    IN  IF typed = {} /\ \A v \in textual : ~v.matched THEN Fallback(phase)
        ELSE IF \E v \in required : v.status = "FAILED" THEN "FAILED"
        ELSE IF required # {} /\ \A v \in required : v.status = "SUCCEEDED" THEN "SUCCEEDED"
        ELSE IF \E v \in all : v.status = "SUCCEEDED" THEN "PARTIAL"
        ELSE "UNKNOWN"
=============================================================================
