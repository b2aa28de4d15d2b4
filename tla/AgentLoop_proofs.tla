-------------------------- MODULE AgentLoop_proofs --------------------------
(***************************************************************************)
(* The agent loop, for any registry, proposals, configurations and number  *)
(* of iterations and repairs: what it reports as success has evidence, it  *)
(* stays in its budgets, going round again never meets a goal that cannot  *)
(* be planned, and a rejected plan is not repaired.                        *)
(***************************************************************************)
EXTENDS AgentLoop, TLAPS

LoopTypeOK ==
    /\ config \in Configs
    /\ pc \in {"iterate", "propose", "plan", "execute", "evaluate", "decide", "finished", "raised"}
    /\ iteration \in Nat
    /\ replans \in 0 .. MaxReplans
    /\ calls \in Nat
    /\ proposals \in Seq(Proposals) /\ Len(proposals) <= 2
    /\ pending \in Seq(Proposals) /\ Len(pending) <= 2
    /\ \A k \in FactKeys : facts[k] \in FactValues[k]

\* Repairs are pending only between two iterations, and nothing has stopped the
\* loop before it is finished.
PhaseInv ==
    /\ pc \in {"plan", "execute", "evaluate", "decide"} => pending = <<>>
    /\ pc # "finished" => stop = "none"

BudgetInv == config.maxCalls # 0 => calls <= config.maxCalls

\* Where the goal stands: a plan leaves it planned again, and only an
\* evaluation can take it to success, which ends the loop.
GoalInv ==
    /\ pc = "iterate" /\ iteration > 0 => "PLANNING" \in Allowed[goal]
    /\ pc \in {"propose", "plan"} /\ iteration > 1 => "PLANNING" \in Allowed[goal]
    /\ pc \in {"propose", "plan", "execute", "evaluate", "decide"} => iteration > 0
    /\ pc = "evaluate" => goal \in {"PARTIALLY_DONE", "BLOCKED", "FAILED"}
    /\ pc = "decide" =>
         \/ goal \in {"PARTIALLY_DONE", "BLOCKED", "FAILED"}
         \/ goal = "SUCCEEDED" /\ config.evaluator /\ evaluation = "SUCCEEDED"

\* The rejection is the last failure event when the plan is analysed, unless a
\* compensation failed after it.
RejectionInv ==
    pc \in {"evaluate", "decide"} /\ rejected /\ (\A k \in DOMAIN statuses : statuses[k] # "FAILED")
        => last.type = "approval.rejected"

\* The verdict is about the facts and the steps as they are.
VerdictInv ==
    (pc = "decide" \/ stop = "goal_succeeded") /\ config.evaluator =>
        /\ evaluation = Evaluate(config.criteria, config.typed, facts, Phase(statuses))
        /\ stop = "goal_succeeded" => evaluation = "SUCCEEDED"

LoopInv ==
    /\ LoopTypeOK
    /\ PhaseInv
    /\ BudgetInv
    /\ GoalInv
    /\ RejectionInv
    /\ VerdictInv
-----------------------------------------------------------------------------
(* The operators the loop is built from.                                    *)

\* Goal.transition accepts PLANNING in each state an executed plan can leave.
LEMMA PlanLeavesPlannable ==
    \A g \in {"PARTIALLY_DONE", "BLOCKED", "FAILED"} : "PLANNING" \in Allowed[g]
BY DEF Allowed, GoalStatus

\* The limits of the configuration.
LEMMA LimitsAreNaturals == MaxReplans \in Nat /\ MaxIterations \in Nat
BY LoopAssumption

\* _final_goal_status leaves one of three.
LEMMA GoalAfterPlan == \A s : GoalAfter(s) \in {"PARTIALLY_DONE", "BLOCKED", "FAILED"}
BY DEF GoalAfter

\* _transition_goal_for_evaluation reaches SUCCEEDED only for that verdict.
LEMMA GoalForVerdict ==
    ASSUME NEW ev, NEW g \in {"PARTIALLY_DONE", "BLOCKED", "FAILED"}
    PROVE  \/ GoalFor(ev, g) \in {"PARTIALLY_DONE", "BLOCKED", "FAILED"}
           \/ GoalFor(ev, g) = "SUCCEEDED" /\ ev = "SUCCEEDED"
<1>1. DOMAIN Target = {"SUCCEEDED", "FAILED", "BLOCKED"}
  BY DEF Target
<1>2. Target["SUCCEEDED"] = "SUCCEEDED" /\ Target["FAILED"] = "FAILED" /\ Target["BLOCKED"] = "BLOCKED"
  BY DEF Target
<1> QED
  BY <1>1, <1>2 DEF GoalFor

\* The planner's choice is one of the candidates, or none.
LEMMA SelectedFacts ==
    ASSUME LoopTypeOK
    PROVE  Selected \in Proposals \cup {NoPlan}
<1>1. CASE ~\E k \in DOMAIN proposals : Satisfies(proposals[k])
  BY <1>1 DEF Selected
<1>2. CASE \E k \in DOMAIN proposals : Satisfies(proposals[k])
  <2> DEFINE First(k) == Satisfies(proposals[k]) /\ \A j \in 1 .. k - 1 : ~Satisfies(proposals[j])
  <2>1. DOMAIN proposals \subseteq {1, 2} /\ (2 \in DOMAIN proposals => 1 \in DOMAIN proposals)
    BY DEF LoopTypeOK
  <2>2. \E k \in DOMAIN proposals : First(k)
    <3>1. CASE 1 \in DOMAIN proposals /\ Satisfies(proposals[1])
      BY <3>1
    <3>2. CASE ~(1 \in DOMAIN proposals /\ Satisfies(proposals[1]))
      <4>1. 2 \in DOMAIN proposals /\ Satisfies(proposals[2]) /\ ~Satisfies(proposals[1])
        BY <1>2, <2>1, <3>2
      <4> QED
        BY <4>1
    <3> QED
      BY <3>1, <3>2
  <2>3. Selected = proposals[CHOOSE k \in DOMAIN proposals : First(k)]
    BY <1>2 DEF Selected
  <2>4. (CHOOSE k \in DOMAIN proposals : First(k)) \in DOMAIN proposals
    BY <2>2
  <2> QED
    BY <2>3, <2>4 DEF LoopTypeOK
<1> QED
  BY <1>1, <1>2

\* A rejected approval is not retried, whatever the messages say.
LEMMA RejectionIsFinal ==
    ASSUME NEW e, e.type = "approval.rejected", NEW s
    PROVE  ~AnalysisRetryable(s, e)
BY DEF AnalysisRetryable, Retryable, Classify

\* EvaluatorRegistry.evaluate: what a success says about the facts.
LEMMA SuccessfulCriterion ==
    ASSUME LoopTypeOK, NEW c, EvaluateCriterion(c, facts).status = "SUCCEEDED"
    PROVE  HasEvidence(c)
<1>1. facts["file_written"] \in {Absent, "written"}
  BY DEF LoopTypeOK, FactKeys, FactValues
<1>2. CASE c = "tests pass"
  BY <1>2 DEF EvaluateCriterion, TestsPassRule, Verdict, HasEvidence
<1>3. CASE c = "file updated"
  BY <1>1, <1>3 DEF EvaluateCriterion, FileUpdatedRule, Verdict, HasEvidence
<1>4. CASE c = "pr opened"
  BY <1>4 DEF EvaluateCriterion, PROpenedRule, Verdict, HasEvidence
<1>5. CASE c = "ci passed"
  BY <1>5 DEF EvaluateCriterion, CIPassedRule, Verdict, HasEvidence
<1>6. CASE c \notin {"tests pass", "file updated", "pr opened", "ci passed"}
  BY <1>6 DEF EvaluateCriterion, Verdict
<1> QED
  BY <1>2, <1>3, <1>4, <1>5, <1>6

\* A typed criterion succeeds when its operator holds.
LEMMA SuccessfulTyped ==
    ASSUME NEW t, EvaluateTyped(t, facts).status = "SUCCEEDED"
    PROVE  TypedHolds(t, facts)
<1> SUFFICES ASSUME ~TypedHolds(t, facts) PROVE FALSE
  OBVIOUS
<1> QED
  BY DEF EvaluateTyped, Verdict

\* A criterion some rule knows is matched.
LEMMA KnownCriteria ==
    ASSUME NEW c \in {"tests pass", "file updated", "pr opened", "ci passed"}
    PROVE  EvaluateCriterion(c, facts).matched = TRUE
BY DEF EvaluateCriterion, TestsPassRule, FileUpdatedRule, PROpenedRule, CIPassedRule, Verdict

\* _FallbackRule takes only a plan that is complete for a success.
LEMMA CompletePhase ==
    ASSUME NEW s, Fallback(Phase(s)) = "SUCCEEDED"
    PROVE  s # <<>> /\ \A k \in DOMAIN s : s[k] = "VERIFIED"
<1>1. Phase(s) = "complete"
  BY DEF Fallback
<1> QED
  BY <1>1 DEF Phase

\* The registry's verdict on the goal: every criterion has its evidence, or no
\* rule knew any and the plan went through.
LEMMA SuccessfulGoal ==
    ASSUME LoopTypeOK,
           Evaluate(config.criteria, config.typed, facts, Phase(statuses)) = "SUCCEEDED"
    PROVE  \/ /\ \A c \in config.criteria : HasEvidence(c)
              /\ \A t \in config.typed : t.required => TypedHolds(t, facts)
           \/ /\ config.typed = {} /\ config.criteria = {"other"}
              /\ statuses # <<>>
              /\ \A k \in DOMAIN statuses : statuses[k] = "VERIFIED"
<1> DEFINE textual == {EvaluateCriterion(c, facts) : c \in config.criteria}
           required == {EvaluateTyped(c, facts) : c \in {t \in config.typed : t.required}}
                       \cup textual
<1>1. CASE config.typed = {} /\ \A v \in textual : ~v.matched
  <2>1. Fallback(Phase(statuses)) = "SUCCEEDED"
    BY <1>1 DEF Evaluate
  <2>2. config.criteria \subseteq {"other"}
    <3>1. config.criteria \subseteq {"tests pass", "file updated", "pr opened", "ci passed", "other"}
      BY LoopAssumption DEF LoopTypeOK
    <3> QED
      BY <1>1, <3>1, KnownCriteria
  <2>3. config.criteria = {} \/ config.criteria = {"other"}
    BY <2>2
  <2> QED
    BY <1>1, <2>1, <2>3, CompletePhase
<1>2. CASE ~(config.typed = {} /\ \A v \in textual : ~v.matched)
  <2>1. \A v \in required : v.status = "SUCCEEDED"
    BY <1>2 DEF Evaluate
  <2>2. \A c \in config.criteria : EvaluateCriterion(c, facts) \in required
    OBVIOUS
  <2>3. \A t \in config.typed : t.required => EvaluateTyped(t, facts) \in required
    OBVIOUS
  <2> QED
    BY <2>1, <2>2, <2>3, SuccessfulCriterion, SuccessfulTyped
<1> QED
  BY <1>1, <1>2

-----------------------------------------------------------------------------
(* The loop, one action at a time.                                          *)

\* The head of the loop.
LEMMA NextIterationStep == LoopInv /\ NextIteration => LoopInv'
<1> SUFFICES ASSUME LoopInv, NextIteration PROVE LoopInv'
  OBVIOUS
<1> USE DEF NextIteration, results, Stop, LoopInv
<1>1. LoopTypeOK'
  BY DEF LoopTypeOK
<1>2. PhaseInv' /\ BudgetInv' /\ RejectionInv'
  BY DEF PhaseInv, BudgetInv, RejectionInv
<1>3. GoalInv'
  BY DEF GoalInv, LoopTypeOK
<1>4. VerdictInv'
  BY DEF VerdictInv, PhaseInv
<1> QED
  BY <1>1, <1>2, <1>3, <1>4

\* The candidates of an iteration, which use the pending repairs up.
LEMMA ProposeStep == LoopInv /\ Propose => LoopInv'
<1> SUFFICES ASSUME LoopInv, Propose PROVE LoopInv'
  OBVIOUS
<1> USE DEF LoopInv
<1>1. /\ pc = "propose" /\ pending' = <<>>
      /\ UNCHANGED <<config, iteration, goal, plan, replans, calls, executed, results>>
      /\ pc' \in {"plan", "finished", "raised"}
      /\ UNCHANGED stop \/ (stop' = "no_plan" /\ pc' = "finished")
  BY DEF Propose, Stop, Raise
<1>2. proposals' \in Seq(Proposals) /\ Len(proposals') <= 2
  <2>1. CASE proposals' = pending \/ UNCHANGED proposals
    BY <2>1 DEF LoopTypeOK
  <2>2. CASE proposals' = <<>>
    BY <2>2
  <2>3. ASSUME NEW p \in Proposals, proposals' = <<p>>
        PROVE  proposals' \in Seq(Proposals) /\ Len(proposals') <= 2
    BY <2>3
  <2>5. ASSUME NEW p \in Proposals, NEW q \in Proposals, proposals' = <<p, q>>
        PROVE  proposals' \in Seq(Proposals) /\ Len(proposals') <= 2
    BY <2>5
  <2>4. \/ proposals' \in {pending, proposals, <<>>}
        \/ \E p \in Proposals : proposals' = <<p>>
        \/ \E p, q \in Proposals : proposals' = <<p, q>>
    BY DEF Propose
  <2> QED
    BY <2>1, <2>2, <2>3, <2>4, <2>5
<1>3. LoopTypeOK'
  BY <1>1, <1>2 DEF LoopTypeOK, results
<1>4. PhaseInv' /\ BudgetInv' /\ RejectionInv'
  BY <1>1 DEF PhaseInv, BudgetInv, RejectionInv
<1>5. GoalInv'
  BY <1>1 DEF GoalInv
<1>6. VerdictInv'
  BY <1>1 DEF VerdictInv, PhaseInv
<1> QED
  BY <1>3, <1>4, <1>5, <1>6

\* An exception ends the run without a stop reason.
LEMMA RaiseStep == LoopInv /\ (PlanningRefused \/ ExecuteRaises) => LoopInv'
<1> SUFFICES ASSUME LoopInv, PlanningRefused \/ ExecuteRaises PROVE LoopInv'
  OBVIOUS
<1> USE DEF LoopInv
<1>1. /\ pc \in {"plan", "execute"} /\ pc' = "raised"
      /\ UNCHANGED <<config, iteration, goal, proposals, pending, plan, replans,
                     calls, executed, results, stop>>
  BY DEF PlanningRefused, ExecuteRaises, Raise
<1>2. LoopTypeOK'
  BY <1>1 DEF LoopTypeOK, results
<1>3. PhaseInv' /\ BudgetInv' /\ GoalInv' /\ RejectionInv'
  BY <1>1 DEF PhaseInv, BudgetInv, GoalInv, RejectionInv
<1>4. VerdictInv'
  BY <1>1 DEF VerdictInv, PhaseInv
<1> QED
  BY <1>2, <1>3, <1>4

\* A repair that was asked for is one more, and pending for the next iteration.
LEMMA RepairFacts ==
    ASSUME LoopTypeOK, NEW ps \in {<<>>} \cup {<<p>> : p \in Proposals}, pending' = ps,
           replans < MaxReplans, replans' = replans + 1
    PROVE  /\ replans' \in 0 .. MaxReplans
           /\ pending' \in Seq(Proposals) /\ Len(pending') <= 2
<1>1. ps \in Seq(Proposals) /\ Len(ps) <= 2
  <2>1. CASE ps = <<>>
    BY <2>1
  <2>2. ASSUME NEW p \in Proposals, ps = <<p>> PROVE ps \in Seq(Proposals) /\ Len(ps) <= 2
    BY <2>2
  <2> QED
    BY <2>1, <2>2
<1>2. replans' \in 0 .. MaxReplans
  <2>1. replans \in 0 .. MaxReplans
    BY DEF LoopTypeOK
  <2> QED
    BY <2>1, LimitsAreNaturals
<1> QED
  BY <1>1, <1>2

\* A plan with an unregistered tool leaves the goal as it was.
LEMMA PlanFailsStep == LoopInv /\ PlanFails => LoopInv'
<1> SUFFICES ASSUME LoopInv, PlanFails PROVE LoopInv'
  OBVIOUS
<1> USE DEF LoopInv
<1>1. /\ pc = "plan" /\ "PLANNING" \in Allowed[goal]
      /\ UNCHANGED <<config, iteration, goal, proposals, plan, calls, executed, results>>
      /\ \/ pc' = "finished" /\ stop' = "no_satisfactory_plan"
         \/ pc' = "iterate" /\ UNCHANGED stop
  BY DEF PlanFails, Stop
<1>2. /\ replans' \in 0 .. MaxReplans
      /\ pending' \in Seq(Proposals) /\ Len(pending') <= 2
  <2>1. CASE UNCHANGED <<replans, pending>>
    BY <2>1 DEF LoopTypeOK
  <2>2. CASE ~UNCHANGED <<replans, pending>>
    <3>1. PICK ps \in {<<>>} \cup {<<p>> : p \in Proposals} : pending' = ps
      BY <2>2 DEF PlanFails
    <3>2. replans < MaxReplans /\ replans' = replans + 1
      BY <2>2 DEF PlanFails
    <3> QED
      BY <3>1, <3>2, RepairFacts
  <2> QED
    BY <2>1, <2>2
<1>3. LoopTypeOK'
  BY <1>1, <1>2 DEF LoopTypeOK, results
<1>4. PhaseInv' /\ BudgetInv' /\ GoalInv' /\ RejectionInv'
  BY <1>1 DEF PhaseInv, BudgetInv, GoalInv, RejectionInv
<1>5. VerdictInv'
  BY <1>1 DEF VerdictInv, PhaseInv
<1> QED
  BY <1>3, <1>4, <1>5

\* A plan is taken only with its calls within the budget.
LEMMA PlanStep == LoopInv /\ Plan => LoopInv'
<1> SUFFICES ASSUME LoopInv, Plan PROVE LoopInv'
  OBVIOUS
<1> USE DEF LoopInv
<1>1. /\ pc = "plan" /\ UNCHANGED <<config, iteration, goal, proposals, pending, replans, results>>
      /\ \/ pc' = "finished" /\ stop' \in {"no_satisfactory_plan", "tool_call_budget_exceeded"}
         \/ pc' = "execute" /\ UNCHANGED stop
  BY DEF Plan, Stop
<1>2. calls' \in Nat /\ (config.maxCalls # 0 => calls' <= config.maxCalls)
  <2>1. CASE UNCHANGED calls
    BY <2>1 DEF LoopTypeOK, BudgetInv
  <2>2. CASE ~UNCHANGED calls
    <3>1. Selected \in Proposals /\ ~OverToolCalls(Selected) /\ calls' = calls + Len(Selected.tools)
      BY <2>2, SelectedFacts DEF Plan
    <3>2. Selected.tools \in Seq(Registered \cup {"unregistered"})
      BY <3>1, LoopAssumption
    <3> DEFINE n == Len(Selected.tools)
    <3>3. n \in Nat
      BY <3>2
    <3>4. config.maxCalls \in Nat
      BY LoopAssumption DEF LoopTypeOK
    <3>5. ~(config.maxCalls # 0 /\ calls + n > config.maxCalls) /\ calls' = calls + n
      BY <3>1 DEF OverToolCalls
    <3> HIDE DEF n
    <3> QED
      BY <3>3, <3>4, <3>5 DEF LoopTypeOK
  <2> QED
    BY <2>1, <2>2
<1>3. LoopTypeOK'
  BY <1>1, <1>2 DEF LoopTypeOK, results
<1>4. PhaseInv' /\ BudgetInv' /\ GoalInv' /\ RejectionInv'
  BY <1>1, <1>2 DEF PhaseInv, BudgetInv, GoalInv, RejectionInv
<1>5. VerdictInv'
  BY <1>1 DEF VerdictInv, PhaseInv
<1> QED
  BY <1>3, <1>4, <1>5

\* The execution of a plan: where the goal ends, which event is the last.
LEMMA ExecuteStep == LoopInv /\ Execute => LoopInv'
<1> SUFFICES ASSUME LoopInv, Execute PROVE LoopInv'
  OBVIOUS
<1> USE DEF LoopInv
<1>1. PICK cause \in Causes \cup {"none"} :
        \E s \in IF cause = "none" THEN {AllVerified(Len(plan.tools))}
                 ELSE IF cause = "budget" THEN OverBudget(Len(plan.tools))
                 ELSE UNION {FailedAt(Len(plan.tools), f, cause) : f \in DOMAIN plan.tools} :
          /\ statuses' = s
          /\ goal' = GoalAfter(s)
          /\ LET o == IF cause = "budget" THEN {} ELSE Observed(s, cause)
             IN  \E v \in [o -> UNION {FactValues[k] \ {Absent} : k \in o}] :
                   /\ \A k \in o : v[k] \in FactValues[k]
                   /\ facts' = [k \in FactKeys |-> IF k \in o THEN v[k] ELSE facts[k]]
          /\ IF cause = "none" THEN UNCHANGED last
             ELSE \E e \in LastEvents(s, cause) : last' = IF e = NoEvent THEN last ELSE e
          /\ rejected' = (cause = "rejected")
  BY DEF Execute
<1>2. /\ pc = "execute" /\ pc' = "evaluate" /\ proposals' = <<>>
      /\ UNCHANGED <<config, iteration, pending, replans, calls, executed,
                     evaluation, remembered, stop>>
  BY DEF Execute
<1>3. goal' \in {"PARTIALLY_DONE", "BLOCKED", "FAILED"}
  BY <1>1, GoalAfterPlan
<1>4. \A k \in FactKeys : facts'[k] \in FactValues[k]
  BY <1>1 DEF LoopTypeOK
<1>5. rejected' /\ (\A k \in DOMAIN statuses' : statuses'[k] # "FAILED")
        => last'.type = "approval.rejected"
  <2> SUFFICES ASSUME rejected', \A k \in DOMAIN statuses' : statuses'[k] # "FAILED"
               PROVE  last'.type = "approval.rejected"
    OBVIOUS
  <2>1. CASE cause = "rejected"
    <3>0. LastEvents(statuses', "rejected") = CauseEvents("rejected")
      BY DEF LastEvents, CompensationFailed
    <3>1. \E e \in CauseEvents("rejected") : last' = IF e = NoEvent THEN last ELSE e
      BY <1>1, <2>1, <3>0
    <3>2. \A e \in CauseEvents("rejected") : e.type = "approval.rejected" /\ e # NoEvent
      BY DEF CauseEvents, Event, NoEvent
    <3> QED
      BY <3>1, <3>2
  <2>2. CASE cause # "rejected"
    BY <1>1, <2>2
  <2> QED
    BY <2>1, <2>2
<1>6. LoopTypeOK'
  BY <1>2, <1>4 DEF LoopTypeOK
<1>7. PhaseInv' /\ BudgetInv' /\ GoalInv' /\ RejectionInv'
  BY <1>2, <1>3, <1>5 DEF PhaseInv, BudgetInv, GoalInv, RejectionInv
<1>8. VerdictInv'
  BY <1>2 DEF VerdictInv, PhaseInv
<1> QED
  BY <1>6, <1>7, <1>8

\* The evaluation moves the goal to success for that verdict alone.
LEMMA EvaluateStep == LoopInv /\ EvaluateGoal => LoopInv'
<1> SUFFICES ASSUME LoopInv, EvaluateGoal PROVE LoopInv'
  OBVIOUS
<1> USE DEF LoopInv
<1>1. /\ pc = "evaluate" /\ pc' = "decide"
      /\ UNCHANGED <<config, iteration, proposals, pending, plan, replans, calls,
                     executed, statuses, facts, last, stop, rejected>>
  BY DEF EvaluateGoal
<1>2. \/ /\ config.evaluator
         /\ evaluation' = Evaluate(config.criteria, config.typed, facts, Phase(statuses))
         /\ goal' = GoalFor(evaluation', goal)
      \/ ~config.evaluator /\ UNCHANGED goal
  BY DEF EvaluateGoal
<1>3. LoopTypeOK'
  BY <1>1 DEF LoopTypeOK
<1>4. PhaseInv' /\ BudgetInv' /\ RejectionInv'
  BY <1>1 DEF PhaseInv, BudgetInv, RejectionInv
<1>5. GoalInv'
  <2>1. goal \in {"PARTIALLY_DONE", "BLOCKED", "FAILED"} /\ iteration > 0
    BY <1>1 DEF GoalInv
  <2>2. \/ goal' \in {"PARTIALLY_DONE", "BLOCKED", "FAILED"}
        \/ goal' = "SUCCEEDED" /\ config.evaluator /\ evaluation' = "SUCCEEDED"
    BY <1>2, <2>1, GoalForVerdict
  <2> QED
    BY <1>1, <2>1, <2>2 DEF GoalInv
<1>6. VerdictInv'
  BY <1>1, <1>2 DEF VerdictInv, PhaseInv
<1> QED
  BY <1>3, <1>4, <1>5, <1>6

\* A goal that succeeded stops the loop; any other can be planned again.
LEMMA DecideStep == LoopInv /\ Decide => LoopInv'
<1> SUFFICES ASSUME LoopInv, Decide PROVE LoopInv'
  OBVIOUS
<1> USE DEF LoopInv
<1>1. /\ pc = "decide" /\ stop = "none" /\ iteration > 0
      /\ UNCHANGED <<config, iteration, goal, proposals, plan, calls, executed, results>>
  BY DEF Decide, PhaseInv, GoalInv
<1>2. \/ pc' = "iterate" /\ UNCHANGED stop /\ StopReason # "goal_succeeded"
      \/ pc' = "finished" /\ stop' = StopReason
  BY DEF Decide, Stop, MayRepair
<1>3. goal = "SUCCEEDED" => StopReason = "goal_succeeded"
  BY <1>1 DEF GoalInv, StopReason
<1>4. StopReason = "goal_succeeded" /\ config.evaluator => evaluation = "SUCCEEDED"
  BY DEF StopReason
<1>5. /\ replans' \in 0 .. MaxReplans
      /\ pending' \in Seq(Proposals) /\ Len(pending') <= 2
  <2>1. CASE UNCHANGED <<replans, pending>>
    BY <2>1 DEF LoopTypeOK
  <2>2. CASE ~UNCHANGED <<replans, pending>>
    <3>1. PICK ps \in {<<>>} \cup {<<p>> : p \in Proposals} : pending' = ps
      BY <2>2 DEF Decide
    <3>2. replans < MaxReplans /\ replans' = replans + 1
      BY <2>2 DEF Decide, MayRepair
    <3> QED
      BY <3>1, <3>2, RepairFacts
  <2> QED
    BY <2>1, <2>2
<1>6. LoopTypeOK'
  BY <1>1, <1>2, <1>5 DEF LoopTypeOK, results
<1>7. PhaseInv' /\ BudgetInv' /\ RejectionInv'
  BY <1>1, <1>2 DEF PhaseInv, BudgetInv, RejectionInv
<1>8. GoalInv'
  BY <1>1, <1>2, <1>3, PlanLeavesPlannable DEF GoalInv
<1>9. VerdictInv'
  BY <1>1, <1>2, <1>4 DEF VerdictInv, results
<1> QED
  BY <1>6, <1>7, <1>8, <1>9

\* What holds of the loop wherever it stands.
THEOREM Invariance == Spec => []LoopInv
<1>1. Init => LoopInv
  <2> SUFFICES ASSUME Init PROVE LoopInv
    OBVIOUS
  <2>1. \A k \in FactKeys : facts[k] \in FactValues[k]
    <3>1. \A k \in FactKeys : Absent \in FactValues[k]
      BY DEF FactKeys, FactValues
    <3> QED
      BY <3>1 DEF Init
  <2>2. 0 \in 0 .. MaxReplans /\ config \in Configs /\ config.maxCalls \in Nat
    <3>1. config \in Configs
      BY DEF Init
    <3>2. config.maxCalls \in Nat
      BY <3>1, LoopAssumption
    <3> QED
      BY <3>1, <3>2, LimitsAreNaturals
  <2>3. LoopTypeOK
    BY <2>1, <2>2 DEF Init, LoopTypeOK
  <2> QED
    BY <2>2, <2>3 DEF Init, LoopInv, PhaseInv, BudgetInv, GoalInv, RejectionInv, VerdictInv
<1>2. LoopInv /\ [Next]_vars => LoopInv'
  <2> SUFFICES ASSUME LoopInv, [Next]_vars PROVE LoopInv'
    OBVIOUS
  <2>1. CASE UNCHANGED vars
    BY <2>1 DEF vars, LoopInv, LoopTypeOK, PhaseInv, BudgetInv, GoalInv, RejectionInv, VerdictInv
  <2>2. CASE Next
    BY <2>2, NextIterationStep, ProposeStep, RaiseStep, PlanFailsStep, PlanStep, ExecuteStep,
       EvaluateStep, DecideStep DEF Next
  <2> QED
    BY <2>1, <2>2
<1> QED
  BY <1>1, <1>2, PTL DEF Spec

\* agent_loop: a run that ends in goal_succeeded has evidence for every criterion.
THEOREM SuccessIsEarned == Spec => []SuccessHasEvidence
<1>1. LoopInv => SuccessHasEvidence
  <2> SUFFICES ASSUME LoopInv, stop = "goal_succeeded", config.evaluator
               PROVE  SuccessHasEvidence
    BY DEF SuccessHasEvidence
  <2>1. LoopTypeOK /\ Evaluate(config.criteria, config.typed, facts, Phase(statuses)) = "SUCCEEDED"
    BY DEF LoopInv, VerdictInv
  <2> QED
    BY <2>1, SuccessfulGoal DEF SuccessHasEvidence
<1> QED
  BY <1>1, Invariance, PTL

\* agent_loop: another iteration can always be planned, and the calls and the
\* repairs of a run stay within their limits.
THEOREM LimitsHold == Spec => []RepeatsWithinLimits
<1>1. LoopInv => RepeatsWithinLimits
  <2> SUFFICES ASSUME LoopInv PROVE RepeatsWithinLimits
    OBVIOUS
  <2>1. replans \in 0 .. MaxReplans
    BY DEF LoopInv, LoopTypeOK
  <2>2. replans <= MaxReplans
    BY <2>1, LimitsAreNaturals
  <2> QED
    BY <2>2 DEF LoopInv, GoalInv, BudgetInv, RepeatsWithinLimits
<1> QED
  BY <1>1, Invariance, PTL

\* replanning: what a human rejected is not repaired, as long as no compensation
\* of the rejected plan failed.
THEOREM RejectionsStand == Spec => RejectionIsNotRepaired
<1>1. LoopInv /\ [Next]_vars => 
        [pc = "decide" /\ rejected /\ (\A k \in DOMAIN statuses : statuses[k] # "FAILED")
           => pending' = <<>>]_vars
  <2> SUFFICES ASSUME LoopInv, Next, pc = "decide", rejected,
                      \A k \in DOMAIN statuses : statuses[k] # "FAILED"
               PROVE  pending' = <<>>
    OBVIOUS
  <2>1. pending = <<>> /\ last.type = "approval.rejected"
    BY DEF LoopInv, PhaseInv, RejectionInv
  <2>2. ~AnalysisRetryable(statuses, last)
    BY <2>1, RejectionIsFinal
  <2>3. Decide
    BY DEF Next, NextIteration, Propose, PlanningRefused, PlanFails, Plan, Execute,
           ExecuteRaises, EvaluateGoal
  <2> QED
    BY <2>1, <2>2, <2>3 DEF Decide
<1> QED
  BY <1>1, Invariance, PTL DEF Spec, RejectionIsNotRepaired

=============================================================================
