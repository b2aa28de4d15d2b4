----------------------------- MODULE AgentLoop -----------------------------
(***************************************************************************)
(* AgentLoop.run of agent_loop.py with the planner (planner.py), the goal  *)
(* evaluator and the failure analysis it calls: propose, select, execute,  *)
(* evaluate, and stop, repair or go on.  The provider's proposals and what *)
(* a plan does are chosen freely (PlanOutcomes says what execute_plan may  *)
(* leave); the goal, the facts, the budgets and the audit log's last       *)
(* failure event carry over from iteration to iteration.                   *)
(***************************************************************************)
EXTENDS Integers, Sequences, Goals, GoalEvaluation, PlanOutcomes

CONSTANTS
    Registered,     \* the tools of the registry
    Risk,           \* their assessed risk, 1 (low) .. 4 (critical)
    Observes,       \* the fact each tool's result reports
    MaxRisk,        \* planner_config.max_risk
    Proposals,      \* the proposals a provider may make
    Configs,        \* loop configurations and goals, see below
    MaxIterations,
    MaxReplans

\* A proposal is [tools, worthwhile]: worthwhile when its cost and benefit are
\* within the planner's limits.  A configuration is [evaluator, criteria,
\* typed, repair, maxCalls]: use_goal_evaluator, the goal's criteria, whether
\* the provider has propose_repair, and max_tool_calls.
ASSUME LoopAssumption ==
    /\ Risk \in [Registered -> 1 .. 4]
    /\ Observes \in [Registered -> FactKeys]
    /\ MaxIterations \in Nat \ {0}
    /\ MaxReplans \in Nat
    /\ \A p \in Proposals : p.tools \in Seq(Registered \cup {"unregistered"})
    /\ \A c \in Configs :
         /\ c.criteria \subseteq {"tests pass", "file updated", "pr opened", "ci passed", "other"}
         /\ c.maxCalls \in Nat

VARIABLES
    config,      \* chosen once
    pc,          \* where run is
    iteration,
    goal,        \* current_goal.status
    proposals,   \* the candidates of this iteration
    pending,     \* pending_repair_proposals
    plan,        \* the selected proposal
    replans,     \* replan_attempts
    calls,       \* tool_calls_used
    executed,    \* len(selected_plans)
    statuses,    \* step statuses of the plan executed last
    facts,       \* kernel.state.facts
    last,        \* the last failure event in the audit log
    evaluation,  \* status of the last evaluation, "none" before
    remembered,  \* goal status in the newest memory record of the goal
    stop,        \* stop_reason
    rejected     \* history: an approval was rejected in the plan executed last

vars == <<config, pc, iteration, goal, proposals, pending, plan, replans, calls,
          executed, statuses, facts, last, evaluation, remembered, stop, rejected>>

results == <<statuses, facts, last, evaluation, remembered, rejected>>

NoPlan == [tools |-> <<>>, worthwhile |-> FALSE]

Init ==
    /\ config \in Configs
    /\ pc = "iterate"
    /\ iteration = 0
    /\ goal \in {"CREATED", "SUCCEEDED"}
    /\ proposals = <<>>
    /\ pending = <<>>
    /\ plan = NoPlan
    /\ replans = 0
    /\ calls = 0
    /\ executed = 0
    /\ statuses = <<>>
    /\ facts = [k \in FactKeys |-> Absent]
    /\ last = NoEvent
    /\ evaluation = "none"
    /\ remembered = "none"
    /\ stop = "none"
    /\ rejected = FALSE

-----------------------------------------------------------------------------
Stop(reason) ==
    /\ stop' = reason
    /\ pc' = "finished"

\* An exception nothing in run catches.
Raise == pc' = "raised" /\ UNCHANGED stop

\* The head of the for loop.
NextIteration ==
    /\ pc = "iterate"
    /\ IF iteration < MaxIterations
       THEN /\ iteration' = iteration + 1
            /\ pc' = "propose"
            /\ UNCHANGED stop
       ELSE Stop("max_iterations_reached") /\ UNCHANGED iteration
    /\ UNCHANGED <<config, goal, proposals, pending, plan, replans, calls,
                   executed, results>>

\* The repair proposals of the previous iteration, or the provider's.
Propose ==
    /\ pc = "propose"
    /\ \/ /\ pending # <<>>
          /\ proposals' = pending
          /\ pc' = "plan" /\ UNCHANGED stop
       \/ /\ pending = <<>>
          /\ \E ps \in {<<>>} \cup {<<p>> : p \in Proposals}
                       \cup {<<p, q>> : p, q \in Proposals} :
               /\ proposals' = ps
               /\ IF ps = <<>> THEN Stop("no_plan")
                  ELSE pc' = "plan" /\ UNCHANGED stop
       \/ pending = <<>> /\ Raise /\ UNCHANGED proposals
    /\ pending' = <<>>
    /\ UNCHANGED <<config, iteration, goal, plan, replans, calls, executed, results>>

\* kernel.plan moves the goal to PLANNING first; a refused transition is an
\* InvalidGoalTransition, which run does not catch.
PlanningRefused ==
    /\ pc = "plan" /\ "PLANNING" \notin Allowed[goal]
    /\ Raise
    /\ UNCHANGED <<config, iteration, goal, proposals, pending, plan, replans,
                   calls, executed, results>>

\* Planner.score looks every tool of every candidate up.
KeyError == \E k \in DOMAIN proposals :
                \E t \in DOMAIN proposals[k].tools :
                    proposals[k].tools[t] \notin Registered

PlanRisk(p) ==
    LET risks == {Risk[p.tools[t]] : t \in DOMAIN p.tools}
    IN  IF risks = {} THEN 1 ELSE CHOOSE r \in risks : \A s \in risks : r >= s

Satisfies(p) == p.worthwhile /\ PlanRisk(p) <= MaxRisk

\* select_satisfactory: the first candidate within the limits.
Selected ==
    IF \E k \in DOMAIN proposals : Satisfies(proposals[k])
    THEN proposals[CHOOSE k \in DOMAIN proposals :
                     /\ Satisfies(proposals[k])
                     /\ \A j \in 1 .. k - 1 : ~Satisfies(proposals[j])]
    ELSE NoPlan

\* An unregistered tool is analysed as UNKNOWN_TOOL, and repaired once more.
PlanFails ==
    /\ pc = "plan" /\ "PLANNING" \in Allowed[goal]
    /\ KeyError
    /\ \/ /\ replans < MaxReplans /\ config.repair
          /\ replans' = replans + 1
          /\ \E ps \in {<<>>} \cup {<<p>> : p \in Proposals} :
               /\ pending' = ps
               /\ IF ps = <<>> THEN Stop("no_satisfactory_plan")
                  ELSE pc' = "iterate" /\ UNCHANGED stop
       \/ /\ ~(replans < MaxReplans /\ config.repair)
          /\ Stop("no_satisfactory_plan")
          /\ UNCHANGED <<replans, pending>>
    /\ UNCHANGED <<config, iteration, goal, proposals, plan, calls, executed, results>>

\* 0 stands for no limit.
OverToolCalls(p) ==
    config.maxCalls # 0 /\ calls + Len(p.tools) > config.maxCalls

Plan ==
    /\ pc = "plan" /\ "PLANNING" \in Allowed[goal]
    /\ ~KeyError
    /\ \/ /\ Selected = NoPlan
          /\ Stop("no_satisfactory_plan")
          /\ UNCHANGED <<plan, calls, executed>>
       \/ /\ Selected # NoPlan /\ OverToolCalls(Selected)
          /\ Stop("tool_call_budget_exceeded")
          /\ UNCHANGED <<plan, calls, executed>>
       \/ /\ Selected # NoPlan /\ ~OverToolCalls(Selected)
          /\ plan' = Selected
          /\ calls' = calls + Len(Selected.tools)
          /\ executed' = executed + 1
          /\ pc' = "execute" /\ UNCHANGED stop
    /\ UNCHANGED <<config, iteration, goal, proposals, pending, replans, results>>

\* The facts the steps observed: the ones that got through, also when they
\* were rolled back later, and the failing one when its verification failed.
Observed(s, cause) ==
    {Observes[plan.tools[k]] :
       k \in {j \in DOMAIN s : \/ s[j] = "VERIFIED"
                               \/ \E f \in DOMAIN s : f > j /\ s[f] # "PENDING"
                               \/ cause \in {"verification", "postcondition"}
                                  /\ s[j] # "PENDING"}}

\* kernel.run: the tools answer what they will.
Execute ==
    /\ pc = "execute"
    /\ \E cause \in Causes \cup {"none"} :
         \E s \in IF cause = "none" THEN {AllVerified(Len(plan.tools))}
                  ELSE IF cause = "budget" THEN OverBudget(Len(plan.tools))
                  ELSE UNION {FailedAt(Len(plan.tools), f, cause) :
                                f \in DOMAIN plan.tools} :
           /\ statuses' = s
           /\ goal' = GoalAfter(s)
           /\ LET o == IF cause = "budget" THEN {} ELSE Observed(s, cause)
              IN  \E v \in [o -> UNION {FactValues[k] \ {Absent} : k \in o}] :
                    /\ \A k \in o : v[k] \in FactValues[k]
                    /\ facts' = [k \in FactKeys |-> IF k \in o THEN v[k] ELSE facts[k]]
           /\ IF cause = "none" THEN UNCHANGED last
              ELSE \E e \in LastEvents(s, cause) :
                     last' = IF e = NoEvent THEN last ELSE e
           /\ rejected' = (cause = "rejected")
    /\ pc' = "evaluate"
    /\ plan' = NoPlan /\ proposals' = <<>>    \* not used any more
    /\ UNCHANGED <<config, iteration, pending, replans, calls, executed,
                   evaluation, remembered, stop>>

\* A tool, the policy or the approval gate raises inside execute_plan.
ExecuteRaises ==
    /\ pc = "execute"
    /\ Raise
    /\ UNCHANGED <<config, iteration, goal, proposals, pending, plan, replans,
                   calls, executed, results>>

Target ==
    [SUCCEEDED |-> "SUCCEEDED", FAILED |-> "FAILED", BLOCKED |-> "BLOCKED"]

\* _transition_goal_for_evaluation: a transition the goal does not allow is
\* skipped.
GoalFor(ev, g) ==
    IF ev \in DOMAIN Target /\ Target[ev] \in Allowed[g] THEN Target[ev] ELSE g

\* track_progress, the goal evaluation and the memory of the iteration.
EvaluateGoal ==
    /\ pc = "evaluate"
    /\ IF config.evaluator
       THEN /\ evaluation' = Evaluate(config.criteria, config.typed, facts,
                                      Phase(statuses))
            /\ goal' = GoalFor(evaluation', goal)
       ELSE UNCHANGED <<evaluation, goal>>
    /\ remembered' = goal'
    /\ pc' = "decide"
    /\ UNCHANGED <<config, iteration, proposals, pending, plan, replans, calls,
                   executed, statuses, facts, last, stop, rejected>>

\* Defect: a goal that succeeded does not end the loop.
StopReason_NoSuccess ==
    LET s == IF config.evaluator THEN evaluation ELSE goal
    IN  CASE s = "BLOCKED" -> "goal_blocked"
          [] s = "FAILED" -> "goal_failed"
          [] OTHER -> "none"

\* _evaluation_stop_reason, or _stop_reason of the goal without an evaluator.
StopReason ==
    LET s == IF config.evaluator THEN evaluation ELSE goal
    IN  CASE s = "SUCCEEDED" -> "goal_succeeded"
          [] s = "BLOCKED" -> "goal_blocked"
          [] s = "FAILED" -> "goal_failed"
          [] OTHER -> "none"

MayRepair ==
    /\ StopReason \in {"goal_failed", "goal_blocked"}
    /\ replans < MaxReplans
    /\ config.repair

\* Stop, ask the provider for a repair, or go on with the next iteration.
Decide ==
    /\ pc = "decide"
    /\ \/ /\ StopReason = "none"
          /\ pc' = "iterate"
          /\ UNCHANGED <<stop, replans, pending>>
       \/ /\ MayRepair /\ AnalysisRetryable(statuses, last)
          /\ replans' = replans + 1
          /\ \E ps \in {<<>>} \cup {<<p>> : p \in Proposals} :
               /\ pending' = ps
               /\ IF ps = <<>> THEN Stop(StopReason)
                  ELSE pc' = "iterate" /\ UNCHANGED stop
       \/ /\ StopReason # "none"
          /\ ~(MayRepair /\ AnalysisRetryable(statuses, last))
          /\ Stop(StopReason)
          /\ UNCHANGED <<replans, pending>>
    /\ UNCHANGED <<config, iteration, goal, proposals, plan, calls, executed, results>>

Next ==
    \/ NextIteration \/ Propose \/ PlanningRefused \/ PlanFails \/ Plan
    \/ Execute \/ ExecuteRaises \/ EvaluateGoal \/ Decide

Spec == Init /\ [][Next]_vars

-----------------------------------------------------------------------------
\* What one criterion asks of the facts, said without the rules.
HasEvidence(c) ==
    \/ c = "tests pass" /\ facts["tests_ok"] = "true"
    \/ c = "file updated" /\ facts["file_written"] = "written"
    \/ c = "pr opened" /\ facts["github_pr"] \in {"open", "numbered"}
    \/ c = "ci passed" /\ facts["github_ci_status"] = "green"

\* The loop reports success only with evidence in the facts for every
\* criterion of the goal and every required typed criterion; a criterion no
\* rule knows is passed over only when no rule knows any of them, and then
\* every step of the last plan was verified.
SuccessHasEvidence ==
    stop = "goal_succeeded" /\ config.evaluator =>
        \/ /\ \A c \in config.criteria : HasEvidence(c)
           /\ \A t \in config.typed : t.required => TypedHolds(t, facts)
        \/ /\ config.typed = {} /\ config.criteria = {"other"}
           /\ statuses # <<>>
           /\ \A k \in DOMAIN statuses : statuses[k] = "VERIFIED"

\* Going round again never raises InvalidGoalTransition (after each iteration
\* that does not stop the loop, the goal may be planned again), and stays in
\* the budgets: the calls of all the plans of a run together, repairs included,
\* within max_tool_calls, and the repairs, whichever way they were asked for,
\* within max_replans.
RepeatsWithinLimits ==
    /\ pc = "plan" /\ iteration > 1 => "PLANNING" \in Allowed[goal]
    /\ config.maxCalls # 0 => calls <= config.maxCalls
    /\ replans <= MaxReplans

\* A plan a human rejected is not repaired, whatever words the rejection and
\* the failures of earlier plans contain, unless the compensation of one of its
\* steps failed after the rejection: then the message of that failure decides.
RejectionIsNotRepaired ==
    [][pc = "decide" /\ rejected /\ (\A k \in DOMAIN statuses : statuses[k] # "FAILED")
         => pending' = <<>>]_vars
=============================================================================
