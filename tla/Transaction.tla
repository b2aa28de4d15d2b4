---------------------------- MODULE Transaction ----------------------------
(***************************************************************************)
(* TransactionManager.execute_plan of transactions.py: the steps of a plan *)
(* are gated, dry-run, executed, verified, and rolled back in reverse on   *)
(* the first failure.  What the policy, the approval gate, the sandbox and *)
(* the tools answer is chosen freely; what depends on the agent's own      *)
(* state (goal status, facts, idempotency markers, rollback stack) is      *)
(* computed.  The same plan object may be executed again, as TaskRunner    *)
(* does when it retries a task: statuses, facts and markers carry over.    *)
(*                                                                         *)
(* world says which effects really are in place outside the agent.  The    *)
(* facts are what the agent believes of them.                              *)
(***************************************************************************)
EXTENDS Integers, Sequences, Goals

CONSTANTS
    N,        \* number of steps of the plan
    Keyed,    \* the steps with an idempotency_key
    Needs,    \* the facts each step's preconditions require to be verified
    MaxRuns   \* bound: executions of the plan

Steps == 1 .. N

ASSUME TransactionAssumption ==
    /\ N \in Nat
    /\ Keyed \subseteq Steps
    /\ Needs \in [Steps -> SUBSET Steps]
    /\ MaxRuns \in Nat

VARIABLES
    pc,        \* where execute_plan is
    run,       \* number of executions begun
    i,         \* the current step
    goal,      \* plan.goal.status
    status,    \* step.status
    decision,  \* what the policy decided for the current step
    approved,  \* an approval was consumed for the current step
    stack,     \* rollback_stack: the steps with a token, latest last
    before,    \* per step: the effect its rollback token restores
    world,     \* per step: its effect is in place
    facts,     \* per step: trust in the facts it observed
    markers,   \* the steps whose idempotency marker is in state.facts
    recovery,  \* the steps with a manual recovery packet of this execution
    pushed,    \* history: steps that left a token in this execution
    verified   \* history: how often each step was verified

vars == <<pc, run, i, goal, status, decision, approved, stack, before, world,
          facts, markers, recovery, pushed, verified>>

StepStatus == {"PENDING", "DRY_RUN_OK", "EXECUTED", "VERIFIED", "ROLLED_BACK",
               "FAILED", "BLOCKED"}
Trust == {"none", "tool_reported", "verified"}

Init ==
    /\ pc = "idle"
    /\ run = 0
    /\ i = 1
    /\ goal \in {"CREATED", "PLANNING"}
    /\ status = [s \in Steps |-> "PENDING"]
    /\ decision = "none"
    /\ approved = FALSE
    /\ stack = <<>>
    /\ before = [s \in Steps |-> FALSE]
    /\ world = [s \in Steps |-> FALSE]
    /\ facts = [s \in Steps |-> "none"]
    /\ markers = {}
    /\ recovery = {}
    /\ pushed = {}
    /\ verified = [s \in Steps |-> 0]

\* The variables of the agent's state and of the world, and of the loop.
beliefs == <<facts, markers, recovery, verified>>
loop == <<run, i, goal, decision, approved>>

-----------------------------------------------------------------------------
\* The step fails with this status and everything executed is rolled back.
Abort(st) ==
    /\ status' = [status EXCEPT ![i] = st]
    /\ pc' = "rollback"

\* execute_plan begins: an InvalidGoalTransition propagates to the caller.
ExecutePlan ==
    /\ pc \in {"idle", "finished", "raised"}
    /\ run < MaxRuns
    /\ run' = run + 1
    /\ i' = 1
    /\ stack' = <<>>
    /\ pushed' = {}
    /\ recovery' = {}
    /\ decision' = "none"
    /\ approved' = FALSE
    /\ \/ /\ CanMove(goal, "RUNNING")
          /\ goal' = "RUNNING"
          /\ pc' = "budget"
       \/ /\ ~CanMove(goal, "RUNNING")
          /\ goal' = goal
          /\ pc' = "raised"
    /\ UNCHANGED <<status, before, world, facts, markers, verified>>

\* _budget_exceeded: one step is marked and the plan ends at once; an unknown
\* tool raises outside the production profiles.
Budget ==
    /\ pc = "budget"
    /\ \/ pc' = "gates" /\ UNCHANGED status
       \/ /\ pc' = "finish"
          /\ status' \in IF Steps = {} THEN {status}
                        ELSE {[status EXCEPT ![s] = "BLOCKED"] : s \in Steps}
       \/ pc' = "raised" /\ UNCHANGED status
    /\ UNCHANGED <<loop, stack, before, world, pushed, beliefs>>

\* The loop ends after the last step.
NoMoreSteps ==
    /\ pc = "gates" /\ i > N
    /\ pc' = "finish"
    /\ UNCHANGED <<loop, status, stack, before, world, pushed, beliefs>>

\* Tool lookup, runtime attestation, production policy, sandbox and secrets.
StaticGates ==
    /\ pc = "gates" /\ i \in Steps
    /\ \/ pc' = "idempotency" /\ UNCHANGED status
       \/ Abort("BLOCKED")
    /\ UNCHANGED <<loop, stack, before, world, pushed, beliefs>>

\* Defect: a consumed key is not recognised.
IdempotencyConflict_Never == FALSE

IdempotencyConflict == i \in Keyed /\ i \in markers

IdempotencyGate ==
    /\ pc = "idempotency"
    /\ IF IdempotencyConflict
       THEN Abort("BLOCKED")
       ELSE pc' = "preconditions" /\ UNCHANGED status
    /\ UNCHANGED <<loop, stack, before, world, pushed, beliefs>>

PreconditionGate ==
    /\ pc = "preconditions"
    /\ IF \A s \in Needs[i] : facts[s] = "verified"
       THEN pc' = "policy" /\ UNCHANGED status
       ELSE Abort("BLOCKED")
    /\ UNCHANGED <<loop, stack, before, world, pushed, beliefs>>

\* policy.decide; under NEEDS_HUMAN the dry run comes before the approval.
PolicyGate ==
    /\ pc = "policy"
    /\ decision' \in {"APPROVED", "NEEDS_HUMAN", "DENIED"}
    /\ \/ /\ decision' = "APPROVED"
          /\ pc' = "dryRun" /\ UNCHANGED status
       \/ /\ decision' = "NEEDS_HUMAN"
          /\ \/ pc' = "approval" /\ status' = [status EXCEPT ![i] = "DRY_RUN_OK"]
             \/ Abort("FAILED")
       \/ decision' = "DENIED" /\ Abort("BLOCKED")
    /\ approved' = FALSE
    /\ UNCHANGED <<run, i, goal, stack, before, world, pushed, beliefs>>

\* Packet preparation, the decision and its validation, and its consumption:
\* any of them may reject the step.
HumanApproval ==
    /\ pc = "approval"
    /\ \/ pc' = "execute" /\ approved' = TRUE /\ UNCHANGED status
       \/ Abort("BLOCKED") /\ UNCHANGED approved
    /\ UNCHANGED <<run, i, goal, decision, stack, before, world, pushed, beliefs>>

DryRun ==
    /\ pc = "dryRun"
    /\ \/ pc' = "execute" /\ status' = [status EXCEPT ![i] = "DRY_RUN_OK"]
       \/ Abort("FAILED")
    /\ UNCHANGED <<loop, stack, before, world, pushed, beliefs>>

\* tool.execute returns ok, with a rollback token or without.
ExecuteOk ==
    /\ pc = "execute"
    /\ world' = [world EXCEPT ![i] = TRUE]
    /\ status' = [status EXCEPT ![i] = "EXECUTED"]
    /\ \/ /\ stack' = Append(stack, i)
          /\ before' = [before EXCEPT ![i] = world[i]]
          /\ pushed' = pushed \cup {i}
       \/ UNCHANGED <<stack, before, pushed>>
    /\ pc' = "output"
    /\ UNCHANGED <<loop, beliefs>>

\* tool.execute reports failure; it may have done its work all the same, and
\* no token was pushed for it.
ExecuteFails ==
    /\ pc = "execute"
    /\ \E done \in {world[i], TRUE} : world' = [world EXCEPT ![i] = done]
    /\ Abort("FAILED")
    /\ UNCHANGED <<loop, stack, before, pushed, beliefs>>

\* A call of a gate, the policy, the tool or the causal model raises, or the
\* audit log when it is told of the step or of its failure: nothing catches it,
\* the rollback stack is lost and the goal stays RUNNING.
Raises ==
    /\ pc \in {"gates", "idempotency", "preconditions", "policy", "approval", "dryRun",
              "execute", "output", "verify"}
    /\ i \in Steps
    /\ \/ UNCHANGED status
       \/ \E st \in {"FAILED", "BLOCKED"} : status' = [status EXCEPT ![i] = st]
    /\ \/ UNCHANGED world
       \/ pc = "execute" /\ world' = [world EXCEPT ![i] = TRUE]
    /\ \/ UNCHANGED facts
       \/ pc = "verify" /\ facts' = [facts EXCEPT ![i] = "tool_reported"]
    /\ pc' = "raised"
    /\ UNCHANGED <<loop, stack, before, pushed, markers, recovery, verified>>

\* Output schema and causal contract.
CheckOutput ==
    /\ pc = "output"
    /\ \/ pc' = "verify" /\ UNCHANGED status
       \/ Abort("FAILED")
    /\ UNCHANGED <<loop, stack, before, world, pushed, beliefs>>

\* The observed facts enter the state before the causal predictions and the
\* postconditions are checked against them.
VerifyFails ==
    /\ pc = "verify"
    /\ facts' = [facts EXCEPT ![i] = "tool_reported"]
    /\ Abort("FAILED")
    /\ UNCHANGED <<loop, stack, before, world, pushed, markers, recovery, verified>>

\* _record_idempotency_key
Marked == IF i \in Keyed THEN markers \cup {i} ELSE markers

VerifyOk ==
    /\ pc = "verify"
    /\ facts' = [facts EXCEPT ![i] = "verified"]
    /\ markers' = Marked
    /\ status' = [status EXCEPT ![i] = "VERIFIED"]
    /\ verified' = [verified EXCEPT ![i] = @ + 1]
    /\ i' = i + 1
    /\ pc' = "gates"
    /\ UNCHANGED <<run, goal, decision, approved, stack, before, world, pushed,
                   recovery>>

\* The audit log raises once the facts are trusted: at the grant use, at the
\* marker, or at the very last record of the step.
VerifyRaises ==
    /\ pc = "verify"
    /\ facts' = [facts EXCEPT ![i] = "verified"]
    /\ \/ markers' \in {markers, Marked} /\ UNCHANGED <<status, verified>>
       \/ /\ markers' = Marked
          /\ status' = [status EXCEPT ![i] = "VERIFIED"]
          /\ verified' = [verified EXCEPT ![i] = @ + 1]
    /\ pc' = "raised"
    /\ UNCHANGED <<loop, stack, before, world, pushed, recovery>>

-----------------------------------------------------------------------------
Top == stack[Len(stack)]

\* Defect: the entry is read and not popped.
Pop_Keeps == stack

Pop == SubSeq(stack, 1, Len(stack) - 1)

\* Defect: a rolled back step keeps its VERIFIED status.
RollbackOk_KeepsStatus ==
    /\ pc = "rollback" /\ stack # <<>>
    /\ world' = [world EXCEPT ![Top] = before[Top]]
    /\ stack' = Pop
    /\ UNCHANGED <<pc, loop, status, before, pushed, beliefs>>

\* One iteration of _rollback: the compensation succeeds, fails or raises, or
\* is skipped because egress is no longer allowed.  The facts, the trust in
\* them and the idempotency marker of the step stay as they are.
RollbackOk ==
    /\ pc = "rollback" /\ stack # <<>>
    /\ world' = [world EXCEPT ![Top] = before[Top]]
    /\ status' = [status EXCEPT ![Top] = "ROLLED_BACK"]
    /\ stack' = Pop
    /\ UNCHANGED <<pc, loop, before, pushed, beliefs>>

\* Defect: a failed compensation is not reported for manual recovery.
RollbackFails_NoPacket ==
    /\ pc = "rollback" /\ stack # <<>>
    /\ \E w \in {world[Top], before[Top]} : world' = [world EXCEPT ![Top] = w]
    /\ status' = [status EXCEPT ![Top] = "FAILED"]
    /\ stack' = Pop
    /\ UNCHANGED <<pc, loop, before, pushed, beliefs>>

RollbackFails ==
    /\ pc = "rollback" /\ stack # <<>>
    /\ \E w \in {world[Top], before[Top]} : world' = [world EXCEPT ![Top] = w]
    /\ status' = [status EXCEPT ![Top] = "FAILED"]
    /\ recovery' = recovery \cup {Top}
    /\ stack' = Pop
    /\ UNCHANGED <<pc, loop, before, pushed, facts, markers, verified>>

\* The audit log raises inside _rollback: before the compensation, after it and
\* before or after the packet, or once the stack is empty.  What is left on the
\* stack is lost.
RollbackRaises ==
    /\ pc = "rollback"
    /\ \/ UNCHANGED <<world, status, recovery>>
       \/ /\ stack # <<>>
          /\ world' = [world EXCEPT ![Top] = before[Top]]
          /\ status' = [status EXCEPT ![Top] = "ROLLED_BACK"]
          /\ UNCHANGED recovery
       \/ /\ stack # <<>>
          /\ \E w \in {world[Top], before[Top]} : world' = [world EXCEPT ![Top] = w]
          /\ status' = [status EXCEPT ![Top] = "FAILED"]
          /\ recovery' \in {recovery, recovery \cup {Top}}
    /\ pc' = "raised"
    /\ UNCHANGED <<loop, stack, before, pushed, facts, markers, verified>>

RollbackDone ==
    /\ pc = "rollback" /\ stack = <<>>
    /\ pc' = "finish"
    /\ UNCHANGED <<loop, status, stack, before, world, pushed, beliefs>>

\* Defect: a plan with a blocked step is BLOCKED whatever else it did.
FinalGoalStatus_BlockedFirst ==
    IF \E s \in Steps : status[s] = "BLOCKED" THEN "BLOCKED"
    ELSE IF Steps = {} THEN "PARTIALLY_DONE"
    ELSE IF \E s \in Steps : status[s] = "VERIFIED" THEN "PARTIALLY_DONE"
    ELSE "FAILED"

\* _final_goal_status
FinalGoalStatus ==
    IF Steps = {} THEN "PARTIALLY_DONE"
    ELSE IF \E s \in Steps : status[s] = "VERIFIED" THEN "PARTIALLY_DONE"
    ELSE IF \E s \in Steps : status[s] = "BLOCKED" THEN "BLOCKED"
    ELSE "FAILED"

\* The goal changes before the audit log is told, which may raise.
Finish ==
    /\ pc = "finish"
    /\ goal' = FinalGoalStatus
    /\ pc' \in {"finished", "raised"}
    /\ UNCHANGED <<run, i, decision, approved, status, stack, before, world,
                   pushed, beliefs>>

Advance ==
    \/ Budget \/ NoMoreSteps \/ StaticGates \/ IdempotencyGate
    \/ PreconditionGate \/ PolicyGate \/ HumanApproval \/ DryRun
    \/ ExecuteOk \/ ExecuteFails \/ Raises \/ CheckOutput
    \/ VerifyFails \/ VerifyOk \/ VerifyRaises
    \/ RollbackOk \/ RollbackFails \/ RollbackRaises \/ RollbackDone \/ Finish

Next == ExecutePlan \/ Advance

Spec == Init /\ [][Next]_vars

\* Every call execute_plan makes returns or raises.
FairSpec == Spec /\ WF_vars(Advance)

-----------------------------------------------------------------------------
\* "Verification failure triggers rollback for reversible prior actions": once
\* a plan has been aborted, the effect of every step that left a rollback
\* token is undone or a manual recovery packet names the step, however many
\* of the compensations fail and however often the plan is executed again.
UndoneOrReported ==
    pc = "finished" /\ i <= N =>
        \A s \in pushed : world[s] = before[s] \/ s \in recovery

\* A step that counts as VERIFIED, and so makes the goal PARTIALLY_DONE, has
\* its effect in place, also when a later execution of the same plan fails
\* and rolls back.
VerifiedStepsStand ==
    \A s \in Steps : status[s] = "VERIFIED" => world[s]

\* A step with an idempotency key is verified at most once, however often the
\* plan is executed again in this process.
KeyedStepsVerifyOnce ==
    \A s \in Keyed : verified[s] <= 1

\* The first execution of a plan ends in one of the outcomes PlanOutcomes lists
\* for the callers of execute_plan (the agent loop is modelled on them): the
\* steps before the one that failed stand, were rolled back or are FAILED, the
\* ones behind it were not touched, and the goal tells which it was.
Plans == INSTANCE PlanOutcomes
FirstRunOutcome ==
    pc = "finished" /\ run = 1 =>
        status \in Plans!Outcomes(N) /\ goal = Plans!GoalAfter(status)

\* Every execution ends: the rollback loop terminates and each gate leads on.
ExecutionEnds ==
    pc # "idle" ~> pc \in {"finished", "raised"}

\* WorldState: "`facts` should contain verified claims".  A fact marked
\* VERIFIED describes an effect that is in place when the plan has finished.
VerifiedFactsHold ==
    pc = "finished" => \A s \in Steps : facts[s] = "verified" => world[s]
=============================================================================
