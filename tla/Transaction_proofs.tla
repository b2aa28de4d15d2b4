------------------------- MODULE Transaction_proofs -------------------------
(***************************************************************************)
(* For plans of any length, any set of keyed steps, any preconditions and  *)
(* any number of executions: an aborted plan is undone or reported, what   *)
(* counts as VERIFIED is in place, a key is consumed once, and the first   *)
(* execution ends in an outcome of PlanOutcomes.                           *)
(***************************************************************************)
EXTENDS Transaction, SequenceTheorems, TLAPS

\* Where execute_plan is inside the body of its loop over the steps.
InStep == {"idempotency", "preconditions", "policy", "approval", "dryRun",
           "execute", "output", "verify"}
Locations == InStep \cup {"idle", "budget", "gates", "rollback", "finish",
                          "finished", "raised"}

\* The type invariant.
TypeOK ==
    /\ pc \in Locations
    /\ run \in Nat
    /\ i \in 1 .. N + 1
    /\ goal \in GoalStatus
    /\ status \in [Steps -> StepStatus]
    /\ stack \in Seq(Steps)
    /\ before \in [Steps -> BOOLEAN]
    /\ world \in [Steps -> BOOLEAN]
    /\ facts \in [Steps -> Trust]
    /\ markers \subseteq Steps
    /\ recovery \subseteq Steps
    /\ pushed \subseteq Steps
    /\ verified \in [Steps -> Nat]

\* The loop variable names a step wherever a step is in hand, and the tokens
\* on the rollback stack are of steps the loop has reached.
LoopInv ==
    /\ pc \in InStep \cup {"rollback"} => i \in Steps
    /\ pc = "idle" <=> run = 0
    /\ pc = "budget" => i = 1 /\ stack = <<>> /\ pushed = {}
    /\ \A k \in 1 .. Len(stack) : stack[k] <= i

\* The token of a step that was pushed is on the stack, or the step is undone
\* or reported.
OnStack(s) == \E k \in 1 .. Len(stack) : stack[k] = s
Settled(s) == world[s] = before[s] \/ s \in recovery

UndoInv ==
    /\ pc \in InStep \cup {"gates"} => \A s \in pushed : OnStack(s)
    /\ pc = "rollback" => \A s \in pushed : OnStack(s) \/ Settled(s)
    /\ pc \in {"finish", "finished"} /\ i <= N => \A s \in pushed : Settled(s)

\* A step is only verified with its effect in place.
StandInv ==
    /\ pc \in {"output", "verify"} => world[i]
    /\ VerifiedStepsStand

\* A keyed step that was verified left its marker, and no marked step passes
\* the idempotency gate.
KeyInv ==
    /\ \A s \in Keyed : verified[s] = 0 \/ (verified[s] = 1 /\ s \in markers)
    /\ pc \in InStep \ {"idempotency"} => ~IdempotencyConflict

\* The statuses during the first execution.
Behind == \A k \in i + 1 .. N : status[k] = "PENDING"

OutcomeInv ==
    run <= 1 =>
        /\ pc \in {"idle", "budget"} => \A k \in Steps : status[k] = "PENDING"
        /\ pc \in InStep \cup {"gates"} =>
             Behind /\ \A k \in 1 .. i - 1 : status[k] = "VERIFIED"
        /\ pc = "rollback" =>
             /\ Behind
             /\ \A k \in 1 .. i - 1 : status[k] \in {"VERIFIED", "ROLLED_BACK", "FAILED"}
             /\ status[i] \in {"BLOCKED", "FAILED", "ROLLED_BACK"}
        /\ pc \in {"finish", "finished"} => status \in Plans!Outcomes(N)
        /\ pc = "finished" => goal = Plans!GoalAfter(status)

\* The inductive invariant.
Inv ==
    /\ TypeOK
    /\ LoopInv
    /\ UndoInv
    /\ StandInv
    /\ KeyInv
    /\ OutcomeInv

-----------------------------------------------------------------------------
\* An index of a stack that is not the last one is an index of what a pop leaves.
LEMMA BelowLast == \A n \in Nat : \A k \in 1 .. n : k # n => k \in 1 .. n - 1
  OBVIOUS

\* What the rollback loop reads and leaves on a stack that is not empty.
LEMMA PopFacts ==
    ASSUME stack \in Seq(Steps), stack # <<>>
    PROVE  /\ Top \in Steps
           /\ Len(stack) \in 1 .. Len(stack)
           /\ Pop \in Seq(Steps)
           /\ Len(Pop) = Len(stack) - 1
           /\ \A k \in 1 .. Len(Pop) : Pop[k] = stack[k]
<1>1. Len(stack) \in Nat /\ Len(stack) > 0
  BY EmptySeq
<1>2. Top \in Steps
  BY <1>1, ElementOfSeq DEF Top
<1>3. Pop \in Seq(Steps) /\ Len(Pop) = Len(stack) - 1
      /\ \A k \in 1 .. Len(Pop) : Pop[k] = stack[k]
  <2>1. 1 \in Int /\ Len(stack) - 1 \in Int
        /\ \A k \in 1 .. Len(stack) - 1 : stack[k] \in Steps
    BY <1>1, ElementOfSeq
  <2> DEFINE P == SubSeq(stack, 1, Len(stack) - 1)
  <2>2. /\ P \in Seq(Steps)
        /\ Len(P) = IF 1 <= Len(stack) - 1 THEN Len(stack) - 1 - 1 + 1 ELSE 0
        /\ \A k \in 1 .. Len(stack) - 1 - 1 + 1 : P[k] = stack[1 + k - 1]
    BY <2>1, SubSeqProperties
  <2>3. Pop = P
    BY DEF Pop
  <2> HIDE DEF P
  <2>4. Len(P) = Len(stack) - 1
    <3>1. CASE Len(stack) = 1
      BY <2>2, <3>1
    <3>2. CASE Len(stack) > 1
      <4>1. 1 <= Len(stack) - 1 /\ Len(stack) - 1 - 1 + 1 = Len(stack) - 1
        BY <1>1, <3>2
      <4> QED
        BY <2>2, <4>1
    <3>3. Len(stack) = 1 \/ Len(stack) > 1
      <4>1. \A n \in Nat : n > 0 => n = 1 \/ n > 1
        OBVIOUS
      <4> QED
        BY <1>1, <4>1, Zenon
    <3> QED
      BY <3>1, <3>2, <3>3
  <2>5. ASSUME NEW k \in 1 .. Len(P) PROVE P[k] = stack[k]
    <3>1. k \in 1 .. Len(stack) - 1 - 1 + 1 /\ 1 + k - 1 = k
      BY <1>1, <2>4
    <3> QED
      BY <2>2, <3>1
  <2> QED
    BY <2>2, <2>3, <2>4, <2>5
<1> QED
  BY <1>1, <1>2, <1>3

\* What pushing a token does to the stack.
LEMMA PushFacts ==
    ASSUME stack \in Seq(Steps), i \in Steps
    PROVE  /\ Append(stack, i) \in Seq(Steps)
           /\ Len(Append(stack, i)) = Len(stack) + 1
           /\ Len(stack) \in Nat
           /\ \A k \in 1 .. Len(stack) : Append(stack, i)[k] = stack[k]
           /\ Append(stack, i)[Len(stack) + 1] = i
  BY AppendProperties, LenProperties

\* _final_goal_status returns a goal status.
LEMMA FinalStatus == FinalGoalStatus \in {"PARTIALLY_DONE", "BLOCKED", "FAILED"}
  BY DEF FinalGoalStatus

-----------------------------------------------------------------------------
\* Every part of the invariant holds initially.
LEMMA InitInv == Init => Inv
<1> SUFFICES ASSUME Init PROVE Inv
  OBVIOUS
<1> USE TransactionAssumption DEF Init
<1>1. TypeOK
  <2>1. <<>> \in Seq(Steps)
    BY EmptySeq
  <2> QED
    BY <2>1 DEF TypeOK, Locations, Steps, GoalStatus, StepStatus, Trust
<1>2. LoopInv /\ UndoInv
  BY EmptySeq DEF LoopInv, UndoInv, InStep
<1>3. StandInv /\ KeyInv
  BY DEF StandInv, KeyInv, VerifiedStepsStand, InStep, Steps
<1>4. OutcomeInv
  BY DEF OutcomeInv, InStep
<1> QED
  BY <1>1, <1>2, <1>3, <1>4 DEF Inv

\* The steps that only move on or mark the step in hand.
Gate ==
    \/ NoMoreSteps \/ StaticGates \/ IdempotencyGate \/ PreconditionGate
    \/ PolicyGate \/ HumanApproval \/ DryRun \/ CheckOutput

\* Types and the loop's own bookkeeping are preserved by every step.
LEMMA TypeStep == TypeOK /\ LoopInv /\ Next => TypeOK' /\ LoopInv'
<1> SUFFICES ASSUME TypeOK, LoopInv, Next PROVE TypeOK' /\ LoopInv'
  OBVIOUS
<1> USE TransactionAssumption
<1>1. CASE ExecutePlan
  <2>1. <<>> \in Seq(Steps) /\ Len(<<>>) = 0
    BY EmptySeq
  <2> QED
    BY <1>1, <2>1 DEF ExecutePlan, TypeOK, LoopInv, Locations, InStep, GoalStatus
<1>2. CASE Budget
  BY <1>2, ZenonT(40) DEF Budget, TypeOK, LoopInv, Locations, InStep, StepStatus, Steps, loop, beliefs
<1>3. CASE Gate
  BY <1>3 DEF Gate, NoMoreSteps, StaticGates, IdempotencyGate, PreconditionGate,
              PolicyGate, HumanApproval, DryRun, CheckOutput, Abort, TypeOK,
              LoopInv, Locations, InStep, StepStatus, Steps, loop, beliefs
<1>4. CASE ExecuteOk
  <2>1. i \in Steps
    BY <1>4 DEF ExecuteOk, LoopInv, InStep
  <2>2. world' \in [Steps -> BOOLEAN] /\ before' \in [Steps -> BOOLEAN]
    BY <1>4, <2>1, Zenon DEF ExecuteOk, TypeOK
  <2>3. stack' \in Seq(Steps) /\ \A k \in 1 .. Len(stack') : stack'[k] <= i
    <3>1. CASE UNCHANGED stack
      BY <3>1 DEF TypeOK, LoopInv
    <3>2. CASE stack' = Append(stack, i)
      <4>1. ASSUME NEW k \in 1 .. Len(stack) + 1 PROVE Append(stack, i)[k] <= i
        BY <2>1, PushFacts DEF TypeOK, LoopInv, Steps
      <4> QED
        BY <2>1, <3>2, <4>1, PushFacts DEF TypeOK
    <3> QED
      BY <1>4, <3>1, <3>2 DEF ExecuteOk
  <2> QED
    BY <1>4, <2>1, <2>2, <2>3 DEF ExecuteOk, TypeOK, LoopInv, Locations, InStep,
                                  StepStatus, Steps, loop, beliefs
<1>5. CASE ExecuteFails \/ Raises \/ VerifyFails
  <2>1. i \in Steps
    BY <1>5 DEF ExecuteFails, Raises, VerifyFails, LoopInv, InStep
  <2>2. world' \in [Steps -> BOOLEAN] /\ UNCHANGED before
    BY <1>5, <2>1, Zenon DEF ExecuteFails, Raises, VerifyFails, TypeOK
  <2>3. CASE ExecuteFails
    BY <2>1, <2>2, <2>3 DEF ExecuteFails, Abort, TypeOK, LoopInv, Locations, InStep,
                            StepStatus, loop, beliefs
  <2>4. CASE Raises
    <3>1. status' \in [Steps -> StepStatus]
      BY <2>1, <2>4 DEF Raises, TypeOK, StepStatus
    <3> QED
      BY <2>1, <2>2, <2>4, <3>1
         DEF Raises, TypeOK, LoopInv, Locations, InStep, Trust, loop
  <2>5. CASE VerifyFails
    BY <2>1, <2>2, <2>5 DEF VerifyFails, Abort, TypeOK, LoopInv, Locations, InStep,
                            StepStatus, Trust, loop
  <2> QED
    BY <1>5, <2>3, <2>4, <2>5
<1>6. CASE VerifyOk
  BY <1>6, SMTT(30) DEF VerifyOk, Marked, TypeOK, LoopInv, Locations, InStep, StepStatus,
                        Steps, Trust
<1>7. CASE RollbackOk \/ RollbackFails
  <2>1. stack \in Seq(Steps) /\ stack # <<>>
    BY <1>7 DEF RollbackOk, RollbackFails, TypeOK
  <2>2. world' \in [Steps -> BOOLEAN] /\ UNCHANGED before
    BY <1>7, <2>1, PopFacts, ZenonT(30) DEF RollbackOk, RollbackFails, TypeOK
  <2>3. stack' \in Seq(Steps) /\ \A k \in 1 .. Len(stack') : stack'[k] <= i
    BY <1>7, <2>1, PopFacts DEF RollbackOk, RollbackFails, LoopInv
  <2>4. Top \in Steps
    BY <2>1, PopFacts
  <2>5. status' \in [Steps -> StepStatus] /\ recovery' \subseteq Steps
    BY <1>7, <2>4 DEF RollbackOk, RollbackFails, TypeOK, StepStatus, beliefs
  <2> QED
    BY <1>7, <2>2, <2>3, <2>5, SMTT(30)
       DEF RollbackOk, RollbackFails, TypeOK, LoopInv, loop, beliefs
<1>8. CASE RollbackDone
  BY <1>8 DEF RollbackDone, TypeOK, LoopInv, Locations, InStep, loop, beliefs
<1>9. CASE Finish
  BY <1>9, FinalStatus DEF Finish, TypeOK, LoopInv, Locations, InStep, GoalStatus,
                           beliefs
<1>10. CASE VerifyRaises
  <2>1. i \in Steps /\ i \in Nat /\ pc' = "raised"
    BY <1>10 DEF VerifyRaises, LoopInv, InStep, TypeOK
  <2>2. status' \in [Steps -> StepStatus] /\ facts' \in [Steps -> Trust]
    BY <1>10, <2>1 DEF VerifyRaises, TypeOK, StepStatus, Trust
  <2>3. verified' \in [Steps -> Nat]
    <3>1. verified \in [Steps -> Nat]
      BY DEF TypeOK
    <3>2. verified' = verified \/ verified' = [verified EXCEPT ![i] = @ + 1]
      BY <1>10 DEF VerifyRaises
    <3> QED
      BY <2>1, <3>1, <3>2
  <2>4. markers' \subseteq Steps
    BY <1>10, <2>1 DEF VerifyRaises, Marked, TypeOK
  <2> QED
    BY <1>10, <2>1, <2>2, <2>3, <2>4 DEF VerifyRaises, TypeOK, LoopInv, Locations, InStep, loop
<1>11. CASE RollbackRaises
  <2>1. stack # <<>> => Top \in Steps
    BY PopFacts DEF TypeOK
  <2>2. world' \in [Steps -> BOOLEAN] /\ UNCHANGED before
    BY <1>11, <2>1, ZenonT(30) DEF RollbackRaises, TypeOK
  <2>3. status' \in [Steps -> StepStatus] /\ recovery' \subseteq Steps
    BY <1>11, <2>1 DEF RollbackRaises, TypeOK, StepStatus
  <2> QED
    BY <1>11, <2>2, <2>3 DEF RollbackRaises, TypeOK, LoopInv, Locations, InStep, loop
<1> QED
  BY <1>1, <1>2, <1>3, <1>4, <1>5, <1>6, <1>7, <1>8, <1>9, <1>10, <1>11
     DEF Next, Advance, Gate

-----------------------------------------------------------------------------
\* Every pushed token stays on the stack until its step is undone or reported.
LEMMA UndoStep == TypeOK /\ LoopInv /\ UndoInv /\ Next => UndoInv'
<1> SUFFICES ASSUME TypeOK, LoopInv, UndoInv, Next PROVE UndoInv'
  OBVIOUS
<1> USE TransactionAssumption
<1>1. CASE ExecutePlan
  BY <1>1 DEF ExecutePlan, UndoInv, InStep
<1>2. CASE Budget
  BY <1>2 DEF Budget, LoopInv, UndoInv, InStep, loop, beliefs
<1>3. CASE Gate
  <2>1. UNCHANGED <<stack, world, before, recovery, pushed, i>>
    BY <1>3 DEF Gate, NoMoreSteps, StaticGates, IdempotencyGate, PreconditionGate,
                PolicyGate, HumanApproval, DryRun, CheckOutput, loop, beliefs
  <2>2. pc \in InStep \cup {"gates"}
    BY <1>3 DEF Gate, NoMoreSteps, StaticGates, IdempotencyGate, PreconditionGate,
                PolicyGate, HumanApproval, DryRun, CheckOutput, InStep
  <2>3. (pc' \in InStep \cup {"rollback"}) \/ (pc' = "finish" /\ i > N)
    BY <1>3 DEF Gate, NoMoreSteps, StaticGates, IdempotencyGate, PreconditionGate,
                PolicyGate, HumanApproval, DryRun, CheckOutput, Abort, InStep
  <2> QED
    BY <2>1, <2>2, <2>3 DEF UndoInv, OnStack, TypeOK, InStep
<1>4. CASE ExecuteOk
  <2>1. pc = "execute" /\ pc' = "output" /\ i \in Steps
    BY <1>4 DEF ExecuteOk, LoopInv, InStep
  <2>2. ASSUME NEW s \in pushed' PROVE OnStack(s)'
    <3>1. CASE UNCHANGED <<stack, pushed>>
      BY <2>1, <3>1 DEF UndoInv, OnStack, InStep
    <3>2. CASE stack' = Append(stack, i) /\ pushed' = pushed \cup {i}
      <4>1. CASE s = i
        <5>1. Len(stack) + 1 \in 1 .. Len(stack')
          BY <2>1, <3>2, PushFacts DEF TypeOK
        <5> QED
          BY <2>1, <3>2, <4>1, <5>1, PushFacts DEF TypeOK, OnStack
      <4>2. CASE s \in pushed
        <5>1. PICK k \in 1 .. Len(stack) : stack[k] = s
          BY <2>1, <4>2 DEF UndoInv, OnStack, InStep
        <5>2. k \in 1 .. Len(stack') /\ stack'[k] = s
          BY <2>1, <3>2, <5>1, PushFacts DEF TypeOK
        <5> QED
          BY <5>2 DEF OnStack
      <4> QED
        BY <3>2, <4>1, <4>2
    <3> QED
      BY <1>4, <3>1, <3>2 DEF ExecuteOk
  <2> QED
    BY <2>1, <2>2 DEF UndoInv, InStep
<1>5. CASE ExecuteFails \/ VerifyFails
  BY <1>5 DEF ExecuteFails, VerifyFails, Abort, UndoInv, OnStack, InStep, loop, beliefs
<1>6. CASE Raises \/ VerifyRaises \/ RollbackRaises
  BY <1>6 DEF Raises, VerifyRaises, RollbackRaises, UndoInv, InStep
<1>7. CASE VerifyOk
  BY <1>7 DEF VerifyOk, UndoInv, OnStack, InStep
<1>8. CASE RollbackOk \/ RollbackFails
  <2>1. stack \in Seq(Steps) /\ stack # <<>>
    BY <1>8 DEF RollbackOk, RollbackFails, TypeOK
  <2>2. pc = "rollback" /\ pc' = "rollback" /\ UNCHANGED <<before, pushed>>
        /\ stack' = Pop /\ recovery \subseteq recovery'
    BY <1>8 DEF RollbackOk, RollbackFails, beliefs
  <2>3. ASSUME NEW s \in pushed' PROVE OnStack(s)' \/ Settled(s)'
    <3>1. s \in Steps /\ Top \in Steps
      BY <2>1, <2>2, PopFacts DEF TypeOK
    <3>2. CASE s = Top
      BY <1>8, <3>1, <3>2, Zenon DEF RollbackOk, RollbackFails, Settled, TypeOK
    <3>3. CASE s # Top /\ Settled(s)
      BY <1>8, <3>1, <3>3, Zenon DEF RollbackOk, RollbackFails, Settled, TypeOK, beliefs
    <3>4. CASE s # Top /\ OnStack(s)
      <4>1. PICK k \in 1 .. Len(stack) : stack[k] = s
        BY <3>4 DEF OnStack
      <4>2. k # Len(stack)
        BY <3>4, <4>1 DEF Top
      <4>3. k \in 1 .. Len(Pop)
        <5>1. Len(stack) \in Nat
          BY <2>1, LenProperties
        <5>2. k \in 1 .. Len(stack) - 1
          BY <4>1, <4>2, <5>1, BelowLast, Zenon
        <5> QED
          BY <2>1, <5>2, PopFacts
      <4>4. Pop[k] = s
        BY <2>1, <4>1, <4>3, PopFacts
      <4> QED
        BY <2>2, <4>3, <4>4 DEF OnStack
    <3> QED
      BY <2>2, <3>2, <3>3, <3>4 DEF UndoInv
  <2> QED
    BY <2>2, <2>3 DEF UndoInv, InStep
<1>9. CASE RollbackDone
  BY <1>9, EmptySeq DEF RollbackDone, UndoInv, OnStack, Settled, InStep, loop, beliefs
<1>10. CASE Finish
  BY <1>10 DEF Finish, UndoInv, OnStack, Settled, InStep, beliefs
<1> QED
  BY <1>1, <1>2, <1>3, <1>4, <1>5, <1>6, <1>7, <1>8, <1>9, <1>10 DEF Next, Advance, Gate

-----------------------------------------------------------------------------
\* A step that only moves on or marks the step in hand leaves no step VERIFIED
\* that was not.
LEMMA GateMarks ==
    ASSUME TypeOK, LoopInv, Gate
    PROVE  /\ UNCHANGED <<run, i, goal, stack, before, world, pushed, facts,
                          markers, recovery, verified>>
           /\ \/ pc = "gates" /\ i > N /\ pc' = "finish" /\ UNCHANGED status
              \/ /\ i \in Steps
                 /\ pc \in InStep \cup {"gates"}
                 /\ pc' \in InStep /\ (pc' = "verify" => pc = "output") /\ pc' # "output"
                 /\ status' \in {status, [status EXCEPT ![i] = "DRY_RUN_OK"]}
                 /\ pc' # "idempotency" =>
                      \/ pc \in InStep \ {"idempotency"}
                      \/ ~IdempotencyConflict
              \/ /\ i \in Steps
                 /\ pc \in InStep \cup {"gates"}
                 /\ pc' = "rollback"
                 /\ \E st \in {"BLOCKED", "FAILED"} : status' = [status EXCEPT ![i] = st]
<1>1. UNCHANGED <<run, i, goal, stack, before, world, pushed, facts, markers,
                  recovery, verified>>
  BY DEF Gate, NoMoreSteps, StaticGates, IdempotencyGate, PreconditionGate, PolicyGate,
         HumanApproval, DryRun, CheckOutput, loop, beliefs
<1>2. CASE NoMoreSteps
  BY <1>1, <1>2 DEF NoMoreSteps
<1>3. CASE StaticGates \/ IdempotencyGate \/ PreconditionGate
  BY <1>1, <1>3 DEF StaticGates, IdempotencyGate, PreconditionGate, Abort, InStep, LoopInv
<1>4. CASE PolicyGate \/ HumanApproval \/ DryRun \/ CheckOutput
  BY <1>1, <1>4 DEF PolicyGate, HumanApproval, DryRun, CheckOutput, Abort, InStep, LoopInv
<1> QED
  BY <1>2, <1>3, <1>4 DEF Gate

\* What is VERIFIED is in place after every step.
LEMMA StandStep == TypeOK /\ LoopInv /\ StandInv /\ Next => StandInv'
<1> SUFFICES ASSUME TypeOK, LoopInv, StandInv, Next PROVE StandInv'
  OBVIOUS
<1> USE DEF VerifiedStepsStand
<1>1. CASE ExecutePlan
  BY <1>1 DEF ExecutePlan, StandInv
<1>2. CASE Budget
  BY <1>2 DEF Budget, StandInv, TypeOK, loop, beliefs
<1>3. CASE Gate
  BY <1>3, GateMarks DEF StandInv, TypeOK
<1>4. CASE ExecuteOk
  <2>1. i \in Steps /\ pc' = "output" /\ i' = i
    BY <1>4 DEF ExecuteOk, LoopInv, InStep, loop
  <2>2. world'[i] /\ \A s \in Steps : s # i => world'[s] = world[s]
    BY <1>4, <2>1, Zenon DEF ExecuteOk, TypeOK
  <2>3. \A s \in Steps : s # i => status'[s] = status[s]
    BY <1>4, <2>1 DEF ExecuteOk, TypeOK
  <2> QED
    BY <2>1, <2>2, <2>3 DEF StandInv
<1>5. CASE ExecuteFails
  <2>1. i \in Steps /\ pc' = "rollback"
    BY <1>5 DEF ExecuteFails, Abort, LoopInv, InStep
  <2>2. \A s \in Steps : world[s] => world'[s]
    BY <1>5, <2>1, Zenon DEF ExecuteFails, TypeOK
  <2>3. \A s \in Steps : status'[s] = "VERIFIED" => status[s] = "VERIFIED"
    BY <1>5, <2>1 DEF ExecuteFails, Abort, TypeOK
  <2> QED
    BY <2>1, <2>2, <2>3 DEF StandInv
<1>6. CASE Raises
  <2>1. i \in Steps /\ pc' = "raised"
    BY <1>6 DEF Raises, LoopInv, InStep
  <2>2. \A s \in Steps : world[s] => world'[s]
    BY <1>6, <2>1, Zenon DEF Raises, TypeOK
  <2>3. \A s \in Steps : status'[s] = "VERIFIED" => status[s] = "VERIFIED"
    BY <1>6, <2>1 DEF Raises, TypeOK
  <2> QED
    BY <2>1, <2>2, <2>3 DEF StandInv
<1>7. CASE VerifyFails \/ VerifyOk \/ VerifyRaises
  BY <1>7 DEF VerifyFails, VerifyOk, VerifyRaises, Abort, LoopInv, InStep, StandInv, TypeOK
<1>8. CASE RollbackOk \/ RollbackFails
  <2>1. Top \in Steps /\ pc' = "rollback"
    BY <1>8, PopFacts DEF RollbackOk, RollbackFails, TypeOK
  <2>2. \A s \in Steps : s # Top => world'[s] = world[s]
    BY <1>8, <2>1, Zenon DEF RollbackOk, RollbackFails, TypeOK
  <2>3. status'[Top] # "VERIFIED" /\ \A s \in Steps : s # Top => status'[s] = status[s]
    BY <1>8, <2>1 DEF RollbackOk, RollbackFails, TypeOK
  <2> QED
    BY <2>1, <2>2, <2>3 DEF StandInv
<1>9. CASE RollbackDone \/ Finish
  BY <1>9 DEF RollbackDone, Finish, StandInv
<1>10. CASE RollbackRaises
  <2>1. pc' = "raised"
    BY <1>10 DEF RollbackRaises
  <2>2. CASE UNCHANGED <<world, status>>
    BY <2>1, <2>2 DEF StandInv
  <2>3. CASE stack # <<>> /\ ~UNCHANGED <<world, status>>
    <3>1. Top \in Steps
      BY <2>3, PopFacts DEF TypeOK
    <3>2. \A s \in Steps : s # Top => world'[s] = world[s]
      BY <1>10, <2>3, <3>1, Zenon DEF RollbackRaises, TypeOK
    <3>3. status'[Top] # "VERIFIED" /\ \A s \in Steps : s # Top => status'[s] = status[s]
      BY <1>10, <2>3, <3>1 DEF RollbackRaises, TypeOK
    <3> QED
      BY <2>1, <3>1, <3>2, <3>3 DEF StandInv
  <2> QED
    BY <1>10, <2>2, <2>3 DEF RollbackRaises
<1> QED
  BY <1>1, <1>2, <1>3, <1>4, <1>5, <1>6, <1>7, <1>8, <1>9, <1>10 DEF Next, Advance, Gate

\* A consumed key keeps its step from a second verification.
LEMMA KeyStep == TypeOK /\ LoopInv /\ KeyInv /\ Next => KeyInv'
<1> SUFFICES ASSUME TypeOK, LoopInv, KeyInv, Next PROVE KeyInv'
  OBVIOUS
<1> USE TransactionAssumption
<1>1. CASE ExecutePlan \/ Budget \/ RollbackDone \/ Finish
  BY <1>1 DEF ExecutePlan, Budget, RollbackDone, Finish, KeyInv, InStep, loop, beliefs
<1>2. CASE Gate
  BY <1>2, GateMarks DEF KeyInv, IdempotencyConflict, InStep
<1>3. CASE ExecuteOk \/ ExecuteFails \/ Raises \/ VerifyFails
  BY <1>3 DEF ExecuteOk, ExecuteFails, Raises, VerifyFails, Abort, KeyInv,
              IdempotencyConflict, InStep, loop, beliefs
<1>4. CASE VerifyOk \/ VerifyRaises
  BY <1>4 DEF VerifyOk, VerifyRaises, Marked, LoopInv, KeyInv, IdempotencyConflict, InStep,
              TypeOK
<1>5. CASE RollbackOk \/ RollbackFails \/ RollbackRaises
  BY <1>5 DEF RollbackOk, RollbackFails, RollbackRaises, KeyInv, InStep, beliefs
<1> QED
  BY <1>1, <1>2, <1>3, <1>4, <1>5 DEF Next, Advance, Gate

-----------------------------------------------------------------------------
\* The statuses of the steps are the empty sequence just for the empty plan.
LEMMA EmptyPlan == ASSUME TypeOK PROVE status = <<>> <=> Steps = {}
<1> USE TransactionAssumption DEF TypeOK, Steps
<1>1. status \in Seq(StepStatus)
  OBVIOUS
<1>2. DOMAIN status = 1 .. Len(status)
  BY <1>1, LenProperties
<1>3. status # <<>> => Len(status) \in Nat \ {0}
  BY <1>1, EmptySeq
<1>4. Len(<<>>) = 0 /\ <<>> \in Seq(StepStatus)
  BY EmptySeq
<1>5. DOMAIN status = 1 .. N
  OBVIOUS
<1>6. status = <<>> => 1 .. N = 1 .. 0
  BY <1>2, <1>4, <1>5
<1>7. status # <<>> => 1 \in 1 .. N
  BY <1>2, <1>3, <1>5
<1>8. 1 .. 0 = {}
  OBVIOUS
<1> QED
  BY <1>6, <1>7, <1>8, Zenon DEF Steps

\* _final_goal_status, as the callers of execute_plan read it off the statuses.
LEMMA GoalOutcome == ASSUME TypeOK PROVE FinalGoalStatus = Plans!GoalAfter(status)
<1>1. DOMAIN status = Steps
  BY DEF TypeOK
<1>2. CASE Steps = {}
  BY <1>2, EmptyPlan DEF FinalGoalStatus, Plans!GoalAfter
<1>3. CASE Steps # {}
  BY <1>1, <1>3, EmptyPlan DEF FinalGoalStatus, Plans!GoalAfter
<1> QED
  BY <1>2, <1>3

\* Statuses that a rollback has left are an outcome of a plan that failed at i.
LEMMA FailedOutcome ==
    ASSUME TypeOK, i \in Steps, Behind,
           \A k \in 1 .. i - 1 : status[k] \in {"VERIFIED", "ROLLED_BACK", "FAILED"},
           status[i] \in {"BLOCKED", "FAILED", "ROLLED_BACK"}
    PROVE  status \in Plans!Outcomes(N)
<1> USE TransactionAssumption
<1>1. \A k \in 1 .. N : k \in 1 .. i - 1 \/ k = i \/ k \in i + 1 .. N
  BY DEF Steps
<1>2. status \in [1 .. N -> {"PENDING", "VERIFIED", "ROLLED_BACK", "FAILED", "BLOCKED"}]
  BY <1>1 DEF TypeOK, Behind, Steps
<1>3. ASSUME NEW c \in Plans!Causes \ {"budget"},
             \/ status[i] = Plans!CauseStatus(c)
             \/ c \in Plans!AfterExecution /\ status[i] = "ROLLED_BACK"
      PROVE  status \in Plans!Outcomes(N)
  <2>1. status \in Plans!FailedAt(N, i, c)
    BY <1>2, <1>3 DEF Plans!FailedAt, Behind
  <2> QED
    BY <2>1 DEF Plans!Outcomes, Steps
<1>4. CASE status[i] = "BLOCKED"
  <2>1. "denied" \in Plans!Causes \ {"budget"} /\ Plans!CauseStatus("denied") = "BLOCKED"
    BY DEF Plans!Causes, Plans!CauseStatus
  <2> QED
    BY <1>3, <1>4, <2>1
<1>5. CASE status[i] \in {"FAILED", "ROLLED_BACK"}
  <2>1. /\ "verification" \in Plans!Causes \ {"budget"}
        /\ "verification" \in Plans!AfterExecution
        /\ Plans!CauseStatus("verification") = "FAILED"
    BY DEF Plans!Causes, Plans!CauseStatus, Plans!AfterExecution
  <2> QED
    BY <1>3, <1>5, <2>1
<1> QED
  BY <1>4, <1>5

\* The first execution moves along the outcomes of PlanOutcomes.
LEMMA OutcomeStep == TypeOK /\ LoopInv /\ OutcomeInv /\ Next => OutcomeInv'
<1> SUFFICES ASSUME TypeOK, LoopInv, OutcomeInv, Next, run' <= 1
             PROVE  OutcomeInv'
  BY DEF OutcomeInv
<1> USE TransactionAssumption
<1>1. CASE ExecutePlan
  BY <1>1 DEF ExecutePlan, OutcomeInv, LoopInv, TypeOK, InStep
<1>2. CASE Budget
  <2>1. /\ \A k \in Steps : status[k] = "PENDING"
        /\ i = 1 /\ UNCHANGED <<i, run>> /\ run <= 1
    BY <1>2 DEF Budget, OutcomeInv, LoopInv, loop
  <2>2. CASE pc' = "finish"
    <3>1. CASE Steps = {}
      <4>1. status' = Plans!AllVerified(N)
        BY <1>2, <2>2, <3>1 DEF Budget, TypeOK, Plans!AllVerified, Steps
      <4> QED
        BY <2>2, <4>1 DEF OutcomeInv, Plans!Outcomes, InStep
    <3>2. CASE Steps # {}
      <4>1. PICK s \in Steps : status' = [status EXCEPT ![s] = "BLOCKED"]
        BY <1>2, <2>2, <3>2 DEF Budget
      <4>2. status' = [k \in 1 .. N |-> IF k = s THEN "BLOCKED" ELSE "PENDING"]
        BY <2>1, <4>1 DEF TypeOK, Steps
      <4>3. status' \in Plans!OverBudget(N)
        BY <4>2 DEF Plans!OverBudget, Steps
      <4> QED
        BY <2>2, <4>3 DEF OutcomeInv, Plans!Outcomes, InStep
    <3> QED
      BY <3>1, <3>2
  <2>3. CASE pc' = "gates" /\ UNCHANGED status
    BY <2>1, <2>3 DEF OutcomeInv, Behind, InStep, Steps
  <2>4. CASE pc' = "raised" /\ UNCHANGED status
    BY <2>1, <2>4 DEF OutcomeInv, InStep
  <2> QED
    BY <1>2, <2>2, <2>3, <2>4 DEF Budget
<1>3. CASE Gate
  <2>1. UNCHANGED <<run, i>> /\ run <= 1
    BY <1>3, GateMarks
  <2>2. Behind /\ \A k \in 1 .. i - 1 : status[k] = "VERIFIED"
    BY <1>3, <2>1, GateMarks DEF OutcomeInv, InStep
  <2>3. CASE i > N /\ pc' = "finish" /\ UNCHANGED status
    <3>1. status = Plans!AllVerified(N)
      BY <2>2, <2>3 DEF TypeOK, Plans!AllVerified, Steps
    <3> QED
      BY <2>3, <3>1 DEF OutcomeInv, Plans!Outcomes, InStep
  <2>4. CASE /\ i \in Steps /\ pc' \in InStep
             /\ status' \in {status, [status EXCEPT ![i] = "DRY_RUN_OK"]}
    BY <2>1, <2>2, <2>4 DEF OutcomeInv, Behind, InStep, TypeOK, Steps
  <2>5. CASE /\ i \in Steps /\ pc' = "rollback"
             /\ \E st \in {"BLOCKED", "FAILED"} : status' = [status EXCEPT ![i] = st]
    BY <2>1, <2>2, <2>5 DEF OutcomeInv, Behind, InStep, TypeOK, Steps
  <2> QED
    BY <1>3, <2>3, <2>4, <2>5, GateMarks
<1>4. CASE ExecuteOk \/ ExecuteFails \/ VerifyFails
  BY <1>4, SMTT(30) DEF ExecuteOk, ExecuteFails, VerifyFails, Abort, OutcomeInv, LoopInv, Behind,
              InStep, TypeOK, Steps, loop
<1>5. CASE Raises \/ VerifyRaises \/ RollbackRaises
  BY <1>5 DEF Raises, VerifyRaises, RollbackRaises, OutcomeInv, InStep
<1>6. CASE VerifyOk
  BY <1>6 DEF VerifyOk, OutcomeInv, LoopInv, Behind, InStep, TypeOK, Steps
<1>7. CASE RollbackOk \/ RollbackFails
  <2>1. /\ Top \in Steps /\ Top <= i /\ i \in Steps /\ UNCHANGED <<i, run>> /\ run <= 1
        /\ pc = "rollback" /\ pc' = "rollback"
    BY <1>7, PopFacts DEF RollbackOk, RollbackFails, LoopInv, TypeOK, Top, loop, InStep
  <2>2. \E st \in {"ROLLED_BACK", "FAILED"} : status' = [status EXCEPT ![Top] = st]
    BY <1>7 DEF RollbackOk, RollbackFails
  <2> QED
    BY <2>1, <2>2 DEF OutcomeInv, Behind, InStep, TypeOK, Steps
<1>8. CASE RollbackDone
  <2>1. status \in Plans!Outcomes(N)
    BY <1>8, FailedOutcome DEF RollbackDone, OutcomeInv, LoopInv, loop
  <2> QED
    BY <1>8, <2>1 DEF RollbackDone, OutcomeInv, InStep
<1>9. CASE Finish
  BY <1>9, GoalOutcome DEF Finish, OutcomeInv, InStep
<1> QED
  BY <1>1, <1>2, <1>3, <1>4, <1>5, <1>6, <1>7, <1>8, <1>9 DEF Next, Advance, Gate

-----------------------------------------------------------------------------
\* The invariant is inductive.
LEMMA NextInv == Inv /\ [Next]_vars => Inv'
<1> SUFFICES ASSUME Inv, [Next]_vars PROVE Inv'
  OBVIOUS
<1>1. CASE Next
  BY <1>1, TypeStep, UndoStep, StandStep, KeyStep, OutcomeStep DEF Inv
<1>2. CASE UNCHANGED vars
  BY <1>2 DEF vars, Inv, TypeOK, LoopInv, UndoInv, OnStack, Settled, StandInv,
              VerifiedStepsStand, KeyInv, IdempotencyConflict, OutcomeInv, Behind
<1> QED
  BY <1>1, <1>2

\* The inductive invariant holds in every state of execute_plan, whatever the
\* tools, the policy and the approval gate answer.
THEOREM Invariance == Spec => []Inv
<1>1. Init => Inv
  BY InitInv
<1>2. Inv /\ [Next]_vars => Inv'
  BY NextInv
<1> QED
  BY <1>1, <1>2, PTL DEF Spec

\* Every variable of execute_plan keeps its type: the loop variable stays in
\* range and the rollback stack holds steps of the plan.
THEOREM TypeCorrect == Spec => []TypeOK
<1>1. Inv => TypeOK
  BY DEF Inv
<1> QED
  BY <1>1, Invariance, PTL

\* A plan that was aborted has every step with a rollback token undone or named
\* by a recovery packet, for plans of any length executed any number of times.
THEOREM AbortsAreUndone == Spec => []UndoneOrReported
<1>1. Inv => UndoneOrReported
  BY DEF Inv, UndoInv, Settled, UndoneOrReported
<1> QED
  BY <1>1, Invariance, PTL

\* A step that counts as VERIFIED has its effect in place, also after a later
\* execution of the same plan rolled back.
THEOREM VerifiedStand == Spec => []VerifiedStepsStand
<1>1. Inv => VerifiedStepsStand
  BY DEF Inv, StandInv
<1> QED
  BY <1>1, Invariance, PTL

\* A step with an idempotency key is verified at most once.
THEOREM KeysAreConsumedOnce == Spec => []KeyedStepsVerifyOnce
<1>1. Inv => KeyedStepsVerifyOnce
  BY TransactionAssumption DEF Inv, TypeOK, KeyInv, KeyedStepsVerifyOnce
<1> QED
  BY <1>1, Invariance, PTL

\* The first execution of a plan of any length ends in an outcome that
\* PlanOutcomes lists, with the goal status the callers expect of it.
THEOREM FirstRunEnds == Spec => []FirstRunOutcome
<1>1. Inv => FirstRunOutcome
  BY DEF Inv, OutcomeInv, FirstRunOutcome
<1> QED
  BY <1>1, Invariance, PTL
=============================================================================
