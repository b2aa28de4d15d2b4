----------------------- MODULE GitHubOperator_proofs -----------------------
(***************************************************************************)
(* For any number of plan versions, bundles and applies: an approval is    *)
(* used at most once, a bundle is used by one apply, the work branch holds *)
(* approved content only, an apply that was refused leaves nothing behind, *)
(* and one that is repeated harms nothing.                                 *)
(***************************************************************************)
EXTENDS GitHubOperator, TLAPS

\* A bundle is unused or holds a version of the plan, and only bundles that
\* were built are decided.
BundleInv ==
    /\ \A b \in Bundles : bundle[b] = NoBundle \/ bundle[b].plan \in Plans
    /\ \A x \in signed : bundle[x[1]].plan \in Plans

\* What apply_operator_plan checked on entry stays true of its job.
JobOf(a) ==
    /\ pc[a] # "idle" =>
         /\ job[a].bundle \in Bundles
         /\ job[a].plan \in Plans
         /\ job[a].plan = bundle[job[a].bundle].plan
         /\ job[a].decision = "approve" => <<job[a].bundle, "approve">> \in signed
    /\ pc[a] \in {"consume", "execute", "verify"} => job[a].decision = "approve"

JobInv == \A a \in Applies : JobOf(a)

\* An apply owns the receipts of the steps it has passed.
ReceiptsOf(a) ==
    \A t \in Steps :
        \/ pc[a] \in {"request", "consume"} /\ t < step[a]
        \/ pc[a] \in {"execute", "verify"} /\ t <= step[a]
        => receipts[<<job[a].bundle, t>>] = a

ReceiptInv ==
    /\ \A a \in Applies : ReceiptsOf(a)
    /\ \A p \in Packets : receipts[p] # NULL => <<p[1], "approve">> \in signed

\* A step is executed only under its receipt, and once.
WriteInv ==
    /\ \A a \in Applies : pc[a] = "execute" => writes[Packet(a)] = 0
    /\ \A p \in Packets : /\ writes[p] \in {0, 1}
                          /\ receipts[p] = NULL => writes[p] = 0

\* The second rollback token, if there is one, restores the base content.
UndoOf(a) ==
    /\ pc[a] = "idle" => step[a] = 1
    /\ pc[a] \in {"idle", "request", "consume", "execute"} => Len(undo[a]) = step[a] - 1
    /\ pc[a] = "verify" => Len(undo[a]) = step[a]
    /\ Len(undo[a]) >= 2 => undo[a][2] \in {NULL, Base}

UndoInv == \A a \in Applies : UndoOf(a)

\* The inductive invariant.
Inv ==
    /\ TypeOK
    /\ BundleInv
    /\ JobInv
    /\ ReceiptInv
    /\ OneApplyPerBundle
    /\ WriteInv
    /\ UndoInv
    /\ ApprovedContentOnly

-----------------------------------------------------------------------------
\* The initial state satisfies every part of the invariant.
LEMMA InitInv == Init => Inv
<1> SUFFICES ASSUME Init PROVE Inv
  OBVIOUS
<1> USE OperatorAssumption DEF Init
<1>1. TypeOK
  BY DEF TypeOK, NoBundle, NoJob, Steps, Packets
<1>2. BundleInv /\ JobInv
  BY DEF BundleInv, JobInv, JobOf
<1>3. ReceiptInv /\ OneApplyPerBundle /\ WriteInv
  BY DEF ReceiptInv, ReceiptsOf, OneApplyPerBundle, WriteInv, Packets, Steps
<1>4. UndoInv /\ ApprovedContentOnly
  BY DEF UndoInv, UndoOf, ApprovedContentOnly
<1> QED
  BY <1>1, <1>2, <1>3, <1>4 DEF Inv

\* Counting an execution keeps the counters natural numbers.
LEMMA CountedType ==
    ASSUME NEW a, writes \in [Packets -> Nat], Counted(a)
    PROVE  writes' \in [Packets -> Nat]
<1>1. CASE Packet(a) \in Packets
  BY <1>1 DEF Counted
<1>2. CASE Packet(a) \notin Packets
  <2>1. writes' = writes
    BY <1>2 DEF Counted
  <2> QED
    BY <2>1
<1> QED
  BY <1>1, <1>2

\* Every step keeps the types; restoring a file needs UndoInv.
LEMMA TypeStep == TypeOK /\ UndoInv /\ [Next]_vars => TypeOK'
<1> SUFFICES ASSUME TypeOK, UndoInv, [Next]_vars PROVE TypeOK'
  OBVIOUS
<1> DEFINE Pcs == {"idle", "request", "consume", "execute", "verify", "readBack", "rollback", "done"}
<1> DEFINE Results == {"none", "ok", "refused", "unverified", "crashed"}
<1> USE DEF TypeOK, gate, github, Steps
<1>1. ASSUME NEW b \in Bundles, NEW v \in Plans, build_approval_bundle(b, v) PROVE TypeOK'
  <2>1. now + ExpiresIn \in Nat
    BY OperatorAssumption
  <2> QED
    BY <1>1, <2>1 DEF build_approval_bundle
<1>2. ASSUME NEW b \in Bundles, NEW d \in Decisions, build_signed_decision_bundle(b, d) PROVE TypeOK'
  BY <1>2 DEF build_signed_decision_bundle
<1>3. ASSUME NEW a \in Applies, NEW b \in Bundles, NEW c \in Bundles, NEW d \in Decisions,
             apply_operator_plan(a, b, c, d)
      PROVE  TypeOK'
  BY <1>3 DEF apply_operator_plan
<1>4. ASSUME NEW a \in Applies, request_packet(a) PROVE TypeOK'
  <2>1. pc' \in [Applies -> Pcs] /\ result' \in [Applies -> Results] /\ step' = step
    BY <1>4 DEF request_packet, Refuse
  <2> QED
    BY <1>4, <2>1 DEF request_packet
<1>5. ASSUME NEW a \in Applies, consume_approval(a) PROVE TypeOK'
  <2>1. pc' \in [Applies -> Pcs] /\ result' \in [Applies -> Results] /\ step' = step
    BY <1>5 DEF consume_approval, Refuse
  <2>2. receipts' = receipts \/ receipts' = [receipts EXCEPT ![Packet(a)] = a]
    BY <1>5 DEF consume_approval
  <2>3. receipts' \in [Packets -> Applies \cup {NULL}]
    BY <2>2
  <2> QED
    BY <1>5, <2>1, <2>3 DEF consume_approval
<1>6. ASSUME NEW a \in Applies, ExecuteOk(a) PROVE TypeOK'
  <2>1. /\ branch' \in Plans \cup {Base, NULL}
        /\ pr' \in Applies \cup {NULL}
    BY <1>6 DEF ExecuteOk, Effect, create_branch, update_file, open_pr
  <2>2. Token(a) \in Applies \cup {Base, NULL}
    BY <2>1 DEF Token
  <2>3. undo' \in [Applies -> Seq(Applies \cup {Base, NULL})]
    BY <1>6, <2>2 DEF ExecuteOk
  <2>4. writes' \in [Packets -> Nat]
    BY <1>6, CountedType DEF ExecuteOk
  <2> QED
    BY <1>6, <2>1, <2>3, <2>4 DEF ExecuteOk
<1>7. ASSUME NEW a \in Applies, ExecuteFails(a) PROVE TypeOK'
  BY <1>7, CountedType DEF ExecuteFails, Refuse
<1>8. ASSUME NEW a \in Applies, ResponseLost(a) PROVE TypeOK'
  <2>1. /\ branch' \in Plans \cup {Base, NULL}
        /\ pr' \in Applies \cup {NULL}
    BY <1>8 DEF ResponseLost, Effect, create_branch, update_file, open_pr
  <2> QED
    BY <1>8, <2>1, CountedType DEF ResponseLost, Refuse
<1>9. ASSUME NEW a \in Applies, VerifyOk(a) PROVE TypeOK'
  <2>1. step' \in [Applies -> Steps]
    <3>1. CASE step[a] < 3
      <4>1. step' = [step EXCEPT ![a] = step[a] + 1]
        BY <1>9, <3>1 DEF VerifyOk
      <4>2. step[a] \in 1 .. 3
        OBVIOUS
      <4>3. step[a] + 1 \in Steps
        BY <3>1, <4>2
      <4> QED
        BY <4>1, <4>3
    <3>2. CASE ~(step[a] < 3)
      BY <1>9, <3>2 DEF VerifyOk
    <3> QED
      BY <3>1, <3>2
  <2>2. pc' = [pc EXCEPT ![a] = "request"] \/ pc' = [pc EXCEPT ![a] = "readBack"]
    BY <1>9 DEF VerifyOk
  <2>3. pc' \in [Applies -> Pcs]
    BY <2>2
  <2> QED
    BY <1>9, <2>1, <2>3 DEF VerifyOk
<1>10. ASSUME NEW a \in Applies, VerifyFails(a) PROVE TypeOK'
  BY <1>10 DEF VerifyFails, Refuse
<1>11. ASSUME NEW a \in Applies, ReadBack(a) PROVE TypeOK'
  <2>1. undo' \in [Applies -> Seq(Applies \cup {Base, NULL})] /\ step' \in [Applies -> Steps]
    BY <1>11 DEF ReadBack, Forget
  <2>2. result' \in [Applies -> Results]
    BY <1>11 DEF ReadBack
  <2> QED
    BY <1>11, <2>1, <2>2 DEF ReadBack
<1>12. ASSUME NEW a \in Applies, RollbackOk(a) \/ RollbackFails(a) PROVE TypeOK'
  <2>1. undo[a] \in Seq(Applies \cup {Base, NULL}) /\ Last(a) \in 1 .. Len(undo[a])
    BY <1>12 DEF RollbackOk, RollbackFails, Last
  <2>2. Last(a) = 2 => undo[a][Last(a)] \in {NULL, Base}
    <3>1. Len(undo[a]) >= 2 => undo[a][2] \in {NULL, Base}
      BY DEF UndoInv, UndoOf
    <3> QED
      BY <3>1 DEF Last
  <2>4. branch' \in Plans \cup {Base, NULL} /\ pr' \in Applies \cup {NULL}
    BY <1>12, <2>2 DEF RollbackOk, RollbackFails, Compensation
  <2>3. undo' \in [Applies -> Seq(Applies \cup {Base, NULL})]
    <3>1. undo' = [undo EXCEPT ![a] = SubSeq(undo[a], 1, Len(undo[a]) - 1)]
      BY <1>12 DEF RollbackOk, RollbackFails, Pop, Last
    <3> QED
      BY <2>1, <3>1, SMTT(20) DEF Last
  <2> QED
    BY <1>12, <2>3, <2>4 DEF RollbackOk, RollbackFails
<1>14. ASSUME NEW a \in Applies, RollbackDone(a) PROVE TypeOK'
  BY <1>14 DEF RollbackDone, Forget
<1>15. ASSUME NEW a \in Applies, Crash(a) PROVE TypeOK'
  BY <1>15 DEF Crash, Forget
<1>16. CASE Tick
  BY <1>16 DEF Tick
<1>17. CASE UNCHANGED vars
  BY <1>17 DEF vars
<1> QED
  BY <1>1, <1>2, <1>3, <1>4, <1>5, <1>6, <1>7, <1>8, <1>9, <1>10, <1>11, <1>12,
     <1>14, <1>15, <1>16, <1>17 DEF Next, Proceed

-----------------------------------------------------------------------------
\* A step of one apply.
Moves(a) ==
    \/ \E b, c \in Bundles, d \in Decisions : apply_operator_plan(a, b, c, d)
    \/ Proceed(a)
    \/ Crash(a)

\* A step of an apply leaves bundles, decisions and the other applies alone.
LEMMA Frame ==
    ASSUME TypeOK, NEW a \in Applies, Moves(a)
    PROVE  /\ bundle' = bundle /\ signed' = signed
           /\ \A x \in Applies \ {a} : /\ pc'[x] = pc[x] /\ job'[x] = job[x]
                                       /\ step'[x] = step[x] /\ undo'[x] = undo[x]
<1> USE DEF TypeOK, gate, github, Refuse, Pop, Forget
<1> DEFINE Goal == /\ bundle' = bundle /\ signed' = signed
                   /\ \A x \in Applies \ {a} : /\ pc'[x] = pc[x] /\ job'[x] = job[x]
                                               /\ step'[x] = step[x] /\ undo'[x] = undo[x]
<1>1. ASSUME NEW b, NEW c, NEW d, apply_operator_plan(a, b, c, d) PROVE Goal
  BY <1>1 DEF apply_operator_plan
<1>2. request_packet(a) \/ consume_approval(a) => Goal
  BY DEF request_packet, consume_approval
<1>3. ExecuteOk(a) \/ ExecuteFails(a) \/ ResponseLost(a) => Goal
  BY DEF ExecuteOk, ExecuteFails, ResponseLost
<1>4. VerifyOk(a) \/ VerifyFails(a) \/ ReadBack(a) => Goal
  BY DEF VerifyOk, VerifyFails, ReadBack
<1>5. RollbackOk(a) \/ RollbackFails(a) \/ RollbackDone(a) \/ Crash(a) => Goal
  BY DEF RollbackOk, RollbackFails, RollbackDone, Crash
<1> QED
  BY <1>1, <1>2, <1>3, <1>4, <1>5 DEF Moves, Proceed

\* The other steps leave every apply, the receipts and GitHub alone.
LEMMA OtherSteps ==
    ASSUME [Next]_vars, ~ \E a \in Applies : Moves(a)
    PROVE  /\ UNCHANGED <<receipts, pc, job, step, undo, branch, writes>>
           /\ \/ \E b \in Bundles, v \in Plans : build_approval_bundle(b, v)
              \/ \E b \in Bundles, d \in Decisions : build_signed_decision_bundle(b, d)
              \/ UNCHANGED <<bundle, signed>>
<1>1. ASSUME NEW b \in Bundles, NEW v \in Plans, build_approval_bundle(b, v)
      PROVE  UNCHANGED <<receipts, pc, job, step, undo, branch, writes>>
  BY <1>1 DEF build_approval_bundle
<1>2. ASSUME NEW b \in Bundles, NEW d \in Decisions, build_signed_decision_bundle(b, d)
      PROVE  UNCHANGED <<receipts, pc, job, step, undo, branch, writes>>
  BY <1>2 DEF build_signed_decision_bundle
<1>3. Tick \/ UNCHANGED vars => UNCHANGED <<bundle, signed, receipts, pc, job, step, undo, branch, writes>>
  BY DEF Tick, vars, github
<1> QED
  BY <1>1, <1>2, <1>3 DEF Next, Moves

\* Bundles are only added, decisions are only made about built ones, and
\* neither is ever taken back.
LEMMA BundleStep ==
    ASSUME Inv, [Next]_vars
    PROVE  /\ BundleInv'
           /\ signed \subseteq signed'
           /\ \A b \in Bundles : bundle[b].plan \in Plans => bundle'[b].plan = bundle[b].plan
<1> USE DEF Inv, TypeOK, BundleInv
<1>1. CASE \E a \in Applies : Moves(a)
  BY <1>1, Frame
<1>2. ASSUME NEW b \in Bundles, NEW v \in Plans, build_approval_bundle(b, v)
      PROVE  /\ BundleInv'
             /\ signed \subseteq signed'
             /\ \A x \in Bundles : bundle[x].plan \in Plans => bundle'[x].plan = bundle[x].plan
  BY <1>2, OperatorAssumption DEF build_approval_bundle, NoBundle
<1>3. ASSUME NEW b \in Bundles, NEW d \in Decisions, build_signed_decision_bundle(b, d)
      PROVE  BundleInv' /\ signed \subseteq signed' /\ bundle' = bundle
  BY <1>3 DEF build_signed_decision_bundle
<1>4. CASE UNCHANGED <<bundle, signed>>
  BY <1>4
<1> QED
  BY <1>1, <1>2, <1>3, <1>4, OtherSteps

\* What is known of the job of an apply stays true.
LEMMA JobStep ==
    ASSUME Inv, [Next]_vars, TypeOK'
    PROVE  JobInv'
<1> USE DEF Inv
<1>1. \A x \in Applies : JobOf(x)
  BY DEF JobInv
<1>2. ASSUME NEW x \in Applies, pc'[x] = pc[x], job'[x] = job[x] PROVE JobOf(x)'
  BY <1>1, <1>2, BundleStep DEF JobOf
<1>3. ASSUME NEW a \in Applies, Moves(a) PROVE JobOf(a)'
  <2> USE DEF TypeOK
  <2>1. ASSUME NEW b \in Bundles, NEW c \in Bundles, NEW d \in Decisions,
               apply_operator_plan(a, b, c, d)
        PROVE  JobOf(a)'
    <3>1. bundle[b].plan \in Plans /\ bundle' = bundle /\ signed' = signed
      BY <2>1 DEF apply_operator_plan, BundleInv, gate
    <3> QED
      BY <2>1, <3>1 DEF apply_operator_plan, JobOf
  <2>2. ASSUME Proceed(a) \/ Crash(a)
        PROVE  /\ pc[a] # "idle" /\ job' = job
               /\ pc'[a] \in {"consume", "execute", "verify"} => job[a].decision = "approve"
    <3> DEFINE Goal == /\ pc[a] # "idle" /\ job' = job
                       /\ pc'[a] \in {"consume", "execute", "verify"} => job[a].decision = "approve"
    <3>1. JobOf(a)
      BY <1>1
    <3>2. request_packet(a) \/ consume_approval(a) => Goal
      BY <3>1 DEF request_packet, consume_approval, Refuse, Approved, JobOf
    <3>3. ExecuteOk(a) \/ ExecuteFails(a) \/ ResponseLost(a) => Goal
      BY <3>1 DEF ExecuteOk, ExecuteFails, ResponseLost, Refuse, JobOf
    <3>4. VerifyOk(a) \/ VerifyFails(a) \/ ReadBack(a) => Goal
      BY DEF VerifyOk, VerifyFails, ReadBack, Refuse
    <3>5. RollbackOk(a) \/ RollbackFails(a) \/ RollbackDone(a) \/ Crash(a) => Goal
      BY DEF RollbackOk, RollbackFails, RollbackDone, Crash
    <3> QED
      BY <2>2, <3>2, <3>3, <3>4, <3>5 DEF Proceed
  <2>3. ASSUME Proceed(a) \/ Crash(a) PROVE JobOf(a)'
    BY <1>1, <2>2, <2>3, Frame DEF JobOf, Moves
  <2> QED
    BY <1>3, <2>1, <2>3 DEF Moves
<1>4. CASE \E a \in Applies : Moves(a)
  <2> PICK a \in Applies : Moves(a)
    BY <1>4
  <2>1. \A x \in Applies \ {a} : JobOf(x)'
    BY <1>2, Frame
  <2> QED
    BY <1>3, <2>1 DEF JobInv
<1>5. CASE ~ \E a \in Applies : Moves(a)
  BY <1>2, <1>5, OtherSteps DEF JobInv
<1> QED
  BY <1>4, <1>5

\* A receipt is created in consume_approval only, and never changes.
LEMMA ReceiptFrame ==
    ASSUME Inv, [Next]_vars
    PROVE  \/ receipts' = receipts
           \/ \E a \in Applies :
                /\ pc[a] = "consume" /\ pc'[a] = "execute"
                /\ job' = job /\ step' = step /\ writes' = writes
                /\ receipts[Packet(a)] = NULL
                /\ receipts' = [receipts EXCEPT ![Packet(a)] = a]
<1>1. ASSUME NEW a \in Applies, consume_approval(a), receipts' # receipts
      PROVE  /\ pc[a] = "consume" /\ pc'[a] = "execute"
             /\ job' = job /\ step' = step /\ writes' = writes
             /\ receipts[Packet(a)] = NULL
             /\ receipts' = [receipts EXCEPT ![Packet(a)] = a]
  BY <1>1 DEF consume_approval, Inv, TypeOK
<1>2. ASSUME NEW a \in Applies, Moves(a), ~consume_approval(a) PROVE receipts' = receipts
  BY <1>2 DEF Moves, Proceed, Crash, apply_operator_plan, request_packet, ExecuteOk, ExecuteFails,
     ResponseLost, VerifyOk, VerifyFails, ReadBack, RollbackOk, RollbackFails, RollbackDone, gate
<1> QED
  BY <1>1, <1>2, OtherSteps

\* An apply keeps the receipts it created.
LEMMA ReceiptStep ==
    ASSUME Inv, [Next]_vars, TypeOK', JobInv'
    PROVE  ReceiptInv'
<1> USE DEF Inv
<1>1. \A x \in Applies : ReceiptsOf(x) /\ JobOf(x)
  BY DEF ReceiptInv, JobInv
<1>2. \A p \in Packets : receipts[p] # NULL => receipts'[p] = receipts[p]
  BY ReceiptFrame DEF TypeOK
<1>3. \A p \in Packets : receipts'[p] # NULL => <<p[1], "approve">> \in signed'
  <2>1. \A p \in Packets : receipts[p] # NULL => <<p[1], "approve">> \in signed'
    BY BundleStep DEF ReceiptInv
  <2>2. ASSUME NEW a \in Applies, pc[a] = "consume" PROVE <<job[a].bundle, "approve">> \in signed'
    BY <1>1, <2>2, BundleStep DEF JobOf
  <2>3. ASSUME NEW a \in Applies, pc[a] = "consume",
               receipts' = [receipts EXCEPT ![Packet(a)] = a],
               NEW p \in Packets, receipts'[p] # NULL
        PROVE  <<p[1], "approve">> \in signed'
    <3>1. CASE p = Packet(a)
      BY <2>2, <2>3, <3>1 DEF Packet
    <3>2. CASE p # Packet(a)
      BY <2>1, <2>3, <3>2 DEF TypeOK
    <3> QED
      BY <3>1, <3>2
  <2> QED
    BY <2>1, <2>3, ReceiptFrame
<1>4. ASSUME NEW x \in Applies, pc'[x] = pc[x], job'[x] = job[x], step'[x] = step[x]
      PROVE  ReceiptsOf(x)'
  <2> SUFFICES ASSUME NEW t \in Steps,
                      \/ pc[x] \in {"request", "consume"} /\ t < step[x]
                      \/ pc[x] \in {"execute", "verify"} /\ t <= step[x]
               PROVE  receipts'[<<job[x].bundle, t>>] = x
    BY <1>4 DEF ReceiptsOf
  <2>1. receipts[<<job[x].bundle, t>>] = x /\ <<job[x].bundle, t>> \in Packets
    BY <1>1 DEF ReceiptsOf, JobOf, Packets
  <2> QED
    BY <1>2, <2>1, OperatorAssumption
<1>5. ASSUME NEW a \in Applies, Moves(a) PROVE ReceiptsOf(a)'
  <2> USE DEF TypeOK
  <2>1. ASSUME NEW t \in Steps, receipts[<<job[a].bundle, t>>] = a, pc[a] # "idle"
        PROVE  receipts'[<<job[a].bundle, t>>] = a
    <3>1. <<job[a].bundle, t>> \in Packets
      BY <1>1, <2>1 DEF JobOf, Packets
    <3> QED
      BY <1>2, <2>1, <3>1, OperatorAssumption
  <2>9. step[a] \in 1 .. 3
    BY DEF Steps
  <2>2. ASSUME NEW b \in Bundles, NEW c \in Bundles, NEW d \in Decisions,
               apply_operator_plan(a, b, c, d)
        PROVE  ReceiptsOf(a)'
    BY <2>2 DEF apply_operator_plan, ReceiptsOf, UndoInv, UndoOf, Steps
  <2>3. CASE request_packet(a)
    BY <1>1, <2>1, <2>3 DEF request_packet, Refuse, ReceiptsOf
  <2>4. CASE consume_approval(a)
    <3>1. CASE receipts[Packet(a)] # NULL
      BY <2>4, <3>1 DEF consume_approval, Refuse, ReceiptsOf
    <3>2. CASE receipts[Packet(a)] = NULL
      <4>1. /\ pc[a] = "consume" /\ job' = job /\ step' = step
            /\ receipts' = [receipts EXCEPT ![Packet(a)] = a]
        BY <2>4, <3>2 DEF consume_approval
      <4>2. Packet(a) \in Packets
        BY <1>1, <4>1 DEF JobOf, Packet, Packets
      <4>3. receipts'[<<job[a].bundle, step[a]>>] = a
        BY <4>1, <4>2 DEF Packet
      <4>4. \A t \in Steps : t < step[a] => receipts'[<<job[a].bundle, t>>] = a
        BY <1>1, <2>1, <4>1 DEF ReceiptsOf
      <4>5. \A t \in Steps : t <= step[a] => t < step[a] \/ t = step[a]
        BY <2>9 DEF Steps
      <4>6. pc'[a] = "execute"
        BY <2>4, <3>2 DEF consume_approval
      <4> QED
        BY <4>1, <4>3, <4>4, <4>5, <4>6 DEF ReceiptsOf
    <3> QED
      BY <3>1, <3>2
  <2>5. CASE ExecuteOk(a)
    BY <1>1, <2>1, <2>5 DEF ExecuteOk, ReceiptsOf
  <2>6. CASE VerifyOk(a)
    <3>1. CASE step[a] < 3
      <4>1. pc[a] = "verify" /\ pc'[a] = "request" /\ job' = job /\ step'[a] = step[a] + 1
        BY <2>6, <3>1 DEF VerifyOk
      <4>2. \A t \in Steps : t < step[a] + 1 => t <= step[a]
        BY <2>9 DEF Steps
      <4> QED
        BY <1>1, <2>1, <4>1, <4>2 DEF ReceiptsOf
    <3>2. CASE ~(step[a] < 3)
      BY <2>6, <3>2 DEF VerifyOk, ReceiptsOf
    <3> QED
      BY <3>1, <3>2
  <2>7. CASE ExecuteFails(a) \/ ResponseLost(a) \/ VerifyFails(a) \/ ReadBack(a)
    BY <2>7 DEF ExecuteFails, ResponseLost, VerifyFails, ReadBack, Refuse, ReceiptsOf
  <2>8. CASE RollbackOk(a) \/ RollbackFails(a) \/ RollbackDone(a) \/ Crash(a)
    BY <2>8 DEF RollbackOk, RollbackFails, RollbackDone, Crash, ReceiptsOf
  <2> QED
    BY <1>5, <2>2, <2>3, <2>4, <2>5, <2>6, <2>7, <2>8 DEF Moves, Proceed
<1>6. \A x \in Applies : ReceiptsOf(x)'
  <2>1. ASSUME NEW a \in Applies, Moves(a), NEW x \in Applies \ {a} PROVE ReceiptsOf(x)'
    BY <1>4, <2>1, Frame
  <2> QED
    BY <1>4, <1>5, <2>1, OtherSteps
<1> QED
  BY <1>3, <1>6 DEF ReceiptInv

\* A bundle stays with the apply that created its first receipt.
LEMMA OneApplyStep ==
    ASSUME Inv, [Next]_vars
    PROVE  OneApplyPerBundle'
<1> USE DEF Inv
<1>1. ASSUME NEW a \in Applies, pc[a] = "consume", receipts[Packet(a)] = NULL,
             receipts' = [receipts EXCEPT ![Packet(a)] = a]
      PROVE  OneApplyPerBundle'
  <2> SUFFICES ASSUME NEW b \in Bundles, NEW s \in Steps, NEW t \in Steps,
                      t < s, receipts'[<<b, s>>] # NULL
               PROVE  receipts'[<<b, t>>] = receipts'[<<b, s>>]
    BY DEF OneApplyPerBundle
  <2>1. <<b, s>> \in Packets /\ <<b, t>> \in Packets /\ <<b, s>> # <<b, t>>
    BY DEF Packets, Steps
  <2>2. CASE Packet(a) = <<b, s>>
    <3>1. job[a].bundle = b /\ step[a] = s
      BY <2>2 DEF Packet
    <3>2. receipts[<<b, t>>] = a
      BY <1>1, <3>1 DEF ReceiptInv, ReceiptsOf
    <3> QED
      BY <1>1, <2>1, <2>2, <3>2 DEF TypeOK
  <2>3. CASE Packet(a) = <<b, t>>
    <3>1. receipts[<<b, s>>] # NULL
      BY <1>1, <2>1, <2>3 DEF TypeOK
    <3>2. receipts[<<b, t>>] = receipts[<<b, s>>]
      BY <3>1 DEF OneApplyPerBundle
    <3> QED
      BY <1>1, <2>3, <3>1, <3>2
  <2>4. CASE Packet(a) # <<b, s>> /\ Packet(a) # <<b, t>>
    <3>1. receipts'[<<b, s>>] = receipts[<<b, s>>] /\ receipts'[<<b, t>>] = receipts[<<b, t>>]
      BY <1>1, <2>1, <2>4 DEF TypeOK
    <3> QED
      BY <3>1 DEF OneApplyPerBundle
  <2> QED
    BY <2>2, <2>3, <2>4
<1>2. CASE receipts' = receipts
  BY <1>2 DEF OneApplyPerBundle
<1> QED
  BY <1>1, <1>2, ReceiptFrame

\* The counters change only in the execution of the packet's own step.
LEMMA WriteFrame ==
    ASSUME Inv, [Next]_vars
    PROVE  \/ writes' = writes
           \/ \E a \in Applies : /\ pc[a] = "execute" /\ pc'[a] # "execute"
                                  /\ receipts' = receipts
                                  /\ Counted(a) /\ Moves(a)
<1>1. ASSUME NEW a \in Applies, ExecuteOk(a) \/ ExecuteFails(a) \/ ResponseLost(a)
      PROVE  /\ pc[a] = "execute" /\ pc'[a] # "execute"
             /\ receipts' = receipts
             /\ Counted(a) /\ Moves(a)
  BY <1>1 DEF ExecuteOk, ExecuteFails, ResponseLost, Refuse, gate, Moves, Proceed, Inv, TypeOK
<1>2. ASSUME NEW a \in Applies, Moves(a),
             ~(ExecuteOk(a) \/ ExecuteFails(a) \/ ResponseLost(a))
      PROVE  writes' = writes
  BY <1>2 DEF Moves, Proceed, Crash, apply_operator_plan, request_packet, consume_approval,
     VerifyOk, VerifyFails, ReadBack, RollbackOk, RollbackFails, RollbackDone
<1> QED
  BY <1>1, <1>2, OtherSteps

\* An apply reaches a step's execution by creating its receipt.
LEMMA EnterExecute ==
    ASSUME Inv, [Next]_vars, NEW x \in Applies, pc'[x] = "execute"
    PROVE  /\ job'[x] = job[x] /\ step'[x] = step[x]
           /\ pc[x] = "execute" \/ (pc[x] = "consume" /\ receipts[Packet(x)] = NULL)
<1> USE DEF Inv, TypeOK
<1> DEFINE Goal == /\ job'[x] = job[x] /\ step'[x] = step[x]
                   /\ pc[x] = "execute" \/ (pc[x] = "consume" /\ receipts[Packet(x)] = NULL)
<1>1. CASE Moves(x)
  <2>1. consume_approval(x) => Goal
    BY DEF consume_approval, Refuse
  <2>2. ~consume_approval(x) => pc'[x] # "execute"
    BY <1>1 DEF Moves, Proceed, Crash, apply_operator_plan, request_packet, ExecuteOk,
       ExecuteFails, ResponseLost, VerifyOk, VerifyFails, ReadBack, RollbackOk, RollbackFails,
       RollbackDone, Refuse
  <2> QED
    BY <2>1, <2>2
<1>2. ASSUME NEW a \in Applies, Moves(a), a # x PROVE Goal
  BY <1>2, Frame
<1>3. CASE ~ \E a \in Applies : Moves(a)
  <2>1. pc' = pc /\ job' = job /\ step' = step
    BY <1>3, OtherSteps
  <2> QED
    BY <2>1
<1> QED
  BY <1>1, <1>2, <1>3

\* No step is executed without its receipt, or twice under one.
LEMMA WriteStep ==
    ASSUME Inv, [Next]_vars, TypeOK'
    PROVE  WriteInv'
<1> USE DEF Inv
<1>1. \A x \in Applies : JobOf(x) /\ ReceiptsOf(x)
  BY DEF JobInv, ReceiptInv
<1>2. ASSUME NEW x \in Applies, pc[x] \in {"consume", "execute"}
      PROVE  /\ Packet(x) \in Packets
             /\ pc[x] = "execute" => receipts[Packet(x)] = x
  <2>1. step[x] \in Steps /\ step[x] <= step[x]
    BY DEF TypeOK, Steps
  <2> QED
    BY <1>1, <1>2, <2>1 DEF JobOf, ReceiptsOf, Packet, Packets
<1>3. \A p \in Packets : receipts'[p] = NULL => receipts[p] = NULL
  BY ReceiptFrame, OperatorAssumption DEF TypeOK
<1>4. ASSUME NEW x \in Applies, pc'[x] = "execute" PROVE writes[Packet(x)] = 0 /\ Packet(x)' = Packet(x)
  <2>1. Packet(x)' = Packet(x)
    BY <1>4, EnterExecute DEF Packet
  <2>2. CASE pc[x] = "execute"
    BY <2>1, <2>2 DEF WriteInv
  <2>3. CASE pc[x] = "consume" /\ receipts[Packet(x)] = NULL
    BY <1>2, <2>1, <2>3 DEF WriteInv
  <2> QED
    BY <1>4, <2>2, <2>3, EnterExecute
<1>5. CASE writes' = writes
  BY <1>3, <1>4, <1>5 DEF WriteInv
<1>6. ASSUME NEW a \in Applies, pc[a] = "execute", pc'[a] # "execute", receipts' = receipts,
             Counted(a), Moves(a)
      PROVE  WriteInv'
  <2>1. /\ Packet(a) \in Packets /\ writes[Packet(a)] = 0 /\ receipts[Packet(a)] = a
    BY <1>2, <1>6 DEF WriteInv
  <2>2. /\ writes'[Packet(a)] = 1
        /\ \A p \in Packets : p # Packet(a) => writes'[p] = writes[p]
    BY <1>6, <2>1 DEF Counted, TypeOK
  <2>3. ASSUME NEW x \in Applies, pc'[x] = "execute" PROVE writes'[Packet(x)'] = 0
    <3>1. x # a /\ pc[x] = "execute"
      BY <1>6, <2>3, Frame
    <3>2. Packet(x) \in Packets /\ Packet(x) # Packet(a)
      BY <1>2, <2>1, <3>1
    <3> QED
      BY <1>4, <2>2, <2>3, <3>2
  <2>4. \A p \in Packets : writes'[p] \in {0, 1} /\ (receipts'[p] = NULL => writes'[p] = 0)
    BY <1>6, <2>1, <2>2, OperatorAssumption DEF WriteInv
  <2> QED
    BY <2>3, <2>4 DEF WriteInv
<1> QED
  BY <1>5, <1>6, WriteFrame

\* What pushing and popping a rollback token does to the stack.
LEMMA PushToken ==
    ASSUME NEW S, NEW q \in Seq(S), NEW e \in S
    PROVE  Append(q, e)[Len(q) + 1] = e
OBVIOUS

\* The stack of rollback tokens without its last one.
LEMMA PopToken ==
    ASSUME NEW S, NEW q \in Seq(S), q # <<>>
    PROVE  /\ Len(SubSeq(q, 1, Len(q) - 1)) = Len(q) - 1
           /\ \A i \in 1 .. Len(q) - 1 : SubSeq(q, 1, Len(q) - 1)[i] = q[i]
<1>1. Len(q) \in Nat /\ Len(q) - 1 \in Nat
  OBVIOUS
<1>2. Len(SubSeq(q, 1, Len(q) - 1)) = Len(q) - 1
  BY <1>1, SMTT(30)
<1>3. \A i \in 1 .. Len(q) - 1 : SubSeq(q, 1, Len(q) - 1)[i] = q[i]
  BY <1>1
<1> QED
  BY <1>2, <1>3

\* The rollback tokens follow the steps.
LEMMA UndoStep ==
    ASSUME Inv, [Next]_vars, TypeOK'
    PROVE  UndoInv'
<1> USE DEF Inv
<1>1. \A x \in Applies : UndoOf(x)
  BY DEF UndoInv
<1>2. ASSUME NEW x \in Applies, pc'[x] = pc[x], step'[x] = step[x], undo'[x] = undo[x]
      PROVE  UndoOf(x)'
  BY <1>1, <1>2 DEF UndoOf
<1>3. ASSUME NEW a \in Applies, Moves(a) PROVE UndoOf(a)'
  <2> USE DEF TypeOK
  <2>1. UndoOf(a) /\ step[a] \in 1 .. 3 /\ Len(undo[a]) \in Nat
    BY <1>1 DEF Steps
  <2>2. ASSUME NEW b \in Bundles, NEW c \in Bundles, NEW d \in Decisions,
               apply_operator_plan(a, b, c, d)
        PROVE  UndoOf(a)'
    BY <2>1, <2>2 DEF apply_operator_plan, UndoOf
  <2>3. CASE request_packet(a) \/ consume_approval(a)
    BY <2>1, <2>3 DEF request_packet, consume_approval, Refuse, UndoOf
  <2>4. CASE ExecuteOk(a)
    <3>1. /\ pc[a] = "execute" /\ pc'[a] = "verify" /\ step'[a] = step[a]
          /\ undo'[a] = Append(undo[a], Token(a))
      BY <2>4 DEF ExecuteOk
    <3>2. Len(undo'[a]) = Len(undo[a]) + 1
      BY <3>1
    <3>3. Len(undo[a]) = step[a] - 1
      BY <2>1, <3>1 DEF UndoOf
    <3>4. CASE step[a] = 1
      BY <2>1, <3>1, <3>2, <3>3, <3>4 DEF UndoOf
    <3>5. CASE step[a] = 2
      <4>1. Token(a) \in {NULL, Base}
        BY <3>5 DEF Token
      <4>2. undo[a] \in Seq(Applies \cup {Base, NULL}) /\ Len(undo[a]) = 1
        BY <3>3, <3>5
      <4>3. Append(undo[a], Token(a))[Len(undo[a]) + 1] = Token(a)
        <5> HIDE DEF TypeOK
        <5>1. Token(a) \in Applies \cup {Base, NULL}
          BY <4>1
        <5> QED
          BY <4>2, <5>1, PushToken, Zenon
      <4>4. undo'[a][2] = Token(a)
        BY <3>1, <4>2, <4>3
      <4> QED
        BY <2>1, <3>1, <3>2, <3>3, <3>5, <4>1, <4>4 DEF UndoOf
    <3>6. CASE step[a] = 3
      <4>1. undo'[a][2] = undo[a][2]
        BY <3>1, <3>3, <3>6
      <4> QED
        BY <2>1, <3>1, <3>2, <3>3, <3>6, <4>1 DEF UndoOf
    <3> QED
      BY <2>1, <3>4, <3>5, <3>6
  <2>5. CASE VerifyOk(a)
    BY <2>1, <2>5 DEF VerifyOk, UndoOf
  <2>6. CASE ExecuteFails(a) \/ ResponseLost(a) \/ VerifyFails(a)
    BY <2>1, <2>6 DEF ExecuteFails, ResponseLost, VerifyFails, Refuse, UndoOf
  <2>7. CASE ReadBack(a) \/ RollbackDone(a) \/ Crash(a)
    <3>1. undo'[a] = <<>> /\ pc'[a] = "done"
      BY <2>7 DEF ReadBack, RollbackDone, Crash, Forget
    <3> QED
      BY <3>1 DEF UndoOf
  <2>8. CASE RollbackOk(a) \/ RollbackFails(a)
    <3>1. /\ pc[a] = "rollback" /\ pc'[a] = "rollback" /\ undo[a] # <<>>
          /\ undo'[a] = SubSeq(undo[a], 1, Len(undo[a]) - 1)
      BY <2>8 DEF RollbackOk, RollbackFails, Pop, Last
    <3>2. undo[a] \in Seq(Applies \cup {Base, NULL})
      OBVIOUS
    <3>3. Len(undo'[a]) = Len(undo[a]) - 1
      BY <3>1, <3>2, PopToken
    <3>4. Len(undo'[a]) >= 2 => undo'[a][2] = undo[a][2]
      BY <2>1, <3>1, <3>2, <3>3, PopToken
    <3> QED
      BY <2>1, <3>1, <3>3, <3>4 DEF UndoOf
  <2> QED
    BY <1>3, <2>2, <2>3, <2>4, <2>5, <2>6, <2>7, <2>8 DEF Moves, Proceed
<1>4. ASSUME NEW a \in Applies, Moves(a), NEW x \in Applies \ {a} PROVE UndoOf(x)'
  BY <1>2, <1>4, Frame
<1> QED
  BY <1>2, <1>3, <1>4, OtherSteps DEF UndoInv

\* Only an approved version of the plan is written to the branch.
LEMMA ContentStep ==
    ASSUME Inv, [Next]_vars, TypeOK'
    PROVE  ApprovedContentOnly'
<1> USE DEF Inv
<1>1. ASSUME NEW b \in Bundles, bundle[b].plan \in Plans, <<b, "approve">> \in signed,
             receipts[<<b, 2>>] # NULL
      PROVE  /\ bundle'[b].plan = bundle[b].plan
             /\ <<b, "approve">> \in signed' /\ receipts'[<<b, 2>>] # NULL
  <2>1. <<b, 2>> \in Packets
    BY DEF Packets, Steps
  <2>2. receipts'[<<b, 2>>] # NULL
    BY <1>1, <2>1, ReceiptFrame, OperatorAssumption DEF TypeOK
  <2> QED
    BY <1>1, <2>2, BundleStep
<1>2. CASE branch' = branch \/ branch' \in {Base, NULL}
  BY <1>1, <1>2, OperatorAssumption DEF ApprovedContentOnly
<1>3. ASSUME NEW a \in Applies, pc[a] = "execute", update_file(a) PROVE ApprovedContentOnly'
  <2>1. /\ step[a] = 2 /\ branch' = job[a].plan
        /\ JobOf(a) /\ ReceiptsOf(a)
    BY <1>3 DEF update_file, JobInv, ReceiptInv
  <2>2. /\ job[a].bundle \in Bundles /\ job[a].plan \in Plans
        /\ bundle[job[a].bundle].plan = job[a].plan
        /\ <<job[a].bundle, "approve">> \in signed
    BY <1>3, <2>1 DEF JobOf
  <2>3. receipts[<<job[a].bundle, 2>>] # NULL
    BY <1>3, <2>1, OperatorAssumption DEF ReceiptsOf, Steps
  <2> QED
    BY <1>1, <2>1, <2>2, <2>3 DEF ApprovedContentOnly
<1>4. ASSUME NEW a \in Applies, Moves(a), ~(pc[a] = "execute" /\ update_file(a))
      PROVE  branch' = branch \/ branch' \in {Base, NULL}
  <2>1. CASE ExecuteOk(a) \/ ResponseLost(a)
    BY <1>4, <2>1 DEF ExecuteOk, ResponseLost, Effect, create_branch, open_pr
  <2>2. CASE RollbackOk(a) \/ RollbackFails(a)
    <3>1. Last(a) = 2 => undo[a][Last(a)] \in {NULL, Base}
      BY DEF UndoInv, UndoOf, Last
    <3> QED
      BY <2>2, <3>1 DEF RollbackOk, RollbackFails, Compensation, github
  <2>3. CASE ~ExecuteOk(a) /\ ~ResponseLost(a) /\ ~RollbackOk(a) /\ ~RollbackFails(a)
    BY <1>4, <2>3 DEF Moves, Proceed, Crash, apply_operator_plan, request_packet,
       consume_approval, ExecuteFails, VerifyOk, VerifyFails, ReadBack, RollbackDone,
       github
  <2> QED
    BY <2>1, <2>2, <2>3
<1> QED
  BY <1>2, <1>3, <1>4, OtherSteps

-----------------------------------------------------------------------------
\* The invariant holds in every reachable state, for every number of plan
\* versions, bundles and applies: the strengthening that makes the use of
\* receipts in consume_approval an induction.
THEOREM OperatorInvariance == Spec => []Inv
<1>1. Inv /\ [Next]_vars => Inv'
  <2> SUFFICES ASSUME Inv, [Next]_vars PROVE Inv'
    OBVIOUS
  <2>1. TypeOK'
    BY TypeStep DEF Inv
  <2>2. BundleInv' /\ OneApplyPerBundle'
    BY BundleStep, OneApplyStep
  <2>3. JobInv'
    BY <2>1, JobStep
  <2>4. ReceiptInv'
    BY <2>1, <2>3, ReceiptStep
  <2>5. WriteInv' /\ UndoInv' /\ ApprovedContentOnly'
    BY <2>1, WriteStep, UndoStep, ContentStep
  <2> QED
    BY <2>1, <2>2, <2>3, <2>4, <2>5 DEF Inv
<1> QED
  BY <1>1, InitInv, PTL DEF Spec

\* However many applies hold a signed decision, the step of a packet executes
\* at most once, and only with an approval.
THEOREM ApprovalNeverReplayed == Spec => []ApprovalUsedOnce
<1>1. Inv => ApprovalUsedOnce
  <2> SUFFICES ASSUME Inv, NEW p \in Packets
               PROVE  writes[p] <= 1 /\ (writes[p] = 1 => <<p[1], "approve">> \in signed)
    BY DEF ApprovalUsedOnce
  <2>1. writes[p] \in {0, 1}
    BY DEF Inv, WriteInv
  <2>2. writes[p] = 1 => <<p[1], "approve">> \in signed
    BY DEF Inv, WriteInv, ReceiptInv
  <2> QED
    BY <2>1, <2>2
<1> QED
  BY <1>1, OperatorInvariance, PTL

\* A bundle is used by one apply only, in the order of the steps.
THEOREM BundleHasOneApply == Spec => []OneApplyPerBundle
<1>1. Inv => OneApplyPerBundle
  BY DEF Inv
<1> QED
  BY <1>1, OperatorInvariance, PTL

\* The work branch never holds a version of the plan that was not approved.
THEOREM OnlyApprovedContent == Spec => []ApprovedContentOnly
<1>1. Inv => ApprovedContentOnly
  BY DEF Inv
<1> QED
  BY <1>1, OperatorInvariance, PTL
-----------------------------------------------------------------------------
\* The apply that consumed the first approval of its bundle; with no receipt
\* under another bundle of the plan, it alone has written to GitHub.
Owns(a) == receipts[<<job[a].bundle, 1>>] = a
Sole(a) == pc[a] # "idle" /\ Owns(a) /\ Undisturbed(a)

\* Whatever an apply has written, or may still undo, it wrote as an owner.
OwnerOf(a) ==
    /\ \/ undo[a] # <<>>
       \/ pc[a] \in {"execute", "verify", "readBack"}
       \/ result[a] = "ok"
       => Owns(a)
    /\ result[a] = "ok" => pc[a] = "done"
    /\ pc[a] = "idle" => \A p \in Packets : receipts[p] # a

OwnerInv == \A a \in Applies : OwnerOf(a)

\* Before the first approval is consumed GitHub has seen nothing of the plan.
EmptyInv ==
    (\A b \in Bundles : receipts[<<b, 1>>] = NULL) => branch = NULL /\ pr = NULL

\* What GitHub holds when an apply has been alone, by where the apply is.
HeldBefore(a) ==
    /\ step[a] = 1 => branch = NULL /\ pr = NULL
    /\ step[a] = 2 => branch = Base /\ pr = NULL
    /\ step[a] = 3 => branch = job[a].plan /\ pr = NULL

HeldAfter(a) ==
    /\ step[a] = 1 => branch = Base /\ pr = NULL
    /\ step[a] = 2 => branch = job[a].plan /\ pr = NULL
    /\ step[a] = 3 => branch = job[a].plan /\ pr = a

SoleOf(a) ==
    /\ pc[a] \in {"request", "consume", "execute"} => HeldBefore(a)
    /\ pc[a] = "verify" => HeldAfter(a)
    /\ pc[a] = "readBack" \/ result[a] = "ok" => branch = job[a].plan /\ pr = a
    /\ /\ \/ pc[a] = "rollback" /\ undo[a] = <<>>
          \/ pc[a] = "done" /\ result[a] = "refused"
       /\ a \notin reported /\ a \notin lost
       => branch = NULL /\ pr = NULL

SoleInv == \A a \in Applies : Sole(a) => SoleOf(a)

GitHubInv == Inv /\ OwnerInv /\ EmptyInv /\ SoleInv

\* The initial state has no owner and an empty work branch.
LEMMA InitGitHub == Init => OwnerInv /\ EmptyInv /\ SoleInv
<1> SUFFICES ASSUME Init PROVE OwnerInv /\ EmptyInv /\ SoleInv
  OBVIOUS
<1> QED
  BY OperatorAssumption DEF Init, OwnerInv, OwnerOf, EmptyInv, SoleInv, Sole

\* A step of an apply reports nothing for the others, takes no report back and
\* touches GitHub only from an execution or a compensation.
LEMMA Bystanders ==
    ASSUME TypeOK, NEW a \in Applies, Moves(a)
    PROVE  /\ \A x \in Applies \ {a} : result'[x] = result[x]
           /\ reported \subseteq reported' /\ lost \subseteq lost'
           /\ \/ UNCHANGED <<branch, pr>>
              \/ pc[a] = "execute"
              \/ pc[a] = "rollback" /\ undo[a] # <<>>
<1> USE DEF TypeOK, gate, github, Refuse, Pop, Forget
<1> DEFINE Goal == /\ \A x \in Applies \ {a} : result'[x] = result[x]
                   /\ reported \subseteq reported' /\ lost \subseteq lost'
                   /\ \/ UNCHANGED <<branch, pr>>
                      \/ pc[a] = "execute"
                      \/ pc[a] = "rollback" /\ undo[a] # <<>>
<1>1. ASSUME NEW b, NEW c, NEW d, apply_operator_plan(a, b, c, d) PROVE Goal
  BY <1>1 DEF apply_operator_plan
<1>2. request_packet(a) \/ consume_approval(a) => Goal
  BY DEF request_packet, consume_approval
<1>3. ExecuteOk(a) \/ ExecuteFails(a) \/ ResponseLost(a) => Goal
  BY DEF ExecuteOk, ExecuteFails, ResponseLost
<1>4. VerifyOk(a) \/ VerifyFails(a) \/ ReadBack(a) => Goal
  BY DEF VerifyOk, VerifyFails, ReadBack
<1>5. RollbackOk(a) \/ RollbackFails(a) \/ RollbackDone(a) \/ Crash(a) => Goal
  BY DEF RollbackOk, RollbackFails, RollbackDone, Crash
<1> QED
  BY <1>1, <1>2, <1>3, <1>4, <1>5 DEF Moves, Proceed

\* The other steps report nothing and leave GitHub alone.
LEMMA NoReports ==
    ASSUME [Next]_vars, ~ \E a \in Applies : Moves(a)
    PROVE  UNCHANGED <<result, reported, lost, branch, pr>>
<1>1. ASSUME NEW b \in Bundles, NEW v \in Plans, build_approval_bundle(b, v)
      PROVE  UNCHANGED <<result, reported, lost, branch, pr>>
  BY <1>1 DEF build_approval_bundle
<1>2. ASSUME NEW b \in Bundles, NEW d \in Decisions, build_signed_decision_bundle(b, d)
      PROVE  UNCHANGED <<result, reported, lost, branch, pr>>
  BY <1>2 DEF build_signed_decision_bundle
<1>3. Tick \/ UNCHANGED vars => UNCHANGED <<result, reported, lost, branch, pr>>
  BY DEF Tick, vars, github
<1> QED
  BY <1>1, <1>2, <1>3 DEF Next, Moves

\* A receipt stays, so what was undisturbed after a step was so before it.
LEMMA ReceiptsStay ==
    ASSUME Inv, [Next]_vars
    PROVE  \A p \in Packets : receipts[p] # NULL => receipts'[p] = receipts[p]
BY ReceiptFrame DEF Inv, TypeOK

\* Every bundle has a packet for the first step.
LEMMA FirstPacket == ASSUME NEW b \in Bundles PROVE <<b, 1>> \in Packets
<1>1. 1 \in Steps
  BY DEF Steps
<1> QED
  BY <1>1 DEF Packets

\* Owners stay owners, and only owners come to write.
LEMMA OwnerStep ==
    ASSUME GitHubInv, [Next]_vars, Inv'
    PROVE  OwnerInv'
<1> USE DEF GitHubInv, Inv
<1>1. \A x \in Applies : OwnerOf(x) /\ JobOf(x) /\ UndoOf(x)
  BY DEF OwnerInv, JobInv, UndoInv
<1>2. ASSUME NEW x \in Applies, job'[x] = job[x], pc[x] # "idle", Owns(x)
      PROVE  Owns(x)'
  <2>1. <<job[x].bundle, 1>> \in Packets
    BY <1>1, <1>2, FirstPacket DEF JobOf
  <2>2. receipts[<<job[x].bundle, 1>>] = x /\ x # NULL
    BY <1>2, OperatorAssumption DEF Owns
  <2>3. receipts'[<<job[x].bundle, 1>>] = x
    BY <2>1, <2>2, ReceiptsStay
  <2> QED
    BY <1>2, <2>3 DEF Owns
<1>3. \A x \in Applies : pc[x] = "idle" => undo[x] = <<>> /\ result[x] # "ok"
  BY <1>1 DEF UndoOf, OwnerOf, TypeOK
<1>0. ASSUME NEW x \in Applies, pc'[x] = "idle", pc[x] = "idle", NEW p \in Packets
      PROVE  receipts'[p] # x
  <2>1. receipts[p] # x
    BY <1>0, <1>1 DEF OwnerOf
  <2>2. CASE receipts' = receipts
    BY <2>1, <2>2
  <2>3. CASE receipts' # receipts
    <3>1. PICK y \in Applies : /\ pc[y] = "consume"
                               /\ receipts' = [receipts EXCEPT ![Packet(y)] = y]
      BY <2>3, ReceiptFrame
    <3>2. y # x
      BY <1>0, <3>1
    <3> QED
      BY <2>1, <3>1, <3>2 DEF TypeOK
  <2> QED
    BY <2>2, <2>3
<1>4. ASSUME NEW x \in Applies, pc'[x] = pc[x], job'[x] = job[x], undo'[x] = undo[x],
             result'[x] = result[x]
      PROVE  OwnerOf(x)'
  <2>1. pc'[x] = "idle" => \A p \in Packets : receipts'[p] # x
    BY <1>0, <1>4
  <2> QED
    BY <1>1, <1>2, <1>3, <1>4, <2>1 DEF OwnerOf
<1>5. ASSUME NEW a \in Applies, Moves(a) PROVE OwnerOf(a)'
  <2>0. ReceiptsOf(a)'
    BY DEF ReceiptInv
  <2>1. pc'[a] \in {"execute", "verify"} => Owns(a)'
    <3>1. 1 \in Steps /\ step'[a] \in Steps /\ \A t \in Steps : 1 <= t
      BY DEF TypeOK, Steps
    <3> QED
      BY <2>0, <3>1 DEF ReceiptsOf, Owns
  <2> USE DEF TypeOK
  <2>2. ASSUME NEW b \in Bundles, NEW c \in Bundles, NEW d \in Decisions,
               apply_operator_plan(a, b, c, d)
        PROVE  OwnerOf(a)'
    BY <1>3, <2>2 DEF apply_operator_plan, OwnerOf
  <2>3. ASSUME Proceed(a) \/ Crash(a) PROVE pc[a] # "idle" /\ job' = job
    BY <2>3 DEF Proceed, request_packet, consume_approval, ExecuteOk, ExecuteFails,
       ResponseLost, VerifyOk, VerifyFails, ReadBack, RollbackOk, RollbackFails,
       RollbackDone, Crash, Refuse
  <2>4. ASSUME Proceed(a) \/ Crash(a), Owns(a) PROVE Owns(a)'
    BY <1>2, <2>3, <2>4
  <2>5. ASSUME Proceed(a) \/ Crash(a)
        PROVE  /\ result'[a] = "ok" => pc'[a] = "done"
               /\ undo'[a] # <<>> => undo[a] # <<>> \/ pc'[a] = "verify"
               /\ pc'[a] = "readBack" => pc[a] = "verify"
               /\ result'[a] = "ok" => pc[a] = "readBack"
               /\ pc'[a] # "idle"
    <3> DEFINE Goal == /\ result'[a] = "ok" => pc'[a] = "done"
                       /\ undo'[a] # <<>> => undo[a] # <<>> \/ pc'[a] = "verify"
                       /\ pc'[a] = "readBack" => pc[a] = "verify"
                       /\ result'[a] = "ok" => pc[a] = "readBack"
                       /\ pc'[a] # "idle"
    <3>1. OwnerOf(a)
      BY <1>1
    <3>2. request_packet(a) \/ consume_approval(a) => Goal
      BY <3>1 DEF request_packet, consume_approval, Refuse, OwnerOf
    <3>3. ExecuteOk(a) \/ ExecuteFails(a) \/ ResponseLost(a) => Goal
      BY <3>1 DEF ExecuteOk, ExecuteFails, ResponseLost, Refuse, OwnerOf
    <3>4. VerifyOk(a) \/ VerifyFails(a) \/ ReadBack(a) => Goal
      BY <3>1 DEF VerifyOk, VerifyFails, ReadBack, Refuse, Forget, OwnerOf
    <3>5. RollbackOk(a) \/ RollbackFails(a) => Goal
      BY <3>1 DEF RollbackOk, RollbackFails, OwnerOf
    <3>6. RollbackDone(a) \/ Crash(a) => Goal
      BY <3>1 DEF RollbackDone, Crash, Forget, OwnerOf
    <3> QED
      BY <2>5, <3>2, <3>3, <3>4, <3>5, <3>6 DEF Proceed
  <2>6. ASSUME Proceed(a) \/ Crash(a) PROVE OwnerOf(a)'
    BY <1>1, <2>1, <2>4, <2>5, <2>6 DEF OwnerOf
  <2> QED
    BY <1>5, <2>2, <2>6 DEF Moves
<1>6. ASSUME NEW a \in Applies, Moves(a), NEW x \in Applies \ {a} PROVE OwnerOf(x)'
  BY <1>4, <1>6, Frame, Bystanders
<1>7. ASSUME ~ \E a \in Applies : Moves(a) PROVE OwnerInv'
  BY <1>4, <1>7, OtherSteps, NoReports DEF OwnerInv
<1> QED
  BY <1>5, <1>6, <1>7 DEF OwnerInv

\* Who writes to GitHub or undoes a write is an owner.
LEMMA WritersOwn ==
    ASSUME GitHubInv, NEW a \in Applies,
           pc[a] = "execute" \/ (pc[a] = "rollback" /\ undo[a] # <<>>)
    PROVE  Owns(a) /\ job[a].bundle \in Bundles
BY DEF GitHubInv, Inv, OwnerInv, OwnerOf, JobInv, JobOf

\* The first write comes after the first receipt.
LEMMA EmptyStep ==
    ASSUME GitHubInv, [Next]_vars
    PROVE  EmptyInv'
<1> SUFFICES ASSUME \A b \in Bundles : receipts'[<<b, 1>>] = NULL
             PROVE  branch' = NULL /\ pr' = NULL
  BY DEF EmptyInv
<1>1. \A b \in Bundles : receipts[<<b, 1>>] = NULL
  <2>1. \A b \in Bundles : <<b, 1>> \in Packets
    BY FirstPacket
  <2> QED
    BY <2>1, ReceiptsStay DEF GitHubInv
<1>2. branch = NULL /\ pr = NULL
  BY <1>1 DEF GitHubInv, EmptyInv
<1>3. ASSUME NEW a \in Applies, Moves(a) PROVE UNCHANGED <<branch, pr>>
  <2>1. TypeOK /\ a # NULL
    BY OperatorAssumption DEF GitHubInv, Inv
  <2>2. ~(Owns(a) /\ job[a].bundle \in Bundles)
    BY <1>1, <2>1 DEF Owns
  <2> QED
    BY <1>3, <2>1, <2>2, Bystanders, WritersOwn
<1> QED
  BY <1>2, <1>3, NoReports

\* Somebody else's step does nothing to what a sole apply left at GitHub.
LEMMA OthersKeepAway ==
    ASSUME GitHubInv, NEW a \in Applies, Sole(a), NEW x \in Applies \ {a}, Moves(x)
    PROVE  UNCHANGED <<branch, pr>>
<1> SUFFICES ASSUME pc[x] = "execute" \/ (pc[x] = "rollback" /\ undo[x] # <<>>) PROVE FALSE
  BY Bystanders DEF GitHubInv, Inv
<1>1. Owns(x) /\ job[x].bundle \in Bundles
  BY WritersOwn
<1>2. job[x].bundle # job[a].bundle
  BY <1>1 DEF Owns, Sole
<1> QED
  BY <1>1, <1>2, OperatorAssumption DEF Owns, Sole, Undisturbed

\* Alone after a step, an apply was alone before it, or has just consumed its
\* first approval while GitHub had seen nothing.
LEMMA SoleBefore ==
    ASSUME GitHubInv, [Next]_vars, NEW a \in Applies, Sole(a)', job'[a] = job[a], pc[a] # "idle"
    PROVE  \/ Sole(a)
           \/ /\ pc[a] = "consume" /\ pc'[a] = "execute" /\ step[a] = 1 /\ step' = step
              /\ branch = NULL /\ pr = NULL
<1> USE DEF GitHubInv, Inv
<1>1. job[a].bundle \in Bundles
  BY DEF JobInv, JobOf
<1>2. \A b \in Bundles : <<b, 1>> \in Packets
  BY FirstPacket
<1>3. Undisturbed(a)
  BY <1>2, ReceiptsStay DEF Sole, Undisturbed
<1>4. CASE Owns(a)
  BY <1>3, <1>4 DEF Sole
<1>5. CASE ~Owns(a)
  <2>1. receipts' # receipts
    BY <1>5 DEF Sole, Owns
  <2>2. PICK x \in Applies :
              /\ pc[x] = "consume" /\ pc'[x] = "execute"
              /\ step' = step
              /\ receipts[Packet(x)] = NULL
              /\ receipts' = [receipts EXCEPT ![Packet(x)] = x]
    BY <2>1, ReceiptFrame
  <2>3. receipts'[<<job[a].bundle, 1>>] = a
    BY DEF Sole, Owns
  <2>4. Packet(x) = <<job[a].bundle, 1>> /\ x = a
    BY <1>1, <1>2, <1>5, <2>2, <2>3 DEF Owns, TypeOK
  <2>5. \A b \in Bundles : receipts[<<b, 1>>] = NULL
    BY <1>3, <2>2, <2>4 DEF Undisturbed
  <2>6. branch = NULL /\ pr = NULL
    BY <2>5 DEF EmptyInv
  <2> QED
    BY <2>2, <2>4, <2>6 DEF Packet
<1> QED
  BY <1>4, <1>5

\* What the own steps of a sole apply do at GitHub.
LEMMA SoleMoves ==
    ASSUME GitHubInv, Inv', OwnerInv', NEW a \in Applies, Sole(a), Proceed(a) \/ Crash(a)
    PROVE  SoleOf(a)'
<1> USE DEF GitHubInv, Inv
<1>1. SoleOf(a) /\ UndoOf(a) /\ OwnerOf(a) /\ OwnerOf(a)'
  BY DEF SoleInv, UndoInv, OwnerInv
<1>2. step[a] \in {1, 2, 3} /\ undo[a] \in Seq(Applies \cup {Base, NULL})
  BY DEF TypeOK, Steps
<1>3. ASSUME pc[a] \in {"request", "consume", "execute"}, undo[a] = <<>> PROVE step[a] = 1
  BY <1>1, <1>2, <1>3 DEF UndoOf
<1>4. ASSUME pc[a] \in {"request", "consume", "execute"}, pc'[a] = "rollback",
             UNCHANGED <<branch, pr, undo>>
      PROVE  SoleOf(a)'
  BY <1>1, <1>3, <1>4 DEF SoleOf, HeldBefore, OwnerOf
<1> USE DEF TypeOK
<1>5. CASE request_packet(a)
  <2>1. pc[a] = "request" /\ UNCHANGED <<branch, pr, undo, job>>
    BY <1>5 DEF request_packet, github
  <2>2. CASE pc'[a] = "rollback"
    BY <1>4, <2>1, <2>2
  <2>3. CASE pc'[a] = "consume" /\ step' = step
    BY <1>1, <2>1, <2>3 DEF SoleOf, HeldBefore, OwnerOf
  <2> QED
    BY <1>5, <2>2, <2>3 DEF request_packet, Refuse
<1>6. CASE consume_approval(a)
  <2>1. pc[a] = "consume" /\ UNCHANGED <<branch, pr, undo, job>>
    BY <1>6 DEF consume_approval, github
  <2>2. CASE pc'[a] = "rollback"
    BY <1>4, <2>1, <2>2
  <2>3. CASE pc'[a] = "execute" /\ step' = step
    BY <1>1, <2>1, <2>3 DEF SoleOf, HeldBefore, OwnerOf
  <2> QED
    BY <1>6, <2>2, <2>3 DEF consume_approval, Refuse
<1>7. CASE ExecuteOk(a)
  <2>1. /\ pc[a] = "execute" /\ pc'[a] = "verify" /\ Effect(a) /\ UNCHANGED <<step, job>>
    BY <1>7 DEF ExecuteOk
  <2>2. HeldBefore(a)
    BY <1>1, <2>1 DEF SoleOf
  <2>3. HeldAfter(a)'
    BY <1>2, <2>1, <2>2 DEF Effect, create_branch, update_file, open_pr, HeldBefore, HeldAfter
  <2> QED
    BY <1>1, <2>1, <2>3 DEF SoleOf, OwnerOf
<1>8. CASE ExecuteFails(a)
  BY <1>4, <1>8 DEF ExecuteFails, Refuse, github
<1>9. CASE ResponseLost(a)
  BY <1>1, <1>9 DEF ResponseLost, Refuse, SoleOf, OwnerOf
<1>10. CASE VerifyOk(a)
  <2>1. pc[a] = "verify" /\ HeldAfter(a) /\ UNCHANGED <<branch, pr, job>>
    BY <1>1, <1>10 DEF VerifyOk, SoleOf, github
  <2>2. CASE step[a] < 3 /\ step'[a] = step[a] + 1 /\ pc'[a] = "request"
    <3>1. HeldBefore(a)'
      BY <1>2, <2>1, <2>2 DEF HeldBefore, HeldAfter
    <3> QED
      BY <1>1, <2>2, <3>1 DEF SoleOf, OwnerOf
  <2>3. CASE step[a] = 3 /\ pc'[a] = "readBack"
    BY <1>1, <2>1, <2>3 DEF SoleOf, HeldAfter, OwnerOf
  <2> QED
    BY <1>10, <2>2, <2>3 DEF VerifyOk
<1>11. CASE VerifyFails(a)
  <2>1. undo[a] # <<>>
    BY <1>1, <1>2, <1>11 DEF VerifyFails, UndoOf
  <2> QED
    BY <1>1, <1>11, <2>1 DEF VerifyFails, Refuse, SoleOf, OwnerOf
<1>12. CASE ReadBack(a)
  BY <1>1, <1>12 DEF ReadBack, SoleOf, github
<1>13. CASE RollbackOk(a)
  <2>1. /\ pc[a] = "rollback" /\ pc'[a] = "rollback" /\ undo[a] # <<>> /\ Compensation(a)
        /\ undo'[a] = SubSeq(undo[a], 1, Len(undo[a]) - 1)
    BY <1>13 DEF RollbackOk, Pop, Last
  <2>2. Len(undo'[a]) = Len(undo[a]) - 1
    BY <1>2, <2>1, PopToken
  <2>3. undo'[a] = <<>> => Len(undo[a]) = 1
    BY <1>2, <2>2
  <2>4. Len(undo[a]) = 1 => branch' = NULL /\ pr' = NULL
    BY <2>1 DEF Compensation, Last
  <2> QED
    BY <1>1, <2>1, <2>3, <2>4 DEF SoleOf, OwnerOf
<1>14. CASE RollbackFails(a)
  BY <1>1, <1>14 DEF RollbackFails, SoleOf, OwnerOf
<1>15. CASE RollbackDone(a)
  BY <1>1, <1>15 DEF RollbackDone, SoleOf, OwnerOf, github
<1>16. CASE Crash(a)
  BY <1>16 DEF Crash, SoleOf
<1> QED
  BY <1>5, <1>6, <1>7, <1>8, <1>9, <1>10, <1>11, <1>12, <1>13, <1>14, <1>15, <1>16 DEF Proceed

\* GitHub holds what the sole apply left there.
LEMMA SoleStep ==
    ASSUME GitHubInv, [Next]_vars, Inv', OwnerInv'
    PROVE  SoleInv'
<1> SUFFICES ASSUME NEW a \in Applies, Sole(a)' PROVE SoleOf(a)'
  BY DEF SoleInv
<1>0. TypeOK /\ JobOf(a) /\ OwnerOf(a) /\ OwnerOf(a)' /\ (Sole(a) => SoleOf(a))
  BY DEF GitHubInv, Inv, JobInv, OwnerInv, SoleInv
<1>1. ASSUME UNCHANGED <<branch, pr>>, Sole(a), reported \subseteq reported', lost \subseteq lost',
             pc'[a] = pc[a], job'[a] = job[a], step'[a] = step[a], undo'[a] = undo[a],
             result'[a] = result[a]
      PROVE  SoleOf(a)'
  BY <1>0, <1>1 DEF SoleOf, HeldBefore, HeldAfter
<1>2. ASSUME NEW x \in Applies \ {a}, Moves(x) PROVE SoleOf(a)'
  <2>1. /\ pc'[a] = pc[a] /\ job'[a] = job[a] /\ step'[a] = step[a] /\ undo'[a] = undo[a]
        /\ result'[a] = result[a]
        /\ reported \subseteq reported' /\ lost \subseteq lost'
    BY <1>0, <1>2, Frame, Bystanders
  <2>2. pc[a] # "idle"
    BY <2>1 DEF Sole
  <2>3. Sole(a)
    BY <2>1, <2>2, SoleBefore
  <2> QED
    BY <1>1, <1>2, <2>1, <2>3, OthersKeepAway
<1>3. ASSUME ~ \E x \in Applies : Moves(x) PROVE SoleOf(a)'
  <2>1. /\ pc'[a] = pc[a] /\ job'[a] = job[a] /\ step'[a] = step[a] /\ undo'[a] = undo[a]
        /\ UNCHANGED <<result, reported, lost, branch, pr>>
    BY <1>3, OtherSteps, NoReports
  <2>2. pc[a] # "idle"
    BY <2>1 DEF Sole
  <2>3. Sole(a)
    BY <2>1, <2>2, SoleBefore
  <2> QED
    BY <1>1, <2>1, <2>3
<1>4. ASSUME NEW b \in Bundles, NEW c \in Bundles, NEW d \in Decisions,
             apply_operator_plan(a, b, c, d)
      PROVE  FALSE
  <2>1. pc[a] = "idle" /\ receipts' = receipts /\ job'[a].bundle = b
    BY <1>0, <1>4 DEF apply_operator_plan, gate, TypeOK
  <2>2. receipts[<<b, 1>>] = a
    BY <2>1 DEF Sole, Owns
  <2> QED
    BY <1>0, <2>1, <2>2, FirstPacket DEF OwnerOf
<1>5. ASSUME Proceed(a) \/ Crash(a) PROVE SoleOf(a)'
  <2>1. pc[a] # "idle" /\ job' = job
    BY <1>5 DEF Proceed, request_packet, consume_approval, ExecuteOk, ExecuteFails,
       ResponseLost, VerifyOk, VerifyFails, ReadBack, RollbackOk, RollbackFails,
       RollbackDone, Crash, Refuse
  <2>2. CASE Sole(a)
    BY <1>5, <2>2, SoleMoves
  <2>3. CASE ~Sole(a)
    <3>1. /\ pc[a] = "consume" /\ pc'[a] = "execute" /\ step[a] = 1 /\ step' = step
          /\ branch = NULL /\ pr = NULL
      BY <2>1, <2>3, SoleBefore
    <3>2. UNCHANGED <<branch, pr>>
      BY <1>0, <1>5, <3>1, Bystanders DEF Moves
    <3> QED
      BY <1>0, <3>1, <3>2 DEF SoleOf, HeldBefore, OwnerOf
  <2> QED
    BY <2>2, <2>3
<1> QED
  BY <1>2, <1>3, <1>4, <1>5 DEF Moves

-----------------------------------------------------------------------------
\* In every reachable state: GitHub has seen nothing before the first approval
\* is consumed, only owners of a first receipt write, and what GitHub holds
\* after one apply alone is told by where that apply is.
THEOREM GitHubInvariance == Spec => []GitHubInv
<1>1. GitHubInv /\ [Next]_vars /\ Inv' => GitHubInv'
  BY OwnerStep, EmptyStep, SoleStep DEF GitHubInv
<1>2. Init => GitHubInv
  BY InitInv, InitGitHub DEF GitHubInv
<1> QED
  BY <1>1, <1>2, OperatorInvariance, PTL DEF Spec

\* Once apply_operator_plan reported success, replays of its decision, applies
\* that fail, roll back or crash leave its content and its pull request alone,
\* as long as no other approval of the plan was consumed.
THEOREM ReplaysDoNoHarm == Spec => []ReplayIsHarmless
<1>1. GitHubInv => ReplayIsHarmless
  <2> SUFFICES ASSUME GitHubInv, NEW a \in Applies, result[a] = "ok", Undisturbed(a)
               PROVE  branch = job[a].plan /\ pr # NULL
    BY DEF ReplayIsHarmless
  <2>1. Sole(a)
    BY DEF GitHubInv, OwnerInv, OwnerOf, Sole
  <2> QED
    BY <2>1, OperatorAssumption DEF GitHubInv, SoleInv, SoleOf
<1> QED
  BY <1>1, GitHubInvariance, PTL

\* An apply that began to write, was refused, and neither lost an answer nor
\* reported a failed compensation has taken back branch and pull request.
THEOREM RefusedIsUndone == Spec => []RefusedLeavesNothing
<1>1. GitHubInv => RefusedLeavesNothing
  <2> SUFFICES ASSUME GitHubInv, NEW a \in Applies,
                      pc[a] = "done" /\ result[a] = "refused",
                      receipts[<<job[a].bundle, 1>>] = a,
                      a \notin reported /\ a \notin lost,
                      Undisturbed(a)
               PROVE  branch = NULL /\ pr = NULL
    BY DEF RefusedLeavesNothing
  <2>1. Sole(a)
    BY DEF Sole, Owns
  <2> QED
    BY <2>1 DEF GitHubInv, SoleInv, SoleOf
<1> QED
  BY <1>1, GitHubInvariance, PTL
=============================================================================
