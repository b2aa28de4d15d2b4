--------------------------- MODULE GitHubOperator ---------------------------
(***************************************************************************)
(* Applying an approved GitHub plan (github_operator.py): a reviewer signs *)
(* a decision over a bundle of approval packets, and any number of apply   *)
(* requests, in threads of the server or in processes of their own, take   *)
(* the plan's three steps through PreparedFileApprovalGate: create the     *)
(* work branch, update one file under an optimistic guard, open the pull   *)
(* request.  A step's approval is consumed by creating its receipt file    *)
(* with O_CREAT|O_EXCL before the step executes.  The first failure rolls  *)
(* the executed steps back, latest first.                                  *)
(*                                                                         *)
(* One operator plan is followed: Plans are its versions, which differ in  *)
(* the file content only and share plan_id, step ids, work branch and      *)
(* idempotency key.  GitHub keeps the work branch (with the one file) and  *)
(* at most one open pull request for it, known by the apply that opened    *)
(* it; deleting the branch closes the request.                             *)
(***************************************************************************)
EXTENDS Integers, Sequences

CONSTANTS
    Plans,       \* versions of the plan, by content
    Base,        \* the content on the base branch, and the guard's expectation
    Bundles,     \* approval bundles; a packet is a bundle and a step
    Applies,     \* calls of apply_operator_plan
    ShaGuarded,  \* the versions guarded by expected_sha, not expected_previous
    Decisions,   \* the decision values reviewers use
    ExpiresIn,   \* expires_in_seconds
    NULL,
    MaxNow       \* bound: the last instant of the clock

ASSUME OperatorAssumption ==
    /\ Base \notin Plans
    /\ NULL \notin Plans \cup {Base} \cup Bundles \cup Applies
    /\ ShaGuarded \subseteq Plans
    /\ Decisions \subseteq {"approve", "deny", "dry_run_only", "narrow_scope"}
    /\ ExpiresIn \in Nat
    /\ MaxNow \in Nat

Steps == 1 .. 3          \* create_branch, update_file, open_pr
Packets == Bundles \X Steps

VARIABLES
    now,       \* time.time()
    bundle,    \* per bundle: the plan it was built for and its expiry, or NULL
    signed,    \* the decision bundles that were signed
    receipts,  \* per packet: the apply that created its receipt, or NULL
    pc,        \* per apply: where it is
    job,       \* per apply: plan, bundle and the decision for that bundle
    step,      \* per apply: the current step
    undo,      \* per apply: rollback tokens of its executed steps
    result,    \* per apply: what it reported
    reported,  \* the applies that left a ManualRecoveryPacket
    branch,    \* GitHub: the content of the work branch, NULL if there is none
    pr,        \* GitHub: the apply that opened the open request, or NULL
    writes,    \* history: executions of each packet's step
    lost       \* history: the applies that lost the answer to a write

vars == <<now, bundle, signed, receipts, pc, job, step, undo, result, reported,
          branch, pr, writes, lost>>
gate == <<now, bundle, signed, receipts>>
github == <<branch, pr>>

NoBundle == [plan |-> NULL, expires |-> 0]
NoJob == [plan |-> NULL, bundle |-> NULL, decision |-> "deny"]

Init ==
    /\ now = 0
    /\ bundle = [b \in Bundles |-> NoBundle]
    /\ signed = {}
    /\ receipts = [p \in Packets |-> NULL]
    /\ pc = [a \in Applies |-> "idle"]
    /\ job = [a \in Applies |-> NoJob]
    /\ step = [a \in Applies |-> 1]
    /\ undo = [a \in Applies |-> <<>>]
    /\ result = [a \in Applies |-> "none"]
    /\ reported = {}
    /\ branch = NULL
    /\ pr = NULL
    /\ writes = [p \in Packets |-> 0]
    /\ lost = {}

Packet(a) == <<job[a].bundle, step[a]>>

-----------------------------------------------------------------------------
\* A bundle of fresh packets, one per step of the plan.
build_approval_bundle(b, v) ==
    /\ bundle[b] = NoBundle
    /\ bundle' = [bundle EXCEPT ![b] = [plan |-> v, expires |-> now + ExpiresIn]]
    /\ UNCHANGED <<now, signed, receipts, pc, job, step, undo, result, reported,
                   branch, pr, writes, lost>>

\* The same decision for every packet; a bundle may be decided again.
build_signed_decision_bundle(b, d) ==
    /\ bundle[b] # NoBundle
    /\ signed' = signed \cup {<<b, d>>}
    /\ UNCHANGED <<now, bundle, receipts, pc, job, step, undo, result, reported,
                   branch, pr, writes, lost>>

\* The call, past the checks of plan_id and digest (a call they refuse changes
\* nothing).  A decision bundle made for other packets of the same plan passes
\* them, and the gate then finds no decision for its packets.
apply_operator_plan(a, b, c, d) ==
    /\ pc[a] = "idle"
    /\ <<c, d>> \in signed
    /\ bundle[b].plan = bundle[c].plan
    /\ job' = [job EXCEPT ![a] =
                 [plan |-> bundle[b].plan, bundle |-> b,
                  decision |-> IF b = c THEN d ELSE "deny"]]
    /\ pc' = [pc EXCEPT ![a] = "request"]
    /\ UNCHANGED <<gate, step, undo, result, reported, github, writes, lost>>

-----------------------------------------------------------------------------
\* Defect: a narrowed or dry-run-only decision counts as an approval.
Approved_NotDenied(a) == job[a].decision # "deny"

Approved(a) == job[a].decision = "approve"

\* Defect: a refused step is passed over.
Refuse_SkipsStep(a) ==
    /\ step' = [step EXCEPT ![a] = IF @ < 3 THEN @ + 1 ELSE @]
    /\ pc' = [pc EXCEPT ![a] = IF step[a] < 3 THEN "request" ELSE "rollback"]
    /\ result' = [result EXCEPT ![a] = "refused"]

\* The step is BLOCKED or FAILED: the plan ends and is rolled back.
Refuse(a) ==
    /\ pc' = [pc EXCEPT ![a] = "rollback"]
    /\ result' = [result EXCEPT ![a] = "refused"]
    /\ UNCHANGED step

\* prepare_packet, request_packet and validate_approval_decision.  The packet
\* matches the step: the digest check of the call compared the same plan.
request_packet(a) ==
    /\ pc[a] = "request"
    /\ \/ /\ Approved(a) /\ now <= bundle[job[a].bundle].expires
          /\ pc' = [pc EXCEPT ![a] = "consume"]
          /\ UNCHANGED <<step, result>>
       \/ /\ ~Approved(a) \/ now > bundle[job[a].bundle].expires
          /\ Refuse(a)
    /\ UNCHANGED <<gate, job, undo, reported, github, writes, lost>>

\* Defect: an existing receipt is overwritten.
consume_approval_Overwrites(a) ==
    /\ pc[a] = "consume"
    /\ receipts' = [receipts EXCEPT ![Packet(a)] = a]
    /\ pc' = [pc EXCEPT ![a] = "execute"]
    /\ UNCHANGED <<now, bundle, signed, job, step, undo, result, reported,
                   github, writes, lost>>

\* os.open(path, O_CREAT|O_EXCL): created, or FileExistsError.
consume_approval(a) ==
    /\ pc[a] = "consume"
    /\ \/ /\ receipts[Packet(a)] = NULL
          /\ receipts' = [receipts EXCEPT ![Packet(a)] = a]
          /\ pc' = [pc EXCEPT ![a] = "execute"]
          /\ UNCHANGED <<step, result>>
       \/ /\ receipts[Packet(a)] # NULL
          /\ Refuse(a)
          /\ UNCHANGED receipts
    /\ UNCHANGED <<now, bundle, signed, job, undo, reported, github, writes, lost>>

-----------------------------------------------------------------------------
\* What the request of the current step does at GitHub.
\* An existing branch is taken as it is (422, then GET: already_exists).
create_branch(a) ==
    /\ step[a] = 1
    /\ branch' = IF branch = NULL THEN Base ELSE branch
    /\ UNCHANGED pr

\* The guard: the file must be what the plan expects to replace.
update_file(a) ==
    /\ step[a] = 2
    /\ branch = Base
    /\ branch' = job[a].plan
    /\ UNCHANGED pr

\* An open request with the plan's idempotency marker is taken as it is.
open_pr(a) ==
    /\ step[a] = 3
    /\ branch # NULL
    /\ pr' = IF pr = NULL THEN a ELSE pr
    /\ UNCHANGED branch

Effect(a) == create_branch(a) \/ update_file(a) \/ open_pr(a)

\* The rollback token: the content to restore, if update_file read it, and
\* the pull request to close.
Token(a) ==
    CASE step[a] = 1 -> NULL
      [] step[a] = 2 -> IF job[a].plan \in ShaGuarded THEN NULL ELSE Base
      [] OTHER -> pr'

Counted(a) == writes' = [writes EXCEPT ![Packet(a)] = @ + 1]

ExecuteOk(a) ==
    /\ pc[a] = "execute"
    /\ Effect(a)
    /\ Counted(a)
    /\ undo' = [undo EXCEPT ![a] = Append(@, Token(a))]
    /\ pc' = [pc EXCEPT ![a] = "verify"]
    /\ UNCHANGED <<gate, job, step, result, reported, lost>>

\* LeosError: the guard fails, or GitHub refuses or cannot be reached.
ExecuteFails(a) ==
    /\ pc[a] = "execute"
    /\ Counted(a)
    /\ Refuse(a)
    /\ UNCHANGED <<gate, job, undo, reported, github, lost>>

\* The write took place and its answer did not arrive: an error without a token.
ResponseLost(a) ==
    /\ pc[a] = "execute"
    /\ Effect(a)
    /\ Counted(a)
    /\ Refuse(a)
    /\ lost' = lost \cup {a}
    /\ UNCHANGED <<gate, job, undo, reported>>

\* The observation satisfies the causal contract and the output schema.
VerifyOk(a) ==
    /\ pc[a] = "verify"
    /\ \/ /\ step[a] < 3
          /\ step' = [step EXCEPT ![a] = @ + 1]
          /\ pc' = [pc EXCEPT ![a] = "request"]
       \/ /\ step[a] = 3
          /\ pc' = [pc EXCEPT ![a] = "readBack"]
          /\ UNCHANGED step
    /\ UNCHANGED <<gate, job, undo, result, reported, github, writes, lost>>

VerifyFails(a) ==
    /\ pc[a] = "verify"
    /\ Refuse(a)
    /\ UNCHANGED <<gate, job, undo, reported, github, writes, lost>>

\* The locals of a call that is over are gone.
Forget(a) ==
    /\ undo' = [undo EXCEPT ![a] = <<>>]
    /\ step' = [step EXCEPT ![a] = 1]

\* The file is read back.  The steps are VERIFIED by then: a mismatch, or a
\* read that fails, is reported and undoes nothing.
ReadBack(a) ==
    /\ pc[a] = "readBack"
    /\ pc' = [pc EXCEPT ![a] = "done"]
    /\ \/ branch = job[a].plan /\ result' = [result EXCEPT ![a] = "ok"]
       \/ result' = [result EXCEPT ![a] = "unverified"]
    /\ Forget(a)
    /\ UNCHANGED <<gate, job, reported, github, writes, lost>>

-----------------------------------------------------------------------------
Last(a) == Len(undo[a])

\* Defect: only the latest step is compensated.
Pop_All(a) == undo' = [undo EXCEPT ![a] = <<>>]

Pop(a) == undo' = [undo EXCEPT ![a] = SubSeq(@, 1, Last(a) - 1)]

\* The compensation of the latest step: close the request; write the previous
\* content over whatever the file holds by now; delete the branch.
Compensation(a) ==
    LET token == undo[a][Last(a)] IN
    \/ /\ Last(a) = 3
       /\ pr' = IF pr = token THEN NULL ELSE pr
       /\ UNCHANGED branch
    \/ /\ Last(a) = 2 /\ token = NULL
       /\ UNCHANGED github
    \/ /\ Last(a) = 2 /\ token # NULL /\ branch # NULL
       /\ branch' = token
       /\ UNCHANGED pr
    \/ /\ Last(a) = 1
       /\ branch' = NULL
       /\ pr' = NULL

RollbackOk(a) ==
    /\ pc[a] = "rollback" /\ undo[a] # <<>>
    /\ Compensation(a)
    /\ Pop(a)
    /\ UNCHANGED <<gate, pc, job, step, result, reported, writes, lost>>

\* Left to a human, also when only the answer was lost and the compensation
\* took place; the remaining compensations are still tried.
RollbackFails(a) ==
    /\ pc[a] = "rollback" /\ undo[a] # <<>>
    /\ Compensation(a) \/ UNCHANGED github
    /\ reported' = reported \cup {a}
    /\ Pop(a)
    /\ UNCHANGED <<gate, pc, job, step, result, writes, lost>>

RollbackDone(a) ==
    /\ pc[a] = "rollback" /\ undo[a] = <<>>
    /\ pc' = [pc EXCEPT ![a] = "done"]
    /\ Forget(a)
    /\ UNCHANGED <<gate, job, result, reported, github, writes, lost>>

\* The process dies, or an exception leaves apply_operator_plan.
Crash(a) ==
    /\ pc[a] \notin {"idle", "done"}
    /\ pc' = [pc EXCEPT ![a] = "done"]
    /\ result' = [result EXCEPT ![a] = "crashed"]
    /\ Forget(a)
    /\ UNCHANGED <<gate, job, reported, github, writes, lost>>

Tick ==
    /\ now < MaxNow
    /\ now' = now + 1
    /\ UNCHANGED <<bundle, signed, receipts, pc, job, step, undo, result,
                   reported, github, writes, lost>>

Proceed(a) ==
    \/ request_packet(a)
    \/ consume_approval(a)
    \/ ExecuteOk(a) \/ ExecuteFails(a) \/ ResponseLost(a)
    \/ VerifyOk(a) \/ VerifyFails(a)
    \/ ReadBack(a)
    \/ RollbackOk(a) \/ RollbackFails(a) \/ RollbackDone(a)

Next ==
    \/ \E b \in Bundles : \/ \E v \in Plans : build_approval_bundle(b, v)
                          \/ \E d \in Decisions : build_signed_decision_bundle(b, d)
    \/ \E a \in Applies : \/ \E b, c \in Bundles, d \in Decisions :
                               apply_operator_plan(a, b, c, d)
                          \/ Proceed(a)
                          \/ Crash(a)
    \/ Tick

Spec == Init /\ [][Next]_vars

-----------------------------------------------------------------------------
\* Bundles, receipts and applies are well typed.
TypeOK ==
    /\ now \in Nat
    /\ bundle \in [Bundles -> [plan : Plans \cup {NULL}, expires : Nat]]
    /\ signed \subseteq Bundles \X Decisions
    /\ receipts \in [Packets -> Applies \cup {NULL}]
    /\ pc \in [Applies -> {"idle", "request", "consume", "execute", "verify",
                           "readBack", "rollback", "done"}]
    /\ job \in [Applies -> [plan : Plans \cup {NULL}, bundle : Bundles \cup {NULL},
                            decision : Decisions \cup {"deny"}]]
    /\ step \in [Applies -> Steps]
    /\ undo \in [Applies -> Seq(Applies \cup {Base, NULL})]
    /\ result \in [Applies -> {"none", "ok", "refused", "unverified", "crashed"}]
    /\ reported \subseteq Applies
    /\ branch \in Plans \cup {Base, NULL}
    /\ pr \in Applies \cup {NULL}
    /\ writes \in [Packets -> Nat]
    /\ lost \subseteq Applies

\* "A decision can never be replayed": however many applies hold the same
\* signed decision, the step of a packet is executed at most once, and only
\* if a reviewer approved the packet's bundle.
ApprovalUsedOnce ==
    \A p \in Packets : /\ writes[p] <= 1
                       /\ writes[p] = 1 => <<p[1], "approve">> \in signed

\* One apply uses a bundle, step after step: no second apply can take over in
\* the middle of a plan that another one began.
OneApplyPerBundle ==
    \A b \in Bundles, s, t \in Steps :
        t < s /\ receipts[<<b, s>>] # NULL
            => receipts[<<b, t>>] = receipts[<<b, s>>]

\* What the work branch holds is the base content or a version of the plan
\* that a reviewer approved, exactly as it was approved.
ApprovedContentOnly ==
    branch \in Plans =>
        \E b \in Bundles : /\ bundle[b].plan = branch
                           /\ <<b, "approve">> \in signed
                           /\ receipts[<<b, 2>>] # NULL

\* "GitHub plan applied and verified; pull request remains open for human
\* review": after an apply reported success its branch keeps the approved
\* content and the request stays open, whatever other applies do.
ReviewSurvives ==
    \A a \in Applies : result[a] = "ok" => branch = job[a].plan /\ pr # NULL

\* No apply of another approval of the plan has begun to write.
Undisturbed(a) ==
    \A b \in Bundles \ {job[a].bundle} : receipts[<<b, 1>>] = NULL

\* The same as long as the plan was not approved and applied again: applies
\* that replay the same decision, fail or crash do no harm to the one that
\* reported success.
ReplayIsHarmless ==
    \A a \in Applies :
        result[a] = "ok" /\ Undisturbed(a) => branch = job[a].plan /\ pr # NULL

\* An apply that was refused after it had begun to write, and that reported no
\* failed compensation and lost no answer, leaves neither branch nor request.
RefusedLeavesNothing ==
    \A a \in Applies :
        /\ pc[a] = "done" /\ result[a] = "refused"
        /\ receipts[<<job[a].bundle, 1>>] = a
        /\ a \notin reported /\ a \notin lost
        /\ Undisturbed(a)
        => branch = NULL /\ pr = NULL
=============================================================================
