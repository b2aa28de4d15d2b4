--------------------------- MODULE ProductionSmoke ---------------------------
(***************************************************************************)
(* The evidence a release rests on.  run_production_github_smoke.py writes *)
(* to a disposable repository, reads back, cleans up, looks at what is     *)
(* left and writes its evidence; download_smoke_evidence.py fetches the    *)
(* evidence of a commit, and check_production_readiness.py accepts it or   *)
(* not, and likewise the evidence of the queue smoke (module QueueSmoke),  *)
(* each where its option asks for it.                                      *)
(*                                                                         *)
(* One run works at a time, on a work branch and a pull request of its     *)
(* own.  Meanwhile the main branch of Leos and the base branch of the test *)
(* repository move, people touch the work branch and the pull request, any *)
(* request may fail, the run may be killed, and the token may lose its     *)
(* access, for good: GitHub then answers 404.                              *)
(***************************************************************************)
EXTENDS QueueSmoke

CONSTANTS
    MaxSmokeRuns,   \* bound: runs
    MaxCommits,     \* bound: commits of Leos, and of the base branch
    MaxStrangers    \* bound: steps of other people in the test repository

ASSUME SmokeAssumption == MaxSmokeRuns \in Nat

VARIABLES
    smMain,       \* last commit of Leos
    smBase,       \* head of the base branch of the test repository
    smAccess,     \* the token can see the test repository
    smBranch,     \* work branch: "none", or whose content is on it
    smPr,         \* pull request: "none", "open" or "closed"
    smRun,        \* the run under way
    smRuns,       \* runs so far
    smArtifacts,  \* evidence each run has left
    smOut,        \* the evidence file of the release checkout
    smRelease,    \* the commit the readiness check has passed, and by which run
    smTruth,      \* history: what each run has really done
    smStrangers   \* steps of other people so far

smRepo == <<smBase, smAccess, smBranch, smPr>>
smVars == <<smMain, smBase, smAccess, smBranch, smPr, smRun, smRuns, smArtifacts,
            smOut, smRelease, smTruth, smStrangers>>

SmokeIds == 1 .. MaxSmokeRuns
NoRun == [pc |-> "none", sha |-> 0, tree |-> 0, trigger |-> "none", checks |-> {},
          baseBefore |-> 0, bound |-> "none", prSeen |-> "none", branchSeen |-> FALSE]
NoEvidence == [run |-> 0, commit |-> 0, trigger |-> "none", status |-> "none",
               cleanup |-> "none", checks |-> {}]
NoRelease == [commit |-> 0, run |-> 0]
NoTruth == [code |-> 0, readBack |-> FALSE, left |-> FALSE, raced |-> FALSE]

RequiredChecks == {"private_repo_used", "pr_opened", "read_back_verified", "pr_closed",
                   "branch_deleted", "source_repo_unchanged", "goal_evaluation_succeeded"}

SmokeInit ==
    /\ smMain = 1 /\ smBase = 1 /\ smAccess = TRUE
    /\ smBranch = "none" /\ smPr = "none"
    /\ smRun = NoRun /\ smRuns = 0
    /\ smArtifacts = [r \in SmokeIds |-> NoEvidence]
    /\ smOut = NoEvidence /\ smRelease = NoRelease
    /\ smTruth = [r \in SmokeIds |-> NoTruth]
    /\ smStrangers = 0

-----------------------------------------------------------------------------
(* main                                                                     *)

\* A run is started by hand from a checkout, or dispatched: then GITHUB_SHA is
\* the commit of the dispatch, while the workflow checks out the branch as it
\* is when the job gets there.
StartSmoke(sha, trigger) ==
    /\ smRun = NoRun /\ smRuns < MaxSmokeRuns
    /\ sha <= smMain /\ (trigger = "local" => sha = smMain)
    /\ smRuns' = smRuns + 1
    /\ smRun' = [NoRun EXCEPT !.pc = "repository", !.sha = sha, !.tree = smMain,
                              !.trigger = trigger]
    /\ smBranch' = "none" /\ smPr' = "none"
    /\ smTruth' = [smTruth EXCEPT ![smRuns + 1].code = smMain]
    /\ UNCHANGED <<smMain, smBase, smAccess, smArtifacts, smOut, smRelease, smStrangers>>

\* _write_evidence: a temporary file, renamed.
WriteEvidence(checks, status) ==
    LET cleaned == {"pr_closed", "branch_deleted", "source_repo_unchanged"} \subseteq checks
        e == [run |-> smRuns, commit |-> smRun.sha, trigger |-> smRun.trigger,
              status |-> status, cleanup |-> IF cleaned THEN "passed" ELSE "failed",
              checks |-> checks]
    IN  /\ smArtifacts' = [smArtifacts EXCEPT ![smRuns] = e]
        /\ smOut' = IF smRun.trigger = "local" THEN e ELSE smOut
        /\ smRun' = NoRun

SmAt(pc) == smRun.pc = pc
GoesOn(run) == smRun' = run /\ UNCHANGED <<smArtifacts, smOut>>
GivesUp == WriteEvidence(smRun.checks, "failed")
OthersStay == UNCHANGED <<smMain, smBase, smAccess, smRuns, smRelease, smStrangers>>

\* github_get_repository, github_get_branch of the base, and the comparison of
\* the checkout with GITHUB_SHA; the pre-read of the file may fail or not: the
\* file then counts as a new one.
LookFirst ==
    /\ SmAt("repository")
    /\ \/ /\ smAccess /\ smRun.tree = smRun.sha
          /\ GoesOn([smRun EXCEPT !.pc = "plan", !.checks = {"private_repo_used"},
                                  !.baseBefore = smBase])
       \/ GivesUp
    /\ UNCHANGED <<smBranch, smPr, smTruth>>
    /\ OthersStay

\* The plan of github_create_branch, github_update_file and github_open_pr
\* verifies every step, or is rolled back as far as that goes.
WritePlan ==
    /\ SmAt("plan")
    /\ \/ /\ smAccess
          /\ smBranch' = "ours" /\ smPr' = "open"
          /\ GoesOn([smRun EXCEPT !.pc = "readback", !.checks = @ \cup {"pr_opened"}])
       \/ /\ IF smAccess THEN /\ smBranch' \in {"none", "base", "ours"}
                              /\ smPr' \in {"none", "open", "closed"}
                              /\ smBranch' = "none" => smPr' # "open"
             ELSE UNCHANGED <<smBranch, smPr>>
          /\ GivesUp
    /\ UNCHANGED smTruth
    /\ OthersStay

\* The comment, whose failure is ignored, and the read-back.
ReadBack ==
    /\ SmAt("readback")
    /\ \/ /\ smAccess /\ smBranch = "ours"
          /\ GoesOn([smRun EXCEPT !.pc = "bind", !.checks = @ \cup {"read_back_verified"}])
          /\ smTruth' = [smTruth EXCEPT ![smRuns].readBack = TRUE]
       \/ GivesUp /\ UNCHANGED smTruth
    /\ UNCHANGED <<smBranch, smPr>>
    /\ OthersStay

\* The head of the work branch the deletion is bound to; an absent branch has
\* the empty one.
BindCleanup ==
    /\ SmAt("bind")
    /\ \/ GoesOn([smRun EXCEPT !.pc = "close",
                               !.bound = IF smAccess THEN smBranch ELSE "none"])
       \/ GivesUp
    /\ UNCHANGED <<smBranch, smPr, smTruth>>
    /\ OthersStay

\* github_close_pr
CloseSmokePr ==
    /\ SmAt("close")
    /\ \/ /\ smAccess
          /\ smPr' = "closed"
          /\ GoesOn([smRun EXCEPT !.pc = "compare"])
       \/ /\ smPr' \in {smPr} \cup (IF smAccess THEN {"closed"} ELSE {})
          /\ GivesUp
    /\ UNCHANGED <<smBranch, smTruth>>
    /\ OthersStay

\* github_delete_branch, request by request: the comparison with the bound
\* head, the deletion and the confirmation.  A 404 to either of the last two
\* passes for a branch that is gone.
CompareHead ==
    /\ SmAt("compare")
    /\ \/ /\ smAccess /\ smBranch # "none" /\ smBranch = smRun.bound
          /\ GoesOn([smRun EXCEPT !.pc = "delete"])
       \/ GivesUp
    /\ UNCHANGED <<smBranch, smPr, smTruth>>
    /\ OthersStay

DeleteSmokeBranch ==
    /\ SmAt("delete")
    /\ \/ /\ smBranch' = IF smAccess THEN "none" ELSE smBranch
          /\ GoesOn([smRun EXCEPT !.pc = "confirm"])
       \/ /\ smBranch' \in {smBranch} \cup (IF smAccess THEN {"none"} ELSE {})
          /\ GivesUp
    /\ smPr' = IF smBranch' = "none" /\ smPr = "open" THEN "closed" ELSE smPr
    /\ UNCHANGED smTruth
    /\ OthersStay

ConfirmDeletion ==
    /\ SmAt("confirm")
    /\ \/ /\ ~smAccess \/ smBranch = "none"
          /\ GoesOn([smRun EXCEPT !.pc = "seePr"])
       \/ GivesUp
    /\ UNCHANGED <<smBranch, smPr, smTruth>>
    /\ OthersStay

\* The last look: the pull request, whose 404 is an error, ...
SeePr ==
    /\ SmAt("seePr")
    /\ \/ smAccess /\ GoesOn([smRun EXCEPT !.pc = "seeBranch", !.prSeen = smPr])
       \/ GivesUp
    /\ UNCHANGED <<smBranch, smPr, smTruth>>
    /\ OthersStay

\* ... the work branch, whose 404 means it is gone, ...
SeeBranch ==
    /\ SmAt("seeBranch")
    /\ \/ GoesOn([smRun EXCEPT !.pc = "seeBase",
                               !.branchSeen = smAccess /\ smBranch # "none"])
       \/ GivesUp
    /\ UNCHANGED <<smBranch, smPr, smTruth>>
    /\ OthersStay

\* ... and the base branch; then the three checks and the goal evaluation, which
\* may fail after a clean run too.
SeeBase ==
    /\ SmAt("seeBase")
    /\ LET baseAfter == IF smAccess THEN smBase ELSE 0
           checks == smRun.checks
               \cup (IF smRun.prSeen = "closed" THEN {"pr_closed"} ELSE {})
               \cup (IF smRun.branchSeen THEN {} ELSE {"branch_deleted"})
               \cup (IF smRun.tree = smRun.sha /\ baseAfter = smRun.baseBefore
                     THEN {"source_repo_unchanged"} ELSE {})
           clean == {"pr_closed", "branch_deleted", "source_repo_unchanged"} \subseteq checks
       IN  /\ \/ clean /\ WriteEvidence(checks \cup {"goal_evaluation_succeeded"}, "passed")
              \/ WriteEvidence(checks, "failed")
              \/ GivesUp
           /\ smTruth' = [smTruth EXCEPT ![smRuns].left = smBranch # "none" \/ smPr = "open"]
    /\ UNCHANGED <<smBranch, smPr>>
    /\ OthersStay

\* The job is cancelled: no evidence.
Killed ==
    /\ smRun # NoRun
    /\ smRun' = NoRun
    /\ UNCHANGED <<smBranch, smPr, smArtifacts, smOut, smTruth>>
    /\ OthersStay

-----------------------------------------------------------------------------
(* The release.                                                             *)

\* Defect: the evidence of some commit will do.
AcceptsEvidence_AnyCommit(e, head) ==
    /\ e.trigger = "workflow_dispatch"
    /\ e.status = "passed" /\ e.cleanup = "passed"
    /\ RequiredChecks \subseteq e.checks

\* _smoke_evidence_check
AcceptsEvidence(e, head) ==
    /\ e.commit = head
    /\ e.trigger = "workflow_dispatch"
    /\ e.status = "passed" /\ e.cleanup = "passed"
    /\ RequiredChecks \subseteq e.checks

\* download_exact_head_evidence: the artifact of a successful run of the
\* commit; without one the file stays as it is.
DownloadEvidence(r) ==
    /\ smArtifacts[r].status = "passed"
    /\ smArtifacts[r].trigger = "workflow_dispatch"
    /\ smArtifacts[r].commit = smMain
    /\ smOut' = smArtifacts[r]
    /\ UNCHANGED <<smMain, smRun, smRuns, smArtifacts, smRelease, smTruth, smStrangers>>
    /\ UNCHANGED smRepo

CheckReadiness ==
    /\ AcceptsEvidence(smOut, smMain)
    /\ smRelease' = [commit |-> smMain, run |-> smOut.run]
    /\ UNCHANGED <<smMain, smRun, smRuns, smArtifacts, smOut, smTruth, smStrangers>>
    /\ UNCHANGED smRepo

-----------------------------------------------------------------------------
(* Everybody else.                                                          *)

\* A commit to Leos.
CommitLeos ==
    /\ smMain < MaxCommits
    /\ smMain' = smMain + 1
    /\ UNCHANGED <<smRun, smRuns, smArtifacts, smOut, smRelease, smTruth, smStrangers>>
    /\ UNCHANGED smRepo

\* Somebody checks out another commit under a run started by hand.
CheckOut ==
    /\ smRun.trigger = "local" /\ smRun.tree # smMain
    /\ smRun' = [smRun EXCEPT !.tree = smMain]
    /\ UNCHANGED <<smMain, smRuns, smArtifacts, smOut, smRelease, smTruth, smStrangers>>
    /\ UNCHANGED smRepo

\* A push to the base, a push to, the deletion or the restoration of the work
\* branch, the closing or reopening of the pull request, the loss of access.
Stranger ==
    /\ smRun # NoRun /\ smStrangers < MaxStrangers
    /\ smStrangers' = smStrangers + 1
    /\ \/ smBase < MaxCommits /\ smBase' = smBase + 1 /\ UNCHANGED <<smAccess, smBranch, smPr>>
       \/ smAccess' = FALSE /\ UNCHANGED <<smBase, smBranch, smPr>>
       \/ /\ smPr # "none" /\ smBranch' \in {"none", "theirs"} \ {smBranch}
          /\ smPr' = IF smBranch' = "none" THEN "closed" ELSE smPr
          /\ UNCHANGED <<smBase, smAccess>>
       \/ /\ smPr # "none" /\ smBranch # "none"
          /\ smPr' \in {"open", "closed"} \ {smPr}
          /\ UNCHANGED <<smBase, smAccess, smBranch>>
    /\ smTruth' = [smTruth EXCEPT ![smRuns].raced =
          \/ @
          \/ (smPr' # smPr /\ smRun.pc \in {"seeBranch", "seeBase"})
          \/ (smBranch' # smBranch /\ smRun.pc = "seeBase")]
    /\ UNCHANGED <<smMain, smRun, smRuns, smArtifacts, smOut, smRelease>>

SmokeNext ==
    \/ \E sha \in 1 .. MaxCommits, t \in {"local", "workflow_dispatch"} : StartSmoke(sha, t)
    \/ LookFirst \/ WritePlan \/ ReadBack \/ BindCleanup \/ CloseSmokePr
    \/ CompareHead \/ DeleteSmokeBranch \/ ConfirmDeletion
    \/ SeePr \/ SeeBranch \/ SeeBase \/ Killed
    \/ (\E r \in SmokeIds : DownloadEvidence(r)) \/ CheckReadiness
    \/ CommitLeos \/ CheckOut \/ Stranger

-----------------------------------------------------------------------------
\* A commit is released only on a run of that very commit's code which read
\* its own content back and left neither its branch nor an open pull request
\* behind, unless somebody brought one back after the run had looked; and no
\* run, failed or not, says it has cleaned up when it has not.  It holds
\* although a 404 passes for a deleted branch: the pull request and the base
\* branch are read through the same token afterwards.  The evidence of the
\* queue smoke is earned in the same sense: its tasks ran exactly once, in the
\* hands of its own workers, and an abandoned task was rescued.
EvidenceIsEarned ==
    /\ smRelease # NoRelease =>
         LET t == smTruth[smRelease.run]
         IN  t.code = smRelease.commit /\ t.readBack /\ (t.raced \/ ~t.left)
    /\ \A r \in SmokeIds : smArtifacts[r].cleanup = "passed" =>
          smTruth[r].raced \/ ~smTruth[r].left
    /\ QueueEvidenceIsEarned
=============================================================================
