----------------------------- MODULE GitHubTools -----------------------------
(***************************************************************************)
(* github_tools.py over github_client.py: every tool, request by request,  *)
(* and the rollback of those that have one, on one repository with one     *)
(* work branch, one file on it, one pull request and one comment; once the *)
(* plan has opened a request, that is the one.  Other                      *)
(* people push, delete, close and edit between any two requests, answers   *)
(* get lost, the credential kept for a rollback is revoked, and the token  *)
(* may lose its access to the repository, after which GitHub answers every *)
(* request with 404.                                                       *)
(***************************************************************************)
EXTENDS Integers

CONSTANTS
    GhContents,     \* contents of the file; the tool writes NewContent
    NewContent,
    NoFile,
    MaxGhCalls,     \* bound: tool executions
    MaxMeddling     \* bound: steps of other people

VARIABLES
    ghAccess,     \* the token can see the repository
    ghHead,       \* head of the work branch, 0 if there is no branch
    ghFile,       \* content of the file, NoFile if there is none
    ghPr,         \* the pull request, and whether its head and base are the plan's
                  \* ("same"), and its body has the idempotency marker too ("marked")
    ghComment,    \* the comment is there
    ghCall,       \* the tool call under way: the next request and what was read
    ghUndo,       \* the rollback token of the last execution, if it has one
    ghVault,      \* the tools were made with a credential vault
    ghReport,     \* what the last call reported, until somebody else steps in
    ghCalls, ghMeddled,
    ghHit,        \* history: what a write replaced or removed
    ghRaced,      \* history: somebody else stepped in since the last read
    ghSince       \* history: somebody else stepped in since the last tool started

ghVars == <<ghAccess, ghHead, ghFile, ghPr, ghComment, ghCall, ghUndo, ghVault, ghReport,
            ghCalls, ghMeddled, ghHit, ghRaced, ghSince>>
ghRepo == <<ghHead, ghFile, ghPr, ghComment>>

NoGhCall == [tool |-> "none", pc |-> "idle", expected |-> "none", seen |-> "none"]
\* left: history, the branch or the request as the tool left it.
NoUndo == [tool |-> "none", previous |-> NoFile, auth |-> "none", left |-> "none"]
NoReport == [what |-> "none", ok |-> FALSE, target |-> "none"]
NoHit == [what |-> "none", found |-> "none", expected |-> "none"]

PrKinds == {"marked", "same", "other"}

GitHubToolsInit ==
    /\ ghAccess = TRUE
    /\ ghHead \in {0, 1}
    /\ ghFile \in {NoFile} \cup GhContents
    /\ ghPr \in [state : {"none", "open"}, kind : PrKinds]
    /\ ghHead = 0 => ghFile = NoFile /\ ghPr.state = "none"
    /\ ghComment = FALSE
    /\ ghVault \in BOOLEAN
    /\ ghCall = NoGhCall /\ ghUndo = NoUndo /\ ghReport = NoReport
    /\ ghCalls = 0 /\ ghMeddled = 0
    /\ ghHit = NoHit /\ ghRaced = FALSE /\ ghSince = FALSE

-----------------------------------------------------------------------------
\* Defect: a refused request counts as a resource that is not there.
RaiseForResponse_Lumped(status, limited) ==
    CASE status \in {401, 403, 404} -> "not_found"
      [] status = 409 -> "conflict"
      [] OTHER -> "api"

\* The exception a status becomes.
RaiseForResponse(status, limited) ==
    IF status = 403 /\ limited THEN "rate_limit"
    ELSE IF status \in {401, 403} THEN "auth"
    ELSE IF status = 404 THEN "not_found"
    ELSE IF status = 409 THEN "conflict"
    ELSE "api"

\* A request that GitHub refuses whatever it asks for, or that never arrives.
Refusal ==
    IF ghAccess
    THEN {RaiseForResponse(s, l) : s \in {401, 403, 500}, l \in BOOLEAN}
    ELSE {RaiseForResponse(404, FALSE)}

\* The ToolResult: of _tool_error when ok is FALSE, with what a reading tool
\* observed otherwise.
Finish(ok) ==
    /\ ghReport' = [what |-> ghCall.tool, ok |-> ok, target |-> ghCall.expected]
    /\ ghCall' = NoGhCall
Observed(x) ==
    /\ ghReport' = [what |-> ghCall.tool, ok |-> TRUE, target |-> x]
    /\ ghCall' = NoGhCall
Send(pc, seen) ==
    /\ ghCall' = [ghCall EXCEPT !.pc = pc, !.seen = seen]
    /\ UNCHANGED ghReport
At(tool, pc) == ghCall.tool = tool /\ ghCall.pc = pc
\* What is no LeosError leaves execute and execute_plan: there is no result.
Escapes ==
    /\ ghReport' = NoReport
    /\ ghCall' = NoGhCall
Quiet == UNCHANGED <<ghAccess, ghVault, ghCalls, ghMeddled, ghSince>>

\* execute: the arguments are complete and the token is a Secret.  A cleanup
\* tool names what it expects to find, an update what it expects to replace.
StartTool(tool, expected) ==
    /\ ghCall = NoGhCall /\ ghCalls < MaxGhCalls
    /\ ghCalls' = ghCalls + 1
    /\ ghCall' = [tool |-> tool, pc |-> "send", expected |-> expected, seen |-> "none"]
    /\ ghUndo' = NoUndo
    /\ ghReport' = NoReport /\ ghHit' = NoHit /\ ghRaced' = FALSE /\ ghSince' = FALSE
    /\ UNCHANGED <<ghAccess, ghRepo, ghVault, ghMeddled>>

\* A LeosError out of the client is a failed ToolResult without a rollback
\* token.  Two callers take "not found" for an answer: a deletion, and the
\* reader of a branch, who reports that there is none.  A connection that times
\* out or breaks raises what the client does not translate.
RequestFails ==
    /\ ghCall # NoGhCall
    /\ \/ \E e \in Refusal :
            IF ghCall.pc = "delete" /\ e = "not_found" THEN Send("confirm", ghCall.seen)
            ELSE IF ghCall.tool = "get_branch" /\ e = "not_found" THEN Observed(0)
            ELSE Finish(FALSE)
       \/ Escapes
    /\ Quiet /\ UNCHANGED <<ghRepo, ghUndo, ghHit, ghRaced>>

\* _remember_rollback_credential: the token goes into the vault, or without one
\* into the memory of the tool.
RememberCredential == IF ghVault THEN "vault" ELSE "process"

\* A write took place: its answer arrives and leaves a rollback token, or it is
\* lost, or the vault raises.
Written(previous, left) ==
    \/ /\ Finish(TRUE)
       /\ ghUndo' = [tool |-> ghCall.tool, previous |-> previous,
                     auth |-> RememberCredential, left |-> left]
    \/ /\ Finish(FALSE) \/ Escapes
       /\ UNCHANGED ghUndo

\* The tools that only read: one request, one observation, no rollback token.
\* read_issue and get_repository
ReadOnly ==
    /\ At("read", "send") /\ ghAccess
    /\ Finish(TRUE)
    /\ Quiet /\ UNCHANGED <<ghRepo, ghUndo, ghHit, ghRaced>>

ReadBranch ==
    /\ At("get_branch", "send") /\ ghAccess
    /\ Observed(ghHead)
    /\ Quiet /\ UNCHANGED <<ghRepo, ghUndo, ghHit, ghRaced>>

ReadPr ==
    /\ At("get_pr", "send") /\ ghAccess
    /\ IF ghPr.state = "none" THEN Finish(FALSE) ELSE Observed(ghPr.state)
    /\ Quiet /\ UNCHANGED <<ghRepo, ghUndo, ghHit, ghRaced>>

ReadFile ==
    /\ At("get_file", "send") /\ ghAccess
    /\ IF ghFile = NoFile THEN Finish(FALSE) ELSE Observed(ghFile)
    /\ Quiet /\ UNCHANGED <<ghRepo, ghUndo, ghHit, ghRaced>>

CheckCiStatus ==
    /\ At("check_ci", "send") /\ ghAccess
    /\ Finish(TRUE)
    /\ Quiet /\ UNCHANGED <<ghRepo, ghUndo, ghHit, ghRaced>>

\* create_branch: POST the ref; on 422 GET it and take it as it is.
CreateRef ==
    /\ At("create_branch", "send") /\ ghAccess
    /\ IF ghHead = 0
       THEN ghHead' = 1 /\ Written(NoFile, 1)
       ELSE Send("exists", "none") /\ UNCHANGED <<ghHead, ghUndo>>
    /\ Quiet /\ UNCHANGED <<ghFile, ghPr, ghComment, ghHit, ghRaced>>

ExistingRef ==
    /\ At("create_branch", "exists") /\ ghAccess
    /\ IF ghHead # 0 THEN Written(NoFile, ghHead) ELSE Finish(FALSE) /\ UNCHANGED ghUndo
    /\ Quiet /\ UNCHANGED <<ghRepo, ghHit, ghRaced>>

\* Defect: the content that was read is not compared.
ReadPrevious_Unchecked ==
    /\ At("update_file", "send") /\ ghAccess
    /\ Send("put", ghFile)
    /\ Quiet /\ UNCHANGED <<ghRepo, ghUndo, ghHit, ghRaced>>

\* update_file with expected_previous: read the file, compare its content, and
\* keep its sha for the write; no file matches the empty expectation.
ReadPrevious ==
    /\ At("update_file", "send") /\ ghAccess
    /\ IF ghFile = ghCall.expected THEN Send("put", ghFile) ELSE Finish(FALSE)
    /\ Quiet /\ UNCHANGED <<ghRepo, ghUndo, ghHit, ghRaced>>

\* With expected_sha only, nothing is read and nothing can be restored.
TrustSha ==
    /\ At("update_by_sha", "send")
    /\ Send("put", ghCall.expected)
    /\ Quiet /\ UNCHANGED <<ghRepo, ghUndo, ghHit, ghRaced>>

\* PUT the content with that sha: GitHub refuses it for any other file.
PutFile ==
    /\ ghCall.pc = "put" /\ ghCall.tool \in {"update_file", "update_by_sha"} /\ ghAccess
    /\ IF ghFile = ghCall.seen /\ ghHead # 0
       THEN /\ ghFile' = NewContent
            /\ ghHead' = ghHead + 1
            /\ ghHit' = [what |-> "file", found |-> ghFile, expected |-> ghCall.expected]
            /\ Written(IF ghCall.tool = "update_file" THEN ghFile ELSE NoFile, "none")
       ELSE Finish(FALSE) /\ UNCHANGED <<ghFile, ghHead, ghHit, ghUndo>>
    /\ Quiet /\ UNCHANGED <<ghPr, ghComment, ghRaced>>

\* open_pr with a key: an open request with the marker is taken as it is.
LookUpPr ==
    /\ At("open_pr", "send") /\ ghAccess
    /\ IF ghPr = [state |-> "open", kind |-> "marked"]
       THEN Written(NoFile, ghPr)
       ELSE Send("post", "marked") /\ UNCHANGED ghUndo
    /\ Quiet /\ UNCHANGED <<ghRepo, ghHit, ghRaced>>

\* Without a key nothing is looked up.
NoLookUp ==
    /\ At("open_pr", "send")
    /\ Send("post", "same")
    /\ Quiet /\ UNCHANGED <<ghRepo, ghUndo, ghHit, ghRaced>>

\* GitHub refuses a second open request of one head and base.
PostPr ==
    /\ At("open_pr", "post") /\ ghAccess
    /\ IF ghHead = 0 \/ (ghPr.state = "open" /\ ghPr.kind # "other")
       THEN Finish(FALSE) /\ UNCHANGED <<ghPr, ghUndo>>
       ELSE ghPr' = [state |-> "open", kind |-> ghCall.seen] /\ Written(NoFile, ghPr')
    /\ Quiet /\ UNCHANGED <<ghHead, ghFile, ghComment, ghHit, ghRaced>>

PostComment ==
    /\ At("comment", "send") /\ ghAccess
    /\ ghComment' = TRUE
    /\ Written(NoFile, "none")
    /\ Quiet /\ UNCHANGED <<ghHead, ghFile, ghPr, ghHit, ghRaced>>

\* GitHubClosePRTool: check head and base, close, read it again.
CheckPr ==
    /\ At("close_pr", "send") /\ ghAccess
    /\ IF ghPr.state # "none" /\ ghPr.kind # "other" THEN Send("patch", "none") ELSE Finish(FALSE)
    /\ ghRaced' = FALSE
    /\ Quiet /\ UNCHANGED <<ghRepo, ghUndo, ghHit>>

PatchPr ==
    /\ At("close_pr", "patch") /\ ghAccess
    /\ ghPr' = [ghPr EXCEPT !.state = "closed"]
    /\ ghHit' = [what |-> "pr", found |-> IF ghPr.kind = "other" THEN "other" ELSE "own",
                 expected |-> "own"]
    /\ Send("confirmPr", "none") \/ Finish(FALSE)
    /\ Quiet /\ UNCHANGED <<ghHead, ghFile, ghComment, ghUndo, ghRaced>>

ConfirmPr ==
    /\ At("close_pr", "confirmPr") /\ ghAccess
    /\ Finish(ghPr.state = "closed")
    /\ Quiet /\ UNCHANGED <<ghRepo, ghUndo, ghHit, ghRaced>>

\* GitHub closes the pull request of a branch that is deleted.
RemoveBranch ==
    /\ ghHead' = 0
    /\ ghFile' = NoFile
    /\ ghPr' = IF ghPr.state = "open" THEN [ghPr EXCEPT !.state = "closed"] ELSE ghPr

\* GitHubDeleteBranchTool: check the head, delete, read it again.  The branch
\* has the leos/ prefix, so it is none of the protected ones.
CheckRef ==
    /\ At("delete_branch", "send") /\ ghAccess
    /\ IF ghHead # 0 /\ ghHead = ghCall.expected THEN Send("delete", ghHead) ELSE Finish(FALSE)
    /\ ghRaced' = FALSE
    /\ Quiet /\ UNCHANGED <<ghRepo, ghUndo, ghHit>>

DeleteRef ==
    /\ At("delete_branch", "delete") /\ ghAccess
    /\ RemoveBranch
    /\ ghHit' = IF ghHead = 0 THEN NoHit
                ELSE [what |-> "branch", found |-> ghHead, expected |-> ghCall.expected]
    /\ Send("confirm", "none") \/ Finish(FALSE)
    /\ Quiet /\ UNCHANGED <<ghComment, ghUndo, ghRaced>>

\* get_branch: a 404 means that there is none.
ConfirmRef ==
    /\ At("delete_branch", "confirm")
    /\ Finish(ghHead = 0 \/ ~ghAccess)
    /\ Quiet /\ UNCHANGED <<ghRepo, ghUndo, ghHit, ghRaced>>

-----------------------------------------------------------------------------
\* _rollback_auth_token: the credential comes out of the vault again, or the
\* rollback fails before its first request.
HasAuthToken == ghUndo.auth # "revoked"

\* The first request of a rollback, if there is one to make.
StartUndo(tool, pc, expected) ==
    /\ ghCall = NoGhCall
    /\ IF HasAuthToken
       THEN /\ ghCall' = [NoGhCall EXCEPT !.tool = tool, !.pc = pc, !.expected = expected]
            /\ ghReport' = NoReport
       ELSE /\ ghReport' = [NoReport EXCEPT !.what = tool]
            /\ UNCHANGED ghCall
    /\ ghUndo' = NoUndo /\ ghRaced' = FALSE
    /\ Quiet /\ UNCHANGED <<ghRepo, ghHit>>

RollbackBranch == ghUndo.tool = "create_branch" /\ StartUndo("undo_branch", "delete", ghUndo.left)
RollbackPr == ghUndo.tool = "open_pr" /\ StartUndo("undo_pr", "patch", ghUndo.left)
RollbackComment == ghUndo.tool = "comment" /\ StartUndo("undo_comment", "delete", "none")

\* Without a previous content there is nothing to restore, and that is a success.
RollbackFile ==
    \/ /\ ghUndo.tool = "update_file" /\ ghUndo.previous # NoFile
       /\ StartUndo("undo_file", "send", ghUndo.previous)
    \/ /\ ghUndo.tool \in {"update_file", "update_by_sha"} /\ ghUndo.previous = NoFile
       /\ ghCall = NoGhCall /\ UNCHANGED ghCall
       /\ ghReport' = [NoReport EXCEPT !.what = "undo_nothing", !.ok = TRUE]
       /\ ghUndo' = NoUndo /\ ghRaced' = FALSE
       /\ Quiet /\ UNCHANGED <<ghRepo, ghHit>>

\* delete_branch, delete_comment, close_pr: one request, whose answer may be lost.
\* Nothing is looked at before: the branch or the request is the one of the token.
UndoRequest ==
    /\ ghAccess /\ \E arrives \in BOOLEAN : Finish(arrives)
    /\ \/ /\ At("undo_branch", "delete")
          /\ RemoveBranch
          /\ ghHit' = IF ghHead = 0 THEN NoHit
                      ELSE [what |-> "undo", found |-> ghHead, expected |-> ghCall.expected]
          /\ UNCHANGED ghComment
       \/ /\ At("undo_comment", "delete")
          /\ ghComment' = FALSE
          /\ UNCHANGED <<ghHead, ghFile, ghPr, ghHit>>
       \/ /\ At("undo_pr", "patch")
          /\ ghPr' = [ghPr EXCEPT !.state = "closed"]
          /\ ghHit' = [what |-> "undo", found |-> ghPr, expected |-> ghCall.expected]
          /\ UNCHANGED <<ghHead, ghFile, ghComment>>
    /\ Quiet /\ UNCHANGED <<ghUndo, ghRaced>>

\* Nobody reads the branch or the comment again after "not found".
UndoNotFound ==
    /\ ghCall.tool \in {"undo_branch", "undo_comment"} /\ ghCall.pc = "confirm"
    /\ Finish(TRUE)
    /\ Quiet /\ UNCHANGED <<ghRepo, ghUndo, ghHit, ghRaced>>

\* The file as it is now is replaced, whoever wrote it.
ReadCurrent ==
    /\ At("undo_file", "send") /\ ghAccess
    /\ IF ghFile = NoFile THEN Finish(FALSE) ELSE Send("put", ghFile)
    /\ Quiet /\ UNCHANGED <<ghRepo, ghUndo, ghHit, ghRaced>>

PutBack ==
    /\ At("undo_file", "put") /\ ghAccess
    /\ IF ghFile = ghCall.seen
       THEN /\ ghFile' = ghCall.expected /\ ghHead' = ghHead + 1
            /\ ghHit' = [what |-> "undo", found |-> ghFile, expected |-> NewContent]
            /\ \E arrives \in BOOLEAN : Finish(arrives)
       ELSE Finish(FALSE) /\ UNCHANGED <<ghFile, ghHead, ghHit>>
    /\ Quiet /\ UNCHANGED <<ghPr, ghComment, ghUndo, ghRaced>>

-----------------------------------------------------------------------------
\* Somebody else; after it nothing is claimed of the last report.
Meddle ==
    /\ ghMeddled < MaxMeddling
    /\ ghMeddled' = ghMeddled + 1
    /\ ghReport' = NoReport /\ ghRaced' = TRUE /\ ghSince' = TRUE
    /\ \/ /\ ghHead # 0
          /\ ghHead' = ghHead + 1
          /\ ghFile' \in {NoFile} \cup GhContents
          /\ UNCHANGED <<ghAccess, ghPr, ghUndo>>
       \/ /\ ghHead # 0
          /\ RemoveBranch
          /\ UNCHANGED <<ghAccess, ghUndo>>
       \/ /\ ghHead = 0
          /\ ghHead' = 1
          /\ UNCHANGED <<ghAccess, ghFile, ghPr, ghUndo>>
       \/ /\ ghHead # 0
          /\ ghPr' \in [state : {"open", "closed"}, kind : PrKinds]
          /\ UNCHANGED <<ghAccess, ghHead, ghFile, ghUndo>>
       \/ /\ ghAccess' = FALSE
          /\ UNCHANGED <<ghHead, ghFile, ghPr, ghUndo>>
       \/ /\ ghUndo.auth = "vault"
          /\ ghUndo' = [ghUndo EXCEPT !.auth = "revoked"]
          /\ UNCHANGED <<ghAccess, ghHead, ghFile, ghPr>>
    /\ UNCHANGED <<ghComment, ghCall, ghVault, ghCalls, ghHit>>

Expectations(tool) ==
    CASE tool = "update_file" -> {NoFile} \cup GhContents
      [] tool = "update_by_sha" -> GhContents
      [] tool = "delete_branch" -> {1, 2}
      [] OTHER -> {"none"}

GitHubToolsNext ==
    \/ \E tool \in {"read", "get_branch", "get_pr", "get_file", "check_ci", "create_branch", "update_file", "update_by_sha", "open_pr",
                    "comment", "close_pr", "delete_branch"} :
         \E x \in Expectations(tool) : StartTool(tool, x)
    \/ RequestFails
    \/ ReadOnly \/ ReadBranch \/ ReadPr \/ ReadFile \/ CheckCiStatus
    \/ CreateRef \/ ExistingRef \/ ReadPrevious \/ TrustSha \/ PutFile
    \/ LookUpPr \/ NoLookUp \/ PostPr \/ PostComment \/ CheckPr \/ PatchPr \/ ConfirmPr \/ CheckRef \/ DeleteRef \/ ConfirmRef
    \/ RollbackBranch \/ RollbackPr \/ RollbackComment \/ RollbackFile
    \/ UndoRequest \/ UndoNotFound \/ ReadCurrent \/ PutBack
    \/ Meddle

-----------------------------------------------------------------------------
\* What a tool or a rollback reports as done or seen is so at GitHub, whichever
\* requests failed or lost their answer on the way: unless somebody else stepped
\* in since its last read, or the token lost its access, when a branch that
\* cannot be seen passes for one that was deleted.
GitHubReportsAreTrue ==
    ghReport.ok /\ ghAccess /\ ~ghRaced =>
        CASE ghReport.what \in {"create_branch", "open_pr"} -> ghHead # 0
          [] ghReport.what \in {"update_file", "update_by_sha"} -> ghFile = NewContent
          [] ghReport.what = "comment" -> ghComment
          [] ghReport.what = "get_branch" -> ghReport.target = ghHead
          [] ghReport.what = "get_pr" -> ghReport.target = ghPr.state
          [] ghReport.what = "get_file" -> ghReport.target = ghFile
          [] ghReport.what \in {"delete_branch", "undo_branch"} -> ghHead = 0
          [] ghReport.what \in {"close_pr", "undo_pr"} -> ghPr.state # "open"
          [] ghReport.what = "undo_comment" -> ~ghComment
          [] ghReport.what = "undo_file" -> ghFile = ghReport.target
          [] OTHER -> TRUE

\* A write that replaces or removes something hits what it was meant for: the
\* update of a file what its caller expected, through any interleaving with other
\* writers; a tool that closes a request or deletes a branch what its caller
\* named, unless somebody stepped in between the tool's check and its write, which
\* GitHub offers no guard for; a rollback what its tool left, found or made, unless
\* somebody stepped in since the tool started, for it checks nothing.
WritesHitTheirTarget ==
    \/ ghHit.found = ghHit.expected
    \/ ghHit.what \in {"branch", "pr"} /\ ghRaced
    \/ ghHit.what = "undo" /\ ghSince
=============================================================================
