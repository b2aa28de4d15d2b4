# Verification project for the Leos agent runtime

Leos (`src/leos_agent`) runs plans of side-effecting steps on behalf of an
agent: tasks wait in a queue, a runner claims one and executes its plan as a
transaction (gates, dry run, execute, verify, roll back on failure), a human
approves what the policy does not. This directory holds TLA+ models of the
parts that carry that promise, TLC runs over small instances, and TLAPS proofs
for instances of every size. Source paths below are relative to
`src/src/leos_agent`.

## 1. Inventory

| Component | State | Operations | Interacts with | Hard behaviour |
|---|---|---|---|---|
| Multi-worker queue, `task_queue_backends.py` | table `leos_tasks` | enqueue, claim, heartbeat, complete, fail, retry, cancel, pause, resume, reap_expired_leases | runners and supervisors, each with a connection | concurrent claims, two-statement reap, leases on several clocks |
| Task runner, `task_queue.py` | the claimed task object | run_next, _handle_failure | queue, kernel | late results, crashes at any step, stale attempt count |
| Single-process queue and watchdog, `task_queue.py` | `_tasks`, `_order`, `_idempotency_index`, tables `tasks` and `idempotency` | the same operations, `_load_tasks`, Watchdog.check | audit log (may raise) | memory and table disagree, restart with orphans |
| Transaction manager, `transactions.py` | step and goal status, facts, trust, markers, rollback stack | execute_plan, _rollback | policy, approval gate, sandbox, tools, state | failure at every gate, failed compensation, plan executed again |
| Goal life cycle, `goals.py` | goal status | transition | transaction manager, kernel, loop | illegal transitions raise |
| Agent loop, planner, replanning, `agent_loop.py`, `planner.py`, `replanning.py`, `kernel.py` | iteration, replans, tool calls, goal, facts, last failure event | propose, select, execute, evaluate, stop or repair | kernel, evaluator, audit log | several budgets, goal transitions that are refused, stale failure events |
| Goal evaluation, `evaluator_registry.py` | none | rules over facts | loop | success without evidence |
| Policy engine, `policy.py`, `egress.py` | grants with use counters and expiry | assess, decide, count a use | transaction manager | early returns of many rules, grant looked up twice |
| Approval gates, `approval.py`, `approval_exchange.py` | packets, decisions, receipts | request, decide, validate, consume | transaction manager, server inbox, operator | one-time use, expiry, restart between consumption and execution |
| Server, `server/` | settings, API keys, token bucket, pending packets, decision files | load settings, start workers, approvals, decide, apply, inbox decide | approval exchange, operator | check then write in a thread pool, settings resolved again in workers, bucket at its limit |
| Audit log, replay, metrics, `audit.py`, `replay.py`, `observability.py` | hash chain, file, counters | record, verify, replay, fan out | everyone | reopened file, torn line, raising sink |
| Runtime store, `runtime_store.py`, `sqlite_store.py`, `postgres_store.py`, `serialization.py` | goals, plans, events, checkpoints | save, load, append, list | kernel, CLI | torn file, read-modify-replace, aborted connection |
| GitHub operator, `github_operator.py` | approval bundles, signed decisions, receipts | build bundle, sign, apply, roll back | approval, transaction manager, GitHub | replayed decisions, lost answers, crash between receipt and effect, rollback against a shared branch |
| GitHub tools and client, `github_tools.py`, `github_client.py` | rollback tokens, the remote repository | twelve tools and their rollbacks | GitHub, vault | other writers between two requests, lost answers, 404 for lost access |
| GitHub App credentials, `github_app_auth.py` | provider cache, token cache | resolve, token, exchange | GitHub tools | token at its expiry, key replaced |
| File tools and sandbox, `tools.py`, `dev_tools.py`, `sandbox*.py` | files, processes, backups | dry run, execute, roll back, run command | transaction manager | rollback after other edits, processes that outlive a timeout |
| Credentials and memory, `credentials.py`, `credential_backends.py`, `memory.py` | envelopes, records | put, get, revoke; remember, recall, purge | tools, loop | expiry, files rewritten in place |
| Release evidence, `examples/github_rest_agent/run_production_github_smoke.py`, `scripts/*` | evidence files, a test repository, a test database | run the smokes, download, accept | GitHub, queue | stale evidence, failed cleanup, strangers in the same repository or database |
| Network tools, manifests, causal model, simulation, model adapters, CLI, evaluation runner, proofs, trace viewer | none | I/O or pure checks | - | - |

What makes the modelled parts correct:

* queue: a task has at most one holder, goes through the promised life cycle,
  counts its attempts, keeps a lease renewed in time, and is never stuck
  RUNNING; nothing reported to a caller is lost in a restart;
* runner: the attempts respect `max_attempts`, and a runner that lost its lease
  cannot end somebody else's attempt;
* transaction: every effect of a failed plan is undone or reported; a verified
  step stands; an idempotency key takes effect once; executions end, in an
  outcome the callers know;
* agent loop: success has evidence, every repetition is legal and budgeted, a
  rejection is not repaired;
* policy: a harder step never gets through where an easier one does not, and a
  grant is used no more often than it allows;
* operator: an approval is used at most once, by one apply, for the content that
  was approved; what was reported as open for review stays; a refused apply
  leaves nothing behind;
* GitHub tools: what they report is so, and what they replace is what was
  expected; a credential handed out is still good;
* file exchange: what the gate grants an allowed reviewer approved; a packet is
  decided once; an accepted decision can be read;
* stores and logs: what is read back was saved, what was revoked or has expired
  is not given out, a changed log does not verify, a replay agrees with the
  process;
* server: all workers serve the same settings, writes are throttled and nothing
  else is;
* release evidence: a release rests on a run of its own commit that did what its
  evidence says.

`PROJECT.json` lists every component with its status, and under "hazards" the
places where these promises are hard to test.

## 2. Modules

| Module | Models | Extends / instantiates |
|---|---|---|
| `TaskLifecycle` | abstract: what a queue promises about each task | - |
| `PostgresTaskQueue` | `task_queue_backends.py` | `TaskLifecycle` as its abstraction |
| `PostgresFleet` | `TaskRunner` processes, supervisors, operator on that queue | `PostgresTaskQueue` |
| `PostgresFleet_proofs` | theorems about the queue and about the fleet | `PostgresFleet` |
| `TaskQueue` | in-memory queue, SQLite mirror, `Watchdog` | `TaskLifecycle` as its abstraction |
| `TaskQueue_proofs` | theorems about it | `TaskQueue` |
| `Goals` | `_ALLOWED_GOAL_TRANSITIONS` | - |
| `Transaction` | `TransactionManager.execute_plan`, `_rollback` | `Goals` |
| `Transaction_proofs` | theorems about it | `Transaction` |
| `GitHubOperator` | `github_operator.py` with the tools, client calls and gates it goes through | - |
| `GitHubOperator_proofs` | theorems about it | `GitHubOperator` |
| `ApprovalInbox` | `FileApprovalGate` and the inbox of `server/app.py` | - |
| `ApprovalInbox_proofs` | theorems about it | `ApprovalInbox` |
| `GoalEvaluation` | `evaluator_registry.py`, as operators | - |
| `FailureAnalysis` | `replanning.py` over the failure events of `transactions.py`, as operators | - |
| `PlanOutcomes` | what one execution of a plan may leave; checked against `Transaction` | `FailureAnalysis` |
| `AgentLoop` | `agent_loop.py` with planner, kernel, evaluation and analysis | `Goals`, `GoalEvaluation`, `PlanOutcomes` |
| `AgentLoop_proofs` | theorems about it | `AgentLoop` |
| `AuditLog` | `audit.py`, `replay.py`, sinks and counters of `observability.py` | - |
| `RuntimeStore` | the JSONL, SQLite and Postgres stores and `serialization.py` | - |
| `MemoryStore` | `memory.py` | - |
| `Policy` | `policy.py`, `egress.py` | - |
| `Workspace` | file tools, `run_tests`, sandbox runners | - |
| `CredentialVault` | the four vaults | - |
| `GitHubAppAuth` | `github_app_auth.py` | - |
| `GitHubTools` | `github_tools.py` over `github_client.py` | - |
| `OperatorServer` | `server/config.py`, `server/run.py` | - |
| `ServerGate` | what a request passes in `server/app.py` | - |
| `QueueSmoke` | `scripts/queue_smoke.py` on the queue | `PostgresTaskQueue`, with the lease as a parameter |
| `ProductionSmoke` | the GitHub smoke, the download and the acceptance of evidence | `QueueSmoke` |
| `MCServices` | the twelve services after `AgentLoop` in one run | those modules |
| `Services_proofs` | theorems about nine of them, each alone | `GitHubAppAuth`, `CredentialVault`, `OperatorServer`, `Policy`, `GitHubTools`, `Workspace`, `ProductionSmoke` with `QueueSmoke`, `ServerGate` |
| `Records_proofs` | theorems about the other three, each alone | `RuntimeStore`, `MemoryStore`, `AuditLog` |
| `MC...` | constants for TLC | the module named after `MC` |

Operators named `X_Something` right before `X` and commented "Defect" are
deliberately wrong variants of `X`; each run's property is violated when `X` is
replaced by such a variant, which shows the property depends on that code. The
pairs are under "mutants" in `PROJECT.json`.

### PostgresTaskQueue

`rows` is the table. Every public operation is one conditional `UPDATE` or
`INSERT` followed by a commit, so it is one action with the `WHERE` clause as
its guard; a call that matches no row raises and is a stuttering step. Two
operations are seen half done by other sessions:

* `claim`: the sub-select takes `FOR UPDATE SKIP LOCKED`, the new row is visible
  at commit. `ClaimSelect` records the selected row, the worker and the
  timestamp in `claiming`; `claim` commits; `Disconnect` rolls back. `Unlocked`
  is the row lock: other claims skip the row, `cancel` waits for it.
* `reap_expired_leases`: two statements, committed separately, with one
  timestamp read at the start (`reaping`).

Each host has its own clock: a timestamp is any value within `MaxSkew` of the
true time `now`. `renewed` is a history variable, the true time of the clock
reading behind each lease; no guard reads it. `started_at`,
`last_heartbeat_at` and `failure_reason` are written and never read by a
statement and are left out; audit records after a commit change no row.

### PostgresFleet

`pc` and `held` are a runner's place in `run_next` and the task object `claim`
returned. `Settle` decides between complete, retry and fail from `held`, as
`_handle_failure` does, not from the row. `kernel.run` is a step of any
duration (`KernelReturns`). A refused call is `PermissionError` out of
`run_next` (`Refused`). A runner dies anywhere (`Crash`), a supervisor between
its statements (`ReaperDies`). The operator cancels, pauses and resumes.

### TaskQueue

`mem`, `order`, `index` are `_tasks`, `_order`, `_idempotency_index`; `db`,
`dbIndex` the two tables. Each operation changes memory, then records an audit
event, then writes the row. The record appends to a file and may raise; then
memory is changed and the row is not (`Torn` says for which operations that is
possible). `_persist_update` of a row that was never inserted does nothing.
`Crash` loses the memory, `LoadTasks` rebuilds it, ordered by `enqueued_at`.
`check(n)` is `Watchdog.check`; it writes before it records, so a record that
raises ends the scan after the first `n` tasks. `acked` and `returned` are
history variables: what the callers were told.

### Transaction

`pc` runs through the gates of `execute_plan` in the order of the code: static
gates, idempotency, preconditions, policy, approval, dry run, execute, output
contract, verification. What policy, approval gate, sandbox and tools answer
is chosen freely; goal transitions, facts, trust, markers and the rollback
stack are computed. A failure ends the plan and starts `_rollback`, which pops
the stack from the top; a failed or forbidden compensation leaves a recovery
packet (`RollbackFails`). An exception of a collaborator leaves `execute_plan`
with the stack lost (`Raises`); so does one of the audit log after the checks of a
step, in the middle of the rollback or at the end (`VerifyRaises`,
`RollbackRaises`, `Finish`). `ExecutePlan` may start the same plan again;
statuses, facts and markers carry over, as they do when the runner retries.
`world` says which effects are really in place and is read by no guard.

### GitHubOperator

`build_approval_bundle` and `build_signed_decision_bundle` are the two halves of
the signing protocol; `apply_operator_plan` is the call past its checks, and
each apply then runs through `execute_plan` for three steps: gate
(`request_packet`), receipt (`consume_approval`), execution, verification, and
at the end the read-back. The receipt file is created with `O_CREAT|O_EXCL`, so
its test and creation are one action; everything else another apply can come
between. GitHub is external and is represented by what the client can tell
apart: the content of the work branch and the open request. A request to it is
carried out, refused, or carried out with the answer lost (`ResponseLost`, an
error without a rollback token). `Compensation` is the rollback of the three
tools: close the request, write the remembered content over the current file,
delete the branch; one that fails may have taken effect all the same. An
`expected_sha` guard remembers no content
(`ShaGuarded`). Forged signatures are not modelled: an apply uses a pair that
was signed. `writes` and `lost` are history variables.

### ApprovalInbox

`gpc` is the gate's place in `request_packet`: write the packet, test for the
decision file, check its mode, read it. `rpc` is a handler's place in
`post_inbox_decide`: after the test it opens (truncates), writes and makes
private in three steps, the last of which may fail and is not reported
(`exposed`). Two writers of one file may leave a garbled text, which
makes the gate raise. The mode of a new file depends on the umask and is chosen
freely. `accepted` is a history variable: what the inbox answered. The gate looks
once for the decision of a packet it has just written and denies without one; a
later request has a new packet id. A reviewer who is slower than that decides a
packet nobody asks about again; nothing is stated about such a decision.

### AgentLoop, GoalEvaluation, FailureAnalysis, PlanOutcomes

`AgentLoop` is the body of `run`, one action per stage of an iteration:
`NextIteration` (the head of the loop), `Propose` or the repairs of the previous
iteration, `Plan` (score, select, count the tool calls), `Execute`,
`EvaluateGoal`, `Decide`. Every `return` of the method is a `Stop` with its
reason. The goal moves by the table of `Goals`; a transition that
`_transition_goal_for_evaluation` may not make is skipped, one that
`kernel.plan` may not make raises out of `run` (`PlanningRefused`). What an
execution does to steps, goal and failure event is any member of
`PlanOutcomes!Outcomes`; `FirstRunOutcome` in the run `transaction` shows that
`Transaction` ends in one of them, so the loop is checked against what the
detailed model can do. `Observed` keeps that a step's facts stay when it is
rolled back. `Classify` sees an event as its type and the words it looks for,
since the code searches type, reason and message for them; a tool's own message
may bring words in. A failed compensation leaves a later failure event than the
cause, with the tool's message (`RollbackEvents`). The last failure event carries over between iterations, as
the analyzer reads the whole log. Of the memory record an iteration writes only
the goal status is kept (`remembered`).

### AuditLog

`Record` appends to memory and then to the file; the write may raise, be cut
short by the death of the process, or be followed by a sink that raises (and is
ignored). Besides what tools report, a process notes facts of its own, the
idempotency marker and the operator's verdict on what it read back (`OwnFacts`);
the replay restores neither. A hash is the tuple of what is hashed. `AuditReopen` starts a new
chain in the same file, as `__init__` does. `AuditTouch` is an edit by somebody
else who changes a record that others follow. `VerifyIntegrity` and `Replay` are the code's own passes over the records.

### RuntimeStore

One of the three stores per behaviour, with two processes. The JSONL store
appends lines (torn by a death, or broken for the reader by a line separator such
as U+2028 in a text) and replaces `checkpoints.json` in the steps of
the code: read, write the temporary file, rename. A statement of a database may
fail; with Postgres the connection then stays aborted, with SQLite it does not, and
a fetch of SQLite may fail at any time.
`GoalToDict`, `SerializePlan`, `ToRow` and their inverses keep exactly the
fields the code keeps: a goal loses its budget, a plan its notes (predictions,
counterfactual reports, creation time). `storeAcked` and `storeMaybe` are histories: what the last
save that returned stored, and what later ones that did not return may have
stored; the invariant compares every read with them.

### Policy

A step stands for the step and its tool; the engine reads both. `Decide` goes
through the rules in their order and with their early returns. `Profiles` are
the five built-in ones and one of two rules and two grants. An execution decides
(`Propose`), may wait for a human, and counts the use of whatever grant
matches when it is verified.

### Workspace

Files are inside or outside the workspace. Content is empty, a text, the same
text with other newlines (`Translated` says what a text-mode read makes of it), or
bytes that do not decode. `DryRun`, `Execute` and `RollbackOne` are the calls of a
plan; between them people and commands write any file and put links in their
place. A compensation may raise and is then reported (`wsReported`). Commands end,
or time out and leave something running that writes later. An error out of a tool
or a sandbox (a refused working directory, a missing runtime, undecodable content)
leaves `execute_plan` without rollback (`Raise`). `wsRunner` is the sandbox policy
of the tool and the runner behind it.

### CredentialVault, MemoryStore, GitHubAppAuth

One vault of the four kinds per behaviour. `vaultPut` and `memWritten`
are histories of what callers did. The
file vault is read, truncated and written in separate steps; keychain and service
may be out of reach. The memory changes list and index and then writes its file,
which may raise before or after the truncation, always does for a value that is
not JSON, and may be cut off by a death (`Persist`); `purge_expired` takes a time
of the caller's. One process has the memory file open at a time. Time advances between any two steps, also while GitHub answers an
exchange.

### GitHubTools

`ghHead`, `ghFile`, `ghPr` are the remote branch, file and pull request; a call
is a sequence of requests, each of which is answered, refused, or carried out
with the answer lost. Others push, delete, close and reopen between any two.
`ghAccess` is whether the token may see the repository: without it GitHub
answers 404, which `RaiseForResponse` turns into the same error as a missing
branch. An error the client does not translate leaves the tool without a result
(`Escapes`). `ghReport` is what the tool or rollback returned, `ghHit` what its
write replaced or removed and what was meant to be there; for a rollback that is
what the tool left. `ghRaced` and `ghSince` record whether somebody stepped in
since the last read or since the tool started.

### OperatorServer, ServerGate

A setting is known by where it came from, so that two processes agree exactly
when they took it from the same place; an option may also be given as the empty
string (`Blank`), which switches the inbox off. `ServerGate` is one process; the bucket
reads the clock and takes a token under its lock, so a request is one step
however many threads serve it. A token is `Minute` units, which keeps the refill
an integer.

### QueueSmoke, ProductionSmoke

`QueueSmoke` runs the stages of the script against the statements of
`PostgresTaskQueue`, instantiated with the lease of whoever calls. Workers die
or lose their connection, the worker to be killed may be slower than the join
waits, a stranger with a lease of his own choice takes, completes and reaps tasks
of the same table, and time passes anywhere (`TimePasses`). `ProductionSmoke` goes through the GitHub
smoke, its cleanup and the look at what is left, while the commit, the base
branch, the work branch and the pull request change under it. Access once lost
is not regained during a run.

## 3. Runs

| Run | Checks | Instance |
|---|---|---|
| `postgres_queue` | LockMatchesStatus, ClaimsAreExclusive, FollowsLifecycle, NoEarlyReclaim | 1 task, 2 workers, 2 sessions, lease 2, skew 1, time to 4, 3 claims |
| `fleet` | AttemptBudget, StaleWorkerCannotFinish, EveryTaskSettles | 2 runners with ids of their own, 1 supervisor, 1 task, limits 1 and 2, 1 resume, with fairness |
| `task_queue_torn` | AckedIsDurable, KeyLeadsToItsTask | 2 tasks, 1 key, torn updates, restarts |
| `task_queue_recovery` | OrphansTimeOut, FollowsLifecycle | 2 tasks, both timeouts, restarts, with fairness |
| `transaction` | UndoneOrReported, VerifiedStepsStand, KeyedStepsVerifyOnce, FirstRunOutcome, ExecutionEnds | 3 steps, up to 3 executions |
| `transaction_facts` | VerifiedFactsHold, violated | 3 steps, up to 2 executions |
| `github_operator` | ApprovalUsedOnce, OneApplyPerBundle, ApprovedContentOnly, ReplayIsHarmless, RefusedLeavesNothing | 2 plan versions, 2 bundles, 2 applies, 2 instants |
| `github_operator_reapproval` | ReviewSurvives, violated | 1 plan version, 2 bundles, 2 applies |
| `approval_inbox` | GrantIsApproved, AcceptedIsReadable | 2 handlers, 1 allowed approver, 2 packets |
| `approval_inbox_race` | OneDecision, violated | 2 handlers, 1 packet |
| `agent_loop` | SuccessHasEvidence, RepeatsWithinLimits, RejectionIsNotRepaired | 5 proposals, 6 configurations, 3 iterations, 1 replan |
| `services` | the fourteen invariants below | one small instance per service |

The invariants of `services`:

| Invariant | Service | Says |
|---|---|---|
| AuditVerdict | audit log | a log verifies until somebody changes it, and never once a record that others follow was changed; two processes' events never pass for one log |
| DerivedViewsAgree | replay, metrics | facts and trust of a replay are those that tools reported to the process, its task status too; counters are those of the file |
| ReadsWhatWasSaved | runtime store | a read gives the last save that returned, or a later one that did not, less what the format drops; it raises only for the reasons named |
| RecallsTheLiving | memory | recall gives exactly the living records, across restarts, failed writes and purges |
| PolicyIsMonotone | policy | nothing denied or kept for humans runs without one; a harder step never gets through where an easier one is stopped; hardened profiles confine network steps and their rollback |
| GrantsAreBounded | policy | a grant approves no more verified steps than it has uses |
| WorkspaceConfines | file tools, sandbox | a rollback restores each file as it was before the plan's first write, newlines translated, or a recovery is recorded; no tool touches anything outside |
| SecretsAreLive | vaults | a secret comes out for its scope, before expiry and revocation, and then does |
| TokensAreLive | App credentials | a token handed out works for longer than the refresh skew |
| GitHubReportsAreTrue | GitHub tools | what a tool or rollback reports is so at GitHub |
| WritesHitTheirTarget | GitHub tools | a write replaces what its caller expected to replace, a rollback what its tool left |
| WorkersAgree | server settings | every worker serves what its parent resolved |
| WritesAreThrottled | server gate | no stretch of time admits more writes than limit and refill; nobody is turned away earlier |
| EvidenceIsEarned | release evidence | accepted evidence is of a run of that commit that did what it says, for both smokes |

Where the code makes an exception the property names it: two processes in one
vault file or one JSONL checkpoint file, a keychain that silently keeps what it
was told to delete, a step of others between a tool's check and its request or
between a tool and its rollback, lost access that passes for a deleted branch, an
inbox that was switched off in the parent only, a link put in the place of a file,
a command that outlived its timeout, a purge at a time the caller gave, an
outsider's abandoned claim in the queue smoke.

The services share no state. `part` chooses one of them in the initial state and
the others do not move: the run explores the sum of twelve state spaces, 1.35
million states, and each invariant reads the variables of its own service.

Why the bounds are enough. Operations of the SQL queue touch one row, except
claim, which orders rows, enqueue, which compares keys, and reap, which moves
every expired row: the run takes one row through everything with two sessions
and skewed clocks, and the theorems of section 5, which state the same
properties, cover several rows and any number of sessions (two rows with skewed
clocks are beyond a run of a few minutes). Two sessions give every pairwise race.
`MaxNow` lets a lease be taken, renewed, expire and be taken again; `MaxClaims`
is one more than the larger attempt limit. In the fleet runs the sum of attempt
limit and resumes is at most `MaxClaims`, so the bound on claims never blocks a
claim the code allows. Three steps are the least for a rollback with an earlier,
a failing and a skipped step; three executions let a status survive one
execution and be read by the next two. Two bundles and two applies give an apply
every competitor it can have: one with the same decision, one with another
decision for the same version, one for another version; the theorems cover more.
Expiry needs two instants. All decisions other than "approve" are treated alike
by the code, so the runs take one of them. Packets of the file exchange are
independent of each other, so two are enough for a decision meant for another
packet. Deadlock is not checked: a queue with
nothing left to do within the bounds, and a finished plan, may stop.

In `agent_loop` the configurations cover each rule, typed operators, a goal no
rule knows, with and without evaluator and repair provider; three iterations let
a repair be followed by a fresh proposal, and one replan is the limit that can be
met and exceeded. In `services` two clients, threads or workers give every
pairwise race and a third event, call or record lets a state be built, disturbed
and read back; the time bounds pass every lifetime in the instance once. The
steps asked of the policy are not small: every combination of permissions, risk,
destructiveness and reversibility, of host, method and rollback method, of client
attestation, and of tool declarations. The queue smoke has one bulk task, the task
of the killed worker and two workers where the script has more of each: enough for
a task to be claimed twice or missed; `OutsideLeases` holds the short and the long
lease, `MaxOutside` lets the outsider take the victim's task and abandon it, and
`MaxQsTime` lets the short lease run out at any point. The workspace has one path
inside and one outside with four contents, and two tool calls, so that one file is
written twice. The theorems cover more of each.

Symmetry over workers and sessions is used in `postgres_queue`, over applies and
bundles in `github_operator`; these runs contain no
liveness property, and nothing in the modules tells members of those sets apart.

### Fairness

* `fleet`: runners loop over `run_next` and are restarted when they die
  (weak fairness of KernelReturns, of Finish or Refused, and of Restart); a
  runner does not crash in every single claim (strong fairness of RunNext and
  Claimed, since crashes and other runners' claims disable them in between);
  supervisors loop over `reap_expired_leases` and do not for ever die between
  its statements (strong fairness of ReapSecond); time passes. `kernel.run`
  returns because every tool call has a timeout. Nobody has to enqueue,
  heartbeat, pause, resume or cancel.
* `task_queue_recovery`: the process is restarted, the supervisor's loop gets
  through a watchdog scan now and then, time passes.
* `transaction`: `execute_plan` is a loop in one thread and takes its next step.

## 4. Findings

Three runs end in a violation of what the repository says about the code.

1. `transaction_facts`. `state.py:23`: facts "should contain verified claims".
   `_rollback` undoes effects and leaves their facts marked VERIFIED
   (`transactions.py:1096`).
2. `github_operator_reapproval`. `github_operator.py:578`: "pull request remains
   open for human review". An apply of the same plan under a second approval
   takes the existing branch as created (`github_client.py:237`), fails at the
   file guard, and rolls back by deleting the branch (`github_tools.py:546`),
   which closes the first apply's request. Without a second approval
   the property holds (ReplayIsHarmless in `github_operator`).
3. `approval_inbox_race`. `docs/APPROVAL_UX.md:35`: "A packet accepts exactly
   one decision (409 on a second attempt)". The test and the write are not one
   step (`server/app.py:324`): two handlers both answer with success. What the
   gate grants is still an allowed reviewer's approval (`approval_inbox`).

Two limits of the queues are assumed by the runs and are worth knowing. Runners
built with the default `worker_id` share one name (`task_queue.py:422`), and the
ownership check compares only that, so `fleet` gives them names of their own: with
a shared one StaleWorkerCannotFinish fails. An `enqueue` whose audit record
raises (`task_queue.py:245`) leaves a task in memory that a second enqueue returns
and a restart forgets; `task_queue_torn` tears updates only.

Behaviour of the code that the models have and the properties name as exceptions
or claim nothing about:

* the inbox answers with success when the chmod of the decision file failed, and
  the gate then denies the file as not private (`approval_exchange.py:229`);
* a compensation that fails after a rejection and mentions, say, a timeout makes
  the rejected plan look worth repairing (`replanning.py:157`);
* an audit log that raises inside `_rollback` loses the rest of the stack
  (`transactions.py:1060`); so does an error out of a tool or sandbox at its own
  step (`transactions.py:482`, `sandbox.py:95`);
* the idempotency marker and the operator's read-back verdict are not restored by
  a replay (`transactions.py:844`, `replay.py:53`);
* cutting off the last audit record, or hashing the last record or a whole suffix
  again, is not noticed by `verify_integrity`;
* a stored goal loses its budget, a stored plan its predictions, counterfactual
  reports and creation time (`serialization.py:112`); a text with U+2028 makes
  a JSONL file unreadable (`runtime_store.py:160`);
* after a failed write the memory's list and file disagree, a value that is not
  JSON makes every later write fail, and two processes with one file overwrite
  each other (`memory.py:177`);
* a file with CRLF newlines comes back from a rollback with LF (`tools.py:275`), and
  a rollback writes through a link that was put in the place of the file;
* the rollbacks of the GitHub tools check nothing before they delete, close or
  overwrite (`github_tools.py:546`, `:653`, `:732`), and a timeout or a broken
  connection leaves the client untranslated (`github_client.py:108`);
* `leos serve --inbox-dir ""` switches the inbox off in the parent only
  (`server/config.py:146`, `server/run.py:58`);
* the queue smoke accepts an outsider's abandoned claim as the killed worker's
  (`scripts/queue_smoke.py:209`).

## 5. Proofs

`PostgresFleet_proofs` proves first of the queue, for any sets of tasks, workers, sessions and
keys, any lease, skew, retry limits and bounds, from `QueueAssumption` only
(integer task ids, positive lease, `NULL` distinct from ids, workers and
numbers):

* `QueueInvariance`: the inductive invariant `QueueInv`;
* `QueueTypeCorrect`, `LocksMatch`, `ExclusiveClaims`: the type invariant and
  two of the run's invariants;
* `ReclaimIsNeverEarly`: the reaper takes no lease younger than `LeaseSeconds`
  minus twice the skew;
* `QueueImplementsLifecycle`: the table implements `TaskLifecycle`.

The argument. None of the invariants is inductive alone. That `claim` may write
RUNNING without looking at the row again needs that the row is still QUEUED
(ClaimsAreExclusive); that it stays so needs the row lock against `cancel` and
that all other operations require another status; that the claimed row satisfies
LockMatchesStatus needs that a claim in flight carries a worker. The lease bound
needs the same bound for the timestamp a claim carries to its commit and for the
timestamp a reap carries to its second statement (LeaseCoversRenewal). The
refinement needs that an absent row has no attempts (NoAttemptsBeforeEnqueue).
`QueueInv` is the conjunction of these and the types. `NextInv` has one step per
action; the lemmas `RewriteRow` and `RewriteRows` say once what it takes to
preserve the invariant when one row, or any set of rows, is rewritten, and the
actions cite them.

`GitHubOperator_proofs` proves, for any sets of plan versions, bundles and
applies and any expiry, from `OperatorAssumption` only (the base content is no
version of the plan, `NULL` is none of the values):

* `OperatorInvariance`: the inductive invariant `Inv`;
* `ApprovalNeverReplayed`, `BundleHasOneApply`, `OnlyApprovedContent`:
  ApprovalUsedOnce, OneApplyPerBundle and ApprovedContentOnly;
* `GitHubInvariance`, `ReplaysDoNoHarm`, `RefusedIsUndone`: a second inductive
  invariant on top, ReplayIsHarmless and RefusedLeavesNothing.

The argument. That a step executes once needs that the apply executing it owns
its receipt and that two applies cannot own the same one (ReceiptInv), and that
a packet without a receipt was never executed (WriteInv). That a bundle belongs
to one apply needs that an apply in step s owns the receipts of the steps before
s. That only approved content is written needs that what was checked at the
start still describes the job (JobInv, from BundleInv: bundles and decisions are
never taken back), and that a rollback restores nothing but the base content
(UndoInv: the length of the token stack follows the step, so the second token is
the one of `update_file`). `Frame` says once that a step of an apply leaves
bundles and the other applies alone; the lemmas per conjunct then look at the
moving apply only. The two properties about what is left on GitHub need more:
that an apply past its first receipt owns it (OwnerInv), that nothing is there
before the first receipt (EmptyInv), and what an apply that has been alone has
in place at each step and still holds tokens for (SoleInv).

Of the fleet, in the same module: `FleetImplementsQueue` shows that every step of a runner,
a supervisor or the operator is a step of the queue, for any ids
(`FleetSpec => QueueSpec`), and `FleetKeepsQueueProperties` carries the queue's
theorems over. `BudgetHolds` and `StaleWorkersAreRefused` are about what the
runner remembers: it decides from the task object `claim` returned. They need
HeldInv, that this object agrees with the row for as long as the row is RUNNING
under the runner's id, and HeldInv needs `DistinctWorkers`, which is a
hypothesis of the theorems and not an assumption: the code's default id breaks
it (section 4).

`TaskQueue_proofs`. `AckedSurvives` and `KeysLeadToTasks` hold for any torn
updates, restarts and watchdog scans, under the hypothesis that an enqueue is
not torn (`"enqueue" \notin Torn`, section 4). The invariant: memory and table know the same
tasks, keys and index while the process lives (MirrorInv), although their rows
may have come apart, and the two tables agree with each other and with what was
returned (IndexInv). `QueueImplementsLifecycle` needs in addition that nothing is
torn (`Torn = {}`): then memory and table are equal, and a restart is invisible.

`Transaction_proofs`, for plans of any length and any number of executions:
`AbortsAreUndone`, `VerifiedStand`, `KeysAreConsumedOnce`, `FirstRunEnds`. The
invariant follows the stack: a pushed token is on it until its step is undone or
reported (UndoInv); a step reaches its verification only with the effect in place
(StandInv), and an error anywhere changes none of this but ends the execution; a marked key does not pass the gate, and a verified one is marked
(KeyInv); in the first execution the steps before the current one stand and those
after it are untouched (OutcomeInv). `FirstRunEnds` says in general what ties
`AgentLoop` to `Transaction`.

`ApprovalInbox_proofs`, for any reviewers and packets: `GrantsAreApproved` needs
that every decision file has an author who is allowed and decided so (AuthorInv);
`AcceptedDecisionsAreReadable` needs what a reviewer who is alone on a packet
finds there between his steps (AloneInv), and that nobody decides twice (OnceInv);
the file is private when the handler is through, or its packet is in `exposed`.

`AgentLoop_proofs`, for any registry, proposals, configurations and limits:
`SuccessIsEarned` needs that the verdict is about the facts and steps as they are
when the loop stops (VerdictInv) and a lemma on the evaluator
(`SuccessfulGoal`). `LimitsHold` needs where the goal stands at each stage
(GoalInv): only an evaluation takes it to SUCCEEDED, and that ends the loop.
`RejectionsStand` needs that a rejection is the last failure event when the plan
is analysed, unless a step was left FAILED by its compensation (RejectionInv), and that no repair is pending (PhaseInv).

`Services_proofs` has nine parts, each with a specification and an invariant of
its own:

* `CachedTokensLive`: the assumed expiry of a token counts from before it was
  minted, so a cached token lives at least as long as it is taken to live;
* `WorkersServeTheSame`: what the parent hands over resolves to what it resolved;
  only an inbox that is off is not handed over;
* `VaultInvariance`, `SecretsComeOut`: what each kind of vault holds was stored
  and not revoked, also while the file is between truncation and writing;
* `GrantsStayBounded`: the grant that approved a step under way has a use left and
  is still the first that fits, unless it has expired since, so the use of the
  verified step is counted against it;
* `JudgedInvariance`, `Monotone`: a step under way passed the blocks of production
  and, when no human approved it, the rules and a grant (JudgedInv). The rest is
  about one decision: a rule that stops a step stops one that asks for more
  (`RulesStop`, `MoreIsStopped`), a grant that covers more covers less, and what
  passes the checks of egress and attestation is confined (`NetworkIsConfined`);
* `GitHubToolsInvariance`, `ReportsHold`, `WritesAreAimed`: nothing is reported
  while a call is under way; what a tool has checked is still so when it writes
  unless somebody stepped in; while the record of a closed request stands there
  is no rollback token; what a token says its tool left is still there unless
  somebody stepped in since, which is what a rollback without checks relies on;
* `WorkspaceInvariance`, `PlansStayInside`: the oldest token of a path holds the
  content from before the plan with its newlines translated (TokenOf); a path that
  was written has a token left, or has its content back, or is reported, or is
  spoilt by a link or an orphan (BackOf); a name leads to itself or out by a link
  that somebody put there (LinkInv);
* `SmokeInvariance`: the checks a run has recorded are no better than what it has
  done, and what it saw in its last look has changed since only if somebody
  raced it (RunInv); evidence says no more than that (ArtifactOf), and a release
  rests on evidence of a run (ReleaseInv). A 404 may be lost access and not a
  deleted branch, so what is known of the branch is known up to lost access until
  the base branch has been read;
* `QueueSmokeInvariance`, `QueueEvidenceEarned`, `EvidenceEarned`: for each stage of
  the queue smoke, what the table, the claims in flight, the reaper and the noted
  claims can be (QsStage). One lemma per operation of the queue says what it does
  to the table, whoever calls it with whatever lease. The leases matter nowhere:
  what the evidence rests on is who claimed each task and how often;
* `Throttled`: since any instant the bucket has given at most what it can hold and
  what it has regained, counting what it still has, and at least what it has
  regained or can hold (GaveAtMost, GaveAtLeast). The first gives the limit on
  what is admitted, the second that a refusal was due.

`Records_proofs` has three:

* `StoreInvariance`, `ReadsSaved`: the last readable row of a table, and the value
  of a checkpoint, is one that the last save to return stored or that a later one
  may have stored, as far as the format keeps it; a save of a JSONL checkpoint that
  is under way carries a map that is still right unless two processes overlapped;
  a file with a line that does not parse is in `storeBroken`;
* `MemoryInvariance`, `Recalled`: list and index agree while a process has them
  open, the file with them unless the last write raised; the file holds nothing
  that was not remembered, and file and list lack nothing that is still alive and
  that no purge was told to remove;
* `AuditInvariance`, `Verdict`: every hash in the file tells which process computed
  it (OriginInv), the file of one process holds its records in order with gaps
  only where an event was lost (FirstFileInv), and one change by somebody else
  leaves a line that does not fit which nothing written later mends (TouchedInv,
  `BadStaysBad`). `ViewsInvariance`, `ViewsAgree`: the replay of a file and one
  line is the replay of the file moved by that line.

Induction over data. The three compare what recursions over sequences of any
length compute. The library's induction theorems cannot be used, since they take
an operator, but its theorem that a non-empty set of naturals has a minimal
element takes a set. `LeastElement` and `UpToABound` draw from it that a set with
0, and with the successor of each of its members below a bound, has all
numbers up to the bound; `OnlyFromThere` (what a filter leaves) and `ReplayOfAppend`
rest on that. For this the filter of the memory, the replay and
the count of verified steps are recursive functions over prefixes or
cardinalities of sets of positions.

What is assumed of the constants is in the ASSUME of each module, TLC evaluates
it in every run, and it says no more than that values are distinct and numbers
are numbers: for the task queue that the ids are finitely many and no key is
`NULL`; for the vault that no scope is empty, no handle is named "scope", and the
clock stays below the mark of "no expiry"; for the policy that grants and rules
have positions and numbers, that a rule denies or asks a human (`PolicyRule` refuses
to approve, `policy.py:29`), and that a step has the risks and
reversibilities of the enumerations; for the workspace that a path is inside or outside and that a content
with its newlines translated is a content;
for the loop that a criterion is the name of a rule or "other"; for the smokes that
the task ids are integers, the idempotency check has two, leases are positive and
the workers have names of their own; for the gate that some key
is valid and the limit is a number; for the store that no checkpoint is named like
a table; for the memory that a time to live is a number; for the audit log that an
edit changes what it edits and tools report no fact under a name the process keeps
for its own. Every inductive
invariant was checked with TLC on the run's instance before it was proved.

One fault of the models came out of the proofs. Where the code tests conditions
in order, some definitions had a CASE whose guards overlap; TLC takes the first
true guard, but TLA+ leaves the choice open, so nothing could be proved of them.
They are chains of IF now (`Classify`, `RaiseForResponse`, `RequestFails`, `Phase`,
`Evaluate`, `TypedHolds`, `GoalAfter`, `FinalGoalStatus`, `Resolve`, `MemoryGet`,
`BackendGet`).

Another was a property. PolicyIsMonotone used to compare the decision made for a
step with the decisions the engine would make later for a harder one, and to name
the production profiles by their names. Both are false for profiles in general: a
grant may expire in between in favour of a more generous one, and a profile may be
called "production". It compares decisions in the same state now, and is proved for
every profile. Its last conjunct holds only for a step that goes to the host its
tool declares: the check before the step looks at the host in the arguments
(`policy.py:405`), the one before the rollback at the declared host
(`transactions.py:1133`).

Model-checked only: the liveness properties EveryTaskSettles, OrphansTimeOut and
ExecutionEnds. The prover handles neither fairness nor ENABLED. Every other property
of a passing run is stated by a theorem; FirstRunEnds and FleetKeepsQueueProperties
carry what is proved of one module to the one that uses it.

The modules contain no RECURSIVE operator. The type invariants and the inductive
invariants are proved and not listed in a run.

## 6. Plan

Done: the queues and their runners, the transaction manager, the GitHub operator,
the file exchange, the agent loop, the services, and the proofs of section 5.
Left:

1. `LocalRuntime`: TaskQueue, TaskRunner, Transaction and Goals composed: what a
   retry does with a goal that is already FAILED, when a task can be completed.
2. The liveness properties for every number of tasks and runners, once a prover
   takes fairness.

## 7. Not modelled

* `cli.py`, `eval_runner.py`, `proof.py`, `trace_viewer.py`, `recovery.py`,
  `prompts.py`: parsing, reporting and rendering over the other components; they
  keep no state and start no protocol.
* `model_adapters.py` and the LLM proposal provider of `planner.py`: calls to
  language-model services. To the loop a provider is any set of proposals.
* `network_tools.py`, `network_guard.py`, `manifest.py`,
  `tool_manifest_registry.py`: requests, HTML parsing and signatures. To a plan
  these are tools, and `Transaction` lets a tool answer anything.
* `causal.py`, `causal_contract.py`, `simulation.py`, `conflicts.py`: pure checks
  whose verdicts `Transaction` chooses freely.
* `policy_manifest.py`, `policy_wizard.py`, `sanitization.py`: parsing, dialogue
  and pattern matching. A payload either holds a secret or does not.
* `core.py`, `errors.py`, `model.py`: re-exports and data classes.
* `github_agent.py`, `recipes/`: fixed plans for the transaction manager; the
  plan compiler's validation; `InMemoryGitHubClient`, a test double.
* `InMemoryRuntimeStore` (it keeps references to the caller's objects, so nothing
  is saved or read back), `InteractiveApprovalGate`, `AnomalyDetector`, tracing
  spans, the `git_diff` tool.
* Of the server: routing, metrics and rendering.
* Of the release scripts: the static checks of `check_production_readiness.py`,
  `sandbox_smoke.py` and the other scripts; runs with `LEOS_GITHUB_SMOKE_FAKE`,
  which write evidence of the same form.
* Python threads inside one process, except the ones named above: the in-memory
  queue takes no lock and is documented for one process.
* The connection of `PostgresTaskQueue` left in an aborted transaction by a
  failed statement (`task_queue_backends.py:443`) is only represented as a
  crashed client; that of the Postgres store is modelled. A tool that fails after
  doing part of its work leaves that part (`transactions.py:483`); no code or
  document promises otherwise. A decision made after the gate has looked is for
  a packet nobody asks about again, and the expiry of a packet is checked when
  its decision is validated, not when the step runs (`approval.py:222`); the
  models have both, and nothing is stated about them.
