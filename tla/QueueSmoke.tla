----------------------------- MODULE QueueSmoke -----------------------------
(***************************************************************************)
(* scripts/queue_smoke.py: the concurrency smoke that a release may rest   *)
(* on.  Worker processes empty a shared PostgresTaskQueue, a worker dies   *)
(* with a task in its hands and another one finishes it, an idempotency    *)
(* key is used twice; what was seen goes into the evidence that            *)
(* check_production_readiness.py looks at.  The queue is the one of        *)
(* PostgresTaskQueue, statement by statement; the lease is a parameter,    *)
(* since the worker that dies has a shorter one than the others.           *)
(*                                                                         *)
(* Workers lose their connection or are killed, time passes at every wait, *)
(* and somebody who has nothing to do with the smoke takes, completes and  *)
(* reaps tasks of the same table, with a lease of his own choice.          *)
(***************************************************************************)
EXTENDS Integers, Sequences, FiniteSets

CONSTANTS
    BulkTasks,      \* tasks of the first stage
    VictimTask,     \* the task whose worker dies
    KeyTasks,       \* the two enqueues of one idempotency key
    QsWorkers,      \* worker processes of the first stage
    ShortLease,     \* lease_seconds of the smoke
    LongLease,      \* the default lease_seconds
    OutsideLeases,  \* lease_seconds of others on the table
    IdlePolls,      \* bound: the 20 polls after which a worker gives up
    MaxOutside,     \* bound: tasks the outsider takes
    MaxHeads,       \* bound: commits of Leos
    MaxQsTime,      \* bound: time that passes apart from the sleep
    QsNull

ASSUME QueueSmokeAssumption ==
    /\ BulkTasks \cup {VictimTask} \cup KeyTasks \subseteq Int
    /\ Cardinality(KeyTasks) = 2
    /\ {ShortLease, LongLease} \cup OutsideLeases \subseteq Nat \ {0}
    /\ QsWorkers \cap {"victim", "rescuer", "outsider", "reaper"} = {}
    /\ VictimTask \notin BulkTasks

VARIABLES
    qsPc,          \* where run_smoke is
    qsHead,        \* HEAD of Leos
    qsWorker,      \* per worker process: what it does, its task, its idle polls
    qsVictim,      \* the worker process that dies
    qsClaims,      \* claims the workers have noted, per task
    qsReaped,      \* the tasks reap_expired_leases has returned
    qsEvidence,    \* the evidence of the run
    qsReleased,    \* the commit the readiness check has passed
    qsHistory,     \* history: who has claimed each task
    qsOutside,     \* tasks the outsider has taken
    qsRows, qsClaiming, qsReaping, qsNow, qsRenewed

qsQueue == <<qsRows, qsClaiming, qsReaping, qsNow, qsRenewed>>
qsVars == <<qsPc, qsHead, qsWorker, qsVictim, qsClaims, qsReaped, qsEvidence, qsReleased,
            qsHistory, qsOutside, qsQueue>>

AllTasks == BulkTasks \cup {VictimTask} \cup KeyTasks
IdemKey == "queue-smoke-idem"

Queue(lease) ==
    INSTANCE PostgresTaskQueue
      WITH TaskIds <- AllTasks, Workers <- QsWorkers \cup {"victim", "rescuer", "outsider"},
           Sessions <- QsWorkers \cup {"victim", "rescuer", "outsider", "reaper"},
           Keys <- {IdemKey}, NULL <- QsNull, LeaseSeconds <- lease, MaxSkew <- 0,
           RetryLimits <- {1, 3}, MaxNow <- MaxQsTime, MaxClaims <- 3,
           rows <- qsRows, claiming <- qsClaiming, reaping <- qsReaping, now <- qsNow,
           renewed <- qsRenewed

RequiredQueueChecks ==
    {"postgres_available", "all_tasks_completed", "exactly_once_execution", "no_double_claim",
     "killed_worker_lease_reaped", "reaped_task_completed_by_other_worker",
     "idempotency_dedupe_enforced"}
NoQueueEvidence == [commit |-> 0, status |-> "failed", checks |-> {}]
IdleWorker == [pc |-> "idle", task |-> QsNull, polls |-> 0]

QueueSmokeInit ==
    /\ Queue(LongLease)!Init
    /\ qsPc = "start" /\ qsHead = 1
    /\ qsWorker = [w \in QsWorkers |-> IdleWorker] /\ qsVictim = "none"
    /\ qsClaims = [t \in AllTasks |-> 0]
    /\ qsReaped = {} /\ qsEvidence = NoQueueEvidence /\ qsReleased = 0
    /\ qsHistory = [t \in AllTasks |-> <<>>] /\ qsOutside = 0

-----------------------------------------------------------------------------
StaysOutside == UNCHANGED <<qsHead, qsReleased, qsOutside>>
CheckedToo(names) == qsEvidence' = [qsEvidence EXCEPT !.checks = @ \cup names]
Holding(cond, name) == IF cond THEN {name} ELSE {}
Enqueued(t, key, max) ==
    [Queue(LongLease)!NoRow EXCEPT !.status = "QUEUED", !.key = key, !.maxAttempts = max,
                                   !.enqueuedAt = qsNow]
Noted(t, w) == qsHistory' = [qsHistory EXCEPT ![t] = Append(@, w)]

\* An exception: the evidence stays "failed", with the checks made so far.
SmokeFails == qsPc' = "over"

\* _reset_table, and the enqueues before the workers start.
StartQueueSmoke ==
    /\ qsPc = "start"
    /\ qsRows' = [t \in AllTasks |-> IF t \in BulkTasks THEN Enqueued(t, QsNull, 1)
                                     ELSE Queue(LongLease)!NoRow]
    /\ qsPc' = "consume"
    /\ qsEvidence' = [qsEvidence EXCEPT !.commit = qsHead, !.checks = {"postgres_available"}]
    /\ UNCHANGED <<qsWorker, qsVictim, qsClaims, qsReaped, qsHistory, qsClaiming, qsReaping,
                   qsNow, qsRenewed>>
    /\ StaysOutside

-----------------------------------------------------------------------------
(* _stage_concurrent_consumption and _worker.                               *)

\* claim, until its commit; None when every queued row is taken or locked.
WorkerSelects(w) ==
    /\ qsPc = "consume" /\ qsWorker[w].pc = "idle"
    /\ Queue(LongLease)!ClaimSelect(w, w)
    /\ qsWorker' = [qsWorker EXCEPT ![w].pc = "claiming"]
    /\ UNCHANGED <<qsPc, qsVictim, qsClaims, qsReaped, qsEvidence, qsHistory>>
    /\ StaysOutside

WorkerIdles(w) ==
    /\ qsPc = "consume" /\ qsWorker[w].pc = "idle"
    /\ \A t \in AllTasks : qsRows[t].status = "QUEUED" => ~Queue(LongLease)!Unlocked(t)
    /\ qsWorker' = [qsWorker EXCEPT ![w] =
         [qsWorker[w] EXCEPT !.polls = @ + 1,
                             !.pc = IF qsWorker[w].polls + 1 < IdlePolls THEN "idle"
                                    ELSE "reported"]]
    /\ UNCHANGED <<qsPc, qsVictim, qsClaims, qsReaped, qsEvidence, qsHistory, qsQueue>>
    /\ StaysOutside

\* The claim is committed and noted, or committed and its answer lost.
WorkerClaims(w) ==
    LET t == qsClaiming[w].task
    IN  /\ qsWorker[w].pc = "claiming"
        /\ Queue(LongLease)!claim(w)
        /\ Noted(t, w)
        /\ \/ /\ qsClaims' = [qsClaims EXCEPT ![t] = @ + 1]
              /\ qsWorker' = [qsWorker EXCEPT ![w] = [pc |-> "working", task |-> t, polls |-> 0]]
           \/ qsWorker' = [qsWorker EXCEPT ![w].pc = "reported"] /\ UNCHANGED qsClaims
        /\ UNCHANGED <<qsPc, qsVictim, qsReaped, qsEvidence>>
        /\ StaysOutside

WorkerCompletes(w) ==
    /\ qsWorker[w].pc = "working"
    /\ Queue(LongLease)!complete(qsWorker[w].task, w)
    /\ \/ qsWorker' = [qsWorker EXCEPT ![w] = IdleWorker]
       \/ qsWorker' = [qsWorker EXCEPT ![w].pc = "reported"]     \* the answer is lost
    /\ UNCHANGED <<qsPc, qsVictim, qsClaims, qsReaped, qsEvidence, qsHistory>>
    /\ StaysOutside

\* An exception: the finally clause still reports.  A kill: nothing is reported.
WorkerEnds(w, how) ==
    /\ qsPc = "consume" /\ qsWorker[w].pc \in {"idle", "claiming", "working"}
    /\ qsWorker' = [qsWorker EXCEPT ![w].pc = how]
    /\ IF qsClaiming[w].task # QsNull THEN Queue(LongLease)!Disconnect(w) ELSE UNCHANGED qsQueue
    /\ UNCHANGED <<qsPc, qsVictim, qsClaims, qsReaped, qsEvidence, qsHistory>>
    /\ StaysOutside

\* results.get for every worker, or its timeout; then the table is read.
JoinWorkers ==
    /\ qsPc = "consume"
    /\ \A w \in QsWorkers : qsWorker[w].pc \in {"reported", "killed"}
    /\ IF \E w \in QsWorkers : qsWorker[w].pc = "killed"
       THEN SmokeFails /\ UNCHANGED qsEvidence
       ELSE /\ qsPc' = "victim"
            /\ CheckedToo(Holding(\A t \in BulkTasks : qsRows[t].status = "SUCCEEDED",
                        "all_tasks_completed")
                     \cup Holding(\A t \in BulkTasks : qsRows[t].attempts = 1,
                             "exactly_once_execution")
                     \cup Holding(\A t \in BulkTasks : qsClaims[t] = 1, "no_double_claim"))
    /\ qsWorker' = [w \in QsWorkers |-> IdleWorker]
    /\ UNCHANGED <<qsVictim, qsClaims, qsReaped, qsHistory, qsQueue>>
    /\ StaysOutside

-----------------------------------------------------------------------------
(* _stage_killed_worker and _claim_and_die.                                 *)

EnqueueVictimTask ==
    /\ qsPc = "victim"
    /\ Queue(LongLease)!enqueue(VictimTask, QsNull, 3)
    /\ qsPc' = "look" /\ qsVictim' = "started"
    /\ UNCHANGED <<qsWorker, qsClaims, qsReaped, qsEvidence, qsHistory>>
    /\ StaysOutside

\* _claim_and_die, a process of its own: it may be slower than the join waits.
VictimSelects ==
    /\ qsVictim = "started"
    /\ Queue(ShortLease)!ClaimSelect("victim", "victim")
    /\ qsVictim' = "claiming"
    /\ UNCHANGED <<qsPc, qsWorker, qsClaims, qsReaped, qsEvidence, qsHistory>>
    /\ StaysOutside

VictimDies ==
    /\ qsVictim = "claiming"
    /\ Queue(ShortLease)!claim("victim")
    /\ Noted(qsClaiming["victim"].task, "victim")
    /\ qsVictim' = "gone"
    /\ UNCHANGED <<qsPc, qsWorker, qsClaims, qsReaped, qsEvidence>>
    /\ StaysOutside

\* It finds nothing to claim, or cannot reach the database.
VictimGetsNothing ==
    /\ qsVictim \in {"started", "claiming"}
    /\ qsVictim' = "gone"
    /\ IF qsVictim = "claiming" THEN Queue(ShortLease)!Disconnect("victim") ELSE UNCHANGED qsQueue
    /\ UNCHANGED <<qsPc, qsWorker, qsClaims, qsReaped, qsEvidence, qsHistory>>
    /\ StaysOutside

\* After the join, or its timeout: the task must be RUNNING, in whose hands is
\* not asked.
LookAtVictim ==
    /\ qsPc = "look"
    /\ IF qsRows[VictimTask].status = "RUNNING" THEN qsPc' = "sleep" ELSE SmokeFails
    /\ UNCHANGED <<qsWorker, qsVictim, qsClaims, qsReaped, qsEvidence, qsHistory, qsQueue>>
    /\ StaysOutside

SleepPastLease ==
    /\ qsPc = "sleep"
    /\ qsNow' = qsNow + ShortLease + 1
    /\ qsPc' = "reap"
    /\ UNCHANGED <<qsWorker, qsVictim, qsClaims, qsReaped, qsEvidence, qsHistory, qsRows,
                   qsClaiming, qsReaping, qsRenewed>>
    /\ StaysOutside

ReapFirst ==
    /\ qsPc = "reap"
    /\ Queue(ShortLease)!ReapRequeue("reaper")
    /\ qsReaped' = {t \in AllTasks : qsRows'[t] # qsRows[t]}
    /\ qsPc' = "reap2"
    /\ UNCHANGED <<qsWorker, qsVictim, qsClaims, qsEvidence, qsHistory>>
    /\ StaysOutside

ReapSecond ==
    /\ qsPc = "reap2"
    /\ Queue(ShortLease)!ReapTimeOut("reaper")
    /\ LET reaped == qsReaped \cup {t \in AllTasks : qsRows'[t] # qsRows[t]}
       IN  CheckedToo(Holding(VictimTask \in reaped, "killed_worker_lease_reaped"))
    /\ qsReaped' = {}
    /\ qsPc' = "rescue"
    /\ UNCHANGED <<qsWorker, qsVictim, qsClaims, qsHistory>>
    /\ StaysOutside

\* The task claimed must be the one that was reaped.
RescuerSelects ==
    /\ qsPc = "rescue"
    /\ \/ Queue(LongLease)!ClaimSelect("rescuer", "rescuer") /\ qsPc' = "rescue2"
       \/ /\ \A t \in AllTasks : qsRows[t].status = "QUEUED" => ~Queue(LongLease)!Unlocked(t)
          /\ SmokeFails /\ UNCHANGED qsQueue
    /\ UNCHANGED <<qsWorker, qsVictim, qsClaims, qsReaped, qsEvidence, qsHistory>>
    /\ StaysOutside

RescuerClaims ==
    LET t == qsClaiming["rescuer"].task
    IN  /\ qsPc = "rescue2"
        /\ Queue(LongLease)!claim("rescuer")
        /\ Noted(t, "rescuer")
        /\ IF t = VictimTask THEN qsPc' = "finish" ELSE SmokeFails
        /\ UNCHANGED <<qsWorker, qsVictim, qsClaims, qsReaped, qsEvidence>>
        /\ StaysOutside

RescuerCompletes ==
    /\ qsPc = "finish"
    /\ Queue(LongLease)!complete(VictimTask, "rescuer")
    /\ CheckedToo(Holding(qsRows'[VictimTask].attempts = 2, "reaped_task_completed_by_other_worker"))
    /\ qsPc' = "key"
    /\ UNCHANGED <<qsWorker, qsVictim, qsClaims, qsReaped, qsHistory>>
    /\ StaysOutside

-----------------------------------------------------------------------------
(* _stage_idempotency, the end of run_smoke, and the readiness check.       *)

EnqueueKey ==
    /\ qsPc \in {"key", "key2"}
    /\ \/ /\ \E t \in KeyTasks : Queue(LongLease)!enqueue(t, IdemKey, 1)
          /\ UNCHANGED qsHistory
       \/ /\ \E t \in AllTasks : qsRows[t].key = IdemKey      \* the existing row
          /\ UNCHANGED <<qsHistory, qsQueue>>
    /\ qsPc' = IF qsPc = "key" THEN "key2" ELSE "count"
    /\ UNCHANGED <<qsWorker, qsVictim, qsClaims, qsReaped, qsEvidence>>
    /\ StaysOutside

FinishSmoke ==
    /\ qsPc = "count"
    /\ LET checks == qsEvidence.checks
               \cup Holding(Cardinality({t \in AllTasks : qsRows[t].key = IdemKey}) = 1,
                       "idempotency_dedupe_enforced")
       IN  qsEvidence' = [qsEvidence EXCEPT
             !.checks = checks,
             !.status = IF checks = RequiredQueueChecks THEN "passed" ELSE "failed"]
    /\ qsPc' = "over"
    /\ UNCHANGED <<qsWorker, qsVictim, qsClaims, qsReaped, qsHistory, qsQueue>>
    /\ StaysOutside

\* Any statement of the parent may raise.
ParentFails ==
    /\ qsPc \notin {"start", "over"}
    /\ SmokeFails
    /\ UNCHANGED <<qsWorker, qsVictim, qsClaims, qsReaped, qsEvidence, qsHistory, qsQueue>>
    /\ StaysOutside

\* _backend_evidence_check
AcceptsQueueEvidence(e, head) ==
    /\ e.status = "passed"
    /\ e.commit = head
    /\ RequiredQueueChecks \subseteq e.checks

CheckQueueEvidence ==
    /\ qsPc = "over" /\ AcceptsQueueEvidence(qsEvidence, qsHead)
    /\ qsReleased' = qsHead
    /\ UNCHANGED <<qsPc, qsHead, qsWorker, qsVictim, qsClaims, qsReaped, qsEvidence, qsHistory,
                   qsOutside, qsQueue>>

CommitWhileSmoking ==
    /\ qsHead < MaxHeads
    /\ qsHead' = qsHead + 1
    /\ UNCHANGED <<qsPc, qsWorker, qsVictim, qsClaims, qsReaped, qsEvidence, qsReleased,
                   qsHistory, qsOutside, qsQueue>>

\* The joins, the polls, a slow database.
TimePasses ==
    /\ qsPc \notin {"start", "over"}
    /\ Queue(LongLease)!Tick
    /\ UNCHANGED <<qsPc, qsWorker, qsVictim, qsClaims, qsReaped, qsEvidence, qsHistory>>
    /\ StaysOutside

\* Somebody else on the same table, who claims, completes and reaps.
Outsider ==
    /\ qsPc # "start"
    /\ \/ /\ qsOutside < MaxOutside
          /\ Queue(LongLease)!ClaimSelect("outsider", "outsider")
          /\ qsOutside' = qsOutside + 1 /\ UNCHANGED qsHistory
       \/ /\ \E lease \in OutsideLeases : Queue(lease)!claim("outsider")
          /\ Noted(qsClaiming["outsider"].task, "outsider") /\ UNCHANGED qsOutside
       \/ /\ \E t \in AllTasks : Queue(LongLease)!complete(t, "outsider")
          /\ UNCHANGED <<qsHistory, qsOutside>>
       \/ /\ qsOutside < MaxOutside
          /\ Queue(LongLease)!ReapRequeue("outsider")
          /\ qsOutside' = qsOutside + 1 /\ UNCHANGED qsHistory
       \/ /\ Queue(LongLease)!ReapTimeOut("outsider")
          /\ UNCHANGED <<qsHistory, qsOutside>>
    /\ UNCHANGED <<qsPc, qsHead, qsWorker, qsVictim, qsClaims, qsReaped, qsEvidence, qsReleased>>

QueueSmokeNext ==
    \/ StartQueueSmoke \/ JoinWorkers
    \/ \E w \in QsWorkers : \/ WorkerSelects(w) \/ WorkerIdles(w) \/ WorkerClaims(w)
                            \/ WorkerCompletes(w)
                            \/ \E how \in {"reported", "killed"} : WorkerEnds(w, how)
    \/ EnqueueVictimTask \/ VictimSelects \/ VictimDies \/ VictimGetsNothing \/ LookAtVictim
    \/ SleepPastLease \/ TimePasses
    \/ ReapFirst \/ ReapSecond \/ RescuerSelects \/ RescuerClaims \/ RescuerCompletes
    \/ EnqueueKey \/ FinishSmoke \/ ParentFails
    \/ CheckQueueEvidence \/ CommitWhileSmoking \/ Outsider

-----------------------------------------------------------------------------
\* What the evidence claims is what happened, however slow the smoke was and
\* whatever others did on the table: the workers of the smoke, and nobody else,
\* ran each task once, and the rescuer finished a task whose first and only
\* other claim was abandoned.  The script does not ask whose claim that was: it
\* was the killed worker's, unless somebody else took tasks of the table.
QueueEvidenceIsEarned ==
    qsReleased # 0 =>
        /\ qsReleased = qsEvidence.commit
        /\ \A t \in BulkTasks : \E w \in QsWorkers : qsHistory[t] = <<w>>
        /\ \/ qsHistory[VictimTask] = <<"victim", "rescuer">>
           \/ qsOutside > 0 /\ qsHistory[VictimTask] = <<"outsider", "rescuer">>
=============================================================================
