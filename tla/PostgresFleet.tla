--------------------------- MODULE PostgresFleet ---------------------------
(***************************************************************************)
(* TaskRunner processes (task_queue.py) consuming one PostgresTaskQueue,   *)
(* with supervisors that reap expired leases, a client that enqueues, and  *)
(* an operator who pauses, resumes and cancels.                            *)
(* run_next is: claim; run the plan in the kernel, which may take any time *)
(* and which nothing heartbeats for unless the embedding process does;     *)
(* then complete, retry or fail, decided from the task object that claim   *)
(* returned, not from the row as it is by then.  A refused call raises     *)
(* PermissionError out of run_next.                                        *)
(***************************************************************************)
EXTENDS PostgresTaskQueue

CONSTANTS
    Runners,    \* TaskRunner processes
    Reapers,    \* supervisor processes
    WorkerOf,   \* the worker_id each TaskRunner was given (default "worker")
    MaxResumes, \* bound: resumes of one task
    SlackUntil  \* bound: until then heartbeats are sent and claims may be slow

ASSUME FleetAssumption ==
    /\ Sessions = Runners \cup Reapers
    /\ Runners \cap Reapers = {}
    /\ WorkerOf \in [Runners -> Workers]
    /\ MaxResumes \in Nat
    /\ SlackUntil \in Nat

VARIABLES
    pc,       \* per runner: where it is in run_next
    held,     \* per runner: the RuntimeTask that claim returned
    resumes   \* history: how often each task was resumed

fvars == <<rows, claiming, reaping, now, renewed, pc, held, resumes>>

NoTask == [task |-> NULL, attempts |-> 0, maxAttempts |-> 0]

FleetInit ==
    /\ Init
    /\ pc = [r \in Runners |-> "idle"]
    /\ held = [r \in Runners |-> NoTask]
    /\ resumes = [t \in TaskIds |-> 0]

-----------------------------------------------------------------------------
\* run_next: the claim statement, then its commit and the task it returns.
RunNext(r) ==
    /\ pc[r] = "idle"
    /\ ClaimSelect(r, WorkerOf[r])
    /\ pc' = [pc EXCEPT ![r] = "claiming"]
    /\ UNCHANGED <<held, resumes>>

Claimed(r) ==
    /\ pc[r] = "claiming"
    /\ claim(r)
    /\ LET t == claiming[r].task
       IN held' = [held EXCEPT ![r] = [task |-> t,
                                       attempts |-> rows'[t].attempts,
                                       maxAttempts |-> rows'[t].maxAttempts]]
    /\ pc' = [pc EXCEPT ![r] = "running"]
    /\ UNCHANGED resumes

\* kernel.run(task.plan) returns with the goal SUCCEEDED, or it returns with
\* another goal status or raises.
KernelReturns(r) ==
    /\ pc[r] = "running"
    /\ \E outcome \in {"complete", "handleFailure"} :
         pc' = [pc EXCEPT ![r] = outcome]
    /\ UNCHANGED <<qvars, held, resumes>>

\* Defect: one attempt too many.
Settle_OffByOne(r) ==
    LET t == held[r].task
        w == WorkerOf[r]
    IN \/ pc[r] = "complete" /\ complete(t, w)
       \/ /\ pc[r] = "handleFailure"
          /\ held[r].attempts <= held[r].maxAttempts
          /\ retry(t, w)
       \/ /\ pc[r] = "handleFailure"
          /\ held[r].attempts > held[r].maxAttempts
          /\ fail(t, w)

\* The call that ends run_next.
Settle(r) ==
    LET t == held[r].task
        w == WorkerOf[r]
    IN \/ pc[r] = "complete" /\ complete(t, w)
       \/ /\ pc[r] = "handleFailure"
          /\ held[r].attempts < held[r].maxAttempts
          /\ retry(t, w)
       \/ /\ pc[r] = "handleFailure"
          /\ held[r].attempts >= held[r].maxAttempts
          /\ fail(t, w)

BackToIdle(r) ==
    /\ pc' = [pc EXCEPT ![r] = "idle"]
    /\ held' = [held EXCEPT ![r] = NoTask]
    /\ UNCHANGED resumes

Finish(r) == Settle(r) /\ BackToIdle(r)

\* PermissionError: the row is no longer RUNNING under this worker_id.
Refused(r) ==
    /\ pc[r] \in {"complete", "handleFailure"}
    /\ ~Holds(held[r].task, WorkerOf[r])
    /\ BackToIdle(r)
    /\ UNCHANGED qvars

\* The embedding process heartbeats while the kernel runs.
Heartbeat(r) ==
    /\ pc[r] = "running"
    /\ now < SlackUntil
    /\ heartbeat(held[r].task, WorkerOf[r])
    /\ UNCHANGED <<pc, held, resumes>>

\* The process dies, or its connection fails for good: RuntimeStoreError out
\* of every later call, the open transaction rolled back.
Crash(r) ==
    /\ pc[r] # "down"
    /\ claiming' = [claiming EXCEPT ![r] = NoClaim]
    /\ pc' = [pc EXCEPT ![r] = "down"]
    /\ held' = [held EXCEPT ![r] = NoTask]
    /\ UNCHANGED <<rows, reaping, now, renewed, resumes>>

Restart(r) ==
    /\ pc[r] = "down"
    /\ pc' = [pc EXCEPT ![r] = "idle"]
    /\ UNCHANGED <<qvars, held, resumes>>

-----------------------------------------------------------------------------
Enqueue(t, k, m) == enqueue(t, k, m) /\ UNCHANGED <<pc, held, resumes>>

\* The supervisor's reap_expired_leases, one statement at a time.
ReapFirst(s) == ReapRequeue(s) /\ UNCHANGED <<pc, held, resumes>>
ReapSecond(s) == ReapTimeOut(s) /\ UNCHANGED <<pc, held, resumes>>

ReaperDies(s) ==
    /\ Disconnect(s)
    /\ UNCHANGED <<pc, held, resumes>>

Cancel(t) == cancel(t) /\ UNCHANGED <<pc, held, resumes>>

\* pause needs the holder's worker_id, which the row shows.
Pause(t) ==
    /\ \E w \in Workers : pause(t, w)
    /\ UNCHANGED <<pc, held, resumes>>

Resume(t) ==
    /\ resumes[t] < MaxResumes
    /\ resume(t)
    /\ resumes' = [resumes EXCEPT ![t] = @ + 1]
    /\ UNCHANGED <<pc, held>>

\* Only leases are compared with the clock, so the model lets time pass only
\* while a lease, or the lease of a claim in flight, is not past for every host.
Passes ==
    /\ \/ \E t \in TaskIds : /\ rows[t].status = "RUNNING"
                             /\ rows[t].leaseExpiresAt >= now - MaxSkew
       \/ /\ now < SlackUntil
          /\ \E s \in Sessions : /\ claiming[s].task # NULL
                                 /\ claiming[s].ts + LeaseSeconds >= now - MaxSkew
    /\ Tick
    /\ UNCHANGED <<pc, held, resumes>>

FleetNext ==
    \/ \E r \in Runners : \/ RunNext(r)
                          \/ Claimed(r)
                          \/ KernelReturns(r)
                          \/ Finish(r)
                          \/ Refused(r)
                          \/ Heartbeat(r)
                          \/ Crash(r)
                          \/ Restart(r)
    \/ \E s \in Reapers : ReapFirst(s) \/ ReapSecond(s) \/ ReaperDies(s)
    \/ \E t \in TaskIds :
         \/ \E k \in Keys \cup {NULL}, m \in RetryLimits : Enqueue(t, k, m)
         \/ Cancel(t)
         \/ Pause(t)
         \/ Resume(t)
    \/ Passes

FleetSpec == FleetInit /\ [][FleetNext]_fvars

\* Runners loop over run_next and kernel.run returns (every tool call has a
\* timeout); a runner is restarted, and does not crash so often that it never
\* gets a claim through; supervisors call reap_expired_leases in a loop and
\* do not for ever die between its two statements; time passes.  Nothing makes
\* anyone enqueue, heartbeat, pause, resume or cancel.
Fairness ==
    /\ \A r \in Runners : /\ SF_fvars(RunNext(r))
                          /\ SF_fvars(Claimed(r))
                          /\ WF_fvars(KernelReturns(r))
                          /\ WF_fvars(Finish(r) \/ Refused(r))
                          /\ WF_fvars(Restart(r))
    /\ \A s \in Reapers : WF_fvars(ReapFirst(s)) /\ SF_fvars(ReapSecond(s))
    /\ WF_fvars(Passes)

FairFleetSpec == FleetSpec /\ Fairness

-----------------------------------------------------------------------------

\* "A stale worker whose lease was reclaimed cannot finish the task a second
\* time": the step by which a runner completes, retries or fails a task ends
\* the attempt that this runner claimed, never a later attempt of another.
StaleWorkerCannotFinish ==
    [][\A r \in Runners :
         Finish(r) => rows[held[r].task].attempts = held[r].attempts]_fvars

\* RetryPolicy.max_attempts bounds the attempts of a task: whatever mix of
\* failures, crashes and reaps, a task starts more often than that only
\* because an operator resumed it, once more per resume.
AttemptBudget ==
    \A t \in TaskIds :
        /\ rows[t].attempts <= rows[t].maxAttempts + resumes[t]
        /\ rows[t].status = "QUEUED" =>
             rows[t].attempts < rows[t].maxAttempts + resumes[t]

\* Every enqueued task is finished, cancelled or set aside by an operator, no
\* matter which runners crash at which step: no RUNNING row is invisible to
\* both statements of the reaper, and none is requeued for ever.
EveryTaskSettles ==
    \A t \in TaskIds :
        rows[t].status \in {"QUEUED", "RUNNING"}
            ~> rows[t].status \in Terminal \cup {"PAUSED"}
=============================================================================
