------------------------- MODULE PostgresTaskQueue -------------------------
(***************************************************************************)
(* The multi-worker task queue of task_queue_backends.py.  The table       *)
(* leos_tasks is the only state: every operation is one conditional SQL    *)
(* statement, so each is one atomic action here, with two exceptions whose *)
(* steps other sessions can observe:                                       *)
(*   - claim selects its row FOR UPDATE SKIP LOCKED and becomes visible at *)
(*     commit; until then other claims skip the row (ClaimSelect, claim);  *)
(*   - reap_expired_leases commits two statements one after the other,     *)
(*     both with the timestamp it read first (ReapRequeue, ReapTimeOut).   *)
(* A call the code rejects (PermissionError, KeyError, ValueError) changes *)
(* no row and is a stuttering step.                                        *)
(* Every session reads its own host's clock: a timestamp is any value      *)
(* within MaxSkew of the true time.                                        *)
(***************************************************************************)
EXTENDS Integers

CONSTANTS
    TaskIds,        \* uuids; ORDER BY compares them, so they are integers
    Workers,        \* worker_id strings
    Sessions,       \* processes with a connection of their own
    Keys,           \* idempotency keys
    NULL,           \* SQL NULL, Python None
    LeaseSeconds,   \* lease_seconds
    MaxSkew,        \* how far a host's clock may be from true time
    RetryLimits,    \* the RetryPolicy.max_attempts in use
    MaxNow,         \* bound: the last instant of the clock
    MaxClaims       \* bound: claims of one task

ASSUME QueueAssumption ==
    /\ TaskIds \subseteq Int
    /\ LeaseSeconds \in Nat \ {0}
    /\ MaxSkew \in Nat
    /\ RetryLimits \subseteq Nat \ {0}
    /\ MaxNow \in Nat
    /\ MaxClaims \in Nat
    /\ NULL \notin Int
    /\ NULL \notin Workers
    /\ NULL \notin TaskIds

VARIABLES
    rows,      \* the table leos_tasks, by task_id
    claiming,  \* per session: the claim whose statement ran and is not committed
    reaping,   \* per session: the timestamp of a reap between its two statements
    now,       \* true time
    renewed    \* history: true time of the clock reading behind each lease

qvars == <<rows, claiming, reaping, now, renewed>>

Terminal == {"SUCCEEDED", "FAILED", "CANCELLED", "TIMED_OUT"}
Status == {"ABSENT", "QUEUED", "RUNNING", "PAUSED"} \cup Terminal

\* started_at, last_heartbeat_at and failure_reason are written and never
\* read by a statement; finished records whether finished_at is set.
Row == [status : Status,
        key : Keys \cup {NULL},
        maxAttempts : Nat,
        attempts : Nat,
        lockedBy : Workers \cup {NULL},
        enqueuedAt : Int,
        leaseExpiresAt : Int \cup {NULL},
        finished : BOOLEAN]

NoRow == [status |-> "ABSENT", key |-> NULL, maxAttempts |-> 0, attempts |-> 0,
          lockedBy |-> NULL, enqueuedAt |-> 0, leaseExpiresAt |-> NULL,
          finished |-> FALSE]

NoClaim == [task |-> NULL, worker |-> NULL, ts |-> 0, at |-> 0]

Init ==
    /\ rows = [t \in TaskIds |-> NoRow]
    /\ claiming = [s \in Sessions |-> NoClaim]
    /\ reaping = [s \in Sessions |-> NULL]
    /\ now = 0
    /\ renewed = [t \in TaskIds |-> 0]

-----------------------------------------------------------------------------
\* time.time() on some host
Clock == (now - MaxSkew) .. (now + MaxSkew)

\* Defect: the sub-select of claim without FOR UPDATE SKIP LOCKED.
Unlocked_NoRowLock(t) == TRUE

\* The row lock of an uncommitted claim: an UPDATE of the row waits for it.
Unlocked(t) == \A s \in Sessions : claiming[s].task # t

Exists(t) == rows[t].status # "ABSENT"

\* Defect: the WHERE clause does not compare locked_by.
Holds_AnyWorker(t, w) == rows[t].status = "RUNNING"

\* WHERE task_id = %s AND status = RUNNING AND locked_by = %s
Holds(t, w) == rows[t].status = "RUNNING" /\ rows[t].lockedBy = w

\* ORDER BY enqueued_at, task_id
Before(t, u) ==
    \/ rows[t].enqueuedAt < rows[u].enqueuedAt
    \/ rows[t].enqueuedAt = rows[u].enqueuedAt /\ t <= u

\* A session issues one statement at a time.
Free(s) == claiming[s].task = NULL /\ reaping[s] = NULL

enqueue(t, k, m) ==
    /\ ~Exists(t)                                \* a fresh uuid
    /\ k # NULL => \A u \in TaskIds : rows[u].key # k   \* ON CONFLICT DO NOTHING
    /\ \E ts \in Clock :
         rows' = [rows EXCEPT ![t] = [NoRow EXCEPT !.status = "QUEUED",
                                                   !.key = k,
                                                   !.maxAttempts = m,
                                                   !.enqueuedAt = ts]]
    /\ UNCHANGED <<claiming, reaping, now, renewed>>

\* The claim's sub-select: the first QUEUED row no other claim has locked.
ClaimSelect(s, w) ==
    LET candidates == {t \in TaskIds : rows[t].status = "QUEUED" /\ Unlocked(t)}
    IN /\ Free(s)
       /\ \E t \in candidates, ts \in Clock :
            /\ \A u \in candidates : Before(t, u)
            /\ rows[t].attempts < MaxClaims
            /\ claiming' = [claiming EXCEPT ![s] =
                              [task |-> t, worker |-> w, ts |-> ts, at |-> now]]
       /\ UNCHANGED <<rows, reaping, now, renewed>>

\* The claim's UPDATE commits.
claim(s) ==
    LET c == claiming[s] IN
    /\ c.task # NULL
    /\ rows' = [rows EXCEPT ![c.task] =
                  [rows[c.task] EXCEPT !.status = "RUNNING",
                                       !.lockedBy = c.worker,
                                       !.attempts = @ + 1,
                                       !.leaseExpiresAt = c.ts + LeaseSeconds]]
    /\ renewed' = [renewed EXCEPT ![c.task] = c.at]
    /\ claiming' = [claiming EXCEPT ![s] = NoClaim]
    /\ UNCHANGED <<reaping, now>>

\* The connection is lost before the commit, or between the two statements
\* of a reap: PostgreSQL rolls the open transaction back.
Disconnect(s) ==
    /\ ~Free(s)
    /\ claiming' = [claiming EXCEPT ![s] = NoClaim]
    /\ reaping' = [reaping EXCEPT ![s] = NULL]
    /\ UNCHANGED <<rows, now, renewed>>

heartbeat(t, w) ==
    /\ Holds(t, w)
    /\ \E ts \in Clock :
         rows' = [rows EXCEPT ![t].leaseExpiresAt = ts + LeaseSeconds]
    /\ renewed' = [renewed EXCEPT ![t] = now]
    /\ UNCHANGED <<claiming, reaping, now>>

\* complete and fail
finish(t, w, status) ==
    /\ Holds(t, w)
    /\ rows' = [rows EXCEPT ![t] = [rows[t] EXCEPT !.status = status,
                                                   !.finished = TRUE,
                                                   !.lockedBy = NULL,
                                                   !.leaseExpiresAt = NULL]]
    /\ UNCHANGED <<claiming, reaping, now, renewed>>

complete(t, w) == finish(t, w, "SUCCEEDED")
fail(t, w) == finish(t, w, "FAILED")

\* Defect: a retried task starts counting its attempts again.
retry_ForgetsAttempts(t, w) ==
    /\ Holds(t, w)
    /\ rows' = [rows EXCEPT ![t] = [rows[t] EXCEPT !.status = "QUEUED",
                                                   !.attempts = 0,
                                                   !.lockedBy = NULL,
                                                   !.leaseExpiresAt = NULL,
                                                   !.finished = FALSE]]
    /\ UNCHANGED <<claiming, reaping, now, renewed>>

retry(t, w) ==
    /\ Holds(t, w)
    /\ rows' = [rows EXCEPT ![t] = [rows[t] EXCEPT !.status = "QUEUED",
                                                   !.lockedBy = NULL,
                                                   !.leaseExpiresAt = NULL,
                                                   !.finished = FALSE]]
    /\ UNCHANGED <<claiming, reaping, now, renewed>>

\* No condition on the status: a finished task can be cancelled too.
cancel(t) ==
    /\ Exists(t) /\ Unlocked(t)
    /\ rows' = [rows EXCEPT ![t] = [rows[t] EXCEPT !.status = "CANCELLED",
                                                   !.finished = TRUE,
                                                   !.lockedBy = NULL,
                                                   !.leaseExpiresAt = NULL]]
    /\ UNCHANGED <<claiming, reaping, now, renewed>>

\* Defect: pause leaves lease_expires_at set.
pause_KeepsLease(t, w) ==
    /\ Holds(t, w)
    /\ rows' = [rows EXCEPT ![t] = [rows[t] EXCEPT !.status = "PAUSED",
                                                   !.lockedBy = NULL]]
    /\ UNCHANGED <<claiming, reaping, now, renewed>>

pause(t, w) ==
    /\ Holds(t, w)
    /\ rows' = [rows EXCEPT ![t] = [rows[t] EXCEPT !.status = "PAUSED",
                                                   !.lockedBy = NULL,
                                                   !.leaseExpiresAt = NULL]]
    /\ UNCHANGED <<claiming, reaping, now, renewed>>

resume(t) ==
    /\ rows[t].status = "PAUSED"
    /\ rows' = [rows EXCEPT ![t].status = "QUEUED"]
    /\ UNCHANGED <<claiming, reaping, now, renewed>>

\* Defect: the lease counts as over at the instant it expires.
Expired_AtExpiry(t, ts) ==
    /\ rows[t].status = "RUNNING"
    /\ rows[t].leaseExpiresAt # NULL
    /\ rows[t].leaseExpiresAt <= ts

Expired(t, ts) ==
    /\ rows[t].status = "RUNNING"
    /\ rows[t].leaseExpiresAt # NULL
    /\ rows[t].leaseExpiresAt < ts

\* reap_expired_leases, first statement: attempts left, back to the queue.
ReapRequeue(s) ==
    /\ Free(s)
    /\ \E ts \in Clock :
         /\ reaping' = [reaping EXCEPT ![s] = ts]
         /\ rows' = [t \in TaskIds |->
              IF Expired(t, ts) /\ rows[t].attempts < rows[t].maxAttempts
              THEN [rows[t] EXCEPT !.status = "QUEUED",
                                   !.lockedBy = NULL,
                                   !.leaseExpiresAt = NULL]
              ELSE rows[t]]
    /\ UNCHANGED <<claiming, now, renewed>>

\* Defect: the last attempt is covered by neither statement.
ReapTimeOut_PastLimit(s) ==
    /\ reaping[s] # NULL
    /\ rows' = [t \in TaskIds |->
         IF Expired(t, reaping[s]) /\ rows[t].attempts > rows[t].maxAttempts
         THEN [rows[t] EXCEPT !.status = "TIMED_OUT",
                              !.finished = TRUE,
                              !.lockedBy = NULL,
                              !.leaseExpiresAt = NULL]
         ELSE rows[t]]
    /\ reaping' = [reaping EXCEPT ![s] = NULL]
    /\ UNCHANGED <<claiming, now, renewed>>

\* reap_expired_leases, second statement: attempts exhausted.
ReapTimeOut(s) ==
    /\ reaping[s] # NULL
    /\ rows' = [t \in TaskIds |->
         IF Expired(t, reaping[s]) /\ rows[t].attempts >= rows[t].maxAttempts
         THEN [rows[t] EXCEPT !.status = "TIMED_OUT",
                              !.finished = TRUE,
                              !.lockedBy = NULL,
                              !.leaseExpiresAt = NULL]
         ELSE rows[t]]
    /\ reaping' = [reaping EXCEPT ![s] = NULL]
    /\ UNCHANGED <<claiming, now, renewed>>

Tick ==
    /\ now < MaxNow
    /\ now' = now + 1
    /\ UNCHANGED <<rows, claiming, reaping, renewed>>
-----------------------------------------------------------------------------
\* Any client may call any operation with any arguments at any time.
QueueNext ==
    \/ \E t \in TaskIds :
         \/ \E k \in Keys \cup {NULL}, m \in RetryLimits : enqueue(t, k, m)
         \/ \E w \in Workers : \/ heartbeat(t, w)
                              \/ complete(t, w)
                              \/ fail(t, w)
                              \/ retry(t, w)
                              \/ pause(t, w)
         \/ cancel(t)
         \/ resume(t)
    \/ \E s \in Sessions :
         \/ \E w \in Workers : ClaimSelect(s, w)
         \/ claim(s)
         \/ ReapRequeue(s)
         \/ ReapTimeOut(s)
         \/ Disconnect(s)
    \/ Tick

QueueSpec == Init /\ [][QueueNext]_qvars

-----------------------------------------------------------------------------
\* The columns of leos_tasks and the in-flight statements are well typed.
QueueTypeOK ==
    /\ rows \in [TaskIds -> Row]
    /\ claiming \in [Sessions -> [task : TaskIds \cup {NULL},
                                  worker : Workers \cup {NULL},
                                  ts : Int, at : Int]]
    /\ reaping \in [Sessions -> Int \cup {NULL}]
    /\ now \in Nat
    /\ renewed \in [TaskIds -> Int]

\* locked_by and lease_expires_at are set exactly while a task is RUNNING,
\* finished_at exactly once it is terminal, after any mix of claims, retries,
\* pauses, cancellations and reaps: no operation may leave a lease behind
\* that a later reap would act on, nor a RUNNING row the reaper cannot see.
LockMatchesStatus ==
    \A t \in TaskIds :
        /\ rows[t].status = "RUNNING" <=> rows[t].lockedBy # NULL
        /\ rows[t].status = "RUNNING" <=> rows[t].leaseExpiresAt # NULL
        /\ rows[t].status \in Terminal <=> rows[t].finished

\* A row selected by a claim in flight is still QUEUED when the claim commits
\* and is selected by no other claim.
ClaimsAreExclusive ==
    \A s \in Sessions : claiming[s].task # NULL =>
        /\ rows[claiming[s].task].status = "QUEUED"
        /\ \A u \in Sessions \ {s} : claiming[u].task # claiming[s].task

\* A lease runs LeaseSeconds from a clock reading at most MaxSkew wrong, and
\* no reap in flight carries a timestamp more than MaxSkew ahead.
LeaseCoversRenewal ==
    /\ \A t \in TaskIds : rows[t].status = "RUNNING" =>
         rows[t].leaseExpiresAt >= renewed[t] + LeaseSeconds - MaxSkew
    /\ \A s \in Sessions :
         /\ claiming[s].task # NULL => claiming[s].ts >= claiming[s].at - MaxSkew
         /\ claiming[s].task # NULL => claiming[s].worker # NULL
         /\ reaping[s] # NULL => reaping[s] <= now + MaxSkew

\* "A task can never be claimed twice", and every other change of a row is one
\* the life cycle allows: the table implements TaskLifecycle.  A claim that
\* takes over a RUNNING task, or a task finished twice, is not a step of it.
Lifecycle == INSTANCE TaskLifecycle WITH
    task <- [t \in TaskIds |-> [status |-> rows[t].status,
                               holder |-> rows[t].lockedBy,
                               attempts |-> rows[t].attempts]]
FollowsLifecycle == Lifecycle!Spec

\* The reaper takes a task from its worker only when, in true time, the lease
\* is over up to the skew of the two hosts' clocks: whatever is interleaved
\* with the two statements of a reap, a worker whose last renewal is younger
\* than that keeps its task.
NoEarlyReclaim ==
    [][\A t \in TaskIds :
         (/\ rows[t].status = "RUNNING" /\ rows'[t].status # "RUNNING"
          /\ \E s \in Sessions : ReapRequeue(s) \/ ReapTimeOut(s))
         => now - renewed[t] > LeaseSeconds - 2 * MaxSkew]_qvars

=============================================================================
