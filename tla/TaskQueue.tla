----------------------------- MODULE TaskQueue -----------------------------
(***************************************************************************)
(* The single-process task queue of task_queue.py with its SQLite mirror,  *)
(* and the Watchdog.  The in-memory dictionary is authoritative while the  *)
(* process lives; every operation changes it, records an audit event and   *)
(* then writes the row.  The audit record is appended to a file and may    *)
(* raise: the operation then fails towards its caller with the memory      *)
(* changed and the row not written (a torn operation).  The process may    *)
(* die between operations; _load_tasks builds the memory from the tables.  *)
(* A call the code rejects changes nothing and is a stuttering step.       *)
(***************************************************************************)
EXTENDS Integers, Sequences, SequencesExt

CONSTANTS
    TaskIds,           \* uuids
    Workers,           \* worker_id strings
    Keys,              \* idempotency keys
    NULL,              \* Python None, SQL NULL
    HeartbeatTimeout,  \* timeout_policy.heartbeat_timeout_seconds, or NULL
    RuntimeTimeout,    \* timeout_policy.runtime_timeout_seconds, or NULL
    Torn,              \* the operations whose audit record may raise
    MaxNow,            \* bound: the last instant of the clock
    BeatsUntil,        \* bound: the instant after which no heartbeat is sent
    MaxClaims          \* bound: claims of one task

ASSUME TaskQueueAssumption ==
    /\ IsFiniteSet(TaskIds)
    /\ NULL \notin Nat /\ NULL \notin Workers /\ NULL \notin TaskIds /\ NULL \notin Keys
    /\ HeartbeatTimeout \in Nat \cup {NULL}
    /\ RuntimeTimeout \in Nat \cup {NULL}
    /\ Torn \subseteq {"enqueue", "update"}
    /\ MaxNow \in Nat /\ BeatsUntil \in Nat /\ MaxClaims \in Nat

VARIABLES
    up,        \* the process is alive
    mem,       \* _tasks
    order,     \* _order
    index,     \* _idempotency_index
    db,        \* table tasks
    dbIndex,   \* table idempotency
    now,       \* time.time()
    acked,     \* history: the task as the last call that returned, or the
               \* watchdog, left it
    returned   \* history: the task enqueue returned for each key

vars == <<up, mem, order, index, db, dbIndex, now, acked, returned>>

Terminal == {"SUCCEEDED", "FAILED", "CANCELLED", "TIMED_OUT"}

Row == [status : {"ABSENT", "QUEUED", "RUNNING", "PAUSED"} \cup Terminal,
        key : Keys \cup {NULL},
        attempts : Nat,
        lockedBy : Workers \cup {NULL},
        enqueuedAt : Nat,
        startedAt : Nat \cup {NULL},
        lastHeartbeatAt : Nat \cup {NULL},
        finishedAt : Nat \cup {NULL}]

NoRow == [status |-> "ABSENT", key |-> NULL, attempts |-> 0, lockedBy |-> NULL,
          enqueuedAt |-> 0, startedAt |-> NULL, lastHeartbeatAt |-> NULL,
          finishedAt |-> NULL]

Init ==
    /\ up = TRUE
    /\ mem = [t \in TaskIds |-> NoRow]
    /\ order = <<>>
    /\ index = [k \in Keys |-> NULL]
    /\ db = mem
    /\ dbIndex = index
    /\ now = 0
    /\ acked = mem
    /\ returned = index

-----------------------------------------------------------------------------
Known(t) == mem[t].status # "ABSENT"

\* _require_lock
Holds(t, w) == mem[t].status = "RUNNING" /\ mem[t].lockedBy = w

\* Defect: the row of a finished task is not written again.
PersistUpdate_OnlyActive(t, row) ==
    IF db[t].status = "ABSENT" \/ row.status \in Terminal
    THEN db ELSE [db EXCEPT ![t] = row]

\* _persist_update: an UPDATE of a row that was never inserted matches none.
PersistUpdate(t, row) ==
    IF db[t].status = "ABSENT" THEN db ELSE [db EXCEPT ![t] = row]

\* The task object is changed, the event recorded, the row written.
Update(t, row) ==
    /\ up
    /\ mem' = [mem EXCEPT ![t] = row]
    /\ \/ db' = PersistUpdate(t, row) /\ acked' = [acked EXCEPT ![t] = row]
       \/ "update" \in Torn /\ UNCHANGED <<db, acked>>
    /\ UNCHANGED <<up, order, index, dbIndex, now, returned>>

enqueueNew(t, k) ==
    LET row == [NoRow EXCEPT !.status = "QUEUED", !.key = k, !.enqueuedAt = now]
    IN /\ up /\ ~Known(t) /\ db[t].status = "ABSENT"
       /\ k # NULL => index[k] = NULL
       /\ mem' = [mem EXCEPT ![t] = row]
       /\ order' = Append(order, t)
       /\ index' = IF k = NULL THEN index ELSE [index EXCEPT ![k] = t]
       /\ \/ /\ db' = [db EXCEPT ![t] = row]
             /\ dbIndex' = IF k = NULL THEN dbIndex ELSE [dbIndex EXCEPT ![k] = t]
             /\ acked' = [acked EXCEPT ![t] = row]
             /\ returned' = IF k = NULL THEN returned ELSE [returned EXCEPT ![k] = t]
          \/ /\ "enqueue" \in Torn
             /\ UNCHANGED <<db, dbIndex, acked, returned>>
       /\ UNCHANGED <<up, now>>

\* The key is known: the task it belongs to is returned, whatever its status.
enqueueDuplicate(k) ==
    /\ up /\ index[k] # NULL
    /\ returned' = [returned EXCEPT ![k] = index[k]]
    /\ UNCHANGED <<up, mem, order, index, db, dbIndex, now, acked>>

\* The first QUEUED task in the order of arrival.
claim(w) ==
    \E j \in 1 .. Len(order) :
        LET t == order[j] IN
        /\ mem[t].status = "QUEUED"
        /\ \A k \in 1 .. j - 1 : mem[order[k]].status # "QUEUED"
        /\ mem[t].attempts < MaxClaims
        /\ Update(t, [mem[t] EXCEPT !.status = "RUNNING",
                                    !.lockedBy = w,
                                    !.attempts = @ + 1,
                                    !.startedAt = now,
                                    !.lastHeartbeatAt = now])

heartbeat(t, w) ==
    /\ Holds(t, w)
    /\ now <= BeatsUntil
    /\ Update(t, [mem[t] EXCEPT !.lastHeartbeatAt = now])

\* complete and fail
finish(t, w, status) ==
    /\ Holds(t, w)
    /\ Update(t, [mem[t] EXCEPT !.status = status,
                                !.finishedAt = now,
                                !.lockedBy = NULL])

complete(t, w) == finish(t, w, "SUCCEEDED")
fail(t, w) == finish(t, w, "FAILED")

\* Defect: a retried task keeps its lock.
retry_KeepsLock(t, w) ==
    /\ Holds(t, w)
    /\ Update(t, [mem[t] EXCEPT !.status = "QUEUED",
                                !.startedAt = NULL,
                                !.lastHeartbeatAt = NULL,
                                !.finishedAt = NULL])

retry(t, w) ==
    /\ Holds(t, w)
    /\ Update(t, [mem[t] EXCEPT !.status = "QUEUED",
                                !.lockedBy = NULL,
                                !.startedAt = NULL,
                                !.lastHeartbeatAt = NULL,
                                !.finishedAt = NULL])

cancel(t) ==
    /\ Known(t)
    /\ Update(t, [mem[t] EXCEPT !.status = "CANCELLED",
                                !.finishedAt = now,
                                !.lockedBy = NULL])

pause(t, w) ==
    /\ Holds(t, w)
    /\ Update(t, [mem[t] EXCEPT !.status = "PAUSED", !.lockedBy = NULL])

resume(t) ==
    /\ mem[t].status = "PAUSED"
    /\ Update(t, [mem[t] EXCEPT !.status = "QUEUED"])

-----------------------------------------------------------------------------
\* Watchdog._timeout_reason
Overdue(row) ==
    \/ /\ HeartbeatTimeout # NULL /\ row.lastHeartbeatAt # NULL
       /\ now - row.lastHeartbeatAt > HeartbeatTimeout
    \/ /\ RuntimeTimeout # NULL /\ row.startedAt # NULL
       /\ now - row.startedAt > RuntimeTimeout

TimedOut(row) ==
    [row EXCEPT !.status = "TIMED_OUT", !.finishedAt = now, !.lockedBy = NULL]

\* Watchdog.check over the first n tasks: it writes each row before it records
\* the event, so a record that raises ends the scan after a whole task.
check(n) ==
    LET late == {t \in TaskIds : /\ mem[t].status = "RUNNING" /\ Overdue(mem[t])
                                 /\ \E j \in 1 .. n : order[j] = t}
        after(rows) == [t \in TaskIds |-> IF t \in late THEN TimedOut(mem[t])
                                                        ELSE rows[t]]
    IN /\ up
       /\ n = Len(order) \/ "update" \in Torn
       /\ late # {}
       /\ mem' = after(mem)
       /\ db' = [t \in TaskIds |-> IF db[t].status = "ABSENT" THEN db[t]
                                                              ELSE after(db)[t]]
       /\ acked' = after(acked)
       /\ UNCHANGED <<up, order, index, dbIndex, now, returned>>

\* The process dies and its memory is lost.
Crash ==
    /\ up
    /\ up' = FALSE
    /\ mem' = [t \in TaskIds |-> NoRow]
    /\ order' = <<>>
    /\ index' = [k \in Keys |-> NULL]
    /\ UNCHANGED <<db, dbIndex, now, acked, returned>>

\* Defect: the idempotency table is not read back.
LoadTasks_NoIndex ==
    /\ ~up
    /\ up' = TRUE
    /\ mem' = db
    /\ order' \in SetToSeqs({t \in TaskIds : db[t].status # "ABSENT"})
    /\ UNCHANGED <<index, db, dbIndex, now, acked, returned>>

\* Defect: the times of a reloaded task start out empty.
LoadTasks_NoTimes ==
    /\ ~up
    /\ up' = TRUE
    /\ mem' = [t \in TaskIds |-> [db[t] EXCEPT !.startedAt = NULL,
                                             !.lastHeartbeatAt = NULL]]
    /\ index' = dbIndex
    /\ order' \in SetToSeqs({t \in TaskIds : db[t].status # "ABSENT"})
    /\ UNCHANGED <<db, dbIndex, now, acked, returned>>

\* _load_tasks: SELECT ... ORDER BY enqueued_at, ties in any order.
LoadTasks ==
    /\ ~up
    /\ up' = TRUE
    /\ mem' = db
    /\ index' = dbIndex
    /\ order' \in {s \in SetToSeqs({t \in TaskIds : db[t].status # "ABSENT"}) :
                     \A j, k \in 1 .. Len(s) :
                        j < k => db[s[j]].enqueuedAt <= db[s[k]].enqueuedAt}
    /\ UNCHANGED <<db, dbIndex, now, acked, returned>>

\* Only running tasks are compared with the clock.
Tick ==
    /\ now < MaxNow
    /\ \E t \in TaskIds : LET row == IF up THEN mem[t] ELSE db[t]
                         IN row.status = "RUNNING" /\ ~Overdue(row)
    /\ now' = now + 1
    /\ UNCHANGED <<up, mem, order, index, db, dbIndex, acked, returned>>

Next ==
    \/ \E t \in TaskIds :
         \/ \E k \in Keys \cup {NULL} : enqueueNew(t, k)
         \/ \E w \in Workers : \/ heartbeat(t, w)
                              \/ complete(t, w)
                              \/ fail(t, w)
                              \/ retry(t, w)
                              \/ pause(t, w)
         \/ cancel(t)
         \/ resume(t)
    \/ \E k \in Keys : enqueueDuplicate(k)
    \/ \E w \in Workers : claim(w)
    \/ \E n \in 1 .. Len(order) : check(n)
    \/ Crash
    \/ LoadTasks
    \/ Tick

Spec == Init /\ [][Next]_vars

\* A dead process is restarted, the supervisor calls Watchdog.check in a loop
\* and gets through a scan before the process dies again, and time passes.
FairSpec ==
    /\ Spec
    /\ WF_vars(LoadTasks)
    /\ SF_vars(check(Len(order)))
    /\ WF_vars(Tick)

-----------------------------------------------------------------------------

\* What a call reported to its caller is in the table, and so survives a
\* restart, whatever other calls on the same task were torn in between.
AckedIsDurable == db = acked

\* Each key leads to one task, the one that carries it and the one enqueue
\* returned for it, before and after restarts: enqueueing a key again never
\* creates a second task.
KeyLeadsToItsTask ==
    \A k \in Keys :
        /\ \A t \in TaskIds : /\ up => (index[k] = t <=> mem[t].key = k)
                             /\ dbIndex[k] = t <=> db[t].key = k
        /\ returned[k] # NULL => dbIndex[k] = returned[k]

\* A RUNNING task whose worker is gone (its process died, or its claim was
\* torn) does not stay RUNNING: the watchdog gets to it, also after restarts.
OrphansTimeOut ==
    \A t \in TaskIds : db[t].status = "RUNNING" ~> db[t].status # "RUNNING"

\* The stored tasks go through the promised life cycle.
Lifecycle == INSTANCE TaskLifecycle WITH
    task <- [t \in TaskIds |-> [status |-> db[t].status,
                               holder |-> db[t].lockedBy,
                               attempts |-> db[t].attempts]]
FollowsLifecycle == Lifecycle!Spec
=============================================================================
