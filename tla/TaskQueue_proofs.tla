-------------------------- MODULE TaskQueue_proofs --------------------------
(***************************************************************************)
(* The single-process queue, for any number of tasks, workers and keys and *)
(* any timeouts.  While only updates can be torn by a failing audit record,*)
(* the table says what the callers were told and a key leads to its task;  *)
(* when nothing is torn, the stored tasks follow the life cycle.           *)
(***************************************************************************)
EXTENDS TaskQueue, FiniteSetTheorems, SequenceTheorems, TLAPS

\* The type invariant.
TypeOK ==
    /\ up \in BOOLEAN
    /\ mem \in [TaskIds -> Row]
    /\ order \in Seq(TaskIds)
    /\ index \in [Keys -> TaskIds \cup {NULL}]
    /\ db \in [TaskIds -> Row]
    /\ dbIndex \in [Keys -> TaskIds \cup {NULL}]
    /\ now \in Nat
    /\ returned \in [Keys -> TaskIds \cup {NULL}]

\* A task is locked exactly while it is RUNNING, and what was not enqueued has
\* no key and was not claimed.
RowInv(row) ==
    /\ row.status = "RUNNING" <=> row.lockedBy # NULL
    /\ row.status = "ABSENT" => row.key = NULL /\ row.attempts = 0

RowsInv == \A t \in TaskIds : RowInv(mem[t]) /\ RowInv(db[t])

\* While the process lives, memory and table know the same tasks, with the same
\* keys, and the same index, however far a torn update has led them apart.
MirrorInv ==
    up => /\ index = dbIndex
          /\ \A t \in TaskIds : /\ mem[t].status = "ABSENT" <=> db[t].status = "ABSENT"
                               /\ mem[t].key = db[t].key

\* The table idempotency and the keys of the table tasks say the same.
IndexInv ==
    \A k \in Keys :
        /\ \A t \in TaskIds : dbIndex[k] = t <=> db[t].key = k
        /\ returned[k] # NULL => dbIndex[k] = returned[k]

\* The inductive invariant, when enqueue is not torn.
Inv == TypeOK /\ RowsInv /\ MirrorInv /\ IndexInv /\ AckedIsDurable

\* What is added when nothing is torn.
InStep == up => mem = db

\* What a row shows of its task in the life cycle.
View(row) == [status |-> row.status, holder |-> row.lockedBy, attempts |-> row.attempts]

\* A change of a known task that the life cycle allows and that keeps its key.
Legal(t, row) ==
    /\ Known(t)
    /\ RowInv(row)
    /\ row.status # "ABSENT"
    /\ row.key = mem[t].key
    /\ View(row) \in Lifecycle!Changes(View(mem[t])) \cup {View(mem[t])}

-----------------------------------------------------------------------------
\* Claiming a QUEUED task is a legal change of it.
LEMMA ClaimIsLegal ==
    ASSUME TypeOK, NEW t \in TaskIds, NEW w \in Workers, mem[t].status = "QUEUED", NEW row,
           row = [mem[t] EXCEPT !.status = "RUNNING", !.lockedBy = w, !.attempts = @ + 1,
                                !.startedAt = now, !.lastHeartbeatAt = now]
    PROVE  row \in Row /\ Legal(t, row)
<1> DEFINE q == mem[t]
<1>1. q \in Row /\ now \in Nat /\ q.status = "QUEUED"
  BY DEF TypeOK
<1>2. /\ row \in Row
      /\ row.status = "RUNNING" /\ row.lockedBy = w /\ row.key = q.key
      /\ row.attempts = q.attempts + 1
  <2> DEFINE n == q.attempts + 1
  <2>1. n \in Nat
    BY <1>1 DEF Row
  <2>2. row = [q EXCEPT !.status = "RUNNING", !.lockedBy = w, !.attempts = n,
                        !.startedAt = now, !.lastHeartbeatAt = now]
    OBVIOUS
  <2> HIDE DEF n, q
  <2>3. /\ row \in Row
        /\ row.status = "RUNNING" /\ row.lockedBy = w /\ row.key = q.key
        /\ row.attempts = n
    BY <1>1, <2>1, <2>2 DEF Row
  <2> QED
    BY <2>3 DEF n
<1>3. w # NULL
  BY TaskQueueAssumption
<1>4. View(row) \in Lifecycle!Changes(View(q))
  <2>1. View(row) = [status |-> "RUNNING", holder |-> w, attempts |-> q.attempts + 1]
    BY <1>2 DEF View
  <2> HIDE DEF q
  <2> QED
    BY <1>1, <2>1 DEF View, Lifecycle!Changes
<1> QED
  BY <1>1, <1>2, <1>3, <1>4 DEF Legal, Known, RowInv

\* claim changes one task, legally.
LEMMA ClaimIsUpdate ==
    ASSUME TypeOK, NEW w \in Workers, claim(w)
    PROVE  \E t \in TaskIds, row \in Row : Legal(t, row) /\ Update(t, row)
<1> DEFINE Claimed(t) == [mem[t] EXCEPT !.status = "RUNNING", !.lockedBy = w,
                                        !.attempts = @ + 1,
                                        !.startedAt = now, !.lastHeartbeatAt = now]
<1>1. PICK j \in 1 .. Len(order) :
        mem[order[j]].status = "QUEUED" /\ Update(order[j], Claimed(order[j]))
  BY DEF claim
<1>2. order[j] \in TaskIds
  BY ElementOfSeq DEF TypeOK
<1>3. Claimed(order[j]) \in Row /\ Legal(order[j], Claimed(order[j]))
  BY <1>1, <1>2, ClaimIsLegal
<1> HIDE DEF Claimed
<1> QED
  BY <1>1, <1>2, <1>3

\* The operations of a task's holder, of the operator and cancel change one
\* task, legally.
LEMMA CallIsUpdate ==
    ASSUME TypeOK, RowsInv, NEW t \in TaskIds,
           \/ \E w \in Workers : \/ heartbeat(t, w) \/ complete(t, w) \/ fail(t, w)
                                 \/ retry(t, w) \/ pause(t, w)
           \/ cancel(t) \/ resume(t)
    PROVE  \E row \in Row : Legal(t, row) /\ Update(t, row)
<1> DEFINE q == mem[t]
<1>0. q \in Row /\ RowInv(q) /\ now \in Nat
  BY DEF TypeOK, RowsInv
<1> USE TaskQueueAssumption
<1>1. ASSUME NEW row \in Row, row.status # "ABSENT", row.key = q.key,
             row.attempts = q.attempts, row.lockedBy = NULL, row.status # "RUNNING",
             \/ q.status = "RUNNING" /\ row.status \in {"QUEUED", "PAUSED", "SUCCEEDED",
                                                        "FAILED", "CANCELLED"}
             \/ q.status = "PAUSED" /\ row.status = "QUEUED"
             \/ q.status # "ABSENT" /\ row.status = "CANCELLED"
      PROVE  Legal(t, row)
  <2>1. View(row) = Lifecycle!To(View(q), row.status)
    BY <1>1 DEF View, Lifecycle!To
  <2>2. View(q).status = q.status
    BY DEF View
  <2> DEFINE v == View(q)
  <2> HIDE DEF v
  <2>3. v.status = q.status /\ v = View(q)
    BY <2>2 DEF v
  <2>4. Lifecycle!To(v, row.status) \in Lifecycle!Changes(v)
    BY <1>1, <2>3 DEF Lifecycle!Changes
  <2> QED
    BY <1>1, <2>1, <2>3, <2>4 DEF Legal, Known, RowInv
<1>2. ASSUME NEW w \in Workers, heartbeat(t, w)
      PROVE  \E row \in Row : Legal(t, row) /\ Update(t, row)
  <2> DEFINE row == [q EXCEPT !.lastHeartbeatAt = now]
  <2>1. row \in Row /\ row.status = q.status /\ row.key = q.key
        /\ row.attempts = q.attempts /\ row.lockedBy = q.lockedBy
    BY <1>0 DEF Row
  <2>2. Update(t, row) /\ q.status = "RUNNING"
    BY <1>2 DEF heartbeat, Holds
  <2> HIDE DEF row
  <2>3. Legal(t, row)
    BY <1>0, <2>1, <2>2 DEF Legal, Known, RowInv, View
  <2> QED
    BY <2>1, <2>2, <2>3
<1>3. ASSUME NEW w \in Workers, NEW st \in {"SUCCEEDED", "FAILED"}, finish(t, w, st)
      PROVE  \E row \in Row : Legal(t, row) /\ Update(t, row)
  <2> DEFINE row == [q EXCEPT !.status = st, !.finishedAt = now, !.lockedBy = NULL]
  <2>1. row \in Row /\ row.status = st /\ row.key = q.key
        /\ row.attempts = q.attempts /\ row.lockedBy = NULL
    BY <1>0 DEF Row, Terminal
  <2>2. Update(t, row) /\ q.status = "RUNNING"
    BY <1>3 DEF finish, Holds
  <2> HIDE DEF row
  <2> QED
    BY <1>1, <2>1, <2>2
<1>4. ASSUME NEW w \in Workers, retry(t, w)
      PROVE  \E row \in Row : Legal(t, row) /\ Update(t, row)
  <2> DEFINE row == [q EXCEPT !.status = "QUEUED", !.lockedBy = NULL, !.startedAt = NULL,
                              !.lastHeartbeatAt = NULL, !.finishedAt = NULL]
  <2>1. row \in Row /\ row.status = "QUEUED" /\ row.key = q.key
        /\ row.attempts = q.attempts /\ row.lockedBy = NULL
    BY <1>0 DEF Row
  <2>2. Update(t, row) /\ q.status = "RUNNING"
    BY <1>4 DEF retry, Holds
  <2> HIDE DEF row
  <2> QED
    BY <1>1, <2>1, <2>2
<1>5. ASSUME NEW w \in Workers, pause(t, w)
      PROVE  \E row \in Row : Legal(t, row) /\ Update(t, row)
  <2> DEFINE row == [q EXCEPT !.status = "PAUSED", !.lockedBy = NULL]
  <2>1. row \in Row /\ row.status = "PAUSED" /\ row.key = q.key
        /\ row.attempts = q.attempts /\ row.lockedBy = NULL
    BY <1>0 DEF Row
  <2>2. Update(t, row) /\ q.status = "RUNNING"
    BY <1>5 DEF pause, Holds
  <2> HIDE DEF row
  <2> QED
    BY <1>1, <2>1, <2>2
<1>6. ASSUME cancel(t)
      PROVE  \E row \in Row : Legal(t, row) /\ Update(t, row)
  <2> DEFINE row == [q EXCEPT !.status = "CANCELLED", !.finishedAt = now, !.lockedBy = NULL]
  <2>1. row \in Row /\ row.status = "CANCELLED" /\ row.key = q.key
        /\ row.attempts = q.attempts /\ row.lockedBy = NULL
    BY <1>0 DEF Row, Terminal
  <2>2. Update(t, row) /\ q.status # "ABSENT"
    BY <1>6 DEF cancel, Known
  <2> HIDE DEF row
  <2> QED
    BY <1>1, <2>1, <2>2
<1>7. ASSUME resume(t)
      PROVE  \E row \in Row : Legal(t, row) /\ Update(t, row)
  <2> DEFINE row == [q EXCEPT !.status = "QUEUED"]
  <2>1. Update(t, row) /\ q.status = "PAUSED"
    BY <1>7 DEF resume
  <2>2. row \in Row /\ row.status = "QUEUED" /\ row.key = q.key
        /\ row.attempts = q.attempts /\ row.lockedBy = NULL
    BY <1>0, <2>1 DEF Row, RowInv
  <2> HIDE DEF row
  <2> QED
    BY <1>1, <2>1, <2>2
<1> QED
  BY <1>2, <1>3, <1>4, <1>5, <1>6, <1>7 DEF complete, fail

\* The row that the watchdog writes.
LEMMA TimedOutRow ==
    ASSUME NEW q \in Row, now \in Nat
    PROVE  /\ TimedOut(q) \in Row
           /\ TimedOut(q).status = "TIMED_OUT" /\ TimedOut(q).lockedBy = NULL
           /\ TimedOut(q).key = q.key /\ TimedOut(q).attempts = q.attempts
  BY TaskQueueAssumption DEF TimedOut, Row, Terminal

\* Watchdog.check leaves every task as it was or timed out, in memory, in the
\* table and towards the operator alike.
LEMMA CheckRows ==
    ASSUME TypeOK, NEW n \in 1 .. Len(order), check(n)
    PROVE  /\ up /\ up' = up /\ UNCHANGED <<order, index, dbIndex, now, returned>>
           /\ \E late \in SUBSET TaskIds :
                /\ \A t \in late : mem[t].status = "RUNNING"
                /\ mem' = [t \in TaskIds |-> IF t \in late THEN TimedOut(mem[t]) ELSE mem[t]]
                /\ db' = [t \in TaskIds |->
                            IF db[t].status = "ABSENT" THEN db[t]
                            ELSE IF t \in late THEN TimedOut(mem[t]) ELSE db[t]]
                /\ acked' = [t \in TaskIds |->
                               IF t \in late THEN TimedOut(mem[t]) ELSE acked[t]]
<1> DEFINE late == {t \in TaskIds : /\ mem[t].status = "RUNNING" /\ Overdue(mem[t])
                                    /\ \E j \in 1 .. n : order[j] = t}
<1>1. late \in SUBSET TaskIds /\ \A t \in late : mem[t].status = "RUNNING"
  OBVIOUS
<1>2. /\ up /\ UNCHANGED <<up, order, index, dbIndex, now, returned>>
      /\ mem' = [t \in TaskIds |-> IF t \in late THEN TimedOut(mem[t]) ELSE mem[t]]
      /\ acked' = [t \in TaskIds |-> IF t \in late THEN TimedOut(mem[t]) ELSE acked[t]]
  BY DEF check
<1>3. db' = [t \in TaskIds |-> IF db[t].status = "ABSENT" THEN db[t]
                               ELSE IF t \in late THEN TimedOut(mem[t]) ELSE db[t]]
  BY DEF check
<1> HIDE DEF late
<1> QED
  BY <1>1, <1>2, <1>3

-----------------------------------------------------------------------------
\* An empty process with empty tables.
LEMMA InitInv == Init => Inv /\ InStep
<1> SUFFICES ASSUME Init PROVE Inv /\ InStep
  OBVIOUS
<1> USE TaskQueueAssumption DEF Init
<1>1. NoRow \in Row /\ RowInv(NoRow) /\ NoRow.key = NULL
  BY DEF NoRow, Row, RowInv
<1>2. TypeOK
  BY <1>1, EmptySeq DEF TypeOK
<1>3. RowsInv /\ IndexInv
  <2> HIDE DEF NoRow
  <2> QED
    BY <1>1 DEF RowsInv, IndexInv
<1>4. MirrorInv /\ AckedIsDurable /\ InStep
  BY DEF MirrorInv, AckedIsDurable, InStep
<1> QED
  BY <1>2, <1>3, <1>4 DEF Inv

\* A legal change of one task, torn or not.
LEMMA UpdateInv ==
    ASSUME Inv, NEW t \in TaskIds, NEW row \in Row, Legal(t, row), Update(t, row)
    PROVE  Inv'
<1> USE TaskQueueAssumption
<1>1. /\ up /\ UNCHANGED <<up, order, index, dbIndex, now, returned>>
      /\ mem' = [mem EXCEPT ![t] = row]
  BY DEF Update
<1>2. db[t].status # "ABSENT" /\ db[t].key = row.key
  BY <1>1 DEF Inv, MirrorInv, Legal, Known
<1>3. \/ db' = [db EXCEPT ![t] = row] /\ acked' = [acked EXCEPT ![t] = row]
      \/ UNCHANGED <<db, acked>>
  BY <1>2 DEF Update, PersistUpdate
<1>4. TypeOK'
  BY <1>1, <1>3 DEF Inv, TypeOK
<1>5. RowsInv'
  BY <1>1, <1>3 DEF Inv, TypeOK, RowsInv, Legal
<1>6. AckedIsDurable'
  BY <1>3 DEF Inv, AckedIsDurable
<1>7. \A u \in TaskIds : /\ db'[u].key = db[u].key
                         /\ db'[u].status = "ABSENT" <=> db[u].status = "ABSENT"
                         /\ mem'[u].key = mem[u].key
                         /\ mem'[u].status = "ABSENT" <=> mem[u].status = "ABSENT"
  BY <1>1, <1>2, <1>3 DEF Inv, TypeOK, Legal, Known
<1>8. MirrorInv' /\ IndexInv'
  BY <1>1, <1>7 DEF Inv, MirrorInv, IndexInv
<1> QED
  BY <1>4, <1>5, <1>6, <1>8 DEF Inv

\* enqueue of a new task writes memory, both tables and the answer.
LEMMA EnqueueInv ==
    ASSUME Inv, "enqueue" \notin Torn, NEW t \in TaskIds, NEW k \in Keys \cup {NULL},
           enqueueNew(t, k)
    PROVE  Inv' /\ (InStep => InStep')
<1> USE TaskQueueAssumption
<1> DEFINE row == [NoRow EXCEPT !.status = "QUEUED", !.key = k, !.enqueuedAt = now]
<1>1. row \in Row /\ row.key = k /\ row.status = "QUEUED" /\ RowInv(row)
  <2>1. now \in Nat /\ NoRow \in Row /\ NoRow.lockedBy = NULL
    BY DEF Inv, TypeOK, NoRow, Row
  <2> QED
    BY <2>1 DEF Row, RowInv
<1>2. /\ up /\ mem[t].status = "ABSENT" /\ db[t].status = "ABSENT"
      /\ k # NULL => index[k] = NULL
      /\ mem' = [mem EXCEPT ![t] = row]
      /\ order' = Append(order, t)
      /\ index' = IF k = NULL THEN index ELSE [index EXCEPT ![k] = t]
      /\ db' = [db EXCEPT ![t] = row]
      /\ dbIndex' = IF k = NULL THEN dbIndex ELSE [dbIndex EXCEPT ![k] = t]
      /\ acked' = [acked EXCEPT ![t] = row]
      /\ returned' = IF k = NULL THEN returned ELSE [returned EXCEPT ![k] = t]
      /\ UNCHANGED <<up, now>>
  BY DEF enqueueNew, Known
<1> HIDE DEF row
<1>3. TypeOK'
  <2>1. order' \in Seq(TaskIds)
    BY <1>2, AppendProperties DEF Inv, TypeOK
  <2>2. mem' \in [TaskIds -> Row] /\ db' \in [TaskIds -> Row]
    BY <1>1, <1>2 DEF Inv, TypeOK
  <2>3. /\ index' \in [Keys -> TaskIds \cup {NULL}]
        /\ dbIndex' \in [Keys -> TaskIds \cup {NULL}]
        /\ returned' \in [Keys -> TaskIds \cup {NULL}]
    BY <1>2 DEF Inv, TypeOK
  <2>4. up' \in BOOLEAN /\ now' \in Nat
    BY <1>2 DEF Inv, TypeOK
  <2> QED
    BY <2>1, <2>2, <2>3, <2>4 DEF TypeOK
<1>4. RowsInv' /\ AckedIsDurable'
  BY <1>1, <1>2 DEF Inv, TypeOK, RowsInv, AckedIsDurable
<1>5. MirrorInv'
  BY <1>1, <1>2 DEF Inv, TypeOK, MirrorInv
<1>6. IndexInv'
  <2> SUFFICES ASSUME NEW j \in Keys
               PROVE  /\ \A u \in TaskIds : dbIndex'[j] = u <=> db'[u].key = j
                      /\ returned'[j] # NULL => dbIndex'[j] = returned'[j]
    BY DEF IndexInv
  <2>1. db[t].key = NULL
    BY <1>2 DEF Inv, RowsInv, RowInv
  <2>2. \A u \in TaskIds : dbIndex[j] = u <=> db[u].key = j
    BY DEF Inv, IndexInv
  <2>3. returned[j] # NULL => dbIndex[j] = returned[j]
    BY DEF Inv, IndexInv
  <2>4. \A u \in TaskIds : u # t => db'[u] = db[u]
    BY <1>2 DEF Inv, TypeOK
  <2>5. db'[t].key = k
    BY <1>1, <1>2 DEF Inv, TypeOK
  <2>6. CASE j = k
    <3>1. dbIndex[k] = NULL /\ dbIndex'[k] = t /\ returned'[k] = t
      BY <1>2, <2>6 DEF Inv, TypeOK, MirrorInv
    <3> QED
      BY <2>2, <2>4, <2>5, <2>6, <3>1
  <2>7. CASE j # k
    <3>1. dbIndex'[j] = dbIndex[j] /\ returned'[j] = returned[j]
      BY <1>2, <2>7 DEF Inv, TypeOK
    <3> QED
      BY <2>1, <2>2, <2>3, <2>4, <2>5, <2>7, <3>1
  <2> QED
    BY <2>6, <2>7
<1>7. InStep => InStep'
  BY <1>2 DEF Inv, InStep
<1> QED
  BY <1>3, <1>4, <1>5, <1>6, <1>7 DEF Inv

\* The other steps: a known key, the watchdog, a crash, a reload, the clock.
LEMMA OtherInv ==
    ASSUME Inv,
           \/ \E k \in Keys : enqueueDuplicate(k)
           \/ \E n \in 1 .. Len(order) : check(n)
           \/ Crash \/ LoadTasks \/ Tick
    PROVE  Inv' /\ (InStep => InStep')
<1> USE TaskQueueAssumption
<1>1. ASSUME NEW k \in Keys, enqueueDuplicate(k) PROVE Inv' /\ (InStep => InStep')
  BY <1>1 DEF enqueueDuplicate, Inv, TypeOK, RowsInv, MirrorInv, IndexInv, AckedIsDurable,
              InStep
<1>2. ASSUME NEW n \in 1 .. Len(order), check(n) PROVE Inv' /\ (InStep => InStep')
  <2>0. TypeOK /\ now \in Nat
    BY DEF Inv, TypeOK
  <2>1. PICK late \in SUBSET TaskIds :
          /\ \A t \in late : mem[t].status = "RUNNING"
          /\ mem' = [t \in TaskIds |-> IF t \in late THEN TimedOut(mem[t]) ELSE mem[t]]
          /\ db' = [t \in TaskIds |->
                      IF db[t].status = "ABSENT" THEN db[t]
                      ELSE IF t \in late THEN TimedOut(mem[t]) ELSE db[t]]
          /\ acked' = [t \in TaskIds |->
                         IF t \in late THEN TimedOut(mem[t]) ELSE acked[t]]
    BY <1>2, <2>0, CheckRows
  <2>2. up /\ up' = up /\ UNCHANGED <<order, index, dbIndex, now, returned>>
    BY <1>2, <2>0, CheckRows
  <2>3. \A t \in late :
          /\ db[t].status # "ABSENT" /\ mem[t].key = db[t].key
          /\ TimedOut(mem[t]) \in Row /\ RowInv(TimedOut(mem[t]))
          /\ TimedOut(mem[t]).key = mem[t].key
          /\ TimedOut(mem[t]).status = "TIMED_OUT"
    <3> SUFFICES ASSUME NEW t \in late
                 PROVE  /\ db[t].status # "ABSENT" /\ mem[t].key = db[t].key
                        /\ TimedOut(mem[t]) \in Row /\ RowInv(TimedOut(mem[t]))
                        /\ TimedOut(mem[t]).key = mem[t].key
                        /\ TimedOut(mem[t]).status = "TIMED_OUT"
      OBVIOUS
    <3>1. mem[t] \in Row /\ mem[t].status = "RUNNING"
      BY <2>0, <2>1 DEF TypeOK
    <3>2. db[t].status # "ABSENT" /\ mem[t].key = db[t].key
      BY <2>2, <3>1 DEF Inv, MirrorInv
    <3> QED
      BY <2>0, <3>1, <3>2, TimedOutRow DEF RowInv
  <2>4. \A t \in TaskIds :
          /\ t \in late => mem'[t] = TimedOut(mem[t]) /\ db'[t] = TimedOut(mem[t])
          /\ t \notin late => mem'[t] = mem[t] /\ db'[t] = db[t]
    BY <2>1, <2>3
  <2>5. TypeOK'
    <3>1. mem' \in [TaskIds -> Row] /\ db' \in [TaskIds -> Row]
      BY <2>0, <2>1, <2>3, <2>4 DEF TypeOK
    <3> QED
      BY <2>0, <2>2, <3>1 DEF TypeOK
  <2>6. RowsInv'
    BY <2>3, <2>4 DEF Inv, RowsInv
  <2>7. MirrorInv'
    BY <2>2, <2>3, <2>4 DEF Inv, MirrorInv
  <2>8. IndexInv'
    BY <2>2, <2>3, <2>4 DEF Inv, IndexInv
  <2>9. AckedIsDurable'
    <3>1. db = acked
      BY DEF Inv, AckedIsDurable
    <3> QED
      BY <2>1, <2>3, <3>1 DEF AckedIsDurable
  <2>10. InStep => InStep'
    <3>1. db \in [TaskIds -> Row]
      BY <2>0 DEF TypeOK
    <3> QED
      BY <2>1, <2>2, <2>3, <3>1 DEF InStep
  <2> QED
    BY <2>5, <2>6, <2>7, <2>8, <2>9, <2>10 DEF Inv
<1>3. ASSUME Crash PROVE Inv' /\ (InStep => InStep')
  <2>1. NoRow \in Row /\ RowInv(NoRow)
    BY DEF NoRow, Row, RowInv
  <2>2. /\ up' = FALSE /\ mem' = [t \in TaskIds |-> NoRow] /\ order' = <<>>
        /\ index' = [k \in Keys |-> NULL]
        /\ UNCHANGED <<db, dbIndex, now, acked, returned>>
    BY <1>3 DEF Crash
  <2> HIDE DEF NoRow
  <2>3. TypeOK'
    BY <2>1, <2>2, EmptySeq DEF Inv, TypeOK
  <2>4. RowsInv'
    BY <2>1, <2>2 DEF Inv, RowsInv
  <2>5. MirrorInv' /\ InStep'
    BY <2>2 DEF MirrorInv, InStep
  <2>6. IndexInv' /\ AckedIsDurable'
    BY <2>2 DEF Inv, IndexInv, AckedIsDurable
  <2> QED
    BY <2>3, <2>4, <2>5, <2>6 DEF Inv
<1>4. ASSUME LoadTasks PROVE Inv' /\ (InStep => InStep')
  <2>1. order' \in Seq(TaskIds)
    <3> DEFINE S == {t \in TaskIds : db[t].status # "ABSENT"}
    <3>1. IsFiniteSet(S) /\ S \subseteq TaskIds
      BY FS_Subset
    <3>2. order' \in SetToSeqs(S)
      BY <1>4 DEF LoadTasks
    <3> HIDE DEF S
    <3>3. Cardinality(S) \in Nat
      BY <3>1, FS_CardinalityType
    <3>4. order' \in [1 .. Cardinality(S) -> TaskIds]
      BY <3>1, <3>2 DEF SetToSeqs
    <3> QED
      BY <3>3, <3>4
  <2> QED
    BY <1>4, <2>1 DEF LoadTasks, Inv, TypeOK, RowsInv, MirrorInv, IndexInv,
                      AckedIsDurable, InStep
<1>5. ASSUME Tick PROVE Inv' /\ (InStep => InStep')
  BY <1>5 DEF Tick, Inv, TypeOK, RowsInv, MirrorInv, IndexInv, AckedIsDurable, InStep
<1> QED
  BY <1>1, <1>2, <1>3, <1>4, <1>5

\* The invariant is inductive when enqueue is not torn.
LEMMA NextInv ==
    ASSUME Inv, "enqueue" \notin Torn, [Next]_vars
    PROVE  Inv'
<1>1. ASSUME NEW t \in TaskIds, NEW k \in Keys \cup {NULL}, enqueueNew(t, k) PROVE Inv'
  BY <1>1, EnqueueInv
<1>2. ASSUME NEW t \in TaskIds,
             \/ \E w \in Workers : \/ heartbeat(t, w) \/ complete(t, w) \/ fail(t, w)
                                   \/ retry(t, w) \/ pause(t, w)
             \/ cancel(t) \/ resume(t)
      PROVE  Inv'
  <2>1. TypeOK /\ RowsInv
    BY DEF Inv
  <2>2. PICK row \in Row : Legal(t, row) /\ Update(t, row)
    BY <1>2, <2>1, CallIsUpdate
  <2> QED
    BY <2>2, UpdateInv
<1>3. ASSUME NEW w \in Workers, claim(w) PROVE Inv'
  <2>1. TypeOK
    BY DEF Inv
  <2>2. PICK t \in TaskIds, row \in Row : Legal(t, row) /\ Update(t, row)
    BY <1>3, <2>1, ClaimIsUpdate
  <2> QED
    BY <2>2, UpdateInv
<1>4. ASSUME \/ \E k \in Keys : enqueueDuplicate(k)
             \/ \E n \in 1 .. Len(order) : check(n)
             \/ Crash \/ LoadTasks \/ Tick
      PROVE  Inv'
  BY <1>4, OtherInv
<1>5. ASSUME UNCHANGED vars PROVE Inv'
  BY <1>5 DEF vars, Inv, TypeOK, RowsInv, MirrorInv, IndexInv, AckedIsDurable
<1> QED
  BY <1>1, <1>2, <1>3, <1>4, <1>5 DEF Next

\* While no record of an enqueue fails, the inductive invariant holds, whatever
\* updates are torn and however often the process dies.
THEOREM Invariance ==
    ASSUME "enqueue" \notin Torn
    PROVE  Spec => []Inv
<1>1. Init => Inv
  BY InitInv
<1>2. Inv /\ [Next]_vars => Inv'
  BY NextInv
<1> QED
  BY <1>1, <1>2, PTL DEF Spec

\* What a call reported is in the table, across torn updates and restarts.
THEOREM AckedSurvives ==
    ASSUME "enqueue" \notin Torn
    PROVE  Spec => []AckedIsDurable
<1>1. Inv => AckedIsDurable
  BY DEF Inv
<1> QED
  BY <1>1, Invariance, PTL

\* A key leads to one task, the one enqueue returned for it, across restarts.
THEOREM KeysLeadToTasks ==
    ASSUME "enqueue" \notin Torn
    PROVE  Spec => []KeyLeadsToItsTask
<1>1. Inv => KeyLeadsToItsTask
  BY DEF Inv, MirrorInv, IndexInv, KeyLeadsToItsTask
<1> QED
  BY <1>1, Invariance, PTL

-----------------------------------------------------------------------------
\* When nothing is torn, a legal change of one task reaches the table.
LEMMA UpdateInStep ==
    ASSUME Inv, InStep, Torn = {}, NEW t \in TaskIds, NEW row \in Row,
           Legal(t, row), Update(t, row)
    PROVE  /\ db' = [db EXCEPT ![t] = row]
           /\ View(row) \in Lifecycle!Changes(View(db[t])) \cup {View(db[t])}
           /\ InStep'
<1>1. up /\ mem = db /\ up' = up /\ mem' = [mem EXCEPT ![t] = row]
  BY DEF Update, InStep
<1>2. db[t].status # "ABSENT"
  BY <1>1 DEF Legal, Known
<1>3. db' = [db EXCEPT ![t] = row]
  BY <1>2 DEF Update, PersistUpdate
<1> QED
  BY <1>1, <1>3 DEF Legal, InStep

\* A step is one of the life cycle when every stored task changes as it allows.
LEMMA LifecycleStep ==
    ASSUME \A t \in TaskIds : View(db'[t]) \in Lifecycle!Changes(View(db[t]))
                                                 \cup {View(db[t])}
    PROVE  Lifecycle!Next
  BY DEF Lifecycle!Next, View

\* The same for a step that rewrites one stored task.
LEMMA LifecycleRow ==
    ASSUME TypeOK, NEW t \in TaskIds, NEW row,
           db' = [db EXCEPT ![t] = row],
           View(row) \in Lifecycle!Changes(View(db[t])) \cup {View(db[t])}
    PROVE  Lifecycle!Next
<1>1. ASSUME NEW u \in TaskIds
      PROVE  View(db'[u]) \in Lifecycle!Changes(View(db[u])) \cup {View(db[u])}
  <2>1. CASE u = t
    BY <2>1 DEF TypeOK
  <2>2. CASE u # t
    BY <2>2 DEF TypeOK
  <2> QED
    BY <2>1, <2>2
<1> QED
  BY <1>1, LifecycleStep

\* When nothing is torn, memory and table stay in step and every step is one of
\* the life cycle.
LEMMA NextIsLifecycle ==
    ASSUME Inv, InStep, Torn = {}, [Next]_vars
    PROVE  InStep' /\ Lifecycle!Next
<1> USE TaskQueueAssumption
<1>0. TypeOK /\ RowsInv /\ "enqueue" \notin Torn
  BY DEF Inv
<1>1. ASSUME UNCHANGED db PROVE Lifecycle!Next
  BY <1>1, LifecycleStep
<1>2. ASSUME NEW t \in TaskIds, NEW k \in Keys \cup {NULL}, enqueueNew(t, k)
      PROVE  InStep' /\ Lifecycle!Next
  <2> DEFINE row == [NoRow EXCEPT !.status = "QUEUED", !.key = k, !.enqueuedAt = now]
  <2>1. row.status = "QUEUED" /\ row.lockedBy = NULL /\ row.attempts = 0
    <3>1. NoRow \in Row /\ NoRow.lockedBy = NULL /\ NoRow.attempts = 0
      BY DEF NoRow, Row
    <3> QED
      BY <3>1 DEF Row
  <2>2. db[t].status = "ABSENT" /\ db[t].attempts = 0
    BY <1>0, <1>2 DEF enqueueNew, RowsInv, RowInv
  <2>3. View(row) = Lifecycle!To(View(db[t]), "QUEUED")
    BY <2>1, <2>2 DEF View, Lifecycle!To
  <2>4. db' = [db EXCEPT ![t] = row]
    BY <1>0, <1>2 DEF enqueueNew
  <2> HIDE DEF row
  <2>5. View(row) \in Lifecycle!Changes(View(db[t]))
    BY <2>2, <2>3 DEF View, Lifecycle!Changes
  <2>6. InStep'
    BY <1>0, <1>2, EnqueueInv
  <2> QED
    BY <1>0, <2>4, <2>5, <2>6, LifecycleRow
<1>3. ASSUME NEW t \in TaskIds, NEW row \in Row, Legal(t, row), Update(t, row)
      PROVE  InStep' /\ Lifecycle!Next
  BY <1>0, <1>3, UpdateInStep, LifecycleRow
<1>4. ASSUME NEW t \in TaskIds,
             \/ \E w \in Workers : \/ heartbeat(t, w) \/ complete(t, w) \/ fail(t, w)
                                   \/ retry(t, w) \/ pause(t, w)
             \/ cancel(t) \/ resume(t)
      PROVE  InStep' /\ Lifecycle!Next
  BY <1>0, <1>3, <1>4, CallIsUpdate
<1>5. ASSUME NEW w \in Workers, claim(w) PROVE InStep' /\ Lifecycle!Next
  BY <1>0, <1>3, <1>5, ClaimIsUpdate
<1>6. ASSUME NEW n \in 1 .. Len(order), check(n) PROVE Lifecycle!Next
  <2>1. PICK late \in SUBSET TaskIds :
          /\ \A t \in late : mem[t].status = "RUNNING"
          /\ db' = [t \in TaskIds |->
                      IF db[t].status = "ABSENT" THEN db[t]
                      ELSE IF t \in late THEN TimedOut(mem[t]) ELSE db[t]]
    BY <1>0, <1>6, CheckRows
  <2>2. mem = db /\ now \in Nat
    BY <1>0, <1>6, CheckRows DEF InStep, TypeOK
  <2>3. ASSUME NEW t \in TaskIds
        PROVE  View(db'[t]) \in Lifecycle!Changes(View(db[t])) \cup {View(db[t])}
    <3>1. CASE t \notin late
      BY <2>1, <3>1
    <3>2. CASE t \in late
      <4>1. db[t] \in Row /\ db[t].status = "RUNNING" /\ db'[t] = TimedOut(db[t])
        BY <1>0, <2>1, <2>2, <3>2 DEF TypeOK
      <4>2. View(db'[t]) = Lifecycle!To(View(db[t]), "TIMED_OUT")
        BY <2>2, <4>1, TimedOutRow DEF View, Lifecycle!To
      <4> QED
        BY <4>1, <4>2 DEF View, Lifecycle!Changes
    <3> QED
      BY <3>1, <3>2
  <2> QED
    BY <2>3, LifecycleStep
<1>7. ASSUME (\E k \in Keys : enqueueDuplicate(k)) \/ Crash \/ LoadTasks \/ Tick
      PROVE  InStep' /\ Lifecycle!Next
  <2>1. UNCHANGED db
    BY <1>7 DEF enqueueDuplicate, Crash, LoadTasks, Tick
  <2> QED
    BY <1>1, <1>7, <2>1, OtherInv
<1>8. ASSUME NEW n \in 1 .. Len(order), check(n) PROVE InStep'
  BY <1>8, OtherInv
<1>9. ASSUME UNCHANGED vars PROVE InStep' /\ Lifecycle!Next
  BY <1>1, <1>9 DEF vars, InStep
<1> QED
  BY <1>2, <1>4, <1>5, <1>6, <1>7, <1>8, <1>9 DEF Next

\* The table of the single-process queue implements the life cycle of a task,
\* across crashes, reloads and watchdog scans, when no audit record fails.
THEOREM QueueImplementsLifecycle ==
    ASSUME Torn = {}
    PROVE  Spec => FollowsLifecycle
<1>1. Init => Inv /\ InStep
  BY InitInv
<1>2. Inv /\ InStep /\ [Next]_vars => Inv' /\ InStep' /\ Lifecycle!Next
  BY NextInv, NextIsLifecycle
<1>3. Init => Lifecycle!Init
  BY DEF Init, NoRow, Lifecycle!Init, Lifecycle!Absent
<1> QED
  BY <1>1, <1>2, <1>3, PTL DEF Spec, FollowsLifecycle, Lifecycle!Spec
=============================================================================
