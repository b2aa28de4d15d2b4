------------------------ MODULE PostgresFleet_proofs ------------------------
(***************************************************************************)
(* Proofs about the multi-worker queue and the runners around it, for any  *)
(* number of tasks, workers, sessions, runners and supervisors, any lease  *)
(* and any clock skew:                                                     *)
(*   - the queue's inductive invariant (types, locks, exclusive claims,    *)
(*     leases), and that the reaper never takes a task early;              *)
(*   - the table follows the life cycle of a task;                         *)
(*   - runners, supervisors and operators use the queue only as QueueSpec  *)
(*     allows, so everything proved of the queue holds of the fleet;       *)
(*   - when no two runners share a worker_id, a stale runner cannot finish *)
(*     a later attempt, and the attempts of a task stay within its budget. *)
(***************************************************************************)
EXTENDS PostgresFleet, TLAPS

-----------------------------------------------------------------------------
(* The queue.                                                               *)

\* What LockMatchesStatus and LeaseCoversRenewal say of one row.
RowInv(r, ren) ==
    /\ r.status = "RUNNING" <=> r.lockedBy # NULL
    /\ r.status = "RUNNING" <=> r.leaseExpiresAt # NULL
    /\ r.status \in Terminal <=> r.finished
    /\ r.status = "RUNNING" => r.leaseExpiresAt >= ren + LeaseSeconds - MaxSkew
    /\ r.status = "ABSENT" => r.attempts = 0

\* A task that was not enqueued was not claimed.
NoAttemptsBeforeEnqueue ==
    \A t \in TaskIds : rows[t].status = "ABSENT" => rows[t].attempts = 0

\* The inductive invariant.  Types alone do not tell that a claim commits on a
\* row that is still QUEUED, and the lease bound needs the timestamps carried
\* by the claims and reaps in flight.  The first attempt counted is the first
\* claim, which the life cycle needs of the row that enqueue replaces.
QueueInv ==
    /\ QueueTypeOK
    /\ LockMatchesStatus
    /\ ClaimsAreExclusive
    /\ LeaseCoversRenewal
    /\ NoAttemptsBeforeEnqueue

USE QueueAssumption

-----------------------------------------------------------------------------
\* The invariant holds of an empty table.
LEMMA InitInv == Init => QueueInv
<1> SUFFICES ASSUME Init PROVE QueueInv
  OBVIOUS
<1>1. NoRow \in Row
  BY DEF NoRow, Row, Status
<1>2. QueueTypeOK
  BY <1>1 DEF Init, QueueTypeOK, NoClaim
<1>3. LockMatchesStatus /\ ClaimsAreExclusive /\ LeaseCoversRenewal
      /\ NoAttemptsBeforeEnqueue
  BY DEF Init, NoRow, NoClaim, LockMatchesStatus, ClaimsAreExclusive,
         LeaseCoversRenewal, NoAttemptsBeforeEnqueue, Terminal
<1> QED
  BY <1>2, <1>3 DEF QueueInv

\* Row by row, the invariant says RowInv.
LEMMA InvGivesRowInv ==
    ASSUME QueueInv, NEW t \in TaskIds
    PROVE  rows[t] \in Row /\ RowInv(rows[t], renewed[t])
  BY DEF QueueInv, QueueTypeOK, LockMatchesStatus, LeaseCoversRenewal,
         NoAttemptsBeforeEnqueue, RowInv

\* A step that only rewrites rows keeps the invariant if every new row obeys
\* RowInv and no row selected by a claim in flight leaves QUEUED.
LEMMA RewriteRows ==
    ASSUME QueueInv,
           rows' \in [TaskIds -> Row],
           renewed' \in [TaskIds -> Int],
           \A t \in TaskIds : RowInv(rows'[t], renewed'[t]),
           \A s \in Sessions : claiming[s].task # NULL =>
                                 rows'[claiming[s].task].status = "QUEUED",
           UNCHANGED <<claiming, reaping, now>>
    PROVE  QueueInv'
<1>1. QueueTypeOK'
  BY DEF QueueInv, QueueTypeOK
<1>2. LockMatchesStatus'
  BY DEF LockMatchesStatus, RowInv
<1>3. ClaimsAreExclusive'
  BY DEF QueueInv, ClaimsAreExclusive
<1>4. LeaseCoversRenewal'
  BY DEF QueueInv, LeaseCoversRenewal, RowInv
<1>5. NoAttemptsBeforeEnqueue'
  BY DEF NoAttemptsBeforeEnqueue, RowInv
<1> QED
  BY <1>1, <1>2, <1>3, <1>4, <1>5 DEF QueueInv

\* The same for a step that rewrites one row which no claim has selected.
LEMMA RewriteRow ==
    ASSUME QueueInv, NEW t \in TaskIds, NEW r \in Row, NEW ren \in Int,
           rows' = [rows EXCEPT ![t] = r],
           renewed' = [renewed EXCEPT ![t] = ren],
           RowInv(r, ren),
           rows[t].status # "QUEUED" \/ Unlocked(t),
           UNCHANGED <<claiming, reaping, now>>
    PROVE  QueueInv'
<1>1. rows' \in [TaskIds -> Row] /\ renewed' \in [TaskIds -> Int]
  BY DEF QueueInv, QueueTypeOK
<1>2. \A u \in TaskIds : RowInv(rows'[u], renewed'[u])
  <2> TAKE u \in TaskIds
  <2>1. RowInv(rows[u], renewed[u])
    BY InvGivesRowInv
  <2>2. CASE u = t
    BY <2>2 DEF QueueInv, QueueTypeOK
  <2>3. CASE u # t
    <3>1. rows'[u] = rows[u] /\ renewed'[u] = renewed[u]
      BY <2>3 DEF QueueInv, QueueTypeOK
    <3> QED
      BY <2>1, <3>1
  <2> QED
    BY <2>2, <2>3
<1>3. \A s \in Sessions : claiming[s].task # NULL =>
                            rows'[claiming[s].task].status = "QUEUED"
  BY DEF QueueInv, QueueTypeOK, ClaimsAreExclusive, Unlocked
<1> QED
  BY <1>1, <1>2, <1>3, RewriteRows

\* What claim writes is a row of the table.
LEMMA ClaimedRow ==
    ASSUME NEW q \in Row, NEW w \in Workers, NEW exp \in Int
    PROVE  [q EXCEPT !.status = "RUNNING", !.lockedBy = w,
                     !.attempts = @ + 1, !.leaseExpiresAt = exp] \in Row
<1>1. q.attempts + 1 \in Nat
  BY DEF Row
<1> DEFINE n == q.attempts + 1
<1>2. n \in Nat
  BY <1>1
<1> HIDE DEF n
<1>3. [q EXCEPT !.status = "RUNNING", !.lockedBy = w,
                !.attempts = n, !.leaseExpiresAt = exp] \in Row
  BY <1>2 DEF Row, Status
<1> QED
  BY <1>3 DEF n

\* Every step of a client, a supervisor or the clock keeps the invariant.
LEMMA NextInv ==
    ASSUME QueueInv, [QueueNext]_qvars
    PROVE  QueueInv'
<1> USE DEF QueueInv
<1>1. ASSUME NEW t \in TaskIds, NEW k \in Keys \cup {NULL},
             NEW m \in RetryLimits, enqueue(t, k, m)
      PROVE  QueueInv'
  <2>1. PICK ts \in Clock :
          rows' = [rows EXCEPT ![t] = [NoRow EXCEPT !.status = "QUEUED",
                                                    !.key = k,
                                                    !.maxAttempts = m,
                                                    !.enqueuedAt = ts]]
    BY <1>1 DEF enqueue
  <2> DEFINE r == [NoRow EXCEPT !.status = "QUEUED", !.key = k,
                                !.maxAttempts = m, !.enqueuedAt = ts]
  <2>2. r \in Row /\ RowInv(r, renewed[t])
    <3>1. NoRow \in Row /\ NoRow.lockedBy = NULL /\ NoRow.leaseExpiresAt = NULL
          /\ NoRow.finished = FALSE
      BY DEF NoRow, Row, Status
    <3>2. ts \in Int
      BY DEF QueueTypeOK, Clock
    <3> QED
      BY <3>1, <3>2 DEF Row, Status, RowInv, Terminal
  <2>3. renewed' = [renewed EXCEPT ![t] = renewed[t]] /\ renewed[t] \in Int
    BY <1>1 DEF enqueue, QueueTypeOK
  <2>4. rows[t].status # "QUEUED"
    BY <1>1 DEF enqueue, Exists
  <2> HIDE DEF r, QueueInv
  <2> QED
    BY <1>1, <2>1, <2>2, <2>3, <2>4, RewriteRow DEF enqueue, r
<1>2. ASSUME NEW s \in Sessions, NEW w \in Workers, ClaimSelect(s, w)
      PROVE  QueueInv'
  <2>1. PICK t \in TaskIds, ts \in Clock :
          /\ rows[t].status = "QUEUED" /\ Unlocked(t)
          /\ claiming' = [claiming EXCEPT ![s] =
                            [task |-> t, worker |-> w, ts |-> ts, at |-> now]]
    BY <1>2 DEF ClaimSelect
  <2>2. UNCHANGED <<rows, reaping, now, renewed>>
    BY <1>2 DEF ClaimSelect
  <2>3. ts \in Int /\ now \in Int /\ ts >= now - MaxSkew /\ t # NULL /\ w # NULL
    BY DEF QueueTypeOK, Clock
  <2>4. QueueTypeOK'
    BY <2>1, <2>2, <2>3 DEF QueueTypeOK
  <2>5. LockMatchesStatus'
    BY <2>2 DEF LockMatchesStatus
  <2>6. ClaimsAreExclusive'
    BY <2>1, <2>2 DEF ClaimsAreExclusive, QueueTypeOK, Unlocked
  <2>7. LeaseCoversRenewal'
    BY <2>1, <2>2, <2>3 DEF LeaseCoversRenewal, QueueTypeOK
  <2>8. NoAttemptsBeforeEnqueue'
    BY <2>2 DEF NoAttemptsBeforeEnqueue
  <2> QED
    BY <2>4, <2>5, <2>6, <2>7, <2>8
<1>3. ASSUME NEW s \in Sessions, claim(s)
      PROVE  QueueInv'
  <2> DEFINE c == claiming[s]
             r == [rows[c.task] EXCEPT !.status = "RUNNING",
                                       !.lockedBy = c.worker,
                                       !.attempts = @ + 1,
                                       !.leaseExpiresAt = c.ts + LeaseSeconds]
  <2>1. /\ c.task \in TaskIds /\ c.worker \in Workers
        /\ c.ts \in Int /\ c.at \in Int /\ c.ts >= c.at - MaxSkew
        /\ rows[c.task].status = "QUEUED"
    BY <1>3 DEF claim, QueueTypeOK, ClaimsAreExclusive, LeaseCoversRenewal
  <2>2. /\ rows' = [rows EXCEPT ![c.task] = r]
        /\ renewed' = [renewed EXCEPT ![c.task] = c.at]
        /\ claiming' = [claiming EXCEPT ![s] = NoClaim]
        /\ UNCHANGED <<reaping, now>>
    BY <1>3, <2>1 DEF claim, QueueTypeOK
  <2>3. r \in Row /\ RowInv(r, c.at)
    <3>1. rows[c.task] \in Row /\ RowInv(rows[c.task], renewed[c.task])
      BY <2>1, InvGivesRowInv
    <3>2. r \in Row
      <4>1. c.ts + LeaseSeconds \in Int
        BY <2>1
      <4> HIDE DEF c
      <4> QED
        BY <2>1, <3>1, <4>1, ClaimedRow
    <3>3. RowInv(r, c.at)
      BY <2>1, <3>1 DEF Row, RowInv, Terminal
    <3> QED
      BY <3>2, <3>3
  <2>4. \A u \in TaskIds :
          /\ u = c.task => rows'[u] = r /\ renewed'[u] = c.at
          /\ u # c.task => rows'[u] = rows[u] /\ renewed'[u] = renewed[u]
    BY <2>2 DEF QueueTypeOK
  <2>5. \A u \in TaskIds : RowInv(rows'[u], renewed'[u])
    <3> TAKE u \in TaskIds
    <3>1. RowInv(rows[u], renewed[u])
      BY InvGivesRowInv
    <3>2. CASE u = c.task
      <4>1. rows'[u] = r /\ renewed'[u] = c.at
        BY <2>4, <3>2
      <4> HIDE DEF r, c
      <4> QED
        BY <4>1, <2>3
    <3>3. CASE u # c.task
      <4>1. rows'[u] = rows[u] /\ renewed'[u] = renewed[u]
        BY <2>4, <3>3
      <4> QED
        BY <4>1, <3>1
    <3> QED
      BY <3>2, <3>3
  <2>6. QueueTypeOK'
    <3>1. rows' \in [TaskIds -> Row] /\ renewed' \in [TaskIds -> Int]
      <4> HIDE DEF r
      <4> QED
        BY <2>1, <2>2, <2>3 DEF QueueTypeOK
    <3>2. claiming' \in [Sessions -> [task : TaskIds \cup {NULL},
                                      worker : Workers \cup {NULL},
                                      ts : Int, at : Int]]
      BY <2>2 DEF QueueTypeOK, NoClaim
    <3> QED
      BY <2>2, <3>1, <3>2 DEF QueueTypeOK
  <2>7. LockMatchesStatus'
    BY <2>5 DEF LockMatchesStatus, RowInv
  <2>8. ClaimsAreExclusive'
    <3> SUFFICES ASSUME NEW u \in Sessions, claiming'[u].task # NULL
                 PROVE  /\ rows'[claiming'[u].task].status = "QUEUED"
                        /\ \A v \in Sessions \ {u} :
                             claiming'[v].task # claiming'[u].task
      BY DEF ClaimsAreExclusive
    <3>1. u # s /\ claiming'[u] = claiming[u]
      BY <2>2 DEF QueueTypeOK, NoClaim
    <3>2. /\ claiming[u].task \in TaskIds
          /\ rows[claiming[u].task].status = "QUEUED"
          /\ claiming[u].task # c.task
      BY <1>3, <3>1 DEF claim, QueueTypeOK, ClaimsAreExclusive
    <3>3. rows'[claiming[u].task] = rows[claiming[u].task]
      BY <2>4, <3>2
    <3>4. \A v \in Sessions \ {u} : claiming'[v].task # claiming[u].task
      BY <2>2, <3>1 DEF QueueTypeOK, NoClaim, ClaimsAreExclusive
    <3> QED
      BY <3>1, <3>2, <3>3, <3>4
  <2>9. LeaseCoversRenewal'
    <3>1. \A t \in TaskIds : rows'[t].status = "RUNNING" =>
            rows'[t].leaseExpiresAt >= renewed'[t] + LeaseSeconds - MaxSkew
      BY <2>5 DEF RowInv
    <3>2. \A u \in Sessions :
            /\ claiming'[u].task # NULL =>
                 claiming'[u].ts >= claiming'[u].at - MaxSkew
            /\ claiming'[u].task # NULL => claiming'[u].worker # NULL
      BY <2>2 DEF QueueTypeOK, NoClaim, LeaseCoversRenewal
    <3> QED
      BY <2>2, <3>1, <3>2 DEF LeaseCoversRenewal
  <2>10. NoAttemptsBeforeEnqueue'
    BY <2>5 DEF NoAttemptsBeforeEnqueue, RowInv
  <2> QED
    BY <2>6, <2>7, <2>8, <2>9, <2>10
<1>4. ASSUME NEW s \in Sessions, Disconnect(s)
      PROVE  QueueInv'
  BY <1>4 DEF Disconnect, NoClaim, QueueTypeOK, LockMatchesStatus,
              ClaimsAreExclusive, LeaseCoversRenewal, NoAttemptsBeforeEnqueue
<1>5. ASSUME NEW t \in TaskIds, NEW w \in Workers, heartbeat(t, w)
      PROVE  QueueInv'
  <2>1. PICK ts \in Clock :
          rows' = [rows EXCEPT ![t].leaseExpiresAt = ts + LeaseSeconds]
    BY <1>5 DEF heartbeat
  <2> DEFINE r == [rows[t] EXCEPT !.leaseExpiresAt = ts + LeaseSeconds]
  <2>2. ts \in Int /\ now \in Int /\ ts >= now - MaxSkew
    BY DEF QueueTypeOK, Clock
  <2>3. r \in Row /\ RowInv(r, now)
    BY <1>5, <2>2, InvGivesRowInv DEF heartbeat, Holds, Row, RowInv
  <2>4. rows' = [rows EXCEPT ![t] = r] /\ rows[t].status = "RUNNING"
    BY <1>5, <2>1 DEF heartbeat, Holds, QueueTypeOK
  <2> HIDE DEF r, QueueInv
  <2> QED
    BY <1>5, <2>2, <2>3, <2>4, RewriteRow DEF heartbeat
<1>6. ASSUME NEW t \in TaskIds, NEW r \in Row,
             rows' = [rows EXCEPT ![t] = r], RowInv(r, renewed[t]),
             rows[t].status # "QUEUED" \/ Unlocked(t),
             UNCHANGED <<claiming, reaping, now, renewed>>
      PROVE  QueueInv'
  <2>1. renewed' = [renewed EXCEPT ![t] = renewed[t]] /\ renewed[t] \in Int
    BY <1>6 DEF QueueTypeOK
  <2> HIDE DEF QueueInv
  <2> QED
    BY <1>6, <2>1, RewriteRow
<1>7. ASSUME NEW t \in TaskIds, NEW w \in Workers,
             NEW st \in {"SUCCEEDED", "FAILED"}, finish(t, w, st)
      PROVE  QueueInv'
  <2> DEFINE r == [rows[t] EXCEPT !.status = st, !.finished = TRUE,
                                  !.lockedBy = NULL, !.leaseExpiresAt = NULL]
  <2>1. r \in Row /\ RowInv(r, renewed[t])
    BY InvGivesRowInv DEF Row, RowInv, Status, Terminal
  <2>2. rows' = [rows EXCEPT ![t] = r] /\ rows[t].status = "RUNNING"
    BY <1>7 DEF finish, Holds
  <2> HIDE DEF r
  <2> QED
    BY <1>6, <1>7, <2>1, <2>2 DEF finish
<1>8. ASSUME NEW t \in TaskIds, NEW w \in Workers, retry(t, w)
      PROVE  QueueInv'
  <2> DEFINE r == [rows[t] EXCEPT !.status = "QUEUED", !.lockedBy = NULL,
                                  !.leaseExpiresAt = NULL, !.finished = FALSE]
  <2>1. r \in Row /\ RowInv(r, renewed[t])
    BY InvGivesRowInv DEF Row, RowInv, Status, Terminal
  <2>2. rows' = [rows EXCEPT ![t] = r] /\ rows[t].status = "RUNNING"
    BY <1>8 DEF retry, Holds
  <2> HIDE DEF r
  <2> QED
    BY <1>6, <1>8, <2>1, <2>2 DEF retry
<1>9. ASSUME NEW t \in TaskIds, cancel(t)
      PROVE  QueueInv'
  <2> DEFINE r == [rows[t] EXCEPT !.status = "CANCELLED", !.finished = TRUE,
                                  !.lockedBy = NULL, !.leaseExpiresAt = NULL]
  <2>1. r \in Row /\ RowInv(r, renewed[t])
    BY InvGivesRowInv DEF Row, RowInv, Status, Terminal
  <2>2. rows' = [rows EXCEPT ![t] = r] /\ Unlocked(t)
    BY <1>9 DEF cancel
  <2> HIDE DEF r
  <2> QED
    BY <1>6, <1>9, <2>1, <2>2 DEF cancel
<1>10. ASSUME NEW t \in TaskIds, NEW w \in Workers, pause(t, w)
       PROVE  QueueInv'
  <2> DEFINE r == [rows[t] EXCEPT !.status = "PAUSED", !.lockedBy = NULL,
                                  !.leaseExpiresAt = NULL]
  <2>1. rows' = [rows EXCEPT ![t] = r] /\ rows[t].status = "RUNNING"
    BY <1>10 DEF pause, Holds
  <2>2. r \in Row /\ RowInv(r, renewed[t])
    BY <2>1, InvGivesRowInv DEF Row, RowInv, Status, Terminal
  <2> HIDE DEF r
  <2> QED
    BY <1>6, <1>10, <2>1, <2>2 DEF pause
<1>11. ASSUME NEW t \in TaskIds, resume(t)
       PROVE  QueueInv'
  <2> DEFINE r == [rows[t] EXCEPT !.status = "QUEUED"]
  <2>1. rows' = [rows EXCEPT ![t] = r] /\ rows[t].status = "PAUSED"
    BY <1>11 DEF resume
  <2>2. r \in Row /\ RowInv(r, renewed[t])
    BY <2>1, InvGivesRowInv DEF Row, RowInv, Status, Terminal
  <2> HIDE DEF r
  <2> QED
    BY <1>6, <1>11, <2>1, <2>2 DEF resume
<1>12. ASSUME \A t \in TaskIds : /\ rows'[t] \in Row
                                 /\ RowInv(rows'[t], renewed[t])
                                 /\ rows[t].status = "QUEUED" =>
                                      rows'[t].status = "QUEUED",
              rows' = [t \in TaskIds |-> rows'[t]],
              reaping' \in [Sessions -> Int \cup {NULL}],
              \A s \in Sessions : reaping'[s] # NULL =>
                                    reaping'[s] <= now + MaxSkew,
              UNCHANGED <<claiming, now, renewed>>
       PROVE  QueueInv'
  <2>1. QueueTypeOK'
    BY <1>12 DEF QueueTypeOK
  <2>2. LockMatchesStatus'
    BY <1>12 DEF LockMatchesStatus, RowInv
  <2>3. ClaimsAreExclusive'
    BY <1>12 DEF ClaimsAreExclusive, QueueTypeOK
  <2>4. LeaseCoversRenewal'
    BY <1>12 DEF LeaseCoversRenewal, RowInv
  <2>5. NoAttemptsBeforeEnqueue'
    BY <1>12 DEF NoAttemptsBeforeEnqueue, RowInv
  <2> QED
    BY <2>1, <2>2, <2>3, <2>4, <2>5
<1>13. ASSUME NEW s \in Sessions, ReapRequeue(s)
       PROVE  QueueInv'
  <2> DEFINE r(t) == [rows[t] EXCEPT !.status = "QUEUED", !.lockedBy = NULL,
                                     !.leaseExpiresAt = NULL]
  <2>1. PICK ts \in Clock :
          /\ reaping' = [reaping EXCEPT ![s] = ts]
          /\ rows' = [t \in TaskIds |->
               IF Expired(t, ts) /\ rows[t].attempts < rows[t].maxAttempts
               THEN r(t) ELSE rows[t]]
    BY <1>13 DEF ReapRequeue
  <2>2. ts \in Int /\ ts <= now + MaxSkew
    BY DEF QueueTypeOK, Clock
  <2>3. ASSUME NEW t \in TaskIds
        PROVE  /\ rows'[t] \in Row /\ RowInv(rows'[t], renewed[t])
               /\ rows[t].status = "QUEUED" => rows'[t].status = "QUEUED"
    <3>1. rows[t].status = "RUNNING" => r(t) \in Row /\ RowInv(r(t), renewed[t])
      BY InvGivesRowInv DEF Row, RowInv, Status, Terminal
    <3>2. \/ rows[t].status = "RUNNING" /\ rows'[t] = r(t)
          \/ rows'[t] = rows[t]
      BY <2>1 DEF Expired
    <3>3. rows[t] \in Row /\ RowInv(rows[t], renewed[t])
      BY InvGivesRowInv
    <3> HIDE DEF r
    <3> QED
      BY <3>1, <3>2, <3>3
  <2>4. reaping' \in [Sessions -> Int \cup {NULL}]
    BY <2>1, <2>2 DEF QueueTypeOK
  <2>5. \A u \in Sessions : reaping'[u] # NULL => reaping'[u] <= now + MaxSkew
    BY <2>1, <2>2 DEF QueueTypeOK, LeaseCoversRenewal
  <2>6. rows' = [t \in TaskIds |-> rows'[t]]
    BY <2>1
  <2> QED
    BY <1>12, <1>13, <2>3, <2>4, <2>5, <2>6 DEF ReapRequeue
<1>14. ASSUME NEW s \in Sessions, ReapTimeOut(s)
       PROVE  QueueInv'
  <2> DEFINE r(t) == [rows[t] EXCEPT !.status = "TIMED_OUT", !.finished = TRUE,
                                     !.lockedBy = NULL, !.leaseExpiresAt = NULL]
  <2>1. ASSUME NEW t \in TaskIds
        PROVE  /\ rows'[t] \in Row /\ RowInv(rows'[t], renewed[t])
               /\ rows[t].status = "QUEUED" => rows'[t].status = "QUEUED"
    <3>1. rows[t].status = "RUNNING" => r(t) \in Row /\ RowInv(r(t), renewed[t])
      BY InvGivesRowInv DEF Row, RowInv, Status, Terminal
    <3>2. \/ rows[t].status = "RUNNING" /\ rows'[t] = r(t)
          \/ rows'[t] = rows[t]
      BY <1>14 DEF ReapTimeOut, Expired
    <3>3. rows[t] \in Row /\ RowInv(rows[t], renewed[t])
      BY InvGivesRowInv
    <3> HIDE DEF r
    <3> QED
      BY <3>1, <3>2, <3>3
  <2>2. reaping' \in [Sessions -> Int \cup {NULL}]
    BY <1>14 DEF ReapTimeOut, QueueTypeOK
  <2>3. \A u \in Sessions : reaping'[u] # NULL => reaping'[u] <= now + MaxSkew
    BY <1>14 DEF ReapTimeOut, QueueTypeOK, LeaseCoversRenewal
  <2>4. rows' = [t \in TaskIds |-> rows'[t]]
    BY <1>14 DEF ReapTimeOut
  <2> QED
    BY <1>12, <1>14, <2>1, <2>2, <2>3, <2>4 DEF ReapTimeOut
<1>15. CASE Tick
  BY <1>15 DEF Tick, QueueTypeOK, LockMatchesStatus, ClaimsAreExclusive,
               LeaseCoversRenewal, NoAttemptsBeforeEnqueue
<1>16. CASE UNCHANGED qvars
  BY <1>16 DEF qvars, QueueTypeOK, LockMatchesStatus, ClaimsAreExclusive,
               LeaseCoversRenewal, NoAttemptsBeforeEnqueue
<1> HIDE DEF QueueInv
<1> QED
  BY <1>1, <1>2, <1>3, <1>4, <1>5, <1>7, <1>8, <1>9, <1>10, <1>11, <1>13,
     <1>14, <1>15, <1>16 DEF QueueNext, complete, fail

-----------------------------------------------------------------------------
\* The invariant of the multi-worker queue holds in every reachable state of
\* every instance.
THEOREM QueueInvariance == QueueSpec => []QueueInv
<1>1. QueueInv /\ [QueueNext]_qvars => QueueInv'
  BY NextInv
<1> QED
  BY InitInv, <1>1, PTL DEF QueueSpec

\* Every row, claim and reap in flight is well typed.
THEOREM QueueTypeCorrect == QueueSpec => []QueueTypeOK
<1>1. QueueInv => QueueTypeOK
  BY DEF QueueInv
<1> QED
  BY QueueInvariance, <1>1, PTL

\* locked_by, lease_expires_at and finished_at agree with the status of every
\* row after any sequence of operations.
THEOREM LocksMatch == QueueSpec => []LockMatchesStatus
<1>1. QueueInv => LockMatchesStatus
  BY DEF QueueInv
<1> QED
  BY QueueInvariance, <1>1, PTL

\* FOR UPDATE SKIP LOCKED: however many sessions claim at once, no row is
\* selected twice and none has left QUEUED when its claim commits.
THEOREM ExclusiveClaims == QueueSpec => []ClaimsAreExclusive
<1>1. QueueInv => ClaimsAreExclusive
  BY DEF QueueInv
<1> QED
  BY QueueInvariance, <1>1, PTL

-----------------------------------------------------------------------------
\* The reaper takes no task whose lease, up to the skew of two clocks, is not
\* over: the deadline of a lease and the timestamp of a reap are each at most
\* MaxSkew off.
THEOREM ReclaimIsNeverEarly == QueueSpec => NoEarlyReclaim
<1> DEFINE Early(t) ==
      (/\ rows[t].status = "RUNNING" /\ rows'[t].status # "RUNNING"
       /\ \E s \in Sessions : ReapRequeue(s) \/ ReapTimeOut(s))
      => now - renewed[t] > LeaseSeconds - 2 * MaxSkew
<1>1. ASSUME QueueInv, NEW t \in TaskIds,
             rows[t].status = "RUNNING", rows'[t].status # "RUNNING",
             NEW s \in Sessions, ReapRequeue(s) \/ ReapTimeOut(s)
      PROVE  now - renewed[t] > LeaseSeconds - 2 * MaxSkew
  <2>1. \E ts \in Int : ts <= now + MaxSkew /\ Expired(t, ts)
    <3>1. CASE ReapRequeue(s)
      <4>1. PICK ts \in Clock :
              rows' = [u \in TaskIds |->
                IF Expired(u, ts) /\ rows[u].attempts < rows[u].maxAttempts
                THEN [rows[u] EXCEPT !.status = "QUEUED", !.lockedBy = NULL,
                                     !.leaseExpiresAt = NULL]
                ELSE rows[u]]
        BY <3>1 DEF ReapRequeue
      <4>2. ts \in Int /\ ts <= now + MaxSkew
        BY <1>1 DEF QueueInv, QueueTypeOK, Clock
      <4>3. Expired(t, ts)
        BY <1>1, <4>1
      <4> QED
        BY <4>2, <4>3
    <3>2. CASE ReapTimeOut(s)
      <4>1. reaping[s] \in Int /\ reaping[s] <= now + MaxSkew
        BY <1>1, <3>2 DEF ReapTimeOut, QueueInv, QueueTypeOK, LeaseCoversRenewal
      <4>2. Expired(t, reaping[s])
        BY <1>1, <3>2 DEF ReapTimeOut
      <4> QED
        BY <4>1, <4>2
    <3> QED
      BY <1>1, <3>1, <3>2
  <2>2. rows[t].leaseExpiresAt >= renewed[t] + LeaseSeconds - MaxSkew
    BY <1>1 DEF QueueInv, LeaseCoversRenewal
  <2>3. rows[t].leaseExpiresAt \in Int /\ renewed[t] \in Int /\ now \in Int
    <3>1. rows[t] \in Row /\ rows[t].leaseExpiresAt # NULL
      BY <1>1, InvGivesRowInv DEF RowInv
    <3>2. rows[t].leaseExpiresAt \in Int
      BY <3>1 DEF Row
    <3>3. QueueTypeOK
      BY <1>1 DEF QueueInv
    <3>4. renewed[t] \in Int
      BY <3>3 DEF QueueTypeOK
    <3>5. now \in Int
      BY <3>3 DEF QueueTypeOK
    <3> QED
      BY <3>2, <3>4, <3>5
  <2> QED
    BY <2>1, <2>2, <2>3 DEF Expired
<1>2. QueueInv /\ [QueueNext]_qvars => [\A t \in TaskIds : Early(t)]_qvars
  BY <1>1
<1> QED
  BY QueueInvariance, <1>2, PTL DEF QueueSpec, NoEarlyReclaim

-----------------------------------------------------------------------------
\* What a row shows of its task.
View(r) == [status |-> r.status, holder |-> r.lockedBy, attempts |-> r.attempts]

\* A step is one of the life cycle when every row changes as it allows.
LEMMA LifecycleStep ==
    ASSUME \A t \in TaskIds :
             View(rows'[t]) \in Lifecycle!Changes(View(rows[t]))
                                  \cup {View(rows[t])}
    PROVE  Lifecycle!Next
  BY DEF Lifecycle!Next, View

\* The same for a step that rewrites one row.
LEMMA LifecycleRow ==
    ASSUME QueueTypeOK, NEW t \in TaskIds, NEW r,
           rows' = [rows EXCEPT ![t] = r],
           View(r) \in Lifecycle!Changes(View(rows[t])) \cup {View(rows[t])}
    PROVE  Lifecycle!Next
<1>1. ASSUME NEW u \in TaskIds
      PROVE  View(rows'[u]) \in Lifecycle!Changes(View(rows[u]))
                                  \cup {View(rows[u])}
  <2>1. CASE u = t
    BY <2>1 DEF QueueTypeOK
  <2>2. CASE u # t
    BY <2>2 DEF QueueTypeOK
  <2> QED
    BY <2>1, <2>2
<1> QED
  BY <1>1, LifecycleStep

\* Every statement of every session is a step of the life cycle or leaves the
\* statuses, holders and attempts alone.
LEMMA NextIsLifecycle ==
    ASSUME QueueInv, [QueueNext]_qvars
    PROVE  Lifecycle!Next
<1> USE DEF Lifecycle!Changes, Lifecycle!To, View
<1>0. QueueTypeOK /\ \A t \in TaskIds : rows[t] \in Row
  BY DEF QueueInv, QueueTypeOK
<1>1. ASSUME UNCHANGED rows
      PROVE  Lifecycle!Next
  BY <1>1, LifecycleStep
<1>2. ASSUME NEW t \in TaskIds, NEW k \in Keys \cup {NULL},
             NEW m \in RetryLimits, enqueue(t, k, m)
      PROVE  Lifecycle!Next
  <2>1. PICK ts \in Clock :
          rows' = [rows EXCEPT ![t] = [NoRow EXCEPT !.status = "QUEUED",
                                                    !.key = k,
                                                    !.maxAttempts = m,
                                                    !.enqueuedAt = ts]]
    BY <1>2 DEF enqueue
  <2> DEFINE r == [NoRow EXCEPT !.status = "QUEUED", !.key = k,
                                !.maxAttempts = m, !.enqueuedAt = ts]
  <2>2. r.status = "QUEUED" /\ r.lockedBy = NULL /\ r.attempts = 0
    <3>1. NoRow \in Row /\ NoRow.lockedBy = NULL /\ NoRow.attempts = 0
      BY DEF NoRow, Row, Status
    <3> QED
      BY <3>1 DEF Row
  <2>3. rows[t].status = "ABSENT" /\ rows[t].attempts = 0
    BY <1>2 DEF enqueue, Exists, QueueInv, NoAttemptsBeforeEnqueue
  <2>4. View(r) = Lifecycle!To(View(rows[t]), "QUEUED")
    BY <2>2, <2>3
  <2>5. View(r) \in Lifecycle!Changes(View(rows[t]))
    BY <2>3, <2>4
  <2>6. rows' = [rows EXCEPT ![t] = r]
    BY <2>1
  <2> HIDE DEF r
  <2> QED
    BY <1>0, <2>5, <2>6, LifecycleRow
<1>3. ASSUME NEW s \in Sessions, claim(s)
      PROVE  Lifecycle!Next
  <2> DEFINE c == claiming[s]
             r == [rows[c.task] EXCEPT !.status = "RUNNING",
                                       !.lockedBy = c.worker,
                                       !.attempts = @ + 1,
                                       !.leaseExpiresAt = c.ts + LeaseSeconds]
  <2>1. /\ c.task \in TaskIds /\ c.worker \in Workers
        /\ rows[c.task].status = "QUEUED"
    BY <1>3 DEF claim, QueueInv, QueueTypeOK, ClaimsAreExclusive,
                LeaseCoversRenewal
  <2>2. rows' = [rows EXCEPT ![c.task] = r]
    BY <1>3 DEF claim
  <2>3. View(r) = [status |-> "RUNNING", holder |-> c.worker,
                   attempts |-> rows[c.task].attempts + 1]
    BY <1>0, <2>1 DEF Row
  <2>4. View(r) \in Lifecycle!Changes(View(rows[c.task]))
    BY <2>1, <2>3
  <2> HIDE DEF r, c
  <2> QED
    BY <1>0, <2>1, <2>2, <2>4, LifecycleRow
<1>4. ASSUME NEW t \in TaskIds, NEW w \in Workers, heartbeat(t, w)
      PROVE  Lifecycle!Next
  <2>1. PICK ts \in Clock :
          rows' = [rows EXCEPT ![t].leaseExpiresAt = ts + LeaseSeconds]
    BY <1>4 DEF heartbeat
  <2> DEFINE r == [rows[t] EXCEPT !.leaseExpiresAt = ts + LeaseSeconds]
  <2>2. View(r) = View(rows[t]) /\ rows' = [rows EXCEPT ![t] = r]
    BY <1>0, <2>1 DEF Row
  <2> HIDE DEF r
  <2> QED
    BY <1>0, <2>2, LifecycleRow
\* A row that leaves RUNNING, or is cancelled or resumed, with no holder.
<1>5. ASSUME NEW t \in TaskIds, NEW r, rows' = [rows EXCEPT ![t] = r],
             r.lockedBy = NULL, r.attempts = rows[t].attempts,
             \/ /\ rows[t].status = "RUNNING"
                /\ r.status \in {"QUEUED", "PAUSED", "SUCCEEDED", "FAILED",
                                 "TIMED_OUT", "CANCELLED"}
             \/ /\ rows[t].status # "ABSENT" /\ r.status = "CANCELLED"
             \/ /\ rows[t].status = "PAUSED" /\ r.status = "QUEUED"
      PROVE  Lifecycle!Next
  <2>1. View(r) = Lifecycle!To(View(rows[t]), r.status)
    BY <1>5
  <2>2. View(r) \in Lifecycle!Changes(View(rows[t]))
    <3>1. rows[t].status \in Status
      BY <1>0 DEF Row
    <3> QED
      BY <1>5, <2>1, <3>1 DEF Status, Terminal
  <2> QED
    BY <1>0, <1>5, <2>2, LifecycleRow
<1>6. ASSUME NEW t \in TaskIds, NEW w \in Workers,
             NEW st \in {"SUCCEEDED", "FAILED"}, finish(t, w, st)
      PROVE  Lifecycle!Next
  <2> DEFINE r == [rows[t] EXCEPT !.status = st, !.finished = TRUE,
                                  !.lockedBy = NULL, !.leaseExpiresAt = NULL]
  <2>1. /\ r.lockedBy = NULL /\ r.attempts = rows[t].attempts
        /\ r.status = st
    BY <1>0 DEF Row
  <2>2. rows' = [rows EXCEPT ![t] = r] /\ rows[t].status = "RUNNING"
    BY <1>6 DEF finish, Holds
  <2> HIDE DEF r
  <2> QED
    BY <1>5, <2>1, <2>2
<1>7. ASSUME NEW t \in TaskIds, NEW w \in Workers, retry(t, w)
      PROVE  Lifecycle!Next
  <2> DEFINE r == [rows[t] EXCEPT !.status = "QUEUED", !.lockedBy = NULL,
                                  !.leaseExpiresAt = NULL, !.finished = FALSE]
  <2>1. /\ r.lockedBy = NULL /\ r.attempts = rows[t].attempts
        /\ r.status = "QUEUED"
    BY <1>0 DEF Row
  <2>2. rows' = [rows EXCEPT ![t] = r] /\ rows[t].status = "RUNNING"
    BY <1>7 DEF retry, Holds
  <2> HIDE DEF r
  <2> QED
    BY <1>5, <2>1, <2>2
<1>8. ASSUME NEW t \in TaskIds, cancel(t)
      PROVE  Lifecycle!Next
  <2> DEFINE r == [rows[t] EXCEPT !.status = "CANCELLED", !.finished = TRUE,
                                  !.lockedBy = NULL, !.leaseExpiresAt = NULL]
  <2>1. /\ r.lockedBy = NULL /\ r.attempts = rows[t].attempts
        /\ r.status = "CANCELLED"
    BY <1>0 DEF Row
  <2>2. rows' = [rows EXCEPT ![t] = r] /\ rows[t].status # "ABSENT"
    BY <1>8 DEF cancel, Exists
  <2> HIDE DEF r
  <2> QED
    BY <1>5, <2>1, <2>2
<1>9. ASSUME NEW t \in TaskIds, NEW w \in Workers, pause(t, w)
      PROVE  Lifecycle!Next
  <2> DEFINE r == [rows[t] EXCEPT !.status = "PAUSED", !.lockedBy = NULL,
                                  !.leaseExpiresAt = NULL]
  <2>1. /\ r.lockedBy = NULL /\ r.attempts = rows[t].attempts
        /\ r.status = "PAUSED"
    BY <1>0 DEF Row
  <2>2. rows' = [rows EXCEPT ![t] = r] /\ rows[t].status = "RUNNING"
    BY <1>9 DEF pause, Holds
  <2> HIDE DEF r
  <2> QED
    BY <1>5, <2>1, <2>2
<1>10. ASSUME NEW t \in TaskIds, resume(t)
       PROVE  Lifecycle!Next
  <2> DEFINE r == [rows[t] EXCEPT !.status = "QUEUED"]
  <2>1. rows' = [rows EXCEPT ![t] = r] /\ rows[t].status = "PAUSED"
    BY <1>10 DEF resume
  <2>2. /\ r.lockedBy = NULL /\ r.attempts = rows[t].attempts
        /\ r.status = "QUEUED"
    BY <1>0, <2>1 DEF Row, QueueInv, LockMatchesStatus
  <2> HIDE DEF r
  <2> QED
    BY <1>5, <2>1, <2>2
\* A reap: every row it touches was RUNNING.
<1>11. ASSUME NEW st \in {"QUEUED", "TIMED_OUT"},
              \A t \in TaskIds : \/ rows'[t] = rows[t]
                                 \/ /\ rows[t].status = "RUNNING"
                                    /\ rows'[t].status = st
                                    /\ rows'[t].lockedBy = NULL
                                    /\ rows'[t].attempts = rows[t].attempts
       PROVE  Lifecycle!Next
  <2> SUFFICES ASSUME NEW t \in TaskIds
               PROVE  View(rows'[t]) \in Lifecycle!Changes(View(rows[t]))
                                           \cup {View(rows[t])}
    BY LifecycleStep
  <2>1. CASE rows'[t] = rows[t]
    BY <2>1
  <2>2. CASE /\ rows[t].status = "RUNNING"
             /\ rows'[t].status = st
             /\ rows'[t].lockedBy = NULL
             /\ rows'[t].attempts = rows[t].attempts
    BY <2>2
  <2> QED
    BY <1>11, <2>1, <2>2
<1>12. ASSUME NEW s \in Sessions, ReapRequeue(s)
       PROVE  Lifecycle!Next
  <2>1. \A t \in TaskIds : \/ rows'[t] = rows[t]
                           \/ /\ rows[t].status = "RUNNING"
                              /\ rows'[t].status = "QUEUED"
                              /\ rows'[t].lockedBy = NULL
                              /\ rows'[t].attempts = rows[t].attempts
    <3>1. PICK ts \in Clock :
            rows' = [t \in TaskIds |->
              IF Expired(t, ts) /\ rows[t].attempts < rows[t].maxAttempts
              THEN [rows[t] EXCEPT !.status = "QUEUED", !.lockedBy = NULL,
                                   !.leaseExpiresAt = NULL]
              ELSE rows[t]]
      BY <1>12 DEF ReapRequeue
    <3> QED
      BY <1>0, <3>1 DEF Expired, Row
  <2> QED
    BY <1>11, <2>1
<1>13. ASSUME NEW s \in Sessions, ReapTimeOut(s)
       PROVE  Lifecycle!Next
  <2>1. \A t \in TaskIds : \/ rows'[t] = rows[t]
                           \/ /\ rows[t].status = "RUNNING"
                              /\ rows'[t].status = "TIMED_OUT"
                              /\ rows'[t].lockedBy = NULL
                              /\ rows'[t].attempts = rows[t].attempts
    BY <1>0, <1>13 DEF ReapTimeOut, Expired, Row
  <2> QED
    BY <1>11, <2>1
<1>14. ASSUME \/ Tick
              \/ \E s \in Sessions :
                   Disconnect(s) \/ \E w \in Workers : ClaimSelect(s, w)
              \/ UNCHANGED qvars
       PROVE  Lifecycle!Next
  <2>1. UNCHANGED rows
    BY <1>14 DEF Tick, Disconnect, ClaimSelect, qvars
  <2> QED
    BY <1>1, <2>1
<1> QED
  BY <1>2, <1>3, <1>4, <1>6, <1>7, <1>8, <1>9, <1>10, <1>12, <1>13, <1>14
  DEF QueueNext, complete, fail

\* The table of the multi-worker queue implements the life cycle of a task:
\* no claim takes over a task that another worker holds, no attempt is lost or
\* counted twice, and no finished task runs again.
THEOREM QueueImplementsLifecycle == QueueSpec => FollowsLifecycle
<1>1. Init => Lifecycle!Init
  BY DEF Init, NoRow, Lifecycle!Init, Lifecycle!Absent
<1>2. QueueInv /\ [QueueNext]_qvars => Lifecycle!Next
  BY NextIsLifecycle
<1> QED
  BY QueueInvariance, <1>1, <1>2, PTL DEF QueueSpec, FollowsLifecycle, Lifecycle!Spec

-----------------------------------------------------------------------------
(* The fleet.                                                               *)

HIDE QueueAssumption

\* The TaskRunners were given different worker_ids; the default "worker" is
\* the same for all of them.
DistinctWorkers == \A r, s \in Runners : WorkerOf[r] = WorkerOf[s] => r = s

HoldsTask == {"running", "complete", "handleFailure"}

FleetTypeOK ==
    /\ pc \in [Runners -> HoldsTask \cup {"idle", "claiming", "down"}]
    /\ held \in [Runners -> [task : TaskIds \cup {NULL},
                             attempts : Nat, maxAttempts : Nat]]
    /\ resumes \in [TaskIds -> Nat]

\* A runner has a claim in flight just while run_next waits for its commit, and
\* never one of another worker; runners do not reap; a runner past its claim
\* has a task.
ClaimInv ==
    \A r \in Runners :
        /\ reaping[r] = NULL
        /\ pc[r] # "claiming" => claiming[r] = NoClaim
        /\ pc[r] = "claiming" => /\ claiming[r].task \in TaskIds
                                 /\ claiming[r].worker = WorkerOf[r]
        /\ pc[r] \in HoldsTask => held[r].task \in TaskIds

\* While the row is RUNNING under the runner's worker_id, the task object that
\* claim returned still says what the row says.
HeldInv ==
    \A r \in Runners :
        pc[r] \in HoldsTask /\ Holds(held[r].task, WorkerOf[r]) =>
            /\ rows[held[r].task].attempts = held[r].attempts
            /\ rows[held[r].task].maxAttempts = held[r].maxAttempts

\* What needs no assumption on the worker_ids, and what does.
UseInv == QueueInv /\ FleetTypeOK /\ ClaimInv
FleetInv == UseInv /\ HeldInv /\ AttemptBudget

-----------------------------------------------------------------------------
\* The fleet starts with an empty table and idle runners.
LEMMA FleetInitInv == FleetInit => FleetInv
<1> SUFFICES ASSUME FleetInit PROVE FleetInv
  OBVIOUS
<1>1. QueueInv
  BY InitInv DEF FleetInit
<1>2. FleetTypeOK
  BY QueueAssumption DEF FleetInit, FleetTypeOK, NoTask, HoldsTask
<1>3. ClaimInv
  BY FleetAssumption DEF FleetInit, Init, ClaimInv, HoldsTask
<1>4. HeldInv
  BY DEF FleetInit, HeldInv, HoldsTask
<1>5. AttemptBudget
  <2>1. \A t \in TaskIds : /\ rows[t].attempts = 0 /\ rows[t].maxAttempts = 0
                           /\ rows[t].status = "ABSENT" /\ resumes[t] = 0
    BY DEF FleetInit, Init, NoRow
  <2>2. 0 <= 0 + 0
    OBVIOUS
  <2> QED
    BY <2>1, <2>2, Zenon DEF AttemptBudget
<1> QED
  BY <1>1, <1>2, <1>3, <1>4, <1>5 DEF FleetInv, UseInv

\* Whatever a runner, a supervisor, a client or an operator does is a call of
\* the queue, or no change of it.
LEMMA FleetUsesQueue ==
    ASSUME UseInv, FleetNext
    PROVE  [QueueNext]_qvars
<1> USE QueueAssumption, FleetAssumption DEF UseInv
<1>1. ASSUME NEW r \in Runners, RunNext(r) PROVE QueueNext
  BY <1>1 DEF RunNext, QueueNext
<1>2. ASSUME NEW r \in Runners, Claimed(r) PROVE QueueNext
  BY <1>2 DEF Claimed, QueueNext
<1>3. ASSUME NEW r \in Runners, KernelReturns(r) \/ Refused(r) \/ Restart(r)
      PROVE  UNCHANGED qvars
  BY <1>3 DEF KernelReturns, Refused, Restart
<1>4. ASSUME NEW r \in Runners, Finish(r) PROVE QueueNext
  <2>1. held[r].task \in TaskIds /\ WorkerOf[r] \in Workers
    BY <1>4 DEF Finish, Settle, ClaimInv, HoldsTask
  <2> QED
    BY <1>4, <2>1 DEF Finish, Settle, QueueNext
<1>5. ASSUME NEW r \in Runners, Heartbeat(r) PROVE QueueNext
  <2>1. held[r].task \in TaskIds /\ WorkerOf[r] \in Workers
    BY <1>5 DEF Heartbeat, ClaimInv, HoldsTask
  <2> QED
    BY <1>5, <2>1 DEF Heartbeat, QueueNext
<1>6. ASSUME NEW r \in Runners, Crash(r) PROVE [QueueNext]_qvars
  <2>1. CASE pc[r] = "claiming"
    <3>1. Disconnect(r)
      BY <1>6, <2>1 DEF Crash, Disconnect, Free, ClaimInv, QueueInv, QueueTypeOK
    <3> QED
      BY <3>1 DEF QueueNext
  <2>2. CASE pc[r] # "claiming"
    BY <1>6, <2>2 DEF Crash, ClaimInv, QueueInv, QueueTypeOK, qvars
  <2> QED
    BY <2>1, <2>2
<1>7. ASSUME NEW s \in Reapers, ReapFirst(s) \/ ReapSecond(s) \/ ReaperDies(s)
      PROVE  QueueNext
  BY <1>7 DEF ReapFirst, ReapSecond, ReaperDies, QueueNext
<1>8. ASSUME NEW t \in TaskIds, NEW k \in Keys \cup {NULL}, NEW m \in RetryLimits,
             Enqueue(t, k, m)
      PROVE  QueueNext
  BY <1>8 DEF Enqueue, QueueNext
<1>9. ASSUME NEW t \in TaskIds, Cancel(t) \/ Pause(t) \/ Resume(t) PROVE QueueNext
  BY <1>9 DEF Cancel, Pause, Resume, QueueNext
<1>10. ASSUME Passes PROVE QueueNext
  BY <1>10 DEF Passes, QueueNext
<1> HIDE DEF UseInv
<1> QED
  BY <1>1, <1>2, <1>3, <1>4, <1>5, <1>6, <1>7, <1>8, <1>9, <1>10 DEF FleetNext

\* Types of the runners' variables and their claims are kept.
LEMMA UseStep ==
    ASSUME UseInv, [FleetNext]_fvars
    PROVE  UseInv'
<1>1. QueueInv'
  <2>1. QueueInv /\ [QueueNext]_qvars
    BY FleetUsesQueue DEF UseInv, fvars, qvars
  <2> QED
    BY <2>1, NextInv
<1>2. FleetTypeOK' /\ ClaimInv'
  <2> USE QueueAssumption, FleetAssumption DEF UseInv
  <2>1. ASSUME NEW r \in Runners, RunNext(r) PROVE FleetTypeOK' /\ ClaimInv'
    BY <2>1 DEF RunNext, ClaimSelect, FleetTypeOK, ClaimInv, HoldsTask, QueueInv, QueueTypeOK
  <2>2. ASSUME NEW r \in Runners, Claimed(r) PROVE FleetTypeOK' /\ ClaimInv'
    <3>1. claiming[r].task \in TaskIds
      BY <2>2 DEF Claimed, ClaimInv
    <3>2. rows'[claiming[r].task] \in Row
      BY <1>1, <3>1 DEF QueueInv, QueueTypeOK
    <3>3. FleetTypeOK'
      BY <2>2, <3>1, <3>2 DEF Claimed, FleetTypeOK, HoldsTask, Row
    <3>4. ClaimInv'
      BY <2>2, <3>1 DEF Claimed, claim, FleetTypeOK, ClaimInv, HoldsTask, QueueInv, QueueTypeOK
    <3> QED
      BY <3>3, <3>4
  <2>3. ASSUME NEW r \in Runners, KernelReturns(r) \/ Refused(r) \/ Restart(r)
        PROVE  FleetTypeOK' /\ ClaimInv'
    <3>1. CASE KernelReturns(r)
      BY <3>1 DEF KernelReturns, qvars, FleetTypeOK, ClaimInv, HoldsTask
    <3>2. CASE Refused(r)
      BY <3>2 DEF Refused, BackToIdle, NoTask, qvars, FleetTypeOK, ClaimInv, HoldsTask
    <3>3. CASE Restart(r)
      BY <3>3 DEF Restart, qvars, FleetTypeOK, ClaimInv, HoldsTask
    <3> QED
      BY <2>3, <3>1, <3>2, <3>3
  <2>4. ASSUME NEW r \in Runners, Finish(r) PROVE FleetTypeOK' /\ ClaimInv'
    <3>1. UNCHANGED <<claiming, reaping>> /\ pc[r] # "claiming"
      BY <2>4 DEF Finish, Settle, complete, fail, finish, retry
    <3> QED
      BY <2>4, <3>1 DEF Finish, BackToIdle, NoTask, FleetTypeOK, ClaimInv, HoldsTask
  <2>5. ASSUME NEW r \in Runners, Heartbeat(r) PROVE FleetTypeOK' /\ ClaimInv'
    BY <2>5 DEF Heartbeat, heartbeat, FleetTypeOK, ClaimInv
  <2>6. ASSUME NEW r \in Runners, Crash(r) PROVE FleetTypeOK' /\ ClaimInv'
    BY <2>6 DEF Crash, NoTask, FleetTypeOK, ClaimInv, HoldsTask, QueueInv, QueueTypeOK
  <2>7. ASSUME NEW s \in Reapers, ReapFirst(s) \/ ReapSecond(s) \/ ReaperDies(s)
        PROVE  FleetTypeOK' /\ ClaimInv'
    <3>1. UNCHANGED <<pc, held, resumes>>
      BY <2>7 DEF ReapFirst, ReapSecond, ReaperDies
    <3>2. \A r \in Runners : r # s
      OBVIOUS
    <3>3. \A r \in Runners : claiming'[r] = claiming[r] /\ reaping'[r] = reaping[r]
      BY <2>7, <3>2 DEF ReapFirst, ReapSecond, ReaperDies, ReapRequeue, ReapTimeOut,
                        Disconnect, QueueInv, QueueTypeOK
    <3> QED
      BY <3>1, <3>3 DEF FleetTypeOK, ClaimInv
  <2>8. ASSUME NEW t \in TaskIds, NEW k \in Keys \cup {NULL}, NEW m \in RetryLimits,
               Enqueue(t, k, m)
        PROVE  FleetTypeOK' /\ ClaimInv'
    BY <2>8 DEF Enqueue, enqueue, FleetTypeOK, ClaimInv
  <2>9. ASSUME NEW t \in TaskIds, Cancel(t) \/ Pause(t) \/ Resume(t)
        PROVE  FleetTypeOK' /\ ClaimInv'
    BY <2>9 DEF Cancel, Pause, Resume, cancel, pause, resume, FleetTypeOK, ClaimInv
  <2>10. ASSUME Passes PROVE FleetTypeOK' /\ ClaimInv'
    BY <2>10 DEF Passes, Tick, FleetTypeOK, ClaimInv
  <2>11. ASSUME UNCHANGED fvars PROVE FleetTypeOK' /\ ClaimInv'
    BY <2>11 DEF fvars, FleetTypeOK, ClaimInv
  <2> HIDE DEF UseInv
  <2> QED
    BY <2>1, <2>2, <2>3, <2>4, <2>5, <2>6, <2>7, <2>8, <2>9, <2>10, <2>11 DEF FleetNext
<1> QED
  BY <1>1, <1>2 DEF UseInv

\* A fleet of TaskRunners, supervisors, clients and operators uses the queue as
\* QueueSpec says, whatever worker_ids the runners have.
THEOREM FleetImplementsQueue == FleetSpec => QueueSpec
<1>1. FleetInit => UseInv /\ Init
  BY FleetInitInv DEF FleetInit, FleetInv
<1>2. UseInv /\ [FleetNext]_fvars => UseInv'
  BY UseStep
<1>3. UseInv /\ [FleetNext]_fvars => [QueueNext]_qvars
  BY FleetUsesQueue DEF fvars, qvars
<1> QED
  BY <1>1, <1>2, <1>3, PTL DEF FleetSpec, QueueSpec

\* What was proved of the queue holds of the fleet: a claim in flight has its
\* row to itself, locks and leases match the status, the reaper is never early
\* and every row follows the life cycle of a task.
THEOREM FleetKeepsQueueProperties ==
    FleetSpec => /\ []ClaimsAreExclusive
                 /\ []LockMatchesStatus
                 /\ NoEarlyReclaim
                 /\ FollowsLifecycle
  BY FleetImplementsQueue, ExclusiveClaims, LocksMatch, ReclaimIsNeverEarly,
     QueueImplementsLifecycle

-----------------------------------------------------------------------------
\* An operation that leaves the attempts and the limit of a row alone and gives
\* it to no other worker.
KeepsAttempts(t) ==
    /\ rows'[t].attempts = rows[t].attempts
    /\ rows'[t].maxAttempts = rows[t].maxAttempts
    /\ rows'[t].status = "RUNNING" =>
         rows[t].status = "RUNNING" /\ rows'[t].lockedBy = rows[t].lockedBy

\* Only enqueue and claim change more of a row than its status, lock and lease,
\* and a row comes back to the queue with attempts left, unless by retry or resume.
LEMMA RowStep ==
    ASSUME QueueInv, NEW t \in TaskIds, NEW u \in TaskIds,
           \/ \E w \in Workers : \/ heartbeat(u, w) \/ complete(u, w) \/ fail(u, w)
                                 \/ retry(u, w) \/ pause(u, w)
           \/ cancel(u) \/ resume(u)
    PROVE  /\ KeepsAttempts(t)
           /\ rows'[t].status = "QUEUED" =>
                \/ rows[t].status = "QUEUED"
                \/ t = u /\ ((\E w \in Workers : retry(u, w)) \/ resume(u))
<1> USE DEF QueueInv, QueueTypeOK, Row, KeepsAttempts
<1>1. ASSUME NEW w \in Workers, heartbeat(u, w)
      PROVE  KeepsAttempts(t) /\ (rows'[t].status = "QUEUED" => rows[t].status = "QUEUED")
  BY <1>1 DEF heartbeat
<1>2. ASSUME NEW w \in Workers, complete(u, w) \/ fail(u, w) \/ pause(u, w)
      PROVE  KeepsAttempts(t) /\ (rows'[t].status = "QUEUED" => rows[t].status = "QUEUED")
  <2>1. CASE complete(u, w)
    BY <2>1 DEF complete, finish
  <2>2. CASE fail(u, w)
    BY <2>2 DEF fail, finish
  <2>3. CASE pause(u, w)
    BY <2>3 DEF pause
  <2> QED
    BY <1>2, <2>1, <2>2, <2>3
<1>3. ASSUME NEW w \in Workers, retry(u, w)
      PROVE  /\ KeepsAttempts(t)
             /\ rows'[t].status = "QUEUED" => t = u \/ rows[t].status = "QUEUED"
  BY <1>3 DEF retry
<1>4. ASSUME cancel(u)
      PROVE  KeepsAttempts(t) /\ (rows'[t].status = "QUEUED" => rows[t].status = "QUEUED")
  BY <1>4 DEF cancel
<1>5. ASSUME resume(u)
      PROVE  /\ KeepsAttempts(t)
             /\ rows'[t].status = "QUEUED" => t = u \/ rows[t].status = "QUEUED"
  BY <1>5 DEF resume
<1> HIDE DEF KeepsAttempts
<1> QED
  BY <1>1, <1>2, <1>3, <1>4, <1>5

\* The same for the reaper, which requeues only rows with attempts left.
LEMMA ReapStep ==
    ASSUME QueueInv, NEW t \in TaskIds, NEW s \in Sessions,
           ReapRequeue(s) \/ ReapTimeOut(s)
    PROVE  /\ KeepsAttempts(t)
           /\ rows'[t].status = "QUEUED" =>
                rows[t].status = "QUEUED" \/ rows[t].attempts < rows[t].maxAttempts
<1> USE DEF QueueInv, QueueTypeOK, Row, KeepsAttempts
<1>1. CASE ReapRequeue(s)
  <2>1. PICK ts \in Clock :
          rows' = [x \in TaskIds |->
                     IF Expired(x, ts) /\ rows[x].attempts < rows[x].maxAttempts
                     THEN [rows[x] EXCEPT !.status = "QUEUED", !.lockedBy = NULL,
                                          !.leaseExpiresAt = NULL]
                     ELSE rows[x]]
    BY <1>1 DEF ReapRequeue
  <2> QED
    BY <2>1
<1>2. CASE ReapTimeOut(s)
  <2>1. rows'[t] = IF Expired(t, reaping[s]) /\ rows[t].attempts >= rows[t].maxAttempts
                   THEN [rows[t] EXCEPT !.status = "TIMED_OUT", !.finished = TRUE,
                                        !.lockedBy = NULL, !.leaseExpiresAt = NULL]
                   ELSE rows[t]
    BY <1>2 DEF ReapTimeOut
  <2> QED
    BY <2>1
<1> QED
  BY <1>1, <1>2

\* A runner's copy of its task stays right while no row changes hands.
LEMMA HeldKept ==
    ASSUME UseInv, HeldInv, \A t \in TaskIds : KeepsAttempts(t),
           \A r \in Runners : /\ pc'[r] \in HoldsTask => pc[r] \in HoldsTask
                              /\ pc'[r] \in HoldsTask => held'[r] = held[r]
    PROVE  HeldInv'
  BY DEF UseInv, ClaimInv, HeldInv, KeepsAttempts, Holds

\* The budget survives a step that gives no attempt to a row and queues only
\* rows with attempts left.
LEMMA BudgetKept ==
    ASSUME UseInv, UseInv', AttemptBudget, \A t \in TaskIds : KeepsAttempts(t),
           \A t \in TaskIds : resumes'[t] = resumes[t],
           \A t \in TaskIds : rows'[t].status = "QUEUED" =>
               rows[t].status = "QUEUED" \/ rows[t].attempts < rows[t].maxAttempts
    PROVE  AttemptBudget'
<1> SUFFICES ASSUME NEW t \in TaskIds
             PROVE  /\ rows'[t].attempts <= rows'[t].maxAttempts + resumes'[t]
                    /\ rows'[t].status = "QUEUED" =>
                         rows'[t].attempts < rows'[t].maxAttempts + resumes'[t]
  BY DEF AttemptBudget
<1>1. rows[t].attempts \in Nat /\ rows[t].maxAttempts \in Nat /\ resumes[t] \in Nat
  BY DEF UseInv, QueueInv, QueueTypeOK, Row, FleetTypeOK
<1>2. /\ rows[t].attempts <= rows[t].maxAttempts + resumes[t]
      /\ rows[t].status = "QUEUED" => rows[t].attempts < rows[t].maxAttempts + resumes[t]
  BY DEF AttemptBudget
<1>3. /\ rows'[t].attempts = rows[t].attempts /\ rows'[t].maxAttempts = rows[t].maxAttempts
      /\ resumes'[t] = resumes[t]
  BY DEF KeepsAttempts
<1> QED
  BY <1>1, <1>2, <1>3

\* Every step of the fleet keeps the runners' copies and the budget, when no
\* other runner can hold a row under the same worker_id.
LEMMA FleetStep ==
    ASSUME DistinctWorkers, FleetInv, [FleetNext]_fvars
    PROVE  FleetInv'
<1> USE FleetAssumption
<1>1. UseInv /\ UseInv' /\ HeldInv /\ AttemptBudget /\ QueueInv
  BY UseStep DEF FleetInv, UseInv
<1>2. ASSUME \A t \in TaskIds : KeepsAttempts(t),
             \A r \in Runners : pc'[r] \in HoldsTask =>
                                   pc[r] \in HoldsTask /\ held'[r] = held[r],
             UNCHANGED resumes,
             \A t \in TaskIds : rows'[t].status = "QUEUED" =>
               rows[t].status = "QUEUED" \/ rows[t].attempts < rows[t].maxAttempts
      PROVE  HeldInv' /\ AttemptBudget'
  BY <1>1, <1>2, HeldKept, BudgetKept
<1>3. ASSUME UNCHANGED rows,
             \A r \in Runners : pc'[r] \in HoldsTask =>
                                   pc[r] \in HoldsTask /\ held'[r] = held[r],
             UNCHANGED resumes
      PROVE  HeldInv' /\ AttemptBudget'
  BY <1>2, <1>3 DEF KeepsAttempts
<1>4. ASSUME NEW r \in Runners, RunNext(r) \/ Crash(r) \/ Refused(r) \/ Restart(r)
      PROVE  HeldInv' /\ AttemptBudget'
  <2>1. UNCHANGED <<rows, resumes>>
    BY <1>4 DEF RunNext, ClaimSelect, Crash, Refused, BackToIdle, Restart, qvars
  <2>2. \A q \in Runners : pc'[q] \in HoldsTask => pc[q] \in HoldsTask /\ held'[q] = held[q]
    BY <1>1, <1>4 DEF RunNext, Crash, Refused, BackToIdle, Restart, UseInv, FleetTypeOK,
                      HoldsTask
  <2> QED
    BY <1>3, <2>1, <2>2
<1>5. ASSUME NEW r \in Runners, KernelReturns(r) PROVE HeldInv' /\ AttemptBudget'
  <2>1. UNCHANGED <<rows, resumes, held>>
    BY <1>5 DEF KernelReturns, qvars
  <2>2. \A q \in Runners : pc'[q] \in HoldsTask => pc[q] \in HoldsTask
    BY <1>1, <1>5 DEF KernelReturns, UseInv, FleetTypeOK, HoldsTask
  <2> QED
    BY <1>3, <2>1, <2>2
<1>6. ASSUME NEW r \in Runners, Claimed(r) PROVE HeldInv' /\ AttemptBudget'
  <2> DEFINE t == claiming[r].task
  <2>1. t \in TaskIds /\ claiming[r].worker = WorkerOf[r] /\ rows[t].status = "QUEUED"
    BY <1>1, <1>6, QueueAssumption
       DEF Claimed, UseInv, ClaimInv, QueueInv, ClaimsAreExclusive
  <2>2. /\ rows'[t].attempts = rows[t].attempts + 1
        /\ rows'[t].maxAttempts = rows[t].maxAttempts
        /\ rows'[t].lockedBy = WorkerOf[r]
        /\ rows'[t].status = "RUNNING"
        /\ \A u \in TaskIds : u # t => rows'[u] = rows[u]
    BY <1>1, <1>6, <2>1 DEF Claimed, claim, QueueInv, QueueTypeOK, Row
  <2>3. /\ held'[r] = [task |-> t, attempts |-> rows'[t].attempts,
                       maxAttempts |-> rows'[t].maxAttempts]
        /\ \A q \in Runners : q # r => held'[q] = held[q] /\ pc'[q] = pc[q]
        /\ UNCHANGED resumes
    BY <1>1, <1>6 DEF Claimed, UseInv, FleetTypeOK
  <2> HIDE DEF t
  <2>4. HeldInv'
    <3> SUFFICES ASSUME NEW q \in Runners, pc'[q] \in HoldsTask,
                        Holds(held[q].task, WorkerOf[q])'
                 PROVE  /\ rows'[held'[q].task].attempts = held'[q].attempts
                        /\ rows'[held'[q].task].maxAttempts = held'[q].maxAttempts
      BY DEF HeldInv
    <3>1. CASE q = r
      BY <2>3, <3>1
    <3>2. CASE q # r
      <4>1. held'[q] = held[q] /\ pc[q] \in HoldsTask /\ held[q].task \in TaskIds
        BY <1>1, <2>3, <3>2 DEF UseInv, ClaimInv
      <4>2. rows'[held[q].task].lockedBy = WorkerOf[q]
        BY <4>1 DEF Holds
      <4>3. held[q].task # t
        BY <2>2, <3>2, <4>2 DEF DistinctWorkers
      <4>4. rows'[held[q].task] = rows[held[q].task]
        BY <2>2, <4>1, <4>3
      <4> QED
        BY <1>1, <4>1, <4>4 DEF HeldInv, Holds
    <3> QED
      BY <3>1, <3>2
  <2>5. AttemptBudget'
    <3> SUFFICES ASSUME NEW u \in TaskIds
                 PROVE  /\ rows'[u].attempts <= rows'[u].maxAttempts + resumes'[u]
                        /\ rows'[u].status = "QUEUED" =>
                             rows'[u].attempts < rows'[u].maxAttempts + resumes'[u]
      BY DEF AttemptBudget
    <3>1. CASE u # t
      BY <1>1, <2>2, <2>3, <3>1 DEF AttemptBudget
    <3>2. CASE u = t
      <4>1. rows[t].attempts < rows[t].maxAttempts + resumes[t]
        BY <1>1, <2>1 DEF AttemptBudget
      <4>2. rows[t].attempts \in Nat /\ rows[t].maxAttempts \in Nat /\ resumes[t] \in Nat
        BY <1>1, <2>1 DEF QueueInv, QueueTypeOK, Row, UseInv, FleetTypeOK
      <4> HIDE FleetAssumption
      <4>3. rows[t].attempts + 1 <= rows[t].maxAttempts + resumes[t]
        BY <4>1, <4>2
      <4> QED
        BY <2>2, <2>3, <3>2, <4>3
    <3> QED
      BY <3>1, <3>2
  <2> QED
    BY <2>4, <2>5
<1>7. ASSUME NEW r \in Runners, Finish(r) PROVE HeldInv' /\ AttemptBudget'
  <2> DEFINE t == held[r].task
  <2>1. t \in TaskIds /\ WorkerOf[r] \in Workers /\ pc[r] \in HoldsTask
    BY <1>1, <1>7 DEF Finish, Settle, UseInv, ClaimInv, HoldsTask
  <2>2. complete(t, WorkerOf[r]) \/ fail(t, WorkerOf[r]) \/ retry(t, WorkerOf[r])
    BY <1>7 DEF Finish, Settle
  <2>3. ASSUME NEW w \in Workers, retry(t, w)
        PROVE  rows[t].attempts < rows[t].maxAttempts
    <3>1. Holds(t, WorkerOf[r]) /\ rows'[t].status = "QUEUED"
      BY <1>1, <1>7, <2>1, <2>3
         DEF Finish, Settle, complete, fail, finish, retry, QueueInv, QueueTypeOK, Row
    <3>2. rows[t].attempts = held[r].attempts /\ rows[t].maxAttempts = held[r].maxAttempts
      BY <1>1, <2>1, <3>1 DEF HeldInv
    <3>3. held[r].attempts < held[r].maxAttempts
      <4>1. ~complete(t, WorkerOf[r]) /\ ~fail(t, WorkerOf[r])
        <5>1. \A st \in {"SUCCEEDED", "FAILED"} :
                finish(t, WorkerOf[r], st) => rows'[t].status = st
          BY <1>1, <2>1 DEF finish, QueueInv, QueueTypeOK, Row
        <5> QED
          BY <3>1, <5>1 DEF complete, fail
      <4> QED
        BY <1>7, <4>1 DEF Finish, Settle
    <3> QED
      BY <3>2, <3>3
  <2>4. /\ \A q \in Runners : pc'[q] \in HoldsTask => pc[q] \in HoldsTask /\ held'[q] = held[q]
        /\ UNCHANGED resumes
    BY <1>1, <1>7 DEF Finish, BackToIdle, UseInv, FleetTypeOK, HoldsTask
  <2> HIDE DEF t
  <2>5. \A u \in TaskIds :
          /\ KeepsAttempts(u)
          /\ rows'[u].status = "QUEUED" =>
               rows[u].status = "QUEUED" \/ (u = t /\ \E w \in Workers : retry(t, w))
    <3>1. ~resume(t)
      BY <1>1, <2>2 DEF complete, fail, finish, retry, Holds, resume
    <3> QED
      BY <1>1, <2>1, <2>2, <3>1, RowStep
  <2> QED
    BY <1>2, <2>3, <2>4, <2>5
<1>8. ASSUME NEW r \in Runners, Heartbeat(r) PROVE HeldInv' /\ AttemptBudget'
  <2> DEFINE t == held[r].task
  <2>1. t \in TaskIds /\ WorkerOf[r] \in Workers /\ heartbeat(t, WorkerOf[r])
        /\ UNCHANGED <<pc, held, resumes>>
    BY <1>1, <1>8 DEF Heartbeat, UseInv, ClaimInv, HoldsTask
  <2>2. rows'[t].status # "QUEUED"
    BY <1>1, <2>1 DEF heartbeat, Holds, QueueInv, QueueTypeOK, Row
  <2> HIDE DEF t
  <2>3. \A u \in TaskIds : /\ KeepsAttempts(u)
                           /\ rows'[u].status = "QUEUED" => rows[u].status = "QUEUED"
    BY <1>1, <2>1, <2>2, RowStep
  <2> QED
    BY <1>2, <2>1, <2>3
<1>9. ASSUME NEW s \in Reapers, ReapFirst(s) \/ ReapSecond(s)
      PROVE  HeldInv' /\ AttemptBudget'
  <2>1. s \in Sessions /\ UNCHANGED <<pc, held, resumes>>
        /\ (ReapRequeue(s) \/ ReapTimeOut(s))
    BY <1>9 DEF ReapFirst, ReapSecond
  <2> QED
    BY <1>1, <1>2, <2>1, ReapStep
<1>10. ASSUME NEW s \in Reapers, ReaperDies(s) PROVE HeldInv' /\ AttemptBudget'
  BY <1>3, <1>10 DEF ReaperDies, Disconnect
<1>11. ASSUME NEW t \in TaskIds, NEW k \in Keys \cup {NULL}, NEW m \in RetryLimits,
              Enqueue(t, k, m)
       PROVE  HeldInv' /\ AttemptBudget'
  <2>1. /\ rows'[t].attempts = 0 /\ rows'[t].maxAttempts = m /\ rows'[t].status = "QUEUED"
        /\ \A u \in TaskIds : u # t => rows'[u] = rows[u]
        /\ UNCHANGED <<pc, held, resumes>>
    BY <1>1, <1>11 DEF Enqueue, enqueue, NoRow, QueueInv, QueueTypeOK
  <2>2. HeldInv'
    <3> SUFFICES ASSUME NEW q \in Runners, pc[q] \in HoldsTask,
                        Holds(held[q].task, WorkerOf[q])'
                 PROVE  /\ rows'[held[q].task].attempts = held[q].attempts
                        /\ rows'[held[q].task].maxAttempts = held[q].maxAttempts
      BY <2>1 DEF HeldInv
    <3>1. held[q].task \in TaskIds /\ held[q].task # t
      BY <1>1, <2>1 DEF UseInv, ClaimInv, Holds
    <3> QED
      BY <1>1, <2>1, <3>1 DEF HeldInv, Holds
  <2>3. AttemptBudget'
    <3> SUFFICES ASSUME NEW u \in TaskIds
                 PROVE  /\ rows'[u].attempts <= rows'[u].maxAttempts + resumes[u]
                        /\ rows'[u].status = "QUEUED" =>
                             rows'[u].attempts < rows'[u].maxAttempts + resumes[u]
      BY <2>1 DEF AttemptBudget
    <3>1. CASE u # t
      BY <1>1, <2>1, <3>1 DEF AttemptBudget
    <3>2. CASE u = t
      <4>1. m \in Nat \ {0} /\ resumes[t] \in Nat
        BY <1>1, QueueAssumption DEF UseInv, FleetTypeOK
      <4> HIDE FleetAssumption
      <4>2. 0 <= m + resumes[t] /\ 0 < m + resumes[t]
        BY <4>1
      <4> QED
        BY <2>1, <3>2, <4>2
    <3> QED
      BY <3>1, <3>2
  <2> QED
    BY <2>2, <2>3
<1>12. ASSUME NEW t \in TaskIds, Cancel(t) \/ Pause(t) PROVE HeldInv' /\ AttemptBudget'
  <2>1. UNCHANGED <<pc, held, resumes>> /\ (cancel(t) \/ \E w \in Workers : pause(t, w))
    BY <1>12 DEF Cancel, Pause
  <2>2. rows'[t].status # "QUEUED"
    <3>1. CASE cancel(t)
      BY <1>1, <3>1 DEF cancel, QueueInv, QueueTypeOK, Row
    <3>2. ASSUME NEW w \in Workers, pause(t, w) PROVE rows'[t].status # "QUEUED"
      BY <1>1, <3>2 DEF pause, QueueInv, QueueTypeOK, Row
    <3> QED
      BY <2>1, <3>1, <3>2
  <2>3. \A u \in TaskIds : /\ KeepsAttempts(u)
                           /\ rows'[u].status = "QUEUED" => rows[u].status = "QUEUED"
    BY <1>1, <2>1, <2>2, RowStep
  <2> QED
    BY <1>2, <2>1, <2>3
<1>13. ASSUME NEW t \in TaskIds, Resume(t) PROVE HeldInv' /\ AttemptBudget'
  <2>1. /\ resume(t) /\ UNCHANGED <<pc, held>>
        /\ resumes'[t] = resumes[t] + 1
        /\ \A u \in TaskIds : u # t => resumes'[u] = resumes[u] /\ rows'[u] = rows[u]
    BY <1>1, <1>13 DEF Resume, resume, UseInv, FleetTypeOK, QueueInv, QueueTypeOK
  <2>2. \A u \in TaskIds : KeepsAttempts(u)
    BY <1>1, <2>1, RowStep
  <2>3. HeldInv'
    BY <1>1, <2>1, <2>2, HeldKept
  <2>4. AttemptBudget'
    <3> SUFFICES ASSUME NEW u \in TaskIds
                 PROVE  /\ rows'[u].attempts <= rows'[u].maxAttempts + resumes'[u]
                        /\ rows'[u].status = "QUEUED" =>
                             rows'[u].attempts < rows'[u].maxAttempts + resumes'[u]
      BY DEF AttemptBudget
    <3>1. CASE u # t
      BY <1>1, <2>1, <3>1 DEF AttemptBudget
    <3>2. CASE u = t
      <4>1. rows[t].attempts <= rows[t].maxAttempts + resumes[t]
        BY <1>1 DEF AttemptBudget
      <4>2. rows[t].attempts \in Nat /\ rows[t].maxAttempts \in Nat /\ resumes[t] \in Nat
        BY <1>1 DEF QueueInv, QueueTypeOK, Row, UseInv, FleetTypeOK
      <4> HIDE FleetAssumption
      <4>3. rows[t].attempts < rows[t].maxAttempts + (resumes[t] + 1)
        BY <4>1, <4>2
      <4>4. rows[t].attempts <= rows[t].maxAttempts + (resumes[t] + 1)
        BY <4>1, <4>2
      <4> QED
        BY <2>1, <2>2, <3>2, <4>3, <4>4 DEF KeepsAttempts
    <3> QED
      BY <3>1, <3>2
  <2> QED
    BY <2>3, <2>4
<1>14. ASSUME Passes PROVE HeldInv' /\ AttemptBudget'
  BY <1>3, <1>14 DEF Passes, Tick
<1>15. ASSUME UNCHANGED fvars PROVE HeldInv' /\ AttemptBudget'
  BY <1>3, <1>15 DEF fvars
<1>16. HeldInv' /\ AttemptBudget'
  BY <1>4, <1>5, <1>6, <1>7, <1>8, <1>9, <1>10, <1>11, <1>12, <1>13, <1>14, <1>15
     DEF FleetNext
<1> QED
  BY <1>1, <1>16 DEF FleetInv

-----------------------------------------------------------------------------
\* The inductive invariant of the fleet, for runners with worker_ids of their own.
THEOREM FleetInvariance ==
    ASSUME DistinctWorkers
    PROVE  FleetSpec => []FleetInv
<1>1. FleetInit => FleetInv
  BY FleetInitInv
<1>2. FleetInv /\ [FleetNext]_fvars => FleetInv'
  BY FleetStep
<1> QED
  BY <1>1, <1>2, PTL DEF FleetSpec

\* RetryPolicy.max_attempts bounds the attempts of every task, up to one more
\* per resume, for any number of runners that crash, fail and are reaped, as
\* long as no two of them share a worker_id.
THEOREM BudgetHolds ==
    ASSUME DistinctWorkers
    PROVE  FleetSpec => []AttemptBudget
<1>1. FleetInv => AttemptBudget
  BY DEF FleetInv
<1> QED
  BY <1>1, FleetInvariance, PTL

\* A worker whose lease was reclaimed cannot complete, retry or fail a later
\* attempt: the row refuses its worker_id, or it is still its own attempt.
THEOREM StaleWorkersAreRefused ==
    ASSUME DistinctWorkers
    PROVE  FleetSpec => StaleWorkerCannotFinish
<1>1. ASSUME FleetInv, NEW r \in Runners, Finish(r)
      PROVE  rows[held[r].task].attempts = held[r].attempts
  <2>1. pc[r] \in HoldsTask /\ Holds(held[r].task, WorkerOf[r])
    BY <1>1 DEF Finish, Settle, complete, fail, finish, retry, HoldsTask
  <2> QED
    BY <1>1, <2>1 DEF FleetInv, HeldInv
<1>2. FleetInv /\ [FleetNext]_fvars =>
        [\A r \in Runners : Finish(r) => rows[held[r].task].attempts = held[r].attempts]_fvars
  BY <1>1
<1> QED
  BY <1>2, FleetInvariance, PTL DEF FleetSpec, StaleWorkerCannotFinish
=============================================================================
