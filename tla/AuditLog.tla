------------------------------ MODULE AuditLog ------------------------------
(***************************************************************************)
(* audit.py, replay.py and the event hook of observability.py: a process   *)
(* appends hash-chained events to memory and to a JSONL file, and the file *)
(* is verified and replayed later.  A process may die in the middle of a   *)
(* line, a write may raise, and a later process may open the same file.    *)
(*                                                                         *)
(* The events are those of a step (executed, trust escalated, idempotency  *)
(* key recorded, verified) and of a task; a payload with a secret is       *)
(* replaced by the event audit.secret_blocked.  A hash is the tuple of     *)
(* what is hashed: SHA-256 without collisions.                             *)
(***************************************************************************)
EXTENDS Integers, Sequences, FiniteSets, SequencesExt

CONSTANTS
    FactNames,   \* keys of the world state that tools report
    MaxEvents,   \* bound: events of a process and lines of the file
    MaxOpens,    \* bound: processes that open the file
    MaxFaults    \* bound: writes of a process that raise, and payloads blocked

\* What a process notes in its world state itself: the marker of an idempotency
\* key, and the operator's verdict on what it read back.
OwnFacts == {"idempotency", "read_back_verified"}
StateKeys == FactNames \cup OwnFacts

\* Whoever edits a record changes it: no event is about what an edit puts there.
ASSUME AuditAssumption == "edited" \notin FactNames /\ FactNames \cap OwnFacts = {}

VARIABLES
    auditUp,      \* a process has the log open
    auditEvents,  \* AuditLog.events of that process
    auditFile,    \* the lines of the file
    auditTrust,   \* live state: trust in each fact, "none" when absent
    auditTask,    \* live state: status of one task of the queue
    auditCounted, \* the counters of the metrics sink
    auditOpens,   \* history: how many processes opened the file
    auditLost,    \* history: events of this process not in the file
    auditBlocked, \* history: events of this process that were replaced
    auditTouched, \* history: somebody changed the file
    auditOld      \* history: the lines the last process to open the file found

auditVars == <<auditUp, auditEvents, auditFile, auditTrust, auditTask,
               auditCounted, auditOpens, auditLost, auditBlocked, auditTouched,
               auditOld>>

GenesisHash == <<>>
HashOf(r) == <<r.id, r.type, r.about, r.sequence, r.previous>>
TornLine == [id |-> 0, type |-> "torn", about |-> "", sequence |-> 0,
             previous |-> <<>>, hash |-> <<>>]
GarbledLine == [TornLine EXCEPT !.type = "garbled"]

AuditInit ==
    /\ auditUp = TRUE
    /\ auditEvents = <<>>
    /\ auditFile = <<>>
    /\ auditTrust = [f \in StateKeys |-> "none"]
    /\ auditTask = "none"
    /\ auditCounted = [c \in {"events", "steps_verified"} |-> 0]
    /\ auditOpens = 1
    /\ auditLost = 0
    /\ auditBlocked = 0
    /\ auditTouched = FALSE
    /\ auditOld = 0

-----------------------------------------------------------------------------
\* The next event of this process.
NextRecord(type, about) ==
    LET r == [id |-> auditOpens, type |-> type, about |-> about,
              sequence |-> Len(auditEvents) + 1,
              previous |-> IF auditEvents = <<>> THEN GenesisHash
                           ELSE auditEvents[Len(auditEvents)].hash]
    IN  [id |-> r.id, type |-> r.type, about |-> r.about, sequence |-> r.sequence,
         previous |-> r.previous, hash |-> HashOf(r)]

\* A torn line has no newline: the next write ends it, and it stays unreadable.
WriteLine(file, r) ==
    IF file # <<>> /\ file[Len(file)] = TornLine
    THEN [file EXCEPT ![Len(file)] = GarbledLine]
    ELSE Append(file, r)

\* PrometheusMetrics: the counters an event raises (the other event types have
\* theirs in the same table).
Counters(type) ==
    {"events"} \cup (IF type = "step.verified" THEN {"steps_verified"} ELSE {})

\* compose_sinks: a log sink, then the counters.  Each sink is isolated from the
\* others, so it makes no difference whether the first one raises.
FanOut(type) ==
    [c \in DOMAIN auditCounted |->
        auditCounted[c] + (IF c \in Counters(type) THEN 1 ELSE 0)]

\* record and _append_event: memory, file, sinks.  The write may raise, and
\* then the memory has the event, the file has not and no sink sees it.
Record(type, about) ==
    /\ Len(auditEvents) < MaxEvents /\ Len(auditFile) < MaxEvents
    /\ \E secret \in BOOLEAN :
         LET r == IF secret THEN NextRecord("audit.secret_blocked", type)
                  ELSE NextRecord(type, about)
         IN  /\ auditEvents' = Append(auditEvents, r)
             /\ auditBlocked' = auditBlocked + (IF secret THEN 1 ELSE 0)
             /\ \/ /\ auditFile' = WriteLine(auditFile, r)
                   /\ auditCounted' = FanOut(r.type)
                   /\ UNCHANGED auditLost
                \/ /\ auditLost' = auditLost + 1
                   /\ UNCHANGED <<auditFile, auditCounted>>
             /\ auditBlocked' + auditLost' <= MaxFaults
    /\ UNCHANGED <<auditUp, auditOpens, auditTouched, auditOld>>

\* WorldState.observe and mark_trust: only facts that are there are raised.
ObserveFact(trust, f) == [trust EXCEPT ![f] = "tool_reported"]
MarkTrust(trust, f) == IF trust[f] = "none" THEN trust ELSE [trust EXCEPT ![f] = "verified"]

\* The facts a tool reported enter the state, then the event is recorded.
StepExecuted(f) ==
    /\ auditUp
    /\ auditTrust' = ObserveFact(auditTrust, f)
    /\ Record("step.executed", f)
    /\ UNCHANGED auditTask

\* An executed step passed its checks: what it reported is raised.
TrustEscalated(f) ==
    /\ auditUp /\ auditTrust[f] # "none"
    /\ auditTrust' = MarkTrust(auditTrust, f)
    /\ Record("state.trust_escalated", f)
    /\ UNCHANGED auditTask

\* _record_idempotency_key of a step that has one.
IdempotencyRecorded(f) ==
    /\ auditUp /\ auditTrust[f] = "verified"
    /\ auditTrust' = [auditTrust EXCEPT !["idempotency"] = "verified"]
    /\ Record("step.idempotency_recorded", f)
    /\ UNCHANGED auditTask

StepVerified(f) ==
    /\ auditUp /\ auditTrust[f] = "verified"
    /\ Record("step.verified", f)
    /\ UNCHANGED <<auditTrust, auditTask>>

\* github_operator: the verdict on what was read back enters the state; no event
\* has it.
ReadBackNoted ==
    /\ auditUp
    /\ auditTrust' = [auditTrust EXCEPT !["read_back_verified"] = "verified"]
    /\ UNCHANGED <<auditUp, auditEvents, auditFile, auditTask, auditCounted,
                   auditOpens, auditLost, auditBlocked, auditTouched, auditOld>>

\* The operations of the task queue that the replay knows, and pause and
\* resume, which it does not.
TaskMoves ==
    [task_enqueued |-> [from |-> {"none"}, to |-> "queued"],
     task_claimed |-> [from |-> {"queued"}, to |-> "running"],
     task_completed |-> [from |-> {"running"}, to |-> "succeeded"],
     task_failed |-> [from |-> {"running"}, to |-> "failed"],
     task_timed_out |-> [from |-> {"running"}, to |-> "timed_out"],
     task_cancelled |-> [from |-> {"queued", "running", "paused"}, to |-> "cancelled"],
     task_retry_scheduled |-> [from |-> {"running"}, to |-> "queued"],
     task_paused |-> [from |-> {"running"}, to |-> "paused"],
     task_resumed |-> [from |-> {"paused"}, to |-> "queued"]]

TaskMoved(m) ==
    /\ auditUp /\ auditTask \in TaskMoves[m].from
    /\ auditTask' = TaskMoves[m].to
    /\ Record(m, "task")
    /\ UNCHANGED auditTrust

\* The process ends, possibly in the middle of a line; its memory is gone.
AuditCrash ==
    /\ auditUp
    /\ auditUp' = FALSE
    /\ \/ UNCHANGED auditFile
       \/ Len(auditFile) < MaxEvents /\ auditFile' = WriteLine(auditFile, TornLine)
    /\ auditEvents' = <<>>
    /\ auditTrust' = [f \in StateKeys |-> "none"]
    /\ auditTask' = "none"
    /\ auditCounted' = [c \in DOMAIN auditCounted |-> 0]
    /\ auditBlocked' = 0
    /\ UNCHANGED <<auditOpens, auditLost, auditTouched, auditOld>>

\* AuditLog(path) of another process: the events of the file are not read.
AuditReopen ==
    /\ ~auditUp /\ auditOpens < MaxOpens
    /\ auditUp' = TRUE
    /\ auditOpens' = auditOpens + 1
    /\ auditOld' = Len(auditFile)
    /\ auditLost' = 0
    /\ UNCHANGED <<auditEvents, auditFile, auditTrust, auditTask, auditCounted,
                   auditBlocked, auditTouched>>

\* Someone deletes, edits (with or without a new hash) or swaps records, and
\* leaves what follows.  Who cuts off the last record, or edits a record and
\* hashes it and all that follow again (the last one: only itself), goes
\* unnoticed: that is not among the changes.
AuditTouch ==
    /\ ~auditTouched /\ auditOpens = 1 /\ Len(auditFile) > 1
    /\ auditTouched' = TRUE
    /\ \E k \in 1 .. Len(auditFile) - 1 :
         LET edited == [auditFile[k] EXCEPT !.about = "edited"]
         IN  auditFile' \in
               {RemoveAt(auditFile, k),
                [auditFile EXCEPT ![k] = edited],
                [auditFile EXCEPT ![k] = [edited EXCEPT !.hash = HashOf(edited)]],
                [auditFile EXCEPT ![k] = auditFile[k + 1], ![k + 1] = auditFile[k]]}
    /\ UNCHANGED <<auditUp, auditEvents, auditTrust, auditTask, auditCounted,
                   auditOpens, auditLost, auditBlocked, auditOld>>

StepEvent(f) ==
    StepExecuted(f) \/ TrustEscalated(f) \/ IdempotencyRecorded(f) \/ StepVerified(f)

AuditNext ==
    \/ \E f \in FactNames : StepEvent(f)
    \/ \E m \in DOMAIN TaskMoves : TaskMoved(m)
    \/ ReadBackNoted
    \/ AuditCrash \/ AuditReopen \/ AuditTouch

-----------------------------------------------------------------------------
\* Defect: a record is compared with the one before it, never with its own hash.
RecordIssues_NoOwnHash(file, k) ==
    {issue \in {"sequence", "previous"} :
       \/ issue = "sequence" /\ file[k].sequence # k
       \/ issue = "previous" /\ file[k].previous #
                                (IF k = 1 THEN GenesisHash ELSE file[k - 1].hash)}

RecordIssues(file, k) ==
    {issue \in {"sequence", "previous", "hash"} :
       \/ issue = "sequence" /\ file[k].sequence # k
       \/ issue = "previous" /\ file[k].previous #
                                (IF k = 1 THEN GenesisHash ELSE file[k - 1].hash)
       \/ issue = "hash" /\ file[k].hash # HashOf(file[k])}

\* verify_integrity: the file is read, which raises on a line that is not JSON,
\* and every record is compared with its place in the chain.
VerifyIntegrity(file) ==
    IF \E k \in DOMAIN file : file[k].type \in {"torn", "garbled"} THEN "raises"
    ELSE IF \E k \in DOMAIN file : RecordIssues(file, k) # {} THEN "fail"
    ELSE "ok"

\* What the replay makes of the status of the task at one record.
ReplayTask(status, r) ==
    IF r.type = "task_enqueued" THEN "queued"
    ELSE IF status = "none" \/ r.type \notin DOMAIN TaskMoves THEN status
    ELSE IF r.type = "task_retry_scheduled" THEN "retrying"
    ELSE IF r.type \in {"task_paused", "task_resumed"} THEN status
    ELSE TaskMoves[r.type].to

\* Defect: an event of a step puts the fact back to what the tool reported.
ReplayFacts_Lowers(trust, r) ==
    [f \in DOMAIN trust |->
        IF r.about # f THEN trust[f]
        ELSE IF r.type \in {"step.executed", "step.verified"} THEN "tool_reported"
        ELSE IF r.type = "state.trust_escalated" THEN "verified"
        ELSE trust[f]]

ReplayFacts(trust, r) ==
    [f \in DOMAIN trust |->
        IF r.about # f THEN trust[f]
        ELSE IF r.type = "step.executed" THEN "tool_reported"
        ELSE IF r.type \in {"state.trust_escalated", "step.verified"} /\ trust[f] # "none"
             THEN "verified"
        ELSE trust[f]]

\* replay_records of a file that verifies: one pass over the records.
Replay(file) ==
    LET upTo[k \in 0 .. Len(file)] ==
            IF k = 0 THEN [facts |-> [f \in StateKeys |-> "none"], task |-> "none"]
            ELSE [facts |-> ReplayFacts(upTo[k - 1].facts, file[k]),
                  task |-> ReplayTask(upTo[k - 1].task, file[k])]
    IN  upTo[Len(file)]

-----------------------------------------------------------------------------
\* The log of one process that lost no event verifies until someone changes the
\* file, and never once a record that others follow was removed, edited or moved:
\* the chain tells the two apart whatever was recorded, blocked as a secret or
\* cut short by a crash.  The events of two
\* processes in one file never pass for one log.
AuditVerdict ==
    /\ auditOpens = 1 /\ ~auditTouched /\ auditLost = 0 =>
         VerifyIntegrity(auditFile) # "fail"
    /\ auditOpens = 1 /\ auditTouched => VerifyIntegrity(auditFile) # "ok"
    /\ 0 < auditOld /\ auditOld < Len(auditFile) => VerifyIntegrity(auditFile) # "ok"

\* What is derived from the events agrees with the process that recorded them.
\* Replaying its file gives the facts that tools reported to it, with their
\* trust, never a fact it noted itself (an idempotency marker has an event that
\* the replay passes over, a verdict on what was read back has none), and the
\* status of its task up to what the replay does not know (a paused task still looks
\* claimed, a retried one is called "retrying"), unless an event was lost or
\* blocked.  The counters agree with the file, although another sink in front
\* of them raises on any event.
DerivedViewsAgree ==
    auditUp /\ auditOpens = 1 /\ ~auditTouched =>
        /\ auditLost = 0 /\ auditBlocked = 0 =>
             LET replayed == Replay(auditFile)
             IN  /\ replayed.facts = [f \in StateKeys |->
                      IF f \in OwnFacts THEN "none" ELSE auditTrust[f]]
                 /\ \/ replayed.task = auditTask
                    \/ replayed.task = "retrying" /\ auditTask = "queued"
                    \/ replayed.task = "running" /\ auditTask \in {"paused", "queued"}
        /\ auditCounted["events"] = Len(auditFile)
        /\ auditCounted["steps_verified"] =
             Cardinality({k \in 1 .. Len(auditFile) : auditFile[k].type = "step.verified"})
=============================================================================
