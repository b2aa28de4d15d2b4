---------------------------- MODULE RuntimeStore ----------------------------
(***************************************************************************)
(* runtime_store.py, sqlite_store.py and postgres_store.py: the three      *)
(* durable implementations of RuntimeStore, with one goal, one plan, the   *)
(* runtime events and some checkpoints, used by processes that may die     *)
(* between any two steps.  A value with a secret in it is refused before   *)
(* anything is written and is left out.                                    *)
(***************************************************************************)
EXTENDS Integers, Sequences

CONSTANTS
    StoreClients,    \* processes with the store open
    CheckpointKeys,
    MaxSaves         \* bound: save operations

VARIABLES
    storeKind,      \* which of the three stores this is
    storeRows,      \* goals, plans, events: the lines of a file, or the rows of a table
    storeMap,       \* checkpoints.json, or the table checkpoints
    storeTmp,       \* checkpoints.json.tmp
    storeClient,    \* per process: a checkpoint write in progress, its connection
    storeSaves,     \* number of saves so far; the next value is new
    storeAcked,     \* history: what the last save that returned stored
    storeMaybe,     \* history: what later saves that did not return may have stored
    storeLogged,    \* history: runtime events whose append returned
    storeBroken,    \* history: files with a torn line, or a text that breaks its line
    storeOverlap    \* history: two processes rewrote checkpoints.json at once

storeVars == <<storeKind, storeRows, storeMap, storeTmp, storeClient,
               storeSaves, storeAcked, storeMaybe, storeLogged, storeBroken,
               storeOverlap>>

Tables == {"goals", "plans", "events"}
\* storeAcked and storeMaybe are indexed by tables and checkpoint keys alike.
ASSUME StoreAssumption == CheckpointKeys \cap Tables = {}

\* An object: the number of the save that stores it, its resource budget, and
\* its notes: the predictions and counterfactual reports of the steps of a plan
\* and when the plan was made.
Obj(n, budget, notes) == [value |-> n, budget |-> budget, notes |-> notes]
NoValue == Obj(0, "default", "default")
Raises == Obj(-1, "default", "default")
Absent == [file |-> "absent"]
Idle == [pc |-> "idle", key |-> "none", value |-> NoValue, map |-> Absent, conn |-> "ok"]
Empty == [k \in CheckpointKeys |-> NoValue]

StoreInit ==
    /\ storeKind \in {"jsonl", "sqlite", "postgres"}
    /\ storeRows = [t \in Tables |-> <<>>]
    /\ storeMap = Empty
    /\ storeTmp = Absent
    /\ storeClient = [w \in StoreClients |-> Idle]
    /\ storeSaves = 0
    /\ storeAcked = [x \in Tables \cup CheckpointKeys |-> NoValue]
    /\ storeMaybe = [x \in Tables \cup CheckpointKeys |-> {}]
    /\ storeLogged = {}
    /\ storeBroken = {}
    /\ storeOverlap = FALSE

-----------------------------------------------------------------------------
(* What a goal and a plan keep on their way to disk and back: a goal loses  *)
(* its budget, a plan keeps it and loses its notes.                         *)

GoalToDict(g) == [value |-> g.value]
GoalFromDict(d) == Obj(d.value, "default", "default")

SerializePlan(p) == [value |-> p.value, budget |-> p.budget]
DeserializePlan(d) == Obj(d.value, d.budget, "default")

ToRow(t, o) == IF t = "plans" THEN SerializePlan(o) ELSE GoalToDict(o)
FromRow(t, d) == IF t = "plans" THEN DeserializePlan(d) ELSE GoalFromDict(d)

TornRow == [value |-> -1]
GarbledRow == [value |-> -2]

\* _append_jsonl: a line after an unfinished one is swallowed by it.
AppendLine(rows, row) ==
    IF rows # <<>> /\ rows[Len(rows)] = TornRow
    THEN [rows EXCEPT ![Len(rows)] = GarbledRow]
    ELSE Append(rows, row)

\* _read_jsonl: a line that is not JSON makes every read of the file raise.
Corrupt(t) == \E k \in DOMAIN storeRows[t] : storeRows[t][k] \in {TornRow, GarbledRow}

-----------------------------------------------------------------------------
(* Reads.  A goal or plan of the JSONL store is its last line; a table has   *)
(* one row of it.                                                            *)

LastRow(t) ==
    IF storeRows[t] = <<>> THEN NoValue ELSE FromRow(t, storeRows[t][Len(storeRows[t])])

LoadJsonl(t) == {IF Corrupt(t) THEN Raises ELSE LastRow(t)}
LoadPostgres(w, t) == {IF storeClient[w].conn = "ok" THEN LastRow(t) ELSE Raises}

\* A fetch may raise at any time, say on a locked file, and leaves no trace.
LoadSqlite(t) == {LastRow(t), Raises}

\* What load_goal and load_plan may answer.
LoadRow(w, t) ==
    CASE storeKind = "jsonl" -> LoadJsonl(t)
      [] storeKind = "sqlite" -> LoadSqlite(t)
      [] storeKind = "postgres" -> LoadPostgres(w, t)

\* list_runtime_events: every line, or every row in the order of its sequence.
EventsRaise(w) == Corrupt("events") \/ storeClient[w].conn # "ok"
ListEvents == [k \in DOMAIN storeRows["events"] |-> storeRows["events"][k].value]

-----------------------------------------------------------------------------
(* A save that returns makes older values history; one that raises or is cut *)
(* short may or may not have stored its value.                               *)

Acked(x, v) ==
    /\ storeAcked' = [storeAcked EXCEPT ![x] = v]
    /\ storeMaybe' = IF x = "events" THEN storeMaybe ELSE [storeMaybe EXCEPT ![x] = {}]
    /\ storeLogged' = IF x = "events" THEN storeLogged \cup {v.value} ELSE storeLogged
NotAcked(x, v) ==
    /\ storeMaybe' = [storeMaybe EXCEPT ![x] = @ \cup {v}]
    /\ UNCHANGED <<storeAcked, storeLogged>>

NewValue == Obj(storeSaves + 1, "default", "default")
StartSave(w) ==
    /\ storeSaves < MaxSaves /\ storeClient[w].pc = "idle"
    /\ storeSaves' = storeSaves + 1

\* save_goal, save_plan and append_runtime_event of the JSONL store append a
\* line; the process may die in it or after it.  Texts are written as they are
\* (ensure_ascii=False): one with a line separator such as U+2028 in it makes
\* lines that splitlines takes apart, none of them JSON.
SaveJsonl(t, o) ==
    /\ \/ /\ storeRows' = [storeRows EXCEPT ![t] = AppendLine(@, ToRow(t, o))]
          /\ Acked(t, o) \/ NotAcked(t, o)
          /\ UNCHANGED storeBroken
       \/ /\ storeRows' = [storeRows EXCEPT ![t] = AppendLine(@, TornRow)]
          /\ NotAcked(t, o)
          /\ storeBroken' = storeBroken \cup {t}
       \/ /\ storeRows' = [storeRows EXCEPT ![t] = AppendLine(@, GarbledRow)]
          /\ Acked(t, o)
          /\ storeBroken' = storeBroken \cup {t}
    /\ UNCHANGED <<storeMap, storeClient>>

\* SQLiteRuntimeStore._execute: "with self._conn" commits or rolls back; the
\* process may die right after the commit.
SqliteExecute(rows, map, x, v) ==
    /\ \/ storeRows' = rows /\ storeMap' = map /\ (Acked(x, v) \/ NotAcked(x, v))
       \/ UNCHANGED <<storeRows, storeMap>> /\ NotAcked(x, v)
    /\ UNCHANGED <<storeClient, storeBroken>>

\* PostgresRuntimeStore._execute: the statement or the commit may fail, and the
\* answer to a commit may be lost.  Nothing rolls the connection back, so it
\* refuses every later call.
PostgresExecute(w, rows, map, x, v) ==
    /\ \/ /\ storeClient[w].conn = "ok"
          /\ storeRows' = rows /\ storeMap' = map
          /\ Acked(x, v)
          /\ UNCHANGED storeClient
       \/ /\ storeClient[w].conn = "ok"
          /\ \/ UNCHANGED <<storeRows, storeMap>>
             \/ storeRows' = rows /\ storeMap' = map
          /\ NotAcked(x, v)
          /\ storeClient' = [storeClient EXCEPT ![w].conn = "aborted"]
       \/ /\ storeClient[w].conn = "aborted"
          /\ NotAcked(x, v)
          /\ UNCHANGED <<storeRows, storeMap, storeClient>>
    /\ UNCHANGED storeBroken

\* INSERT ... ON CONFLICT DO UPDATE of the one goal or plan there is.
UpsertSqlite(t, o) == [storeRows EXCEPT ![t] = <<ToRow(t, o)>>]
UpsertPostgres(t, o) == [storeRows EXCEPT ![t] = <<ToRow(t, o)>>]

\* INSERT of a runtime event, whose sequence number the database gives.
InsertEventSqlite(o) == [storeRows EXCEPT !["events"] = Append(@, ToRow("events", o))]
InsertEventPostgres(o) == [storeRows EXCEPT !["events"] = Append(@, ToRow("events", o))]

\* save_goal, save_plan and append_runtime_event of the store there is.  An event
\* has no budget, and only a plan has notes.
SaveRow(w, t, budget, notes) ==
    /\ t = "events" => budget = "default"
    /\ t # "plans" => notes = "default"
    /\ StartSave(w)
    /\ LET o == Obj(storeSaves + 1, budget, notes)
       IN  \/ storeKind = "jsonl" /\ SaveJsonl(t, o)
           \/ storeKind = "sqlite" /\ t # "events"
              /\ SqliteExecute(UpsertSqlite(t, o), storeMap, t, o)
           \/ storeKind = "sqlite" /\ t = "events"
              /\ SqliteExecute(InsertEventSqlite(o), storeMap, t, o)
           \/ storeKind = "postgres" /\ t # "events"
              /\ PostgresExecute(w, UpsertPostgres(t, o), storeMap, t, o)
           \/ storeKind = "postgres" /\ t = "events"
              /\ PostgresExecute(w, InsertEventPostgres(o), storeMap, t, o)
    /\ UNCHANGED <<storeKind, storeTmp, storeOverlap>>

\* A read whose statement fails leaves the connection aborted as well.
FetchFails(w) ==
    /\ storeKind = "postgres" /\ storeClient[w].conn = "ok"
    /\ storeClient' = [storeClient EXCEPT ![w].conn = "aborted"]
    /\ UNCHANGED <<storeKind, storeRows, storeMap, storeTmp, storeSaves, storeAcked,
                   storeMaybe, storeLogged, storeBroken, storeOverlap>>

-----------------------------------------------------------------------------
(* save_checkpoint of the JSONL store: read all, write a second file, swap.  *)

ReadCheckpoints(w, k) ==
    /\ storeKind = "jsonl"
    /\ StartSave(w)
    /\ storeClient' = [storeClient EXCEPT ![w] =
         [Idle EXCEPT !.pc = "read", !.key = k, !.value = NewValue,
                      !.map = [storeMap EXCEPT ![k] = NewValue]]]
    /\ storeMaybe' = [storeMaybe EXCEPT ![k] = @ \cup {NewValue}]
    /\ storeOverlap' = (storeOverlap \/ \E v \in StoreClients : storeClient[v].pc # "idle")
    /\ UNCHANGED <<storeKind, storeRows, storeMap, storeTmp, storeAcked, storeLogged,
                   storeBroken>>

\* Defect: checkpoints.json itself is opened for writing.
WriteTmp_InPlace(w) ==
    /\ storeClient[w].pc = "read"
    /\ storeMap' = Empty
    /\ storeTmp' = storeClient[w].map
    /\ storeClient' = [storeClient EXCEPT ![w].pc = "written"]
    /\ UNCHANGED <<storeKind, storeRows, storeSaves, storeAcked, storeMaybe, storeLogged,
                   storeBroken, storeOverlap>>

WriteTmp(w) ==
    /\ storeClient[w].pc = "read"
    /\ storeTmp' = storeClient[w].map
    /\ storeClient' = [storeClient EXCEPT ![w].pc = "written"]
    /\ UNCHANGED <<storeKind, storeRows, storeMap, storeSaves, storeAcked,
                   storeMaybe, storeLogged, storeBroken, storeOverlap>>

\* tmp_path.replace: raises when another process took the file away.
ReplaceCheckpoints(w) ==
    /\ storeClient[w].pc = "written"
    /\ storeClient' = [storeClient EXCEPT ![w] = Idle]
    /\ IF storeTmp = Absent
       THEN UNCHANGED <<storeMap, storeTmp, storeAcked, storeMaybe, storeLogged>>
       ELSE /\ storeMap' = storeTmp
            /\ storeTmp' = Absent
            /\ Acked(storeClient[w].key, storeClient[w].value)
    /\ UNCHANGED <<storeKind, storeRows, storeSaves, storeBroken, storeOverlap>>

\* save_checkpoint of the two databases: one upsert.
CheckpointSqlite(w, k) ==
    /\ storeKind = "sqlite"
    /\ StartSave(w)
    /\ SqliteExecute(storeRows, [storeMap EXCEPT ![k] = NewValue], k, NewValue)
    /\ UNCHANGED <<storeKind, storeTmp, storeOverlap>>

CheckpointPostgres(w, k) ==
    /\ storeKind = "postgres"
    /\ StartSave(w)
    /\ PostgresExecute(w, storeRows, [storeMap EXCEPT ![k] = NewValue], k, NewValue)
    /\ UNCHANGED <<storeKind, storeTmp, storeOverlap>>

\* The process dies and another one opens the store; what it was doing stays
\* as it is.  Opening creates what is missing and changes nothing.
StoreRestart(w) ==
    /\ storeClient[w] # Idle
    /\ storeClient' = [storeClient EXCEPT ![w] = Idle]
    /\ UNCHANGED <<storeKind, storeRows, storeMap, storeTmp, storeSaves,
                   storeAcked, storeMaybe, storeLogged, storeBroken, storeOverlap>>

StoreNext ==
    \E w \in StoreClients :
        \/ \E t \in Tables, b, n \in {"default", "set"} : SaveRow(w, t, b, n)
        \/ \E k \in CheckpointKeys :
             ReadCheckpoints(w, k) \/ CheckpointSqlite(w, k) \/ CheckpointPostgres(w, k)
        \/ WriteTmp(w) \/ ReplaceCheckpoints(w) \/ FetchFails(w) \/ StoreRestart(w)

-----------------------------------------------------------------------------
\* Whatever a process reads back is what the last save that returned stored, or
\* what a later save that did not return may have stored, less what the format
\* drops (the budget of a goal, the notes of a plan): no crash, failed statement
\* or aborted connection loses or revives a value.  The runtime events it lists
\* are in the order they were appended, with every one whose append returned.
\* Apart from a fetch of SQLite that fails by itself, a read raises only on an
\* aborted connection, or for ever after a torn line or a text that broke its
\* line in that very file.  Checkpoints of the JSONL store need their writers to
\* take turns; the databases do not.
ReadsWhatWasSaved ==
    /\ \A w \in StoreClients, t \in {"goals", "plans"} : \A r \in LoadRow(w, t) :
         IF r = Raises
         THEN storeKind = "sqlite" \/ storeClient[w].conn = "aborted" \/ t \in storeBroken
         ELSE \E o \in {storeAcked[t]} \cup storeMaybe[t] :
                r.value = o.value /\ (t = "plans" => r.budget = o.budget)
    /\ \A w \in StoreClients :
         IF EventsRaise(w)
         THEN storeClient[w].conn = "aborted" \/ "events" \in storeBroken
         ELSE /\ \A i, j \in DOMAIN ListEvents : i < j => ListEvents[i] < ListEvents[j]
              /\ storeLogged \subseteq {ListEvents[i] : i \in DOMAIN ListEvents}
    /\ storeKind # "jsonl" \/ ~storeOverlap =>
         \A k \in CheckpointKeys : storeMap[k] \in {storeAcked[k]} \cup storeMaybe[k]
=============================================================================
