---------------------------- MODULE MemoryStore -----------------------------
(***************************************************************************)
(* memory.py: records with a time to live, held in a list and an index and *)
(* written to one file as a whole after every change.  The write may raise *)
(* or the process die in the middle of it, when the list and the index are *)
(* changed already; a later process loads the file.  Scope and type filter *)
(* like the key and stand for the key.  One process has the file open at a *)
(* time: of two, each would write its own list over the other's.           *)
(***************************************************************************)
EXTENDS Integers, Sequences, FiniteSets

CONSTANTS
    MemoryKeys,
    TTLs,          \* times to live; NoTTL among them
    NoTTL,
    MaxRecords,    \* bound: records remembered
    MaxMemoryTime  \* bound: clock

\* A time to live is a number of seconds, never negative (__post_init__), or None.
ASSUME MemoryAssumption == TTLs \ {NoTTL} \subseteq Nat

VARIABLES
    memUp,      \* a process has the store open
    memItems,   \* MemoryStore.items
    memIndex,   \* MemoryStore._index
    memFile,    \* the list in the file, or that it is torn
    memNow,     \* clock
    memBehind,  \* history: the last write raised, so the file may lack changes
    memWritten, \* history: all records for which remember returned
    memUnanswered, \* history: all those for which it raised or never returned
    memPurged   \* history: all living records that a purge was told to remove

memVars == <<memUp, memItems, memIndex, memFile, memNow, memBehind,
             memWritten, memUnanswered, memPurged>>

TornFile == [torn |-> TRUE, list |-> <<>>]
FileOf(list) == [torn |-> FALSE, list |-> list]

\* plain: json.dumps takes the value.
MemoryRecords == [key : MemoryKeys, ttl : TTLs, at : Nat, id : Nat, plain : BOOLEAN]

\* [item for item in items if item in some], as a recursion over the prefixes.
Only(items, some) ==
    LET upTo[i \in 0 .. Len(items)] ==
            IF i = 0 THEN <<>>
            ELSE IF items[i] \in some THEN Append(upTo[i - 1], items[i])
            ELSE upTo[i - 1]
    IN  upTo[Len(items)]

Under(k) == {r \in MemoryRecords : r.key = k}
IndexOf(items) == [k \in MemoryKeys |-> Only(items, Under(k))]

MemoryInit ==
    /\ memUp = TRUE
    /\ memItems = <<>>
    /\ memIndex = IndexOf(<<>>)
    /\ memFile = FileOf(<<>>)
    /\ memNow = 0
    /\ memBehind = FALSE
    /\ memWritten = {} /\ memUnanswered = {} /\ memPurged = {}

-----------------------------------------------------------------------------
IsExpired(r, now) == r.ttl # NoTTL /\ now >= r.at + r.ttl
Unexpired(now) == {r \in MemoryRecords : ~IsExpired(r, now)}

\* recall: the records of the key, the expired ones only when asked for.
Recall(k, includeExpired) ==
    Only(memIndex[k], IF includeExpired THEN MemoryRecords ELSE Unexpired(memNow))

\* json.dumps raises on a value it does not take, and so for the whole list.
CanDump(items) == \A i \in DOMAIN items : items[i].plain

\* _persist: the text is made, the file truncated and the text written.  Making
\* the text, the directory or the file raises and leaves what was there; the
\* write raises and leaves a part of it.  The process may die in any of them.
Persist(items) ==
    /\ memUp' \in BOOLEAN
    /\ \/ CanDump(items) /\ memFile' = FileOf(items) /\ memBehind' = FALSE
       \/ memFile' = memFile /\ memBehind' = TRUE
       \/ CanDump(items) /\ memFile' = TornFile /\ memBehind' = TRUE

\* The list and the index have the record before the write that may raise.
Remember(k, ttl, plain) ==
    /\ memUp /\ Cardinality(memWritten \cup memUnanswered) < MaxRecords
    /\ LET r == [key |-> k, ttl |-> ttl, at |-> memNow,
                 id |-> Cardinality(memWritten \cup memUnanswered), plain |-> plain]
       IN  /\ memItems' = Append(memItems, r)
           /\ memIndex' = [memIndex EXCEPT ![k] = Append(@, r)]
           /\ Persist(memItems')
           /\ \/ /\ memUp' /\ ~memBehind'
                 /\ memWritten' = memWritten \cup {r} /\ UNCHANGED memUnanswered
              \/ /\ ~memUp' \/ memBehind'
                 /\ memUnanswered' = memUnanswered \cup {r} /\ UNCHANGED memWritten
    /\ UNCHANGED <<memNow, memPurged>>

\* Defect: the index is left as it was.
PurgeExpired_KeepsIndex(now) ==
    /\ memUp
    /\ memItems' = Only(memItems, Unexpired(now))
    /\ IF Len(memItems') < Len(memItems) THEN Persist(memItems')
       ELSE UNCHANGED <<memFile, memUp, memBehind>>
    /\ UNCHANGED <<memIndex, memNow, memWritten, memUnanswered, memPurged>>

\* purge_expired(now=): the time is the clock's or the caller's; nothing is
\* written when nothing was removed.
PurgeExpired(now) ==
    /\ memUp
    /\ memItems' = Only(memItems, Unexpired(now))
    /\ memIndex' = IndexOf(memItems')
    /\ IF Len(memItems') < Len(memItems) THEN Persist(memItems')
       ELSE UNCHANGED <<memFile, memUp, memBehind>>
    /\ memPurged' = memPurged \cup
            {r \in memWritten : IsExpired(r, now) /\ ~IsExpired(r, memNow)}
    /\ UNCHANGED <<memNow, memWritten, memUnanswered>>

MemoryStop ==
    /\ memUp
    /\ memUp' = FALSE
    /\ UNCHANGED <<memItems, memIndex, memFile, memNow, memBehind,
                   memWritten, memUnanswered, memPurged>>

\* MemoryStore(path): raises for ever on a torn file.
MemoryOpen ==
    /\ ~memUp /\ ~memFile.torn
    /\ memUp' = TRUE
    /\ memItems' = memFile.list
    /\ memIndex' = IndexOf(memFile.list)
    /\ memBehind' = FALSE
    /\ UNCHANGED <<memFile, memNow, memWritten, memUnanswered, memPurged>>

MemoryTick ==
    /\ memNow < MaxMemoryTime
    /\ memNow' = memNow + 1
    /\ UNCHANGED <<memUp, memItems, memIndex, memFile, memBehind,
                   memWritten, memUnanswered, memPurged>>

MemoryNext ==
    \/ \E k \in MemoryKeys, ttl \in TTLs, plain \in BOOLEAN : Remember(k, ttl, plain)
    \/ \E now \in 0 .. MaxMemoryTime : PurgeExpired(now)
    \/ MemoryStop \/ MemoryOpen \/ MemoryTick

-----------------------------------------------------------------------------
Live(r) == r.ttl = NoTTL \/ memNow - r.at < r.ttl

\* While a process runs, recall returns every record still alive for which
\* remember ever returned, across restarts, failed writes and purges, unless a
\* purge was given a time at which it is over; and no other than these and those
\* whose remember did not return.  The list and the index agree, and the file
\* with them unless the last write raised.
RecallsTheLiving ==
    memUp =>
        /\ \A k \in MemoryKeys :
             LET found == {Recall(k, FALSE)[i] : i \in DOMAIN Recall(k, FALSE)}
             IN  /\ \A r \in memWritten \ memPurged :
                       r.key = k /\ Live(r) => r \in found
                 /\ \A r \in found :
                       r \in memWritten \cup memUnanswered /\ r.key = k /\ Live(r)
        /\ \A k \in MemoryKeys :
             Recall(k, TRUE) = Only(memItems, Under(k))
        /\ ~memBehind => memFile = FileOf(memItems)
=============================================================================
