---------------------------- MODULE Records_proofs ----------------------------
(***************************************************************************)
(* What is kept and read back: the runtime store, the memory and the audit *)
(* log, for any number of clients, objects, keys, records and events.      *)
(* Each is proved about alone: they share no state.                        *)
(***************************************************************************)
EXTENDS RuntimeStore, MemoryStore, AuditLog,
        WellFoundedInduction, SequenceTheorems, FiniteSetTheorems, TLAPS

-----------------------------------------------------------------------------
\* A non-empty set of natural numbers has a least element.
LEMMA LeastElement ==
    ASSUME NEW T, T \subseteq Nat, T # {}
    PROVE  \E x \in T : \A y \in T : x <= y
<1> DEFINE R == OpToRel(<, Nat)
<1>1. IsWellFoundedOn(R, Nat)
  BY NatLessThanWellFounded
<1>2. \A x, y \in Nat : x < y => <<x, y>> \in R
  BY DEF OpToRel
<1> HIDE DEF R
<1>3. PICK x \in T : \A y \in T : ~ (<<y, x>> \in R)
  BY <1>1, WFMin
<1>4. ASSUME NEW y \in T PROVE x <= y
  <2>1. x \in Nat /\ y \in Nat
    BY <1>3, <1>4
  <2>2. ~(y < x)
    BY <1>2, <1>3, <1>4, <2>1
  <2> QED
    BY <2>1, <2>2
<1> QED
  BY <1>3, <1>4
-----------------------------------------------------------------------------
(* The durable runtime stores.                                              *)

StoreSpec == StoreInit /\ [][StoreNext]_storeVars

Objects == [value : Int, budget : {"default", "set"}, notes : {"default", "set"}]
StoredRows == [value : Int] \cup [value : Int, budget : {"default", "set"}]
Saveds == Tables \cup CheckpointKeys

StoreTypeOK ==
    /\ storeKind \in {"jsonl", "sqlite", "postgres"}
    /\ storeRows \in [Tables -> Seq(StoredRows)]
    /\ storeSaves \in Nat
    /\ storeAcked \in [Saveds -> Objects]
    /\ storeMaybe \in [Saveds -> SUBSET Objects]

\* A line that no read gets past.
Broken(rows) == \E k \in DOMAIN rows : rows[k] \in {TornRow, GarbledRow}

MaybeSaved(x) == {storeAcked[x]} \cup storeMaybe[x]

\* The last row of a goal or plan is what a save that counts has stored.
LastIsSaved(t) ==
    /\ LastRow(t).value \in Nat
    /\ \E o \in MaybeSaved(t) :
         LastRow(t).value = o.value /\ (t = "plans" => LastRow(t).budget = o.budget)

\* The events, numbered by the saves that stored them, come in their order.
EventsInOrder ==
    LET rows == storeRows["events"]
    IN  /\ \A i \in DOMAIN rows : rows[i].value \in 1 .. storeSaves
        /\ \A i, j \in DOMAIN rows : i < j => rows[i].value < rows[j].value
        /\ \A v \in storeLogged : \E i \in DOMAIN rows : rows[i].value = v

RowsInv(t) ==
    /\ storeKind # "jsonl" => ~Broken(storeRows[t])
    /\ Broken(storeRows[t]) => t \in storeBroken
    /\ ~Broken(storeRows[t]) => IF t = "events" THEN EventsInOrder ELSE LastIsSaved(t)

\* A checkpoint write in progress of the JSONL store, whose writers take turns:
\* it holds the map that is on disk but for its own key.
WriterOf(w) ==
    LET c == storeClient[w]
    IN  c.pc # "idle" =>
          /\ \A v \in StoreClients \ {w} : storeClient[v].pc = "idle"
          /\ c.key \in CheckpointKeys /\ c.map \in [CheckpointKeys -> Objects]
          /\ c.map[c.key] = c.value /\ c.value \in storeMaybe[c.key]
          /\ \A k \in CheckpointKeys \ {c.key} : c.map[k] = storeMap[k]
          /\ c.pc = "written" => storeTmp = c.map

MapInv ==
    storeKind # "jsonl" \/ ~storeOverlap =>
        /\ storeMap \in [CheckpointKeys -> Objects]
        /\ \A k \in CheckpointKeys : storeMap[k] \in MaybeSaved(k)
        /\ \A w \in StoreClients : WriterOf(w)

ClientInv ==
    /\ DOMAIN storeClient = StoreClients
    /\ \A w \in StoreClients :
         /\ storeClient[w] = [pc |-> storeClient[w].pc, key |-> storeClient[w].key,
                              value |-> storeClient[w].value, map |-> storeClient[w].map,
                              conn |-> storeClient[w].conn]
         /\ storeClient[w].pc \in {"idle", "read", "written"}
         /\ storeClient[w].conn \in {"ok", "aborted"}
         /\ storeKind # "jsonl" => storeClient[w].pc = "idle"
         /\ storeClient[w].pc # "idle" =>
              storeClient[w].key \in CheckpointKeys /\ storeClient[w].value \in Objects

StoreInv == StoreTypeOK /\ (\A t \in Tables : RowsInv(t)) /\ MapInv /\ ClientInv

-----------------------------------------------------------------------------
\* What an object keeps in its row: its number, and a plan its budget but not its
\* notes.
LEMMA RowOfObject ==
    ASSUME NEW t \in Tables, NEW n \in Nat \ {0}, NEW b \in {"default", "set"}, NEW e \in {"default", "set"}
    PROVE  /\ Obj(n, b, e) \in Objects /\ Obj(n, b, e).value = n
           /\ ToRow(t, Obj(n, b, e)) \in StoredRows
           /\ ToRow(t, Obj(n, b, e)) \notin {TornRow, GarbledRow}
           /\ ToRow(t, Obj(n, b, e)).value = n
           /\ FromRow(t, ToRow(t, Obj(n, b, e))).value = n
           /\ t = "plans" => FromRow(t, ToRow(t, Obj(n, b, e))).budget = Obj(n, b, e).budget
<1>1. Obj(n, b, e) \in Objects /\ Obj(n, b, e).value = n /\ Obj(n, b, e).budget = b
  BY DEF Obj, Objects
<1>2. CASE t = "plans"
  <2>1. ToRow(t, Obj(n, b, e)) = [value |-> n, budget |-> b]
    BY <1>1, <1>2 DEF ToRow, SerializePlan
  <2>2. FromRow(t, ToRow(t, Obj(n, b, e))) = [value |-> n, budget |-> b, notes |-> "default"]
    BY <1>2, <2>1 DEF FromRow, DeserializePlan, Obj
  <2>3. [value |-> n, budget |-> b] \in StoredRows
    BY DEF StoredRows
  <2> QED
    BY <1>1, <2>1, <2>2, <2>3 DEF TornRow, GarbledRow
<1>3. CASE t # "plans"
  <2>1. ToRow(t, Obj(n, b, e)) = [value |-> n]
    BY <1>1, <1>3 DEF ToRow, GoalToDict
  <2>2. FromRow(t, ToRow(t, Obj(n, b, e))) = [value |-> n, budget |-> "default", notes |-> "default"]
    BY <1>3, <2>1 DEF FromRow, GoalFromDict, Obj
  <2>3. [value |-> n] \in StoredRows
    BY DEF StoredRows
  <2> QED
    BY <1>1, <1>3, <2>1, <2>2, <2>3 DEF TornRow, GarbledRow
<1> QED
  BY <1>2, <1>3

\* A line never mends a broken file; to a whole one it is added.
LEMMA AppendLineFacts ==
    ASSUME NEW rows \in Seq(StoredRows), NEW row \in StoredRows
    PROVE  /\ AppendLine(rows, row) \in Seq(StoredRows)
           /\ Broken(rows) => Broken(AppendLine(rows, row))
           /\ row \in {TornRow, GarbledRow} => Broken(AppendLine(rows, row))
           /\ ~Broken(rows) => AppendLine(rows, row) = Append(rows, row)
<1>1. GarbledRow \in StoredRows
  BY DEF GarbledRow, StoredRows
<1>2. /\ Len(rows) \in Nat /\ DOMAIN rows = 1 .. Len(rows)
      /\ Append(rows, row) \in Seq(StoredRows) /\ Len(Append(rows, row)) = Len(rows) + 1
      /\ DOMAIN Append(rows, row) = 1 .. (Len(rows) + 1)
      /\ \A k \in 1 .. Len(rows) : Append(rows, row)[k] = rows[k]
      /\ Append(rows, row)[Len(rows) + 1] = row
  BY AppendProperties, LenProperties
<1>3. CASE rows # <<>> /\ rows[Len(rows)] = TornRow
  <2>1. Len(rows) \in 1 .. Len(rows) /\ Broken(rows)
    <3>1. Len(rows) # 0
      BY <1>3, EmptySeq
    <3>2. Len(rows) \in 1 .. Len(rows)
      BY <1>2, <3>1
    <3> QED
      BY <1>2, <1>3, <3>2 DEF Broken
  <2>2. AppendLine(rows, row) = [rows EXCEPT ![Len(rows)] = GarbledRow]
    BY <1>3 DEF AppendLine
  <2>3. /\ [rows EXCEPT ![Len(rows)] = GarbledRow] \in Seq(StoredRows)
        /\ [rows EXCEPT ![Len(rows)] = GarbledRow][Len(rows)] = GarbledRow
        /\ DOMAIN [rows EXCEPT ![Len(rows)] = GarbledRow] = 1 .. Len(rows)
    BY <1>1, <1>2, <2>1, ExceptSeq
  <2>4. Broken(AppendLine(rows, row))
    BY <2>1, <2>2, <2>3 DEF Broken
  <2> QED
    BY <2>1, <2>2, <2>3, <2>4
<1>4. CASE ~(rows # <<>> /\ rows[Len(rows)] = TornRow)
  <2>1. AppendLine(rows, row) = Append(rows, row)
    BY <1>4 DEF AppendLine
  <2>2. Len(rows) + 1 \in 1 .. (Len(rows) + 1) /\ \A k \in 1 .. Len(rows) : k \in 1 .. (Len(rows) + 1)
    BY <1>2
  <2>3. Broken(rows) => Broken(Append(rows, row))
    BY <1>2, <2>2 DEF Broken
  <2>4. row \in {TornRow, GarbledRow} => Broken(Append(rows, row))
    BY <1>2, <2>2 DEF Broken
  <2> QED
    BY <1>2, <2>1, <2>3, <2>4
<1> QED
  BY <1>3, <1>4

\* A whole file or table with a whole row added to it is whole.
LEMMA AppendWhole ==
    ASSUME NEW rows \in Seq(StoredRows), NEW row \in StoredRows
    PROVE  /\ Append(rows, row) \in Seq(StoredRows)
           /\ Append(rows, row) # <<>> /\ Append(rows, row)[Len(Append(rows, row))] = row
           /\ DOMAIN Append(rows, row) = DOMAIN rows \cup {Len(rows) + 1}
           /\ Len(rows) + 1 \notin DOMAIN rows /\ DOMAIN rows = 1 .. Len(rows) /\ Len(rows) \in Nat
           /\ \A k \in DOMAIN rows : Append(rows, row)[k] = rows[k]
           /\ Append(rows, row)[Len(rows) + 1] = row
           /\ ~Broken(rows) /\ row \notin {TornRow, GarbledRow} => ~Broken(Append(rows, row))
<1>1. /\ Len(rows) \in Nat /\ DOMAIN rows = 1 .. Len(rows)
      /\ Append(rows, row) \in Seq(StoredRows) /\ Len(Append(rows, row)) = Len(rows) + 1
      /\ DOMAIN Append(rows, row) = 1 .. (Len(rows) + 1)
      /\ \A k \in 1 .. Len(rows) : Append(rows, row)[k] = rows[k]
      /\ Append(rows, row)[Len(rows) + 1] = row
      /\ Append(rows, row) # <<>>
  BY AppendProperties, LenProperties
<1>2. 1 .. (Len(rows) + 1) = (1 .. Len(rows)) \cup {Len(rows) + 1} /\ Len(rows) + 1 \notin 1 .. Len(rows)
  BY <1>1
<1>3. ~Broken(rows) /\ row \notin {TornRow, GarbledRow} => ~Broken(Append(rows, row))
  BY <1>1, <1>2 DEF Broken
<1> QED
  BY <1>1, <1>2, <1>3

\* What a save leaves in the histories, whether or not it returned.
LEMMA HistoryFacts ==
    ASSUME StoreTypeOK, NEW x \in Saveds, NEW v \in Objects, Acked(x, v) \/ NotAcked(x, v)
    PROVE  /\ storeAcked' \in [Saveds -> Objects] /\ storeMaybe' \in [Saveds -> SUBSET Objects]
           /\ \A y \in Saveds \ {x} : storeAcked'[y] = storeAcked[y] /\ storeMaybe'[y] = storeMaybe[y]
           /\ x # "events" => storeLogged' = storeLogged /\ v \in MaybeSaved(x)'
           /\ x = "events" => storeLogged' \in {storeLogged, storeLogged \cup {v.value}}
           /\ NotAcked(x, v) => /\ storeLogged' = storeLogged
                                /\ MaybeSaved(x) \subseteq MaybeSaved(x)'
<1>1. storeAcked \in [Saveds -> Objects] /\ storeMaybe \in [Saveds -> SUBSET Objects]
  BY DEF StoreTypeOK
<1>2. CASE Acked(x, v)
  <2>1. /\ storeAcked' = [storeAcked EXCEPT ![x] = v]
        /\ storeMaybe' = IF x = "events" THEN storeMaybe ELSE [storeMaybe EXCEPT ![x] = {}]
        /\ storeLogged' = IF x = "events" THEN storeLogged \cup {v.value} ELSE storeLogged
    BY <1>2 DEF Acked
  <2>2. storeAcked' \in [Saveds -> Objects] /\ storeMaybe' \in [Saveds -> SUBSET Objects]
    BY <1>1, <2>1
  <2>3. /\ \A y \in Saveds \ {x} :
             storeAcked'[y] = storeAcked[y] /\ storeMaybe'[y] = storeMaybe[y]
        /\ storeAcked'[x] = v
    BY <1>1, <2>1
  <2>4. v \in MaybeSaved(x)'
    BY <2>3 DEF MaybeSaved
  <2>5. NotAcked(x, v) => /\ storeLogged' = storeLogged
                          /\ MaybeSaved(x) \subseteq MaybeSaved(x)'
    <3> SUFFICES ASSUME NotAcked(x, v)
                 PROVE  storeLogged' = storeLogged /\ MaybeSaved(x) \subseteq MaybeSaved(x)'
      OBVIOUS
    <3>1. /\ storeMaybe' = [storeMaybe EXCEPT ![x] = @ \cup {v}]
          /\ UNCHANGED <<storeAcked, storeLogged>>
      BY DEF NotAcked
    <3>2. storeMaybe'[x] = storeMaybe[x] \cup {v}
      BY <1>1, <3>1
    <3> QED
      BY <3>1, <3>2 DEF MaybeSaved
  <2> QED
    BY <2>1, <2>2, <2>3, <2>4, <2>5
<1>3. CASE NotAcked(x, v)
  <2>1. /\ storeMaybe' = [storeMaybe EXCEPT ![x] = @ \cup {v}]
        /\ UNCHANGED <<storeAcked, storeLogged>>
    BY <1>3 DEF NotAcked
  <2>2. storeMaybe'[x] = storeMaybe[x] \cup {v} /\ storeMaybe' \in [Saveds -> SUBSET Objects]
    BY <1>1, <2>1
  <2>3. \A y \in Saveds \ {x} : storeAcked'[y] = storeAcked[y] /\ storeMaybe'[y] = storeMaybe[y]
    BY <1>1, <2>1
  <2>4. v \in MaybeSaved(x)' /\ MaybeSaved(x) \subseteq MaybeSaved(x)'
    BY <2>1, <2>2 DEF MaybeSaved
  <2> QED
    BY <1>1, <2>1, <2>2, <2>3, <2>4
<1> QED
  BY <1>2, <1>3

\* A table that a step leaves alone.
LEMMA TableKept ==
    ASSUME StoreTypeOK, NEW t \in Tables, RowsInv(t), UNCHANGED storeKind,
           storeRows'[t] = storeRows[t],
           storeSaves' \in Nat, storeSaves <= storeSaves', storeBroken \subseteq storeBroken',
           t # "events" => MaybeSaved(t) \subseteq MaybeSaved(t)',
           t = "events" => UNCHANGED storeLogged
    PROVE  RowsInv(t)'
<1>1. storeSaves \in Nat
  BY DEF StoreTypeOK
<1>2. CASE t = "events"
  <2>1. EventsInOrder => EventsInOrder'
    <3> SUFFICES ASSUME EventsInOrder PROVE EventsInOrder'
      OBVIOUS
    <3>1. \A i \in DOMAIN storeRows["events"] : storeRows["events"][i].value \in 1 .. storeSaves'
      <4>1. \A i \in DOMAIN storeRows["events"] : storeRows["events"][i].value \in 1 .. storeSaves
        BY DEF EventsInOrder
      <4>2. \A n \in 1 .. storeSaves : n \in 1 .. storeSaves'
        BY <1>1
      <4> QED
        BY <4>1, <4>2
    <3> QED
      BY <1>2, <3>1 DEF EventsInOrder
  <2> QED
    BY <1>2, <2>1 DEF RowsInv
<1>3. CASE t # "events"
  <2>1. LastRow(t)' = LastRow(t)
    BY DEF LastRow
  <2> QED
    BY <1>3, <2>1 DEF RowsInv, LastIsSaved
<1> QED
  BY <1>2, <1>3

\* A table that gets the row of a new save.
LEMMA TableGrows ==
    ASSUME StoreTypeOK, NEW t \in Tables, RowsInv(t), UNCHANGED storeKind,
           NEW b \in {"default", "set"}, NEW e \in {"default", "set"}, storeSaves' = storeSaves + 1,
           storeBroken \subseteq storeBroken',
           LET o == Obj(storeSaves + 1, b, e)
           IN  /\ \/ ~Broken(storeRows[t]) /\ storeRows'[t] = Append(storeRows[t], ToRow(t, o))
                  \/ t # "events" /\ storeRows'[t] = <<ToRow(t, o)>>
               /\ t # "events" => o \in MaybeSaved(t)'
               /\ t = "events" => storeLogged' \in {storeLogged, storeLogged \cup {o.value}}
    PROVE  RowsInv(t)' /\ storeRows'[t] \in Seq(StoredRows)
<1>1. storeSaves \in Nat /\ storeRows[t] \in Seq(StoredRows)
  BY DEF StoreTypeOK
<1>2. PICK n \in Nat \ {0} : n = storeSaves + 1
  BY <1>1
<1>3. PICK row \in StoredRows : row = ToRow(t, Obj(n, b, e))
  BY RowOfObject
<1>4. /\ Obj(n, b, e).value = n /\ row \notin {TornRow, GarbledRow} /\ row.value = n
      /\ FromRow(t, row).value = n
      /\ t = "plans" => FromRow(t, row).budget = Obj(n, b, e).budget
  BY <1>3, RowOfObject
<1>5. PICK rows \in Seq(StoredRows) : rows = storeRows[t]
  BY <1>1
<1>6. \/ ~Broken(rows) /\ storeRows'[t] = Append(rows, row)
      \/ t # "events" /\ storeRows'[t] = <<row>>
  BY <1>2, <1>3, <1>5
<1>7. CASE t # "events"
  <2>1. /\ storeRows'[t] \in Seq(StoredRows) /\ storeRows'[t] # <<>>
        /\ storeRows'[t][Len(storeRows'[t])] = row /\ ~Broken(storeRows'[t])
    <3>1. CASE ~Broken(rows) /\ storeRows'[t] = Append(rows, row)
      BY <1>4, <3>1, AppendWhole
    <3>2. CASE storeRows'[t] = <<row>>
      <4>1. <<row>> \in Seq(StoredRows) /\ Len(<<row>>) = 1 /\ <<row>>[1] = row /\ <<row>> # <<>>
        OBVIOUS
      <4>2. DOMAIN <<row>> = {1}
        OBVIOUS
      <4> QED
        BY <1>4, <3>2, <4>1, <4>2 DEF Broken
    <3> QED
      BY <1>6, <3>1, <3>2
  <2>2. LastRow(t)' = FromRow(t, row)
    BY <2>1 DEF LastRow
  <2>3. LastIsSaved(t)'
    <3>1. PICK o : o = Obj(n, b, e)
      OBVIOUS
    <3>2. o \in MaybeSaved(t)' /\ o.value = n
      BY <1>2, <1>4, <1>7, <3>1
    <3>3. LastRow(t)'.value = n /\ (t = "plans" => LastRow(t)'.budget = o.budget)
      BY <1>4, <2>2, <3>1
    <3> QED
      BY <3>2, <3>3 DEF LastIsSaved
  <2> QED
    BY <1>7, <2>1, <2>3 DEF RowsInv
<1>8. CASE t = "events"
  <2>1. ~Broken(rows) /\ storeRows'["events"] = Append(rows, row) /\ EventsInOrder
    BY <1>5, <1>6, <1>8 DEF RowsInv
  <2>2. /\ Append(rows, row) \in Seq(StoredRows)
        /\ DOMAIN Append(rows, row) = DOMAIN rows \cup {Len(rows) + 1}
        /\ DOMAIN rows = 1 .. Len(rows) /\ Len(rows) \in Nat
        /\ \A k \in DOMAIN rows : Append(rows, row)[k] = rows[k]
        /\ Append(rows, row)[Len(rows) + 1] = row
        /\ ~Broken(Append(rows, row))
    BY <1>4, <2>1, AppendWhole
  <2>3. /\ \A i \in DOMAIN rows : rows[i].value \in 1 .. storeSaves
        /\ \A i, j \in DOMAIN rows : i < j => rows[i].value < rows[j].value
        /\ \A v \in storeLogged : \E i \in DOMAIN rows : rows[i].value = v
    BY <1>5, <1>8, <2>1 DEF EventsInOrder
  <2>4. PICK new : new = Append(rows, row)
    OBVIOUS
  <2>5. /\ DOMAIN new = DOMAIN rows \cup {Len(rows) + 1}
        /\ \A k \in DOMAIN rows : new[k].value = rows[k].value
        /\ new[Len(rows) + 1].value = n
    BY <1>4, <2>2, <2>4
  <2>6. \A i \in DOMAIN new : new[i].value \in 1 .. storeSaves'
    <3>1. \A m \in 1 .. storeSaves : m \in 1 .. storeSaves'
      BY <1>1
    <3>2. n \in 1 .. storeSaves'
      BY <1>1, <1>2
    <3> QED
      BY <2>3, <2>5, <3>1, <3>2
  <2>7. \A i, j \in DOMAIN new : i < j => new[i].value < new[j].value
    <3> SUFFICES ASSUME NEW i \in DOMAIN new, NEW j \in DOMAIN new, i < j
                 PROVE  new[i].value < new[j].value
      OBVIOUS
    <3>1. i \in DOMAIN rows
      BY <2>2, <2>5
    <3>2. rows[i].value \in 1 .. storeSaves
      BY <2>3, <3>1
    <3>3. CASE j \in DOMAIN rows
      BY <2>3, <2>5, <3>1, <3>3
    <3>4. CASE j = Len(rows) + 1
      BY <1>1, <1>2, <2>5, <3>1, <3>2, <3>4
    <3> QED
      BY <2>5, <3>3, <3>4
  <2>8. \A v \in storeLogged' : \E i \in DOMAIN new : new[i].value = v
    <3>1. storeLogged' \in {storeLogged, storeLogged \cup {n}}
      BY <1>2, <1>4, <1>8
    <3> QED
      BY <2>3, <2>5, <3>1
  <2>9. EventsInOrder'
    BY <2>1, <2>4, <2>6, <2>7, <2>8 DEF EventsInOrder
  <2> QED
    BY <1>8, <2>1, <2>2, <2>9 DEF RowsInv
<1> QED
  BY <1>7, <1>8

\* A file that has become broken, or stays so.
LEMMA TableBreaks ==
    ASSUME NEW t \in Tables, storeKind = "jsonl", UNCHANGED storeKind, Broken(storeRows'[t]),
           t \in storeBroken'
    PROVE  RowsInv(t)'
BY DEF RowsInv

\* A save of a table leaves the checkpoints alone.
LEMMA MapKept ==
    ASSUME StoreTypeOK, MapInv, UNCHANGED <<storeKind, storeMap, storeTmp, storeOverlap>>,
           \A k \in CheckpointKeys : storeAcked'[k] = storeAcked[k] /\ storeMaybe'[k] = storeMaybe[k],
           \A w \in StoreClients :
              /\ storeClient'[w].pc = storeClient[w].pc /\ storeClient'[w].key = storeClient[w].key
              /\ storeClient'[w].map = storeClient[w].map
              /\ storeClient'[w].value = storeClient[w].value
    PROVE  MapInv'
<1>1. \A k \in CheckpointKeys : MaybeSaved(k)' = MaybeSaved(k)
  BY DEF MaybeSaved
<1>2. \A w \in StoreClients : WriterOf(w) => WriterOf(w)'
  BY DEF WriterOf
<1> QED
  BY <1>1, <1>2 DEF MapInv

\* A connection that is lost.
LEMMA ConnectionLost ==
    ASSUME ClientInv, NEW w \in StoreClients, UNCHANGED storeKind,
           storeClient' = [storeClient EXCEPT ![w].conn = "aborted"]
    PROVE  /\ ClientInv'
           /\ \A v \in StoreClients :
                /\ storeClient'[v].pc = storeClient[v].pc /\ storeClient'[v].key = storeClient[v].key
                /\ storeClient'[v].map = storeClient[v].map
                /\ storeClient'[v].value = storeClient[v].value
<1>1. PICK p, k, x, m, c : /\ p = storeClient[w].pc /\ k = storeClient[w].key
                           /\ x = storeClient[w].value /\ m = storeClient[w].map
                           /\ c = storeClient[w].conn
  OBVIOUS
<1>2. PICK old : old = storeClient[w]
  OBVIOUS
<1>3. old = [pc |-> p, key |-> k, value |-> x, map |-> m, conn |-> c]
  BY <1>1, <1>2 DEF ClientInv
<1>4. PICK new : new = [old EXCEPT !.conn = "aborted"]
  OBVIOUS
<1>5. new = [pc |-> p, key |-> k, value |-> x, map |-> m, conn |-> "aborted"]
  BY <1>3, <1>4
<1>6. /\ storeClient'[w] = new /\ DOMAIN storeClient' = StoreClients
      /\ \A v \in StoreClients \ {w} : storeClient'[v] = storeClient[v]
  BY <1>2, <1>4 DEF ClientInv
<1>7. \A v \in StoreClients :
        /\ storeClient'[v].pc = storeClient[v].pc /\ storeClient'[v].key = storeClient[v].key
        /\ storeClient'[v].map = storeClient[v].map
        /\ storeClient'[v].value = storeClient[v].value
  <2> SUFFICES ASSUME NEW v \in StoreClients
               PROVE  /\ storeClient'[v].pc = storeClient[v].pc
                      /\ storeClient'[v].key = storeClient[v].key
                      /\ storeClient'[v].map = storeClient[v].map
                      /\ storeClient'[v].value = storeClient[v].value
    OBVIOUS
  <2>1. CASE v = w
    <3>1. new.pc = p /\ new.key = k /\ new.map = m /\ new.value = x
      BY <1>5
    <3> QED
      BY <1>1, <1>6, <2>1, <3>1
  <2>2. CASE v # w
    BY <1>6, <2>2
  <2> QED
    BY <2>1, <2>2
<1>8. ASSUME NEW v \in StoreClients
      PROVE  /\ storeClient'[v] = [pc |-> storeClient'[v].pc, key |-> storeClient'[v].key,
                                value |-> storeClient'[v].value, map |-> storeClient'[v].map,
                                conn |-> storeClient'[v].conn]
             /\ storeClient'[v].conn \in {"ok", "aborted"}
  <2>1. CASE v = w
    BY <1>5, <1>6, <2>1
  <2>2. CASE v # w
    BY <1>6, <2>2 DEF ClientInv
  <2> QED
    BY <2>1, <2>2
<1>9. ClientInv'
  BY <1>6, <1>7, <1>8 DEF ClientInv
<1> QED
  BY <1>7, <1>9

\* save_goal, save_plan and append_runtime_event of the three stores.
LEMMA SaveRowStep ==
    ASSUME StoreInv, NEW w \in StoreClients, NEW t \in Tables, NEW b \in {"default", "set"}, NEW e \in {"default", "set"},
           SaveRow(w, t, b, e)
    PROVE  StoreInv'
<1> USE StoreAssumption
<1>1. /\ StoreTypeOK /\ (\A u \in Tables : RowsInv(u)) /\ MapInv /\ ClientInv
      /\ storeSaves' = storeSaves + 1 /\ UNCHANGED <<storeKind, storeTmp, storeOverlap>>
  BY DEF StoreInv, SaveRow, StartSave
<1>2. /\ storeSaves \in Nat /\ storeRows \in [Tables -> Seq(StoredRows)]
      /\ storeSaves' \in Nat /\ storeSaves <= storeSaves'
  BY <1>1 DEF StoreTypeOK
<1>3. PICK n \in Nat \ {0} : n = storeSaves + 1
  BY <1>2
<1>4. PICK o \in Objects : o = Obj(storeSaves + 1, b, e) /\ o = Obj(n, b, e)
  BY <1>3, RowOfObject
<1>5. PICK row \in StoredRows : row = ToRow(t, o) /\ row \notin {TornRow, GarbledRow}
  BY <1>4, RowOfObject
<1>6. PICK rows \in Seq(StoredRows) : rows = storeRows[t]
  BY <1>2
<1>7. /\ \/ /\ storeKind = "jsonl" /\ storeRows' = [storeRows EXCEPT ![t] = AppendLine(rows, row)]
            /\ Acked(t, o) \/ NotAcked(t, o)
         \/ /\ storeKind = "jsonl" /\ t \in storeBroken'
            /\ storeRows' \in {[storeRows EXCEPT ![t] = AppendLine(rows, TornRow)],
                              [storeRows EXCEPT ![t] = AppendLine(rows, GarbledRow)]}
            /\ Acked(t, o) \/ NotAcked(t, o)
         \/ /\ storeKind # "jsonl" /\ t # "events" /\ storeRows' = [storeRows EXCEPT ![t] = <<row>>]
            /\ Acked(t, o) \/ NotAcked(t, o)
         \/ /\ storeKind # "jsonl" /\ t = "events"
            /\ storeRows' = [storeRows EXCEPT ![t] = Append(rows, row)]
            /\ Acked(t, o) \/ NotAcked(t, o)
         \/ UNCHANGED storeRows /\ NotAcked(t, o)
      /\ UNCHANGED storeMap
      /\ storeBroken \subseteq storeBroken'
      /\ UNCHANGED storeClient \/ storeClient' = [storeClient EXCEPT ![w].conn = "aborted"]
  <2>1. \/ storeKind = "jsonl" /\ SaveJsonl(t, o)
        \/ storeKind = "sqlite" /\ t # "events" /\ SqliteExecute(UpsertSqlite(t, o), storeMap, t, o)
        \/ storeKind = "sqlite" /\ t = "events"
           /\ SqliteExecute(InsertEventSqlite(o), storeMap, t, o)
        \/ storeKind = "postgres" /\ t # "events"
           /\ PostgresExecute(w, UpsertPostgres(t, o), storeMap, t, o)
        \/ storeKind = "postgres" /\ t = "events"
           /\ PostgresExecute(w, InsertEventPostgres(o), storeMap, t, o)
    BY <1>4 DEF SaveRow
  <2>2. CASE storeKind = "jsonl" /\ SaveJsonl(t, o)
    BY <1>5, <1>6, <2>2 DEF SaveJsonl
  <2>3. CASE /\ storeKind = "sqlite" /\ t # "events"
             /\ SqliteExecute(UpsertSqlite(t, o), storeMap, t, o)
    BY <1>5, <2>3 DEF SqliteExecute, UpsertSqlite
  <2>4. CASE /\ storeKind = "sqlite" /\ t = "events"
             /\ SqliteExecute(InsertEventSqlite(o), storeMap, t, o)
    BY <1>5, <1>6, <2>4 DEF SqliteExecute, InsertEventSqlite
  <2>5. CASE /\ storeKind = "postgres" /\ t # "events"
             /\ PostgresExecute(w, UpsertPostgres(t, o), storeMap, t, o)
    BY <1>5, <2>5 DEF PostgresExecute, UpsertPostgres
  <2>6. CASE /\ storeKind = "postgres" /\ t = "events"
             /\ PostgresExecute(w, InsertEventPostgres(o), storeMap, t, o)
    BY <1>5, <1>6, <2>6 DEF PostgresExecute, InsertEventPostgres
  <2> QED
    BY <2>1, <2>2, <2>3, <2>4, <2>5, <2>6
<1>8. t \in Saveds /\ \A k \in CheckpointKeys : k \in Saveds /\ k # t
  BY DEF Saveds
<1>9. /\ storeAcked' \in [Saveds -> Objects] /\ storeMaybe' \in [Saveds -> SUBSET Objects]
      /\ \A y \in Saveds \ {t} : storeAcked'[y] = storeAcked[y] /\ storeMaybe'[y] = storeMaybe[y]
      /\ t # "events" => storeLogged' = storeLogged /\ o \in MaybeSaved(t)'
      /\ t = "events" => storeLogged' \in {storeLogged, storeLogged \cup {o.value}}
      /\ NotAcked(t, o) => storeLogged' = storeLogged /\ MaybeSaved(t) \subseteq MaybeSaved(t)'
  <2>1. Acked(t, o) \/ NotAcked(t, o)
    BY <1>7
  <2> QED
    BY <1>1, <1>8, <2>1, HistoryFacts
<1>10. ASSUME NEW u \in Tables \ {t} PROVE RowsInv(u)' /\ storeRows'[u] = storeRows[u]
  <2>1. storeRows'[u] = storeRows[u]
    BY <1>2, <1>7
  <2>2. MaybeSaved(u)' = MaybeSaved(u)
    BY <1>9 DEF MaybeSaved, Saveds
  <2>3. u = "events" => UNCHANGED storeLogged
    BY <1>9
  <2> QED
    BY <1>1, <1>2, <1>7, <2>1, <2>2, <2>3, TableKept
<1>11. RowsInv(t)' /\ storeRows'[t] \in Seq(StoredRows)
  <2>1. ASSUME \/ ~Broken(rows) /\ storeRows'[t] = Append(rows, row)
               \/ t # "events" /\ storeRows'[t] = <<row>>
        PROVE  RowsInv(t)' /\ storeRows'[t] \in Seq(StoredRows)
    <3>1. LET p == Obj(storeSaves + 1, b, e)
          IN  /\ \/ ~Broken(storeRows[t]) /\ storeRows'[t] = Append(storeRows[t], ToRow(t, p))
                 \/ t # "events" /\ storeRows'[t] = <<ToRow(t, p)>>
              /\ t # "events" => p \in MaybeSaved(t)'
              /\ t = "events" => storeLogged' \in {storeLogged, storeLogged \cup {p.value}}
      BY <1>4, <1>5, <1>6, <1>9, <2>1
    <3> QED
      BY <1>1, <1>7, <3>1, TableGrows
  <2>2. CASE storeKind = "jsonl" /\ storeRows' = [storeRows EXCEPT ![t] = AppendLine(rows, row)]
    <3>1. storeRows'[t] = AppendLine(rows, row)
      BY <1>2, <2>2
    <3>2. CASE Broken(rows)
      <4>1. Broken(storeRows'[t]) /\ storeRows'[t] \in Seq(StoredRows)
        BY <3>1, <3>2, AppendLineFacts
      <4>2. t \in storeBroken'
        BY <1>1, <1>6, <1>7, <3>2 DEF RowsInv
      <4> QED
        BY <1>1, <2>2, <4>1, <4>2, TableBreaks
    <3>3. CASE ~Broken(rows)
      <4>1. storeRows'[t] = Append(rows, row)
        BY <3>1, <3>3, AppendLineFacts
      <4> QED
        BY <2>1, <3>3, <4>1
    <3> QED
      BY <3>2, <3>3
  <2>3. CASE /\ storeKind = "jsonl" /\ t \in storeBroken'
             /\ storeRows' \in {[storeRows EXCEPT ![t] = AppendLine(rows, TornRow)],
                               [storeRows EXCEPT ![t] = AppendLine(rows, GarbledRow)]}
    <3>1. storeRows'[t] = AppendLine(rows, TornRow) \/ storeRows'[t] = AppendLine(rows, GarbledRow)
      BY <1>2, <2>3
    <3>2. TornRow \in StoredRows /\ GarbledRow \in StoredRows
      BY DEF TornRow, GarbledRow, StoredRows
    <3>3. Broken(storeRows'[t]) /\ storeRows'[t] \in Seq(StoredRows)
      BY <3>1, <3>2, AppendLineFacts
    <3> QED
      BY <1>1, <2>3, <3>3, TableBreaks
  <2>4. CASE /\ storeKind # "jsonl" /\ t # "events"
             /\ storeRows' = [storeRows EXCEPT ![t] = <<row>>]
    <3>1. storeRows'[t] = <<row>>
      BY <1>2, <2>4
    <3> QED
      BY <2>1, <2>4, <3>1
  <2>5. CASE /\ storeKind # "jsonl" /\ t = "events"
             /\ storeRows' = [storeRows EXCEPT ![t] = Append(rows, row)]
    <3>1. storeRows'[t] = Append(rows, row)
      BY <1>2, <2>5
    <3>2. ~Broken(rows)
      BY <1>1, <1>6, <2>5 DEF RowsInv
    <3> QED
      BY <2>1, <3>1, <3>2
  <2>6. CASE UNCHANGED storeRows /\ NotAcked(t, o)
    <3>1. storeRows'[t] = storeRows[t] /\ storeRows'[t] \in Seq(StoredRows)
      BY <1>2, <2>6
    <3>2. UNCHANGED storeLogged /\ MaybeSaved(t) \subseteq MaybeSaved(t)'
      BY <1>9, <2>6
    <3> QED
      BY <1>1, <1>2, <1>7, <3>1, <3>2, TableKept
  <2> QED
    BY <1>7, <2>2, <2>3, <2>4, <2>5, <2>6
<1>12. StoreTypeOK'
  <2>1. storeRows' \in [Tables -> Seq(StoredRows)]
    <3>1. DOMAIN storeRows' = Tables /\ storeRows' = [u \in DOMAIN storeRows' |-> storeRows'[u]]
      BY <1>2, <1>7
    <3>2. \A u \in Tables : storeRows'[u] \in Seq(StoredRows)
      BY <1>2, <1>10, <1>11
    <3> QED
      BY <3>1, <3>2
  <2> QED
    BY <1>1, <1>2, <1>9, <2>1 DEF StoreTypeOK
<1>13. /\ ClientInv'
       /\ \A v \in StoreClients :
            /\ storeClient'[v].pc = storeClient[v].pc /\ storeClient'[v].key = storeClient[v].key
            /\ storeClient'[v].map = storeClient[v].map
            /\ storeClient'[v].value = storeClient[v].value
  <2>1. CASE UNCHANGED storeClient
    BY <1>1, <2>1 DEF ClientInv
  <2>2. CASE storeClient' = [storeClient EXCEPT ![w].conn = "aborted"]
    BY <1>1, <2>2, ConnectionLost
  <2> QED
    BY <1>7, <2>1, <2>2
<1>14. MapInv'
  <2>1. \A k \in CheckpointKeys : storeAcked'[k] = storeAcked[k] /\ storeMaybe'[k] = storeMaybe[k]
    BY <1>8, <1>9
  <2> QED
    BY <1>1, <1>7, <1>13, <2>1, MapKept
<1> QED
  BY <1>10, <1>11, <1>12, <1>13, <1>14 DEF StoreInv

-----------------------------------------------------------------------------
\* A step that changes the checkpoints leaves the tables alone.
LEMMA TablesKept ==
    ASSUME StoreInv, UNCHANGED <<storeKind, storeRows, storeLogged, storeBroken>>,
           storeSaves' \in Nat, storeSaves <= storeSaves',
           storeAcked' \in [Saveds -> Objects], storeMaybe' \in [Saveds -> SUBSET Objects],
           \A t \in Tables : storeAcked'[t] = storeAcked[t] /\ storeMaybe'[t] = storeMaybe[t]
    PROVE  StoreTypeOK' /\ \A t \in Tables : RowsInv(t)'
<1>1. StoreTypeOK'
  BY DEF StoreInv, StoreTypeOK
<1>2. ASSUME NEW t \in Tables PROVE RowsInv(t)'
  <2>1. MaybeSaved(t)' = MaybeSaved(t)
    BY DEF MaybeSaved
  <2>2. StoreTypeOK /\ RowsInv(t) /\ storeRows'[t] = storeRows[t]
    BY DEF StoreInv
  <2> QED
    BY <2>1, <2>2, TableKept
<1> QED
  BY <1>1, <1>2

\* save_checkpoint of the two databases.
LEMMA UpsertCheckpointStep ==
    ASSUME StoreInv, NEW w \in StoreClients, NEW k \in CheckpointKeys,
           CheckpointSqlite(w, k) \/ CheckpointPostgres(w, k)
    PROVE  StoreInv'
<1> USE StoreAssumption
<1>1. /\ StoreTypeOK /\ MapInv /\ ClientInv /\ storeKind # "jsonl"
      /\ storeSaves' = storeSaves + 1 /\ UNCHANGED <<storeKind, storeTmp, storeOverlap>>
  BY DEF StoreInv, CheckpointSqlite, CheckpointPostgres, StartSave
<1>2. storeSaves \in Nat /\ storeSaves' \in Nat /\ storeSaves <= storeSaves'
  BY <1>1 DEF StoreTypeOK
<1>3. PICK v \in Objects : v = NewValue
  <2>1. storeSaves + 1 \in Int
    BY <1>2
  <2> QED
    BY <2>1 DEF NewValue, Obj, Objects
<1>4. /\ \/ UNCHANGED storeMap /\ NotAcked(k, v)
         \/ /\ storeMap' = [storeMap EXCEPT ![k] = v] /\ (Acked(k, v) \/ NotAcked(k, v))
      /\ UNCHANGED <<storeRows, storeBroken>>
      /\ UNCHANGED storeClient \/ storeClient' = [storeClient EXCEPT ![w].conn = "aborted"]
  BY <1>3 DEF CheckpointSqlite, CheckpointPostgres, SqliteExecute, PostgresExecute
<1>5. k \in Saveds /\ k # "events" /\ \A t \in Tables : t \in Saveds /\ t # k
  BY DEF Saveds, Tables
<1>6. /\ storeAcked' \in [Saveds -> Objects] /\ storeMaybe' \in [Saveds -> SUBSET Objects]
      /\ \A y \in Saveds \ {k} : storeAcked'[y] = storeAcked[y] /\ storeMaybe'[y] = storeMaybe[y]
      /\ storeLogged' = storeLogged /\ v \in MaybeSaved(k)'
      /\ NotAcked(k, v) => MaybeSaved(k) \subseteq MaybeSaved(k)'
  BY <1>1, <1>4, <1>5, HistoryFacts
<1>7. StoreTypeOK' /\ \A t \in Tables : RowsInv(t)'
  BY <1>1, <1>2, <1>4, <1>5, <1>6, TablesKept
<1>8. ClientInv'
  <2>1. CASE UNCHANGED storeClient
    BY <1>1, <2>1 DEF ClientInv
  <2>2. CASE storeClient' = [storeClient EXCEPT ![w].conn = "aborted"]
    BY <1>1, <2>2, ConnectionLost
  <2> QED
    BY <1>4, <2>1, <2>2
<1>9. MapInv'
  <2>1. /\ storeMap \in [CheckpointKeys -> Objects]
        /\ \A x \in CheckpointKeys : storeMap[x] \in MaybeSaved(x)
    BY <1>1 DEF MapInv
  <2>2. /\ storeMap' \in [CheckpointKeys -> Objects]
        /\ \A x \in CheckpointKeys \ {k} : storeMap'[x] = storeMap[x]
        /\ storeMap'[k] = v \/ (storeMap'[k] = storeMap[k] /\ NotAcked(k, v))
    BY <1>4, <2>1
  <2>3. \A x \in CheckpointKeys \ {k} : MaybeSaved(x)' = MaybeSaved(x)
    BY <1>6 DEF MaybeSaved, Saveds
  <2>4. \A x \in CheckpointKeys : storeMap'[x] \in MaybeSaved(x)'
    BY <1>6, <2>1, <2>2, <2>3
  <2>5. \A u \in StoreClients : WriterOf(u)'
    BY <1>1, <1>8 DEF ClientInv, WriterOf
  <2> QED
    BY <2>2, <2>4, <2>5 DEF MapInv
<1> QED
  BY <1>7, <1>8, <1>9 DEF StoreInv

\* One client gets a new record, the others keep theirs.
LEMMA ClientSet ==
    ASSUME ClientInv, NEW w \in StoreClients, UNCHANGED storeKind, NEW new,
           new = [pc |-> new.pc, key |-> new.key, value |-> new.value, map |-> new.map,
                  conn |-> new.conn],
           new.pc \in {"idle", "read", "written"}, new.conn \in {"ok", "aborted"},
           storeKind # "jsonl" => new.pc = "idle",
           new.pc # "idle" => new.key \in CheckpointKeys /\ new.value \in Objects,
           storeClient' = [storeClient EXCEPT ![w] = new]
    PROVE  /\ ClientInv' /\ storeClient'[w] = new
           /\ \A v \in StoreClients \ {w} : storeClient'[v] = storeClient[v]
<1>1. /\ storeClient'[w] = new /\ DOMAIN storeClient' = StoreClients
      /\ \A v \in StoreClients \ {w} : storeClient'[v] = storeClient[v]
  BY DEF ClientInv
<1>2. ASSUME NEW v \in StoreClients
      PROVE  /\ storeClient'[v] = [pc |-> storeClient'[v].pc, key |-> storeClient'[v].key,
                                value |-> storeClient'[v].value, map |-> storeClient'[v].map,
                                conn |-> storeClient'[v].conn]
             /\ storeClient'[v].pc \in {"idle", "read", "written"}
             /\ storeClient'[v].conn \in {"ok", "aborted"}
             /\ storeKind' # "jsonl" => storeClient'[v].pc = "idle"
             /\ storeClient'[v].pc # "idle" =>
                  storeClient'[v].key \in CheckpointKeys /\ storeClient'[v].value \in Objects
  <2>1. CASE v = w
    BY <1>1, <2>1
  <2>2. CASE v # w
    BY <1>1, <2>2 DEF ClientInv
  <2> QED
    BY <2>1, <2>2
<1>3. ClientInv'
  BY <1>1, <1>2 DEF ClientInv
<1> QED
  BY <1>1, <1>3

\* save_checkpoint of the JSONL store reads the file.
LEMMA ReadCheckpointsStep ==
    ASSUME StoreInv, NEW w \in StoreClients, NEW k \in CheckpointKeys, ReadCheckpoints(w, k)
    PROVE  StoreInv'
<1> USE StoreAssumption
<1>1. /\ StoreTypeOK /\ MapInv /\ ClientInv /\ storeKind = "jsonl"
      /\ storeSaves' = storeSaves + 1 /\ storeClient[w].pc = "idle"
      /\ UNCHANGED <<storeKind, storeRows, storeMap, storeTmp, storeAcked, storeLogged,
                     storeBroken>>
      /\ storeMaybe' = [storeMaybe EXCEPT ![k] = @ \cup {NewValue}]
      /\ storeOverlap' = (storeOverlap \/ \E v \in StoreClients : storeClient[v].pc # "idle")
  BY DEF StoreInv, ReadCheckpoints, StartSave
<1>2. storeSaves \in Nat /\ storeSaves' \in Nat /\ storeSaves <= storeSaves'
  BY <1>1 DEF StoreTypeOK
<1>3. PICK x \in Objects : x = NewValue
  <2>1. storeSaves + 1 \in Int
    BY <1>2
  <2> QED
    BY <2>1 DEF NewValue, Obj, Objects
<1>4. k \in Saveds /\ \A t \in Tables : t \in Saveds /\ t # k
  BY DEF Saveds
<1>5. /\ storeMaybe' \in [Saveds -> SUBSET Objects] /\ storeMaybe'[k] = storeMaybe[k] \cup {x}
      /\ \A y \in Saveds \ {k} : storeMaybe'[y] = storeMaybe[y]
      /\ storeAcked' \in [Saveds -> Objects]
  BY <1>1, <1>3, <1>4 DEF StoreTypeOK
<1>6. StoreTypeOK' /\ \A t \in Tables : RowsInv(t)'
  BY <1>1, <1>2, <1>4, <1>5, TablesKept
<1>7. PICK m : m = [storeMap EXCEPT ![k] = x]
  OBVIOUS
<1>8. PICK new : /\ storeClient' = [storeClient EXCEPT ![w] = new]
                 /\ new = [pc |-> "read", key |-> k, value |-> x, map |-> m, conn |-> "ok"]
  <2>1. PICK none, nothing : none = NoValue /\ nothing = Absent
    OBVIOUS
  <2>2. PICK idle : idle = Idle
    OBVIOUS
  <2>3. idle = [pc |-> "idle", key |-> "none", value |-> none, map |-> nothing, conn |-> "ok"]
    BY <2>1, <2>2 DEF Idle
  <2>4. PICK rec : rec = [idle EXCEPT !.pc = "read", !.key = k, !.value = x, !.map = m]
    OBVIOUS
  <2>5. rec = [pc |-> "read", key |-> k, value |-> x, map |-> m, conn |-> "ok"]
    BY <2>3, <2>4
  <2>6. storeClient' = [storeClient EXCEPT ![w] = rec]
    BY <1>3, <1>7, <2>2, <2>4 DEF ReadCheckpoints
  <2> QED
    BY <2>5, <2>6
<1>9. /\ ClientInv'
      /\ storeClient'[w].pc = "read" /\ storeClient'[w].key = k /\ storeClient'[w].value = x
      /\ storeClient'[w].map = m
      /\ \A v \in StoreClients \ {w} : storeClient'[v] = storeClient[v]
  <2>1. /\ new.pc = "read" /\ new.key = k /\ new.value = x /\ new.map = m /\ new.conn = "ok"
        /\ new = [pc |-> new.pc, key |-> new.key, value |-> new.value, map |-> new.map,
                  conn |-> new.conn]
    BY <1>8
  <2>2. /\ ClientInv' /\ storeClient'[w] = new
        /\ \A v \in StoreClients \ {w} : storeClient'[v] = storeClient[v]
    BY <1>1, <1>8, <2>1, ClientSet
  <2> QED
    BY <2>1, <2>2
<1>10. MapInv'
  <2> SUFFICES ASSUME ~storeOverlap'
               PROVE  /\ storeMap' \in [CheckpointKeys -> Objects]
                      /\ \A y \in CheckpointKeys : storeMap'[y] \in MaybeSaved(y)'
                      /\ \A v \in StoreClients : WriterOf(v)'
    BY <1>1 DEF MapInv
  <2>1. ~storeOverlap /\ \A v \in StoreClients : storeClient[v].pc = "idle"
    BY <1>1
  <2>2. /\ storeMap \in [CheckpointKeys -> Objects]
        /\ \A y \in CheckpointKeys : storeMap[y] \in MaybeSaved(y)
    BY <2>1 DEF StoreInv, MapInv
  <2>3. \A y \in CheckpointKeys : MaybeSaved(y) \subseteq MaybeSaved(y)'
    BY <1>1, <1>5 DEF MaybeSaved, Saveds
  <2>4. /\ m \in [CheckpointKeys -> Objects] /\ m[k] = x
        /\ \A y \in CheckpointKeys \ {k} : m[y] = storeMap[y]
    BY <1>7, <2>2
  <2>5. \A v \in StoreClients \ {w} : storeClient'[v].pc = "idle"
    BY <1>9, <2>1
  <2>6. \A v \in StoreClients : WriterOf(v)'
    BY <1>1, <1>5, <1>9, <2>4, <2>5 DEF WriterOf
  <2> QED
    BY <1>1, <2>2, <2>3, <2>6
<1> QED
  BY <1>6, <1>9, <1>10 DEF StoreInv

\* It writes the second file.
LEMMA WriteTmpStep ==
    ASSUME StoreInv, NEW w \in StoreClients, WriteTmp(w)
    PROVE  StoreInv'
<1>1. /\ StoreTypeOK /\ MapInv /\ ClientInv /\ storeClient[w].pc = "read"
      /\ UNCHANGED <<storeKind, storeRows, storeMap, storeSaves, storeAcked, storeMaybe,
                     storeLogged, storeBroken, storeOverlap>>
      /\ storeTmp' = storeClient[w].map
      /\ storeClient' = [storeClient EXCEPT ![w].pc = "written"]
  BY DEF StoreInv, WriteTmp
<1>2. storeKind = "jsonl"
  BY <1>1 DEF ClientInv
<1>3. StoreTypeOK' /\ \A t \in Tables : RowsInv(t)'
  BY <1>1, TablesKept DEF StoreTypeOK
<1>4. PICK k, x, m, c : /\ k = storeClient[w].key /\ x = storeClient[w].value
                        /\ m = storeClient[w].map /\ c = storeClient[w].conn
  OBVIOUS
<1>5. PICK new : /\ storeClient' = [storeClient EXCEPT ![w] = new]
                 /\ new = [pc |-> "written", key |-> k, value |-> x, map |-> m, conn |-> c]
  <2>1. PICK old : old = storeClient[w]
    OBVIOUS
  <2>2. old = [pc |-> "read", key |-> k, value |-> x, map |-> m, conn |-> c]
    BY <1>1, <1>4, <2>1 DEF ClientInv
  <2>3. PICK rec : rec = [old EXCEPT !.pc = "written"]
    OBVIOUS
  <2>4. rec = [pc |-> "written", key |-> k, value |-> x, map |-> m, conn |-> c]
    BY <2>2, <2>3
  <2>5. storeClient' = [storeClient EXCEPT ![w] = rec]
    BY <1>1, <2>1, <2>3
  <2> QED
    BY <2>4, <2>5
<1>6. /\ ClientInv'
      /\ storeClient'[w].pc = "written" /\ storeClient'[w].key = k /\ storeClient'[w].value = x
      /\ storeClient'[w].map = m
      /\ \A v \in StoreClients \ {w} : storeClient'[v] = storeClient[v]
  <2>1. c \in {"ok", "aborted"} /\ k \in CheckpointKeys /\ x \in Objects
    BY <1>1, <1>4 DEF ClientInv
  <2>2. /\ new.pc = "written" /\ new.key = k /\ new.value = x /\ new.map = m /\ new.conn = c
        /\ new = [pc |-> new.pc, key |-> new.key, value |-> new.value, map |-> new.map,
                  conn |-> new.conn]
    BY <1>5
  <2>3. /\ ClientInv' /\ storeClient'[w] = new
        /\ \A v \in StoreClients \ {w} : storeClient'[v] = storeClient[v]
    BY <1>1, <1>2, <1>5, <2>1, <2>2, ClientSet
  <2> QED
    BY <2>2, <2>3
<1>7. MapInv'
  <2> SUFFICES ASSUME ~storeOverlap'
               PROVE  /\ storeMap' \in [CheckpointKeys -> Objects]
                      /\ \A y \in CheckpointKeys : storeMap'[y] \in MaybeSaved(y)'
                      /\ \A v \in StoreClients : WriterOf(v)'
    BY <1>1, <1>2 DEF MapInv
  <2>1. /\ storeMap \in [CheckpointKeys -> Objects]
        /\ \A y \in CheckpointKeys : storeMap[y] \in MaybeSaved(y)
        /\ WriterOf(w)
    BY <1>1 DEF StoreInv, MapInv
  <2>2. \A v \in StoreClients \ {w} : storeClient'[v].pc = "idle"
    BY <1>1, <1>6, <2>1 DEF WriterOf
  <2>3. \A v \in StoreClients : WriterOf(v)'
    BY <1>1, <1>4, <1>6, <2>1, <2>2 DEF WriterOf
  <2> QED
    BY <1>1, <2>1, <2>3 DEF MaybeSaved
<1> QED
  BY <1>3, <1>6, <1>7 DEF StoreInv

\* A client that is idle again.
LEMMA ClientIdles ==
    ASSUME ClientInv, NEW w \in StoreClients, UNCHANGED storeKind,
           storeClient' = [storeClient EXCEPT ![w] = Idle]
    PROVE  /\ ClientInv' /\ storeClient'[w].pc = "idle"
           /\ \A v \in StoreClients \ {w} : storeClient'[v] = storeClient[v]
<1>1. PICK new : new = Idle
  OBVIOUS
<1>2. /\ new.pc = "idle" /\ new.conn = "ok"
      /\ new = [pc |-> new.pc, key |-> new.key, value |-> new.value, map |-> new.map,
                conn |-> new.conn]
  <2>1. PICK none, nothing : none = NoValue /\ nothing = Absent
    OBVIOUS
  <2>2. new = [pc |-> "idle", key |-> "none", value |-> none, map |-> nothing, conn |-> "ok"]
    BY <1>1, <2>1 DEF Idle
  <2> QED
    BY <2>2
<1>3. /\ ClientInv' /\ storeClient'[w] = new
      /\ \A v \in StoreClients \ {w} : storeClient'[v] = storeClient[v]
  BY <1>1, <1>2, ClientSet
<1> QED
  BY <1>2, <1>3

\* It swaps the files: what was on disk gives way to the same map with the new
\* value.
LEMMA ReplaceCheckpointsStep ==
    ASSUME StoreInv, NEW w \in StoreClients, ReplaceCheckpoints(w)
    PROVE  StoreInv'
<1> USE StoreAssumption
<1>1. /\ StoreTypeOK /\ MapInv /\ ClientInv /\ storeClient[w].pc = "written"
      /\ UNCHANGED <<storeKind, storeRows, storeSaves, storeBroken, storeOverlap>>
      /\ storeClient' = [storeClient EXCEPT ![w] = Idle]
  BY DEF StoreInv, ReplaceCheckpoints
<1>2. storeKind = "jsonl" /\ storeSaves \in Nat
  BY <1>1 DEF ClientInv, StoreTypeOK
<1>3. /\ ClientInv' /\ storeClient'[w].pc = "idle"
      /\ \A v \in StoreClients \ {w} : storeClient'[v] = storeClient[v]
  BY <1>1, ClientIdles
<1>4. CASE storeTmp = Absent
  <2>1. UNCHANGED <<storeMap, storeTmp, storeAcked, storeMaybe, storeLogged>>
    BY <1>4 DEF ReplaceCheckpoints
  <2>2. StoreTypeOK' /\ \A t \in Tables : RowsInv(t)'
    BY <1>1, <2>1, TablesKept DEF StoreTypeOK
  <2>3. MapInv'
    BY <1>1, <1>3, <2>1 DEF MapInv, WriterOf, MaybeSaved
  <2> QED
    BY <1>3, <2>2, <2>3 DEF StoreInv
<1>5. CASE storeTmp # Absent
  <2>1. PICK k \in CheckpointKeys, x \in Objects : k = storeClient[w].key /\ x = storeClient[w].value
    BY <1>1 DEF ClientInv
  <2>2. storeMap' = storeTmp /\ Acked(k, x)
    BY <1>5, <2>1 DEF ReplaceCheckpoints
  <2>3. k \in Saveds /\ k # "events" /\ \A t \in Tables : t \in Saveds /\ t # k
    BY DEF Saveds, Tables
  <2>4. /\ storeAcked' \in [Saveds -> Objects] /\ storeMaybe' \in [Saveds -> SUBSET Objects]
        /\ \A y \in Saveds \ {k} : storeAcked'[y] = storeAcked[y] /\ storeMaybe'[y] = storeMaybe[y]
        /\ storeLogged' = storeLogged /\ x \in MaybeSaved(k)'
    BY <1>1, <2>2, <2>3, HistoryFacts
  <2>5. StoreTypeOK' /\ \A t \in Tables : RowsInv(t)'
    BY <1>1, <1>2, <2>3, <2>4, TablesKept
  <2>6. MapInv'
    <3> SUFFICES ASSUME ~storeOverlap'
                 PROVE  /\ storeMap' \in [CheckpointKeys -> Objects]
                        /\ \A y \in CheckpointKeys : storeMap'[y] \in MaybeSaved(y)'
                        /\ \A v \in StoreClients : WriterOf(v)'
      BY <1>1, <1>2 DEF MapInv
    <3>1. /\ \A y \in CheckpointKeys : storeMap[y] \in MaybeSaved(y)
          /\ WriterOf(w)
      BY <1>1 DEF MapInv
    <3>2. /\ storeMap' \in [CheckpointKeys -> Objects] /\ storeMap'[k] = x
          /\ \A y \in CheckpointKeys \ {k} : storeMap'[y] = storeMap[y]
          /\ \A v \in StoreClients \ {w} : storeClient[v].pc = "idle"
      BY <1>1, <2>1, <2>2, <3>1 DEF WriterOf
    <3>3. \A y \in CheckpointKeys \ {k} : MaybeSaved(y)' = MaybeSaved(y)
      BY <2>4 DEF MaybeSaved, Saveds
    <3>4. \A y \in CheckpointKeys : storeMap'[y] \in MaybeSaved(y)'
      BY <2>4, <3>1, <3>2, <3>3
    <3>5. \A v \in StoreClients : WriterOf(v)'
      BY <1>3, <3>2 DEF WriterOf
    <3> QED
      BY <3>2, <3>4, <3>5
  <2> QED
    BY <1>3, <2>5, <2>6 DEF StoreInv
<1> QED
  BY <1>4, <1>5

\* A read that fails, and a process that dies.
LEMMA StoreFailureStep ==
    ASSUME StoreInv, NEW w \in StoreClients, FetchFails(w) \/ StoreRestart(w)
    PROVE  StoreInv'
<1>1. /\ StoreTypeOK /\ MapInv /\ ClientInv
      /\ UNCHANGED <<storeKind, storeRows, storeMap, storeTmp, storeSaves, storeAcked,
                     storeMaybe, storeLogged, storeBroken, storeOverlap>>
  BY DEF StoreInv, FetchFails, StoreRestart
<1>2. StoreTypeOK' /\ \A t \in Tables : RowsInv(t)'
  BY <1>1, TablesKept DEF StoreTypeOK
<1>3. CASE FetchFails(w)
  <2>1. storeClient' = [storeClient EXCEPT ![w].conn = "aborted"]
    BY <1>3 DEF FetchFails
  <2>2. /\ ClientInv'
        /\ \A v \in StoreClients :
            /\ storeClient'[v].pc = storeClient[v].pc /\ storeClient'[v].key = storeClient[v].key
            /\ storeClient'[v].map = storeClient[v].map
            /\ storeClient'[v].value = storeClient[v].value
    BY <1>1, <2>1, ConnectionLost
  <2>3. MapInv'
    BY <1>1, <2>2, MapKept
  <2> QED
    BY <1>2, <2>2, <2>3 DEF StoreInv
<1>4. CASE StoreRestart(w)
  <2>1. storeClient' = [storeClient EXCEPT ![w] = Idle]
    BY <1>4 DEF StoreRestart
  <2>2. /\ ClientInv' /\ storeClient'[w].pc = "idle"
        /\ \A v \in StoreClients \ {w} : storeClient'[v] = storeClient[v]
    BY <1>1, <2>1, ClientIdles
  <2>3. MapInv'
    BY <1>1, <2>2 DEF MapInv, WriterOf, MaybeSaved
  <2> QED
    BY <1>2, <2>2, <2>3 DEF StoreInv
<1> QED
  BY <1>3, <1>4

\* StoreInv is an invariant of the three stores.
THEOREM StoreInvariance == StoreSpec => []StoreInv
<1>1. StoreInit => StoreInv
  <2> SUFFICES ASSUME StoreInit PROVE StoreInv
    OBVIOUS
  <2>1. PICK none \in Objects : none = NoValue /\ none.value = 0
    <3>1. NoValue \in Objects /\ NoValue.value = 0
      BY DEF Objects, NoValue, Obj
    <3> QED
      BY <3>1
  <2>2. /\ storeKind \in {"jsonl", "sqlite", "postgres"} /\ storeSaves = 0
        /\ storeRows = [t \in Tables |-> <<>>]
        /\ storeAcked = [x \in Saveds |-> none] /\ storeMaybe = [x \in Saveds |-> {}]
        /\ storeMap = [k \in CheckpointKeys |-> none] /\ storeLogged = {}
    BY <2>1 DEF StoreInit, Saveds, Empty
  <2>3. StoreTypeOK
    BY <2>1, <2>2 DEF StoreTypeOK
  <2>4. ClientInv /\ \A w \in StoreClients : storeClient[w].pc = "idle"
    <3>1. PICK nothing : nothing = Absent
      OBVIOUS
    <3>2. storeClient = [w \in StoreClients |-> [pc |-> "idle", key |-> "none", value |-> none,
                                                 map |-> nothing, conn |-> "ok"]]
      BY <2>1, <3>1 DEF StoreInit, Idle
    <3> QED
      BY <3>2 DEF ClientInv
  <2>5. \A t \in Tables : RowsInv(t)
    <3> TAKE t \in Tables
    <3>1. storeRows[t] = <<>> /\ DOMAIN storeRows[t] = {} /\ ~Broken(storeRows[t])
      <4>1. storeRows[t] = <<>> /\ DOMAIN <<>> = {}
        BY <2>2
      <4> QED
        BY <4>1 DEF Broken
    <3>2. t = "events" => EventsInOrder
      BY <2>2, <3>1 DEF EventsInOrder
    <3>3. t # "events" => LastIsSaved(t)
      <4>1. LastRow(t) = none /\ MaybeSaved(t) = {none}
        BY <2>1, <2>2, <3>1 DEF LastRow, MaybeSaved, Saveds
      <4> QED
        BY <2>1, <4>1 DEF LastIsSaved
    <3> QED
      BY <3>1, <3>2, <3>3 DEF RowsInv
  <2>6. MapInv
    BY <2>1, <2>2, <2>4 DEF MapInv, WriterOf, MaybeSaved, Saveds
  <2> QED
    BY <2>3, <2>4, <2>5, <2>6 DEF StoreInv
<1>2. StoreInv /\ [StoreNext]_storeVars => StoreInv'
  <2> SUFFICES ASSUME StoreInv, [StoreNext]_storeVars PROVE StoreInv'
    OBVIOUS
  <2>1. CASE StoreNext
    BY <2>1, SaveRowStep, ReadCheckpointsStep, UpsertCheckpointStep, WriteTmpStep,
       ReplaceCheckpointsStep, StoreFailureStep DEF StoreNext
  <2>2. CASE UNCHANGED storeVars
    <3>1. UNCHANGED <<storeKind, storeRows, storeMap, storeTmp, storeClient, storeSaves,
                      storeAcked, storeMaybe, storeLogged, storeBroken, storeOverlap>>
      BY <2>2 DEF storeVars
    <3>2. StoreTypeOK' /\ \A t \in Tables : RowsInv(t)'
      BY <3>1, TablesKept DEF StoreInv, StoreTypeOK
    <3>3. MapInv' /\ ClientInv'
      BY <3>1 DEF StoreInv, MapInv, ClientInv, WriterOf, MaybeSaved
    <3> QED
      BY <3>2, <3>3 DEF StoreInv
  <2> QED
    BY <2>1, <2>2
<1> QED
  BY <1>1, <1>2, PTL DEF StoreSpec

\* What a process reads back from any of the three stores is what the last save
\* that returned stored, or what a later one may have stored, less what the format
\* drops, after any crashes, failed statements, torn lines and texts that break
\* their line.
THEOREM ReadsSaved == StoreSpec => []ReadsWhatWasSaved
<1>1. StoreInv => ReadsWhatWasSaved
  <2> SUFFICES ASSUME StoreInv PROVE ReadsWhatWasSaved
    OBVIOUS
  <2>1. ASSUME NEW w \in StoreClients, NEW t \in {"goals", "plans"}, NEW r \in LoadRow(w, t)
        PROVE  IF r = Raises
               THEN storeKind = "sqlite" \/ storeClient[w].conn = "aborted" \/ t \in storeBroken
               ELSE \E o \in {storeAcked[t]} \cup storeMaybe[t] :
                      r.value = o.value /\ (t = "plans" => r.budget = o.budget)
    <3>1. t \in Tables /\ t # "events" /\ RowsInv(t) /\ storeKind \in {"jsonl", "sqlite", "postgres"}
      BY DEF Tables, StoreInv, StoreTypeOK
    <3>2. Corrupt(t) <=> Broken(storeRows[t])
      BY DEF Corrupt, Broken
    <3>3. storeClient[w].conn \in {"ok", "aborted"}
      BY DEF StoreInv, ClientInv
    <3>4. \/ /\ r = Raises
             /\ storeKind = "sqlite" \/ storeClient[w].conn = "aborted" \/ t \in storeBroken
          \/ r = LastRow(t) /\ ~Corrupt(t)
      BY <3>1, <3>2, <3>3 DEF LoadRow, LoadJsonl, LoadSqlite, LoadPostgres, RowsInv
    <3>5. CASE r = LastRow(t) /\ ~Corrupt(t)
      <4>1. LastIsSaved(t)
        BY <3>1, <3>2, <3>5 DEF RowsInv
      <4>2. LastRow(t) # Raises
        BY <4>1 DEF LastIsSaved, Raises, Obj
      <4> QED
        BY <3>5, <4>1, <4>2 DEF LastIsSaved, MaybeSaved
    <3> QED
      BY <3>4, <3>5
  <2>2. ASSUME NEW w \in StoreClients, ~EventsRaise(w)
        PROVE  /\ \A i, j \in DOMAIN ListEvents : i < j => ListEvents[i] < ListEvents[j]
               /\ storeLogged \subseteq {ListEvents[i] : i \in DOMAIN ListEvents}
    <3>1. EventsInOrder
      BY <2>2 DEF EventsRaise, Corrupt, Broken, StoreInv, RowsInv, Tables
    <3>2. /\ DOMAIN ListEvents = DOMAIN storeRows["events"]
          /\ \A i \in DOMAIN ListEvents : ListEvents[i] = storeRows["events"][i].value
      BY DEF ListEvents
    <3> QED
      BY <3>1, <3>2 DEF EventsInOrder
  <2>4. ASSUME NEW w \in StoreClients, EventsRaise(w)
        PROVE  storeClient[w].conn = "aborted" \/ "events" \in storeBroken
    BY <2>4 DEF EventsRaise, Corrupt, Broken, StoreInv, RowsInv, ClientInv, Tables
  <2>3. storeKind # "jsonl" \/ ~storeOverlap =>
           \A k \in CheckpointKeys : storeMap[k] \in {storeAcked[k]} \cup storeMaybe[k]
    BY DEF StoreInv, MapInv, MaybeSaved
  <2> QED
    BY <2>1, <2>2, <2>3, <2>4 DEF ReadsWhatWasSaved
<1> QED
  BY <1>1, StoreInvariance, PTL


-----------------------------------------------------------------------------
(* The memory.                                                              *)

MemorySpec == MemoryInit /\ [][MemoryNext]_memVars

MembersOf(list) == {list[i] : i \in 1 .. Len(list)}

\* Of the records in a list: they were remembered, by calls that returned or
\* not, and no record that is owed is missing.
Holds(list) ==
    /\ list \in Seq(MemoryRecords)
    /\ MembersOf(list) \subseteq memWritten \cup memUnanswered
    /\ \A r \in memWritten \ memPurged : ~IsExpired(r, memNow) => r \in MembersOf(list)

\* A whole file holds what is owed, and so does the list of a process, of which
\* the index is made; they are the same unless the last write raised.
MemInv ==
    /\ memNow \in Nat
    /\ memUp \in BOOLEAN
    /\ memBehind \in BOOLEAN
    /\ IsFiniteSet(memWritten \cup memUnanswered)
    /\ memWritten \cup memUnanswered \subseteq MemoryRecords
    /\ memFile.torn \in BOOLEAN
    /\ ~memFile.torn => memFile = FileOf(memFile.list) /\ Holds(memFile.list)
    /\ memUp =>
         /\ Holds(memItems)
         /\ memIndex = IndexOf(memItems)
         /\ ~memBehind => memFile = FileOf(memItems)

\* What holds of 0 and of the successor of every number up to a bound holds up to it.
LEMMA UpToABound ==
    ASSUME NEW n \in Nat, NEW Q, 0 \in Q,
           \A i \in 0 .. n : i \in Q /\ i < n => i + 1 \in Q
    PROVE  \A i \in 0 .. n : i \in Q
<1> DEFINE T == {i \in 0 .. n : i \notin Q}
<1>1. SUFFICES ASSUME T # {} PROVE FALSE
  BY DEF T
<1>2. PICK x \in T : \A y \in T : x <= y
  <2>1. T \subseteq Nat
    OBVIOUS
  <2> HIDE DEF T
  <2> QED
    BY <1>1, <2>1, LeastElement
<1>3. x \in 0 .. n /\ x \notin Q /\ x # 0
  BY <1>2
<1>4. x - 1 \in 0 .. n /\ x - 1 < n /\ x - 1 \notin T /\ (x - 1) + 1 = x
  BY <1>2, <1>3
<1> QED
  BY <1>3, <1>4

\* The lists that the prefixes of a list leave.
OnlyPrefixes(items, some, F) ==
    F = [i \in 0 .. Len(items) |->
            IF i = 0 THEN <<>>
            ELSE IF items[i] \in some THEN Append(F[i - 1], items[i])
            ELSE F[i - 1]]

\* A list comprehension is the last of these, and they exist.
LEMMA OnlyIsTheLast ==
    ASSUME NEW R, NEW s \in Seq(R), NEW T
    PROVE  \E F : OnlyPrefixes(s, T, F) /\ Only(s, T) = F[Len(s)]
<1> DEFINE Body(F, n) == [i \in 0 .. n |->
                            IF i = 0 THEN <<>>
                            ELSE IF s[i] \in T THEN Append(F[i - 1], s[i])
                            ELSE F[i - 1]]
           Q == {n \in 0 .. Len(s) : \E F : F = Body(F, n)}
<1>0. Len(s) \in Nat
  OBVIOUS
<1>1. 0 \in Q
  <2> DEFINE F == [i \in 0 .. 0 |-> <<>>]
  <2>1. F = Body(F, 0)
    OBVIOUS
  <2>2. 0 \in 0 .. Len(s)
    BY <1>0
  <2> HIDE DEF F
  <2>3. \E G : G = Body(G, 0)
    BY <2>1, Zenon
  <2> QED
    BY <2>2, <2>3
<1>2. ASSUME NEW n \in 0 .. Len(s), n \in Q, n < Len(s) PROVE n + 1 \in Q
  <2>1. PICK F : F = Body(F, n)
    BY <1>2
  <2> DEFINE G == [i \in 0 .. n + 1 |->
                     IF i <= n THEN F[i]
                     ELSE IF s[i] \in T THEN Append(F[i - 1], s[i]) ELSE F[i - 1]]
  <2>2. \A i \in 0 .. n : F[i] = Body(F, n)[i]
    BY <2>1
  <2>3. \A i \in 0 .. n + 1 : G[i] = Body(G, n + 1)[i]
    BY <1>0, <2>2
  <2>4. G = Body(G, n + 1)
    BY <1>0, <2>3
  <2>5. n + 1 \in 0 .. Len(s)
    BY <1>0, <1>2
  <2> QED
    BY <2>4, <2>5
<1>3. Len(s) \in Q
  <2> HIDE DEF Q
  <2>1. \A i \in 0 .. Len(s) : i \in Q
    BY <1>0, <1>1, <1>2, UpToABound
  <2> QED
    BY <1>0, <2>1
<1>4. \E F : F = Body(F, Len(s))
  BY <1>3
<1>5. (CHOOSE F : F = Body(F, Len(s))) = Body(CHOOSE F : F = Body(F, Len(s)), Len(s))
  BY <1>4, Zenon
<1>6. Only(s, T) = (CHOOSE F : F = Body(F, Len(s)))[Len(s)]
  BY DEF Only
<1>7. OnlyPrefixes(s, T, CHOOSE F : F = Body(F, Len(s)))
  BY <1>5 DEF OnlyPrefixes
<1> QED
  BY <1>6, <1>7

\* What the first n members of a list leave of it: those in the set, and all of
\* them or fewer.
Left(R, s, T, F, n) ==
    /\ F[n] \in Seq(R) /\ Len(F[n]) <= n
    /\ \A r : r \in MembersOf(F[n]) <=> r \in T /\ \E j \in 1 .. n : r = s[j]
    /\ Len(F[n]) = n => \A j \in 1 .. n : F[n][j] = s[j]
    /\ (\A j \in 1 .. n : s[j] \in T) => Len(F[n]) = n

\* What a prefix leaves.
LEMMA OnlyFromThere ==
    ASSUME NEW R, NEW s \in Seq(R), NEW T, NEW F, OnlyPrefixes(s, T, F)
    PROVE  \A n \in 0 .. Len(s) : Left(R, s, T, F, n)
<1> DEFINE Q == {n \in 0 .. Len(s) : Left(R, s, T, F, n)}
<1> USE DEF Left
<1>0. Len(s) \in Nat
  OBVIOUS
<1>1. \A n \in 0 .. Len(s) :
         F[n] = IF n = 0 THEN <<>>
                ELSE IF s[n] \in T THEN Append(F[n - 1], s[n]) ELSE F[n - 1]
  BY DEF OnlyPrefixes
<1>2. 0 \in Q
  <2>1. F[0] = <<>> /\ 0 \in 0 .. Len(s)
    BY <1>0, <1>1
  <2>2. F[0] \in Seq(R) /\ Len(F[0]) = 0 /\ 1 .. 0 = {}
    BY <2>1
  <2>3. MembersOf(F[0]) = {}
    BY <2>2 DEF MembersOf
  <2>4. Left(R, s, T, F, 0)
    BY <2>2, <2>3
  <2> QED
    BY <2>1, <2>4
<1>3. ASSUME NEW n \in 0 .. Len(s), n \in Q, n < Len(s) PROVE n + 1 \in Q
  <2>1. Left(R, s, T, F, n) /\ n \in Nat /\ n + 1 \in 0 .. Len(s) /\ n + 1 # 0 /\ (n + 1) - 1 = n
    BY <1>0, <1>3
  <2>2. s[n + 1] \in R
    BY <1>0, <2>1
  <2>3. F[n + 1] = IF s[n + 1] \in T THEN Append(F[n], s[n + 1]) ELSE F[n]
    BY <1>1, <2>1
  <2>4. CASE s[n + 1] \notin T
    <3>1. F[n + 1] = F[n]
      BY <2>3, <2>4
    <3>2. \A j : j \in 1 .. n + 1 <=> j \in 1 .. n \/ j = n + 1
      BY <2>1
    <3>3. \A r : (r \in T /\ \E j \in 1 .. n + 1 : r = s[j])
                 <=> (r \in T /\ \E j \in 1 .. n : r = s[j])
      BY <2>4, <3>2
    <3>4. Len(F[n + 1]) # n + 1
      BY <2>1, <3>1
    <3>5. ~ \A j \in 1 .. n + 1 : s[j] \in T
      BY <2>4, <3>2
    <3> QED
      BY <2>1, <3>1, <3>3, <3>4, <3>5
  <2>5. CASE s[n + 1] \in T
    <3> DEFINE e == s[n + 1]
               m == Len(F[n])
    <3>1. F[n + 1] = Append(F[n], e)
      BY <2>3, <2>5
    <3>2. /\ F[n + 1] \in Seq(R) /\ Len(F[n + 1]) = m + 1
          /\ \A j \in 1 .. m : F[n + 1][j] = F[n][j]
          /\ F[n + 1][m + 1] = e
          /\ m \in Nat
      BY <2>1, <2>2, <3>1, AppendProperties
    <3>3. \A j : j \in 1 .. n + 1 <=> j \in 1 .. n \/ j = n + 1
      BY <2>1
    <3>4. \A j : j \in 1 .. m + 1 <=> j \in 1 .. m \/ j = m + 1
      BY <3>2
    <3>5. \A r : r \in MembersOf(F[n + 1]) <=> r \in MembersOf(F[n]) \/ r = e
      BY <3>2, <3>4 DEF MembersOf
    <3>6. \A r : r \in MembersOf(F[n + 1]) <=> r \in T /\ \E j \in 1 .. n + 1 : r = s[j]
      BY <2>1, <2>5, <3>3, <3>5
    <3>7. Len(F[n + 1]) = n + 1 => \A j \in 1 .. n + 1 : F[n + 1][j] = s[j]
      BY <2>1, <3>2, <3>3
    <3>8. Len(F[n + 1]) <= n + 1
      BY <2>1, <3>2
    <3>9. (\A j \in 1 .. n + 1 : s[j] \in T) => Len(F[n + 1]) = n + 1
      <4>1. (\A j \in 1 .. n + 1 : s[j] \in T) => \A j \in 1 .. n : s[j] \in T
        BY <3>3
      <4> QED
        BY <2>1, <3>2, <4>1
    <3>10. Left(R, s, T, F, n + 1)
      BY <3>2, <3>6, <3>7, <3>8, <3>9
    <3> QED
      BY <2>1, <3>10
  <2> QED
    BY <2>4, <2>5
<1>4. \A n \in 0 .. Len(s) : n \in Q
  <2> HIDE DEF Q
  <2> QED
    BY <1>0, <1>2, <1>3, UpToABound
<1> QED
  BY <1>4

\* What a list comprehension keeps; it keeps all or it is shorter.
LEMMA OnlyKeeps ==
    ASSUME NEW R, NEW s \in Seq(R), NEW T
    PROVE  /\ Only(s, T) \in Seq(R) /\ Len(Only(s, T)) <= Len(s)
           /\ \A r : r \in MembersOf(Only(s, T)) <=> r \in T /\ r \in MembersOf(s)
           /\ ~(Len(Only(s, T)) < Len(s)) => Only(s, T) = s
           /\ MembersOf(s) \subseteq T => Only(s, T) = s
<1>0. Len(s) \in Nat /\ Len(s) \in 0 .. Len(s)
  OBVIOUS
<1>1. PICK F : OnlyPrefixes(s, T, F) /\ Only(s, T) = F[Len(s)]
  BY OnlyIsTheLast
<1> DEFINE n == Len(s)
           o == F[n]
<1>2. /\ o \in Seq(R) /\ Len(o) <= n
      /\ \A r : r \in MembersOf(o) <=> r \in T /\ \E j \in 1 .. n : r = s[j]
      /\ Len(o) = n => \A j \in 1 .. n : o[j] = s[j]
      /\ (\A j \in 1 .. n : s[j] \in T) => Len(o) = n
  <2>1. \A m \in 0 .. Len(s) : Left(R, s, T, F, m)
    BY <1>1, OnlyFromThere
  <2> QED
    BY <1>0, <2>1 DEF Left
<1>3. Len(o) = n => o = s
  BY <1>2, SeqEqual
<1>4. ~(Len(o) < n) => Len(o) = n
  BY <1>0, <1>2
<1>5. \A r : r \in MembersOf(s) <=> \E j \in 1 .. n : r = s[j]
  BY DEF MembersOf
<1>6. MembersOf(s) \subseteq T => Len(o) = n
  BY <1>2, <1>5
<1> HIDE DEF o
<1> QED
  BY <1>1, <1>2, <1>3, <1>4, <1>5, <1>6 DEF o

\* A list comprehension of a longer list.
LEMMA OnlyOfAppend ==
    ASSUME NEW R, NEW s \in Seq(R), NEW e \in R, NEW T
    PROVE  Only(Append(s, e), T) = IF e \in T THEN Append(Only(s, T), e) ELSE Only(s, T)
<1> DEFINE t == Append(s, e)
           n == Len(s)
<1>1. /\ t \in Seq(R) /\ Len(t) = n + 1 /\ n \in Nat
      /\ \A j \in 1 .. n : t[j] = s[j]
      /\ t[n + 1] = e
  BY AppendProperties
<1> HIDE DEF t
<1>2. PICK F : OnlyPrefixes(s, T, F) /\ Only(s, T) = F[Len(s)]
  BY OnlyIsTheLast
<1>3. PICK G : OnlyPrefixes(t, T, G) /\ Only(t, T) = G[Len(t)]
  BY <1>1, OnlyIsTheLast
<1>4. \A i \in 0 .. n : F[i] = IF i = 0 THEN <<>>
                               ELSE IF s[i] \in T THEN Append(F[i - 1], s[i]) ELSE F[i - 1]
  BY <1>2 DEF OnlyPrefixes
<1>5. \A i \in 0 .. n + 1 :
         G[i] = IF i = 0 THEN <<>>
                ELSE IF t[i] \in T THEN Append(G[i - 1], t[i]) ELSE G[i - 1]
  BY <1>1, <1>3 DEF OnlyPrefixes
<1> DEFINE Q == {i \in 0 .. n : F[i] = G[i]}
<1>6. 0 \in Q
  BY <1>1, <1>4, <1>5
<1>7. ASSUME NEW i \in 0 .. n, i \in Q, i < n PROVE i + 1 \in Q
  <2>1. /\ i + 1 \in 0 .. n /\ i + 1 \in 0 .. n + 1 /\ i + 1 # 0 /\ (i + 1) - 1 = i
        /\ t[i + 1] = s[i + 1] /\ F[i] = G[i]
    BY <1>1, <1>7
  <2>2. F[i + 1] = IF s[i + 1] \in T THEN Append(F[i], s[i + 1]) ELSE F[i]
    BY <1>4, <2>1
  <2>3. G[i + 1] = IF t[i + 1] \in T THEN Append(G[i], t[i + 1]) ELSE G[i]
    BY <1>5, <2>1
  <2> QED
    BY <2>1, <2>2, <2>3
<1>8. F[n] = G[n]
  <2> HIDE DEF Q
  <2>1. \A i \in 0 .. n : i \in Q
    BY <1>1, <1>6, <1>7, UpToABound
  <2> QED
    BY <1>1, <2>1 DEF Q
<1>9. G[n + 1] = IF e \in T THEN Append(G[n], e) ELSE G[n]
  <2>1. n + 1 \in 0 .. n + 1 /\ n + 1 # 0 /\ (n + 1) - 1 = n
    BY <1>1
  <2> QED
    BY <1>1, <1>5, <2>1
<1> QED
  BY <1>1, <1>2, <1>3, <1>8, <1>9 DEF t

\* Time only makes more records expired.
LEMMA Expires ==
    ASSUME NEW r \in MemoryRecords, memNow \in Nat
    PROVE  /\ IsExpired(r, memNow) \in BOOLEAN
           /\ Live(r) <=> ~IsExpired(r, memNow)
<1>1. r.ttl \in TTLs /\ r.at \in Nat
  BY DEF MemoryRecords
<1>2. r.ttl = NoTTL \/ r.ttl \in Nat
  BY <1>1, MemoryAssumption
<1> QED
  BY <1>1, <1>2 DEF IsExpired, Live

\* The invariant says what recall returns.
LEMMA MemInvRecalls ==
    ASSUME MemInv
    PROVE  RecallsTheLiving
<1> SUFFICES ASSUME memUp
             PROVE  /\ \A k \in MemoryKeys :
                         LET found == {Recall(k, FALSE)[i] : i \in DOMAIN Recall(k, FALSE)}
                         IN  /\ \A r \in memWritten \ memPurged :
                                   r.key = k /\ Live(r) => r \in found
                             /\ \A r \in found :
                                   r \in memWritten \cup memUnanswered /\ r.key = k /\ Live(r)
                    /\ \A k \in MemoryKeys : Recall(k, TRUE) = Only(memItems, Under(k))
                    /\ ~memBehind => memFile = FileOf(memItems)
  BY DEF RecallsTheLiving
<1>0. ~memBehind => memFile = FileOf(memItems)
  BY DEF MemInv
<1>9. ASSUME NEW k \in MemoryKeys
      PROVE  /\ \A r \in memWritten \ memPurged :
                  r.key = k /\ Live(r)
                      => r \in {Recall(k, FALSE)[i] : i \in DOMAIN Recall(k, FALSE)}
             /\ \A r \in {Recall(k, FALSE)[i] : i \in DOMAIN Recall(k, FALSE)} :
                  r \in memWritten \cup memUnanswered /\ r.key = k /\ Live(r)
             /\ Recall(k, TRUE) = Only(memItems, Under(k))
  <2> DEFINE list == memItems
             mine == memIndex[k]
  <2>1. /\ memNow \in Nat /\ memWritten \cup memUnanswered \subseteq MemoryRecords
        /\ list \in Seq(MemoryRecords)
        /\ MembersOf(list) \subseteq memWritten \cup memUnanswered
        /\ \A r \in memWritten \ memPurged : ~IsExpired(r, memNow) => r \in MembersOf(list)
        /\ mine = Only(list, Under(k))
    BY DEF MemInv, Holds, IndexOf
  <2> HIDE DEF list, mine
  <2>2. /\ mine \in Seq(MemoryRecords)
        /\ \A r : r \in MembersOf(mine) <=> r \in Under(k) /\ r \in MembersOf(list)
    BY <2>1, OnlyKeeps
  <2>3. Recall(k, TRUE) = mine
    <3>1. MembersOf(mine) \subseteq MemoryRecords
      BY <2>2 DEF Under
    <3>2. Only(mine, MemoryRecords) = mine
      BY <2>2, <3>1, OnlyKeeps
    <3> QED
      BY <3>2 DEF Recall, mine
  <2> DEFINE o == Recall(k, FALSE)
             some == Unexpired(memNow)
  <2>4. /\ o \in Seq(MemoryRecords)
        /\ \A r : r \in MembersOf(o) <=> r \in some /\ r \in MembersOf(mine)
    <3>1. o = Only(mine, some)
      BY DEF Recall, mine
    <3> HIDE DEF o, some
    <3>2. /\ Only(mine, some) \in Seq(MemoryRecords)
          /\ \A r : r \in MembersOf(Only(mine, some)) <=> r \in some /\ r \in MembersOf(mine)
      BY <2>2, OnlyKeeps
    <3> QED
      BY <3>1, <3>2
  <2> HIDE DEF o
  <2>5. {o[i] : i \in DOMAIN o} = MembersOf(o)
    <3>1. DOMAIN o = 1 .. Len(o)
      BY <2>4
    <3> QED
      BY <3>1 DEF MembersOf
  <2>6. ASSUME NEW r
        PROVE  r \in MembersOf(o) <=> r \in MembersOf(list) /\ r.key = k /\ Live(r)
    <3>1. r \in MembersOf(o) <=> r \in some /\ r \in Under(k) /\ r \in MembersOf(list)
      BY <2>2, <2>4
    <3>2. r \in MemoryRecords => (Live(r) <=> ~IsExpired(r, memNow))
      BY <2>1, Expires
    <3> QED
      BY <2>1, <3>1, <3>2 DEF Unexpired, Under
  <2>7. \A r \in memWritten : Live(r) <=> ~IsExpired(r, memNow)
    BY <2>1, Expires
  <2>8. \A r \in memWritten \ memPurged : r.key = k /\ Live(r) => r \in MembersOf(o)
    BY <2>1, <2>6, <2>7
  <2>10. \A r \in MembersOf(o) : r \in memWritten \cup memUnanswered /\ r.key = k /\ Live(r)
    BY <2>1, <2>6
  <2> QED
    BY <2>1, <2>3, <2>5, <2>8, <2>10 DEF o, list
<1> QED
  BY <1>0, <1>9

\* The invariant after a write, from what the list holds then and what the file
\* holds if the write left it as it was.
LEMMA WriteKeepsMem ==
    ASSUME MemInv, Persist(memItems'),
           memNow' \in Nat,
           IsFiniteSet(memWritten \cup memUnanswered)',
           (memWritten \cup memUnanswered \subseteq MemoryRecords)',
           memIndex' = IndexOf(memItems'),
           Holds(memItems)',
           memFile' = memFile /\ memBehind' = TRUE /\ ~memFile.torn => Holds(memFile.list)'
    PROVE  MemInv'
<1>1. memUp' \in BOOLEAN /\ memBehind' \in BOOLEAN
  BY DEF Persist
<1>2. CASE memFile' = FileOf(memItems') /\ memBehind' = FALSE
  <2>1. memFile'.torn = FALSE /\ memFile'.list = memItems'
    BY <1>2 DEF FileOf
  <2>2. Holds(memFile.list)'
    BY <2>1 DEF Holds
  <2> QED
    BY <1>1, <1>2, <2>1, <2>2 DEF MemInv
<1>3. CASE memFile' = memFile /\ memBehind' = TRUE
  BY <1>1, <1>3 DEF MemInv
<1>4. CASE memFile' = TornFile /\ memBehind' = TRUE
  <2>1. memFile'.torn = TRUE
    BY <1>4 DEF TornFile
  <2> QED
    BY <1>1, <1>4, <2>1 DEF MemInv
<1> QED
  BY <1>2, <1>3, <1>4 DEF Persist

\* A new record is appended to the list and to its place in the index, whether
\* or not it gets to the file.
LEMMA RememberKeepsMem ==
    ASSUME MemInv, NEW k \in MemoryKeys, NEW ttl \in TTLs, NEW plain \in BOOLEAN,
           Remember(k, ttl, plain)
    PROVE  MemInv'
<1> DEFINE all == memWritten \cup memUnanswered
           r == [key |-> k, ttl |-> ttl, at |-> memNow, id |-> Cardinality(all), plain |-> plain]
<1>1. /\ memUp
      /\ memItems' = Append(memItems, r)
      /\ memIndex' = [memIndex EXCEPT ![k] = Append(@, r)]
      /\ Persist(memItems')
      /\ \/ /\ memUp' /\ ~memBehind'
            /\ memWritten' = memWritten \cup {r} /\ memUnanswered' = memUnanswered
         \/ /\ ~memUp' \/ memBehind'
            /\ memUnanswered' = memUnanswered \cup {r} /\ memWritten' = memWritten
      /\ memNow' = memNow /\ memPurged' = memPurged
  BY DEF Remember
<1>2. /\ memNow \in Nat /\ IsFiniteSet(all) /\ all \subseteq MemoryRecords
      /\ memIndex = IndexOf(memItems)
      /\ Holds(memItems)
  BY <1>1 DEF MemInv
<1>3. r \in MemoryRecords
  <2>1. Cardinality(all) \in Nat
    BY <1>2, FS_CardinalityType
  <2> QED
    BY <1>2, <2>1 DEF MemoryRecords
<1>4. (memWritten \cup memUnanswered)' = all \cup {r}
  BY <1>1
<1> HIDE DEF r, all
<1>5. IsFiniteSet(all \cup {r}) /\ all \cup {r} \subseteq MemoryRecords
  BY <1>2, <1>3, FS_AddElement
<1> DEFINE new == Append(memItems, r)
           n == Len(memItems)
<1>6. /\ new \in Seq(MemoryRecords) /\ Len(new) = n + 1 /\ n \in Nat
      /\ \A j \in 1 .. n : new[j] = memItems[j]
      /\ new[n + 1] = r
  BY <1>2, <1>3, AppendProperties DEF Holds
<1>7. memItems' = new
  BY <1>1
<1> HIDE DEF new
<1>8. \A q : q \in MembersOf(new) <=> q \in MembersOf(memItems) \/ q = r
  <2>1. \A j : j \in 1 .. n + 1 <=> j \in 1 .. n \/ j = n + 1
    BY <1>6
  <2> QED
    BY <1>6, <2>1 DEF MembersOf
<1>9. Holds(memItems)'
  BY <1>1, <1>2, <1>6, <1>7, <1>8 DEF Holds
<1>10. memIndex' = IndexOf(memItems')
  <2>1. ASSUME NEW j \in MemoryKeys
        PROVE  Only(new, Under(j)) = IF j = k THEN Append(Only(memItems, Under(j)), r)
                                     ELSE Only(memItems, Under(j))
    <3>1. Only(Append(memItems, r), Under(j)) =
             IF r \in Under(j) THEN Append(Only(memItems, Under(j)), r)
             ELSE Only(memItems, Under(j))
      BY <1>2, <1>3, OnlyOfAppend DEF Holds
    <3>2. r \in Under(j) <=> j = k
      BY <1>3 DEF Under, r
    <3> QED
      BY <3>1, <3>2 DEF new
  <2>2. memIndex' = [memIndex EXCEPT ![k] = Append(memIndex[k], r)]
    BY <1>1
  <2>3. IndexOf(new) = [j \in MemoryKeys |-> Only(new, Under(j))]
    BY DEF IndexOf
  <2>4. memIndex = [j \in MemoryKeys |-> Only(memItems, Under(j))]
    BY <1>2 DEF IndexOf
  <2> QED
    BY <1>7, <2>1, <2>2, <2>3, <2>4
<1>11. memFile' = memFile /\ memBehind' = TRUE /\ ~memFile.torn => Holds(memFile.list)'
  <2> SUFFICES ASSUME memFile' = memFile, memBehind' = TRUE, ~memFile.torn
               PROVE  Holds(memFile.list)'
    OBVIOUS
  <2>1. Holds(memFile.list)
    BY DEF MemInv
  <2>2. memWritten' = memWritten /\ memUnanswered' = memUnanswered \cup {r}
    BY <1>1
  <2> QED
    BY <1>1, <2>1, <2>2 DEF Holds
<1>12. /\ memNow' \in Nat
       /\ IsFiniteSet(memWritten \cup memUnanswered)'
       /\ (memWritten \cup memUnanswered \subseteq MemoryRecords)'
  BY <1>1, <1>2, <1>4, <1>5
<1>13. Persist(memItems')
  BY <1>1
<1> QED
  BY <1>9, <1>10, <1>11, <1>12, <1>13, WriteKeepsMem

\* A purge removes what is over at its time, and writes if that is anything.
LEMMA PurgeKeepsMem ==
    ASSUME MemInv, NEW now \in Nat, PurgeExpired(now)
    PROVE  MemInv'
<1> DEFINE some == Unexpired(now)
           new == Only(memItems, some)
<1>1. /\ memUp
      /\ memItems' = new
      /\ memIndex' = IndexOf(memItems')
      /\ \/ Persist(memItems')
         \/ /\ ~(Len(new) < Len(memItems))
            /\ memFile' = memFile /\ memUp' = memUp /\ memBehind' = memBehind
      /\ memPurged' = memPurged \cup
            {r \in memWritten : IsExpired(r, now) /\ ~IsExpired(r, memNow)}
      /\ memNow' = memNow /\ memWritten' = memWritten /\ memUnanswered' = memUnanswered
  BY DEF PurgeExpired
<1>2. /\ memNow \in Nat /\ IsFiniteSet(memWritten \cup memUnanswered)
      /\ memWritten \cup memUnanswered \subseteq MemoryRecords
      /\ Holds(memItems)
  BY <1>1 DEF MemInv
<1> HIDE DEF some
<1>3. /\ new \in Seq(MemoryRecords)
      /\ \A q : q \in MembersOf(new) <=> q \in some /\ q \in MembersOf(memItems)
      /\ ~(Len(new) < Len(memItems)) => new = memItems
  BY <1>2, OnlyKeeps DEF Holds
<1> HIDE DEF new
<1>4. Holds(memItems)'
  BY <1>1, <1>2, <1>3 DEF Holds, some, Unexpired
<1>5. Holds(memFile.list) /\ memFile' = memFile => Holds(memFile.list)'
  BY <1>1 DEF Holds
<1>6. ~memFile.torn => Holds(memFile.list)
  BY DEF MemInv
<1>7. /\ memNow' \in Nat
      /\ IsFiniteSet(memWritten \cup memUnanswered)'
      /\ (memWritten \cup memUnanswered \subseteq MemoryRecords)'
      /\ memIndex' = IndexOf(memItems')
  BY <1>1, <1>2
<1>8. CASE Persist(memItems')
  BY <1>4, <1>5, <1>6, <1>7, <1>8, WriteKeepsMem
<1>9. CASE memFile' = memFile /\ memUp' = memUp /\ memBehind' = memBehind /\ new = memItems
  BY <1>1, <1>4, <1>5, <1>6, <1>7, <1>9 DEF MemInv
<1> QED
  BY <1>1, <1>3, <1>8, <1>9

\* What a process has in its list, and what a whole file holds, is every record
\* still owed and none that was never given to remember.
THEOREM MemoryInvariance == MemorySpec => []MemInv
<1>1. MemoryInit => MemInv
  <2> SUFFICES ASSUME MemoryInit PROVE MemInv
    OBVIOUS
  <2>1. /\ memFile = FileOf(<<>>) /\ memFile.list = <<>> /\ memFile.torn = FALSE
        /\ memItems = <<>> /\ memIndex = IndexOf(memItems) /\ memWritten \cup memUnanswered = {}
        /\ memNow \in Nat /\ memUp = TRUE /\ memBehind = FALSE
    BY DEF MemoryInit, FileOf
  <2>2. MembersOf(<<>>) = {}
    BY DEF MembersOf
  <2>3. /\ memFile = FileOf(memFile.list) /\ memItems = memFile.list
        /\ Holds(<<>>)
    <3>1. <<>> \in Seq(MemoryRecords)
      OBVIOUS
    <3>2. memWritten = {}
      BY <2>1
    <3>3. Holds(<<>>)
      BY <2>2, <3>1, <3>2, Zenon DEF Holds
    <3> QED
      BY <2>1, <3>3, Zenon
  <2>4. IsFiniteSet(memWritten \cup memUnanswered)
    BY <2>1, FS_EmptySet
  <2> QED
    <3>1. Holds(memItems) /\ Holds(memFile.list)
      BY <2>1, <2>3, Zenon
    <3> QED
      BY <2>1, <2>3, <2>4, <3>1 DEF MemInv
<1>2. MemInv /\ [MemoryNext]_memVars => MemInv'
  <2> SUFFICES ASSUME MemInv, [MemoryNext]_memVars PROVE MemInv'
    OBVIOUS
  <2>1. CASE UNCHANGED memVars
    BY <2>1 DEF memVars, MemInv, Holds
  <2>2. ASSUME NEW k \in MemoryKeys, NEW ttl \in TTLs, NEW plain \in BOOLEAN,
               Remember(k, ttl, plain)
        PROVE  MemInv'
    BY <2>2, RememberKeepsMem
  <2>3. ASSUME NEW now \in 0 .. MaxMemoryTime, PurgeExpired(now) PROVE MemInv'
    BY <2>3, PurgeKeepsMem
  <2>4. CASE MemoryStop
    BY <2>4 DEF MemoryStop, MemInv, Holds
  <2>5. CASE MemoryOpen
    BY <2>5 DEF MemoryOpen, MemInv, Holds
  <2>6. CASE MemoryTick
    <3>1. \A r \in MemoryRecords : ~IsExpired(r, memNow)' => ~IsExpired(r, memNow)
      <4> SUFFICES ASSUME NEW r \in MemoryRecords, IsExpired(r, memNow)
                   PROVE  IsExpired(r, memNow)'
        OBVIOUS
      <4>1. r.ttl \in TTLs /\ r.ttl # NoTTL /\ r.at \in Nat
        BY DEF MemoryRecords, IsExpired
      <4>2. r.ttl \in Nat
        BY <4>1, MemoryAssumption
      <4> QED
        BY <2>6, <4>1, <4>2 DEF MemoryTick, IsExpired, MemInv
    <3>2. \A r \in memWritten : ~IsExpired(r, memNow)' => ~IsExpired(r, memNow)
      BY <3>1 DEF MemInv
    <3>3. \A list : Holds(list) => /\ list \in Seq(MemoryRecords)
                                   /\ MembersOf(list) \subseteq memWritten \cup memUnanswered
                                   /\ \A r \in memWritten \ memPurged :
                                        ~IsExpired(r, memNow)' => r \in MembersOf(list)
      BY <3>2 DEF Holds
    <3>4. /\ Holds(memItems) => Holds(memItems)'
          /\ Holds(memFile.list) => Holds(memFile.list)'
      BY <2>6, <3>3 DEF MemoryTick, Holds
    <3> QED
      BY <2>6, <3>4 DEF MemoryTick, MemInv
  <2> QED
    BY <2>1, <2>2, <2>3, <2>4, <2>5, <2>6 DEF MemoryNext
<1> QED
  BY <1>1, <1>2, PTL DEF MemorySpec

\* recall returns every record still alive for which remember returned, unless a
\* purge was given a time at which it is over, in a process that was never
\* restarted and in one that read the file, and whatever writes raised.
THEOREM Recalled == MemorySpec => []RecallsTheLiving
<1>1. MemInv => RecallsTheLiving
  BY MemInvRecalls
<1> QED
  BY <1>1, MemoryInvariance, PTL

-----------------------------------------------------------------------------
(* The audit log.                                                           *)

AuditSpec == AuditInit /\ [][AuditNext]_auditVars

LinesOf(list) == {list[i] : i \in 1 .. Len(list)}

\* A line that cannot be read, and a hash that a process computed.
Unreadable(r) == r.type \in {"torn", "garbled"}
HashBy(h, n) == h = <<h[1], h[2], h[3], h[4], h[5]>> /\ h[1] = n

\* A record as the n-th process wrote it.
Genuine(r, n) ==
    /\ r = [id |-> r.id, type |-> r.type, about |-> r.about, sequence |-> r.sequence,
            previous |-> r.previous, hash |-> r.hash]
    /\ r.id = n
    /\ r.hash = HashOf(r)
    /\ r.about # "edited"
    /\ r.type \notin {"torn", "garbled"}
    /\ r.sequence \in Nat

AuditTypeOK ==
    /\ auditUp \in BOOLEAN /\ auditTouched \in BOOLEAN
    /\ auditOpens \in Nat \ {0}
    /\ auditLost \in Nat /\ auditBlocked \in Nat
    /\ auditEvents \in Seq(LinesOf(auditEvents))
    /\ auditFile \in Seq(LinesOf(auditFile))
    /\ auditOld \in Nat /\ auditOld <= Len(auditFile)
    /\ auditOpens = 1 => auditOld = 0

\* The memory of the process is its log without a gap.
EventsInv ==
    /\ ~auditUp => auditEvents = <<>>
    /\ \A i \in 1 .. Len(auditEvents) :
         Genuine(auditEvents[i], auditOpens) /\ auditEvents[i].sequence = i

\* Every hash in the file tells which process computed it; the first line a
\* process adds to the lines of others does not follow the last of them.
Origin(r, i) ==
    \/ Unreadable(r)
    \/ \E n \in 1 .. auditOpens : HashBy(r.hash, n) /\ (i <= auditOld => n # auditOpens)
StartsAnew(r) ==
    Unreadable(r) \/ r.previous = GenesisHash \/ HashBy(r.previous, auditOpens)
OriginInv ==
    /\ \A i \in 1 .. Len(auditFile) : Origin(auditFile[i], i)
    /\ 0 < auditOld /\ auditOld < Len(auditFile) => StartsAnew(auditFile[auditOld + 1])

\* The file of the first process, as long as nobody touched it: its records in
\* their order, some missing, perhaps a torn line at the end.
FirstFileInv ==
    auditOpens = 1 /\ ~auditTouched =>
        /\ \A i \in 1 .. Len(auditFile) :
             \/ Genuine(auditFile[i], 1) /\ i <= auditFile[i].sequence
             \/ auditFile[i] = TornLine /\ i = Len(auditFile) /\ ~auditUp
        /\ \A i \in 1 .. Len(auditFile) : i > 1 /\ auditFile[i] # TornLine =>
             /\ auditFile[i - 1].sequence < auditFile[i].sequence
             /\ auditFile[i].sequence = auditFile[i - 1].sequence + 1 =>
                  auditFile[i].previous = auditFile[i - 1].hash
        /\ Len(auditFile) > 0 /\ auditFile[1].sequence = 1 =>
             auditFile[1].previous = GenesisHash
        /\ auditLost = 0 => \A i \in 1 .. Len(auditFile) :
             auditFile[i] # TornLine => auditFile[i].sequence = i
        /\ auditUp =>
             /\ Len(auditFile) <= Len(auditEvents)
             /\ auditLost = 0 => Len(auditFile) = Len(auditEvents)
             /\ Len(auditFile) > 0 =>
                  LET last == auditFile[Len(auditFile)]
                  IN  /\ last.sequence <= Len(auditEvents)
                      /\ last.sequence = Len(auditEvents) =>
                           last.hash = auditEvents[Len(auditEvents)].hash

TouchedInv == auditOpens = 1 /\ auditTouched => VerifyIntegrity(auditFile) # "ok"

AuditInv == AuditTypeOK /\ EventsInv /\ OriginInv /\ FirstFileInv /\ TouchedInv

\* The facts that tools reported.
Reported(trust) == [f \in StateKeys |-> IF f \in OwnFacts THEN "none" ELSE trust[f]]

\* What the replay makes of a file and what the process knows of its task.
SameTask(replayed, known) ==
    /\ replayed # "paused"
    /\ \/ replayed = known
       \/ replayed = "retrying" /\ known = "queued"
       \/ replayed = "running" /\ known \in {"paused", "queued"}

VerifiedLines(file) == {k \in 1 .. Len(file) : file[k].type = "step.verified"}

\* What is derived from the events is what the process knows.
ViewsInv ==
    /\ auditTrust \in [StateKeys -> {"none", "tool_reported", "verified"}]
    /\ DOMAIN auditCounted = {"events", "steps_verified"}
    /\ auditUp /\ auditOpens = 1 /\ ~auditTouched =>
        /\ auditLost = 0 /\ auditBlocked = 0 =>
             /\ Replay(auditFile).facts = Reported(auditTrust)
             /\ SameTask(Replay(auditFile).task, auditTask)
        /\ auditCounted["events"] = Len(auditFile)
        /\ auditCounted["steps_verified"] = Cardinality(VerifiedLines(auditFile))

\* A line that verify_integrity does not accept.
BadAt(file, k) ==
    \/ Unreadable(file[k])
    \/ file[k].sequence # k
    \/ file[k].previous # (IF k = 1 THEN GenesisHash ELSE file[k - 1].hash)
    \/ file[k].hash # HashOf(file[k])

\* verify_integrity answers ok if there is no such line.
LEMMA VerdictIs ==
    ASSUME NEW S, NEW file \in Seq(S)
    PROVE  /\ VerifyIntegrity(file) = "ok" <=> \A k \in 1 .. Len(file) : ~BadAt(file, k)
           /\ VerifyIntegrity(file) = "fail" =>
                /\ \A k \in 1 .. Len(file) : ~Unreadable(file[k])
                /\ \E k \in 1 .. Len(file) : BadAt(file, k)
<1>1. DOMAIN file = 1 .. Len(file)
  OBVIOUS
<1>2. ASSUME NEW k \in 1 .. Len(file)
      PROVE  Unreadable(file[k]) \/ RecordIssues(file, k) # {} <=> BadAt(file, k)
  <2>1. RecordIssues(file, k) # {} <=>
          \/ file[k].sequence # k
          \/ file[k].previous # (IF k = 1 THEN GenesisHash ELSE file[k - 1].hash)
          \/ file[k].hash # HashOf(file[k])
    BY DEF RecordIssues
  <2> QED
    BY <2>1 DEF BadAt
<1>3. /\ VerifyIntegrity(file) = "ok" <=>
          /\ ~ \E k \in DOMAIN file : Unreadable(file[k])
          /\ ~ \E k \in DOMAIN file : RecordIssues(file, k) # {}
      /\ VerifyIntegrity(file) = "fail" =>
          /\ ~ \E k \in DOMAIN file : Unreadable(file[k])
          /\ \E k \in DOMAIN file : RecordIssues(file, k) # {}
  BY DEF VerifyIntegrity, Unreadable
<1> QED
  BY <1>1, <1>2, <1>3

\* Neither a torn line nor a garbled one can be read.
LEMMA BrokenLines == Unreadable(TornLine) /\ Unreadable(GarbledLine)
<1>1. TornLine.type = "torn"
  BY DEF TornLine
<1>2. GarbledLine.type = "garbled"
  BY DEF GarbledLine, TornLine
<1> QED
  BY <1>1, <1>2 DEF Unreadable

\* One line more, or the torn line at the end made unreadable for good.
LongerBy(file, r, new) ==
    /\ Len(new) = Len(file) + 1
    /\ \A i \in 1 .. Len(file) : new[i] = file[i]
    /\ new[Len(file) + 1] = r
GarbledAtTheEnd(file, new) ==
    /\ Len(file) > 0 /\ file[Len(file)] = TornLine
    /\ Len(new) = Len(file)
    /\ \A i \in 1 .. Len(file) : i # Len(file) => new[i] = file[i]
    /\ new[Len(file)] = GarbledLine

\* A sequence is one of its own members.
LEMMA OwnLines ==
    ASSUME NEW S, NEW f \in Seq(S)
    PROVE  f \in Seq(LinesOf(f))
<1>1. /\ Len(f) \in Nat /\ f = [i \in 1 .. Len(f) |-> f[i]]
  BY LenProperties
<1>2. \A i \in 1 .. Len(f) : f[i] \in LinesOf(f)
  BY DEF LinesOf
<1>3. f \in [1 .. Len(f) -> LinesOf(f)]
  BY <1>1, <1>2
<1> QED
  BY <1>1, <1>3, SeqDef

\* A line appended to a file: the file is longer by just that line.
LEMMA AppendedLines ==
    ASSUME NEW S, NEW f \in Seq(S), NEW r
    PROVE  /\ Append(f, r) \in Seq(LinesOf(Append(f, r)))
           /\ LongerBy(f, r, Append(f, r))
           /\ Len(f) \in Nat
<1>1. f \in Seq(S \cup {r}) /\ r \in S \cup {r}
  OBVIOUS
<1>2. Append(f, r) \in Seq(S \cup {r}) /\ LongerBy(f, r, Append(f, r))
  BY <1>1, AppendProperties DEF LongerBy
<1>3. Append(f, r) \in Seq(LinesOf(Append(f, r)))
  BY <1>2, OwnLines
<1> QED
  BY <1>2, <1>3

\* What record appends to the file: a line of its own, or, after a line that a
\* crash tore, the rest of that line, which no reader can parse.
LEMMA WrittenLines ==
    ASSUME NEW S, NEW f \in Seq(S), NEW r
    PROVE  LET g == WriteLine(f, r)
           IN  /\ g \in Seq(LinesOf(g))
               /\ \/ GarbledAtTheEnd(f, g)
                  \/ LongerBy(f, r, g) /\ (Len(f) > 0 => f[Len(f)] # TornLine)
<1> DEFINE torn == f # <<>> /\ f[Len(f)] = TornLine
           g == WriteLine(f, r)
<1>1. Len(f) \in Nat /\ (f # <<>> <=> Len(f) > 0)
  BY EmptySeq
<1>2. CASE torn
  <2> DEFINE h == [f EXCEPT ![Len(f)] = GarbledLine]
  <2>1. g = h
    BY <1>2 DEF WriteLine
  <2>2. f \in Seq(S \cup {GarbledLine})
    OBVIOUS
  <2>3. Len(f) \in 1 .. Len(f) /\ GarbledLine \in S \cup {GarbledLine}
    BY <1>1, <1>2
  <2>4. /\ h \in Seq(S \cup {GarbledLine}) /\ Len(h) = Len(f)
        /\ \A i \in 1 .. Len(f) : h[i] = IF i = Len(f) THEN GarbledLine ELSE f[i]
    BY <2>2, <2>3, ExceptSeq
  <2>5. h \in Seq(LinesOf(h))
    BY <2>4, OwnLines
  <2>6. GarbledAtTheEnd(f, h)
    BY <1>1, <1>2, <2>3, <2>4 DEF GarbledAtTheEnd
  <2> QED
    BY <2>1, <2>5, <2>6
<1>3. CASE ~torn
  <2>1. g = Append(f, r)
    BY <1>3 DEF WriteLine
  <2> QED
    BY <1>1, <1>3, <2>1, AppendedLines
<1> QED
  BY <1>2, <1>3

\* A log that did not verify does not verify after another line either.
LEMMA BadStaysBad ==
    ASSUME NEW S, NEW f \in Seq(S), NEW r, VerifyIntegrity(f) # "ok"
    PROVE  VerifyIntegrity(WriteLine(f, r)) # "ok"
<1> DEFINE g == WriteLine(f, r)
<1>1. /\ g \in Seq(LinesOf(g))
      /\ \/ GarbledAtTheEnd(f, g)
         \/ LongerBy(f, r, g) /\ (Len(f) > 0 => f[Len(f)] # TornLine)
  BY WrittenLines
<1>2. PICK k \in 1 .. Len(f) : BadAt(f, k)
  BY VerdictIs
<1> HIDE DEF g
<1>3. Len(f) \in Nat /\ k \in Nat
  OBVIOUS
<1>4. CASE GarbledAtTheEnd(f, g)
  <2>1. Len(f) \in 1 .. Len(g) /\ BadAt(g, Len(f))
    <3>1. g[Len(f)] = GarbledLine /\ Len(f) \in 1 .. Len(g)
      BY <1>3, <1>4 DEF GarbledAtTheEnd
    <3> QED
      BY <3>1, BrokenLines DEF BadAt
  <2> QED
    BY <1>1, <2>1, VerdictIs DEF g
<1>5. CASE LongerBy(f, r, g)
  <2>1. k \in 1 .. Len(g) /\ g[k] = f[k] /\ (k # 1 => g[k - 1] = f[k - 1])
    <3>1. k # 1 => k - 1 \in 1 .. Len(f)
      BY <1>3
    <3> QED
      BY <1>3, <1>5, <3>1 DEF LongerBy
  <2>2. BadAt(g, k)
    BY <1>2, <2>1 DEF BadAt
  <2> QED
    BY <1>1, <2>1, <2>2, VerdictIs DEF g
<1> QED
  BY <1>1, <1>4, <1>5

\* The record a process makes next.
Fresh(r) ==
    /\ Genuine(r, auditOpens)
    /\ r.sequence = Len(auditEvents) + 1
    /\ r.previous = IF auditEvents = <<>> THEN GenesisHash
                    ELSE auditEvents[Len(auditEvents)].hash

\* It reaches the memory, and the file and the counters or neither.
Recorded(r, secret) ==
    /\ auditEvents' = Append(auditEvents, r)
    /\ auditBlocked' = auditBlocked + (IF secret THEN 1 ELSE 0)
    /\ \/ auditFile' = WriteLine(auditFile, r) /\ auditLost' = auditLost
          /\ auditCounted' = FanOut(r.type)
       \/ auditFile' = auditFile /\ auditLost' = auditLost + 1
          /\ auditCounted' = auditCounted
    /\ UNCHANGED <<auditUp, auditOpens, auditTouched, auditOld>>

\* The types of events, and what they are about.
StepTypes == {"step.executed", "state.trust_escalated", "step.idempotency_recorded",
              "step.verified"}
EventTypes == StepTypes \cup DOMAIN TaskMoves

\* No event that the queue or the manager records has the type of a broken line.
LEMMA TypesAreReadable ==
    \A t \in EventTypes : t \notin {"torn", "garbled", "edited", "audit.secret_blocked"}
<1>1. DOMAIN TaskMoves = {"task_enqueued", "task_claimed", "task_completed", "task_failed",
                          "task_timed_out", "task_cancelled", "task_retry_scheduled",
                          "task_paused", "task_resumed"}
  BY DEF TaskMoves
<1> QED
  BY <1>1 DEF EventTypes, StepTypes

\* What record adds: one fresh record of the event, or of the refusal to store
\* the secret that the event holds.
LEMMA RecordIs ==
    ASSUME AuditTypeOK, NEW type \in EventTypes, NEW about, about # "edited",
           Record(type, about)
    PROVE  \E r : \E secret \in BOOLEAN :
             /\ Fresh(r) /\ Recorded(r, secret)
             /\ r.type = IF secret THEN "audit.secret_blocked" ELSE type
             /\ ~secret => r.about = about
<1>1. PICK secret \in BOOLEAN :
        LET r == IF secret THEN NextRecord("audit.secret_blocked", type)
                  ELSE NextRecord(type, about)
        IN  Recorded(r, secret)
  BY DEF Record, Recorded
<1>2. PICK t, a : /\ t = IF secret THEN "audit.secret_blocked" ELSE type
                  /\ a = IF secret THEN type ELSE about
  OBVIOUS
<1>3. Recorded(NextRecord(t, a), secret)
  BY <1>1, <1>2
<1>4. t \notin {"torn", "garbled"} /\ a # "edited"
  BY <1>2, TypesAreReadable
<1>5. PICK n, previous : /\ n = Len(auditEvents) + 1
                         /\ previous = IF auditEvents = <<>> THEN GenesisHash
                                       ELSE auditEvents[Len(auditEvents)].hash
  OBVIOUS
<1>6. PICK o : o = auditOpens
  OBVIOUS
<1>7. PICK r : r = [id |-> o, type |-> t, about |-> a, sequence |-> n,
                    previous |-> previous, hash |-> <<o, t, a, n, previous>>]
  OBVIOUS
<1>8. NextRecord(t, a) = r
  BY <1>5, <1>6, <1>7 DEF NextRecord, HashOf
<1>9. n \in Nat
  BY <1>5 DEF AuditTypeOK
<1>10. Genuine(r, o)
  BY <1>4, <1>7, <1>9 DEF Genuine, HashOf
<1>11. Fresh(r)
  BY <1>5, <1>6, <1>7, <1>10 DEF Fresh
<1>12. r.type = t /\ r.about = a
  BY <1>7
<1> QED
  BY <1>2, <1>3, <1>8, <1>11, <1>12

\* A genuine record carries the hash of its process and can be read.
LEMMA GenuineHash ==
    ASSUME NEW r, NEW n, Genuine(r, n)
    PROVE  HashBy(r.hash, n) /\ ~Unreadable(r) /\ r # TornLine
<1>1. r.hash = <<r.id, r.type, r.about, r.sequence, r.previous>> /\ r.id = n
  BY DEF Genuine, HashOf
<1>2. HashBy(r.hash, n)
  BY <1>1 DEF HashBy
<1>3. ~Unreadable(r)
  BY DEF Genuine, Unreadable
<1> QED
  BY <1>2, <1>3, BrokenLines

\* A line written by the process that has the file open says where it is from.
LEMMA WriteKeepsOrigin ==
    ASSUME AuditTypeOK, OriginInv, NEW r,
           \A i \in Nat : i > auditOld => Origin(r, i), StartsAnew(r),
           auditOld' = auditOld, auditOpens' = auditOpens,
           \/ auditFile' = auditFile
           \/ GarbledAtTheEnd(auditFile, auditFile')
           \/ LongerBy(auditFile, r, auditFile')
    PROVE  OriginInv'
<1> DEFINE file == auditFile
           n == Len(file)
<1>1. auditOld \in Nat /\ auditOld <= n /\ n \in Nat
  BY DEF AuditTypeOK
<1>2. /\ \A i \in 1 .. n : Origin(file[i], i)
      /\ 0 < auditOld /\ auditOld < n => StartsAnew(file[auditOld + 1])
  BY DEF OriginInv
<1>3. Origin(GarbledLine, n) /\ StartsAnew(GarbledLine)
  BY BrokenLines DEF Origin, StartsAnew
<1>4. /\ \A i \in 1 .. Len(file') : Origin(file'[i], i)
      /\ 0 < auditOld /\ auditOld < Len(file') => StartsAnew(file'[auditOld + 1])
  <2>1. CASE file' = file
    BY <1>2, <2>1
  <2>2. CASE GarbledAtTheEnd(file, file')
    <3>1. /\ Len(file') = n /\ n > 0
          /\ \A i \in 1 .. n : file'[i] = IF i = n THEN GarbledLine ELSE file[i]
      BY <2>2 DEF GarbledAtTheEnd
    <3>2. auditOld < n => auditOld + 1 \in 1 .. n
      BY <1>1
    <3> QED
      BY <1>1, <1>2, <1>3, <3>1, <3>2
  <2>3. CASE LongerBy(file, r, file')
    <3>1. /\ Len(file') = n + 1
          /\ \A i \in 1 .. n + 1 : file'[i] = IF i = n + 1 THEN r ELSE file[i]
      BY <1>1, <2>3 DEF LongerBy
    <3>2. n + 1 \in Nat /\ n + 1 > auditOld
      BY <1>1
    <3>3. \A i \in 1 .. n + 1 : i = n + 1 \/ i \in 1 .. n
      BY <1>1
    <3>4. \A i \in 1 .. n + 1 : Origin(file'[i], i)
      BY <1>2, <3>1, <3>2, <3>3
    <3>5. auditOld + 1 \in 1 .. n + 1 /\ (auditOld + 1 = n + 1 \/ auditOld < n)
      BY <1>1
    <3>6. 0 < auditOld => StartsAnew(file'[auditOld + 1])
      BY <1>2, <3>1, <3>5
    <3> QED
      BY <3>1, <3>4, <3>6
  <2> QED
    BY <2>1, <2>2, <2>3
<1>5. /\ \A q, i : Origin(q, i) => Origin(q, i)'
      /\ \A q : StartsAnew(q) => StartsAnew(q)'
  BY DEF Origin, StartsAnew
<1> QED
  BY <1>4, <1>5 DEF OriginInv

\* Recording an event keeps the invariant.
LEMMA RecordKeepsAudit ==
    ASSUME AuditInv, auditUp, NEW r, NEW secret \in BOOLEAN, Fresh(r), Recorded(r, secret)
    PROVE  AuditInv'
<1>0. /\ auditUp' = auditUp /\ auditOpens' = auditOpens /\ auditTouched' = auditTouched
      /\ auditOld' = auditOld
  BY DEF Recorded
<1> DEFINE file == auditFile
           events == auditEvents
           n == Len(file)
           m == Len(events)
<1>1. /\ auditUp \in BOOLEAN /\ auditTouched \in BOOLEAN /\ auditOpens \in Nat \ {0}
      /\ auditLost \in Nat /\ auditBlocked \in Nat
      /\ events \in Seq(LinesOf(events)) /\ file \in Seq(LinesOf(file))
      /\ auditOld \in Nat /\ auditOld <= n /\ (auditOpens = 1 => auditOld = 0)
      /\ n \in Nat /\ m \in Nat
  BY DEF AuditInv, AuditTypeOK
<1>2. /\ events' \in Seq(LinesOf(events')) /\ LongerBy(events, r, events')
  BY <1>1, AppendedLines DEF Recorded
<1>3. \/ /\ file' = WriteLine(file, r) /\ auditLost' = auditLost
         /\ file' \in Seq(LinesOf(file'))
         /\ \/ GarbledAtTheEnd(file, file')
            \/ LongerBy(file, r, file') /\ (n > 0 => file[n] # TornLine)
      \/ file' = file /\ auditLost' = auditLost + 1
  BY <1>1, WrittenLines DEF Recorded
<1>4. AuditTypeOK'
  <2>1. auditBlocked' \in Nat /\ auditLost' \in Nat
    BY <1>1, <1>3 DEF Recorded
  <2>2. file' \in Seq(LinesOf(file')) /\ Len(file') \in Nat /\ Len(file') >= n
    <3>1. CASE file' = file
      BY <1>1, <3>1
    <3>2. CASE GarbledAtTheEnd(file, file') /\ file' \in Seq(LinesOf(file'))
      BY <1>1, <3>2 DEF GarbledAtTheEnd
    <3>3. CASE LongerBy(file, r, file') /\ file' \in Seq(LinesOf(file'))
      BY <1>1, <3>3 DEF LongerBy
    <3> QED
      BY <1>3, <3>1, <3>2, <3>3
  <2> QED
    BY <1>0, <1>1, <1>2, <2>1, <2>2 DEF AuditTypeOK
<1>5. EventsInv'
  <2>1. \A i \in 1 .. m + 1 : Genuine(events'[i], auditOpens) /\ events'[i].sequence = i
    <3> TAKE i \in 1 .. m + 1
    <3>1. CASE i = m + 1
      BY <1>2, <3>1 DEF LongerBy, Fresh
    <3>2. CASE i \in 1 .. m
      BY <1>2, <3>2 DEF LongerBy, AuditInv, EventsInv
    <3> QED
      BY <1>1, <3>1, <3>2
  <2>2. Len(events') = m + 1
    BY <1>2 DEF LongerBy
  <2> QED
    BY <1>0, <2>1, <2>2 DEF EventsInv
<1>6. OriginInv'
  <2>1. \A i \in Nat : i > auditOld => Origin(r, i)
    <3>1. HashBy(r.hash, auditOpens) /\ auditOpens \in 1 .. auditOpens
      BY <1>1, GenuineHash DEF Fresh
    <3> QED
      BY <1>1, <3>1 DEF Origin
  <2>2. StartsAnew(r)
    <3>1. CASE events = <<>>
      BY <3>1 DEF Fresh, StartsAnew
    <3>2. CASE events # <<>>
      <4>1. m \in 1 .. m
        BY <1>1, <3>2, EmptySeq
      <4>2. Genuine(events[m], auditOpens)
        BY <4>1 DEF AuditInv, EventsInv
      <4> QED
        BY <3>2, <4>2, GenuineHash DEF Fresh, StartsAnew
    <3> QED
      BY <3>1, <3>2
  <2> QED
    BY <1>0, <1>3, <2>1, <2>2, WriteKeepsOrigin DEF AuditInv
<1>7. TouchedInv'
  <2>1. VerifyIntegrity(file) # "ok" => VerifyIntegrity(file') # "ok"
    <3>1. CASE file' = file
      BY <3>1
    <3>2. CASE file' = WriteLine(file, r)
      BY <1>1, <3>2, BadStaysBad
    <3> QED
      BY <1>3, <3>1, <3>2
  <2> QED
    BY <1>0, <2>1 DEF AuditInv, TouchedInv
<1>8. FirstFileInv'
  <2> SUFFICES ASSUME auditOpens = 1, ~auditTouched PROVE FirstFileInv'
    BY <1>0 DEF FirstFileInv
  <2>0. FirstFileInv
    BY DEF AuditInv
  <2>1. /\ \A i \in 1 .. n : Genuine(file[i], 1) /\ i <= file[i].sequence
        /\ \A i \in 1 .. n : i > 1 =>
             /\ file[i - 1].sequence < file[i].sequence
             /\ file[i].sequence = file[i - 1].sequence + 1 =>
                  file[i].previous = file[i - 1].hash
        /\ n > 0 /\ file[1].sequence = 1 => file[1].previous = GenesisHash
        /\ auditLost = 0 => \A i \in 1 .. n : file[i].sequence = i
        /\ n <= m /\ (auditLost = 0 => n = m)
        /\ n > 0 => /\ file[n].sequence <= m
                    /\ file[n].sequence = m => file[n].hash = events[m].hash
    <3>1. \A i \in 1 .. n : Genuine(file[i], 1) /\ i <= file[i].sequence
      BY <2>0 DEF FirstFileInv
    <3>2. \A i \in 1 .. n : file[i] # TornLine
      BY <3>1, GenuineHash
    <3> QED
      BY <2>0, <3>1, <3>2 DEF FirstFileInv
  <2>2. \A i \in 1 .. n : file[i].sequence \in Nat
    BY <2>1 DEF Genuine
  <2>3. /\ Len(events') = m + 1 /\ events'[m + 1] = r
        /\ Genuine(r, 1) /\ r.sequence = m + 1
        /\ r # TornLine
    BY <1>2, GenuineHash DEF LongerBy, Fresh
  <2>4. CASE file' = file /\ auditLost' = auditLost + 1
    <3>1. auditLost' # 0 /\ n <= m + 1
      BY <1>1, <2>1, <2>4
    <3>2. n > 0 => file[n].sequence <= m + 1 /\ file[n].sequence # m + 1
      <4>1. n > 0 => n \in 1 .. n
        BY <1>1
      <4> QED
        BY <1>1, <2>1, <2>2, <4>1
    <3> QED
      BY <1>0, <2>1, <2>3, <2>4, <3>1, <3>2 DEF FirstFileInv
  <2>5. CASE LongerBy(file, r, file') /\ auditLost' = auditLost
    <3>1. /\ Len(file') = n + 1
          /\ \A i \in 1 .. n + 1 : file'[i] = IF i = n + 1 THEN r ELSE file[i]
      BY <1>1, <2>5 DEF LongerBy
    <3>2. \A i \in 1 .. n + 1 : i = n + 1 \/ i \in 1 .. n
      BY <1>1
    <3>3. n > 0 => n \in 1 .. n /\ n \in 1 .. n + 1
      BY <1>1
    <3>4. ASSUME NEW i \in 1 .. n + 1
          PROVE  Genuine(file'[i], 1) /\ i <= file'[i].sequence
      <4>1. CASE i = n + 1
        <5>1. file'[i] = r
          BY <3>1, <4>1
        <5>2. n + 1 <= m + 1
          BY <1>1, <2>1
        <5> QED
          BY <2>3, <4>1, <5>1, <5>2
      <4>2. CASE i \in 1 .. n
        <5>1. i # n + 1
          BY <1>1, <4>2
        <5>2. file'[i] = file[i]
          BY <3>1, <3>4, <5>1
        <5> QED
          BY <2>1, <4>2, <5>2
      <4> QED
        BY <3>2, <3>4, <4>1, <4>2
    <3>5. ASSUME NEW i \in 1 .. n + 1, i > 1
          PROVE  /\ file'[i - 1].sequence < file'[i].sequence
                 /\ file'[i].sequence = file'[i - 1].sequence + 1 =>
                      file'[i].previous = file'[i - 1].hash
      <4>1. CASE i = n + 1
        <5>1. n > 0 /\ n \in 1 .. n /\ i - 1 = n /\ file'[i - 1] = file[n] /\ file'[i] = r
          BY <1>1, <3>1, <3>5, <4>1
        <5>2. file[n].sequence < r.sequence
          BY <1>1, <2>1, <2>2, <2>3, <5>1
        <5>3. r.sequence = file[n].sequence + 1 => r.previous = file[n].hash
          <6>1. r.sequence = file[n].sequence + 1 => file[n].sequence = m
            BY <1>1, <2>2, <2>3, <5>1
          <6>2. events # <<>>
            BY <1>1, <2>1, <5>1
          <6> QED
            BY <2>1, <5>1, <6>1, <6>2 DEF Fresh
        <5> QED
          BY <5>1, <5>2, <5>3
      <4>2. CASE i \in 1 .. n
        <5>1. i - 1 \in 1 .. n + 1 /\ i - 1 # n + 1 /\ i # n + 1
          BY <1>1, <3>5, <4>2
        <5> QED
          BY <2>1, <3>1, <3>5, <4>2, <5>1
      <4> QED
        BY <3>2, <4>1, <4>2
    <3>6. file'[1].sequence = 1 => file'[1].previous = GenesisHash
      <4>1. CASE n = 0
        <5>1. file'[1] = r
          BY <3>1, <4>1
        <5>2. r.sequence = 1 => events = <<>>
          BY <1>1, <2>3, EmptySeq
        <5> QED
          BY <5>1, <5>2 DEF Fresh
      <4>2. CASE n > 0
        <5>1. file'[1] = file[1]
          BY <1>1, <3>1, <4>2
        <5> QED
          BY <2>1, <4>2, <5>1
      <4> QED
        BY <1>1, <4>1, <4>2
    <3>7. ASSUME auditLost = 0, NEW i \in 1 .. n + 1
          PROVE  file'[i].sequence = i
      <4>1. CASE i = n + 1
        BY <1>1, <2>1, <2>3, <3>1, <3>7, <4>1
      <4>2. CASE i \in 1 .. n
        <5>1. i # n + 1
          BY <1>1, <4>2
        <5> QED
          BY <2>1, <3>1, <3>7, <4>2, <5>1
      <4> QED
        BY <3>2, <4>1, <4>2
    <3>8. file'[n + 1] = r /\ n + 1 <= m + 1 /\ (auditLost = 0 => n + 1 = m + 1)
          /\ r.sequence <= m + 1
      BY <1>1, <2>1, <2>3, <3>1
    <3> QED
      BY <1>0, <2>3, <2>5, <3>1, <3>4, <3>5, <3>6, <3>7, <3>8 DEF FirstFileInv
  <2>6. ~GarbledAtTheEnd(file, file')
    <3> SUFFICES ASSUME GarbledAtTheEnd(file, file') PROVE FALSE
      OBVIOUS
    <3>1. n \in 1 .. n /\ file[n] = TornLine
      BY <1>1 DEF GarbledAtTheEnd
    <3> QED
      BY <2>1, <3>1, GenuineHash
  <2> QED
    BY <1>3, <2>4, <2>5, <2>6
<1> QED
  BY <1>4, <1>5, <1>6, <1>7, <1>8 DEF AuditInv

\* A process that dies leaves its lines, and perhaps a torn one.
LEMMA CrashKeepsAudit ==
    ASSUME AuditInv, AuditCrash
    PROVE  AuditInv'
<1> DEFINE file == auditFile
           n == Len(file)
<1>0. /\ auditUp /\ auditUp' = FALSE /\ auditOpens' = auditOpens
      /\ auditTouched' = auditTouched /\ auditOld' = auditOld /\ auditLost' = auditLost
      /\ auditBlocked' = 0 /\ auditEvents' = <<>>
      /\ file' = file \/ file' = WriteLine(file, TornLine)
  BY DEF AuditCrash
<1>1. /\ auditTouched \in BOOLEAN /\ auditOpens \in Nat \ {0} /\ auditLost \in Nat
      /\ file \in Seq(LinesOf(file))
      /\ auditOld \in Nat /\ auditOld <= n /\ (auditOpens = 1 => auditOld = 0)
      /\ n \in Nat
  BY DEF AuditInv, AuditTypeOK
<1>2. \/ file' = file
      \/ /\ file' = WriteLine(file, TornLine)
         /\ file' \in Seq(LinesOf(file'))
         /\ \/ GarbledAtTheEnd(file, file')
            \/ LongerBy(file, TornLine, file') /\ (n > 0 => file[n] # TornLine)
  BY <1>0, <1>1, WrittenLines
<1>3. AuditTypeOK'
  <2>1. file' \in Seq(LinesOf(file')) /\ Len(file') \in Nat /\ Len(file') >= n
    <3>1. CASE file' = file
      BY <1>1, <3>1
    <3>2. CASE GarbledAtTheEnd(file, file') /\ file' \in Seq(LinesOf(file'))
      BY <1>1, <3>2 DEF GarbledAtTheEnd
    <3>3. CASE LongerBy(file, TornLine, file') /\ file' \in Seq(LinesOf(file'))
      BY <1>1, <3>3 DEF LongerBy
    <3> QED
      BY <1>2, <3>1, <3>2, <3>3
  <2>2. auditEvents' \in Seq(LinesOf(auditEvents'))
    BY <1>0
  <2>3. auditOld' \in Nat /\ auditOld' <= Len(file') /\ (auditOpens' = 1 => auditOld' = 0)
    BY <1>0, <1>1, <2>1
  <2>4. /\ auditUp' \in BOOLEAN /\ auditTouched' \in BOOLEAN /\ auditOpens' \in Nat \ {0}
        /\ auditLost' \in Nat /\ auditBlocked' \in Nat
    BY <1>0, <1>1
  <2> QED
    BY <2>1, <2>2, <2>3, <2>4 DEF AuditTypeOK
<1>4. EventsInv'
  BY <1>0 DEF EventsInv
<1>5. OriginInv'
  <2>1. (\A i \in Nat : i > auditOld => Origin(TornLine, i)) /\ StartsAnew(TornLine)
    BY BrokenLines DEF Origin, StartsAnew
  <2> QED
    BY <1>0, <1>2, <2>1, WriteKeepsOrigin DEF AuditInv
<1>6. TouchedInv'
  <2>1. VerifyIntegrity(file) # "ok" => VerifyIntegrity(file') # "ok"
    <3>1. CASE file' = file
      BY <3>1
    <3>2. CASE file' = WriteLine(file, TornLine)
      BY <1>1, <3>2, BadStaysBad
    <3> QED
      BY <1>0, <3>1, <3>2
  <2> QED
    BY <1>0, <2>1 DEF AuditInv, TouchedInv
<1>7. FirstFileInv'
  <2> SUFFICES ASSUME auditOpens = 1, ~auditTouched PROVE FirstFileInv'
    BY <1>0 DEF FirstFileInv
  <2>0. FirstFileInv
    BY DEF AuditInv
  <2>1. /\ \A i \in 1 .. n : Genuine(file[i], 1) /\ i <= file[i].sequence
        /\ \A i \in 1 .. n : i > 1 /\ file[i] # TornLine =>
             /\ file[i - 1].sequence < file[i].sequence
             /\ file[i].sequence = file[i - 1].sequence + 1 =>
                  file[i].previous = file[i - 1].hash
        /\ n > 0 /\ file[1].sequence = 1 => file[1].previous = GenesisHash
        /\ auditLost = 0 => \A i \in 1 .. n : file[i] # TornLine => file[i].sequence = i
    BY <1>0, <2>0 DEF FirstFileInv
  <2>2. CASE file' = file
    BY <1>0, <2>1, <2>2 DEF FirstFileInv
  <2>3. CASE LongerBy(file, TornLine, file')
    <3>1. /\ Len(file') = n + 1
          /\ \A i \in 1 .. n + 1 : file'[i] = IF i = n + 1 THEN TornLine ELSE file[i]
      BY <1>1, <2>3 DEF LongerBy
    <3>2. \A i \in 1 .. n + 1 : i = n + 1 \/ i \in 1 .. n
      BY <1>1
    <3>3. \A i \in 1 .. n + 1 :
             \/ Genuine(file'[i], 1) /\ i <= file'[i].sequence
             \/ file'[i] = TornLine /\ i = n + 1
      BY <2>1, <3>1, <3>2
    <3>4. ASSUME NEW i \in 1 .. n + 1, i > 1, file'[i] # TornLine
          PROVE  /\ file'[i - 1].sequence < file'[i].sequence
                 /\ file'[i].sequence = file'[i - 1].sequence + 1 =>
                      file'[i].previous = file'[i - 1].hash
      <4>1. i # n + 1 /\ i \in 1 .. n /\ i - 1 \in 1 .. n + 1 /\ i - 1 # n + 1
        BY <1>1, <3>1, <3>2, <3>4
      <4> QED
        BY <2>1, <3>1, <3>4, <4>1
    <3>5. file'[1].sequence = 1 => file'[1].previous = GenesisHash
      <4>1. TornLine.previous = GenesisHash
        BY DEF TornLine, GenesisHash
      <4>2. n = 0 \/ (n > 0 /\ 1 # n + 1 /\ 1 \in 1 .. n + 1)
        BY <1>1
      <4> QED
        BY <2>1, <3>1, <4>1, <4>2
    <3>6. auditLost = 0 =>
            \A i \in 1 .. n + 1 : file'[i] # TornLine => file'[i].sequence = i
      BY <2>1, <3>1, <3>2
    <3> QED
      BY <1>0, <3>1, <3>3, <3>4, <3>5, <3>6 DEF FirstFileInv
  <2>4. ~GarbledAtTheEnd(file, file')
    <3> SUFFICES ASSUME GarbledAtTheEnd(file, file') PROVE FALSE
      OBVIOUS
    <3>1. n \in 1 .. n /\ file[n] = TornLine
      BY <1>1 DEF GarbledAtTheEnd
    <3> QED
      BY <2>1, <3>1, GenuineHash
  <2> QED
    BY <1>2, <2>2, <2>3, <2>4
<1> QED
  BY <1>3, <1>4, <1>5, <1>6, <1>7 DEF AuditInv

\* Another process starts a log of its own behind the lines it finds.
LEMMA ReopenKeepsAudit ==
    ASSUME AuditInv, AuditReopen
    PROVE  AuditInv'
<1>0. /\ auditUp' = TRUE /\ auditOpens' = auditOpens + 1 /\ auditOld' = Len(auditFile)
      /\ auditLost' = 0 /\ auditBlocked' = auditBlocked /\ auditFile' = auditFile
      /\ auditEvents' = auditEvents /\ auditTouched' = auditTouched /\ auditEvents = <<>>
  BY DEF AuditReopen, AuditInv, EventsInv
<1>1. /\ auditOpens \in Nat \ {0} /\ Len(auditFile) \in Nat
      /\ auditOpens' # 1 /\ auditOpens' \in Nat \ {0}
  BY <1>0 DEF AuditInv, AuditTypeOK
<1>2. AuditTypeOK'
  BY <1>0, <1>1 DEF AuditInv, AuditTypeOK
<1>3. EventsInv'
  BY <1>0 DEF EventsInv
<1>4. OriginInv'
  <2>1. ASSUME NEW i \in 1 .. Len(auditFile) PROVE Origin(auditFile[i], i)'
    <3>1. Origin(auditFile[i], i)
      BY DEF AuditInv, OriginInv
    <3>2. \A n \in 1 .. auditOpens : n \in 1 .. auditOpens' /\ n # auditOpens'
      BY <1>0, <1>1
    <3> QED
      BY <1>0, <3>1, <3>2 DEF Origin
  <2>2. ~(auditOld' < Len(auditFile'))
    BY <1>0, <1>1
  <2> QED
    BY <1>0, <2>1, <2>2 DEF OriginInv
<1> QED
  BY <1>1, <1>2, <1>3, <1>4 DEF AuditInv, FirstFileInv, TouchedInv

\* An edited record has another hash.
LEMMA EditedRecord ==
    ASSUME NEW r, Genuine(r, 1)
    PROVE  LET edited == [r EXCEPT !.about = "edited"]
               rehashed == [edited EXCEPT !.hash = HashOf(edited)]
           IN  /\ edited.hash = r.hash /\ edited.hash # HashOf(edited)
               /\ HashBy(rehashed.hash, 1) /\ rehashed.hash # r.hash
<1>1. PICK id, type, about, sequence, previous, hash :
        /\ r = [id |-> id, type |-> type, about |-> about, sequence |-> sequence,
                previous |-> previous, hash |-> hash]
        /\ about # "edited" /\ id = 1
        /\ hash = <<id, type, about, sequence, previous>>
  BY DEF Genuine, HashOf
<1>2. PICK h : h = <<id, type, "edited", sequence, previous>>
  OBVIOUS
<1>3. PICK e : e = [id |-> id, type |-> type, about |-> "edited", sequence |-> sequence,
                    previous |-> previous, hash |-> hash]
  OBVIOUS
<1>4. PICK q : q = [id |-> id, type |-> type, about |-> "edited", sequence |-> sequence,
                    previous |-> previous, hash |-> h]
  OBVIOUS
<1>5. [r EXCEPT !.about = "edited"] = e
  BY <1>1, <1>3
<1>6. HashOf(e) = h
  BY <1>2, <1>3 DEF HashOf
<1>7. [e EXCEPT !.hash = h] = q
  BY <1>3, <1>4
<1>8. /\ e.hash = hash /\ r.hash = hash /\ q.hash = h
  BY <1>1, <1>3, <1>4
<1>9. h # hash /\ HashBy(h, 1)
  BY <1>1, <1>2 DEF HashBy
<1> QED
  BY <1>5, <1>6, <1>7, <1>8, <1>9

\* Whatever is done to the file shows.
LEMMA TouchKeepsAudit ==
    ASSUME AuditInv, AuditTouch
    PROVE  AuditInv'
<1> DEFINE file == auditFile
           n == Len(file)
<1>0. /\ auditTouched' = TRUE /\ auditOpens' = auditOpens /\ auditOpens = 1 /\ n > 1
      /\ ~auditTouched /\ auditUp' = auditUp /\ auditEvents' = auditEvents
      /\ auditLost' = auditLost /\ auditBlocked' = auditBlocked /\ auditOld' = auditOld
  BY DEF AuditTouch
<1>1. PICK k \in 1 .. n - 1 :
        LET edited == [file[k] EXCEPT !.about = "edited"]
        IN  file' \in
              {RemoveAt(file, k),
               [file EXCEPT ![k] = edited],
               [file EXCEPT ![k] = [edited EXCEPT !.hash = HashOf(edited)]],
               [file EXCEPT ![k] = file[k + 1], ![k + 1] = file[k]]}
  BY DEF AuditTouch
<1>2. /\ file \in Seq(LinesOf(file)) /\ n \in Nat
      /\ k \in 1 .. n /\ k + 1 \in 1 .. n /\ k # n /\ k \in Nat
      /\ auditOld = 0
  BY <1>0 DEF AuditInv, AuditTypeOK
<1>3. /\ Genuine(file[k], 1) /\ k <= file[k].sequence
      /\ \/ Genuine(file[k + 1], 1) /\ k + 1 <= file[k + 1].sequence
         \/ file[k + 1] = TornLine
      /\ file[k + 1] # TornLine =>
           /\ file[k].sequence < file[k + 1].sequence
           /\ file[k + 1].sequence = file[k].sequence + 1 =>
                file[k + 1].previous = file[k].hash
  <2>1. k + 1 > 1 /\ (k + 1) - 1 = k
    BY <1>2
  <2> QED
    BY <1>0, <1>2, <2>1 DEF AuditInv, FirstFileInv
<1>4. file[k].sequence \in Nat
  BY <1>3 DEF Genuine
<1>5. PICK r, s : r = file[k] /\ s = file[k + 1]
  OBVIOUS
<1>6. \A i \in 1 .. n : Origin(file[i], 1)
  <2>1. \A i \in 1 .. n : Origin(file[i], i)
    BY DEF AuditInv, OriginInv
  <2> QED
    BY <1>2, <2>1 DEF Origin
<1>7. Unreadable(s) \/ (s.sequence \in Nat /\ s.sequence >= k + 1)
  BY <1>3, <1>5, BrokenLines DEF Genuine
<1>8. /\ file' \in Seq(LinesOf(file'))
      /\ \A i \in 1 .. Len(file') : Origin(file'[i], 1)
      /\ \E j \in 1 .. Len(file') : BadAt(file', j)
  <2>1. CASE file' = RemoveAt(file, k)
    <3> DEFINE a == SubSeq(file, 1, k - 1)
               b == SubSeq(file, k + 1, n)
    <3>1. /\ a \in Seq(LinesOf(file)) /\ Len(a) = k - 1
          /\ \A i \in 1 .. k - 1 : a[i] = file[i]
      BY <1>2, SubSeqProperties
    <3>2. /\ b \in Seq(LinesOf(file)) /\ Len(b) = n - k
          /\ \A i \in 1 .. n - k : b[i] = file[k + i]
      BY <1>2, SubSeqProperties
    <3>3. /\ file' \in Seq(LinesOf(file)) /\ Len(file') = n - 1
          /\ \A i \in 1 .. n - 1 : file'[i] = IF i < k THEN file[i] ELSE file[i + 1]
      <4> HIDE DEF a, b
      <4>1. file' = a \o b
        BY <2>1 DEF RemoveAt, a, b
      <4>2. /\ a \o b \in Seq(LinesOf(file)) /\ Len(a \o b) = Len(a) + Len(b)
            /\ \A i \in 1 .. Len(a) + Len(b) :
                 (a \o b)[i] = IF i <= Len(a) THEN a[i] ELSE b[i - Len(a)]
        BY <3>1, <3>2, ConcatProperties
      <4>3. Len(a) + Len(b) = n - 1
        BY <1>2, <3>1, <3>2
      <4>4. ASSUME NEW i \in 1 .. n - 1
            PROVE  (a \o b)[i] = IF i < k THEN file[i] ELSE file[i + 1]
        <5>1. CASE i < k
          BY <1>2, <3>1, <4>2, <4>3, <5>1
        <5>2. CASE ~(i < k)
          <6>1. i - Len(a) \in 1 .. n - k /\ k + (i - Len(a)) = i + 1 /\ ~(i <= Len(a))
            BY <1>2, <3>1, <5>2
          <6> QED
            BY <3>2, <4>2, <4>3, <5>2, <6>1
        <5> QED
          BY <5>1, <5>2
      <4> QED
        BY <4>1, <4>2, <4>3, <4>4
    <3>4. file' \in Seq(LinesOf(file'))
      BY <3>3, OwnLines
    <3>5. \A i \in 1 .. Len(file') : Origin(file'[i], 1)
      <4>1. \A i \in 1 .. n - 1 : i \in 1 .. n /\ i + 1 \in 1 .. n
        BY <1>2
      <4> QED
        BY <1>6, <3>3, <4>1
    <3>6. k \in 1 .. Len(file') /\ file'[k] = s
      BY <1>1, <1>2, <1>5, <3>3
    <3>7. BadAt(file', k)
      BY <1>2, <1>7, <3>6 DEF BadAt
    <3> QED
      BY <3>4, <3>5, <3>6, <3>7
  <2>2. ASSUME NEW x, file' = [file EXCEPT ![k] = x], Origin(x, 1)
        PROVE  /\ file' \in Seq(LinesOf(file')) /\ Len(file') = n
               /\ \A i \in 1 .. n : file'[i] = IF i = k THEN x ELSE file[i]
               /\ \A i \in 1 .. n : Origin(file'[i], 1)
    <3>1. file \in Seq(LinesOf(file) \cup {x}) /\ x \in LinesOf(file) \cup {x}
      BY <1>2
    <3>2. /\ file' \in Seq(LinesOf(file) \cup {x}) /\ Len(file') = n
          /\ \A i \in 1 .. n : file'[i] = IF i = k THEN x ELSE file[i]
      BY <1>2, <2>2, <3>1, ExceptSeq
    <3>3. file' \in Seq(LinesOf(file'))
      BY <3>2, OwnLines
    <3> QED
      BY <1>6, <2>2, <3>2, <3>3
  <2>3. CASE file' = [file EXCEPT ![k] = [r EXCEPT !.about = "edited"]]
    <3>1. PICK x : x = [r EXCEPT !.about = "edited"]
      OBVIOUS
    <3>2. x.hash = r.hash /\ x.hash # HashOf(x)
      BY <1>3, <1>5, <3>1, EditedRecord
    <3>3. Origin(x, 1)
      BY <1>0, <1>3, <1>5, <3>2, GenuineHash, <1>2 DEF Origin
    <3>4. /\ file' \in Seq(LinesOf(file')) /\ Len(file') = n /\ file'[k] = x
          /\ \A i \in 1 .. n : Origin(file'[i], 1)
      BY <1>2, <2>2, <2>3, <3>1, <3>3
    <3>5. BadAt(file', k)
      BY <3>2, <3>4 DEF BadAt
    <3> QED
      BY <1>2, <3>4, <3>5
  <2>4. CASE LET edited == [r EXCEPT !.about = "edited"]
             IN  file' = [file EXCEPT ![k] = [edited EXCEPT !.hash = HashOf(edited)]]
    <3>1. PICK x : LET edited == [r EXCEPT !.about = "edited"]
                   IN  x = [edited EXCEPT !.hash = HashOf(edited)]
      OBVIOUS
    <3>2. HashBy(x.hash, 1) /\ x.hash # r.hash
      BY <1>3, <1>5, <3>1, EditedRecord
    <3>3. Origin(x, 1)
      BY <1>0, <1>2, <3>2 DEF Origin
    <3>4. /\ file' \in Seq(LinesOf(file')) /\ Len(file') = n
          /\ \A i \in 1 .. n : file'[i] = IF i = k THEN x ELSE file[i]
          /\ \A i \in 1 .. n : Origin(file'[i], 1)
      BY <2>2, <2>4, <3>1, <3>3
    <3>5. file'[k] = x /\ file'[k + 1] = s
      BY <1>2, <1>5, <3>4
    <3>6. Unreadable(s) \/ s.sequence # k + 1 \/ s.previous = r.hash
      <4>1. CASE s = TornLine
        BY <4>1, BrokenLines
      <4>2. CASE s # TornLine /\ s.sequence = k + 1
        <5>1. r.sequence < s.sequence /\ k <= r.sequence /\ r.sequence \in Nat
          BY <1>3, <1>4, <1>5, <4>2
        <5>2. s.sequence = r.sequence + 1
          BY <1>2, <4>2, <5>1
        <5> QED
          BY <1>3, <1>5, <4>2, <5>2
      <4> QED
        BY <4>1, <4>2
    <3>7. k + 1 # 1 /\ (k + 1) - 1 = k
      BY <1>2
    <3>8. BadAt(file', k + 1)
      BY <3>2, <3>5, <3>6, <3>7 DEF BadAt
    <3> QED
      BY <1>2, <3>4, <3>8
  <2>5. CASE file' = [file EXCEPT ![k] = s, ![k + 1] = r]
    <3>1. /\ file' \in Seq(LinesOf(file)) /\ Len(file') = n
          /\ \A i \in 1 .. n : file'[i] = IF i = k + 1 THEN r ELSE IF i = k THEN s ELSE file[i]
      <4>1. r \in LinesOf(file) /\ s \in LinesOf(file)
        BY <1>2, <1>5 DEF LinesOf
      <4>2. PICK g : g = [file EXCEPT ![k] = s]
        OBVIOUS
      <4>3. /\ g \in Seq(LinesOf(file)) /\ Len(g) = n
            /\ \A i \in 1 .. n : g[i] = IF i = k THEN s ELSE file[i]
        BY <1>2, <4>1, <4>2, ExceptSeq
      <4>4. file' = [g EXCEPT ![k + 1] = r]
        BY <2>5, <4>2
      <4>5. /\ [g EXCEPT ![k + 1] = r] \in Seq(LinesOf(file))
            /\ Len([g EXCEPT ![k + 1] = r]) = Len(g)
            /\ \A i \in 1 .. Len(g) : [g EXCEPT ![k + 1] = r][i] = IF i = k + 1 THEN r ELSE g[i]
        BY <1>2, <4>1, <4>3, ExceptSeq
      <4> QED
        BY <4>3, <4>4, <4>5
    <3>2. file' \in Seq(LinesOf(file'))
      BY <3>1, OwnLines
    <3>3. \A i \in 1 .. n : Origin(file'[i], 1)
      BY <1>2, <1>5, <1>6, <3>1
    <3>4. file'[k] = s
      BY <1>2, <3>1
    <3>5. BadAt(file', k)
      BY <1>2, <1>7, <3>4 DEF BadAt
    <3> QED
      BY <1>2, <3>1, <3>2, <3>3, <3>5
  <2> QED
    BY <1>1, <1>5, <2>1, <2>3, <2>4, <2>5
<1>9. AuditTypeOK'
  BY <1>0, <1>2, <1>8 DEF AuditInv, AuditTypeOK
<1>10. OriginInv'
  <2>1. \A q : Origin(q, 1) => \A i \in Nat \ {0} : Origin(q, i)'
    BY <1>0, <1>2 DEF Origin
  <2>2. ~(0 < auditOld')
    BY <1>0, <1>2
  <2>3. Len(file') \in Nat
    BY <1>8
  <2> QED
    BY <1>8, <2>1, <2>2, <2>3 DEF OriginInv
<1>11. TouchedInv'
  <2>1. VerifyIntegrity(file') # "ok"
    BY <1>8, VerdictIs
  <2> QED
    BY <2>1 DEF TouchedInv
<1>12. EventsInv' /\ FirstFileInv'
  BY <1>0 DEF AuditInv, EventsInv, FirstFileInv
<1> QED
  BY <1>9, <1>10, <1>11, <1>12 DEF AuditInv

\* The steps and the operations of the queue each record one event.
LEMMA OneEvent ==
    ASSUME AuditTypeOK,
           \/ \E f \in FactNames : StepEvent(f)
           \/ \E m \in DOMAIN TaskMoves : TaskMoved(m)
    PROVE  \E r : \E secret \in BOOLEAN : auditUp /\ Fresh(r) /\ Recorded(r, secret)
<1>1. PICK type, about :
        /\ auditUp /\ about # "edited"
        /\ type \in EventTypes /\ Record(type, about)
  <2>1. StepTypes \cup DOMAIN TaskMoves \subseteq EventTypes
    BY DEF EventTypes
  <2>2. ASSUME NEW f \in FactNames, StepEvent(f)
        PROVE  \E type, about :
                 /\ auditUp /\ about # "edited"
                 /\ type \in EventTypes /\ Record(type, about)
    BY <2>1, <2>2, AuditAssumption DEF StepEvent, StepExecuted, TrustEscalated,
       IdempotencyRecorded, StepVerified, StepTypes
  <2>3. ASSUME NEW m \in DOMAIN TaskMoves, TaskMoved(m)
        PROVE  \E type, about :
                 /\ auditUp /\ about # "edited"
                 /\ type \in EventTypes /\ Record(type, about)
    BY <2>1, <2>3 DEF TaskMoved
  <2> QED
    BY <2>2, <2>3
<1> QED
  BY <1>1, RecordIs

\* Where every hash and every line of the log comes from.
THEOREM AuditInvariance == AuditSpec => []AuditInv
<1>1. AuditInit => AuditInv
  <2> SUFFICES ASSUME AuditInit PROVE AuditInv
    OBVIOUS
  <2>1. /\ auditEvents = <<>> /\ auditFile = <<>> /\ auditUp = TRUE /\ auditOpens = 1
        /\ auditLost = 0 /\ auditBlocked = 0 /\ auditTouched = FALSE /\ auditOld = 0
    BY DEF AuditInit
  <2>2. <<>> \in Seq(LinesOf(<<>>)) /\ Len(<<>>) = 0 /\ 1 .. 0 = {}
    OBVIOUS
  <2>3. AuditTypeOK
    <3>0. auditUp \in BOOLEAN /\ auditTouched \in BOOLEAN
      BY <2>1, Zenon
    <3>1. auditOpens \in Nat \ {0} /\ auditLost \in Nat /\ auditBlocked \in Nat
      BY <2>1
    <3>2. /\ auditEvents \in Seq(LinesOf(auditEvents))
          /\ auditFile \in Seq(LinesOf(auditFile)) /\ Len(auditFile) = 0
      BY <2>1, <2>2, Zenon
    <3> QED
      BY <2>1, <3>0, <3>1, <3>2 DEF AuditTypeOK
  <2>4. EventsInv /\ OriginInv /\ FirstFileInv /\ TouchedInv
    BY <2>1, <2>2 DEF EventsInv, OriginInv, FirstFileInv, TouchedInv
  <2> QED
    BY <2>3, <2>4 DEF AuditInv
<1>2. AuditInv /\ [AuditNext]_auditVars => AuditInv'
  <2> SUFFICES ASSUME AuditInv, [AuditNext]_auditVars PROVE AuditInv'
    OBVIOUS
  <2>1. CASE UNCHANGED auditVars
    BY <2>1 DEF auditVars, AuditInv, AuditTypeOK, EventsInv, OriginInv, Origin, StartsAnew,
                FirstFileInv, TouchedInv
  <2>2. CASE \/ \E f \in FactNames : StepEvent(f)
             \/ \E m \in DOMAIN TaskMoves : TaskMoved(m)
    <3>1. PICK r : \E secret \in BOOLEAN : auditUp /\ Fresh(r) /\ Recorded(r, secret)
      BY <2>2, OneEvent DEF AuditInv
    <3> QED
      BY <3>1, RecordKeepsAudit
  <2>3. CASE AuditCrash
    BY <2>3, CrashKeepsAudit
  <2>4. CASE AuditReopen
    BY <2>4, ReopenKeepsAudit
  <2>5. CASE AuditTouch
    BY <2>5, TouchKeepsAudit
  <2>6. CASE ReadBackNoted
    BY <2>6 DEF ReadBackNoted, AuditInv, AuditTypeOK, EventsInv, OriginInv, Origin, StartsAnew,
                FirstFileInv, TouchedInv
  <2> QED
    BY <2>1, <2>2, <2>3, <2>4, <2>5, <2>6 DEF AuditNext
<1> QED
  BY <1>1, <1>2, PTL DEF AuditSpec

\* What verify_integrity may say of a file follows from where its lines come
\* from.
LEMMA AuditInvVerdict ==
    ASSUME AuditInv
    PROVE  AuditVerdict
<1> DEFINE file == auditFile
           n == Len(file)
<1>1. file \in Seq(LinesOf(file)) /\ n \in Nat /\ auditOld \in Nat /\ auditOpens \in Nat
  BY DEF AuditInv, AuditTypeOK
<1>2. ASSUME auditOpens = 1, ~auditTouched, auditLost = 0
      PROVE  VerifyIntegrity(file) # "fail"
  <2> SUFFICES ASSUME VerifyIntegrity(file) = "fail" PROVE FALSE
    OBVIOUS
  <2>1. /\ \A k \in 1 .. n : ~Unreadable(file[k])
        /\ \E k \in 1 .. n : BadAt(file, k)
    BY <1>1, VerdictIs
  <2>2. \A k \in 1 .. n : file[k] # TornLine
    BY <2>1, BrokenLines
  <2>3. PICK k \in 1 .. n : BadAt(file, k)
    BY <2>1
  <2>4. /\ Genuine(file[k], 1) /\ file[k].sequence = k
        /\ k > 1 /\ file[k].sequence = file[k - 1].sequence + 1 =>
             file[k].previous = file[k - 1].hash
        /\ k = 1 => file[k].previous = GenesisHash
    BY <1>1, <1>2, <2>2 DEF AuditInv, FirstFileInv
  <2>5. k > 1 => file[k - 1].sequence + 1 = k
    <3>1. k > 1 => k - 1 \in 1 .. n
      BY <1>1
    <3>2. k > 1 => file[k - 1].sequence = k - 1
      BY <1>2, <2>2, <3>1 DEF AuditInv, FirstFileInv
    <3> QED
      BY <1>1, <3>2
  <2>6. k > 1 \/ k = 1
    BY <1>1
  <2>7. file[k].hash = HashOf(file[k])
    BY <2>4 DEF Genuine
  <2> QED
    BY <2>1, <2>3, <2>4, <2>5, <2>6, <2>7 DEF BadAt
<1>3. auditOpens = 1 /\ auditTouched => VerifyIntegrity(file) # "ok"
  BY DEF AuditInv, TouchedInv
<1>4. ASSUME 0 < auditOld, auditOld < n
      PROVE  VerifyIntegrity(file) # "ok"
  <2>1. PICK k : k = auditOld
    OBVIOUS
  <2>2. k \in 1 .. n /\ k + 1 \in 1 .. n /\ k + 1 # 1 /\ (k + 1) - 1 = k /\ k <= auditOld
    BY <1>1, <1>4, <2>1
  <2>3. Origin(file[k], k) /\ StartsAnew(file[k + 1])
    BY <1>4, <2>1, <2>2 DEF AuditInv, OriginInv
  <2>4. CASE Unreadable(file[k])
    BY <1>1, <2>2, <2>4, VerdictIs DEF BadAt
  <2>5. CASE ~Unreadable(file[k])
    <3>1. PICK p : HashBy(file[k].hash, p) /\ p # auditOpens
      BY <2>2, <2>3, <2>5 DEF Origin
    <3>2. file[k].hash # GenesisHash
      BY <3>1 DEF HashBy, GenesisHash
    <3>3. Unreadable(file[k + 1]) \/ file[k + 1].previous # file[k].hash
      BY <2>3, <3>1, <3>2 DEF StartsAnew, HashBy
    <3>4. BadAt(file, k + 1)
      BY <2>2, <3>3 DEF BadAt
    <3> QED
      BY <1>1, <2>2, <3>4, VerdictIs
  <2> QED
    BY <2>4, <2>5
<1> QED
  BY <1>2, <1>3, <1>4 DEF AuditVerdict

\* verify_integrity tells a log nobody touched from one that somebody did, and
\* never takes the events of two processes for one log.
THEOREM Verdict == AuditSpec => []AuditVerdict
<1>1. AuditInv => AuditVerdict
  BY AuditInvVerdict
<1> QED
  BY <1>1, AuditInvariance, PTL

\* What the prefixes of a file replay to.
Replays(file, F) ==
    F = [k \in 0 .. Len(file) |->
            IF k = 0 THEN [facts |-> [f \in StateKeys |-> "none"], task |-> "none"]
            ELSE [facts |-> ReplayFacts(F[k - 1].facts, file[k]),
                  task |-> ReplayTask(F[k - 1].task, file[k])]]

\* The replay is the last of these, and they exist.
LEMMA ReplayIsTheLast ==
    ASSUME NEW S, NEW s \in Seq(S)
    PROVE  \E F : Replays(s, F) /\ Replay(s) = F[Len(s)]
<1> DEFINE start == [facts |-> [f \in StateKeys |-> "none"], task |-> "none"]
           After(st, r) == [facts |-> ReplayFacts(st.facts, r), task |-> ReplayTask(st.task, r)]
           Body(F, n) == [k \in 0 .. n |-> IF k = 0 THEN start ELSE After(F[k - 1], s[k])]
           Q == {n \in 0 .. Len(s) : \E F : F = Body(F, n)}
<1>0. Len(s) \in Nat
  OBVIOUS
<1>6. Replay(s) = (CHOOSE F : F = Body(F, Len(s)))[Len(s)]
  BY DEF Replay
<1>7. \A F : F = Body(F, Len(s)) => Replays(s, F)
  BY DEF Replays
<1> HIDE DEF start, After
<1>1. 0 \in Q
  <2> DEFINE F == [k \in 0 .. 0 |-> start]
  <2>1. F = Body(F, 0)
    OBVIOUS
  <2>2. 0 \in 0 .. Len(s)
    BY <1>0
  <2> HIDE DEF F
  <2>3. \E G : G = Body(G, 0)
    BY <2>1, Zenon
  <2> QED
    BY <2>2, <2>3
<1>2. ASSUME NEW n \in 0 .. Len(s), n \in Q, n < Len(s) PROVE n + 1 \in Q
  <2>1. PICK F : F = Body(F, n)
    BY <1>2
  <2> DEFINE G == [k \in 0 .. n + 1 |-> IF k <= n THEN F[k] ELSE After(F[k - 1], s[k])]
  <2>2. \A k \in 0 .. n : F[k] = Body(F, n)[k]
    BY <2>1
  <2>3. \A k \in 0 .. n + 1 : G[k] = Body(G, n + 1)[k]
    BY <1>0, <2>2
  <2>4. G = Body(G, n + 1)
    BY <1>0, <2>3
  <2>5. n + 1 \in 0 .. Len(s)
    BY <1>0, <1>2
  <2> QED
    BY <2>4, <2>5
<1>3. Len(s) \in Q
  <2> HIDE DEF Q
  <2>1. \A i \in 0 .. Len(s) : i \in Q
    BY <1>0, <1>1, <1>2, UpToABound
  <2> QED
    BY <1>0, <2>1
<1>4. \E F : F = Body(F, Len(s))
  BY <1>3
<1>5. (CHOOSE F : F = Body(F, Len(s))) = Body(CHOOSE F : F = Body(F, Len(s)), Len(s))
  BY <1>4, Zenon
<1> HIDE DEF Body
<1> QED
  BY <1>6, <1>7, <1>5

\* The replay of a longer file goes on from the replay of the shorter one.
LEMMA ReplayOfAppend ==
    ASSUME NEW S, NEW s \in Seq(S), NEW r
    PROVE  Replay(Append(s, r)) = [facts |-> ReplayFacts(Replay(s).facts, r),
                                   task |-> ReplayTask(Replay(s).task, r)]
<1> DEFINE t == Append(s, r)
           n == Len(s)
           After(st, q) == [facts |-> ReplayFacts(st.facts, q), task |-> ReplayTask(st.task, q)]
           start == [facts |-> [f \in StateKeys |-> "none"], task |-> "none"]
<1>1. t \in Seq(LinesOf(t)) /\ LongerBy(s, r, t) /\ n \in Nat
  BY AppendedLines
<1> HIDE DEF t
<1>2. PICK F : Replays(s, F) /\ Replay(s) = F[n]
  BY ReplayIsTheLast
<1>3. PICK G : Replays(t, G) /\ Replay(t) = G[Len(t)]
  BY <1>1, ReplayIsTheLast
<1>4. \A k \in 0 .. n : F[k] = IF k = 0 THEN start ELSE After(F[k - 1], s[k])
  BY <1>2 DEF Replays
<1>5. \A k \in 0 .. n + 1 : G[k] = IF k = 0 THEN start ELSE After(G[k - 1], t[k])
  BY <1>1, <1>3 DEF Replays, LongerBy
<1> HIDE DEF start, After
<1> DEFINE Q == {k \in 0 .. n : F[k] = G[k]}
<1>6. 0 \in Q
  BY <1>1, <1>4, <1>5
<1>7. ASSUME NEW k \in 0 .. n, k \in Q, k < n PROVE k + 1 \in Q
  <2>1. /\ k + 1 \in 0 .. n /\ k + 1 \in 0 .. n + 1 /\ k + 1 # 0 /\ (k + 1) - 1 = k
        /\ t[k + 1] = s[k + 1] /\ F[k] = G[k]
    BY <1>1, <1>7 DEF LongerBy
  <2>2. F[k + 1] = After(F[k], s[k + 1])
    BY <1>4, <2>1
  <2>3. G[k + 1] = After(G[k], t[k + 1])
    BY <1>5, <2>1
  <2> QED
    BY <2>1, <2>2, <2>3
<1>8. F[n] = G[n]
  <2> HIDE DEF Q
  <2>1. \A k \in 0 .. n : k \in Q
    BY <1>1, <1>6, <1>7, UpToABound
  <2> QED
    BY <1>1, <2>1 DEF Q
<1>9. G[n + 1] = After(G[n], r)
  <2>1. n + 1 \in 0 .. n + 1 /\ n + 1 # 0 /\ (n + 1) - 1 = n
    BY <1>1
  <2>2. t[n + 1] = r
    BY <1>1 DEF LongerBy
  <2> QED
    BY <1>5, <2>1, <2>2
<1>10. Len(t) = n + 1
  BY <1>1 DEF LongerBy
<1> QED
  BY <1>2, <1>3, <1>8, <1>9, <1>10 DEF t, After

\* The replay of nothing.
LEMMA ReplayOfNothing ==
    Replay(<<>>) = [facts |-> [f \in StateKeys |-> "none"], task |-> "none"]
<1>1. <<>> \in Seq({}) /\ Len(<<>>) = 0
  OBVIOUS
<1>2. PICK F : Replays(<<>>, F) /\ Replay(<<>>) = F[Len(<<>>)]
  BY <1>1, ReplayIsTheLast
<1>3. F[0] = [facts |-> [f \in StateKeys |-> "none"], task |-> "none"]
  BY <1>1, <1>2 DEF Replays
<1> QED
  BY <1>1, <1>2, <1>3

\* The verified steps of a longer file.
LEMMA VerifiedOfAppend ==
    ASSUME NEW S, NEW s \in Seq(S), NEW r
    PROVE  /\ Cardinality(VerifiedLines(s)) \in Nat
           /\ Cardinality(VerifiedLines(Append(s, r))) =
                Cardinality(VerifiedLines(s)) + (IF r.type = "step.verified" THEN 1 ELSE 0)
<1> DEFINE t == Append(s, r)
           n == Len(s)
<1>1. LongerBy(s, r, t) /\ n \in Nat
  BY AppendedLines
<1> HIDE DEF t
<1>2. IsFiniteSet(VerifiedLines(s)) /\ n + 1 \notin VerifiedLines(s)
  <2>1. IsFiniteSet(1 .. n) /\ VerifiedLines(s) \subseteq 1 .. n
    BY <1>1, FS_Interval DEF VerifiedLines
  <2>2. IsFiniteSet(VerifiedLines(s))
    BY <2>1, FS_Subset
  <2> QED
    BY <1>1, <2>1, <2>2
<1>3. \A k : k \in 1 .. n + 1 <=> k \in 1 .. n \/ k = n + 1
  BY <1>1
<1>4. Len(t) = n + 1 /\ t[n + 1] = r /\ \A k \in 1 .. n : t[k] = s[k]
  BY <1>1 DEF LongerBy
<1>5. VerifiedLines(t) = IF r.type = "step.verified" THEN VerifiedLines(s) \cup {n + 1} ELSE VerifiedLines(s)
  BY <1>3, <1>4 DEF VerifiedLines
<1>6. Cardinality(VerifiedLines(s)) \in Nat
  BY <1>2, FS_CardinalityType
<1>7. Cardinality(VerifiedLines(s) \cup {n + 1}) = Cardinality(VerifiedLines(s)) + 1
  BY <1>2, FS_AddElement
<1> QED
  BY <1>5, <1>6, <1>7 DEF t

\* The first process never finds a torn line.
LEMMA WritesALine ==
    ASSUME AuditInv, auditUp, auditOpens = 1, ~auditTouched, NEW r
    PROVE  WriteLine(auditFile, r) = Append(auditFile, r)
<1>1. auditFile \in Seq(LinesOf(auditFile)) /\ Len(auditFile) \in Nat
  BY DEF AuditInv, AuditTypeOK
<1>2. auditFile # <<>> => Len(auditFile) \in 1 .. Len(auditFile)
  BY <1>1, EmptySeq
<1>3. auditFile # <<>> => Genuine(auditFile[Len(auditFile)], 1)
  BY <1>2 DEF AuditInv, FirstFileInv
<1>4. auditFile # <<>> => auditFile[Len(auditFile)] # TornLine
  BY <1>3, GenuineHash
<1> QED
  BY <1>4 DEF WriteLine

\* Recording an event keeps the counters, and goes on with the replay.
LEMMA RecordKeepsCounts ==
    ASSUME AuditInv, ViewsInv, auditUp, NEW r, NEW secret \in BOOLEAN, Recorded(r, secret)
    PROVE  /\ DOMAIN auditCounted' = {"events", "steps_verified"}
           /\ auditOpens = 1 /\ ~auditTouched =>
                /\ auditCounted'["events"] = Len(auditFile')
                /\ auditCounted'["steps_verified"] = Cardinality(VerifiedLines(auditFile'))
                /\ auditLost' = 0 /\ auditBlocked' = 0 =>
                     /\ auditLost = 0 /\ auditBlocked = 0 /\ ~secret
                     /\ Replay(auditFile').facts = ReplayFacts(Replay(auditFile).facts, r)
                     /\ Replay(auditFile').task = ReplayTask(Replay(auditFile).task, r)
<1>1. /\ auditFile \in Seq(LinesOf(auditFile)) /\ Len(auditFile) \in Nat
      /\ auditLost \in Nat /\ auditBlocked \in Nat
  BY DEF AuditInv, AuditTypeOK
<1>2. DOMAIN auditCounted = {"events", "steps_verified"}
  BY DEF ViewsInv
<1>3. FanOut(r.type) =
        [c \in {"events", "steps_verified"} |->
            auditCounted[c] +
              (IF c = "events" \/ r.type = "step.verified" THEN 1 ELSE 0)]
  <2>1. \A c \in {"events", "steps_verified"} :
          c \in Counters(r.type) <=> (c = "events" \/ r.type = "step.verified")
    BY DEF Counters
  <2> QED
    BY <1>2, <2>1 DEF FanOut
<1>4. DOMAIN auditCounted' = {"events", "steps_verified"}
  BY <1>2, <1>3 DEF Recorded
<1>5. ASSUME auditOpens = 1, ~auditTouched
      PROVE  /\ auditCounted'["events"] = Len(auditFile')
             /\ auditCounted'["steps_verified"] = Cardinality(VerifiedLines(auditFile'))
             /\ auditLost' = 0 /\ auditBlocked' = 0 =>
                  /\ auditLost = 0 /\ auditBlocked = 0 /\ ~secret
                  /\ Replay(auditFile').facts = ReplayFacts(Replay(auditFile).facts, r)
                  /\ Replay(auditFile').task = ReplayTask(Replay(auditFile).task, r)
  <2>1. /\ auditCounted["events"] = Len(auditFile)
        /\ auditCounted["steps_verified"] = Cardinality(VerifiedLines(auditFile))
    BY <1>5 DEF ViewsInv
  <2>2. auditBlocked' = 0 => auditBlocked = 0 /\ ~secret
    BY <1>1 DEF Recorded
  <2>3. CASE /\ auditFile' = WriteLine(auditFile, r) /\ auditLost' = auditLost
             /\ auditCounted' = FanOut(r.type)
    <3>1. auditFile' = Append(auditFile, r)
      BY <1>5, <2>3, WritesALine
    <3>2. Len(auditFile') = Len(auditFile) + 1
      BY <1>1, <3>1, AppendedLines DEF LongerBy
    <3>3. /\ Cardinality(VerifiedLines(auditFile)) \in Nat
          /\ Cardinality(VerifiedLines(auditFile')) =
               Cardinality(VerifiedLines(auditFile)) + (IF r.type = "step.verified" THEN 1 ELSE 0)
      BY <1>1, <3>1, VerifiedOfAppend
    <3>4. /\ auditCounted'["events"] = auditCounted["events"] + 1
          /\ auditCounted'["steps_verified"] =
               auditCounted["steps_verified"] + (IF r.type = "step.verified" THEN 1 ELSE 0)
      BY <1>3, <2>3
    <3>5. Replay(auditFile') = [facts |-> ReplayFacts(Replay(auditFile).facts, r),
                                task |-> ReplayTask(Replay(auditFile).task, r)]
      BY <1>1, <3>1, ReplayOfAppend
    <3>6. /\ Replay(auditFile').facts = ReplayFacts(Replay(auditFile).facts, r)
          /\ Replay(auditFile').task = ReplayTask(Replay(auditFile).task, r)
      BY <3>5
    <3> QED
      BY <1>1, <2>1, <2>2, <2>3, <3>2, <3>3, <3>4, <3>6
  <2>4. CASE /\ auditFile' = auditFile /\ auditLost' = auditLost + 1
             /\ auditCounted' = auditCounted
    BY <1>1, <2>1, <2>4
  <2> QED
    BY <2>3, <2>4 DEF Recorded
<1> QED
  BY <1>4, <1>5

\* An event of a step: the replay does to the trust what the process did.
LEMMA StepKeepsViews ==
    ASSUME AuditInv, ViewsInv, NEW f \in FactNames, StepEvent(f)
    PROVE  ViewsInv'
<1>1. PICK type : /\ type \in StepTypes
                  /\ Record(type, f) /\ auditUp /\ auditTask' = auditTask
                  /\ type = "step.executed" => auditTrust' = ObserveFact(auditTrust, f)
                  /\ type = "state.trust_escalated" =>
                       auditTrust[f] # "none" /\ auditTrust' = MarkTrust(auditTrust, f)
                  /\ type = "step.idempotency_recorded" =>
                       auditTrust' = [auditTrust EXCEPT !["idempotency"] = "verified"]
                  /\ type = "step.verified" =>
                       auditTrust[f] = "verified" /\ auditTrust' = auditTrust
  BY DEF StepEvent, StepExecuted, TrustEscalated, IdempotencyRecorded, StepVerified, StepTypes
<1>2. PICK r : \E secret \in BOOLEAN :
        /\ Recorded(r, secret)
        /\ ~secret => r.type = type /\ r.about = f
  <2>1. type \in EventTypes /\ f # "edited"
    BY <1>1, AuditAssumption DEF EventTypes
  <2> QED
    BY <1>1, <2>1, RecordIs DEF AuditInv
<1>3. PICK secret \in BOOLEAN : /\ Recorded(r, secret)
                                /\ ~secret => r.type = type /\ r.about = f
  BY <1>2
<1>4. /\ auditUp' = auditUp /\ auditOpens' = auditOpens /\ auditTouched' = auditTouched
  BY <1>3 DEF Recorded
<1>5. auditTrust \in [StateKeys -> {"none", "tool_reported", "verified"}]
  BY DEF ViewsInv
<1>6. /\ auditTrust' \in [StateKeys -> {"none", "tool_reported", "verified"}]
      /\ ~secret => Reported(auditTrust') = ReplayFacts(Reported(auditTrust), r)
  <2>1. f \in StateKeys /\ f \notin OwnFacts /\ {"idempotency"} \subseteq OwnFacts
        /\ OwnFacts \subseteq StateKeys
    BY AuditAssumption DEF StateKeys, OwnFacts
  <2>2. CASE type = "step.executed"
    BY <1>1, <1>3, <1>5, <2>1, <2>2 DEF ObserveFact, ReplayFacts, Reported
  <2>3. CASE type = "state.trust_escalated"
    BY <1>1, <1>3, <1>5, <2>1, <2>3 DEF MarkTrust, ReplayFacts, Reported
  <2>4. CASE type = "step.idempotency_recorded"
    BY <1>1, <1>3, <1>5, <2>1, <2>4 DEF ReplayFacts, Reported
  <2>5. CASE type = "step.verified"
    BY <1>1, <1>3, <1>5, <2>1, <2>5 DEF ReplayFacts, Reported
  <2> QED
    BY <1>1, <2>2, <2>3, <2>4, <2>5 DEF StepTypes
<1>7. ~secret => \A status : ReplayTask(status, r) = status
  <2>1. \A t \in StepTypes : t \notin DOMAIN TaskMoves /\ t # "task_enqueued"
    BY DEF TaskMoves, StepTypes
  <2> QED
    BY <1>1, <1>3, <2>1 DEF ReplayTask
<1>8. /\ DOMAIN auditCounted' = {"events", "steps_verified"}
      /\ auditOpens = 1 /\ ~auditTouched =>
           /\ auditCounted'["events"] = Len(auditFile')
           /\ auditCounted'["steps_verified"] = Cardinality(VerifiedLines(auditFile'))
           /\ auditLost' = 0 /\ auditBlocked' = 0 =>
                /\ auditLost = 0 /\ auditBlocked = 0 /\ ~secret
                /\ Replay(auditFile').facts = ReplayFacts(Replay(auditFile).facts, r)
                /\ Replay(auditFile').task = ReplayTask(Replay(auditFile).task, r)
  BY <1>1, <1>3, RecordKeepsCounts
<1>9. ASSUME auditOpens = 1, ~auditTouched, auditLost' = 0, auditBlocked' = 0
      PROVE  Replay(auditFile').facts = Reported(auditTrust') /\ SameTask(Replay(auditFile').task, auditTask')
  <2>1. /\ Replay(auditFile).facts = Reported(auditTrust) /\ SameTask(Replay(auditFile).task, auditTask)
        /\ ~secret
    BY <1>1, <1>8, <1>9 DEF ViewsInv
  <2> QED
    BY <1>1, <1>6, <1>7, <1>8, <1>9, <2>1
<1> QED
  BY <1>4, <1>6, <1>8, <1>9 DEF ViewsInv

\* An operation of the queue: the replay follows its task, but for what it does
\* not know.
LEMMA TaskKeepsViews ==
    ASSUME AuditInv, ViewsInv, NEW m \in DOMAIN TaskMoves, TaskMoved(m)
    PROVE  ViewsInv'
<1>1. /\ Record(m, "task") /\ auditUp /\ auditTrust' = auditTrust
      /\ auditTask \in TaskMoves[m].from /\ auditTask' = TaskMoves[m].to
  BY DEF TaskMoved
<1>2. PICK r : \E secret \in BOOLEAN : Recorded(r, secret) /\ (~secret => r.type = m)
  <2>1. m \in EventTypes
    BY DEF EventTypes
  <2> QED
    BY <1>1, <2>1, RecordIs DEF AuditInv
<1>3. PICK secret \in BOOLEAN : Recorded(r, secret) /\ (~secret => r.type = m)
  BY <1>2
<1>4. /\ auditUp' = auditUp /\ auditOpens' = auditOpens /\ auditTouched' = auditTouched
  BY <1>3 DEF Recorded
<1>5. auditTrust \in [StateKeys -> {"none", "tool_reported", "verified"}]
  BY DEF ViewsInv
<1>6. m \in {"task_enqueued", "task_claimed", "task_completed", "task_failed",
             "task_timed_out", "task_cancelled", "task_retry_scheduled", "task_paused",
             "task_resumed"}
  BY DEF TaskMoves
<1>7. ~secret => ReplayFacts(Reported(auditTrust), r) = Reported(auditTrust)
  <2>1. m \notin {"step.executed", "state.trust_escalated", "step.verified"}
    BY <1>6
  <2> QED
    BY <1>3, <1>5, <2>1 DEF ReplayFacts, Reported
<1>8. ASSUME NEW status, SameTask(status, auditTask), ~secret
      PROVE  SameTask(ReplayTask(status, r), auditTask')
  <2>1. ReplayTask(status, r) =
          IF m = "task_enqueued" THEN "queued"
          ELSE IF status = "none" THEN status
          ELSE IF m = "task_retry_scheduled" THEN "retrying"
          ELSE IF m \in {"task_paused", "task_resumed"} THEN status
          ELSE TaskMoves[m].to
    BY <1>3, <1>8 DEF ReplayTask
  <2>2. CASE m = "task_enqueued"
    BY <1>1, <2>1, <2>2 DEF TaskMoves, SameTask
  <2>3. CASE m \in {"task_claimed", "task_completed", "task_failed", "task_timed_out",
                    "task_cancelled"}
    <3>1. /\ TaskMoves[m].to \in {"running", "succeeded", "failed", "timed_out", "cancelled"}
          /\ auditTask # "none"
      BY <1>1, <2>3 DEF TaskMoves
    <3>2. status # "none"
      BY <1>8, <3>1 DEF SameTask
    <3> QED
      BY <1>1, <2>1, <2>3, <3>1, <3>2 DEF SameTask
  <2>4. CASE m \in {"task_retry_scheduled", "task_paused"}
    <3>1. auditTask = "running"
          /\ auditTask' = IF m = "task_paused" THEN "paused" ELSE "queued"
      BY <1>1, <2>4 DEF TaskMoves
    <3>2. status = "running"
      BY <1>8, <3>1 DEF SameTask
    <3> QED
      BY <2>1, <2>4, <3>1, <3>2 DEF SameTask
  <2>5. CASE m = "task_resumed"
    <3>1. auditTask = "paused" /\ auditTask' = "queued"
      BY <1>1, <2>5 DEF TaskMoves
    <3>2. status = "running"
      BY <1>8, <3>1 DEF SameTask
    <3> QED
      BY <2>1, <2>5, <3>1, <3>2 DEF SameTask
  <2> QED
    BY <1>6, <2>2, <2>3, <2>4, <2>5
<1>9. /\ DOMAIN auditCounted' = {"events", "steps_verified"}
      /\ auditOpens = 1 /\ ~auditTouched =>
           /\ auditCounted'["events"] = Len(auditFile')
           /\ auditCounted'["steps_verified"] = Cardinality(VerifiedLines(auditFile'))
           /\ auditLost' = 0 /\ auditBlocked' = 0 =>
                /\ auditLost = 0 /\ auditBlocked = 0 /\ ~secret
                /\ Replay(auditFile').facts = ReplayFacts(Replay(auditFile).facts, r)
                /\ Replay(auditFile').task = ReplayTask(Replay(auditFile).task, r)
  BY <1>1, <1>3, RecordKeepsCounts
<1>10. ASSUME auditOpens = 1, ~auditTouched, auditLost' = 0, auditBlocked' = 0
       PROVE  Replay(auditFile').facts = Reported(auditTrust') /\ SameTask(Replay(auditFile').task, auditTask')
  <2>1. /\ Replay(auditFile).facts = Reported(auditTrust) /\ SameTask(Replay(auditFile).task, auditTask)
        /\ ~secret
    BY <1>1, <1>9, <1>10 DEF ViewsInv
  <2> QED
    BY <1>1, <1>7, <1>8, <1>9, <1>10, <2>1
<1> QED
  BY <1>1, <1>4, <1>5, <1>9, <1>10 DEF ViewsInv

\* What is derived from the events follows the process that records them.
THEOREM ViewsInvariance == AuditSpec => []ViewsInv
<1>1. AuditInit => ViewsInv
  <2> SUFFICES ASSUME AuditInit PROVE ViewsInv
    OBVIOUS
  <2>1. /\ auditFile = <<>> /\ auditTask = "none"
        /\ auditTrust = [f \in StateKeys |-> "none"]
        /\ auditCounted = [c \in {"events", "steps_verified"} |-> 0]
    BY DEF AuditInit
  <2>2. /\ Replay(auditFile).facts = Reported(auditTrust) /\ Replay(auditFile).task = "none"
    BY <2>1, ReplayOfNothing DEF Reported
  <2>3. Len(auditFile) = 0 /\ Cardinality(VerifiedLines(auditFile)) = 0
    <3>1. Len(auditFile) = 0
      BY <2>1
    <3>2. VerifiedLines(auditFile) = {}
      BY <3>1 DEF VerifiedLines
    <3> QED
      BY <3>1, <3>2, FS_EmptySet
  <2>4. SameTask("none", "none")
    BY DEF SameTask
  <2> QED
    BY <2>1, <2>2, <2>3, <2>4 DEF ViewsInv
<1>2. AuditInv /\ ViewsInv /\ [AuditNext]_auditVars => ViewsInv'
  <2> SUFFICES ASSUME AuditInv, ViewsInv, [AuditNext]_auditVars PROVE ViewsInv'
    OBVIOUS
  <2>1. CASE UNCHANGED auditVars
    BY <2>1 DEF auditVars, ViewsInv
  <2>2. ASSUME NEW f \in FactNames, StepEvent(f) PROVE ViewsInv'
    BY <2>2, StepKeepsViews
  <2>3. ASSUME NEW m \in DOMAIN TaskMoves, TaskMoved(m) PROVE ViewsInv'
    BY <2>3, TaskKeepsViews
  <2>4. CASE AuditCrash
    BY <2>4 DEF AuditCrash, ViewsInv
  <2>5. CASE AuditReopen
    <3>1. auditOpens' # 1
      BY <2>5 DEF AuditReopen, AuditInv, AuditTypeOK
    <3> QED
      BY <2>5, <3>1 DEF AuditReopen, ViewsInv
  <2>6. CASE AuditTouch
    BY <2>6 DEF AuditTouch, ViewsInv
  <2>7. CASE ReadBackNoted
    <3>1. auditTrust \in [StateKeys -> {"none", "tool_reported", "verified"}]
      BY DEF ViewsInv
    <3>2. /\ auditTrust' = [auditTrust EXCEPT !["read_back_verified"] = "verified"]
          /\ UNCHANGED <<auditUp, auditFile, auditTask, auditCounted, auditOpens,
                         auditLost, auditBlocked, auditTouched>>
      BY <2>7 DEF ReadBackNoted
    <3>3. Reported(auditTrust') = Reported(auditTrust)
      BY <3>1, <3>2 DEF Reported, OwnFacts
    <3>4. auditTrust' \in [StateKeys -> {"none", "tool_reported", "verified"}]
      BY <3>1, <3>2
    <3> QED
      BY <3>2, <3>3, <3>4 DEF ViewsInv
  <2> QED
    BY <2>1, <2>2, <2>3, <2>4, <2>5, <2>6, <2>7 DEF AuditNext
<1> QED
  BY <1>1, <1>2, AuditInvariance, PTL DEF AuditSpec

\* Replaying the file gives the facts that tools reported to the process that
\* wrote it, none that the process noted itself, and its task, and the counters
\* count its lines.
THEOREM ViewsAgree == AuditSpec => []DerivedViewsAgree
<1>1. ViewsInv => DerivedViewsAgree
  BY DEF ViewsInv, DerivedViewsAgree, SameTask, VerifiedLines, Reported
<1> QED
  BY <1>1, ViewsInvariance, PTL
=============================================================================
