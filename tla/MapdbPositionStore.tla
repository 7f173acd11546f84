------------------------- MODULE MapdbPositionStore -------------------------
(***************************************************************************)
(* MapdbPositionStore: a table of positions and two sorted indexes on it.  *)
(*                                                                         *)
(* Many threads save and query at the same time.  A listener of the table  *)
(* fills the indexes after the row is there; queries walk an index and     *)
(* look each row up in the table.  clear and pump are called by one        *)
(* thread, while others may save and query.  An index entry is determined  *)
(* by its key: (id, timestamp, key) in one index, (timestamp, key) in the  *)
(* other.  MapDB is external: its maps are weakly consistent, an iterator  *)
(* reads one leaf of the tree after the other.                             *)
(***************************************************************************)
EXTENDS Integers, Sequences, FiniteSets

CONSTANTS
  Ids,          \* identifiers of positions
  Timestamps,   \* timestamps of positions
  Queries,      \* the queries clients make
  MaxSequence,  \* bound: positions saved or pumped
  MaxTables     \* bound: table objects, one more for every pump

Position == [id : Ids, ts : Timestamps]
Tables == 1..MaxTables
Keys == (-MaxSequence..MaxSequence) \ {0}

\* A period is lower <= t < upper; hasLower and hasUpper say which bounds it has.
\* queryVessel walks the index by id, queryArea and queryLatest the one by time.
Query == [kind : {"vessel", "area", "latest"}, id : Ids, lower : Timestamps,
          hasLower : BOOLEAN, upper : Timestamps, hasUpper : BOOLEAN]

ASSUME PositionsAssumption == Ids # {} /\ Timestamps # {} /\ Timestamps \subseteq Int
ASSUME QueriesAssumption == Queries # {} /\ Queries \subseteq Query
ASSUME BoundsAssumption == MaxSequence \in Nat /\ MaxTables \in Nat \ {0}

VARIABLES
  sequence,           \* the Atomic.Long
  table,              \* the table object the field refers to
  rows,               \* table object -> keys of its rows
  listening,          \* table objects with the listener
  lookupIdTimestamp,  \* keys in the index by id
  lookupTimestamp,    \* keys in the index by timestamp
  value,              \* key -> the position saved under it
  saving,             \* key -> the step of the save that uses it
  into,               \* key -> the table object it is put into
  maintenance,        \* the step of clear or pump, "idle" if none
  pumping,            \* whether that clear is part of a pump
  pumped,             \* keys the pump has read so far
  query,              \* the query under way
  scan,               \* "idle", "scan", "done", or "failed" when it threw
  leaf,               \* keys of the leaf being walked, not handed out yet
  result,             \* keys handed out
  missing             \* a key was not found in the table: null to the client

(* History, read by no action.                                             *)
VARIABLES
  untracked,          \* keys whose save overlapped a clear or a pump or went
                      \* into the table of a pump, and keys whose pump failed
  stored,             \* keys whose save or pump was complete when the scan began
  disturbed           \* a clear or a pump took a step during the scan

storeVars == <<sequence, table, rows, listening, value>>
indexVars == <<lookupIdTimestamp, lookupTimestamp>>
saveVars == <<saving, into>>
maintenanceVars == <<maintenance, pumping, pumped>>
scanVars == <<query, scan, leaf, result, missing, stored>>
vars == <<storeVars, indexVars, saveVars, maintenanceVars, scanVars, untracked, disturbed>>

InProgress == {k \in Keys : saving[k] \in {"put", "notify", "id", "time"}}

\* init: the file is deleted, so a restart finds nothing; the listener is added.
Init ==
  /\ sequence = 0
  /\ table = 1
  /\ rows = [t \in Tables |-> {}]
  /\ listening = {1}
  /\ lookupIdTimestamp = {} /\ lookupTimestamp = {}
  /\ value = [k \in Keys |-> CHOOSE p \in Position : TRUE]
  /\ saving = [k \in Keys |-> "none"] /\ into = [k \in Keys |-> 1]
  /\ maintenance = "idle" /\ pumping = FALSE /\ pumped = {}
  /\ query = CHOOSE q \in Queries : TRUE
  /\ scan = "idle" /\ leaf = {} /\ result = <<>> /\ missing = FALSE
  /\ untracked = {} /\ stored = {} /\ disturbed = FALSE
-----------------------------------------------------------------------------
(* save.  The field table is read, then the sequence is incremented.       *)
\* Mutant: the sequence is read and not incremented.
SaveUnderSameKey(p) ==
  LET k == sequence + 1
  IN  /\ k \in Keys
      /\ value' = [value EXCEPT ![k] = p]
      /\ saving' = [saving EXCEPT ![k] = "put"]
      /\ into' = [into EXCEPT ![k] = table]
      /\ untracked' = IF maintenance = "idle" THEN untracked ELSE untracked \cup {k}
      /\ UNCHANGED <<sequence, table, rows, listening, indexVars, maintenanceVars,
                     scanVars, disturbed>>

Save(p) ==
  LET k == sequence + 1
  IN  /\ k \in Keys
      /\ sequence' = k
      /\ value' = [value EXCEPT ![k] = p]
      /\ saving' = [saving EXCEPT ![k] = "put"]
      /\ into' = [into EXCEPT ![k] = table]
      /\ untracked' = IF maintenance = "idle" THEN untracked ELSE untracked \cup {k}
      /\ UNCHANGED <<table, rows, listening, indexVars, maintenanceVars, scanVars, disturbed>>

Put(k) ==
  /\ saving[k] = "put"
  /\ rows' = [rows EXCEPT ![into[k]] = @ \cup {k}]
  /\ saving' = [saving EXCEPT ![k] = "notify"]
  /\ UNCHANGED <<sequence, table, listening, value, indexVars, into,
                 maintenanceVars, scanVars, untracked, disturbed>>

\* The table notifies the listeners it has now: the first table has one whenever
\* no clear is under way, the table of a pump has none.
Notify(k) ==
  LET notified == into[k] \in listening
  IN  /\ saving[k] = "notify"
      /\ saving' = [saving EXCEPT ![k] = IF notified THEN "id" ELSE "done"]
      /\ untracked' = IF notified \/ into[k] = 1 THEN untracked
                       ELSE untracked \cup {k}
      /\ UNCHANGED <<storeVars, indexVars, into, maintenanceVars, scanVars, disturbed>>

\* The listener adds to one index and then to the other.
IndexId(k) ==
  /\ saving[k] = "id"
  /\ lookupIdTimestamp' = lookupIdTimestamp \cup {k}
  /\ saving' = [saving EXCEPT ![k] = "time"]
  /\ UNCHANGED <<storeVars, lookupTimestamp, into, maintenanceVars, scanVars,
                 untracked, disturbed>>

IndexTime(k) ==
  /\ saving[k] = "time"
  /\ lookupTimestamp' = lookupTimestamp \cup {k}
  /\ saving' = [saving EXCEPT ![k] = "done"]
  /\ UNCHANGED <<storeVars, lookupIdTimestamp, into, maintenanceVars, scanVars,
                 untracked, disturbed>>
-----------------------------------------------------------------------------
(* clear, on its own or as the start of pump.                              *)
Disturb == disturbed' = (disturbed \/ scan = "scan")

\* An empty table is left alone, whatever the indexes hold.
Clear(forPump) ==
  /\ maintenance = "idle"
  /\ forPump \/ rows[table] # {}
  /\ pumping' = forPump
  /\ IF rows[table] = {}
     THEN maintenance' = "pump" /\ UNCHANGED listening
     ELSE maintenance' = "rows" /\ listening' = listening \ {table}
  /\ untracked' = untracked \cup InProgress
  /\ Disturb
  /\ UNCHANGED <<sequence, table, rows, value, indexVars, saveVars, pumped, scanVars>>

ClearRows ==
  /\ maintenance = "rows"
  /\ rows' = [rows EXCEPT ![table] = {}]
  /\ maintenance' = "ids"
  /\ Disturb
  /\ UNCHANGED <<sequence, table, listening, value, indexVars, saveVars, pumping,
                 pumped, scanVars, untracked>>

ClearIds ==
  /\ maintenance = "ids"
  /\ lookupIdTimestamp' = {}
  /\ maintenance' = "times"
  /\ Disturb
  /\ UNCHANGED <<storeVars, lookupTimestamp, saveVars, pumping, pumped, scanVars, untracked>>

ClearTimes ==
  /\ maintenance = "times"
  /\ lookupTimestamp' = {}
  /\ maintenance' = "listen"
  /\ Disturb
  /\ UNCHANGED <<storeVars, lookupIdTimestamp, saveVars, pumping, pumped, scanVars, untracked>>

\* Mutant: the listener is not put back.
ForgetListener ==
  /\ maintenance = "listen"
  /\ maintenance' = IF pumping THEN "pump" ELSE "idle"
  /\ Disturb
  /\ UNCHANGED <<storeVars, indexVars, saveVars, pumping, pumped, scanVars, untracked>>

AddListener ==
  /\ maintenance = "listen"
  /\ listening' = listening \cup {table}
  /\ maintenance' = IF pumping THEN "pump" ELSE "idle"
  /\ Disturb
  /\ UNCHANGED <<sequence, table, rows, value, indexVars, saveVars, pumping,
                 pumped, scanVars, untracked>>

(* pump.  The tree maker draws the positions one by one; the listener is   *)
(* called by hand for each.                                                *)
PumpNext(p) ==
  LET k == -(sequence + 1)
  IN  /\ maintenance = "pump"
      /\ k \in Keys
      /\ sequence' = -k
      /\ value' = [value EXCEPT ![k] = p]
      /\ pumped' = pumped \cup {k}
      /\ lookupIdTimestamp' = lookupIdTimestamp \cup {k}
      /\ lookupTimestamp' = lookupTimestamp \cup {k}
      /\ Disturb
      /\ UNCHANGED <<table, rows, listening, saveVars, maintenance, pumping, scanVars, untracked>>

\* make() returns a new table object, without the listener.
PumpEnd ==
  /\ maintenance = "pump"
  /\ table + 1 \in Tables
  /\ table' = table + 1
  /\ rows' = [rows EXCEPT ![table + 1] = pumped]
  /\ maintenance' = "idle" /\ pumping' = FALSE /\ pumped' = {}
  /\ untracked' = untracked \cup InProgress
  /\ Disturb
  /\ UNCHANGED <<sequence, listening, value, indexVars, saveVars, scanVars>>

\* make() throws (MapDB refuses the name of an existing map) or the stream does.
PumpFails ==
  /\ maintenance = "pump"
  /\ maintenance' = "idle" /\ pumping' = FALSE /\ pumped' = {}
  /\ untracked' = untracked \cup pumped
  /\ Disturb
  /\ UNCHANGED <<storeVars, indexVars, saveVars, scanVars>>
-----------------------------------------------------------------------------
(* The queries.  applyPeriod: an index key that is a prefix sorts before   *)
(* the entries it is a prefix of, so the lower bound is included and the   *)
(* upper one is not, whatever the range says.                              *)
\* Mutant: the lower bound is left out.
ApplyOpenPeriod(index, q) ==
  {k \in index : /\ q.hasLower => q.lower < value[k].ts
                 /\ q.hasUpper => value[k].ts < q.upper}

ApplyPeriod(index, q) ==
  {k \in index : /\ q.hasLower => q.lower <= value[k].ts
                 /\ q.hasUpper => value[k].ts < q.upper}

Selected(q) ==
  CASE q.kind = "vessel" -> ApplyPeriod({k \in lookupIdTimestamp : value[k].id = q.id}, q)
    [] q.kind = "area"   -> ApplyPeriod(lookupTimestamp, q)
    [] q.kind = "latest" -> {k \in lookupTimestamp : q.lower <= value[k].ts}

\* Mutant: queryLatest walks the set upwards.
BeforeAscending(q, j, k) ==
  value[j].ts < value[k].ts \/ (value[j].ts = value[k].ts /\ j < k)

\* The order in which the index is walked; queryLatest takes the descending set.
Before(q, j, k) ==
  LET sortsBefore(a, b) == value[a].ts < value[b].ts \/ (value[a].ts = value[b].ts /\ a < b)
  IN  IF q.kind = "latest" THEN sortsBefore(k, j) ELSE sortsBefore(j, k)

\* What the iterator has not reached.
Remaining ==
  IF result = <<>> THEN Selected(query)
  ELSE {k \in Selected(query) : Before(query, result[Len(result)], k)}

QueryBegin(q) ==
  /\ scan = "idle"
  /\ scan' = "scan"
  /\ query' = q
  /\ stored' = {k \in rows[table] \ untracked :
                  /\ k > 0 => saving[k] = "done"
                  /\ q.kind = "vessel" => value[k].id = q.id
                  /\ q.hasLower \/ q.kind = "latest" => value[k].ts >= q.lower
                  /\ q.hasUpper /\ q.kind # "latest" => value[k].ts < q.upper}
  /\ disturbed' = (maintenance # "idle")
  /\ UNCHANGED <<storeVars, indexVars, saveVars, maintenanceVars, leaf, result,
                 missing, untracked>>

\* The iterator reads a leaf: the next entries, as many as the leaf has.
ReadLeaf ==
  /\ scan = "scan"
  /\ leaf = {}
  /\ leaf' \in {l \in SUBSET Remaining \ {{}} :
                  \A j \in l, k \in Remaining \ l : Before(query, j, k)}
  /\ UNCHANGED <<storeVars, indexVars, saveVars, maintenanceVars, query, scan,
                 result, missing, stored, untracked, disturbed>>

IsNext(k) == k \in leaf /\ \A j \in leaf \ {k} : Before(query, k, j)

\* table.get of the entry that is next, in the table of this instant.
Emit(k) ==
  /\ scan = "scan"
  /\ IsNext(k)
  /\ query.kind = "area" => k \in rows[table]
  /\ leaf' = leaf \ {k}
  /\ result' = Append(result, k)
  /\ missing' = (missing \/ k \notin rows[table])
  /\ UNCHANGED <<storeVars, indexVars, saveVars, maintenanceVars, query, scan,
                 stored, untracked, disturbed>>

\* The filter of queryArea asks a null for its latitude, and the query is over.
FilterThrows(k) ==
  /\ scan = "scan"
  /\ query.kind = "area"
  /\ IsNext(k)
  /\ k \notin rows[table]
  /\ scan' = "failed"
  /\ UNCHANGED <<storeVars, indexVars, saveVars, maintenanceVars, query, leaf,
                 result, missing, stored, untracked, disturbed>>

QueryEnd ==
  /\ scan = "scan"
  /\ leaf = {}
  /\ Remaining = {}
  /\ scan' = "done"
  /\ UNCHANGED <<storeVars, indexVars, saveVars, maintenanceVars, query, leaf,
                 result, missing, stored, untracked, disturbed>>
-----------------------------------------------------------------------------
Wait ==
  /\ InProgress = {} /\ maintenance = "idle" /\ scan # "scan"
  /\ UNCHANGED vars

Next ==
  \/ \E p \in Position : Save(p) \/ PumpNext(p)
  \/ \E k \in Keys : Put(k) \/ Notify(k) \/ IndexId(k) \/ IndexTime(k)
                     \/ Emit(k) \/ FilterThrows(k)
  \/ \E forPump \in BOOLEAN : Clear(forPump)
  \/ ClearRows \/ ClearIds \/ ClearTimes \/ AddListener
  \/ PumpEnd \/ PumpFails
  \/ \E q \in Queries : QueryBegin(q)
  \/ ReadLeaf \/ QueryEnd
  \/ Wait

Spec == Init /\ [][Next]_vars
-----------------------------------------------------------------------------
\* The type invariant, with the life cycle of keys: a number of the sequence is
\* used once, for a row of a save or for a row of a pump.
TypeOK ==
  /\ sequence \in 0..MaxSequence
  /\ table \in Tables /\ listening \subseteq Tables
  /\ rows \in [Tables -> SUBSET Keys]
  /\ lookupIdTimestamp \subseteq Keys /\ lookupTimestamp \subseteq Keys
  /\ value \in [Keys -> Position]
  /\ saving \in [Keys -> {"none", "put", "notify", "id", "time", "done"}]
  /\ into \in [Keys -> Tables]
  /\ maintenance \in {"idle", "rows", "ids", "times", "listen", "pump"}
  /\ pumping \in BOOLEAN /\ pumped \subseteq Keys
  /\ query \in Queries /\ scan \in {"idle", "scan", "done", "failed"}
  /\ leaf \subseteq Keys /\ result \in Seq(Keys) /\ missing \in BOOLEAN
  /\ untracked \subseteq Keys /\ stored \subseteq Keys /\ disturbed \in BOOLEAN
  /\ \A k \in Keys : saving[k] # "none" => k \in 1..sequence
  /\ \A k \in lookupIdTimestamp \cup lookupTimestamp \cup UNION {rows[t] : t \in Tables} :
       /\ k \in -sequence..sequence
       /\ k < 0 => saving[-k] = "none"

\* The indexes and the table agree: every entry leads to a row, and a position is
\* in both indexes once its save returned, however saves, queries, a clear and a
\* pump interleave.  Excepted are saves that overlap a clear or a pump, saves after
\* a pump and before the next clear, and what a failed pump read (lines 103-151).
IndexMatchesTable ==
  maintenance = "idle" =>
    \A k \in Keys \ untracked :
      /\ k \in lookupIdTimestamp \cup lookupTimestamp => k \in rows[table]
      /\ k \in rows[table] \ InProgress
           => k \in lookupIdTimestamp \cap lookupTimestamp

Handed(k) == \E i \in 1..Len(result) : result[i] = k

\* A query finds every position of its period whose save returned before it began,
\* none twice, and hands out no null, although others are saved while it walks.  An
\* area query dies of the null, of an untracked entry only, and has handed out
\* what was stored before that entry (lines 153-163, 190-228, 247-252).
QueryAnswers ==
  ~disturbed =>
    /\ scan = "done" =>
         /\ \A k \in stored : Handed(k)
         /\ \A i, j \in 1..Len(result) : i # j => result[i] # result[j]
         /\ missing => \E i \in 1..Len(result) : result[i] \in untracked
    /\ scan = "failed" =>
         \E e \in leaf \cap untracked :
            \A k \in stored : Before(query, k, e) => Handed(k)

\* queryLatest is decreasing by timestamp, as DefaultPositionStore documents it
\* (line 24), whatever is saved, cleared or pumped meanwhile.
LatestIsDecreasing ==
  query.kind = "latest" =>
    \A i, j \in 1..Len(result) : i < j => value[result[i]].ts >= value[result[j]].ts
=============================================================================
