---------------------- MODULE MapdbPositionStoreProofs ----------------------
(***************************************************************************)
(* The store of positions, for any number of threads that save and query   *)
(* while one clears and pumps, any queries, and any bounds on the sequence *)
(* and on the table objects: the indexes agree with the table, a query     *)
(* that nothing disturbs finds each stored position once, and queryLatest  *)
(* is decreasing.                                                          *)
(***************************************************************************)
EXTENDS MapdbPositionStore, TLAPS

(* The inductive invariant.  A number of the sequence is used once; what a *)
(* pump has read so far is new.                                            *)
Fresh ==
  /\ maintenance # "pump" => pumped = {}
  /\ \A k \in pumped : k \in -sequence..(-1) /\ saving[-k] = "none"

\* The first table has its listener, unless it is being cleared.
Listened == 1 \in listening \/ (table = 1 /\ maintenance \in {"rows", "ids", "times", "listen"})

\* Where a key is, by the step of its save and of the clear or pump.  One whose save is
\* under way has met no clear or pump.
Placed(k) ==
  LET row == k \in rows[table]
      id == k \in lookupIdTimestamp
      time == k \in lookupTimestamp
  IN  /\ saving[k] \in {"put", "notify", "id", "time"} => maintenance = "idle" /\ into[k] = table
      /\ saving[k] = "put" => ~ row /\ ~ id /\ ~ time
      /\ saving[k] \in {"notify", "id"} => row /\ ~ id /\ ~ time
      /\ saving[k] = "time" => row /\ id /\ ~ time
      /\ saving[k] \in {"none", "done"} =>
           /\ maintenance \in {"idle", "rows"} => (row <=> id) /\ (row <=> time)
           /\ maintenance \in {"ids", "times", "listen", "pump"} => ~ row
           /\ maintenance \in {"times", "listen"} => ~ id
           /\ maintenance = "listen" => ~ time
           /\ maintenance = "pump" => (id <=> k \in pumped) /\ (time <=> k \in pumped)

Tracked == \A k \in Keys \ untracked : Placed(k)

\* The result is in the order of the index, and so is what is left of the leaf.
Ordered ==
  /\ scan = "idle" => result = <<>> /\ leaf = {} /\ ~ missing
  /\ scan = "done" => leaf = {}
  /\ \A k \in leaf : k \in -sequence..sequence
  /\ \A i \in 1..Len(result) : result[i] \in -sequence..sequence
  /\ \A i, j \in 1..Len(result) : i < j => Before(query, result[i], result[j])
  /\ \A i \in 1..Len(result), k \in leaf : Before(query, result[i], k)

\* The iterator has not passed by a position that was stored when it set out.
NotPassed(k) ==
  /\ k \in Selected(query)
  /\ \A j \in leaf : Before(query, j, k)
  /\ \A i \in 1..Len(result) : Before(query, result[i], k)

\* Unless a clear or a pump disturbs the scan, each position that was stored when it set
\* out has been handed out, is in the leaf or is still to come; what is in the leaf has
\* its row; a null stands for an untracked entry, and so does the entry at which an area
\* query died, which those that come before it have passed.
Covered ==
  /\ \A k \in stored : k \in -sequence..sequence
  /\ ~ disturbed =>
       /\ scan = "scan" => maintenance = "idle"
       /\ scan # "failed" =>
            \A k \in stored : Handed(k) \/ k \in leaf \/ (scan = "scan" /\ NotPassed(k))
       /\ scan = "failed" =>
            \E e \in leaf \cap untracked :
               \A k \in stored : Before(query, k, e) => Handed(k)
       /\ scan = "scan" => \A k \in leaf : k \in untracked \/ k \in rows[table]
       /\ missing => \E i \in 1..Len(result) : result[i] \in untracked

Safety == TypeOK /\ Fresh /\ Listened /\ Tracked /\ Ordered /\ Covered
-----------------------------------------------------------------------------
(* The order of the index.                                                 *)
\* The entries of an index are in a strict order: none comes before itself, and what
\* comes before an entry comes before the entries after it.
LEMMA StrictOrder ==
  ASSUME value \in [Keys -> Position], NEW q \in Query
  PROVE  /\ \A j \in Keys : ~ Before(q, j, j)
         /\ \A i, j, k \in Keys : Before(q, i, j) /\ Before(q, j, k) => Before(q, i, k)
<1>1. \A k \in Keys : value[k].ts \in Int
  BY PositionsAssumption DEF Position
<1>2. Keys \subseteq Int
  BY BoundsAssumption DEF Keys
<1> QED
  BY <1>1, <1>2 DEF Before

\* A number of the sequence stays one when the sequence grows.
LEMMA Wider == \A a, b, k \in Int : a <= b /\ k \in -a..a => k \in -b..b
OBVIOUS

\* A key of the sequence keeps its position, and the sequence only grows.
LEMMA Kept ==
  ASSUME TypeOK, [Next]_vars
  PROVE  /\ sequence <= sequence'
         /\ \A k \in Keys : k \in -sequence..sequence => value'[k] = value[k]
<1> USE DEF TypeOK
<1>1. ASSUME NEW p \in Position, Save(p)
      PROVE  /\ sequence <= sequence'
             /\ \A k \in Keys : k \in -sequence..sequence => value'[k] = value[k]
  BY <1>1, BoundsAssumption DEF Save, Keys
<1>2. ASSUME NEW p \in Position, PumpNext(p)
      PROVE  /\ sequence <= sequence'
             /\ \A k \in Keys : k \in -sequence..sequence => value'[k] = value[k]
  BY <1>2, BoundsAssumption DEF PumpNext, Keys
<1>3. ASSUME UNCHANGED <<sequence, value>>
      PROVE  /\ sequence <= sequence'
             /\ \A k \in Keys : k \in -sequence..sequence => value'[k] = value[k]
  BY <1>3, BoundsAssumption
<1>4. [Next]_vars => \/ \E p \in Position : Save(p) \/ PumpNext(p)
                     \/ UNCHANGED <<sequence, value>>
  BY DEF Next, vars, storeVars, Put, Notify, IndexId, IndexTime, Emit, FilterThrows, Clear, ClearRows,
         ClearIds, ClearTimes, AddListener, PumpEnd, PumpFails, QueryBegin, ReadLeaf,
         QueryEnd, Wait
<1> QED
  BY <1>1, <1>2, <1>3, <1>4

\* So entries of the sequence keep their order.
LEMMA OrderStays ==
  ASSUME TypeOK, [Next]_vars, query' = query
  PROVE  \A j, k \in Keys : j \in -sequence..sequence /\ k \in -sequence..sequence =>
           (Before(query, j, k)' <=> Before(query, j, k))
BY Kept DEF Before

\* Whatever one step does, a key stays untracked.
LEMMA StaysUntracked ==
  ASSUME [Next]_vars
  PROVE  untracked \subseteq untracked'
BY DEF Next, vars, Save, PumpNext, Put, Notify, IndexId, IndexTime, Emit, FilterThrows, Clear, ClearRows,
       ClearIds, ClearTimes, AddListener, PumpEnd, PumpFails, QueryBegin, ReadLeaf,
       QueryEnd, Wait

\* While a scan is not disturbed, the rows and the indexes only grow.
LEMMA Undisturbed ==
  ASSUME TypeOK, [Next]_vars, scan = "scan", ~ disturbed'
  PROVE  /\ ~ disturbed
         /\ maintenance' = maintenance
         /\ rows[table] \subseteq rows'[table']
         /\ lookupIdTimestamp \subseteq lookupIdTimestamp'
         /\ lookupTimestamp \subseteq lookupTimestamp'
<1> USE DEF TypeOK
<1>1. ~ Disturb
  BY DEF Disturb
<1>2. ASSUME NEW k \in Keys, Put(k)
      PROVE  rows[table] \subseteq rows'[table']
  BY <1>2 DEF Put
<1>3. ASSUME NEW k \in Keys, IndexId(k)
      PROVE  lookupIdTimestamp \subseteq lookupIdTimestamp'
  BY <1>3 DEF IndexId
<1>4. ASSUME NEW k \in Keys, IndexTime(k)
      PROVE  lookupTimestamp \subseteq lookupTimestamp'
  BY <1>4 DEF IndexTime
<1>5. \A q \in Queries : ~ QueryBegin(q)
  BY DEF QueryBegin
<1> QED
  BY <1>1, <1>2, <1>3, <1>4, <1>5
     DEF Next, vars, storeVars, indexVars, maintenanceVars, Save, PumpNext, Put, Notify,
         IndexId, IndexTime, Emit, FilterThrows, Clear, ClearRows, ClearIds, ClearTimes, AddListener,
         PumpEnd, PumpFails, ReadLeaf, QueryEnd, Wait
-----------------------------------------------------------------------------
(* Types.                                                                  *)
\* What is selected is in the index that is walked.
LEMMA Indexed ==
  ASSUME NEW q \in Query, NEW k \in Selected(q)
  PROVE  k \in lookupIdTimestamp \cup lookupTimestamp
BY DEF Selected, ApplyPeriod, Query

\* The types and the numbers of the keys, from one step to the next.
LEMMA TypeStep ==
  ASSUME Safety, [Next]_vars
  PROVE  TypeOK'
<1> USE DEF Safety, TypeOK
<1>0. Keys \subseteq Int /\ sequence \in Nat /\ MaxSequence \in Nat
  BY BoundsAssumption DEF Keys
<1>1. ASSUME NEW p \in Position, Save(p) PROVE TypeOK'
  <2> DEFINE k == sequence + 1
  <2>1. k \in Keys /\ k \in 1..MaxSequence
    BY <1>0, <1>1 DEF Save, Keys
  <2>2. /\ sequence' = k
        /\ saving' = [saving EXCEPT ![k] = "put"]
        /\ value' = [value EXCEPT ![k] = p]
        /\ into' = [into EXCEPT ![k] = table]
        /\ untracked' = untracked \/ untracked' = untracked \cup {k}
        /\ UNCHANGED <<table, rows, listening, indexVars, maintenanceVars, scanVars, disturbed>>
    BY <1>1 DEF Save
  <2>3. saving' \in [Keys -> {"none", "put", "notify", "id", "time", "done"}]
    BY <2>1, <2>2
  <2>7. value' \in [Keys -> Position] /\ into' \in [Keys -> Tables]
    BY <2>1, <2>2
  <2>8. untracked' \subseteq Keys
    BY <2>1, <2>2
  <2>9. sequence' \in 0..MaxSequence
    BY <1>0, <2>1, <2>2
  <2>4. \A j \in Keys : saving'[j] # "none" => j \in 1..sequence'
    BY <1>0, <2>1, <2>2
  <2>5. \A j \in (lookupIdTimestamp \cup lookupTimestamp \cup UNION {rows[t] : t \in Tables})' :
          j \in -sequence'..sequence' /\ (j < 0 => saving'[-j] = "none")
    <3> SUFFICES ASSUME NEW j \in lookupIdTimestamp \cup lookupTimestamp \cup UNION {rows[t] : t \in Tables}
                 PROVE  j \in -sequence'..sequence' /\ (j < 0 => saving'[-j] = "none")
      BY <2>2 DEF indexVars
    <3>1. j \in -sequence..sequence /\ (j < 0 => saving[-j] = "none")
      OBVIOUS
    <3>2. j < 0 => -j # k /\ -j \in Keys
      BY <1>0, <3>1, BoundsAssumption DEF Keys
    <3> QED
      BY <1>0, <2>2, <3>1, <3>2
  <2> QED
    BY <2>2, <2>3, <2>4, <2>5, <2>7, <2>8, <2>9 DEF indexVars, maintenanceVars, scanVars
<1>2. ASSUME NEW p \in Position, PumpNext(p) PROVE TypeOK'
  <2> DEFINE k == -(sequence + 1)
  <2>1. k \in Keys /\ -k \in Keys /\ -k = sequence + 1 /\ -k \in 1..MaxSequence
    BY <1>0, <1>2 DEF PumpNext, Keys
  <2>2. /\ sequence' = sequence + 1
        /\ value' = [value EXCEPT ![k] = p]
        /\ pumped' = pumped \cup {k}
        /\ lookupIdTimestamp' = lookupIdTimestamp \cup {k}
        /\ lookupTimestamp' = lookupTimestamp \cup {k}
        /\ disturbed' = (disturbed \/ scan = "scan")
        /\ UNCHANGED <<table, rows, listening, saveVars, maintenance, pumping, scanVars, untracked>>
    BY <1>2, <2>1 DEF PumpNext, Disturb
  <2>3. /\ value' \in [Keys -> Position]
        /\ pumped' \subseteq Keys /\ lookupIdTimestamp' \subseteq Keys
        /\ lookupTimestamp' \subseteq Keys
        /\ sequence' \in 0..MaxSequence
        /\ disturbed' \in BOOLEAN
    BY <1>0, <2>1, <2>2
  <2>4. \A j \in Keys : saving'[j] # "none" => j \in 1..sequence'
    BY <1>0, <2>1, <2>2 DEF saveVars
  <2>5. \A j \in (lookupIdTimestamp \cup lookupTimestamp \cup UNION {rows[t] : t \in Tables})' :
          j \in -sequence'..sequence' /\ (j < 0 => saving'[-j] = "none")
    <3> SUFFICES ASSUME NEW j,
                        j \in lookupIdTimestamp \cup lookupTimestamp \cup UNION {rows[t] : t \in Tables} \/ j = k
                 PROVE  j \in -sequence'..sequence' /\ (j < 0 => saving'[-j] = "none")
      BY <2>2
    <3>1. CASE j = k
      <4>1. saving[-k] = "none"
        BY <1>0, <2>1
      <4> QED
        BY <1>0, <2>1, <2>2, <3>1, <4>1 DEF saveVars
    <3>2. CASE j # k
      <4>1. j \in -sequence..sequence /\ (j < 0 => saving[-j] = "none")
        BY <3>2
      <4> QED
        BY <1>0, <2>2, <4>1 DEF saveVars
    <3> QED
      BY <3>1, <3>2
  <2> QED
    BY <2>2, <2>3, <2>4, <2>5 DEF saveVars, scanVars
<1>3. ASSUME NEW k \in Keys, Put(k) PROVE TypeOK'
  <2>1. /\ saving[k] = "put"
        /\ rows' = [rows EXCEPT ![into[k]] = @ \cup {k}]
        /\ saving' = [saving EXCEPT ![k] = "notify"]
        /\ UNCHANGED <<sequence, table, listening, value, indexVars, into,
                       maintenanceVars, scanVars, untracked, disturbed>>
    BY <1>3 DEF Put
  <2>2. /\ saving' \in [Keys -> {"none", "put", "notify", "id", "time", "done"}]
        /\ rows' \in [Tables -> SUBSET Keys]
    BY <2>1
  <2>3. k \in 1..sequence
    BY <2>1
  <2>4. \A j \in Keys : saving'[j] = "none" <=> saving[j] = "none"
    BY <2>1
  <2>5. \A j \in (UNION {rows[t] : t \in Tables})' : j = k \/ j \in UNION {rows[t] : t \in Tables}
    BY <2>1
  <2>6. \A j \in (lookupIdTimestamp \cup lookupTimestamp \cup UNION {rows[t] : t \in Tables})' :
          j \in -sequence'..sequence' /\ (j < 0 => saving'[-j] = "none")
    <3> SUFFICES ASSUME NEW j,
                        j \in lookupIdTimestamp \cup lookupTimestamp \cup UNION {rows[t] : t \in Tables} \/ j = k
                 PROVE  j \in -sequence'..sequence' /\ (j < 0 => saving'[-j] = "none")
      BY <2>1, <2>5 DEF indexVars
    <3>1. CASE j = k
      BY <1>0, <2>1, <2>3, <3>1
    <3>2. CASE j # k
      <4>1. j \in -sequence..sequence /\ (j < 0 => saving[-j] = "none")
        BY <3>2
      <4>2. j < 0 => -j \in Keys
        BY <1>0, <4>1, BoundsAssumption DEF Keys
      <4> QED
        BY <2>1, <2>4, <4>1, <4>2
    <3> QED
      BY <3>1, <3>2
  <2> QED
    BY <2>1, <2>2, <2>4, <2>6 DEF indexVars, maintenanceVars, scanVars
<1>4. ASSUME NEW k \in Keys, Notify(k) \/ IndexId(k) \/ IndexTime(k) PROVE TypeOK'
  <2>1. saving[k] # "none"
    BY <1>4 DEF Notify, IndexId, IndexTime
  <2>2. \E s \in {"id", "time", "done"} : saving' = [saving EXCEPT ![k] = s]
    BY <1>4 DEF Notify, IndexId, IndexTime
  <2>3. /\ lookupIdTimestamp' \in {lookupIdTimestamp, lookupIdTimestamp \cup {k}}
        /\ lookupTimestamp' \in {lookupTimestamp, lookupTimestamp \cup {k}}
        /\ untracked' \in {untracked, untracked \cup {k}}
        /\ UNCHANGED <<storeVars, into, maintenanceVars, scanVars, disturbed>>
    BY <1>4 DEF Notify, IndexId, IndexTime, indexVars
  <2>4. saving' \in [Keys -> {"none", "put", "notify", "id", "time", "done"}]
    BY <2>2
  <2>5. \A j \in Keys : saving'[j] = "none" <=> saving[j] = "none"
    BY <2>1, <2>2
  <2>6. k \in 1..sequence
    BY <2>1
  <2>7. \A j \in (lookupIdTimestamp \cup lookupTimestamp \cup UNION {rows[t] : t \in Tables})' :
          j \in -sequence'..sequence' /\ (j < 0 => saving'[-j] = "none")
    <3> SUFFICES ASSUME NEW j,
                        j \in lookupIdTimestamp \cup lookupTimestamp \cup UNION {rows[t] : t \in Tables} \/ j = k
                 PROVE  j \in -sequence..sequence /\ (j < 0 => saving'[-j] = "none")
      BY <2>3 DEF storeVars
    <3>1. CASE j = k
      BY <1>0, <2>6, <3>1
    <3>2. CASE j # k
      <4>1. j \in -sequence..sequence /\ (j < 0 => saving[-j] = "none")
        BY <3>2
      <4>2. j < 0 => -j \in Keys
        BY <1>0, <4>1, BoundsAssumption DEF Keys
      <4> QED
        BY <2>5, <4>1, <4>2
    <3> QED
      BY <3>1, <3>2
  <2>8. /\ lookupIdTimestamp' \subseteq Keys /\ lookupTimestamp' \subseteq Keys
        /\ untracked' \subseteq Keys
    BY <2>3
  <2> QED
    BY <2>3, <2>4, <2>5, <2>7, <2>8 DEF storeVars, maintenanceVars, scanVars
<1>5. ASSUME Clear(TRUE) \/ Clear(FALSE) \/ ClearRows \/ ClearIds \/ ClearTimes \/ AddListener \/ PumpFails
      PROVE  TypeOK'
  <2>1. /\ maintenance' \in {"idle", "rows", "ids", "times", "listen", "pump"}
        /\ pumping' \in BOOLEAN
        /\ pumped' \in {{}, pumped}
        /\ listening' \in {listening, listening \ {table}, listening \cup {table}}
        /\ rows' \in {rows, [rows EXCEPT ![table] = {}]}
        /\ lookupIdTimestamp' \in {lookupIdTimestamp, {}}
        /\ lookupTimestamp' \in {lookupTimestamp, {}}
        /\ untracked' \in {untracked, untracked \cup InProgress, untracked \cup pumped}
        /\ disturbed' = (disturbed \/ scan = "scan")
        /\ UNCHANGED <<sequence, table, value, saveVars, scanVars>>
    BY <1>5 DEF Clear, ClearRows, ClearIds, ClearTimes, AddListener, PumpFails, Disturb,
                storeVars, indexVars
  <2>2. /\ listening' \subseteq Tables /\ lookupIdTimestamp' \subseteq Keys
        /\ lookupTimestamp' \subseteq Keys /\ untracked' \subseteq Keys
        /\ pumped' \subseteq Keys /\ disturbed' \in BOOLEAN
    BY <2>1 DEF InProgress
  <2>3. /\ rows' \in [Tables -> SUBSET Keys]
        /\ \A t \in Tables : rows'[t] \subseteq rows[t]
    BY <2>1
  <2>4. \A j \in (lookupIdTimestamp \cup lookupTimestamp \cup UNION {rows[t] : t \in Tables})' :
          j \in lookupIdTimestamp \cup lookupTimestamp \cup UNION {rows[t] : t \in Tables}
    BY <2>1, <2>3
  <2> QED
    BY <2>1, <2>2, <2>3, <2>4 DEF saveVars, scanVars
<1>6. ASSUME PumpEnd PROVE TypeOK'
  <2>1. /\ table' = table + 1 /\ table + 1 \in Tables
        /\ rows' = [rows EXCEPT ![table + 1] = pumped]
        /\ maintenance' = "idle" /\ pumping' = FALSE /\ pumped' = {}
        /\ untracked' = untracked \cup InProgress
        /\ disturbed' = (disturbed \/ scan = "scan")
        /\ UNCHANGED <<sequence, listening, value, indexVars, saveVars, scanVars>>
    BY <1>6 DEF PumpEnd, Disturb
  <2>2. rows' \in [Tables -> SUBSET Keys] /\ untracked' \subseteq Keys /\ disturbed' \in BOOLEAN
    BY <2>1 DEF InProgress
  <2>3. \A j \in (UNION {rows[t] : t \in Tables})' : j \in pumped \/ j \in UNION {rows[t] : t \in Tables}
    BY <2>1
  <2>4. \A j \in pumped : j \in -sequence..sequence /\ (j < 0 => saving[-j] = "none")
    BY <1>0 DEF Fresh
  <2>5. \A j \in (lookupIdTimestamp \cup lookupTimestamp \cup UNION {rows[t] : t \in Tables})' :
          j \in -sequence'..sequence' /\ (j < 0 => saving'[-j] = "none")
    BY <2>1, <2>3, <2>4 DEF indexVars, saveVars
  <2> QED
    BY <2>1, <2>2, <2>5 DEF indexVars, saveVars, scanVars
<1>7. ASSUME NEW q \in Queries, QueryBegin(q) PROVE TypeOK'
  BY <1>7 DEF QueryBegin, storeVars, indexVars, saveVars, maintenanceVars
<1>8. ASSUME ReadLeaf PROVE TypeOK'
  <2>1. Remaining \subseteq Selected(query)
    BY DEF Remaining
  <2>2. Selected(query) \subseteq Keys
    BY Indexed, QueriesAssumption
  <2>3. leaf' \subseteq Keys
    BY <1>8, <2>1, <2>2 DEF ReadLeaf
  <2> QED
    BY <1>8, <2>3 DEF ReadLeaf, storeVars, indexVars, saveVars, maintenanceVars
<1>9. ASSUME NEW k \in Keys, Emit(k) PROVE TypeOK'
  <2>1. result' \in Seq(Keys) /\ leaf' \subseteq Keys /\ missing' \in BOOLEAN
    BY <1>9 DEF Emit
  <2> QED
    BY <1>9, <2>1 DEF Emit, storeVars, indexVars, saveVars, maintenanceVars
<1>10. ASSUME QueryEnd PROVE TypeOK'
  BY <1>10 DEF QueryEnd, storeVars, indexVars, saveVars, maintenanceVars
<1>11. ASSUME UNCHANGED vars PROVE TypeOK'
  BY <1>11 DEF vars, storeVars, indexVars, saveVars, maintenanceVars, scanVars
<1>12. ASSUME NEW k \in Keys, FilterThrows(k) PROVE TypeOK'
  BY <1>12 DEF FilterThrows, storeVars, indexVars, saveVars, maintenanceVars
<1> QED
  BY <1>1, <1>2, <1>3, <1>4, <1>5, <1>6, <1>7, <1>8, <1>9, <1>10, <1>11, <1>12 DEF Next, Wait
-----------------------------------------------------------------------------
(* Where keys are.                                                         *)
\* A key that was not used yet is in no index, in no table and in no save.
LEMMA Unused ==
  ASSUME TypeOK, NEW k \in Keys, k \notin -sequence..sequence
  PROVE  /\ saving[k] = "none"
         /\ k \notin rows[table] /\ k \notin lookupIdTimestamp /\ k \notin lookupTimestamp
<1>1. sequence \in Nat /\ Keys \subseteq Int
  BY BoundsAssumption DEF TypeOK, Keys
<1>2. saving[k] = "none"
  BY <1>1 DEF TypeOK
<1>3. k \notin lookupIdTimestamp \cup lookupTimestamp \cup UNION {rows[t] : t \in Tables}
  BY DEF TypeOK
<1> QED
  BY <1>2, <1>3 DEF TypeOK

\* What a pump reads has a number that was not used, and the numbers it has read stay new.
LEMMA FreshStep ==
  ASSUME Safety, [Next]_vars
  PROVE  Fresh'
<1> USE DEF Safety, TypeOK, Fresh
<1>0. Keys \subseteq Int /\ sequence \in Nat /\ MaxSequence \in Nat
  BY BoundsAssumption DEF Keys
<1>1. ASSUME NEW p \in Position, Save(p) PROVE Fresh'
  <2> SUFFICES ASSUME NEW k \in pumped
               PROVE  k \in -sequence'..(-1) /\ saving'[-k] = "none"
    BY <1>1 DEF Save, maintenanceVars
  <2>1. k \in -sequence..(-1) /\ saving[-k] = "none" /\ -k \in Keys /\ -k # sequence + 1
    BY <1>0, BoundsAssumption DEF Keys
  <2> QED
    BY <1>0, <1>1, <2>1 DEF Save
<1>2. ASSUME NEW p \in Position, PumpNext(p) PROVE Fresh'
  <2> DEFINE n == -(sequence + 1)
  <2>1. n \in Keys /\ -n \in Keys /\ -n = sequence + 1
    BY <1>0, <1>2, BoundsAssumption DEF PumpNext, Keys
  <2>2. saving[-n] = "none"
    BY <1>0, <2>1
  <2>3. /\ maintenance' = "pump" /\ pumped' = pumped \cup {n}
        /\ saving' = saving /\ sequence' = sequence + 1
    BY <1>2, <2>1 DEF PumpNext, saveVars
  <2> QED
    BY <1>0, <2>1, <2>2, <2>3
<1>3. ASSUME NEW k \in Keys, Put(k) \/ Notify(k) \/ IndexId(k) \/ IndexTime(k) PROVE Fresh'
  <2>1. saving[k] # "none" /\ \E s : saving' = [saving EXCEPT ![k] = s]
    BY <1>3 DEF Put, Notify, IndexId, IndexTime
  <2>2. UNCHANGED <<sequence, maintenance, pumped>>
    BY <1>3 DEF Put, Notify, IndexId, IndexTime, storeVars, maintenanceVars
  <2> SUFFICES ASSUME NEW j \in pumped
               PROVE  j \in -sequence..(-1) /\ saving'[-j] = "none"
    BY <2>2
  <2> QED
    BY <2>1
<1>4. ASSUME Clear(TRUE) \/ Clear(FALSE) PROVE Fresh'
  <2>1. pumped = {} /\ pumped' = {}
    BY <1>4 DEF Clear
  <2> QED
    BY <2>1
<1>5. ASSUME ClearRows \/ ClearIds \/ ClearTimes \/ AddListener \/ PumpEnd \/ PumpFails PROVE Fresh'
  <2>1. pumped' = {}
    BY <1>5 DEF ClearRows, ClearIds, ClearTimes, AddListener, PumpEnd, PumpFails
  <2> QED
    BY <2>1
<1>6. ASSUME \/ \E k \in Keys : Emit(k) \/ FilterThrows(k)
             \/ \E q \in Queries : QueryBegin(q)
             \/ ReadLeaf \/ QueryEnd \/ Wait \/ UNCHANGED vars
      PROVE  Fresh'
  <2>1. UNCHANGED <<sequence, saving, maintenance, pumped>>
    BY <1>6 DEF Emit, FilterThrows, QueryBegin, ReadLeaf, QueryEnd, Wait, vars, storeVars, saveVars, maintenanceVars
  <2> QED
    BY <2>1
<1> QED
  BY <1>1, <1>2, <1>3, <1>4, <1>5, <1>6 DEF Next

\* The listener is off the first table only while that table is cleared.
LEMMA ListenedStep ==
  ASSUME Safety, [Next]_vars
  PROVE  Listened'
<1> USE DEF Safety, TypeOK, Listened
<1>1. ASSUME NEW forPump \in BOOLEAN, Clear(forPump) PROVE Listened'
  BY <1>1 DEF Clear
<1>2. ASSUME ClearRows \/ ClearIds \/ ClearTimes \/ AddListener PROVE Listened'
  BY <1>2 DEF ClearRows, ClearIds, ClearTimes, AddListener, storeVars
<1>3. ASSUME PumpEnd \/ PumpFails \/ \E p \in Position : PumpNext(p) PROVE Listened'
  BY <1>3 DEF PumpEnd, PumpFails, PumpNext, storeVars
<1>4. ASSUME UNCHANGED <<listening, table, maintenance>> PROVE Listened'
  BY <1>4
<1> QED
  BY <1>1, <1>2, <1>3, <1>4
     DEF Next, vars, storeVars, maintenanceVars, Save, Put, Notify, IndexId, IndexTime, Emit, FilterThrows,
         QueryBegin, ReadLeaf, QueryEnd, Wait

\* Saves, a clear and a pump leave each tracked key in its place.
LEMMA TrackedStep ==
  ASSUME Safety, [Next]_vars
  PROVE  Tracked'
<1> USE DEF Safety, TypeOK
<1>0. Keys \subseteq Int /\ sequence \in Nat
  BY BoundsAssumption DEF Keys
<1> SUFFICES ASSUME NEW k \in Keys, k \notin untracked'
             PROVE  Placed(k)'
  BY DEF Tracked
<1>t. k \notin untracked /\ Placed(k)
  BY StaysUntracked DEF Tracked
<1>1. ASSUME NEW p \in Position, Save(p) PROVE Placed(k)'
  <2>1. /\ saving' = [saving EXCEPT ![sequence + 1] = "put"]
        /\ into' = [into EXCEPT ![sequence + 1] = table]
        /\ k = sequence + 1 => maintenance = "idle"
        /\ UNCHANGED <<table, rows, lookupIdTimestamp, lookupTimestamp, maintenance, pumped>>
    BY <1>1 DEF Save, indexVars, maintenanceVars
  <2>2. CASE k = sequence + 1
    <3>1. k \notin rows[table] /\ k \notin lookupIdTimestamp /\ k \notin lookupTimestamp
      BY <1>0, <2>2, Unused
    <3>2. saving'[k] = "put" /\ into'[k] = table
      BY <2>1, <2>2
    <3> QED
      BY <2>1, <2>2, <3>1, <3>2 DEF Placed
  <2>3. CASE k # sequence + 1
    <3>1. saving'[k] = saving[k] /\ into'[k] = into[k]
      BY <2>1, <2>3
    <3> QED
      BY <1>t, <2>1, <3>1 DEF Placed
  <2> QED
    BY <2>2, <2>3
<1>2. ASSUME NEW p \in Position, PumpNext(p) PROVE Placed(k)'
  <2> DEFINE n == -(sequence + 1)
  <2>1. /\ maintenance = "pump"
        /\ pumped' = pumped \cup {n}
        /\ lookupIdTimestamp' = lookupIdTimestamp \cup {n}
        /\ lookupTimestamp' = lookupTimestamp \cup {n}
        /\ UNCHANGED <<table, rows, saving, into, maintenance>>
    BY <1>2 DEF PumpNext, saveVars
  <2>2. k = n => k \notin rows[table] /\ saving[k] = "none"
    BY <1>0, Unused
  <2>3. saving[k] \in {"none", "done"}
    BY <1>t, <2>1 DEF Placed
  <2> QED
    BY <1>t, <2>1, <2>2, <2>3 DEF Placed
<1>3. ASSUME NEW j \in Keys, Put(j) PROVE Placed(k)'
  <2>1. /\ saving[j] = "put"
        /\ rows' = [rows EXCEPT ![into[j]] = @ \cup {j}]
        /\ saving' = [saving EXCEPT ![j] = "notify"]
        /\ UNCHANGED <<table, lookupIdTimestamp, lookupTimestamp, into, maintenance, pumped>>
    BY <1>3 DEF Put, indexVars, maintenanceVars
  <2>2. CASE k = j
    <3>1. into[k] = table /\ maintenance = "idle" /\ saving'[k] = "notify"
      BY <1>t, <2>1, <2>2 DEF Placed
    <3>2. k \in rows'[table]
      BY <2>1, <2>2, <3>1
    <3> QED
      BY <1>t, <2>1, <2>2, <3>1, <3>2 DEF Placed
  <2>3. CASE k # j
    <3>1. saving'[k] = saving[k] /\ (k \in rows'[table] <=> k \in rows[table])
      BY <2>1, <2>3
    <3> QED
      BY <1>t, <2>1, <3>1 DEF Placed
  <2> QED
    BY <2>2, <2>3
<1>4. ASSUME NEW j \in Keys, Notify(j) PROVE Placed(k)'
  <2>1. /\ saving[j] = "notify"
        /\ saving' = [saving EXCEPT ![j] = IF into[j] \in listening THEN "id" ELSE "done"]
        /\ into[j] \in listening \/ into[j] = 1 \/ j \in untracked'
        /\ UNCHANGED <<table, rows, lookupIdTimestamp, lookupTimestamp, into, maintenance, pumped>>
    BY <1>4 DEF Notify, indexVars, maintenanceVars, storeVars
  <2>2. CASE k = j
    <3>1. into[k] = table /\ maintenance = "idle"
      BY <1>t, <2>1, <2>2 DEF Placed
    <3>2. into[k] \in listening
      BY <2>1, <2>2, <3>1 DEF Listened
    <3>3. saving'[k] = "id"
      BY <2>1, <2>2, <3>2
    <3> QED
      BY <1>t, <2>1, <2>2, <3>1, <3>3 DEF Placed
  <2>3. CASE k # j
    <3>1. saving'[k] = saving[k]
      BY <2>1, <2>3
    <3> QED
      BY <1>t, <2>1, <3>1 DEF Placed
  <2> QED
    BY <2>2, <2>3
<1>5. ASSUME NEW j \in Keys, IndexId(j) \/ IndexTime(j) PROVE Placed(k)'
  <2>1. UNCHANGED <<table, rows, into, maintenance, pumped>>
    BY <1>5 DEF IndexId, IndexTime, storeVars, maintenanceVars
  <2>2. CASE k = j
    <3>1. CASE IndexId(j)
      <4>1. /\ saving[k] = "id" /\ saving'[k] = "time"
            /\ k \in lookupIdTimestamp' /\ lookupTimestamp' = lookupTimestamp
        BY <2>2, <3>1 DEF IndexId
      <4> QED
        BY <1>t, <2>1, <4>1 DEF Placed
    <3>2. CASE IndexTime(j)
      <4>1. /\ saving[k] = "time" /\ saving'[k] = "done"
            /\ k \in lookupTimestamp' /\ lookupIdTimestamp' = lookupIdTimestamp
        BY <2>2, <3>2 DEF IndexTime
      <4> QED
        BY <1>t, <2>1, <4>1 DEF Placed
    <3> QED
      BY <1>5, <3>1, <3>2
  <2>3. CASE k # j
    <3>1. /\ saving'[k] = saving[k]
          /\ k \in lookupIdTimestamp' <=> k \in lookupIdTimestamp
          /\ k \in lookupTimestamp' <=> k \in lookupTimestamp
      BY <1>5, <2>3 DEF IndexId, IndexTime
    <3> QED
      BY <1>t, <2>1, <3>1 DEF Placed
  <2> QED
    BY <2>2, <2>3
<1>6. ASSUME NEW forPump \in BOOLEAN, Clear(forPump) PROVE Placed(k)'
  <2>1. /\ maintenance = "idle"
        /\ \/ rows[table] = {} /\ maintenance' = "pump"
           \/ maintenance' = "rows"
        /\ untracked' = untracked \cup InProgress
        /\ UNCHANGED <<table, rows, lookupIdTimestamp, lookupTimestamp, saving, into, pumped>>
    BY <1>6 DEF Clear, indexVars, saveVars
  <2>2. saving[k] \in {"none", "done"}
    BY <2>1 DEF InProgress
  <2>3. pumped = {}
    BY <2>1 DEF Fresh
  <2>4. (k \in rows[table] <=> k \in lookupIdTimestamp) /\ (k \in rows[table] <=> k \in lookupTimestamp)
    BY <1>t, <2>1, <2>2 DEF Placed
  <2>5. CASE rows[table] = {} /\ maintenance' = "pump"
    BY <2>1, <2>2, <2>3, <2>4, <2>5 DEF Placed
  <2>6. CASE maintenance' = "rows"
    BY <2>1, <2>2, <2>4, <2>6 DEF Placed
  <2> QED
    BY <2>1, <2>5, <2>6
<1>7. ASSUME ClearRows \/ ClearIds \/ ClearTimes \/ AddListener PROVE Placed(k)'
  <2>1. maintenance \in {"rows", "ids", "times", "listen"} /\ pumped = {}
    BY <1>7 DEF ClearRows, ClearIds, ClearTimes, AddListener, Fresh
  <2>2. saving[k] \in {"none", "done"}
    BY <1>t, <2>1 DEF Placed
  <2>3. UNCHANGED <<table, saving, into, pumped>>
    BY <1>7 DEF ClearRows, ClearIds, ClearTimes, AddListener, storeVars, saveVars
  <2>4. CASE ClearRows
    <3>1. maintenance = "rows" /\ maintenance' = "ids" /\ rows'[table] = {} /\ UNCHANGED indexVars
      BY <2>4 DEF ClearRows
    <3> QED
      BY <2>2, <2>3, <3>1 DEF Placed, indexVars
  <2>5. CASE ClearIds
    <3>1. /\ maintenance = "ids" /\ maintenance' = "times" /\ rows' = rows
          /\ lookupIdTimestamp' = {} /\ lookupTimestamp' = lookupTimestamp
      BY <2>5 DEF ClearIds, storeVars
    <3> QED
      BY <1>t, <2>2, <2>3, <3>1 DEF Placed
  <2>6. CASE ClearTimes
    <3>1. /\ maintenance = "times" /\ maintenance' = "listen" /\ rows' = rows
          /\ lookupTimestamp' = {} /\ lookupIdTimestamp' = lookupIdTimestamp
      BY <2>6 DEF ClearTimes, storeVars
    <3> QED
      BY <1>t, <2>2, <2>3, <3>1 DEF Placed
  <2>7. CASE AddListener
    <3>1. /\ maintenance = "listen" /\ maintenance' \in {"pump", "idle"} /\ rows' = rows
          /\ lookupTimestamp' = lookupTimestamp /\ lookupIdTimestamp' = lookupIdTimestamp
      BY <2>7 DEF AddListener, indexVars
    <3>2. k \notin rows[table] /\ k \notin lookupIdTimestamp /\ k \notin lookupTimestamp
      BY <1>t, <2>2, <3>1 DEF Placed
    <3> QED
      BY <2>1, <2>2, <2>3, <3>1, <3>2 DEF Placed
  <2> QED
    BY <1>7, <2>4, <2>5, <2>6, <2>7
<1>8. ASSUME PumpEnd PROVE Placed(k)'
  <2>1. /\ maintenance = "pump" /\ maintenance' = "idle"
        /\ table' = table + 1 /\ table + 1 \in Tables
        /\ rows' = [rows EXCEPT ![table + 1] = pumped]
        /\ UNCHANGED <<lookupIdTimestamp, lookupTimestamp, saving, into>>
    BY <1>8 DEF PumpEnd, indexVars, saveVars
  <2>2. saving[k] \in {"none", "done"}
    BY <1>t, <2>1 DEF Placed
  <2>3. rows'[table'] = pumped
    BY <2>1
  <2> QED
    BY <1>t, <2>1, <2>2, <2>3 DEF Placed
<1>9. ASSUME PumpFails PROVE Placed(k)'
  <2>1. /\ maintenance = "pump" /\ maintenance' = "idle" /\ k \notin pumped
        /\ UNCHANGED <<table, rows, lookupIdTimestamp, lookupTimestamp, saving, into>>
    BY <1>9 DEF PumpFails, storeVars, indexVars, saveVars
  <2>2. saving[k] \in {"none", "done"}
    BY <1>t, <2>1 DEF Placed
  <2> QED
    BY <1>t, <2>1, <2>2 DEF Placed
<1>10. ASSUME \/ \E j \in Keys : Emit(j) \/ FilterThrows(j)
              \/ \E q \in Queries : QueryBegin(q)
              \/ ReadLeaf \/ QueryEnd \/ Wait \/ UNCHANGED vars
       PROVE  Placed(k)'
  <2>1. UNCHANGED <<storeVars, indexVars, saveVars, maintenanceVars>>
    BY <1>10 DEF Emit, FilterThrows, QueryBegin, ReadLeaf, QueryEnd, Wait, vars
  <2> QED
    BY <1>t, <2>1 DEF Placed, storeVars, indexVars, saveVars, maintenanceVars
<1> QED
  BY <1>1, <1>2, <1>3, <1>4, <1>5, <1>6, <1>7, <1>8, <1>9, <1>10 DEF Next

\* So the indexes and the table agree whenever no clear or pump is under way.
LEMMA Matches ==
  ASSUME Safety
  PROVE  IndexMatchesTable
<1> SUFFICES ASSUME maintenance = "idle", NEW k \in Keys, k \notin untracked
             PROVE  /\ k \in lookupIdTimestamp \cup lookupTimestamp => k \in rows[table]
                    /\ k \in rows[table] \ InProgress
                         => k \in lookupIdTimestamp \cap lookupTimestamp
  BY DEF IndexMatchesTable
<1>1. saving[k] \in {"none", "put", "notify", "id", "time", "done"}
  BY DEF Safety, TypeOK
<1>2. Placed(k)
  BY DEF Safety, Tracked
<1> QED
  BY <1>1, <1>2 DEF Placed, InProgress
-----------------------------------------------------------------------------
(* The walk of a query.                                                    *)
\* What the iterator has not reached comes after everything it handed out.
LEMMA RemainingIsAhead ==
  ASSUME Safety, scan = "scan"
  PROVE  \A k \in Remaining :
           /\ k \in Selected(query) /\ k \in Keys /\ k \in -sequence..sequence
           /\ \A i \in 1..Len(result) : Before(query, result[i], k)
<1> USE DEF Safety, TypeOK
<1>1. query \in Query /\ value \in [Keys -> Position]
  BY QueriesAssumption
<1> SUFFICES ASSUME NEW k \in Remaining
             PROVE  /\ k \in Selected(query) /\ k \in Keys /\ k \in -sequence..sequence
                    /\ \A i \in 1..Len(result) : Before(query, result[i], k)
  OBVIOUS
<1>2. k \in Selected(query)
  BY DEF Remaining
<1>3. k \in lookupIdTimestamp \cup lookupTimestamp
  BY <1>1, <1>2, Indexed
<1>4. k \in Keys /\ k \in -sequence..sequence
  BY <1>3
<1>5. ASSUME NEW i \in 1..Len(result)
      PROVE  Before(query, result[i], k)
  <2>1. Len(result) \in Nat /\ result # <<>>
    OBVIOUS
  <2>2. Before(query, result[Len(result)], k)
    BY <2>1 DEF Remaining
  <2>3. result[i] \in Keys /\ result[Len(result)] \in Keys
    BY <2>1
  <2>4. i = Len(result) \/ Before(query, result[i], result[Len(result)])
    BY <2>1 DEF Ordered
  <2> QED
    BY <1>1, <1>4, <2>2, <2>3, <2>4, StrictOrder
<1> QED
  BY <1>2, <1>4, <1>5

\* The iterator hands out the entries in the order of the index, whatever is saved,
\* cleared or pumped meanwhile.
LEMMA OrderedStep ==
  ASSUME Safety, [Next]_vars
  PROVE  Ordered'
<1>0. \A k \in Keys : k \in -sequence..sequence => k \in -sequence'..sequence'
  <2>1. TypeOK /\ TypeOK'
    BY TypeStep DEF Safety
  <2>2. sequence <= sequence'
    BY <2>1, Kept
  <2>3. sequence \in Int /\ sequence' \in Int
    BY <2>1, BoundsAssumption DEF TypeOK
  <2>4. Keys \subseteq Int
    BY BoundsAssumption DEF Keys
  <2> QED
    BY <2>2, <2>3, <2>4, Wider
<1> USE DEF Safety, TypeOK
<1>1. ASSUME NEW q \in Queries, QueryBegin(q) PROVE Ordered'
  <2>1. scan' = "scan" /\ leaf' = {} /\ result' = <<>>
    BY <1>1 DEF QueryBegin, Ordered
  <2> QED
    BY <2>1 DEF Ordered
<1>2. ASSUME ReadLeaf PROVE Ordered'
  <2>1. /\ scan = "scan" /\ leaf' \subseteq Remaining
        /\ UNCHANGED <<sequence, value, query, scan, result, missing>>
    BY <1>2 DEF ReadLeaf, storeVars
  <2>2. \A k \in leaf' : /\ k \in -sequence..sequence
                         /\ \A i \in 1..Len(result) : Before(query, result[i], k)
    BY <2>1, RemainingIsAhead
  <2>3. \A i, j : Before(query, i, j)' <=> Before(query, i, j)
    BY <2>1 DEF Before
  <2> HIDE DEF Safety, TypeOK
  <2>4. Ordered
    BY DEF Safety
  <2> QED
    BY <2>1, <2>2, <2>3, <2>4 DEF Ordered
<1>3. ASSUME NEW k \in Keys, Emit(k) PROVE Ordered'
  <2>1. /\ k \in leaf /\ leaf' = leaf \ {k}
        /\ \A j \in leaf' : Before(query, k, j)
        /\ result' = Append(result, k)
        /\ UNCHANGED <<sequence, value, query, scan>>
    BY <1>3 DEF Emit, IsNext, storeVars
  <2>2. /\ Len(result) \in Nat
        /\ Len(result') = Len(result) + 1
        /\ \A i \in 1..Len(result) : result'[i] = result[i]
        /\ result'[Len(result) + 1] = k
    BY <2>1
  <2>3. scan = "scan"
    BY <1>3 DEF Emit
  <2>4. \A i \in 1..Len(result) : Before(query, result[i], k)
    BY <2>1 DEF Ordered
  <2>5. \A i \in 1..Len(result') : result'[i] \in -sequence..sequence
    BY <2>1, <2>2 DEF Ordered
  <2>6. \A i, j \in 1..Len(result') : i < j => Before(query, result'[i], result'[j])
    <3> SUFFICES ASSUME NEW i \in 1..Len(result'), NEW j \in 1..Len(result'), i < j
                 PROVE  Before(query, result'[i], result'[j])
      OBVIOUS
    <3>1. i \in 1..Len(result)
      BY <2>2
    <3>2. CASE j = Len(result) + 1
      BY <2>2, <2>4, <3>1, <3>2
    <3>3. CASE j \in 1..Len(result)
      BY <2>2, <3>1, <3>3 DEF Ordered
    <3> QED
      BY <2>2, <3>2, <3>3
  <2>7. \A i \in 1..Len(result'), j \in leaf' : Before(query, result'[i], j)
    <3> SUFFICES ASSUME NEW i \in 1..Len(result'), NEW j \in leaf'
                 PROVE  Before(query, result'[i], j)
      OBVIOUS
    <3>1. CASE i = Len(result) + 1
      BY <2>1, <2>2, <3>1
    <3>2. CASE i \in 1..Len(result)
      BY <2>1, <2>2, <3>2 DEF Ordered
    <3> QED
      BY <2>2, <3>1, <3>2
  <2>8. \A i, j : Before(query, i, j)' <=> Before(query, i, j)
    BY <2>1 DEF Before
  <2> QED
    BY <2>1, <2>3, <2>5, <2>6, <2>7, <2>8 DEF Ordered
<1>4. ASSUME QueryEnd PROVE Ordered'
  <2>1. leaf' = {} /\ scan' = "done" /\ UNCHANGED <<sequence, value, query, result>>
    BY <1>4 DEF QueryEnd, storeVars
  <2> QED
    BY <2>1 DEF Ordered, Before
<1>6. ASSUME NEW k \in Keys, FilterThrows(k) PROVE Ordered'
  <2>1. /\ scan' = "failed"
        /\ UNCHANGED <<sequence, value, query, leaf, result, missing>>
    BY <1>6 DEF FilterThrows, storeVars
  <2>2. \A i, j : Before(query, i, j)' <=> Before(query, i, j)
    BY <2>1 DEF Before
  <2> HIDE DEF Safety, TypeOK
  <2>3. Ordered
    BY DEF Safety
  <2> QED
    BY <2>1, <2>2, <2>3 DEF Ordered
<1>5. ASSUME UNCHANGED <<query, scan, leaf, result, missing>> PROVE Ordered'
  <2>1. \A i \in 1..Len(result) : result[i] \in Keys /\ result[i] \in -sequence..sequence
    BY DEF Ordered
  <2>2. \A k \in leaf : k \in Keys /\ k \in -sequence..sequence
    BY DEF Ordered
  <2>3. \A i, j \in 1..Len(result) : i < j => Before(query, result[i], result[j])'
    BY <1>5, <2>1, OrderStays DEF Ordered
  <2>4. \A i \in 1..Len(result), k \in leaf : Before(query, result[i], k)'
    BY <1>5, <2>1, <2>2, OrderStays DEF Ordered
  <2> QED
    BY <1>0, <1>5, <2>1, <2>2, <2>3, <2>4 DEF Ordered
<1> QED
  BY <1>1, <1>2, <1>3, <1>4, <1>5, <1>6
     DEF Next, vars, scanVars, Save, PumpNext, Put, Notify, IndexId, IndexTime, Clear,
         ClearRows, ClearIds, ClearTimes, AddListener, PumpEnd, PumpFails, Wait

\* A query still selects an entry it selected, as long as the indexes only grow.
LEMMA StaysSelected ==
  ASSUME NEW q \in Query, NEW k \in Selected(q), value'[k] = value[k],
         lookupIdTimestamp \subseteq lookupIdTimestamp',
         lookupTimestamp \subseteq lookupTimestamp'
  PROVE  k \in Selected(q)'
<1>1. q.kind \in {"vessel", "area", "latest"}
  BY DEF Query
<1>2. CASE q.kind = "vessel"
  BY <1>2 DEF Selected, ApplyPeriod
<1>3. CASE q.kind = "area"
  BY <1>3 DEF Selected, ApplyPeriod
<1>4. CASE q.kind = "latest"
  BY <1>4 DEF Selected, ApplyPeriod
<1> QED
  BY <1>1, <1>2, <1>3, <1>4

\* What is stored when a query sets out is selected by it: both indexes have it.
LEMMA StoredIsSelected ==
  ASSUME Safety, NEW q \in Queries, QueryBegin(q), maintenance = "idle", NEW k \in stored'
  PROVE  k \in Selected(q)
<1>1. q \in Query /\ q.kind \in {"vessel", "area", "latest"}
  BY QueriesAssumption DEF Query
<1>2. /\ k \in rows[table] \ untracked
      /\ k > 0 => saving[k] = "done"
      /\ q.kind = "vessel" => value[k].id = q.id
      /\ q.hasLower \/ q.kind = "latest" => value[k].ts >= q.lower
      /\ q.hasUpper /\ q.kind # "latest" => value[k].ts < q.upper
  BY DEF QueryBegin
<1>3. k \in Keys /\ k \in Int /\ k # 0
  BY <1>2, BoundsAssumption DEF Safety, TypeOK, Keys
<1>4. k \notin InProgress
  BY <1>2, <1>3, BoundsAssumption DEF Safety, TypeOK, InProgress
<1>5. k \in lookupIdTimestamp /\ k \in lookupTimestamp
  BY <1>2, <1>3, <1>4, Matches DEF IndexMatchesTable
<1>6. value[k].ts \in Int /\ q.lower \in Int
  BY <1>1, <1>3, PositionsAssumption DEF Safety, TypeOK, Position, Query
<1>7. CASE q.kind = "vessel"
  BY <1>2, <1>5, <1>6, <1>7 DEF Selected, ApplyPeriod
<1>8. CASE q.kind = "area"
  BY <1>2, <1>5, <1>6, <1>8 DEF Selected, ApplyPeriod
<1>9. CASE q.kind = "latest"
  BY <1>2, <1>5, <1>6, <1>9 DEF Selected
<1> QED
  BY <1>1, <1>7, <1>8, <1>9

\* While nothing disturbs it, the iterator passes by no position that was stored when it
\* set out.
LEMMA CoveredStep ==
  ASSUME Safety, [Next]_vars
  PROVE  Covered'
<1>t. TypeOK /\ TypeOK' /\ Ordered /\ Ordered'
  BY TypeStep, OrderedStep DEF Safety
<1>0. \A k \in Keys : k \in -sequence..sequence => k \in -sequence'..sequence'
  <2>1. sequence <= sequence'
    BY <1>t, Kept
  <2>2. sequence \in Int /\ sequence' \in Int /\ Keys \subseteq Int
    BY <1>t, BoundsAssumption DEF TypeOK, Keys
  <2> QED
    BY <2>1, <2>2, Wider
<1>1. ASSUME NEW q \in Queries, QueryBegin(q) PROVE Covered'
  <2>1. /\ scan' = "scan" /\ query' = q /\ leaf' = {} /\ result' = <<>> /\ ~ missing'
        /\ disturbed' = (maintenance # "idle")
        /\ UNCHANGED <<sequence, value, lookupIdTimestamp, lookupTimestamp, maintenance>>
    BY <1>1, <1>t DEF QueryBegin, Ordered, storeVars, indexVars, maintenanceVars
  <2>2. stored' \subseteq rows[table]
    BY <1>1 DEF QueryBegin
  <2>3. \A k \in stored' : k \in -sequence..sequence
    BY <1>t, <2>2 DEF TypeOK
  <2>4. ASSUME ~ disturbed', NEW k \in stored'
        PROVE  NotPassed(k)'
    <3>1. k \in Selected(q)
      BY <1>1, <2>1, <2>4, StoredIsSelected
    <3>2. k \in Selected(q)'
      BY <2>1, <3>1 DEF Selected, ApplyPeriod
    <3> QED
      BY <2>1, <3>2 DEF NotPassed
  <2> QED
    BY <2>1, <2>3, <2>4 DEF Covered
<1>2. ASSUME ReadLeaf PROVE Covered'
  <2>1. /\ scan = "scan" /\ leaf = {} /\ leaf' \subseteq Remaining
        /\ \A j \in leaf', k \in Remaining \ leaf' : Before(query, j, k)
        /\ UNCHANGED <<sequence, table, rows, value, lookupIdTimestamp, lookupTimestamp,
                       maintenance, query, scan, result, missing, stored, untracked, disturbed>>
    BY <1>2 DEF ReadLeaf, storeVars, indexVars, maintenanceVars
  <2>2. \A i, j : Before(query, i, j)' <=> Before(query, i, j)
    BY <2>1 DEF Before
  <2>3. Selected(query)' = Selected(query)
    BY <2>1 DEF Selected, ApplyPeriod
  <2>4. ASSUME ~ disturbed, NEW k \in stored, NotPassed(k)
        PROVE  k \in leaf' \/ NotPassed(k)'
    <3>1. result \in Seq(Keys)
      BY <1>t DEF TypeOK
    <3>2. k \in Remaining
      BY <2>4, <3>1 DEF Remaining, NotPassed
    <3> QED
      BY <2>1, <2>2, <2>3, <2>4, <3>2 DEF NotPassed
  <2>5. ASSUME ~ disturbed, NEW k \in leaf'
        PROVE  k \in untracked \/ k \in rows[table]
    <3>1. k \in Keys /\ k \in Selected(query)
      BY <2>1, RemainingIsAhead
    <3>2. k \in lookupIdTimestamp \cup lookupTimestamp
      BY <1>t, <3>1, Indexed, QueriesAssumption DEF TypeOK
    <3>3. maintenance = "idle"
      BY <2>1, <2>5 DEF Safety, Covered
    <3> QED
      BY <3>1, <3>2, <3>3, Matches DEF IndexMatchesTable
  <2> QED
    BY <2>1, <2>4, <2>5 DEF Safety, Covered, Handed
<1>3. ASSUME NEW e \in Keys, Emit(e) PROVE Covered'
  <2>1. /\ e \in leaf /\ leaf' = leaf \ {e}
        /\ \A j \in leaf' : Before(query, e, j)
        /\ result' = Append(result, e)
        /\ missing' = (missing \/ e \notin rows[table])
        /\ UNCHANGED <<sequence, table, rows, value, lookupIdTimestamp, lookupTimestamp,
                       maintenance, query, scan, stored, untracked, disturbed>>
    BY <1>3 DEF Emit, IsNext, storeVars, indexVars, maintenanceVars
  <2>s. scan = "scan"
    BY <1>3 DEF Emit
  <2>2. /\ Len(result) \in Nat
        /\ Len(result') = Len(result) + 1
        /\ \A i \in 1..Len(result) : result'[i] = result[i]
        /\ result'[Len(result) + 1] = e
    BY <1>t, <2>1 DEF TypeOK
  <2>3. \A i, j : Before(query, i, j)' <=> Before(query, i, j)
    BY <2>1 DEF Before
  <2>4. Selected(query)' = Selected(query)
    BY <2>1 DEF Selected, ApplyPeriod
  <2>5. \A k : Handed(k)' <=> Handed(k) \/ k = e
    BY <2>2 DEF Handed
  <2>6. ASSUME NEW k \in stored, NotPassed(k)
        PROVE  NotPassed(k)'
    <3>1. Before(query, e, k)
      BY <2>1, <2>6 DEF NotPassed
    <3>2. \A i \in 1..Len(result') : Before(query, result'[i], k)
      <4> SUFFICES ASSUME NEW i \in 1..Len(result')
                   PROVE  Before(query, result'[i], k)
        OBVIOUS
      <4>1. CASE i \in 1..Len(result)
        BY <2>2, <2>6, <4>1 DEF NotPassed
      <4>2. CASE i = Len(result) + 1
        BY <2>2, <3>1, <4>2
      <4> QED
        BY <2>2, <4>1, <4>2
    <3>3. \A j \in leaf' : Before(query, j, k)
      BY <2>1, <2>6 DEF NotPassed
    <3> QED
      BY <2>1, <2>3, <2>4, <2>6, <3>2, <3>3 DEF NotPassed
  <2>7. ASSUME ~ disturbed, missing'
        PROVE  \E i \in 1..Len(result') : result'[i] \in untracked
    <3>1. CASE missing
      <4>1. PICK i \in 1..Len(result) : result[i] \in untracked
        BY <2>7, <3>1 DEF Safety, Covered
      <4> QED
        BY <2>2, <4>1
    <3>2. CASE e \notin rows[table]
      <4>2. e \in untracked
        BY <2>1, <2>s, <2>7, <3>2 DEF Safety, Covered
      <4> QED
        BY <2>2, <4>2
    <3> QED
      BY <2>1, <2>7, <3>1, <3>2
  <2> QED
    BY <2>1, <2>s, <2>5, <2>6, <2>7 DEF Safety, Covered
<1>7. ASSUME NEW e \in Keys, FilterThrows(e) PROVE Covered'
  <2>1. /\ scan = "scan" /\ scan' = "failed" /\ e \notin rows[table]
        /\ e \in leaf /\ \A j \in leaf \ {e} : Before(query, e, j)
        /\ UNCHANGED <<sequence, table, rows, value, query, leaf, result, missing, stored,
                       untracked, disturbed>>
    BY <1>7 DEF FilterThrows, IsNext, storeVars
  <2>2. \A i, j : Before(query, i, j)' <=> Before(query, i, j)
    BY <2>1 DEF Before
  <2>3. \A k : Handed(k)' <=> Handed(k)
    BY <2>1 DEF Handed
  <2>4. ASSUME ~ disturbed, NEW k \in stored, Before(query, k, e)
        PROVE  Handed(k)
    <3>1. ~ Before(query, e, k) /\ k # e
      <4>1. k \in Keys /\ e \in Keys /\ query \in Query /\ value \in [Keys -> Position]
        BY <1>t, QueriesAssumption DEF TypeOK
      <4> QED
        BY <2>4, <4>1, StrictOrder
    <3>2. ~ NotPassed(k)
      BY <2>1, <3>1 DEF NotPassed
    <3>3. k \notin leaf
      BY <2>1, <3>1
    <3> QED
      BY <2>1, <2>4, <3>2, <3>3 DEF Safety, Covered
  <2>5. ~ disturbed => e \in untracked
    BY <2>1 DEF Safety, Covered
  <2>6. ~ disturbed' => \E d \in leaf' \cap untracked' :
                          \A k \in stored' : Before(query, k, d)' => Handed(k)'
    BY <2>1, <2>2, <2>3, <2>4, <2>5
  <2> QED
    BY <2>1, <2>6 DEF Safety, Covered
<1>4. ASSUME QueryEnd PROVE Covered'
  <2>1. /\ scan = "scan" /\ leaf = {} /\ Remaining = {} /\ scan' = "done"
        /\ UNCHANGED <<sequence, leaf, result, missing, stored, untracked, disturbed>>
    BY <1>4 DEF QueryEnd, storeVars
  <2>2. \A k : ~ NotPassed(k)
    <3> SUFFICES ASSUME NEW k, NotPassed(k)
                 PROVE  FALSE
      OBVIOUS
    <3>1. result \in Seq(Keys)
      BY <1>t DEF TypeOK
    <3>2. k \in Remaining
      BY <3>1 DEF Remaining, NotPassed
    <3> QED
      BY <2>1, <3>2
  <2> QED
    BY <2>1, <2>2 DEF Safety, Covered, Handed
<1>5. ASSUME UNCHANGED scanVars, disturbed => disturbed' PROVE Covered'
  <2>1. UNCHANGED <<query, scan, leaf, result, missing, stored>>
    BY <1>5 DEF scanVars
  <2>2. \A k \in stored : k \in Keys /\ k \in -sequence..sequence
    BY <1>t DEF Safety, Covered, TypeOK
  <2>3. \A k : Handed(k)' <=> Handed(k)
    BY <2>1 DEF Handed
  <2>4. ASSUME scan = "scan", ~ disturbed', NEW k \in stored, NotPassed(k)
        PROVE  NotPassed(k)'
    <3>1. k \in Selected(query)'
      <4>1. value'[k] = value[k]
        BY <1>t, <2>2, Kept
      <4>2. /\ lookupIdTimestamp \subseteq lookupIdTimestamp'
            /\ lookupTimestamp \subseteq lookupTimestamp'
        BY <1>t, <2>4, Undisturbed
      <4>3. query \in Query /\ k \in Selected(query)
        BY <1>t, <2>4, QueriesAssumption DEF NotPassed, TypeOK
      <4>4. PICK q \in Query : q = query
        BY <4>3
      <4>5. k \in Selected(q)'
        BY <4>1, <4>2, <4>3, <4>4, StaysSelected
      <4>6. query' = q
        BY <2>1, <4>4
      <4> QED
        BY <4>5, <4>6 DEF Selected
    <3>2. \A j \in leaf : Before(query, j, k)'
      BY <1>t, <2>1, <2>2, <2>4, OrderStays DEF NotPassed, Ordered, TypeOK
    <3>3. \A i \in 1..Len(result) : Before(query, result[i], k)'
      <4>1. \A i \in 1..Len(result) : result[i] \in Keys /\ result[i] \in -sequence..sequence
        BY <1>t DEF TypeOK, Ordered
      <4> QED
        BY <1>t, <2>1, <2>2, <2>4, <4>1, OrderStays DEF NotPassed
    <3> QED
      BY <2>1, <3>1, <3>2, <3>3 DEF NotPassed
  <2>5. ASSUME scan = "scan", ~ disturbed'
        PROVE  /\ maintenance' = "idle"
               /\ \A k \in leaf : k \in untracked' \/ k \in rows'[table']
    <3>1. /\ ~ disturbed /\ maintenance' = maintenance
          /\ rows[table] \subseteq rows'[table']
      BY <1>t, <2>5, Undisturbed
    <3> QED
      BY <2>5, <3>1, StaysUntracked DEF Safety, Covered
  <2>6. \A k \in stored' : k \in -sequence'..sequence'
    BY <1>0, <2>1, <2>2
  <2>7. ASSUME ~ disturbed', scan # "failed", NEW k \in stored'
        PROVE  Handed(k)' \/ k \in leaf' \/ (scan' = "scan" /\ NotPassed(k)')
    BY <1>5, <2>1, <2>3, <2>4, <2>7 DEF Safety, Covered
  <2>8. ASSUME ~ disturbed', missing'
        PROVE  \E i \in 1..Len(result') : result'[i] \in untracked'
    BY <1>5, <2>1, <2>8, StaysUntracked DEF Safety, Covered
  <2>9. ASSUME ~ disturbed', scan = "failed"
        PROVE  \E e \in leaf' \cap untracked' :
                 \A k \in stored' : Before(query, k, e)' => Handed(k)'
    <3>1. PICK e \in leaf \cap untracked : \A k \in stored : Before(query, k, e) => Handed(k)
      BY <1>5, <2>9 DEF Safety, Covered
    <3>2. e \in Keys /\ e \in -sequence..sequence
      BY <1>t DEF TypeOK, Ordered
    <3>3. \A k \in stored : Before(query, k, e)' => Before(query, k, e)
      BY <1>t, <2>1, <2>2, <3>2, OrderStays
    <3> QED
      BY <2>1, <2>3, <3>1, <3>3, StaysUntracked
  <2> QED
    BY <2>1, <2>5, <2>6, <2>7, <2>8, <2>9 DEF Covered
<1>6. CASE \/ \E p \in Position : Save(p) \/ PumpNext(p)
           \/ \E k \in Keys : Put(k) \/ Notify(k) \/ IndexId(k) \/ IndexTime(k)
           \/ \E forPump \in BOOLEAN : Clear(forPump)
           \/ ClearRows \/ ClearIds \/ ClearTimes \/ AddListener
           \/ PumpEnd \/ PumpFails \/ Wait \/ UNCHANGED vars
  <2>1. UNCHANGED scanVars
    BY <1>6 DEF Save, PumpNext, Put, Notify, IndexId, IndexTime, Clear, ClearRows,
                ClearIds, ClearTimes, AddListener, PumpEnd, PumpFails, Wait, vars
  <2>2. disturbed' = disturbed \/ Disturb
    BY <1>6 DEF Save, PumpNext, Put, Notify, IndexId, IndexTime, Clear, ClearRows,
                ClearIds, ClearTimes, AddListener, PumpEnd, PumpFails, Wait, vars
  <2> QED
    BY <1>5, <2>1, <2>2 DEF Disturb
<1> QED
  BY <1>1, <1>2, <1>3, <1>4, <1>6, <1>7 DEF Next
-----------------------------------------------------------------------------
(* The theorems.                                                           *)
\* init deletes the file: nothing is stored, no number is used.
LEMMA SafetyInit == Init => Safety
<1> SUFFICES ASSUME Init
             PROVE  Safety
  OBVIOUS
<1> USE DEF Init
<1>1. Position # {}
  <2>1. PICK i \in Ids, t \in Timestamps : TRUE
    BY PositionsAssumption
  <2>2. [id |-> i, ts |-> t] \in Position
    BY <2>1 DEF Position
  <2> QED
    BY <2>2
<1>2. (CHOOSE p \in Position : TRUE) \in Position
  BY <1>1
<1>3. (CHOOSE q \in Queries : TRUE) \in Queries
  BY QueriesAssumption
<1>4. 1 \in Tables /\ 0 \in 0..MaxSequence
  BY BoundsAssumption DEF Tables
<1>5. TypeOK
  <2>1. value \in [Keys -> Position] /\ query \in Queries
    BY <1>2, <1>3
  <2>2. /\ sequence \in 0..MaxSequence /\ table \in Tables /\ listening \subseteq Tables
        /\ saving \in [Keys -> {"none", "put", "notify", "id", "time", "done"}]
        /\ into \in [Keys -> Tables]
        /\ rows \in [Tables -> SUBSET Keys]
    BY <1>4
  <2>3. lookupIdTimestamp \cup lookupTimestamp \cup UNION {rows[t] : t \in Tables} = {}
    OBVIOUS
  <2>4. \A k \in Keys : saving[k] = "none"
    OBVIOUS
  <2>5. /\ lookupIdTimestamp \subseteq Keys /\ lookupTimestamp \subseteq Keys
        /\ maintenance \in {"idle", "rows", "ids", "times", "listen", "pump"}
        /\ pumping \in BOOLEAN /\ pumped \subseteq Keys
        /\ scan \in {"idle", "scan", "done", "failed"}
        /\ leaf \subseteq Keys /\ missing \in BOOLEAN
        /\ untracked \subseteq Keys /\ stored \subseteq Keys /\ disturbed \in BOOLEAN
    OBVIOUS
  <2>6. result \in Seq(Keys)
    OBVIOUS
  <2> HIDE DEF Init
  <2> QED
    BY <2>1, <2>2, <2>3, <2>4, <2>5, <2>6 DEF TypeOK
<1>6. Fresh /\ Listened
  BY DEF Fresh, Listened
<1>7. Tracked
  BY <1>4 DEF Tracked, Placed
<1>8. Ordered /\ Covered
  BY DEF Ordered, Covered
<1> QED
  BY <1>5, <1>6, <1>7, <1>8 DEF Safety

\* Every step keeps it.
LEMMA SafetyNext == Safety /\ [Next]_vars => Safety'
BY TypeStep, FreshStep, ListenedStep, TrackedStep, OrderedStep, CoveredStep DEF Safety

\* The inductive invariant holds.
LEMMA StoreSafety == Spec => []Safety
<1> QED
  BY SafetyInit, SafetyNext, PTL DEF Spec

\* The types hold, and a number of the sequence is used once, for a row of a save or for a
\* row of a pump.
THEOREM StoreTypeCorrect == Spec => []TypeOK
<1>1. Safety => TypeOK
  BY DEF Safety
<1> QED
  BY <1>1, StoreSafety, PTL

\* The indexes and the table agree whenever no clear or pump is under way, except for the
\* saves that overlapped one and what a failed pump read (lines 103-151).
THEOREM StoreIndexMatchesTable == Spec => []IndexMatchesTable
<1>1. Safety => IndexMatchesTable
  BY Matches
<1> QED
  BY <1>1, StoreSafety, PTL

\* A query that no clear or pump disturbs finds every position of its period whose save
\* returned before it began, none twice, and hands out no null; an area query that dies of
\* one has handed out what comes before it (lines 153-163, 190-228, 247-252).
THEOREM StoreQueryAnswers == Spec => []QueryAnswers
<1>1. Safety => QueryAnswers
  <2> SUFFICES ASSUME Safety, scan = "done", ~ disturbed
               PROVE  /\ \A k \in stored : Handed(k)
                      /\ \A i, j \in 1..Len(result) : i # j => result[i] # result[j]
                      /\ missing => \E i \in 1..Len(result) : result[i] \in untracked
    BY DEF QueryAnswers, Safety, Covered
  <2>1. leaf = {}
    BY DEF Safety, Ordered
  <2>2. \A k \in stored : Handed(k)
    BY <2>1 DEF Safety, Covered
  <2>3. ASSUME NEW i \in 1..Len(result), NEW j \in 1..Len(result), i < j
        PROVE  result[i] # result[j]
    <3>1. Before(query, result[i], result[j])
      BY <2>3 DEF Safety, Ordered
    <3>2. result[i] \in Keys
      BY DEF Safety, TypeOK
    <3> QED
      BY <3>1, <3>2, StrictOrder, QueriesAssumption DEF Safety, TypeOK
  <2>4. \A i, j \in 1..Len(result) : i # j => result[i] # result[j]
    <3> SUFFICES ASSUME NEW i \in 1..Len(result), NEW j \in 1..Len(result), i # j
                 PROVE  result[i] # result[j]
      OBVIOUS
    <3>1. i < j \/ j < i
      OBVIOUS
    <3> QED
      BY <2>3, <3>1
  <2> QED
    BY <2>2, <2>4 DEF Safety, Covered, Handed
<1> QED
  BY <1>1, StoreSafety, PTL

\* queryLatest is decreasing by timestamp, whatever is saved, cleared or pumped meanwhile
\* (DefaultPositionStore documents it at line 24).
THEOREM StoreLatestIsDecreasing == Spec => []LatestIsDecreasing
<1>1. Safety => LatestIsDecreasing
  <2> SUFFICES ASSUME Safety, query.kind = "latest",
                      NEW i \in 1..Len(result), NEW j \in 1..Len(result), i < j
               PROVE  value[result[i]].ts >= value[result[j]].ts
    BY DEF LatestIsDecreasing
  <2>1. Before(query, result[i], result[j])
    BY DEF Safety, Ordered
  <2>2. result[i] \in Keys /\ result[j] \in Keys
    BY DEF Safety, TypeOK
  <2>3. value[result[i]].ts \in Int /\ value[result[j]].ts \in Int
    BY <2>2, PositionsAssumption DEF Safety, TypeOK, Position
  <2> QED
    BY <2>1, <2>3 DEF Before
<1> QED
  BY <1>1, StoreSafety, PTL
=============================================================================
