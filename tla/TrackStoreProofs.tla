-------------------------- MODULE TrackStoreProofs --------------------------
(***************************************************************************)
(* The stores of identities, positions and tracks, for any kinds, vessels, *)
(* identifiers, changes of identifier and reports: a range map has one     *)
(* value at an instant, the two position stores answer alike, a track is   *)
(* exact, and the live layer files a report under its vessel.              *)
(***************************************************************************)
EXTENDS TrackStore, FiniteSetTheorems, FunctionTheorems, SequenceTheorems, TLAPS

(* The inductive invariant.  A range map: its entries are not empty, and   *)
(* no two of them hold the same instant.                                   *)
RangeMap(map, values) ==
  /\ map \subseteq [lower : Int, upper : Int, value : values]
  /\ \A e \in map : e.lower < e.upper
  /\ \A e, f \in map, t \in Int : Contains(e, t) /\ Contains(f, t) => e = f

Typed ==
  /\ changes \in [Kinds -> [Vessels -> -1..ChangeCount]]
  /\ lastChange \in [Kinds -> [Vessels -> Instants]]
  /\ positions \in Seq([kind : Kinds, id : Ids, ts : Instants, vessel : Vessels])
  /\ vesselToId \in [Kinds -> [Vessels -> SUBSET [lower : Int, upper : Int, value : Ids]]]
  /\ idToVessel \in [Kinds -> [Ids -> SUBSET [lower : Int, upper : Int, value : Vessels]]]

Owners(i) == {v \in Vessels : i \in IdsOf(v)}

\* A vessel has identifiers of its own, and an identifier leads to its owner.
Own ==
  \A k \in Kinds :
    /\ \A v \in Vessels : RangeMap(vesselToId[k][v], IdsOf(v))
    /\ \A i \in Ids : RangeMap(idToVessel[k][i], Owners(i))

\* An identifier a vessel ever has leads to a vessel at the end of time.
LedTo ==
  \A k \in Kinds, v \in Vessels : \A e \in vesselToId[k][v] :
    \E f \in idToVessel[k][e.value] : Contains(f, MaxTime)

\* A report is under the identifier the vessel has at its date, and no identifier changes
\* once there is a report.
Reported ==
  /\ positions # <<>> => Generated
  /\ \A n \in 1..Len(positions) :
       positions[n].id \in ValuesAt(vesselToId[positions[n].kind][positions[n].vessel],
                                    positions[n].ts)

Safety == Typed /\ Own /\ LedTo /\ Reported
-----------------------------------------------------------------------------
(* Range maps.                                                             *)
Interval == {p \in [lower : Int, upper : Int] : p.lower < p.upper}

\* What lies of an entry before a period, and after it.
Before(f, period) == Entry(f.lower, MinOf(f.upper, period.lower), f.value)
After(f, period) == Entry(MaxOf(f.lower, period.upper), f.upper, f.value)

\* What put leaves in the map: the new entry, and of the old ones what lies before the
\* period or after it.
LEMMA PutEntries ==
  ASSUME NEW values, NEW map, RangeMap(map, values), NEW period \in Interval,
         NEW x \in values, NEW e \in Put(map, period, x)
  PROVE  /\ e \in [lower : Int, upper : Int, value : values] /\ e.lower < e.upper
         /\ \/ e = Entry(period.lower, period.upper, x)
            \/ \E f \in map : e = Before(f, period) \/ e = After(f, period)
<1> USE DEF RangeMap, Interval, Entry
<1>0. \A f \in map : f.lower \in Int /\ f.upper \in Int /\ f.value \in values
  OBVIOUS
<1>1. /\ period.lower \in Int /\ period.upper \in Int
  OBVIOUS
<1>2. e.lower < e.upper
  BY DEF Put, NonEmpty
<1>3. \/ e = Entry(period.lower, period.upper, x)
      \/ \E f \in map : e = Before(f, period) \/ e = After(f, period)
  BY DEF Put, NonEmpty, Before, After
<1>4. \A f \in map : /\ Before(f, period) \in [lower : Int, upper : Int, value : values]
                     /\ After(f, period) \in [lower : Int, upper : Int, value : values]
  BY <1>0, <1>1 DEF Before, After, MinOf, MaxOf
<1> QED
  BY <1>1, <1>2, <1>3, <1>4

\* What lies of an entry before or after a period is in the entry and not in the period.
LEMMA Pieces ==
  ASSUME NEW f, f.lower \in Int, f.upper \in Int, NEW period \in Interval, NEW t \in Int
  PROVE  /\ Contains(Before(f, period), t) <=> Contains(f, t) /\ t < period.lower
         /\ Contains(After(f, period), t) <=> Contains(f, t) /\ period.upper <= t
BY DEF Before, After, MinOf, MaxOf, Contains, Entry, Interval

\* put makes a range map of a range map.
LEMMA PutRangeMap ==
  ASSUME NEW values, NEW map, RangeMap(map, values), NEW period \in Interval, NEW x \in values
  PROVE  RangeMap(Put(map, period, x), values)
<1> DEFINE new == Entry(period.lower, period.upper, x)
<1>1. ASSUME NEW e \in Put(map, period, x)
      PROVE  /\ e \in [lower : Int, upper : Int, value : values]
             /\ e.lower < e.upper
  BY <1>1, PutEntries
<1>2. /\ period.lower \in Int /\ period.upper \in Int /\ period.lower < period.upper
  BY DEF Interval
<1>3. \A f \in map : f.lower \in Int /\ f.upper \in Int
  BY DEF RangeMap
<1>4. ASSUME NEW e \in Put(map, period, x), NEW t \in Int, Contains(e, t)
      PROVE  \/ e = new /\ period.lower <= t /\ t < period.upper
             \/ \E f \in map : Contains(f, t) /\ e = Before(f, period) /\ t < period.lower
             \/ \E f \in map : Contains(f, t) /\ e = After(f, period) /\ period.upper <= t
  <2>1. CASE e = new
    BY <1>4, <2>1 DEF Contains, Entry
  <2>2. ASSUME NEW f \in map, e = Before(f, period) \/ e = After(f, period)
        PROVE  \/ Contains(f, t) /\ e = Before(f, period) /\ t < period.lower
               \/ Contains(f, t) /\ e = After(f, period) /\ period.upper <= t
    BY <1>3, <1>4, <2>2, Pieces
  <2> QED
    BY <2>1, <2>2, PutEntries
<1>5. ASSUME NEW e \in Put(map, period, x), NEW f \in Put(map, period, x), NEW t \in Int,
             Contains(e, t), Contains(f, t)
      PROVE  e = f
  <2>1. \A a, b \in map : Contains(a, t) /\ Contains(b, t) => a = b
    BY DEF RangeMap
  <2>2. CASE t < period.lower
    BY <1>2, <1>4, <1>5, <2>1, <2>2
  <2>3. CASE period.lower <= t /\ t < period.upper
    BY <1>2, <1>4, <1>5, <2>3
  <2>4. CASE period.upper <= t
    BY <1>2, <1>4, <1>5, <2>1, <2>4
  <2> QED
    BY <1>2, <2>2, <2>3, <2>4
<1> QED
  BY <1>1, <1>5 DEF RangeMap
-----------------------------------------------------------------------------
(* The identity stores.                                                    *)
\* An identity that lasts to the end of time keeps both maps in order: the vessel has
\* identifiers of its own, and each leads to it.
LEMMA IdentityStep ==
  ASSUME Typed, Own, LedTo, NEW k \in Kinds, NEW v \in Vessels, NEW period \in Interval,
         Contains(period, MaxTime), NEW i \in IdsOf(v), SetIdentity(k, v, period, i)
  PROVE  /\ vesselToId' \in [Kinds -> [Vessels -> SUBSET [lower : Int, upper : Int, value : Ids]]]
         /\ idToVessel' \in [Kinds -> [Ids -> SUBSET [lower : Int, upper : Int, value : Vessels]]]
         /\ Own' /\ LedTo'
<1> DEFINE ids == Put(vesselToId[k][v], period, i)
           vessels == Put(idToVessel[k][i], period, v)
<1>1. i \in Ids /\ v \in Owners(i) /\ Owners(i) \subseteq Vessels /\ IdsOf(v) \subseteq Ids
  BY IdsAssumption DEF Owners
<1>2. /\ vesselToId' = [vesselToId EXCEPT ![k][v] = ids]
      /\ idToVessel' = [idToVessel EXCEPT ![k][i] = vessels]
  BY DEF SetIdentity
<1>3. RangeMap(ids, IdsOf(v)) /\ RangeMap(vessels, Owners(i))
  BY <1>1, PutRangeMap DEF Own
<1>4. /\ ids \in SUBSET [lower : Int, upper : Int, value : Ids]
      /\ vessels \in SUBSET [lower : Int, upper : Int, value : Vessels]
  BY <1>1, <1>3 DEF RangeMap
<1> HIDE DEF ids, vessels
<1>5. vesselToId' \in [Kinds -> [Vessels -> SUBSET [lower : Int, upper : Int, value : Ids]]]
  BY <1>2, <1>4 DEF Typed
<1>6. idToVessel' \in [Kinds -> [Ids -> SUBSET [lower : Int, upper : Int, value : Vessels]]]
  BY <1>2, <1>4 DEF Typed
<1>7. /\ vesselToId'[k][v] = ids
      /\ \A l \in Kinds, w \in Vessels : <<l, w>> # <<k, v>> => vesselToId'[l][w] = vesselToId[l][w]
  BY <1>2 DEF Typed
<1>8. /\ idToVessel'[k][i] = vessels
      /\ \A l \in Kinds, j \in Ids : <<l, j>> # <<k, i>> => idToVessel'[l][j] = idToVessel[l][j]
  BY <1>1, <1>2 DEF Typed
<1>9. ASSUME NEW l \in Kinds, NEW w \in Vessels
      PROVE  RangeMap(vesselToId'[l][w], IdsOf(w))
  <2>1. CASE l = k /\ w = v
    BY <1>3, <1>7, <2>1
  <2>2. CASE <<l, w>> # <<k, v>>
    BY <1>7, <2>2 DEF Own
  <2> QED
    BY <2>1, <2>2
<1>10. ASSUME NEW l \in Kinds, NEW j \in Ids
       PROVE  RangeMap(idToVessel'[l][j], Owners(j))
  <2>1. CASE l = k /\ j = i
    BY <1>3, <1>8, <2>1
  <2>2. CASE <<l, j>> # <<k, i>>
    BY <1>8, <2>2 DEF Own
  <2> QED
    BY <2>1, <2>2
<1>11. \E f \in vessels : Contains(f, MaxTime)
  <2>1. Entry(period.lower, period.upper, v) \in vessels
    BY DEF vessels, Put, NonEmpty, Entry, Interval
  <2> QED
    BY <2>1 DEF Contains, Entry
<1>12. ASSUME NEW l \in Kinds, NEW w \in Vessels, NEW e \in vesselToId'[l][w]
       PROVE  \E f \in idToVessel'[l][e.value] : Contains(f, MaxTime)
  <2>1. e.value \in Ids
    BY <1>5, <1>12
  <2>2. CASE l = k /\ e.value = i
    BY <1>8, <1>11, <2>2
  <2>3. CASE <<l, e.value>> # <<k, i>>
    <3>1. idToVessel'[l][e.value] = idToVessel[l][e.value]
      BY <1>8, <2>1, <2>3
    <3>2. CASE l = k /\ w = v
      <4>1. e \in Put(vesselToId[k][v], period, i)
        BY <1>7, <1>12, <3>2 DEF ids
      <4>2. e # Entry(period.lower, period.upper, i)
        BY <2>3, <3>2 DEF Entry
      <4>3. RangeMap(vesselToId[k][v], IdsOf(v))
        BY DEF Own
      <4>4. PICK f \in vesselToId[k][v] : e = Before(f, period) \/ e = After(f, period)
        BY <4>1, <4>2, <4>3, PutEntries
      <4>5. e.value = f.value
        BY <4>4 DEF Before, After, Entry
      <4> QED
        BY <3>1, <3>2, <4>4, <4>5 DEF LedTo
    <3>3. CASE <<l, w>> # <<k, v>>
      BY <1>7, <1>12, <3>1, <3>3 DEF LedTo
    <3> QED
      BY <3>2, <3>3
  <2> QED
    BY <2>2, <2>3
<1> QED
  BY <1>5, <1>6, <1>9, <1>10, <1>12 DEF Own, LedTo

\* Types, maps and reports, from one step to the next.
LEMMA SafetyNext == Safety /\ [Next]_vars => Safety'
<1> SUFFICES ASSUME Safety, [Next]_vars
             PROVE  Safety'
  OBVIOUS
<1>0. /\ Typed /\ Own /\ LedTo /\ Reported
  BY DEF Safety
<1>b. MaxTime \in Nat \ {0} /\ MaxTime \in Instants /\ ChangeCount \in Nat
  BY BoundsAssumption DEF Instants
<1>1. ASSUME NEW k \in Kinds, NEW v \in Vessels, ~ Generated, positions' = positions,
             NEW period \in Interval, Contains(period, MaxTime),
             NEW i \in IdsOf(v), SetIdentity(k, v, period, i),
             changes' \in [Kinds -> [Vessels -> -1..ChangeCount]],
             lastChange' \in [Kinds -> [Vessels -> Instants]]
      PROVE  Safety'
  <2>1. positions = <<>>
    BY <1>0, <1>1 DEF Reported
  <2>2. Reported'
    BY <1>1, <2>1 DEF Reported
  <2> QED
    BY <1>0, <1>1, <2>2, IdentityStep DEF Safety, Typed
<1>2. ASSUME NEW k \in Kinds, NEW v \in Vessels, NEW i \in Ids, GenerateFirst(k, v, i)
      PROVE  Safety'
  <2>1. All \in Interval /\ Contains(All, MaxTime)
    BY <1>b DEF All, Interval, NoLower, NoUpper, Contains
  <2>2. ~ Generated
    BY <1>2, <1>b DEF GenerateFirst, Generated
  <2>3. changes' \in [Kinds -> [Vessels -> -1..ChangeCount]] /\ lastChange' = lastChange
    BY <1>0, <1>2, <1>b DEF GenerateFirst, Typed
  <2> QED
    BY <1>0, <1>1, <1>2, <2>1, <2>2, <2>3 DEF GenerateFirst, Typed
<1>3. ASSUME NEW k \in Kinds, NEW v \in Vessels, NEW i \in Ids, NEW date \in Instants,
             GenerateChange(k, v, date, i)
      PROVE  Safety'
  <2>1. AtLeast(date) \in Interval /\ Contains(AtLeast(date), MaxTime)
    BY <1>b DEF AtLeast, Interval, NoUpper, Contains, Instants
  <2>2. ~ Generated
    BY <1>3, <1>b DEF GenerateChange, Generated
  <2>3. changes[k][v] + 1 \in -1..ChangeCount
    BY <1>3, <1>b DEF GenerateChange
  <2>4. changes' \in [Kinds -> [Vessels -> -1..ChangeCount]]
    BY <1>0, <1>3, <2>3 DEF GenerateChange, Typed
  <2>5. lastChange' \in [Kinds -> [Vessels -> Instants]]
    BY <1>0, <1>3 DEF GenerateChange, Typed
  <2> QED
    BY <1>1, <1>3, <2>1, <2>2, <2>4, <2>5 DEF GenerateChange
<1>4. ASSUME NEW k \in Kinds, NEW v \in Vessels, NEW t \in Instants, Report(k, v, t)
      PROVE  Safety'
  <2>1. /\ Generated
        /\ UNCHANGED <<vesselToId, idToVessel, changes, lastChange>>
    BY <1>4 DEF Report
  <2>2. PICK i \in ValuesAt(vesselToId[k][v], t) :
          positions' = Append(positions, [kind |-> k, id |-> i, ts |-> t, vessel |-> v])
    BY <1>4 DEF Report
  <2>3. i \in Ids
    BY <1>0 DEF ValuesAt, Typed
  <2> DEFINE p == [kind |-> k, id |-> i, ts |-> t, vessel |-> v]
  <2>4. p \in [kind : Kinds, id : Ids, ts : Instants, vessel : Vessels]
    BY <2>3
  <2>5. Typed'
    BY <1>0, <2>1, <2>2, <2>4 DEF Typed
  <2>6. /\ Len(positions) \in Nat /\ Len(positions') = Len(positions) + 1
        /\ \A n \in 1..Len(positions) : positions'[n] = positions[n]
        /\ positions'[Len(positions) + 1] = p
    BY <1>0, <2>2, <2>4 DEF Typed
  <2>7. ASSUME NEW n \in 1..Len(positions')
        PROVE  positions'[n].id \in ValuesAt(vesselToId[positions'[n].kind][positions'[n].vessel],
                                             positions'[n].ts)
    <3>1. CASE n \in 1..Len(positions)
      BY <1>0, <2>6, <3>1 DEF Reported
    <3>2. CASE n = Len(positions) + 1
      BY <2>2, <2>6, <3>2
    <3> QED
      BY <2>6, <3>1, <3>2
  <2>8. Reported'
    BY <2>1, <2>7 DEF Reported, Generated, ValuesAt
  <2> QED
    BY <1>0, <2>1, <2>5, <2>8 DEF Safety, Own, LedTo
<1>5. ASSUME UNCHANGED vars
      PROVE  Safety'
  BY <1>0, <1>5 DEF vars, Safety, Typed, Own, LedTo, Reported, Generated, ValuesAt
<1> QED
  BY <1>2, <1>3, <1>4, <1>5 DEF Next, Wait

\* Before the identity generator runs, the maps are empty.
LEMMA SafetyInit == Init => Safety
<1> SUFFICES ASSUME Init
             PROVE  Safety
  OBVIOUS
<1>1. 1 \in Instants /\ -1 \in -1..ChangeCount
  BY BoundsAssumption DEF Instants
<1>2. positions = <<>>
  BY DEF Init
<1>3. Typed
  <2>1. positions \in Seq([kind : Kinds, id : Ids, ts : Instants, vessel : Vessels])
    BY <1>2
  <2> QED
    BY <1>1, <2>1 DEF Init, Typed
<1>4. Own /\ LedTo
  BY DEF Init, Own, LedTo, RangeMap
<1>5. Reported
  BY <1>2 DEF Reported
<1> QED
  BY <1>3, <1>4, <1>5 DEF Safety

\* The inductive invariant holds.
LEMMA StoreSafety == Spec => []Safety
<1> QED
  BY SafetyInit, SafetyNext, PTL DEF Spec
-----------------------------------------------------------------------------
(* The cuts of the indexes.                                                *)
\* Among arrays of numbers a prefix sorts before what it is a prefix of.
LEMMA SortedTriples ==
  ASSUME NEW a \in Int, NEW b \in Int, NEW c \in Int, NEW i \in Int, NEW t \in Int
  PROVE  /\ Sorted(<<i>>, <<a, b, c>>) <=> i <= a
         /\ Sorted(<<i, t>>, <<a, b, c>>) <=> i < a \/ (i = a /\ t <= b)
         /\ Sorted(<<a, b, c>>, <<i, t>>) <=> a < i \/ (a = i /\ b < t)
         /\ <<a, b, c>> # <<i>> /\ <<a, b, c>> # <<i, t>>
<1> DEFINE e == <<a, b, c>>
<1>1. /\ Len(e) = 3 /\ e[1] = a /\ e[2] = b /\ e[3] = c
      /\ Len(<<i>>) = 1 /\ <<i>>[1] = i
      /\ Len(<<i, t>>) = 2 /\ <<i, t>>[1] = i /\ <<i, t>>[2] = t
  OBVIOUS
<1>2. /\ 1..3 = {1, 2, 3} /\ 1..2 = {1, 2}
      /\ 1..(1 - 1) = {} /\ 1..(2 - 1) = {1} /\ 1..(3 - 1) = {1, 2}
  OBVIOUS
<1>3. e # <<i>> /\ e # <<i, t>>
  BY <1>1
<1> HIDE DEF e
<1>4. Sorted(<<i>>, e) <=> i <= a
  BY <1>1, <1>2 DEF Sorted
<1>5. Sorted(<<i, t>>, e) <=> i < a \/ (i = a /\ t <= b)
  BY <1>1, <1>2 DEF Sorted
<1>6. Sorted(e, <<i, t>>) <=> a < i \/ (a = i /\ b < t)
  BY <1>1, <1>2 DEF Sorted
<1> QED
  BY <1>3, <1>4, <1>5, <1>6 DEF e

\* The same in the index by timestamp.
LEMMA SortedPairs ==
  ASSUME NEW b \in Int, NEW c \in Int, NEW t \in Int
  PROVE  /\ Sorted(<<t>>, <<b, c>>) <=> t <= b
         /\ Sorted(<<b, c>>, <<t>>) <=> b < t
         /\ <<b, c>> # <<t>>
<1> DEFINE e == <<b, c>>
<1>1. /\ Len(e) = 2 /\ e[1] = b /\ e[2] = c
      /\ Len(<<t>>) = 1 /\ <<t>>[1] = t
  OBVIOUS
<1>2. /\ 1..2 = {1, 2} /\ 1..1 = {1}
      /\ 1..(1 - 1) = {} /\ 1..(2 - 1) = {1}
  OBVIOUS
<1>3. e # <<t>>
  BY <1>1
<1> HIDE DEF e
<1>4. Sorted(<<t>>, e) <=> t <= b
  BY <1>1, <1>2 DEF Sorted
<1>5. Sorted(e, <<t>>) <=> b < t
  BY <1>1, <1>2 DEF Sorted
<1> QED
  BY <1>3, <1>4, <1>5 DEF e

\* A key that cuts an index: the prefix, and the date.
LEMMA Prefixes ==
  /\ \A t : Append(<<>>, t) = <<t>>
  /\ \A i, t : Append(<<i>>, t) = <<i, t>> /\ <<i>> # <<>>
<1>1. \A t : Append(<<>>, t) = <<t>>
  OBVIOUS
<1>2. ASSUME NEW i, NEW t
      PROVE  Append(<<i>>, t) = <<i, t>>
  <2> DEFINE appended == Append(<<i>>, t)
             pair == <<i, t>>
  <2>1. /\ <<i>> \in Seq({i, t}) /\ Len(<<i>>) = 1 /\ <<i>>[1] = i
        /\ pair \in Seq({i, t}) /\ Len(pair) = 2 /\ pair[1] = i /\ pair[2] = t
    OBVIOUS
  <2>2. /\ appended \in Seq({i, t}) /\ Len(appended) = 2 /\ appended[1] = i /\ appended[2] = t
    BY <2>1
  <2> HIDE DEF appended, pair
  <2>3. \A n \in 1..2 : appended[n] = pair[n]
    BY <2>1, <2>2
  <2> QED
    BY <2>1, <2>2, <2>3, SeqEqual DEF appended, pair
<1>3. \A i : <<i>> # <<>>
  OBVIOUS
<1> QED
  BY <1>1, <1>2, <1>3

\* The numbers in the positions of a kind.
LEMMA Reports ==
  ASSUME Typed, NEW k, NEW n \in OfKind(k)
  PROVE  /\ n \in 1..Len(positions) /\ n \in Int
         /\ positions[n].id \in Ids /\ positions[n].id \in Int
         /\ positions[n].ts \in Instants /\ positions[n].ts \in Int
         /\ NoLower < positions[n].ts /\ positions[n].ts < NoUpper
         /\ positions[n].ts < LongMax
<1>1. n \in 1..Len(positions) /\ n \in Int
  BY DEF OfKind, Typed
<1>2. positions \in Seq([kind : Kinds, id : Ids, ts : Instants, vessel : Vessels])
  BY DEF Typed
<1>3. positions[n] \in [kind : Kinds, id : Ids, ts : Instants, vessel : Vessels]
  BY <1>1, <1>2, ElementOfSeq
<1>4. positions[n].id \in Ids /\ positions[n].id \in Int
  BY <1>3, IdsAssumption
<1>5. positions[n].ts \in Instants
  BY <1>3
<1>6. \A t \in Instants : t \in Int /\ NoLower < t /\ t < NoUpper /\ t < LongMax
  BY BoundsAssumption DEF Instants, NoLower, NoUpper, LongMax
<1> QED
  BY <1>1, <1>4, <1>5, <1>6

\* queryVessel of MapdbPositionStore: the cuts find what the filters find, for any bounds.
LEMMA VesselCuts ==
  ASSUME Typed, NEW k \in Kinds, NEW i \in Ids, NEW period, period.lower \in Int, period.upper \in Int
  PROVE  MapdbQueryVessel(k, i, period) = MemoryQueryVessel(k, i, period)
<1> DEFINE entry(n) == <<positions[n].id, positions[n].ts, n>>
           index == LookupIdTimestamp(k)
           source == TailSet(index, <<i>>)
           tail == IF period.lower # NoLower THEN TailSet(source, <<i, period.lower>>) ELSE source
           cut == ApplyPeriod(source, period, <<i>>)
<1>0. i \in Int /\ LongMax \in Int
  BY IdsAssumption, BoundsAssumption DEF LongMax
<1>1. \A n \in OfKind(k) : entry(n) \in source <=> i <= positions[n].id
  BY <1>0, Reports, SortedTriples DEF TailSet, LookupIdTimestamp
<1>2. \A n \in OfKind(k) :
        entry(n) \in tail <=> \/ i < positions[n].id
                              \/ i = positions[n].id /\ period.lower <= positions[n].ts
  <2> TAKE n \in OfKind(k)
  <2>1. CASE period.lower # NoLower
    BY <1>0, <1>1, <2>1, Reports, SortedTriples DEF TailSet
  <2>2. CASE period.lower = NoLower
    BY <1>0, <1>1, <2>2, Reports
  <2> QED
    BY <2>1, <2>2
<1>3. /\ Append(<<i>>, period.lower) = <<i, period.lower>>
      /\ Append(<<i>>, period.upper) = <<i, period.upper>>
      /\ Append(<<i>>, LongMax) = <<i, LongMax>>
      /\ <<i>> # <<>>
  BY Prefixes
<1>4. cut = IF period.upper # NoUpper THEN HeadSet(tail, <<i, period.upper>>, FALSE)
            ELSE HeadSet(tail, <<i, LongMax>>, TRUE)
  BY <1>3 DEF ApplyPeriod
<1> HIDE DEF source, tail, cut
<1>5. \A n \in OfKind(k) :
        entry(n) \in cut <=> positions[n].id = i /\ Contains(period, positions[n].ts)
  <2> TAKE n \in OfKind(k)
  <2>3. /\ n \in Int /\ positions[n].id \in Int /\ positions[n].ts \in Int
        /\ positions[n].ts < NoUpper /\ positions[n].ts < LongMax
    BY Reports
  <2>4. ASSUME NEW t \in Int
        PROVE  /\ Sorted(entry(n), <<i, t>>) <=>
                    (positions[n].id < i \/ (positions[n].id = i /\ positions[n].ts < t))
               /\ entry(n) # <<i, t>>
    <3> DEFINE a == positions[n].id
               b == positions[n].ts
    <3>1. a \in Int /\ b \in Int /\ n \in Int /\ i \in Int
      BY <1>0, <2>3
    <3> HIDE DEF a, b
    <3>2. /\ Sorted(<<a, b, n>>, <<i, t>>) <=> (a < i \/ (a = i /\ b < t))
          /\ <<a, b, n>> # <<i, t>>
      BY <2>4, <3>1, SortedTriples, Zenon
    <3> QED
      BY <3>2 DEF a, b
  <2>1. CASE period.upper # NoUpper
    <3>1. entry(n) \in cut <=> /\ entry(n) \in tail
                               /\ \/ positions[n].id < i
                                  \/ positions[n].id = i /\ positions[n].ts < period.upper
      BY <1>0, <1>4, <2>1, <2>4 DEF HeadSet
    <3> QED
      BY <1>0, <1>2, <2>3, <3>1 DEF Contains
  <2>2. CASE period.upper = NoUpper
    <3>1. entry(n) \in cut <=> /\ entry(n) \in tail
                               /\ \/ positions[n].id < i
                                  \/ positions[n].id = i /\ positions[n].ts < LongMax
      BY <1>0, <1>4, <2>2, <2>4 DEF HeadSet
    <3> QED
      BY <1>0, <1>2, <2>2, <2>3, <3>1 DEF Contains
  <2> QED
    BY <2>1, <2>2
<1>6. \A e \in cut : \E n \in OfKind(k) : e = entry(n)
  BY <1>4 DEF HeadSet, tail, source, TailSet, LookupIdTimestamp
<1>7. \A n : entry(n)[3] = n
  OBVIOUS
<1>8. MapdbQueryVessel(k, i, period) = {e[3] : e \in cut}
  BY DEF MapdbQueryVessel, cut, source
<1>9. ASSUME NEW n
      PROVE  n \in {e[3] : e \in cut} <=> n \in MemoryQueryVessel(k, i, period)
  <2>1. ASSUME NEW e \in cut, n = e[3]
        PROVE  n \in OfKind(k) /\ entry(n) \in cut
    BY <1>6, <1>7, <2>1
  <2>2. n \in {e[3] : e \in cut} <=> n \in OfKind(k) /\ entry(n) \in cut
    BY <1>7, <2>1
  <2> QED
    BY <1>5, <2>2 DEF MemoryQueryVessel
<1> QED
  BY <1>8, <1>9

\* queryArea: the same, in the index by timestamp.
LEMMA AreaCuts ==
  ASSUME Typed, NEW k \in Kinds, NEW period, period.lower \in Int, period.upper \in Int
  PROVE  MapdbQueryArea(k, period) = MemoryQueryArea(k, period)
<1> DEFINE entry(n) == <<positions[n].ts, n>>
           index == LookupTimestamp(k)
           cut == ApplyPeriod(index, period, <<>>)
<1>1. \A n \in OfKind(k) : entry(n) \in index
  BY DEF LookupTimestamp
<1>2. Append(<<>>, period.lower) = <<period.lower>> /\ Append(<<>>, period.upper) = <<period.upper>>
  BY Prefixes
<1> DEFINE tail == IF period.lower # NoLower THEN TailSet(index, <<period.lower>>) ELSE index
<1>3. cut = IF period.upper # NoUpper THEN HeadSet(tail, <<period.upper>>, FALSE) ELSE tail
  BY <1>2 DEF ApplyPeriod
<1>4. \A e \in index : \E n \in OfKind(k) : e = entry(n)
  BY DEF LookupTimestamp
<1>5. \A e \in cut : \E n \in OfKind(k) : e = entry(n)
  BY <1>3, <1>4 DEF HeadSet, TailSet
<1> HIDE DEF index, cut
<1>6. ASSUME NEW n \in OfKind(k)
      PROVE  entry(n) \in cut <=> Contains(period, positions[n].ts)
  <2> DEFINE b == positions[n].ts
  <2>1. /\ n \in Int /\ b \in Int /\ NoLower < b /\ b < NoUpper
    BY Reports
  <2>2. entry(n) = <<b, n>>
    OBVIOUS
  <2> HIDE DEF b, entry
  <2>3. ASSUME NEW t \in Int
        PROVE  /\ Sorted(<<t>>, <<b, n>>) <=> t <= b
               /\ Sorted(<<b, n>>, <<t>>) <=> b < t
               /\ <<b, n>> # <<t>>
    BY <2>1, SortedPairs, Zenon
  <2>4. entry(n) \in tail <=> period.lower <= b
    <3>1. CASE period.lower # NoLower
      BY <1>1, <2>2, <2>3, <3>1 DEF TailSet
    <3>2. CASE period.lower = NoLower
      BY <1>1, <2>1, <3>2
    <3> QED
      BY <3>1, <3>2
  <2>5. entry(n) \in cut <=> period.lower <= b /\ b < period.upper
    <3>1. CASE period.upper # NoUpper
      BY <1>3, <2>2, <2>3, <2>4, <3>1 DEF HeadSet
    <3>2. CASE period.upper = NoUpper
      BY <1>3, <2>1, <2>4, <3>2
    <3> QED
      BY <3>1, <3>2
  <2> QED
    BY <2>5 DEF Contains, b
<1>7. MapdbQueryArea(k, period) = {e[2] : e \in cut}
  BY DEF MapdbQueryArea, cut, index
<1>8. ASSUME NEW n
      PROVE  n \in {e[2] : e \in cut} <=> n \in MemoryQueryArea(k, period)
  <2>1. ASSUME NEW e \in cut, n = e[2]
        PROVE  n \in OfKind(k) /\ entry(n) \in cut
    BY <1>5, <2>1
  <2>2. n \in {e[2] : e \in cut} <=> n \in OfKind(k) /\ entry(n) \in cut
    BY <2>1
  <2> QED
    BY <1>6, <2>2 DEF MemoryQueryArea
<1> QED
  BY <1>7, <1>8

\* queryLatest has the lower bound alone.
LEMMA LatestCuts ==
  ASSUME Typed, NEW k \in Kinds, NEW from \in Int
  PROVE  MapdbQueryLatest(k, from) = MemoryQueryLatest(k, from)
<1> DEFINE entry(n) == <<positions[n].ts, n>>
           cut == TailSet(LookupTimestamp(k), <<from>>)
<1>1. \A n \in OfKind(k) : entry(n) \in LookupTimestamp(k)
  BY DEF LookupTimestamp
<1>2. \A e \in cut : \E n \in OfKind(k) : e = entry(n)
  BY DEF LookupTimestamp, TailSet
<1>3. ASSUME NEW n \in OfKind(k)
      PROVE  entry(n) \in cut <=> ~ positions[n].ts < from
  <2> DEFINE b == positions[n].ts
  <2>1. n \in Int /\ b \in Int
    BY Reports
  <2>2. entry(n) = <<b, n>>
    OBVIOUS
  <2> HIDE DEF b, entry
  <2>3. (Sorted(<<from>>, <<b, n>>) <=> from <= b) /\ <<b, n>> # <<from>>
    BY <2>1, SortedPairs, Zenon
  <2>4. entry(n) \in cut <=> ~ b < from
    BY <1>1, <2>1, <2>2, <2>3 DEF TailSet
  <2> QED
    BY <2>4 DEF b
<1> HIDE DEF cut
<1>4. MapdbQueryLatest(k, from) = {e[2] : e \in cut}
  BY DEF MapdbQueryLatest, cut
<1>5. ASSUME NEW n
      PROVE  n \in {e[2] : e \in cut} <=> n \in MemoryQueryLatest(k, from)
  <2>1. ASSUME NEW e \in cut, n = e[2]
        PROVE  n \in OfKind(k) /\ entry(n) \in cut
    BY <1>2, <2>1
  <2>2. n \in {e[2] : e \in cut} <=> n \in OfKind(k) /\ entry(n) \in cut
    BY <2>1
  <2> QED
    BY <1>3, <2>2 DEF MemoryQueryLatest
<1> QED
  BY <1>4, <1>5
-----------------------------------------------------------------------------
(* Tracks.                                                                 *)
Clip(f, period) ==
  Entry(MaxOf(f.lower, period.lower), MinOf(f.upper, period.upper), f.value)

\* An entry of the sub range map is what an entry of the map has of the period.
LEMMA Clips ==
  ASSUME NEW values, NEW map, RangeMap(map, values), NEW period,
         period.lower \in Int, period.upper \in Int
  PROVE  /\ \A e \in SubRangeMap(map, period) :
              /\ e.lower \in Int /\ e.upper \in Int
              /\ \E f \in map : e = Clip(f, period)
         /\ \A f \in map, t \in Int :
              /\ Contains(Clip(f, period), t) <=> Contains(f, t) /\ Contains(period, t)
              /\ Contains(f, t) /\ Contains(period, t) => Clip(f, period) \in SubRangeMap(map, period)
<1>1. \A f \in map : f.lower \in Int /\ f.upper \in Int
  BY DEF RangeMap
<1>2. \A f \in map : /\ Clip(f, period).lower \in Int /\ Clip(f, period).upper \in Int
                     /\ Clip(f, period).lower = MaxOf(f.lower, period.lower)
                     /\ Clip(f, period).upper = MinOf(f.upper, period.upper)
                     /\ Clip(f, period).value = f.value
  BY <1>1 DEF Clip, Entry, MaxOf, MinOf
<1>3. SubRangeMap(map, period) = {e \in {Clip(f, period) : f \in map} : e.lower < e.upper}
  BY DEF SubRangeMap, NonEmpty, Clip
<1>4. \A e \in SubRangeMap(map, period) :
        e.lower \in Int /\ e.upper \in Int /\ \E f \in map : e = Clip(f, period)
  BY <1>2, <1>3
<1>5. ASSUME NEW f \in map, NEW t \in Int
      PROVE  Contains(Clip(f, period), t) <=> Contains(f, t) /\ Contains(period, t)
  BY <1>1, <1>2 DEF Contains, MaxOf, MinOf
<1>6. ASSUME NEW f \in map, NEW t \in Int, Contains(f, t), Contains(period, t)
      PROVE  Clip(f, period) \in SubRangeMap(map, period)
  <2>1. Contains(Clip(f, period), t)
    BY <1>5, <1>6
  <2>2. Clip(f, period).lower < Clip(f, period).upper
    BY <1>2, <2>1 DEF Contains
  <2> QED
    BY <1>3, <2>2
<1> QED
  BY <1>4, <1>5, <1>6

\* The elements of a track: a report of a kind, and the entry of the identities of the
\* vessel that led to it.
LEMMA TrackElements ==
  ASSUME Safety, NEW v \in Vessels, NEW period, period.lower \in Int, period.upper \in Int,
         NEW element
  PROVE  element \in QueryTrack(v, period) <=>
           \E k \in Kinds : \E f \in vesselToId[k][v] : \E n \in OfKind(k) :
             /\ element = <<k, Clip(f, period), n>>
             /\ positions[n].id = f.value
             /\ Contains(f, positions[n].ts) /\ Contains(period, positions[n].ts)
<1> DEFINE found(k, e) == MapdbQueryVessel(k, e.value, [lower |-> e.lower, upper |-> e.upper])
<1>1. QueryTrack(v, period) =
        UNION {UNION {{<<k, e, n>> : n \in found(k, e)} :
                        e \in SubRangeMap(vesselToId[k][v], period)} : k \in Kinds}
  BY DEF QueryTrack
<1>2. element \in QueryTrack(v, period) <=>
        \E k \in Kinds : \E e \in SubRangeMap(vesselToId[k][v], period) : \E n \in found(k, e) :
          element = <<k, e, n>>
  BY <1>1
<1>3. ASSUME NEW k \in Kinds
      PROVE  RangeMap(vesselToId[k][v], IdsOf(v))
  BY DEF Safety, Own
<1>4. ASSUME NEW k \in Kinds, NEW f \in vesselToId[k][v], Clip(f, period) \in SubRangeMap(vesselToId[k][v], period),
             NEW n
      PROVE  n \in found(k, Clip(f, period)) <=>
               /\ n \in OfKind(k) /\ positions[n].id = f.value
               /\ Contains(f, positions[n].ts) /\ Contains(period, positions[n].ts)
  <2> DEFINE e == Clip(f, period)
             clipped == [lower |-> e.lower, upper |-> e.upper]
  <2>1. f.value \in Ids /\ e.value = f.value
    BY DEF Safety, Typed, Clip, Entry
  <2>2. e.lower \in Int /\ e.upper \in Int
    BY <1>3, <1>4, Clips
  <2>3. clipped.lower = e.lower /\ clipped.upper = e.upper
    OBVIOUS
  <2> HIDE DEF e, clipped
  <2>4. MapdbQueryVessel(k, f.value, clipped) = MemoryQueryVessel(k, f.value, clipped)
    BY <2>1, <2>2, <2>3, VesselCuts DEF Safety
  <2>5. \A t : Contains(clipped, t) <=> Contains(e, t)
    BY <2>3 DEF Contains
  <2>6. n \in found(k, e) <=> n \in OfKind(k) /\ positions[n].id = f.value /\ Contains(e, positions[n].ts)
    BY <2>1, <2>4, <2>5 DEF MemoryQueryVessel, clipped
  <2>7. n \in OfKind(k) => (Contains(e, positions[n].ts) <=>
                              Contains(f, positions[n].ts) /\ Contains(period, positions[n].ts))
    BY <1>3, Clips, Reports DEF e, Safety
  <2> QED
    BY <2>6, <2>7 DEF e
<1> HIDE DEF found
<1>5. ASSUME element \in QueryTrack(v, period)
      PROVE  \E k \in Kinds : \E f \in vesselToId[k][v] : \E n \in OfKind(k) :
               /\ element = <<k, Clip(f, period), n>>
               /\ positions[n].id = f.value
               /\ Contains(f, positions[n].ts) /\ Contains(period, positions[n].ts)
  <2>1. PICK k \in Kinds : \E e \in SubRangeMap(vesselToId[k][v], period) : \E n \in found(k, e) :
          element = <<k, e, n>>
    BY <1>2, <1>5
  <2>2. PICK e \in SubRangeMap(vesselToId[k][v], period) : \E n \in found(k, e) :
          element = <<k, e, n>>
    BY <2>1
  <2>3. PICK n \in found(k, e) : element = <<k, e, n>>
    BY <2>2
  <2>4. PICK f \in vesselToId[k][v] : e = Clip(f, period)
    BY <1>3, Clips
  <2> QED
    BY <1>4, <2>3, <2>4
<1>6. ASSUME NEW k \in Kinds, NEW f \in vesselToId[k][v], NEW n \in OfKind(k),
             element = <<k, Clip(f, period), n>>,
             positions[n].id = f.value,
             Contains(f, positions[n].ts), Contains(period, positions[n].ts)
      PROVE  element \in QueryTrack(v, period)
  <2>1. Clip(f, period) \in SubRangeMap(vesselToId[k][v], period)
    BY <1>3, <1>6, Clips, Reports DEF Safety
  <2>2. n \in found(k, Clip(f, period))
    BY <1>4, <1>6, <2>1
  <2> QED
    BY <1>2, <1>6, <2>1, <2>2
<1> QED
  BY <1>5, <1>6

\* A report lies under one entry of the identities of the vessel that made it, and under
\* none of another vessel.
LEMMA ReportedUnder ==
  ASSUME Safety, NEW n \in 1..Len(positions)
  PROVE  /\ positions[n].kind \in Kinds /\ positions[n].vessel \in Vessels
         /\ positions[n].id \in Ids /\ positions[n].ts \in Int
         /\ n \in OfKind(positions[n].kind)
         /\ \E f \in vesselToId[positions[n].kind][positions[n].vessel] :
              f.value = positions[n].id /\ Contains(f, positions[n].ts)
         /\ \A v \in Vessels : positions[n].id \in IdsOf(v) => v = positions[n].vessel
<1>1. positions \in Seq([kind : Kinds, id : Ids, ts : Instants, vessel : Vessels])
  BY DEF Safety, Typed
<1>2. positions[n] \in [kind : Kinds, id : Ids, ts : Instants, vessel : Vessels]
  BY <1>1, ElementOfSeq
<1>3. n \in OfKind(positions[n].kind)
  BY DEF OfKind
<1>4. positions[n].ts \in Int
  BY <1>3, Reports DEF Safety
<1>5. PICK f \in vesselToId[positions[n].kind][positions[n].vessel] :
        f.value = positions[n].id /\ Contains(f, positions[n].ts)
  BY DEF Safety, Reported, ValuesAt
<1>6. positions[n].id \in IdsOf(positions[n].vessel)
  BY <1>2, <1>5 DEF Safety, Own, RangeMap
<1> QED
  BY <1>2, <1>3, <1>4, <1>5, <1>6, IdsAssumption

\* The live layer asks for the vessel an identifier leads to at the end of time: it is
\* the one that reports under it.
LEMMA OwnerIsFound ==
  ASSUME Safety
  PROVE  LatestVesselIsReporter
<1> SUFFICES ASSUME NEW n \in 1..Len(positions)
             PROVE  GetLatestVessel(positions[n].kind, positions[n].id) = {positions[n].vessel}
  BY DEF LatestVesselIsReporter
<1> DEFINE k == positions[n].kind
           v == positions[n].vessel
           i == positions[n].id
<1>1. /\ k \in Kinds /\ v \in Vessels /\ i \in Ids
      /\ \A w \in Vessels : i \in IdsOf(w) => w = v
  BY ReportedUnder
<1>2. PICK f \in vesselToId[k][v] : f.value = i
  BY ReportedUnder
<1> HIDE DEF k, v, i
<1>3. PICK g \in idToVessel[k][i] : Contains(g, MaxTime)
  BY <1>1, <1>2 DEF Safety, LedTo
<1>4. \A e \in idToVessel[k][i] : e.value \in Owners(i)
  BY <1>1 DEF Safety, Own, RangeMap
<1>5. \A w \in Owners(i) : w = v
  BY <1>1 DEF Owners
<1>6. ValuesAt(idToVessel[k][i], MaxTime) = {v}
  BY <1>3, <1>4, <1>5 DEF ValuesAt
<1> QED
  BY <1>6 DEF GetLatestVessel, k, v, i

\* The track of a vessel over a period is in bijection with the reports it made in it.
LEMMA Exact ==
  ASSUME Safety, NEW v \in Vessels, NEW period, period.lower \in Int, period.upper \in Int
  PROVE  LET track == QueryTrack(v, period)
             made == {n \in 1..Len(positions) :
                        positions[n].vessel = v /\ Contains(period, positions[n].ts)}
         IN  /\ {element[3] : element \in track} = made
             /\ Cardinality(track) = Cardinality(made)
<1> DEFINE track == QueryTrack(v, period)
           made == {n \in 1..Len(positions) :
                      positions[n].vessel = v /\ Contains(period, positions[n].ts)}
  \* What is in the track was reported by the vessel.
<1>1. ASSUME NEW element \in track
      PROVE  \E k \in Kinds : \E f \in vesselToId[k][v] : \E n \in made :
               /\ element = <<k, Clip(f, period), n>> /\ k = positions[n].kind
               /\ Contains(f, positions[n].ts)
  <2>1. PICK k \in Kinds : \E f \in vesselToId[k][v] : \E n \in OfKind(k) :
          /\ element = <<k, Clip(f, period), n>>
          /\ positions[n].id = f.value
          /\ Contains(f, positions[n].ts) /\ Contains(period, positions[n].ts)
    BY TrackElements
  <2>2. PICK f \in vesselToId[k][v], n \in OfKind(k) :
          /\ element = <<k, Clip(f, period), n>>
          /\ positions[n].id = f.value
          /\ Contains(f, positions[n].ts) /\ Contains(period, positions[n].ts)
    BY <2>1
  <2>3. n \in 1..Len(positions) /\ positions[n].kind = k
    BY DEF OfKind
  <2>4. positions[n].id \in IdsOf(v)
    BY <2>2 DEF Safety, Own, RangeMap
  <2>5. positions[n].vessel = v
    BY <2>3, <2>4, ReportedUnder
  <2> QED
    BY <2>2, <2>3, <2>5
  \* What the vessel reported is in the track.
<1>2. ASSUME NEW n \in made
      PROVE  \E element \in track : element[3] = n
  <2>1. n \in 1..Len(positions) /\ positions[n].vessel = v /\ Contains(period, positions[n].ts)
    OBVIOUS
  <2> DEFINE k == positions[n].kind
  <2>2. /\ k \in Kinds /\ n \in OfKind(k)
        /\ \E f \in vesselToId[k][v] : f.value = positions[n].id /\ Contains(f, positions[n].ts)
    BY <2>1, ReportedUnder
  <2>3. PICK f \in vesselToId[k][v] : f.value = positions[n].id /\ Contains(f, positions[n].ts)
    BY <2>2
  <2> HIDE DEF k
  <2>4. <<k, Clip(f, period), n>> \in track
    BY <2>1, <2>2, <2>3, TrackElements
  <2> QED
    BY <2>4
  \* Each report once: its kind and its date determine the entry.
<1>3. ASSUME NEW a \in track, NEW b \in track, a[3] = b[3]
      PROVE  a = b
  <2>1. PICK k \in Kinds : \E f \in vesselToId[k][v] : \E n \in made :
          a = <<k, Clip(f, period), n>> /\ k = positions[n].kind /\ Contains(f, positions[n].ts)
    BY <1>1
  <2>2. PICK f \in vesselToId[k][v], n \in made :
          a = <<k, Clip(f, period), n>> /\ k = positions[n].kind /\ Contains(f, positions[n].ts)
    BY <2>1
  <2>3. PICK l \in Kinds : \E g \in vesselToId[l][v] : \E m \in made :
          b = <<l, Clip(g, period), m>> /\ l = positions[m].kind /\ Contains(g, positions[m].ts)
    BY <1>1
  <2>4. PICK g \in vesselToId[l][v], m \in made :
          b = <<l, Clip(g, period), m>> /\ l = positions[m].kind /\ Contains(g, positions[m].ts)
    BY <2>3
  <2>5. n = m /\ k = l
    BY <1>3, <2>2, <2>4
  <2>6. positions[n].ts \in Int
    BY ReportedUnder
  <2>7. RangeMap(vesselToId[k][v], IdsOf(v))
    BY DEF Safety, Own
  <2>8. f = g
    BY <2>2, <2>4, <2>5, <2>6, <2>7 DEF RangeMap
  <2> QED
    BY <2>2, <2>4, <2>5, <2>8
<1>4. \A element \in track : element[3] \in made
  BY <1>1
<1> HIDE DEF track, made
<1>5. {element[3] : element \in track} = made
  BY <1>2, <1>4
<1>6. IsFiniteSet(made)
  <2>1. Len(positions) \in Int
    BY DEF Safety, Typed
  <2>2. IsFiniteSet(1..Len(positions))
    BY <2>1, FS_Interval
  <2> QED
    BY <2>2, FS_Subset DEF made
<1>7. ExistsBijection(made, track)
  <2> DEFINE F == [n \in made |-> CHOOSE element \in track : element[3] = n]
  <2>1. \A n \in made : F[n] \in track /\ F[n][3] = n
    BY <1>2
  <2>2. F \in [made -> track]
    BY <2>1
  <2>3. \A m, n \in made : F[m] = F[n] => m = n
    <3> HIDE DEF F
    <3> QED
      BY <2>1
  <2>4. \A element \in track : \E n \in made : F[n] = element
    <3> HIDE DEF F
    <3> QED
      BY <1>3, <1>4, <2>1
  <2> HIDE DEF F
  <2>5. F \in Bijection(made, track)
    BY <2>2, <2>3, <2>4, Fun_IsBij
  <2> QED
    BY <2>5, Fun_ExistsBij
<1>8. Cardinality(track) = Cardinality(made)
  BY <1>6, <1>7, FS_Bijection
<1> QED
  BY <1>5, <1>8 DEF track, made
-----------------------------------------------------------------------------
(* The theorems.                                                           *)
\* A range map has one value at an instant at most, a vessel has identifiers of its own.
THEOREM TrackTypeCorrect == Spec => []TypeOK
<1>1. ASSUME NEW values, NEW map, RangeMap(map, values), NEW t \in Int
      PROVE  /\ Cardinality({e \in map : Contains(e, t)}) <= 1
             /\ ValuesAt(map, t) \subseteq values
  <2> DEFINE at == {e \in map : Contains(e, t)}
  <2>1. \A e, f \in at : e = f
    BY <1>1 DEF RangeMap
  <2>2. at = {} \/ \E e : at = {e}
    <3> HIDE DEF at
    <3> QED
      BY <2>1
  <2>3. Cardinality(at) <= 1
    <3> HIDE DEF at
    <3>1. CASE at = {}
      BY <3>1, FS_EmptySet
    <3>2. CASE \E e : at = {e}
      BY <3>2, FS_Singleton
    <3> QED
      BY <2>2, <3>1, <3>2
  <2>4. ValuesAt(map, t) \subseteq values
    BY <1>1 DEF ValuesAt, RangeMap
  <2> QED
    BY <2>3, <2>4
<1>2. Safety => TypeOK
  <2> SUFFICES ASSUME Safety
               PROVE  TypeOK
    OBVIOUS
  <2>1. ASSUME NEW k \in Kinds, NEW t \in Instants, NEW v \in Vessels
        PROVE  /\ Cardinality({e \in vesselToId[k][v] : Contains(e, t)}) <= 1
               /\ ValuesAt(vesselToId[k][v], t) \subseteq IdsOf(v)
    BY <1>1 DEF Safety, Own, Instants
  <2>2. ASSUME NEW k \in Kinds, NEW t \in Instants, NEW i \in Ids
        PROVE  /\ Cardinality({e \in idToVessel[k][i] : Contains(e, t)}) <= 1
               /\ ValuesAt(idToVessel[k][i], t) \subseteq Vessels
    <3>1. RangeMap(idToVessel[k][i], Owners(i)) /\ t \in Int
      BY DEF Safety, Own, Instants
    <3>2. Owners(i) \subseteq Vessels
      BY DEF Owners
    <3> QED
      BY <1>1, <3>1, <3>2
  <2> QED
    BY <2>1, <2>2 DEF Safety, Typed, TypeOK
<1> QED
  BY <1>2, StoreSafety, PTL

\* A track is complete and holds nothing else: over any period, the positions the vessel
\* reported in it, each once, on whichever side of a change of identifier and however often
\* an identifier comes back (MapdbStoreTest, lines 198-200).
THEOREM TrackExact == Spec => []TrackIsExact
<1>1. Safety => TrackIsExact
  <2>1. \A period \in Period : period.lower \in Int /\ period.upper \in Int
    BY BoundsAssumption DEF Period, NoLower, NoUpper
  <2> QED
    BY <2>1, Exact DEF TrackIsExact
<1> QED
  BY <1>1, StoreSafety, PTL

\* The two position stores are interchangeable: MapDB's cuts of its indexes find what the
\* filters of the memory store find, for every period a range map may hold.
THEOREM TrackStoresAgree == Spec => []StoresAgree
<1>1. Safety => StoresAgree
  <2>1. \A period \in Period : period.lower \in Int /\ period.upper \in Int
    BY BoundsAssumption DEF Period, NoLower, NoUpper
  <2>2. Instants \subseteq Int
    BY DEF Instants
  <2> QED
    BY <2>1, <2>2, AreaCuts, VesselCuts, LatestCuts DEF StoresAgree, Safety
<1> QED
  BY <1>1, StoreSafety, PTL

\* The live layer files a report under the vessel that made it, although it asks for the
\* vessel that has the identifier now (MemoryIdentityStore, lines 39-41 and 105-110).
THEOREM TrackLatestVesselIsReporter == Spec => []LatestVesselIsReporter
<1>1. Safety => LatestVesselIsReporter
  BY OwnerIsFound
<1> QED
  BY <1>1, StoreSafety, PTL
=============================================================================
