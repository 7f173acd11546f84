----------------------------- MODULE TrackStore -----------------------------
(***************************************************************************)
(* MemoryIdentityStore, SingleSourceTrackStore and CompositeTrackStore:    *)
(* which vessel a position belongs to, and the track of a vessel.          *)
(*                                                                         *)
(* Each kind of position (AIS, LRIT, VMS) has its identity store, with two *)
(* range maps: the identifier a vessel has over time, and the vessel an    *)
(* identifier belongs to over time.  IdentityGenerator fills them before   *)
(* the first position is generated.  A vessel reports under the identifier *)
(* it has at the time; the track store finds its positions back from the   *)
(* identifiers, and the live layer its identity from the identifier alone. *)
(***************************************************************************)
EXTENDS Integers, Sequences, FiniteSets

CONSTANTS
  Kinds,        \* kinds of positions
  Vessels,
  Ids,          \* identifiers; numbers, as the index by identifier is sorted
  IdsOf(_),     \* vessel -> the identifiers the identity function may give it
  MaxTime,      \* instants are 1..MaxTime
  ChangeCount,  \* changes of identifier of every vessel
  MaxReports    \* bound: positions reported

Instants == 1..MaxTime

\* The bounds of a period.  A range map holds half-open periods only.
NoLower == 0
NoUpper == MaxTime + 1
Period == {p \in [lower : NoLower..MaxTime, upper : 2..NoUpper] : p.lower < p.upper}
All == [lower |-> NoLower, upper |-> NoUpper]
AtLeast(t) == [lower |-> t, upper |-> NoUpper]
Contains(period, t) == period.lower <= t /\ t < period.upper

\* The identity functions of CwatchBackendMain and the tests: v.getId() * 1000 + ...
ASSUME IdsAssumption ==
  /\ Ids \subseteq Int
  /\ \A v \in Vessels : IdsOf(v) # {} /\ IdsOf(v) \subseteq Ids
  /\ \A v, w \in Vessels : v # w => IdsOf(v) \cap IdsOf(w) = {}
ASSUME BoundsAssumption ==
  /\ MaxTime \in Nat \ {0} /\ ChangeCount \in Nat /\ MaxReports \in Nat

VARIABLES
  vesselToId,  \* kind -> vessel -> range map: a set of entries
  idToVessel,  \* kind -> identifier -> range map: a set of entries
  changes,     \* kind -> vessel -> changes generated, -1 before the first set
  lastChange,  \* kind -> vessel -> date of the last change; they are sorted
  positions    \* the positions saved, in the order of save

vars == <<vesselToId, idToVessel, changes, lastChange, positions>>

\* The identity generator is through.
Generated == \A k \in Kinds, v \in Vessels : changes[k][v] = ChangeCount

Init ==
  /\ vesselToId = [k \in Kinds |-> [v \in Vessels |-> {}]]
  /\ idToVessel = [k \in Kinds |-> [i \in Ids |-> {}]]
  /\ changes = [k \in Kinds |-> [v \in Vessels |-> -1]]
  /\ lastChange = [k \in Kinds |-> [v \in Vessels |-> 1]]
  /\ positions = <<>>
-----------------------------------------------------------------------------
(* Guava's TreeRangeMap: put cuts what it overlaps, subRangeMap what sticks *)
(* out; neither joins neighbours.  An empty range is not an entry.          *)
MinOf(a, b) == IF a <= b THEN a ELSE b
MaxOf(a, b) == IF a >= b THEN a ELSE b

Entry(lower, upper, x) == [lower |-> lower, upper |-> upper, value |-> x]
NonEmpty(entries) == {e \in entries : e.lower < e.upper}

\* Mutant: put leaves what it overlaps.
PutOver(map, period, x) == map \cup {Entry(period.lower, period.upper, x)}

Put(map, period, x) ==
  NonEmpty({Entry(e.lower, MinOf(e.upper, period.lower), e.value) : e \in map}
           \cup {Entry(MaxOf(e.lower, period.upper), e.upper, e.value) : e \in map}
           \cup {Entry(period.lower, period.upper, x)})

SubRangeMap(map, period) ==
  NonEmpty({Entry(MaxOf(e.lower, period.lower), MinOf(e.upper, period.upper), e.value) :
              e \in map})

\* The values at an instant: one, or none where nothing was put.
ValuesAt(map, t) == {e.value : e \in {f \in map : Contains(f, t)}}
-----------------------------------------------------------------------------
(* set: both maps of the identity store.                                   *)
\* Mutant: the identifier given up no longer leads to the vessel.
SetIdentityReleasing(k, v, period, i) ==
  LET released(map) == {e \in map : e.value # v}
  IN  /\ vesselToId' = [vesselToId EXCEPT ![k][v] = Put(@, period, i)]
      /\ idToVessel' = [idToVessel EXCEPT ![k] =
                          [j \in Ids |-> IF j = i THEN Put(@[j], period, v)
                                         ELSE released(@[j])]]

SetIdentity(k, v, period, i) ==
  /\ vesselToId' = [vesselToId EXCEPT ![k][v] = Put(@, period, i)]
  /\ idToVessel' = [idToVessel EXCEPT ![k][i] = Put(@, period, v)]

(* IdentityGenerator.generate: one identifier for all time, then changes   *)
(* at sorted random dates, each from its date on.                          *)
GenerateFirst(k, v, i) ==
  /\ changes[k][v] = -1
  /\ i \in IdsOf(v)
  /\ SetIdentity(k, v, All, i)
  /\ changes' = [changes EXCEPT ![k][v] = 0]
  /\ UNCHANGED <<lastChange, positions>>

GenerateChange(k, v, date, i) ==
  /\ changes[k][v] \in 0..(ChangeCount - 1)
  /\ date >= lastChange[k][v]
  /\ i \in IdsOf(v)
  /\ SetIdentity(k, v, AtLeast(date), i)
  /\ changes' = [changes EXCEPT ![k][v] = @ + 1]
  /\ lastChange' = [lastChange EXCEPT ![k][v] = date]
  /\ UNCHANGED positions

(* The callbacks of the simulators: the vessel reports at t under the      *)
(* identifier it has at t, and the position is saved.  Times are random,   *)
(* the threads unordered: any t may come next.                             *)
Report(k, v, t) ==
  /\ Generated
  /\ Len(positions) < MaxReports
  /\ \E i \in ValuesAt(vesselToId[k][v], t) :
       positions' = Append(positions, [kind |-> k, id |-> i, ts |-> t, vessel |-> v])
  /\ UNCHANGED <<vesselToId, idToVessel, changes, lastChange>>

Wait == Generated /\ UNCHANGED vars

Next ==
  \/ \E k \in Kinds, v \in Vessels, i \in Ids :
       \/ GenerateFirst(k, v, i)
       \/ \E date \in Instants : GenerateChange(k, v, date, i)
  \/ \E k \in Kinds, v \in Vessels, t \in Instants : Report(k, v, t)
  \/ Wait

Spec == Init /\ [][Next]_vars
-----------------------------------------------------------------------------
(* The queries of MapdbPositionStore: entries of its indexes are arrays,   *)
(* cut by keys that are shorter arrays.                                    *)
LongMax == MaxTime + 2       \* Long.MAX_VALUE, greater than every timestamp

\* ARRAY2 and ARRAY3: element by element; a prefix sorts first.
Sorted(a, b) ==
  \E n \in 1..Len(b) :
    /\ \A m \in 1..(n - 1) : m <= Len(a) /\ a[m] = b[m]
    /\ n > Len(a) \/ a[n] < b[n]

TailSet(set, from) == {e \in set : e = from \/ Sorted(from, e)}
HeadSet(set, to, inclusive) == {e \in set : Sorted(e, to) \/ (inclusive /\ e = to)}

\* The prefix is what the keys of a query have before the date; with a prefix, the set
\* ends with it.
ApplyPeriod(source, period, prefix) ==
  LET tail == IF period.lower # NoLower THEN TailSet(source, Append(prefix, period.lower))
              ELSE source
  IN  IF period.upper # NoUpper THEN HeadSet(tail, Append(prefix, period.upper), FALSE)
      ELSE IF prefix # <<>> THEN HeadSet(tail, Append(prefix, LongMax), TRUE)
      ELSE tail

\* Mutant: one position store is wired to every kind.
OfAnyKind(k) == 1..Len(positions)

OfKind(k) == {n \in 1..Len(positions) : positions[n].kind = k}

LookupIdTimestamp(k) == {<<positions[n].id, positions[n].ts, n>> : n \in OfKind(k)}
LookupTimestamp(k) == {<<positions[n].ts, n>> : n \in OfKind(k)}

MapdbQueryVessel(k, id, period) ==
  {e[3] : e \in ApplyPeriod(TailSet(LookupIdTimestamp(k), <<id>>), period, <<id>>)}

\* queryArea, for an area that holds every position.
MapdbQueryArea(k, period) == {e[2] : e \in ApplyPeriod(LookupTimestamp(k), period, <<>>)}

\* Mutant: the positions up to the date.
MapdbQueryLatestHead(k, from) == {e[2] : e \in HeadSet(LookupTimestamp(k), <<from>>, TRUE)}

MapdbQueryLatest(k, from) == {e[2] : e \in TailSet(LookupTimestamp(k), <<from>>)}

(* MemoryPositionStore filters all its items.                              *)
MemoryQueryVessel(k, id, period) ==
  {n \in OfKind(k) : positions[n].id = id /\ Contains(period, positions[n].ts)}

MemoryQueryArea(k, period) == {n \in OfKind(k) : Contains(period, positions[n].ts)}

MemoryQueryLatest(k, from) == {n \in OfKind(k) : ~ positions[n].ts < from}

(* queryTrack.  The stream is the concatenation, over the identifiers of   *)
(* the vessel and over the kinds, of what the position store finds: the    *)
(* pairs of an entry and a position.                                       *)
\* Mutant: the store is asked for the whole period.
QueryTrackWhole(v, period) ==
  UNION {UNION {{<<k, e, n>> : n \in MapdbQueryVessel(k, e.value, period)} :
                  e \in SubRangeMap(vesselToId[k][v], period)} :
           k \in Kinds}

QueryTrack(v, period) ==
  UNION {UNION {{<<k, e, n>> : n \in MapdbQueryVessel(k, e.value,
                                       [lower |-> e.lower, upper |-> e.upper])} :
                  e \in SubRangeMap(vesselToId[k][v], period)} :
           k \in Kinds}

\* getLatestVessel at an instant after every change: the null of an unknown
\* identifier is the empty set.
GetLatestVessel(k, i) == ValuesAt(idToVessel[k][i], MaxTime)
-----------------------------------------------------------------------------
\* The type invariant: range maps have one value at every instant at most.
TypeOK ==
  /\ changes \in [Kinds -> [Vessels -> -1..ChangeCount]]
  /\ lastChange \in [Kinds -> [Vessels -> Instants]]
  /\ positions \in Seq([kind : Kinds, id : Ids, ts : Instants, vessel : Vessels])
  /\ \A k \in Kinds, t \in Instants :
       /\ \A v \in Vessels : /\ Cardinality({e \in vesselToId[k][v] : Contains(e, t)}) <= 1
                             /\ ValuesAt(vesselToId[k][v], t) \subseteq IdsOf(v)
       /\ \A i \in Ids : /\ Cardinality({e \in idToVessel[k][i] : Contains(e, t)}) <= 1
                         /\ ValuesAt(idToVessel[k][i], t) \subseteq Vessels

\* A track is complete and holds nothing else: over any period, the positions the
\* vessel reported in it, each once, on whichever side of a change of identifier
\* and however often an identifier comes back (MapdbStoreTest, lines 198-200).
TrackIsExact ==
  \A v \in Vessels, period \in Period :
    LET track == QueryTrack(v, period)
        made == {n \in 1..Len(positions) :
                   positions[n].vessel = v /\ Contains(period, positions[n].ts)}
    IN  /\ {element[3] : element \in track} = made
        /\ Cardinality(track) = Cardinality(made)

\* The two position stores are interchangeable: MapDB's cuts of its indexes find what
\* the filters of the memory store find, for every period a range map may hold.
StoresAgree ==
  \A k \in Kinds :
    /\ \A period \in Period :
         /\ MapdbQueryArea(k, period) = MemoryQueryArea(k, period)
         /\ \A i \in Ids : MapdbQueryVessel(k, i, period) = MemoryQueryVessel(k, i, period)
    /\ \A from \in Instants : MapdbQueryLatest(k, from) = MemoryQueryLatest(k, from)

\* The live layer files a report under the vessel that made it, although it asks for
\* the vessel that has the identifier now: an identifier that was given up still
\* leads to its vessel (MemoryIdentityStore, lines 39-41 and 105-110).
LatestVesselIsReporter ==
  \A n \in 1..Len(positions) :
    GetLatestVessel(positions[n].kind, positions[n].id) = {positions[n].vessel}
=============================================================================
