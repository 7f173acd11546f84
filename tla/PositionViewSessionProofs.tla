--------------------- MODULE PositionViewSessionProofs ---------------------
(***************************************************************************)
(* The sessions of the tabs of one browser, for any number of tabs, moves  *)
(* and positions and any pools: the map of a session is never replaced, a  *)
(* viewport finds its view, the last viewport wins, and what a view has    *)
(* sent its tab shows.                                                     *)
(***************************************************************************)
EXTENDS PositionViewSession, FiniteSetTheorems, SequenceTheorems, TLAPS

-----------------------------------------------------------------------------
(* Channels.  Some of a channel, in order: small[i] was at Index[i].       *)
Indexes(small, big, kept) ==
  {f \in [1..Len(small) -> kept] :
     /\ \A i \in 1..Len(small) : small[i] = big[f[i]]
     /\ \A i, j \in 1..Len(small) : i < j => f[i] < f[j]
     /\ \A n \in kept : \E i \in 1..Len(small) : f[i] = n}

Part(small, big, kept) == \E f : f \in Indexes(small, big, kept)

LEMMA RemoveAtIsPart ==
  ASSUME NEW S, NEW box \in Seq(S), NEW n \in 1..Len(box)
  PROVE  /\ RemoveAt(box, n) \in Seq(S)
         /\ Part(RemoveAt(box, n), box, (1..Len(box)) \ {n})
<1> DEFINE small == RemoveAt(box, n)
           kept == (1..Len(box)) \ {n}
           f == [i \in 1..(Len(box) - 1) |-> IF i < n THEN i ELSE i + 1]
<1>1. Len(box) \in Nat
  OBVIOUS
<1>2. /\ SubSeq(box, 1, n - 1) \in Seq(S) /\ SubSeq(box, n + 1, Len(box)) \in Seq(S)
      /\ Len(SubSeq(box, 1, n - 1)) = n - 1
      /\ Len(SubSeq(box, n + 1, Len(box))) = Len(box) - n
      /\ \A i \in 1..(n - 1) : SubSeq(box, 1, n - 1)[i] = box[i]
      /\ \A i \in 1..(Len(box) - n) : SubSeq(box, n + 1, Len(box))[i] = box[n + i]
  OBVIOUS
<1>3. /\ small \in Seq(S) /\ Len(small) = Len(box) - 1
      /\ \A i \in 1..(Len(box) - 1) :
           small[i] = IF i < n THEN box[i] ELSE box[i + 1]
  <2> DEFINE a == SubSeq(box, 1, n - 1)
             b == SubSeq(box, n + 1, Len(box))
  <2>1. small = a \o b
    BY DEF RemoveAt
  <2>2. /\ a \in Seq(S) /\ b \in Seq(S) /\ Len(a) = n - 1 /\ Len(b) = Len(box) - n
        /\ \A i \in 1..(n - 1) : a[i] = box[i]
        /\ \A i \in 1..(Len(box) - n) : b[i] = box[n + i]
    BY <1>2
  <2> HIDE DEF a, b, small
  <2>3. Len(small) = Len(box) - 1 /\ small \in Seq(S)
    <3>1. Len(a \o b) = Len(a) + Len(b)
      <4>1. a \in Seq(S) /\ b \in Seq(S)
        BY <2>2
      <4> QED BY <4>1, ConcatProperties
    <3>2. a \o b \in Seq(S)
      BY <2>2
    <3> QED BY <1>1, <2>1, <2>2, <3>1, <3>2
  <2>4. \A i \in 1..(Len(box) - 1) : i < n => small[i] = box[i]
    BY <1>1, <2>1, <2>2
  <2>5. \A i \in 1..(Len(box) - 1) : i >= n => small[i] = box[i + 1]
    <3> TAKE i \in 1..(Len(box) - 1)
    <3> HAVE i >= n
    <3>1. small[i] = b[i - (n - 1)]
      BY <1>1, <2>1, <2>2
    <3>2. i - (n - 1) \in 1..(Len(box) - n)
      BY <1>1
    <3>3. b[i - (n - 1)] = box[n + (i - (n - 1))]
      BY <3>2, <2>2
    <3>4. n + (i - (n - 1)) = i + 1
      BY <1>1
    <3> QED BY <3>1, <3>3, <3>4
  <2> QED BY <1>1, <2>3, <2>4, <2>5
<1>4. \A i \in 1..(Len(box) - 1) : small[i] = box[f[i]]
  BY <1>3
<1>5. f \in [1..Len(small) -> kept]
  BY <1>1, <1>3
<1>6. \A i, j \in 1..Len(small) : i < j => f[i] < f[j]
  BY <1>1, <1>3
<1>7. \A m \in kept : \E i \in 1..Len(small) : f[i] = m
  <2> TAKE m \in kept
  <2>1. CASE m < n
    <3>1. m \in 1..Len(small) /\ f[m] = m
      BY <2>1, <1>1, <1>3
    <3> QED BY <3>1
  <2>2. CASE m > n
    <3>1. m - 1 \in 1..Len(small) /\ f[m - 1] = m
      BY <2>2, <1>1, <1>3
    <3> QED BY <3>1
  <2>3. m < n \/ m > n
    BY <1>1
  <2> QED BY <2>1, <2>2, <2>3
<1> HIDE DEF f, small, kept
<1>8. f \in Indexes(small, box, kept)
  BY <1>3, <1>4, <1>5, <1>6, <1>7 DEF Indexes
<1> QED BY <1>3, <1>8 DEF Part, small, kept

LEMMA WithoutIsPart ==
  ASSUME NEW S, NEW box \in Seq(S), NEW t
  PROVE  /\ Without(box, t) \in Seq(S)
         /\ Part(Without(box, t), box, {n \in 1..Len(box) : box[n].tab # t})
<1> DEFINE others == {n \in 1..Len(box) : box[n].tab # t}
           before(n) == {m \in others : m <= n}
           Place(n) == Cardinality(before(n))
           size == Cardinality(others)
           place == [n \in others |-> Place(n)]
           f == [i \in 1..size |-> CHOOSE n \in others : Place(n) = i]
           small == Without(box, t)
<1>1. small = [i \in 1..size |-> box[CHOOSE n \in others : Place(n) = i]]
  BY DEF Without
<1>2. IsFiniteSet(others) /\ size \in Nat /\ others \subseteq 1..Len(box) /\ Len(box) \in Nat
  <2>1. IsFiniteSet(1..Len(box))
    BY FS_Interval
  <2>2. others \in SUBSET (1..Len(box))
    OBVIOUS
  <2>3. IsFiniteSet(others)
    BY <2>1, <2>2, FS_Subset
  <2> QED BY <2>2, <2>3, FS_CardinalityType
<1> HIDE DEF others
<1>3. ASSUME NEW n \in others
      PROVE  before(n) \in SUBSET others /\ IsFiniteSet(before(n)) /\ Place(n) \in 1..size
  <2>1. before(n) \in SUBSET others
    OBVIOUS
  <2>2. IsFiniteSet(before(n)) /\ Place(n) \in Nat /\ Place(n) <= size
    BY <2>1, <1>2, FS_Subset, FS_CardinalityType
  <2>3. n \in before(n)
    BY <1>2
  <2>4. Place(n) # 0
    BY <2>2, <2>3, FS_EmptySet
  <2> HIDE DEF Place, before, size
  <2> QED BY <2>1, <2>2, <2>4, <1>2
<1>4. ASSUME NEW m \in others, NEW n \in others, m < n
      PROVE  Place(m) < Place(n)
  <2>5. \A k \in others : k \in Nat
    BY <1>2
  <2>1. before(m) \in SUBSET before(n) /\ n \in before(n) /\ n \notin before(m)
    BY <2>5, <1>4
  <2>2. IsFiniteSet(before(n)) /\ Place(m) \in Nat /\ Place(n) \in Nat
    BY <1>3, FS_CardinalityType
  <2>3. Place(m) <= Place(n) /\ (Place(m) = Place(n) => before(n) = before(m))
    BY <2>1, <2>2, FS_Subset
  <2>4. before(n) # before(m)
    BY <2>1
  <2> HIDE DEF Place, before
  <2> QED BY <2>2, <2>3, <2>4
<1> HIDE DEF Place, before
<1>5. \A m, n \in others : Place(m) = Place(n) => m = n
  <2> SUFFICES ASSUME NEW m \in others, NEW n \in others, Place(m) = Place(n), m # n
               PROVE  FALSE
    OBVIOUS
  <2>1. m < n \/ n < m
    BY <1>2
  <2>2. Place(m) \in 1..size /\ Place(n) \in 1..size
    BY <1>3
  <2> QED BY <2>1, <2>2, <1>4, <1>2
<1>6. \A i \in 1..size : \E n \in others : Place(n) = i
  <2>1. place \in Injection(others, 1..size)
    BY <1>3, <1>5 DEF Injection, IsInjective
  <2>2. IsFiniteSet(1..size) /\ Cardinality(1..size) = size
    BY <1>2, FS_Interval
  <2>3. place \in Surjection(others, 1..size)
    BY <2>1, <2>2, FS_Injection
  <2> QED BY <2>3 DEF Surjection
<1>7. \A i \in 1..size : f[i] \in others /\ Place(f[i]) = i
  BY <1>6
<1> HIDE DEF f
<1>8. Len(small) = size /\ small \in Seq(S) /\ \A i \in 1..size : small[i] = box[f[i]]
  <2>1. \A i \in 1..size : box[f[i]] \in S
    <3>1. \A i \in 1..size : f[i] \in 1..Len(box)
      BY <1>2, <1>7
    <3> QED BY <3>1
  <2>2. small = [i \in 1..size |-> box[f[i]]]
    BY <1>1 DEF f
  <2> HIDE DEF small
  <2> QED BY <1>2, <2>1, <2>2
<1>9. \A i, j \in 1..size : i < j => f[i] < f[j]
  <2> SUFFICES ASSUME NEW i \in 1..size, NEW j \in 1..size, i < j, ~ (f[i] < f[j])
               PROVE  FALSE
    OBVIOUS
  <2>1. f[i] \in others /\ f[j] \in others /\ Place(f[i]) = i /\ Place(f[j]) = j
    BY <1>7
  <2>4. f[i] \in Nat /\ f[j] \in Nat
    <3>1. \A k \in others : k \in Nat
      BY <1>2
    <3> QED BY <2>1, <3>1
  <2>2. f[j] < f[i] \/ f[j] = f[i]
    BY <2>4
  <2>3. j < i \/ j = i
    BY <2>1, <2>2, <1>4
  <2> QED BY <2>3, <1>2
<1>10. \A n \in others : \E i \in 1..size : f[i] = n
  BY <1>3, <1>5, <1>7
<1>11. f \in [1..size -> others]
  BY <1>7 DEF f
<1> HIDE DEF f, small
<1>12. f \in Indexes(small, box, others)
  BY <1>8, <1>9, <1>10, <1>11 DEF Indexes
<1> QED BY <1>8, <1>12 DEF Part, others, small

-----------------------------------------------------------------------------
(* Sessions and maps.  A request has its session from GetSession on.       *)
SessionTypes ==
  /\ sessions \in Nat /\ cookie \in 0..sessions
  /\ live \subseteq 1..sessions
  /\ maps \in Nat
  /\ attribute \in [Sessions -> 0..maps]
  /\ viewsMap \in [Maps -> SUBSET Tabs]
  /\ stage \in [Tabs -> Stages]
  /\ request \in [Tabs -> 0..sessions] /\ created \subseteq Tabs
  /\ wsMap \in [Tabs -> 0..maps]

\* A tab makes a session at most once when it connects and once when it starts, and a map
\* likewise.
Shook == {t \in Tabs : stage[t] \notin {"new", "handshake"}}
Mapped == {t \in Tabs : stage[t] \notin {"new", "handshake", "create"}}
Begun == {t \in Tabs : stage[t] \in {"startPut", "started", "subscribed", "gone"}}

Counted ==
  /\ sessions <= Cardinality(Shook) + Cardinality(Begun)
  /\ maps <= Cardinality(Mapped) + Cardinality(Begun)

\* A session the browser or a request knows has its map, but for the one request that is
\* creating it; nobody else knows that session.
Attended(t) ==
  /\ request[t] # 0 /\ t \notin created => attribute[request[t]] # 0
  /\ t \in created => /\ stage[t] \in {"create", "copy", "startPut"}
                      /\ request[t] # 0 /\ request[t] # cookie
  /\ stage[t] = "create" => t \in created /\ attribute[request[t]] = 0
  /\ stage[t] \in {"copy", "startPut"} => attribute[request[t]] # 0
  /\ stage[t] \in {"create", "copy", "startPut"} => SessionOf(t)
  /\ stage[t] = "startCreate" => ~ SessionOf(t)
  /\ stage[t] \notin InFlight => request[t] = 0
  /\ stage[t] \in Open \cup Starting \cup {"start"} => wsMap[t] # 0

Requests ==
  /\ \A s \in Sessions : s > sessions => attribute[s] = 0
  /\ cookie # 0 => attribute[cookie] # 0
  /\ \A t \in Tabs : Attended(t)
  /\ \A t, u \in Tabs : t \in created /\ u # t => request[u] # request[t]

SessionSafety == SessionTypes /\ Counted /\ Requests

LEMMA CardinalityGrows ==
  ASSUME NEW S \in SUBSET Tabs, NEW T \in SUBSET Tabs, S \subseteq T
  PROVE  /\ Cardinality(S) \in Nat /\ Cardinality(T) \in Nat /\ Cardinality(Tabs) \in Nat
         /\ Cardinality(S) <= Cardinality(T) /\ Cardinality(T) <= Cardinality(Tabs)
         /\ S # T => Cardinality(S) + 1 <= Cardinality(T)
<1>1. IsFiniteSet(Tabs)
  BY BoundsAssumption
<1>2. IsFiniteSet(T) /\ Cardinality(T) <= Cardinality(Tabs)
  BY <1>1, FS_Subset
<1>3. /\ IsFiniteSet(S) /\ Cardinality(S) <= Cardinality(T)
      /\ Cardinality(T) = Cardinality(S) => T = S
  BY <1>2, FS_Subset
<1>4. Cardinality(S) \in Nat /\ Cardinality(T) \in Nat /\ Cardinality(Tabs) \in Nat
  BY <1>1, <1>2, <1>3, FS_CardinalityType
<1> QED BY <1>2, <1>3, <1>4

\* There are sessions and maps enough: one more for a tab that has not had its own.
LEMMA Enough ==
  ASSUME SessionTypes, Counted
  PROVE  /\ sessions <= 2 * Cardinality(Tabs) /\ maps <= 2 * Cardinality(Tabs)
         /\ Cardinality(Tabs) \in Nat
         /\ \A t \in Tabs : t \notin Shook \/ t \notin Begun => sessions + 1 \in Sessions
         /\ \A t \in Tabs : t \notin Mapped \/ t \notin Begun => maps + 1 \in Maps
<1>1. Shook \in SUBSET Tabs /\ Mapped \in SUBSET Tabs /\ Begun \in SUBSET Tabs
  BY DEF Shook, Mapped, Begun
<1>2. Tabs \in SUBSET Tabs
  OBVIOUS
<1>3. ASSUME NEW S \in SUBSET Tabs
      PROVE  /\ Cardinality(S) \in Nat /\ Cardinality(Tabs) \in Nat
             /\ Cardinality(S) <= Cardinality(Tabs)
             /\ S # Tabs => Cardinality(S) + 1 <= Cardinality(Tabs)
  BY <1>2, CardinalityGrows
<1>4. sessions \in Nat /\ maps \in Nat
  BY DEF SessionTypes
<1> QED BY <1>1, <1>3, <1>4 DEF Counted, Sessions, Maps

\* The steps in which the counts are kept.
LEMMA CountedKept ==
  ASSUME SessionTypes, Counted,
         Shook \subseteq Shook', Mapped \subseteq Mapped', Begun \subseteq Begun',
         sessions' = sessions \/ (sessions' = sessions + 1 /\ (Shook # Shook' \/ Begun # Begun')),
         maps' = maps \/ (maps' = maps + 1 /\ (Mapped # Mapped' \/ Begun # Begun'))
  PROVE  Counted'
<1>1. /\ Shook \in SUBSET Tabs /\ Mapped \in SUBSET Tabs /\ Begun \in SUBSET Tabs
      /\ Shook' \in SUBSET Tabs /\ Mapped' \in SUBSET Tabs /\ Begun' \in SUBSET Tabs
  BY DEF Shook, Mapped, Begun
<1>2. /\ Cardinality(Shook) \in Nat /\ Cardinality(Shook') \in Nat
      /\ Cardinality(Shook) <= Cardinality(Shook')
      /\ Shook # Shook' => Cardinality(Shook) + 1 <= Cardinality(Shook')
  BY <1>1, CardinalityGrows
<1>3. /\ Cardinality(Mapped) \in Nat /\ Cardinality(Mapped') \in Nat
      /\ Cardinality(Mapped) <= Cardinality(Mapped')
      /\ Mapped # Mapped' => Cardinality(Mapped) + 1 <= Cardinality(Mapped')
  BY <1>1, CardinalityGrows
<1>4. /\ Cardinality(Begun) \in Nat /\ Cardinality(Begun') \in Nat
      /\ Cardinality(Begun) <= Cardinality(Begun')
      /\ Begun # Begun' => Cardinality(Begun) + 1 <= Cardinality(Begun')
  BY <1>1, CardinalityGrows
<1>5. sessions \in Nat /\ maps \in Nat
  BY DEF SessionTypes
<1>6. sessions' <= Cardinality(Shook') + Cardinality(Begun')
  BY <1>2, <1>4, <1>5 DEF Counted
<1>7. maps' <= Cardinality(Mapped') + Cardinality(Begun')
  BY <1>3, <1>4, <1>5 DEF Counted
<1> QED BY <1>6, <1>7 DEF Counted

LEMMA Advance ==
  ASSUME SessionTypes, NEW t \in Tabs, NEW x \in Stages, stage' = [stage EXCEPT ![t] = x]
  PROVE  /\ stage' \in [Tabs -> Stages]
         /\ \A u \in Tabs : stage'[u] = IF u = t THEN x ELSE stage[u]
         /\ Shook' = IF x \in {"new", "handshake"} THEN Shook \ {t} ELSE Shook \cup {t}
         /\ Mapped' = IF x \in {"new", "handshake", "create"} THEN Mapped \ {t}
                      ELSE Mapped \cup {t}
         /\ Begun' = IF x \in {"startPut", "started", "subscribed", "gone"} THEN Begun \cup {t}
                     ELSE Begun \ {t}
<1>1. stage' \in [Tabs -> Stages] /\ \A u \in Tabs : stage'[u] = IF u = t THEN x ELSE stage[u]
  BY DEF SessionTypes
<1> QED BY <1>1 DEF Shook, Mapped, Begun

LEMMA StageNames ==
  /\ {"new", "start", "gone", "handshake", "create", "copy", "connected", "startCreate",
      "startPut", "started", "subscribed"} = Stages
  /\ InFlight = {"handshake", "start", "create", "copy", "startCreate", "startPut"}
  /\ Open = {"connected", "started", "subscribed"}
  /\ Connecting = {"handshake", "create", "copy", "connected"}
  /\ Starting = {"startCreate", "startPut"}
BY DEF Stages, Connecting, Starting, Open, InFlight, InRequest

MapsKept == \A s \in Sessions : attribute[s] # 0 => attribute'[s] = attribute[s]

\* getSession(true) in a request that has no session of its own yet.
LEMMA GetSessionGives ==
  ASSUME SessionSafety, NEW t \in Tabs, t \notin created, t \notin Shook \/ t \notin Begun,
         GetSession(t)
  PROVE  /\ sessions' \in Nat /\ live' \subseteq 1..sessions'
         /\ request' \in [Tabs -> 0..sessions'] /\ created' \subseteq Tabs
         /\ request'[t] \in live' /\ request'[t] \in Sessions
         /\ \/ /\ SessionOf(t) /\ UNCHANGED <<sessions, live, request, created>>
               /\ attribute[request[t]] # 0
            \/ /\ ~ SessionOf(t) /\ sessions' = sessions + 1 /\ sessions' \in Sessions
               /\ live' = live \cup {sessions'} /\ created' = created \cup {t}
               /\ request' = [request EXCEPT ![t] = sessions']
               /\ request'[t] = sessions' /\ attribute[sessions'] = 0
<1>1. /\ sessions \in Nat /\ live \subseteq 1..sessions /\ request \in [Tabs -> 0..sessions]
      /\ created \subseteq Tabs
  BY DEF SessionSafety, SessionTypes
<1>2. sessions + 1 \in Sessions /\ sessions <= 2 * Cardinality(Tabs) /\ Cardinality(Tabs) \in Nat
  BY Enough DEF SessionSafety
<1>3. CASE SessionOf(t) /\ UNCHANGED <<sessions, live, request, created>>
  <2>1. request[t] \in live /\ request[t] # 0 /\ request[t] \in Sessions
    BY <1>1, <1>2, <1>3 DEF SessionOf, Sessions
  <2>2. attribute[request[t]] # 0
    BY <2>1 DEF SessionSafety, Requests, Attended
  <2> QED BY <1>1, <1>3, <2>1, <2>2
<1>4. CASE /\ ~ SessionOf(t)
           /\ sessions' = sessions + 1
           /\ live' = live \cup {sessions + 1}
           /\ request' = [request EXCEPT ![t] = sessions + 1]
           /\ created' = created \cup {t}
  <2>1. attribute[sessions + 1] = 0
    BY <1>1, <1>2 DEF SessionSafety, Requests, Attended
  <2>2. request' \in [Tabs -> 0..sessions'] /\ request'[t] = sessions'
    BY <1>1, <1>4
  <2> QED BY <1>1, <1>2, <1>4, <2>1, <2>2
<1> QED BY <1>3, <1>4 DEF GetSession

LEMMA ConnectKeeps ==
  ASSUME SessionSafety, NEW t \in Tabs,
         \/ Connect(t)
         \/ RequestStart(t)
  PROVE  SessionSafety' /\ MapsKept
<1> DEFINE x == IF stage[t] = "new" THEN "handshake" ELSE "start"
<1>1. /\ stage[t] \in {"new", "connected"}
      /\ stage' = [stage EXCEPT ![t] = x]
      /\ request' = [request EXCEPT ![t] = cookie]
      /\ UNCHANGED <<httpVars, created, wsMap>>
  BY DEF Connect, RequestStart
<1>2. UNCHANGED <<cookie, sessions, live, attribute, maps, viewsMap>>
  BY <1>1 DEF httpVars
<1>3. x \in {"handshake", "start"} /\ x \in Stages
  BY StageNames
<1>4. /\ sessions \in Nat /\ cookie \in 0..sessions /\ request \in [Tabs -> 0..sessions]
  BY DEF SessionSafety, SessionTypes
<1>5. /\ stage' \in [Tabs -> Stages]
      /\ \A u \in Tabs : stage'[u] = IF u = t THEN x ELSE stage[u]
  BY <1>1, <1>3, Advance DEF SessionSafety
<1>6. /\ request' \in [Tabs -> 0..sessions']
      /\ \A u \in Tabs : request'[u] = IF u = t THEN cookie ELSE request[u]
  BY <1>1, <1>2, <1>4
<1> HIDE DEF x
<1>7. SessionTypes'
  BY <1>1, <1>2, <1>5, <1>6 DEF SessionSafety, SessionTypes
<1>8. Counted'
  <2>1. Shook \subseteq Shook' /\ Mapped \subseteq Mapped' /\ Begun \subseteq Begun'
    BY <1>1, <1>5, StageNames DEF Shook, Mapped, Begun, x
  <2> QED BY <2>1, <1>2, CountedKept DEF SessionSafety
<1>9. t \notin created
  BY <1>1 DEF SessionSafety, Requests, Attended
<1>10. Requests'
  <2>1. ASSUME NEW u \in Tabs, u # t
        PROVE  stage'[u] = stage[u] /\ request'[u] = request[u] /\ wsMap'[u] = wsMap[u]
    BY <2>1, <1>1, <1>5, <1>6
  <2>2. stage'[t] = x /\ request'[t] = cookie
    BY <1>5, <1>6
  <2>3. x = "start" => wsMap[t] # 0
    BY <1>1, StageNames DEF x, SessionSafety, Requests, Attended
  <2>4. ASSUME NEW u \in Tabs PROVE Attended(u)'
    <3>1. CASE u = t
      BY <3>1, <1>1, <1>2, <1>3, <1>9, <2>2, <2>3, StageNames
         DEF SessionSafety, Requests, Attended
    <3>2. CASE u # t
      BY <3>2, <1>1, <1>2, <2>1 DEF SessionSafety, Requests, Attended, SessionOf
    <3> QED BY <3>1, <3>2
  <2>5. ASSUME NEW u \in Tabs, NEW v \in Tabs, u \in created', v # u
        PROVE  request'[v] # request'[u]
    <3>1. u # t /\ u \in created /\ request[u] # cookie
      BY <2>5, <1>1, <1>9 DEF SessionSafety, Requests, Attended
    <3> QED BY <3>1, <2>1, <2>2, <2>5 DEF SessionSafety, Requests
  <2> QED BY <1>2, <2>4, <2>5 DEF SessionSafety, Requests
<1>11. MapsKept
  BY <1>2 DEF MapsKept
<1> QED BY <1>7, <1>8, <1>10, <1>11 DEF SessionSafety

LEMMA BeforeHandshakeKeeps ==
  ASSUME SessionSafety, NEW t \in Tabs, BeforeHandshake(t)
  PROVE  SessionSafety' /\ MapsKept
<1> DEFINE x == IF attribute[request'[t]] = 0 THEN "create" ELSE "copy"
<1>1. /\ stage[t] = "handshake" /\ GetSession(t) /\ stage' = [stage EXCEPT ![t] = x]
      /\ UNCHANGED <<cookie, attribute, maps, viewsMap, wsMap>>
  BY DEF BeforeHandshake
<1>2. x \in {"create", "copy"} /\ x \in Stages
  BY StageNames
<1>3. t \notin created /\ t \notin Shook
  BY <1>1 DEF SessionSafety, Requests, Attended, Shook
<1>4. /\ stage' \in [Tabs -> Stages]
      /\ \A u \in Tabs : stage'[u] = IF u = t THEN x ELSE stage[u]
      /\ Shook' = Shook \cup {t}
      /\ Mapped \subseteq Mapped' /\ Begun' = Begun
  <2> HIDE DEF x
  <2>1. t \notin Mapped /\ t \notin Begun
    BY <1>1 DEF Mapped, Begun
  <2>2. /\ stage' \in [Tabs -> Stages]
        /\ \A u \in Tabs : stage'[u] = IF u = t THEN x ELSE stage[u]
        /\ Shook' = IF x \in {"new", "handshake"} THEN Shook \ {t} ELSE Shook \cup {t}
        /\ Mapped' = IF x \in {"new", "handshake", "create"} THEN Mapped \ {t}
                     ELSE Mapped \cup {t}
        /\ Begun' = IF x \in {"startPut", "started", "subscribed", "gone"} THEN Begun \cup {t}
                    ELSE Begun \ {t}
    BY <1>1, <1>2, Advance DEF SessionSafety
  <2> QED BY <1>2, <2>1, <2>2
<1>5. /\ sessions' \in Nat /\ live' \subseteq 1..sessions'
      /\ request' \in [Tabs -> 0..sessions'] /\ created' \subseteq Tabs
      /\ request'[t] \in live' /\ request'[t] \in Sessions
      /\ \/ /\ SessionOf(t) /\ UNCHANGED <<sessions, live, request, created>>
            /\ attribute[request[t]] # 0
         \/ /\ ~ SessionOf(t) /\ sessions' = sessions + 1 /\ sessions' \in Sessions
            /\ live' = live \cup {sessions'} /\ created' = created \cup {t}
            /\ request' = [request EXCEPT ![t] = sessions']
            /\ request'[t] = sessions' /\ attribute[sessions'] = 0
  BY <1>1, <1>3, GetSessionGives
<1>6. /\ sessions \in Nat /\ cookie \in 0..sessions /\ request \in [Tabs -> 0..sessions]
      /\ live \subseteq 1..sessions
  BY DEF SessionSafety, SessionTypes
<1>7. SessionTypes'
  <2>1. cookie' \in 0..sessions'
    BY <1>1, <1>5, <1>6
  <2> QED BY <1>1, <1>4, <1>5, <2>1 DEF SessionSafety, SessionTypes
<1>8. Counted'
  <2>1. Shook \subseteq Shook' /\ Mapped \subseteq Mapped' /\ Begun \subseteq Begun'
        /\ Shook # Shook'
    BY <1>3, <1>4
  <2>2. sessions' = sessions \/ sessions' = sessions + 1
    BY <1>5
  <2> QED BY <1>1, <2>1, <2>2, CountedKept DEF SessionSafety
<1>9. Requests'
  <2>1. ASSUME NEW u \in Tabs, u # t
        PROVE  /\ stage'[u] = stage[u] /\ request'[u] = request[u] /\ wsMap'[u] = wsMap[u]
               /\ (u \in created <=> u \in created')
    BY <2>1, <1>1, <1>4, <1>5, <1>6
  <2>2. stage'[t] = x
    BY <1>4
  <2>3. CASE SessionOf(t) /\ UNCHANGED <<sessions, live, request, created>>
    <3>1. x = "copy" /\ attribute[request[t]] # 0
      BY <1>3, <1>5, <1>6, <2>3 DEF SessionOf
    <3> HIDE DEF x
    <3> QED BY <1>1, <1>3, <2>1, <2>2, <2>3, <3>1, StageNames
            DEF SessionSafety, Requests, Attended, SessionOf
  <2>4. CASE /\ ~ SessionOf(t) /\ sessions' = sessions + 1 /\ sessions' \in Sessions
             /\ live' = live \cup {sessions'} /\ created' = created \cup {t}
             /\ request'[t] = sessions' /\ attribute[sessions'] = 0
    <3>1. x = "create"
      BY <2>4
    <3> HIDE DEF x
    <3>2. \A u \in Tabs : request[u] # sessions' /\ request[u] \in 0..sessions
      BY <1>6, <2>4
    <3>3. sessions' # cookie /\ sessions' # 0 /\ cookie' = cookie /\ attribute' = attribute
      BY <1>1, <1>6, <2>4
    <3>4. \A s \in Sessions : s > sessions' => attribute'[s] = 0
      BY <1>1, <1>6, <2>4 DEF SessionSafety, Requests, Attended, Sessions
    <3>5. ASSUME NEW u \in Tabs, u # t
          PROVE  request[u] \in live <=> request'[u] \in live'
      BY <2>1, <2>4, <3>2, <3>5
    <3>6. \A u, v \in Tabs : u \in created' /\ v # u => request'[v] # request'[u]
      <4> TAKE u, v \in Tabs
      <4> HAVE u \in created' /\ v # u
      <4>1. CASE u = t
        BY <4>1, <2>1, <2>4, <3>2
      <4>2. CASE u # t /\ v = t
        BY <4>2, <2>1, <2>4, <3>2
      <4>3. CASE u # t /\ v # t
        BY <4>3, <2>1 DEF SessionSafety, Requests, Attended
      <4> QED BY <4>1, <4>2, <4>3
    <3> QED BY <1>1, <1>5, <2>1, <2>2, <2>4, <3>1, <3>3, <3>4, <3>5, <3>6, StageNames
            DEF SessionSafety, Requests, Attended, SessionOf
  <2> QED BY <1>5, <2>3, <2>4
<1>10. MapsKept
  BY <1>1 DEF MapsKept
<1> QED BY <1>7, <1>8, <1>9, <1>10 DEF SessionSafety

\* The session of a request that is to create its map has none yet.
LEMMA CreateMapKeeps ==
  ASSUME SessionSafety, NEW t \in Tabs, CreateMap(t)
  PROVE  SessionSafety' /\ MapsKept
<1>1. /\ stage[t] = "create" /\ SetNewMap(request[t]) /\ stage' = [stage EXCEPT ![t] = "copy"]
      /\ UNCHANGED <<cookie, sessions, live, viewsMap, request, created, wsMap>>
  BY DEF CreateMap
<1>2. t \notin Mapped /\ t \in created /\ attribute[request[t]] = 0 /\ SessionOf(t)
  BY <1>1 DEF SessionSafety, Requests, Attended, Mapped
<1>3. /\ stage' \in [Tabs -> Stages]
      /\ \A u \in Tabs : stage'[u] = IF u = t THEN "copy" ELSE stage[u]
      /\ Shook \subseteq Shook' /\ Mapped' = Mapped \cup {t} /\ Begun \subseteq Begun'
  <2>1. "copy" \in Stages /\ t \notin Begun
    BY <1>1, StageNames DEF Begun
  <2>2. /\ stage' \in [Tabs -> Stages]
        /\ \A u \in Tabs : stage'[u] = IF u = t THEN "copy" ELSE stage[u]
        /\ Shook' = IF "copy" \in {"new", "handshake"} THEN Shook \ {t} ELSE Shook \cup {t}
        /\ Mapped' = IF "copy" \in {"new", "handshake", "create"} THEN Mapped \ {t}
                     ELSE Mapped \cup {t}
        /\ Begun' = IF "copy" \in {"startPut", "started", "subscribed", "gone"}
                    THEN Begun \cup {t} ELSE Begun \ {t}
    BY <1>1, <2>1, Advance DEF SessionSafety
  <2> QED BY <2>1, <2>2
<1>4. /\ sessions \in Nat /\ cookie \in 0..sessions /\ request \in [Tabs -> 0..sessions]
      /\ live \subseteq 1..sessions /\ maps \in Nat /\ attribute \in [Sessions -> 0..maps]
      /\ wsMap \in [Tabs -> 0..maps]
  BY DEF SessionSafety, SessionTypes
<1>5. /\ maps' = maps + 1 /\ attribute' = [attribute EXCEPT ![request[t]] = maps + 1]
  BY <1>1 DEF SetNewMap
<1>6. request[t] \in 1..sessions /\ request[t] \in Sessions
  BY <1>2, <1>4, Enough DEF SessionSafety, SessionOf, Sessions
<1>7. /\ attribute' \in [Sessions -> 0..maps']
      /\ attribute'[request[t]] # 0
      /\ \A s \in Sessions : s # request[t] => attribute'[s] = attribute[s]
  BY <1>4, <1>5, <1>6
<1>8. SessionTypes'
  <2>1. wsMap' \in [Tabs -> 0..maps']
    BY <1>1, <1>4, <1>5
  <2> QED BY <1>1, <1>3, <1>4, <1>5, <1>7, <2>1 DEF SessionSafety, SessionTypes
<1>9. Counted'
  BY <1>1, <1>2, <1>3, <1>5, CountedKept DEF SessionSafety
<1>10. Requests'
  <2>1. \A u \in Tabs : u # t => request[u] # request[t] /\ stage'[u] = stage[u]
    BY <1>2, <1>3 DEF SessionSafety, Requests, Attended
  <2>2. \A s \in 0..sessions : s # 0 => s \in Sessions
    BY <1>4, Enough DEF SessionSafety, Sessions
  <2>3. cookie # request[t]
    BY <1>2 DEF SessionSafety, Requests, Attended
  <2>4. \A s \in Sessions : s > sessions' => attribute'[s] = 0
    BY <1>1, <1>4, <1>6, <1>7 DEF SessionSafety, Requests, Attended, Sessions
  <2>5. cookie' # 0 => attribute'[cookie'] # 0
    BY <1>1, <1>4, <1>7, <2>2, <2>3 DEF SessionSafety, Requests, Attended
  <2>6. ASSUME NEW u \in Tabs, u # t, request[u] # 0
        PROVE  attribute'[request[u]] = attribute[request[u]]
    BY <1>4, <1>7, <2>1, <2>2, <2>6
  <2>7. stage'[t] = "copy"
    BY <1>3
  <2>8. \A u \in Tabs : SessionOf(u)' <=> SessionOf(u)
    BY <1>1 DEF SessionOf
  <2>9. \A u, v \in Tabs : u \in created' /\ v # u => request'[v] # request'[u]
    BY <1>1 DEF SessionSafety, Requests, Attended
  <2>10. ASSUME NEW u \in Tabs
         PROVE  Attended(u)'
    <3>1. CASE u = t
      BY <3>1, <1>1, <2>8, <1>2, <1>6, <1>7, <2>7, StageNames DEF SessionSafety, Requests, Attended
    <3>2. CASE u # t /\ request[u] # 0
      BY <3>2, <1>1, <2>8, <2>1, <2>6 DEF SessionSafety, Requests, Attended
    <3>3. CASE u # t /\ request[u] = 0
      <4>1. ~ SessionOf(u)
        BY <3>3, <1>4 DEF SessionOf
      <4>2. stage[u] \notin {"create", "copy", "startPut"}
        BY <4>1 DEF SessionSafety, Requests, Attended
      <4> QED BY <3>3, <1>1, <2>8, <4>1, <4>2, <2>1 DEF SessionSafety, Requests, Attended
    <3> QED BY <3>1, <3>2, <3>3
  <2> QED BY <1>1, <2>4, <2>5, <2>8, <2>9, <2>10 DEF Requests, Attended
<1>11. MapsKept
  BY <1>2, <1>7 DEF MapsKept
<1> QED BY <1>8, <1>9, <1>10, <1>11 DEF SessionSafety

\* The response gives the browser a session that has its map.
LEMMA RespondKeeps ==
  ASSUME SessionSafety, NEW t \in Tabs, Handshake(t) \/ ExitStart(t)
  PROVE  SessionSafety' /\ MapsKept
<1> DEFINE x == IF stage[t] = "copy" THEN "connected" ELSE "started"
<1>1. /\ stage[t] \in {"copy", "startPut"} /\ Respond(t) /\ stage' = [stage EXCEPT ![t] = x]
      /\ UNCHANGED <<sessions, live, attribute, maps>>
  BY DEF Handshake, ExitStart
<1>2. /\ sessions \in Nat /\ cookie \in 0..sessions /\ request \in [Tabs -> 0..sessions]
      /\ live \subseteq 1..sessions /\ maps \in Nat /\ attribute \in [Sessions -> 0..maps]
      /\ wsMap \in [Tabs -> 0..maps] /\ viewsMap \in [Maps -> SUBSET Tabs]
      /\ created \subseteq Tabs
  BY DEF SessionSafety, SessionTypes
<1>3. /\ SessionOf(t) /\ attribute[request[t]] # 0
  BY <1>1 DEF SessionSafety, Requests, Attended
<1>4. request[t] \in Sessions /\ request[t] \in 1..sessions /\ attribute[request[t]] \in 1..maps
      /\ attribute[request[t]] \in Maps
  BY <1>2, <1>3, Enough DEF SessionSafety, SessionOf, Sessions, Maps
<1>5. /\ x \in Stages /\ x \in {"connected", "started"}
      /\ stage[t] = "copy" <=> x = "connected"
  BY <1>1, StageNames
<1> HIDE DEF x
<1>6. /\ stage' \in [Tabs -> Stages]
      /\ \A u \in Tabs : stage'[u] = IF u = t THEN x ELSE stage[u]
      /\ Shook \subseteq Shook' /\ Mapped \subseteq Mapped' /\ Begun \subseteq Begun'
  <2>1. /\ stage' \in [Tabs -> Stages]
        /\ \A u \in Tabs : stage'[u] = IF u = t THEN x ELSE stage[u]
    BY <1>1, <1>5, Advance DEF SessionSafety
  <2> QED BY <2>1, <1>1, <1>5 DEF Shook, Mapped, Begun
<1>7. /\ cookie' = (IF t \in created THEN request[t] ELSE cookie)
      /\ request' = [request EXCEPT ![t] = 0] /\ created' = created \ {t}
  BY <1>1 DEF Respond
<1>8. /\ request' \in [Tabs -> 0..sessions'] /\ request'[t] = 0
      /\ \A u \in Tabs : u # t => request'[u] = request[u]
      /\ cookie' \in 0..sessions'
  BY <1>1, <1>2, <1>4, <1>7
<1>9. /\ wsMap' \in [Tabs -> 0..maps'] /\ wsMap'[t] # 0
      /\ \A u \in Tabs : u # t => wsMap'[u] = wsMap[u]
      /\ viewsMap' \in [Maps -> SUBSET Tabs]
  <2>1. CASE Handshake(t)
    <3>1. wsMap' = [wsMap EXCEPT ![t] = attribute[request[t]]] /\ viewsMap' = viewsMap
      BY <2>1 DEF Handshake
    <3> QED BY <3>1, <1>1, <1>2, <1>4
  <2>2. CASE ExitStart(t)
    <3>1. /\ wsMap' = wsMap /\ stage[t] = "startPut"
          /\ viewsMap' = [viewsMap EXCEPT ![attribute[request[t]]] = @ \cup {t}]
      BY <2>2 DEF ExitStart
    <3>2. wsMap[t] # 0
      BY <3>1, StageNames DEF SessionSafety, Requests, Attended
    <3> QED BY <3>1, <3>2, <1>1, <1>2, <1>4
  <2> QED BY <2>1, <2>2
<1>10. SessionTypes'
  BY <1>1, <1>2, <1>6, <1>7, <1>8, <1>9 DEF SessionTypes
<1>11. Counted'
  BY <1>1, <1>6, CountedKept DEF SessionSafety
<1>12. Requests'
  <2>1. ASSUME NEW u \in Tabs, u # t
        PROVE  /\ stage'[u] = stage[u] /\ request'[u] = request[u] /\ wsMap'[u] = wsMap[u]
               /\ (u \in created <=> u \in created') /\ (SessionOf(u)' <=> SessionOf(u))
    BY <2>1, <1>1, <1>6, <1>7, <1>8, <1>9 DEF SessionOf
  <2>2. stage'[t] = x /\ request'[t] = 0 /\ wsMap'[t] # 0 /\ t \notin created'
    BY <1>6, <1>7, <1>8, <1>9
  <2>3. cookie' # 0 => attribute'[cookie'] # 0
    BY <1>1, <1>3, <1>7 DEF SessionSafety, Requests
  <2>4. ASSUME NEW u \in Tabs, u # t, u \in created PROVE request[u] # cookie'
    BY <2>4, <1>7 DEF SessionSafety, Requests, Attended
  <2>5. ASSUME NEW u \in Tabs PROVE Attended(u)'
    <3>1. CASE u = t
      BY <3>1, <2>2, <1>5, StageNames DEF Attended
    <3>2. CASE u # t
      BY <3>2, <2>1, <2>4, <1>1 DEF SessionSafety, Requests, Attended
    <3> QED BY <3>1, <3>2
  <2>6. ASSUME NEW u \in Tabs, NEW v \in Tabs, u \in created', v # u
        PROVE  request'[v] # request'[u]
    <3>1. u # t /\ u \in created /\ request[u] # 0
      BY <2>6, <1>7 DEF SessionSafety, Requests, Attended
    <3>2. CASE v = t
      BY <3>1, <3>2, <2>1, <2>2
    <3>3. CASE v # t
      BY <3>1, <3>3, <2>1, <2>6 DEF SessionSafety, Requests
    <3> QED BY <3>2, <3>3
  <2> QED BY <1>1, <2>3, <2>5, <2>6 DEF SessionSafety, Requests
<1>13. MapsKept
  BY <1>1 DEF MapsKept
<1> QED BY <1>10, <1>11, <1>12, <1>13 DEF SessionSafety

LEMMA EnterStartKeeps ==
  ASSUME SessionSafety, NEW t \in Tabs, EnterStart(t)
  PROVE  SessionSafety' /\ MapsKept
<1> DEFINE x == IF SessionOf(t) /\ attribute[request[t]] # 0 THEN "startPut" ELSE "startCreate"
<1>1. /\ stage[t] = "start" /\ stage' = [stage EXCEPT ![t] = x]
      /\ UNCHANGED <<httpVars, request, created, wsMap>>
  BY DEF EnterStart
<1>2. UNCHANGED <<cookie, sessions, live, attribute, maps, viewsMap>>
  BY <1>1 DEF httpVars
<1>3. /\ sessions \in Nat /\ request \in [Tabs -> 0..sessions] /\ live \subseteq 1..sessions
      /\ t \notin created /\ wsMap[t] # 0
  BY <1>1, StageNames DEF SessionSafety, SessionTypes, Requests, Attended
<1>4. /\ x \in {"startPut", "startCreate"} /\ x \in Stages
      /\ x = "startPut" <=> SessionOf(t)
  <2>1. SessionOf(t) => request[t] # 0
    BY <1>3 DEF SessionOf
  <2>2. SessionOf(t) => attribute[request[t]] # 0
    BY <1>3, <2>1 DEF SessionSafety, Requests, Attended
  <2> QED BY <2>2, StageNames
<1> HIDE DEF x
<1>5. /\ stage' \in [Tabs -> Stages]
      /\ \A u \in Tabs : stage'[u] = IF u = t THEN x ELSE stage[u]
      /\ Shook \subseteq Shook' /\ Mapped \subseteq Mapped' /\ Begun \subseteq Begun'
  <2>1. /\ stage' \in [Tabs -> Stages]
        /\ \A u \in Tabs : stage'[u] = IF u = t THEN x ELSE stage[u]
    BY <1>1, <1>4, Advance DEF SessionSafety
  <2> QED BY <2>1, <1>1, <1>4 DEF Shook, Mapped, Begun
<1>6. SessionTypes'
  BY <1>1, <1>2, <1>5 DEF SessionSafety, SessionTypes
<1>7. Counted'
  BY <1>2, <1>5, CountedKept DEF SessionSafety
<1>8. Requests'
  <2>1. \A u \in Tabs : SessionOf(u)' <=> SessionOf(u)
    BY <1>1, <1>2 DEF SessionOf
  <2>2. ASSUME NEW u \in Tabs PROVE Attended(u)'
    <3>1. CASE u = t
      <4>1. SessionOf(t) => request[t] # 0
        BY <1>3 DEF SessionOf
      <4> QED BY <3>1, <4>1, <2>1, <1>1, <1>2, <1>3, <1>4, <1>5, StageNames
              DEF SessionSafety, Requests, Attended
    <3>2. CASE u # t
      BY <3>2, <2>1, <1>1, <1>2, <1>5 DEF SessionSafety, Requests, Attended
    <3> QED BY <3>1, <3>2
  <2> QED BY <2>2, <1>1, <1>2 DEF SessionSafety, Requests
<1>9. MapsKept
  BY <1>2 DEF MapsKept
<1> QED BY <1>6, <1>7, <1>8, <1>9 DEF SessionSafety

\* A tab whose session is gone makes another one, which nobody knows yet.
LEMMA StartCreateKeeps ==
  ASSUME SessionSafety, NEW t \in Tabs, StartCreate(t)
  PROVE  SessionSafety' /\ MapsKept
<1>1. /\ stage[t] = "startCreate" /\ GetSession(t) /\ SetNewMap(request'[t])
      /\ stage' = [stage EXCEPT ![t] = "startPut"]
      /\ UNCHANGED <<cookie, viewsMap, wsMap>>
  BY DEF StartCreate
<1>2. /\ t \notin created /\ t \notin Begun /\ ~ SessionOf(t) /\ wsMap[t] # 0
  BY <1>1, StageNames DEF SessionSafety, Requests, Attended, Begun
<1>3. /\ stage' \in [Tabs -> Stages]
      /\ \A u \in Tabs : stage'[u] = IF u = t THEN "startPut" ELSE stage[u]
      /\ Shook \subseteq Shook' /\ Mapped \subseteq Mapped' /\ Begun \subseteq Begun'
      /\ Begun # Begun'
  <2>1. "startPut" \in Stages
    BY StageNames
  <2>2. /\ stage' \in [Tabs -> Stages]
        /\ \A u \in Tabs : stage'[u] = IF u = t THEN "startPut" ELSE stage[u]
    BY <1>1, <2>1, Advance DEF SessionSafety
  <2> QED BY <2>2, <1>1 DEF Shook, Mapped, Begun
<1>4. /\ sessions' \in Nat /\ live' \subseteq 1..sessions'
      /\ request' \in [Tabs -> 0..sessions'] /\ created' \subseteq Tabs
      /\ request'[t] \in live' /\ request'[t] \in Sessions
      /\ sessions' = sessions + 1 /\ sessions' \in Sessions
      /\ live' = live \cup {sessions'} /\ created' = created \cup {t}
      /\ request' = [request EXCEPT ![t] = sessions']
      /\ request'[t] = sessions' /\ attribute[sessions'] = 0
  BY <1>1, <1>2, GetSessionGives
<1>5. /\ sessions \in Nat /\ cookie \in 0..sessions /\ request \in [Tabs -> 0..sessions]
      /\ live \subseteq 1..sessions /\ maps \in Nat /\ attribute \in [Sessions -> 0..maps]
      /\ wsMap \in [Tabs -> 0..maps]
  BY DEF SessionSafety, SessionTypes
<1>6. maps' = maps + 1 /\ attribute' = [attribute EXCEPT ![sessions'] = maps + 1]
  BY <1>1, <1>4 DEF SetNewMap
<1>7. /\ attribute' \in [Sessions -> 0..maps'] /\ attribute'[sessions'] # 0
      /\ \A s \in Sessions : s # sessions' => attribute'[s] = attribute[s]
  BY <1>4, <1>5, <1>6
<1>8. SessionTypes'
  <2>1. cookie' \in 0..sessions' /\ wsMap' \in [Tabs -> 0..maps'] /\ maps' \in Nat
    BY <1>1, <1>4, <1>5, <1>6
  <2> QED BY <1>1, <1>3, <1>4, <1>7, <2>1 DEF SessionSafety, SessionTypes
<1>9. Counted'
  BY <1>3, <1>4, <1>6, CountedKept DEF SessionSafety
<1>10. \A s \in 0..sessions : s # 0 => s \in Sessions /\ attribute'[s] = attribute[s]
  <2>1. \A s \in 0..sessions : s # 0 => s \in Sessions /\ s # sessions'
    <3>1. sessions <= 2 * Cardinality(Tabs) /\ Cardinality(Tabs) \in Nat
      BY Enough DEF SessionSafety
    <3> QED BY <3>1, <1>4, <1>5 DEF Sessions
  <2> QED BY <2>1, <1>7
<1>11. Requests'
  <2>1. ASSUME NEW u \in Tabs, u # t
        PROVE  /\ stage'[u] = stage[u] /\ request'[u] = request[u] /\ wsMap'[u] = wsMap[u]
               /\ (u \in created <=> u \in created') /\ (SessionOf(u)' <=> SessionOf(u))
               /\ request[u] # sessions' /\ request[u] \in 0..sessions
    <3>1. request'[u] = request[u] /\ request[u] \in 0..sessions /\ request[u] # sessions'
      BY <2>1, <1>4, <1>5
    <3> QED BY <2>1, <3>1, <1>1, <1>3, <1>4 DEF SessionOf
  <2>2. /\ stage'[t] = "startPut" /\ request'[t] = sessions' /\ SessionOf(t)' /\ t \in created'
        /\ wsMap'[t] # 0
    BY <1>1, <1>2, <1>3, <1>4 DEF SessionOf
  <2>3. cookie' # 0 => attribute'[cookie'] # 0
    BY <1>1, <1>5, <1>10 DEF SessionSafety, Requests
  <2>4. \A s \in Sessions : s > sessions' => attribute'[s] = 0
    BY <1>4, <1>5, <1>7 DEF SessionSafety, Requests, Sessions
  <2>5. sessions' # 0 /\ sessions' # cookie'
    BY <1>1, <1>4, <1>5
  <2>6. ASSUME NEW u \in Tabs PROVE Attended(u)'
    <3>1. CASE u = t
      BY <3>1, <2>2, <2>5, <1>7, StageNames DEF Attended
    <3>2. CASE u # t /\ request[u] # 0
      <4>1. attribute'[request[u]] = attribute[request[u]]
        BY <3>2, <2>1, <1>10
      <4> QED BY <3>2, <4>1, <2>1, <1>1 DEF SessionSafety, Requests, Attended
    <3>3. CASE u # t /\ request[u] = 0
      <4>1. ~ SessionOf(u)
        BY <3>3, <1>5 DEF SessionOf
      <4>2. stage[u] \notin {"create", "copy", "startPut"}
        BY <4>1 DEF SessionSafety, Requests, Attended
      <4> QED BY <3>3, <4>1, <4>2, <2>1, <1>1 DEF SessionSafety, Requests, Attended
    <3> QED BY <3>1, <3>2, <3>3
  <2>7. ASSUME NEW u \in Tabs, NEW v \in Tabs, u \in created', v # u
        PROVE  request'[v] # request'[u]
    <3>1. CASE u = t
      BY <3>1, <2>1, <2>2, <2>7
    <3>2. CASE v = t
      BY <3>2, <2>1, <2>2, <2>7
    <3>3. CASE u # t /\ v # t
      BY <3>3, <2>1, <2>7 DEF SessionSafety, Requests
    <3> QED BY <3>1, <3>2, <3>3
  <2> QED BY <2>3, <2>4, <2>6, <2>7 DEF Requests
<1>12. MapsKept
  BY <1>4, <1>7 DEF MapsKept
<1> QED BY <1>8, <1>9, <1>11, <1>12 DEF SessionSafety

\* A session that expires is used by no request; the steps in which only a tab moves on.
LEMMA OthersKeep ==
  ASSUME SessionSafety, UNCHANGED <<cookie, sessions, attribute, maps, viewsMap, request, created,
                                    wsMap>>,
         \/ live' = live /\ stage' = stage
         \/ \E s \in Sessions : Expire(s)
         \/ \E t \in Tabs : live' = live /\ (Subscribe(t) \/ Disconnect(t))
  PROVE  SessionSafety' /\ MapsKept
<1>1. CASE stage' = stage
  <2>1. live' = live \/ \E s \in Sessions : Expire(s)
    <3>1. ASSUME NEW t \in Tabs, Subscribe(t) \/ Disconnect(t) PROVE stage' # stage
      <4>1. \E x \in {"subscribed", "gone"} : stage' = [stage EXCEPT ![t] = x] /\ stage[t] # x
        BY <3>1, StageNames DEF Subscribe, Disconnect
      <4> QED BY <4>1 DEF SessionSafety, SessionTypes
    <3> QED BY <3>1, <1>1
  <2>2. /\ live' \subseteq live
        /\ \A u \in Tabs : request[u] \in live /\ request[u] \notin live'
                         => stage[u] \notin InRequest
    BY <2>1 DEF Expire
  <2>3. \A u \in Tabs : stage[u] \in {"create", "copy", "startPut"} => stage[u] \in InRequest
    BY DEF InRequest, Starting
  <2>4. SessionTypes'
    BY <1>1, <2>2 DEF SessionSafety, SessionTypes
  <2>5. Counted'
    BY <1>1 DEF SessionSafety, Counted, Shook, Mapped, Begun
  <2>6. Requests'
    BY <1>1, <2>2, <2>3 DEF SessionSafety, Requests, Attended, SessionOf
  <2> QED BY <2>4, <2>5, <2>6 DEF SessionSafety, MapsKept
<1>2. ASSUME NEW t \in Tabs, live' = live, Subscribe(t) \/ Disconnect(t)
      PROVE  SessionSafety' /\ MapsKept
  <2>1. PICK x \in {"subscribed", "gone"} : /\ stage' = [stage EXCEPT ![t] = x]
                                            /\ stage[t] \in Open
    BY <1>2, StageNames DEF Subscribe, Disconnect
  <2>2. x \in Stages
    BY StageNames
  <2>3. /\ stage' \in [Tabs -> Stages]
        /\ \A u \in Tabs : stage'[u] = IF u = t THEN x ELSE stage[u]
        /\ Shook \subseteq Shook' /\ Mapped \subseteq Mapped' /\ Begun \subseteq Begun'
    <3>1. /\ stage' \in [Tabs -> Stages]
          /\ \A u \in Tabs : stage'[u] = IF u = t THEN x ELSE stage[u]
      BY <2>1, <2>2, Advance DEF SessionSafety
    <3> QED BY <3>1, <2>1 DEF Shook, Mapped, Begun
  <2>4. SessionTypes'
    BY <1>2, <2>3 DEF SessionSafety, SessionTypes
  <2>5. Counted'
    BY <2>3, CountedKept DEF SessionSafety
  <2>6. Requests'
    <3>1. /\ t \notin created /\ wsMap[t] # 0 /\ request[t] = 0
      BY <2>1, StageNames DEF SessionSafety, Requests, Attended
    <3>2. \A u \in Tabs : SessionOf(u)' <=> SessionOf(u)
      BY <1>2 DEF SessionOf
    <3>3. ASSUME NEW u \in Tabs PROVE Attended(u)'
      <4>1. CASE u = t
        BY <4>1, <3>1, <3>2, <2>3, <1>2, StageNames DEF Attended
      <4>2. CASE u # t
        BY <4>2, <3>2, <2>3, <1>2 DEF SessionSafety, Requests, Attended
      <4> QED BY <4>1, <4>2
    <3> QED BY <3>3 DEF SessionSafety, Requests
  <2> QED BY <2>4, <2>5, <2>6 DEF SessionSafety, MapsKept
<1>3. stage' = stage \/ \E t \in Tabs : live' = live /\ (Subscribe(t) \/ Disconnect(t))
  BY DEF Expire, tabVars
<1> QED BY <1>1, <1>2, <1>3

LEMMA SessionInit == Init => SessionSafety
<1> SUFFICES ASSUME Init PROVE SessionSafety
  OBVIOUS
<1>1. SessionTypes
  BY StageNames DEF Init, SessionTypes
<1>2. Counted
  <2>1. Shook = {} /\ Mapped = {} /\ Begun = {}
    BY DEF Init, Shook, Mapped, Begun
  <2>2. sessions = 0 /\ maps = 0
    BY DEF Init
  <2> QED BY <2>1, <2>2, FS_EmptySet DEF Counted
<1>3. Requests
  BY StageNames DEF Init, Requests, Attended, SessionOf
<1> QED BY <1>1, <1>2, <1>3 DEF SessionSafety

\* Every step keeps it, and no step gives a session another map.
LEMMA SessionNext ==
  ASSUME SessionSafety, [Next]_vars
  PROVE  SessionSafety' /\ MapsKept
<1> DEFINE still == UNCHANGED <<cookie, sessions, attribute, maps, viewsMap, request, created,
                                wsMap>>
<1>1. ASSUME NEW s \in Sessions, Expire(s) PROVE SessionSafety' /\ MapsKept
  <2>1. still
    BY <1>1 DEF Expire, tabVars
  <2> QED BY <1>1, <2>1, OthersKeep
<1>2. ASSUME NEW t \in Tabs, Connect(t) \/ RequestStart(t) PROVE SessionSafety' /\ MapsKept
  BY <1>2, ConnectKeeps
<1>3. ASSUME NEW t \in Tabs, Subscribe(t) \/ Disconnect(t) PROVE SessionSafety' /\ MapsKept
  <2>1. still /\ live' = live
    BY <1>3 DEF Subscribe, Disconnect, httpVars
  <2> QED BY <1>3, <2>1, OthersKeep
<1>4. ASSUME NEW t \in Tabs, Proceed(t) PROVE SessionSafety' /\ MapsKept
  BY <1>2, <1>3, <1>4, BeforeHandshakeKeeps, CreateMapKeeps, RespondKeeps, EnterStartKeeps,
     StartCreateKeeps DEF Proceed
<1>5. ASSUME UNCHANGED <<httpVars, tabVars>> PROVE SessionSafety' /\ MapsKept
  <2>1. still /\ live' = live /\ stage' = stage
    BY <1>5 DEF httpVars, tabVars
  <2> QED BY <2>1, OthersKeep
<1>6. ASSUME NEW t \in Tabs, Move(t) \/ SendToClient(t) PROVE SessionSafety' /\ MapsKept
  BY <1>5, <1>6 DEF Move, SendToClient
<1>7. ASSUME NEW n \in 1..Pool, Process(n) \/ Receive(n) PROVE SessionSafety' /\ MapsKept
  BY <1>5, <1>7 DEF Process, ProcessSubscribe, PositionsView, Receive
<1>8. ASSUME Wait \/ UNCHANGED vars PROVE SessionSafety' /\ MapsKept
  BY <1>5, <1>8 DEF Wait, vars
<1> QED BY <1>1, <1>2, <1>3, <1>4, <1>6, <1>7, <1>8 DEF Next

LEMMA SessionInvariant == Spec => []SessionSafety
<1>1. SessionSafety /\ [Next]_vars => SessionSafety'
  BY SessionNext
<1> QED BY <1>1, SessionInit, PTL DEF Spec

(* beforeHandshake (LatestPositionConfiguration, lines 81-86) and start (lines  *)
(* 136-141) look for the map of the session and put one there without a common  *)
(* lock; all the same the map of a session is never replaced, since only the    *)
(* request that created the session knows it until the map is in.               *)
THEOREM SessionMapIsNeverReplaced == Spec => MapIsNeverReplaced
<1>1. SessionSafety /\ [Next]_vars
      => [\A s \in Sessions : attribute[s] # 0 => attribute'[s] = attribute[s]]_vars
  BY SessionNext DEF MapsKept
<1> QED BY <1>1, SessionInvariant, PTL DEF Spec, MapIsNeverReplaced

-----------------------------------------------------------------------------
(* The tab and its view.  A tab that was alone without a session leads: it *)
(* creates the one the others will know.  Otherwise it follows: it has the *)
(* session of the cookie, as everybody under way has one that is known.    *)
Underway == Connecting \cup {"start"} \cup Starting

Leads(t) ==
  /\ cookie \notin live
  /\ stage[t] \in {"handshake", "create", "copy"}
  /\ \A u \in Tabs \ {t} : stage[u] \notin Underway
  /\ stage[t] = "handshake" => request[t] = cookie
  /\ stage[t] # "handshake" => t \in created

Known ==
  /\ cookie \in live
  /\ \A u \in Tabs : stage[u] \in InFlight => u \notin created /\ SessionOf(u)

Follows(t) ==
  /\ Known
  /\ stage[t] \in {"handshake", "copy", "start"} => request[t] = cookie
  /\ stage[t] \in {"connected", "start"} => wsMap[t] = attribute[cookie]

Found(t) ==
  t \notin overlapped \cup expired =>
    /\ stage[t] \in Connecting \cup {"start"} => Leads(t) \/ Follows(t)
    /\ stage[t] # "startCreate"
    /\ stage[t] = "startPut" => wsMap[t] = attribute[request[t]]
    /\ stage[t] \in {"started", "subscribed"} => t \in viewsMap[wsMap[t]]

FoundSafety == \A t \in Tabs : Found(t)

TabStep(t) == Connect(t) \/ Proceed(t) \/ Disconnect(t)

\* A step of a tab leaves the others where they are.
LEMMA Elsewhere ==
  ASSUME SessionSafety, NEW t \in Tabs, TabStep(t)
  PROVE  /\ \A u \in Tabs : u # t => /\ stage'[u] = stage[u] /\ request'[u] = request[u]
                                     /\ wsMap'[u] = wsMap[u] /\ (u \in created <=> u \in created')
         /\ \A m \in Maps : viewsMap[m] \subseteq viewsMap'[m]
         /\ overlapped \subseteq overlapped' /\ expired' = expired
<1>1. /\ stage \in [Tabs -> Stages] /\ request \in [Tabs -> 0..sessions]
      /\ wsMap \in [Tabs -> 0..maps] /\ viewsMap \in [Maps -> SUBSET Tabs]
  BY DEF SessionSafety, SessionTypes
<1>2. ASSUME NEW u \in Tabs, u # t PROVE stage'[u] = stage[u]
  BY <1>1, <1>2 DEF TabStep, Connect, Proceed, BeforeHandshake, CreateMap, Handshake, RequestStart,
                    EnterStart, StartCreate, ExitStart, Subscribe, Disconnect
<1>3. ASSUME NEW u \in Tabs, u # t
      PROVE  request'[u] = request[u] /\ (u \in created <=> u \in created')
  BY <1>1, <1>3 DEF TabStep, Connect, Proceed, BeforeHandshake, CreateMap, Handshake, RequestStart,
                    EnterStart, StartCreate, ExitStart, Subscribe, Disconnect, GetSession, Respond
<1>4. ASSUME NEW u \in Tabs, u # t PROVE wsMap'[u] = wsMap[u]
  BY <1>1, <1>4 DEF TabStep, Connect, Proceed, BeforeHandshake, CreateMap, Handshake, RequestStart,
                    EnterStart, StartCreate, ExitStart, Subscribe, Disconnect
<1>5. ASSUME NEW m \in Maps PROVE viewsMap[m] \subseteq viewsMap'[m]
  BY <1>1 DEF TabStep, Connect, Proceed, BeforeHandshake, CreateMap, Handshake, RequestStart,
              EnterStart, StartCreate, ExitStart, Subscribe, Disconnect, httpVars
<1>6. overlapped \subseteq overlapped' /\ expired' = expired
  BY DEF TabStep, Connect, Proceed, BeforeHandshake, CreateMap, Handshake, RequestStart,
         EnterStart, StartCreate, ExitStart, Subscribe, Disconnect, historyVars
<1> QED BY <1>2, <1>3, <1>4, <1>5, <1>6

\* As long as all sessions are known, no request makes one, and none a map.
LEMMA KnownKept ==
  ASSUME SessionSafety, Known, NEW t \in Tabs, TabStep(t)
  PROVE  Known' /\ UNCHANGED <<cookie, live, attribute>>
<1>1. /\ stage[t] \in InFlight => t \notin created /\ SessionOf(t)
      /\ stage[t] # "create" /\ stage[t] # "startCreate"
  BY StageNames DEF Known, SessionSafety, Requests, Attended
<1>2. UNCHANGED <<cookie, live, attribute>>
  <2>1. CASE Connect(t) \/ RequestStart(t) \/ EnterStart(t) \/ Subscribe(t) \/ Disconnect(t)
    BY <2>1 DEF Connect, RequestStart, EnterStart, Subscribe, Disconnect, httpVars
  <2>2. CASE BeforeHandshake(t)
    BY <2>2, <1>1, StageNames DEF BeforeHandshake, GetSession
  <2>3. CASE Handshake(t) \/ ExitStart(t)
    <3>1. t \notin created
      BY <2>3, <1>1, StageNames DEF Handshake, ExitStart
    <3> QED BY <2>3, <3>1 DEF Handshake, ExitStart, Respond
  <2> QED BY <2>1, <2>2, <2>3, <1>1 DEF TabStep, Proceed, CreateMap, StartCreate
<1>3. ASSUME stage'[t] \in InFlight PROVE t \notin created' /\ request'[t] \in live
  <2>1. /\ request \in [Tabs -> 0..sessions] /\ stage \in [Tabs -> Stages]
    BY DEF SessionSafety, SessionTypes
  <2>2. CASE Connect(t) \/ RequestStart(t)
    <3>1. t \notin created /\ request'[t] = cookie /\ created' = created
      BY <2>1, <2>2, StageNames DEF Connect, RequestStart, SessionSafety, Requests, Attended
    <3> QED BY <3>1 DEF Known
  <2>3. CASE BeforeHandshake(t) \/ EnterStart(t)
    <3>1. t \notin created /\ SessionOf(t)
      BY <2>3, <1>1, StageNames DEF BeforeHandshake, EnterStart
    <3> QED BY <2>3, <3>1 DEF BeforeHandshake, EnterStart, GetSession, SessionOf
  <2>4. CASE Handshake(t) \/ ExitStart(t) \/ Subscribe(t) \/ Disconnect(t)
    BY <2>1, <2>4, <1>3, StageNames DEF Handshake, ExitStart, Subscribe, Disconnect
  <2> QED BY <2>2, <2>3, <2>4, <1>1 DEF TabStep, Proceed, CreateMap, StartCreate
<1>4. ASSUME NEW u \in Tabs, u # t, stage'[u] \in InFlight
      PROVE  u \notin created' /\ request'[u] \in live
  BY <1>4, Elsewhere DEF Known, SessionOf
<1> QED BY <1>2, <1>3, <1>4 DEF Known, SessionOf

\* The others, while a tab makes a step: who leads cannot be met by a request, and who
\* connects without a session while it does overlaps with it.
LEMMA OthersFound ==
  ASSUME SessionSafety, FoundSafety, NEW t \in Tabs, TabStep(t), NEW u \in Tabs, u # t
  PROVE  Found(u)'
<1>1. /\ stage'[u] = stage[u] /\ request'[u] = request[u] /\ wsMap'[u] = wsMap[u]
      /\ (u \in created <=> u \in created')
      /\ \A m \in Maps : viewsMap[m] \subseteq viewsMap'[m]
      /\ overlapped \subseteq overlapped' /\ expired' = expired
  BY Elsewhere
<1>2. MapsKept
  <2>1. [Next]_vars
    BY DEF TabStep, Next
  <2> QED BY <2>1, SessionNext
<1>3. SUFFICES ASSUME u \notin overlapped' \cup expired'
               PROVE  /\ stage[u] \in Connecting \cup {"start"} => Leads(u)' \/ Follows(u)'
                      /\ stage[u] # "startCreate"
                      /\ stage[u] = "startPut" => wsMap[u] = attribute'[request[u]]
                      /\ stage[u] \in {"started", "subscribed"} => u \in viewsMap'[wsMap[u]]
  BY <1>1 DEF Found
<1>4. /\ stage[u] \in Connecting \cup {"start"} => Leads(u) \/ Follows(u)
      /\ stage[u] # "startCreate"
      /\ stage[u] = "startPut" => wsMap[u] = attribute[request[u]]
      /\ stage[u] \in {"started", "subscribed"} => u \in viewsMap[wsMap[u]]
  BY <1>1, <1>3 DEF FoundSafety, Found
<1>5. ASSUME Follows(u) PROVE Follows(u)'
  <2>1. Known' /\ UNCHANGED <<cookie, live, attribute>>
    BY <1>5, KnownKept DEF Follows
  <2> QED BY <1>1, <1>5, <2>1 DEF Follows
<1>6. ASSUME Leads(u), stage[u] \in Connecting PROVE Leads(u)'
  <2>1. stage[t] \notin Underway
    BY <1>6 DEF Leads
  <2>2. ~ Connect(t)
    <3>1. u \in {v \in Tabs \ {t} : stage[v] \in Connecting \cup {"start"} \cup Starting}
      BY <1>6
    <3> QED BY <1>3, <1>6, <3>1 DEF Connect, Leads
  <2>3. Subscribe(t) \/ Disconnect(t)
    BY <2>1, <2>2, StageNames DEF Underway, TabStep, Proceed, BeforeHandshake, CreateMap, Handshake,
                                  RequestStart, EnterStart, StartCreate, ExitStart
  <2>4. UNCHANGED <<cookie, live>> /\ stage'[t] \notin Underway
    <3>1. stage \in [Tabs -> Stages]
      BY DEF SessionSafety, SessionTypes
    <3> QED BY <3>1, <2>3, StageNames DEF Subscribe, Disconnect, httpVars, Underway
  <2>5. \A v \in Tabs \ {u} : stage'[v] \notin Underway
    BY <2>4, <1>6, Elsewhere DEF Leads
  <2> QED BY <1>1, <1>6, <2>4, <2>5 DEF Leads
<1>7. stage[u] = "startPut" => attribute'[request[u]] = attribute[request[u]]
  <2> SUFFICES ASSUME stage[u] = "startPut" PROVE attribute'[request[u]] = attribute[request[u]]
    OBVIOUS
  <2>1. attribute[request[u]] # 0 /\ request[u] \in live /\ live \subseteq 1..sessions
    BY DEF SessionSafety, SessionTypes, Requests, Attended, SessionOf
  <2>2. sessions <= 2 * Cardinality(Tabs) /\ Cardinality(Tabs) \in Nat /\ sessions \in Nat
    BY Enough DEF SessionSafety, SessionTypes
  <2>3. request[u] \in Sessions
    <3>1. request[u] \in 1..sessions
      BY <2>1
    <3> QED BY <2>2, <3>1 DEF Sessions
  <2> QED BY <1>2, <2>1, <2>3 DEF MapsKept
<1>8. stage[u] \in {"started", "subscribed"} => wsMap[u] \in Maps
  <2>1. stage[u] \in {"started", "subscribed"} => wsMap[u] # 0
    BY StageNames DEF SessionSafety, Requests, Attended
  <2>2. maps <= 2 * Cardinality(Tabs) /\ Cardinality(Tabs) \in Nat /\ maps \in Nat
        /\ wsMap[u] \in 0..maps
    BY Enough DEF SessionSafety, SessionTypes
  <2> QED BY <2>1, <2>2 DEF Maps
<1>9. stage[u] \in Connecting \cup {"start"} => Leads(u)' \/ Follows(u)'
  <2>1. Leads(u) => stage[u] \in Connecting
    BY StageNames DEF Leads
  <2> QED BY <1>4, <1>5, <1>6, <2>1
<1> QED BY <1>1, <1>4, <1>7, <1>8, <1>9

\* The tab that makes the step.
LEMMA SelfFound ==
  ASSUME SessionSafety, FoundSafety, NEW t \in Tabs, TabStep(t)
  PROVE  Found(t)'
<1>1. /\ stage \in [Tabs -> Stages] /\ request \in [Tabs -> 0..sessions]
      /\ wsMap \in [Tabs -> 0..maps] /\ viewsMap \in [Maps -> SUBSET Tabs]
      /\ created \subseteq Tabs /\ attribute \in [Sessions -> 0..maps]
  BY DEF SessionSafety, SessionTypes
<1>2. overlapped \subseteq overlapped' /\ expired' = expired
  BY Elsewhere
<1>3. SUFFICES ASSUME t \notin overlapped' \cup expired'
               PROVE  /\ stage'[t] \in Connecting \cup {"start"} => Leads(t)' \/ Follows(t)'
                      /\ stage'[t] # "startCreate"
                      /\ stage'[t] = "startPut" => wsMap'[t] = attribute'[request'[t]]
                      /\ stage'[t] \in {"started", "subscribed"} => t \in viewsMap'[wsMap'[t]]
  BY DEF Found
<1>4. /\ stage[t] \in Connecting \cup {"start"} => Leads(t) \/ Follows(t)
      /\ stage[t] # "startCreate"
      /\ stage[t] = "startPut" => wsMap[t] = attribute[request[t]]
      /\ stage[t] \in {"started", "subscribed"} => t \in viewsMap[wsMap[t]]
  BY <1>2, <1>3 DEF FoundSafety, Found
<1>5. Known => Known' /\ UNCHANGED <<cookie, live, attribute>>
  BY KnownKept
<1>6. CASE Connect(t)
  <2>1. /\ stage'[t] = "handshake" /\ request'[t] = cookie /\ UNCHANGED <<cookie, live>>
    BY <1>1, <1>6 DEF Connect, httpVars
  <2>2. CASE cookie \in live
    <3>1. Known
      <4>1. ASSUME NEW u \in Tabs, stage[u] \in InFlight
            PROVE  u \notin created /\ SessionOf(u)
        <5>1. u # t
          BY <1>6, <4>1, StageNames DEF Connect
        <5>2. stage[u] \in Connecting \cup {"start"} \cup Starting
          BY <4>1, StageNames
        <5> DEFINE without == {v \in {w \in Tabs \ {t} : stage[w] \in Connecting \cup {"start"}
                                                                       \cup Starting} :
                                 /\ stage[v] \in InFlight
                                 /\ v \in created \/ request[v] \notin live}
        <5>3. without = {}
          BY <1>3, <1>6, <2>2 DEF Connect
        <5> QED BY <4>1, <5>1, <5>2, <5>3 DEF SessionOf
      <4> QED BY <2>2, <4>1 DEF Known
    <3> QED BY <2>1, <3>1, <1>5, StageNames DEF Follows
  <2>3. CASE cookie \notin live
    <3>1. \A u \in Tabs \ {t} : stage[u] \notin Underway
      BY <1>3, <1>6, <2>3 DEF Connect, Underway
    <3>2. \A u \in Tabs \ {t} : stage'[u] \notin Underway
      BY <3>1, Elsewhere
    <3> QED BY <2>1, <2>3, <3>2, StageNames DEF Leads
  <2> QED BY <2>2, <2>3
<1>7. CASE BeforeHandshake(t)
  <2>1. /\ stage[t] = "handshake" /\ GetSession(t) /\ stage'[t] \in {"create", "copy"}
        /\ stage'[t] = "create" <=> attribute[request'[t]] = 0
        /\ UNCHANGED <<cookie, attribute>>
    BY <1>1, <1>7 DEF BeforeHandshake
  <2>2. CASE Follows(t)
    <3>1. SessionOf(t) /\ UNCHANGED <<live, request, created>>
      BY <2>1, <2>2, StageNames DEF Follows, Known, GetSession
    <3>2. stage'[t] = "copy"
      <4>1. request[t] # 0 /\ t \notin created
        <5>1. live \subseteq 1..sessions /\ sessions \in Nat
          BY DEF SessionSafety, SessionTypes
        <5> QED BY <2>1, <2>2, <3>1, <5>1, StageNames DEF SessionOf, Follows, Known
      <4> QED BY <2>1, <3>1, <4>1 DEF SessionSafety, Requests, Attended
    <3>3. Follows(t)'
      BY <2>1, <2>2, <3>1, <3>2, <1>5 DEF Follows
    <3> QED BY <3>2, <3>3, StageNames
  <2>3. CASE Leads(t)
    <3>1. /\ ~ SessionOf(t) /\ live' = live \cup {sessions + 1} /\ created' = created \cup {t}
          /\ request[t] = cookie
      BY <2>1, <2>3 DEF GetSession, SessionOf, Leads
    <3>2. cookie' \notin live'
      <4>1. sessions \in Nat /\ cookie \in 0..sessions
        BY DEF SessionSafety, SessionTypes
      <4> QED BY <2>1, <2>3, <3>1, <4>1 DEF Leads
    <3>3. \A u \in Tabs \ {t} : stage'[u] \notin Underway
      BY <2>3, Elsewhere DEF Leads
    <3> QED BY <2>1, <3>1, <3>2, <3>3, StageNames DEF Leads
  <2> QED BY <2>1, <2>2, <2>3, <1>4, StageNames
<1>8. CASE CreateMap(t)
  <2>1. /\ stage[t] = "create" /\ stage'[t] = "copy" /\ UNCHANGED <<cookie, live, created>>
        /\ t \in created
    BY <1>1, <1>8 DEF CreateMap, SessionSafety, Requests, Attended
  <2>2. Leads(t)
    BY <2>1, <1>4, StageNames DEF Follows, Known
  <2>3. \A u \in Tabs \ {t} : stage'[u] \notin Underway
    BY <2>2, Elsewhere DEF Leads
  <2> QED BY <2>1, <2>2, <2>3, StageNames DEF Leads
<1>9. CASE Handshake(t)
  <2>1. /\ stage[t] = "copy" /\ stage'[t] = "connected" /\ UNCHANGED <<live, attribute>>
        /\ wsMap'[t] = attribute[request[t]] /\ Respond(t)
    BY <1>1, <1>9 DEF Handshake
  <2>2. CASE Follows(t)
    <3>1. Follows(t)'
      BY <2>1, <2>2, <1>5 DEF Follows
    <3> QED BY <2>1, <3>1, StageNames
  <2>3. CASE Leads(t)
    <3>1. /\ cookie' = request[t] /\ SessionOf(t)
      BY <2>1, <2>3 DEF Leads, Respond, SessionSafety, Requests, Attended
    <3>2. \A u \in Tabs : stage'[u] \notin InFlight
      <4>1. ASSUME NEW u \in Tabs, u # t PROVE stage'[u] \notin InFlight
        BY <4>1, <2>3, Elsewhere, StageNames DEF Leads, Underway
      <4> QED BY <4>1, <2>1, StageNames
    <3>3. Known'
      BY <2>1, <3>1, <3>2 DEF Known, SessionOf
    <3> QED BY <2>1, <3>1, <3>3, StageNames DEF Follows
  <2> QED BY <2>1, <2>2, <2>3, <1>4, StageNames
<1>10. CASE RequestStart(t)
  <2>1. /\ stage[t] = "connected" /\ stage'[t] = "start" /\ request'[t] = cookie
        /\ UNCHANGED <<cookie, attribute, wsMap>>
    BY <1>1, <1>10 DEF RequestStart, httpVars
  <2>2. Follows(t)
    BY <2>1, <1>4, StageNames DEF Leads
  <2> QED BY <2>1, <2>2, <1>5, StageNames DEF Follows
<1>11. CASE EnterStart(t)
  <2>1. Follows(t)
    BY <1>4, <1>11, StageNames DEF EnterStart, Leads
  <2>2. SessionOf(t) /\ t \notin created /\ request[t] = cookie /\ wsMap[t] = attribute[cookie]
    BY <2>1, <1>11, StageNames DEF EnterStart, Follows, Known
  <2>3. attribute[request[t]] # 0
    <3>1. live \subseteq 1..sessions /\ sessions \in Nat
      BY DEF SessionSafety, SessionTypes
    <3>2. request[t] # 0
      BY <2>2, <3>1 DEF SessionOf
    <3> QED BY <2>2, <3>2 DEF SessionSafety, Requests, Attended
  <2>4. /\ stage'[t] = "startPut" /\ UNCHANGED <<request, wsMap, attribute>>
    BY <1>1, <1>11, <2>2, <2>3 DEF EnterStart, httpVars
  <2> QED BY <2>2, <2>4, StageNames
<1>12. ~ StartCreate(t)
  BY <1>4 DEF StartCreate
<1>13. CASE ExitStart(t)
  <2>1. /\ stage[t] = "startPut" /\ stage'[t] = "started" /\ UNCHANGED wsMap
        /\ viewsMap' = [viewsMap EXCEPT ![wsMap[t]] = @ \cup {t}]
    BY <1>1, <1>4, <1>13 DEF ExitStart
  <2>2. wsMap[t] \in Maps
    <3>1. wsMap[t] # 0
      BY <2>1, StageNames DEF SessionSafety, Requests, Attended
    <3>2. maps <= 2 * Cardinality(Tabs) /\ Cardinality(Tabs) \in Nat /\ maps \in Nat
      BY Enough DEF SessionSafety, SessionTypes
    <3> QED BY <1>1, <3>1, <3>2 DEF Maps
  <2> QED BY <1>1, <2>1, <2>2, StageNames
<1>14. CASE Subscribe(t) \/ Disconnect(t)
  <2>1. /\ UNCHANGED <<wsMap, viewsMap>>
        /\ \/ stage[t] = "started" /\ stage'[t] = "subscribed"
           \/ stage'[t] = "gone"
    BY <1>1, <1>14 DEF Subscribe, Disconnect, httpVars
  <2> QED BY <2>1, <1>4, StageNames
<1> QED BY <1>6, <1>7, <1>8, <1>9, <1>10, <1>11, <1>12, <1>13, <1>14 DEF TabStep, Proceed

LEMMA FoundNext ==
  ASSUME SessionSafety, FoundSafety, [Next]_vars
  PROVE  FoundSafety'
<1>1. ASSUME NEW s \in Sessions, Expire(s) PROVE FoundSafety'
  <2>1. /\ UNCHANGED <<stage, wsMap, request, attribute, viewsMap>> /\ overlapped' = overlapped
        /\ expired' = expired \cup {t \in Tabs : stage[t] \in Connecting \cup {"start"}}
    BY <1>1 DEF Expire, tabVars
  <2> QED BY <2>1 DEF FoundSafety, Found
<1>2. ASSUME NEW t \in Tabs, TabStep(t) PROVE FoundSafety'
  BY <1>2, OthersFound, SelfFound DEF FoundSafety
<1>3. ASSUME UNCHANGED <<httpVars, tabVars, overlapped, expired>> PROVE FoundSafety'
  <2>1. UNCHANGED <<cookie, live, attribute, viewsMap, stage, request, created, wsMap, overlapped,
                    expired>>
    BY <1>3 DEF httpVars, tabVars
  <2> QED BY <2>1 DEF FoundSafety, Found, Leads, Follows, Known, SessionOf
<1>4. ASSUME NEW t \in Tabs, Move(t) \/ SendToClient(t) PROVE FoundSafety'
  BY <1>3, <1>4 DEF Move, SendToClient, historyVars
<1>5. ASSUME NEW n \in 1..Pool, Process(n) \/ Receive(n) PROVE FoundSafety'
  BY <1>3, <1>5 DEF Process, ProcessSubscribe, PositionsView, Receive
<1>6. ASSUME Wait \/ UNCHANGED vars PROVE FoundSafety'
  BY <1>3, <1>6 DEF Wait, vars, historyVars
<1> QED BY <1>1, <1>2, <1>4, <1>5, <1>6 DEF Next, TabStep

LEMMA FoundInvariant == Spec => []FoundSafety
<1>1. Init => FoundSafety
  BY StageNames DEF Init, FoundSafety, Found
<1>2. SessionSafety /\ FoundSafety /\ [Next]_vars => FoundSafety'
  BY FoundNext
<1> QED BY <1>1, <1>2, SessionInvariant, PTL DEF Spec

-----------------------------------------------------------------------------
(* What waits in a channel: the numbers of the messages of a tab, which    *)
(* rise.  number says which number a message has.                          *)
Numbers(box, number, kept, t) == {number[box[n]] : n \in {m \in kept : box[m].tab = t}}
Waiting(box, number, t) == Numbers(box, number, 1..Len(box), t)

Rising(box, number) ==
  \A i, j \in 1..Len(box) :
    i < j /\ box[i].tab = box[j].tab => number[box[i]] < number[box[j]]

\* A part of a channel, in order.
LEMMA PartWaits ==
  ASSUME NEW S, NEW number \in [S -> Nat], NEW big \in Seq(S), NEW small \in Seq(S),
         NEW kept \in SUBSET (1..Len(big)), Part(small, big, kept), Rising(big, number)
  PROVE  /\ Rising(small, number)
         /\ \A t : Waiting(small, number, t) = Numbers(big, number, kept, t)
<1>1. PICK f : f \in Indexes(small, big, kept)
  BY DEF Part
<1>2. /\ f \in [1..Len(small) -> kept]
      /\ \A i \in 1..Len(small) : small[i] = big[f[i]]
      /\ \A i, j \in 1..Len(small) : i < j => f[i] < f[j]
      /\ \A n \in kept : \E i \in 1..Len(small) : f[i] = n
  BY <1>1 DEF Indexes
<1>3. \A i \in 1..Len(small) : f[i] \in kept /\ f[i] \in 1..Len(big)
  BY <1>2
<1>4. Rising(small, number)
  <2> SUFFICES ASSUME NEW i \in 1..Len(small), NEW j \in 1..Len(small), i < j,
                      small[i].tab = small[j].tab
               PROVE  number[small[i]] < number[small[j]]
    BY DEF Rising
  <2>1. f[i] < f[j] /\ small[i] = big[f[i]] /\ small[j] = big[f[j]]
    BY <1>2
  <2> QED BY <1>3, <2>1 DEF Rising
<1>5. ASSUME NEW t
      PROVE  Waiting(small, number, t) = Numbers(big, number, kept, t)
  <2>1. ASSUME NEW i \in 1..Len(small), small[i].tab = t
        PROVE  \E n \in {m \in kept : big[m].tab = t} : number[small[i]] = number[big[n]]
    BY <1>2, <1>3, <2>1
  <2>2. ASSUME NEW n \in kept, big[n].tab = t
        PROVE  \E i \in {m \in 1..Len(small) : small[m].tab = t} : number[big[n]] = number[small[i]]
    BY <1>2, <2>2
  <2>3. ASSUME NEW v \in Waiting(small, number, t) PROVE v \in Numbers(big, number, kept, t)
    BY <2>1 DEF Waiting, Numbers
  <2>4. ASSUME NEW v \in Numbers(big, number, kept, t) PROVE v \in Waiting(small, number, t)
    BY <2>2 DEF Waiting, Numbers
  <2> QED BY <2>3, <2>4
<1> QED BY <1>4, <1>5

LEMMA AppendWaits ==
  ASSUME NEW S, NEW number \in [S -> Nat], NEW box \in Seq(S), NEW m \in S, Rising(box, number),
         \A v \in Waiting(box, number, m.tab) : v < number[m]
  PROVE  /\ Append(box, m) \in Seq(S) /\ Rising(Append(box, m), number)
         /\ Waiting(Append(box, m), number, m.tab) = Waiting(box, number, m.tab) \cup {number[m]}
         /\ \A t : t # m.tab => Waiting(Append(box, m), number, t) = Waiting(box, number, t)
<1> DEFINE more == Append(box, m)
           last == Len(box) + 1
<1>1. /\ more \in Seq(S) /\ Len(more) = last /\ Len(box) \in Nat /\ more[last] = m
      /\ \A n \in 1..Len(box) : more[n] = box[n]
  OBVIOUS
<1>2. \A n \in 1..last : n \in 1..Len(box) \/ n = last
  BY <1>1
<1>3. last \in 1..last /\ 1..Len(box) \subseteq 1..last
  BY <1>1
<1>4. ASSUME NEW n \in 1..Len(box), box[n].tab = m.tab PROVE number[box[n]] < number[m]
  <2>1. number[box[n]] \in Waiting(box, number, m.tab)
    BY <1>4 DEF Waiting, Numbers
  <2> QED BY <2>1
<1>5. ASSUME NEW i \in 1..last, NEW j \in 1..last, i < j PROVE i \in 1..Len(box)
  BY <1>1, <1>5
<1> HIDE DEF more, last
<1>6. Rising(more, number)
  <2> SUFFICES ASSUME NEW i \in 1..last, NEW j \in 1..last, i < j, more[i].tab = more[j].tab
               PROVE  number[more[i]] < number[more[j]]
    BY <1>1 DEF Rising
  <2>1. i \in 1..Len(box) /\ more[i] = box[i]
    BY <1>1, <1>5
  <2>2. CASE j = last
    BY <2>1, <2>2, <1>1, <1>4
  <2>3. CASE j \in 1..Len(box)
    BY <2>1, <2>3, <1>1 DEF Rising
  <2> QED BY <2>2, <2>3, <1>2
<1>7. Waiting(more, number, m.tab) = Waiting(box, number, m.tab) \cup {number[m]}
  <2>1. ASSUME NEW v \in Waiting(more, number, m.tab)
        PROVE  v \in Waiting(box, number, m.tab) \cup {number[m]}
    BY <1>1, <1>2 DEF Waiting, Numbers
  <2>2. ASSUME NEW v \in Waiting(box, number, m.tab)
        PROVE  v \in Waiting(more, number, m.tab)
    BY <1>1, <1>3 DEF Waiting, Numbers
  <2>3. number[m] \in Waiting(more, number, m.tab)
    BY <1>1, <1>3 DEF Waiting, Numbers
  <2> QED BY <2>1, <2>2, <2>3
<1>8. \A t : t # m.tab => Waiting(more, number, t) = Waiting(box, number, t)
  BY <1>1, <1>2, <1>3 DEF Waiting, Numbers
<1> QED BY <1>1, <1>6, <1>7, <1>8 DEF more

\* A message that overtook none of its tab was the one with the least number.
Taken(small, box, number, n) ==
  /\ Waiting(small, number, box[n].tab) = Waiting(box, number, box[n].tab) \ {number[box[n]]}
  /\ \A t : t # box[n].tab => Waiting(small, number, t) = Waiting(box, number, t)
  /\ box[n].tab \notin Overtaken(box, n)
     => \A v \in Waiting(box, number, box[n].tab) : number[box[n]] <= v

LEMMA RemoveAtWaits ==
  ASSUME NEW S, NEW number \in [S -> Nat], NEW box \in Seq(S), NEW n \in 1..Len(box),
         Rising(box, number)
  PROVE  /\ RemoveAt(box, n) \in Seq(S) /\ Rising(RemoveAt(box, n), number)
         /\ Taken(RemoveAt(box, n), box, number, n)
<1> DEFINE small == RemoveAt(box, n)
           kept == (1..Len(box)) \ {n}
           u == box[n].tab
<1>1. small \in Seq(S) /\ Part(small, box, kept)
  BY RemoveAtIsPart
<1>2. kept \in SUBSET (1..Len(box)) /\ Len(box) \in Nat
  OBVIOUS
<1> HIDE DEF small, kept
<1>3. /\ Rising(small, number)
      /\ \A t : Waiting(small, number, t) = Numbers(box, number, kept, t)
  BY <1>1, <1>2, PartWaits
<1>4. \A k \in 1..Len(box) : box[k] \in S /\ number[box[k]] \in Nat
  OBVIOUS
<1>5. ASSUME NEW k \in 1..Len(box), k # n, box[k].tab = u
      PROVE  /\ number[box[k]] # number[box[n]]
             /\ k < n \/ number[box[n]] < number[box[k]]
  <2>1. k < n \/ n < k
    BY <1>2, <1>5
  <2>2. k < n => number[box[k]] < number[box[n]]
    BY <1>5 DEF Rising
  <2>3. n < k => number[box[n]] < number[box[k]]
    BY <1>5 DEF Rising
  <2> QED BY <1>4, <2>1, <2>2, <2>3
<1>7. Waiting(small, number, u) = Waiting(box, number, u) \ {number[box[n]]}
  <2>1. ASSUME NEW v \in Numbers(box, number, kept, u)
        PROVE  v \in Waiting(box, number, u) /\ v # number[box[n]]
    BY <1>5 DEF Waiting, Numbers, kept
  <2>2. ASSUME NEW v \in Waiting(box, number, u), v # number[box[n]]
        PROVE  v \in Numbers(box, number, kept, u)
    BY <2>2 DEF Waiting, Numbers, kept
  <2> QED BY <1>3, <2>1, <2>2
<1>8. \A t : t # u => Waiting(small, number, t) = Waiting(box, number, t)
  BY <1>3 DEF Waiting, Numbers, kept
<1>9. ASSUME u \notin Overtaken(box, n), NEW v \in Waiting(box, number, u)
      PROVE  number[box[n]] <= v
  <2>1. PICK k \in 1..Len(box) : box[k].tab = u /\ v = number[box[k]]
    BY DEF Waiting, Numbers
  <2>2. CASE k = n
    BY <1>4, <2>1, <2>2
  <2>3. CASE k # n
    <3>1. ~ (k < n)
      <4> SUFFICES ASSUME k < n PROVE FALSE
        OBVIOUS
      <4>1. k \in 1..(n - 1)
        BY <1>2
      <4> QED BY <1>9, <2>1, <4>1 DEF Overtaken
    <3> QED BY <1>4, <1>5, <2>1, <2>3, <3>1
  <2> QED BY <2>2, <2>3
<1> HIDE DEF u
<1>10. u \notin Overtaken(box, n) => \A v \in Waiting(box, number, u) : number[box[n]] <= v
  BY <1>9
<1> QED BY <1>1, <1>3, <1>7, <1>8, <1>10 DEF small, u, Taken

LEMMA WithoutWaits ==
  ASSUME NEW S, NEW number \in [S -> Nat], NEW box \in Seq(S), NEW u, Rising(box, number)
  PROVE  /\ Without(box, u) \in Seq(S) /\ Rising(Without(box, u), number)
         /\ Waiting(Without(box, u), number, u) = {}
         /\ \A t : t # u => Waiting(Without(box, u), number, t) = Waiting(box, number, t)
<1> DEFINE small == Without(box, u)
           kept == {n \in 1..Len(box) : box[n].tab # u}
<1>1. small \in Seq(S) /\ Part(small, box, kept)
  BY WithoutIsPart
<1>2. kept \in SUBSET (1..Len(box))
  OBVIOUS
<1> HIDE DEF small, kept
<1>3. /\ Rising(small, number)
      /\ \A t : Waiting(small, number, t) = Numbers(box, number, kept, t)
  BY <1>1, <1>2, PartWaits
<1>4. Waiting(small, number, u) = {}
  BY <1>3 DEF Numbers, kept
<1>5. \A t : t # u => Waiting(small, number, t) = Waiting(box, number, t)
  <2> SUFFICES ASSUME NEW t, t # u
               PROVE  Numbers(box, number, kept, t) = Waiting(box, number, t)
    BY <1>3
  <2>1. \A n : n \in {m \in kept : box[m].tab = t} <=> n \in {m \in 1..Len(box) : box[m].tab = t}
    BY DEF kept
  <2> QED BY <2>1 DEF Waiting, Numbers
<1> QED BY <1>1, <1>3, <1>4, <1>5 DEF small

-----------------------------------------------------------------------------
(* The channels of a tab.  What a frame or a message says, it said last or *)
(* will say, and what comes later says more.                               *)
Frames == [tab : Tabs, viewport : 0..MaxMoves]
Messages == [tab : Tabs, position : 1..MaxReports]
Viewport == [frame \in Frames |-> frame.viewport]
Position == [message \in Messages |-> message.position]
Asked(t) == Waiting(inbox, Viewport, t)
Sent(t) == Waiting(outbox, Position, t)

ChannelTypes ==
  /\ viewport \in [Tabs -> 0..MaxMoves] /\ moves \in [Tabs -> 0..MaxMoves]
  /\ told \in [Tabs -> 0..MaxReports] /\ display \in [Tabs -> 0..MaxReports]
  /\ subscribed \subseteq Tabs
  /\ inbox \in Seq(Frames) /\ Rising(inbox, Viewport)
  /\ outbox \in Seq(Messages) /\ Rising(outbox, Position)

\* Only a tab that has subscribed moves, asks, or is sent anything.
Silent(t) ==
  /\ stage[t] # "subscribed" => Asked(t) = {} /\ Sent(t) = {} /\ t \notin subscribed
  /\ stage[t] \notin {"subscribed", "gone"}
     => moves[t] = 0 /\ viewport[t] = 0 /\ told[t] = 0 /\ display[t] = 0

\* What the view has been asked.
Inbound(t) ==
  /\ viewport[t] <= moves[t] /\ \A v \in Asked(t) : v <= moves[t]
  /\ t \notin inOvertaken =>
       /\ \A v \in Asked(t) \ {0} : viewport[t] < v
       /\ stage[t] = "subscribed" => \/ t \in subscribed
                                     \/ viewport[t] = 0 /\ 0 \in Asked(t)
  /\ stage[t] = "subscribed" /\ t \notin overlapped \cup expired \cup missed \cup inOvertaken
     => viewport[t] = moves[t] \/ moves[t] \in Asked(t)

\* What the tab has been told.
Outbound(t) ==
  /\ display[t] <= told[t] /\ \A p \in Sent(t) : p <= told[t]
  /\ t \notin outOvertaken => \A p \in Sent(t) : display[t] < p
  /\ stage[t] = "subscribed" /\ t \notin inOvertaken \cup outOvertaken
     => display[t] = told[t] \/ told[t] \in Sent(t)

ChannelSafety ==
  /\ ChannelTypes
  /\ \A t \in Tabs : Silent(t)
  /\ \A t \in Tabs : Inbound(t)
  /\ \A t \in Tabs : Outbound(t)

LEMMA Numbered == Viewport \in [Frames -> Nat] /\ Position \in [Messages -> Nat]
<1>1. \A frame \in Frames : frame.viewport \in Nat
  BY BoundsAssumption DEF Frames
<1>2. \A message \in Messages : message.position \in Nat
  BY BoundsAssumption DEF Messages
<1> QED BY <1>1, <1>2 DEF Viewport, Position

\* A frame in the channel.
LEMMA FrameIs ==
  ASSUME ChannelSafety, NEW n \in 1..Len(inbox)
  PROVE  /\ inbox[n] \in Frames /\ inbox[n].tab \in Tabs /\ inbox[n].viewport \in 0..MaxMoves
         /\ Viewport[inbox[n]] = inbox[n].viewport
         /\ inbox[n].viewport \in Asked(inbox[n].tab) /\ stage[inbox[n].tab] = "subscribed"
<1>1. inbox[n] \in Frames
  BY DEF ChannelSafety, ChannelTypes
<1>2. inbox[n].tab \in Tabs /\ inbox[n].viewport \in 0..MaxMoves
  BY <1>1 DEF Frames
<1>3. Viewport[inbox[n]] = inbox[n].viewport
  BY <1>1 DEF Viewport
<1>4. inbox[n].viewport \in Asked(inbox[n].tab)
  BY <1>3 DEF Asked, Waiting, Numbers
<1> QED BY <1>1, <1>2, <1>3, <1>4 DEF ChannelSafety, Silent

LEMMA MessageIs ==
  ASSUME ChannelSafety, NEW n \in 1..Len(outbox)
  PROVE  /\ outbox[n] \in Messages /\ outbox[n].tab \in Tabs
         /\ outbox[n].position \in 0..MaxReports
         /\ Position[outbox[n]] = outbox[n].position
         /\ outbox[n].position \in Sent(outbox[n].tab) /\ stage[outbox[n].tab] = "subscribed"
<1>1. outbox[n] \in Messages
  BY DEF ChannelSafety, ChannelTypes
<1>2. outbox[n].tab \in Tabs /\ outbox[n].position \in 0..MaxReports
  BY <1>1, BoundsAssumption DEF Messages
<1>3. Position[outbox[n]] = outbox[n].position
  BY <1>1 DEF Position
<1>4. outbox[n].position \in Sent(outbox[n].tab)
  BY <1>3 DEF Sent, Waiting, Numbers
<1> QED BY <1>1, <1>2, <1>3, <1>4 DEF ChannelSafety, Silent

\* A tab that a step does not touch.
Alike(t) ==
  /\ Asked(t)' = Asked(t) /\ Sent(t)' = Sent(t)
  /\ viewport'[t] = viewport[t] /\ moves'[t] = moves[t]
  /\ told'[t] = told[t] /\ display'[t] = display[t]
  /\ t \in subscribed' <=> t \in subscribed
  /\ stage'[t] = "subscribed" <=> stage[t] = "subscribed"
  /\ stage'[t] = "gone" <=> stage[t] = "gone"
  /\ t \in inOvertaken => t \in inOvertaken'
  /\ t \in outOvertaken => t \in outOvertaken'
  /\ t \in overlapped \cup expired \cup missed => t \in (overlapped \cup expired \cup missed)'

LEMMA AlikeKeeps ==
  ASSUME ChannelSafety, NEW t \in Tabs, Alike(t)
  PROVE  Silent(t)' /\ Inbound(t)' /\ Outbound(t)'
<1>1. Silent(t) /\ Inbound(t) /\ Outbound(t)
  BY DEF ChannelSafety
<1>2. Silent(t)'
  BY <1>1 DEF Alike, Silent
<1>3. Inbound(t)'
  BY <1>1 DEF Alike, Inbound
<1>4. Outbound(t)'
  BY <1>1 DEF Alike, Outbound
<1> QED BY <1>2, <1>3, <1>4

\* The connection is made and broken: nothing moves in the channels.
LEMMA StagesKeepChannels ==
  ASSUME ChannelSafety,
         UNCHANGED <<viewVars, channelVars, clientVars, missed, inOvertaken, outOvertaken>>,
         \A t \in Tabs : /\ stage'[t] = "subscribed" <=> stage[t] = "subscribed"
                         /\ stage'[t] = "gone" <=> stage[t] = "gone",
         overlapped \subseteq overlapped', expired \subseteq expired'
  PROVE  ChannelSafety'
<1>1. UNCHANGED <<viewport, told, subscribed, inbox, outbox, moves, display, missed, inOvertaken,
                  outOvertaken>>
  BY DEF viewVars, channelVars, clientVars
<1>2. ChannelTypes'
  BY <1>1 DEF ChannelSafety, ChannelTypes
<1>3. ASSUME NEW t \in Tabs PROVE Alike(t)
  <2>1. /\ stage'[t] = "subscribed" <=> stage[t] = "subscribed"
        /\ stage'[t] = "gone" <=> stage[t] = "gone"
    OBVIOUS
  <2>2. t \in overlapped \cup expired \cup missed => t \in (overlapped \cup expired \cup missed)'
    BY <1>1
  <2> QED BY <1>1, <2>1, <2>2 DEF Alike, Asked, Sent
<1> QED BY <1>2, <1>3, AlikeKeeps DEF ChannelSafety

LEMMA SubscribeKeeps ==
  ASSUME ChannelSafety, SessionSafety, NEW t \in Tabs, Subscribe(t)
  PROVE  ChannelSafety'
<1> DEFINE frame == [tab |-> t, viewport |-> 0]
<1>1. /\ stage[t] = "started" /\ stage' = [stage EXCEPT ![t] = "subscribed"]
      /\ inbox' = Append(inbox, frame)
      /\ UNCHANGED <<viewport, told, subscribed, outbox, moves, display, overlapped, expired, missed,
                     inOvertaken, outOvertaken>>
  BY DEF Subscribe, viewVars, clientVars, historyVars
<1>2. stage'[t] = "subscribed" /\ \A u \in Tabs : u # t => stage'[u] = stage[u]
  BY <1>1 DEF SessionSafety, SessionTypes
<1>3. frame \in Frames /\ frame.tab = t /\ Viewport[frame] = 0
  BY BoundsAssumption DEF Frames, Viewport
<1>4. /\ Asked(t) = {} /\ Sent(t) = {} /\ t \notin subscribed /\ moves[t] = 0 /\ viewport[t] = 0
      /\ told[t] = 0 /\ display[t] = 0
  BY <1>1 DEF ChannelSafety, Silent
<1> HIDE DEF frame
<1>5. /\ inbox' \in Seq(Frames) /\ Rising(inbox', Viewport) /\ Asked(t)' = {0}
      /\ \A u \in Tabs : u # t => Asked(u)' = Asked(u)
  <2>1. /\ inbox \in Seq(Frames) /\ Rising(inbox, Viewport) /\ Viewport \in [Frames -> Nat]
        /\ \A v \in Waiting(inbox, Viewport, frame.tab) : v < Viewport[frame]
    BY <1>3, <1>4, Numbered DEF ChannelSafety, ChannelTypes, Asked
  <2>2. /\ Append(inbox, frame) \in Seq(Frames) /\ Rising(Append(inbox, frame), Viewport)
        /\ Waiting(Append(inbox, frame), Viewport, frame.tab)
             = Waiting(inbox, Viewport, frame.tab) \cup {Viewport[frame]}
        /\ \A u : u # frame.tab => Waiting(Append(inbox, frame), Viewport, u)
                                  = Waiting(inbox, Viewport, u)
    BY <2>1, <1>3, AppendWaits
  <2> QED BY <1>1, <1>3, <1>4, <2>2 DEF Asked
<1>6. ChannelTypes'
  BY <1>1, <1>5 DEF ChannelSafety, ChannelTypes
<1>7. ASSUME NEW u \in Tabs PROVE Silent(u)' /\ Inbound(u)' /\ Outbound(u)'
  <2>1. CASE u # t
    <3>1. Alike(u)
      BY <2>1, <1>1, <1>2, <1>5 DEF Alike, Sent
    <3> QED BY <3>1, AlikeKeeps
  <2>2. CASE u = t
    <3>1. Sent(t)' = {}
      BY <1>1, <1>4 DEF Sent
    <3>2. Silent(t)'
      BY <1>2 DEF Silent
    <3>3. Inbound(t)'
      BY <1>1, <1>2, <1>4, <1>5 DEF Inbound
    <3>4. Outbound(t)'
      BY <1>1, <1>2, <1>4, <3>1 DEF Outbound
    <3> QED BY <2>2, <3>2, <3>3, <3>4
  <2> QED BY <2>1, <2>2
<1> QED BY <1>6, <1>7 DEF ChannelSafety

LEMMA MoveKeeps ==
  ASSUME ChannelSafety, NEW t \in Tabs, Move(t)
  PROVE  ChannelSafety'
<1> DEFINE frame == [tab |-> t, viewport |-> moves[t] + 1]
<1>1. /\ stage[t] = "subscribed" /\ moves[t] < MaxMoves /\ moves' = [moves EXCEPT ![t] = @ + 1]
      /\ inbox' = Append(inbox, frame)
      /\ UNCHANGED <<stage, viewport, told, subscribed, outbox, display, overlapped, expired, missed,
                     inOvertaken, outOvertaken>>
  BY DEF Move, tabVars, viewVars, historyVars
<1>2. moves \in [Tabs -> 0..MaxMoves] /\ MaxMoves \in Nat /\ moves[t] \in 0..MaxMoves
  BY BoundsAssumption DEF ChannelSafety, ChannelTypes
<1>3. frame \in Frames /\ frame.tab = t /\ Viewport[frame] = moves[t] + 1
  <2>1. moves[t] + 1 \in 0..MaxMoves
    BY <1>1, <1>2
  <2> QED BY <2>1 DEF Frames, Viewport
<1>4. /\ moves' \in [Tabs -> 0..MaxMoves] /\ moves'[t] = moves[t] + 1
      /\ \A u \in Tabs : u # t => moves'[u] = moves[u]
  BY <1>1, <1>2
<1> HIDE DEF frame
<1>5. Inbound(t) /\ Outbound(t) /\ viewport[t] \in 0..MaxMoves
  BY DEF ChannelSafety, ChannelTypes
<1>6. /\ inbox' \in Seq(Frames) /\ Rising(inbox', Viewport)
      /\ Asked(t)' = Asked(t) \cup {moves[t] + 1}
      /\ \A u \in Tabs : u # t => Asked(u)' = Asked(u)
      /\ \A v \in Asked(t) : v \in Nat
  <2>1. \A v \in Asked(t) : v \in Nat
    <3>1. \A n \in 1..Len(inbox) : Viewport[inbox[n]] \in Nat
      BY Numbered DEF ChannelSafety, ChannelTypes
    <3> QED BY <3>1 DEF Asked, Waiting, Numbers
  <2>2. \A v \in Asked(t) : v < moves[t] + 1
    BY <1>2, <1>5, <2>1 DEF Inbound
  <2>3. /\ inbox \in Seq(Frames) /\ Rising(inbox, Viewport) /\ Viewport \in [Frames -> Nat]
        /\ \A v \in Waiting(inbox, Viewport, frame.tab) : v < Viewport[frame]
    BY <1>3, <2>2, Numbered DEF ChannelSafety, ChannelTypes, Asked
  <2>4. /\ Append(inbox, frame) \in Seq(Frames) /\ Rising(Append(inbox, frame), Viewport)
        /\ Waiting(Append(inbox, frame), Viewport, frame.tab)
             = Waiting(inbox, Viewport, frame.tab) \cup {Viewport[frame]}
        /\ \A u : u # frame.tab => Waiting(Append(inbox, frame), Viewport, u)
                                  = Waiting(inbox, Viewport, u)
    BY <2>3, <1>3, AppendWaits
  <2> QED BY <1>1, <1>3, <2>1, <2>4 DEF Asked
<1>7. ChannelTypes'
  BY <1>1, <1>4, <1>6 DEF ChannelSafety, ChannelTypes
<1>8. ASSUME NEW u \in Tabs PROVE Silent(u)' /\ Inbound(u)' /\ Outbound(u)'
  <2>1. CASE u # t
    <3>1. Alike(u)
      BY <2>1, <1>1, <1>4, <1>6 DEF Alike, Sent
    <3> QED BY <3>1, AlikeKeeps
  <2>2. CASE u = t
    <3>1. Silent(t)'
      BY <1>1 DEF Silent
    <3>2. Inbound(t)'
      <4>1. /\ viewport[t] <= moves[t] + 1 /\ viewport[t] < moves[t] + 1
            /\ \A v \in Asked(t) : v <= moves[t] + 1
        BY <1>2, <1>5, <1>6 DEF Inbound
      <4>2. 0 \in Asked(t) => 0 \in Asked(t)'
        BY <1>6
      <4> QED BY <1>1, <1>4, <1>5, <1>6, <4>1, <4>2 DEF Inbound
    <3>3. Outbound(t)'
      BY <1>1, <1>5 DEF Outbound, Sent
    <3> QED BY <2>2, <3>1, <3>2, <3>3
  <2> QED BY <2>1, <2>2
<1> QED BY <1>7, <1>8 DEF ChannelSafety

LEMMA DisconnectKeeps ==
  ASSUME ChannelSafety, SessionSafety, NEW t \in Tabs, Disconnect(t)
  PROVE  ChannelSafety'
<1>1. /\ stage' = [stage EXCEPT ![t] = "gone"] /\ subscribed' = subscribed \ {t}
      /\ inbox' = Without(inbox, t) /\ outbox' = Without(outbox, t)
      /\ UNCHANGED <<viewport, told, moves, display, overlapped, expired, missed,
                     inOvertaken, outOvertaken>>
  BY DEF Disconnect, viewVars, clientVars, historyVars
<1>2. stage'[t] = "gone" /\ \A u \in Tabs : u # t => stage'[u] = stage[u]
  BY <1>1 DEF SessionSafety, SessionTypes
<1>3. /\ inbox' \in Seq(Frames) /\ Rising(inbox', Viewport) /\ Asked(t)' = {}
      /\ \A u \in Tabs : u # t => Asked(u)' = Asked(u)
  <2>1. inbox \in Seq(Frames) /\ Rising(inbox, Viewport) /\ Viewport \in [Frames -> Nat]
    BY Numbered DEF ChannelSafety, ChannelTypes
  <2>2. /\ Without(inbox, t) \in Seq(Frames) /\ Rising(Without(inbox, t), Viewport)
        /\ Waiting(Without(inbox, t), Viewport, t) = {}
        /\ \A u : u # t => Waiting(Without(inbox, t), Viewport, u) = Waiting(inbox, Viewport, u)
    BY <2>1, WithoutWaits
  <2> QED BY <1>1, <2>2 DEF Asked
<1>4. /\ outbox' \in Seq(Messages) /\ Rising(outbox', Position) /\ Sent(t)' = {}
      /\ \A u \in Tabs : u # t => Sent(u)' = Sent(u)
  <2>1. outbox \in Seq(Messages) /\ Rising(outbox, Position) /\ Position \in [Messages -> Nat]
    BY Numbered DEF ChannelSafety, ChannelTypes
  <2>2. /\ Without(outbox, t) \in Seq(Messages) /\ Rising(Without(outbox, t), Position)
        /\ Waiting(Without(outbox, t), Position, t) = {}
        /\ \A u : u # t => Waiting(Without(outbox, t), Position, u) = Waiting(outbox, Position, u)
    BY <2>1, WithoutWaits
  <2> QED BY <1>1, <2>2 DEF Sent
<1>5. ChannelTypes'
  BY <1>1, <1>3, <1>4 DEF ChannelSafety, ChannelTypes
<1>6. ASSUME NEW u \in Tabs PROVE Silent(u)' /\ Inbound(u)' /\ Outbound(u)'
  <2>1. CASE u # t
    <3>1. Alike(u)
      BY <2>1, <1>1, <1>2, <1>3, <1>4 DEF Alike
    <3> QED BY <3>1, AlikeKeeps
  <2>2. CASE u = t
    <3>1. Silent(t)'
      BY <1>1, <1>2, <1>3, <1>4 DEF Silent
    <3>2. viewport[t] <= moves[t] /\ display[t] <= told[t]
      BY DEF ChannelSafety, Inbound, Outbound
    <3>3. Inbound(t)'
      BY <1>1, <1>2, <1>3, <3>2 DEF Inbound
    <3>4. Outbound(t)'
      BY <1>1, <1>2, <1>4, <3>2 DEF Outbound
    <3> QED BY <2>2, <3>1, <3>3, <3>4
  <2> QED BY <2>1, <2>2
<1> QED BY <1>5, <1>6 DEF ChannelSafety

\* What taking a frame out of the inbox does to it.
LEMMA FrameTaken ==
  ASSUME ChannelSafety, NEW n \in 1..Len(inbox), inbox' = RemoveAt(inbox, n),
         NEW t, t = inbox[n].tab, NEW v, v = inbox[n].viewport
  PROVE  /\ inbox' \in Seq(Frames) /\ Rising(inbox', Viewport)
         /\ Asked(t)' = Asked(t) \ {v}
         /\ \A u \in Tabs : u # t => Asked(u)' = Asked(u)
         /\ t \notin Overtaken(inbox, n) => \A w \in Asked(t) : v <= w
<1>1. inbox \in Seq(Frames) /\ Rising(inbox, Viewport) /\ Viewport \in [Frames -> Nat]
  BY Numbered DEF ChannelSafety, ChannelTypes
<1>2. Viewport[inbox[n]] = v
  BY FrameIs
<1>3. /\ RemoveAt(inbox, n) \in Seq(Frames) /\ Rising(RemoveAt(inbox, n), Viewport)
      /\ Taken(RemoveAt(inbox, n), inbox, Viewport, n)
  BY <1>1, RemoveAtWaits
<1> QED BY <1>2, <1>3 DEF Asked, Taken

LEMMA MessageTaken ==
  ASSUME ChannelSafety, NEW n \in 1..Len(outbox), outbox' = RemoveAt(outbox, n),
         NEW t, t = outbox[n].tab, NEW v, v = outbox[n].position
  PROVE  /\ outbox' \in Seq(Messages) /\ Rising(outbox', Position)
         /\ Sent(t)' = Sent(t) \ {v}
         /\ \A u \in Tabs : u # t => Sent(u)' = Sent(u)
         /\ t \notin Overtaken(outbox, n) => \A w \in Sent(t) : v <= w
<1>1. outbox \in Seq(Messages) /\ Rising(outbox, Position) /\ Position \in [Messages -> Nat]
  BY Numbered DEF ChannelSafety, ChannelTypes
<1>2. Position[outbox[n]] = v
  BY MessageIs
<1>3. /\ RemoveAt(outbox, n) \in Seq(Messages) /\ Rising(RemoveAt(outbox, n), Position)
      /\ Taken(RemoveAt(outbox, n), outbox, Position, n)
  BY <1>1, RemoveAtWaits
<1> QED BY <1>2, <1>3 DEF Sent, Taken

LEMMA ProcessSubscribeKeeps ==
  ASSUME ChannelSafety, NEW n \in Nat, ProcessSubscribe(n)
  PROVE  ChannelSafety'
<1>0. PICK t : t = inbox[n].tab
  OBVIOUS
<1>1. /\ n \in 1..Len(inbox) /\ inbox[n].viewport = 0 /\ subscribed' = subscribed \cup {t}
      /\ inbox' = RemoveAt(inbox, n) /\ inOvertaken' = inOvertaken \cup Overtaken(inbox, n)
      /\ UNCHANGED <<stage, viewport, told, outbox, moves, display, overlapped, expired, missed,
                     outOvertaken>>
  BY <1>0 DEF ProcessSubscribe, Running, tabVars, viewVars, clientVars
<1>2. t \in Tabs /\ stage[t] = "subscribed"
  BY <1>0, <1>1, FrameIs
<1>3. /\ inbox' \in Seq(Frames) /\ Rising(inbox', Viewport)
      /\ Asked(t)' = Asked(t) \ {0}
      /\ \A u \in Tabs : u # t => Asked(u)' = Asked(u)
  BY <1>0, <1>1, FrameTaken
<1>4. ChannelTypes'
  BY <1>1, <1>2, <1>3 DEF ChannelSafety, ChannelTypes
<1>5. ASSUME NEW u \in Tabs PROVE Silent(u)' /\ Inbound(u)' /\ Outbound(u)'
  <2>1. CASE u # t
    <3>1. Alike(u)
      BY <2>1, <1>1, <1>2, <1>3 DEF Alike, Sent
    <3> QED BY <3>1, AlikeKeeps
  <2>2. CASE u = t
    <3>1. Inbound(t) /\ Outbound(t) /\ viewport[t] \in Nat /\ moves[t] \in Nat
      BY <1>2 DEF ChannelSafety, ChannelTypes
    <3>2. Silent(t)'
      BY <1>1, <1>2 DEF Silent
    <3>3. moves[t] = 0 => viewport[t] = 0
      BY <3>1 DEF Inbound
    <3>4. Inbound(t)'
      BY <1>1, <1>2, <1>3, <3>1, <3>3 DEF Inbound
    <3>5. Outbound(t)'
      BY <1>1, <3>1 DEF Outbound, Sent
    <3> QED BY <2>2, <3>2, <3>4, <3>5
  <2> QED BY <2>1, <2>2
<1> QED BY <1>4, <1>5 DEF ChannelSafety

LEMMA PositionsViewKeeps ==
  ASSUME ChannelSafety, FoundSafety, NEW n \in Nat, PositionsView(n)
  PROVE  ChannelSafety'
<1>0. PICK t, v : t = inbox[n].tab /\ v = inbox[n].viewport
  OBVIOUS
<1>1. /\ n \in 1..Len(inbox) /\ v # 0
      /\ inbox' = RemoveAt(inbox, n) /\ inOvertaken' = inOvertaken \cup Overtaken(inbox, n)
      /\ UNCHANGED <<stage, told, subscribed, outbox, moves, display, overlapped, expired,
                     outOvertaken>>
  BY <1>0 DEF PositionsView, Running, tabVars, clientVars
<1>2. t \in Tabs /\ stage[t] = "subscribed" /\ v \in 0..MaxMoves /\ v \in Asked(t)
  BY <1>0, <1>1, FrameIs
<1>3. /\ inbox' \in Seq(Frames) /\ Rising(inbox', Viewport)
      /\ Asked(t)' = Asked(t) \ {v}
      /\ \A u \in Tabs : u # t => Asked(u)' = Asked(u)
      /\ t \notin Overtaken(inbox, n) => \A w \in Asked(t) : v <= w
  BY <1>0, <1>1, FrameTaken
<1>4. /\ viewport \in [Tabs -> 0..MaxMoves] /\ moves \in [Tabs -> 0..MaxMoves]
      /\ MaxMoves \in Nat
  BY BoundsAssumption DEF ChannelSafety, ChannelTypes
<1>5. /\ viewport' \in [Tabs -> 0..MaxMoves] /\ missed \subseteq missed'
      /\ \A u \in Tabs : u # t => viewport'[u] = viewport[u] /\ (u \in missed' <=> u \in missed)
      /\ viewport'[t] = viewport[t] \/ viewport'[t] = v
      /\ t \notin overlapped \cup expired \cup missed' => viewport'[t] = v
  <2>1. t \notin overlapped \cup expired => t \in viewsMap[wsMap[t]]
    BY <1>2 DEF FoundSafety, Found
  <2>2. CASE viewport' = [viewport EXCEPT ![t] = v] /\ missed' = missed
    BY <2>2, <1>2, <1>4
  <2>3. CASE t \notin viewsMap[wsMap[t]] /\ viewport' = viewport /\ missed' = missed
    BY <2>3, <2>1, <1>4
  <2>4. CASE missed' = missed \cup {t} /\ viewport' = viewport
    BY <2>4, <1>4
  <2> QED BY <1>0, <2>2, <2>3, <2>4 DEF PositionsView
<1>6. ChannelTypes'
  BY <1>1, <1>3, <1>5 DEF ChannelSafety, ChannelTypes
<1>7. ASSUME NEW u \in Tabs PROVE Silent(u)' /\ Inbound(u)' /\ Outbound(u)'
  <2>1. CASE u # t
    <3>1. u \in overlapped \cup expired \cup missed => u \in (overlapped \cup expired \cup missed)'
      BY <1>1, <1>5
    <3>2. Alike(u)
      BY <2>1, <1>1, <1>2, <1>3, <1>5, <3>1 DEF Alike, Sent
    <3> QED BY <3>2, AlikeKeeps
  <2>2. CASE u = t
    <3>1. /\ Inbound(t) /\ Outbound(t) /\ viewport[t] \in Nat /\ moves[t] \in Nat /\ v \in Nat
          /\ \A w \in Asked(t) : w <= moves[t]
      BY <1>2, <1>4 DEF ChannelSafety, Inbound
    <3>2. Silent(t)'
      BY <1>1, <1>2 DEF Silent
    <3>3. viewport'[t] <= moves'[t] /\ \A w \in Asked(t)' : w <= moves'[t]
      BY <1>1, <1>2, <1>3, <1>5, <3>1 DEF Inbound
    <3>4. ASSUME t \notin inOvertaken'
          PROVE  /\ t \notin inOvertaken /\ t \in subscribed
                 /\ \A w \in Asked(t) \ {v} : v < w
                 /\ \A w \in Asked(t)' \ {0} : viewport'[t] < w
      <4>1. t \notin inOvertaken /\ t \notin Overtaken(inbox, n)
        BY <3>4, <1>1
      <4>2. \A w \in Asked(t) : w \in Nat
        <5>1. \A k \in 1..Len(inbox) : Viewport[inbox[k]] \in Nat
          BY Numbered DEF ChannelSafety, ChannelTypes
        <5> QED BY <5>1 DEF Asked, Waiting, Numbers
      <4>3. \A w \in Asked(t) \ {v} : v < w
        BY <1>3, <3>1, <4>1, <4>2
      <4>4. t \in subscribed
        <5>1. 0 \notin Asked(t)
          BY <1>1, <3>1, <4>3
        <5> QED BY <1>2, <3>1, <4>1, <5>1 DEF Inbound
      <4>5. \A w \in Asked(t)' \ {0} : viewport'[t] < w
        BY <1>3, <1>5, <3>1, <4>1, <4>3 DEF Inbound
      <4> QED BY <4>1, <4>3, <4>4, <4>5
    <3>5. ASSUME t \notin (overlapped \cup expired \cup missed \cup inOvertaken)'
          PROVE  viewport'[t] = moves'[t] \/ moves'[t] \in Asked(t)'
      <4>1. viewport'[t] = v
        BY <3>5, <1>1, <1>5
      <4>2. t \notin overlapped \cup expired \cup missed \cup inOvertaken
        BY <3>5, <1>1, <1>5
      <4>3. v = moves[t] \/ moves[t] \in Asked(t)
        <5>1. viewport[t] = moves[t] => v = moves[t]
          BY <1>1, <1>2, <3>1, <4>2 DEF Inbound
        <5> QED BY <1>2, <3>1, <4>2, <5>1 DEF Inbound
      <4> QED BY <1>1, <1>3, <4>1, <4>3
    <3>6. Inbound(t)'
      <4>1. t \notin inOvertaken' => t \in subscribed'
        BY <1>1, <3>4
      <4> QED BY <3>3, <3>4, <3>5, <4>1 DEF Inbound
    <3>7. Outbound(t)'
      BY <1>1, <3>1 DEF Outbound, Sent
    <3> QED BY <2>2, <3>2, <3>6, <3>7
  <2> QED BY <2>1, <2>2
<1> QED BY <1>6, <1>7 DEF ChannelSafety

LEMMA SendToClientKeeps ==
  ASSUME ChannelSafety, NEW t \in Tabs, SendToClient(t)
  PROVE  ChannelSafety'
<1> DEFINE message == [tab |-> t, position |-> told[t] + 1]
<1>1. /\ viewport[t] # 0 /\ told[t] < MaxReports /\ told' = [told EXCEPT ![t] = @ + 1]
      /\ outbox' = IF t \in subscribed THEN Append(outbox, message) ELSE outbox
      /\ UNCHANGED <<stage, viewport, subscribed, inbox, moves, display, overlapped, expired, missed,
                     inOvertaken, outOvertaken>>
  BY DEF SendToClient, tabVars, clientVars, historyVars
<1>2. /\ told \in [Tabs -> 0..MaxReports] /\ MaxReports \in Nat /\ told[t] \in 0..MaxReports
      /\ display[t] \in 0..MaxReports
  BY BoundsAssumption DEF ChannelSafety, ChannelTypes
<1>3. message \in Messages /\ message.tab = t /\ Position[message] = told[t] + 1
  <2>1. told[t] + 1 \in 1..MaxReports
    BY <1>1, <1>2
  <2> QED BY <2>1 DEF Messages, Position
<1>4. /\ told' \in [Tabs -> 0..MaxReports] /\ told'[t] = told[t] + 1
      /\ \A u \in Tabs : u # t => told'[u] = told[u]
  BY <1>1, <1>2
<1> HIDE DEF message
<1>5. Silent(t) /\ Inbound(t) /\ Outbound(t)
  BY DEF ChannelSafety
<1>6. \A p \in Sent(t) : p \in Nat
  <2>1. \A n \in 1..Len(outbox) : Position[outbox[n]] \in Nat
    BY Numbered DEF ChannelSafety, ChannelTypes
  <2> QED BY <2>1 DEF Sent, Waiting, Numbers
<1>7. /\ outbox' \in Seq(Messages) /\ Rising(outbox', Position)
      /\ Sent(t)' = IF t \in subscribed THEN Sent(t) \cup {told[t] + 1} ELSE Sent(t)
      /\ \A u \in Tabs : u # t => Sent(u)' = Sent(u)
  <2>1. \A p \in Sent(t) : p < told[t] + 1
    BY <1>2, <1>5, <1>6 DEF Outbound
  <2>2. /\ outbox \in Seq(Messages) /\ Rising(outbox, Position) /\ Position \in [Messages -> Nat]
        /\ \A p \in Waiting(outbox, Position, message.tab) : p < Position[message]
    BY <1>3, <2>1, Numbered DEF ChannelSafety, ChannelTypes, Sent
  <2>3. /\ Append(outbox, message) \in Seq(Messages) /\ Rising(Append(outbox, message), Position)
        /\ Waiting(Append(outbox, message), Position, message.tab)
             = Waiting(outbox, Position, message.tab) \cup {Position[message]}
        /\ \A u : u # message.tab => Waiting(Append(outbox, message), Position, u)
                                    = Waiting(outbox, Position, u)
    BY <2>2, <1>3, AppendWaits
  <2> QED BY <1>1, <1>3, <2>2, <2>3 DEF Sent
<1>8. ChannelTypes'
  BY <1>1, <1>4, <1>7 DEF ChannelSafety, ChannelTypes
<1>9. ASSUME NEW u \in Tabs PROVE Silent(u)' /\ Inbound(u)' /\ Outbound(u)'
  <2>1. CASE u # t
    <3>1. Alike(u)
      BY <2>1, <1>1, <1>4, <1>7 DEF Alike, Asked
    <3> QED BY <3>1, AlikeKeeps
  <2>2. CASE u = t
    <3>1. stage[t] \in {"subscribed", "gone"} /\ (t \in subscribed => stage[t] = "subscribed")
      BY <1>1, <1>5 DEF Silent
    <3>2. Silent(t)'
      BY <1>1, <1>5, <1>7, <3>1 DEF Silent, Asked
    <3>3. Inbound(t)'
      BY <1>1, <1>5 DEF Inbound, Asked
    <3>4. Outbound(t)'
      <4>1. display[t] <= told[t] + 1 /\ display[t] < told[t] + 1
        BY <1>2, <1>5 DEF Outbound
      <4>2. \A p \in Sent(t) : p <= told[t] + 1
        BY <1>2, <1>5, <1>6 DEF Outbound
      <4>3. stage[t] = "subscribed" /\ t \notin inOvertaken => t \in subscribed
        BY <1>1, <1>5 DEF Inbound
      <4>4. told[t] + 1 <= told[t] + 1
        BY <1>2
      <4> QED BY <1>1, <1>4, <1>5, <1>7, <4>1, <4>2, <4>3, <4>4 DEF Outbound
    <3> QED BY <2>2, <3>2, <3>3, <3>4
  <2> QED BY <2>1, <2>2
<1> QED BY <1>8, <1>9 DEF ChannelSafety

LEMMA ReceiveKeeps ==
  ASSUME ChannelSafety, NEW n \in Nat, Receive(n)
  PROVE  ChannelSafety'
<1>0. PICK t, p : t = outbox[n].tab /\ p = outbox[n].position
  OBVIOUS
<1>1. /\ n \in 1..Len(outbox) /\ display' = [display EXCEPT ![t] = p]
      /\ outbox' = RemoveAt(outbox, n) /\ outOvertaken' = outOvertaken \cup Overtaken(outbox, n)
      /\ UNCHANGED <<stage, viewport, told, subscribed, inbox, moves, overlapped, expired, missed,
                     inOvertaken>>
  BY <1>0 DEF Receive, Running, tabVars, viewVars
<1>2. t \in Tabs /\ stage[t] = "subscribed" /\ p \in 0..MaxReports /\ p \in Sent(t)
  BY <1>0, <1>1, MessageIs
<1>3. /\ outbox' \in Seq(Messages) /\ Rising(outbox', Position)
      /\ Sent(t)' = Sent(t) \ {p}
      /\ \A u \in Tabs : u # t => Sent(u)' = Sent(u)
      /\ t \notin Overtaken(outbox, n) => \A w \in Sent(t) : p <= w
  BY <1>0, <1>1, MessageTaken
<1>4. /\ display' \in [Tabs -> 0..MaxReports] /\ display'[t] = p
      /\ \A u \in Tabs : u # t => display'[u] = display[u]
  BY <1>1, <1>2 DEF ChannelSafety, ChannelTypes
<1>5. ChannelTypes'
  BY <1>1, <1>3, <1>4 DEF ChannelSafety, ChannelTypes
<1>6. ASSUME NEW u \in Tabs PROVE Silent(u)' /\ Inbound(u)' /\ Outbound(u)'
  <2>1. CASE u # t
    <3>1. Alike(u)
      BY <2>1, <1>1, <1>3, <1>4 DEF Alike, Asked
    <3> QED BY <3>1, AlikeKeeps
  <2>2. CASE u = t
    <3>1. /\ Inbound(t) /\ Outbound(t) /\ p \in Nat /\ MaxReports \in Nat
          /\ told[t] \in Nat /\ display[t] \in Nat
      BY <1>2, BoundsAssumption DEF ChannelSafety, ChannelTypes
    <3>2. \A w \in Sent(t) : w \in Nat
      <4>1. \A k \in 1..Len(outbox) : Position[outbox[k]] \in Nat
        BY Numbered DEF ChannelSafety, ChannelTypes
      <4> QED BY <4>1 DEF Sent, Waiting, Numbers
    <3>3. Silent(t)'
      BY <1>1, <1>2 DEF Silent
    <3>4. Inbound(t)'
      BY <1>1, <3>1 DEF Inbound, Asked
    <3>5. t \notin outOvertaken' => \A w \in Sent(t)' : p < w
      <4>1. t \notin outOvertaken' => t \notin Overtaken(outbox, n)
        BY <1>1
      <4> QED BY <1>3, <3>1, <3>2, <4>1
    <3>6. t \notin outOvertaken' => display[t] < p /\ t \notin outOvertaken
      BY <1>1, <1>2, <3>1 DEF Outbound
    <3>7. p <= told[t] /\ \A w \in Sent(t) : w <= told[t]
      BY <1>2, <3>1 DEF Outbound
    <3>8. t \notin inOvertaken \cup outOvertaken' => p = told[t] \/ told[t] \in Sent(t)'
      <4>1. t \notin outOvertaken' /\ display[t] = told[t] => FALSE
        BY <3>1, <3>6, <3>7
      <4> QED BY <1>2, <1>3, <3>1, <3>6, <4>1 DEF Outbound
    <3>9. Outbound(t)'
      BY <1>1, <1>2, <1>3, <1>4, <3>5, <3>7, <3>8 DEF Outbound
    <3> QED BY <2>2, <3>3, <3>4, <3>9
  <2> QED BY <2>1, <2>2
<1> QED BY <1>5, <1>6 DEF ChannelSafety

LEMMA ChannelNext ==
  ASSUME SessionSafety, FoundSafety, ChannelSafety, [Next]_vars
  PROVE  ChannelSafety'
<1> DEFINE still == /\ UNCHANGED <<viewVars, channelVars, clientVars, missed, inOvertaken,
                                  outOvertaken>>
                    /\ overlapped \subseteq overlapped' /\ expired \subseteq expired'
<1>1. ASSUME still, stage' = stage PROVE ChannelSafety'
  BY <1>1, StagesKeepChannels
<1>2. ASSUME still, NEW t \in Tabs, NEW x \in Stages \ {"subscribed", "gone"},
             stage[t] \notin {"subscribed", "gone"}, stage' = [stage EXCEPT ![t] = x]
      PROVE  ChannelSafety'
  <2>1. \A u \in Tabs : /\ stage'[u] = "subscribed" <=> stage[u] = "subscribed"
                        /\ stage'[u] = "gone" <=> stage[u] = "gone"
    BY <1>2 DEF SessionSafety, SessionTypes
  <2> QED BY <1>2, <2>1, StagesKeepChannels
<1>3. ASSUME NEW s \in Sessions, Expire(s) PROVE ChannelSafety'
  BY <1>1, <1>3 DEF Expire, tabVars
<1>4. ASSUME NEW t \in Tabs, Connect(t) PROVE ChannelSafety'
  <2>1. still
    BY <1>4 DEF Connect
  <2> QED BY <1>2, <1>4, <2>1, StageNames DEF Connect
<1>5. ASSUME NEW t \in Tabs,
             \/ BeforeHandshake(t) \/ CreateMap(t) \/ Handshake(t) \/ RequestStart(t)
             \/ EnterStart(t) \/ StartCreate(t) \/ ExitStart(t)
      PROVE  ChannelSafety'
  <2>1. still
    BY <1>5 DEF BeforeHandshake, CreateMap, Handshake, RequestStart, EnterStart, StartCreate,
                ExitStart, historyVars
  <2>2. /\ stage[t] \notin {"subscribed", "gone"}
        /\ \E x \in Stages \ {"subscribed", "gone"} : stage' = [stage EXCEPT ![t] = x]
    BY <1>5, StageNames DEF BeforeHandshake, CreateMap, Handshake, RequestStart, EnterStart,
                            StartCreate, ExitStart
  <2> QED BY <1>2, <2>1, <2>2
<1>6. ASSUME NEW t \in Tabs, Connect(t) \/ Proceed(t) \/ Move(t) \/ Disconnect(t) \/ SendToClient(t)
      PROVE  ChannelSafety'
  BY <1>4, <1>5, <1>6, SubscribeKeeps, MoveKeeps, DisconnectKeeps, SendToClientKeeps DEF Proceed
<1>7. ASSUME NEW n \in 1..Pool, Process(n) \/ Receive(n) PROVE ChannelSafety'
  <2>1. n \in Nat
    BY PoolAssumption
  <2> QED BY <1>7, <2>1, ProcessSubscribeKeeps, PositionsViewKeeps, ReceiveKeeps DEF Process
<1>8. ASSUME Wait \/ UNCHANGED vars PROVE ChannelSafety'
  BY <1>1, <1>8 DEF Wait, vars, historyVars, tabVars
<1> QED BY <1>3, <1>6, <1>7, <1>8 DEF Next

LEMMA ChannelInvariant == Spec => []ChannelSafety
<1>1. Init => ChannelSafety
  <2> SUFFICES ASSUME Init PROVE ChannelSafety
    OBVIOUS
  <2>1. inbox = <<>> /\ outbox = <<>>
    BY DEF Init
  <2>2. \A t : Asked(t) = {} /\ Sent(t) = {}
    BY <2>1 DEF Asked, Sent, Waiting, Numbers
  <2>3. /\ inbox \in Seq(Frames) /\ Rising(inbox, Viewport)
        /\ outbox \in Seq(Messages) /\ Rising(outbox, Position)
    BY <2>1 DEF Rising
  <2>4. ChannelTypes
    BY <2>3, BoundsAssumption DEF Init, ChannelTypes
  <2>5. ASSUME NEW t \in Tabs PROVE Silent(t) /\ Inbound(t) /\ Outbound(t)
    BY <2>2 DEF Init, Silent, Inbound, Outbound
  <2> QED BY <2>4, <2>5 DEF ChannelSafety
<1>2. SessionSafety /\ FoundSafety /\ ChannelSafety /\ [Next]_vars => ChannelSafety'
  BY ChannelNext
<1> QED BY <1>1, <1>2, SessionInvariant, FoundInvariant, PTL DEF Spec

(* The types: no more sessions and maps than the tabs have asked for, every tab *)
(* that is open has a map, and the channels hold frames and messages.           *)
THEOREM SessionTypeCorrect == Spec => []TypeOK
<1>1. ASSUME SessionSafety, ChannelSafety PROVE TypeOK
  <2>1. /\ sessions \in Nat /\ cookie \in {0} \cup 1..sessions
        /\ sessions <= 2 * Cardinality(Tabs) /\ maps \in {0} \cup Maps
    <3>1. sessions \in Nat /\ cookie \in 0..sessions /\ maps \in Nat
      BY <1>1 DEF SessionSafety, SessionTypes
    <3>2. /\ sessions <= 2 * Cardinality(Tabs) /\ maps <= 2 * Cardinality(Tabs)
          /\ Cardinality(Tabs) \in Nat
      BY <1>1, Enough DEF SessionSafety
    <3> QED BY <3>1, <3>2 DEF Maps
  <2>2. \A t \in Tabs : stage[t] \in Open => wsMap[t] # 0
    BY <1>1 DEF SessionSafety, Requests, Attended
  <2> QED BY <1>1, <2>1, <2>2 DEF TypeOK, SessionSafety, SessionTypes, ChannelSafety, ChannelTypes,
                                  Frames, Messages
<1> QED BY <1>1, SessionInvariant, ChannelInvariant, PTL

(* positionsView (LatestPositionConfiguration, lines 153-157) does not test for *)
(* null: the view of a tab that connected without overlapping another and kept  *)
(* its session is in the map its WebSocket session was given.                   *)
THEOREM SessionViewportFindsView == Spec => []ViewportFindsView
<1>1. ASSUME FoundSafety, ChannelSafety PROVE ViewportFindsView
  <2> SUFFICES ASSUME NEW n \in 1..Len(inbox), inbox[n].tab \notin overlapped \cup expired
               PROVE  inbox[n].tab \in viewsMap[wsMap[inbox[n].tab]]
    BY DEF ViewportFindsView
  <2>1. inbox[n].tab \in Tabs /\ stage[inbox[n].tab] = "subscribed"
    BY <1>1, FrameIs
  <2> QED BY <1>1, <2>1 DEF FoundSafety, Found
<1> QED BY <1>1, FoundInvariant, ChannelInvariant, PTL

(* setVieport is called by any thread of the pool: all the same the view ends   *)
(* with the viewport its tab sent last (main.js, lines 149-162), if the frames  *)
(* of the tab kept their order.                                                 *)
THEOREM SessionLastViewportWins == Spec => []LastViewportWins
<1>1. ASSUME ChannelSafety PROVE LastViewportWins
  <2> SUFFICES ASSUME NEW t \in Tabs, stage[t] = "subscribed",
                      t \notin overlapped \cup expired \cup missed \cup inOvertaken,
                      \A n \in 1..Len(inbox) : inbox[n].tab # t
               PROVE  viewport[t] = moves[t]
    BY DEF LastViewportWins
  <2>1. Asked(t) = {}
    BY DEF Asked, Waiting, Numbers
  <2> QED BY <1>1, <2>1 DEF ChannelSafety, Inbound
<1> QED BY <1>1, ChannelInvariant, PTL

(* sendToClient (DefaultLatestPositionView, lines 108-111) may be called before *)
(* the broker knows the subscription, but not with a viewport: nothing a view   *)
(* sends is lost, and the tab shows what it sent last.                          *)
THEOREM SessionToldIsShown == Spec => []ToldIsShown
<1>1. ASSUME ChannelSafety PROVE ToldIsShown
  <2> SUFFICES ASSUME NEW t \in Tabs, stage[t] = "subscribed",
                      t \notin inOvertaken \cup outOvertaken,
                      \A n \in 1..Len(outbox) : outbox[n].tab # t
               PROVE  display[t] = told[t]
    BY DEF ToldIsShown
  <2>1. Sent(t) = {}
    BY DEF Sent, Waiting, Numbers
  <2> QED BY <1>1, <2>1 DEF ChannelSafety, Outbound
<1> QED BY <1>1, ChannelInvariant, PTL
=============================================================================
