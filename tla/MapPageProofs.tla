---------------------------- MODULE MapPageProofs ----------------------------
(***************************************************************************)
(* The deferreds of olData implement the registry of MapRegistry, on a     *)
(* page with any ids, maps and requests.                                   *)
(***************************************************************************)
EXTENDS MapPage, FiniteSetTheorems, TLAPS

Id == Ids \cup {Undefined}

-----------------------------------------------------------------------------
(* The keys.                                                               *)
\* There are finitely many.
LEMMA KeysFinite == IsFiniteSet(Keys)
<1>1. IsFiniteSet(Ids \cup {Main})
  BY OlDataAssumption, FS_AddElement
<1>2. IsFiniteSet((Ids \cup {Main}) \cup {Missing})
  BY <1>1, FS_AddElement
<1>3. Keys = (Ids \cup {Main}) \cup {Missing}
  BY DEF Keys
<1> QED BY <1>2, <1>3

\* A call always means a key.
LEMMA KeyIsKey ==
  ASSUME NEW d, NEW id \in Id
  PROVE  ObtainEffectiveMapId(d, id) \in Keys
<1>1. CASE id # Undefined
  BY <1>1 DEF ObtainEffectiveMapId, Id, Keys
<1>2. CASE id = Undefined
  <2> DEFINE K == KeysOf(d)
  <2>1. K \subseteq Keys /\ IsFiniteSet(K)
    BY KeysFinite, FS_Subset DEF KeysOf
  <2>2. CASE K = {}
    <3>1. Cardinality(K) = 0 BY <2>2, FS_EmptySet
    <3> QED BY <1>2, <2>2, <3>1 DEF ObtainEffectiveMapId, Keys
  <2>3. CASE Cardinality(K) = 1
    <3>1. K # {} BY <2>3, FS_EmptySet
    <3>2. (CHOOSE k \in K : TRUE) \in K BY <3>1
    <3> QED BY <1>2, <2>1, <2>3, <3>1, <3>2 DEF ObtainEffectiveMapId
  <2>4. CASE K # {} /\ Cardinality(K) # 1
    BY <1>2, <2>4 DEF ObtainEffectiveMapId, Keys
  <2> QED BY <2>2, <2>3, <2>4
<1> QED BY <1>1, <1>2

\* A key that is put in for a call is what the same call means afterwards.
LEMMA SameKey ==
  ASSUME NEW d, NEW c, NEW id \in Id,
         KeysOf(c) = KeysOf(d) \cup {ObtainEffectiveMapId(d, id)}
  PROVE  ObtainEffectiveMapId(c, id) = ObtainEffectiveMapId(d, id)
<1>1. CASE id # Undefined
  BY <1>1 DEF ObtainEffectiveMapId
<1>2. CASE id = Undefined
  <2> DEFINE K == KeysOf(d)  L == KeysOf(c)  key == ObtainEffectiveMapId(d, id)
  <2>1. K \subseteq Keys /\ IsFiniteSet(K) /\ L \subseteq Keys /\ IsFiniteSet(L)
    BY KeysFinite, FS_Subset DEF KeysOf
  <2>2. L # {} /\ L = K \cup {key} OBVIOUS
  <2>3. CASE K = {}
    <3>1. Cardinality(K) = 0 BY <2>3, FS_EmptySet
    <3>2. key = Main BY <1>2, <2>3, <3>1 DEF ObtainEffectiveMapId
    <3>3. L = {Main} BY <2>2, <2>3, <3>2
    <3>4. Cardinality(L) = 1 BY <3>3, FS_Singleton
    <3>5. ObtainEffectiveMapId(c, id) = CHOOSE k \in L : TRUE
      BY <1>2, <2>2, <3>4 DEF ObtainEffectiveMapId
    <3> QED BY <3>2, <3>3, <3>5
  <2>4. CASE Cardinality(K) = 1
    <3>1. K # {} BY <2>4, FS_EmptySet
    <3>2. key = CHOOSE k \in K : TRUE BY <1>2, <2>4, <3>1 DEF ObtainEffectiveMapId
    <3>3. L = K BY <2>2, <3>1, <3>2
    <3>4. ObtainEffectiveMapId(c, id) = CHOOSE k \in L : TRUE
      BY <1>2, <2>2, <2>4, <3>3 DEF ObtainEffectiveMapId
    <3> QED BY <3>2, <3>3, <3>4
  <2>5. CASE K # {} /\ Cardinality(K) # 1
    <3>1. key = Missing BY <1>2, <2>5 DEF ObtainEffectiveMapId
    <3>2. ~ \E x : K = {x} BY <2>1, <2>5, FS_Singleton
    <3>3. ~ \E x : L = {x} BY <2>2, <2>5, <3>2
    <3>4. Cardinality(L) # 1 BY <2>1, <3>3, FS_Singleton
    <3> QED BY <1>2, <2>2, <3>1, <3>4 DEF ObtainEffectiveMapId
  <2> QED BY <2>3, <2>4, <2>5
<1> QED BY <1>1, <1>2

\* The registry means the same key.
LEMMA RegistryKey ==
  ASSUME NEW id \in Id
  PROVE  Registry!KeyOf(KeysOf(maps), id) = ObtainEffectiveMapId(maps, id)
BY DEF Registry!KeyOf, Registry!Main, Registry!Missing, Main, Missing, ObtainEffectiveMapId

-----------------------------------------------------------------------------
(* The inductive invariant.                                                *)
\* A deferred is behind one key at most.
Own ==
  \A j, k \in Keys : maps[j].defer = maps[k].defer /\ maps[j].defer # 0 => j = k

\* A key that is not there was never set; one that is has the map set last, or none yet.
Newest ==
  \A k \in Keys :
    /\ maps[k].defer = 0 => lastSet[k] = NoMap /\ ~ maps[k].resolvedDefer
    /\ maps[k].defer # 0 =>
         /\ value[maps[k].defer] = lastSet[k]
         /\ maps[k].resolvedDefer <=> lastSet[k] # NoMap

\* Who waits holds the deferred of a key.
Held ==
  \A q \in Requests :
    promise[q] # 0 /\ value[promise[q]] = NoMap => \E k \in Keys : maps[k].defer = promise[q]

Sound == OlDataTypeOK /\ Own /\ Newest /\ Held

-----------------------------------------------------------------------------
(* What the two methods do, once the key is known: a deferred is new if    *)
(* there is none, or, for a map that is set, if the last one is resolved.  *)
SetsAt(k, m, fresh, e) ==
  /\ fresh <=> maps[k].defer = 0 \/ maps[k].resolvedDefer
  /\ e = IF fresh THEN defers + 1 ELSE maps[k].defer
  /\ maps' = [maps EXCEPT ![k] = [defer |-> e, resolvedDefer |-> TRUE]]
  /\ defers' = IF fresh THEN defers + 1 ELSE defers
  /\ value' = [n \in 1..defers' |-> IF n = e THEN m ELSE value[n]]
  /\ lastSet' = [lastSet EXCEPT ![k] = m]
  /\ promise' = promise

AsksAt(k, q, fresh, e) ==
  /\ promise[q] = 0
  /\ fresh <=> maps[k].defer = 0
  /\ e = IF fresh THEN defers + 1 ELSE maps[k].defer
  /\ maps' = IF fresh THEN [maps EXCEPT ![k] = [defer |-> e, resolvedDefer |-> FALSE]] ELSE maps
  /\ defers' = IF fresh THEN defers + 1 ELSE defers
  /\ value' = [n \in 1..defers' |-> IF n <= defers THEN value[n] ELSE NoMap]
  /\ promise' = [promise EXCEPT ![q] = e]
  /\ lastSet' = lastSet

\* A deferred that is created is the only one with its number.
LEMMA CreatedOnce ==
  ASSUME OlDataTypeOK, NEW k \in Keys, NEW b \in BOOLEAN,
         NEW d, d = [maps EXCEPT ![k] = [defer |-> defers + 1, resolvedDefer |-> b]]
  PROVE  /\ Created(d) = defers + 1
         /\ KeysOf(d) = KeysOf(maps) \cup {k}
<1>1. d[k].defer = defers + 1 /\ defers + 1 > defers /\ defers + 1 # 0
  BY DEF OlDataTypeOK
<1>2. \A j \in Keys : j # k => d[j] = maps[j]
  BY DEF OlDataTypeOK
<1> QED BY <1>1, <1>2 DEF Created, KeysOf

LEMMA CreatedNone ==
  ASSUME OlDataTypeOK
  PROVE  Created(maps) = defers /\ Values(maps) = value
<1>1. \A k \in Keys : ~ (maps[k].defer > defers)
  BY DEF OlDataTypeOK
<1>2. Created(maps) = defers
  BY <1>1 DEF Created
<1>3. Values(maps) = [n \in 1..defers |-> value[n]]
  BY <1>2 DEF Values, OlDataTypeOK
<1> QED BY <1>2, <1>3 DEF OlDataTypeOK

LEMMA SetEffect ==
  ASSUME Sound, NEW m \in Maps, NEW id \in Id, SetMap(m, id),
         NEW k, k = ObtainEffectiveMapId(maps, id)
  PROVE  \E fresh \in BOOLEAN, e \in Nat : SetsAt(k, m, fresh, e)
<1> DEFINE fresh == maps[k].defer = 0 \/ maps[k].resolvedDefer
           e == IF fresh THEN defers + 1 ELSE maps[k].defer
           d == GetUnresolvedDefer(maps, id)
<1>0. OlDataTypeOK /\ k \in Keys
  BY KeyIsKey DEF Sound
<1>1. d = IF fresh THEN [maps EXCEPT ![k] = [defer |-> defers + 1, resolvedDefer |-> FALSE]]
          ELSE maps
  BY DEF GetUnresolvedDefer
<1>2. /\ Created(d) = IF fresh THEN defers + 1 ELSE defers
      /\ KeysOf(d) = KeysOf(maps) \cup {k}
  <2>1. CASE fresh
    BY <1>0, <1>1, <2>1, CreatedOnce
  <2>2. CASE ~ fresh
    <3>1. d = maps BY <1>1, <2>2
    <3>2. k \in KeysOf(maps) BY <1>0, <2>2 DEF KeysOf
    <3> QED BY <1>0, <2>2, <3>1, <3>2, CreatedNone
  <2> QED BY <2>1, <2>2
<1>3. ObtainEffectiveMapId(d, id) = k
  BY <1>2, SameKey
<1>4. d[k].defer = e
  BY <1>0, <1>1 DEF OlDataTypeOK
<1>5. maps' = [d EXCEPT ![k] = [defer |-> e, resolvedDefer |-> TRUE]]
  BY <1>3, <1>4 DEF SetMap, SetResolvedDefer
<1>6. maps' = [maps EXCEPT ![k] = [defer |-> e, resolvedDefer |-> TRUE]]
  BY <1>0, <1>1, <1>5 DEF OlDataTypeOK
<1>7. defers' = IF fresh THEN defers + 1 ELSE defers
  BY <1>2 DEF SetMap
<1>8. e \in 1..defers'
  BY <1>0, <1>7 DEF OlDataTypeOK
<1>9. value' = [n \in 1..defers' |-> IF n = e THEN m ELSE value[n]]
  <2>1. value' = [Values(d) EXCEPT ![e] = IF @ = NoMap THEN m ELSE @]
    BY <1>4 DEF SetMap
  <2>2. Values(d) = [n \in 1..defers' |-> IF n <= defers THEN value[n] ELSE NoMap]
    BY DEF SetMap, Values
  <2>3. Values(d)[e] = NoMap
    <3>1. CASE fresh
      BY <1>0, <1>8, <2>2, <3>1 DEF OlDataTypeOK
    <3>2. CASE ~ fresh
      <4>1. value[maps[k].defer] = NoMap /\ e = maps[k].defer
        BY <1>0, <3>2 DEF Sound, Newest
      <4> QED BY <1>0, <1>8, <2>2, <4>1 DEF OlDataTypeOK
    <3> QED BY <3>1, <3>2
  <2>4. \A n \in 1..defers' : n # e => n <= defers
    BY <1>0, <1>7 DEF OlDataTypeOK
  <2>5. value' = [n \in 1..defers' |-> IF n = e THEN m ELSE Values(d)[n]]
    BY <1>8, <2>1, <2>2, <2>3
  <2> QED BY <2>2, <2>4, <2>5
<1>10. lastSet' = [lastSet EXCEPT ![k] = m] /\ promise' = promise
  BY DEF SetMap
<1>11. fresh \in BOOLEAN /\ e \in Nat
  BY <1>0 DEF OlDataTypeOK
<1>12. SetsAt(k, m, fresh, e)
  BY <1>6, <1>7, <1>9, <1>10 DEF SetsAt
<1> QED BY <1>11, <1>12

LEMMA GetEffect ==
  ASSUME Sound, NEW q \in Requests, NEW id \in Id, GetMap(q, id),
         NEW k, k = ObtainEffectiveMapId(maps, id)
  PROVE  \E fresh \in BOOLEAN, e \in Nat : AsksAt(k, q, fresh, e)
<1> DEFINE fresh == maps[k].defer = 0
           e == IF fresh THEN defers + 1 ELSE maps[k].defer
           d == GetDefer(maps, id)
<1>0. OlDataTypeOK /\ k \in Keys /\ (fresh => ~ maps[k].resolvedDefer)
  BY KeyIsKey DEF Sound, Newest
<1>1. d = IF fresh THEN [maps EXCEPT ![k] = [defer |-> defers + 1, resolvedDefer |-> FALSE]]
          ELSE maps
  BY <1>0 DEF GetDefer, GetUnresolvedDefer
<1>2. Created(d) = IF fresh THEN defers + 1 ELSE defers
  <2>1. CASE fresh
    BY <1>0, <1>1, <2>1, CreatedOnce
  <2>2. CASE ~ fresh
    BY <1>0, <1>1, <2>2, CreatedNone
  <2> QED BY <2>1, <2>2
<1>3. d[k].defer = e
  BY <1>0, <1>1 DEF OlDataTypeOK
<1>4. /\ promise[q] = 0 /\ maps' = d /\ defers' = Created(d)
      /\ promise' = [promise EXCEPT ![q] = e]
      /\ lastSet' = lastSet /\ value' = Values(d)
  BY <1>3 DEF GetMap
<1>5. value' = [n \in 1..defers' |-> IF n <= defers THEN value[n] ELSE NoMap]
  BY <1>4 DEF Values
<1>6. fresh \in BOOLEAN /\ e \in Nat
  BY <1>0 DEF OlDataTypeOK
<1>7. AsksAt(k, q, fresh, e)
  BY <1>1, <1>2, <1>4, <1>5 DEF AsksAt
<1> QED BY <1>6, <1>7

-----------------------------------------------------------------------------
(* Both preserve the invariant.                                            *)
LEMMA SoundInit == ASSUME OlDataInit PROVE Sound
<1>1. value \in [1..defers -> Maps \cup {NoMap}]
  BY DEF OlDataInit
<1>2. OlDataTypeOK
  BY <1>1 DEF OlDataInit, OlDataTypeOK
<1>3. Own /\ Newest /\ Held
  BY DEF OlDataInit, Own, Newest, Held
<1> QED BY <1>2, <1>3 DEF Sound

LEMMA SoundSet ==
  ASSUME Sound, NEW k \in Keys, NEW m \in Maps, NEW fresh \in BOOLEAN, NEW e \in Nat,
         SetsAt(k, m, fresh, e)
  PROVE  Sound'
<1>1. OlDataTypeOK /\ Own /\ Newest /\ Held
  BY DEF Sound
<1>0. \A j \in Keys : maps[j].defer \in 0..defers /\ maps[j].resolvedDefer \in BOOLEAN
  BY <1>1 DEF OlDataTypeOK
<1>2. e \in 1..defers' /\ defers' \in Nat /\ defers <= defers'
  <2>1. CASE fresh
    BY <1>1, <2>1 DEF SetsAt, OlDataTypeOK
  <2>2. CASE ~ fresh
    BY <1>0, <1>1, <2>2 DEF SetsAt, OlDataTypeOK
  <2> QED BY <2>1, <2>2
<1>3. /\ maps'[k].defer = e /\ maps'[k].resolvedDefer
      /\ \A j \in Keys : j # k => maps'[j] = maps[j] /\ maps[j].defer # e
  <2>1. \A j \in Keys : j # k => maps[j].defer # e
    <3>1. CASE fresh
      BY <1>0, <1>1, <3>1 DEF SetsAt, OlDataTypeOK
    <3>2. CASE ~ fresh
      BY <1>0, <1>1, <3>2 DEF SetsAt, Own
    <3> QED BY <3>1, <3>2
  <2> QED BY <1>1, <2>1 DEF SetsAt, OlDataTypeOK
<1>4. \A n \in 1..defers : n # e => n \in 1..defers' /\ value'[n] = value[n]
  BY <1>1, <1>2 DEF SetsAt, OlDataTypeOK
<1>5. value'[e] = m /\ lastSet'[k] = m /\ \A j \in Keys : j # k => lastSet'[j] = lastSet[j]
  BY <1>1, <1>2 DEF SetsAt, OlDataTypeOK
<1>6. OlDataTypeOK'
  <2>1. maps' \in [Keys -> [defer : 0..defers', resolvedDefer : BOOLEAN]]
    BY <1>1, <1>2 DEF SetsAt, OlDataTypeOK
  <2>2. value' \in [1..defers' -> Maps \cup {NoMap}]
    <3>1. \A n \in 1..defers' : n # e => n \in 1..defers
      BY <1>1 DEF SetsAt, OlDataTypeOK
    <3> QED BY <1>1, <3>1 DEF SetsAt, OlDataTypeOK
  <2>3. promise' \in [Requests -> 0..defers'] /\ lastSet' \in [Keys -> Maps \cup {NoMap}]
    BY <1>1, <1>2 DEF SetsAt, OlDataTypeOK
  <2> QED BY <1>2, <2>1, <2>2, <2>3 DEF OlDataTypeOK
<1>7. Own'
  BY <1>1, <1>3 DEF Own
<1>8. Newest'
  <2> SUFFICES ASSUME NEW j \in Keys
               PROVE  /\ maps'[j].defer = 0 => lastSet'[j] = NoMap /\ ~ maps'[j].resolvedDefer
                      /\ maps'[j].defer # 0 =>
                           /\ value'[maps'[j].defer] = lastSet'[j]
                           /\ maps'[j].resolvedDefer <=> lastSet'[j] # NoMap
    BY DEF Newest
  <2>1. CASE j = k
    BY <1>2, <1>3, <1>5, <2>1, OlDataAssumption
  <2>2. CASE j # k
    <3>1. maps[j].defer # 0 => maps[j].defer \in 1..defers
      BY <1>1 DEF OlDataTypeOK
    <3> QED BY <1>1, <1>3, <1>4, <1>5, <2>2, <3>1 DEF Newest
  <2> QED BY <2>1, <2>2
<1>9. Held'
  <2> SUFFICES ASSUME NEW q \in Requests, promise'[q] # 0, value'[promise'[q]] = NoMap
               PROVE  \E j \in Keys : maps'[j].defer = promise'[q]
    BY DEF Held
  <2>1. promise'[q] = promise[q] /\ promise[q] \in 1..defers /\ promise[q] # e
    BY <1>1, <1>5, OlDataAssumption DEF SetsAt, OlDataTypeOK
  <2>2. PICK j \in Keys : maps[j].defer = promise[q]
    BY <1>1, <1>4, <2>1 DEF Held
  <2>3. CASE j = k
    <3>1. fresh
      BY <2>1, <2>2, <2>3 DEF SetsAt
    <3>2. maps[k].resolvedDefer /\ value[promise[q]] = NoMap
      BY <1>4, <2>1, <2>2, <2>3, <3>1 DEF SetsAt
    <3> QED BY <1>1, <2>1, <2>2, <2>3, <3>2 DEF Newest
  <2>4. CASE j # k
    BY <1>3, <2>1, <2>2, <2>4
  <2> QED BY <2>3, <2>4
<1> QED BY <1>6, <1>7, <1>8, <1>9 DEF Sound

LEMMA SoundGet ==
  ASSUME Sound, NEW k \in Keys, NEW q \in Requests, NEW fresh \in BOOLEAN, NEW e \in Nat,
         AsksAt(k, q, fresh, e)
  PROVE  Sound'
<1>1. OlDataTypeOK /\ Own /\ Newest /\ Held
  BY DEF Sound
<1>0. \A j \in Keys : maps[j].defer \in 0..defers /\ maps[j].resolvedDefer \in BOOLEAN
  BY <1>1 DEF OlDataTypeOK
<1>2. e \in 1..defers' /\ defers' \in Nat /\ defers <= defers'
  <2>1. CASE fresh
    BY <1>1, <2>1 DEF AsksAt, OlDataTypeOK
  <2>2. CASE ~ fresh
    BY <1>0, <1>1, <2>2 DEF AsksAt, OlDataTypeOK
  <2> QED BY <2>1, <2>2
<1>3. /\ maps'[k].defer = e /\ maps'[k].resolvedDefer = maps[k].resolvedDefer
      /\ \A j \in Keys : j # k => maps'[j] = maps[j] /\ maps[j].defer # e
  <2>1. \A j \in Keys : j # k => maps[j].defer # e
    <3>1. CASE fresh
      BY <1>0, <1>1, <3>1 DEF AsksAt, OlDataTypeOK
    <3>2. CASE ~ fresh
      BY <1>0, <1>1, <3>2 DEF AsksAt, Own
    <3> QED BY <3>1, <3>2
  <2>2. fresh => ~ maps[k].resolvedDefer
    BY <1>1 DEF AsksAt, Newest
  <2> QED BY <1>1, <2>1, <2>2 DEF AsksAt, OlDataTypeOK
<1>4. /\ \A n \in 1..defers : n \in 1..defers' /\ value'[n] = value[n]
      /\ fresh => e = defers + 1 /\ value'[e] = NoMap
  BY <1>1, <1>2 DEF AsksAt, OlDataTypeOK
<1>5. lastSet' = lastSet
  BY DEF AsksAt
<1>6. OlDataTypeOK'
  <2>1. maps' \in [Keys -> [defer : 0..defers', resolvedDefer : BOOLEAN]]
    BY <1>1, <1>2 DEF AsksAt, OlDataTypeOK
  <2>2. value' \in [1..defers' -> Maps \cup {NoMap}]
    BY <1>1, <1>2 DEF AsksAt, OlDataTypeOK
  <2>3. promise' \in [Requests -> 0..defers']
    BY <1>1, <1>2 DEF AsksAt, OlDataTypeOK
  <2> QED BY <1>1, <1>2, <1>5, <2>1, <2>2, <2>3 DEF OlDataTypeOK
<1>7. Own'
  BY <1>1, <1>3 DEF Own
<1>8. Newest'
  <2> SUFFICES ASSUME NEW j \in Keys
               PROVE  /\ maps'[j].defer = 0 => lastSet'[j] = NoMap /\ ~ maps'[j].resolvedDefer
                      /\ maps'[j].defer # 0 =>
                           /\ value'[maps'[j].defer] = lastSet'[j]
                           /\ maps'[j].resolvedDefer <=> lastSet'[j] # NoMap
    BY DEF Newest
  <2>0. maps[j].defer # 0 => maps[j].defer \in 1..defers
    BY <1>1 DEF OlDataTypeOK
  <2>1. CASE j = k /\ fresh
    BY <1>1, <1>2, <1>3, <1>4, <1>5, <2>1 DEF AsksAt, Newest
  <2>2. CASE j = k /\ ~ fresh
    <3>1. maps' = maps
      BY <2>2 DEF AsksAt
    <3> QED BY <1>1, <1>4, <1>5, <2>0, <3>1 DEF Newest
  <2>3. CASE j # k
    BY <1>1, <1>3, <1>4, <1>5, <2>0, <2>3 DEF Newest
  <2> QED BY <2>1, <2>2, <2>3
<1>9. Held'
  <2> SUFFICES ASSUME NEW r \in Requests, promise'[r] # 0, value'[promise'[r]] = NoMap
               PROVE  \E j \in Keys : maps'[j].defer = promise'[r]
    BY DEF Held
  <2>1. CASE r = q
    BY <1>1, <1>3, <2>1 DEF AsksAt, OlDataTypeOK
  <2>2. CASE r # q
    <3>1. promise'[r] = promise[r] /\ promise[r] \in 1..defers
      BY <1>1, <2>2 DEF AsksAt, OlDataTypeOK
    <3>2. PICK j \in Keys : maps[j].defer = promise[r]
      BY <1>1, <1>4, <3>1 DEF Held
    <3>3. maps'[j].defer = maps[j].defer
      BY <1>1, <3>1, <3>2 DEF AsksAt, OlDataTypeOK
    <3> QED BY <3>1, <3>2, <3>3
  <2> QED BY <2>1, <2>2
<1> QED BY <1>6, <1>7, <1>8, <1>9 DEF Sound

-----------------------------------------------------------------------------
(* The refinement.  Who waits, waits for the key of its deferred.          *)
WaitsRight ==
  \A q \in Requests :
    /\ promise[q] # 0 /\ value[promise[q]] = NoMap =>
         /\ Waiting(q) \in Keys /\ maps[Waiting(q)].defer = promise[q]
         /\ Answer(q) = NoMap
    /\ promise[q] # 0 /\ value[promise[q]] # NoMap =>
         Waiting(q) = Undefined /\ Answer(q) = value[promise[q]]
    /\ promise[q] = 0 => Waiting(q) = Undefined /\ Answer(q) = NoMap

LEMMA SoundWaits == Sound => WaitsRight
<1> SUFFICES ASSUME Held PROVE WaitsRight
  BY DEF Sound
<1> SUFFICES ASSUME NEW q \in Requests
             PROVE  /\ promise[q] # 0 /\ value[promise[q]] = NoMap =>
                         /\ Waiting(q) \in Keys /\ maps[Waiting(q)].defer = promise[q]
                         /\ Answer(q) = NoMap
                    /\ promise[q] # 0 /\ value[promise[q]] # NoMap =>
                         Waiting(q) = Undefined /\ Answer(q) = value[promise[q]]
                    /\ promise[q] = 0 => Waiting(q) = Undefined /\ Answer(q) = NoMap
  BY DEF WaitsRight
<1>1. CASE promise[q] # 0 /\ value[promise[q]] = NoMap
  <2>1. \E k \in Keys : maps[k].defer = promise[q]
    BY <1>1 DEF Held
  <2>2. Waiting(q) = CHOOSE k \in Keys : maps[k].defer = promise[q]
    BY <1>1 DEF Waiting, Answer
  <2> QED BY <1>1, <2>1, <2>2 DEF Answer
<1>2. CASE ~ (promise[q] # 0 /\ value[promise[q]] = NoMap)
  BY <1>2 DEF Waiting, Answer
<1> QED BY <1>1, <1>2

\* Setting a map serves those who wait for its key, and nobody else.
LEMMA RefineSet ==
  ASSUME Sound, Sound', NEW id \in Id, NEW k \in Keys, k = ObtainEffectiveMapId(maps, id),
         NEW m \in Maps, NEW fresh \in BOOLEAN, NEW e \in Nat, SetsAt(k, m, fresh, e)
  PROVE  Registry!Set(m, id)
<1>1. OlDataTypeOK /\ Own /\ Newest /\ WaitsRight
  BY SoundWaits DEF Sound
<1>2. WaitsRight' /\ Own'
  <2>1. WaitsRight' BY SoundWaits, PTL
  <2> QED BY <2>1 DEF Sound
<1>3. Registry!KeyOf(KeysOf(maps), id) = k
  BY RegistryKey
<1>4. e # 0 /\ e \in 1..defers' /\ maps'[k].defer = e /\ value'[e] = m
  <2>1. CASE fresh
    BY <1>1, <2>1 DEF SetsAt, OlDataTypeOK
  <2>2. CASE ~ fresh
    <3>1. maps[k].defer \in 0..defers BY <1>1 DEF OlDataTypeOK
    <3> QED BY <1>1, <2>2, <3>1 DEF SetsAt, OlDataTypeOK
  <2> QED BY <2>1, <2>2
<1>5. \A j \in Keys : j # k => maps'[j] = maps[j]
  BY <1>1 DEF SetsAt, OlDataTypeOK
<1>6. KeysOf(maps)' = KeysOf(maps) \cup {k}
  <2>1. KeysOf(maps)' = {j \in Keys : maps'[j].defer # 0}
    BY DEF KeysOf
  <2> QED BY <1>4, <1>5, <2>1 DEF KeysOf
<1>7. ASSUME NEW q \in Requests
      PROVE  /\ Waiting(q)' = IF Waiting(q) = k THEN Undefined ELSE Waiting(q)
             /\ Answer(q)' = IF Waiting(q) = k THEN m ELSE Answer(q)
  <2>0. promise'[q] = promise[q] /\ promise[q] \in 0..defers /\ Undefined \notin Keys
        /\ m # NoMap
    BY <1>1, OlDataAssumption DEF SetsAt, OlDataTypeOK
  <2>1. CASE promise[q] = 0
    BY <1>1, <1>2, <2>0, <2>1 DEF WaitsRight
  <2>2. CASE promise[q] # 0 /\ promise[q] # e
    <3>1. value'[promise[q]] = value[promise[q]]
      BY <1>1, <2>0, <2>2 DEF SetsAt, OlDataTypeOK
    <3>2. CASE value[promise[q]] # NoMap
      BY <1>1, <1>2, <2>0, <2>2, <3>1, <3>2 DEF WaitsRight
    <3>3. CASE value[promise[q]] = NoMap
      <4>1. /\ Waiting(q) \in Keys /\ maps[Waiting(q)].defer = promise[q]
            /\ Waiting(q)' \in Keys /\ maps'[Waiting(q)'].defer = promise[q]
            /\ Answer(q) = NoMap /\ Answer(q)' = NoMap
        BY <1>1, <1>2, <2>0, <2>2, <3>1, <3>3 DEF WaitsRight
      <4>2. Waiting(q)' # k /\ maps[Waiting(q)'].defer = promise[q]
        BY <1>4, <1>5, <2>2, <4>1
      <4>3. Waiting(q)' = Waiting(q)
        BY <1>1, <2>2, <4>1, <4>2 DEF Own
      <4> QED BY <4>1, <4>2, <4>3
    <3> QED BY <3>2, <3>3
  <2>3. CASE promise[q] # 0 /\ promise[q] = e
    <3>1. ~ fresh /\ maps[k].defer = e
      BY <1>1, <2>0, <2>3 DEF SetsAt, OlDataTypeOK
    <3>2. value[e] = NoMap
      BY <1>1, <1>4, <3>1 DEF SetsAt, Newest
    <3>3. Waiting(q) \in Keys /\ maps[Waiting(q)].defer = e
      BY <1>1, <2>3, <3>2 DEF WaitsRight
    <3>4. Waiting(q) = k
      BY <1>1, <1>4, <3>1, <3>3 DEF Own
    <3>5. Waiting(q)' = Undefined /\ Answer(q)' = m
      BY <1>2, <1>4, <2>0, <2>3 DEF WaitsRight
    <3> QED BY <3>4, <3>5
  <2> QED BY <2>0, <2>1, <2>2, <2>3
<1>8. lastSet' = [lastSet EXCEPT ![k] = m]
  BY DEF SetsAt
<1>9. Registry!Set(m, id)
  BY <1>3, <1>6, <1>7, <1>8 DEF Registry!Set
<1> QED BY <1>9

\* Who asks gets the map that is current for the key, or waits for one.
LEMMA RefineGet ==
  ASSUME Sound, Sound', NEW id \in Id, NEW k \in Keys, k = ObtainEffectiveMapId(maps, id),
         NEW q \in Requests, NEW fresh \in BOOLEAN, NEW e \in Nat, AsksAt(k, q, fresh, e)
  PROVE  Registry!Get(q, id)
<1>1. OlDataTypeOK /\ Own /\ Newest /\ WaitsRight
  BY SoundWaits DEF Sound
<1>2. WaitsRight' /\ Own' /\ Newest'
  <2>1. WaitsRight' BY SoundWaits, PTL
  <2> QED BY <2>1 DEF Sound
<1>3. Registry!KeyOf(KeysOf(maps), id) = k
  BY RegistryKey
<1>4. e # 0 /\ maps'[k].defer = e /\ promise'[q] = e
  <2>0. maps[k].defer \in 0..defers
    BY <1>1 DEF OlDataTypeOK
  <2>1. CASE fresh
    BY <1>1, <2>1 DEF AsksAt, OlDataTypeOK
  <2>2. CASE ~ fresh
    BY <1>1, <2>0, <2>2 DEF AsksAt, OlDataTypeOK
  <2> QED BY <2>1, <2>2
<1>5. \A j \in Keys : j # k => maps'[j] = maps[j]
  BY <1>1 DEF AsksAt, OlDataTypeOK
<1>6. KeysOf(maps)' = KeysOf(maps) \cup {k}
  <2>1. KeysOf(maps)' = {j \in Keys : maps'[j].defer # 0}
    BY DEF KeysOf
  <2> QED BY <1>4, <1>5, <2>1 DEF KeysOf
<1>7. Waiting(q) = Undefined /\ Answer(q) = NoMap
  BY <1>1 DEF AsksAt, WaitsRight
<1>8. /\ Waiting(q)' = IF lastSet[k] = NoMap THEN k ELSE Undefined
      /\ Answer(q)' = lastSet[k]
  <2>1. value'[e] = lastSet[k]
    BY <1>2, <1>4 DEF Newest, AsksAt
  <2>2. CASE lastSet[k] = NoMap
    <3>1. Waiting(q)' \in Keys /\ maps'[Waiting(q)'].defer = e /\ Answer(q)' = NoMap
      BY <1>2, <1>4, <2>1, <2>2 DEF WaitsRight
    <3>2. Waiting(q)' = k
      BY <1>2, <1>4, <3>1 DEF Own
    <3> QED BY <2>2, <3>1, <3>2
  <2>3. CASE lastSet[k] # NoMap
    BY <1>2, <1>4, <2>1, <2>3 DEF WaitsRight
  <2> QED BY <2>2, <2>3
<1>9. ASSUME NEW r \in Requests, r # q
      PROVE  Waiting(r)' = Waiting(r) /\ Answer(r)' = Answer(r)
  <2>1. promise'[r] = promise[r] /\ promise[r] \in 0..defers
    BY <1>1, <1>9 DEF AsksAt, OlDataTypeOK
  <2>2. CASE promise[r] = 0
    BY <1>1, <1>2, <2>1, <2>2 DEF WaitsRight
  <2>3. CASE promise[r] # 0
    <3>1. value'[promise[r]] = value[promise[r]]
      BY <1>1, <2>1, <2>3 DEF AsksAt, OlDataTypeOK
    <3>2. CASE value[promise[r]] # NoMap
      BY <1>1, <1>2, <2>1, <2>3, <3>1, <3>2 DEF WaitsRight
    <3>3. CASE value[promise[r]] = NoMap
      <4>1. /\ Waiting(r) \in Keys /\ maps[Waiting(r)].defer = promise[r]
            /\ Waiting(r)' \in Keys /\ maps'[Waiting(r)'].defer = promise[r]
            /\ Answer(r) = NoMap /\ Answer(r)' = NoMap
        BY <1>1, <1>2, <2>1, <2>3, <3>1, <3>3 DEF WaitsRight
      <4>2. maps'[Waiting(r)].defer = promise[r]
        BY <1>1, <2>1, <2>3, <4>1 DEF AsksAt, OlDataTypeOK
      <4>3. Waiting(r)' = Waiting(r)
        BY <1>2, <2>3, <4>1, <4>2 DEF Own
      <4> QED BY <4>1, <4>3
    <3> QED BY <3>2, <3>3
  <2> QED BY <2>2, <2>3
<1>10. lastSet' = lastSet
  BY DEF AsksAt
<1>11. Registry!Get(q, id)
  <2>1. /\ [r \in Requests |-> Waiting(r)]' =
             [[r \in Requests |-> Waiting(r)] EXCEPT ![q] =
                IF lastSet[k] = NoMap THEN k ELSE Undefined]
        /\ [r \in Requests |-> Answer(r)]' =
             [[r \in Requests |-> Answer(r)] EXCEPT ![q] = lastSet[k]]
    BY <1>8, <1>9
  <2> QED BY <1>3, <1>6, <1>7, <1>10, <2>1 DEF Registry!Get
<1> QED BY <1>11

-----------------------------------------------------------------------------
(* Every step of the page is a step of the registry or none.               *)
LEMMA SetStep ==
  ASSUME Sound, NEW m \in Maps, NEW id \in Id, SetMap(m, id)
  PROVE  Sound' /\ Registry!Next
<1> DEFINE k == ObtainEffectiveMapId(maps, id)
<1>1. k \in Keys
  BY KeyIsKey
<1>2. PICK fresh \in BOOLEAN, e \in Nat : SetsAt(k, m, fresh, e)
  BY SetEffect
<1>3. Sound'
  BY <1>1, <1>2, SoundSet
<1>4. Registry!Set(m, id)
  BY <1>1, <1>2, <1>3, RefineSet
<1> QED BY <1>3, <1>4 DEF Registry!Next, Id

LEMMA GetStep ==
  ASSUME Sound, NEW q \in Requests, NEW id \in Id, GetMap(q, id)
  PROVE  Sound' /\ Registry!Next
<1> DEFINE k == ObtainEffectiveMapId(maps, id)
<1>1. k \in Keys
  BY KeyIsKey
<1>2. PICK fresh \in BOOLEAN, e \in Nat : AsksAt(k, q, fresh, e)
  BY GetEffect
<1>3. Sound'
  BY <1>1, <1>2, SoundGet
<1>4. Registry!Get(q, id)
  BY <1>1, <1>2, <1>3, RefineGet
<1> QED BY <1>3, <1>4 DEF Registry!Next, Id

LEMMA NoStep ==
  ASSUME Sound, UNCHANGED olDataVars
  PROVE  Sound' /\ UNCHANGED Registry!vars
<1>1. /\ maps' = maps /\ defers' = defers /\ value' = value /\ promise' = promise
      /\ lastSet' = lastSet
  BY DEF olDataVars
<1>2. Sound'
  BY <1>1 DEF Sound, OlDataTypeOK, Own, Newest, Held
<1>3. UNCHANGED Registry!vars
  BY <1>1 DEF Registry!vars, KeysOf, Waiting, Answer
<1> QED BY <1>2, <1>3

LEMMA PageStep ==
  ASSUME Sound, [Next]_vars
  PROVE  Sound' /\ [Registry!Next]_(Registry!vars)
<1> USE DEF Id
<1>1. CASE MapCtrl
  BY <1>1, GetStep, PageAssumption DEF MapCtrl
<1>2. CASE Link
  BY <1>2, SetStep, PageAssumption DEF Link
<1>3. CASE Started
  BY <1>3, GetStep, PageAssumption DEF Started
<1>4. ASSUME NEW q \in Resizes, SelectMap(q) PROVE Sound' /\ [Registry!Next]_(Registry!vars)
  BY <1>4, GetStep, PageAssumption DEF SelectMap
<1>5. ASSUME NEW id \in Ids \cup {Undefined}, NEW m \in OtherMaps, OtherSets(m, id)
      PROVE  Sound' /\ [Registry!Next]_(Registry!vars)
  BY <1>5, SetStep, PageAssumption DEF OtherSets
<1>6. ASSUME NEW id \in Ids \cup {Undefined}, NEW q \in OtherRequests, OtherGets(q, id)
      PROVE  Sound' /\ [Registry!Next]_(Registry!vars)
  BY <1>6, GetStep, PageAssumption DEF OtherGets
<1>7. CASE SelectDashboard \/ Move \/ Render \/ Connected \/ Lost
           \/ (\E q \in Requests : Timeout(q)) \/ UNCHANGED vars
  <2>1. UNCHANGED olDataVars
    BY <1>7 DEF SelectDashboard, Move, Render, Connected, Lost, Timeout, vars
  <2> QED BY <2>1, NoStep
<1> QED BY <1>1, <1>2, <1>3, <1>4, <1>5, <1>6, <1>7 DEF Next

LEMMA RegistryInit == Init => Registry!Init
<1> SUFFICES ASSUME Init PROVE Registry!Init
  OBVIOUS
<1>1. OlDataInit
  BY DEF Init
<1>2. KeysOf(maps) = {}
  BY <1>1 DEF OlDataInit, KeysOf
<1>3. \A q \in Requests : Waiting(q) = Undefined /\ Answer(q) = NoMap
  BY <1>1 DEF OlDataInit, Waiting, Answer
<1>4. lastSet = [k \in Keys |-> NoMap]
  BY <1>1 DEF OlDataInit
<1> QED
  BY <1>2, <1>3, <1>4 DEF Registry!Init, Registry!Keys, Registry!Main, Registry!Missing, Keys,
     Main, Missing

\* The deferreds behind the ids keep what olData promises, whatever maps and requests
\* there are and whoever calls getMap and setMap in which order.
THEOREM PageKeepsRegistry == Spec => KeepsRegistry
<1>1. Init => Sound /\ Registry!Init
  BY SoundInit, RegistryInit DEF Init
<1>2. Sound /\ [Next]_vars => Sound' /\ [Registry!Next]_(Registry!vars)
  BY PageStep
<1> QED BY <1>1, <1>2, PTL DEF Spec, KeepsRegistry, Registry!Spec

-----------------------------------------------------------------------------
(* The page on top of the registry.  Callbacks have run for requests that  *)
(* are answered, the one for the vessels at most once, and nobody listens  *)
(* before the socket is there.                                             *)
Page ==
  /\ TypeOK
  /\ ran \subseteq Answered
  /\ layers = 1 => "vessels" \in ran
  /\ ~ controlled => socket = "none"
  /\ listening => socket \in {"started", "lost"}
  /\ ServerKnowsWindow

\* Who has an answer keeps one.
LEMMA AnsweredGrows ==
  ASSUME [Registry!Next]_(Registry!vars)
  PROVE  Answered \subseteq Answered'
<1> SUFFICES ASSUME NEW q \in Requests, Answer(q) # NoMap PROVE Answer(q)' # NoMap
  BY DEF Answered
<1>1. ASSUME NEW m \in Maps, NEW id \in Id, Registry!Set(m, id) PROVE Answer(q)' # NoMap
  <2>1. Answer(q)' \in {m, Answer(q)}
    BY <1>1 DEF Registry!Set
  <2> QED BY <2>1, OlDataAssumption
<1>2. ASSUME NEW r \in Requests, NEW id \in Id, Registry!Get(r, id) PROVE Answer(q)' # NoMap
  <2>1. q # r /\ Answer(q)' = Answer(q)
    BY <1>2 DEF Registry!Get
  <2> QED BY <2>1
<1>3. CASE UNCHANGED Registry!vars
  <2>1. [r \in Requests |-> Answer(r)]' = [r \in Requests |-> Answer(r)]
    BY <1>3 DEF Registry!vars
  <2>2. [r \in Requests |-> Answer(r)]'[q] = Answer(q)'
    OBVIOUS
  <2> QED BY <2>1, <2>2
<1> QED BY <1>1, <1>2, <1>3 DEF Registry!Next, Id

LEMMA DigestKeeps ==
  ASSUME Page, OlDataTypeOK', Answered \subseteq Answered', Digest,
         controlled' \in BOOLEAN, linked' \in BOOLEAN, active' \in BOOLEAN, others' \in BOOLEAN,
         socket' \in {"none", "connecting", "starting", "started", "lost"},
         socket' = socket \/ socket \in {"none", "starting"},
         ~ controlled' => socket' = "none"
  PROVE  Page'
<1>1. /\ ran' = Answered' /\ Answered' \subseteq Requests /\ ran \subseteq ran'
      /\ timeouts' \subseteq ran'
  BY DEF Digest, Callbacks, Page, TypeOK, Answered
<1>2. /\ layers' \in {0, 1}
      /\ layers' = 1 => "vessels" \in ran'
  BY <1>1 DEF Digest, VesselsCallback, Page, TypeOK
<1>3. /\ listening' \in BOOLEAN
      /\ listening' => listening \/ socket' = "started"
      /\ early' \in 0..frame
      /\ listening' => (listening /\ early' = early) \/ early' = frame
  BY DEF Digest, VesselsCallback, Page, TypeOK
<1>4. /\ visible' = active' /\ size' = size
      /\ position' = position /\ frame' = frame /\ told' = told
  BY DEF Digest, Callbacks
<1>5. listening' => socket' \in {"started", "lost"}
  BY <1>3 DEF Page
<1>6. ServerKnowsWindow'
  BY <1>3, <1>4, <1>5 DEF Page, ServerKnowsWindow
<1>7. TypeOK'
  <2>1. size' \in BOOLEAN /\ position' \in 1..MaxMoves /\ frame' \in 0..position'
        /\ told' \in 0..frame'
    BY <1>4 DEF Page, TypeOK
  <2>2. visible' \in BOOLEAN
    BY <1>4
  <2>3. early' \in 0..frame'
    BY <1>3, <1>4
  <2>4. ran' \subseteq Requests /\ timeouts' \subseteq ran'
    BY <1>1
  <2>5. layers' \in {0, 1} /\ listening' \in BOOLEAN
    BY <1>2, <1>3
  <2> QED BY <2>1, <2>2, <2>3, <2>4, <2>5 DEF TypeOK
<1> QED BY <1>1, <1>2, <1>5, <1>6, <1>7 DEF Page

LEMMA PageInit == Init => Page
<1> SUFFICES ASSUME Init PROVE Page
  OBVIOUS
<1>1. OlDataTypeOK
  BY SoundInit DEF Init, Sound
<1>2. TypeOK
  <2>1. ran \subseteq Requests /\ timeouts \subseteq ran
    BY DEF Init
  <2>2. position \in 1..MaxMoves /\ frame \in 0..position /\ told \in 0..frame /\ early \in 0..frame
    BY PageAssumption DEF Init
  <2> QED BY <1>1, <2>1, <2>2 DEF Init, TypeOK
<1> QED BY <1>2 DEF Init, Page, ServerKnowsWindow

LEMMA PageKeeps ==
  ASSUME Sound, Page, [Next]_vars
  PROVE  Page'
<1>0. OlDataTypeOK' /\ Answered \subseteq Answered'
  BY PageStep, AnsweredGrows DEF Sound
<1>1. CASE MapCtrl
  BY <1>0, <1>1, DigestKeeps DEF MapCtrl, Page, TypeOK
<1>2. CASE Link
  BY <1>0, <1>2, DigestKeeps DEF Link, Page, TypeOK
<1>3. CASE Started
  BY <1>0, <1>3, DigestKeeps DEF Started, Page, TypeOK
<1>4. ASSUME NEW q \in Resizes, SelectMap(q) PROVE Page'
  BY <1>0, <1>4, DigestKeeps DEF SelectMap, Page, TypeOK
<1>5. CASE SelectDashboard
  BY <1>0, <1>5, DigestKeeps DEF SelectDashboard, Page, TypeOK
<1>6. ASSUME NEW id \in Ids \cup {Undefined}, NEW m \in OtherMaps, OtherSets(m, id)
      PROVE  Page'
  BY <1>0, <1>6, DigestKeeps DEF OtherSets, Page, TypeOK
<1>7. ASSUME NEW id \in Ids \cup {Undefined}, NEW q \in OtherRequests, OtherGets(q, id)
      PROVE  Page'
  BY <1>0, <1>7, DigestKeeps DEF OtherGets, Page, TypeOK
<1>8. ASSUME NEW q \in Requests, Timeout(q) PROVE Page'
  <2>1. /\ UNCHANGED <<controlled, linked, active, visible, ran, layers, listening, early>>
        /\ UNCHANGED <<position, frame, told, socket, others>>
        /\ timeouts' \subseteq timeouts /\ size' \in {size, visible}
    BY <1>8 DEF Timeout, tabVars
  <2>2. TypeOK'
    BY <1>0, <2>1 DEF Page, TypeOK
  <2> QED BY <1>0, <2>1, <2>2 DEF Page, ServerKnowsWindow
<1>9. CASE Move
  <2>1. /\ UNCHANGED <<controlled, linked, active, visible, ran, timeouts, layers, listening>>
        /\ UNCHANGED <<early, size, frame, told, socket, others>>
    BY <1>9 DEF Move, tabVars, callbackVars
  <2>2. position' \in 1..MaxMoves /\ frame' \in 0..position'
    BY <1>9, <2>1, PageAssumption DEF Move, Page, TypeOK
  <2>3. TypeOK'
    BY <1>0, <2>1, <2>2 DEF Page, TypeOK
  <2> QED BY <1>0, <2>1, <2>3 DEF Page, ServerKnowsWindow
<1>10. CASE Render
  BY <1>0, <1>10 DEF Render, tabVars, callbackVars, olDataVars, Page, TypeOK, ServerKnowsWindow
<1>11. CASE Connected
  BY <1>0, <1>11
  DEF Connected, tabVars, callbackVars, mapVars, olDataVars, Page, TypeOK, ServerKnowsWindow
<1>12. CASE Lost
  BY <1>0, <1>12
  DEF Lost, tabVars, callbackVars, mapVars, olDataVars, Page, TypeOK, ServerKnowsWindow
<1>13. CASE UNCHANGED vars
  BY <1>0, <1>13
  DEF vars, tabVars, callbackVars, mapVars, olDataVars, Page, TypeOK, ServerKnowsWindow
<1> QED
  BY <1>1, <1>2, <1>3, <1>4, <1>5, <1>6, <1>7, <1>8, <1>9, <1>10, <1>11, <1>12, <1>13 DEF Next

\* Callbacks run once and for requests that exist, and nothing is told that was not drawn.
THEOREM PageTypeCorrect == Spec => []TypeOK
<1>1. Init => Sound /\ Page
  BY SoundInit, PageInit DEF Init
<1>2. Sound /\ Page /\ [Next]_vars => Sound' /\ Page'
  BY PageStep, PageKeeps
<1>3. Page => TypeOK
  BY DEF Page
<1> QED BY <1>1, <1>2, <1>3, PTL DEF Spec

\* While the connection stands the server works with the window on the screen, but for
\* the window drawn before the page listened.
THEOREM PageServerKnowsWindow == Spec => []ServerKnowsWindow
<1>1. Init => Sound /\ Page
  BY SoundInit, PageInit DEF Init
<1>2. Sound /\ Page /\ [Next]_vars => Sound' /\ Page'
  BY PageStep, PageKeeps
<1>3. Page => ServerKnowsWindow
  BY DEF Page
<1> QED BY <1>1, <1>2, <1>3, PTL DEF Spec
=============================================================================
