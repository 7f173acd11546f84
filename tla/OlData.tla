------------------------------- MODULE OlData -------------------------------
(***************************************************************************)
(* The olData service of angular-openlayers-directive.js: the maps of the  *)
(* page, each behind a deferred.  A key holds the deferred of its last     *)
(* map, or one that waits for a map.                                       *)
(***************************************************************************)
EXTENDS Integers, FiniteSets

CONSTANTS Ids, Maps, Requests, Undefined, NoMap

Main == "main"
Missing == "undefined"   \* d[undefined]
Keys == Ids \cup {Main, Missing}

ASSUME OlDataAssumption ==
  /\ IsFiniteSet(Ids)
  /\ Undefined \notin Keys /\ NoMap \notin Maps

VARIABLES
  maps,     \* key -> [defer, resolvedDefer], defer 0 if the key is not there
  defers,   \* deferreds created so far
  value,    \* deferred -> what it is resolved with; one for each that was created
  promise   \* request -> the deferred whose promise it got, 0 if not asked yet

(* History, read by no action.                                             *)
VARIABLE lastSet  \* key -> the map setMap was called with last

olDataVars == <<maps, defers, value, promise, lastSet>>

OlDataInit ==
  /\ maps = [k \in Keys |-> [defer |-> 0, resolvedDefer |-> FALSE]]
  /\ defers = 0
  /\ value = <<>>
  /\ promise = [q \in Requests |-> 0]
  /\ lastSet = [k \in Keys |-> NoMap]

KeysOf(d) == {k \in Keys : d[k].defer # 0}

ObtainEffectiveMapId(d, mapId) ==
  IF mapId # Undefined THEN mapId
  ELSE CASE KeysOf(d) = {} -> Main
         [] Cardinality(KeysOf(d)) = 1 -> CHOOSE k \in KeysOf(d) : TRUE
         [] OTHER -> Missing

\* The maps with a deferred at the key that is not resolved yet.
\* Mutant: a resolved one is kept, and resolved again.
KeepsDefer(d, mapId) ==
  LET id == ObtainEffectiveMapId(d, mapId)
  IN  IF d[id].defer = 0
      THEN [d EXCEPT ![id] = [defer |-> defers + 1, resolvedDefer |-> FALSE]] ELSE d
GetUnresolvedDefer(d, mapId) ==
  LET id == ObtainEffectiveMapId(d, mapId)
  IN  IF d[id].defer = 0 \/ d[id].resolvedDefer
      THEN [d EXCEPT ![id] = [defer |-> defers + 1, resolvedDefer |-> FALSE]] ELSE d

\* The maps with any deferred at the key.
GetDefer(d, mapId) ==
  LET id == ObtainEffectiveMapId(d, mapId)
  IN  IF d[id].defer = 0 \/ ~ d[id].resolvedDefer THEN GetUnresolvedDefer(d, mapId) ELSE d

SetResolvedDefer(d, mapId) ==
  [d EXCEPT ![ObtainEffectiveMapId(d, mapId)] = [defer |-> @.defer, resolvedDefer |-> TRUE]]

Created(d) == IF \E k \in Keys : d[k].defer > defers THEN defers + 1 ELSE defers
Values(d) == [n \in 1..Created(d) |-> IF n <= defers THEN value[n] ELSE NoMap]

SetMap(olMap, scopeId) ==
  LET d == GetUnresolvedDefer(maps, scopeId)
      defer == d[ObtainEffectiveMapId(maps, scopeId)].defer
  IN  /\ maps' = SetResolvedDefer(d, scopeId)
      /\ defers' = Created(d)
      \* a deferred is resolved once
      /\ value' = [Values(d) EXCEPT ![defer] = IF @ = NoMap THEN olMap ELSE @]
      /\ lastSet' = [lastSet EXCEPT ![ObtainEffectiveMapId(maps, scopeId)] = olMap]
      /\ UNCHANGED promise

GetMap(q, scopeId) ==
  LET d == GetDefer(maps, scopeId)
  IN  /\ promise[q] = 0
      /\ maps' = d
      /\ defers' = Created(d)
      /\ promise' = [promise EXCEPT ![q] = d[ObtainEffectiveMapId(maps, scopeId)].defer]
      /\ value' = Values(d)
      /\ UNCHANGED lastSet

OlDataTypeOK ==
  /\ maps \in [Keys -> [defer : 0..defers, resolvedDefer : BOOLEAN]]
  /\ defers \in Nat
  /\ value \in [1..defers -> Maps \cup {NoMap}]
  /\ promise \in [Requests -> 0..defers]
  /\ lastSet \in [Keys -> Maps \cup {NoMap}]
-----------------------------------------------------------------------------
(* The abstract view of the deferreds: what a request gets must follow     *)
(* from what has been set.                                                 *)
Answer(q) == IF promise[q] = 0 THEN NoMap ELSE value[promise[q]]
Answered == {q \in Requests : Answer(q) # NoMap}
Waiting(q) ==
  IF promise[q] = 0 \/ Answer(q) # NoMap THEN Undefined
  ELSE CHOOSE k \in Keys : maps[k].defer = promise[q]

Registry == INSTANCE MapRegistry WITH
  known <- KeysOf(maps),
  current <- lastSet,
  waiting <- [q \in Requests |-> Waiting(q)],
  answer <- [q \in Requests |-> Answer(q)]
=============================================================================
