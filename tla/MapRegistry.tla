----------------------------- MODULE MapRegistry -----------------------------
(***************************************************************************)
(* What olData promises: a map is set for an id and asked for by id, in    *)
(* any order.  Who asks gets the map that is current for the id, or waits  *)
(* for the first one to come.  An id may be left out while the page has    *)
(* one map.                                                                *)
(***************************************************************************)
EXTENDS FiniteSets

CONSTANTS
  Ids,       \* ids maps are given
  Maps,
  Requests,  \* calls of getMap
  Undefined, \* the id that is left out
  NoMap

\* The keys of olData: the id of an only map, and the name a missing id gets by mistake.
Main == "main"
Missing == "undefined"
Keys == Ids \cup {Main, Missing}

VARIABLES
  known,    \* the keys set or asked for
  current,  \* key -> the map set last
  waiting,  \* request -> the key it waits for, Undefined if none
  answer    \* request -> the map it got

vars == <<known, current, waiting, answer>>

\* Without an id: the only key there is; with several, none is meant.
KeyOf(K, id) ==
  IF id # Undefined THEN id
  ELSE CASE K = {} -> Main
         [] Cardinality(K) = 1 -> CHOOSE k \in K : TRUE
         [] OTHER -> Missing

Init ==
  /\ known = {}
  /\ current = [k \in Keys |-> NoMap]
  /\ waiting = [q \in Requests |-> Undefined]
  /\ answer = [q \in Requests |-> NoMap]

Set(m, id) ==
  LET k == KeyOf(known, id)
      served == {q \in Requests : waiting[q] = k}
  IN  /\ known' = known \cup {k}
      /\ current' = [current EXCEPT ![k] = m]
      /\ waiting' = [q \in Requests |-> IF q \in served THEN Undefined ELSE waiting[q]]
      /\ answer' = [q \in Requests |-> IF q \in served THEN m ELSE answer[q]]

Get(q, id) ==
  LET k == KeyOf(known, id)
  IN  /\ waiting[q] = Undefined /\ answer[q] = NoMap
      /\ known' = known \cup {k}
      /\ waiting' = [waiting EXCEPT ![q] = IF current[k] = NoMap THEN k ELSE Undefined]
      /\ answer' = [answer EXCEPT ![q] = current[k]]
      /\ UNCHANGED current

Next ==
  \E id \in Ids \cup {Undefined} :
    \/ \E m \in Maps : Set(m, id)
    \/ \E q \in Requests : Get(q, id)

Spec == Init /\ [][Next]_vars
=============================================================================
