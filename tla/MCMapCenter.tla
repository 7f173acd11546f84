----------------------------- MODULE MCMapCenter -----------------------------
(* Three ways to use the map, and centers of every kind.                   *)
EXTENDS MapCenter

Center(pos, coord, zoom, autodiscover, hash) ==
  [pos |-> pos, coord |-> coord, zoom |-> zoom, autodiscover |-> autodiscover,
   centerUrlHash |-> hash]

MCCenterValues ==
  {Center(5, Undefined, 2, Undefined, TRUE),
   Center(2, 3, Undefined, FALSE, FALSE),
   Center(Undefined, Undefined, Undefined, Undefined, FALSE),
   Center(Undefined, Undefined, 1, TRUE, TRUE)}

MCPages ==
  {[olCenter |-> c, olView |-> v, pixel |-> p] :
     c \in {"bound", "dashed", "none"}, v \in BOOLEAN, p \in BOOLEAN}
=============================================================================
