----------------------------- MODULE MCMapLayers -----------------------------
(* Two bound layers, one that is not, a path and a marker.                 *)
EXTENDS MapLayers, TLC

CONSTANTS b1, b2, s1, p1, m1

Osm == [type |-> "OSM", complete |-> TRUE, bare |-> FALSE]
\* Inline features without a projection, or nothing at all.
GeoJson(ok) == [type |-> "GeoJSON", complete |-> ok, bare |-> ok]

\* Tiles without a grid.
Tms == [type |-> "TileTMS", complete |-> FALSE, bare |-> FALSE]

Bound(source, i, visible, opacity, style) ==
  [source |-> source, index |-> i, visible |-> visible, opacity |-> opacity, style |-> style]

MCProperties ==
  {Bound(Osm, Undefined, FALSE, 1, Undefined),
   Bound(Osm, 1, TRUE, 0, "one"),
   Bound(GeoJson(TRUE), 1, FALSE, Undefined, "one"),
   Bound(GeoJson(FALSE), 3, TRUE, 1, Undefined),
   Bound(Tms, 1, TRUE, 1, Undefined),
   Bound(Undefined, Undefined, Undefined, Undefined, Undefined)}

BoundSymmetry == Permutations(BoundElements)
=============================================================================
