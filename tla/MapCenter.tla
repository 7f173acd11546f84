------------------------------ MODULE MapCenter ------------------------------
(***************************************************************************)
(* ol-center and ol-view of angular-openlayers-directive.js: the center    *)
(* the page binds and the view of the map follow each other.               *)
(*                                                                         *)
(* A change of scope.center moves the view (the watch of ol-center); a     *)
(* frame rendered after the view has moved writes the center back          *)
(* (moveend).  The location bar and the geolocation of the browser are two *)
(* more hands on the same object.  Scripts run one at a time, and a digest *)
(* belongs to the step that applies the change: each action is one of them *)
(* with the watches it triggers.                                           *)
(*                                                                         *)
(* A latitude and longitude is one number.  A position loses Grain parts   *)
(* when it is transformed into the projection of the view and back, and    *)
(* HashGrain parts when it is written with four decimals.  A pixel         *)
(* projection has one position, the coord of the center.                   *)
(***************************************************************************)
EXTENDS Integers, Sequences

CONSTANTS
  Size,          \* positions are 0..(Size - 1)
  Grain, HashGrain,
  Zooms,
  CenterValues,  \* the centers the page may bind
  Pages,         \* the attributes of the map of the page
  Undefined, NaN,
  MaxObjects,    \* bound: objects the page binds
  MaxInputs      \* bound: what the page, the user and the browser do

Positions == 0..(Size - 1)
OrUndefined(S) == S \cup {Undefined}
OrNone(S) == S \cup {Undefined, NaN}
Centers == [pos : OrNone(Positions), coord : OrNone(Positions), zoom : OrUndefined(Zooms),
            autodiscover : OrUndefined(BOOLEAN), centerUrlHash : BOOLEAN]
PageValues == [olCenter : {"bound", "dashed", "none"}, olView : BOOLEAN, pixel : BOOLEAN]
DefaultPosition == 0
DefaultZoom == 1
LocatedZoom == 2    \* 12 in the code
Rotations == {0, 1}

ASSUME GrainAssumption ==
  /\ Size \in Nat \ {0} /\ Grain \in Nat \ {0} /\ HashGrain \in Nat \ {0}
  /\ HashGrain % Grain = 0 /\ Size % HashGrain = 0
ASSUME CenterAssumption ==
  /\ {DefaultZoom, LocatedZoom} \subseteq Zooms /\ Zooms \subseteq Nat
  /\ Undefined \notin Nat \cup BOOLEAN \cup {NaN} \cup Centers /\ NaN \notin Nat
  /\ CenterValues \subseteq Centers /\ Pages \subseteq PageValues
  /\ MaxObjects \in Nat \ {0} /\ MaxInputs \in Nat

VARIABLES
  page,         \* the attributes of the map
  center,       \* scope.center: the object bound, 0 if undefined
  objects,      \* the objects bound so far
  fields,       \* object -> what is in it
  seen,         \* the fields the watch saw last
  views,        \* ol.View objects: 1 is the one of the map, 2 the one of ol-view
  mapView,      \* map.getView()
  view,         \* the view ol-center works with, 0 before its callback, -1 if it gave up
  linked,       \* the callbacks of getMap() have run
  moved,        \* the view of the map differs from the last frame
  listening,    \* ol-center listens to $locationChangeSuccess
  search,       \* $location.search().c
  geolocation,  \* the object the listener of the geolocation remembers, 0 if none
  tracking,     \* geolocation.getTracking()
  rotation,     \* scope.view.rotation
  mapRotation,  \* the rotation of the view of ol-view
  inputs        \* number of inputs so far

(* History, read by no action.                                             *)
VARIABLE rebound  \* the page has bound another object after geolocation was asked for

scopeVars == <<center, objects, fields, seen>>
viewVars == <<views, mapView, view, linked>>
hashVars == <<listening, search>>
geoVars == <<geolocation, tracking>>
rotationVars == <<rotation, mapRotation>>
vars == <<page, scopeVars, viewVars, moved, hashVars, geoVars, rotationVars, inputs, rebound>>
-----------------------------------------------------------------------------
(* The projections, and the text in the location bar.                      *)
ToView(p) == IF p \in Nat THEN IF page.pixel THEN p ELSE p \div Grain ELSE NaN
ToScope(v) == IF v \in Nat THEN IF page.pixel THEN v ELSE v * Grain ELSE NaN

\* The center of the map, as moveend reads it.
\* Mutant: it reads a corner of the view.
CornerOnMap(v) == IF v.pos \in Nat THEN (ToScope(v.pos) + Grain) % Size ELSE NaN
CenterOnMap(v) == ToScope(v.pos)

\* toFixed(4) of a coordinate, and the number it is read as.
\* Mutant: all the decimals.
ToFull(p) == p
ToFixed(p) == IF p \in Nat THEN p \div HashGrain ELSE NaN
ParseFixed(h) == IF h \in Nat THEN h * HashGrain ELSE NaN

Hash(c) == [pos |-> ToFixed(c.pos), zoom |-> c.zoom]
Hashes == [pos : 0..(Size \div HashGrain - 1), zoom : Zooms]

\* A boolean autodiscover makes a center valid, even without coordinates.
IsValidCenter(c) == c.autodiscover # Undefined \/ c.pos # Undefined \/ c.coord # Undefined

\* Mutant: the position of the map is not rounded.
IsExactCenterOnMap(h) ==
  LET v == views[mapView]
  IN  ToScope(v.pos) = ParseFixed(h.pos) /\ v.zoom = h.zoom

IsSameCenterOnMap(h) ==
  LET v == views[mapView]
  IN  ToFixed(ToScope(v.pos)) = h.pos /\ v.zoom = h.zoom

\* The view is rendered once it has a center and a resolution.
Shows(v) == v.pos # Undefined /\ v.zoom # Undefined

NoView == [pos |-> Undefined, zoom |-> Undefined]
DefaultView == [pos |-> ToView(DefaultPosition), zoom |-> DefaultZoom]
-----------------------------------------------------------------------------
(* The watch on scope.center, which holds x, and the view v of ol-center:  *)
(* where it leaves the view.                                               *)
\* Mutant: nothing is done once the position is the one of the map.
FollowPosition(x, v) ==
  IF page.pixel \/ ToScope(v.pos) = x.pos THEN v
  ELSE [pos |-> ToView(x.pos), zoom |-> x.zoom]

Follow(x, v) ==
  LET y == IF IsValidCenter(x) THEN x
           ELSE [x EXCEPT !.pos = DefaultPosition, !.coord = Undefined, !.zoom = DefaultZoom]
  IN  IF page.pixel /\ v.pos # Undefined THEN [v EXCEPT !.pos = y.coord]
      ELSE [pos |-> IF v.pos = Undefined \/ ToScope(v.pos) = y.pos THEN v.pos
                    ELSE ToView(y.pos),
            zoom |-> y.zoom]

\* Tracking starts each time the watch finds that the center asks for it.
\* Mutant: only when the geolocation is created.
TracksOnce(discovers) == tracking \/ (discovers /\ geolocation = 0)
Tracks(discovers) == tracking \/ discovers

\* A digest: scope.center is c, the objects hold f, ol-center works with view w of vs,
\* and m says whether the map has to be rendered already.  The watch runs if a field is
\* not what it saw last.  Asked to discover, it starts the geolocation, whose listener
\* remembers the center of the first time, and leaves the view alone.
Digest(c, f, w, vs, m) ==
  LET runs == w > 0 /\ c # 0 /\ f[c] # seen
      discovers == runs /\ f[c].autodiscover = TRUE
      after == IF runs /\ ~ discovers THEN [vs EXCEPT ![w] = Follow(f[c], vs[w])] ELSE vs
  IN  /\ center' = c /\ fields' = f /\ view' = w /\ views' = after
      /\ seen' = IF w > 0 /\ c = 0 THEN Undefined ELSE IF runs THEN f[c] ELSE seen
      /\ moved' = (Shows(after[mapView']) /\ (m \/ after[mapView'] # views[mapView]))
      /\ geolocation' = IF discovers /\ geolocation = 0 THEN c ELSE geolocation
      /\ tracking' = Tracks(discovers)
-----------------------------------------------------------------------------
(* The link function of openlayers creates the map and its view; without   *)
(* ol-center the view starts at the default center.                        *)
Init ==
  /\ page \in Pages
  /\ \/ center = 0 /\ objects = 0
     \/ page.olCenter # "none" /\ center = 1 /\ objects = 1
  /\ \E x \in CenterValues :
       fields = [o \in 1..MaxObjects |->
                   IF o = 1 /\ center = 1 THEN x ELSE CHOOSE y \in CenterValues : TRUE]
  /\ views = <<IF page.olCenter = "none" THEN DefaultView ELSE NoView, NoView>>
  /\ mapView = 1 /\ view = 0 /\ linked = FALSE /\ seen = Undefined
  /\ moved = (page.olCenter = "none")
  /\ listening = FALSE /\ search = Undefined
  /\ geolocation = 0 /\ tracking = FALSE
  /\ rotation \in OrUndefined(Rotations) /\ mapRotation = 0
  /\ inputs = 0 /\ rebound = FALSE

(* ol-view replaces the view of the map by one without a center.           *)
ViewLinks ==
  IF page.olView
  THEN /\ mapView' = 2
       /\ rotation' = IF rotation = Undefined THEN 0 ELSE rotation
       /\ mapRotation' = rotation'
  ELSE UNCHANGED <<mapView, rotationVars>>

(* ol-center takes the view of the map, completes the center of the page   *)
(* and shows it.  A name with a dash only gets a center, and no zoom; with *)
(* a pixel projection the default center cannot be transformed.            *)
CenterLinks ==
  LET v == mapView'
      known == center # 0
      given == IF known THEN fields[center]
               ELSE [pos |-> Undefined, coord |-> Undefined, zoom |-> Undefined,
                     autodiscover |-> Undefined, centerUrlHash |-> FALSE]
      valid == IF IsValidCenter(given) THEN given
               ELSE [given EXCEPT !.pos = DefaultPosition, !.zoom = DefaultZoom]
      x == IF valid.zoom = Undefined THEN [valid EXCEPT !.zoom = DefaultZoom] ELSE valid
      fails == page.pixel /\ ~ IsValidCenter(given)
      f == IF known THEN [fields EXCEPT ![center] = x] ELSE fields
      shown == [views EXCEPT ![v] = [pos |-> ToView(x.pos), zoom |-> x.zoom]]
  IN  CASE page.olCenter = "none" ->
             Digest(center, fields, 0, views, moved) /\ UNCHANGED listening
        [] page.olCenter = "dashed" ->
             /\ Digest(center, fields, -1,
                       IF page.pixel THEN views
                       ELSE [views EXCEPT ![v].pos = ToView(DefaultPosition)], moved)
             /\ UNCHANGED listening
        [] OTHER ->
             /\ Digest(center, f, IF fails THEN -1 ELSE v, IF fails THEN views ELSE shown,
                       TRUE)
             /\ listening' = (~ fails /\ x.centerUrlHash)

(* The digest after the link functions runs the callbacks of getMap(), in  *)
(* the order they were registered, and then the watches.                   *)
MapResolved ==
  /\ ~ linked /\ linked' = TRUE
  /\ ViewLinks /\ CenterLinks
  /\ UNCHANGED <<page, objects, search, inputs, rebound>>

(* A frame is rendered after the view has moved.                           *)
MoveEnd ==
  LET v == views[mapView]
      heard == view > 0 /\ center # 0
      read == [fields[center] EXCEPT !.zoom = views[view].zoom,
                 !.coord = IF page.pixel THEN v.pos ELSE @,
                 !.pos = IF page.pixel THEN @ ELSE CenterOnMap(v)]
      notifies == heard /\ ~ page.pixel /\ read.centerUrlHash /\ Hash(read) # search
  IN  /\ moved
      /\ UNCHANGED <<page, objects, mapView, linked, listening, rotationVars, inputs, rebound>>
      /\ \E followed \in {FALSE, notifies} :
           LET h == Hash(read)
               \* the page puts the hash it is told of into the location bar
               x == IF followed /\ listening /\ ~ IsSameCenterOnMap(h)
                    THEN [read EXCEPT !.pos = ParseFixed(h.pos), !.zoom = h.zoom] ELSE read
           IN  /\ search' = IF followed THEN h ELSE search
               /\ IF heard THEN Digest(center, [fields EXCEPT ![center] = x], view, views, FALSE)
                  ELSE moved' = FALSE /\ UNCHANGED <<center, fields, seen, view, views, geoVars>>
-----------------------------------------------------------------------------
(* What the page, the user and the browser do.                             *)
Input == inputs < MaxInputs /\ inputs' = inputs + 1 /\ UNCHANGED <<page, mapView, linked>>

PageBinds(x) ==
  /\ Input /\ page.olCenter # "none" /\ linked /\ objects < MaxObjects
  /\ objects' = objects + 1
  /\ rebound' = (rebound \/ geolocation # 0)
  /\ Digest(objects', [fields EXCEPT ![objects'] = x], view, views, moved)
  /\ UNCHANGED <<hashVars, rotationVars>>

PageEdits(x) ==
  /\ Input /\ center # 0 /\ linked
  /\ Digest(center, [fields EXCEPT ![center] = x], view, views, moved)
  /\ UNCHANGED <<objects, hashVars, rotationVars, rebound>>

UserMoves(p, z) ==
  /\ Input /\ Shows(views[mapView])
  /\ views' = [views EXCEPT ![mapView] = [pos |-> ToView(p), zoom |-> z]]
  /\ moved' = (moved \/ views' # views)
  /\ UNCHANGED <<scopeVars, view, hashVars, geoVars, rotationVars, rebound>>

(* The location bar changes, by a link or the back button.                 *)
Navigates(h) ==
  /\ Input /\ h # search
  /\ search' = h
  /\ IF listening /\ center # 0 /\ ~ IsSameCenterOnMap(h)
     THEN Digest(center, [fields EXCEPT ![center].pos = ParseFixed(h.pos),
                                        ![center].zoom = h.zoom], view, views, moved)
     ELSE UNCHANGED <<center, fields, seen, view, views, moved, geoVars>>
  /\ UNCHANGED <<objects, listening, rotationVars, rebound>>

(* The geolocation has a position: it is for the object the listener       *)
(* remembers, and goes to the one that is bound now.                       *)
Located(p) ==
  LET f == [fields EXCEPT ![center].pos = p, ![center].zoom = LocatedZoom,
                          ![center].autodiscover = FALSE]
      runs == f[center] # seen
  IN  /\ Input /\ tracking /\ center # 0 /\ fields[geolocation].autodiscover = TRUE
      /\ fields' = f
      /\ tracking' = FALSE
      /\ seen' = f[center]
      /\ views' = IF runs THEN [views EXCEPT ![view] = Follow(f[center], @)] ELSE views
      /\ moved' = (Shows(views'[mapView]) /\ (moved \/ views' # views))
      /\ UNCHANGED <<center, objects, view, hashVars, geolocation, rotationVars, rebound>>

PageRotates(r) ==
  /\ Input /\ page.olView /\ linked /\ rotation' = r
  /\ mapRotation' = IF r = Undefined THEN mapRotation ELSE r
  /\ UNCHANGED <<scopeVars, view, views, moved, hashVars, geoVars, rebound>>

UserRotates(r) ==
  /\ Input /\ page.olView /\ linked
  /\ mapRotation' = r
  /\ rotation' = IF r # mapRotation THEN r ELSE rotation
  /\ UNCHANGED <<scopeVars, view, views, moved, hashVars, geoVars, rebound>>

Next ==
  \/ MapResolved \/ MoveEnd
  \/ \E x \in CenterValues : PageBinds(x) \/ PageEdits(x)
  \/ \E p \in Positions, z \in Zooms : UserMoves(p, z)
  \/ \E h \in Hashes : Navigates(h)
  \/ \E p \in Positions : Located(p)
  \/ \E r \in OrUndefined(Rotations) : PageRotates(r)
  \/ \E r \in Rotations : UserRotates(r)

(* A map that has to be rendered is rendered, and the digest that follows  *)
(* the creation of the map runs.                                           *)
Spec == Init /\ [][Next]_vars /\ WF_vars(MapResolved) /\ WF_vars(MoveEnd)
-----------------------------------------------------------------------------
TypeOK ==
  /\ page \in Pages
  /\ center \in 0..objects /\ objects \in 0..MaxObjects
  /\ fields \in [1..MaxObjects -> Centers]
  /\ seen \in OrUndefined(Centers)
  /\ views \in [1..2 -> [pos : OrNone(Positions), zoom : OrUndefined(Zooms)]]
  /\ mapView \in 1..2 /\ view \in -1..2
  /\ linked \in BOOLEAN /\ moved \in BOOLEAN /\ listening \in BOOLEAN /\ tracking \in BOOLEAN
  /\ rebound \in BOOLEAN
  /\ search \in OrUndefined([pos : OrNone(0..(Size \div HashGrain - 1)), zoom : OrUndefined(Zooms)])
  /\ geolocation \in 0..MaxObjects
  /\ rotation \in OrUndefined(Rotations) /\ mapRotation \in Rotations
  /\ inputs \in 0..MaxInputs

Asking(c) == fields[c].autodiscover = TRUE

\* Whatever hand moved last - the page, the user, the location bar or the geolocation -
\* once the map is rendered the center the page holds is the one the map shows.  Except a
\* center the watch cannot show: one without coordinates in a pixel projection (the view
\* loses its center for good), or one waiting to be located.
InSync ==
  LET x == fields[center]
      v == views[mapView]
  IN  linked /\ view > 0 /\ center # 0 /\ ~ moved /\ ~ Asking(center) =>
        IF page.pixel THEN v.pos \in {x.coord, Undefined}
        ELSE /\ IsValidCenter(x) /\ x.zoom # Undefined =>
                  ToView(x.pos) = v.pos /\ x.zoom = v.zoom
             /\ page.olView /\ rotation # Undefined => rotation = mapRotation

\* Writing the center back after a frame never moves the map it was read from, although
\* the center, the view and the location bar each round it differently.
MoveEndKeepsView == [][MoveEnd => views' = views]_vars

\* As long as the page keeps its object, a center that asks to be located is: the
\* geolocation tracks, and its listener is about that object.
DiscoveryIsHeard ==
  view > 0 /\ center # 0 /\ ~ rebound /\ Asking(center) => tracking /\ geolocation = center

\* The map comes to rest once nobody moves it: the handlers do not drive each other.
Settles == <>[](~ moved)
=============================================================================
