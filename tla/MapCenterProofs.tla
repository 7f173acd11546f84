-------------------------- MODULE MapCenterProofs --------------------------
(***************************************************************************)
(* The center of the page and the view of the map, for any number of       *)
(* positions and any grain of the projection and the location bar, any     *)
(* centers, pages and inputs: once a frame is rendered they agree, writing *)
(* the center back moves nothing, and a center that asks to be located is. *)
(***************************************************************************)
EXTENDS MapCenter, TLAPS

-----------------------------------------------------------------------------
(* Whole numbers.                                                          *)
LEMMA Times == \A a \in Nat, g \in Nat \ {0} : a * g \in Nat /\ (a * g) \div g = a
OBVIOUS

LEMMA Below ==
  \A p, n \in Nat, g \in Nat \ {0} : p < n /\ n % g = 0 => p \div g \in 0..((n \div g) - 1)
OBVIOUS

LEMMA Above == \A q, n \in Nat, g \in Nat \ {0} : q < n \div g => q * g < n
OBVIOUS

LEMMA Multiple ==
  \A n, h \in Nat, g \in Nat \ {0} : n % h = 0 /\ h % g = 0 /\ h # 0 => n % g = 0
<1> SUFFICES ASSUME NEW n \in Nat, NEW h \in Nat, NEW g \in Nat \ {0},
                    n % h = 0, h % g = 0, h # 0
             PROVE  n % g = 0
  OBVIOUS
<1>1. PICK a \in Nat : n = h * a
  <2>1. n = h * (n \div h) /\ n \div h \in Nat
    OBVIOUS
  <2> QED BY <2>1
<1>2. PICK b \in Nat : h = g * b
  <2>1. h = g * (h \div g) /\ h \div g \in Nat
    OBVIOUS
  <2> QED BY <2>1
<1>3. n = g * (a * b) /\ a * b \in Nat
  BY <1>1, <1>2
<1>4. \A k \in Nat : (g * k) % g = 0
  OBVIOUS
<1> QED BY <1>3, <1>4

-----------------------------------------------------------------------------
(* What a view may hold: in a geographic projection, the numbers the       *)
(* projection makes of positions.                                          *)
ViewPositions == IF page.pixel THEN Positions ELSE 0..((Size \div Grain) - 1)
ViewValues == [pos : OrNone(ViewPositions), zoom : OrUndefined(Zooms)]
HashValues == [pos : OrNone(0..((Size \div HashGrain) - 1)), zoom : OrUndefined(Zooms)]

LEMMA Projection ==
  /\ \A p : ToView(p) # Undefined /\ ToScope(p) # Undefined
  /\ \A p \in OrNone(Positions) : ToView(p) \in OrNone(ViewPositions)
  /\ \A v \in OrNone(ViewPositions) : ToScope(v) \in OrNone(Positions)
  /\ \A v \in OrNone(ViewPositions) : v # Undefined => ToView(ToScope(v)) = v
<1> USE GrainAssumption, CenterAssumption
<1>1. \A p \in Positions : ToView(p) \in ViewPositions /\ ToView(p) \in Nat
  <2>1. Size % Grain = 0
    BY Multiple
  <2> QED BY <2>1, Below DEF ToView, ViewPositions, Positions
<1>2. \A v \in ViewPositions : v \in Nat /\ ToScope(v) \in Positions /\ ToView(ToScope(v)) = v
  <2>1. ASSUME NEW v \in ViewPositions, page.pixel
        PROVE  v \in Nat /\ ToScope(v) \in Positions /\ ToView(ToScope(v)) = v
    BY <2>1 DEF ToView, ToScope, ViewPositions, Positions
  <2>2. ASSUME NEW v \in ViewPositions, ~ page.pixel
        PROVE  v \in Nat /\ ToScope(v) \in Positions /\ ToView(ToScope(v)) = v
    <3>1. v \in Nat /\ v < Size \div Grain
      BY <2>2 DEF ViewPositions
    <3>2. v * Grain \in Nat /\ v * Grain < Size /\ (v * Grain) \div Grain = v
      BY <3>1, Times, Above
    <3>3. ToScope(v) = v * Grain
      BY <3>1, <2>2 DEF ToScope
    <3>4. ToView(v * Grain) = (v * Grain) \div Grain
      BY <3>2, <2>2 DEF ToView
    <3> QED BY <3>1, <3>2, <3>3, <3>4 DEF Positions
  <2> QED BY <2>1, <2>2
<1>3. \A p : p \notin Nat => ToView(p) = NaN /\ ToScope(p) = NaN
  BY DEF ToView, ToScope
<1>4. \A p : p \in Nat => ToView(p) \in Nat /\ ToScope(p) \in Nat
  BY Times DEF ToView, ToScope
<1> QED
  BY <1>1, <1>2, <1>3, <1>4 DEF OrNone, Positions

LEMMA LocationBar ==
  /\ \A p \in OrNone(Positions) : ToFixed(p) \in OrNone(0..((Size \div HashGrain) - 1))
  /\ \A h \in OrNone(0..((Size \div HashGrain) - 1)) : ParseFixed(h) \in OrNone(Positions)
<1> USE GrainAssumption, CenterAssumption
<1>1. \A p \in Positions : ToFixed(p) \in 0..((Size \div HashGrain) - 1)
  BY Below DEF ToFixed, Positions
<1>2. \A h \in 0..((Size \div HashGrain) - 1) : ParseFixed(h) \in Positions
  BY Times, Above DEF ParseFixed, Positions
<1> QED
  BY <1>1, <1>2 DEF OrNone, ToFixed, ParseFixed

-----------------------------------------------------------------------------
(* What InSync says of a center x and a view v.                            *)
Agree(x, v) ==
  IF page.pixel THEN v.pos \in {x.coord, Undefined}
  ELSE IsValidCenter(x) /\ x.zoom # Undefined => ToView(x.pos) = v.pos /\ x.zoom = v.zoom

\* A view ol-center works with in a geographic projection has a position.
Has(v) == page.pixel \/ v.pos # Undefined

\* Where the watch leaves a view, the view agrees with the center.
LEMMA FollowAgrees ==
  ASSUME NEW x \in Centers, NEW v \in ViewValues, Has(v)
  PROVE  /\ Follow(x, v) \in ViewValues
         /\ Has(Follow(x, v))
         /\ Agree(x, Follow(x, v))
<1> DEFINE y == IF IsValidCenter(x) THEN x
                ELSE [x EXCEPT !.pos = DefaultPosition, !.coord = Undefined,
                               !.zoom = DefaultZoom]
           w == Follow(x, v)
<1>1. y \in Centers /\ y.pos \in OrNone(Positions) /\ y.coord \in OrNone(Positions)
      /\ y.zoom \in OrUndefined(Zooms)
  <2>1. 0 \in OrNone(Positions) /\ Undefined \in OrNone(Positions) /\ 1 \in OrUndefined(Zooms)
    BY CenterAssumption, GrainAssumption DEF DefaultZoom, OrNone, OrUndefined, Positions
  <2>2. [x EXCEPT !.pos = 0, !.coord = Undefined, !.zoom = 1] \in Centers
    BY <2>1 DEF Centers
  <2>3. y \in Centers
    BY <2>2 DEF DefaultPosition, DefaultZoom
  <2> QED BY <2>3 DEF Centers
<1>2. IsValidCenter(x) => y = x
  OBVIOUS
<1>3. ~ IsValidCenter(x) => y.coord = Undefined
  BY DEF Centers
<1>4. v.pos \in OrNone(ViewPositions) /\ v.zoom \in OrUndefined(Zooms)
  BY DEF ViewValues
<1> HIDE DEF y
<1>5. CASE page.pixel /\ v.pos # Undefined
  <2>1. w = [v EXCEPT !.pos = y.coord]
    BY <1>5 DEF Follow, y
  <2>2. w.pos = y.coord /\ w \in ViewValues
    BY <2>1, <1>1, <1>4, <1>5 DEF ViewValues, ViewPositions
  <2>3. y.coord \in {x.coord, Undefined}
    BY <1>2, <1>3
  <2> QED BY <2>2, <2>3, <1>5 DEF Has, Agree
<1>6. CASE ~ (page.pixel /\ v.pos # Undefined)
  <2>1. w = [pos |-> IF v.pos = Undefined \/ ToScope(v.pos) = y.pos THEN v.pos
                     ELSE ToView(y.pos),
             zoom |-> y.zoom]
    BY <1>6 DEF Follow, y
  <2>2. w.zoom = y.zoom
        /\ w.pos = IF v.pos = Undefined \/ ToScope(v.pos) = y.pos THEN v.pos
                   ELSE ToView(y.pos)
    BY <2>1
  <2>3. w \in ViewValues
    BY <2>1, <1>1, <1>4, Projection DEF ViewValues
  <2>4. CASE page.pixel
    <3>1. w.pos = Undefined
      BY <2>2, <2>4, <1>6
    <3> QED BY <2>3, <3>1, <2>4 DEF Has, Agree
  <2>5. CASE ~ page.pixel
    <3>1. v.pos # Undefined
      BY <2>5 DEF Has
    <3>2. w.pos = ToView(y.pos)
      BY <2>2, <3>1, <1>4, Projection
    <3>3. w.pos # Undefined
      BY <3>2, Projection
    <3> QED BY <2>2, <2>3, <2>5, <3>2, <3>3, <1>2 DEF Has, Agree
  <2> QED BY <2>4, <2>5
<1> QED BY <1>5, <1>6

-----------------------------------------------------------------------------
(* The inductive invariant.  The view ol-center works with is the one of   *)
(* the map, and the watch has seen the center that is bound.               *)
Typed ==
  /\ TypeOK
  /\ page \in PageValues
  /\ views \in [1..2 -> ViewValues]

Working ==
  /\ view # 0 => linked
  /\ view > 0 => view = mapView /\ Has(views[view])
  /\ seen = IF view > 0 /\ center # 0 THEN fields[center] ELSE Undefined
  /\ moved => Shows(views[mapView])

\* The center and the view agree, unless a frame is due.
Agreed ==
  view > 0 /\ center # 0 /\ ~ moved /\ ~ Asking(center) => Agree(fields[center], views[view])

\* The first object that asked to be located is the one the listener remembers.
Heard ==
  /\ tracking => geolocation # 0
  /\ view <= 0 => geolocation = 0
  /\ geolocation # 0 /\ ~ rebound => geolocation = center
  /\ DiscoveryIsHeard

Turned == page.olView /\ linked /\ rotation # Undefined => rotation = mapRotation

Safety == Typed /\ Working /\ Agreed /\ Heard /\ Turned

\* The types of what a digest writes.
DigestTypes ==
  /\ center \in 0..objects
  /\ fields \in [1..MaxObjects -> Centers]
  /\ seen \in OrUndefined(Centers)
  /\ views \in [1..2 -> ViewValues]
  /\ view \in -1..2
  /\ moved \in BOOLEAN /\ tracking \in BOOLEAN
  /\ geolocation \in 0..MaxObjects

LEMMA Undef == \A x \in Centers : x # Undefined
BY CenterAssumption

LEMMA ViewsAreViews ==
  ASSUME page \in PageValues, views \in [1..2 -> ViewValues]
  PROVE  views \in [1..2 -> [pos : OrNone(Positions), zoom : OrUndefined(Zooms)]]
<1>1. Size \div Grain <= Size /\ Size \div Grain \in Nat
  BY GrainAssumption
<1>2. ViewPositions \subseteq Positions
  BY <1>1, GrainAssumption DEF ViewPositions, Positions
<1>3. ViewValues \subseteq [pos : OrNone(Positions), zoom : OrUndefined(Zooms)]
  BY <1>2 DEF ViewValues, OrNone
<1> QED BY <1>3

\* A digest in which ol-center works with the view of the map, or with none, for a center
\* that is bound.
Ready(c, f, w, vs) ==
  /\ objects' \in 0..MaxObjects /\ c \in 0..objects'
  /\ w # 0 => linked'
  /\ w > 0 => w = mapView' /\ Has(vs[w])
  /\ view > 0 => w > 0
  /\ c = 0 => center = 0
  /\ ~ rebound' => ~ rebound /\ (geolocation = 0 \/ c = center)
  /\ w > 0 /\ c # 0 /\ f[c] = seen /\ ~ moved' /\ f[c].autodiscover # TRUE
       => Agree(f[c], vs[w])

LEMMA DigestKeeps ==
  ASSUME Safety, page' = page, mapView' \in 1..2, NEW c,
         NEW f \in [1..MaxObjects -> Centers], NEW w \in -1..2,
         NEW vs \in [1..2 -> ViewValues], NEW m \in BOOLEAN,
         Ready(c, f, w, vs), Digest(c, f, w, vs, m)
  PROVE  DigestTypes' /\ Working' /\ Agreed' /\ Heard'
<1> DEFINE runs == w > 0 /\ c # 0 /\ f[c] # seen
           discovers == runs /\ f[c].autodiscover = TRUE
           after == IF runs /\ ~ discovers THEN [vs EXCEPT ![w] = Follow(f[c], vs[w])] ELSE vs
<1> USE DEF Ready
<1>1. /\ center' = c /\ fields' = f /\ view' = w /\ views' = after
      /\ seen' = IF w > 0 /\ c = 0 THEN Undefined ELSE IF runs THEN f[c] ELSE seen
      /\ moved' = (Shows(after[mapView']) /\ (m \/ after[mapView'] # views[mapView]))
      /\ geolocation' = IF discovers /\ geolocation = 0 THEN c ELSE geolocation
      /\ tracking' = (tracking \/ discovers)
  BY DEF Digest, Tracks
<1>2. c # 0 => c \in 1..MaxObjects /\ f[c] \in Centers /\ f[c] # Undefined
  BY Undef, CenterAssumption
<1>3. /\ tracking \in BOOLEAN /\ geolocation \in 0..MaxObjects /\ seen \in OrUndefined(Centers)
      /\ rebound \in BOOLEAN /\ view \in -1..2
  BY DEF Safety, Typed, TypeOK
<1>4. w > 0 => w \in 1..2 /\ vs[w] \in ViewValues
  OBVIOUS
<1>5. runs => /\ Follow(f[c], vs[w]) \in ViewValues
              /\ Has(Follow(f[c], vs[w]))
              /\ Agree(f[c], Follow(f[c], vs[w]))
  BY <1>2, <1>4, FollowAgrees
<1>6. after \in [1..2 -> ViewValues]
  BY <1>5, <1>4
<1>7. w > 0 => after[w] = IF runs /\ ~ discovers THEN Follow(f[c], vs[w]) ELSE vs[w]
  BY <1>4
<1>8. seen' = IF w > 0 /\ c # 0 THEN f[c] ELSE Undefined
  <2>1. w <= 0 => seen = Undefined
    BY <1>3 DEF Safety, Working
  <2> QED BY <1>1, <2>1
<1> HIDE DEF after
<1>9. ViewValues' = ViewValues /\ \A v : Has(v)' <=> Has(v)
  BY DEF ViewValues, ViewPositions, Has
<1>10. \A x, v : Agree(x, v)' <=> Agree(x, v)
  BY DEF Agree, ToView, IsValidCenter
<1>11. DigestTypes'
  <2>1. views' \in [1..2 -> ViewValues']
    BY <1>1, <1>6, <1>9
  <2>2. seen' \in OrUndefined(Centers)
    BY <1>8, <1>2 DEF OrUndefined
  <2>3. geolocation' \in 0..MaxObjects
    BY <1>1, <1>2, <1>3
  <2>4. moved' \in BOOLEAN /\ tracking' \in BOOLEAN
    BY <1>1, <1>3
  <2> QED BY <1>1, <2>1, <2>2, <2>3, <2>4 DEF DigestTypes
<1>12. Working'
  <2>1. w > 0 => Has(after[w])
    BY <1>5, <1>7
  <2>2. moved' => Shows(after[mapView'])
    BY <1>1
  <2>3. Shows(views[mapView])' <=> Shows(after[mapView'])
    BY <1>1 DEF Shows
  <2>4. Has(views[view])' <=> Has(after[w])
    BY <1>1, <1>9
  <2> QED BY <1>1, <1>8, <2>1, <2>2, <2>3, <2>4 DEF Working
<1>13. Agreed'
  <2> SUFFICES ASSUME w > 0, c # 0, ~ moved', f[c].autodiscover # TRUE
               PROVE  Agree(f[c], after[w])
    BY <1>1, <1>10 DEF Agreed, Asking
  <2> QED BY <1>5, <1>7
<1>14. Heard'
  <2>1. tracking' => geolocation' # 0
    BY <1>1 DEF Safety, Heard
  <2>2. view' <= 0 => geolocation' = 0
    BY <1>1, <1>3 DEF Safety, Heard
  <2>3. geolocation' # 0 /\ ~ rebound' => geolocation' = center'
    BY <1>1 DEF Safety, Heard
  <2>4. ASSUME w > 0, c # 0, ~ rebound', f[c].autodiscover = TRUE
        PROVE  tracking' /\ geolocation' = c
    <3>1. CASE runs
      BY <2>4, <3>1, <1>1, <2>3
    <3>2. CASE ~ runs
      <4>1. f[c] = seen /\ seen # Undefined
        BY <2>4, <3>2, <1>2
      <4>2. view > 0 /\ center # 0 /\ seen = fields[center]
        BY <4>1 DEF Safety, Working
      <4>3. tracking /\ geolocation = center
        BY <4>1, <4>2, <2>4 DEF Safety, Heard, DiscoveryIsHeard, Asking
      <4> QED BY <4>2, <4>3, <2>4, <1>1, <3>2
    <3> QED BY <3>1, <3>2
  <2>5. DiscoveryIsHeard'
    BY <2>4, <1>1 DEF DiscoveryIsHeard, Asking
  <2> QED BY <2>1, <2>2, <2>3, <2>5 DEF Heard
<1> QED BY <1>11, <1>12, <1>13, <1>14

-----------------------------------------------------------------------------
LEMMA SafetyInit == Init => Safety
<1> SUFFICES ASSUME Init PROVE Safety
  OBVIOUS
<1> USE CenterAssumption, GrainAssumption
<1>1. page \in PageValues /\ center \in 0..1 /\ objects = center /\ 0 \in 0..MaxObjects
      /\ 1 \in 1..MaxObjects /\ center \in 0..MaxObjects
  BY DEF Init
<1>2. fields \in [1..MaxObjects -> Centers]
  <2>1. PICK x \in CenterValues :
          fields = [o \in 1..MaxObjects |->
                      IF o = 1 /\ center = 1 THEN x ELSE CHOOSE y \in CenterValues : TRUE]
    BY DEF Init
  <2>2. (CHOOSE y \in CenterValues : TRUE) \in CenterValues
    OBVIOUS
  <2> QED BY <2>1, <2>2
<1>3. DefaultView \in ViewValues /\ NoView \in ViewValues /\ Shows(DefaultView)
  <2>1. ToView(DefaultPosition) \in OrNone(ViewPositions) /\ ToView(DefaultPosition) # Undefined
    BY Projection DEF DefaultPosition, OrNone, Positions
  <2> QED BY <2>1 DEF DefaultView, NoView, ViewValues, Shows, OrNone, OrUndefined, DefaultZoom
<1>4. views \in [1..2 -> ViewValues] /\ (moved => Shows(views[mapView]))
  <2>1. views = <<IF page.olCenter = "none" THEN DefaultView ELSE NoView, NoView>>
        /\ moved = (page.olCenter = "none") /\ mapView = 1
    BY DEF Init
  <2>2. views[1] = (IF page.olCenter = "none" THEN DefaultView ELSE NoView)
        /\ views[2] = NoView /\ views \in [1..2 -> ViewValues]
    BY <2>1, <1>3
  <2> QED BY <2>1, <2>2, <1>3
<1>5. Typed
  <2>1. views \in [1..2 -> [pos : OrNone(Positions), zoom : OrUndefined(Zooms)]]
    BY <1>1, <1>4, ViewsAreViews
  <2>2. center \in 0..objects /\ objects \in 0..MaxObjects
    BY <1>1
  <2>3. moved \in BOOLEAN /\ linked \in BOOLEAN /\ listening \in BOOLEAN /\ tracking \in BOOLEAN
        /\ rebound \in BOOLEAN
    BY DEF Init
  <2>4. seen \in OrUndefined(Centers) /\ mapView \in 1..2 /\ view \in -1..2
        /\ geolocation \in 0..MaxObjects /\ inputs \in 0..MaxInputs
        /\ rotation \in OrUndefined(Rotations) /\ mapRotation \in Rotations
        /\ \A S : search \in OrUndefined(S)
    BY DEF Init, OrUndefined, Rotations
  <2>5. page \in Pages
    BY DEF Init
  <2> QED BY <1>1, <1>2, <1>4, <2>1, <2>2, <2>3, <2>4, <2>5 DEF Typed, TypeOK
<1>6. Working
  BY <1>4 DEF Init, Working
<1>7. Agreed
  BY DEF Init, Agreed
<1>8. Heard
  BY DEF Init, Heard, DiscoveryIsHeard
<1>9. Turned
  BY DEF Init, Turned
<1> QED BY <1>5, <1>6, <1>7, <1>8, <1>9 DEF Safety

\* TypeOK, once a digest is over.
LEMMA Retype ==
  ASSUME DigestTypes', page' = page, Typed, objects' \in 0..MaxObjects, mapView' \in 1..2,
         linked' \in BOOLEAN, listening' \in BOOLEAN, rebound' \in BOOLEAN,
         search' \in OrUndefined(HashValues),
         rotation' \in OrUndefined(Rotations), mapRotation' \in Rotations,
         inputs' \in 0..MaxInputs
  PROVE  Typed'
<1>1. page' \in Pages /\ page' \in PageValues
  BY DEF Typed, TypeOK
<1>2. (views \in [1..2 -> [pos : OrNone(Positions), zoom : OrUndefined(Zooms)]])'
  <2>1. (page \in PageValues /\ views \in [1..2 -> ViewValues])'
    BY <1>1 DEF DigestTypes
  <2> QED BY <2>1, ViewsAreViews, PTL
<1> QED BY <1>1, <1>2 DEF Typed, TypeOK, DigestTypes, HashValues

LEMMA MoveEndSafe ==
  ASSUME Safety, MoveEnd
  PROVE  Safety' /\ views' = views
<1> DEFINE v == views[mapView]
           heard == view > 0 /\ center # 0
           read == [fields[center] EXCEPT !.zoom = views[view].zoom,
                      !.coord = IF page.pixel THEN v.pos ELSE @,
                      !.pos = IF page.pixel THEN @ ELSE CenterOnMap(v)]
           notifies == heard /\ ~ page.pixel /\ read.centerUrlHash /\ Hash(read) # search
<1> USE CenterAssumption
<1>1. PICK followed \in {FALSE, notifies} :
        LET h == Hash(read)
            x == IF followed /\ listening /\ ~ IsSameCenterOnMap(h)
                 THEN [read EXCEPT !.pos = ParseFixed(h.pos), !.zoom = h.zoom] ELSE read
        IN  /\ search' = IF followed THEN h ELSE search
            /\ IF heard THEN Digest(center, [fields EXCEPT ![center] = x], view, views, FALSE)
               ELSE moved' = FALSE /\ UNCHANGED <<center, fields, seen, view, views, geoVars>>
  BY DEF MoveEnd
<1>2. /\ moved
      /\ UNCHANGED <<page, objects, mapView, linked, listening, rotationVars, inputs, rebound>>
  BY DEF MoveEnd
<1>3. /\ Shows(v) /\ v \in ViewValues /\ mapView \in 1..2 /\ view \in -1..2
      /\ center \in 0..objects /\ objects \in 0..MaxObjects
      /\ page.pixel \in BOOLEAN
  BY <1>2 DEF Safety, Typed, TypeOK, Working, PageValues
<1>4. CASE heard
  <2>1. view = mapView /\ fields[center] \in Centers /\ center \in 1..MaxObjects
    BY <1>3, <1>4 DEF Safety, Typed, TypeOK, Working
  <2>2. /\ read \in Centers
        /\ read.zoom = v.zoom
        /\ read.coord = IF page.pixel THEN v.pos ELSE fields[center].coord
        /\ read.pos = IF page.pixel THEN fields[center].pos ELSE ToScope(v.pos)
        /\ read.autodiscover = fields[center].autodiscover
    <3>1. ToScope(v.pos) \in OrNone(Positions)
      BY <1>3, Projection DEF ViewValues
    <3>2. page.pixel => v.pos \in OrNone(Positions)
      BY <1>3 DEF ViewValues, ViewPositions
    <3>3. v.zoom \in OrUndefined(Zooms)
      BY <1>3 DEF ViewValues
    <3> QED BY <2>1, <3>1, <3>2, <3>3 DEF Centers, CenterOnMap
  <2>3. notifies => IsSameCenterOnMap(Hash(read))
    BY <2>2 DEF IsSameCenterOnMap, Hash
  <2> HIDE DEF read
  <2>4. Digest(center, [fields EXCEPT ![center] = read], view, views, FALSE)
        /\ search' = IF followed THEN Hash(read) ELSE search
    BY <1>1, <1>4, <2>3
  <2> DEFINE f == [fields EXCEPT ![center] = read]
  <2>5. f \in [1..MaxObjects -> Centers] /\ f[center] = read
    BY <2>1, <2>2 DEF Safety, Typed, TypeOK
  <2> HIDE DEF v
  <2>6. Agree(read, v)
    <3>1. v.pos # Undefined /\ v.pos \in OrNone(ViewPositions)
      BY <1>3 DEF Shows, ViewValues
    <3>2. ~ page.pixel => ToView(ToScope(v.pos)) = v.pos
      BY <3>1, Projection
    <3> QED BY <2>2, <3>2 DEF Agree
  <2>7. Follow(read, v) = v
    <3>1. v.pos # Undefined /\ v.pos \in OrNone(ViewPositions)
      BY <1>3 DEF Shows, ViewValues
    <3>2. CASE page.pixel
      <4>1. IsValidCenter(read)
        BY <3>1, <3>2, <2>2 DEF IsValidCenter
      <4>2. Follow(read, v) = [v EXCEPT !.pos = v.pos]
        BY <4>1, <3>1, <3>2, <2>2 DEF Follow
      <4> QED BY <4>2, <1>3 DEF ViewValues
    <3>3. CASE ~ page.pixel
      <4>1. ToScope(v.pos) # Undefined /\ IsValidCenter(read)
        BY <3>3, <2>2, Projection DEF IsValidCenter
      <4>2. Follow(read, v) = [pos |-> v.pos, zoom |-> v.zoom]
        BY <4>1, <3>1, <3>3, <2>2 DEF Follow
      <4> QED BY <4>2, <1>3 DEF ViewValues
    <3> QED BY <3>2, <3>3
  <2>8. views[view] = v /\ views \in [1..2 -> ViewValues]
    BY <2>1 DEF v, Safety, Typed
  <2> HIDE DEF f
  <2>9. views' = views
    <3>1. [views EXCEPT ![view] = Follow(f[center], views[view])] = views
      BY <2>5, <2>7, <2>8, <2>1, <1>3
    <3> QED BY <3>1, <2>4 DEF Digest, f
  <2>10. DigestTypes' /\ Working' /\ Agreed' /\ Heard'
    <3>1. objects' \in 0..MaxObjects /\ center \in 0..objects' /\ mapView' \in 1..2
          /\ page' = page
      BY <1>2, <1>3
    <3>2. view # 0 => linked'
      BY <1>2 DEF Safety, Working
    <3>3. view > 0 => view = mapView' /\ Has(views[view])
      BY <1>2 DEF Safety, Working
    <3>4. ~ rebound' => ~ rebound /\ (geolocation = 0 \/ center = center)
      BY <1>2
    <3>5. Agree(f[center], views[view])
      BY <2>5, <2>6, <2>8
    <3>6. Digest(center, f, view, views, FALSE)
      BY <2>4 DEF f
    <3>7. Ready(center, f, view, views)
      BY <3>1, <3>2, <3>3, <3>4, <3>5 DEF Ready
    <3> HIDE DEF heard, notifies
    <3> QED BY <3>1, <3>6, <3>7, <2>5, <2>8, <1>3, DigestKeeps
  <2>11. search' \in OrUndefined(HashValues)
    <3>1. Hash(read) \in HashValues
      <4>1. read.pos \in OrNone(Positions) /\ read.zoom \in OrUndefined(Zooms)
        BY <2>2 DEF Centers
      <4> QED BY <4>1, LocationBar DEF Hash, HashValues
    <3> QED BY <3>1, <2>4 DEF Safety, Typed, TypeOK, OrUndefined, HashValues
  <2>12. Typed'
    BY <2>10, <2>11, <1>2, <1>3, Retype DEF Safety, Typed, TypeOK, rotationVars
  <2> QED BY <2>9, <2>10, <2>12, <1>2 DEF Safety, Turned, rotationVars
<1>5. CASE ~ heard
  <2>1. moved' = FALSE /\ UNCHANGED <<center, fields, seen, view, views, geoVars>>
        /\ search' = IF followed THEN Hash(read) ELSE search
    BY <1>1, <1>5
  <2>2. search' = search
    BY <2>1, <1>5
  <2>3. Typed'
    BY <2>1, <2>2, <1>2 DEF Safety, Typed, TypeOK, ViewValues, ViewPositions, geoVars,
         rotationVars
  <2>4. Working' /\ Agreed' /\ Heard' /\ Turned'
    BY <2>1, <1>2, <1>5 DEF Safety, Working, Has, Agreed, Heard, DiscoveryIsHeard, Asking,
         Turned, geoVars, rotationVars
  <2> QED BY <2>1, <2>3, <2>4 DEF Safety
<1> QED BY <1>4, <1>5

-----------------------------------------------------------------------------
LEMMA ViewLinksSafe ==
  ASSUME Safety, ~ linked, linked' = TRUE, page' = page, ViewLinks
  PROVE  /\ mapView' \in 1..2
         /\ rotation' \in OrUndefined(Rotations) /\ mapRotation' \in Rotations
         /\ Turned'
<1>1. /\ mapView \in 1..2 /\ rotation \in OrUndefined(Rotations) /\ mapRotation \in Rotations
      /\ 0 \in Rotations
  BY DEF Safety, Typed, TypeOK, Rotations
<1>2. CASE page.olView
  <2>1. /\ mapView' = 2 /\ mapRotation' = rotation'
        /\ rotation' = IF rotation = Undefined THEN 0 ELSE rotation
    BY <1>2 DEF ViewLinks
  <2> QED BY <1>1, <2>1 DEF OrUndefined, Turned
<1>3. CASE ~ page.olView
  <2>1. mapView' = mapView /\ rotation' = rotation /\ mapRotation' = mapRotation
    BY <1>3 DEF ViewLinks, rotationVars
  <2> QED BY <1>1, <1>3, <2>1 DEF Turned
<1> QED BY <1>2, <1>3

\* The center of the page, or the default one, is what the map is to show.
LEMMA CenterLinksSafe ==
  ASSUME Safety, ~ linked, linked' = TRUE, page' = page, objects' = objects,
         rebound' = rebound, mapView' \in 1..2, CenterLinks
  PROVE  DigestTypes' /\ Working' /\ Agreed' /\ Heard' /\ listening' \in BOOLEAN
<1>1. view = 0 /\ geolocation = 0 /\ objects \in 0..MaxObjects /\ center \in 0..objects
      /\ fields \in [1..MaxObjects -> Centers] /\ views \in [1..2 -> ViewValues]
      /\ moved \in BOOLEAN /\ listening \in BOOLEAN /\ page \in PageValues
      /\ seen = Undefined /\ mapView \in 1..2
  BY DEF Safety, Typed, TypeOK, Working, Heard
<1> DEFINE v == mapView'
           known == center # 0
           given == IF known THEN fields[center]
                    ELSE [pos |-> Undefined, coord |-> Undefined, zoom |-> Undefined,
                          autodiscover |-> Undefined, centerUrlHash |-> FALSE]
           valid == IF IsValidCenter(given) THEN given
                    ELSE [given EXCEPT !.pos = DefaultPosition, !.zoom = DefaultZoom]
           x == IF valid.zoom = Undefined THEN [valid EXCEPT !.zoom = DefaultZoom] ELSE valid
           fails == page.pixel /\ ~ IsValidCenter(given)
           f == IF known THEN [fields EXCEPT ![center] = x] ELSE fields
           shown == [views EXCEPT ![v] = [pos |-> ToView(x.pos), zoom |-> x.zoom]]
           dashed == IF page.pixel THEN views
                     ELSE [views EXCEPT ![v].pos = ToView(DefaultPosition)]
<1>2. /\ 0 \in OrNone(Positions) /\ Undefined \in OrNone(Positions)
      /\ 1 \in OrUndefined(Zooms) /\ Undefined \in OrUndefined(Zooms) /\ 1 # Undefined
      /\ Undefined \in OrUndefined(BOOLEAN)
  BY CenterAssumption, GrainAssumption DEF OrNone, OrUndefined, Positions, DefaultZoom
<1>7. 0 \in -1..2 /\ -1 \in -1..2 /\ v \in -1..2 /\ TRUE \in BOOLEAN
  OBVIOUS
<1>3. CASE page.olCenter = "none"
  <2>1. Digest(center, fields, 0, views, moved) /\ listening' = listening
    BY <1>3 DEF CenterLinks
  <2>2. Ready(center, fields, 0, views)
    BY <1>1 DEF Ready
  <2> HIDE DEF f, shown, dashed
  <2>3. DigestTypes' /\ Working' /\ Agreed' /\ Heard'
    BY <2>1, <2>2, <1>1, <1>7, DigestKeeps
  <2> QED BY <2>1, <2>3, <1>1
<1>4. CASE page.olCenter = "dashed"
  <2>1. Digest(center, fields, -1, dashed, moved) /\ listening' = listening
    BY <1>4 DEF CenterLinks
  <2>2. dashed \in [1..2 -> ViewValues]
    <3>1. ToView(DefaultPosition) \in OrNone(ViewPositions)
      BY <1>2, Projection DEF DefaultPosition
    <3>2. [views[v] EXCEPT !.pos = ToView(DefaultPosition)] \in ViewValues
      BY <1>1, <3>1 DEF ViewValues
    <3> QED BY <1>1, <3>2
  <2> HIDE DEF f, shown, dashed
  <2>3. Ready(center, fields, -1, dashed)
    BY <1>1 DEF Ready
  <2>4. DigestTypes' /\ Working' /\ Agreed' /\ Heard'
    BY <2>1, <2>2, <2>3, <1>1, DigestKeeps
  <2> QED BY <2>1, <2>4, <1>1
<1>5. CASE page.olCenter \notin {"none", "dashed"}
  <2>1. /\ Digest(center, f, IF fails THEN -1 ELSE v, IF fails THEN views ELSE shown, TRUE)
        /\ listening' = (~ fails /\ x.centerUrlHash)
    BY <1>5 DEF CenterLinks
  <2>2. given \in Centers
    BY <1>1, <1>2, CenterAssumption DEF Centers
  <2> HIDE DEF given
  <2>3. valid \in Centers
    <3>1. [given EXCEPT !.pos = 0, !.zoom = 1] \in Centers
      BY <2>2, <1>2 DEF Centers
    <3> QED BY <2>2, <3>1 DEF DefaultPosition, DefaultZoom
  <2>4. IsValidCenter(given) => valid = given
    OBVIOUS
  <2> HIDE DEF valid
  <2>5. x \in Centers /\ x.zoom # Undefined /\ x.coord = valid.coord /\ x.pos = valid.pos
    <3>1. [valid EXCEPT !.zoom = 1] \in Centers
      BY <2>3, <1>2 DEF Centers
    <3> QED BY <2>3, <3>1, <1>2 DEF DefaultZoom, Centers
  <2> HIDE DEF x
  <2>6. f \in [1..MaxObjects -> Centers] /\ (center # 0 => f[center] = x)
    BY <2>5, <1>1, CenterAssumption
  <2>7. [pos |-> ToView(x.pos), zoom |-> x.zoom] \in ViewValues
    <3>1. x.pos \in OrNone(Positions) /\ x.zoom \in OrUndefined(Zooms)
      BY <2>5 DEF Centers
    <3> QED BY <3>1, Projection DEF ViewValues
  <2>8. shown \in [1..2 -> ViewValues]
        /\ shown[v] = [pos |-> ToView(x.pos), zoom |-> x.zoom]
    BY <2>7, <1>1
  <2>9. Shows(shown[v])
    BY <2>8, <2>5, Projection DEF Shows
  <2> HIDE DEF f, shown
  <2>10. CASE fails
    <3>1. Digest(center, f, -1, views, TRUE) /\ listening' = FALSE
      BY <2>1, <2>10
    <3>2. Ready(center, f, -1, views)
      BY <1>1 DEF Ready
    <3> HIDE DEF fails
    <3>3. DigestTypes' /\ Working' /\ Agreed' /\ Heard'
      BY <3>1, <3>2, <2>6, <1>1, <1>7, DigestKeeps
    <3> QED BY <3>1, <3>3
  <2>11. CASE ~ fails
    <3>7. x.centerUrlHash \in BOOLEAN
      BY <2>5 DEF Centers
    <3> HIDE DEF fails
    <3>1. Digest(center, f, v, shown, TRUE) /\ listening' = x.centerUrlHash
      BY <2>1, <2>11, <3>7
    <3>2. listening' \in BOOLEAN
      BY <3>1, <2>5 DEF Centers
    <3>3. Has(shown[v]) /\ v > 0
      BY <2>9 DEF Has, Shows
    <3>4. f[center] = seen => moved'
      BY <3>1, <2>9 DEF Digest
    <3>5. Ready(center, f, v, shown)
      BY <3>3, <3>4, <1>1 DEF Ready
    <3> HIDE DEF fails
    <3>6. DigestTypes' /\ Working' /\ Agreed' /\ Heard'
      BY <3>1, <3>5, <2>6, <2>8, <1>1, <1>7, DigestKeeps
    <3> QED BY <3>2, <3>6
  <2> QED BY <2>10, <2>11
<1> QED BY <1>3, <1>4, <1>5

LEMMA MapResolvedSafe ==
  ASSUME Safety, MapResolved
  PROVE  Safety'
<1>1. /\ ~ linked /\ linked' = TRUE /\ ViewLinks /\ CenterLinks
      /\ page' = page /\ objects' = objects /\ search' = search /\ inputs' = inputs
      /\ rebound' = rebound
  BY DEF MapResolved
<1>2. /\ mapView' \in 1..2 /\ rotation' \in OrUndefined(Rotations) /\ mapRotation' \in Rotations
      /\ Turned'
  BY <1>1, ViewLinksSafe
<1>3. DigestTypes' /\ Working' /\ Agreed' /\ Heard' /\ listening' \in BOOLEAN
  BY <1>1, <1>2, CenterLinksSafe
<1>4. /\ search' \in OrUndefined(HashValues) /\ inputs' \in 0..MaxInputs
      /\ rebound' \in BOOLEAN /\ objects' \in 0..MaxObjects
  BY <1>1 DEF Safety, Typed, TypeOK, HashValues
<1>5. Typed'
  BY <1>1, <1>2, <1>3, <1>4, Retype DEF Safety
<1> QED BY <1>2, <1>3, <1>5 DEF Safety

-----------------------------------------------------------------------------
\* A digest after an input: what the watch has seen already, the view shows already.
LEMMA InputDigest ==
  ASSUME Safety, Input, objects' \in 0..MaxObjects, NEW c \in 0..objects', c = 0 => center = 0,
         NEW f \in [1..MaxObjects -> Centers], Digest(c, f, view, views, moved),
         rebound' \in BOOLEAN, ~ rebound' => ~ rebound /\ (geolocation = 0 \/ c = center),
         listening' = listening, search' \in OrUndefined(HashValues), UNCHANGED rotationVars
  PROVE  Safety'
<1>1. /\ page' = page /\ mapView' = mapView /\ linked' = linked /\ mapView' \in 1..2
      /\ inputs' \in 0..MaxInputs /\ linked \in BOOLEAN /\ listening \in BOOLEAN
      /\ rotation' = rotation /\ mapRotation' = mapRotation
      /\ rotation \in OrUndefined(Rotations) /\ mapRotation \in Rotations
  BY CenterAssumption DEF Input, Safety, Typed, TypeOK, rotationVars
<1>2. views \in [1..2 -> ViewValues] /\ view \in -1..2 /\ moved \in BOOLEAN
  BY DEF Safety, Typed, TypeOK
<1>3. c # 0 => f[c] # Undefined
  BY Undef, CenterAssumption
<1>4. ASSUME view > 0, c # 0, f[c] = seen, ~ moved', f[c].autodiscover # TRUE
      PROVE  Agree(f[c], views[view])
  <2>1. center # 0 /\ seen = fields[center]
    BY <1>3, <1>4 DEF Safety, Working
  <2>2. moved' = (Shows(views[mapView']) /\ (moved \/ views[mapView'] # views[mapView]))
    BY <1>4 DEF Digest
  <2>3. ~ moved
    BY <2>2, <1>1, <1>4 DEF Safety, Working
  <2> QED BY <2>1, <2>3, <1>4 DEF Safety, Agreed, Asking
<1>5. Ready(c, f, view, views)
  <2>1. view # 0 => linked'
    BY <1>1 DEF Safety, Working
  <2>2. view > 0 => view = mapView' /\ Has(views[view])
    BY <1>1 DEF Safety, Working
  <2> QED BY <2>1, <2>2, <1>4 DEF Ready
<1>6. DigestTypes' /\ Working' /\ Agreed' /\ Heard'
  BY <1>1, <1>2, <1>5, DigestKeeps
<1>7. Typed'
  BY <1>1, <1>6, Retype DEF Safety
<1> QED BY <1>1, <1>6, <1>7 DEF Safety, Turned

LEMMA PageSafe ==
  ASSUME Safety, NEW x \in CenterValues, PageBinds(x) \/ PageEdits(x)
  PROVE  Safety'
<1>1. /\ x \in Centers /\ fields \in [1..MaxObjects -> Centers] /\ center \in 0..objects
      /\ objects \in 0..MaxObjects /\ rebound \in BOOLEAN /\ MaxObjects \in Nat
      /\ search \in OrUndefined(HashValues)
  BY CenterAssumption DEF Safety, Typed, TypeOK, HashValues
<1>2. CASE PageBinds(x)
  <2> DEFINE c == objects'
             f == [fields EXCEPT ![c] = x]
  <2>1. /\ Input /\ Digest(c, f, view, views, moved) /\ UNCHANGED rotationVars
        /\ listening' = listening /\ search' = search
    BY <1>2 DEF PageBinds, hashVars
  <2>2. c = objects + 1 /\ objects < MaxObjects
    BY <1>2 DEF PageBinds
  <2>3. rebound' = (rebound \/ geolocation # 0)
    BY <1>2 DEF PageBinds
  <2>4. c \in 1..MaxObjects /\ c \in 0..objects'
    BY <2>2, <1>1
  <2>5. f \in [1..MaxObjects -> Centers]
    BY <1>1
  <2>6. rebound' \in BOOLEAN /\ (~ rebound' => ~ rebound /\ (geolocation = 0 \/ c = center))
    BY <2>3, <1>1
  <2> HIDE DEF f
  <2> QED BY <2>1, <2>4, <2>5, <2>6, <1>1, InputDigest
<1>3. CASE PageEdits(x)
  <2> DEFINE f == [fields EXCEPT ![center] = x]
  <2>1. /\ Input /\ Digest(center, f, view, views, moved) /\ UNCHANGED rotationVars
        /\ listening' = listening /\ search' = search /\ objects' = objects
        /\ rebound' = rebound
    BY <1>3 DEF PageEdits, hashVars
  <2>2. f \in [1..MaxObjects -> Centers]
    BY <1>1
  <2> HIDE DEF f
  <2> QED BY <2>1, <2>2, <1>1, InputDigest
<1> QED BY <1>2, <1>3

LEMMA NavigatesSafe ==
  ASSUME Safety, NEW h \in Hashes, Navigates(h)
  PROVE  Safety'
<1>1. /\ fields \in [1..MaxObjects -> Centers] /\ center \in 0..objects
      /\ objects \in 0..MaxObjects /\ rebound \in BOOLEAN /\ MaxObjects \in Nat
  BY CenterAssumption DEF Safety, Typed, TypeOK
<1>2. Input /\ search' = h /\ UNCHANGED <<objects, listening, rotationVars, rebound>>
  BY DEF Navigates
<1>3. h \in HashValues
  BY DEF Hashes, HashValues, OrNone, OrUndefined
<1>4. search' \in OrUndefined(HashValues)
  BY <1>2, <1>3 DEF OrUndefined
<1>5. CASE listening /\ center # 0 /\ ~ IsSameCenterOnMap(h)
  <2> DEFINE x == [fields[center] EXCEPT !.pos = ParseFixed(h.pos), !.zoom = h.zoom]
             f == [fields EXCEPT ![center].pos = ParseFixed(h.pos), ![center].zoom = h.zoom]
  <2>1. Digest(center, f, view, views, moved)
    BY <1>5 DEF Navigates
  <2>2. center \in 1..MaxObjects /\ fields[center] \in Centers
    BY <1>1, <1>5
  <2>3. x \in Centers
    <3>1. ParseFixed(h.pos) \in OrNone(Positions) /\ h.zoom \in OrUndefined(Zooms)
      BY <1>3, LocationBar DEF HashValues
    <3> QED BY <2>2, <3>1 DEF Centers
  <2>4. f = [fields EXCEPT ![center] = x]
    BY <2>2, <1>1 DEF Centers
  <2>5. f \in [1..MaxObjects -> Centers]
    BY <2>3, <2>4, <1>1
  <2> HIDE DEF f
  <2> QED BY <2>1, <2>5, <1>1, <1>2, <1>4, InputDigest
<1>6. CASE ~ (listening /\ center # 0 /\ ~ IsSameCenterOnMap(h))
  <2>1. UNCHANGED <<center, fields, seen, view, views, moved, geoVars>>
    BY <1>6 DEF Navigates
  <2>2. inputs' \in 0..MaxInputs /\ UNCHANGED <<page, mapView, linked>>
    BY <1>2, CenterAssumption DEF Input, Safety, Typed, TypeOK
  <2>3. Typed'
    BY <2>1, <2>2, <1>2, <1>4 DEF Safety, Typed, TypeOK, HashValues, ViewValues, ViewPositions,
         geoVars, rotationVars
  <2>4. Working' /\ Agreed' /\ Heard' /\ Turned'
    BY <2>1, <2>2, <1>2 DEF Safety, Working, Shows, Has, Agreed, Agree, ToView, IsValidCenter,
         Heard, DiscoveryIsHeard, Asking, Turned, geoVars, rotationVars
  <2> QED BY <2>3, <2>4 DEF Safety
<1> QED BY <1>5, <1>6

LEMMA UserMovesSafe ==
  ASSUME Safety, NEW p \in Positions, NEW z \in Zooms, UserMoves(p, z)
  PROVE  Safety'
<1> DEFINE w == [pos |-> ToView(p), zoom |-> z]
<1>1. /\ views \in [1..2 -> ViewValues] /\ mapView \in 1..2 /\ view \in -1..2 /\ moved \in BOOLEAN
      /\ inputs \in 0..MaxInputs
  BY DEF Safety, Typed, TypeOK
<1>2. /\ inputs < MaxInputs /\ inputs' = inputs + 1 /\ UNCHANGED <<page, mapView, linked>>
      /\ UNCHANGED <<scopeVars, view, hashVars, geoVars, rotationVars, rebound>>
      /\ views' = [views EXCEPT ![mapView] = w]
      /\ moved' = (moved \/ views' # views)
      /\ Shows(views[mapView])
  BY DEF UserMoves, Input
<1>3. w \in ViewValues /\ w.pos # Undefined /\ w.zoom # Undefined
  <2>1. z \in OrUndefined(Zooms) /\ z # Undefined
    BY CenterAssumption DEF OrUndefined
  <2>2. ToView(p) \in OrNone(ViewPositions)
    BY Projection DEF OrNone
  <2> QED BY <2>1, <2>2, Projection DEF ViewValues
<1> HIDE DEF w
<1>4. views' \in [1..2 -> ViewValues] /\ views'[mapView] = w
  BY <1>1, <1>2, <1>3
<1>5. Typed'
  <2>1. ViewValues' = ViewValues
    BY <1>2 DEF ViewValues, ViewPositions
  <2>2. views' \in [1..2 -> ViewValues']
    BY <1>4, <2>1
  <2>3. (views \in [1..2 -> [pos : OrNone(Positions), zoom : OrUndefined(Zooms)]])'
    <3>1. (page \in PageValues /\ views \in [1..2 -> ViewValues])'
      BY <1>2, <2>2 DEF Safety, Typed
    <3> QED BY <3>1, ViewsAreViews, PTL
  <2>4. inputs' \in 0..MaxInputs /\ moved' \in BOOLEAN
    BY <1>1, <1>2, CenterAssumption
  <2> QED BY <1>2, <2>2, <2>3, <2>4 DEF Safety, Typed, TypeOK, scopeVars, hashVars, geoVars,
            rotationVars
<1>6. Working'
  BY <1>2, <1>3, <1>4 DEF Safety, Working, Has, Shows, scopeVars
<1>7. Agreed'
  BY <1>2 DEF Safety, Agreed, Agree, ToView, IsValidCenter, Asking, scopeVars
<1>8. Heard' /\ Turned'
  BY <1>2 DEF Safety, Heard, DiscoveryIsHeard, Asking, Turned, scopeVars, geoVars, rotationVars
<1> QED BY <1>5, <1>6, <1>7, <1>8 DEF Safety

\* A position is for an object that asked; it goes to the one that is bound now.
LEMMA LocatedSafe ==
  ASSUME Safety, NEW p \in Positions, Located(p)
  PROVE  Safety'
<1> DEFINE f == [fields EXCEPT ![center].pos = p, ![center].zoom = LocatedZoom,
                               ![center].autodiscover = FALSE]
           x == [fields[center] EXCEPT !.pos = p, !.zoom = LocatedZoom, !.autodiscover = FALSE]
<1>1. /\ fields \in [1..MaxObjects -> Centers] /\ center \in 0..objects
      /\ objects \in 0..MaxObjects /\ MaxObjects \in Nat
      /\ views \in [1..2 -> ViewValues] /\ mapView \in 1..2 /\ view \in -1..2 /\ moved \in BOOLEAN
      /\ inputs \in 0..MaxInputs /\ MaxInputs \in Nat
  BY CenterAssumption DEF Safety, Typed, TypeOK
<1>2. tracking /\ center # 0 /\ geolocation # 0
  BY DEF Located, Safety, Heard
<1>3. view = mapView /\ Has(views[view]) /\ seen = fields[center] /\ linked /\ view > 0
  BY <1>1, <1>2 DEF Safety, Working, Heard
<1>4. /\ inputs < MaxInputs /\ inputs' = inputs + 1 /\ UNCHANGED <<page, mapView, linked>>
      /\ UNCHANGED <<center, objects, view, hashVars, geolocation, rotationVars, rebound>>
      /\ fields' = f /\ tracking' = FALSE /\ seen' = f[center]
      /\ views' = IF f[center] # seen THEN [views EXCEPT ![view] = Follow(f[center], @)]
                  ELSE views
      /\ moved' = (Shows(views'[mapView]) /\ (moved \/ views' # views))
  BY DEF Located, Input
<1>5. center \in 1..MaxObjects /\ fields[center] \in Centers
  BY <1>1, <1>2
<1>6. x \in Centers /\ x.autodiscover = FALSE
  <2>1. /\ p \in OrNone(Positions) /\ LocatedZoom \in OrUndefined(Zooms)
        /\ FALSE \in OrUndefined(BOOLEAN)
    BY CenterAssumption DEF OrNone, OrUndefined
  <2> QED BY <1>5, <2>1 DEF Centers
<1>7. f = [fields EXCEPT ![center] = x]
  BY <1>1, <1>5 DEF Centers
<1>8. f \in [1..MaxObjects -> Centers] /\ f[center] = x
  BY <1>1, <1>5, <1>6, <1>7
<1> HIDE DEF f, x
<1>9. /\ views' \in [1..2 -> ViewValues] /\ Has(views'[view])
      /\ x # seen => Agree(x, views'[view])
  <2>1. /\ Follow(x, views[view]) \in ViewValues
        /\ Has(Follow(x, views[view])) /\ Agree(x, Follow(x, views[view]))
    BY <1>1, <1>3, <1>6, FollowAgrees
  <2> QED BY <2>1, <1>1, <1>3, <1>4, <1>8
<1>10. ~ moved' => Agree(x, views'[view])
  <2>1. ASSUME ~ moved', x = seen PROVE Agree(x, views'[view])
    <3>1. views' = views
      BY <2>1, <1>4, <1>8
    <3>2. ~ moved
      BY <2>1, <3>1, <1>4 DEF Safety, Working
    <3>3. ~ Asking(center)
      BY <2>1, <1>3, <1>6 DEF Asking
    <3> QED BY <3>1, <3>2, <3>3, <2>1, <1>2, <1>3 DEF Safety, Agreed
  <2> QED BY <2>1, <1>9
<1>11. Typed'
  <2>1. ViewValues' = ViewValues
    BY <1>4 DEF ViewValues, ViewPositions
  <2>2. views' \in [1..2 -> ViewValues']
    BY <1>9, <2>1
  <2>3. (views \in [1..2 -> [pos : OrNone(Positions), zoom : OrUndefined(Zooms)]])'
    <3>1. (page \in PageValues /\ views \in [1..2 -> ViewValues])'
      BY <1>4, <2>2 DEF Safety, Typed
    <3> QED BY <3>1, ViewsAreViews, PTL
  <2>4. inputs' \in 0..MaxInputs /\ moved' \in BOOLEAN /\ seen' \in OrUndefined(Centers)
    BY <1>1, <1>4, <1>6, <1>8 DEF OrUndefined
  <2> QED BY <1>4, <1>8, <2>2, <2>3, <2>4 DEF Safety, Typed, TypeOK, hashVars, rotationVars
<1>12. Working'
  BY <1>2, <1>3, <1>4, <1>8, <1>9 DEF Working, Has, Shows
<1>13. Agreed'
  BY <1>4, <1>8, <1>10 DEF Agreed, Agree, ToView, IsValidCenter, Asking
<1>14. Heard' /\ Turned'
  BY <1>2, <1>4, <1>6, <1>8 DEF Safety, Heard, DiscoveryIsHeard, Asking, Turned, rotationVars
<1> QED BY <1>11, <1>12, <1>13, <1>14 DEF Safety

LEMMA RotatesSafe ==
  ASSUME Safety,
         \/ \E r \in OrUndefined(Rotations) : PageRotates(r)
         \/ \E r \in Rotations : UserRotates(r)
  PROVE  Safety'
<1>1. /\ inputs < MaxInputs /\ inputs' = inputs + 1 /\ UNCHANGED <<page, mapView, linked>>
      /\ UNCHANGED <<scopeVars, view, views, moved, hashVars, geoVars, rebound>>
      /\ rotation' \in OrUndefined(Rotations) /\ mapRotation' \in Rotations
      /\ Turned'
  <2>1. rotation \in OrUndefined(Rotations) /\ mapRotation \in Rotations
    BY DEF Safety, Typed, TypeOK
  <2>2. ASSUME NEW r \in OrUndefined(Rotations), PageRotates(r)
        PROVE  <1>1!:
    BY <2>1, <2>2 DEF PageRotates, Input, Turned, OrUndefined
  <2>3. ASSUME NEW r \in Rotations, UserRotates(r)
        PROVE  <1>1!:
    BY <2>1, <2>3 DEF UserRotates, Input, Safety, Turned, OrUndefined
  <2> QED BY <2>2, <2>3
<1>2. inputs' \in 0..MaxInputs
  BY <1>1, CenterAssumption DEF Safety, Typed, TypeOK
<1>3. Typed'
  BY <1>1, <1>2 DEF Safety, Typed, TypeOK, ViewValues, ViewPositions, scopeVars, hashVars,
       geoVars
<1>4. Working' /\ Agreed' /\ Heard'
  BY <1>1 DEF Safety, Working, Shows, Has, Agreed, Agree, ToView, IsValidCenter, Heard,
       DiscoveryIsHeard, Asking, scopeVars, geoVars
<1> QED BY <1>1, <1>3, <1>4 DEF Safety

LEMMA Stutter == Safety /\ UNCHANGED vars => Safety'
BY DEF vars, scopeVars, viewVars, hashVars, geoVars, rotationVars, Safety, Typed, TypeOK,
     ViewValues, ViewPositions, Working, Shows, Has, Agreed, Agree, ToView, IsValidCenter,
     Heard, DiscoveryIsHeard, Asking, Turned

LEMMA SafetyNext == Safety /\ [Next]_vars => Safety'
<1> SUFFICES ASSUME Safety, [Next]_vars PROVE Safety'
  OBVIOUS
<1>1. CASE MapResolved
  BY <1>1, MapResolvedSafe
<1>2. CASE MoveEnd
  BY <1>2, MoveEndSafe
<1>3. CASE \E x \in CenterValues : PageBinds(x) \/ PageEdits(x)
  BY <1>3, PageSafe
<1>4. CASE \E p \in Positions, z \in Zooms : UserMoves(p, z)
  BY <1>4, UserMovesSafe
<1>5. CASE \E h \in Hashes : Navigates(h)
  BY <1>5, NavigatesSafe
<1>6. CASE \E p \in Positions : Located(p)
  BY <1>6, LocatedSafe
<1>7. CASE \/ \E r \in OrUndefined(Rotations) : PageRotates(r)
           \/ \E r \in Rotations : UserRotates(r)
  BY <1>7, RotatesSafe
<1>8. CASE UNCHANGED vars
  BY <1>8, Stutter
<1> QED BY <1>1, <1>2, <1>3, <1>4, <1>5, <1>6, <1>7, <1>8 DEF Next

LEMMA CenterSafety == Spec => []Safety
BY SafetyInit, SafetyNext, PTL DEF Spec

-----------------------------------------------------------------------------
(* The theorems.                                                           *)
\* The types hold: positions stay positions, whatever hand writes them.
THEOREM CenterTypeCorrect == Spec => []TypeOK
<1>1. Safety => TypeOK
  BY DEF Safety, Typed
<1> QED BY <1>1, CenterSafety, PTL

\* Once the map is rendered the center of the page is the one the map shows, whoever moved
\* last (the watch of lines 211-265 and moveend of lines 267-299).
THEOREM CenterInSync == Spec => []InSync
<1>1. Safety => InSync
  BY DEF Safety, Agreed, Agree, Working, Turned, InSync
<1> QED BY <1>1, CenterSafety, PTL

\* Writing the center back after a frame moves nothing, with any grain of the projection and
\* of the location bar.
THEOREM CenterMoveEndKeepsView == Spec => MoveEndKeepsView
<1>1. Safety => [MoveEnd => views' = views]_vars
  BY MoveEndSafe
<1> QED BY <1>1, CenterSafety, PTL DEF MoveEndKeepsView

\* A page that keeps its object is located: the geolocation tracks for that object (lines
\* 228-239).
THEOREM CenterDiscoveryIsHeard == Spec => []DiscoveryIsHeard
<1>1. Safety => DiscoveryIsHeard
  BY DEF Safety, Heard
<1> QED BY <1>1, CenterSafety, PTL
=============================================================================
