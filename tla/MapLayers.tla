------------------------------ MODULE MapLayers ------------------------------
(***************************************************************************)
(* The layers of an OpenLayers map, as the elements of the page arrange    *)
(* them (angular-openlayers-directive.js): openlayers puts a default layer *)
(* in, ol-layer one that follows its properties, ol-path and the vessels   *)
(* of main.js one of their own, and all ol-marker elements share one,      *)
(* which the first of them puts on top and the last takes away.            *)
(*                                                                         *)
(* ol-layer writes the position of its layer into the property index of    *)
(* the layer, and finds it there again when the layer moves, is replaced   *)
(* or goes.  Everyone else adds and removes layers by reference and knows  *)
(* nothing of it.  A position beyond the end leaves a gap of nulls.        *)
(*                                                                         *)
(* A layer is named by its element and a number: <<e, n>> is the n-th that *)
(* was created for e.  Positions count from 0, as in the code.             *)
(***************************************************************************)
EXTENDS Integers, FiniteSets, SequencesExt

CONSTANTS
  BoundElements,    \* ol-layer elements with ol-layer-properties
  StaticElements,   \* ol-layer elements with the source in their attributes
  PathElements,     \* ol-path elements, the vessels layer of main.js
  MarkerElements,   \* ol-marker elements
  PropertyValues,   \* the properties the page may bind
  CustomLayers,     \* the attribute customLayers: there or not
  Undefined, Null,
  MaxChanges        \* bound: changes of properties

Elements == BoundElements \cup StaticElements \cup PathElements \cup MarkerElements
Default == "default"
LayerElements == BoundElements \cup StaticElements
\* A source the page binds may make two layers: see Project.
MaxCreated == 2 * (MaxChanges + 1)
Layers == (BoundElements \X (1..MaxCreated))
          \cup ((Elements \cup {Default}) \ BoundElements) \X {1}

Styles == {"one", "other"}

\* What the page may bind; only an inline geojson that has its features can be bare,
\* without a projection.
Source == {s \in [type : STRING, complete : BOOLEAN, bare : BOOLEAN] :
             s.bare => s.type = "GeoJSON" /\ s.complete}
Property ==
  [source : Source \cup {Undefined}, index : Nat \cup {Undefined},
   visible : BOOLEAN \cup {Undefined}, opacity : {0, 1, Undefined},
   style : Styles \cup {Undefined}]

ASSUME PropertiesAssumption == PropertyValues \subseteq Property
\* An element is of one kind, and nothing is undefined that is something.
ASSUME ElementsAssumption ==
  /\ BoundElements \cap (StaticElements \cup PathElements \cup MarkerElements) = {}
  /\ StaticElements \cap (PathElements \cup MarkerElements) = {}
  /\ PathElements \cap MarkerElements = {}
  /\ Default \notin Elements
ASSUME UndefinedAssumption ==
  /\ Undefined \notin Nat \cup BOOLEAN \cup Styles \cup Layers \cup Source \cup Property
  /\ Null \notin Layers
ASSUME BoundAssumption == MaxChanges \in Nat /\ CustomLayers \subseteq BOOLEAN

VARIABLES
  stage,        \* element -> "absent", "live" or "gone"
  properties,   \* bound element -> what the page has bound
  seen,         \* bound element -> the copy its watch compares with
  olLayer,      \* element -> its layer
  created,      \* element -> number of layers created for it
  layers,       \* map.getLayers()
  index,        \* layer -> its property index
  shows,        \* element -> what its layer shows
  listeners,    \* ol-layer element -> listeners that emit its events
  scopes,       \* instScopes: the markers registered with the layer manager
  markerLayer,  \* markerLayer of the manager's record, Undefined without a record
  changes       \* number of changes of properties so far

(* History, read by no action.                                             *)
VARIABLES
  shifted,      \* layers have moved without their index
  swallowed     \* elements whose watch returned, or threw, before it had applied a change

elementVars == <<stage, properties, changes>>
collectionVars == <<layers, index>>
markerVars == <<scopes, markerLayer>>
vars == <<elementVars, seen, olLayer, created, collectionVars, shows, listeners, markerVars,
          shifted, swallowed>>
-----------------------------------------------------------------------------
(* What a layer is made of.  A source is complete when it has what its     *)
(* type needs; ImageWMS and TileWMS only complain.                         *)
Demanding == {"MapBox", "BingMaps", "MapQuest", "GeoJSON", "JSONP", "TopoJSON", "Stamen",
              "ImageStatic"}
Gridded == {"TileTMS", "TileImage"}
Lenient == {"ImageWMS", "TileWMS", "OSM", "TileJSON", "KML"}

\* createSource asks the tile grid for its origin, and throws if there is none.
Throws(source) == source.type \in Gridded /\ ~ source.complete

\* What createSource returns, unless it throws: undefined for a type it does not know, or
\* if something is missing.
CreateSource(source) ==
  IF source.type \in Lenient \/ (source.type \in Demanding \cup Gridded /\ source.complete)
  THEN source
  ELSE Undefined

\* It writes the projection of the map into an inline geojson that is bare, which has
\* none: that changes the properties the page has bound.
Project(p) == IF p.source.bare THEN [p EXCEPT !.source.bare = FALSE] ELSE p

DetectLayerType(source) ==
  IF source.type \in {"ImageWMS", "ImageStatic"} THEN "Image"
  ELSE IF source.type \in {"GeoJSON", "JSONP", "TopoJSON", "KML"} THEN "Vector"
  ELSE "Tile"

\* createLayer: the layer before anything is set on it.
CreateLayer(source) ==
  [type |-> DetectLayerType(source), source |-> CreateSource(source), visible |-> TRUE,
   opacity |-> 1, style |-> Undefined]

VectorLayer ==
  [type |-> "Vector", source |-> Undefined, visible |-> TRUE, opacity |-> 1,
   style |-> Undefined]

-----------------------------------------------------------------------------
(* The collection and the positions its layers remember.                   *)
Collection == [layers |-> layers, index |-> index]

IsMarkers(l) == l # Null /\ l[1] \in MarkerElements

\* The first position from i on that holds a null, or the end.
Gap(items, i) ==
  LET gaps == {j \in i..(Len(items) - 1) : items[j + 1] = Null}
  IN  IF gaps = {} THEN Len(items) ELSE CHOOSE j \in gaps : \A k \in gaps : j <= k

\* l.index = i for the layers at the positions from..(to - 1)
Renumber(index0, items, from, to) ==
  LET places(l) == {j \in from..(to - 1) : items[j + 1] = l}
  IN  [l \in DOMAIN index0 |->
         IF places(l) = {} THEN index0[l]
         ELSE CHOOSE j \in places(l) : \A k \in places(l) : k <= j]

\* ol.Collection, whose methods are those of an array: an undefined position is the
\* first one, and there is nothing to remove beyond the end.
Position(i) == IF i = Undefined THEN 0 ELSE i
Cut(items, i) ==
  IF Position(i) < Len(items) THEN RemoveAt(items, Position(i) + 1) ELSE items

\* Mutant: the gap behind the layer closes.
RemoveLayerClosing(c, i) ==
  LET rest == Cut(c.layers, i)
  IN  IF i = Undefined THEN [c EXCEPT !.layers = rest]
      ELSE [layers |-> rest, index |-> Renumber(c.index, rest, i, Gap(rest, i))]

RemoveLayer(c, i) ==
  LET rest == Cut(c.layers, i)
      gap == Gap(rest, i)
  IN  IF i = Undefined THEN [c EXCEPT !.layers = rest]
      ELSE [layers |-> IF gap < Len(rest) THEN InsertAt(rest, gap + 1, Null) ELSE rest,
            index |-> Renumber(c.index, rest, i, gap)]

Pad(items, i) == items \o [n \in 1..(i - Len(items)) |-> Null]

InsertLayer(c, i, l) ==
  LET moved == InsertAt(c.layers, Position(i) + 1, l)
      gap == Gap(moved, i + 1)
      numbered == [c.index EXCEPT ![l] = i]
  IN  IF i = Undefined THEN [layers |-> moved, index |-> numbered]
      ELSE IF Len(c.layers) < i
      THEN [layers |-> Append(Pad(c.layers, i), l), index |-> numbered]
      ELSE [layers |-> IF gap < Len(moved) THEN RemoveAt(moved, gap + 1) ELSE moved,
            index |-> Renumber(numbered, moved, i + 1, gap)]

\* The loop that looks for the markers layer calls a method of every layer before it,
\* and throws at a null.
MarkersAt(items) == SelectInSeq(items, IsMarkers)
LookingThrows(items) ==
  \E j \in 1..Len(items) : items[j] = Null /\ \A k \in 1..j : ~ IsMarkers(items[k])

\* Mutant: the markers are not put back.
AddLayerBeforeMarkersLosing(c, l) ==
  LET at == MarkersAt(c.layers)
      end == Len(c.layers)
  IN  IF at = 0
      THEN [layers |-> Append(c.layers, l), index |-> [c.index EXCEPT ![l] = end]]
      ELSE [layers |-> [c.layers EXCEPT ![at] = l], index |-> [c.index EXCEPT ![l] = at - 1]]

\* Mutant: every layer is added at the end.
AddLayerOnTop(c, l) ==
  [layers |-> Append(c.layers, l), index |-> [c.index EXCEPT ![l] = Len(c.layers)]]

AddLayerBeforeMarkers(c, l) ==
  LET at == MarkersAt(c.layers)
      end == Len(c.layers)
  IN  IF at = 0
      THEN [layers |-> Append(c.layers, l), index |-> [c.index EXCEPT ![l] = end]]
      ELSE [layers |-> Append([c.layers EXCEPT ![at] = l], c.layers[at]),
            index |-> [c.index EXCEPT ![l] = at - 1, ![c.layers[at]] = end]]
-----------------------------------------------------------------------------
(* The elements.  The map has been resolved when they are linked, so that  *)
(* the callback of getMap runs in the same digest.                         *)
New(e) == <<e, created[e] + 1>>

Init ==
  /\ stage = [e \in Elements |-> "absent"]
  /\ properties = [e \in BoundElements |-> Undefined]
  /\ seen = [e \in BoundElements |-> Undefined]
  /\ olLayer = [e \in Elements |-> Undefined]
  /\ created = [e \in Elements |-> 0]
  /\ \E customLayers \in CustomLayers :
       layers = IF customLayers THEN <<>> ELSE <<<<Default, 1>>>>
  /\ index = [l \in Layers |-> Undefined]
  /\ shows = [e \in Elements |-> Undefined]
  /\ listeners = [e \in LayerElements |-> 0]
  /\ scopes = {} /\ markerLayer = Undefined
  /\ changes = 0
  /\ shifted = FALSE /\ swallowed = {}

Keep(c) == layers' = c.layers /\ index' = c.index

\* Nobody has a reference to l any more.
Forget(c, l) == [c EXCEPT !.index[l] = Undefined]

\* createLayer and the property olLayer of the closure.
Create(e, look) ==
  /\ olLayer' = [olLayer EXCEPT ![e] = New(e)]
  /\ created' = [created EXCEPT ![e] = @ + 1]
  /\ shows' = [shows EXCEPT ![e] = look]

CreateNothing(e) ==
  /\ olLayer' = [olLayer EXCEPT ![e] = Undefined]
  /\ shows' = [shows EXCEPT ![e] = Undefined]
  /\ UNCHANGED created

\* setVectorLayerEvents: another listener at the viewport, which stays there.
Listen(e, source) ==
  listeners' = IF DetectLayerType(source) = "Vector" THEN [listeners EXCEPT ![e] = @ + 1]
               ELSE listeners

Appear(e) == stage[e] = "absent" /\ stage' = [stage EXCEPT ![e] = "live"]

LinkBound(e) ==
  /\ Appear(e)
  /\ \E p \in PropertyValues : properties' = [properties EXCEPT ![e] = p]
  /\ UNCHANGED <<changes, seen, olLayer, created, collectionVars, shows, listeners,
                 markerVars, shifted, swallowed>>

\* The source comes from the attributes; an incomplete one has no layer: createSource
\* throws, or addLayerBeforeMarkers does.
LinkStatic(e) ==
  /\ Appear(e)
  /\ \E p \in PropertyValues :
       /\ p.source # Undefined
       /\ IF CreateSource(p.source) = Undefined
          THEN CreateNothing(e) /\ UNCHANGED collectionVars
          ELSE /\ Create(e, CreateLayer(p.source))
               /\ IF LookingThrows(layers) THEN UNCHANGED collectionVars
                  ELSE Keep(AddLayerBeforeMarkers(Collection, New(e)))
       /\ shifted' = (shifted \/ (CreateSource(p.source) # Undefined /\ LookingThrows(layers)))
       /\ Listen(e, p.source)
  /\ UNCHANGED <<properties, changes, seen, markerVars, swallowed>>

\* map.addLayer(createVectorLayer()); the layer outlives the element.
LinkPath(e) ==
  /\ Appear(e)
  /\ Create(e, VectorLayer)
  /\ layers' = Append(layers, New(e))
  /\ UNCHANGED <<properties, changes, seen, index, listeners, markerVars, shifted,
                 swallowed>>

\* getInst
LinkMarker(e) ==
  /\ Appear(e)
  /\ scopes' = scopes \cup {e}
  /\ IF markerLayer = Undefined
     THEN /\ Create(e, VectorLayer)
          /\ layers' = Append(layers, New(e))
          /\ markerLayer' = New(e)
     ELSE /\ olLayer' = [olLayer EXCEPT ![e] = markerLayer]
          /\ UNCHANGED <<created, shows, layers, markerLayer>>
  /\ UNCHANGED <<properties, changes, seen, index, listeners, shifted, swallowed>>

\* The page binds other properties, or changes what is in them, once the digest of its
\* last change is over.
SetProperties(e) ==
  /\ stage[e] = "live"
  /\ properties[e] = seen[e]
  /\ changes < MaxChanges
  /\ changes' = changes + 1
  /\ \E p \in PropertyValues \ {properties[e]} : properties' = [properties EXCEPT ![e] = p]
  /\ UNCHANGED <<stage, seen, olLayer, created, collectionVars, shows, listeners,
                 markerVars, shifted, swallowed>>
-----------------------------------------------------------------------------
(* The watch of ol-layer on its properties: it runs when they differ from  *)
(* the copy it took last, and takes a new copy first.                      *)
Fires(e) ==
  /\ stage[e] = "live"
  /\ properties[e] # seen[e]
  /\ seen' = [seen EXCEPT ![e] = properties[e]]

\* Without a source nothing is done.
WatchWithoutSource(e) ==
  /\ Fires(e)
  /\ properties[e].source = Undefined
  /\ UNCHANGED <<elementVars, olLayer, created, collectionVars, shows, listeners,
                 markerVars, shifted, swallowed>>

\* The properties have changed in more than the field that is filled in.
Otherwise(p, old) ==
  \/ p.source # old.source \/ p.style # old.style
  \/ p.visible \notin {Undefined, old.visible}
  \/ p.visible = Undefined /\ p.opacity # old.opacity

\* A missing visible or opacity is filled in, which makes the watch run again; by then
\* the copy has the change that came with it.
WatchFillsIn(e) ==
  LET p == properties[e]
  IN  /\ Fires(e)
      /\ p.source # Undefined
      /\ p.visible = Undefined \/ p.opacity = Undefined
      /\ properties' = [properties EXCEPT ![e] =
                          IF p.visible = Undefined THEN [p EXCEPT !.visible = TRUE]
                          ELSE [p EXCEPT !.opacity = 1]]
      /\ swallowed' = IF olLayer[e] # Undefined /\ Otherwise(p, seen[e])
                      THEN swallowed \cup {e} ELSE swallowed
      /\ UNCHANGED <<stage, changes, olLayer, created, collectionVars, shows, listeners,
                     markerVars, shifted>>

Complete(p) == p.source # Undefined /\ p.visible # Undefined /\ p.opacity # Undefined

\* setStyle is a method of vector layers only.  It is called last, so that where it is
\* missing the style is all that is not set.
Styled(look, style) == IF look.type = "Vector" THEN [look EXCEPT !.style = style] ELSE look

\* createSource throws, and no layer is assigned.  Before the first layer nothing has
\* happened; a layer that was to be replaced is cut out of the collection by then, and
\* the element keeps it, with the position it had.
WatchThrows(e) ==
  /\ Fires(e)
  /\ Complete(properties[e])
  /\ Throws(properties[e].source)
  /\ \/ olLayer[e] = Undefined /\ UNCHANGED <<layers, shifted, swallowed>>
     \/ /\ olLayer[e] # Undefined
        /\ properties[e].source # seen[e].source
        /\ layers' = Cut(layers, index[olLayer[e]])
        /\ shifted' = TRUE
        /\ swallowed' = swallowed \cup {e}
  /\ UNCHANGED <<elementVars, olLayer, created, index, shows, listeners, markerVars>>

\* The first layer.  If there is none to create, insertLayer throws after it has padded
\* the collection, addLayerBeforeMarkers before it has changed anything.
WatchCreates(e) ==
  LET p == properties[e]
      created0 == CreateSource(p.source) # Undefined
      look == Styled([CreateLayer(p.source) EXCEPT !.visible = p.visible,
                        !.opacity = IF p.opacity = 0 THEN 1 ELSE p.opacity], p.style)
      throws == p.index = Undefined /\ LookingThrows(layers)
  IN  /\ Fires(e)
      /\ Complete(p)
      /\ ~ Throws(p.source)
      /\ olLayer[e] = Undefined
      /\ IF created0 THEN Create(e, IF throws THEN CreateLayer(p.source) ELSE look)
         ELSE CreateNothing(e)
      /\ IF throws THEN UNCHANGED collectionVars
         ELSE IF p.index = Undefined
         THEN IF created0 THEN Keep(AddLayerBeforeMarkers(Collection, New(e)))
              ELSE UNCHANGED collectionVars
         ELSE IF created0 THEN Keep(InsertLayer(Collection, p.index, New(e)))
         ELSE layers' = Pad(layers, p.index) /\ UNCHANGED index
      /\ shifted' = (shifted \/ (throws /\ created0))
      /\ swallowed' = IF throws /\ created0 THEN swallowed \cup {e} ELSE swallowed
      /\ IF created0 /\ ~ throws THEN Listen(e, p.source) ELSE UNCHANGED listeners
      /\ properties' = [properties EXCEPT ![e] = Project(p)]
      /\ UNCHANGED <<stage, changes, markerVars>>

\* Mutant: the opacity hides a change of visible.
AdjustOpacityFirst(e, c, l, look) ==
  LET p == properties[e]
      old == seen[e]
  IN  /\ Keep(IF p.index \in {Undefined, c.index[l]} THEN c
              ELSE InsertLayer(RemoveLayer(c, c.index[l]), p.index, l))
      /\ shows' = [shows EXCEPT ![e] =
                     Styled([look EXCEPT !.visible = IF p.opacity # old.opacity THEN @
                                                     ELSE p.visible,
                                         !.opacity = p.opacity],
                            IF p.style \in {old.style, Undefined} THEN look.style
                            ELSE p.style)]

\* The rest of the watch: another index, and what differs from the copy.  Only numbers
\* and styles that are there are set.
Adjust(e, c, l, look) ==
  LET p == properties[e]
      old == seen[e]
  IN  /\ Keep(IF p.index \in {Undefined, c.index[l]} THEN c
              ELSE InsertLayer(RemoveLayer(c, c.index[l]), p.index, l))
      /\ shows' = [shows EXCEPT ![e] =
                     Styled([look EXCEPT !.visible = IF p.visible = old.visible THEN @
                                                     ELSE p.visible,
                                         !.opacity = IF p.opacity = old.opacity THEN @
                                                     ELSE p.opacity],
                            IF p.style \in {old.style, Undefined} THEN look.style
                            ELSE p.style)]

WatchChanges(e) ==
  /\ Fires(e)
  /\ Complete(properties[e])
  /\ olLayer[e] # Undefined
  /\ properties[e].source = seen[e].source
  /\ Adjust(e, Collection, olLayer[e], shows[e])
  /\ UNCHANGED <<elementVars, olLayer, created, listeners, markerVars, shifted, swallowed>>

\* Another source: the layer is cut out and a new one put in its place, which has
\* nothing of what was set on the old one.
WatchReplaces(e) ==
  LET i == index[olLayer[e]]
      cut == [Forget(Collection, olLayer[e]) EXCEPT !.layers = Cut(@, i)]
  IN  /\ Fires(e)
      /\ Complete(properties[e])
      /\ olLayer[e] # Undefined
      /\ properties[e].source # seen[e].source
      /\ CreateSource(properties[e].source) # Undefined
      /\ olLayer' = [olLayer EXCEPT ![e] = New(e)]
      /\ created' = [created EXCEPT ![e] = @ + 1]
      /\ Adjust(e, InsertLayer(cut, i, New(e)), New(e), CreateLayer(properties[e].source))
      /\ Listen(e, properties[e].source)
      /\ shifted' = (shifted \/ \E j \in 1..Len(layers) : j > i + 1 /\ layers[j] = Null)
      /\ properties' = [properties EXCEPT ![e] = Project(@)]
      /\ swallowed' = swallowed \ {e}
      /\ UNCHANGED <<stage, changes, markerVars>>

\* createLayer returns no layer for the other source; what follows throws, or does
\* nothing.
WatchLoses(e) ==
  LET i == index[olLayer[e]]
  IN  /\ Fires(e)
      /\ Complete(properties[e])
      /\ olLayer[e] # Undefined
      /\ properties[e].source # seen[e].source
      /\ CreateSource(properties[e].source) = Undefined
      /\ ~ Throws(properties[e].source)
      /\ CreateNothing(e)
      /\ Keep([Forget(Collection, olLayer[e]) EXCEPT !.layers = Cut(@, i)])
      /\ shifted' = (shifted \/ Position(i) + 1 < Len(layers))
      /\ UNCHANGED <<elementVars, listeners, markerVars, swallowed>>

Watch(e) ==
  \/ WatchWithoutSource(e) \/ WatchFillsIn(e) \/ WatchThrows(e) \/ WatchCreates(e)
  \/ WatchChanges(e) \/ WatchReplaces(e) \/ WatchLoses(e)
-----------------------------------------------------------------------------
(* $destroy.                                                               *)
Disappear(e) == stage[e] = "live" /\ stage' = [stage EXCEPT ![e] = "gone"]

\* By position, then by reference; without a layer the first line throws.  The scope and
\* the layer are garbage then.
DestroyLayer(e) ==
  LET l == olLayer[e]
      c == RemoveLayer(Collection, index[l])
  IN  /\ Disappear(e)
      /\ IF l = Undefined THEN UNCHANGED collectionVars
         ELSE Keep([Forget(c, l) EXCEPT !.layers = RemoveFirst(@, l)])
      /\ CreateNothing(e)
      /\ properties' = [x \in BoundElements |-> IF x = e THEN Undefined ELSE properties[x]]
      /\ seen' = [x \in BoundElements |-> IF x = e THEN Undefined ELSE seen[x]]
      /\ UNCHANGED <<changes, listeners, markerVars, shifted, swallowed>>

DestroyPath(e) ==
  /\ Disappear(e)
  /\ UNCHANGED <<properties, changes, seen, olLayer, created, collectionVars, shows,
                 listeners, markerVars, shifted, swallowed>>

\* Mutant: the record of the map stays.
DestroyMarkerKeeping(e) ==
  /\ Disappear(e)
  /\ scopes' = scopes \ {e}
  /\ layers' = IF scopes' = {} THEN RemoveFirst(layers, markerLayer) ELSE layers
  /\ shifted' = (shifted \/ (scopes' = {} /\ Last(layers) # markerLayer))
  /\ UNCHANGED <<properties, changes, seen, olLayer, created, index, shows, listeners,
                 markerLayer, swallowed>>

\* deregisterScope: the last marker takes the layer away.
DestroyMarker(e) ==
  /\ Disappear(e)
  /\ scopes' = scopes \ {e}
  /\ IF scopes' = {}
     THEN /\ layers' = RemoveFirst(layers, markerLayer)
          /\ markerLayer' = Undefined
          /\ shifted' = (shifted \/ Last(layers) # markerLayer)
     ELSE UNCHANGED <<layers, markerLayer, shifted>>
  /\ UNCHANGED <<properties, changes, seen, olLayer, created, index, shows, listeners,
                 swallowed>>

Wait ==
  /\ \A e \in Elements : stage[e] # "absent"
  /\ UNCHANGED vars

Next ==
  \/ \E e \in BoundElements :
       LinkBound(e) \/ SetProperties(e) \/ Watch(e) \/ DestroyLayer(e)
  \/ \E e \in StaticElements : LinkStatic(e) \/ DestroyLayer(e)
  \/ \E e \in PathElements : LinkPath(e) \/ DestroyPath(e)
  \/ \E e \in MarkerElements : LinkMarker(e) \/ DestroyMarker(e)
  \/ Wait

Spec == Init /\ [][Next]_vars
-----------------------------------------------------------------------------
Current(e) == IF e \in MarkerElements THEN markerLayer ELSE olLayer[e]
Placed == {layers[j] : j \in 1..Len(layers)} \ {Null}

\* The type invariant.
TypeOK ==
  /\ stage \in [Elements -> {"absent", "live", "gone"}]
  /\ olLayer \in [Elements -> Layers \cup {Undefined}]
  /\ created \in [Elements -> 0..MaxCreated]
  /\ layers \in Seq(Layers \cup {Null})
  /\ index \in [Layers -> Nat \cup {Undefined}]
  /\ listeners \in [LayerElements -> 0..MaxCreated]
  /\ scopes \subseteq MarkerElements
  /\ markerLayer = Undefined <=> scopes = {}
  /\ \A e \in BoundElements : stage[e] = "live" <=> properties[e] # Undefined

\* A layer that remembers a position is found there: this is what ol-layer relies on when
\* it removes by position (lines 336, 414, 426).
IndexFinds ==
  ~ shifted =>
    \A l \in Placed : index[l] # Undefined =>
      index[l] < Len(layers) /\ layers[index[l] + 1] = l

\* The map has one layer for each element that lives and has one, none for those that
\* are gone but ol-path, which cleans up nothing, and none twice: no element takes the
\* layer of another one away.
LayersAreElements ==
  ~ shifted =>
    /\ Placed \ {<<Default, 1>>} =
         ({Current(e) : e \in {x \in Elements : stage[x] = "live"}}
          \cup {olLayer[e] : e \in {x \in PathElements : stage[x] = "gone"}}) \ {Undefined}
    /\ \A j, k \in 1..Len(layers) : layers[j] = layers[k] => j = k \/ layers[j] = Null

\* A layer without an index is below the markers.
MarkersAbove ==
  \A e \in StaticElements : \A j, k \in 1..Len(layers) :
    ~ shifted /\ layers[j] # Null /\ layers[j] = olLayer[e] /\ IsMarkers(layers[k]) => j < k

\* Both: the map has the right layers, in the right order.
LayersInPlace == LayersAreElements /\ MarkersAbove

\* When the watch has run, the layer shows the source and emits its events, unless a change
\* was swallowed or creating the layer threw.  If it is the first layer of the element, it
\* shows what else is bound, a style on vector layers, and emits an event once: one that
\* replaces another has only the source.
ShownAsBound ==
  \A e \in BoundElements :
    LET p == properties[e]
        l == olLayer[e]
    IN  stage[e] = "live" /\ p = seen[e] /\ Complete(p) /\ e \notin swallowed /\ l # Undefined =>
          /\ shows[e].source = p.source
          /\ shows[e].type = "Vector" => listeners[e] \in 1..created[e]
          /\ created[e] = 1 =>
               /\ shows[e].visible = p.visible
               /\ p.opacity # 0 => shows[e].opacity = p.opacity
               /\ p.style # Undefined /\ shows[e].type = "Vector" => shows[e].style = p.style
=============================================================================
