# cwatch-backend in TLA+

A verification project for the vessel tracking backend in `src/`: TLA+ modules
translated from its Java and JavaScript sources, TLC configurations that check
them on small instances, and theorems checked by TLAPS: every safety property that the
runs check is one, for every value of the constants.
Paths below are relative to `src/app/src/main/java/org/cwatch/backend/` unless
they say otherwise; `static/` is `src/app/src/main/resources/static/`.

## The system

Vessels report positions of three kinds (AIS, LRIT, VMS) under identifiers that
change over time. Each report takes a Camel route: it is saved in the position
store of its kind, then handed to the live layer, which pushes it over STOMP to
every browser that would see it. Stored positions can be queried as tracks.

| Component | Source | State | Operations | Talks to |
|---|---|---|---|---|
| View | `process/DefaultLatestPositionView` | `clientViewport`, `clientState` (last message of each vessel, with its cached pixel) | `setVieport`, `processAis/Lrit/Vms` (`processDefault`, `sendToClient`) | profile (calls it), broker (`convertAndSend`) |
| Service and profiles | `process/DefaultLatestPositionService`, `process/MemoryLatestPositionProfile` | `profileCache` (weak values), `viewIdSequence`; per profile `positionMap`, `views` (weak keys) | `processAis/Lrit/Vms`, `register`, `testNewer`, `testTimeout` | routes (caller), views, enrichment |
| Enrichment, profiles, filters | `process/DefaultEnrichmentService`, `MemoryProfileService`, `EnrichedPositionFilter` | `identityCache` of each report | `enrich`, `getIdentity`, `getProfile` | identity stores |
| MapDB position store | `store/MapdbPositionStore` | `table`, two sorted indexes, `sequence`, the listener | `save`, `queryVessel`, `queryArea`, `queryLatest`, `clear`, `pump` | routes, track stores |
| Memory position store | `store/MemoryPositionStore` | `items` | the same | the same |
| Identity and track stores | `store/MemoryIdentityStore`, `SingleSourceTrackStore`, `CompositeTrackStore` | two maps of range maps for each kind | `set`, `getIdentifier`, `getLatestVessel`, `queryTrack` | generator, enrichment, position stores |
| Generators, simulators | `test/IdentityGenerator`, `test/RealTimeSimulator` | none kept | `generate`, `simulate` | identity stores, routes |
| Position view session | `LatestPositionConfiguration` | `positionViewsMap` of the HTTP session, its copy in the WebSocket session | handshake, `start`, `positionsView` | browser, service, view |
| Page | `static/js/app/main.js`, `static/partials/main.jade` | tabs, the map, features of the live layer, view id | `resizeMap`, connect, start, subscribe, `moveend` | session, broker, olData |
| olData | `static/js/modules/angular-openlayers-directive.js` | `maps`: a deferred for each id | `setMap`, `getMap` | page, openlayers |
| Map layers | the same | `map.getLayers()`, the property `index` of a layer, the markers layer | ol-layer, ol-path, ol-marker: link, watch, `$destroy` | scopes of the page |
| Center and view | the same | `scope.center`, the view of the map, `$location.search().c` | ol-center, ol-view: watch, `moveend`, `$locationChangeSuccess`, geolocation | page, user, location bar |
| Routes, start-up | `RouteConfiguration`, `CwatchBackendMain` | none | save then process | stores, live layer |

What is hard here, and what makes each part correct:

* **View.** Reports come on many threads (simulators, routes, the common pool of
  a parallel stream) and viewports on others, and nothing in the class is
  synchronised. It must remember exactly what the browser shows, must not
  suppress what the browser would see, and must not send what it would not.
* **Service.** Reports of one vessel race through `testNewer`; hand-out happens
  outside the monitor; registrations modify a map being traversed; weak
  references decide what lives. A profile must not go back in time, a report has
  one identity, a held view stays registered in the one profile of its name.
* **MapDB store.** The table and two indexes are changed one after the other
  while iterators walk them. Index and table must agree, a query must find what
  was stored before it began.
* **Identity and tracks.** Half-open periods meet at changes of identifier; a
  track must be exact there.
* **Session.** Two sessions must lead to one map although they are filled by
  different requests; thread pools reorder frames; the broker keeps nothing for
  late subscribers.
* **Page.** The map is created in a hidden tab without a size; promises,
  timeouts, frames and the answers of the server come in any order. The server
  must know the window on the screen.
* **olData.** Maps are set and asked for by id, which may be left out, before or
  after each other. Who asks must get the current map, or wait for the next.
* **Layers.** One kind of element finds its layer by a remembered position, the
  others add and remove by reference in the same collection. Nobody may take the
  layer of another one away, and a layer must show what is bound.
* **Center and view.** Five hands move the center and the view, and three
  roundings lie between them. They must end at the same place, and come to rest.

`PROJECT.json` lists every component, and under `hazards` every place where
this goes wrong or could, with the property that watches it.

## The modules

| Module | Models | Extends |
|---|---|---|
| `ClientViewport` | `ClientViewport.locatePixel`, `ClientPixel.isDifferentThan`, the tolerances: pure operators | |
| `LatestPositionView` | `DefaultLatestPositionView`, one access to shared memory at a time | `ClientViewport` |
| `LatestPositionViewProofs` | theorems about it | `LatestPositionView`, `TLAPS` |
| `LatestPositionService` | service, profiles, enrichment, weak references | |
| `LatestPositionServiceProofs` | theorems about it | `LatestPositionService`, `TLAPS` |
| `MapdbPositionStore` | `MapdbPositionStore`, one structure at a time | |
| `MapdbPositionStoreProofs` | theorems about it | `MapdbPositionStore`, `TLAPS` |
| `TrackStore` | identity stores, generator, simulators' reports, tracks, both stores' queries | |
| `TrackStoreProofs` | theorems about it | `TrackStore`, `TLAPS` |
| `PositionViewSession` | handshake, `start`, `positionsView`, channels, broker, tabs of a browser | |
| `PositionViewSessionProofs` | theorems about it | `PositionViewSession`, `TLAPS` |
| `MapRegistry` | what olData promises: the abstract specification | |
| `OlData` | the service `olData` and its deferreds | |
| `MapPage` | the page of `main.js`, on `OlData`; refines `MapRegistry` | `OlData` |
| `MapPageProofs` | theorems about both, the refinement among them | `MapPage`, `TLAPS` |
| `MapLayers` | the layers of a map and the elements that own them | |
| `MapLayersProofs` | theorems about it | `MapLayers`, `TLAPS` |
| `MapCenter` | `ol-center` and `ol-view` | |
| `MapCenterProofs` | theorems about it | `MapCenter`, `TLAPS` |
| `MC...` | instances for TLC | the module named |

Operators are named for the methods they translate. "Mutant" operators
are the same definition with a plausible bug; they are never part of a
specification and exist to show that a property can fail.

### LatestPositionView

`processDefault` is cut at every access to shared state: `ProcessDefault`
(first read of the viewport), `Get` (`clientState.get`), `LocateNew` (`newPixel`,
and the tests that need nothing else), `ReadViewport`, `CheckCache`,
`WritePixel`, `StampViewport` (the pixel cache of lines 301-305), `Compare`,
`Send`, `PutEnter`/`PutExit` (`clientState.put`). `SendFails` is an exception of
`convertAndSend`, `LocateFails` one of the transformation (lines 296-298).
`clientState` is a plain `HashMap`: two overlapping puts may lose one of
the entries and a get that overlaps a put may miss one; both outcomes are
choices, and set the history variable `raced`. Objects compared by reference
(`ClientViewport`, `ClientPosition`) are indices into sequences. Projection and
matrix are abstracted to an origin and a scale, coordinates to integers; the
pixel is computed by truncation towards zero, as the casts do, and visibility
before truncation. `shown` is the browser's layer: it is updated with the send,
as the channels behind `convertAndSend` belong to `PositionViewSession`.

### LatestPositionService

A `task` per report and profile walks through `forEachProfile`: `TestTimeout`
(with the filter), `EnterTestNewer`/`ExitTestNewer` (the synchronized method, in
two steps so that a missing lock would show), `BeginDispatch`, `Deliver`,
`EndDispatch`. `identity` is the memoised identity of a report. `Register` and
`AddView` are the two halves of constructing a view inside `start`;
`RegisterUnknown` consumes a view id and throws. `DropView`, `CollectView` and
`CollectProfile` are the end of a session and the collector: `Reachable` is what
keeps a profile. `ConcurrentModificationException` at the end of a disturbed
traversal and the loss of entries when the map is resized follow OpenJDK 8.

### MapdbPositionStore

`Save` takes a key, `Put` stores the row, `Notify`, `IndexId` and `IndexTime` are
the listener. `Clear`, `ClearRows`, `ClearIds`, `ClearTimes`, `AddListener` are the
lines of `clear`; `PumpNext`, `PumpEnd`, `PumpFails` those of `pump`, which
replaces the table. A query is `QueryBegin`, then leaves of the index are read
(`ReadLeaf`) and their entries looked up one by one (`Emit`). An entry without its
row is a null in the stream; the filter of `queryArea` throws at it (`FilterThrows`),
and what is behind it is not found. Index entries are represented by their row's key. Commit and close change nothing a query sees.

### TrackStore

Range maps are sets of half-open entries; `Put` and `SubRangeMap` are Guava's.
`GenerateFirst` and `GenerateChange` are the generator, which is through before
the simulators start (`Generated`). `Report` saves a position under the
identifier the vessel has at that time. Queries are state functions:
`MapdbQueryVessel`, `MapdbQueryArea`, `MapdbQueryLatest` cut sorted arrays the way
`applyPeriod` does, the `Memory...` ones filter. Identifiers of different vessels
differ, as the identity functions of `CwatchBackendMain` and the tests ensure
(`IdsAssumption`).

### PositionViewSession

The servlet container gives sessions and the cookie (`GetSession`, `Respond`,
`Expire`). `BeforeHandshake`, `CreateMap`, `Handshake` are the two interceptors;
`RequestStart`, `EnterStart`, `StartCreate`, `ExitStart` the synchronized `start`.
A tab then subscribes and moves. `inbox` and `outbox` are the channels: any of
the first `Pool` entries may be through next, which is what threads that take
tasks in order and finish in any order can do. `Without` is what is left of a channel
when a tab goes: the entries of the others, in their order. `SendToClient` is a view that
sends; the broker drops what has no subscriber. The view's own tests are in
`LatestPositionView`, not repeated here.

### MapRegistry, OlData, MapPage

`OlData` follows the service: a key holds a deferred and whether it is resolved;
`GetUnresolvedDefer`, `GetDefer`, `SetResolvedDefer` and `ObtainEffectiveMapId` are
the functions of those names. A key that nobody can mean, `"undefined"`, is what a
missing id leads to when there are several. `MapRegistry` says the same without
deferreds: a map is current for an id, a request is answered with it or waits.
The refinement mapping `Registry` reads who waits and who is answered off the
deferreds, and the map set last off the history variable `lastSet`.

`MapPage` puts the page on top. An action is one turn of the browser: the
controller, the link function, a click, a timeout, a frame, an answer of the
server. What Angular runs ends in a `Digest`: the callbacks of promises that are
resolved by then (`Callbacks`, `VesselsCallback`), and after them the class of
the tab (`visible`). `SelectMap` asks for the map before that class is there, `Timeout`
measures it afterwards. `Render` is a frame with its `moveend`. `Connected`,
`Started` and `Lost` are the connection; `OtherSets` and `OtherGets` another part of
the page with maps of its own. What the server makes of the viewport is in
`PositionViewSession` and `LatestPositionView`.

### MapLayers

`layers` is the collection, with `Null` for the gaps that `InsertLayer` opens when
a position is beyond the end; `index` is the property of each layer.
`RemoveLayer`, `InsertLayer` and `AddLayerBeforeMarkers` are the helpers,
loop by loop, with what an array does for an undefined position and where the
loop throws at a null (`LookingThrows`). The watch of ol-layer is cut at its
exits: `WatchWithoutSource`, `WatchFillsIn` (the early returns), `WatchThrows`
(`createSource` throws, `olLayer` is not assigned), `WatchCreates`, `WatchChanges`,
`WatchReplaces`, `WatchLoses` (`createLayer` returns no layer for the new source).
After a throw the element keeps a layer that has been cut out, with its position,
and removes by that position what is there later. `Styled` is `setStyle`, which
only vector layers have; it comes last. `seen` is the copy `$watch` compares with. `Project` is the write of `createSource` into
an inline geojson, which fires the watch again. `LinkStatic`, `LinkPath`,
`LinkMarker` are the other elements, `DestroyLayer` and `DestroyMarker` the handlers
of `$destroy`; ol-path has none. A source is complete or not for its type.

### MapCenter

An action is a script with the digest it triggers (`Digest`: the watch of
`ol-center`, the geolocation it starts, `Follow` for what it does to the view).
`MapResolved` runs the callbacks of `getMap`, `ol-view` before `ol-center` as link
functions run from the last directive to the first. `MoveEnd` writes the center
back and may put it into the location bar, `Navigates` is a change of the location,
`Located` the geolocation. A latitude and longitude is one number, which loses
`Grain` parts in the projection and `HashGrain` in four decimals. The objects a page
binds are numbered, so that a listener can remember an old one.

## The runs

All runs check for deadlock but `map_center` and `map_page`, where the inputs are
bounded and a page nobody touches stops. `Wait` lets a system idle only when no call is in
progress (`ProcessDefault`, `Save`, `Connect` and the like are inputs nobody owes).

| Run | Question | Bounds |
|---|---|---|
| `view` | Do memory, cache, picture and messages agree when two threads and a changing viewport interleave? | 2 threads, 2 vessels, 3 messages, 2 viewports at two scales |
| `view_serial` | Can many small moves and turns add up to a wrong picture? | 1 thread, 6 positions around the tolerances and the edge, 3 viewports |
| `service` | Does the collector ever take what a session needs, do racing reports leave the newest, does every report finish? | 2 reports of one vessel with 2 timestamps, 2 views, 2 profile objects of one name, the clock, an unknown name, a resize |
| `service_profiles` | Do profiles agree on identities while an identifier changes hands? | 2 profiles, 2 vessels, 1 reassignment |
| `mapdb_store` | Do table and indexes agree, do queries find what is stored, is `queryLatest` decreasing? | 2 rows, one pump, one query at a time, three queries, leaves of any size |
| `track_store` | Are tracks exact, do both stores answer alike, is the reporter found? | 2 vessels, 2 identifiers each, 2 changes, 3 instants, 2 positions |
| `track_store_kinds` | Are kinds kept apart? | 2 kinds with the same numbers |
| `session` | Do viewports reach their view and positions their tab? | 2 tabs, 2 threads for each channel, 2 moves, 2 positions |
| `session_fair` | Is a tab whose map moved served? | 2 tabs, 1 move |
| `map_layers` | Do positions find their layers, has the map the right layers in the right order, do they show what is bound? | 2 bound layers, 1 static, 1 path, 1 marker; 6 values of the properties (a gap, an incomplete and a bare source, tiles without a grid, a style on a layer that takes none, missing fields, none at all); 1 change |
| `map_center` | Do center and view agree after a frame, whoever moved, and do the handlers come to rest? | 8 positions, 2 lost in the projection and 4 in the location bar; 2 zooms, 2 objects, 4 centers, 12 kinds of page, 3 inputs |
| `map_page` | Does the server know the window, does an opened map get a size, does olData keep its promise? | 1 page map, 1 other map with an id, the tab opened twice, 2 moves, 1 other request |

Why the bounds are enough to be interesting: every race in this code is between
two calls (two reports, a report and a viewport, a save and a clear, a
registration and a traversal), and each run has the two, mostly with a third
actor; three messages allow an overwritten one; three instants allow a position
before, at and after a change; two changes let an identifier come back; two sessions and a
third after expiry cover every outcome of the cookie. `ResizeAt`, 12 in a JVM,
is lowered where the resize is what matters. Three tabs were beyond an
exhaustive run. On the map, one change of one of two layers is enough for a stale
position to meet a layer of somebody else; three inputs let each hand on the
center move after two others; the two openings of the tab let a timeout of the
first be late for the second. The runs `view`, `session` and `map_layers` use the
symmetry of threads, of tabs and of bound layers; no temporal property is checked with symmetry.

Fairness is weak, and only for what a thread or the script of a tab does by
itself: each task of a report in a profile, each request of a tab, the first
frame of each channel. An executor starts tasks in order and every thread of a
pool is scheduled; the monitors are released by `synchronized`. No input
(report, move, registration) is fair, nor is the collector. In the page, what the
browser does of itself is fair: the page is compiled and linked, promises resolve,
timeouts end and a map that has to be drawn is drawn (`MapResolved`, `MoveEnd`;
`MapCtrl`, `Link`, `Timeout`, `Render`). Neither the user nor the server owes anything.

### What the properties except, and why

The properties are stated for what the code guarantees; the models also produce
the rest, and history variables mark it.

* `tainted`: two reports of one vessel processed at once by a view. The service
  lets that happen (the hand-out is outside the monitor); then `clientState` and
  the browser may disagree until the vessel is sent again.
* `raced`: a lost or missed entry of the `HashMap`.
* `overlapped`, `missed` (service): two accepted reports of a vessel handed out
  at once; a traversal cut short by an exception or a resize.
* `untracked`: saves that overlap `clear` or `pump`, saves after `pump` and
  before the next `clear` (the new table has no listener), and what a failed pump read.
  Nothing in the repository calls `pump` while the program runs. An area query that
  dies of such an entry is held to what it handed out before (`QueryAnswers`).
* `overlapped`, `expired` (session): tabs that connect at once before the browser
  has a cookie get two sessions, and the viewports of one of them end in a
  `NullPointerException`; the same after an expiry between connect and start.
* `inOvertaken`, `outOvertaken`: thread pools that reorder frames of one tab.
* `shifted` (layers): layers moved without their positions. A markers layer that is not
  the last goes, a source changes to one without a layer, to one that throws or below a
  gap, or a search for the markers throws at a gap. From then on an ol-layer may take another
  layer away.
* `swallowed` (layers): the watch returned after it had filled in `visible` or
  `opacity`, and the change that came with it is never applied; or it threw at a gap
  with its first layer made, on which nothing was set yet; or creating the layer of
  another source threw, until a later source replaces it. A style is stated of vector
  layers only. Likewise a layer that
  replaces another shows only its source (`created[e] = 1` in `ShownAsBound`), and with
  an inline geojson without projection that happens at once.
* `rebound` (center): the listener of the geolocation tests the object it was created for.
* A center without `coord` in a pixel projection leaves the view without a center.
* `early` (page): the window drawn before the page listened is not sent until the map
  moves. `others`: with a second key in olData the page, which gives no id, asks for
  the key `undefined`, and waits.

`MapIsNeverReplaced` deserves a word: `beforeHandshake` and `start` check and set
the attribute without a common lock, which looks like a lost update. It cannot
happen: a session whose cookie the browser has got holds its map already, because the
request that created the session put it in before it answered.
The race that does exist is the one between sessions.

## The proofs

Each module of proofs is about one component, from the assumptions that its module
names and nothing else; each has an inductive invariant, larger than the properties,
since hardly any of those is inductive. One lemma for each action, or one step of a
lemma, shows that it preserves each conjunct it can disturb. The proofs use SMT and
Zenon, and LS4 in the last step of each theorem.

### The view

`LatestPositionViewProofs` proves, for any threads, vessels, positions,
viewports and bounds, from the named assumptions of `LatestPositionView` only:

| Theorem | States |
|---|---|
| `ViewAgreesWithClient` | `Spec => []AgreesWithClient` |
| `ViewCacheCoherent` | `Spec => []CacheCoherent` |
| `ViewComparedInView` | `Spec => []ComparedInView` |
| `ViewFaithful` | `Spec => []Faithful` |
| `ViewNoRedundantMessage` | `Spec => NoRedundantMessage`, an action property |

None of them is inductive. Their invariant `Safety` adds, besides the types:

* `Control`: what a thread knows of its locals at each step (viewports exist, no
  null index is dereferenced, the viewport read second is not older than the first).
* `Exclusive`: two threads in calls for one vessel taint it. All other parts are
  for vessels that are not tainted, and need it to show that no other thread
  touches the entry.
* `Owners`: every reference to a message, in the map or in a thread, is to one of
  the right vessel, and a thread that records a message sent the report it holds.
* `Known`: what a thread alone on its vessel read from `clientState` is what the
  browser shows, until it has sent, and from then on its own message is; and if it
  compares pixels, the headings are within the tolerance.
* `Cached`: the pixel a thread has just written is the one of the viewport it is about to
  stamp, and the stamp it returns with is the viewport it uses. This is where
  `CacheCoherent` and `Faithful` meet: the pixel handed out is that of the viewport the
  thread uses (`ReturnedPixel`), which by `Control` is not older than the first, and that is
  `ComparedInView`.

`NoRedundantMessage` needs `Decided` on top of it: of a thread about to send, while the
viewport it located its pixel in is still the last one, the browser would see the
difference. Whether that is so is settled steps earlier, when the thread compared
the report with a remembered message: `ComparesPicture` says that this message was the
browser's picture, by `Known`, and its cached pixel the one of that viewport, by `Cached`.

### Service and profiles

`LatestPositionServiceProofs`, for any reports, profiles, views, vessels, names and
bounds, from `UnresolvedAssumption` (an unresolved identity is no vessel),
`NonEmptyAssumption`, `TimeAssumption` and `BoundsAssumption`:

| Theorem | States |
|---|---|
| `ServiceTypeCorrect` | `Spec => []TypeOK` |
| `ServiceHeldViewsAreServed` | `Spec => []HeldViewsAreServed` |
| `ServiceOneIdentity` | `Spec => []OneIdentity` |
| `ServiceNeverBackInTime` | `Spec => NeverBackInTime`, an action property |
| `ServiceViewsHaveNewest` | `Spec => []ViewsHaveNewest` |

The invariant `Safety` adds to the properties:

* `Registration` and `Named`: the view being registered is held and has a profile, and the
  cache files a profile under its own name. Otherwise a second registration could
  make a second profile of the name.
* `Guarded`: who is between the halves of `testNewer` has the monitor, so what it
  compared with is still the entry it will replace. Without it `NeverBackInTime` fails.
* `Filed`, `Own`: an entry of `positionMap` was accepted under its identity, and a
  traversal meets views of its own profile only.
* `Alone`: unless hand-outs of a vessel overlapped, the accepted report on its way is the
  entry. `Reached`: the newest report has reached those of its audience that are still
  held, but those still to come in its traversal. Together they give `ViewsHaveNewest`
  when the traversal ends.

### The MapDB store

`MapdbPositionStoreProofs`, for any identifiers, timestamps, queries and bounds, from
`PositionsAssumption`, `QueriesAssumption` and `BoundsAssumption`:

| Theorem | States |
|---|---|
| `StoreTypeCorrect` | `Spec => []TypeOK` |
| `StoreIndexMatchesTable` | `Spec => []IndexMatchesTable` |
| `StoreQueryAnswers` | `Spec => []QueryAnswers` |
| `StoreLatestIsDecreasing` | `Spec => []LatestIsDecreasing` |

* `Tracked`: where a key is (row, first index, second index) follows from the step of its
  save and of the clear or pump, unless it is untracked. This is what the three
  structures have in common although no two of them change at once.
* `Fresh`, `Listened`: the numbers a pump takes are new, and the first table has its
  listener unless it is being cleared; without them a save could meet a row, or skip an
  index, that `Tracked` does not account for.
* `Ordered`: the result so far and the rest of the leaf are in the order of the index.
* `Covered`: of an undisturbed scan, each position that was stored when it set out is in
  the result, in the leaf, or not passed yet. At the end of a scan this is
  `QueryAnswers`; the order is what makes "passed" well defined while the index grows.
  Where an area query throws, what is before the entry without a row has been passed,
  and `Tracked` says that this entry is an untracked one.

### Identity and tracks

`TrackStoreProofs`, for any kinds, vessels, identifiers, instants and numbers of changes,
from `IdsAssumption` (vessels have identifiers of their own) and `BoundsAssumption`:

| Theorem | States |
|---|---|
| `TrackTypeCorrect` | `Spec => []TypeOK` |
| `TrackExact` | `Spec => []TrackIsExact` |
| `TrackStoresAgree` | `Spec => []StoresAgree` |
| `TrackLatestVesselIsReporter` | `Spec => []LatestVesselIsReporter` |

* `Own`: each map is a range map (one value at an instant) of its vessel's identifiers, or
  of its identifier's owners. `PutRangeMap` is the lemma that Guava's `put`, which
  cuts and replaces entries, keeps one.
* `LedTo`: an identifier a vessel ever had leads to a vessel at the end of time, although
  `set` may have cut its entries since. `LatestVesselIsReporter` rests on it.
* `Reported`: a report is stored under the identifier its vessel has at its date, which
  needs that no identifier changes after the first report (`Generated`).

`VesselCuts`, `AreaCuts` and `LatestCuts` show that the cuts of a sorted index and the
filters of the memory store select the same, and `Exact` that the pieces of a track,
put end to end, are in bijection with the reports: half-open periods neither
lose nor repeat the report at a change.

### The session

`PositionViewSessionProofs`, for any finite set of tabs, any pools, moves and reports, from
`PoolAssumption` and `BoundsAssumption`:

| Theorem | States |
|---|---|
| `SessionTypeCorrect` | `Spec => []TypeOK` |
| `SessionMapIsNeverReplaced` | `Spec => MapIsNeverReplaced`, an action property |
| `SessionViewportFindsView` | `Spec => []ViewportFindsView` |
| `SessionLastViewportWins` | `Spec => []LastViewportWins` |
| `SessionToldIsShown` | `Spec => []ToldIsShown` |

* `SessionSafety` counts sessions and maps by the tabs that shook hands or started, and
  says with `Attended` that only the request that created a session knows it while it
  has no map. This is the argument above, for any number of tabs.
* `FoundSafety`: a tab that connects without overlapping another either `Leads` (it is
  alone and nobody has a session) or `Follows` (the browser has one, and everybody under way
  has that one). Either way its view ends in the map its frames look in. The two
  cases are needed because the tab that leads is followed by tabs that connect when
  it has answered.
* `ChannelSafety`: of each tab, what waits in a channel rises in number (`Waiting`, `Rising`)
  and is newer than what has arrived, unless an entry overtook another; the last number sent
  has arrived or waits. The lemmas about `RemoveAt`, `Append` and `Without` on a channel
  say what each does to the entries of one tab.

### The layers

`MapLayersProofs`, for any elements, any properties and number of changes, from
`PropertiesAssumption` (what a page may bind), `ElementsAssumption` (an element is of one
kind), `UndefinedAssumption` and `BoundAssumption`:

| Theorem | States |
|---|---|
| `LayersTypeCorrect` | `Spec => []TypeOK` |
| `LayersShownAsBound` | `Spec => []ShownAsBound` |
| `LayersIndexFinds` | `Spec => []IndexFinds` |
| `LayersStayInPlace` | `Spec => []LayersInPlace` |

* `Shape` says of each kind of element what its stage, its layer and its counters have to
  do with each other. The bound on layers needs a budget, `Owed`: a change pays for two
  layers, because a bare source is changed by the layer made from it and fires its watch
  again.
* `AllShown`: what is shown is what the watch has *seen*, field by field as far as it was
  there; `ShownAsBound` speaks of the moment when that is also what is bound.
* `InPlace`: the layers on the map are those somebody refers to (`Mine`) and the default
  layer; the collection is `Ordered` (none twice, markers above static layers, one
  markers layer) and `Agreed` (an index is Undefined or the position); the layers of ol-layer
  elements have an index, and a layer yet to be created has none. The last two are
  needed because `removeLayer` takes an undefined position for the first.

`RemoveLayerEffect` and `InsertLayerEffect` say what the two loops do, where they stop at a
gap, and `RemoveLayerGood`, `InsertLayerGood` and their like that a good collection
becomes a good one without, or with, a layer (`Became`). Each action is then one or two
of these, and `Arranged` concludes. Preparing the proof of `ShownAsBound` showed that
it does not hold of a first layer whose addition threw at a gap: it is not on the map
and shows what a layer is made with, which happened to be what the instance bound.
`swallowed` now covers it, and the instance binds something else. `StyledFacts` says
what a style does to a layer that takes one and to one that does not; `WatchThrows`
moves layers without their positions, so that `InPlace` has nothing to say of what
follows it, while `Shape` and `AllShown` hold on.

### The center and the view

`MapCenterProofs`, for any positions, zooms, grains and bounds, from `GrainAssumption`
and `CenterAssumption`:

| Theorem | States |
|---|---|
| `CenterTypeCorrect` | `Spec => []TypeOK` |
| `CenterInSync` | `Spec => []InSync` |
| `CenterMoveEndKeepsView` | `Spec => MoveEndKeepsView`, an action property |
| `CenterDiscoveryIsHeard` | `Spec => []DiscoveryIsHeard` |

* `Typed` says besides the types that views hold projected positions: of these the
  projection is the identity, which is why writing one back and reading it
  again loses nothing. `LocationBar` and the lemmas on division are the same for the four
  decimals.
* `Working`: `seen` is the copy of the current center, and a map that moved shows
  something. `Agreed` is `InSync` without the frame: center and view agree unless a frame is due or
  the center asks to be located.
* `Heard`: the object the listener of the geolocation remembers is the center, until it
  is rebound.

`FollowAgrees` and `DigestKeeps` are about the digest every action ends in, and carry most
of the proof.

### The page and olData

`MapPageProofs` proves, for any finite set of ids, any maps and requests and any
bound on moves, from `OlDataAssumption` and `PageAssumption`:

| Theorem | States |
|---|---|
| `PageKeepsRegistry` | `Spec => KeepsRegistry`: every behaviour is one of `MapRegistry` |
| `PageTypeCorrect` | `Spec => []TypeOK` |
| `PageServerKnowsWindow` | `Spec => []ServerKnowsWindow` |

The refinement needs the invariant `Sound`, which relates deferreds to keys:

* `Own`: a deferred is behind one key at most, so that the key a request waits
  for can be read off its promise.
* `Newest`: the deferred of a key is resolved with the map set last for it, and marked
  resolved exactly when there is one. That is what a resolved deferred that is
  kept for the next map would break: resolving it again has no effect.
* `Held`: who waits holds the deferred of a key. Without it, `setMap` could leave
  someone waiting on a deferred nobody will resolve.

`KeyIsKey` and `SameKey` settle what a missing id means: a key, and the same key
after a deferred has been put there, which is what `setMap` relies on when it looks the
id up twice. `SetEffect` and `GetEffect` then reduce each method to a new
deferred or an old one at that key, `SoundSet` and `SoundGet` show that the invariant is
kept, `RefineSet` and `RefineGet` that the step is one of the registry. All else
leaves olData alone. `Page` adds for the other two theorems that callbacks ran
for requests that are answered (an answer stays, which is a step of the registry:
`AnsweredGrows`), and that nobody listens before the view was asked for;
`DigestKeeps` is shared by every action that ends in a digest.

### Only model-checked

The liveness properties `EveryReportFinishes`, `MovedIsServed`, `Settles` and
`OpenedIsTold`, since liveness under fairness is beyond TLAPS. Every invariant, every
action property and the refinement that a run checks is a theorem.

## Not modelled, and why

* `DefaultLatestPositionView.processDefault` does not look at positions again when the
  viewport changes, nor does anything call `queryArea` of the profile: so there
  is nothing to model. `Faithful` speaks of the viewport a report was checked in.
* Memory effects beyond interleaving (the Java memory model allows stale reads of
  unsynchronised fields), NaN and saturation in casts of coordinates.
* Geometry (GeoTools), MapDB's trees and files, Camel, Spring, the servlet
  container, Guava, the simulator library: externals, modelled as far as `src/` uses
  them. Nothing survives a restart of the store: `init` deletes its file.
* `VesselIdSerializer`, getters, value types, bean wiring.
* Of the map: labels and handlers of ol-marker, ol-control, `createStyle` and
  `createFeature` (they build objects of OpenLayers and hand them over), bounds and
  extent, clustering, animations, defaults of a second openlayers element
  (`getDefaults()` without a scope returns those of the first). Zooms are whole
  numbers; a center is in one projection. `ol-view` is always bound to an object where
  it is used: without one its callback throws, and ol-center runs as if it were
  not there.
* A closed or open range passed to `applyPeriod`: no caller does it, and
  `StoresAgree` is about the half-open periods of a range map.
* The commit does not compile: `DefaultLatestPositionService`, line 52, calls a
  constructor of `MemoryLatestPositionProfile` with two arguments, where the class has
  one with four. It is read as meaning the profile with its filter and timeout; what the
  constructor adds to that, a `queryLatest` whose consumer is empty, changes no state.

## Plan

Done, in this order: view, its proofs, service, MapDB store, tracks, session;
then the browser: layers, center and view, olData with its refinement and the
proof of it, page; then the proofs of the others: service, MapDB store, tracks,
session, center, layers. Next:

1. What the theorems say while a clear, a pump or an overlap is under way is left to the
   exceptions above; a bound on the damage (which positions, which vessels) is the next
   thing to state and prove.
2. `LiveLayer`, what a view promises (the browser shows, within the tolerances,
   the last report of each vessel), with `LatestPositionView` implementing it.
3. `PositionStore`, the abstract store (a bag of positions with three queries), and
   both stores shown to implement it.
4. `CwatchBackend`, the composition: generator, simulators and routes (save, then
   process; the second may fail), service and views.
