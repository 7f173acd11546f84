------------------------------- MODULE MapPage -------------------------------
(***************************************************************************)
(* The page of main.js: the controllers TabsCtrl and MapCtrl, the link     *)
(* function of the openlayers directive, and the service olData they meet  *)
(* in.                                                                     *)
(*                                                                         *)
(* The page starts with another tab, so the map is created hidden and has  *)
(* no size; opening its tab asks for the map and measures it.  Meanwhile   *)
(* the socket connects, a view is asked for, and only then does the page   *)
(* listen to the moves of the map it has to tell the server.  Everything   *)
(* Angular runs is followed by a digest, which runs the callbacks of the   *)
(* promises and then updates the classes of the tabs; a timeout and a      *)
(* frame come later, each on its own.                                      *)
(*                                                                         *)
(* Other parts of a page may use olData too, for maps of their own.        *)
(***************************************************************************)
EXTENDS OlData

CONSTANTS
  PageMap,      \* the map of the openlayers element
  Resizes,      \* the requests of resizeMap
  OtherMaps,    \* maps of other parts of the page
  OtherRequests,
  MaxMoves      \* bound: moves of the map

ASSUME PageAssumption ==
  /\ Maps = {PageMap} \cup OtherMaps /\ PageMap \notin OtherMaps
  /\ Requests = {"css", "vessels"} \cup Resizes \cup OtherRequests
  /\ MaxMoves \in Nat \ {0}

VARIABLES
  controlled, \* MapCtrl has run
  linked,     \* the openlayers element is linked: the map exists
  active,     \* tabdata.map.active
  visible,    \* the class active is on the pane of the map
  ran,        \* requests whose callback has run
  timeouts,   \* those with a timeout to come
  size,       \* the size the map has measured is not zero
  position,   \* where the map is, counted by its moves
  frame,      \* the position rendered last, 0 if none
  socket,     \* the connection, and the request for a view
  layers,     \* the vector layers added for the vessels
  listening,  \* $scope.$on('openlayers.map.moveend')
  told,       \* the viewport sent last, 0 if none
  others      \* other parts of the page have used olData

(* History, read by no action.                                             *)
VARIABLE early  \* the frame that was rendered before the page listened

tabVars == <<controlled, linked, active, visible>>
callbackVars == <<ran, timeouts, layers, listening, early>>
mapVars == <<size, position, frame, told>>
vars == <<olDataVars, tabVars, callbackVars, mapVars, socket, others>>

Init ==
  /\ OlDataInit
  /\ controlled = FALSE /\ linked = FALSE /\ active = FALSE /\ visible = FALSE
  /\ ran = {} /\ timeouts = {} /\ layers = 0 /\ listening = FALSE /\ early = 0
  /\ size = FALSE /\ position = 1 /\ frame = 0 /\ told = 0
  /\ socket = "none" /\ others = FALSE
-----------------------------------------------------------------------------
(* The digest: callbacks of the promises that are resolved, then classes.  *)
(* The css and the size of the map are set in a timeout, after the class.  *)
\* Mutant: the size is measured in the callback, before the class is there.
MeasuredAtOnce ==
  LET due == Answered' \ ran
  IN  /\ ran' = Answered'
      /\ timeouts' = timeouts \cup (due \cap {"css"})
      /\ size' = IF due \cap Resizes # {} THEN visible ELSE size
Callbacks ==
  LET due == Answered' \ ran
  IN  /\ ran' = Answered'
      /\ timeouts' = timeouts \cup (due \cap ({"css"} \cup Resizes))
      /\ UNCHANGED size

\* The map is there for the vessels: subscribe throws if the socket is closed.
\* Mutant: it runs again in every digest.
VesselsAgain ==
  LET runs == "vessels" \in Answered'
  IN  /\ layers' = IF runs THEN layers + 1 ELSE layers
      /\ listening' = (listening \/ (runs /\ socket' = "started"))
      /\ early' = IF runs THEN frame ELSE early
VesselsCallback ==
  LET runs == "vessels" \in Answered' \ ran
  IN  /\ layers' = IF runs THEN layers + 1 ELSE layers
      /\ listening' = (listening \/ (runs /\ socket' = "started"))
      /\ early' = IF runs THEN frame ELSE early

Digest ==
  /\ Callbacks /\ VesselsCallback
  /\ visible' = active'
  /\ UNCHANGED <<position, frame, told>>

(* MapCtrl: the css of the map, and the connection.                        *)
MapCtrl ==
  /\ ~ controlled /\ controlled' = TRUE
  /\ GetMap("css", Undefined)
  /\ socket' = "connecting"
  /\ UNCHANGED <<linked, active, others>> /\ Digest

(* The link function of openlayers: it creates the map and sets it, for    *)
(* olData under the id of the element, which has none.  A map that is      *)
(* visible already measures itself.                                        *)
Link ==
  /\ controlled /\ ~ linked /\ linked' = TRUE
  /\ SetMap(PageMap, Undefined)
  /\ UNCHANGED <<controlled, active, socket, others>> /\ Digest

\* tabdata.map.active = true, and select="resizeMap()".
SelectMap(q) ==
  /\ controlled /\ ~ active /\ active' = TRUE
  /\ GetMap(q, Undefined)
  /\ UNCHANGED <<controlled, linked, socket, others>> /\ Digest

SelectDashboard ==
  /\ active /\ active' = FALSE
  /\ UNCHANGED <<olDataVars, controlled, linked, socket, others>> /\ Digest

\* $timeout: the css, and map.updateSize().
Timeout(q) ==
  /\ q \in timeouts /\ timeouts' = timeouts \ {q}
  /\ size' = IF q \in Resizes THEN visible ELSE size
  /\ UNCHANGED <<olDataVars, tabVars, ran, layers, listening, early, position, frame, told,
                 socket, others>>

(* The user moves the map he sees.                                         *)
Move ==
  /\ visible /\ size /\ frame = position /\ position < MaxMoves
  /\ position' = position + 1
  /\ UNCHANGED <<olDataVars, tabVars, callbackVars, size, frame, told, socket, others>>

(* A frame, and moveend: setEvent passes it to the scope of the page,      *)
(* which sends the viewport; a closed socket makes send throw.             *)
\* Mutant: only the first frame is told.
RenderOnce ==
  /\ linked /\ size /\ frame # position
  /\ frame' = position
  /\ told' = IF listening /\ socket = "started" /\ told = 0 THEN position ELSE told
  /\ UNCHANGED <<olDataVars, tabVars, callbackVars, size, position, socket, others>>
Render ==
  /\ linked /\ size /\ frame # position
  /\ frame' = position
  /\ told' = IF listening /\ socket = "started" THEN position ELSE told
  /\ UNCHANGED <<olDataVars, tabVars, callbackVars, size, position, socket, others>>

(* The callback of connect asks for a view; its answer asks for the map.   *)
Connected ==
  /\ socket = "connecting" /\ socket' = "starting"
  /\ UNCHANGED <<olDataVars, tabVars, callbackVars, mapVars, others>>

Started ==
  /\ socket = "starting" /\ socket' = "started"
  /\ GetMap("vessels", Undefined)
  /\ UNCHANGED <<controlled, linked, active, others>> /\ Digest

\* There is no callback for an error: the page stays as it is.
Lost ==
  /\ socket \in {"connecting", "starting", "started"} /\ socket' = "lost"
  /\ UNCHANGED <<olDataVars, tabVars, callbackVars, mapVars, others>>

(* Other parts of the page.                                                *)
OtherSets(m, id) ==
  /\ \A d \in 1..defers : value[d] # m
  /\ SetMap(m, id)
  /\ others' = TRUE
  /\ UNCHANGED <<controlled, linked, active, socket>> /\ Digest

OtherGets(q, id) ==
  /\ GetMap(q, id)
  /\ others' = TRUE
  /\ UNCHANGED <<controlled, linked, active, socket>> /\ Digest

Next ==
  \/ MapCtrl \/ Link \/ SelectDashboard \/ Move \/ Render
  \/ Connected \/ Started \/ Lost
  \/ \E q \in Resizes : SelectMap(q)
  \/ \E q \in Requests : Timeout(q)
  \/ \E id \in Ids \cup {Undefined} :
       \/ \E m \in OtherMaps : OtherSets(m, id)
       \/ \E q \in OtherRequests : OtherGets(q, id)

Spec == Init /\ [][Next]_vars

(* The page is compiled, timeouts end, and what has to be drawn is drawn.  *)
(* Nothing is assumed of the user or the server.                           *)
FairSpec ==
  Spec /\ WF_vars(MapCtrl) /\ WF_vars(Link) /\ WF_vars(Render)
       /\ \A q \in Requests : WF_vars(Timeout(q))
-----------------------------------------------------------------------------
TypeOK ==
  /\ OlDataTypeOK
  /\ controlled \in BOOLEAN /\ linked \in BOOLEAN /\ active \in BOOLEAN /\ visible \in BOOLEAN
  /\ ran \subseteq Requests /\ timeouts \subseteq ran
  /\ size \in BOOLEAN /\ position \in 1..MaxMoves
  /\ frame \in 0..position /\ told \in 0..frame /\ early \in 0..frame
  /\ socket \in {"none", "connecting", "starting", "started", "lost"}
  /\ layers \in {0, 1} /\ listening \in BOOLEAN /\ others \in BOOLEAN

\* The deferreds behind the ids keep what olData promises, in any order of calls of
\* getMap and setMap, with and without ids.
KeepsRegistry == Registry!Spec

\* While the connection stands, the window the server works with is the one on the screen.
\* Except the window drawn before the page listened to moves: it is not sent until the
\* map moves again.
ServerKnowsWindow ==
  listening /\ socket = "started" => frame \in {told, early}

\* A user who opens the map after the page is connected sees it, and the server learns
\* its window, although the map was created without a size.  Another part of the page may
\* take the place of the map in olData, and the connection may be lost.
OpenedIsTold ==
  listening /\ active /\ frame = 0 ~> told # 0 \/ ~ active \/ socket = "lost" \/ others
=============================================================================
