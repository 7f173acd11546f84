------------------------ MODULE PositionViewSession ------------------------
(***************************************************************************)
(* LatestPositionConfiguration and main.js: how the tabs of one browser    *)
(* get their views, tell them their viewports and receive positions.       *)
(*                                                                         *)
(* A tab connects (the handshake puts a viewsMap into the HTTP session and *)
(* its reference into the attributes of the WebSocket session), asks       *)
(* /start for a view (kept in the viewsMap of the HTTP session), then      *)
(* subscribes to the queue of the view and sends its viewport whenever the *)
(* map has moved.  The viewport finds its view through the WebSocket       *)
(* session: both sessions must lead to one map.  The channels in between   *)
(* are thread pools, which process messages of one tab at the same time.   *)
(*                                                                         *)
(* A reloaded page is another tab.  A view is named by the tab it was      *)
(* registered for: ids are never given twice (AtomicInteger).              *)
(***************************************************************************)
EXTENDS Integers, FiniteSets, SequencesExt

CONSTANTS
  Tabs,
  Pool,         \* threads of a channel
  ResizeAt,     \* size at which the HashMap of the views is resized (12)
  MaxMoves,     \* bound: moves of the map of a tab
  MaxReports    \* bound: positions a view sends

\* A tab makes two requests that may need a session, and a session a map.
Sessions == 1..(2 * Cardinality(Tabs))
Maps == 1..(2 * Cardinality(Tabs))
ASSUME PoolAssumption == Pool \in Nat \ {0} /\ ResizeAt \in Nat
ASSUME BoundsAssumption == IsFiniteSet(Tabs) /\ MaxMoves \in Nat /\ MaxReports \in Nat

VARIABLES
  cookie,     \* the HTTP session the cookie of the browser names, 0 if none
  sessions,   \* number of HTTP sessions so far
  live,       \* the sessions that have not expired
  attribute,  \* session -> its positionViewsMap, 0 if null
  maps,       \* number of HashMap objects so far
  viewsMap,   \* map -> the views in it
  stage,      \* tab -> how far it is
  request,    \* tab -> the HTTP session of its request, 0 if none
  created,    \* the tabs whose request created its session
  wsMap,      \* tab -> the map in the attributes of its WebSocket session
  viewport,   \* view -> the viewport it has, 0 if null
  told,       \* view -> the last position it sent
  subscribed, \* the tabs the broker knows as subscribers
  inbox,      \* frames of the tabs not processed yet, in the order they arrived
  outbox,     \* messages to the tabs not written yet, in the order of sending
  moves,      \* tab -> the last viewport it sent
  display     \* tab -> the last position it received

(* History, read by no action.                                             *)
VARIABLES
  overlapped,    \* tabs that connected while another one did without a session
  expired,       \* tabs whose session expired before start was called
  missed,        \* tabs whose view was not found in a map being resized
  inOvertaken,   \* tabs one of whose frames was processed before an earlier one
  outOvertaken   \* tabs to which a message was written before an earlier one

httpVars == <<cookie, sessions, live, attribute, maps, viewsMap>>
tabVars == <<stage, request, created, wsMap>>
viewVars == <<viewport, told>>
channelVars == <<subscribed, inbox, outbox>>
clientVars == <<moves, display>>
historyVars == <<overlapped, expired, missed, inOvertaken, outOvertaken>>
vars == <<httpVars, tabVars, viewVars, channelVars, clientVars, historyVars>>

Connecting == {"handshake", "create", "copy", "connected"}
Starting == {"startCreate", "startPut"}
InRequest == {"create", "copy"} \cup Starting
InFlight == {"handshake", "start"} \cup InRequest
Open == {"connected", "started", "subscribed"}
Stages == {"new", "start", "gone"} \cup Connecting \cup Starting \cup Open

Init ==
  /\ cookie = 0 /\ sessions = 0 /\ live = {}
  /\ attribute = [s \in Sessions |-> 0]
  /\ maps = 0
  /\ viewsMap = [m \in Maps |-> {}]
  /\ stage = [t \in Tabs |-> "new"]
  /\ request = [t \in Tabs |-> 0]
  /\ created = {}
  /\ wsMap = [t \in Tabs |-> 0]
  /\ viewport = [t \in Tabs |-> 0]
  /\ told = [t \in Tabs |-> 0]
  /\ subscribed = {} /\ inbox = <<>> /\ outbox = <<>>
  /\ moves = [t \in Tabs |-> 0]
  /\ display = [t \in Tabs |-> 0]
  /\ overlapped = {} /\ expired = {} /\ missed = {}
  /\ inOvertaken = {} /\ outOvertaken = {}
-----------------------------------------------------------------------------
(* The servlet container: sessions, and the cookie that names them.        *)
SessionOf(t) == request[t] \in live

\* getSession(true): the session of the request, or a new one.
GetSession(t) ==
  \/ SessionOf(t) /\ UNCHANGED <<sessions, live, request, created>>
  \/ /\ ~ SessionOf(t)
     /\ sessions' = sessions + 1
     /\ live' = live \cup {sessions + 1}
     /\ request' = [request EXCEPT ![t] = sessions + 1]
     /\ created' = created \cup {t}

\* The response names a session the request has created.
Respond(t) ==
  /\ cookie' = IF t \in created THEN request[t] ELSE cookie
  /\ request' = [request EXCEPT ![t] = 0]
  /\ created' = created \ {t}

\* setAttribute(SESSION_POSITION_VIEWS_MAP, new HashMap())
SetNewMap(session) ==
  /\ maps' = maps + 1
  /\ attribute' = [attribute EXCEPT ![session] = maps + 1]

\* A session nobody is using times out.
Expire(s) ==
  /\ s \in live
  /\ \A t \in Tabs : request[t] = s => stage[t] \notin InRequest
  /\ live' = live \ {s}
  /\ expired' = expired \cup {t \in Tabs : stage[t] \in Connecting \cup {"start"}}
  /\ UNCHANGED <<cookie, sessions, attribute, maps, viewsMap, tabVars, viewVars,
                 channelVars, clientVars, overlapped, missed, inOvertaken,
                 outOvertaken>>
-----------------------------------------------------------------------------
(* Connecting: new SockJS("/web"), beforeHandshake, the interceptor that   *)
(* copies the attributes of the HTTP session.                              *)
Connect(t) ==
  LET others == {u \in Tabs \ {t} : stage[u] \in Connecting \cup {"start"} \cup Starting}
      without == {u \in others : /\ stage[u] \in InFlight
                                 /\ u \in created \/ request[u] \notin live}
  IN  /\ stage[t] = "new"
      /\ stage' = [stage EXCEPT ![t] = "handshake"]
      /\ request' = [request EXCEPT ![t] = cookie]
      /\ overlapped' = overlapped \cup
           (IF cookie \notin live /\ others # {} THEN others \cup {t}
            ELSE IF without # {} THEN {t} ELSE {})
      /\ UNCHANGED <<httpVars, created, wsMap, viewVars, channelVars, clientVars,
                     expired, missed, inOvertaken, outOvertaken>>

\* getSession, getAttribute and the test for null.
\* Mutant: the interceptor that copies the attributes is the first one.
BeforeHandshakeSkipped(t) ==
  /\ stage[t] = "handshake"
  /\ GetSession(t)
  /\ stage' = [stage EXCEPT ![t] = "copy"]
  /\ UNCHANGED <<cookie, attribute, maps, viewsMap, wsMap, viewVars, channelVars,
                 clientVars, historyVars>>

\* Mutant: no test for null.
BeforeHandshakeUntested(t) ==
  /\ stage[t] = "handshake"
  /\ GetSession(t)
  /\ stage' = [stage EXCEPT ![t] = "create"]
  /\ UNCHANGED <<cookie, attribute, maps, viewsMap, wsMap, viewVars, channelVars,
                 clientVars, historyVars>>

BeforeHandshake(t) ==
  /\ stage[t] = "handshake"
  /\ GetSession(t)
  /\ stage' = [stage EXCEPT ![t] = IF attribute[request'[t]] = 0 THEN "create" ELSE "copy"]
  /\ UNCHANGED <<cookie, attribute, maps, viewsMap, wsMap, viewVars, channelVars,
                 clientVars, historyVars>>

CreateMap(t) ==
  /\ stage[t] = "create"
  /\ SetNewMap(request[t])
  /\ stage' = [stage EXCEPT ![t] = "copy"]
  /\ UNCHANGED <<cookie, sessions, live, viewsMap, request, created, wsMap, viewVars,
                 channelVars, clientVars, historyVars>>

Handshake(t) ==
  /\ stage[t] = "copy"
  /\ wsMap' = [wsMap EXCEPT ![t] = attribute[request[t]]]
  /\ Respond(t)
  /\ stage' = [stage EXCEPT ![t] = "connected"]
  /\ UNCHANGED <<sessions, live, attribute, maps, viewsMap, viewVars, channelVars,
                 clientVars, historyVars>>
-----------------------------------------------------------------------------
(* $http.get('/service/position/start'); start is synchronized.            *)
RequestStart(t) ==
  /\ stage[t] = "connected"
  /\ stage' = [stage EXCEPT ![t] = "start"]
  /\ request' = [request EXCEPT ![t] = cookie]
  /\ UNCHANGED <<httpVars, created, wsMap, viewVars, channelVars, clientVars,
                 historyVars>>

\* Mutant: no test for null.
EnterStartUntested(t) ==
  /\ stage[t] = "start"
  /\ \A u \in Tabs : stage[u] \notin Starting
  /\ stage' = [stage EXCEPT ![t] = "startCreate"]
  /\ UNCHANGED <<httpVars, request, created, wsMap, viewVars, channelVars,
                 clientVars, historyVars>>

EnterStart(t) ==
  /\ stage[t] = "start"
  /\ \A u \in Tabs : stage[u] \notin Starting
  /\ stage' = [stage EXCEPT ![t] =
                 IF SessionOf(t) /\ attribute[request[t]] # 0 THEN "startPut" ELSE "startCreate"]
  /\ UNCHANGED <<httpVars, request, created, wsMap, viewVars, channelVars,
                 clientVars, historyVars>>

StartCreate(t) ==
  /\ stage[t] = "startCreate"
  /\ GetSession(t)
  /\ SetNewMap(request'[t])
  /\ stage' = [stage EXCEPT ![t] = "startPut"]
  /\ UNCHANGED <<cookie, viewsMap, wsMap, viewVars, channelVars, clientVars,
                 historyVars>>

\* register, viewsMap.put; start returns.
ExitStart(t) ==
  /\ stage[t] = "startPut"
  /\ viewsMap' = [viewsMap EXCEPT ![attribute[request[t]]] = @ \cup {t}]
  /\ Respond(t)
  /\ stage' = [stage EXCEPT ![t] = "started"]
  /\ UNCHANGED <<sessions, live, attribute, maps, wsMap, viewVars, channelVars,
                 clientVars, historyVars>>
-----------------------------------------------------------------------------
(* The tab: subscribe, then a viewport for every move of the map.          *)
\* Mutant: the listener of moveend is registered first.
MoveFirst(t) ==
  /\ stage[t] \in {"started", "subscribed"}
  /\ moves[t] < MaxMoves
  /\ moves' = [moves EXCEPT ![t] = @ + 1]
  /\ inbox' = Append(inbox, [tab |-> t, viewport |-> moves[t] + 1])
  /\ UNCHANGED <<httpVars, tabVars, viewVars, subscribed, outbox, display, historyVars>>

Subscribe(t) ==
  /\ stage[t] = "started"
  /\ stage' = [stage EXCEPT ![t] = "subscribed"]
  /\ inbox' = Append(inbox, [tab |-> t, viewport |-> 0])
  /\ UNCHANGED <<httpVars, request, created, wsMap, viewVars, subscribed, outbox,
                 clientVars, historyVars>>

Move(t) ==
  /\ stage[t] = "subscribed"
  /\ moves[t] < MaxMoves
  /\ moves' = [moves EXCEPT ![t] = @ + 1]
  /\ inbox' = Append(inbox, [tab |-> t, viewport |-> moves[t] + 1])
  /\ UNCHANGED <<httpVars, tabVars, viewVars, subscribed, outbox, display, historyVars>>

\* A channel without what is of a tab.  (SelectSeq, in a form that can be proved about.)
Without(box, t) ==
  LET others == {n \in 1..Len(box) : box[n].tab # t}
      Place(n) == Cardinality({m \in others : m <= n})
  IN  [i \in 1..Cardinality(others) |-> box[CHOOSE n \in others : Place(n) = i]]

\* The connection breaks, or the tab is closed.  main.js does not connect again; the
\* view stays in the map.
Disconnect(t) ==
  /\ stage[t] \in Open
  /\ stage' = [stage EXCEPT ![t] = "gone"]
  /\ subscribed' = subscribed \ {t}
  /\ inbox' = Without(inbox, t)
  /\ outbox' = Without(outbox, t)
  /\ UNCHANGED <<httpVars, request, created, wsMap, viewVars, clientVars, historyVars>>
-----------------------------------------------------------------------------
(* The inbound channel: any of the first Pool frames may be through first. *)
Running(box) == {n \in 1..Len(box) : n <= Pool}
Overtaken(box, n) == {box[m].tab : m \in 1..(n - 1)} \cap {box[n].tab}

ProcessSubscribe(n) ==
  /\ n \in Running(inbox)
  /\ inbox[n].viewport = 0
  /\ subscribed' = subscribed \cup {inbox[n].tab}
  /\ inbox' = RemoveAt(inbox, n)
  /\ inOvertaken' = inOvertaken \cup Overtaken(inbox, n)
  /\ UNCHANGED <<httpVars, tabVars, viewVars, outbox, clientVars, overlapped,
                 expired, missed, outOvertaken>>

\* A HashMap hides its entries while a put is resizing it.
BeingResized(m) ==
  /\ Cardinality(viewsMap[m]) >= ResizeAt
  /\ \E u \in Tabs : stage[u] = "startPut" /\ attribute[request[u]] = m

(* positionsView: viewsMap.get and setVieport; without a view, the         *)
(* NullPointerException ends the processing of the frame.                  *)
\* Mutant: there is one view in a session.
PositionsViewOfSession(n) ==
  LET t == inbox[n].tab
  IN  /\ n \in Running(inbox)
      /\ inbox[n].viewport # 0
      /\ inbox' = RemoveAt(inbox, n)
      /\ inOvertaken' = inOvertaken \cup Overtaken(inbox, n)
      /\ viewport' = IF viewsMap[wsMap[t]] = {} THEN viewport
                     ELSE [viewport EXCEPT ![CHOOSE x \in viewsMap[wsMap[t]] : TRUE] =
                             inbox[n].viewport]
      /\ UNCHANGED <<httpVars, tabVars, told, subscribed, outbox, clientVars,
                     overlapped, expired, missed, outOvertaken>>

PositionsView(n) ==
  LET t == inbox[n].tab
  IN  /\ n \in Running(inbox)
      /\ inbox[n].viewport # 0
      /\ inbox' = RemoveAt(inbox, n)
      /\ inOvertaken' = inOvertaken \cup Overtaken(inbox, n)
      /\ \/ /\ t \in viewsMap[wsMap[t]]
            /\ viewport' = [viewport EXCEPT ![t] = inbox[n].viewport]
            /\ UNCHANGED missed
         \/ /\ t \notin viewsMap[wsMap[t]]
            /\ UNCHANGED <<viewport, missed>>
         \/ /\ BeingResized(wsMap[t])
            /\ missed' = missed \cup {t}
            /\ UNCHANGED viewport
      /\ UNCHANGED <<httpVars, tabVars, told, subscribed, outbox, clientVars,
                     overlapped, expired, outOvertaken>>
-----------------------------------------------------------------------------
(* A position passes the tests of the view: convertAndSend.  The broker    *)
(* keeps nothing for those who have not subscribed yet.                    *)
SendToClient(t) ==
  /\ viewport[t] # 0
  /\ told[t] < MaxReports
  /\ told' = [told EXCEPT ![t] = @ + 1]
  /\ outbox' = IF t \in subscribed THEN Append(outbox, [tab |-> t, position |-> told[t] + 1])
               ELSE outbox
  /\ UNCHANGED <<httpVars, tabVars, viewport, subscribed, inbox, clientVars,
                 historyVars>>

\* The outbound channel, and the callback of the subscription in main.js.
Receive(n) ==
  /\ n \in Running(outbox)
  /\ display' = [display EXCEPT ![outbox[n].tab] = outbox[n].position]
  /\ outbox' = RemoveAt(outbox, n)
  /\ outOvertaken' = outOvertaken \cup Overtaken(outbox, n)
  /\ UNCHANGED <<httpVars, tabVars, viewVars, subscribed, inbox, moves, overlapped,
                 expired, missed, inOvertaken>>

\* Nothing is under way: the tabs are gone, or quiet.
Wait ==
  /\ inbox = <<>> /\ outbox = <<>>
  /\ \A t \in Tabs : stage[t] \in {"new", "subscribed", "gone"}
  /\ UNCHANGED vars

\* What the container, the pools and the script of a tab do without being asked.
Proceed(t) ==
  \/ BeforeHandshake(t) \/ CreateMap(t) \/ Handshake(t)
  \/ RequestStart(t) \/ EnterStart(t) \/ StartCreate(t) \/ ExitStart(t)
  \/ Subscribe(t)

Process(n) == ProcessSubscribe(n) \/ PositionsView(n)

Next ==
  \/ \E s \in Sessions : Expire(s)
  \/ \E t \in Tabs : \/ Connect(t) \/ Proceed(t) \/ Move(t) \/ Disconnect(t)
                     \/ SendToClient(t)
  \/ \E n \in 1..Pool : Process(n) \/ Receive(n)
  \/ Wait

Spec == Init /\ [][Next]_vars

\* Threads run when they can, a pool takes what waits longest at last, and the script
\* of a tab reacts to every answer.
Fairness ==
  /\ \A t \in Tabs : WF_vars(Proceed(t))
  /\ WF_vars(Process(1)) /\ WF_vars(Receive(1))

FairSpec == Spec /\ Fairness
-----------------------------------------------------------------------------
\* The type invariant.
TypeOK ==
  /\ cookie \in {0} \cup 1..sessions /\ sessions \in Nat
  /\ sessions <= 2 * Cardinality(Tabs)
  /\ live \subseteq 1..sessions
  /\ maps \in {0} \cup Maps
  /\ attribute \in [Sessions -> 0..maps]
  /\ viewsMap \in [Maps -> SUBSET Tabs]
  /\ stage \in [Tabs -> Stages]
  /\ request \in [Tabs -> 0..sessions] /\ created \subseteq Tabs
  /\ wsMap \in [Tabs -> 0..maps]
  /\ \A t \in Tabs : stage[t] \in Open => wsMap[t] # 0
  /\ viewport \in [Tabs -> 0..MaxMoves] /\ moves \in [Tabs -> 0..MaxMoves]
  /\ told \in [Tabs -> 0..MaxReports] /\ display \in [Tabs -> 0..MaxReports]
  /\ subscribed \subseteq Tabs
  /\ inbox \in Seq([tab : Tabs, viewport : 0..MaxMoves])
  /\ outbox \in Seq([tab : Tabs, position : 1..MaxReports])

\* beforeHandshake and start look the map up and create it without a common lock, but
\* the map of a session is never replaced: no second request can name a session before
\* the one that created it has put the map in (LatestPositionConfiguration, lines
\* 81-86 and 136-141).
MapIsNeverReplaced ==
  [][\A s \in Sessions : attribute[s] # 0 => attribute'[s] = attribute[s]]_vars

\* A viewport finds its view: the WebSocket session has the map into which start put
\* it, unless the HTTP session changed under the tab while it connected
\* (positionsView, lines 153-157, which has no test for null).
ViewportFindsView ==
  \A n \in 1..Len(inbox) :
    LET t == inbox[n].tab
    IN  inbox[n].viewport # 0 /\ t \notin overlapped \cup expired => t \in viewsMap[wsMap[t]]

\* When the channel is empty, a view has the viewport its tab sent last, and no other
\* tab's, if the pool processed the tab's frames in order.
LastViewportWins ==
  \A t \in Tabs :
    /\ stage[t] = "subscribed"
    /\ t \notin overlapped \cup expired \cup missed \cup inOvertaken
    /\ \A n \in 1..Len(inbox) : inbox[n].tab # t
    => viewport[t] = moves[t]

\* What a view has sent, its tab shows, once it is written: as a view sends nothing
\* before it has a viewport, and a tab no viewport before it has subscribed, the broker
\* drops no position, if the pools kept the order.
ToldIsShown ==
  \A t \in Tabs :
    /\ stage[t] = "subscribed"
    /\ t \notin inOvertaken \cup outOvertaken
    /\ \A n \in 1..Len(outbox) : outbox[n].tab # t
    => display[t] = told[t]

\* A tab whose map has moved gets a view that serves it, or has lost its connection or
\* its session.
MovedIsServed ==
  \A t \in Tabs :
    moves[t] > 0 ~> \/ viewport[t] # 0
                    \/ stage[t] = "gone"
                    \/ t \in overlapped \cup expired \cup missed
=============================================================================
