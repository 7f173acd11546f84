------------------------- MODULE LatestPositionView -------------------------
(***************************************************************************)
(* DefaultLatestPositionView: one browser's live layer.                    *)
(*                                                                         *)
(* Position reports reach the view on many threads (the simulators', the   *)
(* routes', the common pool of the parallel stream over the profiles);     *)
(* viewports reach it on the threads of the STOMP inbound channel.         *)
(* Nothing in the class is synchronised, so a call of processDefault is    *)
(* modelled one access to shared memory at a time.  A report is sent to    *)
(* the browser only if it would be seen: the view remembers what it sent   *)
(* last (clientState) and compares, in pixels of the current viewport.     *)
(***************************************************************************)
EXTENDS ClientViewport, Sequences, FiniteSets

CONSTANTS
  Threads,      \* threads that run processDefault
  Vessels,      \* identities; the null of an unknown identifier is one of them
  Positions,    \* enriched positions: vessel, location, heading
  Viewports,    \* viewports the browser may send
  MaxMessages,  \* bound: messages sent to the browser
  MaxViewports  \* bound: viewports received

Position == [vessel : Vessels, loc : Location, hdg : Int]

ASSUME PositionsAssumption == Positions # {} /\ Positions \subseteq Position
ASSUME ViewportsAssumption == Viewports \subseteq Viewport
ASSUME BoundsAssumption == MaxMessages \in Nat /\ MaxViewports \in Nat

VARIABLES
  viewports,    \* the ClientViewport objects assigned so far; the last is clientViewport
  cps,          \* the ClientPosition objects sent so far, in the order of convertAndSend
  clientState,  \* vessel -> index in cps of its entry in the map, 0 if absent
  pc,           \* thread -> the step of processDefault it is about to take
  pos,          \* thread -> the enriched position it processes
  current,      \* thread -> currentClientPosition, an index in cps, 0 for null
  located,      \* thread -> the viewport newPixel was computed in, an index in viewports
  using,        \* thread -> the viewport read for the cached pixel, an index in viewports
  cp,           \* thread -> the ClientPosition it is sending, an index in cps
  clash,        \* threads whose HashMap.put overlaps another one
  shown         \* vessel -> index in cps of what the browser displays, 0 if nothing

(* History: what the guarantees are conditional on, read by no action.     *)
VARIABLES
  tainted,      \* vessels two of whose reports were processed at the same time
  raced,        \* an entry of clientState was lost or missed in a HashMap race
  latest,       \* vessel -> the last report processed to the end
  checked       \* vessel -> the viewport that held from locatePixel to the end of
                \* that processing, 0 if it changed meanwhile or the report failed

callVars == <<pc, pos, current, located, using, cp>>
historyVars == <<tainted, raced, latest, checked>>
vars == <<viewports, cps, clientState, callVars, clash, shown, historyVars>>

ActivePC == {"get", "locate", "read", "check", "write", "stamp", "return",
             "send", "put", "insert", "replace"}

Active(t) == pc[t] # "idle"
Storing(t) == pc[t] \in {"insert", "replace"}
Identity(t) == pos[t].vessel

\* Threads between convertAndSend and the end of clientState.put.
Recording(t) == pc[t] = "put" \/ Storing(t)

Quiet(v) == \A t \in Threads : Active(t) => Identity(t) # v

NewPixel(t) == LocatePixel(viewports[located[t]], pos[t].loc)

NoPosition == CHOOSE p \in Positions : TRUE

\* The call of t ends, and its local variables with it.
Return(t) ==
  /\ pc' = [pc EXCEPT ![t] = "idle"]
  /\ pos' = [pos EXCEPT ![t] = NoPosition]
  /\ current' = [current EXCEPT ![t] = 0]
  /\ located' = [located EXCEPT ![t] = 0]
  /\ using' = [using EXCEPT ![t] = 0]
  /\ cp' = [cp EXCEPT ![t] = 0]

\* The report of t was processed, the new pixel computed in viewport index.
Completed(t, index) ==
  /\ Return(t)
  /\ latest' = [latest EXCEPT ![Identity(t)] = pos[t]]
  /\ checked' = [checked EXCEPT ![Identity(t)] =
                   IF Len(viewports) = index THEN index ELSE 0]

Init ==
  /\ viewports = <<>>
  /\ cps = <<>>
  /\ clientState = [v \in Vessels |-> 0]
  /\ pc = [t \in Threads |-> "idle"]
  /\ pos = [t \in Threads |-> NoPosition]
  /\ current = [t \in Threads |-> 0]
  /\ located = [t \in Threads |-> 0]
  /\ using = [t \in Threads |-> 0]
  /\ cp = [t \in Threads |-> 0]
  /\ clash = {}
  /\ shown = [v \in Vessels |-> 0]
  /\ tainted = {}
  /\ raced = FALSE
  /\ latest = [v \in Vessels |-> NoPosition]
  /\ checked = [v \in Vessels |-> 0]
-----------------------------------------------------------------------------
(* setVieport: the constructor works on its argument, then one assignment. *)
SetViewport(vp) ==
  /\ Len(viewports) < MaxViewports
  /\ viewports' = Append(viewports, vp)
  /\ UNCHANGED <<cps, clientState, callVars, clash, shown, historyVars>>

(* processDefault.  Before the first viewport it returns at once, a        *)
(* stuttering step: the report is not kept for later.                      *)
ProcessDefault(t, p) ==
  /\ ~Active(t)
  /\ viewports # <<>>
  /\ Len(cps) + Cardinality({u \in Threads : Active(u)}) < MaxMessages
  /\ pc' = [pc EXCEPT ![t] = "get"]
  /\ pos' = [pos EXCEPT ![t] = p]
  /\ tainted' = IF Quiet(p.vessel) THEN tainted ELSE tainted \cup {p.vessel}
  /\ UNCHANGED <<viewports, cps, clientState, current, located, using, cp,
                 clash, shown, raced, latest, checked>>

\* HashMap.get; while another thread inserts, the table may be being resized and
\* the entry not found.
Get(t) ==
  /\ pc[t] = "get"
  /\ \E found \in {clientState[Identity(t)]}
                  \cup (IF \E u \in Threads : pc[u] = "insert" THEN {0} ELSE {}) :
       /\ current' = [current EXCEPT ![t] = found]
       /\ raced' = (raced \/ found # clientState[Identity(t)])
  /\ pc' = [pc EXCEPT ![t] = "locate"]
  /\ UNCHANGED <<viewports, cps, clientState, pos, located, using, cp, clash,
                 shown, tainted, latest, checked>>

\* Mutant: any turn is told.
MustSendAnyTurn(p, client) == client = 0 \/ p.hdg # cps[client].hdg

\* Mutant: the heading is compared with the last report, not the last message.
MustSendSinceReport(p, client) ==
  client = 0 \/ ~FuzzyEquals(p.hdg, latest[p.vessel].hdg, HEADING_TOLERANCE)

\* The position is sent without a look at pixels: the browser does not have the
\* vessel, or shows it with another heading.
MustSend(p, client) ==
  client = 0 \/ ~FuzzyEquals(p.hdg, cps[client].hdg, HEADING_TOLERANCE)

\* newPixel, in the viewport of this instant, and the tests that follow it.
LocateNew(t) ==
  LET index == Len(viewports)
      newPixel == LocatePixel(viewports[index], pos[t].loc)
  IN  /\ pc[t] = "locate"
      /\ \/ /\ newPixel.visible \/ current[t] # 0
            /\ located' = [located EXCEPT ![t] = index]
            /\ pc' = [pc EXCEPT ![t] =
                        IF newPixel.visible /\ MustSend(pos[t], current[t])
                        THEN "send" ELSE "read"]
            /\ UNCHANGED <<pos, current, using, cp, latest, checked>>
         \/ /\ ~newPixel.visible
            /\ current[t] = 0
            /\ Completed(t, index)
      /\ UNCHANGED <<viewports, cps, clientState, clash, shown, tainted, raced>>

\* clientViewport is read again to locate the position the browser has.
ReadViewport(t) ==
  /\ pc[t] = "read"
  /\ using' = [using EXCEPT ![t] = Len(viewports)]
  /\ pc' = [pc EXCEPT ![t] = "check"]
  /\ UNCHANGED <<viewports, cps, clientState, pos, current, located, cp, clash,
                 shown, historyVars>>

(* locatePixel(ClientPosition): the pixel is cached in the ClientPosition, *)
(* in two fields written one after the other.                              *)

\* Mutant: a pixel once cached is never computed again.
CheckCacheOnce(t) ==
  /\ pc[t] = "check"
  /\ pc' = [pc EXCEPT ![t] = IF cps[current[t]].pixelViewport = 0
                             THEN "write" ELSE "return"]
  /\ UNCHANGED <<viewports, cps, clientState, pos, current, located, using, cp,
                 clash, shown, historyVars>>

CheckCache(t) ==
  /\ pc[t] = "check"
  /\ pc' = [pc EXCEPT ![t] = IF cps[current[t]].pixelViewport # using[t]
                             THEN "write" ELSE "return"]
  /\ UNCHANGED <<viewports, cps, clientState, pos, current, located, using, cp,
                 clash, shown, historyVars>>

WritePixel(t) ==
  /\ pc[t] = "write"
  /\ cps' = [cps EXCEPT ![current[t]].pixel =
               LocatePixel(viewports[using[t]], cps[current[t]].loc)]
  /\ pc' = [pc EXCEPT ![t] = "stamp"]
  /\ UNCHANGED <<viewports, clientState, pos, current, located, using, cp,
                 clash, shown, historyVars>>

\* Mutant: the stamp is the viewport of this instant.
StampCurrentViewport(t) ==
  /\ pc[t] = "stamp"
  /\ cps' = [cps EXCEPT ![current[t]].pixelViewport = Len(viewports)]
  /\ pc' = [pc EXCEPT ![t] = "return"]
  /\ UNCHANGED <<viewports, clientState, pos, current, located, using, cp,
                 clash, shown, historyVars>>

StampViewport(t) ==
  /\ pc[t] = "stamp"
  /\ cps' = [cps EXCEPT ![current[t]].pixelViewport = using[t]]
  /\ pc' = [pc EXCEPT ![t] = "return"]
  /\ UNCHANGED <<viewports, clientState, pos, current, located, using, cp,
                 clash, shown, historyVars>>

\* Mutant: a vessel that leaves the screen is not told.
SeenInside(newPixel, old) == newPixel.visible /\ IsDifferentThan(old, newPixel)

\* Whether a browser that has the pixel old is told of newPixel.
WouldBeSeen(newPixel, old) ==
  IF newPixel.visible THEN IsDifferentThan(old, newPixel) ELSE old.visible

\* The cached pixel is returned and compared.
Compare(t) ==
  /\ pc[t] = "return"
  /\ \/ /\ WouldBeSeen(NewPixel(t), cps[current[t]].pixel)
        /\ pc' = [pc EXCEPT ![t] = "send"]
        /\ UNCHANGED <<pos, current, located, using, cp, latest, checked>>
     \/ /\ ~WouldBeSeen(NewPixel(t), cps[current[t]].pixel)
        /\ Completed(t, located[t])
  /\ UNCHANGED <<viewports, cps, clientState, clash, shown, tainted, raced>>

(* sendToClient: the message goes out, then the map learns of it.  The     *)
(* broker hands a view's messages to the browser in the order of the       *)
(* sends, and the browser moves the vessel's one marker.                   *)
NewClientPosition(p) ==
  [vessel |-> p.vessel, loc |-> p.loc, hdg |-> p.hdg, pixelViewport |-> 0,
   pixel |-> [x |-> 0, y |-> 0, visible |-> FALSE]]

Send(t) ==
  /\ pc[t] = "send"
  /\ cps' = Append(cps, NewClientPosition(pos[t]))
  /\ cp' = [cp EXCEPT ![t] = Len(cps')]
  /\ shown' = [shown EXCEPT ![Identity(t)] = Len(cps')]
  /\ pc' = [pc EXCEPT ![t] = "put"]
  /\ UNCHANGED <<viewports, clientState, pos, current, located, using, clash,
                 historyVars>>

\* Mutant: recorded before the send, the failed message stays in the map.
SendFailsRecorded(t) ==
  /\ pc[t] = "send"
  /\ Return(t)
  /\ cps' = Append(cps, NewClientPosition(pos[t]))
  /\ clientState' = [clientState EXCEPT ![Identity(t)] = Len(cps')]
  /\ latest' = [latest EXCEPT ![Identity(t)] = pos[t]]
  /\ checked' = [checked EXCEPT ![Identity(t)] = 0]
  /\ UNCHANGED <<viewports, clash, shown, tainted, raced>>

\* An exception leaves processDefault: the report is lost, nothing is undone.
Throw(t) ==
  /\ Return(t)
  /\ latest' = [latest EXCEPT ![Identity(t)] = pos[t]]
  /\ checked' = [checked EXCEPT ![Identity(t)] = 0]
  /\ UNCHANGED <<viewports, cps, clientState, clash, shown, tainted, raced>>

\* convertAndSend throws, before the put.
SendFails(t) == pc[t] = "send" /\ Throw(t)

\* The transform of a viewport does not take the location, of the report or of the
\* position the browser has.
LocateFails(t) == pc[t] \in {"locate", "write"} /\ Throw(t)

(* HashMap.put on an unsynchronised map.  Two overlapping puts are safe    *)
(* only when both replace the value of an existing entry.                  *)
PutEnter(t) ==
  LET inserts == clientState[Identity(t)] = 0
      others == {u \in Threads : pc[u] = "insert" \/ (inserts /\ pc[u] = "replace")}
  IN  /\ pc[t] = "put"
      /\ pc' = [pc EXCEPT ![t] = IF inserts THEN "insert" ELSE "replace"]
      /\ clash' = IF others = {} THEN clash ELSE clash \cup others \cup {t}
      /\ UNCHANGED <<viewports, cps, clientState, pos, current, located, using,
                     cp, shown, historyVars>>

PutExit(t) ==
  LET v == Identity(t)
      stored == [clientState EXCEPT ![v] = cp[t]]
  IN  /\ Storing(t)
      /\ \/ /\ t \notin clash
            /\ clientState' = stored
            /\ UNCHANGED raced
         \/ /\ t \in clash   \* the put may be lost, and any entry with it
            /\ \E dropped \in SUBSET Vessels, outcome \in {stored, clientState} :
                 clientState' = [u \in Vessels |->
                                   IF u \in dropped THEN 0 ELSE outcome[u]]
            /\ raced' = (raced \/ clientState' # stored)
      /\ clash' = clash \ {t}
      /\ Completed(t, located[t])
      /\ UNCHANGED <<viewports, cps, shown, tainted>>
-----------------------------------------------------------------------------
Step(t) ==
  \/ \E p \in Positions : ProcessDefault(t, p)
  \/ Get(t) \/ LocateNew(t)
  \/ ReadViewport(t) \/ CheckCache(t) \/ WritePixel(t) \/ StampViewport(t)
  \/ Compare(t)
  \/ Send(t) \/ SendFails(t) \/ LocateFails(t)
  \/ PutEnter(t) \/ PutExit(t)

\* No report, no viewport: the view waits.  It may do so only between calls.
Wait ==
  /\ \A t \in Threads : ~Active(t)
  /\ UNCHANGED vars

Next ==
  \/ \E vp \in Viewports : SetViewport(vp)
  \/ \E t \in Threads : Step(t)
  \/ Wait

Spec == Init /\ [][Next]_vars
-----------------------------------------------------------------------------
ClientPosition ==
  [vessel : Vessels, loc : Location, hdg : Int, pixelViewport : Nat,
   pixel : ClientPixel]

\* The type invariant, for the proofs: every index points at an object that exists.
TypeOK ==
  /\ viewports \in Seq(Viewports)
  /\ cps \in Seq(ClientPosition)
  /\ \A i \in 1..Len(cps) : cps[i].pixelViewport \in 0..Len(viewports)
  /\ clientState \in [Vessels -> 0..Len(cps)]
  /\ pc \in [Threads -> ActivePC \cup {"idle"}]
  /\ pos \in [Threads -> Positions]
  /\ current \in [Threads -> 0..Len(cps)]
  /\ located \in [Threads -> 0..Len(viewports)]
  /\ using \in [Threads -> 0..Len(viewports)]
  /\ cp \in [Threads -> 0..Len(cps)]
  /\ clash \subseteq Threads
  /\ shown \in [Vessels -> 0..Len(cps)]
  /\ tainted \subseteq Vessels
  /\ raced \in BOOLEAN
  /\ latest \in [Vessels -> Positions]
  /\ checked \in [Vessels -> 0..Len(viewports)]

\* What the view believes the browser shows is what it shows: unless two reports
\* of the vessel were processed at once or the map lost an entry, clientState
\* holds the vessel's last message whenever no call is between its send and its
\* put, whatever sends failed and viewports changed (lines 108-112).
AgreesWithClient ==
  \A v \in Vessels \ tainted :
    (~raced /\ \A t \in Threads : Recording(t) => Identity(t) # v)
      => clientState[v] = shown[v]

\* The two fields of the pixel cache fit together: outside the two writes of
\* locatePixel, the cached pixel is where the stamped viewport puts the position,
\* however the viewport changes during the calls (lines 301-308).
CacheCoherent ==
  \A i \in 1..Len(cps) :
    \/ cps[i].vessel \in tainted
    \/ cps[i].pixelViewport = 0
    \/ \E t \in Threads : pc[t] = "stamp" /\ current[t] = i
    \/ cps[i].pixel = LocatePixel(viewports[cps[i].pixelViewport], cps[i].loc)

\* A report is compared with where the browser has the vessel in a viewport of this
\* call: the pixel locatePixel hands out is not one cached in a viewport that was
\* gone when the new pixel was computed (lines 75-90, 301-308).
ComparedInView ==
  \A t \in Threads :
    (pc[t] = "return" /\ Identity(t) \notin tainted) =>
      \E index \in located[t]..Len(viewports) :
         cps[current[t]].pixel = LocatePixel(viewports[index], cps[current[t]].loc)

\* What the screen of vp shows of v cannot be told from the report p: a visible
\* vessel is shown within the tolerances, an invisible one is not shown inside.
Displays(v, p, vp) ==
  LET newPixel == LocatePixel(vp, p.loc)
      old == LocatePixel(vp, cps[shown[v]].loc)
  IN  IF newPixel.visible
      THEN /\ shown[v] # 0
           /\ FuzzyEquals(p.hdg, cps[shown[v]].hdg, HEADING_TOLERANCE)
           /\ ~IsDifferentThan(old, newPixel)
      ELSE shown[v] = 0 \/ ~old.visible

\* The live layer is right: once the last report of a vessel was processed under
\* one viewport, the browser displays that report in that viewport, although the
\* reports in between were suppressed, sent or lost (processDefault as a whole).
Faithful ==
  \A v \in Vessels \ tainted :
    (~raced /\ Quiet(v) /\ checked[v] # 0)
      => Displays(v, latest[v], viewports[checked[v]])

\* Nothing is sent that the browser would not see: if one viewport held while a
\* report was processed, the message it causes changes the browser's picture.
NoRedundantMessage ==
  [][\A t \in Threads :
       (/\ pc[t] = "send" /\ pc'[t] = "put"
        /\ Identity(t) \notin tainted /\ ~raced
        /\ located[t] = Len(viewports))
         => ~Displays(Identity(t), pos[t], viewports[located[t]])]_vars
=============================================================================
