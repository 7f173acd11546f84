---------------------- MODULE LatestPositionViewProofs ----------------------
(* Proofs about LatestPositionView, for every value of its constants.      *)
EXTENDS LatestPositionView, TLAPS

\* The pixel of a location is a pair of integers and a flag.
LEMMA LocatePixelType ==
  ASSUME NEW vp \in Viewport, NEW loc \in Location
  PROVE  LocatePixel(vp, loc) \in ClientPixel
<1>1. \A n \in Int, d \in Nat \ {0} : Truncate(n, d) \in Int
  BY SMT DEF Truncate
<1>2. /\ loc.x - vp.origin.x \in Int /\ loc.y - vp.origin.y \in Int
      /\ vp.scale \in Nat \ {0}
  BY DEF Viewport, Location
<1> QED
  BY <1>1, <1>2 DEF LocatePixel, ClientPixel

LEMMA NoPositionType == NoPosition \in Positions
BY PositionsAssumption DEF NoPosition

LEMMA NewClientPositionType ==
  ASSUME NEW p \in Positions
  PROVE  NewClientPosition(p) \in ClientPosition
BY PositionsAssumption DEF NewClientPosition, ClientPosition, ClientPixel, Position

-----------------------------------------------------------------------------
(* Types and control.  TypeOK is not inductive alone: the pixel cache is   *)
(* written through current and using, which must not be null by then.      *)

AtCache(t) == pc[t] \in {"read", "check", "write", "stamp", "return"}

\* What a thread knows of its own locals at each step of a call.
ControlOf(t) ==
  /\ Active(t) => viewports # <<>>
  /\ AtCache(t) => current[t] # 0 /\ located[t] # 0
  /\ pc[t] = "send" \/ Recording(t) => located[t] # 0
  /\ AtCache(t) /\ pc[t] # "read" => using[t] # 0 /\ located[t] <= using[t]
  /\ Recording(t) => cp[t] # 0

Control == \A t \in Threads : ControlOf(t)

LEMMA InitTypeOK == Init => TypeOK /\ Control
<1> SUFFICES ASSUME Init PROVE TypeOK /\ Control
  OBVIOUS
<1>1. TypeOK
  <2>1. viewports \in Seq(Viewports) /\ cps \in Seq(ClientPosition)
    BY DEF Init
  <2>2. /\ 0 \in 0..Len(viewports) /\ 0 \in 0..Len(cps)
        /\ \A i \in 1..Len(cps) : cps[i].pixelViewport \in 0..Len(viewports)
    BY DEF Init
  <2> QED
    BY <2>1, <2>2, NoPositionType DEF Init, TypeOK
<1>2. Control
  BY DEF Init, Control, ControlOf, Active, AtCache, Recording, Storing
<1> QED
  BY <1>1, <1>2

\* What Return leaves of the locals.
LEMMA ReturnType ==
  ASSUME TypeOK, NEW t \in Threads, Return(t)
  PROVE  /\ pc' \in [Threads -> ActivePC \cup {"idle"}]
         /\ pos' \in [Threads -> Positions]
         /\ current' \in [Threads -> 0..Len(cps)]
         /\ located' \in [Threads -> 0..Len(viewports)]
         /\ using' \in [Threads -> 0..Len(viewports)]
         /\ cp' \in [Threads -> 0..Len(cps)]
BY NoPositionType DEF TypeOK, Return

LEMMA CompletedType ==
  ASSUME TypeOK, NEW t \in Threads, NEW i \in 0..Len(viewports), Completed(t, i)
  PROVE  latest' \in [Vessels -> Positions] /\ checked' \in [Vessels -> 0..Len(viewports)]
<1>1. pos[t] \in Positions /\ 0 \in 0..Len(viewports)
  BY DEF TypeOK
<1> QED
  BY <1>1 DEF TypeOK, Completed

LEMMA NextTypeOK == TypeOK /\ Control /\ [Next]_vars => TypeOK'
<1> SUFFICES ASSUME TypeOK, Control, [Next]_vars PROVE TypeOK'
  OBVIOUS
<1> USE PositionsAssumption, ViewportsAssumption
<1>0. Len(cps) \in Nat /\ Len(viewports) \in Nat
  BY DEF TypeOK
<1>1. CASE UNCHANGED vars
  BY <1>1 DEF TypeOK, vars, callVars, historyVars
<1>2. ASSUME NEW vp \in Viewports, SetViewport(vp) PROVE TypeOK'
  <2>1. viewports' \in Seq(Viewports) /\ Len(viewports') = Len(viewports) + 1
    BY <1>2 DEF SetViewport, TypeOK
  <2> QED
    BY <1>0, <1>2, <2>1 DEF SetViewport, TypeOK, callVars, historyVars
<1>3. ASSUME NEW t \in Threads, NEW p \in Positions, ProcessDefault(t, p) PROVE TypeOK'
  BY <1>3 DEF ProcessDefault, TypeOK, Position, ActivePC
<1>4. ASSUME NEW t \in Threads, Get(t) PROVE TypeOK'
  <2>1. Identity(t) \in Vessels
    BY DEF TypeOK, Identity, Position
  <2>2. current' \in [Threads -> 0..Len(cps)]
    BY <1>0, <1>4, <2>1 DEF Get, TypeOK
  <2>3. raced' \in BOOLEAN
    BY <1>4 DEF Get, TypeOK
  <2> QED
    BY <1>4, <2>2, <2>3 DEF Get, TypeOK, ActivePC
<1>5. ASSUME NEW t \in Threads, LocateNew(t) PROVE TypeOK'
  <2>1. CASE Completed(t, Len(viewports))
    <3>1. Return(t) /\ Len(viewports) \in 0..Len(viewports)
      BY <1>0, <2>1 DEF Completed
    <3>2. latest' \in [Vessels -> Positions] /\ checked' \in [Vessels -> 0..Len(viewports)]
      BY <2>1, <3>1, CompletedType
    <3> QED
      BY <1>5, <3>1, <3>2, ReturnType DEF LocateNew, TypeOK
  <2>2. CASE ~Completed(t, Len(viewports))
    <3>1. located' \in [Threads -> 0..Len(viewports)]
      <4>1. located' = [located EXCEPT ![t] = Len(viewports)]
        BY <1>5, <2>2 DEF LocateNew
      <4> QED
        BY <1>0, <4>1 DEF TypeOK
    <3>2. pc' \in [Threads -> ActivePC \cup {"idle"}]
      BY <1>5, <2>2 DEF LocateNew, TypeOK, ActivePC
    <3> QED
      BY <1>5, <2>2, <3>1, <3>2 DEF LocateNew, TypeOK
  <2> QED
    BY <2>1, <2>2
<1>6. ASSUME NEW t \in Threads, ReadViewport(t) PROVE TypeOK'
  BY <1>0, <1>6 DEF ReadViewport, TypeOK, ActivePC, historyVars
<1>7. ASSUME NEW t \in Threads, CheckCache(t) PROVE TypeOK'
  BY <1>7 DEF CheckCache, TypeOK, ActivePC, historyVars
<1>8. ASSUME NEW t \in Threads, WritePixel(t) PROVE TypeOK'
  <2>1. /\ current[t] \in 1..Len(cps) /\ using[t] \in 1..Len(viewports)
    BY <1>0, <1>8 DEF WritePixel, TypeOK, Control, ControlOf, AtCache
  <2> DEFINE px == LocatePixel(viewports[using[t]], cps[current[t]].loc)
  <2>2. px \in ClientPixel
    <3>1. viewports[using[t]] \in Viewports /\ cps[current[t]] \in ClientPosition
      BY <2>1 DEF TypeOK
    <3>2. viewports[using[t]] \in Viewport /\ cps[current[t]].loc \in Location
      BY <3>1 DEF ClientPosition
    <3> QED
      BY <3>2, LocatePixelType
  <2> HIDE DEF px
  <2>3. cps' = [cps EXCEPT ![current[t]] = [cps[current[t]] EXCEPT !.pixel = px]]
    BY <1>8 DEF WritePixel, px
  <2>4. [cps[current[t]] EXCEPT !.pixel = px] \in ClientPosition
    <3>1. cps[current[t]] \in ClientPosition
      BY <2>1 DEF TypeOK
    <3> QED
      BY <2>2, <3>1 DEF ClientPosition
  <2>5. cps' \in Seq(ClientPosition) /\ Len(cps') = Len(cps)
    BY <2>1, <2>3, <2>4 DEF TypeOK
  <2>6. \A i \in 1..Len(cps') : cps'[i].pixelViewport \in 0..Len(viewports)
    BY <2>1, <2>3, <2>5 DEF TypeOK, ClientPosition
  <2> QED
    BY <1>8, <2>5, <2>6 DEF WritePixel, TypeOK, ActivePC, historyVars
<1>9. ASSUME NEW t \in Threads, StampViewport(t) PROVE TypeOK'
  <2>1. current[t] \in 1..Len(cps) /\ using[t] \in 1..Len(viewports)
    BY <1>0, <1>9 DEF StampViewport, TypeOK, Control, ControlOf, AtCache
  <2>2. cps' = [cps EXCEPT ![current[t]] = [cps[current[t]] EXCEPT !.pixelViewport = using[t]]]
    BY <1>9 DEF StampViewport
  <2>3. [cps[current[t]] EXCEPT !.pixelViewport = using[t]] \in ClientPosition
    <3>1. cps[current[t]] \in ClientPosition /\ using[t] \in Nat
      BY <2>1 DEF TypeOK
    <3> QED
      BY <3>1 DEF ClientPosition
  <2>4. cps' \in Seq(ClientPosition) /\ Len(cps') = Len(cps)
    BY <2>1, <2>2, <2>3 DEF TypeOK
  <2>5. \A i \in 1..Len(cps') : cps'[i].pixelViewport \in 0..Len(viewports)
    BY <2>1, <2>2, <2>4 DEF TypeOK, ClientPosition
  <2> QED
    BY <1>9, <2>4, <2>5 DEF StampViewport, TypeOK, ActivePC, historyVars
<1>10. ASSUME NEW t \in Threads, Compare(t) PROVE TypeOK'
  <2>1. CASE Completed(t, located[t])
    <3>1. Return(t) /\ located[t] \in 0..Len(viewports)
      BY <2>1 DEF Completed, TypeOK
    <3> QED
      BY <1>10, <2>1, <3>1, ReturnType, CompletedType DEF Compare, TypeOK
  <2>2. CASE ~Completed(t, located[t])
    BY <1>10, <2>2 DEF Compare, TypeOK, ActivePC
  <2> QED
    BY <2>1, <2>2
<1>11. ASSUME NEW t \in Threads, Send(t) PROVE TypeOK'
  <2>1. pos[t] \in Positions
    BY DEF TypeOK
  <2> DEFINE new == NewClientPosition(pos[t])
  <2>2. new \in ClientPosition /\ new.pixelViewport = 0
    BY <2>1, NewClientPositionType DEF NewClientPosition
  <2> HIDE DEF new
  <2>3. cps' = Append(cps, new)
    BY <1>11 DEF Send, new
  <2>4. cps' \in Seq(ClientPosition) /\ Len(cps') = Len(cps) + 1
    BY <2>2, <2>3 DEF TypeOK
  <2>5. \A i \in 1..Len(cps') : cps'[i].pixelViewport \in 0..Len(viewports)
    BY <1>0, <2>2, <2>3, <2>4 DEF TypeOK
  <2>6. 0..Len(cps) \subseteq 0..Len(cps') /\ Len(cps') \in 0..Len(cps')
    BY <1>0, <2>4
  <2>7. /\ cp' \in [Threads -> 0..Len(cps')]
        /\ shown' \in [Vessels -> 0..Len(cps')]
        /\ current' \in [Threads -> 0..Len(cps')]
        /\ clientState' \in [Vessels -> 0..Len(cps')]
    BY <1>11, <2>6 DEF Send, TypeOK
  <2> QED
    BY <1>11, <2>4, <2>5, <2>7 DEF Send, TypeOK, ActivePC, historyVars
<1>12. ASSUME NEW t \in Threads, SendFails(t) \/ LocateFails(t) PROVE TypeOK'
  <2>1. Return(t)
    BY <1>12 DEF SendFails, LocateFails, Throw
  <2>2. latest' \in [Vessels -> Positions] /\ checked' \in [Vessels -> 0..Len(viewports)]
    <3>1. pos[t] \in Positions /\ 0 \in 0..Len(viewports)
      BY <1>0 DEF TypeOK
    <3> QED
      BY <1>12, <3>1 DEF SendFails, LocateFails, Throw, TypeOK
  <2> QED
    BY <1>12, <2>1, <2>2, ReturnType DEF SendFails, LocateFails, Throw, TypeOK
<1>13. ASSUME NEW t \in Threads, PutEnter(t) PROVE TypeOK'
  BY <1>13 DEF PutEnter, TypeOK, ActivePC, historyVars
<1>14. ASSUME NEW t \in Threads, PutExit(t) PROVE TypeOK'
  <2>1. Completed(t, located[t]) /\ Return(t) /\ located[t] \in 0..Len(viewports)
    BY <1>14 DEF PutExit, Completed, TypeOK
  <2>2. clientState' \in [Vessels -> 0..Len(cps)]
    <3>1. /\ cp[t] \in 0..Len(cps) /\ 0 \in 0..Len(cps)
          /\ clientState \in [Vessels -> 0..Len(cps)]
      BY <1>0 DEF TypeOK
    <3>2. [clientState EXCEPT ![Identity(t)] = cp[t]] \in [Vessels -> 0..Len(cps)]
      BY <3>1
    <3> DEFINE stored == [clientState EXCEPT ![Identity(t)] = cp[t]]
    <3>3. CASE clientState' = stored
      BY <3>2, <3>3
    <3>4. ASSUME NEW dropped \in SUBSET Vessels, NEW outcome \in {stored, clientState},
                 clientState' = [u \in Vessels |-> IF u \in dropped THEN 0 ELSE outcome[u]]
          PROVE  clientState' \in [Vessels -> 0..Len(cps)]
      <4>1. outcome \in [Vessels -> 0..Len(cps)]
        BY <3>1, <3>2
      <4> QED
        BY <3>1, <3>4, <4>1
    <3> QED
      BY <1>14, <3>3, <3>4 DEF PutExit
  <2>3. raced' \in BOOLEAN
    BY <1>14 DEF PutExit, TypeOK
  <2> QED
    BY <1>14, <2>1, <2>2, <2>3, ReturnType, CompletedType DEF PutExit, TypeOK
<1> QED
  BY <1>1, <1>2, <1>3, <1>4, <1>5, <1>6, <1>7, <1>8, <1>9, <1>10, <1>11, <1>12,
     <1>13, <1>14 DEF Next, Step, Wait

LEMMA NextControl == TypeOK /\ Control /\ [Next]_vars => Control'
<1> SUFFICES ASSUME TypeOK, Control, [Next]_vars, NEW u \in Threads PROVE ControlOf(u)'
  BY DEF Control
<1> USE DEF ControlOf, Active, AtCache, Recording, Storing
<1>0. /\ Len(cps) \in Nat /\ Len(viewports) \in Nat
      /\ ControlOf(u) /\ (viewports # <<>> => Len(viewports) > 0)
  BY DEF TypeOK, Control
<1>1. CASE UNCHANGED vars
  BY <1>0, <1>1 DEF vars, callVars, historyVars
<1>2. ASSUME NEW vp \in Viewports, SetViewport(vp) PROVE ControlOf(u)'
  <2>1. viewports' # <<>>
    <3>1. viewports \in Seq(Viewports) /\ viewports' = Append(viewports, vp)
      BY <1>2 DEF SetViewport, TypeOK
    <3>2. Len(viewports') = Len(viewports) + 1
      BY <3>1
    <3> QED
      BY <1>0, <3>2
  <2> QED
    BY <1>0, <1>2, <2>1 DEF SetViewport, TypeOK, callVars
<1>3. ASSUME NEW t \in Threads, NEW p \in Positions, ProcessDefault(t, p) PROVE ControlOf(u)'
  BY <1>0, <1>3 DEF ProcessDefault, TypeOK
<1>4. ASSUME NEW t \in Threads, Get(t) PROVE ControlOf(u)'
  BY <1>0, <1>4 DEF Get, TypeOK
<1>5. ASSUME NEW t \in Threads, LocateNew(t) PROVE ControlOf(u)'
  BY <1>0, <1>5 DEF LocateNew, TypeOK, MustSend, Completed, Return
<1>6. ASSUME NEW t \in Threads, ReadViewport(t) PROVE ControlOf(u)'
  BY <1>0, <1>6 DEF ReadViewport, TypeOK
<1>7. ASSUME NEW t \in Threads, CheckCache(t) PROVE ControlOf(u)'
  BY <1>0, <1>7 DEF CheckCache, TypeOK
<1>8. ASSUME NEW t \in Threads, WritePixel(t) PROVE ControlOf(u)'
  BY <1>0, <1>8 DEF WritePixel, TypeOK
<1>9. ASSUME NEW t \in Threads, StampViewport(t) PROVE ControlOf(u)'
  BY <1>0, <1>9 DEF StampViewport, TypeOK
<1>10. ASSUME NEW t \in Threads, Compare(t) PROVE ControlOf(u)'
  BY <1>0, <1>10 DEF Compare, TypeOK, Completed, Return
<1>11. ASSUME NEW t \in Threads, Send(t) PROVE ControlOf(u)'
  <2>1. Len(cps') = Len(cps) + 1
    BY <1>11 DEF Send, TypeOK
  <2> QED
    BY <1>0, <1>11, <2>1 DEF Send, TypeOK
<1>12. ASSUME NEW t \in Threads, SendFails(t) \/ LocateFails(t) PROVE ControlOf(u)'
  BY <1>0, <1>12 DEF SendFails, LocateFails, Throw, TypeOK, Return
<1>13. ASSUME NEW t \in Threads, PutEnter(t) PROVE ControlOf(u)'
  BY <1>0, <1>13 DEF PutEnter, TypeOK
<1>14. ASSUME NEW t \in Threads, PutExit(t) PROVE ControlOf(u)'
  BY <1>0, <1>14 DEF PutExit, TypeOK, Completed, Return
<1> QED
  BY <1>1, <1>2, <1>3, <1>4, <1>5, <1>6, <1>7, <1>8, <1>9, <1>10, <1>11, <1>12,
     <1>13, <1>14 DEF Next, Step, Wait
-----------------------------------------------------------------------------
(* Safety.  The argument follows one vessel whose reports did not overlap: *)
(* at most one thread works for it (Exclusive), the objects it handles are *)
(* the vessel's own (Owners), what it read from the map is still what the  *)
(* browser shows (Known), and the pixel it compares with is right in the   *)
(* viewport it uses (Cached).  So whatever it decides is decided on the    *)
(* browser's real picture, which is Faithful.                              *)

\* Two calls for one vessel at the same time taint it.
Exclusive ==
  \A t, u \in Threads :
    (t # u /\ Active(t) /\ Active(u) /\ Identity(t) = Identity(u))
      => Identity(t) \in tainted

\* Every reference to a ClientPosition is to one of the right vessel.
Owners ==
  /\ \A v \in Vessels : clientState[v] # 0 => cps[clientState[v]].vessel = v
  /\ \A t \in Threads : ((pc[t] = "locate" \/ AtCache(t)) /\ current[t] # 0)
                           => cps[current[t]].vessel = Identity(t)
  /\ \A t \in Threads : Recording(t) => /\ cps[cp[t]].vessel = Identity(t)
                                        /\ cps[cp[t]].loc = pos[t].loc
                                        /\ cps[cp[t]].hdg = pos[t].hdg

\* What thread t, alone on its vessel, knows of what the browser shows.
KnownBy(t) ==
  (Identity(t) \notin tainted /\ ~raced) =>
    /\ pc[t] \in {"locate", "send"} \/ AtCache(t) =>
         clientState[Identity(t)] = shown[Identity(t)]
    /\ pc[t] = "locate" \/ AtCache(t) => current[t] = shown[Identity(t)]
    /\ Recording(t) => shown[Identity(t)] = cp[t]
    /\ AtCache(t) /\ NewPixel(t).visible =>
         FuzzyEquals(pos[t].hdg, cps[current[t]].hdg, HEADING_TOLERANCE)

Known == \A t \in Threads : KnownBy(t)

\* The object i and the pixel cached in it, while t is in locatePixel and after.
PixelOf(i, index) == LocatePixel(viewports[index], cps[i].loc)

CachedBy(t) ==
  Identity(t) \notin tainted =>
    /\ pc[t] = "stamp" => cps[current[t]].pixel = PixelOf(current[t], using[t])
    /\ pc[t] = "return" => cps[current[t]].pixelViewport = using[t]

Cached == \A t \in Threads : CachedBy(t)

Safety ==
  /\ TypeOK /\ Control /\ Exclusive /\ Owners /\ Known /\ AgreesWithClient
  /\ Cached /\ CacheCoherent /\ Faithful

LEMMA InitSafety == Init => Safety
<1> SUFFICES ASSUME Init PROVE Safety
  OBVIOUS
<1>1. TypeOK /\ Control
  BY InitTypeOK
<1>2. \A t \in Threads : ~Active(t) /\ ~AtCache(t) /\ ~Recording(t) /\ current[t] = 0
  BY DEF Init, Active, AtCache, Recording, Storing
<1>3. Exclusive /\ Owners /\ Known /\ AgreesWithClient /\ Cached
  BY <1>2 DEF Init, Exclusive, Owners, Known, KnownBy, AgreesWithClient, Cached, CachedBy
<1>4. CacheCoherent /\ Faithful
  BY DEF Init, CacheCoherent, Faithful
<1> QED
  BY <1>1, <1>3, <1>4 DEF Safety

\* What no step changes: a viewport, and a ClientPosition up to its pixel cache.
Frame ==
  /\ Len(viewports) \in Nat /\ Len(viewports') \in Nat /\ Len(viewports) <= Len(viewports')
  /\ \A i \in 1..Len(viewports) : viewports'[i] = viewports[i]
  /\ Len(cps) \in Nat /\ Len(cps') \in Nat /\ Len(cps) <= Len(cps')
  /\ \A i \in 1..Len(cps) : /\ cps'[i].vessel = cps[i].vessel
                            /\ cps'[i].loc = cps[i].loc
                            /\ cps'[i].hdg = cps[i].hdg
  /\ tainted \subseteq tainted' /\ (raced => raced')

LEMMA NextFrame == TypeOK /\ Control /\ [Next]_vars => Frame
<1> SUFFICES ASSUME TypeOK, Control, [Next]_vars PROVE Frame
  OBVIOUS
<1>0. /\ Len(cps) \in Nat /\ Len(viewports) \in Nat
      /\ viewports \in Seq(Viewports) /\ cps \in Seq(ClientPosition)
  BY DEF TypeOK
<1>1. CASE UNCHANGED <<viewports, cps>> /\ tainted \subseteq tainted' /\ (raced => raced')
  BY <1>0, <1>1 DEF Frame
<1>2. ASSUME NEW vp \in Viewports, SetViewport(vp) PROVE Frame
  BY <1>0, <1>2 DEF SetViewport, Frame, historyVars
<1>3. ASSUME NEW t \in Threads, WritePixel(t) \/ StampViewport(t) PROVE Frame
  <2>1. current[t] \in 1..Len(cps)
    BY <1>0, <1>3 DEF WritePixel, StampViewport, TypeOK, Control, ControlOf, AtCache
  <2>2. PICK f : f \in {[cps[current[t]] EXCEPT !.pixel = PixelOf(current[t], using[t])],
                        [cps[current[t]] EXCEPT !.pixelViewport = using[t]]}
                 /\ cps' = [cps EXCEPT ![current[t]] = f]
    BY <1>3 DEF WritePixel, StampViewport, PixelOf
  <2>3. /\ f.vessel = cps[current[t]].vessel
        /\ f.loc = cps[current[t]].loc
        /\ f.hdg = cps[current[t]].hdg
    <3>1. cps[current[t]] \in ClientPosition
      BY <1>0, <2>1
    <3> QED
      BY <2>2, <3>1 DEF ClientPosition
  <2>4. Len(cps') = Len(cps) /\ \A i \in 1..Len(cps) :
          cps'[i] = IF i = current[t] THEN f ELSE cps[i]
    BY <1>0, <2>1, <2>2
  <2>5. viewports' = viewports /\ tainted' = tainted /\ raced' = raced
    BY <1>3 DEF WritePixel, StampViewport, historyVars
  <2> QED
    BY <1>0, <2>3, <2>4, <2>5 DEF Frame
<1>4. ASSUME NEW t \in Threads, Send(t) PROVE Frame
  <2>1. PICK new : cps' = Append(cps, new)
    BY <1>4 DEF Send
  <2>2. Len(cps') = Len(cps) + 1 /\ \A i \in 1..Len(cps) : cps'[i] = cps[i]
    BY <1>0, <2>1
  <2> QED
    BY <1>0, <1>4, <2>2 DEF Send, Frame, historyVars
<1>5. ASSUME NEW t \in Threads, NEW p \in Positions, ProcessDefault(t, p) PROVE Frame
  BY <1>1, <1>5 DEF ProcessDefault
<1>6. ASSUME NEW t \in Threads,
             \/ Get(t) \/ LocateNew(t) \/ ReadViewport(t) \/ CheckCache(t)
             \/ Compare(t) \/ SendFails(t) \/ LocateFails(t) \/ PutEnter(t) \/ PutExit(t)
      PROVE  Frame
  BY <1>1, <1>6 DEF Get, LocateNew, ReadViewport, CheckCache, Compare, SendFails,
     LocateFails, Throw,
                    PutEnter, PutExit, historyVars
<1>7. CASE UNCHANGED vars
  BY <1>1, <1>7 DEF vars, historyVars
<1> QED
  BY <1>2, <1>3, <1>4, <1>5, <1>6, <1>7 DEF Next, Step, Wait

\* A call starts in ProcessDefault alone, which taints a vessel already being served.
LEMMA NextExclusive == TypeOK /\ Control /\ Exclusive /\ [Next]_vars => Exclusive'
<1> SUFFICES ASSUME TypeOK, Control, Exclusive, [Next]_vars,
                    NEW r \in Threads, NEW s \in Threads, r # s,
                    Active(r)', Active(s)', Identity(r)' = Identity(s)'
             PROVE  Identity(r)' \in tainted'
  BY DEF Exclusive
<1>0. tainted \subseteq tainted'
  BY NextFrame DEF Frame
<1>1. CASE /\ Active(r) /\ pos'[r] = pos[r]
           /\ Active(s) /\ pos'[s] = pos[s]
  BY <1>0, <1>1 DEF Exclusive, Identity
<1>2. ASSUME NEW t \in Threads, NEW p \in Positions, ProcessDefault(t, p)
      PROVE  Identity(r)' \in tainted'
  <2>1. CASE t # r /\ t # s
    BY <1>1, <1>2, <2>1 DEF ProcessDefault, Active, TypeOK
  <2>2. CASE t = r \/ t = s
    <3> DEFINE u == IF t = r THEN s ELSE r
    <3>1. u \in Threads /\ u # t /\ Active(u)' /\ Identity(r)' = Identity(t)'
          /\ Identity(u)' = Identity(t)'
      BY <2>2
    <3>2. Active(u) /\ pos'[u] = pos[u] /\ pos'[t] = p
      BY <1>2, <3>1 DEF ProcessDefault, Active, TypeOK
    <3>3. ~Quiet(p.vessel)
      BY <3>1, <3>2 DEF Quiet, Identity
    <3> QED
      BY <1>2, <3>1, <3>2, <3>3 DEF ProcessDefault, Identity
  <2> QED
    BY <2>1, <2>2
<1>3. ASSUME NEW t \in Threads,
             \/ Get(t) \/ LocateNew(t) \/ ReadViewport(t) \/ CheckCache(t)
             \/ WritePixel(t) \/ StampViewport(t) \/ Compare(t)
             \/ Send(t) \/ SendFails(t) \/ LocateFails(t) \/ PutEnter(t) \/ PutExit(t)
      PROVE  /\ Active(r) /\ pos'[r] = pos[r]
             /\ Active(s) /\ pos'[s] = pos[s]
  <2>1. CASE Return(t)
    BY <1>3, <2>1 DEF Return, Active, TypeOK, Get, ReadViewport, CheckCache, WritePixel,
                      StampViewport, Send, PutEnter
  <2>2. CASE ~Return(t)
    BY <1>3, <2>2 DEF Completed, Active, TypeOK, Get, LocateNew, ReadViewport, CheckCache,
                      WritePixel, StampViewport, Compare, Send, SendFails,
                      LocateFails, Throw, PutEnter, PutExit,
                      Storing
  <2> QED
    BY <2>1, <2>2
<1>4. CASE UNCHANGED vars \/ \E vp \in Viewports : SetViewport(vp)
  BY <1>1, <1>4 DEF SetViewport, vars, callVars, Active
<1> QED
  BY <1>1, <1>2, <1>3, <1>4 DEF Next, Step, Wait

\* What Return does to the control of its thread and of the others.
LEMMA ReturnFacts ==
  ASSUME TypeOK, NEW t \in Threads, Return(t)
  PROVE  /\ pc'[t] = "idle"
         /\ \A u \in Threads \ {t} : /\ pc'[u] = pc[u] /\ pos'[u] = pos[u]
                                     /\ current'[u] = current[u] /\ located'[u] = located[u]
                                     /\ using'[u] = using[u] /\ cp'[u] = cp[u]
BY DEF Return, TypeOK

LEMMA NextOwners == TypeOK /\ Control /\ Owners /\ [Next]_vars => Owners'
<1> SUFFICES ASSUME TypeOK, Control, Owners, [Next]_vars PROVE Owners'
  OBVIOUS
<1> DEFINE Map == \A v \in Vessels : clientState[v] # 0 => cps[clientState[v]].vessel = v
           Cur(u) == ((pc[u] = "locate" \/ AtCache(u)) /\ current[u] # 0)
                       => cps[current[u]].vessel = Identity(u)
           Out(u) == Recording(u) => /\ cps[cp[u]].vessel = Identity(u)
                                     /\ cps[cp[u]].loc = pos[u].loc
                                     /\ cps[cp[u]].hdg = pos[u].hdg
<1>0. Frame /\ Map /\ (\A u \in Threads : Cur(u) /\ Out(u))
  BY NextFrame DEF Owners
\* References that stay point at objects that keep their vessel, location and heading.
<1>1. ASSUME clientState' = clientState PROVE Map'
  <2>1. \A v \in Vessels : clientState[v] # 0 => clientState[v] \in 1..Len(cps)
    BY DEF TypeOK
  <2> QED
    BY <1>0, <1>1, <2>1 DEF Frame
<1>2. ASSUME NEW u \in Threads, current'[u] = current[u], pos'[u] = pos[u],
             pc[u] = "locate" \/ AtCache(u)
      PROVE  Cur(u)'
  BY <1>0, <1>2 DEF Frame, TypeOK, Identity
<1>3. ASSUME NEW u \in Threads, cp'[u] = cp[u], pos'[u] = pos[u], Recording(u)
      PROVE  Out(u)'
  <2>1. cp[u] \in 1..Len(cps)
    BY <1>0, <1>3 DEF Control, ControlOf, TypeOK, Frame
  <2> QED
    BY <1>0, <1>3, <2>1 DEF Frame, Identity
<1>4. ASSUME NEW u \in Threads, UNCHANGED <<pc[u], pos[u], current[u], cp[u]>>
      PROVE  Cur(u)' /\ Out(u)'
  <2>1. Cur(u)'
    BY <1>2, <1>4 DEF AtCache
  <2>2. Out(u)'
    BY <1>3, <1>4 DEF Recording, Storing
  <2> QED
    BY <2>1, <2>2
<1>5. CASE UNCHANGED <<clientState, pc, pos, current, cp>>
  <2>1. \A u \in Threads : UNCHANGED <<pc[u], pos[u], current[u], cp[u]>>
    BY <1>5
  <2> QED
    BY <1>1, <1>4, <1>5, <2>1 DEF Owners
<1>6. ASSUME NEW t \in Threads, Return(t), clientState' = clientState PROVE Owners'
  <2>1. ~AtCache(t)' /\ pc'[t] # "locate" /\ ~Recording(t)'
    BY <1>6, ReturnFacts DEF AtCache, Recording, Storing
  <2>2. \A u \in Threads \ {t} : Cur(u)' /\ Out(u)'
    BY <1>4, <1>6, ReturnFacts
  <2> QED
    BY <1>1, <1>6, <2>1, <2>2 DEF Owners
<1>7. ASSUME NEW t \in Threads, NEW p \in Positions, ProcessDefault(t, p) PROVE Owners'
  <2>1. \A u \in Threads \ {t} : UNCHANGED <<pc[u], pos[u], current[u], cp[u]>>
    BY <1>7 DEF ProcessDefault, TypeOK
  <2>2. pc'[t] = "get"
    BY <1>7 DEF ProcessDefault, TypeOK
  <2>3. Cur(t)' /\ Out(t)'
    BY <2>2 DEF AtCache, Recording, Storing
  <2> QED
    BY <1>1, <1>4, <1>7, <2>1, <2>3 DEF ProcessDefault, Owners
<1>8. ASSUME NEW t \in Threads, Get(t) PROVE Owners'
  <2>1. \A u \in Threads \ {t} : UNCHANGED <<pc[u], pos[u], current[u], cp[u]>>
    BY <1>8 DEF Get, TypeOK
  <2>2. pc'[t] = "locate" /\ pos'[t] = pos[t] /\ current'[t] \in {0, clientState[Identity(t)]}
    BY <1>8 DEF Get, TypeOK
  <2>3. Identity(t) \in Vessels
    BY PositionsAssumption DEF TypeOK, Identity, Position
  <2>4. cps' = cps
    BY <1>8 DEF Get
  <2>5. Cur(t)' /\ Out(t)'
    BY <1>0, <2>2, <2>3, <2>4 DEF Recording, Storing, Identity
  <2> QED
    BY <1>1, <1>4, <1>8, <2>1, <2>5 DEF Get, Owners
<1>9. ASSUME NEW t \in Threads,
             \/ LocateNew(t) /\ ~Return(t)
             \/ Compare(t) /\ ~Return(t)
             \/ ReadViewport(t) \/ CheckCache(t) \/ WritePixel(t) \/ StampViewport(t)
      PROVE  Owners'
  <2>1. \A u \in Threads \ {t} : UNCHANGED <<pc[u], pos[u], current[u], cp[u]>>
    BY <1>9 DEF LocateNew, Compare, Completed, ReadViewport, CheckCache, WritePixel,
                StampViewport, TypeOK
  <2>2. /\ current'[t] = current[t] /\ pos'[t] = pos[t] /\ clientState' = clientState
        /\ pc[t] = "locate" \/ AtCache(t)
    BY <1>9 DEF LocateNew, Compare, Completed, ReadViewport, CheckCache, WritePixel,
                StampViewport, AtCache
  <2>3. ~Recording(t)'
    BY <1>9 DEF LocateNew, Compare, Completed, ReadViewport, CheckCache, WritePixel,
                StampViewport, TypeOK, Recording, Storing
  <2> QED
    BY <1>1, <1>2, <1>4, <2>1, <2>2, <2>3 DEF Owners
<1>10. ASSUME NEW t \in Threads, Send(t) PROVE Owners'
  <2>1. \A u \in Threads \ {t} : UNCHANGED <<pc[u], pos[u], current[u], cp[u]>>
    BY <1>10 DEF Send, TypeOK
  <2>2. cps'[Len(cps')] = NewClientPosition(pos[t]) /\ cp'[t] = Len(cps')
    <3>1. cps \in Seq(ClientPosition) /\ cps' = Append(cps, NewClientPosition(pos[t]))
      BY <1>10 DEF Send, TypeOK
    <3>2. Len(cps') = Len(cps) + 1 /\ cps'[Len(cps) + 1] = NewClientPosition(pos[t])
      BY <3>1
    <3> QED
      BY <1>10, <3>2 DEF Send, TypeOK
  <2>3. Cur(t)' /\ Out(t)'
    BY <1>10, <2>2 DEF Send, NewClientPosition, AtCache, Identity, TypeOK
  <2> QED
    BY <1>1, <1>4, <1>10, <2>1, <2>3 DEF Send, Owners
<1>11. ASSUME NEW t \in Threads, PutEnter(t) PROVE Owners'
  <2>1. \A u \in Threads \ {t} : UNCHANGED <<pc[u], pos[u], current[u], cp[u]>>
    BY <1>11 DEF PutEnter, TypeOK
  <2>2. Recording(t) /\ pos'[t] = pos[t] /\ cp'[t] = cp[t] /\ pc'[t] \in {"insert", "replace"}
    BY <1>11 DEF PutEnter, Recording, TypeOK
  <2>3. Cur(t)' /\ Out(t)'
    BY <1>3, <2>2 DEF AtCache
  <2> QED
    BY <1>1, <1>4, <1>11, <2>1, <2>3 DEF PutEnter, Owners
<1>12. ASSUME NEW t \in Threads, PutExit(t) PROVE Owners'
  <2>1. Return(t) /\ Recording(t) /\ cps' = cps
    BY <1>12 DEF PutExit, Completed, Recording
  <2>2. \A v \in Vessels : \/ clientState'[v] \in {0, clientState[v]}
                           \/ v = Identity(t) /\ clientState'[v] = cp[t]
    BY <1>12 DEF PutExit, TypeOK
  <2>3. Map'
    BY <1>0, <2>1, <2>2
  <2>4. ~AtCache(t)' /\ pc'[t] # "locate" /\ ~Recording(t)'
    BY <2>1, ReturnFacts DEF AtCache, Recording, Storing
  <2>5. \A u \in Threads \ {t} : Cur(u)' /\ Out(u)'
    BY <1>4, <2>1, ReturnFacts
  <2> QED
    BY <2>3, <2>4, <2>5 DEF Owners
<1>13. ASSUME NEW t \in Threads, SendFails(t) \/ LocateFails(t) PROVE Owners'
  BY <1>6, <1>13 DEF SendFails, LocateFails, Throw
<1>14. ASSUME NEW t \in Threads,
              (LocateNew(t) /\ Return(t)) \/ (Compare(t) /\ Return(t))
       PROVE  Owners'
  BY <1>6, <1>14 DEF LocateNew, Compare
<1>15. CASE UNCHANGED vars \/ \E vp \in Viewports : SetViewport(vp)
  BY <1>5, <1>15 DEF SetViewport, vars, callVars
<1> QED
  BY <1>7, <1>8, <1>9, <1>10, <1>11, <1>12, <1>13, <1>14, <1>15 DEF Next, Step, Wait

\* The locals of u are as they were.
Untouched(u) ==
  UNCHANGED <<pc[u], pos[u], current[u], located[u], using[u], cp[u]>>

\* A step of the view is a step of one call, or none.
LEMMA OneThread ==
  ASSUME TypeOK, NEW t \in Threads, Step(t)
  PROVE  \A u \in Threads \ {t} : Untouched(u)
<1>1. CASE Return(t)
  BY <1>1, ReturnFacts DEF Untouched
<1>2. CASE (\E p \in Positions : ProcessDefault(t, p)) \/ Get(t)
  BY <1>2 DEF TypeOK, Untouched, ProcessDefault, Get
<1>3. CASE ~Return(t) /\ (LocateNew(t) \/ Compare(t))
  BY <1>3 DEF TypeOK, Untouched, LocateNew, Compare, Completed
<1>4. CASE ReadViewport(t) \/ CheckCache(t) \/ WritePixel(t) \/ StampViewport(t)
  BY <1>4 DEF TypeOK, Untouched, ReadViewport, CheckCache, WritePixel, StampViewport
<1>5. CASE Send(t) \/ PutEnter(t)
  BY <1>5 DEF TypeOK, Untouched, Send, PutEnter
<1>6. CASE SendFails(t) \/ LocateFails(t) \/ PutExit(t)
  BY <1>1, <1>6 DEF SendFails, LocateFails, Throw, PutExit, Completed
<1> QED
  BY <1>1, <1>2, <1>3, <1>4, <1>5, <1>6 DEF Step

\* The map and the screen change for the vessel of the call alone, or an entry is lost.
LEMMA OneVessel ==
  ASSUME TypeOK, NEW t \in Threads, Step(t)
  PROVE  /\ \A v \in Vessels \ {Identity(t)} :
              shown'[v] = shown[v] /\ (~raced' => clientState'[v] = clientState[v])
         /\ (clientState' = clientState /\ shown' = shown) \/ Active(t)
<1>1. CASE Send(t)
  BY <1>1 DEF Send, TypeOK, Active, Identity
<1>2. CASE PutExit(t)
  <2>1. shown' = shown /\ Active(t)
    BY <1>2 DEF PutExit, Storing, Active
  <2>2. ~raced' => clientState' = [clientState EXCEPT ![Identity(t)] = cp[t]]
    BY <1>2 DEF PutExit
  <2> QED
    BY <2>1, <2>2 DEF TypeOK
<1>3. CASE UNCHANGED <<clientState, shown>>
  BY <1>3
<1> QED
  BY <1>1, <1>2, <1>3 DEF Step, ProcessDefault, Get, LocateNew, ReadViewport, CheckCache,
     WritePixel, StampViewport, Compare, SendFails, LocateFails, Throw, PutEnter

LEMMA NextKnown ==
  TypeOK /\ Control /\ Exclusive /\ Known /\ AgreesWithClient /\ [Next]_vars => Known'
<1> SUFFICES ASSUME TypeOK, Control, Exclusive, Known, AgreesWithClient, [Next]_vars,
                    NEW u \in Threads, Identity(u)' \notin tainted', ~raced'
             PROVE  KnownBy(u)'
  BY DEF Known, KnownBy
<1>0. Frame /\ KnownBy(u) /\ Identity(u) \in Vessels
  <2>1. Identity(u) \in Vessels
    BY PositionsAssumption DEF TypeOK, Identity, Position
  <2> QED
    BY <2>1, NextFrame DEF Known
<1>1. ~raced
  BY <1>0 DEF Frame
\* Nothing KnownBy speaks of changed: the same step of a call, or a later one.
<1>2. ASSUME UNCHANGED <<pos[u], current[u], located[u], cp[u]>>,
             clientState'[Identity(u)] = clientState[Identity(u)],
             shown'[Identity(u)] = shown[Identity(u)],
             \/ UNCHANGED pc[u]
             \/ AtCache(u) /\ (AtCache(u)' \/ pc'[u] = "send")
             \/ Recording(u) /\ Recording(u)' /\ ~AtCache(u)' /\ pc'[u] \notin {"locate", "send"}
      PROVE  KnownBy(u)'
  <2>1. Identity(u)' = Identity(u) /\ Identity(u) \notin tainted
    BY <1>0, <1>2 DEF Identity, Frame
  <2>2. CASE AtCache(u)
    <3>1. located[u] \in 1..Len(viewports) /\ current[u] \in 1..Len(cps)
      BY <1>0, <2>2 DEF Control, ControlOf, TypeOK, Frame
    <3>2. NewPixel(u)' = NewPixel(u) /\ cps'[current[u]].hdg = cps[current[u]].hdg
      BY <1>0, <1>2, <3>1 DEF Frame, NewPixel
    <3>3. ~Recording(u)'
      BY <1>2, <2>2 DEF AtCache, Recording, Storing
    <3> QED
      BY <1>0, <1>1, <1>2, <2>1, <2>2, <3>2, <3>3 DEF KnownBy, AtCache
  <2>3. CASE ~AtCache(u)
    <3>1. ~AtCache(u)'
      BY <1>2, <2>3 DEF AtCache
    <3>2. UNCHANGED pc[u] \/ (Recording(u) /\ pc'[u] \notin {"locate", "send"})
      BY <1>2, <2>3
    <3> QED
      BY <1>0, <1>1, <1>2, <2>1, <3>1, <3>2 DEF KnownBy, Recording, Storing
  <2> QED
    BY <2>2, <2>3
<1>3. ASSUME NEW t \in Threads \ {u}, Step(t) PROVE KnownBy(u)'
  <2>1. Untouched(u)
    BY <1>3, OneThread
  <2>2. CASE ~Active(u)
    BY <2>1, <2>2 DEF KnownBy, Untouched, Active, AtCache, Recording, Storing
  <2>3. CASE Active(u)
    <3>1. Identity(u)' = Identity(u) /\ Identity(u) \notin tainted
      BY <1>0, <2>1 DEF Untouched, Identity, Frame
    <3>2. Active(t) => Identity(t) # Identity(u)
      BY <1>3, <2>3, <3>1 DEF Exclusive
    <3>3. /\ clientState'[Identity(u)] = clientState[Identity(u)]
          /\ shown'[Identity(u)] = shown[Identity(u)]
      BY <1>0, <1>3, <3>2, OneVessel
    <3> QED
      BY <1>2, <2>1, <3>3 DEF Untouched
  <2> QED
    BY <2>2, <2>3
<1>4. CASE \E p \in Positions : ProcessDefault(u, p)
  BY <1>4 DEF ProcessDefault, KnownBy, TypeOK, AtCache, Recording, Storing
<1>5. CASE Get(u)
  <2>1. /\ pc'[u] = "locate" /\ current'[u] = clientState[Identity(u)]
        /\ UNCHANGED <<clientState, shown, pos, tainted>>
    BY <1>5 DEF Get, TypeOK
  <2>2. Identity(u)' = Identity(u) /\ Identity(u) \notin tainted
    BY <2>1 DEF Identity
  <2>3. \A w \in Threads : Recording(w) => Identity(w) # Identity(u)
    BY <1>5, <2>2 DEF Exclusive, Get, Active, Recording, Storing
  <2>4. clientState[Identity(u)] = shown[Identity(u)]
    BY <1>0, <1>1, <2>2, <2>3 DEF AgreesWithClient
  <2> QED
    BY <2>1, <2>2, <2>4 DEF KnownBy, AtCache, Recording, Storing
<1>6. CASE LocateNew(u) /\ ~Return(u)
  <2>1. /\ UNCHANGED <<clientState, shown, pos, current, tainted, cps, viewports>>
        /\ located'[u] = Len(viewports) /\ pc[u] = "locate"
        /\ pc'[u] = IF LocatePixel(viewports[Len(viewports)], pos[u].loc).visible
                       /\ MustSend(pos[u], current[u]) THEN "send" ELSE "read"
    BY <1>6 DEF LocateNew, Completed, TypeOK
  <2>2. Identity(u)' = Identity(u) /\ Identity(u) \notin tainted
    BY <2>1 DEF Identity
  <2>3. /\ clientState[Identity(u)] = shown[Identity(u)]
        /\ current[u] = shown[Identity(u)]
    BY <1>0, <1>1, <2>1, <2>2 DEF KnownBy
  <2>4. ASSUME AtCache(u)', NewPixel(u)'.visible
        PROVE  FuzzyEquals(pos[u].hdg, cps[current[u]].hdg, HEADING_TOLERANCE)
    BY <2>1, <2>4 DEF AtCache, NewPixel, MustSend
  <2> QED
    BY <2>1, <2>2, <2>3, <2>4 DEF KnownBy, Recording, Storing
<1>7. CASE \/ ReadViewport(u) \/ CheckCache(u) \/ WritePixel(u) \/ StampViewport(u)
           \/ Compare(u) /\ ~Return(u)
  <2>1. UNCHANGED <<pos, current, located, cp, clientState, shown>>
    BY <1>7 DEF ReadViewport, CheckCache, WritePixel, StampViewport, Compare, Completed
  <2>2. AtCache(u) /\ (AtCache(u)' \/ pc'[u] = "send")
    BY <1>7 DEF ReadViewport, CheckCache, WritePixel, StampViewport, Compare, Completed,
                AtCache, TypeOK
  <2> QED
    BY <1>2, <2>1, <2>2
<1>8. CASE Send(u)
  BY <1>0, <1>8 DEF Send, KnownBy, TypeOK, AtCache, Recording, Storing, Identity
<1>9. CASE PutEnter(u)
  <2>1. UNCHANGED <<pos, current, located, cp, clientState, shown>>
    BY <1>9 DEF PutEnter
  <2>2. Recording(u) /\ pc'[u] \in {"insert", "replace"}
    BY <1>9 DEF PutEnter, Recording, TypeOK
  <2> QED
    BY <1>2, <2>1, <2>2 DEF Recording, Storing, AtCache
<1>10. CASE Return(u)
  BY <1>10, ReturnFacts DEF KnownBy, AtCache, Recording, Storing
<1>11. CASE UNCHANGED vars \/ \E vp \in Viewports : SetViewport(vp)
  BY <1>2, <1>11 DEF SetViewport, vars, callVars
<1>12. CASE Step(u)
  BY <1>4, <1>5, <1>6, <1>7, <1>8, <1>9, <1>10, <1>12 DEF Step, SendFails,
     LocateFails, Throw, PutExit, Completed
<1> QED
  BY <1>3, <1>11, <1>12 DEF Next, Wait

LEMMA NextAgrees ==
  TypeOK /\ Control /\ Exclusive /\ Known /\ AgreesWithClient /\ [Next]_vars
    => AgreesWithClient'
<1> SUFFICES ASSUME TypeOK, Control, Exclusive, Known, AgreesWithClient, [Next]_vars,
                    NEW v \in Vessels, v \notin tainted', ~raced',
                    \A t \in Threads : Recording(t)' => Identity(t)' # v
             PROVE  clientState'[v] = shown'[v]
  BY DEF AgreesWithClient
<1>0. v \notin tainted /\ ~raced
  BY NextFrame DEF Frame
\* No call for v came to its end: the map and the screen are as they were.
<1>1. ASSUME clientState'[v] = clientState[v], shown'[v] = shown[v],
             \A t \in Threads : Recording(t) /\ Identity(t) = v
                                  => Recording(t)' /\ Identity(t)' = v
      PROVE  clientState'[v] = shown'[v]
  BY <1>0, <1>1 DEF AgreesWithClient
<1>2. ASSUME NEW t \in Threads, Step(t), Identity(t) # v PROVE clientState'[v] = shown'[v]
  <2>1. clientState'[v] = clientState[v] /\ shown'[v] = shown[v]
    BY <1>2, OneVessel
  <2>2. \A u \in Threads \ {t} : Untouched(u)
    BY <1>2, OneThread
  <2> QED
    BY <1>1, <1>2, <2>1, <2>2 DEF Untouched, Recording, Storing, Identity
<1>3. ASSUME NEW t \in Threads, Step(t), Identity(t) = v, ~Recording(t), ~Recording(t)'
      PROVE  clientState'[v] = shown'[v]
  <2>1. clientState' = clientState /\ shown' = shown
    BY <1>3 DEF Step, ProcessDefault, Get, LocateNew, ReadViewport, CheckCache, WritePixel,
                StampViewport, Compare, Send, SendFails,
                LocateFails, Throw, PutEnter, PutExit, Recording, TypeOK
  <2>2. \A u \in Threads \ {t} : Untouched(u)
    BY <1>3, OneThread
  <2> QED
    BY <1>1, <1>3, <2>1, <2>2 DEF Untouched, Recording, Storing, Identity
<1>4. ASSUME NEW t \in Threads, Step(t), Identity(t) = v, Recording(t)
      PROVE  clientState'[v] = shown'[v]
  <2>1. pc[t] \in {"put", "insert", "replace"}
    BY <1>4 DEF Recording, Storing
  <2>2. CASE PutEnter(t)
    <3>1. Recording(t)' /\ Identity(t)' = v
      BY <1>4, <2>2 DEF PutEnter, Recording, Storing, Identity, TypeOK
    <3> QED
      BY <3>1
  <2>3. CASE PutExit(t)
    <3>1. shown[v] = cp[t]
      BY <1>0, <1>4 DEF Known, KnownBy
    <3>2. shown' = shown /\ clientState' = [clientState EXCEPT ![v] = cp[t]]
      BY <1>4, <2>3 DEF PutExit
    <3> QED
      BY <3>1, <3>2 DEF TypeOK
  <2> QED
    BY <1>4, <2>1, <2>2, <2>3 DEF Step, ProcessDefault, Get, LocateNew, ReadViewport,
       CheckCache, WritePixel, StampViewport, Compare, Send, SendFails,
       LocateFails, Throw, Active
<1>5. ASSUME NEW t \in Threads, Step(t), Identity(t) = v, ~Recording(t), Recording(t)'
      PROVE  clientState'[v] = shown'[v]
  <2>1. Send(t)
    BY <1>5, ReturnFacts DEF Step, ProcessDefault, Get, LocateNew, ReadViewport, CheckCache,
       WritePixel, StampViewport, Compare, SendFails,
       LocateFails, Throw, PutEnter, PutExit, Completed,
       Recording, Storing, TypeOK
  <2>2. Identity(t)' = v
    BY <1>5, <2>1 DEF Send, Identity
  <2> QED
    BY <1>5, <2>2
<1>6. CASE UNCHANGED vars \/ \E vp \in Viewports : SetViewport(vp)
  BY <1>1, <1>6 DEF SetViewport, vars, callVars, Recording, Storing, Identity
<1> QED
  BY <1>2, <1>3, <1>4, <1>5, <1>6 DEF Next, Wait

\* A cached pixel is written by WritePixel and stamped by StampViewport, by a thread
\* that has the object as its current one.
LEMMA CacheFrame ==
  ASSUME TypeOK, Control, [Next]_vars,
         NEW i \in 1..Len(cps),
         \A t \in Threads : WritePixel(t) \/ StampViewport(t) => current[t] # i
  PROVE  cps'[i].pixel = cps[i].pixel /\ cps'[i].pixelViewport = cps[i].pixelViewport
<1>0. cps \in Seq(ClientPosition)
  BY DEF TypeOK
<1>1. CASE cps' = cps
  BY <1>1
<1>2. ASSUME NEW t \in Threads, WritePixel(t) \/ StampViewport(t) PROVE cps'[i] = cps[i]
  <2>1. current[t] # i
    BY <1>2
  <2> QED
    BY <1>0, <1>2, <2>1 DEF WritePixel, StampViewport
<1>3. ASSUME NEW t \in Threads, Send(t) PROVE cps'[i] = cps[i]
  BY <1>0, <1>3 DEF Send
<1> QED
  BY <1>1, <1>2, <1>3 DEF Next, Step, Wait, SetViewport, vars, ProcessDefault, Get, LocateNew,
     ReadViewport, CheckCache, Compare, SendFails, LocateFails, Throw, PutEnter, PutExit

\* A position keeps its pixel in a viewport.
LEMMA PixelFrame ==
  ASSUME TypeOK, Frame, NEW i \in 1..Len(cps), NEW index \in 1..Len(viewports)
  PROVE  PixelOf(i, index)' = PixelOf(i, index)
BY DEF Frame, PixelOf

LEMMA NextCached == Safety /\ [Next]_vars => Cached'
<1> SUFFICES ASSUME Safety, [Next]_vars, NEW u \in Threads, Identity(u)' \notin tainted'
             PROVE  CachedBy(u)'
  BY DEF Cached, CachedBy
<1> USE DEF Safety
<1>0. Frame /\ CachedBy(u)
  BY NextFrame DEF Cached
<1>1. ASSUME Untouched(u), pc[u] \in {"stamp", "return"} PROVE CachedBy(u)'
  <2>1. Identity(u) \notin tainted /\ AtCache(u) /\ Active(u)
    BY <1>0, <1>1 DEF Untouched, Identity, Frame, AtCache, Active
  <2>2. current[u] \in 1..Len(cps) /\ using[u] \in 1..Len(viewports)
    BY <1>0, <1>1, <2>1 DEF Control, ControlOf, TypeOK, Frame
  <2>3. PixelOf(current[u], using[u])' = PixelOf(current[u], using[u])
    <3>1. cps'[current[u]].loc = cps[current[u]].loc
          /\ viewports'[using[u]] = viewports[using[u]]
      BY <1>0, <2>2 DEF Frame
    <3> QED
      BY <1>1, <3>1 DEF Untouched, PixelOf
  <2>4. ASSUME NEW t \in Threads, WritePixel(t) \/ StampViewport(t), current[t] = current[u]
        PROVE  FALSE
    <3>1. AtCache(t) /\ Active(t) /\ t # u
      BY <1>1, <2>4 DEF WritePixel, StampViewport, Untouched, AtCache, Active, TypeOK
    <3>2. Identity(t) = Identity(u)
      BY <2>1, <2>2, <2>4, <3>1 DEF Owners
    <3> QED
      BY <2>1, <3>1, <3>2 DEF Exclusive
  <2>5. /\ cps'[current[u]].pixel = cps[current[u]].pixel
        /\ cps'[current[u]].pixelViewport = cps[current[u]].pixelViewport
    BY <2>2, <2>4, CacheFrame
  <2> QED
    BY <1>0, <1>1, <2>1, <2>3, <2>5 DEF CachedBy, Untouched
<1>2. ASSUME NEW t \in Threads, t # u, Step(t) PROVE CachedBy(u)'
  <2>1. Untouched(u)
    BY <1>2, OneThread
  <2> QED
    BY <1>1, <2>1 DEF CachedBy, Untouched
<1>3. CASE WritePixel(u)
  <2>1. current[u] \in 1..Len(cps) /\ cps \in Seq(ClientPosition)
    BY <1>0, <1>3 DEF WritePixel, Control, ControlOf, AtCache, TypeOK, Frame
  <2>2. cps'[current[u]].pixel = PixelOf(current[u], using[u])
    <3>1. cps[current[u]] \in ClientPosition
      BY <2>1
    <3> QED
      BY <1>3, <2>1, <3>1 DEF WritePixel, PixelOf, ClientPosition
  <2>3. cps'[current[u]].loc = cps[current[u]].loc /\ viewports' = viewports
    BY <1>0, <1>3, <2>1 DEF WritePixel, Frame
  <2>4. current'[u] = current[u] /\ using'[u] = using[u] /\ pc'[u] = "stamp"
    BY <1>3 DEF WritePixel, TypeOK
  <2> QED
    BY <2>2, <2>3, <2>4 DEF CachedBy, PixelOf
<1>4. CASE StampViewport(u)
  <2>1. current[u] \in 1..Len(cps) /\ cps \in Seq(ClientPosition)
    BY <1>0, <1>4 DEF StampViewport, Control, ControlOf, AtCache, TypeOK, Frame
  <2>2. cps'[current[u]].pixelViewport = using[u]
    <3>1. cps[current[u]] \in ClientPosition
      BY <2>1
    <3> QED
      BY <1>4, <2>1, <3>1 DEF StampViewport, ClientPosition
  <2>3. current'[u] = current[u] /\ using'[u] = using[u] /\ pc'[u] = "return"
    BY <1>4 DEF StampViewport, TypeOK
  <2> QED
    BY <2>2, <2>3 DEF CachedBy
<1>5. CASE CheckCache(u)
  BY <1>5 DEF CheckCache, CachedBy, TypeOK
<1>6. ASSUME Step(u), ~WritePixel(u), ~StampViewport(u), ~CheckCache(u)
      PROVE  pc'[u] \notin {"stamp", "return"}
  BY <1>6, ReturnFacts DEF Step, ProcessDefault, Get, LocateNew, ReadViewport, Compare, Send,
     SendFails, LocateFails, Throw, PutEnter, PutExit, Completed, TypeOK
<1>7. CASE Step(u)
  BY <1>3, <1>4, <1>5, <1>6, <1>7 DEF CachedBy
<1>8. CASE UNCHANGED vars \/ \E vp \in Viewports : SetViewport(vp)
  BY <1>1, <1>8 DEF SetViewport, vars, callVars, CachedBy, Untouched
<1> QED
  BY <1>2, <1>7, <1>8 DEF Next, Wait

LEMMA NextCacheCoherent == Safety /\ [Next]_vars => CacheCoherent'
<1> SUFFICES ASSUME Safety, [Next]_vars, NEW i \in 1..Len(cps'),
                    cps'[i].vessel \notin tainted', cps'[i].pixelViewport # 0,
                    \A t \in Threads : ~(pc'[t] = "stamp" /\ current'[t] = i)
             PROVE  cps'[i].pixel = PixelOf(i, cps[i].pixelViewport)'
  BY DEF CacheCoherent, PixelOf
<1> USE DEF Safety
<1>0. Frame
  BY NextFrame
<1>1. CASE i \in 1..Len(cps) /\ \A t \in Threads :
                                  WritePixel(t) \/ StampViewport(t) => current[t] # i
  <2>1. cps'[i].pixel = cps[i].pixel /\ cps'[i].pixelViewport = cps[i].pixelViewport
    BY <1>1, CacheFrame
  <2>2. ASSUME NEW t \in Threads, pc[t] = "stamp", current[t] = i PROVE FALSE
    <3>1. ~Untouched(t)
      BY <2>2 DEF Untouched
    <3>2. Step(t)
      BY <3>1, OneThread DEF Next, SetViewport, Wait, vars, callVars, Untouched
    <3>3. StampViewport(t)
      BY <2>2, <3>2 DEF Step, ProcessDefault, Active, Get, LocateNew, ReadViewport, CheckCache,
         WritePixel, Compare, Send, SendFails,
         LocateFails, Throw, PutEnter, PutExit, Storing
    <3> QED
      BY <1>1, <2>2, <3>3
  <2>3. cps[i].vessel \notin tainted
    BY <1>0, <1>1 DEF Frame
  <2>4. cps[i].pixel = PixelOf(i, cps[i].pixelViewport)
    BY <1>1, <2>1, <2>2, <2>3 DEF CacheCoherent, PixelOf
  <2>5. cps[i].pixelViewport \in 1..Len(viewports)
    BY <1>0, <1>1, <2>1 DEF TypeOK, Frame
  <2>6. cps'[i].loc = cps[i].loc
        /\ viewports'[cps[i].pixelViewport] = viewports[cps[i].pixelViewport]
    BY <1>0, <1>1, <2>5 DEF Frame
  <2> QED
    BY <2>1, <2>4, <2>6 DEF PixelOf
<1>2. ASSUME NEW t \in Threads, WritePixel(t), current[t] = i PROVE FALSE
  BY <1>2 DEF WritePixel, TypeOK
<1>3. ASSUME NEW t \in Threads, StampViewport(t), current[t] = i, i \in 1..Len(cps)
      PROVE  cps'[i].pixel = PixelOf(i, cps[i].pixelViewport)'
  <2>1. cps \in Seq(ClientPosition) /\ cps[i] \in ClientPosition
    BY <1>3 DEF TypeOK
  <2>2. cps'[i].pixel = cps[i].pixel /\ cps'[i].pixelViewport = using[t]
    BY <1>3, <2>1 DEF StampViewport, ClientPosition
  <2>3. Identity(t) \notin tainted
    <3>1. cps[i].vessel = Identity(t)
      BY <1>0, <1>3 DEF StampViewport, Owners, AtCache, Frame
    <3> QED
      BY <1>0, <1>3, <3>1 DEF Frame
  <2>4. cps[i].pixel = PixelOf(i, using[t])
    BY <1>3, <2>3 DEF StampViewport, Cached, CachedBy
  <2>5. cps'[i].loc = cps[i].loc /\ viewports' = viewports
    BY <1>0, <1>3 DEF StampViewport, Frame
  <2> QED
    BY <2>2, <2>4, <2>5 DEF PixelOf
<1>4. ASSUME i \notin 1..Len(cps) PROVE FALSE
  <2>1. PICK t \in Threads : Send(t)
    <3>1. Len(cps') # Len(cps)
      BY <1>4
    <3>2. ASSUME NEW t \in Threads, WritePixel(t) \/ StampViewport(t) PROVE FALSE
      BY <3>1, <3>2 DEF WritePixel, StampViewport, TypeOK
    <3> QED
      BY <3>1, <3>2 DEF Next, Step, Wait, SetViewport, vars, ProcessDefault, Get, LocateNew,
         ReadViewport, CheckCache, Compare, SendFails, LocateFails, Throw, PutEnter, PutExit
  <2>2. cps'[i] = NewClientPosition(pos[t])
    <3>1. cps \in Seq(ClientPosition) /\ cps' = Append(cps, NewClientPosition(pos[t]))
      BY <2>1 DEF Send, TypeOK
    <3>2. i = Len(cps) + 1
      BY <1>4, <3>1
    <3> QED
      BY <3>1, <3>2
  <2> QED
    BY <2>2 DEF NewClientPosition
<1> QED
  BY <1>1, <1>2, <1>3, <1>4

LEMMA SamePosition ==
  /\ \A h \in Int : FuzzyEquals(h, h, HEADING_TOLERANCE)
  /\ \A px \in ClientPixel : ~IsDifferentThan(px, px)
BY DEF FuzzyEquals, HEADING_TOLERANCE, IsDifferentThan, PIXEL_TOLERANCE, Distance, ClientPixel

\* The pixel locatePixel hands out is the one of the viewport the thread uses.
LEMMA ReturnedPixel ==
  ASSUME Safety, NEW t \in Threads, pc[t] = "return", Identity(t) \notin tainted
  PROVE  cps[current[t]].pixel = PixelOf(current[t], using[t])
<1> USE DEF Safety
<1>1. /\ AtCache(t) /\ Active(t) /\ current[t] \in 1..Len(cps)
      /\ using[t] \in 1..Len(viewports)
  BY DEF AtCache, Active, Control, ControlOf, TypeOK
<1>2. cps[current[t]].pixelViewport = using[t] /\ cps[current[t]].vessel = Identity(t)
  BY <1>1 DEF Cached, CachedBy, Owners
<1>3. ASSUME NEW w \in Threads, pc[w] = "stamp", current[w] = current[t] PROVE FALSE
  <2>1. w # t /\ AtCache(w) /\ Active(w)
    BY <1>3 DEF AtCache, Active
  <2>2. Identity(w) = Identity(t)
    BY <1>1, <1>2, <1>3, <2>1 DEF Owners
  <2> QED
    BY <1>1, <2>1, <2>2 DEF Exclusive
<1> QED
  BY <1>1, <1>2, <1>3 DEF CacheCoherent, PixelOf

\* Whoever compares pixels while the viewport of its decision holds compares with
\* where the browser shows the vessel.
LEMMA ComparesPicture ==
  ASSUME Safety, NEW t \in Threads, pc[t] = "return", located[t] = Len(viewports),
         Identity(t) \notin tainted, ~raced
  PROVE  /\ current[t] = shown[Identity(t)] /\ current[t] # 0
         /\ cps[current[t]].pixel = PixelOf(current[t], located[t])
         /\ NewPixel(t).visible => FuzzyEquals(pos[t].hdg, cps[current[t]].hdg, HEADING_TOLERANCE)
<1> USE DEF Safety
<1>1. /\ AtCache(t) /\ current[t] = shown[Identity(t)]
      /\ NewPixel(t).visible => FuzzyEquals(pos[t].hdg, cps[current[t]].hdg, HEADING_TOLERANCE)
  BY DEF AtCache, Known, KnownBy
<1>2. /\ current[t] # 0 /\ Len(viewports) \in Nat
      /\ using[t] \in 0..Len(viewports) /\ located[t] <= using[t]
  BY <1>1 DEF Control, ControlOf, TypeOK
<1>3. using[t] = located[t]
  BY <1>2
<1> QED
  BY <1>1, <1>2, <1>3, ReturnedPixel

LEMMA NextFaithful == Safety /\ [Next]_vars => Faithful'
<1> SUFFICES ASSUME Safety, [Next]_vars, NEW v \in Vessels, v \notin tainted', ~raced',
                    Quiet(v)', checked'[v] # 0
             PROVE  Displays(v, latest[v], viewports[checked[v]])'
  BY DEF Faithful
<1> USE DEF Safety
<1>0. Frame /\ v \notin tainted /\ ~raced
  BY NextFrame DEF Frame
\* No report of v was processed to its end.
<1>1. ASSUME UNCHANGED <<shown[v], latest[v], checked[v]>>, Quiet(v)
      PROVE  Displays(v, latest[v], viewports[checked[v]])'
  <2>1. Displays(v, latest[v], viewports[checked[v]])
    BY <1>0, <1>1 DEF Faithful
  <2>2. viewports'[checked[v]] = viewports[checked[v]]
    BY <1>0, <1>1 DEF Frame, TypeOK
  <2>3. shown[v] # 0 => /\ cps'[shown[v]].loc = cps[shown[v]].loc
                        /\ cps'[shown[v]].hdg = cps[shown[v]].hdg
    BY <1>0 DEF Frame, TypeOK
  <2> QED
    BY <1>1, <2>1, <2>2, <2>3 DEF Displays
<1>2. ASSUME NEW t \in Threads, Step(t), Identity(t) # v \/ ~Active(t)
      PROVE  Displays(v, latest[v], viewports[checked[v]])'
  <2>1. Quiet(v)
    <3>1. \A u \in Threads \ {t} : Untouched(u)
      BY <1>2, OneThread
    <3> QED
      BY <1>2, <3>1 DEF Quiet, Untouched, Active, Identity
  <2>2. shown'[v] = shown[v]
    BY <1>2, OneVessel
  <2>4. latest'[v] = latest[v] /\ checked'[v] = checked[v]
    <3>1. CASE ~Active(t)
      BY <1>2, <3>1 DEF Step, Active, Get, LocateNew, ReadViewport, CheckCache, WritePixel,
         StampViewport, Compare, Send, SendFails,
         LocateFails, Throw, PutEnter, PutExit, Storing, ProcessDefault
    <3>2. CASE Identity(t) # v
      BY <1>2, <3>2 DEF Step, Get, LocateNew, ReadViewport, CheckCache, WritePixel,
         StampViewport, Compare, Send, SendFails,
         LocateFails, Throw, PutEnter, PutExit, ProcessDefault,
         Completed, historyVars, TypeOK
    <3> QED
      BY <1>2, <3>1, <3>2
  <2> QED
    BY <1>1, <2>1, <2>2, <2>4
\* The call that processed the last report of v ends.
<1>3. ASSUME NEW t \in Threads, Step(t), Identity(t) = v, Active(t)
      PROVE  Displays(v, latest[v], viewports[checked[v]])'
  <2>1. Return(t)
    <3>1. CASE Active(t)' /\ pos'[t] = pos[t]
      BY <1>3, <3>1 DEF Quiet, Identity
    <3> QED
      BY <1>3, <3>1 DEF Step, ProcessDefault, Get, LocateNew, ReadViewport, CheckCache,
         WritePixel, StampViewport, Compare, Send, SendFails,
         LocateFails, Throw, PutEnter, PutExit, Completed,
         Active, TypeOK
  <2>2. ~SendFails(t) /\ ~LocateFails(t)
    BY <1>3 DEF SendFails, LocateFails, Throw, TypeOK
  <2>8. pc'[t] = "idle" /\ pc \in [Threads -> ActivePC \cup {"idle"}]
        /\ checked \in [Vessels -> 0..Len(viewports)]
    BY <2>1, ReturnFacts DEF TypeOK
  <2> DEFINE index == Len(viewports)
  <2>3. /\ Completed(t, index) /\ index \in 1..Len(viewports)
        /\ LocateNew(t) \/ (located[t] = index /\ (Compare(t) \/ PutExit(t)))
    <3>1. CASE LocateNew(t)
      <4>1. Completed(t, index)
        BY <2>8, <3>1 DEF LocateNew
      <4>2. index # 0
        BY <1>3, <2>8, <4>1 DEF Completed
      <4> QED
        BY <1>0, <3>1, <4>1, <4>2 DEF Frame
    <3>2. CASE Compare(t) \/ PutExit(t)
      <4>1. Completed(t, located[t])
        BY <2>8, <3>2 DEF Compare, PutExit
      <4>2. located[t] = index /\ located[t] # 0
        BY <1>3, <2>8, <4>1 DEF Completed
      <4> QED
        BY <1>0, <3>2, <4>1, <4>2 DEF Frame
    <3> QED
      BY <1>3, <2>8, <2>2, <3>1, <3>2 DEF Step, ProcessDefault, Get, ReadViewport,
         CheckCache, WritePixel, StampViewport, Send, PutEnter
  <2>4. /\ latest'[v] = pos[t] /\ checked'[v] = index
        /\ shown' = shown /\ cps' = cps /\ viewports' = viewports
    BY <1>3, <2>3 DEF Completed, LocateNew, Compare, PutExit, TypeOK
  <2> SUFFICES Displays(v, pos[t], viewports[index])
    BY <2>4 DEF Displays
  <2> DEFINE new == LocatePixel(viewports[index], pos[t].loc)
  <2>5. CASE LocateNew(t)   \* outside the screen, and the browser does not have it
    <3>1. ~new.visible /\ current[t] = 0
      BY <2>8, <2>5 DEF LocateNew
    <3>2. shown[v] = 0
      BY <1>0, <1>3, <2>5, <3>1 DEF LocateNew, Known, KnownBy
    <3> QED
      BY <3>1, <3>2 DEF Displays
  <2>6. CASE Compare(t) /\ located[t] = index   \* the browser would not see it
    <3>1. /\ current[t] # 0 /\ current[t] = shown[v]
          /\ cps[shown[v]].pixel = LocatePixel(viewports[index], cps[shown[v]].loc)
          /\ new.visible => FuzzyEquals(pos[t].hdg, cps[shown[v]].hdg, HEADING_TOLERANCE)
      BY <1>0, <1>3, <2>6, ComparesPicture DEF Compare, NewPixel, PixelOf
    <3>2. ~WouldBeSeen(new, cps[shown[v]].pixel)
      BY <2>8, <2>6, <3>1 DEF Compare, NewPixel
    <3> QED
      BY <3>1, <3>2 DEF Displays, WouldBeSeen
  <2>7. CASE PutExit(t)   \* it was sent
    <3>1. shown[v] = cp[t] /\ shown[v] # 0
          /\ cps[shown[v]].loc = pos[t].loc /\ cps[shown[v]].hdg = pos[t].hdg
      BY <1>0, <1>3, <2>7 DEF PutExit, Recording, Known, KnownBy, Owners, Control, ControlOf
    <3>2. pos[t].hdg \in Int /\ new \in ClientPixel
      <4>1. pos[t] \in Position /\ viewports[index] \in Viewport
        BY PositionsAssumption, ViewportsAssumption, <2>3 DEF TypeOK
      <4> QED
        BY <4>1, LocatePixelType DEF Position
    <3> QED
      BY <3>1, <3>2, SamePosition DEF Displays
  <2> QED
    BY <2>3, <2>5, <2>6, <2>7
<1>4. CASE UNCHANGED vars \/ \E vp \in Viewports : SetViewport(vp)
  <2>1. UNCHANGED <<shown, latest, checked, pc, pos>>
    BY <1>4 DEF SetViewport, vars, callVars, historyVars
  <2>2. Quiet(v)
    BY <2>1 DEF Quiet, Active, Identity
  <2> QED
    BY <1>1, <2>1, <2>2
<1> QED
  BY <1>2, <1>3, <1>4 DEF Next, Wait

LEMMA NextSafety == Safety /\ [Next]_vars => Safety'
BY NextTypeOK, NextControl, NextExclusive, NextOwners, NextKnown, NextAgrees, NextCached,
   NextCacheCoherent, NextFaithful DEF Safety

LEMMA SafetyInvariant == Spec => []Safety
BY InitSafety, NextSafety, PTL DEF Spec

\* What the view believes the browser shows of a vessel is what it shows, between calls.
THEOREM ViewAgreesWithClient == Spec => []AgreesWithClient
<1>1. Safety => AgreesWithClient
  BY DEF Safety
<1> QED
  BY <1>1, SafetyInvariant, PTL

\* A cached pixel is where its viewport puts the position.
THEOREM ViewCacheCoherent == Spec => []CacheCoherent
<1>1. Safety => CacheCoherent
  BY DEF Safety
<1> QED
  BY <1>1, SafetyInvariant, PTL

\* The pixel a thread compares with is of a viewport not older than the one it
\* computed the new pixel in.
THEOREM ViewComparedInView == Spec => []ComparedInView
<1>1. Safety => ComparedInView
  <2> SUFFICES ASSUME Safety, NEW t \in Threads, pc[t] = "return", Identity(t) \notin tainted
               PROVE  \E index \in located[t]..Len(viewports) :
                        cps[current[t]].pixel = PixelOf(current[t], index)
    BY DEF ComparedInView, PixelOf
  <2>1. using[t] \in located[t]..Len(viewports)
    BY DEF Safety, TypeOK, Control, ControlOf, AtCache
  <2>2. cps[current[t]].pixel = PixelOf(current[t], using[t])
    BY ReturnedPixel
  <2> QED
    BY <2>1, <2>2
<1> QED
  BY <1>1, SafetyInvariant, PTL

\* The browser displays the last report of each vessel, in the viewport it was
\* processed in, to within the tolerances.
THEOREM ViewFaithful == Spec => []Faithful
<1>1. Safety => Faithful
  BY DEF Safety
<1> QED
  BY <1>1, SafetyInvariant, PTL

\* A thread about to send while the viewport of its decision holds: the browser
\* would see the difference.
DecidedBy(t) ==
  (/\ pc[t] = "send" /\ Identity(t) \notin tainted /\ ~raced
   /\ located[t] = Len(viewports))
    => ~Displays(Identity(t), pos[t], viewports[located[t]])

Decided == \A t \in Threads : DecidedBy(t)

LEMMA InitDecided == Init => Decided
BY DEF Init, Decided, DecidedBy

LEMMA NextDecided == Safety /\ Decided /\ [Next]_vars => Decided'
<1> SUFFICES ASSUME Safety, Decided, [Next]_vars, NEW u \in Threads,
                    pc'[u] = "send", Identity(u)' \notin tainted', ~raced',
                    located'[u] = Len(viewports')
             PROVE  ~Displays(Identity(u), pos[u], viewports[located[u]])'
  BY DEF Decided, DecidedBy
<1> USE DEF Safety
<1>0. /\ Frame /\ ~raced /\ DecidedBy(u)
      /\ pos[u] \in Positions /\ Identity(u) \in Vessels
  <2>1. pos[u] \in Positions /\ Identity(u) \in Vessels
    BY PositionsAssumption DEF TypeOK, Identity, Position
  <2> QED
    BY <2>1, NextFrame DEF Frame, Decided
\* The report was about to be sent already: the screen shows what it showed.
<1>1. ASSUME UNCHANGED <<pc[u], pos[u], located[u]>>, shown'[Identity(u)] = shown[Identity(u)]
      PROVE  ~Displays(Identity(u), pos[u], viewports[located[u]])'
  <2>1. Identity(u)' = Identity(u) /\ Identity(u) \notin tainted
    BY <1>0, <1>1 DEF Identity, Frame
  <2>2. located[u] = Len(viewports) /\ located[u] \in 1..Len(viewports)
    BY <1>0, <1>1 DEF Frame, TypeOK, Control, ControlOf
  <2>3. ~Displays(Identity(u), pos[u], viewports[located[u]])
    BY <1>0, <1>1, <2>1, <2>2 DEF DecidedBy
  <2> DEFINE v == Identity(u)
             p == pos[u]
             index == located[u]
  <2>4. v \in Vessels /\ p \in Positions /\ index \in 1..Len(viewports) /\ shown'[v] = shown[v]
    BY <1>0, <1>1, <2>2
  <2>5. pos'[u] = p /\ located'[u] = index /\ Identity(u)' = v
    BY <1>1, <2>1
  <2>6. ~Displays(v, p, viewports[index])
    BY <2>3
  <2> HIDE DEF v, p, index
  <2>7. viewports'[index] = viewports[index]
    BY <1>0, <2>4 DEF Frame
  <2>8. shown[v] # 0 => /\ cps'[shown[v]].loc = cps[shown[v]].loc
                        /\ cps'[shown[v]].hdg = cps[shown[v]].hdg
    <3>1. shown[v] \in 0..Len(cps)
      BY <2>4 DEF TypeOK
    <3>2. \A i \in 1..Len(cps) : cps'[i].loc = cps[i].loc /\ cps'[i].hdg = cps[i].hdg
      BY <1>0 DEF Frame
    <3>3. Len(cps) \in Nat
      BY <1>0 DEF Frame
    <3> HIDE DEF Safety
    <3> QED
      BY <3>1, <3>2, <3>3
  <2> QED
    BY <2>4, <2>5, <2>6, <2>7, <2>8 DEF Displays
<1>2. ASSUME NEW t \in Threads \ {u}, Step(t)
      PROVE  ~Displays(Identity(u), pos[u], viewports[located[u]])'
  <2>1. UNCHANGED <<pc[u], pos[u], located[u]>>
    BY <1>2, OneThread DEF Untouched
  <2>2. Identity(u) \notin tainted /\ Active(u)
    BY <1>0, <2>1 DEF Identity, Frame, Active
  <2>3. Active(t) => Identity(t) # Identity(u)
    BY <1>2, <2>2 DEF Exclusive
  <2>4. shown'[Identity(u)] = shown[Identity(u)]
    BY <1>0, <1>2, <2>3, OneVessel
  <2> QED
    BY <1>1, <2>1, <2>4
\* It is visible, and the browser does not have the vessel or has it turned.
<1>3. CASE LocateNew(u)
  <2>1. /\ UNCHANGED <<shown, pos, tainted, cps, viewports>>
        /\ located'[u] = Len(viewports) /\ pc[u] = "locate"
        /\ LocatePixel(viewports[Len(viewports)], pos[u].loc).visible
        /\ MustSend(pos[u], current[u])
    <3>1. ~Return(u)
      BY ReturnFacts
    <3> QED
      BY <1>3, <3>1 DEF LocateNew, Completed, TypeOK
  <2>2. Identity(u)' = Identity(u) /\ Identity(u) \notin tainted
    BY <2>1 DEF Identity
  <2>3. current[u] = shown[Identity(u)]
    BY <1>0, <2>1, <2>2 DEF Known, KnownBy
  <2> QED
    BY <2>1, <2>2, <2>3 DEF Displays, MustSend
\* The pixels differ, and the one compared with is where the browser shows the vessel.
<1>4. CASE Compare(u)
  <2>1. /\ UNCHANGED <<shown, pos, tainted, cps, viewports>>
        /\ located'[u] = located[u] /\ pc[u] = "return"
        /\ WouldBeSeen(NewPixel(u), cps[current[u]].pixel)
    <3>1. ~Return(u)
      BY ReturnFacts
    <3> QED
      BY <1>4, <3>1 DEF Compare, Completed, TypeOK
  <2>2. Identity(u)' = Identity(u) /\ Identity(u) \notin tainted /\ located[u] = Len(viewports)
    BY <2>1 DEF Identity
  <2>3. /\ current[u] = shown[Identity(u)] /\ current[u] # 0
        /\ cps[current[u]].pixel = PixelOf(current[u], located[u])
    BY <1>0, <2>1, <2>2, ComparesPicture
  <2> QED
    BY <2>1, <2>2, <2>3 DEF Displays, WouldBeSeen, NewPixel, PixelOf
<1>5. ASSUME Step(u), ~LocateNew(u), ~Compare(u) PROVE FALSE
  BY <1>5, ReturnFacts DEF Step, ProcessDefault, Get, ReadViewport, CheckCache, WritePixel,
     StampViewport, Send, SendFails, LocateFails, Throw, PutEnter, PutExit, Completed, TypeOK
<1>6. CASE UNCHANGED vars \/ \E vp \in Viewports : SetViewport(vp)
  <2>1. UNCHANGED <<shown, pc, pos, located>>
    BY <1>6 DEF SetViewport, vars, callVars
  <2> QED
    BY <1>1, <2>1
<1> QED
  BY <1>2, <1>3, <1>4, <1>5, <1>6 DEF Next, Wait

\* What is sent, while one viewport holds, changes the picture of the browser.
THEOREM ViewNoRedundantMessage == Spec => NoRedundantMessage
<1>1. Init => Safety /\ Decided
  BY InitSafety, InitDecided
<1>2. Safety /\ Decided /\ [Next]_vars => (Safety /\ Decided)'
  BY NextSafety, NextDecided
<1>3. Decided => \A t \in Threads :
        (/\ pc[t] = "send" /\ pc'[t] = "put"
         /\ Identity(t) \notin tainted /\ ~raced
         /\ located[t] = Len(viewports))
          => ~Displays(Identity(t), pos[t], viewports[located[t]])
  BY DEF Decided, DecidedBy
<1> QED
  BY <1>1, <1>2, <1>3, PTL DEF Spec, NoRedundantMessage
=============================================================================
