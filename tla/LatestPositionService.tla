------------------------ MODULE LatestPositionService ------------------------
(***************************************************************************)
(* DefaultLatestPositionService, its MemoryLatestPositionProfile objects   *)
(* and DefaultEnrichmentService: how a position report reaches the views.  *)
(*                                                                         *)
(* A report is enriched once and offered to every profile in parallel; a   *)
(* profile keeps the newest report of each vessel (positionMap, under its  *)
(* monitor) and hands what it accepts to its views, outside the monitor.   *)
(* The service holds profiles by weak references and a profile its views   *)
(* by weak keys: a view lives as long as the HTTP session that holds it,   *)
(* and the view's own field is all that keeps its profile alive.           *)
(***************************************************************************)
EXTENDS Integers, FiniteSets

CONSTANTS
  Ids,          \* identifiers a report carries (MMSI, IMO, IR)
  Vessels,      \* identities; the null of an unknown identifier is one of them
  Unresolved,   \* the identity of a report nobody asked for yet
  Timestamps,   \* timestamps of reports
  Timeout,      \* timeoutMilliseconds
  Names,        \* names of profiles that exist
  UnknownNames, \* names ProfileService does not know
  ResizeAt,     \* size at which the WeakHashMap of a profile's views is resized (12)
  MaxReports, MaxProfiles, MaxViews, MaxClock, MaxReassigned   \* bounds

Reports == 1..MaxReports     \* the reports processed, in the order they arrive
Profiles == 1..MaxProfiles   \* the profile objects created, in that order
ViewIds == 0..(MaxViews - 1)
Position == [id : Ids, ts : Timestamps]

ASSUME UnresolvedAssumption == Unresolved \notin Vessels
ASSUME NonEmptyAssumption == Position # {} /\ Names # {}
ASSUME TimeAssumption == Timestamps \subseteq Int /\ Timeout \in Int
ASSUME BoundsAssumption ==
  /\ MaxReports \in Nat /\ MaxProfiles \in Nat /\ MaxViews \in Nat
  /\ MaxClock \in Nat /\ MaxReassigned \in Nat /\ ResizeAt \in Nat

VARIABLES
  clock,          \* System.currentTimeMillis
  latestVessel,   \* identity stores: identifier -> the vessel that has it now
  reassigned,     \* number of changes of latestVessel, for the bound
  position,       \* report -> the position it carries
  identity,       \* report -> identityCache of its EnrichedPosition
  reports,        \* number of reports so far
  nameOf,         \* profile -> the name it was loaded for
  profiles,       \* number of profile objects so far
  profileCache,   \* name -> the live profile of that name, 0 if none
  positionMap,    \* profile -> vessel -> newest report accepted, 0 if none
  monitor,        \* profile -> the report whose thread is in testNewer, 0 if free
  task,           \* report -> profile -> where the report is in that profile
  remaining,      \* report -> profile -> views the traversal has not reached
  disturbed,      \* pairs <<report, profile>> whose traversal saw a registration
  viewIdSequence, \* the next view id
  profileOf,      \* view -> the profile it belongs to, 0 if never constructed
  registering,    \* the view that start() is constructing, -1 if none
  views,          \* views in the WeakHashMap of their profile
  held,           \* views reachable from a session or from start()
  last            \* view -> vessel -> the last report it processed, 0 if none

(* History, read by no action.                                             *)
VARIABLES
  overlapped,     \* <<profile, vessel>>: two accepted reports on the way at once
  missed,         \* <<report, profile>>: the traversal was cut short
  audience        \* report -> profile -> views when the traversal began

identityVars == <<latestVessel, reassigned>>
reportVars == <<position, reports>>
profileVars == <<nameOf, profiles, profileCache>>
viewVars == <<viewIdSequence, profileOf, registering, views, held>>
historyVars == <<overlapped, missed, audience>>
vars == <<clock, identityVars, reportVars, identity, profileVars, positionMap,
          monitor, task, remaining, disturbed, viewVars, last, historyVars>>

\* Where the task of one report in one profile is.
Accepted == {"accepted", "dispatch"}
Running == {"offered", "timely", "newer", "older"} \cup Accepted
Finished == {"none", "done", "failed", "abandoned"}

Set(f, r, p, value) == [f EXCEPT ![r][p] = value]

Init ==
  /\ clock = 0
  /\ latestVessel \in [Ids -> Vessels]
  /\ reassigned = 0
  /\ position = [r \in Reports |-> CHOOSE q \in Position : TRUE]
  /\ identity = [r \in Reports |-> Unresolved]
  /\ reports = 0
  /\ nameOf = [p \in Profiles |-> CHOOSE n \in Names : TRUE]
  /\ profiles = 0
  /\ profileCache = [n \in Names |-> 0]
  /\ positionMap = [p \in Profiles |-> [v \in Vessels |-> 0]]
  /\ monitor = [p \in Profiles |-> 0]
  /\ task = [r \in Reports |-> [p \in Profiles |-> "none"]]
  /\ remaining = [r \in Reports |-> [p \in Profiles |-> {}]]
  /\ disturbed = {}
  /\ viewIdSequence = 0
  /\ profileOf = [x \in ViewIds |-> 0]
  /\ registering = -1
  /\ views = {}
  /\ held = {}
  /\ last = [x \in ViewIds |-> [v \in Vessels |-> 0]]
  /\ overlapped = {}
  /\ missed = {}
  /\ audience = [r \in Reports |-> [p \in Profiles |-> {}]]
-----------------------------------------------------------------------------
(* The surroundings: time, and the identity stores.                        *)
Tick ==
  /\ clock < MaxClock
  /\ clock' = clock + 1
  /\ UNCHANGED <<identityVars, reportVars, identity, profileVars, positionMap,
                 monitor, task, remaining, disturbed, viewVars, last, historyVars>>

ReassignIdentity(i, v) ==
  /\ reassigned < MaxReassigned
  /\ latestVessel[i] # v
  /\ latestVessel' = [latestVessel EXCEPT ![i] = v]
  /\ reassigned' = reassigned + 1
  /\ UNCHANGED <<clock, reportVars, identity, profileVars, positionMap, monitor,
                 task, remaining, disturbed, viewVars, last, historyVars>>
-----------------------------------------------------------------------------
(* forEachProfile.  The profiles are those in the cache when the stream is *)
(* traversed; without any, the report is dropped (a stuttering step).      *)
ProcessPosition(q) ==
  LET r == reports + 1
      present == {profileCache[n] : n \in Names} \ {0}
  IN  /\ r \in Reports
      /\ present # {}
      /\ reports' = r
      /\ position' = [position EXCEPT ![r] = q]
      /\ task' = [task EXCEPT ![r] = [p \in Profiles |->
                                        IF p \in present THEN "offered" ELSE "none"]]
      /\ UNCHANGED <<clock, identityVars, identity, profileVars, positionMap,
                     monitor, remaining, disturbed, viewVars, last, historyVars>>

\* EnrichedPositionFilter.ALL, the filter of the one profile that exists.
PositionFilter(r, p) == TRUE

\* testTimeout and the filter; the test is strict.
TestTimeout(r, p) ==
  /\ task[r][p] = "offered"
  /\ task' = Set(task, r, p,
                 IF position[r].ts > clock - Timeout /\ PositionFilter(r, p)
                 THEN "timely" ELSE "done")
  /\ UNCHANGED <<clock, identityVars, reportVars, identity, profileVars,
                 positionMap, monitor, remaining, disturbed, viewVars, last,
                 historyVars>>

(* getIdentity: the store is asked once per report, whichever profile      *)
(* comes first.                                                            *)
\* Mutant: the identity is not cached.
GetIdentityAgain(r) == latestVessel[position[r].id]

GetIdentity(r) ==
  IF identity[r] = Unresolved THEN latestVessel[position[r].id] ELSE identity[r]

Newer(r, currentLatest) ==
  currentLatest = 0 \/ position[r].ts > position[currentLatest].ts

(* testNewer, synchronized: the get and the comparison, then the put.      *)
\* Mutant: testNewer is not synchronized.
EnterUnsynchronized(r, p) ==
  LET v == GetIdentity(r)
  IN  /\ task[r][p] = "timely"
      /\ identity' = [identity EXCEPT ![r] = v]
      /\ task' = Set(task, r, p, IF Newer(r, positionMap[p][v]) THEN "newer" ELSE "older")
      /\ UNCHANGED <<clock, identityVars, reportVars, profileVars, positionMap, monitor,
                     remaining, disturbed, viewVars, last, historyVars>>

\* Mutant: the identity found is not kept.
EnterForgetful(r, p) ==
  LET v == GetIdentity(r)
  IN  /\ task[r][p] = "timely"
      /\ monitor[p] = 0
      /\ monitor' = [monitor EXCEPT ![p] = r]
      /\ task' = Set(task, r, p, IF Newer(r, positionMap[p][v]) THEN "newer" ELSE "older")
      /\ UNCHANGED <<clock, identityVars, reportVars, identity, profileVars,
                     positionMap, remaining, disturbed, viewVars, last, historyVars>>

EnterTestNewer(r, p) ==
  LET v == GetIdentity(r)
  IN  /\ task[r][p] = "timely"
      /\ monitor[p] = 0
      /\ monitor' = [monitor EXCEPT ![p] = r]
      /\ identity' = [identity EXCEPT ![r] = v]
      /\ task' = Set(task, r, p, IF Newer(r, positionMap[p][v]) THEN "newer" ELSE "older")
      /\ UNCHANGED <<clock, identityVars, reportVars, profileVars, positionMap,
                     remaining, disturbed, viewVars, last, historyVars>>

\* Reports of the vessel that were accepted and are still being handed out.
Rivals(r, p, v) ==
  {s \in Reports \ {r} : task[s][p] \in Accepted /\ identity[s] = v}

\* Mutant: an older report is handed out too.
ExitAlwaysTrue(r, p) ==
  LET v == GetIdentity(r)
  IN  /\ task[r][p] \in {"newer", "older"}
      /\ monitor' = [monitor EXCEPT ![p] = 0]
      /\ positionMap' = IF task[r][p] = "older" THEN positionMap
                        ELSE [positionMap EXCEPT ![p][v] = r]
      /\ task' = Set(task, r, p, "accepted")
      /\ overlapped' = IF Rivals(r, p, v) = {} THEN overlapped
                       ELSE overlapped \cup {<<p, v>>}
      /\ UNCHANGED <<clock, identityVars, reportVars, identity, profileVars,
                     remaining, disturbed, viewVars, last, missed, audience>>

ExitTestNewer(r, p) ==
  LET v == GetIdentity(r)
  IN  /\ monitor' = [monitor EXCEPT ![p] = 0]
      /\ \/ /\ task[r][p] = "newer"
            /\ positionMap' = [positionMap EXCEPT ![p][v] = r]
            /\ task' = Set(task, r, p, "accepted")
            /\ overlapped' = IF Rivals(r, p, v) = {} THEN overlapped
                             ELSE overlapped \cup {<<p, v>>}
         \/ /\ task[r][p] = "older"
            /\ task' = Set(task, r, p, "done")
            /\ UNCHANGED <<positionMap, overlapped>>
      /\ UNCHANGED <<clock, identityVars, reportVars, identity, profileVars,
                     remaining, disturbed, viewVars, last, missed, audience>>

(* views.stream().forEach: a traversal of the WeakHashMap, one view after  *)
(* the other, in the order of the buckets.                                 *)
ViewsOf(p) == {x \in views : profileOf[x] = p}

\* Mutant: a profile without a view waits for one.
BeginWithViews(r, p) ==
  /\ task[r][p] = "accepted"
  /\ ViewsOf(p) # {}
  /\ task' = Set(task, r, p, "dispatch")
  /\ remaining' = Set(remaining, r, p, ViewsOf(p))
  /\ audience' = Set(audience, r, p, ViewsOf(p))
  /\ UNCHANGED <<clock, identityVars, reportVars, identity, profileVars,
                 positionMap, monitor, disturbed, viewVars, last, overlapped,
                 missed>>

BeginDispatch(r, p) ==
  /\ task[r][p] = "accepted"
  /\ task' = Set(task, r, p, "dispatch")
  /\ remaining' = Set(remaining, r, p, ViewsOf(p))
  /\ audience' = Set(audience, r, p, ViewsOf(p))
  /\ UNCHANGED <<clock, identityVars, reportVars, identity, profileVars,
                 positionMap, monitor, disturbed, viewVars, last, overlapped,
                 missed>>

\* One view processes the report.
Deliver(r, p, x) ==
  /\ task[r][p] = "dispatch"
  /\ x \in remaining[r][p]
  /\ last' = [last EXCEPT ![x][identity[r]] = r]
  /\ remaining' = Set(remaining, r, p, remaining[r][p] \ {x})
  /\ UNCHANGED <<clock, identityVars, reportVars, identity, profileVars,
                 positionMap, monitor, task, disturbed, viewVars, historyVars>>

\* A view throws: the exception ends the traversal, the views left get nothing.
ViewThrows(r, p) ==
  /\ task[r][p] = "dispatch"
  /\ remaining[r][p] # {}
  /\ task' = Set(task, r, p, "failed")
  /\ remaining' = Set(remaining, r, p, {})
  /\ disturbed' = disturbed \ {<<r, p>>}
  /\ missed' = missed \cup {<<r, p>>}
  /\ UNCHANGED <<clock, identityVars, reportVars, identity, profileVars,
                 positionMap, monitor, viewVars, last, overlapped, audience>>

\* The traversal ends; it throws now if a view was registered meanwhile.
EndDispatch(r, p) ==
  /\ task[r][p] = "dispatch"
  /\ remaining[r][p] = {}
  /\ task' = Set(task, r, p, IF <<r, p>> \in disturbed THEN "failed" ELSE "done")
  /\ disturbed' = disturbed \ {<<r, p>>}
  /\ UNCHANGED <<clock, identityVars, reportVars, identity, profileVars,
                 positionMap, monitor, remaining, viewVars, last, historyVars>>

\* An exception in one profile may keep the parallel stream from the others.
Abandon(r, p) ==
  /\ task[r][p] = "offered"
  /\ \E o \in Profiles : task[r][o] = "failed"
  /\ task' = Set(task, r, p, "abandoned")
  /\ UNCHANGED <<clock, identityVars, reportVars, identity, profileVars,
                 positionMap, monitor, remaining, disturbed, viewVars, last,
                 historyVars>>
-----------------------------------------------------------------------------
(* register, called by start(), which is synchronized.  The id is taken    *)
(* before the profile is looked up; an unknown name throws after that.     *)
RegisterUnknown(n) ==
  /\ registering = -1
  /\ viewIdSequence \in ViewIds
  /\ n \in UnknownNames
  /\ viewIdSequence' = viewIdSequence + 1
  /\ UNCHANGED <<clock, identityVars, reportVars, identity, profileVars,
                 positionMap, monitor, task, remaining, disturbed, profileOf,
                 registering, views, held, last, historyVars>>

Register(n) ==
  LET x == viewIdSequence
  IN  /\ registering = -1
      /\ x \in ViewIds
      /\ \/ /\ profileCache[n] # 0
            /\ profileOf' = [profileOf EXCEPT ![x] = profileCache[n]]
            /\ UNCHANGED profileVars
         \/ /\ profileCache[n] = 0      \* the CacheLoader
            /\ profiles + 1 \in Profiles
            /\ profiles' = profiles + 1
            /\ nameOf' = [nameOf EXCEPT ![profiles + 1] = n]
            /\ profileCache' = [profileCache EXCEPT ![n] = profiles + 1]
            /\ profileOf' = [profileOf EXCEPT ![x] = profiles + 1]
      /\ viewIdSequence' = x + 1
      /\ registering' = x
      /\ held' = held \cup {x}
      /\ UNCHANGED <<clock, identityVars, reportVars, identity, positionMap,
                     monitor, task, remaining, disturbed, views, last, historyVars>>

\* views.add in the constructor of the view.  A traversal under way may meet the
\* new view or not; if the table is resized under it, it may lose any of the rest.
AddView ==
  LET x == registering
      p == profileOf[x]
      walking == {r \in Reports : task[r][p] = "dispatch"}
      resized == Cardinality(ViewsOf(p)) + 1 >= ResizeAt
  IN  /\ x # -1
      /\ views' = views \cup {x}
      /\ registering' = -1
      /\ \E rest \in [walking -> SUBSET (ViewsOf(p) \cup {x})] :
           /\ \A r \in walking :
                /\ rest[r] \subseteq remaining[r][p] \cup {x}
                /\ resized \/ remaining[r][p] \subseteq rest[r]
           /\ remaining' = [r \in Reports |->
                              IF r \in walking THEN [remaining[r] EXCEPT ![p] = rest[r]]
                              ELSE remaining[r]]
           /\ missed' = missed \cup
                {<<r, p>> : r \in {s \in walking : ~ remaining[s][p] \subseteq rest[s]}}
      /\ disturbed' = disturbed \cup {<<r, p>> : r \in walking}
      /\ UNCHANGED <<clock, identityVars, reportVars, identity, profileVars,
                     positionMap, monitor, task, viewIdSequence, profileOf, held,
                     last, overlapped, audience>>

\* The HTTP session that holds the view ends.
DropView(x) ==
  /\ x \in held
  /\ x # registering
  /\ held' = held \ {x}
  /\ UNCHANGED <<clock, identityVars, reportVars, identity, profileVars,
                 positionMap, monitor, task, remaining, disturbed,
                 viewIdSequence, profileOf, registering, views, last, historyVars>>

(* The collector.  A view nobody holds leaves the WeakHashMap; a profile   *)
(* no held view refers to, and no thread works in, leaves the cache.       *)
CollectView(x) ==
  /\ x \in views \ held
  /\ views' = views \ {x}
  /\ remaining' = [r \in Reports |-> [p \in Profiles |-> remaining[r][p] \ {x}]]
  /\ UNCHANGED <<clock, identityVars, reportVars, identity, profileVars,
                 positionMap, monitor, task, disturbed, viewIdSequence,
                 profileOf, registering, held, last, historyVars>>

\* Mutant: the view drops its reference to the profile after the constructor.
ReachableByThreads(p) == \E r \in Reports : task[r][p] \in Running

\* The field profile of a held view, or a thread inside the profile.
Reachable(p) ==
  \/ \E x \in held : profileOf[x] = p
  \/ \E r \in Reports : task[r][p] \in Running

CollectProfile(n) ==
  /\ profileCache[n] # 0
  /\ ~Reachable(profileCache[n])
  /\ profileCache' = [profileCache EXCEPT ![n] = 0]
  /\ UNCHANGED <<clock, identityVars, reportVars, identity, nameOf, profiles,
                 positionMap, monitor, task, remaining, disturbed, viewVars, last,
                 historyVars>>
-----------------------------------------------------------------------------
\* The thread that takes report r through profile p.
Work(r, p) ==
  \/ TestTimeout(r, p)
  \/ EnterTestNewer(r, p) \/ ExitTestNewer(r, p)
  \/ BeginDispatch(r, p)
  \/ \E x \in ViewIds : Deliver(r, p, x)
  \/ ViewThrows(r, p)
  \/ EndDispatch(r, p)
  \/ Abandon(r, p)

\* Nothing to do: allowed only when no report and no registration is on its way.
Wait ==
  /\ registering = -1
  /\ \A r \in Reports, p \in Profiles : task[r][p] \in Finished
  /\ UNCHANGED vars

Next ==
  \/ Tick
  \/ \E i \in Ids, v \in Vessels : ReassignIdentity(i, v)
  \/ \E q \in Position : ProcessPosition(q)
  \/ \E r \in Reports, p \in Profiles : Work(r, p)
  \/ \E n \in UnknownNames : RegisterUnknown(n)
  \/ \E n \in Names : Register(n)
  \/ AddView
  \/ \E x \in ViewIds : DropView(x) \/ CollectView(x)
  \/ \E n \in Names : CollectProfile(n)
  \/ Wait

Spec == Init /\ [][Next]_vars

\* The threads of the routes and of the common pool run when they can.
FairSpec == Spec /\ \A r \in Reports, p \in Profiles : WF_vars(Work(r, p))
-----------------------------------------------------------------------------
\* The type invariant, with the life cycle of the objects: what was not created
\* yet is empty.
TypeOK ==
  /\ clock \in 0..MaxClock
  /\ latestVessel \in [Ids -> Vessels] /\ reassigned \in 0..MaxReassigned
  /\ position \in [Reports -> Position]
  /\ identity \in [Reports -> Vessels \cup {Unresolved}]
  /\ reports \in 0..MaxReports /\ profiles \in 0..MaxProfiles
  /\ nameOf \in [Profiles -> Names]
  /\ profileCache \in [Names -> 0..profiles]
  /\ positionMap \in [Profiles -> [Vessels -> 0..reports]]
  /\ monitor \in [Profiles -> 0..reports]
  /\ task \in [Reports -> [Profiles -> Running \cup Finished]]
  /\ remaining \in [Reports -> [Profiles -> SUBSET ViewIds]]
  /\ disturbed \subseteq Reports \X Profiles
  /\ viewIdSequence \in 0..MaxViews
  /\ profileOf \in [ViewIds -> 0..profiles]
  /\ registering \in ViewIds \cup {-1}
  /\ views \subseteq ViewIds /\ held \subseteq ViewIds
  /\ last \in [ViewIds -> [Vessels -> 0..reports]]
  /\ overlapped \subseteq Profiles \X Vessels
  /\ missed \subseteq Reports \X Profiles
  /\ audience \in [Reports -> [Profiles -> SUBSET ViewIds]]
  /\ \A r \in Reports, p \in Profiles :
       /\ r > reports \/ p > profiles => task[r][p] = "none"
       /\ task[r][p] \in {"newer", "older"} \cup Accepted => identity[r] \in Vessels
  /\ \A x \in ViewIds : profileOf[x] # 0 => x < viewIdSequence

\* A profile never goes back in time: whatever threads race for a vessel, its entry
\* in positionMap is only replaced by a newer report (lines 73-83).
NeverBackInTime ==
  [][\A p \in Profiles, v \in Vessels :
       (positionMap'[p][v] # positionMap[p][v] /\ positionMap[p][v] # 0)
         => position[positionMap'[p][v]].ts > position[positionMap[p][v]].ts]_vars

\* A report has one identity: every profile files it under the same vessel, and its
\* views learn of that one, even if the identifier changes hands meanwhile
\* (DefaultEnrichmentService, lines 37-50).
OneIdentity ==
  \A p \in Profiles, v \in Vessels :
    positionMap[p][v] # 0 => identity[positionMap[p][v]] = v

\* A view that a session holds is served: it is in the WeakHashMap of its profile
\* and its profile is the one in the cache, whatever the collector does; so a name
\* never has two live profiles (lines 51-53 of the service, 36 and 52 of the view).
HeldViewsAreServed ==
  \A x \in held :
    /\ x # registering => x \in views
    /\ profileCache[nameOf[profileOf[x]]] = profileOf[x]

\* What a profile holds as newest is what its views processed last, unless two
\* reports of the vessel were being handed out at once, or the hand-out of the
\* newest was cut short by an exception or a resize (lines 86-104).
ViewsHaveNewest ==
  \A p \in Profiles, v \in Vessels :
    LET r == positionMap[p][v]
    IN  (/\ r # 0 /\ <<p, v>> \notin overlapped /\ <<r, p>> \notin missed
         /\ \A s \in Reports : task[s][p] \in Accepted => identity[s] # v)
          => \A x \in audience[r][p] \cap held : last[x][v] = r

\* Every report gets through every profile it was offered to: nobody waits for the
\* monitor for ever, and a traversal ends.
EveryReportFinishes ==
  \A r \in Reports, p \in Profiles :
    task[r][p] \in Running ~> task[r][p] \in Finished
=============================================================================
