-------------------- MODULE LatestPositionServiceProofs --------------------
(***************************************************************************)
(* Proofs about LatestPositionService, for every value of its constants.   *)
(***************************************************************************)
EXTENDS LatestPositionService, TLAPS

-----------------------------------------------------------------------------
(* Tables with a cell for every report and profile.                        *)
LEMMA SetCell ==
  ASSUME NEW S, NEW f \in [Reports -> [Profiles -> S]],
         NEW r \in Reports, NEW p \in Profiles, NEW e \in S
  PROVE  /\ Set(f, r, p, e) \in [Reports -> [Profiles -> S]]
         /\ \A s \in Reports, q \in Profiles :
              Set(f, r, p, e)[s][q] = IF s = r /\ q = p THEN e ELSE f[s][q]
BY DEF Set

Stages == Running \cup Finished

-----------------------------------------------------------------------------
(* Types, and the objects a registration goes through.  A view that is     *)
(* being constructed has its profile, is held by start(), and is not in    *)
(* the WeakHashMap yet.                                                    *)
Registration ==
  /\ registering # -1 =>
       registering \in held \ views /\ profileOf[registering] # 0
  /\ \A x \in held \cup views : profileOf[x] # 0

LEMMA InitTypes == Init => TypeOK /\ Registration
<1> SUFFICES ASSUME Init PROVE TypeOK /\ Registration
  OBVIOUS
<1>1. (CHOOSE q \in Position : TRUE) \in Position /\ (CHOOSE n \in Names : TRUE) \in Names
  BY NonEmptyAssumption
<1>2. 0 \in 0..MaxClock /\ 0 \in 0..MaxReassigned /\ 0 \in 0..MaxReports
      /\ 0 \in 0..MaxProfiles /\ 0 \in 0..MaxViews
  BY BoundsAssumption
<1>3. \A r \in Reports : r > 0
  BY BoundsAssumption DEF Reports
<1>4. TypeOK
  BY <1>1, <1>2 DEF Init, TypeOK, Running, Finished, Accepted
<1> QED BY <1>4 DEF Init, Registration

\* A report that is somewhere in a profile exists, and so does the profile.
LEMMA AtWork ==
  ASSUME TypeOK, NEW r \in Reports, NEW p \in Profiles, task[r][p] # "none"
  PROVE  r \in 1..reports /\ p \in 1..profiles
BY BoundsAssumption DEF TypeOK, Reports, Profiles

\* What the store answers is a vessel.
LEMMA IdentityIsVessel ==
  ASSUME TypeOK, NEW r \in Reports
  PROVE  /\ GetIdentity(r) \in Vessels
         /\ identity[r] # Unresolved => identity[r] \in Vessels /\ GetIdentity(r) = identity[r]
<1>1. latestVessel[position[r].id] \in Vessels
  BY DEF TypeOK, Position
<1> QED BY <1>1 DEF TypeOK, GetIdentity

\* A report takes a step in a profile: nothing changes in the other cells, and what
\* TypeOK says of the tasks still holds.
LEMMA TaskMoves ==
  ASSUME TypeOK, NEW r \in Reports, NEW p \in Profiles, NEW e \in Stages,
         task[r][p] # "none", task' = Set(task, r, p, e),
         reports' = reports, profiles' = profiles,
         \A s \in Reports : identity[s] \in Vessels => identity'[s] = identity[s],
         e \in {"newer", "older"} \cup Accepted => identity'[r] \in Vessels
  PROVE  /\ task' \in [Reports -> [Profiles -> Running \cup Finished]]
         /\ \A s \in Reports, q \in Profiles :
              task'[s][q] = IF s = r /\ q = p THEN e ELSE task[s][q]
         /\ \A s \in Reports, q \in Profiles :
              /\ s > reports' \/ q > profiles' => task'[s][q] = "none"
              /\ task'[s][q] \in {"newer", "older"} \cup Accepted => identity'[s] \in Vessels
<1>1. task \in [Reports -> [Profiles -> Stages]]
  BY DEF TypeOK, Stages
<1>2. /\ task' \in [Reports -> [Profiles -> Stages]]
      /\ \A s \in Reports, q \in Profiles :
           task'[s][q] = IF s = r /\ q = p THEN e ELSE task[s][q]
  BY <1>1 DEF Set
<1>3. r \in 1..reports /\ p \in 1..profiles
  BY AtWork
<1>4. \A s \in Reports, q \in Profiles :
        /\ s > reports \/ q > profiles => task[s][q] = "none"
        /\ task[s][q] \in {"newer", "older"} \cup Accepted => identity[s] \in Vessels
  BY DEF TypeOK
<1>5. \A s \in Reports, q \in Profiles :
        /\ s > reports' \/ q > profiles' => task'[s][q] = "none"
        /\ task'[s][q] \in {"newer", "older"} \cup Accepted => identity'[s] \in Vessels
  <2> SUFFICES ASSUME NEW s \in Reports, NEW q \in Profiles
               PROVE  /\ s > reports' \/ q > profiles' => task'[s][q] = "none"
                      /\ task'[s][q] \in {"newer", "older"} \cup Accepted
                           => identity'[s] \in Vessels
    OBVIOUS
  <2>1. CASE s = r /\ q = p
    <3>1. ~ (s > reports' \/ q > profiles')
      BY <1>3, <2>1 DEF TypeOK
    <3> QED BY <1>2, <2>1, <3>1
  <2>2. CASE ~ (s = r /\ q = p)
    BY <1>2, <1>4, <2>2
  <2> QED BY <2>1, <2>2
<1> QED BY <1>2, <1>5 DEF Stages

LEMMA TypesKept ==
  ASSUME TypeOK, Registration, [Next]_vars
  PROVE  TypeOK' /\ Registration'
<1> USE BoundsAssumption DEF Registration
<1> DEFINE Good == TypeOK' /\ Registration'
<1>1. CASE Tick
  BY <1>1 DEF Tick, TypeOK, identityVars, reportVars, profileVars, viewVars, historyVars
<1>2. ASSUME NEW i \in Ids, NEW v \in Vessels, ReassignIdentity(i, v) PROVE Good
  BY <1>2 DEF ReassignIdentity, TypeOK, reportVars, profileVars, viewVars, historyVars
<1>3. ASSUME NEW q \in Position, ProcessPosition(q) PROVE Good
  <2>1. /\ reports' = reports + 1 /\ reports + 1 \in Reports
        /\ position' = [position EXCEPT ![reports + 1] = q]
        /\ UNCHANGED <<clock, identityVars, identity, profileVars, positionMap, monitor,
                       remaining, disturbed, viewVars, last, historyVars>>
    BY <1>3 DEF ProcessPosition
  <2>2. /\ task' \in [Reports -> [Profiles -> Stages]]
        /\ \A r \in Reports \ {reports + 1}, p \in Profiles : task'[r][p] = task[r][p]
        /\ \A p \in Profiles :
             /\ task'[reports + 1][p] \in {"offered", "none"}
             /\ p > profiles => task'[reports + 1][p] = "none"
    <3> DEFINE present == {profileCache[n] : n \in Names} \ {0}
               offers == [p \in Profiles |-> IF p \in present THEN "offered" ELSE "none"]
    <3>1. \A p \in present : p \in 0..profiles
      BY DEF TypeOK
    <3>2. task' = [task EXCEPT ![reports + 1] = offers]
      BY <1>3 DEF ProcessPosition
    <3>3. offers \in [Profiles -> Stages]
      BY DEF Stages, Running, Finished
    <3> HIDE DEF offers
    <3>4. task' \in [Reports -> [Profiles -> Stages]]
      BY <2>1, <3>2, <3>3 DEF TypeOK, Stages
    <3>5. task'[reports + 1] = offers
          /\ \A r \in Reports \ {reports + 1} : task'[r] = task[r]
      BY <2>1, <3>2 DEF TypeOK
    <3> QED BY <3>1, <3>4, <3>5 DEF offers, Profiles, TypeOK
  <2>3. reports' \in 0..MaxReports /\ position' \in [Reports -> Position]
    BY <2>1 DEF TypeOK, Reports
  <2>4. /\ positionMap' \in [Profiles -> [Vessels -> 0..reports']]
        /\ monitor' \in [Profiles -> 0..reports']
        /\ last' \in [ViewIds -> [Vessels -> 0..reports']]
    BY <2>1 DEF TypeOK
  <2>5. \A r \in Reports, p \in Profiles :
          /\ r > reports' \/ p > profiles' => task'[r][p] = "none"
          /\ task'[r][p] \in {"newer", "older"} \cup Accepted => identity'[r] \in Vessels
    BY <2>1, <2>2 DEF TypeOK, Reports, Accepted, profileVars
  <2> QED
    BY <2>1, <2>2, <2>3, <2>4, <2>5
    DEF TypeOK, Stages, identityVars, profileVars, viewVars, historyVars
<1>4. ASSUME NEW r \in Reports, NEW p \in Profiles, Work(r, p) PROVE Good
  <2> DEFINE
        Tasks == /\ task' \in [Reports -> [Profiles -> Running \cup Finished]]
                 /\ \A s \in Reports, q \in Profiles :
                      /\ s > reports' \/ q > profiles' => task'[s][q] = "none"
                      /\ task'[s][q] \in {"newer", "older"} \cup Accepted
                           => identity'[s] \in Vessels
  <2>1. /\ {"timely", "newer", "older", "done", "failed", "abandoned"} \cup Accepted
             \subseteq Stages
        /\ \A s \in Reports :
             /\ task[s][p] \in {"newer", "older"} \cup Accepted => identity[s] \in Vessels
             /\ identity[s] \in Vessels => identity[s] # Unresolved
    BY UnresolvedAssumption DEF Stages, Running, Finished, Accepted, TypeOK
  <2>2. CASE TestTimeout(r, p)
    <3>1. Tasks
      <4>1. \E e \in {"timely", "done"} : task' = Set(task, r, p, e)
        BY <2>2 DEF TestTimeout
      <4> QED BY <2>1, <2>2, <4>1, TaskMoves DEF TestTimeout, Accepted, reportVars, profileVars
    <3> QED
      BY <2>2, <3>1 DEF TestTimeout, TypeOK, identityVars, reportVars, profileVars, viewVars,
         historyVars
  <2>3. CASE EnterTestNewer(r, p)
    <3>1. /\ identity' = [identity EXCEPT ![r] = GetIdentity(r)]
          /\ GetIdentity(r) \in Vessels
          /\ identity[r] \in Vessels => GetIdentity(r) = identity[r]
      BY <2>1, <2>3, IdentityIsVessel DEF EnterTestNewer
    <3>2. /\ identity' \in [Reports -> Vessels \cup {Unresolved}]
          /\ identity'[r] \in Vessels
          /\ \A s \in Reports : identity[s] \in Vessels => identity'[s] = identity[s]
      BY <3>1 DEF TypeOK
    <3>3. Tasks
      <4>1. \E e \in {"newer", "older"} : task' = Set(task, r, p, e)
        BY <2>3 DEF EnterTestNewer
      <4> QED BY <2>1, <2>3, <3>2, <4>1, TaskMoves DEF EnterTestNewer, reportVars, profileVars
    <3>4. monitor' \in [Profiles -> 0..reports]
      BY <2>3, AtWork DEF EnterTestNewer, TypeOK
    <3> QED
      BY <2>3, <3>2, <3>3, <3>4
      DEF EnterTestNewer, TypeOK, identityVars, reportVars, profileVars, viewVars, historyVars
  <2>4. CASE ExitTestNewer(r, p)
    <3>1. task[r][p] \in {"newer", "older"} /\ r \in 1..reports
      BY <2>4, AtWork DEF ExitTestNewer
    <3>2. GetIdentity(r) \in Vessels
      BY IdentityIsVessel
    <3>3. Tasks
      <4>1. \E e \in {"accepted", "done"} : task' = Set(task, r, p, e)
        BY <2>4 DEF ExitTestNewer
      <4>2. identity' = identity /\ reports' = reports /\ profiles' = profiles
        BY <2>4 DEF ExitTestNewer, reportVars, profileVars
      <4> QED BY <2>1, <3>1, <4>1, <4>2, TaskMoves DEF Accepted
    <3>4. /\ monitor' \in [Profiles -> 0..reports]
          /\ positionMap' \in [Profiles -> [Vessels -> 0..reports]]
          /\ overlapped' \subseteq Profiles \X Vessels
      <4>1. monitor' = [monitor EXCEPT ![p] = 0]
        BY <2>4 DEF ExitTestNewer
      <4>2. \/ positionMap' = [positionMap EXCEPT ![p][GetIdentity(r)] = r]
            \/ positionMap' = positionMap
        BY <2>4 DEF ExitTestNewer
      <4>3. overlapped' \in {overlapped, overlapped \cup {<<p, GetIdentity(r)>>}}
        BY <2>4 DEF ExitTestNewer
      <4>4. monitor' \in [Profiles -> 0..reports]
        BY <4>1 DEF TypeOK
      <4>5. positionMap' \in [Profiles -> [Vessels -> 0..reports]]
        <5>1. positionMap \in [Profiles -> [Vessels -> 0..reports]] /\ r \in 0..reports
          BY <3>1 DEF TypeOK
        <5>2. [positionMap EXCEPT ![p][GetIdentity(r)] = r]
                \in [Profiles -> [Vessels -> 0..reports]]
          BY <3>2, <5>1
        <5> QED BY <4>2, <5>1, <5>2
      <4> QED BY <3>2, <4>3, <4>4, <4>5 DEF TypeOK
    <3> QED
      BY <2>4, <3>3, <3>4
      DEF ExitTestNewer, TypeOK, identityVars, reportVars, profileVars, viewVars
  <2>5. CASE BeginDispatch(r, p)
    <3>1. Tasks
      BY <2>1, <2>5, TaskMoves DEF BeginDispatch, reportVars, profileVars, Accepted
    <3>2. ViewsOf(p) \in SUBSET ViewIds
      BY DEF ViewsOf, TypeOK
    <3>3. /\ remaining' \in [Reports -> [Profiles -> SUBSET ViewIds]]
          /\ audience' \in [Reports -> [Profiles -> SUBSET ViewIds]]
      BY <2>5, <3>2, SetCell DEF BeginDispatch, TypeOK
    <3> QED
      BY <2>5, <3>1, <3>3
      DEF BeginDispatch, TypeOK, identityVars, reportVars, profileVars, viewVars
  <2>6. ASSUME NEW x \in ViewIds, Deliver(r, p, x) PROVE Good
    <3>1. r \in 1..reports /\ identity[r] \in Vessels
      BY <2>1, <2>6, AtWork DEF Deliver, Accepted
    <3>2. last' \in [ViewIds -> [Vessels -> 0..reports]]
      BY <2>6, <3>1 DEF Deliver, TypeOK
    <3>3. remaining' \in [Reports -> [Profiles -> SUBSET ViewIds]]
      BY <2>6 DEF Deliver, Set, TypeOK
    <3> QED
      BY <2>6, <3>2, <3>3
      DEF Deliver, TypeOK, identityVars, reportVars, profileVars, viewVars, historyVars
  <2>7. CASE ViewThrows(r, p)
    <3>1. Tasks
      BY <2>1, <2>7, TaskMoves DEF ViewThrows, reportVars, profileVars, Accepted
    <3>2. remaining' \in [Reports -> [Profiles -> SUBSET ViewIds]]
      BY <2>7, SetCell DEF ViewThrows, TypeOK
    <3> QED
      BY <2>7, <3>1, <3>2
      DEF ViewThrows, TypeOK, identityVars, reportVars, profileVars, viewVars
  <2>8. CASE EndDispatch(r, p)
    <3>1. Tasks
      <4>1. \E e \in {"failed", "done"} : task' = Set(task, r, p, e)
        BY <2>8 DEF EndDispatch
      <4> QED BY <2>1, <2>8, <4>1, TaskMoves DEF EndDispatch, Accepted, reportVars, profileVars
    <3> QED
      BY <2>8, <3>1
      DEF EndDispatch, TypeOK, identityVars, reportVars, profileVars, viewVars, historyVars
  <2>9. CASE Abandon(r, p)
    <3>1. Tasks
      BY <2>1, <2>9, TaskMoves DEF Abandon, reportVars, profileVars, Accepted
    <3> QED
      BY <2>9, <3>1
      DEF Abandon, TypeOK, identityVars, reportVars, profileVars, viewVars, historyVars
  <2> QED BY <1>4, <2>2, <2>3, <2>4, <2>5, <2>6, <2>7, <2>8, <2>9 DEF Work
<1>5. ASSUME NEW n \in UnknownNames, RegisterUnknown(n) PROVE Good
  BY <1>5
  DEF RegisterUnknown, TypeOK, identityVars, reportVars, profileVars, historyVars, ViewIds
<1>6. ASSUME NEW n \in Names, Register(n) PROVE Good
  <2>1. viewIdSequence \in ViewIds /\ viewIdSequence' = viewIdSequence + 1
    BY <1>6 DEF Register
  <2>2. /\ viewIdSequence' \in 0..MaxViews
        /\ \A x \in ViewIds : x < viewIdSequence => x < viewIdSequence'
    BY <2>1 DEF ViewIds, TypeOK
  <2>3. PICK p \in Profiles :
          /\ p \in 1..profiles' /\ profiles' \in profiles..MaxProfiles
          /\ profileOf' = [profileOf EXCEPT ![viewIdSequence] = p]
          /\ nameOf' \in [Profiles -> Names] /\ profileCache' \in [Names -> 0..profiles']
    <3>1. CASE /\ profileCache[n] # 0 /\ UNCHANGED profileVars
               /\ profileOf' = [profileOf EXCEPT ![viewIdSequence] = profileCache[n]]
      <4>1. profileCache[n] \in 1..profiles
        BY <3>1 DEF TypeOK
      <4>2. profileCache[n] \in Profiles /\ profiles \in profiles..MaxProfiles
        BY <4>1 DEF TypeOK, Profiles
      <4> QED BY <3>1, <4>1, <4>2 DEF TypeOK, profileVars
    <3>2. CASE /\ profiles + 1 \in Profiles /\ profiles' = profiles + 1
               /\ nameOf' = [nameOf EXCEPT ![profiles + 1] = n]
               /\ profileCache' = [profileCache EXCEPT ![n] = profiles + 1]
               /\ profileOf' = [profileOf EXCEPT ![viewIdSequence] = profiles + 1]
      <4>1. /\ profiles + 1 \in 1..(profiles + 1)
            /\ profiles + 1 \in profiles..MaxProfiles
            /\ 0..profiles \subseteq 0..(profiles + 1)
        BY <3>2 DEF TypeOK, Profiles
      <4>2. /\ nameOf' \in [Profiles -> Names]
            /\ profileCache' \in [Names -> 0..(profiles + 1)]
        BY <3>2, <4>1 DEF TypeOK
      <4> QED BY <3>2, <4>1, <4>2
    <3> QED BY <1>6, <3>1, <3>2 DEF Register
  <2>4. /\ profileOf' \in [ViewIds -> 0..profiles']
        /\ profileOf'[viewIdSequence] # 0
        /\ \A x \in ViewIds \ {viewIdSequence} : profileOf'[x] = profileOf[x]
    BY <2>1, <2>3 DEF TypeOK
  <2>5. viewIdSequence \notin views
    BY <2>1 DEF TypeOK, ViewIds
  <2>6. /\ \A x \in ViewIds : profileOf'[x] # 0 => x < viewIdSequence'
        /\ Registration'
    BY <1>6, <2>1, <2>4, <2>5 DEF Register, TypeOK, ViewIds
  <2>7. \A r \in Reports, q \in Profiles : q > profiles' => task'[r][q] = "none"
    BY <1>6, <2>3 DEF Register, TypeOK, Profiles
  <2> QED
    BY <1>6, <2>1, <2>2, <2>3, <2>4, <2>6, <2>7
    DEF Register, TypeOK, identityVars, reportVars, historyVars
<1>7. CASE AddView
  <2> DEFINE p == profileOf[registering]
             walking == {r \in Reports : task[r][p] = "dispatch"}
  <2>1. registering \in ViewIds /\ p \in Profiles /\ registering \in held
    BY <1>7 DEF AddView, TypeOK, Profiles
  <2>2. PICK rest \in [walking -> SUBSET (ViewsOf(p) \cup {registering})] :
          /\ remaining' = [r \in Reports |->
                             IF r \in walking THEN [remaining[r] EXCEPT ![p] = rest[r]]
                             ELSE remaining[r]]
          /\ missed' = missed \cup
               {<<r, p>> : r \in {s \in walking : ~ remaining[s][p] \subseteq rest[s]}}
    BY <1>7 DEF AddView
  <2>3. remaining' \in [Reports -> [Profiles -> SUBSET ViewIds]]
    BY <2>1, <2>2 DEF TypeOK, ViewsOf
  <2>4. missed' \subseteq Reports \X Profiles
    BY <2>1, <2>2 DEF TypeOK
  <2>5. disturbed' \subseteq Reports \X Profiles
    BY <1>7, <2>1 DEF TypeOK, AddView
  <2>6. views' = views \cup {registering} /\ registering' = -1
    BY <1>7 DEF AddView
  <2>7. Registration'
    BY <1>7, <2>6 DEF AddView
  <2> QED
    BY <1>7, <2>1, <2>3, <2>4, <2>5, <2>6, <2>7
    DEF AddView, TypeOK, identityVars, reportVars, profileVars
<1>8. ASSUME NEW x \in ViewIds, DropView(x) PROVE Good
  BY <1>8 DEF DropView, TypeOK, identityVars, reportVars, profileVars, historyVars
<1>9. ASSUME NEW x \in ViewIds, CollectView(x) PROVE Good
  BY <1>9 DEF CollectView, TypeOK, identityVars, reportVars, profileVars, historyVars
<1>10. ASSUME NEW n \in Names, CollectProfile(n) PROVE Good
  BY <1>10 DEF CollectProfile, TypeOK, identityVars, reportVars, viewVars, historyVars
<1>11. CASE UNCHANGED vars
  BY <1>11 DEF vars, TypeOK, identityVars, reportVars, profileVars, viewVars, historyVars
<1> QED
  BY <1>1, <1>2, <1>3, <1>4, <1>5, <1>6, <1>7, <1>8, <1>9, <1>10, <1>11 DEF Next, Wait

-----------------------------------------------------------------------------
(* The inductive invariant.                                                *)
\* The cache files a profile under its name.
Named == \A n \in Names : profileCache[n] # 0 => nameOf[profileCache[n]] = n

\* A report between the two halves of testNewer has the monitor, so that what it has
\* compared with is still the entry it will replace.
Guarded ==
  \A r \in Reports, p \in Profiles :
    /\ task[r][p] \in {"newer", "older"} => monitor[p] = r
    /\ task[r][p] = "newer" => Newer(r, positionMap[p][identity[r]])

\* What positionMap holds is under its identity, and was accepted.
Filed ==
  \A p \in Profiles, v \in Vessels :
    LET r == positionMap[p][v]
    IN  r # 0 => /\ identity[r] = v
                 /\ task[r][p] \in Accepted \cup {"done", "failed"}

\* A traversal only meets views of its profile.
Own ==
  \A r \in Reports, p \in Profiles, x \in ViewIds :
    x \in remaining[r][p] \cup audience[r][p] => profileOf[x] = p

\* Unless accepted reports of a vessel overlapped, the one on its way is the newest.
Alone ==
  \A s \in Reports, p \in Profiles :
    task[s][p] \in Accepted /\ <<p, identity[s]>> \notin overlapped
      => positionMap[p][identity[s]] = s

\* The newest report has reached those of its audience that are still held and not
\* still to be reached, if its traversal was not cut short.
Reached ==
  \A p \in Profiles, v \in Vessels :
    LET r == positionMap[p][v]
    IN  (r # 0 /\ <<p, v>> \notin overlapped /\ <<r, p>> \notin missed
         /\ task[r][p] # "accepted")
          => \A x \in audience[r][p] \cap held :
               last[x][v] = r \/ (task[r][p] = "dispatch" /\ x \in remaining[r][p])

-----------------------------------------------------------------------------
(* What steps have in common.                                              *)
\* Only reports at work change tables of reports.
LEMMA Elsewhere ==
  ASSUME [Next]_vars
  PROVE  \/ \E q \in Position : ProcessPosition(q)
         \/ \E r \in Reports, p \in Profiles : Work(r, p)
         \/ UNCHANGED <<reportVars, identity, positionMap, monitor, task, last, overlapped,
                        audience>>
BY DEF Next, Wait, vars, Tick, ReassignIdentity, RegisterUnknown, Register, AddView, DropView,
       CollectView, CollectProfile, historyVars, identityVars, profileVars, viewVars

\* Only registrations and the collector change views and profiles.
LEMMA Hosts ==
  ASSUME [Next]_vars
  PROVE  \/ \E n \in Names : Register(n) \/ CollectProfile(n)
         \/ AddView
         \/ \E x \in ViewIds : DropView(x) \/ CollectView(x)
         \/ UNCHANGED <<profileVars, profileOf, registering, views, held>>
<1> DEFINE Same == UNCHANGED <<profileVars, profileOf, registering, views, held>>
<1>1. ASSUME NEW r \in Reports, NEW p \in Profiles, Work(r, p) PROVE Same
  BY <1>1 DEF Work, TestTimeout, EnterTestNewer, ExitTestNewer, BeginDispatch, Deliver,
     ViewThrows, EndDispatch, Abandon, profileVars, viewVars
<1>2. ASSUME \/ Tick \/ \E i \in Ids, v \in Vessels : ReassignIdentity(i, v)
             \/ \E q \in Position : ProcessPosition(q)
             \/ \E n \in UnknownNames : RegisterUnknown(n)
             \/ UNCHANGED vars
      PROVE  Same
  BY <1>2 DEF Tick, ReassignIdentity, ProcessPosition, RegisterUnknown, vars, profileVars,
     viewVars
<1> QED BY <1>1, <1>2 DEF Next, Wait

\* A step of a report changes its own cell.
LEMMA Cells ==
  ASSUME TypeOK, NEW r \in Reports, NEW p \in Profiles, NEW e, task' = Set(task, r, p, e)
  PROVE  \A s \in Reports, q \in Profiles :
           task'[s][q] = IF s = r /\ q = p THEN e ELSE task[s][q]
BY DEF TypeOK, Set

\* A new report is not in any table yet.
LEMMA Arrives ==
  ASSUME TypeOK, NEW q \in Position, ProcessPosition(q)
  PROVE  /\ \A s \in Reports, p \in Profiles :
              task'[s][p] = task[s][p] \/ (task[s][p] = "none" /\ task'[s][p] = "offered")
         /\ \A s \in 1..reports : position'[s] = position[s]
<1>1. /\ reports + 1 \in Reports /\ position' = [position EXCEPT ![reports + 1] = q]
      /\ \A p \in Profiles : task[reports + 1][p] = "none"
  BY DEF ProcessPosition, TypeOK, Reports
<1>2. PICK present :
        task' = [task EXCEPT ![reports + 1] =
                   [p \in Profiles |-> IF p \in present THEN "offered" ELSE "none"]]
  BY DEF ProcessPosition
<1>3. \A s \in Reports, p \in Profiles :
        task'[s][p] = task[s][p] \/ (task[s][p] = "none" /\ task'[s][p] = "offered")
  BY <1>1, <1>2 DEF TypeOK
<1>4. \A s \in 1..reports : s \in Reports /\ s # reports + 1
  BY <1>1, BoundsAssumption DEF TypeOK, Reports
<1> QED BY <1>1, <1>3, <1>4 DEF TypeOK

-----------------------------------------------------------------------------
(* Views that are held.                                                    *)
LEMMA ServedInit == Init => HeldViewsAreServed /\ Named
BY DEF Init, HeldViewsAreServed, Named

LEMMA ServedKept ==
  ASSUME TypeOK, Registration, HeldViewsAreServed, Named, [Next]_vars
  PROVE  HeldViewsAreServed' /\ Named'
<1>1. ASSUME NEW n \in Names, Register(n) PROVE HeldViewsAreServed' /\ Named'
  <2> DEFINE new == viewIdSequence
  <2>1. /\ new \in ViewIds /\ registering = -1 /\ registering' = new
        /\ held' = held \cup {new} /\ views' = views
        /\ \A x \in held : x # new /\ x \in ViewIds /\ profileOf[x] \in 1..profiles
    <3>1. \A x \in held : x \in ViewIds /\ profileOf[x] \in 0..profiles /\ profileOf[x] # 0
      BY DEF TypeOK, Registration
    <3>2. \A x \in held : x < viewIdSequence
      BY <3>1 DEF TypeOK
    <3> QED BY <1>1, <3>1, <3>2 DEF Register, TypeOK, ViewIds
  <2>2. CASE profileCache[n] # 0 /\ profileOf' = [profileOf EXCEPT ![new] = profileCache[n]]
             /\ UNCHANGED profileVars
    <3>1. profileOf'[new] = profileCache[n] /\ \A x \in held : profileOf'[x] = profileOf[x]
      BY <2>1, <2>2 DEF TypeOK
    <3>2. profileCache[nameOf[profileCache[n]]] = profileCache[n]
      BY <2>2 DEF Named
    <3>3. nameOf' = nameOf /\ profileCache' = profileCache
      BY <2>2 DEF profileVars
    <3>4. ASSUME NEW x \in held'
          PROVE  /\ x # registering' => x \in views'
                 /\ profileCache'[nameOf'[profileOf'[x]]] = profileOf'[x]
      <4>1. CASE x = new
        BY <2>1, <2>2, <3>1, <3>2, <3>3, <4>1
      <4>2. CASE x \in held
        BY <2>1, <3>1, <3>3, <4>2 DEF HeldViewsAreServed, ViewIds
      <4> QED BY <2>1, <4>1, <4>2
    <3> QED BY <3>3, <3>4 DEF HeldViewsAreServed, Named
  <2>3. CASE /\ profileCache[n] = 0 /\ profiles + 1 \in Profiles /\ profiles' = profiles + 1
             /\ nameOf' = [nameOf EXCEPT ![profiles + 1] = n]
             /\ profileCache' = [profileCache EXCEPT ![n] = profiles + 1]
             /\ profileOf' = [profileOf EXCEPT ![new] = profiles + 1]
    <3>1. \A p \in 1..profiles : p \in Profiles /\ nameOf'[p] = nameOf[p]
      BY <2>3, BoundsAssumption DEF TypeOK, Profiles
    <3>2. nameOf'[profiles + 1] = n /\ profileOf'[new] = profiles + 1
      BY <2>1, <2>3 DEF TypeOK
    <3>3. \A k \in Names : profileCache'[k] = IF k = n THEN profiles + 1 ELSE profileCache[k]
      BY <2>3 DEF TypeOK
    <3>4. \A k \in Names : profileCache[k] # 0 => profileCache[k] \in 1..profiles
      BY DEF TypeOK
    <3>5. Named'
      BY <3>1, <3>2, <3>3, <3>4 DEF Named
    <3>6. ASSUME NEW x \in held'
          PROVE  /\ x # registering' => x \in views'
                 /\ profileCache'[nameOf'[profileOf'[x]]] = profileOf'[x]
      <4>1. CASE x = new
        BY <2>1, <3>2, <3>3, <4>1
      <4>2. CASE x \in held
        <5>1. /\ profileOf'[x] = profileOf[x] /\ profileOf[x] \in 1..profiles
              /\ x \in views
          BY <2>1, <2>3, <4>2 DEF HeldViewsAreServed, TypeOK, ViewIds
        <5>2. /\ nameOf'[profileOf[x]] = nameOf[profileOf[x]]
              /\ nameOf[profileOf[x]] \in Names
          BY <3>1, <5>1 DEF TypeOK
        <5>3. profileCache[nameOf[profileOf[x]]] = profileOf[x]
          BY <4>2 DEF HeldViewsAreServed
        <5>4. nameOf[profileOf[x]] # n
          BY <2>3, <5>1, <5>3
        <5> QED BY <2>1, <3>3, <5>1, <5>2, <5>3, <5>4
      <4> QED BY <2>1, <4>1, <4>2
    <3> QED BY <3>5, <3>6 DEF HeldViewsAreServed
  <2> QED BY <1>1, <2>2, <2>3 DEF Register
<1>2. CASE AddView
  BY <1>2 DEF AddView, HeldViewsAreServed, Named, profileVars
<1>3. ASSUME NEW x \in ViewIds, DropView(x) \/ CollectView(x)
      PROVE  HeldViewsAreServed' /\ Named'
  BY <1>3 DEF DropView, CollectView, HeldViewsAreServed, Named, profileVars
<1>4. ASSUME NEW n \in Names, CollectProfile(n) PROVE HeldViewsAreServed' /\ Named'
  <2>1. /\ ~ Reachable(profileCache[n]) /\ profileCache[n] # 0
        /\ profileCache' = [profileCache EXCEPT ![n] = 0]
        /\ UNCHANGED <<nameOf, profileOf, held, views, registering>>
    BY <1>4 DEF CollectProfile, viewVars
  <2>2. \A x \in held : profileOf[x] # profileCache[n] /\ nameOf[profileOf[x]] # n
    BY <2>1 DEF Reachable, HeldViewsAreServed
  <2>3. \A x \in held : nameOf[profileOf[x]] \in Names
    <3>1. \A x \in held : profileOf[x] \in Profiles
      BY BoundsAssumption DEF TypeOK, Registration, Profiles
    <3> QED BY <3>1 DEF TypeOK
  <2>4. \A k \in Names : profileCache'[k] = IF k = n THEN 0 ELSE profileCache[k]
    BY <2>1 DEF TypeOK
  <2> QED BY <2>1, <2>2, <2>3, <2>4 DEF HeldViewsAreServed, Named
<1>5. CASE UNCHANGED <<profileVars, profileOf, registering, views, held>>
  BY <1>5 DEF profileVars, HeldViewsAreServed, Named
<1> QED BY <1>1, <1>2, <1>3, <1>4, <1>5, Hosts

-----------------------------------------------------------------------------
(* The monitor.                                                            *)
LEMMA GuardedInit == Init => Guarded
BY DEF Init, Guarded

LEMMA GuardedKept ==
  ASSUME TypeOK, Guarded, [Next]_vars
  PROVE  Guarded'
<1> SUFFICES ASSUME NEW s \in Reports, NEW q \in Profiles, task'[s][q] \in {"newer", "older"}
             PROVE  /\ monitor'[q] = s
                    /\ task'[s][q] = "newer" => Newer(s, positionMap[q][identity[s]])'
  BY DEF Guarded
<1> DEFINE Good == /\ monitor'[q] = s
                   /\ task'[s][q] = "newer" => Newer(s, positionMap[q][identity[s]])'
<1>1. ASSUME NEW r \in Position, ProcessPosition(r) PROVE Good
  <2>1. task[s][q] = task'[s][q]
    BY <1>1, Arrives
  <2>2. s \in 1..reports /\ identity[s] \in Vessels
    BY <2>1, AtWork DEF TypeOK
  <2>3. positionMap[q][identity[s]] \in 0..reports
    BY <2>2 DEF TypeOK
  <2>4. /\ position'[s] = position[s] /\ positionMap' = positionMap /\ identity' = identity
        /\ monitor' = monitor
        /\ positionMap[q][identity[s]] # 0 =>
             position'[positionMap[q][identity[s]]] = position[positionMap[q][identity[s]]]
    BY <1>1, <2>2, <2>3, Arrives DEF ProcessPosition, TypeOK
  <2>5. /\ monitor[q] = s
        /\ task[s][q] = "newer" => Newer(s, positionMap[q][identity[s]])
    BY <2>1 DEF Guarded
  <2> QED BY <2>1, <2>4, <2>5 DEF Newer
<1>2. ASSUME NEW r \in Reports, NEW p \in Profiles, Work(r, p) PROVE Good
  <2>1. CASE EnterTestNewer(r, p)
    <3> DEFINE v == GetIdentity(r)
               e == IF Newer(r, positionMap[p][v]) THEN "newer" ELSE "older"
    <3>1. /\ task' = Set(task, r, p, e) /\ monitor[p] = 0 /\ monitor' = [monitor EXCEPT ![p] = r]
          /\ identity' = [identity EXCEPT ![r] = v]
          /\ positionMap' = positionMap /\ position' = position
      BY <2>1 DEF EnterTestNewer, reportVars
    <3>2. task'[s][q] = IF s = r /\ q = p THEN e ELSE task[s][q]
      BY <3>1, Cells
    <3>3. CASE s = r /\ q = p
      BY <3>1, <3>2, <3>3 DEF Newer, TypeOK
    <3>4. CASE ~ (s = r /\ q = p)
      <4>1. task[s][q] \in {"newer", "older"} /\ monitor[q] = s
        BY <3>2, <3>4 DEF Guarded
      <4>2. q # p /\ identity[s] \in Vessels
        BY <3>1, <4>1 DEF Reports, TypeOK
      <4>3. identity'[s] = identity[s]
        BY <3>1, <4>2, IdentityIsVessel, UnresolvedAssumption DEF TypeOK
      <4> QED BY <3>1, <3>2, <3>4, <4>1, <4>2, <4>3 DEF Guarded, Newer, TypeOK
    <3> QED BY <3>3, <3>4
  <2>2. CASE ExitTestNewer(r, p)
    <3>1. /\ task[r][p] \in {"newer", "older"} /\ monitor' = [monitor EXCEPT ![p] = 0]
          /\ \E e \in {"accepted", "done"} : task' = Set(task, r, p, e)
          /\ \/ positionMap' = positionMap
             \/ positionMap' = [positionMap EXCEPT ![p][GetIdentity(r)] = r]
          /\ identity' = identity /\ position' = position
      BY <2>2 DEF ExitTestNewer, reportVars
    <3>2. ~ (s = r /\ q = p) /\ task'[s][q] = task[s][q]
      BY <3>1, Cells
    <3>3. q # p
      BY <3>1, <3>2 DEF Guarded
    <3>4. monitor'[q] = monitor[q] /\ positionMap'[q] = positionMap[q]
      BY <3>1, <3>3 DEF TypeOK
    <3> QED BY <3>1, <3>2, <3>4 DEF Guarded, Newer
  <2>3. CASE ~ EnterTestNewer(r, p) /\ ~ ExitTestNewer(r, p)
    <3>1. /\ task' = task \/ \E e \in Finished \cup Accepted \cup {"timely"} :
                               task' = Set(task, r, p, e)
          /\ UNCHANGED <<monitor, positionMap, position, identity>>
      BY <1>2, <2>3
      DEF Work, TestTimeout, BeginDispatch, Deliver, ViewThrows, EndDispatch, Abandon,
          reportVars, Finished, Accepted
    <3>2. task'[s][q] = task[s][q]
      BY <3>1, Cells DEF Finished, Accepted
    <3> QED BY <3>1, <3>2 DEF Guarded, Newer
  <2> QED BY <2>1, <2>2, <2>3
<1>3. CASE UNCHANGED <<reportVars, identity, positionMap, monitor, task, last, overlapped,
                       audience>>
  BY <1>3 DEF Guarded, Newer, reportVars
<1> QED BY <1>1, <1>2, <1>3, Elsewhere

-----------------------------------------------------------------------------
(* Identities.                                                             *)
LEMMA FiledInit == Init => Filed
BY DEF Init, Filed

LEMMA FiledKept ==
  ASSUME TypeOK, Filed, [Next]_vars
  PROVE  Filed'
<1> SUFFICES ASSUME NEW q \in Profiles, NEW v \in Vessels, positionMap'[q][v] # 0
             PROVE  /\ identity'[positionMap'[q][v]] = v
                    /\ task'[positionMap'[q][v]][q] \in Accepted \cup {"done", "failed"}
  BY DEF Filed
<1> DEFINE old == positionMap[q][v]
           Good == /\ identity'[positionMap'[q][v]] = v
                   /\ task'[positionMap'[q][v]][q] \in Accepted \cup {"done", "failed"}
<1>0. old # 0 => /\ old \in Reports /\ identity[old] = v /\ identity[old] # Unresolved
                 /\ task[old][q] \in Accepted \cup {"done", "failed"}
  BY BoundsAssumption, UnresolvedAssumption DEF Filed, TypeOK, Reports
<1> HIDE DEF old
<1>1. ASSUME NEW r \in Position, ProcessPosition(r) PROVE Good
  <2>1. positionMap'[q][v] = old /\ identity' = identity
    BY <1>1 DEF ProcessPosition, old
  <2> QED BY <1>0, <1>1, <2>1, Arrives DEF Accepted
<1>2. ASSUME NEW r \in Reports, NEW p \in Profiles, Work(r, p) PROVE Good
  <2>1. CASE EnterTestNewer(r, p)
    <3>1. /\ positionMap' = positionMap /\ task[r][p] = "timely"
          /\ identity' = [identity EXCEPT ![r] = GetIdentity(r)]
          /\ \E e : task' = Set(task, r, p, e)
      BY <2>1 DEF EnterTestNewer
    <3>2. positionMap'[q][v] = old /\ identity'[old] = v
      BY <1>0, <3>1, IdentityIsVessel DEF TypeOK, old
    <3>3. task'[old][q] = task[old][q]
      BY <1>0, <3>1, <3>2, Cells DEF Accepted
    <3> QED BY <1>0, <3>2, <3>3
  <2>2. CASE ExitTestNewer(r, p)
    <3>1. identity' = identity /\ task[r][p] \in {"newer", "older"}
      BY <2>2 DEF ExitTestNewer
    <3>2. GetIdentity(r) = identity[r] /\ identity[r] \in Vessels
      BY <3>1, IdentityIsVessel, UnresolvedAssumption DEF TypeOK
    <3>3. \A e : task' = Set(task, r, p, e) =>
            task'[r][p] = e /\ (old # 0 => task'[old][q] = task[old][q])
      BY <1>0, <3>1, Cells DEF Accepted
    <3>4. CASE /\ positionMap' = [positionMap EXCEPT ![p][identity[r]] = r]
               /\ task' = Set(task, r, p, "accepted")
      <4>1. positionMap'[q][v] = IF q = p /\ v = identity[r] THEN r ELSE old
        BY <3>2, <3>4 DEF TypeOK, old
      <4> QED BY <1>0, <3>1, <3>3, <3>4, <4>1 DEF Accepted
    <3>5. CASE positionMap' = positionMap /\ task' = Set(task, r, p, "done")
      BY <1>0, <3>1, <3>3, <3>5 DEF old
    <3> QED BY <2>2, <3>2, <3>4, <3>5 DEF ExitTestNewer
  <2>3. CASE ~ EnterTestNewer(r, p) /\ ~ ExitTestNewer(r, p)
    <3>1. /\ \/ task' = task
             \/ task[r][p] = "offered" /\ \E e : task' = Set(task, r, p, e)
             \/ \E e \in Accepted \cup {"done", "failed"} : task' = Set(task, r, p, e)
          /\ UNCHANGED <<positionMap, identity>>
      BY <1>2, <2>3
      DEF Work, TestTimeout, BeginDispatch, Deliver, ViewThrows, EndDispatch, Abandon, Accepted
    <3>2. positionMap'[q][v] = old
      BY <3>1 DEF old
    <3>3. task'[old][q] \in Accepted \cup {"done", "failed"}
      BY <1>0, <3>1, <3>2, Cells DEF Accepted
    <3> QED BY <1>0, <3>1, <3>2, <3>3
  <2> QED BY <2>1, <2>2, <2>3
<1>3. CASE UNCHANGED <<reportVars, identity, positionMap, monitor, task, last, overlapped,
                       audience>>
  BY <1>0, <1>3 DEF old
<1> QED BY <1>1, <1>2, <1>3, Elsewhere

-----------------------------------------------------------------------------
(* Views and traversals.                                                   *)
LEMMA OwnInit == Init => Own
BY DEF Init, Own

LEMMA OwnKept ==
  ASSUME TypeOK, Registration, Own, [Next]_vars
  PROVE  Own'
<1>1. ASSUME NEW r \in Reports, NEW p \in Profiles, NEW x \in ViewIds,
             x \in remaining'[r][p] \cup audience'[r][p],
             \/ x \in remaining[r][p] \cup audience[r][p]
             \/ profileOf[x] = p
      PROVE  profileOf'[x] = p
  <2>1. profileOf[x] = p /\ p # 0
    BY <1>1 DEF Own, Profiles
  <2>2. x < viewIdSequence
    BY <2>1 DEF TypeOK
  <2>3. profileOf' = profileOf
        \/ \E m : profileOf' = [profileOf EXCEPT ![viewIdSequence] = m]
    <3>1. ASSUME NEW n \in Names, Register(n) PROVE <2>3
      BY <3>1 DEF Register
    <3>2. ASSUME ~ \E n \in Names : Register(n) PROVE <2>3
      BY <3>2, Hosts DEF AddView, DropView, CollectView, CollectProfile, viewVars
    <3> QED BY <3>1, <3>2
  <2> QED BY <2>1, <2>2, <2>3 DEF TypeOK
<1> SUFFICES ASSUME NEW r \in Reports, NEW p \in Profiles, NEW x \in ViewIds,
                    x \in remaining'[r][p] \cup audience'[r][p]
             PROVE  \/ x \in remaining[r][p] \cup audience[r][p]
                    \/ profileOf[x] = p
  BY <1>1 DEF Own
<1> DEFINE Good == x \in remaining[r][p] \cup audience[r][p] \/ profileOf[x] = p
<1>2. ASSUME NEW s \in Reports, NEW q \in Profiles, Work(s, q) PROVE Good
  <2>1. CASE BeginDispatch(s, q)
    BY <2>1 DEF BeginDispatch, Set, ViewsOf, TypeOK
  <2>2. ASSUME NEW y \in ViewIds, Deliver(s, q, y) PROVE Good
    BY <2>2 DEF Deliver, Set, TypeOK, historyVars
  <2>3. CASE ViewThrows(s, q)
    BY <2>3 DEF ViewThrows, Set, TypeOK
  <2>4. CASE UNCHANGED <<remaining, audience>>
    BY <2>4
  <2> QED
    BY <1>2, <2>1, <2>2, <2>3, <2>4
    DEF Work, TestTimeout, EnterTestNewer, ExitTestNewer, EndDispatch, Abandon, historyVars
<1>3. CASE AddView
  <2> DEFINE q == profileOf[registering]
             walking == {s \in Reports : task[s][q] = "dispatch"}
  <2>1. PICK rest \in [walking -> SUBSET (ViewsOf(q) \cup {registering})] :
          /\ remaining' = [s \in Reports |->
                             IF s \in walking THEN [remaining[s] EXCEPT ![q] = rest[s]]
                             ELSE remaining[s]]
    BY <1>3 DEF AddView
  <2>2. audience' = audience
    BY <1>3 DEF AddView
  <2>3. CASE r \in walking /\ p = q
    <3>1. remaining'[r][p] = rest[r] /\ rest[r] \subseteq ViewsOf(q) \cup {registering}
      BY <2>1, <2>3 DEF TypeOK
    <3>2. \A y \in ViewsOf(q) \cup {registering} : profileOf[y] = q
      BY DEF ViewsOf
    <3> QED BY <2>2, <2>3, <3>1, <3>2
  <2>4. CASE ~ (r \in walking /\ p = q)
    BY <2>1, <2>2, <2>4 DEF TypeOK
  <2> QED BY <2>3, <2>4
<1>4. ASSUME NEW y \in ViewIds, CollectView(y) PROVE Good
  BY <1>4 DEF CollectView, historyVars
<1>5. CASE UNCHANGED <<remaining, audience>>
  BY <1>5
<1> QED
  BY <1>2, <1>3, <1>4, <1>5
  DEF Next, Wait, vars, Tick, ReassignIdentity, ProcessPosition, RegisterUnknown, Register,
      DropView, CollectProfile, historyVars

LEMMA AloneInit == Init => Alone
BY DEF Init, Alone, Accepted

LEMMA AloneKept ==
  ASSUME TypeOK, Guarded, Alone, [Next]_vars
  PROVE  Alone'
<1> SUFFICES ASSUME NEW s \in Reports, NEW q \in Profiles, task'[s][q] \in Accepted,
                    <<q, identity'[s]>> \notin overlapped'
             PROVE  positionMap'[q][identity'[s]] = s
  BY DEF Alone
<1> DEFINE Good == positionMap'[q][identity'[s]] = s
<1>0. task[s][q] \in Accepted => identity[s] \in Vessels
  BY DEF TypeOK
<1>1. ASSUME NEW r \in Position, ProcessPosition(r) PROVE Good
  <2>1. task[s][q] = task'[s][q]
    BY <1>1, Arrives DEF Accepted
  <2> QED BY <1>1, <2>1 DEF ProcessPosition, Alone, historyVars
<1>2. ASSUME NEW r \in Reports, NEW p \in Profiles, Work(r, p) PROVE Good
  <2>1. CASE EnterTestNewer(r, p)
    <3>1. /\ UNCHANGED <<positionMap, overlapped>>
          /\ identity' = [identity EXCEPT ![r] = GetIdentity(r)]
          /\ \E e \in {"newer", "older"} : task' = Set(task, r, p, e)
      BY <2>1 DEF EnterTestNewer, historyVars
    <3>2. task[s][q] \in Accepted
      BY <3>1, Cells DEF Accepted
    <3>3. identity'[s] = identity[s]
      BY <1>0, <3>1, <3>2, IdentityIsVessel, UnresolvedAssumption DEF TypeOK
    <3> QED BY <3>1, <3>2, <3>3 DEF Alone
  <2>2. CASE ExitTestNewer(r, p)
    <3>1. identity' = identity /\ task[r][p] \in {"newer", "older"}
      BY <2>2 DEF ExitTestNewer
    <3>2. GetIdentity(r) = identity[r] /\ identity[r] \in Vessels
      BY <3>1, IdentityIsVessel, UnresolvedAssumption DEF TypeOK
    <3>3. CASE /\ positionMap' = [positionMap EXCEPT ![p][identity[r]] = r]
               /\ task' = Set(task, r, p, "accepted")
               /\ overlapped' = IF Rivals(r, p, identity[r]) = {} THEN overlapped
                                ELSE overlapped \cup {<<p, identity[r]>>}
      <4>1. CASE s = r /\ q = p
        BY <3>1, <3>2, <3>3, <4>1 DEF TypeOK
      <4>2. CASE ~ (s = r /\ q = p)
        <5>1. task[s][q] \in Accepted /\ <<q, identity[s]>> \notin overlapped
          BY <3>1, <3>3, <4>2, Cells
        <5>2. q = p => identity[s] # identity[r]
          BY <3>1, <3>3, <4>2, <5>1 DEF Rivals
        <5>3. positionMap'[q][identity[s]] = positionMap[q][identity[s]]
          BY <3>2, <3>3, <5>2 DEF TypeOK
        <5> QED BY <3>1, <5>1, <5>3 DEF Alone
      <4> QED BY <4>1, <4>2
    <3>4. CASE UNCHANGED <<positionMap, overlapped>> /\ task' = Set(task, r, p, "done")
      BY <3>1, <3>4, Cells DEF Accepted, Alone
    <3> QED BY <2>2, <3>2, <3>3, <3>4 DEF ExitTestNewer
  <2>3. CASE ~ EnterTestNewer(r, p) /\ ~ ExitTestNewer(r, p)
    <3>1. /\ \/ task' = task
             \/ task[r][p] \in Accepted /\ \E e : task' = Set(task, r, p, e)
             \/ \E e \in Finished \cup {"timely"} : task' = Set(task, r, p, e)
          /\ UNCHANGED <<positionMap, identity, overlapped>>
      BY <1>2, <2>3
      DEF Work, TestTimeout, BeginDispatch, Deliver, ViewThrows, EndDispatch, Abandon, Accepted,
          Finished, historyVars
    <3>2. task[s][q] \in Accepted
      BY <3>1, Cells DEF Accepted, Finished
    <3> QED BY <3>1, <3>2 DEF Alone
  <2> QED BY <2>1, <2>2, <2>3
<1>3. CASE UNCHANGED <<reportVars, identity, positionMap, monitor, task, last, overlapped,
                       audience>>
  BY <1>3 DEF Alone
<1> QED BY <1>1, <1>2, <1>3, Elsewhere

-----------------------------------------------------------------------------
(* The newest report and its audience.                                     *)
LEMMA ReachedInit == Init => Reached
BY DEF Init, Reached

\* What is asked of one profile and vessel once their newest report is under way.
ReachedFor(p, v, r) ==
  (r # 0 /\ <<p, v>> \notin overlapped /\ <<r, p>> \notin missed /\ task[r][p] # "accepted")
    => \A x \in audience[r][p] \cap held :
         last[x][v] = r \/ (task[r][p] = "dispatch" /\ x \in remaining[r][p])

LEMMA ReachedKept ==
  ASSUME TypeOK, Registration, Guarded, Filed, Own, Alone, Reached, [Next]_vars
  PROVE  Reached'
<1> SUFFICES ASSUME NEW q \in Profiles, NEW v \in Vessels
             PROVE  ReachedFor(q, v, positionMap[q][v])'
  BY DEF Reached, ReachedFor
<1> DEFINE old == positionMap[q][v]
           Good == ReachedFor(q, v, positionMap[q][v])'
<1>0. /\ old \in 0..reports
      /\ old # 0 => /\ old \in Reports /\ identity[old] = v
                    /\ task[old][q] \in Accepted \cup {"done", "failed"}
      /\ ReachedFor(q, v, old)
      /\ \A r \in Reports, p \in Profiles : remaining[r][p] \cup audience[r][p] \subseteq ViewIds
  BY BoundsAssumption DEF Filed, TypeOK, Reports, Reached, ReachedFor
\* Steps that leave the newest report where it is.
<1>1. ASSUME positionMap'[q][v] = old, overlapped \subseteq overlapped', missed \subseteq missed',
             old # 0 =>
               /\ task'[old][q] = task[old][q]
               /\ audience'[old][q] = audience[old][q]
               /\ \A x \in audience[old][q] \cap held' :
                    /\ x \in held
                    /\ last'[x][v] = last[x][v] \/ last'[x][v] = old
                    /\ \/ x \in remaining'[old][q]
                       \/ x \notin remaining[old][q]
                       \/ last'[x][v] = old
                       \/ <<old, q>> \in missed'
      PROVE  Good
  <2> SUFFICES ASSUME old # 0, <<q, v>> \notin overlapped', <<old, q>> \notin missed',
                      task'[old][q] # "accepted",
                      NEW x \in audience'[old][q] \cap held'
               PROVE  last'[x][v] = old
                      \/ (task'[old][q] = "dispatch" /\ x \in remaining'[old][q])
    BY <1>1 DEF ReachedFor
  <2>1. last[x][v] = old \/ (task[old][q] = "dispatch" /\ x \in remaining[old][q])
    BY <1>0, <1>1 DEF ReachedFor
  <2> QED BY <1>1, <2>1
<1>2. ASSUME NEW r \in Position, ProcessPosition(r) PROVE Good
  <2>1. old # 0 => task'[old][q] = task[old][q]
    BY <1>0, <1>2, Arrives DEF Accepted
  <2> QED BY <1>1, <1>2, <2>1 DEF ProcessPosition, historyVars, viewVars
<1>3. ASSUME NEW r \in Reports, NEW p \in Profiles, Work(r, p) PROVE Good
  <2>1. CASE TestTimeout(r, p) \/ EnterTestNewer(r, p) \/ Abandon(r, p)
    <3>1. /\ UNCHANGED <<positionMap, overlapped, missed, audience, held, last, remaining>>
          /\ task[r][p] \in {"offered", "timely"} /\ \E e : task' = Set(task, r, p, e)
      BY <2>1 DEF TestTimeout, EnterTestNewer, Abandon, historyVars, viewVars
    <3>2. old # 0 => task'[old][q] = task[old][q]
      BY <1>0, <3>1, Cells DEF Accepted
    <3> QED BY <1>1, <3>1, <3>2
  <2>2. CASE ExitTestNewer(r, p)
    <3>1. /\ UNCHANGED <<missed, audience, held, last, remaining, identity>>
          /\ task[r][p] \in {"newer", "older"}
          /\ overlapped \subseteq overlapped'
      BY <2>2 DEF ExitTestNewer, viewVars
    <3>2. GetIdentity(r) = identity[r] /\ identity[r] \in Vessels
      BY <3>1, IdentityIsVessel, UnresolvedAssumption DEF TypeOK
    <3>3. \A e : task' = Set(task, r, p, e) =>
            task'[r][p] = e /\ (old # 0 => task'[old][q] = task[old][q])
      BY <1>0, <3>1, Cells DEF Accepted
    <3>4. CASE /\ positionMap' = [positionMap EXCEPT ![p][identity[r]] = r]
               /\ task' = Set(task, r, p, "accepted")
      <4>1. positionMap'[q][v] = IF q = p /\ v = identity[r] THEN r ELSE old
        BY <3>2, <3>4 DEF TypeOK
      <4> QED BY <1>1, <3>1, <3>3, <3>4, <4>1 DEF ReachedFor
    <3>5. CASE positionMap' = positionMap /\ task' = Set(task, r, p, "done")
      BY <1>1, <3>1, <3>3, <3>5
    <3> QED BY <2>2, <3>2, <3>4, <3>5 DEF ExitTestNewer
  <2>3. CASE BeginDispatch(r, p)
    <3>1. /\ UNCHANGED <<positionMap, overlapped, missed, held, last>>
          /\ task[r][p] = "accepted" /\ task' = Set(task, r, p, "dispatch")
          /\ remaining' = Set(remaining, r, p, ViewsOf(p))
          /\ audience' = Set(audience, r, p, ViewsOf(p))
      BY <2>3 DEF BeginDispatch, viewVars
    <3>2. CASE old = r /\ q = p
      BY <3>1, <3>2, Cells DEF Set, ReachedFor, TypeOK
    <3>3. CASE ~ (old = r /\ q = p)
      <4>1. old # 0 => /\ task'[old][q] = task[old][q]
                       /\ audience'[old][q] = audience[old][q]
                       /\ remaining'[old][q] = remaining[old][q]
        BY <1>0, <3>1, <3>3, Cells DEF Set, TypeOK
      <4> QED BY <1>1, <3>1, <4>1
    <3> QED BY <3>2, <3>3
  <2>4. ASSUME NEW y \in ViewIds, Deliver(r, p, y) PROVE Good
    <3>1. /\ UNCHANGED <<positionMap, overlapped, missed, held, audience, task, identity>>
          /\ task[r][p] = "dispatch" /\ y \in remaining[r][p]
          /\ last' = [last EXCEPT ![y][identity[r]] = r]
          /\ remaining' = Set(remaining, r, p, remaining[r][p] \ {y})
      BY <2>4 DEF Deliver, viewVars, historyVars
    <3>2. CASE <<q, v>> \in overlapped \/ old = 0
      BY <3>1, <3>2 DEF ReachedFor
    <3>3. CASE <<q, v>> \notin overlapped /\ old # 0
      <4>1. ASSUME NEW x \in audience[old][q] \cap held
            PROVE  /\ last'[x][v] = last[x][v] \/ last'[x][v] = old
                   /\ x \in remaining'[old][q] \/ x \notin remaining[old][q]
                      \/ last'[x][v] = old
        <5>1. x \in ViewIds /\ profileOf[x] = q
          BY <1>0, <3>3 DEF Own
        <5>2. last'[x][v] = IF x = y /\ identity[r] = v THEN r ELSE last[x][v]
          BY <3>1, <5>1 DEF TypeOK
        <5>3. x = y /\ identity[r] = v => r = old
          <6>1. x = y => p = q
            BY <3>1, <5>1 DEF Own
          <6> QED BY <3>1, <3>3, <6>1 DEF Alone, Accepted
        <5>4. x \in remaining'[old][q] \/ x \notin remaining[old][q]
              \/ (old = r /\ q = p /\ x = y)
          BY <1>0, <3>1, <3>3 DEF Set, TypeOK
        <5> QED BY <1>0, <3>3, <5>2, <5>3, <5>4
      <4> QED BY <1>1, <3>1, <4>1
    <3> QED BY <3>2, <3>3
  <2>5. CASE ViewThrows(r, p)
    <3>1. /\ UNCHANGED <<positionMap, overlapped, held, audience, last>>
          /\ missed' = missed \cup {<<r, p>>}
          /\ \E e : task' = Set(task, r, p, e)
          /\ remaining' = Set(remaining, r, p, {})
      BY <2>5 DEF ViewThrows, viewVars
    <3>2. CASE old = r /\ q = p
      BY <3>1, <3>2 DEF ReachedFor
    <3>3. CASE ~ (old = r /\ q = p)
      <4>1. old # 0 => /\ task'[old][q] = task[old][q]
                       /\ remaining'[old][q] = remaining[old][q]
        BY <1>0, <3>1, <3>3, Cells DEF Set, TypeOK
      <4> QED BY <1>1, <3>1, <4>1
    <3> QED BY <3>2, <3>3
  <2>6. CASE EndDispatch(r, p)
    <3>1. /\ UNCHANGED <<positionMap, overlapped, missed, held, audience, last, remaining>>
          /\ task[r][p] = "dispatch" /\ remaining[r][p] = {}
          /\ \E e \in {"failed", "done"} : task' = Set(task, r, p, e)
      BY <2>6 DEF EndDispatch, viewVars, historyVars
    <3>2. CASE old = r /\ q = p
      BY <1>0, <3>1, <3>2, Cells DEF ReachedFor
    <3>3. CASE ~ (old = r /\ q = p)
      <4>1. old # 0 => task'[old][q] = task[old][q]
        BY <1>0, <3>1, <3>3, Cells
      <4> QED BY <1>1, <3>1, <4>1
    <3> QED BY <3>2, <3>3
  <2> QED BY <1>3, <2>1, <2>2, <2>3, <2>4, <2>5, <2>6 DEF Work
<1>4. CASE UNCHANGED <<reportVars, identity, positionMap, monitor, task, last, overlapped,
                       audience>>
  <2>1. /\ UNCHANGED <<positionMap, overlapped, audience, task, last>>
    BY <1>4
  <2>2. ASSUME NEW n \in Names, Register(n) PROVE Good
    <3>1. /\ held' = held \cup {viewIdSequence} /\ viewIdSequence \in ViewIds
          /\ UNCHANGED <<missed, remaining>>
      BY <2>2 DEF Register, historyVars
    <3>2. old # 0 => viewIdSequence \notin audience[old][q]
      <4>1. profileOf[viewIdSequence] = 0
        BY <3>1 DEF TypeOK, ViewIds
      <4> QED BY <1>0, <3>1, <4>1 DEF Own, Profiles
    <3> QED BY <1>1, <2>1, <3>1, <3>2
  <2>3. CASE AddView
    <3> DEFINE p == profileOf[registering]
               walking == {r \in Reports : task[r][p] = "dispatch"}
    <3>1. PICK rest \in [walking -> SUBSET (ViewsOf(p) \cup {registering})] :
            /\ remaining' = [r \in Reports |->
                               IF r \in walking THEN [remaining[r] EXCEPT ![p] = rest[r]]
                               ELSE remaining[r]]
            /\ missed' = missed \cup
                 {<<r, p>> : r \in {s \in walking : ~ remaining[s][p] \subseteq rest[s]}}
      BY <2>3 DEF AddView
    <3>2. held' = held
      BY <2>3 DEF AddView
    <3>3. CASE old # 0 /\ old \in walking /\ q = p
      <4>1. remaining'[old][q] = rest[old]
        BY <1>0, <3>1, <3>3 DEF TypeOK
      <4>2. <<old, q>> \in missed' \/ remaining[old][q] \subseteq rest[old]
        BY <1>0, <3>1, <3>3
      <4>3. missed \subseteq missed'
        BY <3>1
      <4> QED BY <1>1, <2>1, <3>2, <4>1, <4>2, <4>3
    <3>4. CASE ~ (old # 0 /\ old \in walking /\ q = p)
      <4>1. old # 0 => remaining'[old][q] = remaining[old][q]
        BY <1>0, <3>1, <3>4 DEF TypeOK
      <4>2. missed \subseteq missed'
        BY <3>1
      <4> QED BY <1>1, <2>1, <3>2, <4>1, <4>2
    <3> QED BY <3>3, <3>4
  <2>4. ASSUME NEW y \in ViewIds, DropView(y) PROVE Good
    BY <1>1, <2>1, <2>4 DEF DropView, historyVars
  <2>5. ASSUME NEW y \in ViewIds, CollectView(y) PROVE Good
    <3>1. y \notin held /\ held' = held /\ missed' = missed
          /\ remaining' = [r \in Reports |-> [p \in Profiles |-> remaining[r][p] \ {y}]]
      BY <2>5 DEF CollectView, historyVars
    <3> QED BY <1>0, <1>1, <2>1, <3>1
  <2>6. CASE UNCHANGED <<held, missed, remaining>>
    BY <1>1, <2>1, <2>6
  <2> QED
    BY <1>2, <1>3, <2>2, <2>3, <2>4, <2>5, <2>6
    DEF Next, Wait, vars, Tick, ReassignIdentity, RegisterUnknown, CollectProfile, viewVars,
        historyVars
<1> QED BY <1>2, <1>3, <1>4, Elsewhere

-----------------------------------------------------------------------------
(* The theorems.                                                           *)
Safety ==
  /\ TypeOK /\ Registration
  /\ HeldViewsAreServed /\ Named
  /\ Guarded /\ Filed
  /\ Own /\ Alone /\ Reached

LEMMA SafetyHolds == Spec => []Safety
<1>1. Init => Safety
  BY InitTypes, ServedInit, GuardedInit, FiledInit, OwnInit, AloneInit, ReachedInit DEF Safety
<1>2. Safety /\ [Next]_vars => Safety'
  BY TypesKept, ServedKept, GuardedKept, FiledKept, OwnKept, AloneKept, ReachedKept DEF Safety
<1> QED BY <1>1, <1>2, PTL DEF Spec

\* What was not created yet is empty, and every reference is to something that exists:
\* for any number of reports, profiles, views and vessels.
THEOREM ServiceTypeCorrect == Spec => []TypeOK
<1>1. Safety => TypeOK
  BY DEF Safety
<1> QED BY <1>1, SafetyHolds, PTL

\* A view that is held is among the views of its profile, which is the one in the cache,
\* whatever the collector takes and in whichever order pages come and go.
THEOREM ServiceHeldViewsAreServed == Spec => []HeldViewsAreServed
<1>1. Safety => HeldViewsAreServed
  BY DEF Safety
<1> QED BY <1>1, SafetyHolds, PTL

\* Every profile files a report under one identity, although the identifier may change
\* hands between two profiles.
THEOREM ServiceOneIdentity == Spec => []OneIdentity
<1>1. Safety => OneIdentity
  BY DEF Safety, Filed, OneIdentity
<1> QED BY <1>1, SafetyHolds, PTL

\* An entry of positionMap is only replaced by a newer report, whatever threads race.
THEOREM ServiceNeverBackInTime == Spec => NeverBackInTime
<1> DEFINE Back == \A p \in Profiles, v \in Vessels :
                     (positionMap'[p][v] # positionMap[p][v] /\ positionMap[p][v] # 0)
                       => position[positionMap'[p][v]].ts > position[positionMap[p][v]].ts
<1>1. Safety /\ [Next]_vars => [Back]_vars
  <2> SUFFICES ASSUME Safety, [Next]_vars, NEW p \in Profiles, NEW v \in Vessels,
                      positionMap'[p][v] # positionMap[p][v], positionMap[p][v] # 0
               PROVE  position[positionMap'[p][v]].ts > position[positionMap[p][v]].ts
    OBVIOUS
  <2>1. positionMap' # positionMap
    OBVIOUS
  <2>2. PICK r \in Reports, q \in Profiles : ExitTestNewer(r, q)
    <3>1. ASSUME NEW r \in Reports, NEW q \in Profiles, Work(r, q) PROVE ExitTestNewer(r, q)
      BY <2>1, <3>1
      DEF Work, TestTimeout, EnterTestNewer, BeginDispatch, Deliver, ViewThrows, EndDispatch,
          Abandon
    <3>2. ~ \E x \in Position : ProcessPosition(x)
      BY <2>1 DEF ProcessPosition
    <3> QED BY <2>1, <3>1, <3>2, Elsewhere
  <2>3. /\ task[r][q] = "newer"
        /\ positionMap' = [positionMap EXCEPT ![q][GetIdentity(r)] = r]
    BY <2>1, <2>2 DEF ExitTestNewer
  <2>4. GetIdentity(r) = identity[r] /\ identity[r] \in Vessels
    BY <2>3, IdentityIsVessel, UnresolvedAssumption DEF Safety, TypeOK
  <2>5. q = p /\ v = identity[r] /\ positionMap'[p][v] = r
    BY <2>3, <2>4 DEF Safety, TypeOK
  <2>6. Newer(r, positionMap[p][v])
    BY <2>3, <2>5 DEF Safety, Guarded
  <2> QED BY <2>5, <2>6 DEF Newer
<1> QED BY <1>1, SafetyHolds, PTL DEF Spec, NeverBackInTime

\* The views have processed what their profile holds as newest, if no two reports of the
\* vessel were handed out at once and nothing cut the hand-out short.
THEOREM ServiceViewsHaveNewest == Spec => []ViewsHaveNewest
<1>1. Safety => ViewsHaveNewest
  <2> SUFFICES ASSUME Safety, NEW p \in Profiles, NEW v \in Vessels, positionMap[p][v] # 0,
                      <<p, v>> \notin overlapped, <<positionMap[p][v], p>> \notin missed,
                      \A s \in Reports : task[s][p] \in Accepted => identity[s] # v
               PROVE  \A x \in audience[positionMap[p][v]][p] \cap held :
                        last[x][v] = positionMap[p][v]
    BY DEF ViewsHaveNewest
  <2>1. positionMap[p][v] \in Reports
    BY BoundsAssumption DEF Safety, TypeOK, Reports
  <2>2. task[positionMap[p][v]][p] \notin Accepted
    BY <2>1 DEF Safety, Filed
  <2> QED BY <2>2 DEF Safety, Reached, Accepted
<1> QED BY <1>1, SafetyHolds, PTL
=============================================================================
