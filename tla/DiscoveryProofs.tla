-------------------------- MODULE DiscoveryProofs --------------------------
(***************************************************************************)
(* For any registry, any routes and any number of failures of any kind:    *)
(* the state has its type, at most one goroutine is inside an apply, and   *)
(* the fingerprint names the routes Caddy serves but for two failures that *)
(* make it wrong until it is mended.                                       *)
(***************************************************************************)
EXTENDS Discovery, TLAPS

\* The goroutines Run starts, and that nobody is none of them.
LEMMA ThreadsFact ==
    Nobody \notin Threads /\ "watch" \in Threads
BY FaultAssumption DEF Threads, Nobody

\* The routes of a view, as the constants give them.
LEMMA RoutesFact ==
    /\ NoRoute \in Routes
    /\ \A v \in Views : RoutesOf[v] \in Routes /\ Cleaned[v] \in Views
    /\ EmptyView \in Views
    /\ RoutesOf[EmptyView] = NoRoute
BY ViewAssumption DEF Routes

\* What LastError can say.
LEMMA ErrorsFact == "none" \in Errors /\ "stream" \in Errors /\ "list" \in Errors
BY DEF Errors

\* reloadCaddyConfig's locals before it runs.
LEMMA NoReloadType == NoReload \in Reload
BY RoutesFact, ErrorsFact DEF NoReload, Reload

\* Moving one goroutine to another stage.
LEMMA GotoType ==
    ASSUME TypeOK, NEW g \in Threads, NEW stage \in Stages, Goto(g, stage)
    PROVE  /\ pc' \in [Threads -> Stages]
           /\ pc'[g] = stage
           /\ \A h \in Threads \ {g} : pc'[h] = pc[h]
BY DEF TypeOK, Goto

\* discovery.go, cmd.go:152-172 and caddy.go:192-224: every action keeps the state in its
\* type.
THEOREM TypeCorrect == Spec => []TypeOK
<1> USE FaultAssumption, ThreadsFact, RoutesFact, ErrorsFact, NoReloadType
<1>1. Init => TypeOK
  <2> SUFFICES ASSUME Init PROVE TypeOK
    OBVIOUS
  <2>1. registry \in Views
    BY DEF Init
  <2>2. fingerprint \in Fingerprint /\ page \in [view: Views, err: Errors]
    BY <2>1 DEF Init, Fingerprint
  <2>3. pc \in [Threads -> Stages] /\ held \in [Threads -> Views]
    BY DEF Init, Stages
  <2>4. prevRoutes \in Routes /\ live \in Routes /\ hosts \in Routes
    BY <2>1 DEF Init
  <2>5. /\ world \in Views /\ stream \in {"up", "broken", "down"} /\ pending \in BOOLEAN
        /\ lastError \in Errors /\ holder \in Threads \cup {Nobody} /\ reload \in Reload
    BY DEF Init
  <2>6. faults \in 0 .. MaxFaults
    BY DEF Init
  <2>7. failed \subseteq {"reconcile", "page"} /\ drifted \in BOOLEAN
    BY DEF Init
  <2> QED
    BY <2>1, <2>2, <2>3, <2>4, <2>5, <2>6, <2>7 DEF TypeOK
<1>2. TypeOK /\ [Next]_vars => TypeOK'
  <2> SUFFICES ASSUME TypeOK, [Next]_vars PROVE TypeOK'
    OBVIOUS
  <2>1. CASE Change \/ Break \/ Connect
    <3>1. world' \in Views /\ pending' \in BOOLEAN /\ stream' \in {"up", "broken", "down"}
      BY <2>1 DEF TypeOK, Change, Break, Connect
    <3>2. faults' \in 0 .. MaxFaults
      BY <2>1 DEF TypeOK, Change, Break, Connect, Fault, status
    <3>3. UNCHANGED <<pc, held, registry, lastError, holder, reload, prevRoutes,
                      fingerprint, live, page, hosts, failed, drifted>>
      BY <2>1 DEF Change, Break, Connect, status, outside
    <3> QED
      BY <3>1, <3>2, <3>3 DEF TypeOK
  <2>2. CASE StreamEnd
    <3>1. UNCHANGED <<world, pc, held, registry, holder, reload, prevRoutes,
                      fingerprint, live, page, hosts, faults, failed, drifted>>
      BY <2>2 DEF StreamEnd, outside
    <3>2. stream' = "down" /\ pending' = FALSE /\ lastError' = "stream"
      BY <2>2 DEF StreamEnd
    <3> QED
      BY <3>1, <3>2 DEF TypeOK
  <2>3. CASE Throttle
    <3>1. pc' \in [Threads -> Stages]
      BY <2>3, GotoType DEF Throttle, Stages
    <3> QED
      BY <2>3, <3>1 DEF TypeOK, Throttle, status, outside
  <2>5. CASE StaleTick
    <3>1. pc' \in [Threads -> Stages]
      BY <2>5, GotoType DEF StaleTick, Stages
    <3>2. registry' \in Views
      BY <2>5 DEF StaleTick, TypeOK
    <3> QED
      BY <2>5, <3>1, <3>2 DEF TypeOK, StaleTick, status, outside
  <2>6. ASSUME NEW g \in Threads, Refresh(g) PROVE TypeOK'
    <3>1. CASE List(g)
      <4>1. pc' \in [Threads -> Stages]
        BY <3>1, GotoType DEF List, Stages
      <4>2. held' \in [Threads -> Views] /\ lastError' \in Errors /\ faults' \in 0 .. MaxFaults
        BY <3>1 DEF List, TypeOK, Fault, status
      <4> QED
        BY <3>1, <4>1, <4>2 DEF TypeOK, List, outside
    <3>2. CASE Fold(g)
      <4>1. pc' \in [Threads -> Stages]
        BY <3>2, GotoType DEF Fold, Stages
      <4>2. held' \in [Threads -> Views] /\ registry' \in Views
        BY <3>2 DEF Fold, TypeOK
      <4> QED
        BY <3>2, <4>1, <4>2 DEF TypeOK, Fold, status, outside
    <3>3. CASE ClearError(g)
      <4>1. pc' \in [Threads -> Stages]
        BY <3>3, GotoType DEF ClearError, Stages
      <4> QED
        BY <3>3, <4>1 DEF TypeOK, ClearError, outside
    <3> QED
      BY <2>6, <3>1, <3>2, <3>3 DEF Refresh
  <2>7. ASSUME NEW g \in Threads, Apply(g) PROVE TypeOK'
    <3>1. CASE TryBeginApply(g)
      <4>1. pc' \in [Threads -> Stages]
        BY <3>1, GotoType DEF TryBeginApply, Stages
      <4>2. holder' \in Threads \cup {Nobody} /\ reload' \in Reload
        BY <3>1 DEF TryBeginApply, TypeOK, Reload
      <4> QED
        BY <3>1, <4>1, <4>2 DEF TypeOK, TryBeginApply, status, outside
    <3>2. CASE ReadStatus(g)
      <4>1. pc' \in [Threads -> Stages]
        BY <3>2, GotoType DEF ReadStatus, Stages
      <4>2. reload' \in Reload
        BY <3>2 DEF ReadStatus, TypeOK, Reload
      <4> QED
        BY <3>2, <4>1, <4>2 DEF TypeOK, ReadStatus, status, outside
    <3>3. CASE Compare(g)
      <4>1. pc' \in [Threads -> Stages]
        BY <3>3, GotoType DEF Compare, Stages
      <4>2. reload' \in Reload
        BY <3>3 DEF Compare, TypeOK, Reload
      <4> QED
        BY <3>3, <4>1, <4>2 DEF TypeOK, Compare, status, outside
    <3>4. CASE ReconcileDevlocal(g)
      <4>1. pc' \in [Threads -> Stages]
        BY <3>4, GotoType DEF ReconcileDevlocal, Stages
      <4>2. reload' \in Reload /\ reload.routes \in Routes
        BY <3>4 DEF ReconcileDevlocal, TypeOK, Reload
      <4>3. live' \in Routes /\ prevRoutes' \in Routes /\ faults' \in 0 .. MaxFaults
        BY <3>4, <4>2 DEF ReconcileDevlocal, TypeOK, Patched, Fault
      <4> QED
        BY <3>4, <4>1, <4>2, <4>3 DEF TypeOK, ReconcileDevlocal
    <3>5. CASE WriteIndexArtifacts(g)
      <4>1. pc' \in [Threads -> Stages]
        BY <3>5, GotoType DEF WriteIndexArtifacts, Stages
      <4>2. FingerprintState(reload, reload.view) \in Fingerprint
            /\ [view |-> registry, err |-> reload.err] \in [view: Views, err: Errors]
        BY DEF FingerprintState, TypeOK, Fingerprint, Reload
      <4>3. page' \in [view: Views, err: Errors] /\ fingerprint' \in Fingerprint
            /\ faults' \in 0 .. MaxFaults
        BY <3>5, <4>2 DEF WriteIndexArtifacts, TypeOK, Fault
      <4> QED
        BY <3>5, <4>1, <4>3 DEF TypeOK, WriteIndexArtifacts
    <3>6. CASE SyncHosts(g)
      <4>1. pc' \in [Threads -> Stages]
        BY <3>6, GotoType DEF SyncHosts, Stages
      <4>2. hosts' \in Routes /\ faults' \in 0 .. MaxFaults
        BY <3>6 DEF SyncHosts, TypeOK, Fault
      <4> QED
        BY <3>6, <4>1, <4>2 DEF TypeOK, SyncHosts
    <3> QED
      BY <2>7, <3>1, <3>2, <3>3, <3>4, <3>5, <3>6 DEF Apply
  <2>8. CASE UNCHANGED vars
    BY <2>8 DEF TypeOK, vars
  <2> QED
    BY <2>1, <2>2, <2>3, <2>5, <2>6, <2>7, <2>8 DEF Next
<1> QED
  BY <1>1, <1>2, PTL DEF Spec

---------------------------------------------------------------------------
(* The lock *)

Inside == {"status", "compare", "reconcile", "write", "hosts"}

\* A goroutine that is not inside an apply, and does not go in, leaves the lock alone.
LEMMA OutsideStep ==
    ASSUME TypeOK, OneApply, NEW g \in Threads, NEW stage \in Stages \ Inside,
           pc[g] \notin Inside, Goto(g, stage), holder' = holder
    PROVE  OneApply'
BY GotoType DEF OneApply, Inside

\* One inside it that goes on to the next step keeps it.
LEMMA InsideStep ==
    ASSUME TypeOK, OneApply, NEW g \in Threads, NEW stage \in Stages \cap Inside,
           pc[g] \in Inside, Goto(g, stage), holder' = holder
    PROVE  OneApply'
BY GotoType DEF OneApply, Inside

\* applyMu through every action.
LEMMA LockStep ==
    ASSUME TypeOK, OneApply, [Next]_vars
    PROVE  OneApply'
<1>1. CASE UNCHANGED <<pc, holder>>
  BY <1>1 DEF OneApply
<1>2. CASE Throttle
  BY <1>2, OutsideStep, ThreadsFact DEF Throttle, Selecting, Stages, Inside
<1>4. CASE StaleTick
  BY <1>4, OutsideStep, ThreadsFact DEF StaleTick, Stages, Inside
<1>5. ASSUME NEW g \in Threads, Refresh(g) PROVE OneApply'
  BY <1>5, OutsideStep DEF Refresh, List, Lists, Fold, ClearError, Stages, Inside
<1>6. ASSUME NEW g \in Threads, TryBeginApply(g) PROVE OneApply'
  <2>1. CASE holder = Nobody
    <3>1. Goto(g, "status") /\ holder' = g
      BY <1>6, <2>1 DEF TryBeginApply
    <3>2. \A h \in Threads : pc[h] \notin Inside
      BY <2>1, ThreadsFact DEF OneApply, Inside
    <3>3. pc'[g] = "status" /\ \A h \in Threads \ {g} : pc'[h] = pc[h]
      BY <3>1, GotoType DEF Stages
    <3> QED
      BY <3>1, <3>2, <3>3 DEF OneApply, Inside
  <2>2. CASE holder # Nobody
    BY <1>6, <2>2, OutsideStep DEF TryBeginApply, Stages, Inside
  <2> QED
    BY <2>1, <2>2
<1>7. ASSUME NEW g \in Threads,
             ReadStatus(g) \/ Compare(g) \/ ReconcileDevlocal(g) \/ WriteIndexArtifacts(g)
      PROVE  OneApply'
  BY <1>7, InsideStep
     DEF ReadStatus, Compare, ReconcileDevlocal, WriteIndexArtifacts, Stages, Inside
<1>8. ASSUME NEW g \in Threads, SyncHosts(g) PROVE OneApply'
  <2>1. pc[g] = "hosts" /\ holder' = Nobody /\ Goto(g, "wait")
    BY <1>8 DEF SyncHosts
  <2>2. pc'[g] = "wait" /\ \A h \in Threads \ {g} : pc'[h] = pc[h]
    BY <2>1, GotoType DEF Stages
  <2>3. \A h \in Threads \ {g} : pc[h] \notin Inside
    BY <2>1 DEF OneApply, Inside
  <2> QED
    BY <2>1, <2>2, <2>3, ThreadsFact DEF OneApply, Inside
<1>9. CASE Change \/ Break \/ Connect \/ StreamEnd \/ UNCHANGED vars
  BY <1>1, <1>9 DEF Change, Break, Connect, StreamEnd, vars
<1> QED
  BY <1>2, <1>4, <1>5, <1>6, <1>7, <1>8, <1>9 DEF Next, Apply

\* admin.go:40-46, cmd.go:152-172: applyMu lets at most one goroutine into an apply, and
\* the deferred endApply lets go of it on every way out.
THEOREM LockTheorem == Spec => []OneApply
<1>1. Init => OneApply
  BY ThreadsFact DEF Init, OneApply
<1> QED
  BY <1>1, LockStep, TypeCorrect, PTL DEF Spec

---------------------------------------------------------------------------
(* The fingerprint *)

\* What devlocal knows of Caddy, and what the fingerprint says of it: while the page is
\* being written it lags behind, and is right afterwards because of what the reload under
\* way knows.
HonestInv ==
    /\ ~drifted => live = prevRoutes
    /\ \A g \in Threads : pc[g] \in {"status", "compare", "reconcile"} => reload.ok
    /\ \A g \in Threads : pc[g] = "write" =>
          IF reload.ok THEN reload.routes = prevRoutes
          ELSE "page" \notin failed => fingerprint.routes = prevRoutes
    /\ (\A g \in Threads : pc[g] # "write") /\ "page" \notin failed
          => fingerprint.routes = prevRoutes

Reloading == <<reload, prevRoutes, fingerprint, live, failed, drifted>>

\* A step that leaves all that alone, of a goroutine that goes to none of these stages.
LEMMA ElsewhereStep ==
    ASSUME TypeOK, HonestInv, UNCHANGED Reloading, NEW g \in Threads,
           NEW stage \in Stages \ {"status", "compare", "reconcile", "write"},
           pc[g] # "write", Goto(g, stage)
    PROVE  HonestInv'
BY GotoType DEF HonestInv, Reloading

\* The fingerprint through every action; only the holder of the lock touches it.
LEMMA HonestStep ==
    ASSUME TypeOK, OneApply, HonestInv, [Next]_vars
    PROVE  HonestInv'
<1>1. CASE UNCHANGED <<pc, Reloading>>
  BY <1>1 DEF HonestInv, Reloading
<1>2. CASE Change \/ Break \/ Connect \/ StreamEnd \/ UNCHANGED vars
  BY <1>1, <1>2 DEF Change, Break, Connect, StreamEnd, vars, outside, Reloading
<1>3. CASE Throttle
  BY <1>3, ElsewhereStep, ThreadsFact DEF Throttle, Selecting, Stages, outside, Reloading
<1>5. CASE StaleTick
  BY <1>5, ElsewhereStep, ThreadsFact DEF StaleTick, Stages, outside, Reloading
<1>6. ASSUME NEW g \in Threads, Refresh(g) PROVE HonestInv'
  BY <1>6, ElsewhereStep DEF Refresh, List, Lists, Fold, ClearError, Stages, outside, Reloading
<1>7. ASSUME NEW g \in Threads, TryBeginApply(g) PROVE HonestInv'
  <2>1. CASE holder = Nobody
    <3>1. Goto(g, "status") /\ reload'.ok /\ UNCHANGED <<prevRoutes, fingerprint, live, failed, drifted>>
      BY <1>7, <2>1 DEF TryBeginApply, NoReload, outside
    <3>2. \A h \in Threads : pc[h] \notin Inside
      BY <2>1, ThreadsFact DEF OneApply, Inside
    <3>3. pc'[g] = "status" /\ \A h \in Threads \ {g} : pc'[h] = pc[h]
      BY <3>1, GotoType DEF Stages
    <3>4. \A h \in Threads : pc[h] # "write" /\ pc'[h] # "write"
      BY <3>2, <3>3 DEF Inside
    <3> QED
      BY <3>1, <3>4 DEF HonestInv
  <2>2. CASE holder # Nobody
    BY <1>7, <2>2, ElsewhereStep DEF TryBeginApply, Stages, outside, Reloading
  <2> QED
    BY <2>1, <2>2
<1>8. ASSUME NEW g \in Threads, ReadStatus(g) \/ Compare(g) PROVE HonestInv'
  <2>1. /\ pc[g] \in {"status", "compare"}
        /\ UNCHANGED <<prevRoutes, fingerprint, live, failed, drifted>>
        /\ reload.ok => reload'.ok
    BY <1>8 DEF ReadStatus, Compare, NoReload, outside, TypeOK, Reload
  <2>2. pc'[g] # "write" /\ \A h \in Threads \ {g} : pc'[h] = pc[h]
    BY <1>8, GotoType DEF ReadStatus, Compare, Stages
  <2>3. \A h \in Threads \ {g} : pc[h] \notin Inside
    BY <2>1 DEF OneApply, Inside
  <2>4. \A h \in Threads : pc[h] # "write" /\ pc'[h] # "write"
    BY <2>1, <2>2, <2>3 DEF Inside
  <2> QED
    BY <2>1, <2>4 DEF HonestInv
<1>9. ASSUME NEW g \in Threads, ReconcileDevlocal(g) PROVE HonestInv'
  <2>1. pc[g] = "reconcile" /\ Goto(g, "write") /\ fingerprint' = fingerprint
    BY <1>9 DEF ReconcileDevlocal
  <2>2. pc'[g] = "write" /\ \A h \in Threads \ {g} : pc'[h] = pc[h]
    BY <2>1, GotoType DEF Stages
  <2>3. \A h \in Threads \ {g} : pc[h] \notin Inside
    BY <2>1 DEF OneApply, Inside
  <2>4. \A h \in Threads : pc'[h] \in Inside => h = g
    BY <2>2, <2>3
  <2>5. /\ reload.ok
        /\ ~drifted => live = prevRoutes
        /\ "page" \notin failed => fingerprint.routes = prevRoutes
    BY <2>1, <2>3 DEF HonestInv, Inside
  <2>6. CASE /\ ~Conflict(reload.routes) /\ live' = Patched(reload.routes)
             /\ prevRoutes' = reload.routes
             /\ drifted' = (drifted /\ reload.routes = prevRoutes)
             /\ UNCHANGED <<reload, failed>>
    <3>1. ~drifted' => live' = prevRoutes'
      <4>1. drifted' <=> drifted /\ reload.routes = prevRoutes
        BY <2>6, Zenon
      <4>2. CASE reload.routes = prevRoutes
        <5>1. live' = live /\ prevRoutes' = prevRoutes
          BY <2>6, <4>2 DEF Patched
        <5>2. ~drifted' => ~drifted
          BY <4>1, <4>2
        <5>3. ~drifted => live = prevRoutes
          BY <2>5
        <5> QED
          BY <5>1, <5>2, <5>3
      <4>3. CASE reload.routes # prevRoutes
        BY <2>6, <4>3 DEF Patched
      <4> QED
        BY <4>2, <4>3
    <3>2. reload'.ok /\ reload'.routes = prevRoutes'
      BY <2>1, <2>6 DEF HonestInv
    <3> QED
      BY <2>1, <2>2, <2>4, <3>1, <3>2 DEF HonestInv, Inside
  <2>7. CASE /\ ~reload'.ok /\ prevRoutes' = prevRoutes
             /\ failed' = failed \cup {"reconcile"}
             /\ drifted' \/ UNCHANGED <<live, drifted>>
    <3>1. ~drifted' => live' = prevRoutes'
      <4>1. ~drifted => live = prevRoutes
        BY <2>5
      <4> QED
        BY <2>7, <4>1
    <3>2. "page" \notin failed' => fingerprint'.routes = prevRoutes'
      BY <2>1, <2>5, <2>7
    <3> QED
      BY <2>2, <2>4, <2>7, <3>1, <3>2 DEF HonestInv, Inside
  <2> QED
    BY <1>9, <2>6, <2>7 DEF ReconcileDevlocal, TypeOK, Reload
<1>10. ASSUME NEW g \in Threads, WriteIndexArtifacts(g) PROVE HonestInv'
  <2>1. /\ pc[g] = "write" /\ Goto(g, "hosts")
        /\ UNCHANGED <<prevRoutes, live, drifted>>
    BY <1>10 DEF WriteIndexArtifacts
  <2>2. pc'[g] = "hosts" /\ \A h \in Threads \ {g} : pc'[h] = pc[h]
    BY <2>1, GotoType DEF Stages
  <2>3. \A h \in Threads : pc'[h] \in Inside => h = g
    BY <2>1, <2>2 DEF OneApply, Inside
  <2>4. "page" \notin failed' => fingerprint'.routes = prevRoutes
    <3>1. CASE "page" \in failed'
      BY <3>1
    <3>2. CASE "page" \notin failed'
      <4>1. IF reload.ok
            THEN fingerprint' = FingerprintState(reload, reload.view) /\ failed' = {}
            ELSE UNCHANGED <<fingerprint, failed>>
        BY <1>10, <3>2 DEF WriteIndexArtifacts
      <4> QED
        BY <2>1, <3>2, <4>1 DEF HonestInv, FingerprintState
    <3> QED
      BY <3>1, <3>2
  <2> QED
    BY <2>1, <2>2, <2>3, <2>4 DEF HonestInv, Inside
<1>11. ASSUME NEW g \in Threads, SyncHosts(g) PROVE HonestInv'
  <2>1. pc[g] = "hosts" /\ Goto(g, "wait")
        /\ UNCHANGED <<prevRoutes, fingerprint, live, failed, drifted>>
    BY <1>11 DEF SyncHosts
  <2>2. pc'[g] = "wait" /\ \A h \in Threads \ {g} : pc'[h] = pc[h]
    BY <2>1, GotoType DEF Stages
  <2>3. \A h \in Threads \ {g} : pc[h] \notin Inside
    BY <2>1 DEF OneApply, Inside
  <2>4. \A h \in Threads : pc[h] # "write" /\ pc'[h] \notin Inside
    BY <2>1, <2>2, <2>3 DEF Inside
  <2> QED
    BY <2>1, <2>4 DEF HonestInv, Inside
<1> QED
  BY <1>2, <1>3, <1>5, <1>6, <1>7, <1>8, <1>9, <1>10, <1>11 DEF Next, Apply

\* caddy.go:192-224: whatever fails and however often, a reload that is skipped because
\* the fingerprint is unchanged loses nothing, except after a page that could not be
\* written, until a fingerprint is stored again, and after a reconcile carried out without
\* an answer, until one that is answered changes the routes.
THEOREM HonestTheorem == Spec => []FingerprintHonest
<1>1. Init => HonestInv
  BY DEF Init, HonestInv
<1>2. TypeOK /\ OneApply /\ HonestInv /\ [Next]_vars => HonestInv'
  BY HonestStep
<1>3. HonestInv => FingerprintHonest
  BY DEF HonestInv, FingerprintHonest
<1> QED
  BY <1>1, <1>2, <1>3, TypeCorrect, LockTheorem, PTL DEF Spec

=============================================================================
