----------------------------- MODULE Discovery -----------------------------
(***************************************************************************)
(* The running program: the controller's goroutines of                     *)
(* discovery/discovery.go (watchEvents, pollLoop, staleCleanup), each of   *)
(* which refreshes the registry and then applies it (applyDevlocal in      *)
(* cmd.go, reloadCaddyConfig in caddy.go), between a Docker daemon that    *)
(* changes at will and the three things the program keeps for its user:    *)
(* Caddy's routes, the index page and the hosts file.                      *)
(*                                                                         *)
(* A view stands for what one ContainerList folds the registry to (module  *)
(* Generator has the registry itself), its routes for DomainTargets of it: *)
(* NoRoute, or one route in one of several forms (module AdminAPI has the  *)
(* requests a reconcile is made of).                                       *)
(***************************************************************************)
EXTENDS Naturals

CONSTANTS
    Views,        \* what the registry can hold
    EmptyView,    \* the registry before the first refresh
    RoutesOf,     \* the routes of a view
    Cleaned,      \* the view after StaleCleanup
    Tickers,      \* the goroutines with a ticker: "poll" when cfg.PollInterval > 0, and
                  \* "stale", which is out of a run's first five minutes
    FaultKinds,   \* what can fail
    MaxFaults     \* bound: failures

NoRoute == 0
Kinds == {"list", "stream", "refuse", "partial", "artifacts", "hosts"}

ASSUME ViewAssumption ==
    /\ EmptyView \in Views
    /\ RoutesOf \in [Views -> Nat] /\ RoutesOf[EmptyView] = NoRoute
    /\ Cleaned \in [Views -> Views]
    /\ \A v \in Views : RoutesOf[Cleaned[v]] = RoutesOf[v]
ASSUME FaultAssumption ==
    Tickers \subseteq {"poll", "stale"} /\ FaultKinds \subseteq Kinds /\ MaxFaults \in Nat

VARIABLES
    world,        \* Docker: what a ContainerList answers now
    stream,       \* the event stream: "up", "broken" (not yet noticed), "down"
    pending,      \* an event to refresh for is in the stream, or noted by streamEvents
    pc,           \* where each goroutine is
    held,         \* the ContainerList answer a goroutine has in hand
    registry,     \* Generator.containers
    lastError,    \* Status.LastError
    holder,       \* who has adminAPI.applyMu, Nobody
    reload,       \* reloadCaddyConfig's locals
    prevRoutes,   \* adminAPI.prevRoutes
    fingerprint,  \* adminAPI.lastFingerprint
    live,         \* Caddy: the routes it serves
    page,         \* index.html: the registry and the error it shows
    hosts,        \* the hosts file: the routes whose domains it has
    faults,       \* failures so far
    failed,       \* history: what of a reload failed since a fingerprint was last stored
    drifted       \* history: a reconcile was carried out without an answer, and no other
                  \* has changed the routes since

status == <<lastError, faults>>
outside == <<live, page, hosts, failed, drifted>>
vars == <<world, stream, pending, pc, held, registry, lastError, holder, reload,
          prevRoutes, fingerprint, live, page, hosts, faults, failed, drifted>>

Threads == {"watch"} \cup Tickers
Nobody == "nobody"
Errors == {"none", "stream", "list"}
Routes == {NoRoute} \cup {RoutesOf[v] : v \in Views}

Stages == {"wait", "list", "fold", "clear", "apply", "status", "compare",
           "reconcile", "write", "hosts"}

Fingerprint == [routes: Routes, view: Views, err: Errors]
Reload == [routes: Routes, view: Views, err: Errors, ok: BOOLEAN]

TypeOK ==
    /\ world \in Views
    /\ stream \in {"up", "broken", "down"}
    /\ pending \in BOOLEAN
    /\ pc \in [Threads -> Stages]
    /\ held \in [Threads -> Views]
    /\ registry \in Views
    /\ lastError \in Errors
    /\ holder \in Threads \cup {Nobody}
    /\ reload \in Reload
    /\ prevRoutes \in Routes
    /\ fingerprint \in Fingerprint
    /\ live \in Routes
    /\ page \in [view: Views, err: Errors]
    /\ hosts \in Routes
    /\ faults \in 0 .. MaxFaults
    /\ failed \subseteq {"reconcile", "page"}
    /\ drifted \in BOOLEAN

NoReload == [routes |-> NoRoute, view |-> EmptyView, err |-> "none", ok |-> TRUE]

\* cmdFunc has made its first refresh, which may have failed, and its first load.
Init ==
    /\ world \in Views
    /\ registry \in {world, EmptyView}
    /\ stream = "down" /\ pending = FALSE
    /\ pc = [g \in Threads |-> "wait"]
    /\ held = [g \in Threads |-> EmptyView]
    /\ lastError = "none"
    /\ holder = Nobody
    /\ reload = NoReload
    /\ prevRoutes = RoutesOf[registry]
    /\ live = RoutesOf[registry]
    /\ hosts = RoutesOf[registry]
    /\ fingerprint = [routes |-> RoutesOf[registry], view |-> registry, err |-> "none"]
    /\ page = [view |-> registry, err |-> "none"]
    /\ faults = 0
    /\ failed = {}
    /\ drifted = FALSE

Fault(kind) == kind \in FaultKinds /\ faults < MaxFaults /\ faults' = faults + 1

Goto(g, stage) == pc' = [pc EXCEPT ![g] = stage]

---------------------------------------------------------------------------
(* Docker and its event stream *)

\* An event goes to the stream if there is one.
Change ==
    /\ \E v \in Views \ {world} : world' = v
    /\ pending' = (pending \/ stream = "up")
    /\ UNCHANGED <<stream, pc, held, registry, status, holder, reload, prevRoutes,
                   fingerprint, outside>>

Break ==
    /\ stream = "up"
    /\ Fault("stream")
    /\ stream' = "broken"
    /\ UNCHANGED <<world, pending, pc, held, registry, lastError, holder, reload,
                   prevRoutes, fingerprint, outside>>

\* After 30 seconds watchEvents asks for a new stream; what happened meanwhile is not
\* in it, and nothing is refreshed.
Connect ==
    /\ stream = "down"
    /\ stream' = "up"
    /\ UNCHANGED <<world, pending, pc, held, registry, status, holder, reload,
                   prevRoutes, fingerprint, outside>>

---------------------------------------------------------------------------
(* streamEvents: the watcher selects between the stream and the timer *)

Selecting == pc["watch"] = "wait" /\ stream # "down"

\* The stream's end may be seen before its last events; what was pending is lost.
StreamEnd ==
    /\ Selecting
    /\ stream = "broken"
    /\ stream' = "down"
    /\ pending' = FALSE
    /\ lastError' = "stream"
    /\ UNCHANGED <<world, pc, held, registry, holder, reload, prevRoutes, fingerprint,
                   outside, faults>>

Throttle ==
    /\ Selecting
    /\ pending
    /\ pending' = FALSE
    /\ Goto("watch", "list")
    /\ UNCHANGED <<world, stream, held, registry, status, holder, reload, prevRoutes,
                   fingerprint, outside>>

---------------------------------------------------------------------------
(* The other goroutines, and runRefresh *)

StaleTick ==
    /\ "stale" \in Threads
    /\ pc["stale"] = "wait"
    /\ registry' = Cleaned[registry]
    /\ Goto("stale", "apply")
    /\ UNCHANGED <<world, stream, pending, held, status, holder, reload, prevRoutes,
                   fingerprint, outside>>

\* pollLoop's tick is all that its ContainerList waits for.
Lists(g) == pc[g] = "list" \/ (g = "poll" /\ pc[g] = "wait")

List(g) ==
    /\ Lists(g)
    /\ \/ held' = [held EXCEPT ![g] = world] /\ Goto(g, "fold") /\ UNCHANGED status
       \/ Fault("list") /\ lastError' = "list" /\ Goto(g, "apply") /\ UNCHANGED held
    /\ UNCHANGED <<world, stream, pending, registry, holder, reload, prevRoutes,
                   fingerprint, outside>>

\* However old the list is.
Fold(g) ==
    /\ pc[g] = "fold"
    /\ registry' = held[g]
    /\ held' = [held EXCEPT ![g] = EmptyView]
    /\ Goto(g, "clear")
    /\ UNCHANGED <<world, stream, pending, status, holder, reload, prevRoutes,
                   fingerprint, outside>>

ClearError(g) ==
    /\ pc[g] = "clear"
    /\ lastError' = "none"
    /\ Goto(g, "apply")
    /\ UNCHANGED <<world, stream, pending, held, registry, holder, reload, prevRoutes,
                   fingerprint, outside, faults>>

---------------------------------------------------------------------------
(* applyDevlocal and reloadCaddyConfig *)

\* A variant of TryBeginApply that does not ask for the lock.
BeginApply(g) ==
    /\ pc[g] = "apply"
    /\ holder' = g
    /\ reload' = [NoReload EXCEPT !.routes = RoutesOf[registry]]
    /\ Goto(g, "status")
    /\ UNCHANGED <<world, stream, pending, held, registry, status, prevRoutes,
                   fingerprint, outside>>

\* An apply that finds another in flight is given up.  The routes are read right after
\* the lock is taken: nothing the others do in between depends on who has it.
TryBeginApply(g) ==
    /\ pc[g] = "apply"
    /\ \/ /\ holder = Nobody
          /\ holder' = g
          /\ reload' = [NoReload EXCEPT !.routes = RoutesOf[registry]]
          /\ Goto(g, "status")
       \/ holder # Nobody /\ UNCHANGED <<holder, reload>> /\ Goto(g, "wait")
    /\ UNCHANGED <<world, stream, pending, held, registry, status, prevRoutes,
                   fingerprint, outside>>

ReadStatus(g) ==
    /\ pc[g] = "status"
    /\ reload' = [reload EXCEPT !.err = lastError]
    /\ Goto(g, "compare")
    /\ UNCHANGED <<world, stream, pending, held, registry, status, holder, prevRoutes,
                   fingerprint, outside>>

\* Variants of FingerprintState: of a second DomainTargets, as in initCaddyConfig, and
\* without the error.
FingerprintRegistry(r, view) == [routes |-> RoutesOf[view], view |-> view, err |-> r.err]
FingerprintContainers(r, view) == [routes |-> r.routes, view |-> view, err |-> "none"]

FingerprintState(r, view) == [routes |-> r.routes, view |-> view, err |-> r.err]

\* Variants of Compare that return at once when nothing changed: without the hosts file,
\* and without the deferred unlock.
CompareAndReturn(g) ==
    /\ pc[g] = "compare"
    /\ LET same == FingerprintState(reload, registry) = fingerprint IN
         /\ reload' = IF same THEN NoReload ELSE [reload EXCEPT !.view = registry]
         /\ holder' = IF same THEN Nobody ELSE g
         /\ Goto(g, IF same THEN "wait" ELSE "reconcile")
    /\ UNCHANGED <<world, stream, pending, held, registry, status, prevRoutes,
                   fingerprint, outside>>

CompareAndStop(g) ==
    /\ pc[g] = "compare"
    /\ reload' = [reload EXCEPT !.view = registry]
    /\ Goto(g, IF FingerprintState(reload, registry) = fingerprint THEN "stop" ELSE "reconcile")
    /\ UNCHANGED <<world, stream, pending, held, registry, status, holder, prevRoutes,
                   fingerprint, outside>>

Compare(g) ==
    /\ pc[g] = "compare"
    /\ LET same == FingerprintState(reload, registry) = fingerprint IN
         /\ reload' = IF same THEN NoReload ELSE [reload EXCEPT !.view = registry]
         /\ Goto(g, IF same THEN "hosts" ELSE "reconcile")
    /\ UNCHANGED <<world, stream, pending, held, registry, status, holder, prevRoutes,
                   fingerprint, outside>>

\* The difference between prevRoutes and the routes asked for, carried out on what
\* Caddy really serves: an added route that is there already is refused.
Conflict(routes) == prevRoutes = NoRoute /\ routes # NoRoute /\ live # NoRoute
Patched(routes) == IF routes = prevRoutes THEN live ELSE routes

ReconcileDevlocal(g) ==
    /\ pc[g] = "reconcile"
    /\ \/ /\ ~Conflict(reload.routes)
          /\ live' = Patched(reload.routes)
          /\ prevRoutes' = reload.routes
          /\ drifted' = (drifted /\ reload.routes = prevRoutes)
          /\ UNCHANGED <<reload, faults, failed>>
       \/ /\ \/ Conflict(reload.routes) /\ UNCHANGED <<live, faults, drifted>>
             \/ Fault("refuse") /\ UNCHANGED <<live, drifted>>
             \/ /\ Fault("partial") /\ ~Conflict(reload.routes)
                /\ live' = Patched(reload.routes)
                /\ drifted' = TRUE
          /\ reload' = [reload EXCEPT !.ok = FALSE]
          /\ failed' = failed \cup {"reconcile"}
          /\ UNCHANGED prevRoutes
    /\ Goto(g, "write")
    /\ UNCHANGED <<world, stream, pending, held, registry, lastError, holder,
                   fingerprint, page, hosts>>

\* A variant of WriteIndexArtifacts that stores the fingerprint of a failed reload.
WriteAndStore(g) ==
    /\ pc[g] = "write"
    /\ page' = [view |-> registry, err |-> reload.err]
    /\ fingerprint' = FingerprintState(reload, reload.view)
    /\ failed' = {}
    /\ reload' = NoReload
    /\ Goto(g, "hosts")
    /\ UNCHANGED <<world, stream, pending, held, registry, status, holder,
                   prevRoutes, live, hosts, drifted>>

\* The page is made from the registry as it is now; the fingerprint is the one that was
\* compared, and is kept only when everything before went well and all was written: a
\* write can fail after the new page is there.
WriteIndexArtifacts(g) ==
    /\ pc[g] = "write"
    /\ \/ /\ page' = [view |-> registry, err |-> reload.err]
          /\ IF reload.ok
             THEN fingerprint' = FingerprintState(reload, reload.view) /\ failed' = {}
             ELSE UNCHANGED <<fingerprint, failed>>
          /\ UNCHANGED faults
       \/ /\ Fault("artifacts")
          /\ page' \in {page, [view |-> registry, err |-> reload.err]}
          /\ failed' = failed \cup {"page"}
          /\ UNCHANGED fingerprint
    /\ reload' = NoReload
    /\ Goto(g, "hosts")
    /\ UNCHANGED <<world, stream, pending, held, registry, lastError, holder,
                   prevRoutes, live, hosts, drifted>>

\* The hosts file is synced whether or not the reload was skipped or failed.
SyncHosts(g) ==
    /\ pc[g] = "hosts"
    /\ \/ hosts' = RoutesOf[registry] /\ UNCHANGED faults
       \/ Fault("hosts") /\ UNCHANGED hosts
    /\ holder' = Nobody
    /\ Goto(g, "wait")
    /\ UNCHANGED <<world, stream, pending, held, registry, lastError, reload,
                   prevRoutes, fingerprint, live, page, failed, drifted>>

Refresh(g) == List(g) \/ Fold(g) \/ ClearError(g)

Apply(g) ==
    \/ TryBeginApply(g) \/ ReadStatus(g) \/ Compare(g)
    \/ ReconcileDevlocal(g) \/ WriteIndexArtifacts(g) \/ SyncHosts(g)

Next ==
    \/ Change \/ Break \/ Connect
    \/ StreamEnd \/ Throttle
    \/ StaleTick
    \/ \E g \in Threads : Refresh(g) \/ Apply(g)

Spec == Init /\ [][Next]_vars

\* The Go scheduler runs every goroutine that can run, tickers tick, and the 30-second
\* wait before a new stream ends.  Of Docker nothing is assumed.
Fairness ==
    /\ WF_vars(Connect) /\ WF_vars(StreamEnd) /\ WF_vars(Throttle)
    /\ WF_vars(StaleTick)
    /\ \A g \in Threads : WF_vars(Refresh(g)) /\ WF_vars(Apply(g))

FairSpec == Spec /\ Fairness

---------------------------------------------------------------------------
(* Properties *)

\* caddy.go:195-221: between reloads the fingerprint names the routes Caddy serves, so
\* an apply that finds it unchanged loses nothing by skipping the reload, even though
\* routes, error and containers are read one after the other under a registry that
\* two other goroutines are changing, and reloads are refused.  Two things undo that: a
\* page that could not be written after the routes were changed, until a fingerprint is
\* stored again; and a reconcile carried out without an answer, until one that is
\* answered changes the routes.
FingerprintHonest ==
    (\A g \in Threads : pc[g] # "write") /\ "page" \notin failed /\ ~drifted
        => fingerprint.routes = live

\* admin.go:40-46, caddy.go:192-224: at most one goroutine is inside an apply, and it is
\* the one that has the lock; no interrupted apply leaves the lock behind.
OneApply ==
    \A g \in Threads :
        pc[g] \in {"status", "compare", "reconcile", "write", "hosts"}
            <=> holder = g

\* README.md:190, 295: once Docker is quiet, Caddy comes to serve what runs there and
\* keeps serving it, though events were lost, applies skipped while another was in
\* flight, lists folded in out of order or reloads refused; unless the fingerprint is
\* left wrong by one of the two failures of FingerprintHonest.
CaddyConverges ==
    \A v \in Views :
        <>[](world = v) => <>[](live = RoutesOf[v] \/ "page" \in failed \/ drifted)

\* cmd.go:169-171: the hosts file does, whatever fails.
HostsConverge == \A v \in Views : <>[](world = v) => <>[](hosts = RoutesOf[v])

\* discovery.go:63-77, caddy.go:196-197: an error shown on the page is taken off it after
\* Docker answers again, unless the page was written by a reload that failed: nothing
\* takes that one off until the next change is applied.
BannerClears == []<>(page.err = "none" \/ failed # {})

---------------------------------------------------------------------------
(* What the documentation says and the code does not do *)

\* README.md:295: "if nothing changed, the reload is skipped entirely": once Docker is
\* quiet the page shows what runs there.
PageConverges == \A v \in Views : <>[](world = v) => <>[](page.view = v)

\* README.md:23: "a dismissible error banner appears at the top when Docker event
\* streaming fails, showing the last error".
StreamErrorShown == (lastError = "stream") ~> (page.err = "stream")

=============================================================================
