----------------------------- MODULE Generator -----------------------------
(***************************************************************************)
(* The container registry of generator/generator.go, its readers and the   *)
(* Docker daemon it follows.                                               *)
(*                                                                         *)
(* A refresh has two halves: docker.ContainerList is called without the    *)
(* registry's lock, and refreshLocked folds the answer in under it.  The   *)
(* event watcher, the poller and the initial refresh may each hold an      *)
(* answer at once, so an older answer may be folded in after a newer one.  *)
(*                                                                         *)
(* Time is kept as the age of each LastStopped, saturated one past the     *)
(* stale TTL: that is all `now.Sub(LastStopped) > StaleTTL` can tell apart.*)
(* IP, image, project and health are display data and are left out.        *)
(***************************************************************************)
EXTENDS Integers, FiniteSets

CONSTANTS
    Containers,  \* Docker container ids; Docker never uses an id twice
    Attr,        \* what never changes about a container (see AttrType)
    Port,        \* the port numbers in use
    Domain,      \* the domain names in use
    Standalone,  \* cfg.Standalone: the proxy runs on the host
    Probing,     \* TRUE: gen.RefreshAndSelect (proxy), FALSE: gen.Refresh (devlocal-hosts)
    StaleTTL,    \* cfg.StaleTTL in ticks
    Refreshers   \* the goroutines that refresh

Never == -1      \* the age of time.Time{}
NoPort == 0
Empty == [x \in {} |-> x]

Age == Never .. (StaleTTL + 1)
Kind == {"unreachable", "dns", "gateway"}

PortMap == UNION {[S -> Port] : S \in SUBSET Port}

\* self: isSelfContainer; skip: label dev.local=false; labelled: dev.local.domains
\* is not empty, custom: the entries of it that parse; domains: the pair of names
\* domainForContainer and domainForContainerLocalhost give.
AttrType == [self: BOOLEAN, skip: BOOLEAN, labelled: BOOLEAN,
             custom: SUBSET [port: Port, domain: Domain],
             domains: SUBSET Domain, ports: SUBSET Port,
             published: PortMap]

ASSUME TTLAssumption == StaleTTL \in Nat
ASSUME PortAssumption == Port \subseteq Nat \ {NoPort}
ASSUME ModeAssumption == Standalone \in BOOLEAN /\ Probing \in BOOLEAN
ASSUME AttrAssumption == Attr \in [Containers -> AttrType]

VARIABLES
    status,     \* Docker: the life of each container
    shared,     \* Docker: the containers on a network of the proxy's own container
    lists,      \* the ContainerList answers that are not folded in yet
    containers  \* Generator.containers

vars == <<status, shared, lists, containers>>

Status == {"new", "running", "exited", "gone"}

\* What one ContainerList says of a container besides its attributes.
Observation == [running: BOOLEAN, shared: BOOLEAN]
Info == [running: BOOLEAN, stoppedFor: Age, ports: SUBSET Port, published: PortMap,
         selected: Port \cup {NoPort}, kind: Kind]

TypeOK ==
    /\ status \in [Containers -> Status]
    /\ shared \subseteq Containers
    /\ DOMAIN lists \subseteq Refreshers
    /\ \A r \in DOMAIN lists :
          /\ DOMAIN lists[r] \subseteq Containers
          /\ \A c \in DOMAIN lists[r] : lists[r][c] \in Observation
    /\ DOMAIN containers \subseteq Containers
    /\ \A c \in DOMAIN containers : containers[c] \in Info

Init ==
    /\ status \in [Containers -> Status]
    /\ shared \in SUBSET Containers
    /\ lists = Empty
    /\ containers = Empty

---------------------------------------------------------------------------
(* Docker *)

\* What the daemon lists: every container it has, a container that does not run
\* without ports.
Listed == [c \in {d \in Containers : status[d] \in {"running", "exited"}} |->
             [running |-> status[c] = "running", shared |-> c \in shared]]

Start(c) ==
    /\ status[c] \in {"new", "exited"}
    /\ status' = [status EXCEPT ![c] = "running"]
    /\ UNCHANGED <<shared, lists, containers>>

Stop(c) ==
    /\ status[c] = "running"
    /\ status' = [status EXCEPT ![c] = "exited"]
    /\ UNCHANGED <<shared, lists, containers>>

Remove(c) ==
    /\ status[c] \in {"running", "exited"}
    /\ status' = [status EXCEPT ![c] = "gone"]
    /\ UNCHANGED <<shared, lists, containers>>

Connect(c) ==
    /\ status[c] \in {"running", "exited"}
    /\ shared' = IF c \in shared THEN shared \ {c} ELSE shared \cup {c}
    /\ UNCHANGED <<status, lists, containers>>

---------------------------------------------------------------------------
(* Reading one listed container *)

Ports(c, o) == IF o.running THEN Attr[c].ports ELSE {}
PublishedPorts(c, o) == IF o.running THEN Attr[c].published ELSE Empty

Reachability(c, o) ==
    IF Standalone THEN "gateway"
    ELSE IF o.shared THEN "dns"
    ELSE IF DOMAIN PublishedPorts(c, o) # {} THEN "gateway"
    ELSE "unreachable"

\* The ids refreshLocked marks as seen.
Seen(list) ==
    {c \in DOMAIN list :
        /\ ~Attr[c].self
        /\ ~Attr[c].skip
        /\ Standalone \/ Reachability(c, list[c]) # "unreachable"}

ContainerInfo(c, o) ==
    [running |-> o.running, stoppedFor |-> Never, ports |-> Ports(c, o),
     published |-> PublishedPorts(c, o), selected |-> NoPort, kind |-> Reachability(c, o)]

\* Variants of Refreshed that forget: to stamp a container first seen stopped, that it
\* was stamped before, that it restarted (its port, then its state); the last counts
\* refreshes instead of time.
RefreshedUnstamped(c, o) ==
    IF o.running \/ c \notin DOMAIN containers THEN ContainerInfo(c, o)
    ELSE [containers[c] EXCEPT !.running = FALSE, !.kind = Reachability(c, o)]

RefreshedRestamped(c, o) ==
    IF o.running \/ c \notin DOMAIN containers THEN ContainerInfo(c, o)
    ELSE [containers[c] EXCEPT !.running = FALSE, !.stoppedFor = 0, !.kind = Reachability(c, o)]

RefreshedKeepingPort(c, o) ==
    IF c \in DOMAIN containers
    THEN [ContainerInfo(c, o) EXCEPT !.selected = containers[c].selected]
    ELSE ContainerInfo(c, o)

RefreshedKeepingState(c, o) ==
    IF c \in DOMAIN containers THEN containers[c] ELSE ContainerInfo(c, o)

RefreshedCounting(c, o) ==
    IF o.running \/ c \notin DOMAIN containers THEN ContainerInfo(c, o)
    ELSE [containers[c] EXCEPT !.running = FALSE, !.stoppedFor = @ + 1]

\* A stopped container keeps what was known of it while it ran, and the time it
\* was first seen stopped.
Refreshed(c, o) ==
    IF o.running THEN ContainerInfo(c, o)
    ELSE IF c \in DOMAIN containers
         THEN [containers[c] EXCEPT
                 !.running = FALSE,
                 !.stoppedFor = IF containers[c].running THEN 0 ELSE containers[c].stoppedFor,
                 !.kind = Reachability(c, o)]
         ELSE [ContainerInfo(c, o) EXCEPT !.stoppedFor = 0]

\* Variants of Expired: off by one, and the zero check the wrong way round.
ExpiredEarly(info) == info.stoppedFor # Never /\ info.stoppedFor >= StaleTTL
ExpiredUnstamped(info) == info.stoppedFor = Never

Expired(info) == info.stoppedFor # Never /\ info.stoppedFor > StaleTTL

\* The entries the list no longer mentions that refreshLocked leaves.
Kept(list) ==
    {c \in DOMAIN containers \ Seen(list) :
        ~containers[c].running /\ ~Expired(containers[c])}

RefreshLocked(list) ==
    [c \in Seen(list) \cup Kept(list) |->
        IF c \in Seen(list) THEN Refreshed(c, list[c]) ELSE containers[c]]

---------------------------------------------------------------------------
(* Selecting a port *)

EffectivePort(info, p) ==
    IF info.kind = "gateway" /\ p \in DOMAIN info.published THEN info.published[p] ELSE p

ProbeTargets(info) == {EffectivePort(info, p) : p \in info.ports}

\* The entries selectPortsLocked probes.
Probed(reg) ==
    {c \in DOMAIN reg :
        reg[c].running /\ ~Attr[c].labelled /\ ProbeTargets(reg[c]) # {}}

\* answer[c]: the port probeFn found, NoPort when it found none.
Answers(reg) ==
    {answer \in [Probed(reg) -> Port \cup {NoPort}] :
        \A c \in Probed(reg) : answer[c] \in ProbeTargets(reg[c]) \cup {NoPort}}

SelectPorts(reg, answer) ==
    [c \in DOMAIN reg |->
        IF c \in DOMAIN answer /\ answer[c] # NoPort
        THEN [reg[c] EXCEPT !.selected = answer[c]]
        ELSE reg[c]]

---------------------------------------------------------------------------
(* The goroutines *)

List(r) ==
    /\ r \notin DOMAIN lists
    /\ lists' = [q \in DOMAIN lists \cup {r} |-> IF q = r THEN Listed ELSE lists[q]]
    /\ UNCHANGED <<status, shared, containers>>

\* refreshLocked, and selectPortsLocked under the same lock.
Fold(list) ==
    LET reg == RefreshLocked(list) IN
      IF Probing THEN \E answer \in Answers(reg) : containers' = SelectPorts(reg, answer)
                 ELSE containers' = reg

Refresh(r) ==
    /\ r \in DOMAIN lists
    /\ Fold(lists[r])
    /\ lists' = [q \in DOMAIN lists \ {r} |-> lists[q]]
    /\ UNCHANGED <<status, shared>>

StaleCleanup ==
    /\ containers' = [c \in {d \in DOMAIN containers :
                               containers[d].running \/ ~Expired(containers[d])} |-> containers[c]]
    /\ UNCHANGED <<status, shared, lists>>

Older(info) ==
    IF info.stoppedFor \in 0 .. StaleTTL THEN [info EXCEPT !.stoppedFor = @ + 1] ELSE info

Tick ==
    /\ containers' = [c \in DOMAIN containers |-> Older(containers[c])]
    /\ UNCHANGED <<status, shared, lists>>

Docker == \E c \in Containers : Start(c) \/ Stop(c) \/ Remove(c) \/ Connect(c)

Next ==
    \/ Docker
    \/ \E r \in Refreshers : List(r) \/ Refresh(r)
    \/ StaleCleanup
    \/ Tick

Spec == Init /\ [][Next]_vars

\* pollLoop and staleCleanup run off tickers, and time passes.
Fairness ==
    /\ \A r \in Refreshers : WF_vars(List(r)) /\ WF_vars(Refresh(r))
    /\ WF_vars(StaleCleanup)
    /\ WF_vars(Tick)

FairSpec == Spec /\ Fairness

---------------------------------------------------------------------------
(* The readers *)

HostFor(c, info) ==
    IF Standalone THEN "localhost"
    ELSE IF info.kind = "gateway" THEN "gateway"
    ELSE c

\* What one entry adds to DomainTargets.
Routes(c, info) ==
    IF ~info.running THEN {}
    ELSE IF Attr[c].custom # {}
         THEN {[domain |-> cd.domain,
                target |-> <<HostFor(c, info), EffectivePort(info, cd.port)>>] :
                  cd \in Attr[c].custom}
    ELSE IF info.selected = NoPort THEN {}
    ELSE {[domain |-> d, target |-> <<HostFor(c, info), info.selected>>] :
             d \in Attr[c].domains}

AllRoutes == UNION {Routes(c, containers[c]) : c \in DOMAIN containers}

DomainTargets ==
    [d \in {route.domain : route \in AllRoutes} |->
        {route.target : route \in {s \in AllRoutes : s.domain = d}}]

HasReachablePort(c, info) ==
    \/ info.selected > 0
    \/ Attr[c].custom # {}
    \/ info.kind = "dns" /\ info.ports # {}
    \/ info.kind = "gateway" /\ DOMAIN info.published # {}

\* A variant of Names that does not know custom domains.
NamesByContainer(c, info) ==
    IF info.running /\ HasReachablePort(c, info) THEN Attr[c].domains ELSE {}

\* One that leaves out a container when it has no port, not when it does not run.
NamesWhileListed(c, info) ==
    IF Attr[c].custom # {} THEN {cd.domain : cd \in Attr[c].custom}
    ELSE IF HasReachablePort(c, info) THEN Attr[c].domains
    ELSE {}

Names(c, info) ==
    IF ~info.running THEN {}
    ELSE IF Attr[c].custom # {} THEN {cd.domain : cd \in Attr[c].custom}
    ELSE IF HasReachablePort(c, info) THEN Attr[c].domains
    ELSE {}

Domains == UNION {Names(c, containers[c]) : c \in DOMAIN containers}

---------------------------------------------------------------------------
(* Properties *)

\* generator.go:145-157, 167-170: every entry that is not running carries the time
\* it stopped.  An entry without one would never expire in refreshLocked nor in
\* StaleCleanup, and the registry would grow for as long as the process lives.
StoppedHasClock ==
    \A c \in DOMAIN containers : ~containers[c].running => containers[c].stoppedFor # Never

\* generator.go:150-154: seeing a container stopped again, from whichever goroutine
\* and however old its list, never makes it look more recently stopped.
StopTimeSticky ==
    [][\A c \in DOMAIN containers \cap DOMAIN containers' :
          ~containers[c].running /\ ~containers'[c].running
             => containers'[c].stoppedFor >= containers[c].stoppedFor]_vars

\* generator.go:163-172, 537-541: an entry shown as stopped is dropped by no step
\* before the stale TTL has passed, even when Docker no longer lists the container.
KeptUntilTTL ==
    [][\A c \in DOMAIN containers \ DOMAIN containers' :
          ~containers[c].running => containers[c].stoppedFor > StaleTTL]_vars

\* generator.go:385, 498, 532-541, discovery.go:180-183: routes and names change by a
\* refresh alone.  What Docker does, the passing of time and the removal of stale entries
\* show on neither until a list is folded in, so the apply after a cleanup is for the page.
OnlyRefreshReroutes ==
    [][UNCHANGED lists => DomainTargets' = DomainTargets /\ Domains' = Domains]_vars

\* generator.go:375-412, 490-530: every domain the proxy routes is a domain the
\* hosts file is given, for every mode, network and probe answer.
RoutedIsResolvable == DOMAIN DomainTargets \subseteq Domains

Running == {c \in DOMAIN containers : containers[c].running}

\* The ports a container listens on or its labels name, and where Docker publishes them.
PrivatePorts(c) == Attr[c].ports \cup {cd.port : cd \in Attr[c].custom}
HostPorts(c) ==
    {Attr[c].published[p] : p \in PrivatePorts(c) \cap DOMAIN Attr[c].published}
Unpublished(c) == PrivatePorts(c) \ DOMAIN Attr[c].published

\* generator.go:341-348, 375-412: every route, a custom domain's too, goes to a port Docker
\* gives the container for the way it was last listed: its own ports by its name, their
\* published numbers through the host.  No route keeps a port from before a restart or a
\* change of network.  Through the host the code also takes the own number of a port that
\* is not published, a port of the host that need not be the container's.
TargetsFollowDocker ==
    \A c \in Running : \A route \in Routes(c, containers[c]) :
        route.target[2] \in IF containers[c].kind = "gateway"
                            THEN HostPorts(c) \cup Unpublished(c)
                            ELSE PrivatePorts(c)

\* A container the proxy should serve, as Docker has it now.
Wanted(c) ==
    /\ status[c] = "running"
    /\ c \in Seen(Listed)

\* discovery.go:187-199, generator.go:140-170, 385-388: the registry follows Docker.
\* A container that stays up and reachable is in it as running from some time on, and
\* one that stays stopped, unreachable or away is in the end not routed any more,
\* whatever older lists are still in flight.
EventuallyMirrors ==
    \A c \in Containers :
        /\ <>[]Wanted(c) => <>[](c \in Running)
        /\ <>[]~Wanted(c) => <>[](c \notin Running)

\* generator.go:163-172: a container Docker has removed is forgotten in the end, also
\* when an older list brings it back after it was dropped.
EventuallyForgotten ==
    \A c \in Containers : <>[](status[c] = "gone") => <>[](c \notin DOMAIN containers)

---------------------------------------------------------------------------
(* What the documentation says and the code does not do *)

\* README.md:26: "Stopped containers stay listed on the index page (marked stopped)
\* until the stale TTL expires, then their config is removed": a container that stays
\* stopped leaves the registry and stays out of it.
StoppedForgotten ==
    \A c \in Containers :
        <>[](status[c] = "exited") => <>[](c \notin DOMAIN containers)

\* README.md:366: "the hostnames it registers always match what the proxy would serve":
\* the domains of the hosts file are the domains of the routes.
HostsMatchProxy == Domains = DOMAIN DomainTargets

=============================================================================
