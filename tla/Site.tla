-------------------------------- MODULE Site --------------------------------
(***************************************************************************)
(* What a browser sees: the index page (generator/index.go) links to hosts, *)
(* and the config built next to it (builder.go) decides what answers them. *)
(* Both are made from the registry of Generator, by code of their own.     *)
(*                                                                         *)
(* A host is the sequence of its labels, a label the sequence of its words:*)
(* a.b is <<<<"a">>, <<"b">>>> and a-b is <<<<"a", "b">>>>.  One goroutine *)
(* lists and folds in one step: what interleaving does to the registry is  *)
(* Generator's subject.  Rows, groups and icons are layout and left out.   *)
(***************************************************************************)
EXTENDS Generator, Sequences

LOCAL Seqs == INSTANCE SequencesExt

CONSTANTS
    Tld,    \* cfg.TLD
    Label,  \* the names of each container: ContainerName, Project, Service
    Order   \* every host, in the order of slices.Sort

LocalhostLabel == <<"localhost">>
NoLabel == << >>
Unposted == {"unposted"}

---------------------------------------------------------------------------
(* Names *)

IsCompose(c) == Label[c].project # NoLabel /\ Label[c].service # NoLabel

DomainForContainer(c) ==
    IF IsCompose(c) THEN Label[c].project \o Label[c].service \o Tld
    ELSE Label[c].name \o Tld

DomainForContainerLocalhost(c) ==
    IF IsCompose(c) THEN Label[c].project \o Label[c].service \o <<LocalhostLabel>>
    ELSE Label[c].name \o <<LocalhostLabel>>

TLDLocalhost == IF Tld[Len(Tld)] = LocalhostLabel THEN Tld ELSE <<Tld[1], LocalhostLabel>>

ASSUME NamesAssumption ==
    \A c \in Containers :
        Attr[c].domains = {DomainForContainer(c), DomainForContainerLocalhost(c)}

\* Ports are 16-bit numbers.
ASSUME PortsAssumption == IsFiniteSet(Port)

ASSUME OrderAssumption ==
    /\ Order \in Seq(Domain)
    /\ {Order[i] : i \in DOMAIN Order} = Domain
    /\ \A i, j \in DOMAIN Order : Order[i] = Order[j] => i = j

---------------------------------------------------------------------------
(* builder.go *)

Position(host) == CHOOSE i \in DOMAIN Order : Order[i] = host

\* devlocalRouteID: a dot becomes a dash, so only the words of a host are left.
RouteID(host) == Seqs!FlattenSeq(host)

\* A variant that keeps the route that was there.
FirstOf(hosts) == CHOOSE h \in hosts : \A g \in hosts : Position(h) <= Position(g)

\* The host whose route is left of those with one id: a map entry is overwritten.
LastOf(hosts) == CHOOSE h \in hosts : \A g \in hosts : Position(g) <= Position(h)

BuiltRoutes(targets) ==
    [id \in {RouteID(h) : h \in DOMAIN targets} |->
        LET host == LastOf({h \in DOMAIN targets : RouteID(h) = id})
        IN [host |-> host, upstreams |-> targets[host]]]

Subjects(targets) == DOMAIN targets

\* The hosts the index route matches: JSON null when a container has the alias.
IndexHosts(domains) == {TLDLocalhost} \ domains

---------------------------------------------------------------------------
(* index.go *)

\* How many of the ports come before p, by number; extractPorts sorted them before
\* they were mapped, and the sort is stable.
Rank(info, ports, p) ==
    Cardinality({q \in ports :
        \/ EffectivePort(info, q) < EffectivePort(info, p)
        \/ EffectivePort(info, q) = EffectivePort(info, p) /\ q < p})

InOrder(info, ports) ==
    [i \in 1 .. Cardinality(ports) |->
        EffectivePort(info, CHOOSE p \in ports : Rank(info, ports, p) = i - 1)]

\* A variant of Chips that forgets which port speaks HTTP.
ChipsByNumber(info) == InOrder(info, info.ports)

\* One chip per port the container listens on, the HTTP port first, then by number.
Chips(info) ==
    LET http == {p \in info.ports :
                    info.selected # NoPort /\ EffectivePort(info, p) = info.selected}
    IN InOrder(info, http) \o InOrder(info, info.ports \ http)

\* A variant of PageNames that does not know Compose.
PageNamesByContainer(c) == {Label[c].name \o Tld, Label[c].name \o <<LocalhostLabel>>}

\* The page puts the two names together itself.
PageNames(c) ==
    LET stem == IF IsCompose(c) THEN Label[c].project \o Label[c].service ELSE Label[c].name
    IN {stem \o Tld, stem \o <<LocalhostLabel>>}

\* The domain entries of a container's card; linked: it has a URL.
Entries(c, info) ==
    IF Attr[c].custom # {}
    THEN {[domain |-> cd.domain, chips |-> <<EffectivePort(info, cd.port)>>,
           linked |-> info.running] : cd \in Attr[c].custom}
    ELSE IF info.ports = {} THEN {}
    ELSE {[domain |-> d, chips |-> Chips(info),
           linked |-> info.running /\ info.selected > 0] : d \in PageNames(c)}

Links(c) == {entry \in Entries(c, containers[c]) : entry.linked}

---------------------------------------------------------------------------
(* The proxy *)

VARIABLE indexRoute  \* the hosts of the index route in Caddy, posted once

siteVars == <<vars, indexRoute>>

SiteInit == Init /\ indexRoute = Unposted

\* cmdFunc: the first refresh, which may fail, then initCaddyConfig.
Boot ==
    /\ indexRoute = Unposted
    /\ Fold(Listed) \/ containers' = Empty
    /\ indexRoute' = IndexHosts(DOMAIN DomainTargets')
    /\ UNCHANGED <<status, shared, lists>>

Turn ==
    /\ indexRoute # Unposted
    /\ Fold(Listed)
    /\ UNCHANGED <<status, shared, lists, indexRoute>>

Ageing ==
    /\ indexRoute # Unposted
    /\ StaleCleanup \/ Tick
    /\ UNCHANGED indexRoute

SiteNext ==
    \/ Docker /\ UNCHANGED indexRoute
    \/ Boot
    \/ Turn
    \/ Ageing

SiteSpec == SiteInit /\ [][SiteNext]_siteVars

\* What Caddy sends a request for a host to: its routes are tried in order, the index
\* route was posted first, and each one is terminal.
Upstreams(host) ==
    LET routes == BuiltRoutes(DomainTargets)
    IN IF host \in indexRoute THEN {}
       ELSE UNION {routes[id].upstreams : id \in {i \in DOMAIN routes : routes[i].host = host}}

---------------------------------------------------------------------------
(* Properties *)

\* index.go:188-240, generator.go:390-408: the page decides by its own conditions and
\* puts the names together by its own code; what it links of a container are exactly
\* the domains the proxy routes to it.
LinksAreRoutes ==
    \A c \in DOMAIN containers :
        {entry.domain : entry \in Links(c)} = {r.domain : r \in Routes(c, containers[c])}

\* index.go:110-147, generator.go:341-348: the first port shown beside a link, the one
\* a user copies, is the port the proxy sends that link's requests to.
ChipIsTarget ==
    \A c \in DOMAIN containers : \A entry \in Links(c) :
        \E r \in Routes(c, containers[c]) :
            r.domain = entry.domain /\ r.target[2] = entry.chips[1]

\* Another host has taken the route's id.
Overwritten(host) ==
    \E h \in DOMAIN DomainTargets :
        RouteID(h) = RouteID(host) /\ Position(host) < Position(h)

\* builder.go:38-82, 132-136: a link on the page is answered by its container, except
\* exactly when the index route posted at start-up has the host, or a later host has
\* the same id (a.b and a-b); in every case the TLS policy covers it.
LinksServed ==
    \A c \in DOMAIN containers : \A entry \in Links(c) :
        /\ entry.domain \in Subjects(DomainTargets)
        /\ (\E r \in Routes(c, containers[c]) :
                r.domain = entry.domain /\ r.target \in Upstreams(entry.domain))
           <=> ~(entry.domain \in indexRoute \/ Overwritten(entry.domain))

=============================================================================
