----------------------------- MODULE SiteProofs -----------------------------
(***************************************************************************)
(* The page and the proxy agree for any containers and names.              *)
(***************************************************************************)
EXTENDS Site, GeneratorProofs, FiniteSetTheorems, SequenceTheorems

Lists == INSTANCE ListProofs

\* What the Docker daemon lists is well-formed.
LEMMA ListedType ==
    ASSUME TypeOK
    PROVE  /\ DOMAIN Listed \subseteq Containers
           /\ \A c \in DOMAIN Listed : Listed[c] \in Observation
BY DEF Listed, Observation

\* The part of the state the page's links depend on.
PInv == TypeOK /\ RunningAsListed

\* Folding a list in keeps it.
LEMMA FoldKeeps ==
    ASSUME PInv, Fold(Listed), UNCHANGED <<status, shared, lists>>
    PROVE  PInv'
<1>1. /\ DOMAIN containers' \subseteq Containers
      /\ \A c \in DOMAIN containers' : containers'[c] \in Info
      /\ \A c \in DOMAIN containers' :
            containers'[c].running => AsListed(c, containers'[c])
  BY ListedType, FoldStep DEF PInv
<1>2. TypeOK'
  BY <1>1 DEF PInv, TypeOK
<1>3. RunningAsListed'
  BY <1>1 DEF RunningAsListed, AsListed, ProbeTargets, EffectivePort
<1> QED
  BY <1>2, <1>3 DEF PInv

\* So do Docker, which leaves the registry alone, and time passing.
LEMMA OthersKeep ==
    ASSUME PInv, Docker \/ StaleCleanup \/ Tick \/ UNCHANGED vars
    PROVE  PInv'
<1>1. CASE Docker
  <2>1. PICK c \in Containers : Start(c) \/ Stop(c) \/ Remove(c) \/ Connect(c)
    BY <1>1 DEF Docker
  <2>2. UNCHANGED <<lists, containers>>
    BY <2>1 DEF Start, Stop, Remove, Connect
  <2>3. status' \in [Containers -> Status] /\ shared' \subseteq Containers
    BY <2>1 DEF PInv, TypeOK, Status, Start, Stop, Remove, Connect
  <2> QED
    BY <2>2, <2>3 DEF PInv, TypeOK, RunningAsListed, AsListed, ProbeTargets, EffectivePort
<1>2. CASE StaleCleanup
  <2>1. UNCHANGED <<status, shared, lists>>
    BY <1>2 DEF StaleCleanup
  <2> QED
    BY <1>2, <2>1, CleanupStep
       DEF PInv, TypeOK, RunningAsListed, AsListed, ProbeTargets, EffectivePort
<1>3. CASE Tick
  <2>1. UNCHANGED <<status, shared, lists>>
    BY <1>3 DEF Tick
  <2>2. TypeOK'
    BY <1>3, <2>1, TickStep, OlderType DEF PInv, TypeOK
  <2>3. RunningAsListed'
    BY <1>3, OlderAsListed DEF PInv
  <2> QED
    BY <2>2, <2>3 DEF PInv
<1>4. CASE UNCHANGED vars
  BY <1>4 DEF vars, PInv, TypeOK, RunningAsListed, AsListed, ProbeTargets, EffectivePort
<1> QED
  BY <1>1, <1>2, <1>3, <1>4

\* The registry stays well-formed, and its running entries as Docker lists them, under the site's steps.
THEOREM SiteRegistry == SiteSpec => []PInv
<1>1. SiteInit => PInv
  BY DEF SiteInit, Init, PInv, TypeOK, RunningAsListed, Empty
<1>2. PInv /\ [SiteNext]_siteVars => PInv'
  <2> SUFFICES ASSUME PInv, [SiteNext]_siteVars
               PROVE  PInv'
    OBVIOUS
  <2>1. CASE Boot
    <3>1. CASE Fold(Listed)
      BY <2>1, <3>1, FoldKeeps DEF Boot
    <3>2. CASE containers' = Empty
      BY <2>1, <3>2 DEF Boot, PInv, TypeOK, RunningAsListed, Empty
    <3> QED
      BY <2>1, <3>1, <3>2 DEF Boot
  <2>2. CASE Turn
    BY <2>2, FoldKeeps DEF Turn
  <2>3. CASE Ageing
    BY <2>3, OthersKeep DEF Ageing
  <2> QED
    BY <2>1, <2>2, <2>3, OthersKeep DEF SiteNext, siteVars
<1> QED
  BY <1>1, <1>2, PTL DEF SiteSpec

\* What the page asks of an entry comes to what DomainTargets asks of it.
LEMMA LinksOfRoutes == PInv => LinksAreRoutes
<1> SUFFICES ASSUME PInv, NEW c \in DOMAIN containers
             PROVE  {entry.domain : entry \in Links(c)}
                      = {r.domain : r \in Routes(c, containers[c])}
  BY DEF LinksAreRoutes
<1> DEFINE info == containers[c]
<1>1. c \in Containers /\ info \in Info
  BY DEF PInv, TypeOK
<1>2. info.running \in BOOLEAN
  BY <1>1 DEF Info
<1>3. CASE Attr[c].custom # {}
  <2> DEFINE Entry(cd) == [domain |-> cd.domain, chips |-> <<EffectivePort(info, cd.port)>>,
                           linked |-> info.running]
             Route(cd) == [domain |-> cd.domain,
                           target |-> <<HostFor(c, info), EffectivePort(info, cd.port)>>]
  <2>1. Entries(c, info) = {Entry(cd) : cd \in Attr[c].custom}
    BY <1>3 DEF Entries
  <2>2. CASE info.running
    <3>1. Routes(c, info) = {Route(cd) : cd \in Attr[c].custom}
      BY <1>3, <2>2 DEF Routes
    <3>2. Links(c) = {Entry(cd) : cd \in Attr[c].custom}
      <4>1. \A cd : Entry(cd).linked
        BY <2>2
      <4> HIDE DEF Entry
      <4> QED
        BY <2>1, <4>1 DEF Links
    <3>3. \A cd : Entry(cd).domain = cd.domain /\ Route(cd).domain = cd.domain
      OBVIOUS
    <3> HIDE DEF Entry, Route
    <3> QED
      BY <3>1, <3>2, <3>3
  <2>3. CASE ~info.running
    <3>1. \A cd : ~Entry(cd).linked
      BY <2>3
    <3> HIDE DEF Entry
    <3>2. Links(c) = {}
      BY <2>1, <3>1 DEF Links
    <3>3. Routes(c, info) = {}
      BY <2>3 DEF Routes
    <3> QED
      BY <3>2, <3>3
  <2> QED
    BY <1>2, <2>2, <2>3
<1>4. CASE Attr[c].custom = {}
  <2> DEFINE linked == info.running /\ info.selected > 0
             Entry(d) == [domain |-> d, chips |-> Chips(info), linked |-> linked]
             Route(d) == [domain |-> d, target |-> <<HostFor(c, info), info.selected>>]
  <2>1. info.selected > 0 <=> info.selected # NoPort
    <3>1. info.selected \in Port \cup {NoPort}
      BY <1>1 DEF Info
    <3>2. info.selected \in Nat
      BY <3>1, PortAssumption DEF NoPort
    <3> QED
      BY <3>2 DEF NoPort
  <2>2. linked => info.ports # {}
    BY <2>1 DEF PInv, RunningAsListed, AsListed, ProbeTargets
  <2>3. Attr[c].domains = PageNames(c)
    BY <1>1, NamesAssumption
       DEF PageNames, DomainForContainer, DomainForContainerLocalhost
  <2>4. info.ports # {} => Entries(c, info) = {Entry(d) : d \in PageNames(c)}
    BY <1>4 DEF Entries
  <2>5. info.ports = {} => Entries(c, info) = {}
    BY <1>4 DEF Entries
  <2>6. CASE linked
    <3>1. \A d : Entry(d).domain = d /\ Entry(d).linked /\ Route(d).domain = d
      BY <2>6
    <3>2. Routes(c, info) = {Route(d) : d \in Attr[c].domains}
      BY <1>4, <2>1, <2>6 DEF Routes
    <3>3. Entries(c, info) = {Entry(d) : d \in PageNames(c)}
      BY <2>2, <2>4, <2>6
    <3> HIDE DEF Entry, Route
    <3>4. Links(c) = {Entry(d) : d \in PageNames(c)}
      BY <3>1, <3>3 DEF Links
    <3> QED
      BY <2>3, <3>1, <3>2, <3>4
  <2>7. CASE ~linked
    <3>1. \A d : ~Entry(d).linked
      BY <2>7
    <3> HIDE DEF Entry
    <3>2. Links(c) = {}
      BY <2>4, <2>5, <3>1 DEF Links
    <3>3. Routes(c, info) = {}
      BY <1>4, <2>1, <2>7 DEF Routes
    <3> QED
      BY <3>2, <3>3
  <2> QED
    BY <2>6, <2>7
<1> QED
  BY <1>3, <1>4

\* index.go:188-240, generator.go:390-408: for any names, labels, ports and modes the
\* page links exactly what is routed.  The page asks whether the container has ports,
\* DomainTargets does not: a selected port is among them because it was probed.
THEOREM LinksTheorem == SiteSpec => []LinksAreRoutes
BY LinksOfRoutes, SiteRegistry, PTL

---------------------------------------------------------------------------
(* The first chip *)

\* What is put in order is a list, as long as the set of ports.
LEMMA InOrderIsList ==
    ASSUME NEW info, NEW ports \in SUBSET Port
    PROVE  /\ \E T : InOrder(info, ports) \in Seq(T)
           /\ Len(InOrder(info, ports)) = Cardinality(ports)
           /\ Cardinality(ports) \in Nat
<1> DEFINE n == Cardinality(ports)
           list == InOrder(info, ports)
           T == {list[i] : i \in 1 .. n}
<1>1. n \in Nat
  BY PortsAssumption, FS_Subset, FS_CardinalityType
<1>2. list = [i \in 1 .. n |-> list[i]]
  BY DEF InOrder
<1> HIDE DEF n, list
<1>3. list \in [1 .. n -> T]
  BY <1>2
<1>4. list \in Seq(T)
  BY <1>1, <1>3, SeqDef
<1>5. Len(list) = n
  BY <1>1, <1>3, <1>4, LenProperties
<1> QED
  BY <1>1, <1>4, <1>5 DEF n, list

\* Of ports with one number, that number comes first.
LEMMA FirstInOrder ==
    ASSUME NEW info, NEW ports \in SUBSET Port, NEW port \in Nat, ports # {},
           \A p \in ports : EffectivePort(info, p) = port
    PROVE  /\ InOrder(info, ports)[1] = port
           /\ Cardinality(ports) >= 1
<1> DEFINE n == Cardinality(ports)
           first == CHOOSE p \in ports : Rank(info, ports, p) = 0
<1>1. ports \subseteq Nat /\ IsFiniteSet(ports) /\ n \in Nat \ {0}
  BY PortAssumption, PortsAssumption, FS_Subset, FS_EmptySet, FS_CardinalityType
<1>2. PICK least \in ports : \A q \in ports : least <= q
  BY <1>1, Lists!LeastMember
<1>3. Rank(info, ports, least) = 0
  <2>1. {q \in ports :
            \/ EffectivePort(info, q) < EffectivePort(info, least)
            \/ EffectivePort(info, q) = EffectivePort(info, least) /\ q < least} = {}
    <3>1. ASSUME NEW q \in ports
          PROVE  ~(EffectivePort(info, q) < EffectivePort(info, least)) /\ ~(q < least)
      <4>1. EffectivePort(info, q) = port /\ EffectivePort(info, least) = port
        OBVIOUS
      <4>2. ~(port < port) /\ q \in Nat /\ least \in Nat /\ least <= q
        BY <1>1, <1>2
      <4> QED BY <4>1, <4>2
    <3> QED BY <3>1, Zenon
  <2> QED BY <2>1, FS_EmptySet DEF Rank
<1>4. first \in ports
  BY <1>3
<1>5. InOrder(info, ports)[1] = EffectivePort(info, first)
  <2>1. 1 \in 1 .. n /\ 1 - 1 = 0 BY <1>1
  <2>2. InOrder(info, ports)[1]
          = EffectivePort(info, CHOOSE p \in ports : Rank(info, ports, p) = 1 - 1)
    <3> HIDE DEF n
    <3>1. \A i \in 1 .. n : InOrder(info, ports)[i]
             = EffectivePort(info, CHOOSE p \in ports : Rank(info, ports, p) = i - 1)
      BY DEF InOrder, n
    <3> QED BY <2>1, <3>1
  <2> QED BY <2>1, <2>2
<1> HIDE DEF first
<1> QED
  BY <1>1, <1>4, <1>5

\* index.go:118-141: the first chip of a container that has a selected port is that port.
LEMMA FirstChip ==
    ASSUME NEW info \in Info, info.selected # NoPort, info.selected \in ProbeTargets(info)
    PROVE  Chips(info)[1] = info.selected
<1> DEFINE http == {p \in info.ports :
                      info.selected # NoPort /\ EffectivePort(info, p) = info.selected}
           rest == info.ports \ http
           front == InOrder(info, http)
           back == InOrder(info, rest)
<1>1. /\ http \in SUBSET Port /\ rest \in SUBSET Port /\ http # {}
      /\ info.selected \in Nat
      /\ \A p \in http : EffectivePort(info, p) = info.selected
  BY PortAssumption DEF Info, ProbeTargets
<1>2. Chips(info) = front \o back
  BY DEF Chips
<1> HIDE DEF http, rest
<1>3. front[1] = info.selected /\ Cardinality(http) >= 1
  BY <1>1, FirstInOrder
<1>4. PICK T, U : front \in Seq(T) /\ back \in Seq(U)
  BY <1>1, InOrderIsList
<1>5. Len(front) \in Nat /\ Len(front) >= 1
  BY <1>1, <1>3, InOrderIsList
<1> HIDE DEF front, back
<1>6. front \in Seq(T \cup U) /\ back \in Seq(T \cup U)
  BY <1>4, SeqMonotonic
<1>7. (front \o back)[1] = front[1]
  <2>1. Len(back) \in Nat /\ 1 \in 1 .. Len(front) + Len(back)
    BY <1>5, <1>6, LenProperties
  <2> QED BY <1>5, <1>6, <2>1, ConcatProperties
<1> QED
  BY <1>2, <1>3, <1>7

\* index.go:110-147: whatever ports a container has and however Docker maps them, two to
\* one number included, the first chip of a link is the port its requests go to.
THEOREM ChipTheorem == SiteSpec => []ChipIsTarget
<1>1. PInv => ChipIsTarget
  <2> SUFFICES ASSUME PInv, NEW c \in DOMAIN containers, NEW entry \in Links(c)
               PROVE  \E r \in Routes(c, containers[c]) :
                         r.domain = entry.domain /\ r.target[2] = entry.chips[1]
    BY DEF ChipIsTarget
  <2> DEFINE info == containers[c]
  <2>1. c \in Containers /\ info \in Info
    BY DEF PInv, TypeOK
  <2>2. info.running \in BOOLEAN /\ info.selected \in Port \cup {NoPort}
    BY <2>1 DEF Info
  <2>3. CASE Attr[c].custom # {}
    <3>1. PICK cd \in Attr[c].custom :
             entry = [domain |-> cd.domain, chips |-> <<EffectivePort(info, cd.port)>>,
                      linked |-> info.running]
      BY <2>3 DEF Links, Entries
    <3>2. info.running
      BY <3>1 DEF Links
    <3> DEFINE r == [domain |-> cd.domain,
                     target |-> <<HostFor(c, info), EffectivePort(info, cd.port)>>]
    <3>3. r \in Routes(c, info)
      BY <2>3, <3>2 DEF Routes
    <3>4. r.domain = entry.domain /\ r.target[2] = entry.chips[1]
      BY <3>1
    <3> QED BY <3>3, <3>4
  <2>4. CASE Attr[c].custom = {}
    <3>1. PICK d \in PageNames(c) :
             entry = [domain |-> d, chips |-> Chips(info),
                      linked |-> info.running /\ info.selected > 0]
      BY <2>4 DEF Links, Entries
    <3>2. info.running /\ info.selected > 0 /\ info.selected # NoPort
      <4>1. entry.linked
        BY DEF Links
      <4>2. entry.linked = (info.running /\ info.selected > 0)
        BY <3>1
      <4>3. info.running /\ info.selected > 0
        BY <2>2, <4>1, <4>2
      <4> QED BY <4>3 DEF NoPort
    <3>3. Chips(info)[1] = info.selected
      BY <2>1, <3>2, FirstChip DEF PInv, RunningAsListed, AsListed
    <3>4. d \in Attr[c].domains
      BY <2>1, NamesAssumption
         DEF PageNames, DomainForContainer, DomainForContainerLocalhost
    <3> DEFINE r == [domain |-> d, target |-> <<HostFor(c, info), info.selected>>]
    <3>5. r \in Routes(c, info)
      BY <2>4, <3>2, <3>4 DEF Routes
    <3>6. r.domain = entry.domain /\ r.target[2] = entry.chips[1]
      BY <3>1, <3>3
    <3> QED BY <3>5, <3>6
  <2> QED BY <2>3, <2>4
<1> QED
  BY <1>1, SiteRegistry, PTL

---------------------------------------------------------------------------
(* The route a link gets *)

\* Every host has its place in the order, and no other.
LEMMA PositionIs ==
    ASSUME NEW host \in Domain
    PROVE  Position(host) \in 1 .. Len(Order) /\ Order[Position(host)] = host
<1>1. DOMAIN Order = 1 .. Len(Order)
  BY OrderAssumption, LenProperties
<1>2. \E i \in DOMAIN Order : Order[i] = host
  BY OrderAssumption
<1> QED
  BY <1>1, <1>2 DEF Position

\* Of hosts with one id the last is left, and there is one.
LEMMA LastOfIs ==
    ASSUME NEW hosts \in SUBSET Domain, hosts # {}
    PROVE  LastOf(hosts) \in hosts /\ \A g \in hosts : Position(g) <= Position(LastOf(hosts))
<1> DEFINE n == Len(Order)
           left == {n - Position(h) : h \in hosts}
<1>1. n \in Nat /\ \A h \in hosts : Position(h) \in 1 .. n
  BY PositionIs, OrderAssumption, LenProperties
<1> HIDE DEF n
<1>2. left \in SUBSET Nat /\ left # {}
  BY <1>1
<1>3. PICK x \in left : \A y \in left : x <= y
  BY <1>2, Lists!LeastMember
<1>4. PICK last \in hosts : x = n - Position(last)
  BY <1>3
<1>5. \A g \in hosts : Position(g) <= Position(last)
  <2> SUFFICES ASSUME NEW g \in hosts PROVE Position(g) <= Position(last)
    OBVIOUS
  <2>1. n - Position(last) <= n - Position(g)
    BY <1>3, <1>4
  <2> QED BY <1>1, <2>1
<1> QED
  BY <1>5 DEF LastOf

\* Everything that is routed has its place.
LEMMA RoutedHosts ==
    ASSUME PInv
    PROVE  DOMAIN DomainTargets \subseteq Domain
<1> SUFFICES ASSUME NEW c \in DOMAIN containers, NEW r \in Routes(c, containers[c])
             PROVE  r.domain \in Domain
  BY DEF DomainTargets, AllRoutes
<1>1. Attr[c] \in AttrType
  BY AttrAssumption DEF PInv, TypeOK
<1>2. Attr[c].domains \subseteq Domain /\ \A cd \in Attr[c].custom : cd.domain \in Domain
  BY <1>1 DEF AttrType
<1> QED
  BY <1>2 DEF Routes

\* A host keeps its route exactly if no later host has its id.
LEMMA KeepsRoute ==
    ASSUME PInv, NEW host \in DOMAIN DomainTargets
    PROVE  LET routes == BuiltRoutes(DomainTargets)
           IN {i \in DOMAIN routes : routes[i].host = host}
                = IF Overwritten(host) THEN {} ELSE {RouteID(host)}
<1> DEFINE hosts == DOMAIN DomainTargets
           same(id) == {h \in hosts : RouteID(h) = id}
           routes == BuiltRoutes(DomainTargets)
<1>1. hosts \subseteq Domain
  BY RoutedHosts
<1>2. DOMAIN routes = {RouteID(h) : h \in hosts}
      /\ \A id \in DOMAIN routes : routes[id].host = LastOf(same(id))
  BY DEF BuiltRoutes
<1> HIDE DEF routes, hosts
<1>3. ASSUME NEW id \in DOMAIN routes
      PROVE  /\ LastOf(same(id)) \in same(id)
             /\ \A g \in same(id) : Position(g) <= Position(LastOf(same(id)))
  <2>1. same(id) \in SUBSET Domain /\ same(id) # {}
    BY <1>1, <1>2, <1>3
  <2> HIDE DEF same
  <2> QED BY <2>1, LastOfIs
<1>4. host \in hosts /\ RouteID(host) \in DOMAIN routes /\ host \in same(RouteID(host))
  BY <1>2 DEF hosts
<1>5. ASSUME NEW id \in DOMAIN routes, routes[id].host = host
      PROVE  id = RouteID(host) /\ ~Overwritten(host)
  <2>1. host \in same(id) /\ \A g \in same(id) : Position(g) <= Position(host)
    BY <1>2, <1>3, <1>5
  <2>2. id = RouteID(host)
    BY <2>1
  <2>3. \A h \in hosts : Position(h) \in Nat
    BY <1>1, PositionIs
  <2> QED BY <1>4, <2>1, <2>2, <2>3 DEF Overwritten, hosts
<1>6. ASSUME ~Overwritten(host)
      PROVE  routes[RouteID(host)].host = host
  <2> DEFINE last == LastOf(same(RouteID(host)))
  <2>1. last \in same(RouteID(host)) /\ Position(host) <= Position(last)
    BY <1>3, <1>4
  <2> HIDE DEF last
  <2>2. last \in hosts /\ RouteID(last) = RouteID(host)
    BY <2>1
  <2>3. ~(Position(host) < Position(last))
    BY <1>6, <2>2 DEF Overwritten, hosts
  <2>4. /\ Position(host) \in Nat /\ Position(last) \in Nat
        /\ Order[Position(host)] = host /\ Order[Position(last)] = last
    BY <1>1, <1>4, <2>2, PositionIs
  <2>5. last = host
    BY <2>1, <2>3, <2>4
  <2> QED BY <1>2, <1>4, <2>5 DEF last
<1> QED
  BY <1>4, <1>5, <1>6 DEF routes

\* builder.go:38-82, 132-136: whatever the names, a link is answered by its container but
\* for the two cases the code makes itself, the index page's alias and dots and dashes.
THEOREM LinksServedTheorem == SiteSpec => []LinksServed
<1>1. PInv => LinksServed
  <2> SUFFICES ASSUME PInv, NEW c \in DOMAIN containers, NEW entry \in Links(c)
               PROVE  /\ entry.domain \in Subjects(DomainTargets)
                      /\ (\E r \in Routes(c, containers[c]) :
                             r.domain = entry.domain /\ r.target \in Upstreams(entry.domain))
                         <=> ~(entry.domain \in indexRoute \/ Overwritten(entry.domain))
    BY DEF LinksServed
  <2> DEFINE host == entry.domain
             routes == BuiltRoutes(DomainTargets)
  <2>1. PICK r \in Routes(c, containers[c]) : r.domain = host
    BY LinksOfRoutes DEF LinksAreRoutes
  <2>2. r \in AllRoutes
    BY DEF AllRoutes
  <2>3. host \in DOMAIN DomainTargets /\ r.target \in DomainTargets[host]
    BY <2>1, <2>2 DEF DomainTargets
  <2>4. {i \in DOMAIN routes : routes[i].host = host}
          = IF Overwritten(host) THEN {} ELSE {RouteID(host)}
    BY <2>3, KeepsRoute
  <2>5. \A i \in DOMAIN routes : routes[i].upstreams = DomainTargets[routes[i].host]
    BY DEF BuiltRoutes
  <2> HIDE DEF host, routes
  <2>6. Upstreams(host) =
          IF host \in indexRoute THEN {}
          ELSE UNION {routes[id].upstreams : id \in {i \in DOMAIN routes : routes[i].host = host}}
    BY DEF Upstreams, routes
  <2>7. CASE host \in indexRoute
    BY <2>3, <2>6, <2>7 DEF Subjects, host
  <2>8. CASE Overwritten(host)
    BY <2>3, <2>4, <2>6, <2>8 DEF Subjects, host
  <2>9. CASE host \notin indexRoute /\ ~Overwritten(host)
    <3>1. RouteID(host) \in DOMAIN routes /\ routes[RouteID(host)].host = host
      BY <2>4, <2>9
    <3>2. r.target \in Upstreams(host)
      BY <2>3, <2>4, <2>5, <2>6, <2>9, <3>1
    <3> QED BY <2>1, <2>3, <2>9, <3>2 DEF Subjects, host
  <2> QED BY <2>7, <2>8, <2>9
<1> QED
  BY <1>1, SiteRegistry, PTL

=============================================================================
