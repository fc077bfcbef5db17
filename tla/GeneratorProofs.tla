-------------------------- MODULE GeneratorProofs --------------------------
(***************************************************************************)
(* What holds of the registry for every set of containers, every label and *)
(* port, every mode, any number of refreshing goroutines and any stale TTL.*)
(***************************************************************************)
EXTENDS Generator, TLAPS

---------------------------------------------------------------------------
(* The operators on one entry *)

\* An entry has the ports Docker gives its container, and a selected port that was probed.
AsListed(c, info) ==
    /\ info.ports = Attr[c].ports
    /\ info.published = Attr[c].published
    /\ info.selected = NoPort \/ info.selected \in ProbeTargets(info)

RunningAsListed ==
    \A c \in DOMAIN containers : containers[c].running => AsListed(c, containers[c])

\* A container that does not run has an empty map of published ports.
LEMMA EmptyIsPortMap == Empty \in PortMap
<1>1. Empty \in [{} -> Port]
  BY DEF Empty
<1> QED
  BY <1>1 DEF PortMap

\* generator.go:241-310: buildContainerInfo gives an entry of the registry's type.
LEMMA ContainerInfoType ==
    ASSUME NEW c \in Containers, NEW o \in Observation
    PROVE  /\ ContainerInfo(c, o) \in Info
           /\ ContainerInfo(c, o).running = o.running
           /\ ContainerInfo(c, o).stoppedFor = Never
           /\ ContainerInfo(c, o).selected = NoPort
           /\ o.running => AsListed(c, ContainerInfo(c, o))
<1>1. Attr[c] \in AttrType
  BY AttrAssumption
<1>2. Ports(c, o) \in SUBSET Port
  BY <1>1 DEF Ports, AttrType
<1>3. PublishedPorts(c, o) \in PortMap
  BY <1>1, EmptyIsPortMap DEF PublishedPorts, AttrType
<1>4. Reachability(c, o) \in Kind
  BY DEF Reachability, Kind
<1>5. Never \in Age
  BY TTLAssumption DEF Never, Age
<1>6. o.running => AsListed(c, ContainerInfo(c, o))
  BY DEF AsListed, ContainerInfo, Ports, PublishedPorts
<1> QED
  BY <1>2, <1>3, <1>4, <1>5, <1>6 DEF ContainerInfo, Info, Observation

\* An entry folded in is well-formed; it has a clock when it is stopped, and a clock
\* that was running goes on.
LEMMA RefreshedType ==
    ASSUME TypeOK, NEW c \in Containers, NEW o \in Observation
    PROVE  /\ Refreshed(c, o) \in Info
           /\ Refreshed(c, o).running = o.running
           /\ o.running => /\ Refreshed(c, o).selected = NoPort
                           /\ AsListed(c, Refreshed(c, o))
<1>1. 0 \in Age
  BY TTLAssumption DEF Never, Age
<1>2. Reachability(c, o) \in Kind
  BY DEF Reachability, Kind
<1>3. CASE o.running
  BY <1>3, ContainerInfoType DEF Refreshed
<1>4. CASE ~o.running /\ c \in DOMAIN containers
  <2>1. containers[c] \in Info
    BY <1>4 DEF TypeOK
  <2> QED
    BY <1>1, <1>2, <1>4, <2>1 DEF Refreshed, Info, Observation
<1>5. CASE ~o.running /\ c \notin DOMAIN containers
  BY <1>1, <1>5, ContainerInfoType DEF Refreshed, Info, Observation
<1> QED
  BY <1>3, <1>4, <1>5

\* generator.go:138-160: a refreshed entry is running or carries a stop time.
LEMMA RefreshedClock ==
    ASSUME TypeOK, NEW c \in Containers, NEW o \in Observation, ~o.running
    PROVE  /\ StoppedHasClock => Refreshed(c, o).stoppedFor # Never
           /\ c \in DOMAIN containers /\ ~containers[c].running
                => Refreshed(c, o).stoppedFor = containers[c].stoppedFor
<1>1. CASE c \in DOMAIN containers
  <2>1. containers[c] \in Info
    BY <1>1 DEF TypeOK
  <2> QED
    BY <1>1, <2>1 DEF Refreshed, Info, StoppedHasClock, Never
<1>2. CASE c \notin DOMAIN containers
  BY <1>2, ContainerInfoType DEF Refreshed, Info, Never
<1> QED
  BY <1>1, <1>2

\* What a fold leaves in the registry: seen containers, and old entries as they were.
LEMMA RefreshLockedEntries ==
    ASSUME TypeOK, NEW list, DOMAIN list \subseteq Containers,
           \A c \in DOMAIN list : list[c] \in Observation
    PROVE  LET reg == RefreshLocked(list)
           IN /\ DOMAIN reg \subseteq Containers
              /\ \A c \in DOMAIN reg :
                    \/ c \in DOMAIN list /\ reg[c] = Refreshed(c, list[c])
                                         /\ list[c] \in Observation
                    \/ c \in DOMAIN containers /\ reg[c] = containers[c]
                                               /\ ~containers[c].running
              /\ \A c \in DOMAIN containers \ DOMAIN reg :
                    ~containers[c].running => Expired(containers[c])
<1>2. Seen(list) \subseteq DOMAIN list
  BY DEF Seen
<1>3. Kept(list) \subseteq DOMAIN containers
  BY DEF Kept
<1>4. DOMAIN containers \subseteq Containers
  BY DEF TypeOK
<1> QED
  BY <1>2, <1>3, <1>4 DEF RefreshLocked, Kept

\* Selecting ports touches nothing but the selected port, and sets it to one of the
\* ports that were probed.
LEMMA SelectPortsEntries ==
    ASSUME NEW reg, \A c \in DOMAIN reg : reg[c] \in Info, NEW answer \in Answers(reg)
    PROVE  /\ DOMAIN SelectPorts(reg, answer) = DOMAIN reg
           /\ \A c \in DOMAIN reg :
                 LET new == SelectPorts(reg, answer)[c]
                 IN /\ new \in Info
                    /\ new.running = reg[c].running
                    /\ new.stoppedFor = reg[c].stoppedFor
                    /\ ProbeTargets(new) = ProbeTargets(reg[c])
                    /\ new.selected = reg[c].selected \/ new.selected \in ProbeTargets(new)
                    /\ AsListed(c, reg[c]) => AsListed(c, new)
<1>1. /\ answer \in [Probed(reg) -> Port \cup {NoPort}]
      /\ \A c \in Probed(reg) : answer[c] \in ProbeTargets(reg[c]) \cup {NoPort}
  BY DEF Answers
<1>2. DOMAIN SelectPorts(reg, answer) = DOMAIN reg
  BY DEF SelectPorts
<1>3. ASSUME NEW c \in DOMAIN reg
      PROVE  LET new == SelectPorts(reg, answer)[c]
             IN /\ new \in Info
                /\ new.running = reg[c].running
                /\ new.stoppedFor = reg[c].stoppedFor
                /\ ProbeTargets(new) = ProbeTargets(reg[c])
                /\ new.selected = reg[c].selected \/ new.selected \in ProbeTargets(new)
                /\ AsListed(c, reg[c]) => AsListed(c, new)
  <2> DEFINE new == SelectPorts(reg, answer)[c]
  <2>1. reg[c] \in Info
    OBVIOUS
  <2>2. CASE c \in Probed(reg) /\ answer[c] # NoPort
    <3>1. answer[c] \in Port /\ answer[c] \in ProbeTargets(reg[c])
      BY <1>1, <2>2
    <3>2. new = [reg[c] EXCEPT !.selected = answer[c]]
      BY <1>1, <2>2 DEF SelectPorts
    <3>3. /\ new \in Info
          /\ new.running = reg[c].running
          /\ new.stoppedFor = reg[c].stoppedFor
          /\ new.kind = reg[c].kind
          /\ new.ports = reg[c].ports
          /\ new.published = reg[c].published
          /\ new.selected = answer[c]
      BY <2>1, <3>1, <3>2 DEF Info
    <3>4. ProbeTargets(new) = ProbeTargets(reg[c])
      BY <3>3 DEF ProbeTargets, EffectivePort
    <3>5. AsListed(c, reg[c]) => AsListed(c, new)
      BY <3>1, <3>3, <3>4 DEF AsListed
    <3> QED
      BY <3>1, <3>3, <3>4, <3>5
  <2>3. CASE ~(c \in Probed(reg) /\ answer[c] # NoPort)
    <3>1. new = reg[c]
      BY <1>1, <2>3 DEF SelectPorts
    <3> QED
      BY <2>1, <3>1
  <2> QED
    BY <2>2, <2>3
<1> QED
  BY <1>2, <1>3

\* What folding a list in leaves in the registry, the selected ports included.
LEMMA FoldStep ==
    ASSUME TypeOK, NEW list, DOMAIN list \subseteq Containers,
           \A c \in DOMAIN list : list[c] \in Observation, Fold(list)
    PROVE  /\ DOMAIN containers' \subseteq Containers
           /\ \A c \in DOMAIN containers' : containers'[c] \in Info
           /\ \A c \in DOMAIN containers' :
                 \/ \E o \in Observation :
                       /\ containers'[c].running = o.running
                       /\ containers'[c].stoppedFor = Refreshed(c, o).stoppedFor
                 \/ /\ c \in DOMAIN containers
                    /\ containers'[c].running = containers[c].running
                    /\ containers'[c].stoppedFor = containers[c].stoppedFor
           /\ \A c \in DOMAIN containers' :
                 containers'[c].running => AsListed(c, containers'[c])
           /\ \A c \in DOMAIN containers \ DOMAIN containers' :
                 ~containers[c].running => Expired(containers[c])
<1> DEFINE reg == RefreshLocked(list)
<1>1. /\ DOMAIN reg \subseteq Containers
      /\ \A c \in DOMAIN reg :
            \/ c \in DOMAIN list /\ reg[c] = Refreshed(c, list[c]) /\ list[c] \in Observation
            \/ c \in DOMAIN containers /\ reg[c] = containers[c] /\ ~containers[c].running
      /\ \A c \in DOMAIN containers \ DOMAIN reg :
            ~containers[c].running => Expired(containers[c])
  BY RefreshLockedEntries
<1>2. \A c \in DOMAIN reg : reg[c] \in Info
  <2> TAKE c \in DOMAIN reg
  <2>1. CASE c \in DOMAIN list /\ reg[c] = Refreshed(c, list[c]) /\ list[c] \in Observation
    BY <1>1, <2>1, RefreshedType
  <2>2. CASE c \in DOMAIN containers /\ reg[c] = containers[c] /\ ~containers[c].running
    BY <2>2 DEF TypeOK
  <2> QED
    BY <1>1, <2>1, <2>2
<1>3. \A c \in DOMAIN reg :
         \/ \E o \in Observation :
               reg[c].running = o.running /\ reg[c].stoppedFor = Refreshed(c, o).stoppedFor
         \/ /\ c \in DOMAIN containers
            /\ reg[c].running = containers[c].running
            /\ reg[c].stoppedFor = containers[c].stoppedFor
  <2> TAKE c \in DOMAIN reg
  <2>1. CASE c \in DOMAIN list /\ reg[c] = Refreshed(c, list[c]) /\ list[c] \in Observation
    BY <1>1, <2>1, RefreshedType
  <2> QED
    BY <1>1, <2>1
<1>6. \A c \in DOMAIN reg : reg[c].running => AsListed(c, reg[c])
  <2> TAKE c \in DOMAIN reg
  <2>1. CASE c \in DOMAIN list /\ reg[c] = Refreshed(c, list[c]) /\ list[c] \in Observation
    BY <1>1, <2>1, RefreshedType
  <2> QED
    BY <1>1, <2>1
<1>4. CASE containers' = reg
  BY <1>1, <1>2, <1>3, <1>4, <1>6
<1>5. CASE \E answer \in Answers(reg) : containers' = SelectPorts(reg, answer)
  <2>1. PICK answer \in Answers(reg) : containers' = SelectPorts(reg, answer)
    BY <1>5
  <2>2. /\ DOMAIN containers' = DOMAIN reg
        /\ \A c \in DOMAIN reg : /\ containers'[c] \in Info
                                 /\ containers'[c].running = reg[c].running
                                 /\ containers'[c].stoppedFor = reg[c].stoppedFor
                                 /\ AsListed(c, reg[c]) => AsListed(c, containers'[c])
    BY <1>2, <2>1, SelectPortsEntries
  <2> QED
    BY <1>1, <1>3, <1>6, <2>2
<1> QED
  BY <1>4, <1>5 DEF Fold

\* The same of one goroutine's Refresh.
LEMMA RefreshStep ==
    ASSUME TypeOK, NEW r \in Refreshers, Refresh(r)
    PROVE  /\ DOMAIN containers' \subseteq Containers
           /\ \A c \in DOMAIN containers' : containers'[c] \in Info
           /\ \A c \in DOMAIN containers' :
                 \/ \E o \in Observation :
                       /\ containers'[c].running = o.running
                       /\ containers'[c].stoppedFor = Refreshed(c, o).stoppedFor
                 \/ /\ c \in DOMAIN containers
                    /\ containers'[c].running = containers[c].running
                    /\ containers'[c].stoppedFor = containers[c].stoppedFor
           /\ \A c \in DOMAIN containers' :
                 containers'[c].running => AsListed(c, containers'[c])
           /\ \A c \in DOMAIN containers \ DOMAIN containers' :
                 ~containers[c].running => Expired(containers[c])
<1>1. /\ r \in DOMAIN lists
      /\ Fold(lists[r])
      /\ DOMAIN lists[r] \subseteq Containers
      /\ \A c \in DOMAIN lists[r] : lists[r][c] \in Observation
  BY DEF Refresh, TypeOK
<1> QED
  BY <1>1, FoldStep

\* Time passing keeps an entry's type.
LEMMA OlderType ==
    ASSUME NEW info \in Info
    PROVE  /\ Older(info) \in Info
           /\ Older(info).running = info.running
           /\ info.stoppedFor # Never => Older(info).stoppedFor # Never
           /\ Older(info).stoppedFor >= info.stoppedFor
<1>1. StaleTTL \in Nat
  BY TTLAssumption
<1>2. info.stoppedFor \in -1 .. (StaleTTL + 1)
  BY DEF Info, Age, Never
<1>3. CASE info.stoppedFor \in 0 .. StaleTTL
  <2>1. info.stoppedFor + 1 \in Age
    BY <1>1, <1>3 DEF Age, Never
  <2>2. Older(info) = [info EXCEPT !.stoppedFor = info.stoppedFor + 1]
    BY <1>3 DEF Older
  <2>3. Older(info) \in Info /\ Older(info).running = info.running
    BY <2>1, <2>2 DEF Info
  <2>4. Older(info).stoppedFor = info.stoppedFor + 1
    BY <2>2 DEF Info
  <2> QED
    BY <1>1, <1>3, <2>3, <2>4 DEF Never
<1>4. CASE info.stoppedFor \notin 0 .. StaleTTL
  BY <1>1, <1>2, <1>4 DEF Older
<1> QED
  BY <1>3, <1>4

\* generator.go:532-542: StaleCleanup only removes.
LEMMA CleanupStep ==
    ASSUME StaleCleanup
    PROVE  /\ DOMAIN containers' \subseteq DOMAIN containers
           /\ \A c \in DOMAIN containers' : containers'[c] = containers[c]
           /\ \A c \in DOMAIN containers \ DOMAIN containers' :
                 ~containers[c].running /\ Expired(containers[c])
BY DEF StaleCleanup

\* Time passing changes no entry but its age.
LEMMA TickStep ==
    ASSUME Tick
    PROVE  /\ DOMAIN containers' = DOMAIN containers
           /\ \A c \in DOMAIN containers' : containers'[c] = Older(containers[c])
BY DEF Tick

\* And what Docker gave the running ones.
LEMMA OlderAsListed ==
    ASSUME TypeOK, RunningAsListed, Tick
    PROVE  RunningAsListed'
<1> SUFFICES ASSUME NEW c \in DOMAIN containers, containers'[c].running
             PROVE  AsListed(c, containers'[c])
  BY TickStep DEF RunningAsListed
<1>1. containers[c] \in Info
  BY DEF TypeOK
<1>2. /\ containers'[c].selected = containers[c].selected
      /\ containers'[c].running = containers[c].running
      /\ containers'[c].kind = containers[c].kind
      /\ containers'[c].ports = containers[c].ports
      /\ containers'[c].published = containers[c].published
  BY <1>1, TickStep DEF Older, Info
<1>3. AsListed(c, containers[c])
  BY <1>2 DEF RunningAsListed
<1> QED
  BY <1>2, <1>3 DEF AsListed, ProbeTargets, EffectivePort

---------------------------------------------------------------------------
(* Theorems *)

\* generator.go:68-75: the registry and what is on its way into it stay well-formed.
THEOREM TypeCorrect == Spec => []TypeOK
<1>1. Init => TypeOK
  BY DEF Init, TypeOK, Empty
<1>2. TypeOK /\ [Next]_vars => TypeOK'
  <2> SUFFICES ASSUME TypeOK, [Next]_vars
               PROVE  TypeOK'
    OBVIOUS
  <2>1. ASSUME NEW c \in Containers, Start(c) \/ Stop(c) \/ Remove(c) \/ Connect(c)
        PROVE  TypeOK'
    BY <2>1 DEF TypeOK, Start, Stop, Remove, Connect, Status
  <2>2. ASSUME NEW r \in Refreshers, List(r)
        PROVE  TypeOK'
    <3>1. /\ DOMAIN Listed \subseteq Containers
          /\ \A c \in DOMAIN Listed : Listed[c] \in Observation
      BY DEF Listed, Observation
    <3>2. /\ DOMAIN lists' \subseteq Refreshers
          /\ \A q \in DOMAIN lists' : lists'[q] = Listed \/ (q \in DOMAIN lists /\ lists'[q] = lists[q])
      BY <2>2 DEF List, TypeOK
    <3>3. UNCHANGED <<status, shared, containers>>
      BY <2>2 DEF List
    <3> QED
      BY <3>1, <3>2, <3>3 DEF TypeOK
  <2>3. ASSUME NEW r \in Refreshers, Refresh(r)
        PROVE  TypeOK'
    <3>1. /\ DOMAIN containers' \subseteq Containers
          /\ \A c \in DOMAIN containers' : containers'[c] \in Info
      BY <2>3, RefreshStep
    <3>2. /\ DOMAIN lists' \subseteq DOMAIN lists
          /\ \A q \in DOMAIN lists' : lists'[q] = lists[q]
          /\ UNCHANGED <<status, shared>>
      BY <2>3 DEF Refresh
    <3> QED
      BY <3>1, <3>2 DEF TypeOK
  <2>4. CASE StaleCleanup
    <3>1. UNCHANGED <<status, shared, lists>>
      BY <2>4 DEF StaleCleanup
    <3> QED
      BY <2>4, <3>1, CleanupStep DEF TypeOK
  <2>5. CASE Tick
    <3>1. UNCHANGED <<status, shared, lists>>
      BY <2>5 DEF Tick
    <3>2. \A c \in DOMAIN containers' : containers'[c] \in Info
      BY <2>5, TickStep, OlderType DEF TypeOK
    <3> QED
      BY <2>5, <3>1, <3>2, TickStep DEF TypeOK
  <2>6. CASE UNCHANGED vars
    BY <2>6 DEF TypeOK, vars
  <2> QED
    BY <2>1, <2>2, <2>3, <2>4, <2>5, <2>6 DEF Next, Docker
<1> QED
  BY <1>1, <1>2, PTL DEF Spec

\* generator.go:145-157: no entry can become one that never expires.
THEOREM ClockTheorem == Spec => []StoppedHasClock
<1>1. Init => StoppedHasClock
  BY DEF Init, StoppedHasClock, Empty
<1>2. TypeOK /\ StoppedHasClock /\ [Next]_vars => StoppedHasClock'
  <2> SUFFICES ASSUME TypeOK, StoppedHasClock, [Next]_vars
               PROVE  StoppedHasClock'
    OBVIOUS
  <2>1. ASSUME NEW r \in Refreshers, Refresh(r)
        PROVE  StoppedHasClock'
    <3> SUFFICES ASSUME NEW c \in DOMAIN containers', ~containers'[c].running
                 PROVE  containers'[c].stoppedFor # Never
      BY DEF StoppedHasClock
    <3>1. CASE \E o \in Observation : /\ containers'[c].running = o.running
                                      /\ containers'[c].stoppedFor = Refreshed(c, o).stoppedFor
      <4>1. c \in Containers
        BY <2>1, RefreshStep
      <4> QED
        BY <3>1, <4>1, RefreshedClock
    <3>2. CASE /\ c \in DOMAIN containers
               /\ containers'[c].running = containers[c].running
               /\ containers'[c].stoppedFor = containers[c].stoppedFor
      BY <3>2 DEF StoppedHasClock
    <3> QED
      BY <2>1, <3>1, <3>2, RefreshStep
  <2>2. CASE StaleCleanup
    BY <2>2, CleanupStep DEF StoppedHasClock
  <2>3. CASE Tick
    BY <2>3, TickStep, OlderType DEF StoppedHasClock, TypeOK
  <2>4. CASE UNCHANGED containers
    BY <2>4 DEF StoppedHasClock
  <2> QED
    BY <2>1, <2>2, <2>3, <2>4
       DEF Next, Docker, Start, Stop, Remove, Connect, List, vars
<1> QED
  BY <1>1, <1>2, TypeCorrect, PTL DEF Spec

\* generator.go:150-154: no refresh, from whichever goroutine and with whichever list,
\* makes a stopped container look more recently stopped.
THEOREM StickyTheorem == Spec => StopTimeSticky
<1> DEFINE Sticky ==
      \A c \in DOMAIN containers \cap DOMAIN containers' :
          ~containers[c].running /\ ~containers'[c].running
             => containers'[c].stoppedFor >= containers[c].stoppedFor
<1>1. TypeOK /\ [Next]_vars => [Sticky]_vars
  <2> SUFFICES ASSUME TypeOK, Next
               PROVE  Sticky
    OBVIOUS
  <2>0. \A c \in DOMAIN containers : containers[c].stoppedFor \in Int
    BY TTLAssumption DEF TypeOK, Info, Age, Never
  <2>1. ASSUME NEW r \in Refreshers, Refresh(r)
        PROVE  Sticky
    <3> SUFFICES ASSUME NEW c \in DOMAIN containers \cap DOMAIN containers',
                        ~containers[c].running, ~containers'[c].running
                 PROVE  containers'[c].stoppedFor = containers[c].stoppedFor
      BY <2>0
    <3>1. CASE \E o \in Observation : /\ containers'[c].running = o.running
                                      /\ containers'[c].stoppedFor = Refreshed(c, o).stoppedFor
      <4>1. c \in Containers
        BY <2>1, RefreshStep
      <4> QED
        BY <3>1, <4>1, RefreshedClock
    <3> QED
      BY <2>1, <3>1, RefreshStep
  <2>2. CASE StaleCleanup
    BY <2>0, <2>2, CleanupStep
  <2>3. CASE Tick
    BY <2>3, TickStep, OlderType DEF TypeOK
  <2>4. CASE UNCHANGED containers
    BY <2>0, <2>4
  <2> QED
    BY <2>1, <2>2, <2>3, <2>4 DEF Next, Docker, Start, Stop, Remove, Connect, List
<1> QED
  BY <1>1, TypeCorrect, PTL DEF Spec, StopTimeSticky

\* generator.go:163-172, 537-541: an entry shown as stopped stays for the stale TTL.
THEOREM KeptTheorem == Spec => KeptUntilTTL
<1> DEFINE Keep ==
      \A c \in DOMAIN containers \ DOMAIN containers' :
          ~containers[c].running => containers[c].stoppedFor > StaleTTL
<1>1. TypeOK /\ [Next]_vars => [Keep]_vars
  <2> SUFFICES ASSUME TypeOK, Next
               PROVE  Keep
    OBVIOUS
  <2>1. ASSUME NEW r \in Refreshers, Refresh(r)
        PROVE  Keep
    BY <2>1, RefreshStep DEF Expired
  <2>2. CASE StaleCleanup
    BY <2>2, CleanupStep DEF Expired
  <2>3. CASE Tick
    BY <2>3, TickStep
  <2>4. CASE UNCHANGED containers
    BY <2>4
  <2> QED
    BY <2>1, <2>2, <2>3, <2>4 DEF Next, Docker, Start, Stop, Remove, Connect, List
<1> QED
  BY <1>1, TypeCorrect, PTL DEF Spec, KeptUntilTTL

\* generator.go:241-348: whatever the network did and however old the list, a running
\* entry has the ports Docker gives its container and a port that was probed for it.
THEOREM AsListedTheorem == Spec => []RunningAsListed
<1>1. Init => RunningAsListed
  BY DEF Init, RunningAsListed, Empty
<1>2. TypeOK /\ RunningAsListed /\ [Next]_vars => RunningAsListed'
  <2> SUFFICES ASSUME TypeOK, RunningAsListed, [Next]_vars
               PROVE  RunningAsListed'
    OBVIOUS
  <2>1. ASSUME NEW r \in Refreshers, Refresh(r)
        PROVE  RunningAsListed'
    BY <2>1, RefreshStep DEF RunningAsListed
  <2>2. CASE StaleCleanup
    BY <2>2, CleanupStep DEF RunningAsListed
  <2>3. CASE Tick
    BY <2>3, OlderAsListed
  <2>4. CASE UNCHANGED containers
    BY <2>4 DEF RunningAsListed
  <2> QED
    BY <2>1, <2>2, <2>3, <2>4
       DEF Next, Docker, Start, Stop, Remove, Connect, List, vars
<1> QED
  BY <1>1, <1>2, TypeCorrect, PTL DEF Spec

\* generator.go:341-348, 375-412: for any labels, ports and networks every route goes to a
\* port Docker gives the container as it was last listed, also to one of the host's when
\* the port is not published.
THEOREM TargetsTheorem == Spec => []TargetsFollowDocker
<1>1. TypeOK /\ RunningAsListed => TargetsFollowDocker
  <2> SUFFICES ASSUME TypeOK, RunningAsListed,
                      NEW c \in Running, NEW route \in Routes(c, containers[c])
               PROVE  route.target[2] \in IF containers[c].kind = "gateway"
                                          THEN HostPorts(c) \cup Unpublished(c)
                                          ELSE PrivatePorts(c)
    BY DEF TargetsFollowDocker
  <2> DEFINE info == containers[c]
  <2>1. info.running /\ AsListed(c, info)
    BY DEF Running, RunningAsListed
  <2>2. PICK p \in PrivatePorts(c) : route.target[2] = EffectivePort(info, p)
    <3>1. CASE Attr[c].custom # {}
      <4>1. PICK cd \in Attr[c].custom :
               route = [domain |-> cd.domain,
                        target |-> <<HostFor(c, info), EffectivePort(info, cd.port)>>]
        BY <2>1, <3>1 DEF Routes
      <4> QED BY <4>1 DEF PrivatePorts
    <3>2. CASE Attr[c].custom = {}
      <4>1. info.selected # NoPort /\ route.target[2] = info.selected
        BY <2>1, <3>2 DEF Routes
      <4>2. PICK p \in info.ports : info.selected = EffectivePort(info, p)
        BY <2>1, <4>1 DEF AsListed, ProbeTargets
      <4> QED BY <2>1, <4>1, <4>2 DEF AsListed, PrivatePorts
    <3> QED BY <3>1, <3>2
  <2>3. info.published = Attr[c].published
    BY <2>1 DEF AsListed
  <2>4. CASE info.kind # "gateway"
    BY <2>2, <2>4 DEF EffectivePort
  <2>5. CASE info.kind = "gateway"
    <3>1. CASE p \in DOMAIN Attr[c].published
      <4>1. route.target[2] = Attr[c].published[p]
        BY <2>2, <2>3, <2>5, <3>1 DEF EffectivePort
      <4> QED BY <2>5, <3>1, <4>1 DEF HostPorts
    <3>2. CASE p \notin DOMAIN Attr[c].published
      <4>1. route.target[2] = p
        BY <2>2, <2>3, <3>2 DEF EffectivePort
      <4> QED BY <2>5, <3>2, <4>1 DEF Unpublished
    <3> QED BY <3>1, <3>2
  <2> QED BY <2>4, <2>5
<1> QED
  BY <1>1, TypeCorrect, AsListedTheorem, PTL

\* generator.go:375-412, 490-530: the hosts file is given every domain that is routed.
THEOREM ResolvableTheorem == Spec => []RoutedIsResolvable
<1>1. TypeOK => RoutedIsResolvable
  <2> SUFFICES ASSUME TypeOK, NEW d \in DOMAIN DomainTargets
               PROVE  d \in Domains
    BY DEF RoutedIsResolvable
  <2>1. PICK c \in DOMAIN containers :
               \E route \in Routes(c, containers[c]) : route.domain = d
    BY DEF DomainTargets, AllRoutes
  <2>2. containers[c] \in Info /\ c \in Containers
    BY DEF TypeOK
  <2>3. containers[c].running
    BY <2>1 DEF Routes
  <2>4. CASE Attr[c].custom # {}
    <3>1. d \in {cd.domain : cd \in Attr[c].custom}
      BY <2>1, <2>3, <2>4 DEF Routes
    <3> QED
      BY <2>3, <2>4, <3>1 DEF Domains, Names
  <2>5. CASE Attr[c].custom = {}
    <3>1. containers[c].selected # NoPort /\ d \in Attr[c].domains
      BY <2>1, <2>3, <2>5 DEF Routes
    <3>2. containers[c].selected \in Port \cup {NoPort}
      BY <2>2 DEF Info
    <3>3. containers[c].selected \in Nat /\ containers[c].selected # 0
      BY <3>1, <3>2, PortAssumption DEF NoPort
    <3>4. containers[c].selected > 0
      BY <3>3
    <3> QED
      BY <2>3, <2>5, <3>1, <3>4 DEF Domains, Names, HasReachablePort
  <2> QED
    BY <2>4, <2>5
<1> QED
  BY <1>1, TypeCorrect, PTL

\* An entry that keeps what it had but for its age gives the routes and names it gave.
LEMMA OlderRoutes ==
    ASSUME NEW c \in Containers, NEW info \in Info
    PROVE  Routes(c, Older(info)) = Routes(c, info) /\ Names(c, Older(info)) = Names(c, info)
<1>1. /\ Older(info).running = info.running
      /\ Older(info).selected = info.selected
      /\ Older(info).kind = info.kind
      /\ Older(info).ports = info.ports
      /\ Older(info).published = info.published
  BY DEF Older, Info
<1>2. \A p : EffectivePort(Older(info), p) = EffectivePort(info, p)
  BY <1>1 DEF EffectivePort
<1>3. HostFor(c, Older(info)) = HostFor(c, info)
  BY <1>1 DEF HostFor
<1>4. HasReachablePort(c, Older(info)) <=> HasReachablePort(c, info)
  BY <1>1 DEF HasReachablePort
<1>5. Routes(c, Older(info)) = Routes(c, info)
  <2>1. CASE Attr[c].custom # {}
    <3>1. {[domain |-> cd.domain,
            target |-> <<HostFor(c, Older(info)), EffectivePort(Older(info), cd.port)>>] :
              cd \in Attr[c].custom}
            = {[domain |-> cd.domain,
                target |-> <<HostFor(c, info), EffectivePort(info, cd.port)>>] :
                  cd \in Attr[c].custom}
      BY <1>2, <1>3
    <3> QED BY <1>1, <2>1, <3>1, Zenon DEF Routes
  <2>2. CASE Attr[c].custom = {}
    BY <1>1, <1>3, <2>2 DEF Routes
  <2> QED BY <2>1, <2>2
<1>6. Names(c, Older(info)) = Names(c, info)
  BY <1>1, <1>4 DEF Names
<1> QED
  BY <1>5, <1>6

\* generator.go:385, 498, 532-541: what is dropped for its age had no route and no name, so
\* that routes and names change by a refresh alone.  Discovery's ViewAssumption says this
\* of its views.
THEOREM RerouteTheorem == Spec => OnlyRefreshReroutes
<1> DEFINE Same == UNCHANGED lists => DomainTargets' = DomainTargets /\ Domains' = Domains
<1>1. ASSUME AllRoutes' = AllRoutes, Domains' = Domains PROVE Same
  BY <1>1 DEF DomainTargets
<1>2. TypeOK /\ [Next]_vars => [Same]_vars
  <2> SUFFICES ASSUME TypeOK, Next, UNCHANGED lists
               PROVE  Same
    OBVIOUS
  <2>0. \A c \in DOMAIN containers : c \in Containers /\ containers[c] \in Info
    BY DEF TypeOK
  <2>1. ASSUME NEW r \in Refreshers, Refresh(r)
        PROVE  FALSE
    BY <2>1 DEF Refresh
  <2>2. CASE StaleCleanup
    <3>1. \A c \in DOMAIN containers \ DOMAIN containers' :
             Routes(c, containers[c]) = {} /\ Names(c, containers[c]) = {}
      BY <2>2, CleanupStep DEF Routes, Names
    <3>2. \A c \in DOMAIN containers' : c \in DOMAIN containers /\ containers'[c] = containers[c]
      BY <2>2, CleanupStep
    <3>3. AllRoutes' = AllRoutes
      BY <3>1, <3>2 DEF AllRoutes, Routes, HostFor, EffectivePort
    <3>4. Domains' = Domains
      BY <3>1, <3>2 DEF Domains, Names, HasReachablePort
    <3> QED BY <1>1, <3>3, <3>4
  <2>3. CASE Tick
    <3>1. DOMAIN containers' = DOMAIN containers
      BY <2>3, TickStep
    <3>2. \A c \in DOMAIN containers :
             /\ Routes(c, containers'[c]) = Routes(c, containers[c])
             /\ Names(c, containers'[c]) = Names(c, containers[c])
      BY <2>0, <2>3, TickStep, OlderRoutes
    <3>3. AllRoutes' = AllRoutes
      BY <3>1, <3>2 DEF AllRoutes
    <3>4. Domains' = Domains
      BY <3>1, <3>2 DEF Domains
    <3> QED BY <1>1, <3>3, <3>4
  <2>4. CASE UNCHANGED containers
    BY <2>4, <1>1 DEF AllRoutes, Domains
  <2> QED
    BY <2>1, <2>2, <2>3, <2>4 DEF Next, Docker, Start, Stop, Remove, Connect, List
<1> QED
  BY <1>2, TypeCorrect, PTL DEF Spec, OnlyRefreshReroutes

=============================================================================
