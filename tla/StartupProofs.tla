--------------------------- MODULE StartupProofs ---------------------------
(***************************************************************************)
(* What holds of every start: any files, any flags, any environment and    *)
(* any step that fails.                                                    *)
(***************************************************************************)
EXTENDS Startup, TLAPS

---------------------------------------------------------------------------
(* Opting out *)

\* flags.go:70-95, cmd.go:138-150: what the proxy resolves for the hosts file is the
\* last word on it.
LEMMA HostsFileResolved ==
    ASSUME LastWord("hosts-file") = {FALSE}
    PROVE  ResolveProxy(env, flags)["hosts-file"] = FALSE
<1> DEFINE o == "hosts-file"
           overrides == CommandOverrides(flags)
<1>1. o \in Option /\ o \in Switches
  BY DEF Option, Switches
<1>2. ResolveProxy(env, flags)[o]
        = IF o \in DOMAIN overrides THEN overrides[o] ELSE DefaultConfig(env)[o]
  BY <1>1 DEF ResolveProxy, ApplyFlags
<1>3. CASE o \in DOMAIN flags
  <2>1. o \in DOMAIN overrides /\ overrides[o] = flags[o]
    BY <1>1, <1>3 DEF CommandOverrides, Overrides
  <2>2. flags[o] = FALSE
    BY <1>3 DEF LastWord
  <2> QED
    BY <1>2, <2>1, <2>2
<1>4. CASE o \notin DOMAIN flags
  <2>1. o \notin DOMAIN overrides
    BY <1>4 DEF CommandOverrides, Overrides
  <2>2. DefaultConfig(env)[o] = GetBoolOrDefault(env[o], DefaultOf[o])
    BY <1>1 DEF DefaultConfig
  <2>3. DefaultOf[o] = TRUE
    BY <1>1 DEF DefaultOf
  <2>4. (IF Meant(o) # {} THEN Meant(o) ELSE {TRUE}) = {FALSE}
    BY <1>4, <2>3 DEF LastWord
  <2>5. CASE env[o] \in Yes
    <3>1. Meant(o) = {TRUE}
      BY <1>1, <2>5 DEF Meant, Yes, No
    <3> QED
      BY <2>4, <3>1
  <2>6. CASE env[o] \in No /\ env[o] \notin Yes
    BY <1>2, <2>1, <2>2, <2>6 DEF GetBoolOrDefault
  <2>7. CASE env[o] \notin Yes /\ env[o] \notin No
    <3>1. Meant(o) = {}
      BY <1>1, <2>7 DEF Meant
    <3> QED
      BY <2>4, <3>1
  <2> QED
    BY <2>5, <2>6, <2>7
<1> QED
  BY <1>3, <1>4

\* Once past the first step the proxy runs by what it resolved, and nothing but a sync
\* it may do touches the hosts file.
OptInv ==
    /\ stage = "resolve" => hosts = Untouched
    /\ program = "devlocal" /\ stage # "resolve" => cfg = ResolveProxy(env, flags)
    /\ program = "devlocal" /\ stage # "resolve" /\ hosts # Untouched => cfg["hosts-file"]

\* No step turns the hosts file back on: each writes it only if it is wanted.
LEMMA OptStep == OptInv /\ [Next]_vars => OptInv'
<1> SUFFICES ASSUME OptInv, [Next]_vars
             PROVE  OptInv'
  OBVIOUS
<1>1. CASE Resolve
  <2>1. program' = program /\ env' = env /\ flags' = flags /\ hosts' = hosts
    BY <1>1 DEF Resolve, given
  <2>2. stage = "resolve" /\ stage' # "resolve"
    BY <1>1 DEF Resolve
  <2>3. program = "devlocal" => cfg' = ResolveProxy(env, flags)
    BY <1>1 DEF Resolve
  <2>4. ResolveProxy(env, flags)' = ResolveProxy(env, flags)
    BY <2>1
  <2> QED
    BY <2>1, <2>2, <2>3, <2>4 DEF OptInv, Untouched
<1>2. CASE SyncHosts \/ Apply
  <2>1. /\ program' = program /\ env' = env /\ flags' = flags /\ cfg' = cfg
        /\ stage # "resolve" /\ stage' # "resolve"
        /\ hosts' \in SyncedHosts
    BY <1>2 DEF SyncHosts, Apply, After, given
  <2>2. hosts' # hosts => cfg["hosts-file"]
    BY <2>1 DEF SyncedHosts, MaySync
  <2>3. ResolveProxy(env, flags)' = ResolveProxy(env, flags)
    BY <2>1
  <2> QED
    BY <2>1, <2>2, <2>3 DEF OptInv, Untouched
<1>3. CASE Client \/ Refresh \/ Load \/ PostServer \/ PostIndex \/ PostRoutes
           \/ WritePage \/ StepFails \/ Change \/ Signal
  <2>1. /\ program' = program /\ env' = env /\ flags' = flags /\ cfg' = cfg
        /\ hosts' = hosts
        /\ stage # "resolve" /\ stage' # "resolve"
    BY <1>3 DEF Client, Refresh, Load, PostServer, PostIndex, PostRoutes, WritePage,
         StepFails, Fail, Change,
                Signal, After, given
  <2>2. ResolveProxy(env, flags)' = ResolveProxy(env, flags)
    BY <2>1
  <2> QED
    BY <2>1, <2>2 DEF OptInv, Untouched
<1>4. CASE UNCHANGED vars
  <2>1. /\ program' = program /\ env' = env /\ flags' = flags /\ cfg' = cfg
        /\ hosts' = hosts /\ stage' = stage
    BY <1>4 DEF vars, given
  <2>2. ResolveProxy(env, flags)' = ResolveProxy(env, flags)
    BY <2>1
  <2> QED
    BY <2>1, <2>2 DEF OptInv, Untouched
<1> QED
  BY <1>1, <1>2, <1>3, <1>4 DEF Next

\* cmd.go:83-89, 174-179: whatever the rest of the command line and the environment
\* say, and whichever steps fail, a proxy told not to does not touch the hosts file.
THEOREM OptOutTheorem == Spec => []OptedOut
<1>1. Init => OptInv
  BY DEF Init, OptInv
<1>2. OptInv => OptedOut
  BY HostsFileResolved DEF OptInv, OptedOut
<1> QED
  BY <1>1, <1>2, OptStep, PTL DEF Spec

---------------------------------------------------------------------------
(* The last word *)

\* What the environment and the defaults make of an option is what is meant there.
LEMMA DefaultMeant ==
    ASSUME NEW o \in Option, env[o] \in Words(o)
    PROVE  IF Meant(o) # {} THEN Meant(o) = {DefaultConfig(env)[o]}
           ELSE DefaultConfig(env)[o] = DefaultOf[o]
<1>1. CASE o \in Switches
  <2>1. DefaultConfig(env)[o] = GetBoolOrDefault(env[o], DefaultOf[o])
    BY <1>1 DEF DefaultConfig
  <2>2. Yes \cap No = {}
    BY DEF Yes, No
  <2> QED
    BY <1>1, <2>1, <2>2 DEF Meant, GetBoolOrDefault
<1>2. CASE o \in Durations
  <2>1. o \notin Switches
    BY <1>2 DEF Durations, Switches
  <2>2. DefaultConfig(env)[o] = GetDurationOrDefault(env[o], DefaultOf[o])
    BY <1>2, <2>1 DEF DefaultConfig
  <2> QED
    BY <1>2, <2>1, <2>2 DEF Meant, GetDurationOrDefault
<1>3. CASE o \notin Switches /\ o \notin Durations
  <2>1. DefaultConfig(env)[o] = GetEnvOrDefault(env[o], DefaultOf[o])
    BY <1>3 DEF DefaultConfig
  <2>2. env[o] \in {Unset} \cup TLDs
    BY <1>3 DEF Words
  <2> QED
    BY <1>3, <2>1, <2>2, TLDAssumption DEF Meant, GetEnvOrDefault
<1> QED
  BY <1>1, <1>2, <1>3

\* A flag the program has wins over both.
LEMMA LastWordResolved ==
    ASSUME NEW known, NEW o \in Option \cap known, env[o] \in Words(o)
    PROVE  LastWord(o) = {ApplyFlags(DefaultConfig(env), Overrides(flags, known))[o]}
<1> DEFINE overrides == Overrides(flags, known)
<1>1. o \in DOMAIN overrides <=> o \in DOMAIN flags
  BY DEF Overrides
<1>2. o \in DOMAIN flags => overrides[o] = flags[o]
  BY DEF Overrides
<1>3. ApplyFlags(DefaultConfig(env), overrides)[o]
        = IF o \in DOMAIN overrides THEN overrides[o] ELSE DefaultConfig(env)[o]
  BY DEF ApplyFlags
<1>4. ApplyFlags(DefaultConfig(env), overrides)[o]
        = IF o \in DOMAIN flags THEN flags[o] ELSE DefaultConfig(env)[o]
  <2> HIDE DEF overrides
  <2> QED
    BY <1>1, <1>2, <1>3
<1>5. IF Meant(o) # {} THEN Meant(o) = {DefaultConfig(env)[o]}
      ELSE DefaultConfig(env)[o] = DefaultOf[o]
  BY DefaultMeant
<1> QED
  BY <1>4, <1>5 DEF LastWord

Settled == IF program = "devlocal" THEN ResolveProxy(env, flags) ELSE ResolveHosts(env, flags)

SettingsInv ==
    /\ \A o \in Option : env[o] \in Words(o)
    /\ stage # "resolve" => cfg = Settled

\* The settings are those of the environment and the flags from the first step on.
LEMMA SettingsStep == SettingsInv /\ [Next]_vars => SettingsInv'
<1> SUFFICES ASSUME SettingsInv, [Next]_vars
             PROVE  SettingsInv'
  OBVIOUS
<1>1. program' = program /\ env' = env /\ flags' = flags
  BY DEF Next, Resolve, Client, Refresh, Load, PostServer, PostIndex, PostRoutes, WritePage,
         StepFails, Fail,
         SyncHosts, Change, Apply, Signal, vars, given
<1>2. Settled' = Settled
  BY <1>1 DEF Settled
<1>3. stage' # "resolve" => cfg' = Settled
  <2>1. CASE Resolve
    BY <2>1 DEF Resolve, Settled
  <2>2. CASE ~Resolve
    <3>1. cfg' = cfg /\ (stage' # "resolve" => stage # "resolve")
      BY <2>2 DEF Next, Client, Refresh, Load, PostServer, PostIndex, PostRoutes, WritePage,
         StepFails, Fail,
                  SyncHosts, Change, Apply, Signal, vars
    <3> QED
      BY <3>1 DEF SettingsInv
  <2> QED
    BY <2>1, <2>2
<1>4. \A o \in Option : env'[o] \in Words(o)
  BY <1>1 DEF SettingsInv
<1> QED
  BY <1>2, <1>3, <1>4 DEF SettingsInv

\* config.go:23-90, flags.go:70-95, cmd.go:138-150: for any environment and any flags,
\* both programs run by the strongest word on each option they share.
THEOREM StrongestTheorem == Spec => []StrongestWord
<1>1. Init => SettingsInv
  BY DEF Init, SettingsInv
<1>2. SettingsInv => StrongestWord
  <2> SUFFICES ASSUME SettingsInv, stage # "resolve",
                      NEW o \in Option, program # "devlocal" => o \in Shared
               PROVE  LastWord(o) = {cfg[o]}
    BY DEF StrongestWord, Option
  <2>1. cfg = Settled /\ env[o] \in Words(o)
    BY DEF SettingsInv
  <2>2. CASE program = "devlocal"
    BY <2>1, <2>2, LastWordResolved DEF Settled, ResolveProxy, CommandOverrides
  <2>3. CASE program # "devlocal"
    <3>1. o # "hosts-file"
      BY <2>3 DEF Shared, Durations
    <3>2. cfg[o] = ApplyFlags(DefaultConfig(env), SharedOverrides(flags))[o]
      BY <2>1, <2>3, <3>1 DEF Settled, ResolveHosts, ApplyFlags
    <3> QED
      BY <2>1, <2>3, <3>2, LastWordResolved DEF SharedOverrides
  <2> QED
    BY <2>2, <2>3
<1> QED
  BY <1>1, <1>2, SettingsStep, PTL DEF Spec

---------------------------------------------------------------------------
(* The hosts file comes last *)

\* What is done by the time the program is at a step.
OrderInv ==
    /\ stage \in {"resolve", "client", "refresh", "load", "server", "index", "routes", "page",
                 "failed"}
         => hosts = Untouched
    /\ program = "devlocal" /\ stage \in {"server", "index", "routes", "page", "sync", "run"}
         => caddy.up
    /\ program = "devlocal" /\ stage \in {"routes", "page", "sync", "run"} => caddy.index
    /\ program = "devlocal" /\ stage \in {"sync", "run"} => page
    /\ stage \in Stages
    /\ stage \in {"load", "server", "index", "routes", "page"} => program = "devlocal"
    /\ {"up", "index"} \subseteq DOMAIN caddy

\* A step goes on to the next stage or to the end, and each output has its stage.
LEMMA OrderStep == OrderInv /\ [Next]_vars => OrderInv'
<1> SUFFICES ASSUME OrderInv, [Next]_vars
             PROVE  OrderInv'
  OBVIOUS
<1> USE DEF OrderInv, Stages
<1>1. CASE Resolve
  BY <1>1 DEF Resolve, given
<1>2. CASE Client
  BY <1>2 DEF Client, given
<1>3. CASE Refresh
  BY <1>3 DEF Refresh, After, given
<1>4. CASE Load
  BY <1>4 DEF Load, After, given
<1>5. CASE PostServer \/ PostRoutes
  <2>1. /\ program' = program /\ hosts' = hosts
        /\ \/ stage = "server" /\ stage' = "index"
           \/ stage = "routes" /\ stage' = "page"
    BY <1>5 DEF PostServer, PostRoutes, After, given
  <2>2. caddy'.up = caddy.up /\ caddy'.index = caddy.index /\ {"up", "index"} \subseteq DOMAIN caddy'
    BY <1>5 DEF PostServer, PostRoutes
  <2> QED
    BY <2>1, <2>2
<1>13. CASE PostIndex
  <2>1. /\ program' = program /\ hosts' = hosts /\ stage = "index" /\ stage' = "routes"
    BY <1>13 DEF PostIndex, After, given
  <2>2. caddy'.up = caddy.up /\ caddy'.index /\ {"up", "index"} \subseteq DOMAIN caddy'
    BY <1>13 DEF PostIndex
  <2> QED
    BY <2>1, <2>2
<1>6. CASE WritePage
  BY <1>6 DEF WritePage, After, given
<1>7. CASE StepFails
  BY <1>7 DEF StepFails, Fail, CaddyDown, given
<1>8. CASE SyncHosts
  BY <1>8 DEF SyncHosts, After, given
<1>9. CASE Change
  BY <1>9 DEF Change, given
<1>10. CASE Apply
  <2>1. caddy' = caddy \/ caddy' = [caddy EXCEPT !.routed = registry]
    BY <1>10 DEF Apply
  <2>2. /\ program' = program /\ stage = "run" /\ stage' = stage /\ page' = page
    BY <1>10 DEF Apply, given
  <2>3. caddy'.up = caddy.up /\ caddy'.index = caddy.index /\ {"up", "index"} \subseteq DOMAIN caddy'
    BY <2>1
  <2> QED
    BY <2>2, <2>3
<1>11. CASE Signal
  BY <1>11 DEF Signal, CaddyDown, given
<1>12. CASE UNCHANGED vars
  BY <1>12 DEF vars, given
<1> QED
  BY <1>1, <1>2, <1>3, <1>4, <1>5, <1>6, <1>7, <1>8, <1>9, <1>10, <1>11, <1>12, <1>13 DEF Next

\* cmd.go:117-123, main.go:55-58: no start that failed has touched the hosts file, and
\* the proxy's names come after its routes and its page.
THEOREM HostsLastTheorem == Spec => []HostsLast
<1>1. Init => OrderInv
  BY DEF Init, OrderInv, Stages, CaddyDown
<1>2. OrderInv => HostsLast
  BY DEF OrderInv, HostsLast, Stages
<1> QED
  BY <1>1, <1>2, OrderStep, PTL DEF Spec

---------------------------------------------------------------------------
(* The user's config *)

\* What is loaded of it.
Loaded == InjectListenPorts(Adapted(Path), ListenPorts(Path))

ConfigInv ==
    /\ caddy = [up |-> caddy.up, config |-> caddy.config, index |-> caddy.index,
             routed |-> caddy.routed]
    /\ caddy.up => Readable(Path) /\ caddy.config \in {Loaded, EnsureServer(Loaded)}
    /\ stage = "server" => caddy.up /\ caddy.config = Loaded
    /\ program = "devlocal" /\ stage \in {"index", "routes", "page", "sync", "run"}
         => caddy.up /\ caddy.config = EnsureServer(Loaded)
    /\ stage \in {"load", "server", "index", "routes", "page"} => program = "devlocal"
    /\ stage \in Stages

\* Caddy's config is what its stage says: none, the user's, or the user's with devlocal's server.
LEMMA ConfigStep == ConfigInv /\ [Next]_vars => ConfigInv'
<1> SUFFICES ASSUME ConfigInv, [Next]_vars
             PROVE  ConfigInv'
  OBVIOUS
<1>0. program' = program /\ named' = named
  BY DEF Next, Resolve, Client, Refresh, Load, PostServer, PostIndex, PostRoutes, WritePage,
         StepFails, Fail,
         SyncHosts, Change, Apply, Signal, vars, given
<1>1. Path' = Path
  BY <1>0 DEF Path
<1>2. Loaded' = Loaded /\ EnsureServer(Loaded)' = EnsureServer(Loaded)
      /\ Readable(Path)' = Readable(Path)
  BY <1>1 DEF Loaded
<1>3. CASE Load
  <2>1. /\ stage = "load" /\ stage' = "server"
        /\ Readable(Path)
        /\ caddy' = [up |-> TRUE, index |-> FALSE, routed |-> {}, config |-> Loaded]
    BY <1>3 DEF Load, After, Path, Loaded
  <2> HIDE DEF Loaded
  <2> QED
    BY <1>0, <1>2, <2>1 DEF ConfigInv, Stages
<1>4. CASE PostServer
  <2>1. /\ stage = "server" /\ stage' = "index"
        /\ caddy' = [caddy EXCEPT !.config = EnsureServer(caddy.config)]
    BY <1>4 DEF PostServer, After
  <2>2. caddy'.up = caddy.up /\ caddy'.config = EnsureServer(Loaded)
        /\ caddy' = [up |-> caddy'.up, config |-> caddy'.config, index |-> caddy'.index,
                     routed |-> caddy'.routed]
    BY <2>1 DEF ConfigInv
  <2> HIDE DEF Loaded
  <2> QED
    BY <1>0, <1>2, <2>1, <2>2 DEF ConfigInv, Stages
<1>10. CASE PostIndex \/ PostRoutes
  <2>1. /\ stage \in {"index", "routes"} /\ stage' \in {"routes", "page"}
        /\ \/ caddy' = [caddy EXCEPT !.index = TRUE]
           \/ caddy' = [caddy EXCEPT !.routed = registry]
    BY <1>10 DEF PostIndex, PostRoutes, After
  <2>2. /\ caddy'.up = caddy.up /\ caddy'.config = caddy.config
        /\ caddy' = [up |-> caddy'.up, config |-> caddy'.config, index |-> caddy'.index,
                     routed |-> caddy'.routed]
    BY <2>1 DEF ConfigInv
  <2> HIDE DEF Loaded
  <2> QED
    BY <1>0, <1>2, <2>1, <2>2 DEF ConfigInv, Stages
<1>5. CASE Apply
  <2>1. stage = "run" /\ stage' = "run"
    BY <1>5 DEF Apply
  <2>2. caddy' = caddy \/ caddy' = [caddy EXCEPT !.routed = registry]
    BY <1>5 DEF Apply
  <2>3. /\ caddy'.up = caddy.up /\ caddy'.config = caddy.config
        /\ caddy' = [up |-> caddy'.up, config |-> caddy'.config, index |-> caddy'.index,
                     routed |-> caddy'.routed]
    BY <2>2 DEF ConfigInv
  <2> QED
    BY <1>0, <1>2, <2>1, <2>3 DEF ConfigInv, Stages
<1>6. CASE StepFails \/ Signal
  BY <1>0, <1>2, <1>6 DEF StepFails, Fail, Signal, CaddyDown, ConfigInv, Stages
<1>7. CASE Resolve \/ Client \/ Refresh
  <2>1. caddy' = caddy /\ stage \in {"resolve", "client", "refresh"}
    BY <1>7 DEF Resolve, Client, Refresh
  <2>2. stage' \in {"client", "failed", "refresh"} \/ stage' = After("refresh")
    BY <1>7 DEF Resolve, Client, Refresh
  <2>3. /\ stage' \in Stages
        /\ stage' \notin {"server", "index", "routes", "page", "run"}
        /\ stage' \in {"load"} => program = "devlocal"
        /\ stage' = "sync" => program # "devlocal"
    BY <2>2 DEF After, Stages
  <2> QED
    BY <1>0, <1>2, <2>1, <2>3 DEF ConfigInv
<1>8. CASE WritePage \/ SyncHosts \/ Change
  <2>1. caddy' = caddy
    BY <1>8 DEF WritePage, SyncHosts, Change
  <2>2. stage \in {"page", "sync", "run"} /\ stage' \in {"sync", "run"}
    BY <1>8 DEF WritePage, SyncHosts, Change, After
  <2> QED
    BY <1>0, <1>2, <2>1, <2>2 DEF ConfigInv, Stages
<1>9. CASE UNCHANGED vars
  BY <1>0, <1>2, <1>9 DEF vars, ConfigInv
<1> QED
  BY <1>3, <1>4, <1>5, <1>6, <1>7, <1>8, <1>9, <1>10 DEF Next

\* At each stage of a start Caddy has no config, the one loaded for the user's file, or that
\* one with devlocal's server.
THEOREM ConfigInductive == Spec => []ConfigInv
<1>1. Init => ConfigInv
  BY DEF Init, ConfigInv, CaddyDown, Stages
<1> QED
  BY <1>1, ConfigStep, PTL DEF Spec

\* A readable file is one the model describes.
LEMMA ReadableFile ==
    ASSUME Readable(Path), Path # NoPath
    PROVE  Files[Path] \in UserConfig
BY FilesAssumption DEF Readable

\* caddy.go:155-180: ports are injected into a config without servers, and only there.
LEMMA Injected ==
    ASSUME NEW http, NEW https, NEW httpPort, NEW httpsPort
    PROVE  InjectListenPorts([http |-> http, https |-> https, servers |-> NoServers],
                             [http |-> httpPort, https |-> httpsPort])
             = [http |-> Or(http, httpPort), https |-> Or(https, httpsPort),
                servers |-> NoServers]
<1> DEFINE config == [http |-> http, https |-> https, servers |-> NoServers]
           ports == [http |-> httpPort, https |-> httpsPort]
<1>1. config.servers = NoServers
  OBVIOUS
<1>2. InjectListenPorts(config, ports)
        = [config EXCEPT !.http = Or(config.http, ports.http),
                         !.https = Or(config.https, ports.https)]
  <2> HIDE DEF config, ports
  <2> QED
    BY <1>1 DEF InjectListenPorts
<1>3. Or(config.http, ports.http) = Or(http, httpPort)
      /\ Or(config.https, ports.https) = Or(https, httpsPort)
  OBVIOUS
<1> QED
  BY <1>2, <1>3

\* caddy.go:155-180: what is loaded has the servers of the user's config as they are,
\* and the ports it names.
LEMMA LoadedConfig ==
    ASSUME Readable(Path), Path # NoPath
    PROVE  /\ Loaded.servers = Files[Path].servers
           /\ Loaded = [http |-> Loaded.http, https |-> Loaded.https,
                        servers |-> Loaded.servers]
           /\ Or(Loaded.http, 80) = Or(Files[Path].http, 80)
           /\ Or(Loaded.https, 443) = Or(Files[Path].https, 443)
           /\ Files[Path].http # NoPort => Loaded.http = Files[Path].http
           /\ Files[Path].https # NoPort => Loaded.https = Files[Path].https
<1> DEFINE file == Files[Path]
<1>1. file.http \in Port \cup {NoPort} /\ file.https \in Port \cup {NoPort}
  BY ReadableFile DEF UserConfig
<1>2. CASE AdapterFor(Path) = "caddyfile" /\ file.servers = NoServers
  <2>1. Adapted(Path) = NoConfig
    BY <1>2 DEF Adapted
  <2>2. ListenPorts(Path) = [http |-> Or(file.http, 80), https |-> Or(file.https, 443)]
    BY <1>2 DEF ListenPorts
  <2>3. Loaded = [http |-> Or(file.http, 80), https |-> Or(file.https, 443),
                  servers |-> NoServers]
    <3>1. Loaded = InjectListenPorts(NoConfig, ListenPorts(Path))
      BY <2>1 DEF Loaded
    <3>2. Or(NoPort, Or(file.http, 80)) = Or(file.http, 80)
          /\ Or(NoPort, Or(file.https, 443)) = Or(file.https, 443)
      BY DEF Or
    <3> HIDE DEF file
    <3> QED
      BY <2>2, <3>1, <3>2, Injected DEF NoConfig
  <2> QED
    BY <1>2, <2>3 DEF Or, NoPort
<1>3. CASE ~(AdapterFor(Path) = "caddyfile" /\ file.servers = NoServers)
  <2>1. Adapted(Path) = [http |-> file.http, https |-> file.https, servers |-> file.servers]
    BY <1>3 DEF Adapted
  <2>2. CASE file.servers # NoServers
    BY <2>1, <2>2 DEF Loaded, InjectListenPorts
  <2>3. CASE file.servers = NoServers
    <3>1. ListenPorts(Path) = [http |-> 80, https |-> 443]
      BY <1>3, <2>3 DEF ListenPorts
    <3>2. Loaded = [http |-> Or(file.http, 80), https |-> Or(file.https, 443),
                    servers |-> file.servers]
      <4> HIDE DEF file
      <4>1. Loaded = InjectListenPorts(Adapted(Path), ListenPorts(Path))
        BY DEF Loaded
      <4> QED
        BY <2>1, <2>3, <3>1, <4>1, Injected
    <3> QED
      BY <3>2 DEF Or, NoPort
  <2> QED
    BY <2>2, <2>3
<1> QED
  BY <1>2, <1>3

\* Without a config of the user's, Caddy's own ports are loaded and no server.
LEMMA LoadedDefault ==
    ASSUME Path = NoPath
    PROVE  Loaded = [http |-> 80, https |-> 443, servers |-> NoServers]
<1>1. Adapted(Path) = NoConfig /\ ListenPorts(Path) = [http |-> 80, https |-> 443]
  BY DEF Adapted, ListenPorts
<1> QED
  <2>1. Loaded = InjectListenPorts(NoConfig, [http |-> 80, https |-> 443])
    BY <1>1 DEF Loaded
  <2>2. Or(NoPort, 80) = 80 /\ Or(NoPort, 443) = 443
    BY DEF Or
  <2> QED
    BY <2>1, <2>2, Injected DEF NoConfig

\* admin.go:186-223: the server devlocal makes listens on the ports in the config, and
\* leaves every other part of it alone.
LEMMA EnsureServerAdds ==
    ASSUME NEW config, config = [http |-> config.http, https |-> config.https,
                                 servers |-> config.servers]
    PROVE  /\ EnsureServer(config).http = config.http
           /\ EnsureServer(config).https = config.https
           /\ \A s \in DOMAIN config.servers :
                 /\ s \in DOMAIN EnsureServer(config).servers
                 /\ EnsureServer(config).servers[s] = config.servers[s]
           /\ "srv0" \notin DOMAIN config.servers
                => EnsureServer(config).servers["srv0"] = EffectivePorts(config)
<1>1. CASE "srv0" \in DOMAIN config.servers
  BY <1>1 DEF EnsureServer
<1>2. CASE "srv0" \notin DOMAIN config.servers
  <2> DEFINE servers == [s \in DOMAIN config.servers \cup {"srv0"} |->
                            IF s = "srv0" THEN EffectivePorts(config)
                            ELSE config.servers[s]]
  <2>1. EnsureServer(config) = [config EXCEPT !.servers = servers]
    BY <1>2 DEF EnsureServer
  <2>2. /\ EnsureServer(config).http = config.http
        /\ EnsureServer(config).https = config.https
        /\ EnsureServer(config).servers = servers
    <3> HIDE DEF servers
    <3> QED
      BY <2>1
  <2>3. /\ \A s \in DOMAIN config.servers : s \in DOMAIN servers /\ servers[s] = config.servers[s]
        /\ servers["srv0"] = EffectivePorts(config)
    BY <1>2
  <2> HIDE DEF servers
  <2> QED
    BY <2>2, <2>3
<1> QED
  BY <1>1, <1>2

\* README.md:196: for any config the user may have, no step of the start changes a server
\* or a port of it.
THEOREM IntactTheorem == Spec => []UserConfigIntact
<1>1. ConfigInv => UserConfigIntact
  <2> SUFFICES ASSUME ConfigInv, caddy.up, Path # NoPath
               PROVE  /\ \A s \in DOMAIN Files[Path].servers :
                            /\ s \in DOMAIN caddy.config.servers
                            /\ caddy.config.servers[s] = Files[Path].servers[s]
                      /\ Files[Path].http # NoPort => caddy.config.http = Files[Path].http
                      /\ Files[Path].https # NoPort => caddy.config.https = Files[Path].https
    BY DEF UserConfigIntact
  <2>1. Readable(Path) /\ caddy.config \in {Loaded, EnsureServer(Loaded)}
    BY DEF ConfigInv
  <2>2. /\ Loaded.servers = Files[Path].servers
        /\ Loaded = [http |-> Loaded.http, https |-> Loaded.https, servers |-> Loaded.servers]
        /\ Files[Path].http # NoPort => Loaded.http = Files[Path].http
        /\ Files[Path].https # NoPort => Loaded.https = Files[Path].https
    BY <2>1, LoadedConfig
  <2> HIDE DEF Loaded
  <2> QED
    BY <2>1, <2>2, EnsureServerAdds
<1> QED
  BY <1>1, ConfigInductive, PTL

\* caddy.go:38-63, 155-180, admin.go:186-223: and the server made next to it listens on
\* the ports it names, in either language, with or without sites.
THEOREM PortsTheorem == Spec => []PortsHonored
<1>1. ConfigInv => PortsHonored
  <2> SUFFICES ASSUME ConfigInv, program = "devlocal",
                      stage \in {"index", "routes", "page", "sync", "run"},
                      Path # NoPath => "srv0" \notin DOMAIN Files[Path].servers
               PROVE  caddy.config.servers["srv0"] = {Stated("http", 80), Stated("https", 443)}
    BY DEF PortsHonored
  <2>1. Readable(Path) /\ caddy.config = EnsureServer(Loaded)
    BY DEF ConfigInv
  <2>2. CASE Path = NoPath
    <3>1. Loaded = [http |-> 80, https |-> 443, servers |-> NoServers]
      BY <2>2, LoadedDefault
    <3>2. /\ Loaded.http = 80 /\ Loaded.https = 443 /\ Loaded.servers = NoServers
          /\ "srv0" \notin DOMAIN Loaded.servers
          /\ Loaded = [http |-> Loaded.http, https |-> Loaded.https, servers |-> Loaded.servers]
      BY <3>1 DEF NoServers
    <3>3. EffectivePorts(Loaded) = {80, 443}
      BY <3>2 DEF EffectivePorts, Or, NoPort
    <3>4. Stated("http", 80) = 80 /\ Stated("https", 443) = 443
      BY <2>2 DEF Stated
    <3> HIDE DEF Loaded
    <3> QED
      BY <2>1, <3>2, <3>3, <3>4, EnsureServerAdds
  <2>3. CASE Path # NoPath
    <3>1. /\ Loaded.servers = Files[Path].servers
          /\ Loaded = [http |-> Loaded.http, https |-> Loaded.https, servers |-> Loaded.servers]
          /\ Or(Loaded.http, 80) = Or(Files[Path].http, 80)
          /\ Or(Loaded.https, 443) = Or(Files[Path].https, 443)
      BY <2>1, <2>3, LoadedConfig
    <3>2. Stated("http", 80) = Or(Files[Path].http, 80)
          /\ Stated("https", 443) = Or(Files[Path].https, 443)
      BY <2>3 DEF Stated
    <3>3. "srv0" \notin DOMAIN Loaded.servers
      BY <2>3, <3>1
    <3> HIDE DEF Loaded
    <3>4. EffectivePorts(Loaded) = {Stated("http", 80), Stated("https", 443)}
      BY <3>1, <3>2 DEF EffectivePorts
    <3> QED
      BY <2>1, <3>1, <3>3, <3>4, EnsureServerAdds
  <2> QED
    BY <2>2, <2>3
<1> QED
  BY <1>1, ConfigInductive, PTL

---------------------------------------------------------------------------
(* Types *)

\* Every server of what is loaded listens on ports, and so does the one devlocal adds.
LEMMA LoadedPorts ==
    ASSUME Readable(Path), NEW config \in {Loaded, EnsureServer(Loaded)}
    PROVE  \A s \in DOMAIN config.servers : config.servers[s] \subseteq Port
<1>1. /\ \A s \in DOMAIN Loaded.servers : Loaded.servers[s] \subseteq Port
      /\ EffectivePorts(Loaded) \subseteq Port
      /\ Loaded = [http |-> Loaded.http, https |-> Loaded.https, servers |-> Loaded.servers]
  <2>1. CASE Path = NoPath
    <3>1. Loaded = [http |-> 80, https |-> 443, servers |-> NoServers]
      BY <2>1, LoadedDefault
    <3>2. /\ Loaded.http = 80 /\ Loaded.https = 443 /\ DOMAIN Loaded.servers = {}
          /\ Loaded = [http |-> Loaded.http, https |-> Loaded.https, servers |-> Loaded.servers]
      BY <3>1 DEF NoServers
    <3> HIDE DEF Loaded
    <3>3. EffectivePorts(Loaded) = {80, 443}
      BY <3>2 DEF EffectivePorts, Or, NoPort
    <3> QED
      BY <3>2, <3>3, PortAssumption
  <2>2. CASE Path # NoPath
    <3> DEFINE file == Files[Path]
    <3>1. /\ Loaded.servers = file.servers
          /\ Loaded = [http |-> Loaded.http, https |-> Loaded.https, servers |-> Loaded.servers]
          /\ Or(Loaded.http, 80) = Or(file.http, 80)
          /\ Or(Loaded.https, 443) = Or(file.https, 443)
      BY <2>2, LoadedConfig
    <3>2. file \in UserConfig
      BY <2>2, ReadableFile
    <3>3. \A s \in DOMAIN file.servers : file.servers[s] \subseteq Port
      <4>1. PICK S \in SUBSET {"srv0", "srv1"} : file.servers \in [S -> SUBSET Port]
        <5>1. file.servers \in UNION {[S -> SUBSET Port] : S \in SUBSET {"srv0", "srv1"}}
          BY <3>2 DEF UserConfig
        <5> HIDE DEF file
        <5> QED
          BY <5>1
      <4> HIDE DEF file
      <4> QED
        BY <4>1
    <3>4. Or(file.http, 80) \in Port /\ Or(file.https, 443) \in Port
      BY <3>2, PortAssumption DEF UserConfig, Or
    <3> HIDE DEF Loaded, file
    <3>5. EffectivePorts(Loaded) = {Or(file.http, 80), Or(file.https, 443)}
      BY <3>1 DEF EffectivePorts
    <3> QED
      BY <3>1, <3>3, <3>4, <3>5
  <2> QED
    BY <2>1, <2>2
<1> HIDE DEF Loaded
<1>2. CASE config = Loaded
  BY <1>1, <1>2
<1>3. CASE config = EnsureServer(Loaded) /\ "srv0" \in DOMAIN Loaded.servers
  BY <1>1, <1>3 DEF EnsureServer
<1>4. CASE config = EnsureServer(Loaded) /\ "srv0" \notin DOMAIN Loaded.servers
  <2>1. /\ DOMAIN config.servers = DOMAIN Loaded.servers \cup {"srv0"}
        /\ \A s \in DOMAIN config.servers :
              config.servers[s] = IF s = "srv0" THEN EffectivePorts(Loaded)
                                  ELSE Loaded.servers[s]
    <3> DEFINE servers == [s \in DOMAIN Loaded.servers \cup {"srv0"} |->
                              IF s = "srv0" THEN EffectivePorts(Loaded)
                              ELSE Loaded.servers[s]]
    <3>1. config = [Loaded EXCEPT !.servers = servers]
      BY <1>4 DEF EnsureServer
    <3>2. config.servers = servers
      <4> HIDE DEF servers
      <4> QED
        BY <1>1, <3>1
    <3> QED
      BY <3>2
  <2> QED
    BY <1>1, <2>1
<1> QED
  BY <1>2, <1>3, <1>4

TypeInv ==
    /\ registry \in {{}, Names}
    /\ hosts \in {{}, Names, Untouched}
    /\ caddy.routed \subseteq Names
    /\ ~caddy.up => caddy.config = NoConfig

\* Each step keeps the type, given what the stage says of Caddy's config.
LEMMA TypeStep == TypeInv /\ ConfigInv /\ [Next]_vars => TypeInv'
<1> SUFFICES ASSUME TypeInv, ConfigInv, [Next]_vars
             PROVE  TypeInv'
  OBVIOUS
<1>0. caddy = [up |-> caddy.up, config |-> caddy.config, index |-> caddy.index,
             routed |-> caddy.routed]
  BY DEF ConfigInv
<1> USE DEF TypeInv
<1>1. registry' \in {{}, Names}
  BY DEF Next, Resolve, Client, Refresh, Load, PostServer, PostIndex, PostRoutes, WritePage,
         StepFails, Fail,
         SyncHosts, Change, Apply, Signal, vars
<1>2. hosts' \in {{}, Names, Untouched}
  BY DEF Next, Resolve, Client, Refresh, Load, PostServer, PostIndex, PostRoutes, WritePage,
         StepFails, Fail,
         SyncHosts, SyncedHosts, Change, Apply, Signal, vars
<1>3. caddy'.routed \subseteq Names /\ (~caddy'.up => caddy'.config = NoConfig)
  <2>1. CASE Load
    BY <2>1 DEF Load
  <2>2. CASE PostServer
    <3>1. /\ stage = "server"
          /\ caddy' = [caddy EXCEPT !.config = EnsureServer(caddy.config)]
      BY <2>2 DEF PostServer
    <3>2. caddy.up /\ caddy'.up = caddy.up /\ caddy'.routed = caddy.routed
      BY <1>0, <3>1 DEF ConfigInv
    <3> QED
      BY <3>2
  <2>6. CASE PostIndex \/ PostRoutes
    <3>1. \/ caddy' = [caddy EXCEPT !.index = TRUE]
          \/ caddy' = [caddy EXCEPT !.routed = registry]
      BY <2>6 DEF PostIndex, PostRoutes
    <3>2. /\ caddy'.up = caddy.up /\ caddy'.config = caddy.config
          /\ caddy'.routed \in {caddy.routed, registry}
      BY <1>0, <3>1
    <3> QED
      BY <3>2
  <2>3. CASE Apply
    <3>1. caddy' = caddy \/ caddy' = [caddy EXCEPT !.routed = registry]
      BY <2>3 DEF Apply
    <3>2. /\ caddy'.up = caddy.up /\ caddy'.config = caddy.config
          /\ caddy'.routed \in {caddy.routed, registry}
      BY <1>0, <3>1
    <3> QED
      BY <3>2
  <2>4. CASE StepFails \/ Signal
    BY <2>4 DEF StepFails, Fail, Signal, CaddyDown
  <2>5. CASE ~(Load \/ PostServer \/ PostIndex \/ PostRoutes \/ Apply \/ StepFails \/ Signal)
    <3>1. caddy' = caddy
      BY <2>5 DEF Next, Resolve, Client, Refresh, WritePage, SyncHosts, Change, vars
    <3> QED
      BY <3>1
  <2> QED
    BY <2>1, <2>2, <2>3, <2>4, <2>5, <2>6
<1> QED
  BY <1>1, <1>2, <1>3

\* Every step of either program keeps the state's type, for any files a user may have.
THEOREM TypeCorrect == Spec => []TypeOK
<1>1. Init => TypeInv
  BY DEF Init, TypeInv, CaddyDown
<1>2. TypeInv /\ ConfigInv => TypeOK
  <2> SUFFICES ASSUME TypeInv, ConfigInv
               PROVE  \A s \in DOMAIN caddy.config.servers :
                          caddy.config.servers[s] \subseteq Port
    BY DEF TypeInv, ConfigInv, TypeOK
  <2>1. CASE ~caddy.up
    <3>1. DOMAIN caddy.config.servers = {}
      BY <2>1 DEF TypeInv, NoConfig, NoServers
    <3> QED
      BY <3>1
  <2>2. CASE caddy.up
    <3>1. Readable(Path) /\ caddy.config \in {Loaded, EnsureServer(Loaded)}
      BY <2>2 DEF ConfigInv
    <3> QED
      BY <3>1, LoadedPorts
  <2> QED
    BY <2>1, <2>2
<1> QED
  BY <1>1, <1>2, TypeStep, ConfigInductive, PTL DEF Spec

=============================================================================
