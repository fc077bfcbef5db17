------------------------------- MODULE Startup -------------------------------
(***************************************************************************)
(* One start of caddy devlocal (cmd.go, caddy.go) or of devlocal-hosts     *)
(* (cmd/devlocal-hosts/main.go): the settings they resolve (config/), the  *)
(* user's Caddy config they load, and every step that may fail on the way  *)
(* to the goroutines of Discovery.  A failed start ends the program, and   *)
(* Caddy with it, which runs in the proxy's process.                       *)
(*                                                                         *)
(* Words of the environment and the command line are strings.  What Docker *)
(* lists is the set Names or, when the first refresh fails, nothing.       *)
(***************************************************************************)
EXTENDS Naturals, Sequences

CONSTANTS
    Files,      \* the config files there are: path -> what is in it (see UserConfig)
    Extension,  \* of every path a user may name
    TLDs,       \* the TLDs a user may ask for
    Port,       \* port numbers
    Names       \* the domains a refresh finds

NoPath == "no path"
Unset == ""
NoPort == 0

Yes == {"true", "1", "yes"}
No == {"false", "0", "no"}
Duration == {"0s", "2s", "30s", "1h"}

Switches == {"hosts-file", "tracing"}
Durations == {"stale-ttl", "probe-timeout", "poll-interval"}
Shared == {"tld"} \cup Durations
Option == Shared \cup Switches

\* What a user's config says once read: its language, the ports its options name, the
\* servers its sites make with the ports they listen on, and whether Caddy takes it.
UserConfig == [language: {"caddyfile", "json", "yaml"}, badPort: BOOLEAN,
               http: Port \cup {NoPort}, https: Port \cup {NoPort},
               servers: UNION {[S -> SUBSET Port] : S \in SUBSET {"srv0", "srv1"}},
               accepted: BOOLEAN]

ASSUME TLDAssumption == Unset \notin TLDs
ASSUME PortAssumption == Port \subseteq Nat \ {NoPort} /\ {80, 443} \subseteq Port
ASSUME FilesAssumption == \A path \in DOMAIN Files : Files[path] \in UserConfig

---------------------------------------------------------------------------
(* config/config.go, config/flags.go, cmd.go: the settings *)

DefaultOf ==
    [o \in Option |->
        CASE o = "tld" -> "dev.local"
          [] o = "stale-ttl" -> "1h"
          [] o = "probe-timeout" -> "2s"
          [] o = "poll-interval" -> "30s"
          [] OTHER -> TRUE]

GetBoolOrDefault(word, default) ==
    IF word \in Yes THEN TRUE ELSE IF word \in No THEN FALSE ELSE default

GetDurationOrDefault(word, default) == IF word \in Duration THEN word ELSE default

GetEnvOrDefault(word, default) == IF word # Unset THEN word ELSE default

DefaultConfig(env) ==
    [o \in Option |->
        IF o \in Switches THEN GetBoolOrDefault(env[o], DefaultOf[o])
        ELSE IF o \in Durations THEN GetDurationOrDefault(env[o], DefaultOf[o])
        ELSE GetEnvOrDefault(env[o], DefaultOf[o])]

\* The options among given whose flag was set, each with its value.
Overrides(flags, given) == [o \in DOMAIN flags \cap given |-> flags[o]]

SharedOverrides(flags) == Overrides(flags, Shared)

\* --no-tracing is kept as the value it gives the option.
CommandOverrides(flags) == Overrides(flags, Option)

\* A variant that takes a zero for a flag that was not set.
ApplyFlagsNonZero(cfg, overrides) ==
    [o \in Option |->
        IF o \in DOMAIN overrides /\ (o \in Durations => overrides[o] # "0s") THEN overrides[o] ELSE cfg[o]]

ApplyFlags(cfg, overrides) ==
    [o \in Option |-> IF o \in DOMAIN overrides THEN overrides[o] ELSE cfg[o]]

\* Resolve, and devlocal-hosts' own setting.
ResolveHosts(env, flags) ==
    [ApplyFlags(DefaultConfig(env), SharedOverrides(flags)) EXCEPT !["hosts-file"] = TRUE]

ResolveProxy(env, flags) == ApplyFlags(DefaultConfig(env), CommandOverrides(flags))

---------------------------------------------------------------------------
(* caddy.go, cmd.go: the user's config *)

Candidates == <<"Caddyfile", "Caddyfile.json", "Caddyfile.json5", "Caddyfile.yaml">>

DetectUserConfig ==
    LET present == {i \in DOMAIN Candidates : Candidates[i] \in DOMAIN Files}
    IN IF present = {} THEN NoPath
       ELSE Candidates[CHOOSE i \in present : \A j \in present : i <= j]

ConfigPath(flag, env) ==
    IF flag # NoPath THEN flag ELSE IF env # NoPath THEN env ELSE DetectUserConfig

AdapterFor(path) ==
    CASE Extension[path] = ".json" -> "json"
      [] Extension[path] = ".json5" -> "json5"
      [] Extension[path] \in {".yaml", ".yml"} -> "yaml"
      [] OTHER -> "caddyfile"

NoServers == [s \in {} |-> {}]
NoConfig == [http |-> NoPort, https |-> NoPort, servers |-> NoServers]

\* Reading, adapting and injecting go through: the file is there, its adapter is
\* registered and fits, and the Caddyfile's port options are numbers.
Readable(path) ==
    path # NoPath =>
        /\ path \in DOMAIN Files
        /\ AdapterFor(path) \in {"json", "caddyfile"}
        /\ Files[path].language = AdapterFor(path)
        /\ AdapterFor(path) = "caddyfile" => ~Files[path].badPort

\* What Caddy's adapter makes of a Caddyfile: without sites the ports are lost.
Adapted(path) ==
    IF path = NoPath THEN NoConfig
    ELSE IF AdapterFor(path) = "caddyfile" /\ Files[path].servers = NoServers THEN NoConfig
    ELSE [http |-> Files[path].http, https |-> Files[path].https,
          servers |-> Files[path].servers]

Or(port, default) == IF port # NoPort THEN port ELSE default

\* A variant that leaves it to the adapter to know the Caddyfile's ports.
ListenPortsDefault(path) == [http |-> 80, https |-> 443]

\* parseCaddyfileListenPorts over the two defaults.
ListenPorts(path) ==
    IF path # NoPath /\ AdapterFor(path) = "caddyfile"
    THEN [http |-> Or(Files[path].http, 80), https |-> Or(Files[path].https, 443)]
    ELSE [http |-> 80, https |-> 443]

InjectListenPorts(config, ports) ==
    IF config.servers # NoServers THEN config
    ELSE [config EXCEPT !.http = Or(config.http, ports.http),
                        !.https = Or(config.https, ports.https)]

\* A variant without the defaults.
EffectivePortsAsRead(config) == {config.http, config.https}

\* effectivePorts: what devlocal's server listens on.
EffectivePorts(config) == {Or(config.http, 80), Or(config.https, 443)}

\* A variant that puts its server whether there is one or not.
EnsureServerAnew(config) ==
    [config EXCEPT !.servers =
        [s \in DOMAIN config.servers \cup {"srv0"} |->
            IF s = "srv0" THEN EffectivePorts(config) ELSE config.servers[s]]]

\* ensureServer: a server of that name is used as it is.
EnsureServer(config) ==
    IF "srv0" \in DOMAIN config.servers THEN config
    ELSE [config EXCEPT !.servers =
            [s \in DOMAIN config.servers \cup {"srv0"} |->
                IF s = "srv0" THEN EffectivePorts(config) ELSE config.servers[s]]]

---------------------------------------------------------------------------
(* One start *)

VARIABLES
    program,   \* "devlocal" or "devlocal-hosts"
    env,       \* the DEVLOCAL_ variables of the options
    flags,     \* the flags on the command line: option -> value
    named,     \* [flag, env]: the config paths named there
    writable,  \* hosts.CanWrite()
    stage,     \* the step the program is at
    cfg,       \* *config.Config once resolved
    hostsOK,   \* cmdFunc: hostsOK
    registry,  \* gen.Domains(): {} or Names
    caddy,     \* what Caddy has: config, the hosts it routes; up: it runs, index: it
               \* serves the index page's files, whatever they say
    page,      \* TRUE once the index page is written
    hosts      \* the domains in the hosts file's block, Untouched by this start

given == <<program, env, flags, named, writable>>
vars == <<given, stage, cfg, hostsOK, registry, caddy, page, hosts>>

Untouched == {"untouched"}
Unresolved == [o \in {} |-> TRUE]
CaddyDown == [up |-> FALSE, config |-> NoConfig, index |-> FALSE, routed |-> {}]
Stages == {"resolve", "client", "refresh", "load", "server", "index", "routes", "page",
           "sync", "run", "failed", "stopped"}

\* A variant of After that syncs the hosts file right after the refresh.
AfterEagerly(s) ==
    CASE s = "refresh" -> "sync"
      [] s = "sync" -> IF program = "devlocal" THEN "load" ELSE "run"
      [] s = "load" -> "server"
      [] s = "server" -> "index"
      [] s = "index" -> "routes"
      [] s = "routes" -> "page"
      [] s = "page" -> "run"

\* The order of the steps of cmdFunc and run.
After(s) ==
    CASE s = "refresh" -> IF program = "devlocal" THEN "load" ELSE "sync"
      [] s = "load" -> "server"
      [] s = "server" -> "index"
      [] s = "index" -> "routes"
      [] s = "routes" -> "page"
      [] s = "page" -> "sync"
      [] s = "sync" -> "run"

Fail ==
    /\ stage' = "failed"
    /\ caddy' = CaddyDown
    /\ UNCHANGED <<given, cfg, hostsOK, registry, page, hosts>>

\* The settings, and whether the hosts file can be written: the proxy goes on without
\* it, devlocal-hosts does not.
Resolve ==
    /\ stage = "resolve"
    /\ cfg' = IF program = "devlocal" THEN ResolveProxy(env, flags) ELSE ResolveHosts(env, flags)
    /\ hostsOK' = (writable \/ ~cfg'["hosts-file"])
    /\ stage' = IF program = "devlocal" \/ writable THEN "client" ELSE "failed"
    /\ UNCHANGED <<given, registry, caddy, page, hosts>>

\* docker.NewClient, and the proxy's cache directory.
Client ==
    /\ stage = "client"
    /\ stage' = "refresh"
    /\ UNCHANGED <<given, cfg, hostsOK, registry, caddy, page, hosts>>

\* A first refresh that fails is only logged.
Refresh ==
    /\ stage = "refresh"
    /\ registry' \in {{}, Names}
    /\ stage' = After(stage)
    /\ UNCHANGED <<given, cfg, hostsOK, caddy, page, hosts>>

\* initCaddyConfig up to caddy.Load.
Load ==
    /\ stage = "load"
    /\ LET path == ConfigPath(named.flag, named.env) IN
         /\ Readable(path)
         /\ path # NoPath => Files[path].accepted
         /\ caddy' = [up |-> TRUE, index |-> FALSE, routed |-> {},
                      config |-> InjectListenPorts(Adapted(path), ListenPorts(path))]
    /\ stage' = After(stage)
    /\ UNCHANGED <<given, cfg, hostsOK, registry, page, hosts>>

\* postDevlocalViaAPI, call by call: the index route is served before the page is written.
PostServer ==
    /\ stage = "server"
    /\ caddy' = [caddy EXCEPT !.config = EnsureServer(caddy.config)]
    /\ stage' = After(stage)
    /\ UNCHANGED <<given, cfg, hostsOK, registry, page, hosts>>

PostIndex ==
    /\ stage = "index"
    /\ caddy' = [caddy EXCEPT !.index = TRUE]
    /\ stage' = After(stage)
    /\ UNCHANGED <<given, cfg, hostsOK, registry, page, hosts>>

PostRoutes ==
    /\ stage = "routes"
    /\ caddy' = [caddy EXCEPT !.routed = registry]
    /\ stage' = After(stage)
    /\ UNCHANGED <<given, cfg, hostsOK, registry, page, hosts>>

WritePage ==
    /\ stage = "page"
    /\ page' = TRUE
    /\ stage' = After(stage)
    /\ UNCHANGED <<given, cfg, hostsOK, registry, caddy, hosts>>

\* A step before the hosts file may fail for good: loading does when the config is
\* wrong, the others when Docker's client, Caddy's admin API or the disk fails.
StepFails ==
    /\ stage \in {"client", "load", "server", "index", "routes", "page"}
    /\ Fail

\* A variant that only asks whether the file can be written.
MaySyncWritable == hostsOK

MaySync == cfg["hosts-file"] /\ hostsOK

\* hosts.Sync, whose failure is only logged.
SyncedHosts == IF MaySync THEN {registry, hosts} ELSE {hosts}

SyncHosts ==
    /\ stage = "sync"
    /\ hosts' \in SyncedHosts
    /\ stage' = After(stage)
    /\ UNCHANGED <<given, cfg, hostsOK, registry, caddy, page>>

\* A refresh of Discovery's goroutines.
Change ==
    /\ stage = "run"
    /\ registry' \in {{}, Names}
    /\ UNCHANGED <<given, stage, cfg, hostsOK, caddy, page, hosts>>

\* An apply of Discovery's goroutines: the proxy's reload, which may fail, then the
\* hosts file either way.
Apply ==
    /\ stage = "run"
    /\ caddy' \in (IF program = "devlocal" THEN {caddy, [caddy EXCEPT !.routed = registry]}
                   ELSE {caddy})
    /\ hosts' \in SyncedHosts
    /\ UNCHANGED <<given, stage, cfg, hostsOK, registry, page>>

\* SIGINT or SIGTERM: the block stays in the hosts file.
Signal ==
    /\ stage = "run"
    /\ stage' = "stopped"
    /\ caddy' = CaddyDown
    /\ UNCHANGED <<given, cfg, hostsOK, registry, page, hosts>>

Next ==
    \/ Resolve
    \/ Client
    \/ Refresh
    \/ Load
    \/ PostServer
    \/ PostIndex
    \/ PostRoutes
    \/ WritePage
    \/ StepFails
    \/ SyncHosts
    \/ Change
    \/ Apply
    \/ Signal

---------------------------------------------------------------------------
(* The starts there are *)

Words(o) ==
    {Unset} \cup (IF o \in Switches THEN Yes \cup No \cup {"maybe"}
                  ELSE IF o \in Durations THEN Duration \cup {"soon"}
                  ELSE TLDs)

FlagValues(o) == IF o \in Switches THEN BOOLEAN ELSE IF o \in Durations THEN Duration ELSE TLDs

\* The options the program has a flag for.
Flags == IF program = "devlocal" THEN Option ELSE Shared

Paths == DOMAIN Extension \cup {NoPath}

Init ==
    /\ program \in {"devlocal", "devlocal-hosts"}
    /\ env \in {e \in [Option -> UNION {Words(o) : o \in Option}] :
                  \A o \in Option : e[o] \in Words(o)}
    /\ \E S \in SUBSET Flags :
          flags \in {f \in [S -> UNION {FlagValues(o) : o \in S}] :
                       \A o \in S : f[o] \in FlagValues(o)}
    /\ named \in [flag: Paths, env: Paths]
    /\ writable \in BOOLEAN
    /\ stage = "resolve"
    /\ cfg = Unresolved
    /\ hostsOK = FALSE
    /\ registry = {}
    /\ caddy = CaddyDown
    /\ page = FALSE
    /\ hosts = Untouched

Spec == Init /\ [][Next]_vars

---------------------------------------------------------------------------
(* Properties *)

TypeOK ==
    /\ stage \in Stages
    /\ registry \in {{}, Names}
    /\ hosts \in {{}, Names, Untouched}
    /\ caddy.routed \subseteq Names
    /\ \A s \in DOMAIN caddy.config.servers : caddy.config.servers[s] \subseteq Port

\* Who has the last word on an option: an explicit flag the program has, else an
\* environment variable that means something, else the default.
Meant(o) ==
    IF o \in Switches
    THEN CASE env[o] \in Yes -> {TRUE} [] env[o] \in No -> {FALSE} [] OTHER -> {}
    ELSE {env[o]} \cap (IF o \in Durations THEN Duration ELSE TLDs)

LastWord(o) ==
    IF o \in DOMAIN flags THEN {flags[o]}
    ELSE IF Meant(o) # {} THEN Meant(o) ELSE {DefaultOf[o]}

\* config.go:23-90, flags.go:70-95, cmd.go:138-150: both programs resolve every option
\* they share by flag, then environment, then default, although the flags' own default
\* is zero: an explicit zero counts, an environment variable that does not parse does not.
StrongestWord ==
    stage \notin {"resolve", "failed"} =>
        \A o \in (IF program = "devlocal" THEN Option ELSE Shared) : LastWord(o) = {cfg[o]}

\* cmd.go:83-89, 174-179: with the hosts file opted out of, by flag or environment, no
\* step of the proxy touches it; hostsOK alone is no guard, it stays true then.
OptedOut ==
    program = "devlocal" /\ LastWord("hosts-file") = {FALSE} => hosts = Untouched

\* cmd.go:117-123, caddy.go:29-89, main.go:55-58: a program whose start failed has left
\* the hosts file as it was, and the proxy gives names an address only once Caddy
\* answers for them, serves the index page and the page is there.
HostsLast ==
    hosts # Untouched =>
        /\ stage # "failed"
        /\ program = "devlocal" /\ stage # "stopped" => caddy.up /\ caddy.index /\ page

Path == ConfigPath(named.flag, named.env)

\* The port the user's config names, else Caddy's own.
Stated(port, default) ==
    IF Path = NoPath THEN default ELSE Or(IF port = "http" THEN Files[Path].http
                                          ELSE Files[Path].https, default)

\* caddy.go:38-63, 155-180, admin.go:186-223: when the user's config has no srv0, the
\* server the routes are put on listens on the ports that config names, whether in a
\* Caddyfile's options, which the adapter drops without sites, or in JSON.
PortsHonored ==
    /\ program = "devlocal"
    /\ stage \in {"index", "routes", "page", "sync", "run"}
    /\ Path # NoPath => "srv0" \notin DOMAIN Files[Path].servers
    => caddy.config.servers["srv0"] = {Stated("http", 80), Stated("https", 443)}

\* README.md:196: the user's config is loaded as it is: its servers keep the ports they
\* listen on, also a srv0 the routes are put on, and the ports it names stay.
UserConfigIntact ==
    caddy.up /\ Path # NoPath =>
        /\ \A s \in DOMAIN Files[Path].servers :
              /\ s \in DOMAIN caddy.config.servers
              /\ caddy.config.servers[s] = Files[Path].servers[s]
        /\ Files[Path].http # NoPort => caddy.config.http = Files[Path].http
        /\ Files[Path].https # NoPort => caddy.config.https = Files[Path].https

=============================================================================
