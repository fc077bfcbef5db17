------------------------------ MODULE MCStartup ------------------------------
(***************************************************************************)
(* Instances of Startup for TLC.                                           *)
(***************************************************************************)
EXTENDS Startup, FiniteSets, TLC

MCExtension ==
    "Caddyfile" :> "" @@ "sites" :> "" @@ "bad" :> "" @@ "missing" :> ""
    @@ "own.json" :> ".json" @@ "plain.json" :> ".json" @@ "wrong.json" :> ".json"
    @@ "user.yaml" :> ".yaml"

Blank == [language |-> "caddyfile", badPort |-> FALSE, http |-> NoPort, https |-> NoPort,
          servers |-> NoServers, accepted |-> TRUE]

\* A Caddyfile with one option, one with a site, one with a bad port; JSON with a server
\* of its own name, without servers, and refused by Caddy; YAML, which has no adapter.
MCFiles ==
    "Caddyfile" :> [Blank EXCEPT !.http = 8080]
    @@ "sites" :> [Blank EXCEPT !.http = 8080, !.servers = "srv0" :> {9000}]
    @@ "bad" :> [Blank EXCEPT !.badPort = TRUE]
    @@ "own.json" :> [Blank EXCEPT !.language = "json", !.https = 8443,
                                   !.servers = "srv1" :> {9000}]
    @@ "plain.json" :> [Blank EXCEPT !.language = "json", !.http = 8080]
    @@ "wrong.json" :> [Blank EXCEPT !.language = "json", !.accepted = FALSE]
    @@ "user.yaml" :> [Blank EXCEPT !.language = "yaml"]

\* The options are resolved each on its own: one of them is given in a start, and the
\* switch that governs the hosts file is given with any config path.
MCInit ==
    /\ program \in {"devlocal", "devlocal-hosts"}
    /\ \E o \in Option :
          /\ env \in {[p \in Option |-> IF p = o THEN word ELSE Unset] : word \in Words(o)}
          /\ \/ flags = [p \in {} |-> TRUE]
             \/ o \in Flags /\ flags \in [{o} -> FlagValues(o)]
    /\ named \in [flag: Paths, env: {NoPath, "sites"}]
    /\ writable \in BOOLEAN
    /\ stage = "resolve"
    /\ cfg = Unresolved
    /\ hostsOK = FALSE
    /\ registry = {}
    /\ caddy = CaddyDown
    /\ page = FALSE
    /\ hosts = Untouched

MCSpec == MCInit /\ [][Next]_vars

=============================================================================
