---------------------------- MODULE MCGenerator ----------------------------
(***************************************************************************)
(* Instances of Generator for TLC.  Each container is one of the cases the *)
(* code tells apart; a run picks the ones its question needs.              *)
(***************************************************************************)
EXTENDS Generator, TLC

MCPort == {80, 90, 8080}
MCDomain == {"web.dev.local", "web.localhost", "db.dev.local", "db.localhost", "api.test"}

Plain ==
    [self |-> FALSE, skip |-> FALSE, labelled |-> FALSE, custom |-> {},
     domains |-> {"web.dev.local", "web.localhost"}, ports |-> {80, 90},
     published |-> 80 :> 8080]

\* web: two ports, one published.  db: no published port.  api: custom domain.
\* bad: a dev.local.domains label no entry of which parses.  hidden:
\* dev.local=false.  proxy: the container the proxy itself runs in.
MCAttrs ==
    [web |-> Plain,
     db |-> [Plain EXCEPT !.domains = {"db.dev.local", "db.localhost"},
                          !.ports = {90}, !.published = Empty],
     api |-> [Plain EXCEPT !.labelled = TRUE, !.custom = {[port |-> 80, domain |-> "api.test"]}],
     bad |-> [Plain EXCEPT !.labelled = TRUE],
     hidden |-> [Plain EXCEPT !.skip = TRUE],
     proxy |-> [Plain EXCEPT !.self = TRUE]]

MCAttr == [c \in Containers |-> MCAttrs[c]]

\* One container lives, any of Containers.  No action reads the entry of one container
\* to write that of another, so this shows TLC each kind of container under every
\* interleaving of the goroutines at the cost of one.
OneInit ==
    /\ Init
    /\ \E c \in Containers :
          \A d \in Containers \ {c} : status[d] = "gone" /\ d \notin shared

OneSpec == OneInit /\ [][Next]_vars /\ Fairness

=============================================================================
