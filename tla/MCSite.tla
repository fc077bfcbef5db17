------------------------------- MODULE MCSite -------------------------------
(***************************************************************************)
(* Instances of Site for TLC.                                              *)
(***************************************************************************)
EXTENDS Site, TLC

MCPort == {80, 90, 8080}
MCTld == <<<<"dev">>, <<"local">>>>

Named(name, project, service) == [name |-> name, project |-> project, service |-> service]

\* dashed and dotted: names with one route id.  dotted and replica: one compose
\* service.  dev: the name of the index page's alias.  custom: its own domain.
MCLabels ==
    [dashed |-> Named(<<<<"a", "b">>>>, NoLabel, NoLabel),
     dotted |-> Named(<<<<"a", "b", "1">>>>, <<<<"a">>>>, <<<<"b">>>>),
     replica |-> Named(<<<<"a", "b", "2">>>>, <<<<"a">>>>, <<<<"b">>>>),
     dev |-> Named(<<<<"dev">>>>, <<<<"a">>>>, NoLabel),
     custom |-> Named(<<<<"api">>>>, NoLabel, NoLabel)]

MCLabel == [c \in Containers |-> MCLabels[c]]

Api == <<<<"api">>, <<"test">>>>

\* '-' sorts before '.'.
MCOrder ==
    <<<<<<"a", "b">>, <<"dev">>, <<"local">>>>,
      <<<<"a", "b">>, <<"localhost">>>>,
      <<<<"a">>, <<"b">>, <<"dev">>, <<"local">>>>,
      <<<<"a">>, <<"b">>, <<"localhost">>>>,
      <<<<"api">>, <<"dev">>, <<"local">>>>,
      <<<<"api">>, <<"localhost">>>>,
      Api,
      <<<<"dev">>, <<"dev">>, <<"local">>>>,
      <<<<"dev">>, <<"localhost">>>>>>

MCDomain == {MCOrder[i] : i \in DOMAIN MCOrder}

MCAttr ==
    [c \in Containers |->
        LET label == MCLabels[c]
            stem == IF label.project # NoLabel /\ label.service # NoLabel
                    THEN label.project \o label.service ELSE label.name
        IN [self |-> FALSE, skip |-> FALSE, labelled |-> c = "custom",
            custom |-> IF c = "custom" THEN {[port |-> 80, domain |-> Api]} ELSE {},
            domains |-> {stem \o MCTld, stem \o <<LocalhostLabel>>},
            ports |-> IF c = "dotted" THEN {80, 90} ELSE {90},
            published |-> IF c = "dotted" THEN 80 :> 8080 ELSE Empty]]

\* Two containers live: enough for every collision of names.
TwoInit ==
    /\ SiteInit
    /\ \E c, d \in Containers :
          \A e \in Containers \ {c, d} : status[e] = "gone" /\ e \notin shared

TwoSpec == TwoInit /\ [][SiteNext]_siteVars

=============================================================================
