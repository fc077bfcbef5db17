---------------------------- MODULE MCAdminAPI ----------------------------
(***************************************************************************)
(* Instances of AdminAPI for TLC.                                          *)
(***************************************************************************)
EXTENDS AdminAPI

\* A user's config with one TLS policy of its own.
MCUserPolicies == <<[own |-> FALSE, subjects |-> {}]>>
MCUserAdds == {[own |-> FALSE, subjects |-> Hosts]}

\* a.b and a-b share an id.
MCIdOf == [host \in Hosts |-> IF host <= 2 THEN 1 ELSE 2]

=============================================================================
