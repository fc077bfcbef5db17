--------------------------- MODULE RollingReload ---------------------------
(***************************************************************************)
(* What reconcileDevlocal (admin.go) promises of Caddy's routes: a reload  *)
(* moves them one at a time, and each in one step, from the config that    *)
(* was committed to the one wanted, which is committed when all have       *)
(* moved.  Of the routes a reload that failed had moved nothing is         *)
(* promised any more; the others are as they were.                         *)
(***************************************************************************)
EXTENDS Sequences

CONSTANTS RouteIds, Bodies

VARIABLES
    committed,  \* the last config that was applied
    target,     \* the config of the last reload
    busy,       \* that reload is under way
    served      \* the copies of each route no failed reload had moved

Configs == UNION {[S -> Bodies] : S \in SUBSET RouteIds}

Agrees(id, routes) ==
    served[id] = IF id \in DOMAIN routes THEN <<routes[id]>> ELSE << >>

Init ==
    /\ committed = [id \in {} |-> id]
    /\ target \in Configs
    /\ busy = TRUE
    /\ served = [id \in RouteIds |-> << >>]

Begin ==
    /\ ~busy
    /\ busy' = TRUE
    /\ target' \in Configs
    /\ UNCHANGED <<committed, served>>

Move(id) ==
    /\ busy
    /\ UNCHANGED <<committed, target, busy>>
    /\ DOMAIN served' = DOMAIN served
    /\ \A other \in DOMAIN served \ {id} : served'[other] = served[other]
    /\ Agrees(id, committed)
    /\ Agrees(id, target)'

Commit ==
    /\ busy
    /\ busy' = FALSE
    /\ \A id \in DOMAIN served : Agrees(id, target)
    /\ committed' = target
    /\ UNCHANGED <<target, served>>

Fail ==
    /\ busy
    /\ busy' = FALSE
    /\ \E kept \in SUBSET DOMAIN served :
          /\ \A id \in kept : Agrees(id, committed)
          /\ served' = [id \in kept |-> served[id]]
    /\ UNCHANGED <<committed, target>>

Next == Begin \/ (\E id \in DOMAIN served : Move(id)) \/ Commit \/ Fail

Spec == Init /\ [][Next]_<<committed, target, busy, served>>

=============================================================================
