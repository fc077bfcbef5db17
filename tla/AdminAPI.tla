------------------------------ MODULE AdminAPI ------------------------------
(***************************************************************************)
(* reconcileDevlocal of admin.go: the difference between the routes it     *)
(* believes Caddy has (prevRoutes) and the routes wanted, sent to Caddy's  *)
(* admin API one request at a time over a connection that can fail, from   *)
(* the first load on (postDevlocalViaAPI in caddy.go).                     *)
(*                                                                         *)
(* An action is one call with all its tries: doRequest tries a POST once   *)
(* and anything else up to three times, and a try that ends in an error    *)
(* may or may not have been carried out.  A route has an @id made of its   *)
(* host, which two hosts can share, and a body; the TLS policy's body is   *)
(* the set of hosts it covers.                                             *)
(***************************************************************************)
EXTENDS Integers, SequencesExt

CONSTANTS
    Hosts,         \* the domains routes can have, in the order of slices.Sort
    RouteIds,      \* the @ids routes can have, in the order of sortedMapKeys
    IdOf,          \* devlocalRouteID: dots become dashes, so two hosts can share an id
    Upstreams,     \* what a route can proxy to
    UserPolicies,  \* the TLS policies of the user's own config
    UserAdds,      \* those the user can add later, in Caddy's admin API
    Duplicates,    \* what Caddy does with a second object of one @id
    MaxFaults,     \* bound: requests with a failed try
    MaxEdits,      \* bound: policies the user has added
    MaxCopies,     \* bound: copies of one route in Caddy
    MaxTries       \* backoff.WithMaxTries(3)

ASSUME IdAssumption ==
    Hosts \subseteq Nat /\ RouteIds \subseteq Nat /\ IdOf \in [Hosts -> RouteIds]
ASSUME DuplicatesAssumption == Duplicates \subseteq {"accept", "reject"}
ASSUME BoundAssumption ==
    /\ MaxFaults \in Nat /\ MaxEdits \in Nat
    /\ MaxCopies \in Nat \ {0} /\ MaxTries \in Nat \ {0}

VARIABLES
    prev,          \* adminAPI.prevRoutes
    prevPolicies,  \* the hosts of adminAPI.prevPolicies; none is no policy
    desired,       \* the routes of the reconcile under way
    policies,      \* the hosts of its policy
    todo,          \* what is left of it, NoTodo between reconciles
    life,          \* "boot" until the first reconcile is through, "up", "dead"
    live,          \* Caddy: the copies of each route, in list order
    index,         \* Caddy: the copies of the index route
    tls,           \* Caddy: apps/tls/automation/policies, in order
    resources,     \* Caddy: the config paths that exist
    faults,        \* requests that had a failed try
    touched,       \* history: routes an aborted reconcile had changed
    gone,          \* history: routes of prev an aborted reconcile deleted, not sent since
    unsure,        \* history: a policy was changed unanswered, and no change answered since
    userTls,       \* history: the user's policies as the user's last edit left them
    overtaken      \* history: the user's last edit came between a read and its write back

client == <<prev, prevPolicies, desired, policies, todo, life>>
user == <<userTls, overtaken>>
caddy == <<live, index, tls, resources>>
vars == <<prev, prevPolicies, desired, policies, todo, life, live, index, tls, resources,
          faults, touched, gone, unsure, userTls, overtaken>>

Resources == {"server", "routes", "policies"}
Bodies == [host: Hosts, dial: Upstreams]
Configs == UNION {[S -> Bodies] : S \in SUBSET RouteIds}
Policy == [own: BOOLEAN, subjects: SUBSET Hosts]

\* devlocal finds its own policy by an @id the user's policies do not have.
ASSUME PoliciesAssumption ==
    /\ UserPolicies \in Seq(Policy) /\ \A i \in DOMAIN UserPolicies : ~UserPolicies[i].own
    /\ UserAdds \subseteq [own: {FALSE}, subjects: SUBSET Hosts]

\* The policy comes last: "change" is the request the difference asks for, "prepend" the
\* fall-back of a patch that found none, "write" the list read and not yet written back.
Todo == [ensure: SUBSET Resources, index: BOOLEAN, delete: SUBSET RouteIds,
         patch: SUBSET RouteIds, readd: SUBSET RouteIds, post: SUBSET RouteIds,
         policy: {"no", "change", "prepend", "write"}, merged: Seq(Policy)]

NoTodo == [ensure |-> {}, index |-> FALSE, delete |-> {}, patch |-> {}, readd |-> {},
           post |-> {}, policy |-> "no", merged |-> << >>]

Busy == todo.policy # "no"

TypeOK ==
    /\ DOMAIN prev \subseteq RouteIds /\ prev \in [DOMAIN prev -> Bodies]
    /\ DOMAIN desired \subseteq RouteIds /\ desired \in [DOMAIN desired -> Bodies]
    /\ prevPolicies \subseteq Hosts /\ policies \subseteq Hosts
    /\ todo \in Todo
    /\ life \in {"boot", "up", "dead"}
    /\ live \in [RouteIds -> Seq(Bodies)]
    /\ index \in 0 .. 1
    /\ tls \in Seq(Policy)
    /\ resources \subseteq Resources
    /\ faults \in 0 .. MaxFaults
    /\ touched \subseteq RouteIds /\ gone \subseteq RouteIds
    /\ unsure \in BOOLEAN
    /\ userTls \in Seq(Policy) /\ overtaken \in BOOLEAN

---------------------------------------------------------------------------
(* buildDevlocalConfig *)

\* What each host is proxied to.
Targets == UNION {[S -> Upstreams] : S \in SUBSET Hosts}

\* The hosts are taken in order, so of those that share an id the last has the route.
Winners(targets) ==
    {h \in DOMAIN targets : \A g \in DOMAIN targets : IdOf[g] = IdOf[h] => g <= h}

Routes(targets) ==
    [id \in {IdOf[h] : h \in Winners(targets)} |->
        LET h == CHOOSE w \in Winners(targets) : IdOf[w] = id
        IN [host |-> h, dial |-> targets[h]]]

---------------------------------------------------------------------------
(* computePatch *)

Removed(old, new) == DOMAIN old \ DOMAIN new
\* A variant that looks for new and removed routes only.
UpdatedNever(old, new) == {}

Updated(old, new) == {id \in DOMAIN old \cap DOMAIN new : old[id] # new[id]}
Added(old, new) == DOMAIN new \ DOMAIN old

\* A variant that replaces a changed route by deleting it and adding it again.
PatchByReplacing(old, new) ==
    [NoTodo EXCEPT !.delete = Removed(old, new) \cup Updated(old, new),
                   !.post = Added(old, new) \cup Updated(old, new), !.policy = "change"]

Patch(old, new) ==
    [NoTodo EXCEPT !.delete = Removed(old, new), !.patch = Updated(old, new),
                   !.post = Added(old, new), !.policy = "change"]

\* reconcileDevlocal makes sure of the server only when there is a route to add to it.
Plan(old, new) ==
    [Patch(old, new) EXCEPT !.ensure = IF DOMAIN new # {} THEN Resources ELSE {}]

NoRoutes == [id \in {} |-> id]

\* caddy.Load has just run the user's config, and postDevlocalViaAPI begins.
Init ==
    /\ prev = NoRoutes
    /\ prevPolicies = {}
    /\ \E targets \in Targets : desired = Routes(targets) /\ policies = DOMAIN targets
    /\ todo = [Patch(prev, desired) EXCEPT !.ensure = Resources, !.index = TRUE]
    /\ life = "boot"
    /\ live = [id \in RouteIds |-> << >>]
    /\ index = 0
    /\ tls = UserPolicies
    /\ resources \in SUBSET Resources
    /\ UserPolicies # << >> => "policies" \in resources
    /\ faults = 0
    /\ touched = {}
    /\ gone = {}
    /\ unsure = FALSE
    /\ userTls = UserPolicies
    /\ overtaken = FALSE

---------------------------------------------------------------------------
(* The outcomes of a call *)

Fault == faults < MaxFaults /\ faults' = faults + 1

\* A call that is not a POST was answered in the end; it was carried out n times.
Answered(n) ==
    /\ n \in 1 .. MaxTries
    /\ IF n = 1 THEN UNCHANGED faults ELSE Fault

\* No try of it was answered; it was carried out n times all the same.
Unanswered(n) == n \in 0 .. MaxTries /\ Fault

\* What the reconcile under way has changed in Caddy so far.
Done ==
    (Removed(prev, desired) \cup Updated(prev, desired) \cup Added(prev, desired))
        \ (todo.delete \cup todo.patch \cup todo.readd \cup todo.post)

\* The routes it has deleted, and those it has sent to Caddy, which cannot be missing.
Deleted(ids) == (Removed(prev, desired) \ todo.delete) \cup (ids \cap todo.delete)
Sent == Updated(prev, desired) \ (todo.patch \cup todo.readd)

\* A variant that takes over the routes wanted before it returns the error.
AbortCommitting(ids) ==
    /\ todo' = NoTodo
    /\ life' = IF life = "boot" THEN "dead" ELSE life
    /\ prev' = desired
    /\ touched' = touched \cup Done \cup ids
    /\ gone' = (gone \ Sent) \cup Deleted(ids)
    /\ UNCHANGED <<prevPolicies, desired, policies>>

\* An error is returned: prevRoutes stays what it was.  The first load is the program's
\* start, and its failure the program's end.
Abort(ids) ==
    /\ todo' = NoTodo
    /\ life' = IF life = "boot" THEN "dead" ELSE life
    /\ touched' = touched \cup Done \cup ids
    /\ gone' = (gone \ Sent) \cup Deleted(ids)
    /\ UNCHANGED <<prev, prevPolicies, desired, policies>>

Proceed(rest) ==
    /\ todo' = rest
    /\ UNCHANGED <<prev, prevPolicies, desired, policies, life, touched, gone>>

\* With no request left, prevRoutes and prevPolicies become what was asked for.
Commit ==
    /\ todo' = NoTodo
    /\ prev' = desired
    /\ prevPolicies' = policies
    /\ life' = "up"
    /\ gone' = (gone \cap DOMAIN desired) \ Sent
    /\ UNCHANGED <<desired, policies, touched>>

---------------------------------------------------------------------------
(* reconcileDevlocal *)

Reconcile(targets) ==
    /\ life = "up"
    /\ ~Busy
    /\ desired' = Routes(targets)
    /\ policies' = DOMAIN targets
    /\ todo' = Plan(prev, desired')
    /\ UNCHANGED <<prev, prevPolicies, life, caddy, faults, touched, gone, unsure, user>>

\* The order ensureServer works in.
FirstMissing ==
    IF "server" \in todo.ensure THEN "server"
    ELSE IF "routes" \in todo.ensure THEN "routes" ELSE "policies"

\* A new server comes with an empty list of routes.
Created(r) == IF r = "server" THEN {"server", "routes"} ELSE {r}

EnsureResource ==
    /\ todo.ensure # {}
    /\ LET r == FirstMissing IN
         \/ /\ \E n \in 1 .. MaxTries : Answered(n)
            /\ resources' = IF r \in resources THEN resources ELSE resources \cup Created(r)
            /\ Proceed([todo EXCEPT !.ensure = @ \ {r}])
         \/ /\ \E n \in 0 .. MaxTries :
                 /\ Unanswered(n)
                 /\ resources' = IF r \in resources \/ n = 0 THEN resources
                                 ELSE resources \cup Created(r)
            /\ Abort({})
    /\ UNCHANGED <<live, index, tls, unsure, user>>

\* The reconcile of the first load makes sure of the server a second time.
AfterIndex ==
    [todo EXCEPT !.index = FALSE, !.ensure = IF DOMAIN desired # {} THEN Resources ELSE {}]

\* A variant in which a POST is tried again as the other methods are.
PostIndexRetried ==
    /\ todo.ensure = {}
    /\ todo.index
    /\ \E n \in 1 .. MaxTries : Answered(n) /\ index' = index + n
    /\ Proceed(AfterIndex)
    /\ UNCHANGED <<live, tls, resources, unsure, user>>

PostIndex ==
    /\ todo.ensure = {}
    /\ todo.index
    /\ \/ /\ index' = index + 1
          /\ UNCHANGED faults
          /\ Proceed(AfterIndex)
       \/ /\ index' \in {index, index + 1}
          /\ Fault
          /\ Abort({})
    /\ UNCHANGED <<live, tls, resources, unsure, user>>

Ready == todo.ensure = {} /\ ~todo.index

\* /id/<id> names the last copy.
Dropped(copies, n) == SubSeq(copies, 1, IF n < Len(copies) THEN Len(copies) - n ELSE 0)

\* The order of the deletes is the map's.
DeleteRoute(id) ==
    /\ Ready
    /\ id \in todo.delete
    /\ \E n \in 0 .. MaxTries :
         /\ live' = [live EXCEPT ![id] = Dropped(@, n)]
         /\ \/ Answered(n) /\ Proceed([todo EXCEPT !.delete = @ \ {id}])
            \/ Unanswered(n) /\ Abort(IF n = 0 THEN {} ELSE {id})
    /\ UNCHANGED <<index, tls, resources, unsure, user>>

IsFirst(id, ids) == id \in ids /\ \A other \in ids : id <= other

\* A route Caddy does not have is added again.
PatchRoute(id) ==
    /\ Ready
    /\ todo.delete = {} /\ todo.readd = {}
    /\ IsFirst(id, todo.patch)
    /\ LET new == IF live[id] = << >> THEN << >>
                  ELSE [live[id] EXCEPT ![Len(live[id])] = desired[id]] IN
         \/ /\ \E n \in 1 .. MaxTries : Answered(n)
            /\ live' = [live EXCEPT ![id] = new]
            /\ Proceed([todo EXCEPT !.patch = @ \ {id},
                                    !.readd = IF live[id] = << >> THEN {id} ELSE {}])
         \/ \E n \in 0 .. 1 :
              /\ Unanswered(n)
              /\ live' = IF n = 0 THEN live ELSE [live EXCEPT ![id] = new]
              /\ Abort(IF n = 0 THEN {} ELSE {id})
    /\ UNCHANGED <<index, tls, resources, unsure, user>>

\* One try.  Caddy's status is an error where it refuses a second copy.
PostRoute(id, rest) ==
    /\ \/ /\ live[id] = << >> \/ ("accept" \in Duplicates /\ Len(live[id]) < MaxCopies)
          /\ live' = [live EXCEPT ![id] = Append(@, desired[id])]
          /\ \/ UNCHANGED faults /\ Proceed(rest)
             \/ Fault /\ Abort({id})
       \/ /\ live[id] # << >> /\ "reject" \in Duplicates
          /\ UNCHANGED <<live, faults>>
          /\ Abort({})
       \/ /\ UNCHANGED live
          /\ Fault
          /\ Abort({})
    /\ UNCHANGED <<index, tls, resources, unsure, user>>

ReaddRoute(id) ==
    /\ Ready
    /\ id \in todo.readd
    /\ PostRoute(id, [todo EXCEPT !.readd = {}])

AddRoute(id) ==
    /\ Ready
    /\ todo.delete = {} /\ todo.patch = {} /\ todo.readd = {}
    /\ IsFirst(id, todo.post)
    /\ PostRoute(id, [todo EXCEPT !.post = @ \ {id}])

RoutesDone ==
    /\ Ready
    /\ todo.delete = {} /\ todo.patch = {} /\ todo.readd = {} /\ todo.post = {}

OwnPolicy(hosts) == [own |-> TRUE, subjects |-> hosts]
HasOwn == \E i \in DOMAIN tls : tls[i].own
WithoutOwn ==
    FlattenSeq([i \in DOMAIN tls |-> IF tls[i].own THEN << >> ELSE <<tls[i]>>])
PatchedOwn ==
    [i \in DOMAIN tls |-> IF tls[i].own THEN OwnPolicy(policies) ELSE tls[i]]

\* A variant that leaves the old policy where it is.
PrependedUnfiltered == <<OwnPolicy(policies)>> \o tls

\* The list prependTLSPolicy makes of the one it has read.
Prepended == <<OwnPolicy(policies)>> \o WithoutOwn

\* A variant that looks at the ids of the routes for what the policy covers.
PolicyDiffersByRoute == DOMAIN prev # DOMAIN desired

\* computePatch for the one policy: it is compared by its subjects, the hosts.
PolicyDiffers == prevPolicies # policies

\* The answer to the last request, or its failure with the change made or not.
ChangePolicy(changed) ==
    \/ /\ \E n \in 1 .. MaxTries : Answered(n)
       /\ tls' = changed
       /\ unsure' = FALSE
       /\ Commit
    \/ \E n \in 0 .. 1 :
         /\ Unanswered(n)
         /\ tls' = IF n = 0 THEN tls ELSE changed
         /\ unsure' = (unsure \/ n = 1)
         /\ Abort({})

KeepPolicy ==
    /\ RoutesDone
    /\ todo.policy = "change" /\ ~PolicyDiffers
    /\ Commit
    /\ UNCHANGED <<caddy, faults, unsure, user>>

DeletePolicy ==
    /\ RoutesDone
    /\ todo.policy = "change" /\ PolicyDiffers /\ policies = {}
    /\ ChangePolicy(WithoutOwn)
    /\ UNCHANGED <<live, index, resources, user>>

\* A patch Caddy answers with 404 becomes a prepend.
PatchPolicy ==
    /\ RoutesDone
    /\ todo.policy = "change" /\ PolicyDiffers /\ policies # {} /\ prevPolicies # {}
    /\ \/ HasOwn /\ ChangePolicy(PatchedOwn)
       \/ /\ ~HasOwn
          /\ UNCHANGED <<tls, unsure>>
          /\ \/ (\E n \in 1 .. MaxTries : Answered(n)) /\ Proceed([todo EXCEPT !.policy = "prepend"])
             \/ Unanswered(0) /\ Abort({})
    /\ UNCHANGED <<live, index, resources, user>>

\* prependTLSPolicy: the list is read (ensureServer made it) ...
ReadPolicies ==
    /\ RoutesDone
    /\ \/ todo.policy = "prepend"
       \/ todo.policy = "change" /\ PolicyDiffers /\ policies # {} /\ prevPolicies = {}
    /\ \/ /\ \E n \in 1 .. MaxTries : Answered(n)
          /\ Proceed([todo EXCEPT !.policy = "write", !.merged = Prepended])
       \/ Unanswered(0) /\ Abort({})
    /\ UNCHANGED <<caddy, unsure, user>>

\* ... and written back as it was read.
WritePolicies ==
    /\ RoutesDone
    /\ todo.policy = "write"
    /\ ChangePolicy(todo.merged)
    /\ UNCHANGED <<live, index, resources, user>>

---------------------------------------------------------------------------
(* Somebody else works with Caddy's admin API: the user adds a TLS policy. *)

UserAddsPolicy(policy) ==
    /\ "policies" \in resources /\ life # "dead"
    /\ Len(WithoutOwn) < Len(UserPolicies) + MaxEdits
    /\ tls' = Append(tls, policy)
    /\ userTls' = Append(WithoutOwn, policy)
    /\ overtaken' = (todo.policy = "write")
    /\ UNCHANGED <<client, live, index, resources, faults, touched, gone, unsure>>

Next ==
    \/ \E targets \in Targets : Reconcile(targets)
    \/ EnsureResource
    \/ PostIndex
    \/ \E id \in RouteIds : DeleteRoute(id) \/ PatchRoute(id) \/ ReaddRoute(id) \/ AddRoute(id)
    \/ KeepPolicy \/ DeletePolicy \/ PatchPolicy \/ ReadPolicies \/ WritePolicies
    \/ \E policy \in UserAdds : UserAddsPolicy(policy)

Spec == Init /\ [][Next]_vars

---------------------------------------------------------------------------
(* Properties *)

\* What Caddy has of a route when it agrees with a set of routes.
Copies(routes, id) == IF id \in DOMAIN routes THEN <<routes[id]>> ELSE << >>

\* admin.go:309-372: between reconciles Caddy has, of every route no aborted reconcile
\* had changed, exactly what prevRoutes says: the next difference is taken from the
\* truth, whatever requests were lost, repeated or refused for other routes.
DriftConfined ==
    ~Busy => \A id \in RouteIds \ touched : live[id] = Copies(prev, id)

\* README.md:294 "reloads are incremental with zero downtime": at every moment, also after
\* reconciles that failed half-way, Caddy has every route of the last config that was
\* applied that the one under way wants too.  Except for a route that a reconcile that
\* failed had already deleted, until it is sent again; one that is wanted again as it was
\* is not sent (CommitMeansLive).
ZeroDowntime ==
    \A id \in DOMAIN prev \ gone : (Busy => id \in DOMAIN desired) => live[id] # << >>

\* admin.go:259-307: whatever was lost, the policies are the user's, in their order,
\* behind at most one of devlocal's own; only of an edit between prependTLSPolicy's read
\* and its write is that not so, which the write undoes.
PoliciesIntact ==
    /\ ~overtaken => WithoutOwn = userTls
    /\ \A i \in DOMAIN tls : tls[i].own => i = 1

\* admin.go:344-370: between reconciles, whatever was aborted before, the one policy covers
\* the host of every route devlocal takes Caddy to have, and just the hosts of the last
\* config that was applied: hosts that share a route's id included, and there is none
\* without a host.  Except after a change of it that was made without an answer, until
\* one is answered.
PolicyFollowsHosts ==
    ~Busy /\ ~unsure =>
        /\ \A id \in DOMAIN prev : \E i \in DOMAIN tls :
              tls[i].own /\ prev[id].host \in tls[i].subjects
        /\ \A i \in DOMAIN tls : tls[i].own =>
              tls[i].subjects = prevPolicies /\ prevPolicies # {}

\* admin.go:309-372: in what Caddy serves, a reconcile is a reload that moves route after
\* route from the old config to the new one and commits when all have moved; one that
\* fails leaves what it had not reached to the next.
Rolling == INSTANCE RollingReload
    WITH committed <- prev, target <- desired, busy <- Busy,
         served <- [id \in RouteIds \ touched |-> live[id]]
RollingSpec == Rolling!Spec

---------------------------------------------------------------------------
(* What the documentation says and the code does not do *)

\* README.md:304: "The last successfully applied devlocal config": after a reconcile
\* that returned no error, Caddy has the routes it was given and no others.
CommitMeansLive ==
    [][life' = "up" /\ prev' = desired /\ Busy /\ ~Busy'
         => \A id \in RouteIds : live'[id] = Copies(desired, id)]_vars

=============================================================================
