--------------------------- MODULE AdminAPIProofs ---------------------------
(***************************************************************************)
(* For every set of hosts, ids and upstreams and any number of lost        *)
(* answers: a reconcile that goes wrong spoils only the routes it had      *)
(* reached, one that is under way takes no route away that is to stay, and *)
(* the policy covers the hosts of the routes.                              *)
(*                                                                         *)
(* The properties are inductive only together with what todo means: a      *)
(* route still on it is in Caddy as prevRoutes has it, a route no longer   *)
(* on it as the new config has it.                                         *)
(***************************************************************************)
EXTENDS AdminAPI, ListProofs

Differing == Removed(prev, desired) \cup Updated(prev, desired) \cup Added(prev, desired)
Left == todo.delete \cup todo.patch \cup todo.readd \cup todo.post

\* A list of what is left, whatever the policies in it are.
Shaped(t) ==
    t \in [ensure: SUBSET Resources, index: BOOLEAN, delete: SUBSET RouteIds,
           patch: SUBSET RouteIds, readd: SUBSET RouteIds, post: SUBSET RouteIds,
           policy: {"no", "change", "prepend", "write"}, merged: {t.merged}]

TodoType ==
    /\ Shaped(todo)
    /\ prev \in Configs
    /\ desired \in Configs
    /\ live = [id \in RouteIds |-> live[id]]
    /\ touched \subseteq RouteIds

TodoWithinPatch ==
    /\ todo.delete \subseteq Removed(prev, desired)
    /\ todo.patch \subseteq Updated(prev, desired)
    /\ todo.readd \subseteq touched \cap Updated(prev, desired)
    /\ todo.post \subseteq Added(prev, desired)
    /\ ~Busy => todo = NoTodo

Progress ==
    \A id \in RouteIds \ touched :
        live[id] = Copies(IF Busy /\ id \notin Left THEN desired ELSE prev, id)

IInv == TodoType /\ TodoWithinPatch /\ Progress

\* builder.go:42-77: of the hosts that share an id one has the route, and it is its own.
LEMMA RoutesAre ==
    ASSUME NEW targets \in Targets
    PROVE  /\ Routes(targets) \in Configs
           /\ \A id \in DOMAIN Routes(targets) : Routes(targets)[id].host \in DOMAIN targets
<1> DEFINE routes == Routes(targets)
           ids == {IdOf[h] : h \in Winners(targets)}
<1>1. PICK S \in SUBSET Hosts : targets \in [S -> Upstreams]
  BY DEF Targets
<1>2. Winners(targets) \subseteq DOMAIN targets /\ DOMAIN targets = S
  BY <1>1 DEF Winners
<1>3. ids \in SUBSET RouteIds
  BY <1>1, <1>2, IdAssumption
<1>4. DOMAIN routes = ids
  BY DEF Routes
<1>5. \A id \in ids : routes[id].host \in DOMAIN targets /\ routes[id] \in Bodies
  <2> SUFFICES ASSUME NEW id \in ids
               PROVE  routes[id].host \in DOMAIN targets /\ routes[id] \in Bodies
    OBVIOUS
  <2> DEFINE h == CHOOSE w \in Winners(targets) : IdOf[w] = id
  <2>1. h \in Winners(targets)
    BY Zenon
  <2>2. routes[id] = [host |-> h, dial |-> targets[h]]
    BY DEF Routes
  <2> HIDE DEF h
  <2> QED
    BY <1>1, <1>2, <2>1, <2>2 DEF Bodies
<1>6. routes = [id \in ids |-> routes[id]]
  BY DEF Routes
<1>7. routes \in [ids -> Bodies]
  BY <1>5, <1>6
<1> HIDE DEF routes, ids
<1> QED
  BY <1>3, <1>4, <1>5, <1>7 DEF Configs, routes

\* A route that is not in the difference is the same in both configs.
LEMMA SameOutsidePatch ==
    ASSUME NEW id \in RouteIds, id \notin Differing
    PROVE  Copies(prev, id) = Copies(desired, id)
BY DEF Differing, Removed, Updated, Added, Copies

\* What counts of Abort here.
GivesUp(ids) ==
    /\ todo' = NoTodo
    /\ touched' = touched \cup Done \cup ids
    /\ UNCHANGED <<prev, desired>>

\* A reconcile that ends in an error leaves every route it did not reach as it was.
LEMMA AbortStep ==
    ASSUME IInv, Busy, NEW ids \in SUBSET RouteIds, GivesUp(ids),
           live' = [id \in RouteIds |-> live'[id]],
           \A id \in RouteIds \ ids : id \in Left \/ id \notin Differing => live'[id] = live[id]
    PROVE  IInv'
<1>1. todo' = NoTodo /\ prev' = prev /\ desired' = desired
      /\ touched' = touched \cup (Differing \ Left) \cup ids
  BY DEF GivesUp, Done, Differing, Left
<1>2. Differing \subseteq RouteIds
  BY DEF IInv, TodoType, Differing, Removed, Updated, Added, Configs
<1>3. Shaped(NoTodo) /\ NoTodo.policy = "no"
  BY DEF NoTodo, Shaped
<1>4. TodoType'
  BY <1>1, <1>2, <1>3 DEF IInv, TodoType
<1>5. TodoWithinPatch'
  BY <1>1 DEF TodoWithinPatch, NoTodo
<1>6. Progress'
  <2> SUFFICES ASSUME NEW id \in RouteIds, id \notin touched'
               PROVE  live'[id] = Copies(prev, id)
    BY <1>1, <1>3 DEF Progress, Busy, Copies
  <2>1. id \notin touched /\ id \notin ids /\ (id \in Left \/ id \notin Differing)
    BY <1>1
  <2>2. live'[id] = live[id]
    BY <2>1
  <2>3. CASE id \in Left
    BY <2>1, <2>2, <2>3 DEF IInv, Progress
  <2>4. CASE id \notin Differing
    BY <2>1, <2>2, <2>4, SameOutsidePatch DEF IInv, Progress
  <2> QED
    BY <2>1, <2>3, <2>4
<1> QED
  BY <1>4, <1>5, <1>6 DEF IInv

\* A request that does what it is for brings the reconcile forward by one route.
LEMMA ProceedStep ==
    ASSUME IInv, Busy, NEW rest, Shaped(rest), rest.policy # "no", Proceed(rest),
           NEW reached \in SUBSET RouteIds,
           rest.delete \subseteq todo.delete, rest.patch \subseteq todo.patch,
           rest.post \subseteq todo.post,
           rest.readd \subseteq touched \cap Updated(prev, desired),
           Left \subseteq (Left)' \cup reached \cup touched,
           live' = [id \in RouteIds |-> live'[id]],
           \A id \in RouteIds \ reached : live'[id] = live[id],
           \A id \in reached \ touched :
               id \notin (Left)' /\ live'[id] = Copies(desired, id)
    PROVE  IInv'
<1>1. todo' = rest /\ prev' = prev /\ desired' = desired /\ touched' = touched
  BY DEF Proceed
<1>2. TodoType'
  BY <1>1 DEF IInv, TodoType
<1>3. TodoWithinPatch'
  BY <1>1 DEF IInv, TodoWithinPatch, Busy, Removed, Updated, Added
<1>4. Progress'
  <2> SUFFICES ASSUME NEW id \in RouteIds, id \notin touched
               PROVE  live'[id] = Copies(IF id \notin (Left)' THEN desired ELSE prev, id)
    BY <1>1 DEF Progress, Busy, Copies
  <2>1. CASE id \in reached
    BY <2>1
  <2>2. CASE id \notin reached
    <3>1. live'[id] = live[id]
      BY <2>2
    <3>2. id \in Left <=> id \in (Left)'
      BY <1>1, <2>2 DEF Left
    <3> QED
      BY <3>1, <3>2 DEF IInv, Progress
  <2> QED
    BY <2>1, <2>2
<1> QED
  BY <1>2, <1>3, <1>4 DEF IInv

\* The requests before the first route (ensureServer, the index route) and the policy
\* after the last one touch no route.
LEMMA OtherStep ==
    ASSUME IInv, Busy, live' = live,
           Abort({}) \/ \E rest : Shaped(rest) /\ Proceed(rest)
                          /\ rest.policy # "no" /\ rest.delete = todo.delete
                          /\ rest.patch = todo.patch /\ rest.readd = todo.readd
                          /\ rest.post = todo.post
    PROVE  IInv'
<1>1. live' = [id \in RouteIds |-> live'[id]]
  BY DEF IInv, TodoType
<1>2. CASE Abort({})
  BY <1>1, <1>2, AbortStep DEF Abort, GivesUp
<1>3. ASSUME NEW rest, Shaped(rest), Proceed(rest), rest.policy # "no", rest.delete = todo.delete,
             rest.patch = todo.patch, rest.readd = todo.readd, rest.post = todo.post
      PROVE  IInv'
  <2>1. todo' = rest
    BY <1>3 DEF Proceed
  <2>2. (Left)' = Left
    BY <1>3, <2>1 DEF Left
  <2>3. rest.readd \subseteq touched \cap Updated(prev, desired)
    BY <1>3 DEF IInv, TodoWithinPatch
  <2> HIDE DEF Left
  <2> QED
    BY <1>1, <1>3, <2>2, <2>3, ProceedStep, {} \in SUBSET RouteIds
<1> QED
  BY <1>2, <1>3

\* caddy.go:182-190: the first load begins with everything to add and nothing there.
LEMMA InitInvariant == Init => IInv
<1> SUFFICES ASSUME Init PROVE IInv
  OBVIOUS
<1>1. prev \in Configs /\ DOMAIN prev = {}
  <2>1. NoRoutes \in [{} -> Bodies] /\ {} \in SUBSET RouteIds
    BY DEF NoRoutes
  <2> QED
    BY <2>1 DEF Init, Configs, NoRoutes
<1>2. DOMAIN desired \subseteq RouteIds /\ desired \in Configs
  BY RoutesAre DEF Init, Configs
<1>3. /\ todo.delete = {} /\ todo.patch = {} /\ todo.readd = {}
      /\ todo.post = DOMAIN desired /\ todo.policy # "no"
  BY <1>1 DEF Init, Patch, NoTodo, Removed, Updated, Added
<1>4. Shaped(todo)
  BY <1>1, <1>2 DEF Init, Patch, NoTodo, Shaped, Resources, Removed, Updated, Added
<1>5. TodoType
  BY <1>1, <1>2, <1>4 DEF TodoType, Init
<1>6. TodoWithinPatch
  BY <1>1, <1>3 DEF TodoWithinPatch, Busy, Added
<1>7. Progress
  BY <1>1, <1>3 DEF Progress, Busy, Left, Copies, Init
<1> QED
  BY <1>5, <1>6, <1>7 DEF IInv

\* admin.go:309-319: the difference is taken between reconciles, when Caddy agrees with
\* prevRoutes wherever no reconcile was aborted.
LEMMA ReconcileStep ==
    ASSUME IInv, NEW targets \in Targets, Reconcile(targets)
    PROVE  IInv'
<1> DEFINE routes == Routes(targets)
<1>0. routes \in Configs
  BY RoutesAre
<1>1. /\ desired' = routes /\ prev' = prev /\ live' = live /\ touched' = touched
      /\ todo' = Plan(prev, routes) /\ ~Busy
  BY DEF Reconcile, caddy
<1> HIDE DEF routes
<1>2. DOMAIN prev \subseteq RouteIds /\ DOMAIN routes \subseteq RouteIds
  BY <1>0 DEF IInv, TodoType, Configs
<1>3. /\ todo'.delete = Removed(prev, routes) /\ todo'.patch = Updated(prev, routes)
      /\ todo'.readd = {} /\ todo'.post = Added(prev, routes) /\ todo'.policy # "no"
  BY <1>1 DEF Plan, Patch, NoTodo
<1>4. Shaped(todo')
  BY <1>1, <1>2 DEF Plan, Patch, NoTodo, Shaped, Resources, Removed, Updated, Added
<1>5. TodoType'
  BY <1>0, <1>1, <1>4 DEF IInv, TodoType
<1>6. TodoWithinPatch'
  BY <1>1, <1>3 DEF TodoWithinPatch, Busy, Removed, Updated, Added
<1>7. Progress'
  <2> SUFFICES ASSUME NEW id \in RouteIds, id \notin touched
               PROVE  live[id] = Copies(IF id \notin (Left)' THEN routes ELSE prev, id)
    BY <1>1, <1>3 DEF Progress, Busy, Copies
  <2>1. live[id] = Copies(prev, id)
    BY <1>1 DEF IInv, Progress
  <2>2. id \notin (Left)' => Copies(prev, id) = Copies(routes, id)
    BY <1>3 DEF Left, Removed, Updated, Added, Copies
  <2> QED
    BY <2>1, <2>2
<1> QED
  BY <1>5, <1>6, <1>7 DEF IInv

\* admin.go:209-257: ensureServer.
LEMMA EnsureStep ==
    ASSUME IInv, EnsureResource
    PROVE  IInv'
<1>1. Busy /\ live' = live
  BY DEF EnsureResource, IInv, TodoWithinPatch, NoTodo, Busy
<1>2. PICK r : \/ Proceed([todo EXCEPT !.ensure = @ \ {r}]) \/ Abort({})
  BY DEF EnsureResource
<1>3. Shaped([todo EXCEPT !.ensure = @ \ {r}])
  BY DEF IInv, TodoType, Shaped
<1>4. LET rest == [todo EXCEPT !.ensure = @ \ {r}]
      IN  /\ rest.policy # "no" /\ rest.delete = todo.delete /\ rest.patch = todo.patch
          /\ rest.readd = todo.readd /\ rest.post = todo.post
  BY <1>1 DEF IInv, TodoType, Shaped, Busy
<1> QED
  BY <1>1, <1>2, <1>3, <1>4, OtherStep

\* caddy.go:186-188: the index route.
LEMMA PostIndexStep ==
    ASSUME IInv, PostIndex
    PROVE  IInv'
<1>1. Busy /\ live' = live
  BY DEF PostIndex, IInv, TodoWithinPatch, NoTodo, Busy
<1>2. Proceed(AfterIndex) \/ Abort({})
  BY DEF PostIndex
<1>3. Shaped(AfterIndex)
  BY DEF IInv, TodoType, Shaped, AfterIndex, Resources
<1>4. LET rest == AfterIndex
      IN  /\ rest.policy # "no" /\ rest.delete = todo.delete /\ rest.patch = todo.patch
          /\ rest.readd = todo.readd /\ rest.post = todo.post
  BY <1>1 DEF IInv, TodoType, Shaped, Busy, AfterIndex
<1> QED
  BY <1>1, <1>2, <1>3, <1>4, OtherStep

\* A route the reconcile has not reached yet, by what is left to do with it.
LEMMA Unreached ==
    ASSUME IInv, Busy, NEW id \in RouteIds, id \notin touched
    PROVE  /\ id \in todo.delete \cup todo.patch =>
                live[id] = <<prev[id]>> /\ id \in DOMAIN prev
           /\ id \in todo.delete => Copies(desired, id) = << >>
           /\ id \in todo.patch \cup todo.post =>
                Copies(desired, id) = <<desired[id]>>
           /\ id \in todo.post => live[id] = << >>
           /\ id \notin todo.readd
           /\ id \in todo.delete => id \notin todo.patch \cup todo.post
           /\ id \in todo.patch => id \notin todo.delete \cup todo.post
           /\ id \in todo.post => id \notin todo.delete \cup todo.patch
BY DEF IInv, TodoWithinPatch, Progress, Left, Removed, Updated, Added, Copies

\* Deleting the one copy of a route, zero or more times.
LEMMA DropOne ==
    ASSUME NEW x, NEW n \in Nat
    PROVE  Dropped(<<x>>, n) = IF n = 0 THEN <<x>> ELSE << >>
<1>1. CASE n = 0
  <2>1. Dropped(<<x>>, n) = SubSeq(<<x>>, 1, 1)
    BY <1>1 DEF Dropped
  <2> QED
    BY <1>1, <2>1
<1>2. CASE n # 0
  <2>1. Dropped(<<x>>, n) = SubSeq(<<x>>, 1, 0)
    BY <1>2 DEF Dropped
  <2> QED
    BY <1>2, <2>1
<1> QED
  BY <1>1, <1>2

\* admin.go:320-324: a route that is to go is gone once it was deleted, however often.
LEMMA DeleteStep ==
    ASSUME IInv, NEW id \in RouteIds, DeleteRoute(id)
    PROVE  IInv'
<1>1. Busy /\ id \in todo.delete
  BY DEF DeleteRoute, IInv, TodoWithinPatch, NoTodo, Busy
<1>2. PICK n \in 0 .. MaxTries :
         /\ live' = [live EXCEPT ![id] = Dropped(@, n)]
         /\ \/ Answered(n) /\ Proceed([todo EXCEPT !.delete = @ \ {id}])
            \/ Unanswered(n) /\ Abort(IF n = 0 THEN {} ELSE {id})
  BY DEF DeleteRoute
<1>3. n \in Nat
  BY BoundAssumption
<1>4. /\ live' = [i \in RouteIds |-> live'[i]]
      /\ \A i \in RouteIds \ {id} : live'[i] = live[i]
      /\ live'[id] = Dropped(live[id], n)
  BY <1>2 DEF IInv, TodoType
<1>5. id \notin touched => live'[id] = IF n = 0 THEN live[id] ELSE << >>
  <2> SUFFICES ASSUME id \notin touched
               PROVE  live'[id] = IF n = 0 THEN live[id] ELSE << >>
    OBVIOUS
  <2>1. live[id] = <<prev[id]>>
    BY <1>1, Unreached
  <2>2. Dropped(<<prev[id]>>, n) = IF n = 0 THEN <<prev[id]>> ELSE << >>
    BY <1>3, DropOne
  <2> QED
    BY <1>4, <2>1, <2>2
<1>6. CASE Answered(n) /\ Proceed([todo EXCEPT !.delete = @ \ {id}])
  <2> DEFINE rest == [todo EXCEPT !.delete = @ \ {id}]
  <2>1. n # 0
    BY <1>6 DEF Answered
  <2>2. /\ Shaped(rest) /\ rest.policy # "no" /\ rest.delete = todo.delete \ {id}
        /\ rest.patch = todo.patch /\ rest.readd = todo.readd /\ rest.post = todo.post
    BY <1>1 DEF IInv, TodoType, Shaped, Busy
  <2>3. todo' = rest
    BY <1>6 DEF Proceed
  <2>4. Left \subseteq (Left)' \cup {id}
    BY <2>2, <2>3 DEF Left
  <2>5. id \notin touched => id \notin (Left)' /\ live'[id] = Copies(desired, id)
    BY <1>1, <1>5, <2>1, <2>2, <2>3, Unreached DEF Left
  <2>6. rest.readd \subseteq touched \cap Updated(prev, desired)
    BY <2>2 DEF IInv, TodoWithinPatch
  <2>7. Proceed(rest) /\ {id} \in SUBSET RouteIds
    BY <1>6
  <2> HIDE DEF rest, Left
  <2>8. /\ rest.delete \subseteq todo.delete /\ rest.patch \subseteq todo.patch
        /\ rest.post \subseteq todo.post /\ Left \subseteq (Left)' \cup {id} \cup touched
        /\ \A i \in {id} \ touched : i \notin (Left)' /\ live'[i] = Copies(desired, i)
    BY <2>2, <2>4, <2>5
  <2> QED
    BY <1>1, <1>4, <2>2, <2>6, <2>7, <2>8, ProceedStep
<1>7. CASE Unanswered(n) /\ Abort(IF n = 0 THEN {} ELSE {id})
  <2> DEFINE ids == IF n = 0 THEN {} ELSE {id}
  <2>1. ids \in SUBSET RouteIds /\ Abort(ids)
    BY <1>7
  <2>2. CASE id \in touched \/ n # 0
    <3>1. GivesUp({id})
      BY <1>7, <2>2 DEF Abort, GivesUp
    <3> QED
      BY <1>1, <1>4, <3>1, {id} \in SUBSET RouteIds, AbortStep
  <2>3. CASE id \notin touched /\ n = 0
    <3>1. \A i \in RouteIds : live'[i] = live[i]
      BY <1>4, <1>5, <2>3
    <3> QED
      BY <1>1, <1>4, <2>1, <3>1, AbortStep DEF Abort, GivesUp
  <2> QED
    BY <2>2, <2>3
<1> QED
  BY <1>2, <1>6, <1>7

\* admin.go:325-337: a changed route has its new body, or is on the list to be added again.
LEMMA PatchStep ==
    ASSUME IInv, NEW id \in RouteIds, PatchRoute(id)
    PROVE  IInv'
<1> DEFINE new == IF live[id] = << >> THEN << >>
                  ELSE [live[id] EXCEPT ![Len(live[id])] = desired[id]]
           rest == [todo EXCEPT !.patch = @ \ {id},
                                !.readd = IF live[id] = << >> THEN {id} ELSE {}]
<1>1. Busy /\ id \in todo.patch /\ todo.delete = {} /\ todo.readd = {}
  BY DEF PatchRoute, IsFirst, IInv, TodoWithinPatch, NoTodo, Busy
<1>2. id \notin touched =>
          live[id] # << >> /\ new = <<desired[id]>> /\ Copies(desired, id) = <<desired[id]>>
  <2> SUFFICES ASSUME id \notin touched
               PROVE  live[id] # << >> /\ new = <<desired[id]>>
                      /\ Copies(desired, id) = <<desired[id]>>
    OBVIOUS
  <2>1. live[id] = <<prev[id]>> /\ Copies(desired, id) = <<desired[id]>>
    BY <1>1, Unreached
  <2>2. <<prev[id]>> # << >> /\ Len(<<prev[id]>>) = 1
    OBVIOUS
  <2>3. [<<prev[id]>> EXCEPT ![1] = desired[id]] = <<desired[id]>>
    OBVIOUS
  <2> QED
    BY <2>1, <2>2, <2>3
<1>3. ASSUME live' = [live EXCEPT ![id] = new], Proceed(rest)
      PROVE  IInv'
  <2>1. /\ Shaped(rest) /\ rest.policy # "no" /\ rest.delete = todo.delete
        /\ rest.patch = todo.patch \ {id} /\ rest.post = todo.post
        /\ rest.readd = IF live[id] = << >> THEN {id} ELSE {}
    BY <1>1 DEF IInv, TodoType, Shaped, Busy
  <2>2. todo' = rest
    BY <1>3 DEF Proceed
  <2>3. Left \subseteq (Left)' \cup {id}
    BY <1>1, <2>1, <2>2 DEF Left
  <2>4. /\ live' = [i \in RouteIds |-> live'[i]]
        /\ \A i \in RouteIds \ {id} : live'[i] = live[i]
        /\ live'[id] = new
    BY <1>3 DEF IInv, TodoType
  <2>5. id \notin touched => id \notin (Left)' /\ live'[id] = Copies(desired, id)
    BY <1>1, <1>2, <2>1, <2>2, <2>4, Unreached DEF Left
  <2>6. rest.readd \subseteq touched \cap Updated(prev, desired)
    BY <1>1, <1>2, <2>1 DEF IInv, TodoWithinPatch
  <2>7. Proceed(rest) /\ {id} \in SUBSET RouteIds
    BY <1>3
  <2> HIDE DEF rest, new, Left
  <2> QED
    BY <1>1, <2>1, <2>3, <2>4, <2>5, <2>6, <2>7, ProceedStep
<1>4. ASSUME live' = live, Abort({})
      PROVE  IInv'
  BY <1>1, <1>4, OtherStep
<1>5. ASSUME live' = [live EXCEPT ![id] = new], Abort({id})
      PROVE  IInv'
  <2>1. /\ live' = [i \in RouteIds |-> live'[i]]
        /\ \A i \in RouteIds \ {id} : live'[i] = live[i]
    BY <1>5 DEF IInv, TodoType
  <2> QED
    BY <1>1, <1>5, <2>1, {id} \in SUBSET RouteIds, AbortStep DEF Abort, GivesUp
<1>6. \/ live' = [live EXCEPT ![id] = new] /\ Proceed(rest)
      \/ live' = live /\ Abort({})
      \/ live' = [live EXCEPT ![id] = new] /\ Abort({id})
  BY DEF PatchRoute
<1> HIDE DEF new, rest
<1> QED
  BY <1>3, <1>4, <1>5, <1>6

\* What the two uses of postRoute have in common.
LEMMA PostStep ==
    ASSUME IInv, Busy, NEW id \in RouteIds, NEW rest, Shaped(rest), PostRoute(id, rest),
           rest.policy # "no", rest.delete = todo.delete, rest.patch = todo.patch,
           rest.readd \subseteq todo.readd, rest.post \in {todo.post, todo.post \ {id}},
           id \notin touched => id \in todo.post /\ rest.post = todo.post \ {id}
    PROVE  IInv'
<1>1. ASSUME live' = [live EXCEPT ![id] = Append(@, desired[id])], Proceed(rest)
      PROVE  IInv'
  <2>1. /\ live' = [i \in RouteIds |-> live'[i]]
        /\ \A i \in RouteIds \ {id} : live'[i] = live[i]
        /\ live'[id] = Append(live[id], desired[id])
    BY <1>1 DEF IInv, TodoType
  <2>2. todo' = rest
    BY <1>1 DEF Proceed
  <2>3. Left \subseteq (Left)' \cup {id} \cup touched
    BY <2>2 DEF Left, IInv, TodoWithinPatch
  <2>4. id \notin touched => id \notin (Left)' /\ live'[id] = Copies(desired, id)
    <3>1. Append(<< >>, desired[id]) = <<desired[id]>>
      OBVIOUS
    <3> QED
      BY <2>1, <2>2, <3>1, Unreached DEF Left
  <2>5. rest.readd \subseteq touched \cap Updated(prev, desired)
    BY DEF IInv, TodoWithinPatch
  <2>6. Proceed(rest) /\ {id} \in SUBSET RouteIds
    BY <1>1
  <2>7. rest.delete \subseteq todo.delete /\ rest.patch \subseteq todo.patch
        /\ rest.post \subseteq todo.post
    OBVIOUS
  <2> HIDE DEF Left
  <2> QED
    BY <2>1, <2>3, <2>4, <2>5, <2>6, <2>7, ProceedStep
<1>2. ASSUME live' = [live EXCEPT ![id] = Append(@, desired[id])], Abort({id})
      PROVE  IInv'
  <2>1. /\ live' = [i \in RouteIds |-> live'[i]]
        /\ \A i \in RouteIds \ {id} : live'[i] = live[i]
    BY <1>2 DEF IInv, TodoType
  <2> QED
    BY <1>2, <2>1, {id} \in SUBSET RouteIds, AbortStep DEF Abort, GivesUp
<1>3. ASSUME live' = live, Abort({})
      PROVE  IInv'
  BY <1>3, OtherStep
<1> QED
  BY <1>1, <1>2, <1>3 DEF PostRoute

\* admin.go:330-333: only a route an earlier reconcile spoiled is added again.
LEMMA ReaddStep ==
    ASSUME IInv, NEW id \in RouteIds, ReaddRoute(id)
    PROVE  IInv'
<1> DEFINE rest == [todo EXCEPT !.readd = {}]
<1>1. Busy /\ id \in todo.readd /\ id \in touched
  BY DEF ReaddRoute, IInv, TodoWithinPatch, NoTodo, Busy
<1>2. PostRoute(id, rest)
  BY DEF ReaddRoute
<1>3. /\ Shaped(rest) /\ rest.policy # "no" /\ rest.delete = todo.delete
      /\ rest.patch = todo.patch /\ rest.readd = {} /\ rest.post = todo.post
  BY <1>1 DEF IInv, TodoType, Shaped, Busy
<1> HIDE DEF rest
<1> QED
  BY <1>1, <1>2, <1>3, PostStep

\* admin.go:338-342: a new route is added to none.
LEMMA AddStep ==
    ASSUME IInv, NEW id \in RouteIds, AddRoute(id)
    PROVE  IInv'
<1> DEFINE rest == [todo EXCEPT !.post = @ \ {id}]
<1>1. Busy /\ id \in todo.post
  BY DEF AddRoute, IsFirst, IInv, TodoWithinPatch, NoTodo, Busy
<1>2. PostRoute(id, rest)
  BY DEF AddRoute
<1>3. /\ Shaped(rest) /\ rest.policy # "no" /\ rest.delete = todo.delete
      /\ rest.patch = todo.patch /\ rest.readd = todo.readd
      /\ rest.post = todo.post \ {id}
  BY <1>1 DEF IInv, TodoType, Shaped, Busy
<1> HIDE DEF rest
<1> QED
  BY <1>1, <1>2, <1>3, PostStep

PolicyCall ==
    KeepPolicy \/ DeletePolicy \/ PatchPolicy \/ ReadPolicies \/ WritePolicies

\* A request for the policy is sent when no route is left, and leads on to another, to the
\* end of the reconcile or to its failure.
LEMMA PolicyCalls ==
    ASSUME IInv, PolicyCall
    PROVE  /\ Busy /\ live' = live /\ index' = index /\ resources' = resources /\ Left = {}
           /\ ~todo.index
           /\ \/ Abort({})
              \/ Commit
              \/ \E rest : /\ Shaped(rest) /\ Proceed(rest) /\ rest.policy # "no"
                           /\ rest.delete = todo.delete /\ rest.patch = todo.patch
                           /\ rest.readd = todo.readd /\ rest.post = todo.post
                           /\ rest.index = todo.index
<1>1. RoutesDone /\ live' = live /\ index' = index /\ resources' = resources
  BY DEF PolicyCall, KeepPolicy, DeletePolicy, PatchPolicy, ReadPolicies, WritePolicies, caddy
<1>2. Left = {} /\ ~todo.index
  BY <1>1 DEF RoutesDone, Ready, Left
<1>3. Busy
  BY DEF PolicyCall, KeepPolicy, DeletePolicy, PatchPolicy, ReadPolicies, WritePolicies, Busy
<1>4. \/ Abort({}) \/ Commit
      \/ Proceed([todo EXCEPT !.policy = "prepend"])
      \/ Proceed([todo EXCEPT !.policy = "write", !.merged = Prepended])
  BY DEF PolicyCall, KeepPolicy, DeletePolicy, PatchPolicy, ReadPolicies, WritePolicies,
         ChangePolicy
<1>5. ASSUME NEW rest \in {[todo EXCEPT !.policy = "prepend"],
                           [todo EXCEPT !.policy = "write", !.merged = Prepended]}
      PROVE  /\ Shaped(rest) /\ rest.policy # "no"
             /\ rest.delete = todo.delete /\ rest.patch = todo.patch
             /\ rest.readd = todo.readd /\ rest.post = todo.post /\ rest.index = todo.index
  <2>1. Shaped(todo)
    BY DEF IInv, TodoType
  <2>2. CASE rest = [todo EXCEPT !.policy = "prepend"]
    BY <2>1, <2>2 DEF Shaped
  <2>3. CASE rest = [todo EXCEPT !.policy = "write", !.merged = Prepended]
    BY <2>1, <2>3 DEF Shaped
  <2> QED
    BY <1>5, <2>2, <2>3
<1>6. CASE Abort({}) \/ Commit
  BY <1>1, <1>2, <1>3, <1>6
<1>7. ASSUME NEW rest \in {[todo EXCEPT !.policy = "prepend"],
                           [todo EXCEPT !.policy = "write", !.merged = Prepended]},
             Proceed(rest)
      PROVE  \E other : /\ Shaped(other) /\ Proceed(other) /\ other.policy # "no"
                        /\ other.delete = todo.delete /\ other.patch = todo.patch
                        /\ other.readd = todo.readd /\ other.post = todo.post
                        /\ other.index = todo.index
  <2>1. /\ Shaped(rest) /\ rest.policy # "no"
        /\ rest.delete = todo.delete /\ rest.patch = todo.patch
        /\ rest.readd = todo.readd /\ rest.post = todo.post /\ rest.index = todo.index
    BY <1>5
  <2> QED
    BY <2>1, <1>7
<1> QED
  BY <1>1, <1>2, <1>3, <1>4, <1>6, <1>7

\* The last request: nothing is left, so Caddy has the new config and prevRoutes says so.
LEMMA PolicyStep ==
    ASSUME IInv, PolicyCall
    PROVE  IInv'
<1>1. Busy /\ live' = live /\ Left = {}
  BY PolicyCalls
<1>2. CASE Abort({})
  BY <1>1, <1>2, OtherStep
<1>3. CASE Commit
  <2>0. prev' = desired /\ todo' = NoTodo /\ desired' = desired /\ touched' = touched
    BY <1>3 DEF Commit
  <2>1. Shaped(NoTodo) /\ NoTodo.policy = "no"
    BY DEF NoTodo, Shaped
  <2>2. TodoType'
    BY <1>1, <2>0, <2>1 DEF IInv, TodoType
  <2>3. TodoWithinPatch'
    BY <2>0 DEF TodoWithinPatch, NoTodo
  <2>4. Progress'
    BY <1>1, <2>0, <2>1 DEF IInv, Progress, Busy, Copies
  <2> QED
    BY <2>2, <2>3, <2>4 DEF IInv
<1>4. ASSUME NEW rest, Shaped(rest), Proceed(rest), rest.policy # "no",
             rest.delete = todo.delete, rest.patch = todo.patch,
             rest.readd = todo.readd, rest.post = todo.post
      PROVE  IInv'
  BY <1>1, <1>4, OtherStep
<1> QED
  BY <1>2, <1>3, <1>4, PolicyCalls

\* admin.go:309-372: every request of every reconcile keeps the bookkeeping right.
THEOREM Inductive == Spec => []IInv
<1>1. IInv /\ [Next]_vars => IInv'
  <2> SUFFICES ASSUME IInv, [Next]_vars PROVE IInv'
    OBVIOUS
  <2>1. ASSUME NEW targets \in Targets, Reconcile(targets) PROVE IInv'
    BY <2>1, ReconcileStep
  <2>2. CASE EnsureResource
    BY <2>2, EnsureStep
  <2>3. CASE PostIndex
    BY <2>3, PostIndexStep
  <2>4. ASSUME NEW id \in RouteIds, DeleteRoute(id) PROVE IInv'
    BY <2>4, DeleteStep
  <2>5. ASSUME NEW id \in RouteIds, PatchRoute(id) PROVE IInv'
    BY <2>5, PatchStep
  <2>6. ASSUME NEW id \in RouteIds, ReaddRoute(id) PROVE IInv'
    BY <2>6, ReaddStep
  <2>7. ASSUME NEW id \in RouteIds, AddRoute(id) PROVE IInv'
    BY <2>7, AddStep
  <2>8. CASE PolicyCall
    BY <2>8, PolicyStep
  <2>9. CASE UNCHANGED <<client, live, touched>>
    BY <2>9 DEF IInv, TodoType, Shaped, TodoWithinPatch, Progress, Left, Busy, Copies, client
  <2>10. ASSUME NEW policy, UserAddsPolicy(policy) PROVE IInv'
    BY <2>9, <2>10 DEF UserAddsPolicy
  <2>11. CASE UNCHANGED vars
    BY <2>9, <2>11 DEF vars, client
  <2> QED
    BY <2>1, <2>2, <2>3, <2>4, <2>5, <2>6, <2>7, <2>8, <2>10, <2>11 DEF Next, PolicyCall
<1> QED
  BY <1>1, InitInvariant, PTL DEF Spec

\* admin.go:309-372: what prevRoutes says of a route no aborted reconcile changed is what
\* Caddy has, for any number of routes and of lost answers.
THEOREM DriftTheorem == Spec => []DriftConfined
<1>1. IInv => DriftConfined
  BY DEF IInv, Progress, DriftConfined
<1> QED
  BY <1>1, Inductive, PTL

---------------------------------------------------------------------------
(* AdminAPI implements RollingReload. *)

Served == [id \in RouteIds \ touched |-> live[id]]
Seen == <<prev, desired, Busy, Served>>

\* The abstract actions, written out with what they stand for here.
LEMMA AbstractActions ==
    /\ Rolling!Begin <=> ~Busy /\ Busy' = TRUE /\ desired' \in Configs
                         /\ prev' = prev /\ Served' = Served
    /\ \A id : Rolling!Move(id) <=>
          /\ Busy
          /\ prev' = prev /\ desired' = desired /\ Busy' = Busy
          /\ DOMAIN Served' = DOMAIN Served
          /\ \A other \in DOMAIN Served \ {id} : Served'[other] = Served[other]
          /\ Served[id] = Copies(prev, id)
          /\ Served'[id] = Copies(desired', id)
    /\ Rolling!Commit <=>
          /\ Busy
          /\ Busy' = FALSE
          /\ \A id \in DOMAIN Served : Served[id] = Copies(desired, id)
          /\ prev' = desired /\ desired' = desired /\ Served' = Served
    /\ Rolling!Fail <=>
          /\ Busy
          /\ Busy' = FALSE
          /\ \E kept \in SUBSET DOMAIN Served :
                /\ \A id \in kept : Served[id] = Copies(prev, id)
                /\ Served' = [id \in kept |-> Served[id]]
          /\ prev' = prev /\ desired' = desired
BY DEF Rolling!Begin, Rolling!Move, Rolling!Commit, Rolling!Fail, Rolling!Agrees,
       Rolling!Configs, Configs, Copies, Served

\* A request that was answered moves at most the one route it is for.
LEMMA ProceedRolls ==
    ASSUME IInv, IInv', Busy, Busy', NEW id, prev' = prev, desired' = desired,
           touched' = touched,
           Left \ {id} \subseteq (Left)' \cup touched, (Left)' \subseteq Left \cup touched
    PROVE  [Rolling!Next]_Seen
<1>1. \A other \in RouteIds \ touched :
         /\ live[other] = Copies(IF other \notin Left THEN desired ELSE prev, other)
         /\ live'[other] = Copies(IF other \notin (Left)' THEN desired ELSE prev, other)
  BY DEF IInv, Progress, Copies
<1>2. \A other \in RouteIds \ (touched \cup {id}) : live'[other] = live[other]
  BY <1>1
<1>3. CASE id \in RouteIds \ touched /\ id \in Left /\ id \notin (Left)'
  <2>1. Rolling!Move(id)
    BY <1>1, <1>2, <1>3, AbstractActions DEF Served, Busy
  <2> QED
    BY <2>1, <1>3 DEF Rolling!Next, Served
<1>4. CASE ~(id \in RouteIds \ touched /\ id \in Left /\ id \notin (Left)')
  <2>1. \A other \in RouteIds \ touched : live'[other] = live[other]
    BY <1>1, <1>2, <1>4
  <2>2. Served' = Served
    BY <2>1 DEF Served
  <2> QED
    BY <2>2 DEF Seen, Busy
<1> QED
  BY <1>3, <1>4

\* A reconcile that ends in an error fails as a reload: what it has reached is given up.
LEMMA AbortRolls ==
    ASSUME IInv, IInv', Busy, NEW ids, Abort(ids)
    PROVE  [Rolling!Next]_Seen
<1>1. /\ todo' = NoTodo /\ prev' = prev /\ desired' = desired
      /\ touched' = touched \cup (Differing \ Left) \cup ids
  BY DEF Abort, Done, Differing, Left
<1>2. Busy' = FALSE
  BY <1>1 DEF Busy, NoTodo
<1>3. \A id \in RouteIds \ touched' :
         live[id] = Copies(prev, id) /\ live'[id] = Copies(prev, id)
  <2> SUFFICES ASSUME NEW id \in RouteIds \ touched'
               PROVE  live[id] = Copies(prev, id) /\ live'[id] = Copies(prev, id)
    OBVIOUS
  <2>1. id \notin touched /\ (id \in Left \/ id \notin Differing)
    BY <1>1
  <2>2. live[id] = Copies(prev, id)
    BY <2>1, SameOutsidePatch DEF IInv, Progress
  <2>3. live'[id] = Copies(prev', id)
    BY <1>2 DEF IInv, Progress, Copies
  <2> QED
    BY <1>1, <2>2, <2>3
<1>4. Served' = [id \in RouteIds \ touched' |-> Served[id]]
  BY <1>1, <1>3 DEF Served
<1>5. \A id \in RouteIds \ touched' : Served[id] = Copies(prev, id)
  BY <1>1, <1>3 DEF Served
<1>6. RouteIds \ touched' \in SUBSET DOMAIN Served
  BY <1>1 DEF Served
<1>7. Rolling!Fail
  BY <1>1, <1>2, <1>4, <1>5, <1>6, AbstractActions
<1> QED
  BY <1>7 DEF Rolling!Next

\* A reconcile ends without an error when nothing is left of it.
LEMMA CommitRolls ==
    ASSUME IInv, PolicyCall, Commit
    PROVE  [Rolling!Next]_Seen
<1>1. Busy /\ live' = live /\ Left = {}
  BY PolicyCalls
<1>2. Busy' = FALSE /\ prev' = desired /\ desired' = desired /\ touched' = touched
  BY DEF Busy, NoTodo, Commit
<1>3. \A id \in RouteIds \ touched : live[id] = Copies(desired, id)
  BY <1>1 DEF IInv, Progress
<1>4. Rolling!Commit
  BY <1>1, <1>2, <1>3, AbstractActions DEF Served
<1> QED
  BY <1>4 DEF Rolling!Next

\* Every step is a step of the abstract specification or one it does not see.
LEMMA StepRolls ==
    ASSUME IInv, IInv', [Next]_vars
    PROVE  [Rolling!Next]_Seen
<1>1. ASSUME NEW targets \in Targets, Reconcile(targets) PROVE [Rolling!Next]_Seen
  <2>1. Rolling!Begin
    <3>1. /\ ~Busy /\ prev' = prev /\ live' = live /\ touched' = touched
          /\ desired' = Routes(targets) /\ todo' = Plan(prev, desired')
      BY <1>1 DEF Reconcile, caddy
    <3>2. Plan(prev, desired').policy = "change"
      BY DEF Plan, Patch, NoTodo
    <3> QED
      BY <3>1, <3>2, RoutesAre, AbstractActions DEF Served, Busy
  <2> QED
    BY <2>1 DEF Rolling!Next
<1>2. CASE EnsureResource \/ PostIndex
  <2>1. Busy
    BY <1>2 DEF EnsureResource, PostIndex, IInv, TodoWithinPatch, NoTodo, Busy
  <2>2. \/ Abort({})
        \/ \E rest \in {[todo EXCEPT !.ensure = @ \ {r}] : r \in Resources}
                         \cup {AfterIndex} : Proceed(rest)
    BY <1>2 DEF EnsureResource, PostIndex, FirstMissing, Resources
  <2>3. ASSUME NEW rest \in {[todo EXCEPT !.ensure = @ \ {r}] : r \in Resources}
                              \cup {AfterIndex},
               Proceed(rest)
        PROVE  [Rolling!Next]_Seen
    <3>1. /\ todo'.delete = todo.delete /\ todo'.patch = todo.patch
          /\ todo'.readd = todo.readd /\ todo'.post = todo.post /\ todo'.policy # "no"
      <4>1. todo' = rest /\ Shaped(todo) /\ todo.policy # "no"
        BY <2>1, <2>3 DEF Proceed, IInv, TodoType, Busy
      <4>2. CASE rest = AfterIndex
        BY <4>1, <4>2 DEF Shaped, AfterIndex
      <4>3. ASSUME NEW r, rest = [todo EXCEPT !.ensure = @ \ {r}]
            PROVE  /\ rest.delete = todo.delete /\ rest.patch = todo.patch
                   /\ rest.readd = todo.readd /\ rest.post = todo.post
                   /\ rest.policy = todo.policy
        BY <4>1, <4>3 DEF Shaped
      <4> QED
        BY <2>3, <4>1, <4>2, <4>3
    <3> QED
      BY <2>1, <2>3, <3>1, ProceedRolls DEF Proceed, Left, Busy
  <2> QED
    BY <2>1, <2>2, <2>3, AbortRolls
<1>3. ASSUME NEW id \in RouteIds,
             DeleteRoute(id) \/ PatchRoute(id) \/ ReaddRoute(id) \/ AddRoute(id)
      PROVE  [Rolling!Next]_Seen
  <2>1. Busy
    BY <1>3 DEF DeleteRoute, PatchRoute, ReaddRoute, AddRoute, IsFirst, IInv,
                TodoWithinPatch, NoTodo, Busy
  <2>2. \/ \E ids : Abort(ids)
        \/ Proceed([todo EXCEPT !.delete = @ \ {id}])
        \/ Proceed([todo EXCEPT !.patch = @ \ {id},
                                !.readd = IF live[id] = << >> THEN {id} ELSE {}])
        \/ Proceed([todo EXCEPT !.readd = {}])
        \/ Proceed([todo EXCEPT !.post = @ \ {id}])
    BY <1>3 DEF DeleteRoute, PatchRoute, ReaddRoute, AddRoute, PostRoute
  <2>3. CASE ~\E ids : Abort(ids)
    <3>1. /\ prev' = prev /\ desired' = desired /\ touched' = touched /\ Busy'
          /\ todo'.delete \subseteq todo.delete /\ todo.delete \subseteq todo'.delete \cup {id}
          /\ todo'.patch \subseteq todo.patch /\ todo.patch \subseteq todo'.patch \cup {id}
          /\ todo'.post \subseteq todo.post /\ todo.post \subseteq todo'.post \cup {id}
      <4>1. Shaped(todo) /\ todo.policy # "no"
        BY <2>1 DEF IInv, TodoType, Busy
      <4>2. CASE Proceed([todo EXCEPT !.delete = @ \ {id}])
        BY <4>1, <4>2 DEF Proceed, Shaped, Busy
      <4>3. CASE Proceed([todo EXCEPT !.patch = @ \ {id},
                                      !.readd = IF live[id] = << >> THEN {id} ELSE {}])
        BY <4>1, <4>3 DEF Proceed, Shaped, Busy
      <4>4. CASE Proceed([todo EXCEPT !.readd = {}])
        BY <4>1, <4>4 DEF Proceed, Shaped, Busy
      <4>5. CASE Proceed([todo EXCEPT !.post = @ \ {id}])
        BY <4>1, <4>5 DEF Proceed, Shaped, Busy
      <4> QED
        BY <2>2, <2>3, <4>2, <4>3, <4>4, <4>5
    <3>2. todo.readd \subseteq touched /\ todo'.readd \subseteq touched
      BY <3>1 DEF IInv, TodoWithinPatch
    <3> QED
      BY <2>1, <3>1, <3>2, ProceedRolls DEF Left
  <2> QED
    BY <2>1, <2>3, AbortRolls
<1>4. CASE PolicyCall
  <2>1. Busy /\ Left = {}
    BY <1>4, PolicyCalls
  <2>2. ASSUME NEW rest, Proceed(rest), rest.policy # "no",
               rest.delete = todo.delete, rest.patch = todo.patch,
               rest.readd = todo.readd, rest.post = todo.post
        PROVE  [Rolling!Next]_Seen
    <3>1. (Left)' = Left /\ Busy' /\ prev' = prev /\ desired' = desired /\ touched' = touched
      BY <2>2 DEF Proceed, Left, Busy
    <3> HIDE DEF Left
    <3> QED
      BY <2>1, <3>1, ProceedRolls
  <2> QED
    BY <1>4, <2>1, <2>2, CommitRolls, AbortRolls, PolicyCalls
<1>5. CASE UNCHANGED <<client, live, touched>>
  BY <1>5 DEF client, Seen, Served, Busy
<1>6. ASSUME NEW policy, UserAddsPolicy(policy) PROVE [Rolling!Next]_Seen
  BY <1>5, <1>6 DEF UserAddsPolicy
<1>7. CASE UNCHANGED vars
  BY <1>5, <1>7 DEF vars, client
<1> QED
  BY <1>1, <1>2, <1>3, <1>4, <1>6, <1>7 DEF Next, PolicyCall

\* admin.go:309-372: for any routes and any lost answers, a reconcile moves route after
\* route from the old config to the new one, commits when all have moved, and when it
\* fails leaves those it had not reached to the next.
THEOREM RollingRefinement == Spec => RollingSpec
<1>1. Init => Rolling!Init
  <2> SUFFICES ASSUME Init PROVE Rolling!Init
    OBVIOUS
  <2>1. Busy = TRUE
    BY DEF Init, Busy, Patch, NoTodo
  <2> QED
    BY <2>1, RoutesAre DEF Init, Rolling!Init, Rolling!Configs, Configs, NoRoutes
<1>2. [][Next]_vars /\ []IInv => [][Rolling!Next]_Seen
  BY StepRolls, PTL
<1> QED
  BY <1>1, <1>2, Inductive, PTL DEF Spec, RollingSpec, Rolling!Spec, Seen, Served

---------------------------------------------------------------------------
(* The TLS policies *)

\* A policy of the user's.
Foreign == [own: {FALSE}, subjects: SUBSET Hosts]

\* The user's policies list, and devlocal's own in front of it when it covers hosts.
ListFor(hosts, list) == (IF hosts = {} THEN << >> ELSE <<OwnPolicy(hosts)>>) \o list

\* Whatever request was lost, the policies are those for some set of hosts: for those of
\* prevPolicies unless a change was made unanswered; and the user's are as the user left
\* them unless an edit was overtaken.  The list to be written back is one for the hosts
\* wanted.
PolicyForm ==
    /\ userTls \in Seq(Foreign)
    /\ unsure \in BOOLEAN /\ overtaken \in BOOLEAN
    /\ prevPolicies \in SUBSET Hosts /\ policies \in SUBSET Hosts
    /\ \E hosts \in SUBSET Hosts, list \in Seq(Foreign) :
          /\ tls = ListFor(hosts, list)
          /\ ~overtaken => list = userTls
          /\ ~unsure => hosts = prevPolicies
    /\ todo.policy \in {"prepend", "write"} => policies # {}
    /\ IF todo.policy = "write"
       THEN \E list \in Seq(Foreign) :
               /\ todo.merged = ListFor(policies, list)
               /\ ~overtaken => list = userTls
       ELSE todo.merged = << >>

\* The hosts of the routes are hosts of the policy that is committed with them.
HostsCovered ==
    /\ \A id \in DOMAIN prev : prev[id].host \in prevPolicies
    /\ \A id \in DOMAIN desired : desired[id].host \in policies

\* The user's policies are policies, and none of them is devlocal's.
LEMMA ForeignList ==
    ASSUME NEW list \in Seq(Foreign)
    PROVE  list \in Seq(Policy) /\ \A i \in DOMAIN list : ~list[i].own
<1>1. \A i \in 1 .. Len(list) : list[i] \in Foreign
  BY ElementOfSeq
<1>2. Foreign \subseteq Policy
  BY DEF Foreign, Policy
<1>3. list \in [1 .. Len(list) -> Foreign] /\ DOMAIN list = 1 .. Len(list) /\ Len(list) \in Nat
  BY LenProperties
<1>4. list \in [1 .. Len(list) -> Policy]
  BY <1>2, <1>3
<1>5. list \in Seq(Policy)
  BY <1>3, <1>4
<1>6. \A p \in Foreign : ~p.own
  BY DEF Foreign
<1> QED
  BY <1>1, <1>3, <1>5, <1>6

\* The policies the program finds are the user's.
LEMMA UserPoliciesType == UserPolicies \in Seq(Foreign)
<1>1. UserPolicies \in Seq(Policy) /\ \A i \in DOMAIN UserPolicies : ~UserPolicies[i].own
  BY PoliciesAssumption
<1>2. /\ UserPolicies \in [1 .. Len(UserPolicies) -> Policy]
      /\ DOMAIN UserPolicies = 1 .. Len(UserPolicies) /\ Len(UserPolicies) \in Nat
  BY <1>1, LenProperties
<1>3. \A p \in Policy : ~p.own => p \in Foreign
  BY DEF Policy, Foreign
<1>4. UserPolicies \in [1 .. Len(UserPolicies) -> Foreign]
  BY <1>1, <1>2, <1>3
<1> QED
  BY <1>2, <1>4

\* The policy list of a config: devlocal's own, if it has hosts, and the user's behind it.
LEMMA ListForIs ==
    ASSUME NEW hosts \in SUBSET Hosts, NEW list \in Seq(Foreign)
    PROVE  /\ ListFor(hosts, list) \in Seq(Policy)
           /\ hosts = {} => ListFor(hosts, list) = list
           /\ hosts # {} => ListFor(hosts, list) = <<OwnPolicy(hosts)>> \o list
           /\ \A i \in DOMAIN ListFor(hosts, list) :
                  ListFor(hosts, list)[i].own <=> hosts # {} /\ i = 1
           /\ hosts # {} => 1 \in DOMAIN ListFor(hosts, list)
<1>0. list \in Seq(Policy) /\ \A i \in DOMAIN list : ~list[i].own
  BY ForeignList
<1>1. OwnPolicy(hosts) \in Policy /\ OwnPolicy(hosts).own
  BY DEF OwnPolicy, Policy
<1>2. CASE hosts = {}
  <2>1. ListFor(hosts, list) = list
    BY <1>2, <1>0, ConcatEmptySeq DEF ListFor
  <2> QED
    BY <1>2, <2>1, <1>0
<1>3. CASE hosts # {}
  <2> DEFINE own == <<OwnPolicy(hosts)>>
  <2>1. ListFor(hosts, list) = own \o list
    BY <1>3 DEF ListFor
  <2>2. own \in Seq(Policy) /\ Len(own) = 1 /\ own[1] = OwnPolicy(hosts)
    BY <1>1
  <2>3. Len(list) \in Nat /\ DOMAIN list = 1 .. Len(list)
    BY <1>0, LenProperties
  <2> HIDE DEF own
  <2>4. /\ own \o list \in Seq(Policy)
        /\ Len(own \o list) = 1 + Len(list)
        /\ \A i \in 1 .. 1 + Len(list) :
              (own \o list)[i] = IF i <= 1 THEN own[i] ELSE list[i - 1]
    <3>1. own \in Seq(Policy) /\ list \in Seq(Policy)
      BY <1>0, <2>2
    <3>2. /\ own \o list \in Seq(Policy)
          /\ Len(own \o list) = Len(own) + Len(list)
          /\ \A i \in 1 .. Len(own) + Len(list) :
                (own \o list)[i] = IF i <= Len(own) THEN own[i] ELSE list[i - Len(own)]
      BY <3>1, ConcatProperties
    <3>3. Len(own) = 1
      BY <2>2
    <3> QED
      BY <3>2, <3>3
  <2>5. DOMAIN (own \o list) = 1 .. 1 + Len(list)
    BY <2>4, LenProperties
  <2>6. \A i \in 1 .. 1 + Len(list) :
           (own \o list)[i].own <=> i = 1
    <3> SUFFICES ASSUME NEW i \in 1 .. 1 + Len(list)
                 PROVE  (own \o list)[i].own <=> i = 1
      OBVIOUS
    <3>1. CASE i = 1
      BY <1>1, <2>2, <2>4, <3>1
    <3>2. CASE i # 1
      <4>1. i - 1 \in DOMAIN list /\ ~(i <= 1)
        BY <2>3, <3>2
      <4> QED
        BY <2>4, <3>2, <4>1, <1>0
    <3> QED BY <3>1, <3>2
  <2>7. \A i \in 1 .. 1 + Len(list) :
           ListFor(hosts, list)[i].own <=> i = 1
    BY <2>1, <2>6 DEF own
  <2>8. DOMAIN ListFor(hosts, list) = 1 .. 1 + Len(list)
        /\ ListFor(hosts, list) \in Seq(Policy)
    BY <2>1, <2>4, <2>5 DEF own
  <2>9. ListFor(hosts, list) = <<OwnPolicy(hosts)>> \o list /\ 1 \in 1 .. 1 + Len(list)
    BY <2>1, <2>3 DEF own
  <2> QED
    BY <1>3, <2>7, <2>8, <2>9
<1> QED
  BY <1>2, <1>3

\* What prependTLSPolicy keeps is what the user has.
LEMMA WithoutOwnIs ==
    ASSUME NEW hosts \in SUBSET Hosts, NEW list \in Seq(Foreign), tls = ListFor(hosts, list)
    PROVE  WithoutOwn = list
<1> DEFINE part(l) ==
             [i \in DOMAIN l |-> IF l[i].own THEN << >> ELSE <<l[i]>>]
<1>0. list \in Seq(Policy) /\ \A i \in DOMAIN list : ~list[i].own
  BY ForeignList
<1>1. WithoutOwn = FlattenSeq(part(tls))
  BY DEF WithoutOwn
<1>2. part(list) = [i \in DOMAIN list |-> <<list[i]>>]
  BY <1>0
<1>3. FlattenSeq(part(list)) = list
  BY <1>2, <1>0, FlattenSingletons
<1>4. CASE hosts = {}
  BY <1>1, <1>3, <1>4, ListForIs
<1>5. CASE hosts # {}
  <2>1. tls = <<OwnPolicy(hosts)>> \o list
    BY <1>5, ListForIs
  <2>2. Len(list) \in Nat /\ DOMAIN list = 1 .. Len(list)
    BY <1>0, LenProperties
  <2>3. DOMAIN tls = 1 .. 1 + Len(list)
    BY <2>1, <1>0
  <2>4. part(list) \in Seq(Seq(Policy)) /\ << << >> >> \in Seq(Seq(Policy))
        /\ Len(part(list)) = Len(list)
    BY <1>2, <2>2, <1>0
  <2>5. part(tls) = << << >> >> \o part(list)
    <3>1. \A i \in 1 .. 1 + Len(list) :
             part(tls)[i] = (<< << >> >> \o part(list))[i]
      <4> SUFFICES ASSUME NEW i \in 1 .. 1 + Len(list)
                   PROVE  part(tls)[i] = (<< << >> >> \o part(list))[i]
        OBVIOUS
      <4>1. part(tls)[i] = IF i = 1 THEN << >> ELSE <<tls[i]>>
        BY <1>5, <2>3, ListForIs
      <4>2. CASE i = 1
        BY <4>1, <4>2, <2>4
      <4>3. CASE i # 1
        <5>1. i - 1 \in 1 .. Len(list)
          BY <2>2, <4>3
        <5>2. tls[i] = list[i - 1]
          BY <2>1, <2>2, <4>3, <5>1, <1>0
        <5>3. (<< << >> >> \o part(list))[i] = part(list)[i - 1]
          BY <2>2, <2>4, <4>3, <5>1
        <5> QED
          BY <1>2, <2>2, <4>1, <4>3, <5>1, <5>2, <5>3
      <4> QED
        BY <4>2, <4>3
    <3>2. part(tls) \in Seq(Seq(Policy)) /\ Len(part(tls)) = 1 + Len(list)
      <4>1. tls \in Seq(Policy) /\ \A i \in DOMAIN tls : tls[i] \in Policy
        <5>1. tls \in Seq(Policy)
          BY ListForIs
        <5>2. \A i \in 1 .. Len(tls) : tls[i] \in Policy
          BY <5>1, ElementOfSeq
        <5> QED BY <5>1, <5>2, LenProperties
      <4>2. \A i \in DOMAIN tls : part(tls)[i] \in Seq(Policy)
        BY <4>1
      <4>3. part(tls) = [i \in DOMAIN tls |-> part(tls)[i]]
        OBVIOUS
      <4>4. Len(tls) = 1 + Len(list)
        BY <2>2, <2>3, <4>1
      <4> HIDE DEF part
      <4> QED
        BY <4>1, <4>2, <4>3, <4>4, MappedSeq
    <3>3. (<< << >> >> \o part(list)) \in Seq(Seq(Policy))
          /\ Len(<< << >> >> \o part(list)) = 1 + Len(list)
      BY <2>4, ConcatProperties
    <3> HIDE DEF part
    <3> QED
      BY <3>1, <3>2, <3>3, SeqEqual
  <2>6. FlattenSeq(part(tls)) = FlattenSeq(<< << >> >>) \o FlattenSeq(part(list))
    <3> HIDE DEF part
    <3> QED BY <2>4, <2>5, FlattenConcat
  <2>7. FlattenSeq(<< << >> >>) = << >>
    BY FlattenOne, EmptySeq
  <2> QED
    BY <1>1, <1>3, <2>6, <2>7, <1>0, ConcatEmptySeq
<1> QED
  BY <1>4, <1>5

\* A patch changes what devlocal's own policy covers and nothing else.
LEMMA PatchedIs ==
    ASSUME NEW hosts \in SUBSET Hosts, NEW list \in Seq(Foreign), tls = ListFor(hosts, list),
           hosts # {}, policies \in SUBSET Hosts, policies # {}
    PROVE  PatchedOwn = ListFor(policies, list)
<1> DEFINE patched == [i \in DOMAIN tls |-> IF tls[i].own THEN OwnPolicy(policies) ELSE tls[i]]
           n == Len(list)
<1>0. list \in Seq(Policy) /\ \A i \in DOMAIN list : ~list[i].own
  BY ForeignList
<1>1. n \in Nat /\ DOMAIN list = 1 .. n
  BY <1>0, LenProperties
<1>2. tls = <<OwnPolicy(hosts)>> \o list
      /\ ListFor(policies, list) = <<OwnPolicy(policies)>> \o list
  BY ListForIs
<1>3. DOMAIN tls = 1 .. 1 + n /\ DOMAIN ListFor(policies, list) = 1 .. 1 + n
  BY <1>2, <1>0
<1>4. \A i \in 1 .. 1 + n : patched[i] = ListFor(policies, list)[i]
  <2> SUFFICES ASSUME NEW i \in 1 .. 1 + n PROVE patched[i] = ListFor(policies, list)[i]
    OBVIOUS
  <2>1. patched[i] = IF i = 1 THEN OwnPolicy(policies) ELSE tls[i]
    BY <1>3, ListForIs
  <2>2. CASE i = 1
    BY <1>2, <2>1, <2>2, <1>0
  <2>3. CASE i # 1
    <3>1. i - 1 \in 1 .. n BY <1>1, <2>3
    <3>2. tls[i] = list[i - 1] /\ ListFor(policies, list)[i] = list[i - 1]
      BY <1>1, <1>2, <2>3, <3>1, <1>0
    <3> QED BY <2>1, <2>3, <3>2
  <2> QED BY <2>2, <2>3
<1>5. patched = [i \in 1 .. 1 + n |-> patched[i]]
  BY <1>3
<1>6. ListFor(policies, list) = [i \in 1 .. 1 + n |-> ListFor(policies, list)[i]]
  <2>1. ListFor(policies, list) \in Seq(Policy)
    BY ListForIs
  <2>2. ListFor(policies, list) \in [1 .. Len(ListFor(policies, list)) -> Policy]
    BY <2>1, LenProperties
  <2>3. ListFor(policies, list) = [i \in DOMAIN ListFor(policies, list) |-> ListFor(policies, list)[i]]
    BY <2>2
  <2> QED BY <1>3, <2>3
<1> HIDE DEF patched, n
<1>7. [i \in 1 .. 1 + n |-> patched[i]] = [i \in 1 .. 1 + n |-> ListFor(policies, list)[i]]
  BY <1>4, Zenon
<1>8. PatchedOwn = patched
  BY DEF PatchedOwn, patched
<1> QED
  BY <1>5, <1>6, <1>7, <1>8, Zenon

\* A policy the user adds comes behind the others.
LEMMA AppendIs ==
    ASSUME NEW hosts \in SUBSET Hosts, NEW list \in Seq(Foreign), NEW p \in Foreign
    PROVE  Append(ListFor(hosts, list), p) = ListFor(hosts, Append(list, p))
<1> DEFINE own == IF hosts = {} THEN << >> ELSE <<OwnPolicy(hosts)>>
<1>1. own \in Seq(Policy) /\ list \in Seq(Policy) /\ p \in Policy
  <2>1. OwnPolicy(hosts) \in Policy /\ p \in Policy
    BY DEF OwnPolicy, Policy, Foreign
  <2>2. << >> \in Seq(Policy) /\ <<OwnPolicy(hosts)>> \in Seq(Policy)
    BY <2>1
  <2>3. list \in Seq(Policy)
    BY ForeignList
  <2> QED
    BY <2>1, <2>2, <2>3
<1> HIDE DEF own
<1>2. Append(own \o list, p) = own \o Append(list, p)
  BY <1>1
<1> QED
  BY <1>2 DEF ListFor, own

\* A step that changes no policy and starts no write.
LEMMA PolicyKept ==
    ASSUME PolicyForm, UNCHANGED <<tls, unsure, userTls, overtaken, prevPolicies>>,
           policies' \in SUBSET Hosts,
           \/ todo'.policy \in {"no", "change"} /\ todo'.merged = << >>
           \/ todo'.policy = todo.policy /\ todo'.merged = todo.merged /\ policies' = policies
    PROVE  PolicyForm'
BY DEF PolicyForm, ListFor, OwnPolicy

\* The request for the policy makes a list for the hosts wanted, answered or not.
LEMMA PolicyChanged ==
    ASSUME PolicyForm, NEW list \in Seq(Foreign), ~overtaken => list = userTls,
           ChangePolicy(ListFor(policies, list)), UNCHANGED <<userTls, overtaken>>
    PROVE  PolicyForm'
<1> DEFINE changed == ListFor(policies, list)
<1>1. \/ tls' = changed /\ unsure' = FALSE /\ Commit
      \/ \E n \in 0 .. 1 : /\ tls' = IF n = 0 THEN tls ELSE changed
                           /\ unsure' = (unsure \/ n = 1)
                           /\ Abort({})
  BY Zenon DEF ChangePolicy
<1> HIDE DEF changed
<1>2. policies' = policies /\ todo' = NoTodo /\ policies \in SUBSET Hosts
  BY <1>1 DEF Commit, Abort, PolicyForm
<1>3. NoTodo.policy = "no" /\ NoTodo.merged = << >>
  BY DEF NoTodo
<1>4. ASSUME tls' = changed, unsure' \in BOOLEAN, prevPolicies' \in SUBSET Hosts,
             ~unsure' => prevPolicies' = policies
      PROVE  PolicyForm'
  <2>1. tls' = ListFor(policies, list)
    BY <1>4 DEF changed
  <2>2. \E hosts \in SUBSET Hosts, l \in Seq(Foreign) :
           /\ tls' = ListFor(hosts, l)
           /\ ~overtaken => l = userTls
           /\ ~unsure' => hosts = prevPolicies'
    BY <1>2, <1>4, <2>1
  <2> QED
    BY <1>2, <1>3, <1>4, <2>1, <2>2 DEF PolicyForm, ListFor, OwnPolicy
<1>5. CASE tls' = changed /\ unsure' = FALSE /\ Commit
  BY <1>2, <1>4, <1>5 DEF Commit
<1>6. ASSUME NEW n \in 0 .. 1, tls' = IF n = 0 THEN tls ELSE changed,
             unsure' = (unsure \/ n = 1), Abort({})
      PROVE  PolicyForm'
  <2>1. prevPolicies' = prevPolicies /\ unsure \in BOOLEAN /\ prevPolicies \in SUBSET Hosts
    BY <1>6 DEF Abort, PolicyForm
  <2>2. CASE n = 0
    <3>1. ~(n = 1)
      BY <2>2
    <3>2. unsure' = unsure
      BY <1>6, <2>1, <3>1, Zenon
    <3>3. tls' = tls
      BY <1>6, <2>2
    <3> QED
      BY <1>2, <1>3, <2>1, <3>2, <3>3, PolicyKept
  <2>3. CASE n = 1
    <3>1. unsure' = TRUE
      BY <1>6, <2>1, <2>3, Zenon
    <3>2. tls' = changed
      BY <1>6, <2>3
    <3> QED
      BY <1>4, <2>1, <3>1, <3>2
  <2> QED
    BY <2>2, <2>3
<1> QED
  BY <1>1, <1>5, <1>6

\* admin.go:344-370: each request for the policy keeps the form of the list.
LEMMA PolicyCallForm ==
    ASSUME IInv, PolicyForm, PolicyCall
    PROVE  PolicyForm'
<1>1. PICK hosts \in SUBSET Hosts, list \in Seq(Foreign) :
         /\ tls = ListFor(hosts, list)
         /\ ~overtaken => list = userTls
         /\ ~unsure => hosts = prevPolicies
  BY DEF PolicyForm
<1>2. policies \in SUBSET Hosts /\ {} \in SUBSET Hosts
  BY DEF PolicyForm
<1>3. NoTodo.policy = "no" /\ NoTodo.merged = << >>
  BY DEF NoTodo
<1>4. ASSUME Abort({}), UNCHANGED <<tls, unsure, user>> PROVE PolicyForm'
  BY <1>2, <1>3, <1>4, PolicyKept DEF Abort, user
<1>5. CASE KeepPolicy
  <2>1. prevPolicies' = prevPolicies /\ policies' = policies /\ todo' = NoTodo
    BY <1>5 DEF KeepPolicy, PolicyDiffers, Commit
  <2> QED
    BY <1>2, <1>3, <1>5, <2>1, PolicyKept DEF KeepPolicy, caddy, user
<1>6. CASE DeletePolicy
  <2>1. WithoutOwn = list
    BY <1>1, WithoutOwnIs
  <2>2. ListFor(policies, list) = list
    BY <1>2, <1>6, ListForIs DEF DeletePolicy
  <2> QED
    BY <1>1, <1>6, <2>1, <2>2, PolicyChanged DEF DeletePolicy, user
<1>7. CASE PatchPolicy
  <2>1. CASE HasOwn /\ ChangePolicy(PatchedOwn)
    <3>1. hosts # {}
      BY <1>1, <2>1, ListForIs DEF HasOwn
    <3>2. PatchedOwn = ListFor(policies, list)
      BY <1>1, <1>2, <1>7, <3>1, PatchedIs DEF PatchPolicy
    <3> QED
      BY <1>1, <1>7, <2>1, <3>2, PolicyChanged DEF PatchPolicy, user
  <2>2. CASE Proceed([todo EXCEPT !.policy = "prepend"]) /\ UNCHANGED <<tls, unsure>>
    <3>1. /\ todo'.policy = "prepend" /\ todo'.merged = todo.merged
          /\ policies' = policies /\ prevPolicies' = prevPolicies
      BY <2>2 DEF Proceed, IInv, TodoType, Shaped
    <3>2. policies # {} /\ todo.policy # "write"
      BY <1>7 DEF PatchPolicy
    <3> QED
      BY <1>7, <2>2, <3>1, <3>2 DEF PolicyForm, ListFor, OwnPolicy, PatchPolicy, user
  <2> QED
    BY <1>4, <1>7, <2>1, <2>2 DEF PatchPolicy
<1>8. CASE ReadPolicies
  <2>1. CASE Proceed([todo EXCEPT !.policy = "write", !.merged = Prepended])
    <3>1. policies # {}
      BY <1>8 DEF ReadPolicies, PolicyForm
    <3>2. Prepended = ListFor(policies, list)
      BY <1>1, <1>2, <3>1, WithoutOwnIs, ListForIs DEF Prepended
    <3>3. /\ todo'.policy = "write" /\ todo'.merged = ListFor(policies, list)
          /\ policies' = policies /\ prevPolicies' = prevPolicies
      BY <2>1, <3>2 DEF Proceed, IInv, TodoType, Shaped
    <3>4. UNCHANGED <<tls, unsure, userTls, overtaken>>
      BY <1>8 DEF ReadPolicies, caddy, user
    <3>5. \E l \in Seq(Foreign) : todo'.merged = ListFor(policies, l)
                                  /\ (~overtaken => l = userTls)
      BY <1>1, <3>3
    <3> QED
      BY <3>1, <3>3, <3>4, <3>5 DEF PolicyForm, ListFor, OwnPolicy
  <2> QED
    BY <1>4, <1>8, <2>1 DEF ReadPolicies, caddy
<1>9. CASE WritePolicies
  <2>1. PICK l \in Seq(Foreign) : todo.merged = ListFor(policies, l)
                                  /\ (~overtaken => l = userTls)
    BY <1>9 DEF PolicyForm, WritePolicies
  <2> QED
    BY <1>9, <2>1, PolicyChanged DEF WritePolicies, user
<1> QED
  BY <1>5, <1>6, <1>7, <1>8, <1>9 DEF PolicyCall

\* Nothing else changes the policies but the user, who adds to them.
LEMMA PolicyFormStep ==
    ASSUME IInv, PolicyForm, [Next]_vars
    PROVE  PolicyForm'
<1>1. policies \in SUBSET Hosts
  BY DEF PolicyForm
<1>2. NoTodo.policy = "no" /\ NoTodo.merged = << >>
  BY DEF NoTodo
<1>3. ASSUME UNCHANGED <<tls, unsure, user>>, NEW ids, Abort(ids) PROVE PolicyForm'
  BY <1>1, <1>2, <1>3, PolicyKept DEF Abort, user
<1>4. ASSUME UNCHANGED <<tls, unsure, user>>, NEW rest, Proceed(rest),
             rest.policy = todo.policy, rest.merged = todo.merged
      PROVE  PolicyForm'
  BY <1>1, <1>4, PolicyKept DEF Proceed, user
<1>5. ASSUME NEW targets \in Targets, Reconcile(targets) PROVE PolicyForm'
  <2>1. DOMAIN targets \in SUBSET Hosts
    BY DEF Targets
  <2>2. todo'.policy = "change" /\ todo'.merged = << >>
    BY <1>5 DEF Reconcile, Plan, Patch, NoTodo
  <2> QED
    BY <1>5, <2>1, <2>2, PolicyKept DEF Reconcile, caddy, user
<1>6. CASE EnsureResource
  <2>1. \A r : /\ [todo EXCEPT !.ensure = @ \ {r}].policy = todo.policy
              /\ [todo EXCEPT !.ensure = @ \ {r}].merged = todo.merged
    BY DEF IInv, TodoType, Shaped
  <2>2. UNCHANGED <<tls, unsure, user>>
        /\ (Abort({}) \/ \E r : Proceed([todo EXCEPT !.ensure = @ \ {r}]))
    BY <1>6 DEF EnsureResource
  <2> QED
    BY <1>3, <1>4, <2>1, <2>2
<1>7. CASE PostIndex
  <2>1. AfterIndex.policy = todo.policy /\ AfterIndex.merged = todo.merged
    BY DEF IInv, TodoType, Shaped, AfterIndex
  <2>2. UNCHANGED <<tls, unsure, user>> /\ (Abort({}) \/ Proceed(AfterIndex))
    BY <1>7 DEF PostIndex
  <2> QED
    BY <1>3, <1>4, <2>1, <2>2
<1>8. ASSUME NEW id \in RouteIds,
             DeleteRoute(id) \/ PatchRoute(id) \/ ReaddRoute(id) \/ AddRoute(id)
      PROVE  PolicyForm'
  <2>1. \/ \E ids : Abort(ids)
        \/ Proceed([todo EXCEPT !.delete = @ \ {id}])
        \/ Proceed([todo EXCEPT !.patch = @ \ {id},
                                !.readd = IF live[id] = << >> THEN {id} ELSE {}])
        \/ Proceed([todo EXCEPT !.readd = {}])
        \/ Proceed([todo EXCEPT !.post = @ \ {id}])
    BY <1>8 DEF DeleteRoute, PatchRoute, ReaddRoute, AddRoute, PostRoute
  <2>2. UNCHANGED <<tls, unsure, user>>
    BY <1>8 DEF DeleteRoute, PatchRoute, ReaddRoute, AddRoute, PostRoute
  <2>3. \A rest \in {[todo EXCEPT !.delete = @ \ {id}],
                     [todo EXCEPT !.patch = @ \ {id},
                                  !.readd = IF live[id] = << >> THEN {id} ELSE {}],
                     [todo EXCEPT !.readd = {}], [todo EXCEPT !.post = @ \ {id}]} :
           rest.policy = todo.policy /\ rest.merged = todo.merged
    BY DEF IInv, TodoType, Shaped
  <2> QED
    BY <1>3, <1>4, <2>1, <2>2, <2>3
<1>9. CASE PolicyCall
  BY <1>9, PolicyCallForm
<1>10. ASSUME NEW policy \in UserAdds, UserAddsPolicy(policy) PROVE PolicyForm'
  <2>1. policy \in Foreign
    BY PoliciesAssumption DEF Foreign
  <2>2. PICK hosts \in SUBSET Hosts, list \in Seq(Foreign) :
           tls = ListFor(hosts, list) /\ (~unsure => hosts = prevPolicies)
    BY DEF PolicyForm
  <2>3. WithoutOwn = list
    BY <2>2, WithoutOwnIs
  <2>4. Append(list, policy) \in Seq(Foreign)
    BY <2>1, AppendProperties
  <2>5. tls' = ListFor(hosts, Append(list, policy)) /\ userTls' = Append(list, policy)
    BY <1>10, <2>1, <2>2, <2>3, AppendIs DEF UserAddsPolicy
  <2>6. /\ overtaken' = (todo.policy = "write")
        /\ UNCHANGED <<todo, prevPolicies, policies, unsure>>
    BY <1>10 DEF UserAddsPolicy, client
  <2>7. \E h \in SUBSET Hosts, l \in Seq(Foreign) :
           /\ tls' = ListFor(h, l)
           /\ l = userTls'
           /\ ~unsure => h = prevPolicies
    BY <2>2, <2>4, <2>5
  <2> QED
    BY <2>4, <2>5, <2>6, <2>7 DEF PolicyForm, ListFor, OwnPolicy
<1>11. CASE UNCHANGED vars
  BY <1>1, <1>11, PolicyKept DEF vars
<1> QED
  BY <1>5, <1>6, <1>7, <1>8, <1>9, <1>10, <1>11 DEF Next, PolicyCall

\* Caddy starts with the user's policies, which is the list of a config without routes.
LEMMA InitPolicyForm == Init => PolicyForm
<1> SUFFICES ASSUME Init PROVE PolicyForm
  OBVIOUS
<1>1. /\ tls = UserPolicies /\ userTls = UserPolicies /\ prevPolicies = {}
      /\ policies \in SUBSET Hosts /\ ~unsure /\ ~overtaken
      /\ unsure \in BOOLEAN /\ overtaken \in BOOLEAN
  BY DEF Init, Targets
<1>2. ListFor({}, UserPolicies) = UserPolicies /\ {} \in SUBSET Hosts
      /\ UserPolicies \in Seq(Foreign)
  BY ListForIs, UserPoliciesType
<1>3. todo.policy = "change" /\ todo.merged = << >>
  BY DEF Init, Patch, NoTodo
<1> QED
  BY <1>1, <1>2, <1>3 DEF PolicyForm

\* admin.go:259-307: in every state the policy list is the one for some set of hosts, and
\* for those of the committed config unless a change was made without an answer.
THEOREM PolicyInductive == Spec => []PolicyForm
BY InitPolicyForm, PolicyFormStep, Inductive, PTL DEF Spec

\* admin.go:259-307: whatever was lost, every policy of the user's stays, in its place
\* behind at most one of devlocal's own, as long as no edit of the user's was overtaken.
THEOREM PoliciesIntactTheorem == Spec => []PoliciesIntact
<1>1. PolicyForm => PoliciesIntact
  <2> SUFFICES ASSUME NEW hosts \in SUBSET Hosts, NEW list \in Seq(Foreign),
                      tls = ListFor(hosts, list), ~overtaken => list = userTls
               PROVE  PoliciesIntact
    BY DEF PolicyForm
  <2>1. WithoutOwn = list
    BY WithoutOwnIs
  <2>2. \A i \in DOMAIN tls : tls[i].own => i = 1
    BY ListForIs
  <2> QED
    BY <2>1, <2>2 DEF PoliciesIntact
<1> QED
  BY <1>1, PolicyInductive, PTL

\* The hosts of a config's routes are the hosts of its policy, before and after a commit.
LEMMA CoveredStep ==
    ASSUME IInv, HostsCovered, [Next]_vars
    PROVE  HostsCovered'
<1>1. ASSUME UNCHANGED <<prev, prevPolicies, desired, policies>> PROVE HostsCovered'
  BY <1>1 DEF HostsCovered
<1>2. ASSUME Commit PROVE HostsCovered'
  BY <1>2 DEF HostsCovered, Commit
<1>3. ASSUME NEW targets \in Targets, Reconcile(targets) PROVE HostsCovered'
  BY <1>3, RoutesAre DEF HostsCovered, Reconcile
<1>4. CASE EnsureResource \/ PostIndex
  BY <1>1, <1>4 DEF EnsureResource, PostIndex, Abort, Proceed
<1>5. ASSUME NEW id \in RouteIds,
             DeleteRoute(id) \/ PatchRoute(id) \/ ReaddRoute(id) \/ AddRoute(id)
      PROVE  HostsCovered'
  BY <1>1, <1>5 DEF DeleteRoute, PatchRoute, ReaddRoute, AddRoute, PostRoute, Abort, Proceed
<1>6. CASE PolicyCall
  BY <1>1, <1>2, <1>6, PolicyCalls DEF Abort, Proceed
<1>7. ASSUME NEW policy, UserAddsPolicy(policy) PROVE HostsCovered'
  BY <1>1, <1>7 DEF UserAddsPolicy, client
<1>8. CASE UNCHANGED vars
  BY <1>1, <1>8 DEF vars
<1> QED
  BY <1>3, <1>4, <1>5, <1>6, <1>7, <1>8 DEF Next, PolicyCall

\* admin.go:344-370: between reconciles the one policy covers the host of every route and
\* just the hosts of the config, for any hosts that share ids and whatever was aborted,
\* except after a change of it that was made without an answer.
THEOREM PolicyFollowsHostsTheorem == Spec => []PolicyFollowsHosts
<1>1. PolicyForm /\ HostsCovered => PolicyFollowsHosts
  <2> SUFFICES ASSUME PolicyForm, HostsCovered, ~unsure
               PROVE  /\ \A id \in DOMAIN prev : \E i \in DOMAIN tls :
                            tls[i].own /\ prev[id].host \in tls[i].subjects
                      /\ \A i \in DOMAIN tls : tls[i].own =>
                            tls[i].subjects = prevPolicies /\ prevPolicies # {}
    BY DEF PolicyFollowsHosts
  <2>1. PICK list \in Seq(Foreign) : tls = ListFor(prevPolicies, list)
    BY DEF PolicyForm
  <2>2. prevPolicies \in SUBSET Hosts
    BY DEF PolicyForm
  <2>3. \A i \in DOMAIN tls : tls[i].own => i = 1 /\ prevPolicies # {}
    BY <2>1, <2>2, ListForIs
  <2>4. prevPolicies # {} =>
            1 \in DOMAIN tls /\ tls[1].own /\ tls[1].subjects = prevPolicies
    <3> SUFFICES ASSUME prevPolicies # {}
                 PROVE  1 \in DOMAIN tls /\ tls[1].own /\ tls[1].subjects = prevPolicies
      OBVIOUS
    <3>1. tls = <<OwnPolicy(prevPolicies)>> \o list /\ 1 \in DOMAIN tls /\ tls[1].own
      BY <2>1, <2>2, ListForIs
    <3>2. list \in Seq(Policy) /\ OwnPolicy(prevPolicies) \in Policy
      BY <2>2, ForeignList DEF OwnPolicy, Policy
    <3>3. tls[1] = OwnPolicy(prevPolicies)
      <4> HIDE DEF OwnPolicy
      <4> QED BY <3>1, <3>2
    <3> QED
      BY <3>1, <3>3 DEF OwnPolicy
  <2>5. \A id \in DOMAIN prev : prev[id].host \in prevPolicies
    BY DEF HostsCovered
  <2> QED
    BY <2>3, <2>4, <2>5
<1>2. Init => HostsCovered
  BY RoutesAre DEF Init, HostsCovered, NoRoutes
<1> QED
  BY <1>1, <1>2, CoveredStep, Inductive, PolicyInductive, PTL DEF Spec

---------------------------------------------------------------------------
(* Types *)

\* The index route is posted once, by the first load, before anything else is.
IndexOnce == index \in 0 .. 1 /\ (todo.index => index = 0)

Typed ==
    /\ IndexOnce
    /\ life \in {"boot", "up", "dead"}
    /\ live \in [RouteIds -> Seq(Bodies)]
    /\ resources \subseteq Resources
    /\ faults \in 0 .. MaxFaults
    /\ gone \subseteq RouteIds

\* Nothing is posted and nothing has failed at the start.
LEMMA InitTyped == Init => Typed
<1> SUFFICES ASSUME Init PROVE Typed
  OBVIOUS
<1>1. << >> \in Seq(Bodies)
  BY EmptySeq
<1>2. live \in [RouteIds -> Seq(Bodies)]
  BY <1>1 DEF Init
<1> QED
  BY <1>2, BoundAssumption DEF Init, Typed, IndexOnce

\* What every way on and every way out leaves, whatever the call was.
LEMMA OutcomeTyped ==
    ASSUME IInv, Typed
    PROVE  /\ \A n : Answered(n) => faults' \in 0 .. MaxFaults
           /\ \A n : Unanswered(n) => faults' \in 0 .. MaxFaults
           /\ Fault => faults' \in 0 .. MaxFaults
           /\ \A ids \in SUBSET RouteIds : Abort(ids) =>
                 life' \in {"boot", "up", "dead"} /\ ~todo'.index /\ gone' \subseteq RouteIds
           /\ \A rest : Proceed(rest) => life' = life /\ todo' = rest /\ gone' = gone
           /\ Commit => life' = "up" /\ ~todo'.index /\ gone' \subseteq RouteIds
<1>1. /\ \A n : Answered(n) => faults' \in 0 .. MaxFaults
      /\ \A n : Unanswered(n) => faults' \in 0 .. MaxFaults
      /\ Fault => faults' \in 0 .. MaxFaults
  BY BoundAssumption DEF Typed, Answered, Unanswered, Fault
<1>2. ASSUME NEW ids \in SUBSET RouteIds, Abort(ids)
      PROVE  life' \in {"boot", "up", "dead"} /\ ~todo'.index /\ gone' \subseteq RouteIds
  <2>1. Deleted(ids) \subseteq RouteIds
    BY DEF Deleted, Removed, IInv, TodoType, Configs
  <2> QED
    BY <1>2, <2>1 DEF Typed, Abort, NoTodo
<1>3. \A rest : Proceed(rest) => life' = life /\ todo' = rest /\ gone' = gone
  BY DEF Proceed
<1>4. Commit => life' = "up" /\ ~todo'.index /\ gone' \subseteq RouteIds
  BY DEF Typed, Commit, NoTodo
<1> QED
  BY <1>1, <1>2, <1>3, <1>4

\* A request for a route leaves a list of bodies.
LEMMA RouteTyped ==
    ASSUME IInv, Typed, NEW id \in RouteIds, NEW copies \in Seq(Bodies),
           live' = [live EXCEPT ![id] = copies]
    PROVE  live' \in [RouteIds -> Seq(Bodies)]
BY DEF Typed

\* A list of copies that loses some at its end is a list of copies.
LEMMA DroppedType ==
    ASSUME NEW S, NEW copies \in Seq(S), NEW n \in Nat
    PROVE  Dropped(copies, n) \in Seq(S)
<1> DEFINE m == IF n < Len(copies) THEN Len(copies) - n ELSE 0
<1>1. Len(copies) \in Nat /\ m \in Nat /\ m <= Len(copies)
  BY LenProperties
<1>2. \A i \in 1 .. m : copies[i] \in S
  BY <1>1, ElementOfSeq
<1>3. SubSeq(copies, 1, m) \in Seq(S)
  BY <1>1, <1>2, SubSeqProperties
<1> QED
  BY <1>3 DEF Dropped

\* A body that is sent is one of the config's.
LEMMA BodyType ==
    ASSUME IInv, NEW id, id \in todo.patch \cup todo.readd \cup todo.post
    PROVE  desired[id] \in Bodies
<1>1. id \in DOMAIN desired
  BY DEF IInv, TodoWithinPatch, Updated, Added
<1> QED
  BY <1>1 DEF IInv, TodoType, Configs

\* A patch leaves a list of bodies.
LEMMA PatchedType ==
    ASSUME IInv, Typed, NEW id \in RouteIds, id \in todo.patch
    PROVE  (IF live[id] = << >> THEN << >>
            ELSE [live[id] EXCEPT ![Len(live[id])] = desired[id]]) \in Seq(Bodies)
<1>1. desired[id] \in Bodies /\ live[id] \in Seq(Bodies)
  BY BodyType DEF Typed
<1>2. live[id] # << >> => Len(live[id]) \in 1 .. Len(live[id])
  BY <1>1
<1> QED
  BY <1>1, <1>2, ExceptSeq, EmptySeq

\* A POST adds a copy of the wanted body or none.
LEMMA PostTyped ==
    ASSUME IInv, Typed, NEW id \in RouteIds, NEW rest, PostRoute(id, rest),
           desired[id] \in Bodies, ~rest.index
    PROVE  Typed'
<1>1. live[id] \in Seq(Bodies)
  BY DEF Typed
<1>2. Append(live[id], desired[id]) \in Seq(Bodies)
  BY <1>1, AppendProperties
<1>3. live' = live \/ live' = [live EXCEPT ![id] = Append(live[id], desired[id])]
  BY DEF PostRoute
<1>4. live' \in [RouteIds -> Seq(Bodies)]
  BY <1>2, <1>3, RouteTyped DEF Typed
<1>5. (UNCHANGED faults \/ Fault)
      /\ (Proceed(rest) \/ \E ids \in SUBSET RouteIds : Abort(ids))
      /\ index' = index /\ resources' = resources
  BY DEF PostRoute
<1> QED
  BY <1>4, <1>5, OutcomeTyped DEF Typed, IndexOnce

\* Each call keeps the type, given what the plan's invariant says of the requests left.
LEMMA NextTyped ==
    ASSUME IInv, Typed, [Next]_vars
    PROVE  Typed'
<1>0. Shaped(todo)
  BY DEF IInv, TodoType
<1>1. ASSUME NEW targets \in Targets, Reconcile(targets) PROVE Typed'
  <2>1. ~todo'.index
    BY <1>1 DEF Reconcile, Plan, Patch, NoTodo
  <2> QED
    BY <1>1, <2>1 DEF Reconcile, caddy, Typed, IndexOnce
<1>2. CASE EnsureResource
  <2>1. resources' \subseteq Resources
    BY <1>2 DEF EnsureResource, Typed, FirstMissing, Created, Resources
  <2>2. faults' \in 0 .. MaxFaults /\ live' = live /\ index' = index
    BY <1>2, OutcomeTyped DEF EnsureResource
  <2>3. \/ Abort({})
        \/ \E r : Proceed([todo EXCEPT !.ensure = @ \ {r}])
    BY <1>2 DEF EnsureResource
  <2>4. \A r : [todo EXCEPT !.ensure = @ \ {r}].index = todo.index
    BY <1>0 DEF Shaped
  <2>5. life' \in {"boot", "up", "dead"} /\ (todo'.index => todo.index)
        /\ gone' \subseteq RouteIds
    BY <2>3, <2>4, OutcomeTyped, {} \in SUBSET RouteIds DEF Typed
  <2> QED
    BY <2>1, <2>2, <2>5 DEF Typed, IndexOnce
<1>3. CASE PostIndex
  <2>1. index = 0 /\ index' \in {index, index + 1}
    BY <1>3 DEF PostIndex, Typed, IndexOnce
  <2>2. faults' \in 0 .. MaxFaults /\ live' = live /\ resources' = resources
    BY <1>3, OutcomeTyped DEF PostIndex, Typed
  <2>3. Abort({}) \/ Proceed(AfterIndex)
    BY <1>3 DEF PostIndex
  <2>4. ~AfterIndex.index
    BY <1>0 DEF Shaped, AfterIndex
  <2>5. life' \in {"boot", "up", "dead"} /\ ~todo'.index /\ gone' \subseteq RouteIds
    BY <2>3, <2>4, OutcomeTyped, {} \in SUBSET RouteIds DEF Typed
  <2> QED
    BY <2>1, <2>2, <2>5 DEF Typed, IndexOnce
<1>4. ASSUME NEW id \in RouteIds, DeleteRoute(id) PROVE Typed'
  <2>1. PICK n \in 0 .. MaxTries :
           /\ live' = [live EXCEPT ![id] = Dropped(@, n)]
           /\ \/ Answered(n) /\ Proceed([todo EXCEPT !.delete = @ \ {id}])
              \/ Unanswered(n) /\ Abort(IF n = 0 THEN {} ELSE {id})
    BY <1>4 DEF DeleteRoute
  <2>2. n \in Nat /\ live[id] \in Seq(Bodies)
    BY BoundAssumption DEF Typed
  <2>3. Dropped(live[id], n) \in Seq(Bodies)
    BY <2>2, DroppedType
  <2>4. live' \in [RouteIds -> Seq(Bodies)]
    BY <2>1, <2>3, RouteTyped
  <2>5. [todo EXCEPT !.delete = @ \ {id}].index = todo.index /\ ~todo.index
    BY <1>0, <1>4 DEF Shaped, DeleteRoute, Ready
  <2>6. (IF n = 0 THEN {} ELSE {id}) \in SUBSET RouteIds
    OBVIOUS
  <2> QED
    BY <1>4, <2>1, <2>4, <2>5, <2>6, OutcomeTyped DEF Typed, IndexOnce, DeleteRoute
<1>5. ASSUME NEW id \in RouteIds, PatchRoute(id) PROVE Typed'
  <2> DEFINE new == IF live[id] = << >> THEN << >>
                    ELSE [live[id] EXCEPT ![Len(live[id])] = desired[id]]
             rest == [todo EXCEPT !.patch = @ \ {id},
                                  !.readd = IF live[id] = << >> THEN {id} ELSE {}]
  <2>1. new \in Seq(Bodies)
    BY <1>5, PatchedType DEF PatchRoute, IsFirst
  <2>2. live' = live \/ live' = [live EXCEPT ![id] = new]
    BY <1>5 DEF PatchRoute
  <2>3. (\E n : Answered(n) \/ Unanswered(n))
        /\ (Proceed(rest) \/ \E ids \in SUBSET RouteIds : Abort(ids))
        /\ index' = index /\ resources' = resources
    BY <1>5 DEF PatchRoute
  <2>4. ~rest.index
    BY <1>0, <1>5 DEF Shaped, PatchRoute, Ready
  <2> HIDE DEF new, rest
  <2>5. live' \in [RouteIds -> Seq(Bodies)]
    BY <2>1, <2>2, RouteTyped DEF Typed
  <2> QED
    BY <2>3, <2>4, <2>5, OutcomeTyped DEF Typed, IndexOnce
<1>6. ASSUME NEW id \in RouteIds, ReaddRoute(id) PROVE Typed'
  <2>1. desired[id] \in Bodies /\ ~[todo EXCEPT !.readd = {}].index
    BY <1>0, <1>6, BodyType DEF ReaddRoute, Ready, Shaped
  <2> QED
    BY <1>6, <2>1, PostTyped DEF ReaddRoute
<1>7. ASSUME NEW id \in RouteIds, AddRoute(id) PROVE Typed'
  <2>1. desired[id] \in Bodies /\ ~[todo EXCEPT !.post = @ \ {id}].index
    BY <1>0, <1>7, BodyType DEF AddRoute, IsFirst, Ready, Shaped
  <2> QED
    BY <1>7, <2>1, PostTyped DEF AddRoute
<1>8. CASE PolicyCall
  <2>1. faults' \in 0 .. MaxFaults
    BY <1>8, OutcomeTyped DEF PolicyCall, KeepPolicy, DeletePolicy, PatchPolicy, ReadPolicies,
                              WritePolicies, ChangePolicy, Typed
  <2>2. resources' = resources /\ index' = index /\ ~todo.index
    BY <1>8 DEF PolicyCall, KeepPolicy, DeletePolicy, PatchPolicy, ReadPolicies,
                WritePolicies, RoutesDone, Ready, caddy
  <2>3. /\ [todo EXCEPT !.policy = "prepend"].index = todo.index
        /\ [todo EXCEPT !.policy = "write", !.merged = Prepended].index = todo.index
    BY <1>0 DEF Shaped
  <2>4. \/ Commit \/ Abort({})
        \/ Proceed([todo EXCEPT !.policy = "prepend"])
        \/ Proceed([todo EXCEPT !.policy = "write", !.merged = Prepended])
    BY <1>8 DEF PolicyCall, KeepPolicy, DeletePolicy, PatchPolicy, ReadPolicies,
                WritePolicies, ChangePolicy
  <2>5. life' \in {"boot", "up", "dead"} /\ ~todo'.index /\ gone' \subseteq RouteIds
    BY <2>2, <2>3, <2>4, OutcomeTyped, {} \in SUBSET RouteIds DEF Typed
  <2>6. live' = live
    BY <1>8, PolicyCalls
  <2> QED
    BY <2>1, <2>2, <2>5, <2>6 DEF Typed, IndexOnce
<1>9. ASSUME NEW policy, UserAddsPolicy(policy) PROVE Typed'
  BY <1>9 DEF UserAddsPolicy, client, Typed, IndexOnce
<1>10. CASE UNCHANGED vars
  BY <1>10 DEF vars, Typed, IndexOnce
<1> QED
  BY <1>1, <1>2, <1>3, <1>4, <1>5, <1>6, <1>7, <1>8, <1>9, <1>10 DEF Next, PolicyCall

\* Nothing but requests of the right type is ever left over.
THEOREM TypedInductive == Spec => []Typed
BY InitTyped, NextTyped, Inductive, PTL DEF Spec

\* What the requests of a reconcile leave in Caddy and in devlocal is of its type: the
\* index route is there at most once and every body is one of a config.
THEOREM TypeCorrect == Spec => []TypeOK
<1>1. IInv /\ Typed /\ PolicyForm => TypeOK
  <2> SUFFICES ASSUME IInv, Typed, PolicyForm PROVE TypeOK
    OBVIOUS
  <2>1. tls \in Seq(Policy) /\ userTls \in Seq(Policy)
    <3>1. PICK hosts \in SUBSET Hosts, list \in Seq(Foreign) : tls = ListFor(hosts, list)
      BY DEF PolicyForm
    <3>2. ListFor(hosts, list) \in Seq(Policy)
      BY ListForIs
    <3>3. userTls \in Seq(Foreign)
      BY DEF PolicyForm
    <3> QED
      BY <3>1, <3>2, <3>3, ForeignList
  <2>2. todo.merged \in Seq(Policy)
    <3>1. CASE todo.policy = "write"
      <4>1. PICK list \in Seq(Foreign) : todo.merged = ListFor(policies, list)
        BY <3>1 DEF PolicyForm
      <4>2. policies \in SUBSET Hosts
        BY DEF PolicyForm
      <4>3. ListFor(policies, list) \in Seq(Policy)
        BY <4>2, ListForIs
      <4> QED
        BY <4>1, <4>3
    <3>2. CASE todo.policy # "write"
      <4>1. << >> \in Seq(Policy) BY EmptySeq
      <4> QED BY <3>2, <4>1 DEF PolicyForm
    <3> QED BY <3>1, <3>2
  <2>3. todo \in Todo
    BY <2>2 DEF IInv, TodoType, Shaped, Todo
  <2>4. \A c \in Configs : DOMAIN c \subseteq RouteIds /\ c \in [DOMAIN c -> Bodies]
    BY DEF Configs
  <2> QED
    BY <2>1, <2>3, <2>4 DEF TypeOK, IInv, TodoType, Typed, IndexOnce, PolicyForm
<1> QED
  BY <1>1, Inductive, TypedInductive, PolicyInductive, PTL

---------------------------------------------------------------------------
(* Downtime *)

\* A route that is in Caddy.
Has(id) == live[id] # << >>

\* Every route of the last config is in Caddy, as is every new one that was added, unless
\* a reconcile that failed deleted it: those it has sent are there again.
Present ==
    IF Busy
    THEN /\ \A id \in (DOMAIN prev \cap DOMAIN desired) \ gone : Has(id)
         /\ \A id \in todo.delete \ gone : Has(id)
         /\ \A id \in (Updated(prev, desired) \cup Added(prev, desired)) \ Left : Has(id)
         /\ \A id, other \in todo.readd : id = other
    ELSE \A id \in DOMAIN prev \ gone : Has(id)

\* A call that was answered: of the routes it is for, what was to be there is.
LEMMA PresentProceeds ==
    ASSUME IInv, Present, Busy, NEW rest, Proceed(rest), rest.policy # "no",
           rest.delete \subseteq todo.delete,
           \A id, other \in rest.readd : id = other,
           \A id \in RouteIds : Has(id) => Has(id)' \/ id \in todo.delete \ rest.delete,
           \A id \in (Updated(prev, desired) \cup Added(prev, desired)) \cap Left :
               id \in (Left)' \/ Has(id)'
    PROVE  Present'
<1>1. /\ todo' = rest /\ Busy'
      /\ UNCHANGED <<prev, desired, gone>>
  BY DEF Proceed, Busy
<1>2. /\ todo.delete \cap DOMAIN desired = {}
      /\ todo.delete \subseteq RouteIds
      /\ DOMAIN prev \subseteq RouteIds /\ DOMAIN desired \subseteq RouteIds
  BY DEF IInv, TodoType, TodoWithinPatch, Configs, Removed
<1>3. \A id \in (DOMAIN prev \cap DOMAIN desired) \ gone : Has(id)'
  BY <1>2 DEF Present
<1>4. \A id \in rest.delete \ gone : Has(id)'
  BY <1>2 DEF Present
<1>5. todo.delete \cap (Updated(prev, desired) \cup Added(prev, desired)) = {}
  BY <1>2 DEF Updated, Added
<1>6. \A id \in (Updated(prev, desired) \cup Added(prev, desired)) \ (Left)' : Has(id)'
  <2> SUFFICES ASSUME NEW id \in Updated(prev, desired) \cup Added(prev, desired),
                      id \notin (Left)'
               PROVE  Has(id)'
    OBVIOUS
  <2>1. CASE id \in Left
    BY <2>1
  <2>2. CASE id \notin Left
    <3>1. id \in RouteIds /\ Has(id)
      BY <1>2, <2>2 DEF Present, Updated, Added
    <3> QED
      BY <1>5, <3>1
  <2> QED
    BY <2>1, <2>2
<1>7. /\ Updated(prev, desired)' = Updated(prev, desired)
      /\ Added(prev, desired)' = Added(prev, desired)
  BY <1>1 DEF Updated, Added
<1> QED
  BY <1>1, <1>3, <1>4, <1>6, <1>7 DEF Present

\* A call that was not: the routes that may have been deleted are remembered.
LEMMA PresentAborts ==
    ASSUME IInv, Present, Busy, NEW ids, Abort(ids),
           \A id \in RouteIds : Has(id) => Has(id)' \/ id \in ids \cap todo.delete
    PROVE  Present'
<1>1. /\ ~Busy' /\ prev' = prev
      /\ gone' = (gone \ Sent) \cup Deleted(ids)
  BY DEF Abort, Busy, NoTodo
<1>2. /\ todo.delete \cap DOMAIN desired = {}
      /\ todo.post \cap DOMAIN prev = {}
      /\ DOMAIN prev \subseteq RouteIds
  BY DEF IInv, TodoType, TodoWithinPatch, Configs, Removed, Added
<1>3. ASSUME NEW id \in DOMAIN prev, id \notin gone' PROVE Has(id)'
  <2>1. CASE id \in DOMAIN desired
    <3>1. id \in Sent => id \in Updated(prev, desired) /\ id \notin Left
      BY <1>2, <2>1 DEF Sent, Updated, Left
    <3>2. id \notin gone \/ id \in Sent
      BY <1>1, <1>3
    <3>3. Has(id)
      BY <2>1, <3>1, <3>2 DEF Present
    <3> QED
      BY <1>2, <2>1, <3>3
  <2>2. CASE id \notin DOMAIN desired
    <3>1. id \in Removed(prev, desired) /\ id \notin Sent
      BY <2>2 DEF Removed, Sent, Updated
    <3>2. id \notin gone /\ id \in todo.delete /\ id \notin ids
      BY <1>1, <1>3, <3>1 DEF Deleted
    <3>3. id \in RouteIds /\ Has(id)
      BY <1>2, <1>3, <3>2 DEF Present
    <3> QED
      BY <3>2, <3>3
  <2> QED
    BY <2>1, <2>2
<1> QED
  BY <1>1, <1>3 DEF Present

\* A commit: nothing is left, so every route wanted was there or has been sent.
LEMMA PresentCommits ==
    ASSUME IInv, Present, Busy, Left = {}, live' = live, Commit
    PROVE  Present'
<1>1. /\ ~Busy' /\ prev' = desired
      /\ gone' = (gone \cap DOMAIN desired) \ Sent
  BY DEF Commit, Busy, NoTodo
<1>2. ASSUME NEW id \in DOMAIN desired, id \notin gone' PROVE Has(id)
  <2>1. CASE id \in Updated(prev, desired) \cup Added(prev, desired)
    BY <2>1 DEF Present
  <2>2. CASE id \notin Updated(prev, desired) \cup Added(prev, desired)
    <3>1. id \in DOMAIN prev /\ id \notin Sent
      BY <2>2 DEF Added, Sent
    <3> QED
      BY <1>1, <1>2, <3>1 DEF Present
  <2> QED
    BY <2>1, <2>2
<1> QED
  BY <1>1, <1>2 DEF Present, Has

\* Every call keeps the routes that are to stay.
LEMMA PresentStep ==
    ASSUME IInv, Typed, Present, [Next]_vars
    PROVE  Present'
<1>0. Shaped(todo)
  BY DEF IInv, TodoType
<1>1. ASSUME NEW targets \in Targets, Reconcile(targets) PROVE Present'
  <2>1. /\ ~Busy /\ UNCHANGED <<prev, live, gone>> /\ todo' = Plan(prev, desired')
    BY <1>1 DEF Reconcile, caddy
  <2>2. /\ todo'.delete = Removed(prev, desired') /\ todo'.patch = Updated(prev, desired')
        /\ todo'.readd = {} /\ todo'.post = Added(prev, desired') /\ todo'.policy # "no"
    BY <2>1 DEF Plan, Patch, NoTodo
  <2>3. \A id \in DOMAIN prev \ gone : Has(id)'
    BY <2>1 DEF Present, Has
  <2> QED
    BY <2>1, <2>2, <2>3 DEF Present, Busy, Left, Removed
<1>2. CASE EnsureResource \/ PostIndex
  <2>1. Busy /\ live' = live
    BY <1>2 DEF EnsureResource, PostIndex, IInv, TodoWithinPatch, NoTodo, Busy
  <2>2. \A id \in RouteIds : Has(id)' = Has(id)
    BY <2>1 DEF Has
  <2>3. Abort({}) \/ Proceed(AfterIndex) \/ \E r : Proceed([todo EXCEPT !.ensure = @ \ {r}])
    BY <1>2 DEF EnsureResource, PostIndex
  <2>4. ASSUME NEW rest, Proceed(rest), rest.delete = todo.delete, rest.patch = todo.patch,
               rest.readd = todo.readd, rest.post = todo.post, rest.policy = todo.policy
        PROVE  Present'
    <3>1. rest.policy # "no" /\ (Left)' = Left
      BY <2>1, <2>4 DEF Busy, Proceed, Left
    <3>2. \A id, other \in rest.readd : id = other
      BY <2>1, <2>4 DEF Present
    <3> HIDE DEF Left
    <3> QED
      BY <2>1, <2>2, <2>4, <3>1, <3>2, PresentProceeds
  <2>5. /\ AfterIndex.delete = todo.delete /\ AfterIndex.patch = todo.patch
        /\ AfterIndex.readd = todo.readd /\ AfterIndex.post = todo.post
        /\ AfterIndex.policy = todo.policy
    BY <1>0 DEF Shaped, AfterIndex
  <2>6. \A r : LET rest == [todo EXCEPT !.ensure = @ \ {r}]
               IN  /\ rest.delete = todo.delete /\ rest.patch = todo.patch
                   /\ rest.readd = todo.readd /\ rest.post = todo.post
                   /\ rest.policy = todo.policy
    BY <1>0 DEF Shaped
  <2> QED
    BY <2>1, <2>2, <2>3, <2>4, <2>5, <2>6, PresentAborts
<1>3. ASSUME NEW id \in RouteIds, DeleteRoute(id) PROVE Present'
  <2>1. Busy /\ id \in todo.delete
    BY <1>3 DEF DeleteRoute, IInv, TodoWithinPatch, NoTodo, Busy
  <2>2. PICK n \in 0 .. MaxTries :
           /\ live' = [live EXCEPT ![id] = Dropped(@, n)]
           /\ \/ Answered(n) /\ Proceed([todo EXCEPT !.delete = @ \ {id}])
              \/ Unanswered(n) /\ Abort(IF n = 0 THEN {} ELSE {id})
    BY <1>3 DEF DeleteRoute
  <2>3. \A other \in RouteIds : other # id => Has(other)' = Has(other)
    BY <2>2 DEF Has, IInv, TodoType
  <2>4. CASE Proceed([todo EXCEPT !.delete = @ \ {id}])
    <3> DEFINE rest == [todo EXCEPT !.delete = @ \ {id}]
    <3>1. /\ rest.policy # "no" /\ rest.delete = todo.delete \ {id}
          /\ rest.patch = todo.patch /\ rest.readd = todo.readd /\ rest.post = todo.post
      BY <1>0, <2>1 DEF Shaped, Busy
    <3>2. \A other \in Left : other \in (Left)' \/ other = id
      BY <2>4, <3>1 DEF Proceed, Left
    <3>3. id \notin Updated(prev, desired) \cup Added(prev, desired)
      BY <2>1 DEF IInv, TodoWithinPatch, Removed, Updated, Added
    <3>4. \A one, other \in rest.readd : one = other
      BY <2>1, <3>1 DEF Present
    <3>5. \A other \in RouteIds : Has(other) => Has(other)' \/ other \in todo.delete \ rest.delete
      BY <2>1, <2>3, <3>1
    <3>6. \A other \in (Updated(prev, desired) \cup Added(prev, desired)) \cap Left :
              other \in (Left)' \/ Has(other)'
      BY <3>2, <3>3
    <3>7. Proceed(rest)
      BY <2>4
    <3> HIDE DEF rest, Left
    <3> QED
      BY <2>1, <3>1, <3>4, <3>5, <3>6, <3>7, PresentProceeds
  <2>5. CASE Abort(IF n = 0 THEN {} ELSE {id})
    <3>1. n = 0 => Has(id)' = Has(id)
      <4> SUFFICES ASSUME n = 0 PROVE Has(id)' = Has(id)
        OBVIOUS
      <4>1. live[id] \in Seq(Bodies)
        BY DEF Typed
      <4>2. live'[id] = Dropped(live[id], 0)
        BY <2>2 DEF IInv, TodoType
      <4>3. Dropped(live[id], 0) = SubSeq(live[id], 1, Len(live[id]))
        BY <4>1 DEF Dropped
      <4>4. SubSeq(live[id], 1, Len(live[id])) = live[id]
        BY <4>1
      <4> QED
        BY <4>2, <4>3, <4>4 DEF Has
    <3>2. \A other \in RouteIds : Has(other) =>
              Has(other)' \/ other \in (IF n = 0 THEN {} ELSE {id}) \cap todo.delete
      BY <2>1, <2>3, <3>1
    <3> QED
      BY <2>1, <2>5, <3>2, PresentAborts
  <2> QED
    BY <2>2, <2>4, <2>5
<1>4. ASSUME NEW id \in RouteIds, PatchRoute(id) PROVE Present'
  <2> DEFINE new == IF live[id] = << >> THEN << >>
                    ELSE [live[id] EXCEPT ![Len(live[id])] = desired[id]]
             rest == [todo EXCEPT !.patch = @ \ {id},
                                  !.readd = IF live[id] = << >> THEN {id} ELSE {}]
  <2>1. Busy /\ id \in todo.patch
    BY <1>4 DEF PatchRoute, IsFirst, IInv, TodoWithinPatch, NoTodo, Busy
  <2>2. live' = live \/ live' = [live EXCEPT ![id] = new]
    BY <1>4 DEF PatchRoute
  <2>3. new # << >> <=> live[id] # << >>
    <3>1. CASE live[id] = << >>
      BY <3>1
    <3>2. CASE live[id] # << >>
      <4>1. live[id] \in Seq(Bodies) /\ new = [live[id] EXCEPT ![Len(live[id])] = desired[id]]
        BY <3>2 DEF Typed
      <4>2. DOMAIN new = DOMAIN live[id]
        BY <4>1
      <4>4. Len(live[id]) \in Nat \ {0} /\ DOMAIN live[id] = 1 .. Len(live[id])
        BY <3>2, <4>1, LenProperties, EmptySeq
      <4>3. DOMAIN << >> = {}
        OBVIOUS
      <4>5. 1 \in DOMAIN new
        BY <4>2, <4>4
      <4> HIDE DEF new
      <4> QED
        BY <3>2, <4>3, <4>5
    <3> QED
      BY <3>1, <3>2
  <2>4. \A other \in RouteIds : Has(other)' = Has(other)
    <3> HIDE DEF new
    <3> QED BY <2>2, <2>3 DEF Has, IInv, TodoType
  <2>5. Proceed(rest) \/ \E ids : Abort(ids)
    BY <1>4 DEF PatchRoute
  <2>6. /\ rest.policy # "no" /\ rest.delete = todo.delete
        /\ rest.patch = todo.patch \ {id} /\ rest.post = todo.post
        /\ rest.readd = IF live[id] = << >> THEN {id} ELSE {}
    BY <1>0, <2>1 DEF Shaped, Busy
  <2>7. todo.readd = {}
    BY <1>4 DEF PatchRoute
  <2> HIDE DEF new, rest
  <2>8. ASSUME Proceed(rest) PROVE Present'
    <3>1. todo' = rest
      BY <2>8 DEF Proceed
    <3>2. \A other \in Left : other \in (Left)' \/ (other = id /\ live[id] # << >>)
      BY <2>6, <2>7, <3>1 DEF Left
    <3>3. \A other \in (Updated(prev, desired) \cup Added(prev, desired)) \cap Left :
              other \in (Left)' \/ Has(other)'
      BY <2>4, <3>2 DEF Has
    <3>4. \A one, other \in rest.readd : one = other
      BY <2>6
    <3> HIDE DEF Left
    <3> QED
      BY <2>1, <2>4, <2>6, <2>8, <3>3, <3>4, PresentProceeds
  <2> QED
    BY <2>1, <2>4, <2>5, <2>8, PresentAborts
<1>5. ASSUME NEW id \in RouteIds, NEW rest, PostRoute(id, rest), Busy,
             desired[id] \in Bodies,
             rest.policy # "no", rest.delete = todo.delete, rest.readd = {},
             \A other \in Left : other \in todo.delete \cup rest.patch \cup rest.post
                                 \/ other = id
      PROVE  Present'
  <2>1. Append(live[id], desired[id]) # << >>
    <3>1. live[id] \in Seq(Bodies)
      BY DEF Typed
    <3> QED
      BY <1>5, <3>1, AppendProperties
  <2>2. \A other \in RouteIds : Has(other) => Has(other)'
    <3>1. live' = live \/ live' = [live EXCEPT ![id] = Append(live[id], desired[id])]
      BY <1>5 DEF PostRoute
    <3>2. live = [i \in RouteIds |-> live[i]]
      BY DEF IInv, TodoType
    <3> QED
      BY <2>1, <3>1, <3>2 DEF Has
  <2>3. \A ids : Abort(ids) => Present'
    BY <1>5, <2>2, PresentAborts
  <2>4. ASSUME Proceed(rest), live' = [live EXCEPT ![id] = Append(@, desired[id])]
        PROVE  Present'
    <3>1. Has(id)'
      BY <2>1, <2>4 DEF Has, IInv, TodoType
    <3>2. todo' = rest
      BY <2>4 DEF Proceed
    <3>3. \A other \in Left : other \in (Left)' \/ other = id
      BY <1>5, <3>2 DEF Left
    <3>4. \A other \in (Updated(prev, desired) \cup Added(prev, desired)) \cap Left :
              other \in (Left)' \/ Has(other)'
      BY <3>1, <3>3
    <3>5. \A one, other \in rest.readd : one = other
      BY <1>5
    <3> HIDE DEF Left
    <3> QED
      BY <1>5, <2>2, <2>4, <3>4, <3>5, PresentProceeds
  <2> QED
    BY <1>5, <2>3, <2>4 DEF PostRoute
<1>6. ASSUME NEW id \in RouteIds, ReaddRoute(id) PROVE Present'
  <2> DEFINE rest == [todo EXCEPT !.readd = {}]
  <2>1. Busy
    BY <1>6 DEF ReaddRoute, IInv, TodoWithinPatch, NoTodo, Busy
  <2>2. /\ rest.policy # "no" /\ rest.delete = todo.delete /\ rest.patch = todo.patch
        /\ rest.readd = {} /\ rest.post = todo.post
    BY <1>0, <2>1 DEF Shaped, Busy
  <2>3. \A other \in todo.readd : other = id
    BY <1>6, <2>1 DEF Present, ReaddRoute
  <2>4. PostRoute(id, rest)
    BY <1>6 DEF ReaddRoute
  <2>5. desired[id] \in Bodies
    BY <1>6, BodyType DEF ReaddRoute
  <2> HIDE DEF rest
  <2> QED
    BY <1>5, <2>1, <2>2, <2>3, <2>4, <2>5 DEF Left
<1>7. ASSUME NEW id \in RouteIds, AddRoute(id) PROVE Present'
  <2> DEFINE rest == [todo EXCEPT !.post = @ \ {id}]
  <2>1. Busy /\ todo.readd = {}
    BY <1>7 DEF AddRoute, IsFirst, IInv, TodoWithinPatch, NoTodo, Busy
  <2>2. /\ rest.policy # "no" /\ rest.delete = todo.delete /\ rest.patch = todo.patch
        /\ rest.readd = {} /\ rest.post = todo.post \ {id}
    BY <1>0, <2>1 DEF Shaped, Busy
  <2>3. PostRoute(id, rest)
    BY <1>7 DEF AddRoute
  <2>4. desired[id] \in Bodies
    BY <1>7, BodyType DEF AddRoute, IsFirst
  <2> HIDE DEF rest
  <2> QED
    BY <1>5, <2>1, <2>2, <2>3, <2>4 DEF Left
<1>8. CASE PolicyCall
  <2>1. Busy /\ live' = live /\ Left = {}
    BY <1>8, PolicyCalls
  <2>2. \A id \in RouteIds : Has(id)' = Has(id)
    BY <2>1 DEF Has
  <2>3. ASSUME NEW rest, Proceed(rest), rest.policy # "no",
               rest.delete = todo.delete, rest.patch = todo.patch,
               rest.readd = todo.readd, rest.post = todo.post
        PROVE  Present'
    <3>1. \A one, other \in rest.readd : one = other
      BY <2>1, <2>3 DEF Present
    <3> QED
      BY <2>1, <2>2, <2>3, <3>1, PresentProceeds
  <2> QED
    BY <1>8, <2>1, <2>2, <2>3, PresentAborts, PresentCommits, PolicyCalls
<1>9. CASE UNCHANGED <<client, live, gone>>
  BY <1>9 DEF Present, Has, Left, Busy, client, Updated, Added
<1>10. ASSUME NEW policy, UserAddsPolicy(policy) PROVE Present'
  BY <1>9, <1>10 DEF UserAddsPolicy
<1>11. CASE UNCHANGED vars
  BY <1>9, <1>11 DEF vars, client
<1> QED
  BY <1>1, <1>2, <1>3, <1>4, <1>6, <1>7, <1>8, <1>10, <1>11 DEF Next, PolicyCall

\* README.md:294, for any routes and any lost answers: Caddy always has every route of
\* the last config that the one under way wants too, also after reconciles that failed,
\* unless one that failed had deleted it and none has sent it since.
THEOREM DowntimeTheorem == Spec => []ZeroDowntime
<1>1. Present => ZeroDowntime
  BY DEF Present, ZeroDowntime, Has
<1>2. Init => Present
  <2> SUFFICES ASSUME Init PROVE Present
    OBVIOUS
  <2>1. DOMAIN prev = {}
    BY DEF Init, NoRoutes
  <2>2. /\ todo.delete = {} /\ todo.readd = {} /\ todo.post = DOMAIN desired
        /\ todo.policy # "no"
    BY <2>1 DEF Init, Patch, NoTodo, Removed, Added
  <2> QED
    BY <2>1, <2>2 DEF Present, Busy, Left, Updated, Added
<1> QED
  BY <1>1, <1>2, PresentStep, Inductive, TypedInductive, PTL DEF Spec

=============================================================================
