---------------------------- MODULE PathRuntime -----------------------------
(***************************************************************************)
(* PathRequestRuntime of path/path_runtime.h: a batch of requests, their   *)
(* tickets and results, and the passes that answer them out of three       *)
(* caches which outlive the batch.  A pass works through its stages in     *)
(* order: the policy and the world's changes reach the caches, the caches  *)
(* are bound to the movement class, a region graph rules requests out,     *)
(* repeated goals share a field product, single goals try a portal route,  *)
(* and what is left is searched for.  Any of it may throw; then the caches *)
(* keep what was done and nothing is published.                            *)
(*                                                                         *)
(* Abstracted: requests are inside the world; the graph is one that proves *)
(* what it can (RegionGraph) or one that proves nothing; weighted searches *)
(* and the fields they share return what PathSearch checks them to return. *)
(***************************************************************************)
EXTENDS RouteCache, FieldProducts, PortalRoutes

CONSTANTS
  UnitPasses, WeightedPasses,       \* the passes made, as <<model, policy>>
  ClassOf,                          \* the movement class of a unit model
  Batches,                          \* the batches submitted
  RuntimeEdits,                     \* the <<tile, cost>> edited between passes
  ThrowStages,                      \* the stages whose end a throw is tried at
  MaxGeneration,                    \* bound: calls of clear_requests
  MaxPasses                         \* bound: passes

ASSUME RuntimeAssumption ==
  /\ \A u \in UnitPasses : u[1] \in Models \cap DOMAIN ProductModels \cap DOMAIN ClassOf
  /\ \A w \in WeightedPasses : w[1] \in DOMAIN ProductModels
  /\ MaxGeneration \in Nat /\ MaxPasses \in Nat

VARIABLES
  requests,      \* requests_
  generation,    \* generation_
  published,     \* results_published_
  results,       \* results_
  changes,       \* world_changes_since_clear_
  bound_class,   \* bound_unit_class_
  ticket,        \* history: the first ticket issued and its request, as a set
  served,        \* history: the published pass, until the world changes
  passes         \* history: passes so far

runtime_vars ==
  <<requests, generation, published, results, changes, bound_class, ticket, served, passes>>

WeightedModel(m) == IF m \in DOMAIN RouteModels THEN RouteModels[m] ELSE ResolvedModel(m)

(***************************************************************************)
(* A pass: the caches and what is answered so far.                         *)
(***************************************************************************)
NewPass ==
  [routes |-> routes, products |-> products, segments |-> segments, held |-> held,
   changes |-> changes, bound |-> bound_class,
   results |-> [i \in DOMAIN requests |-> Failure("NotComputed")], processed |-> {}]

(* copy_result and the mark in processed_.                                 *)
Answered(p, i, result) == [p EXCEPT !.results[i] = result, !.processed = @ \cup {i}]

Waiting(p) == DOMAIN requests \ p.processed
Inorder(indexes) == SetToSortSeq(indexes, <)

(* One step of a pass for each index in turn, over every outcome so far.   *)
ForEach(op(_, _), starts, indexes) ==
  FoldLeft(LAMBDA ps, i : UNION {op(p, i) : p \in ps}, starts, indexes)

(***************************************************************************)
(* prepare_process.                                                        *)
(***************************************************************************)
ChangeDetected(c) ==
  /\ c.baseline # {version}
  /\ c.baseline # {} \/ (c.mode = Scoped /\ c.entries # <<>>)

CachesCleared(p) ==
  [p EXCEPT !.routes = ClearIn(@), !.products = [@ EXCEPT !.entries = <<>>, !.bytes = 0],
            !.segments = [@ EXCEPT !.entries = <<>>, !.class = {}],
            !.changes = 0, !.bound = None]

Configured(p, policy) ==
  LET capped == SetDependencyCapIn(SetCapsIn(p.routes, policy.entries, policy.nodes), policy.deps)
  IN  [p EXCEPT !.routes = SetStalenessIn(capped, policy.mode),
                !.segments = WithSegmentBudget(@, policy.segments)]

Prepared(p, policy) ==
  LET configured == Configured(p, policy)
      detected == ChangeDetected(configured.routes)
      refreshed == [configured EXCEPT !.routes = RefreshIn(@)]
      counted == [refreshed EXCEPT !.changes = @ + 1]
  IN  IF ~policy.invalidate THEN configured
      ELSE IF ~detected \/ policy.mode = Scoped THEN refreshed
      ELSE IF policy.clearEvery # 0 /\ counted.changes >= policy.clearEvery
        THEN CachesCleared(counted)
      ELSE counted

(* bind_unit_class: by movement class alone, providers are the caches' own *)
(* concern.                                                                *)
BoundUnit(p, m) ==
  IF p.bound \in {ClassOf[m], None} THEN [p EXCEPT !.bound = ClassOf[m]]
  ELSE [p EXCEPT !.bound = ClassOf[m], !.routes = ClearIn(@),
                 !.products = [@ EXCEPT !.entries = <<>>, !.bytes = 0]]

(***************************************************************************)
(* precheck_prepass: a request between passable ends that no walk joins.   *)
(***************************************************************************)
Disconnected(model, s, g) ==
  /\ IsPassable(model, terrain, s) /\ IsPassable(model, terrain, g)
  /\ LeastCosts(AsUnit(model), terrain, {g})[s] = Infinite

Prechecked(p, model, policy) ==
  LET out == {i \in Waiting(p) : policy.graph = "fresh" /\ Disconnected(model, requests[i][1], requests[i][2])}
  IN  FoldLeft(LAMBDA q, i : Answered(q, i, Failure("NoPath")), p, Inorder(out))

(***************************************************************************)
(* process_repeated_goal_fields and its weighted twin.                     *)
(***************************************************************************)
AtLeast(n, least) == IF n < least THEN least ELSE n

(* The product of a group's goal, found in the cache or built and stored.  *)
WithBuilt(p, built) ==
  LET stored == Stored(p.products, built)
  IN  IF built.status # "Found"
        THEN [found |-> {}, pass |-> [p EXCEPT !.held = built]]
      ELSE [found |-> IF stored.kept THEN {built} ELSE {},
            pass |-> [p EXCEPT !.products = stored.cache, !.held = stored.left]]

WithProduct(p, m, goals) ==
  LET looked == LookedUp(p.products, <<Stamp(m), goals>>)
      after == [p EXCEPT !.products = looked.cache]
  IN  IF looked.found # {} THEN [found |-> looked.found, pass |-> after]
      ELSE WithBuilt(after, Product(m, goals))

ServedFrom(got, m, members) ==
  LET Read(product, q, i) == Answered(q, i, ReadProduct(m, requests[i][1], product))
      Served(product) ==
        FoldLeft(LAMBDA q, i : Read(product, q, i), got.pass, Inorder(members))
  IN  IF got.found = {} THEN got.pass ELSE Served(CHOOSE product \in got.found : TRUE)

GroupServed(p, m, policy, members) ==
  LET goal == requests[Min(members)][2]
      starts == {ChunkOf(requests[i][1]) : i \in members}
  IN  IF \/ Cardinality(members) < AtLeast(policy.reuse, 2)
         \/ Cardinality(starts) < AtLeast(policy.chunks, 1)
         \/ ~CanFitDistanceStorage(p.products) THEN p
      ELSE ServedFrom(WithProduct(p, m, <<goal>>), m, members)

(* Groups go in the order of their first members, as they were when the    *)
(* pass began to group.                                                    *)
Members(p, i) == {j \in Waiting(p) : requests[j][2] = requests[i][2]}
RepeatedGoals(p, m, policy) ==
  LET budgeted == [p EXCEPT !.products = WithinBudget([@ EXCEPT !.budget = policy.bytes])]
      groups == {Members(p, i) : i \in Waiting(p)}
      InTurn(q, first) ==
        GroupServed(q, m, policy, CHOOSE group \in groups : Min(group) = first)
  IN  IF ~policy.products THEN p
      ELSE FoldLeft(InTurn, budgeted, Inorder({Min(group) : group \in groups}))

(***************************************************************************)
(* process_portal_first_singletons.                                        *)
(***************************************************************************)
Cached == [portals |-> TRUE, cached |-> TRUE]

WithinPremium(policy, cost, bound) ==
  policy.num = 0 \/ cost * AtLeast(policy.den, 1) <= bound * policy.num

Accepted(policy, s, g, cost) == WithinPremium(policy, cost, Manhattan(s, g))

PortalTried(p, m, policy, i, o) ==
  LET tried == [p EXCEPT !.segments = o.cache]
      result == [status |-> o.status, cost |-> o.cost, path |-> o.path]
  IN  IF o.status = "Found" /\ Accepted(policy, requests[i][1], requests[i][2], o.cost)
      THEN Answered(tried, i, result) ELSE tried

Eligibly(m) == m \in DOMAIN RouteModels /\ StepsOverFaces(RouteModels[m])

PortalFirst(p, m, policy) ==
  LET single == {i \in Waiting(p) : Members(p, i) = {i}}
      Try(q, i) == {PortalTried(q, m, policy, i, o) :
                      o \in PortalOutcomes(m, Cached, requests[i], q.segments)}
  IN  IF policy.strategy # "PortalFirst" \/ ~Eligibly(m) THEN {p}
      ELSE ForEach(Try, {p}, Inorder(single))

(***************************************************************************)
(* The searches at the end of a pass.                                      *)
(***************************************************************************)
Routed(p, m, i) ==
  {[Answered(p, i, o.result) EXCEPT !.routes = o.cache] :
     o \in CachedOutcomes(p.routes, m, requests[i][1], requests[i][2])}

(* Mutant: a survivor's result goes to its place among the survivors. *)
SlotAmongSurvivors(survivors, k) == k
OriginalSlot(survivors, k) == survivors[k]

(* weighted_path_batch over the survivors, scattered to their own slots.   *)
Batched(p, m, policy) ==
  LET survivors == Inorder(Waiting(p))
      LegsOf(k) == ExactLegsOf(WeightedModel(m), requests[survivors[k]][1], requests[survivors[k]][2])
      Scatter(q, k) == {Answered(q, OriginalSlot(survivors, k), leg) : leg \in LegsOf(k)}
  IN  ForEach(Scatter, {p}, [k \in DOMAIN survivors |-> k])

(***************************************************************************)
(* The stages of the passes.                                               *)
(***************************************************************************)
UnitGrouped(p, m, policy) ==
  LET checked == Prechecked(p, ResolvedModel(m), policy)
  IN  IF Eligible(m) THEN RepeatedGoals(checked, m, policy) ELSE checked

WeightedGrouped(p, m, policy) ==
  RepeatedGoals(Prechecked(p, WeightedModel(m), policy), m, policy)

Searched(p, m, indexes) == ForEach(LAMBDA q, i : Routed(q, m, i), {p}, indexes)

(***************************************************************************)
(* The operations.  Before the first pass the runtime has nothing that a   *)
(* clear or an edit could be about, and after the last nothing sees them.  *)
(***************************************************************************)
RuntimeInit ==
  /\ requests = <<>> /\ generation = 0
  /\ published = FALSE /\ results = <<>>
  /\ changes = 0 /\ bound_class = None
  /\ ticket = {} /\ served = {} /\ passes = 0

Submit(request) ==
  /\ \E batch \in Batches : IsPrefix(Append(requests, request), batch)
  /\ requests' = Append(requests, request)
  /\ ticket' = IF ticket # {} THEN ticket
               ELSE {[value |-> Len(requests) + 1, generation |-> generation, request |-> request]}
  /\ UNCHANGED <<world, routes, history, product_vars, portal_vars, generation, published,
                 results, changes, bound_class, served, passes>>

ClearRequests ==
  /\ generation < MaxGeneration /\ passes \in 1 .. MaxPasses - 1
  /\ requests' = <<>> /\ generation' = generation + 1
  /\ published' = FALSE /\ results' = <<>> /\ served' = {}
  /\ UNCHANGED <<world, routes, history, product_vars, portal_vars, changes, bound_class, ticket,
                 passes>>

(* What a pass leaves: the caches always, the results when it has ended.   *)
Leaves(p, ended, m, policy, kind) ==
  /\ requests \in Batches
  /\ routes' = p.routes /\ products' = p.products /\ segments' = p.segments /\ held' = p.held
  /\ changes' = p.changes /\ bound_class' = p.bound
  /\ published' = ended
  /\ results' = IF ended THEN p.results ELSE <<>>
  /\ served' = IF ended THEN {[class |-> m, policy |-> policy, kind |-> kind, aged |-> opened]}
               ELSE {}
  /\ passes < MaxPasses /\ passes' = passes + 1
  /\ opened' = (opened /\ p.routes.entries # <<>>)
  /\ edited' = (edited /\ ~policy.invalidate)
  /\ based' = (IF policy.invalidate THEN TRUE ELSE based)
  /\ UNCHANGED <<world, answer, revision, route, requests, generation, ticket>>

(* Opting out of invalidation is for a world that has not changed since    *)
(* the caches last looked, and keeps the staleness mode.                   *)
MayProcess(policy) == policy.invalidate \/ (MayLookUp /\ policy.mode = routes.mode)

(* Prepared, grouped, then one search after the other.                     *)
ProcessUnit(m, policy) ==
  /\ MayProcess(policy)
  /\ \E prepared \in {BoundUnit(Prepared(NewPass, policy), m)} :
     \E grouped \in {UnitGrouped(prepared, m, policy)} :
       LET waiting == Inorder(Waiting(grouped))
           last == 2 + Len(waiting)
       IN  \E n \in {last} \cup (ThrowStages \cap 1 .. last) :
           \E p \in IF n = 1 THEN {prepared} ELSE Searched(grouped, m, SubSeq(waiting, 1, n - 2)) :
             Leaves(p, n = last, m, policy, "unit")

(* Prepared, grouped, the portal routes, the batch.                        *)
ProcessWeighted(m, policy) ==
  /\ MayProcess(policy)
  /\ \E prepared \in {Prepared(NewPass, policy)} :
     \E grouped \in {WeightedGrouped(prepared, m, policy)} :
     \E ported \in PortalFirst(grouped, m, policy) :
     \E batched \in Batched(ported, m, policy) :
     \E n \in {4} \cup (ThrowStages \cap 1 .. 4) :
       Leaves(<<prepared, grouped, ported, batched>>[n], n = 4, m, policy, "weighted")

(* clear_caches *)
ClearCaches ==
  LET p == CachesCleared(NewPass)
  IN  /\ passes \in 1 .. MaxPasses - 1
      /\ routes' = p.routes /\ products' = p.products /\ segments' = p.segments
      /\ changes' = p.changes /\ bound_class' = p.bound
      /\ opened' = FALSE
      /\ UNCHANGED <<world, answer, edited, based, revision, held, route, requests, generation,
                     published, results, ticket, served, passes>>

RuntimeEdit(t, cost) ==
  /\ passes \in 1 .. MaxPasses - 1
  /\ EditTile(t, cost)
  /\ served' = {}
  /\ UNCHANGED <<product_vars, portal_vars, requests, generation, published, results,
                 changes, bound_class, ticket, passes>>
RuntimeEdited == \E e \in RuntimeEdits : RuntimeEdit(e[1], e[2])

RuntimeCall ==
  \/ \E request \in UNION {ToSet(batch) : batch \in Batches} : Submit(request)
  \/ ClearRequests
  \/ ClearCaches
UnitPass == \E u \in UnitPasses : ProcessUnit(u[1], u[2])
WeightedPass == \E w \in WeightedPasses : ProcessWeighted(w[1], w[2])

-----------------------------------------------------------------------------
(* The runtime and each of its caches alone, over one world whose edits    *)
(* every one of them has to notice.  A behaviour is about one of them:     *)
(* `scene` says which, and the others stay as they were made.              *)
CONSTANTS
  Scenes,            \* the scenes that behaviours are about
  MaxProductEdits    \* bound: edits in the other scenes than "routes"

ASSUME ScenesAssumption == Scenes \subseteq {"routes", "products", "portals", "runtime"}

VARIABLE scene

route_vars == <<routes, history>>
cache_vars == <<vars, product_vars, portal_vars, runtime_vars, scene>>

CachesInit ==
  /\ Init
  /\ ProductInit
  /\ PortalInit
  /\ RuntimeInit
  /\ scene \in Scenes
  /\ scene # "products" => products.budget = Min(ProductBudgets)
  /\ scene # "portals" => segments.budget = Min(SegmentBudgets)

EditUnder(kept) ==
  /\ EditsMade < MaxProductEdits
  /\ \E t \in EditedTiles, cost \in NewCosts : Edit(t, cost)
  /\ UNCHANGED kept

In(played, kept) == scene = played /\ UNCHANGED <<scene, kept>>

RuntimeNext ==
  \/ In("runtime", <<>>) /\ (RuntimeCall \/ (EditsMade < MaxProductEdits /\ RuntimeEdited))
  \/ In("runtime", <<>>) /\ UnitPass
  \/ In("runtime", <<>>) /\ WeightedPass

CachesNext ==
  \/ In("routes", <<product_vars, portal_vars, runtime_vars>>) /\ Next
  \/ In("products", <<route_vars, portal_vars, runtime_vars>>)
       /\ (ProductNext \/ EditUnder(product_vars))
  \/ In("portals", <<route_vars, product_vars, runtime_vars>>)
       /\ (PortalNext \/ EditUnder(portal_vars))
  \/ RuntimeNext

CachesSpec == CachesInit /\ [][CachesNext]_cache_vars

(***************************************************************************)
(* Properties.                                                             *)
(***************************************************************************)
(* try_result *)
TryResult(t) ==
  IF t.generation # generation \/ ~published \/ t.value > Len(results) THEN {}
  ELSE {results[t.value]}

UnitAnswerIsTrue(pass, s, g, r) ==
  LET fresh == {[status |-> f.status, cost |-> f.cost] : f \in FreshResults(pass.class, s, g)}
  IN  /\ r.status = "Found" =>
           r.path \in RoutesOf(pass.class, s, g) /\ r.cost = Hops(r.path)
      /\ r.status # "Found" \/ pass.policy.mode = Exact \/ ~pass.aged =>
           [status |-> r.status, cost |-> r.cost] \in fresh

WeightedAnswerIsTrue(pass, s, g, r) ==
  LET model == WeightedModel(pass.class)
      least == LeastCosts(model, terrain, {g})[s]
  IN  IF r.status = "Found"
      THEN /\ Head(r.path) = s /\ Last(r.path) = g
           /\ WalkCost(model, terrain, r.path) = r.cost
           /\ r.cost = least \/ (pass.policy.strategy = "PortalFirst" /\ Eligibly(pass.class)
                                 /\ WithinPremium(pass.policy, r.cost, least))
      ELSE \E leg \in ExactLegsOf(model, s, g) : leg.status = r.status

(* Whatever the batch, the classes and policies of the passes before it    *)
(* and the passes that threw half way: a published result answers its own  *)
(* request as a search for it alone would, except that a scoped route may  *)
(* have aged and that a portal route may cost up to the premium times the  *)
(* optimum (path_runtime.h:60-66); and a ticket reads the result of the    *)
(* request it was issued for or nothing (path_runtime.h:326-336).          *)
PassesAnswerTruly ==
  /\ \A t \in ticket : TryResult(t) # {} => requests[t.value] = t.request
  /\ \A pass \in served, i \in DOMAIN results :
       IF pass.kind = "unit"
       THEN UnitAnswerIsTrue(pass, requests[i][1], requests[i][2], results[i])
       ELSE WeightedAnswerIsTrue(pass, requests[i][1], requests[i][2], results[i])

(* What each cache keeps of its entries beside them agrees with them: the  *)
(* hash indexes and caps of route_cache.h:596, the bytes, budget and keys  *)
(* of field_product_cache.h:515, in their own scenes and under the passes  *)
(* of a runtime, which sets every cap and budget anew.                     *)
BooksAgree == IndexesAgree /\ ProductsFitBudget
=============================================================================
