---------------------------- MODULE PortalRoutes ----------------------------
(***************************************************************************)
(* Weighted route products of path/path.h and path/portal_route.h, and the *)
(* cache of the segments they are stitched from (portal_segment_cache.h).  *)
(* A route goes through waypoints that the caller supplies or that a scan  *)
(* of chunk seams picks; each leg is an exact search or a cached segment.  *)
(* The products record the content versions of the chunks their path       *)
(* crosses, and replay while those hold.                                   *)
(*                                                                         *)
(* Abstracted: the path arena of the cache to a path per entry, and the    *)
(* memo of the seam scan, which returns what a scan would.  A search may   *)
(* return any route of least cost.                                         *)
(***************************************************************************)
EXTENDS GridWorld, TransitionModel

CONSTANTS
  RouteModels,       \* model id -> transition model, without special edges
  RouteRequests,     \* the <<start, goal>> pairs asked for
  WaypointLists,     \* the waypoint lists a caller supplies
  SegmentBudgets     \* the values segment_budget is set to

ASSUME RouteAssumption ==
  /\ \A m \in DOMAIN RouteModels : ~HasSpecial(RouteModels[m])
  /\ SegmentBudgets \subseteq Nat /\ SegmentBudgets # {}

VARIABLES
  segments,          \* [entries, class, budget]: in insertion order, and
                     \* bound_class_ as a set
  route              \* the caller's product

portal_vars == <<segments, route>>

(***************************************************************************)
(* weighted_astar_path over a dense world.                                 *)
(***************************************************************************)
Leg(status, cost, path) == [status |-> status, cost |-> cost, path |-> path]

EndpointStatus(model, s, g) ==
  IF ~IsPassable(model, terrain, s) THEN "InvalidStart"
  ELSE IF ~IsPassable(model, terrain, g) THEN "InvalidGoal"
  ELSE IF EntryCost(model, terrain, s) = 0 THEN "InvalidStart"
  ELSE IF EntryCost(model, terrain, g) = 0 THEN "InvalidGoal" ELSE "none"

CheapestWalks(model, least, s, g) ==
  LET Onwards(p) == {q \in LegalSteps(model, terrain, Last(p)) :
                       q.cost + least[q.to] = least[Last(p)]}
      Extended(p) == IF Last(p) = g THEN {p} ELSE {Append(p, q.to) : q \in Onwards(p)}
  IN  Iterated(LAMBDA paths : UNION {Extended(p) : p \in paths}, {<<s>>})

(* An exhausted search reports an overflow when a step from a reached tile *)
(* saturated: certainly when its target was never closed, perhaps when it  *)
(* was closed by a cheaper way.                                            *)
SaturatingSteps(model, from) ==
  {<<t, p>> \in UNION {{t} \X ToSet(ForwardProbes(model, terrain, t)) : t \in Tiles} :
     /\ p.kind \in {"legal", "overflow"} /\ from[t] < Infinite
     /\ p.kind = "overflow" \/ Saturated(from[t] + p.cost) = Infinite}
StatusesAfter(saturating, from) ==
  LET unreached == {x \in saturating : from[x[2].to] = Infinite \/ x[2].kind = "overflow"}
  IN  (IF saturating = {} THEN {} ELSE {"CostOverflow"})
        \cup (IF unreached = {} THEN {"NoPath"} ELSE {})
ExhaustedStatuses(model, s) ==
  LET from == [t \in Tiles |-> LeastCosts(model, terrain, {t})[s]]
  IN  StatusesAfter(SaturatingSteps(model, from), from)

SearchedLegs(model, least, s, g) ==
  IF least[s] = Infinite THEN {Leg(status, 0, <<>>) : status \in ExhaustedStatuses(model, s)}
  ELSE {Leg("Found", least[s], p) : p \in CheapestWalks(model, least, s, g)}
ExactLegsOf(model, s, g) ==
  IF EndpointStatus(model, s, g) # "none" THEN {Leg(EndpointStatus(model, s, g), 0, <<>>)}
  ELSE SearchedLegs(model, LeastCosts(model, terrain, {g}), s, g)
ExactLegs(m, s, g) == ExactLegsOf(RouteModels[m], s, g)

(***************************************************************************)
(* What a product depends on.                                              *)
(***************************************************************************)
VersionsOf(chunks) == {[key |-> c, version |-> version[c]] : c \in chunks}
Unchanged(deps) == \A d \in deps : version[d.key] = d.version

PathVersions(path) == VersionsOf({ChunkOf(path[i]) : i \in DOMAIN path})

FailureVersions(status, s, g) ==
  IF status \in {"NoPath", "NoCandidate", "CostOverflow"} THEN VersionsOf(Chunks)
  ELSE VersionsOf({ChunkOf(s), ChunkOf(g)})

(***************************************************************************)
(* The segment cache.                                                      *)
(***************************************************************************)
(* bind_class *)
BoundTo(c, m) ==
  [c EXCEPT !.class = {m}, !.entries = IF c.class \subseteq {m} THEN @ ELSE <<>>]

LiveSegments(c, s, g) ==
  SelectSeq(c.entries, LAMBDA e : e.start = s /\ e.goal = g /\ Unchanged(e.deps))

WithSegment(c, s, g, leg) ==
  LET entry == [start |-> s, goal |-> g, cost |-> leg.cost, path |-> leg.path,
                deps |-> PathVersions(leg.path)]
      compacted == IF Len(c.entries) < c.budget THEN c.entries
                   ELSE SelectSeq(c.entries, LAMBDA e : Unchanged(e.deps))
      excess == Len(compacted) + 1 - c.budget
  IN  IF c.budget = 0 \/ leg.status # "Found" THEN c
      ELSE [c EXCEPT !.entries =
              Append(SubSeq(compacted, 1 + (IF excess > 0 THEN excess ELSE 0), Len(compacted)), entry)]

(* set_segment_budget: the oldest go first. *)
WithSegmentBudget(c, budget) ==
  LET excess == Len(c.entries) - budget
  IN  [c EXCEPT !.budget = budget,
                !.entries = IF excess <= 0 THEN @ ELSE SubSeq(@, excess + 1, Len(@))]

(***************************************************************************)
(* Stitching.  A partial route is what the legs so far have made of it.    *)
(***************************************************************************)
Legs(s, waypoints, g) ==
  LET stops == <<s>> \o waypoints \o <<g>>
  IN  [i \in 1 .. Len(stops) - 1 |-> <<stops[i], stops[i + 1]>>]

Partial(c) == [status |-> "Found", cost |-> 0, path |-> <<>>, deps |-> {}, cache |-> c]

(* A junction is appended once.                                            *)
Joined(path, more) == IF path = <<>> THEN more ELSE path \o Tail(more)

(* Mutant: the first segment kept for a request is taken, stale or not. *)
LegOutcomesOfAnyEntry(m, kind, partial, leg) ==
  LET kept == SelectSeq(partial.cache.entries, LAMBDA e : e.start = leg[1] /\ e.goal = leg[2])
  IN  IF kind.cached /\ kept # <<>>
      THEN {[leg |-> Leg("Found", Head(kept).cost, Head(kept).path), cache |-> partial.cache]}
      ELSE {[leg |-> exact, cache |-> IF kind.cached
                                      THEN WithSegment(partial.cache, leg[1], leg[2], exact)
                                      ELSE partial.cache] : exact \in ExactLegs(m, leg[1], leg[2])}
(* A live segment of the cache, or an exact search that is then stored.    *)
LegOutcomes(m, kind, partial, leg) ==
  LET live == LiveSegments(partial.cache, leg[1], leg[2])
  IN  IF kind.cached /\ live # <<>>
      THEN {[leg |-> Leg("Found", Head(live).cost, Head(live).path), cache |-> partial.cache]}
      ELSE {[leg |-> exact, cache |-> IF kind.cached
                                      THEN WithSegment(partial.cache, leg[1], leg[2], exact)
                                      ELSE partial.cache] : exact \in ExactLegs(m, leg[1], leg[2])}

(* append_segment.  Under chunk portals a leg that fails says nothing of   *)
(* the request; the cached variant records no dependencies of the whole,   *)
(* and notices an overflow at the end only.                                *)
Appended(request, kind, partial, leg, o) ==
  LET total == partial.cost + o.leg.cost
      lost == IF kind.portals THEN "NoCandidate" ELSE o.leg.status
      blamed == IF kind.portals THEN request ELSE leg
  IN  IF o.leg.status # "Found"
        THEN [partial EXCEPT !.status = lost, !.path = <<>>, !.cache = o.cache,
                             !.deps = FailureVersions(lost, blamed[1], blamed[2])]
      ELSE IF total >= Infinite /\ ~(kind.portals /\ kind.cached)
        THEN [partial EXCEPT !.status = "CostOverflow", !.path = <<>>, !.cache = o.cache,
                             !.deps = FailureVersions("CostOverflow", request[1], request[2])]
      ELSE [partial EXCEPT !.cost = total, !.path = Joined(@, o.leg.path), !.cache = o.cache]

Stitched(m, kind, request, waypoints, cache) ==
  LET bare == Partial(IF kind.cached THEN BoundTo(cache, m) ELSE cache)
  IN  FoldLeft(LAMBDA partials, leg :
             UNION {IF p.status # "Found" THEN {p}
                    ELSE {Appended(request, kind, p, leg, o) : o \in LegOutcomes(m, kind, p, leg)}
                      : p \in partials},
           {bare}, Legs(request[1], waypoints, request[2]))

(* The cached portal route checks its total at the end.                    *)
Concluded(kind, p) ==
  IF p.status # "Found" THEN p
  ELSE IF p.cost >= Infinite THEN [p EXCEPT !.status = "CostOverflow", !.path = <<>>]
  ELSE [p EXCEPT !.deps = PathVersions(p.path)]

(***************************************************************************)
(* select_chunk_portal_waypoints: staircases of chunks towards the goal,   *)
(* one per order of the axes and a greedy one; the best score wins.        *)
(***************************************************************************)
ScanIndex(t) == t[1] + (Size[1] * (t[2] + (Size[2] * t[3])))

(* best_chunk_portal: the tiles entered by passing from a chunk to the     *)
(* next, the best of them by distance; of equals the first scanned.        *)
Portals(model, from, to) ==
  {t \in TilesOf(to) : IsPassable(model, terrain, t)
                         /\ \E u \in TilesOf(from) \cap Neighbors(t) : IsPassable(model, terrain, u)}
Detour(current, goal, t) == Manhattan(current, t) + Manhattan(t, goal)
BestPortal(model, from, to, current, goal) ==
  LET portals == Portals(model, from, to)
  IN  {t \in portals : \A u \in portals :
         \/ Detour(current, goal, t) < Detour(current, goal, u)
         \/ Detour(current, goal, t) = Detour(current, goal, u) /\ ScanIndex(t) <= ScanIndex(u)}

Walker(s) == [found |-> TRUE, at |-> s, score |-> 0, waypoints |-> <<>>]
Toward(w, g, a) == [ChunkOf(w.at) EXCEPT ![a] = @ + Sign(@, ChunkOf(g)[a])]

Entered(w, portals) ==
  IF portals = {} THEN [w EXCEPT !.found = FALSE]
  ELSE LET t == CHOOSE t \in portals : TRUE
       IN  [w EXCEPT !.at = t, !.score = @ + Manhattan(w.at, t), !.waypoints = Append(@, t)]

(* build_chunk_portal_candidate: one axis after the other.                 *)
AxisStep(model, g, w, a) ==
  IF ~w.found \/ ChunkOf(w.at)[a] = ChunkOf(g)[a] THEN w
  ELSE Entered(w, BestPortal(model, ChunkOf(w.at), Toward(w, g, a), w.at, g))
AxisCandidate(model, s, g, order) ==
  FoldLeft(LAMBDA w, a : Applied(LAMBDA v : AxisStep(model, g, v, a), w,
                                 AbsDiff(ChunkOf(s)[a], ChunkOf(g)[a])),
           Walker(s), order)

(* build_greedy_chunk_portal_candidate: the best portal over all axes, of  *)
(* equals that of the first axis.                                          *)
GreedyStep(model, g, w) ==
  LET axes == {a \in Axes : ChunkOf(w.at)[a] # ChunkOf(g)[a]}
      nearest == [a \in axes |-> BestPortal(model, ChunkOf(w.at), Toward(w, g, a), w.at, g)] @@ <<>>
      score == [a \in {b \in axes : nearest[b] # {}} |->
                  Min({Detour(w.at, g, t) : t \in nearest[a]})] @@ <<>>
      best == {a \in DOMAIN score : \A b \in DOMAIN score :
                 score[a] < score[b] \/ (score[a] = score[b] /\ a <= b)}
  IN  IF ~w.found \/ axes = {} THEN w ELSE Entered(w, UNION {nearest[a] : a \in best})
GreedyCandidate(model, s, g) ==
  Applied(LAMBDA w : GreedyStep(model, g, w), Walker(s), Manhattan(ChunkOf(s), ChunkOf(g)))

AxisOrders == <<<<1, 2, 3>>, <<1, 3, 2>>, <<2, 1, 3>>, <<2, 3, 1>>, <<3, 1, 2>>, <<3, 2, 1>>>>

(* The waypoints of the first candidate with the best score, as a set.     *)
BestWaypoints(candidates, g) ==
  LET Total(c) == c.score + Manhattan(c.at, g)
      found == {i \in DOMAIN candidates : candidates[i].found}
  IN  {candidates[i].waypoints : i \in
         {j \in found : \A k \in found :
            Total(candidates[j]) < Total(candidates[k])
              \/ (Total(candidates[j]) = Total(candidates[k]) /\ j <= k)}}

SelectedWaypoints(m, s, g) ==
  LET model == RouteModels[m]
  IN  BestWaypoints(Append([i \in DOMAIN AxisOrders |-> AxisCandidate(model, s, g, AxisOrders[i])],
                           GreedyCandidate(model, s, g)), g)

(***************************************************************************)
(* The builders, by kind: the exact route, waypoints supplied or selected, *)
(* with or without the segment cache.                                      *)
(***************************************************************************)
NoRoute ==
  [model |-> "none", request |-> <<>>, waypoints |-> <<>>,
   kind |-> [portals |-> FALSE, cached |-> FALSE],
   status |-> "NotComputed", cost |-> 0, path |-> <<>>, deps |-> {}, seen |-> {}]

Refused(kind, request, status, cache) ==
  [Partial(cache) EXCEPT
     !.status = status,
     !.deps = IF kind.cached THEN {} ELSE FailureVersions(status, request[1], request[2])]

SuppliedOutcomes(m, kind, request, waypoints, cache) ==
  {Concluded(kind, p) : p \in Stitched(m, kind, request, waypoints, cache)}

(* The cached variant is not meant to be replayed.                         *)
PortalOutcomes(m, kind, request, cache) ==
  LET failure == EndpointStatus(RouteModels[m], request[1], request[2])
      chosen == SelectedWaypoints(m, request[1], request[2])
  IN  IF failure # "none" THEN {Refused(kind, request, failure, cache)}
      ELSE IF chosen = {} THEN {Refused(kind, request, "NoCandidate", cache)}
      ELSE {[p EXCEPT !.deps = IF kind.cached THEN {} ELSE @] :
              p \in UNION {SuppliedOutcomes(m, kind, request, w, cache) : w \in chosen}}

BuildRoute(m, kind, request, waypoints, outcomes) ==
  /\ \E o \in outcomes :
       /\ route' = [model |-> m, request |-> request, waypoints |-> waypoints, kind |-> kind,
                    status |-> o.status, cost |-> IF o.status = "Found" THEN o.cost ELSE 0,
                    path |-> o.path, deps |-> o.deps, seen |-> {version}]
       /\ segments' = o.cache
  /\ UNCHANGED world

(* build_weighted_route_product (no waypoints, no cache) and both          *)
(* build_weighted_portal_route_product.                                    *)
BuildSupplied(m, cached, request, waypoints) ==
  LET kind == [portals |-> FALSE, cached |-> cached]
  IN  BuildRoute(m, kind, request, waypoints, SuppliedOutcomes(m, kind, request, waypoints, segments))

(* build_weighted_chunk_portal_route_product and its _cached twin.         *)
BuildPortal(m, cached, request) ==
  LET kind == [portals |-> TRUE, cached |-> cached]
  IN  BuildRoute(m, kind, request, <<>>, PortalOutcomes(m, kind, request, segments))

SetSegmentBudget(budget) ==
  /\ segments' = WithSegmentBudget(segments, budget)
  /\ UNCHANGED <<world, route>>

SweepStale ==
  /\ segments' = [segments EXCEPT !.entries = SelectSeq(@, LAMBDA e : Unchanged(e.deps))]
  /\ UNCHANGED <<world, route>>

ClearSegments ==
  /\ segments' = [segments EXCEPT !.entries = <<>>, !.class = {}]
  /\ UNCHANGED <<world, route>>

PortalInit ==
  /\ \E budget \in SegmentBudgets : segments = [entries |-> <<>>, class |-> {}, budget |-> budget]
  /\ route = NoRoute

PortalNext ==
  \/ \E m \in DOMAIN RouteModels, r \in RouteRequests, cached \in BOOLEAN :
       \/ \E w \in WaypointLists : BuildSupplied(m, cached, r, w)
       \/ BuildPortal(m, cached, r)
  \/ \E budget \in SegmentBudgets : SetSegmentBudget(budget)
  \/ SweepStale
  \/ ClearSegments

(***************************************************************************)
(* Properties.                                                             *)
(***************************************************************************)
IsRoute(m, s, g, cost, path) ==
  /\ Head(path) = s /\ Last(path) = g
  /\ cost < Infinite /\ WalkCost(RouteModels[m], terrain, path) = cost

(* The cost of the cheapest way through the waypoints; Infinite or more    *)
(* when there is none.                                                     *)
CostThrough(m, s, waypoints, g) ==
  FoldLeft(LAMBDA sum, leg :
             sum + (IF EndpointStatus(RouteModels[m], leg[1], leg[2]) # "none" THEN Infinite
                    ELSE LeastCosts(RouteModels[m], terrain, {leg[2]})[leg[1]]),
           0, Legs(s, waypoints, g))

Replays == route.deps # {} /\ Unchanged(route.deps)

RouteIsTrue ==
  /\ route.status = "Found" =>
       IsRoute(route.model, route.request[1], route.request[2], route.cost, route.path)
  /\ \/ route.status \in {"InvalidStart", "InvalidGoal", "NoPath"}
     \/ route.status = "CostOverflow" /\ ~route.kind.cached /\ ~route.kind.portals
     => CostThrough(route.model, route.request[1], route.waypoints, route.request[2]) >= Infinite

(* What building the product again, without segments, would report now.    *)
RebuiltStatuses ==
  LET exact == [route.kind EXCEPT !.cached = FALSE]
      nothing == [entries |-> <<>>, class |-> {}, budget |-> 0]
  IN  {o.status : o \in
         IF exact.portals THEN PortalOutcomes(route.model, exact, route.request, nothing)
         ELSE SuppliedOutcomes(route.model, exact, route.request, route.waypoints, nothing)}

(* A failure outlives an edit elsewhere.  A total that overflowed may have *)
(* been summed over segments that were the cheapest when they were stored. *)
ReplaysAFailure ==
  /\ route.status # "Found" /\ Replays /\ version \notin route.seen
  /\ ~(route.status = "CostOverflow" /\ route.kind.cached)

(* The failure is that of a leg after the first, whose endpoints' chunks   *)
(* are all that the product depends on: the legs before it are not.        *)
LaterLegIsBlamed ==
  LET legs == Legs(route.request[1], route.waypoints, route.request[2])
  IN  /\ route.status = "InvalidGoal"
      /\ \E i \in 2 .. Len(legs) :
           {d.key : d \in route.deps} = {ChunkOf(legs[i][1]), ChunkOf(legs[i][2])}

SegmentsAreTrue(m) ==
  \A e \in ToSet(segments.entries) :
    Unchanged(e.deps) =>
      /\ IsRoute(m, e.start, e.goal, e.cost, e.path)
      /\ LiveSegments(segments, e.start, e.goal) = <<e>>

(* A replayed route, or a segment served in its place, must be one the     *)
(* class can walk now at the price it names: checked of the route as       *)
(* built, of what replays of it later, and of each segment that a lookup   *)
(* may still find, for classes whose steps read no tile off the route.  A  *)
(* replayed failure must be what building again would report, whatever the *)
(* class ("must be invalidated by any edit that could change the answer",  *)
(* path.h:1913), but for a closed waypoint or goal of a later leg, of      *)
(* which it is only true that there is no way through.  The cache keeps    *)
(* within its budget.                                                      *)
ReplaysAreTrue ==
  /\ Len(segments.entries) <= segments.budget
  /\ \A m \in segments.class : StepsOverFaces(RouteModels[m]) => SegmentsAreTrue(m)
  /\ (/\ route.model # "none" /\ (route.seen = {version} \/ Replays)
      /\ StepsOverFaces(RouteModels[route.model]) \/ ~(Replays \/ route.kind.cached))
     => RouteIsTrue
  /\ ReplaysAFailure /\ ~LaterLegIsBlamed => route.status \in RebuiltStatuses

(* "A replayed failure must be invalidated by any edit that could change   *)
(* the answer" (path.h:1913), and the products over waypoints keep the     *)
(* "same failure-dependency contract" (path.h:1971): whichever leg failed, *)
(* building again would report the failure that is replayed.               *)
ReplayedFailuresAreCurrent == ReplaysAFailure => route.status \in RebuiltStatuses

(* "A cached diagonal path is invalidated when an edit changes a clearance *)
(* tile in a chunk containing none of the path's returned nodes"           *)
(* (docs/tdd/lattice-and-transition-model.md:950): whatever the class, a   *)
(* route that replays is one it can walk.                                  *)
ReplaysAreWalkable ==
  route.status = "Found" /\ Replays =>
    IsRoute(route.model, route.request[1], route.request[2], route.cost, route.path)
=============================================================================
