----------------------------- MODULE PathSearch -----------------------------
(***************************************************************************)
(* astar_path and weighted_astar_path of path/detail/astar.h: one query    *)
(* from its validation through the shortcuts that answer it without a      *)
(* search to the pops of the open list, one pop per step.  The unit search *)
(* keeps two stacks, for the current f and for f + 2; the weighted search, *)
(* which also serves hex, diagonal and special-edge models, keeps a heap.  *)
(*                                                                         *)
(* Shortcuts run on worlds where everything is resident.  Which of several *)
(* equal nodes the heap yields is left open, as PathTieBreak seeds do.     *)
(***************************************************************************)
EXTENDS DistanceFields

CONSTANTS
  SearchModels,   \* transition models, by id
  Queries         \* the queries asked: see the variable

IsModel(m) ==
  m \in [lattice : {"orthogonal", "hex"}, steps : {"default", "both", "one"},
         passes : SUBSET DOMAIN m.cost, cost : [DOMAIN m.cost -> Nat],
         special : Seq([from : Tiles, to : Tiles, cost : Nat, missing : BOOLEAN])]

IsQuery(q) ==
  /\ q \in [model : DOMAIN SearchModels, unit : BOOLEAN, field : [Tiles -> Int], sparse : BOOLEAN,
            start : Tiles, goal : Tiles, policy : {"ReportIndeterminate", "AssumeImpassable"},
            kind : {"single", "batch", "field"}, domain : SUBSET Tiles, others : SUBSET Tiles]
  /\ q.kind # "field" => q.domain = Tiles

(* The last conjunct: no f of a unit search over faces is cut off at the   *)
(* largest cost.                                                           *)
ASSUME SearchAssumption ==
  /\ \A id \in DOMAIN SearchModels : IsModel(SearchModels[id])
  /\ \A q \in Queries : IsQuery(q)
  /\ Cardinality(Tiles) + Size[1] + Size[2] + Size[3] <= Infinite

VARIABLES
  query,      \* [model, unit, field, sparse, start, goal, policy, kind,
              \* domain, others]: unit is astar_path, sparse the type of the
              \* world, policy "ReportIndeterminate" or "AssumeImpassable";
              \* how the query is put, the tiles it may use (all of them for
              \* a search) and the starts it shares a goal with
  phase,      \* "ready", "searching", "done"
  frontier,   \* g, parent, closed, the open nodes and the two flags
  result,     \* [status, cost, path]
  truth       \* history: the least costs from the start, by relaxation

search_vars == <<query, phase, frontier, result, truth>>

Field == query.field
ModelOf(q) == IF q.unit THEN AsUnit(SearchModels[q.model]) ELSE SearchModels[q.model]
Model == ModelOf(query)
Dense == ~query.sparse
Open(t) == IsPassable(Model, Field, t)

(* The two-band frontier is for unit steps over faces; everything else,    *)
(* and every query with a provider, goes through the heap.                 *)
Banded == /\ query.unit
          /\ Model.lattice = "orthogonal" /\ Model.steps = "default"
          /\ ~HasSpecial(Model)

Failed(status) == [status |-> status, cost |-> 0, path |-> <<>>]
Found(cost, path) == [status |-> "Found", cost |-> cost, path |-> path]

(***************************************************************************)
(* Validation.                                                             *)
(***************************************************************************)
EndpointFailure(t, invalid) ==
  IF Field[t] = Missing
  THEN IF query.policy = "ReportIndeterminate" THEN "Indeterminate" ELSE invalid
  ELSE IF ~Open(t) THEN invalid ELSE "none"

(* Entry cost 0 at an endpoint is found only after both are known passable.*)
Rejection ==
  LET start == EndpointFailure(query.start, "InvalidStart")
      goal == EndpointFailure(query.goal, "InvalidGoal")
  IN  IF start # "none" THEN start
      ELSE IF goal # "none" THEN goal
      ELSE IF EntryCost(Model, Field, query.start) = 0 THEN "InvalidStart"
      ELSE IF EntryCost(Model, Field, query.goal) = 0 THEN "InvalidGoal"
      ELSE "none"

(***************************************************************************)
(* Shortcuts of the unit search.                                           *)
(***************************************************************************)
AllOrders == << <<1, 2, 3>>, <<2, 1, 3>>, <<1, 3, 2>>, <<3, 1, 2>>, <<2, 3, 1>>, <<3, 2, 1>> >>
WalkOrders ==
  IF Degenerate(3) THEN << <<1, 2, 3>>, <<2, 1, 3>> >>
  ELSE IF Degenerate(2) THEN << <<1, 3, 2>>, <<3, 1, 2>> >>
  ELSE IF Degenerate(1) THEN << <<2, 3, 1>>, <<3, 2, 1>> >>
  ELSE AllOrders

WalkIsOpen(s, g, order) == \A i \in DOMAIN Walk(s, g, order) : Open(Walk(s, g, order)[i])

(* The first tile of the walk that stops it and the axis it lies on.       *)
Stop(s, g, order) ==
  LET walk == <<s>> \o Walk(s, g, order)
      at == Min({i \in DOMAIN walk : i > 1 /\ ~Open(walk[i])})
  IN  [tile |-> walk[at], axis |-> CHOOSE a \in Axes : walk[at][a] # walk[at - 1][a]]

Plane(tile, axis) == {t \in Tiles : t[axis] = tile[axis]}
IsBarrier(stop) == \A t \in Plane(stop.tile, stop.axis) : ~Open(t)

(* The direct orders are tried until one is open or stops at a barrier.    *)
LastTried ==
  LET Ends(k) == \/ WalkIsOpen(query.start, query.goal, WalkOrders[k])
                 \/ IsBarrier(Stop(query.start, query.goal, WalkOrders[k]))
  IN  Min({k \in DOMAIN WalkOrders : Ends(k)} \cup {Len(WalkOrders)})

(* From s to g by the first open walk, <<>> when there is none.            *)
Segment(s, g, orders) ==
  LET open == {k \in DOMAIN orders : WalkIsOpen(s, g, orders[k])}
  IN  IF open = {} THEN {} ELSE {Walk(s, g, orders[Min(open)])}

(* The passable tile of the blocking plane nearest to both ends, the first *)
(* of equals in scan order.                                                *)
ScannedBefore(t, u) ==
  \/ t[1] < u[1]
  \/ t[1] = u[1] /\ t[2] < u[2]
  \/ t[1] = u[1] /\ t[2] = u[2] /\ t[3] < u[3]

PlaneGap(stop) ==
  LET gaps == {t \in Plane(stop.tile, stop.axis) : Open(t)}
      Detour(t) == Manhattan(query.start, t) + Manhattan(t, query.goal)
      best == Cheapest(gaps, Detour)
  IN  {t \in best : \A u \in best \ {t} : ScannedBefore(t, u)}

SegmentOrders(axis) ==
  IF \A a \in Axes : ~Degenerate(a)
  THEN << <<1, 2, 3>>, <<1, 3, 2>>, <<2, 1, 3>>, <<2, 3, 1>>, <<3, 1, 2>>, <<3, 2, 1>> >>
  ELSE LET flat == CHOOSE a \in Axes \ {axis} : Degenerate(a)
           other == CHOOSE a \in Axes : a \notin {axis, flat}
       IN  << <<axis, other, flat>>, <<other, axis, flat>> >>

PlaneGapRoutes(stop) ==
  UNION {{<<query.start>> \o leg \o rest :
            leg \in Segment(query.start, gap, SegmentOrders(stop.axis)),
            rest \in Segment(gap, query.goal, SegmentOrders(stop.axis))}
           : gap \in PlaneGap(stop)}

(* Mutant: one gap of several is as good as the only one. *)
ForcedStepAnyGap(walk, axis, across) ==
  LET at == Last(walk.path)
      next == Offset(at, Along(axis, Sign(query.start[axis], query.goal[axis])))
      gaps == {t \in Plane(next, axis) : Open(t)}
      Through(gap) == Line(at, across, gap[across])
                        \o Line(Corner(at, across, gap[across]), axis, gap[axis])
  IN  IF walk.verdict # "open" THEN walk
      ELSE IF Open(next) THEN [walk EXCEPT !.path = Append(@, next)]
      ELSE IF gaps = {} THEN [walk EXCEPT !.verdict = "sealed"]
      ELSE LET steps == Through(CHOOSE gap \in gaps : TRUE)
           IN  IF \A i \in DOMAIN steps : Open(steps[i])
               THEN [walk EXCEPT !.path = @ \o steps, !.forced = TRUE]
               ELSE [walk EXCEPT !.verdict = "unclear"]

(* Forced gaps, in a plane shape: towards the goal along one axis, through *)
(* every line that can be passed at one tile only.                         *)
ForcedStep(walk, axis, across) ==
  LET at == Last(walk.path)
      next == Offset(at, Along(axis, Sign(query.start[axis], query.goal[axis])))
      gaps == {t \in Plane(next, axis) : Open(t)}
      Through(gap) == Line(at, across, gap[across])
                        \o Line(Corner(at, across, gap[across]), axis, gap[axis])
  IN  IF walk.verdict # "open" THEN walk
      ELSE IF Open(next) THEN [walk EXCEPT !.path = Append(@, next)]
      ELSE IF gaps = {} THEN [walk EXCEPT !.verdict = "sealed"]
      ELSE IF Cardinality(gaps) > 1 THEN [walk EXCEPT !.verdict = "unclear"]
      ELSE LET steps == Through(CHOOSE gap \in gaps : TRUE)
           IN  IF \A i \in DOMAIN steps : Open(steps[i])
               THEN [walk EXCEPT !.path = @ \o steps, !.forced = TRUE]
               ELSE [walk EXCEPT !.verdict = "unclear"]

ForcedWalk(axis) ==
  LET across == CHOOSE a \in Axes \ {axis} : ~Degenerate(a)
      walk == FoldLeft(LAMBDA w, i : ForcedStep(w, axis, across),
                       [path |-> <<query.start>>, forced |-> FALSE, verdict |-> "open"],
                       [i \in 1 .. AbsDiff(query.start[axis], query.goal[axis]) |-> i])
      rest == Line(Last(walk.path), across, query.goal[across])
  IN  IF walk.verdict # "open" \/ ~walk.forced THEN walk
      ELSE IF \A i \in DOMAIN rest : Open(rest[i])
        THEN [walk EXCEPT !.path = @ \o rest]
        ELSE [walk EXCEPT !.verdict = "unclear"]

ForcedAxes ==
  IF \A a \in Axes : ~Degenerate(a) THEN {}
  ELSE {a \in Axes : ~Degenerate(a) /\ query.start[a] # query.goal[a]}

(* The axes are tried in order and the first forced route wins.            *)
ForcedOutcome ==
  LET walks == [a \in ForcedAxes |-> ForcedWalk(a)]
      routes == {a \in ForcedAxes : walks[a].forced /\ walks[a].verdict = "open"}
  IN  IF routes # {} THEN {Found(Hops(walks[Min(routes)].path), walks[Min(routes)].path)}
      ELSE IF \E a \in ForcedAxes : walks[a].verdict = "sealed" THEN {Failed("NoPath")}
      ELSE {}

(* One step aside, straight on, one step back.                             *)
DetourOffsets(primary) ==
  LET aside == IF primary = 1 THEN <<2, 3>> ELSE IF primary = 2 THEN <<1, 3>> ELSE <<1, 2>>
  IN  <<Along(aside[1], 1), Along(aside[1], -1), Along(aside[2], 1), Along(aside[2], -1)>>

DetourPath(primary, d) ==
  LET out == Offset(query.start, d)
  IN  <<out>> \o Line(out, primary, query.goal[primary]) \o <<query.goal>>

(* The first detour along `primary` over accepted tiles.                   *)
DetourOutcome(primary, accepted) ==
  LET aligned == \A a \in Axes \ {primary} : query.start[a] = query.goal[a]
      offsets == DetourOffsets(primary)
      good == {i \in DOMAIN offsets : ToSet(DetourPath(primary, offsets[i])) \subseteq accepted}
  IN  IF aligned /\ good # {}
      THEN {Found(Saturated(Manhattan(query.start, query.goal) + 2),
                  <<query.start>> \o DetourPath(primary, offsets[Min(good)]))}
      ELSE {}

(* What the next alternative gives when the ones before gave nothing.      *)
Otherwise(outcome, next) == IF outcome # {} THEN outcome ELSE next
Detours(accepted) ==
  Otherwise(DetourOutcome(1, accepted),
            Otherwise(DetourOutcome(2, accepted), DetourOutcome(3, accepted)))

Routed(paths) == {Found(Hops(p), p) : p \in paths}

UnitShortcut ==
  LET order == WalkOrders[LastTried]
      stop == Stop(query.start, query.goal, order)
  IN  IF WalkIsOpen(query.start, query.goal, order)
      THEN Routed({<<query.start>> \o Walk(query.start, query.goal, order)})
      ELSE IF IsBarrier(stop) THEN {Failed("NoPath")}
      ELSE Otherwise(Routed(PlaneGapRoutes(stop)), Otherwise(ForcedOutcome, Detours({t \in Tiles : Open(t)})))

(***************************************************************************)
(* Shortcuts of the weighted search: over tiles of cost 1 only.            *)
(***************************************************************************)
HeapWalkOrders ==
  IF WalkOrders = AllOrders
  THEN << <<1, 2, 3>>, <<1, 3, 2>>, <<2, 1, 3>>, <<2, 3, 1>>, <<3, 1, 2>>, <<3, 2, 1>> >>
  ELSE WalkOrders

CostsOne(t) == Open(t) /\ EntryCost(Model, Field, t) = 1
Shut(t) == ~Open(t) \/ EntryCost(Model, Field, t) = 0
FirstNotOne(walk) == Min({i \in DOMAIN walk : ~CostsOne(walk[i])})

HeapShortcut ==
  LET walks == [k \in DOMAIN HeapWalkOrders |->
                  Walk(query.start, query.goal, HeapWalkOrders[k])]
      direct == {k \in DOMAIN walks : \A i \in DOMAIN walks[k] : CostsOne(walks[k][i])}
      blocked == \E k \in DOMAIN walks : Shut(walks[k][FirstNotOne(walks[k])])
  IN  IF direct # {} THEN Routed({<<query.start>> \o walks[Min(direct)]})
      ELSE IF blocked THEN Detours({t \in Tiles : CostsOne(t)}) ELSE {}

Shortcut ==
  IF ~Dense THEN {}
  ELSE IF Banded THEN UnitShortcut
  ELSE IF ~HasSpecial(Model) /\ Model.steps = "default" /\ Model.lattice = "orthogonal"
    THEN HeapShortcut ELSE {}

(***************************************************************************)
(* The search.                                                             *)
(***************************************************************************)
Node(t, g) == [tile |-> t, g |-> g,
               f |-> Saturated(g + Heuristic(Model, t, query.goal))]

FirstFrontier ==
  [g |-> [t \in Tiles |-> IF t = query.start THEN 0 ELSE Infinite],
   parent |-> [t \in Tiles |-> t], closed |-> {},
   band |-> Heuristic(Model, query.start, query.goal),
   open |-> <<Node(query.start, 0)>>, later |-> <<>>,
   missed |-> FALSE, overflowed |-> FALSE]

(* The node popped: the top of the stack, or a least one of the heap by    *)
(* f, then by greater g.                                                   *)
NodeLess(n, k) == n.f < k.f \/ (n.f = k.f /\ n.g > k.g)
Swapped(fr) ==
  IF Banded /\ fr.open = <<>>
  THEN [fr EXCEPT !.open = fr.later, !.later = <<>>, !.band = Saturated(@ + 2)]
  ELSE fr
PoppedIndices(open) ==
  IF Banded THEN {Len(open)}
  ELSE {i \in DOMAIN open : \A k \in DOMAIN open : ~NodeLess(open[k], open[i])}

Pushed(fr, node) ==
  IF Banded /\ node.f > fr.band THEN [fr EXCEPT !.later = Append(@, node)]
  ELSE [fr EXCEPT !.open = Append(@, node)]

(* Relaxation of one probe out of `node`.                                  *)
Relaxed(fr, node, probe) ==
  LET tentative == IF Banded THEN node.g + 1 ELSE Saturated(node.g + probe.cost)
  IN  IF probe.kind = "missing" THEN [fr EXCEPT !.missed = TRUE]
      ELSE IF probe.kind = "overflow" THEN [fr EXCEPT !.overflowed = TRUE]
      ELSE IF probe.to \in fr.closed THEN fr
      ELSE IF tentative = Infinite /\ ~Banded THEN [fr EXCEPT !.overflowed = TRUE]
      ELSE IF tentative >= fr.g[probe.to] THEN fr
      ELSE Pushed([fr EXCEPT !.g[probe.to] = tentative,
                             !.parent[probe.to] = node.tile],
                  Node(probe.to, tentative))

Expanded(fr, node) ==
  FoldLeft(LAMBDA acc, p : Relaxed(acc, node, p),
           [fr EXCEPT !.closed = @ \cup {node.tile}],
           ForwardProbes(Model, Field, node.tile))

(* The parents from the goal back to the start, reversed.                  *)
Traced(fr) ==
  Iterated(LAMBDA path : IF Head(path) = query.start THEN path
                         ELSE <<fr.parent[Head(path)]>> \o path, <<query.goal>>)

(***************************************************************************)
(* Least costs from the start, by as many rounds of relaxation as there    *)
(* are tiles: the reference.                                               *)
(***************************************************************************)
StepsWithin(q) ==
  UNION {{t} \X {p \in LegalSteps(ModelOf(q), q.field, t) : p.to \in q.domain} : t \in q.domain}

CheaperBy(steps, cost) ==
  LET next == [t \in Tiles |->
                 Min({cost[t]} \cup {Saturated(cost[s[1]] + s[2].cost) :
                                     s \in {x \in steps : x[2].to = t}})]
  IN  IF next = cost THEN cost ELSE next

CostsFromStart(q) ==
  LET steps == StepsWithin(q)
      Round(cost) == CheaperBy(steps, cost)
  IN  Iterated(Round, [t \in Tiles |-> IF t = q.start THEN 0 ELSE Infinite])

(***************************************************************************)
(* Actions.                                                                *)
(***************************************************************************)
SearchInit ==
  /\ query \in Queries
  /\ phase = "ready"
  /\ frontier = <<>>
  /\ result = Failed("NotComputed")
  /\ truth = CostsFromStart(query)

Finish(r) == phase' = "done" /\ result' = r

Begin ==
  /\ phase = "ready"
  /\ IF Rejection # "none" THEN Finish(Failed(Rejection)) /\ UNCHANGED frontier
     ELSE \E outcome \in {Shortcut} :
       IF outcome # {}
       THEN (\E r \in outcome : Finish(r)) /\ UNCHANGED frontier
       ELSE phase' = "searching" /\ frontier' = FirstFrontier /\ UNCHANGED result
  /\ UNCHANGED <<query, truth>>

Pop ==
  /\ phase = "searching"
  /\ frontier.open # <<>> \/ frontier.later # <<>>
  /\ \E fr \in {Swapped(frontier)} : \E i \in PoppedIndices(fr.open) :
       LET node == fr.open[i]
           rest == [fr EXCEPT !.open = RemoveAt(@, i)]
       IN  IF node.tile \in fr.closed \/ node.g # fr.g[node.tile]
           THEN frontier' = rest /\ UNCHANGED <<phase, result>>
           ELSE IF node.tile = query.goal
           THEN /\ frontier' = [rest EXCEPT !.closed = @ \cup {node.tile}]
                /\ Finish(Found(node.g, Traced(rest)))
           ELSE frontier' = Expanded(rest, node) /\ UNCHANGED <<phase, result>>
  /\ UNCHANGED <<query, truth>>

Exhaust ==
  /\ phase = "searching"
  /\ frontier.open = <<>> /\ frontier.later = <<>>
  /\ Finish(Failed(IF ~Dense /\ frontier.missed /\ query.policy = "ReportIndeterminate"
                   THEN "Indeterminate"
                   ELSE IF frontier.overflowed /\ ~Banded THEN "CostOverflow"
                   ELSE "NoPath"))
  /\ UNCHANGED <<query, frontier, truth>>

Answered == phase = "done" /\ UNCHANGED search_vars

-----------------------------------------------------------------------------
(* weighted_path_batch of path/detail/weighted_batch.h seen by one of its  *)
(* requests, and the direct readers of distance fields.  Requests with the *)
(* same goal share one reverse field; a request alone with its goal, and   *)
(* one its field says nothing certain about, is searched for as above.     *)
Grouped == query.kind = "batch" /\ query.others # {}

(* The starts that the group's reads will need.                            *)
Targets ==
  {t \in query.others \cup {query.start} :
     Field[t] # Missing /\ Open(t) /\ EntryCost(Model, Field, t) # 0}

GroupField == BuiltBounded(Model, Field, query.goal, Targets, Dense, query.policy)
OwnField == BuiltField(Model, Field, query.goal, query.domain, Dense, query.policy)

(* weighted_group_member_failure: what a request reports of a field that   *)
(* could not be built.                                                     *)
MemberFailure(status) ==
  LET start == EndpointFailure(query.start, "InvalidStart")
  IN  IF start # "none" THEN start
      ELSE IF Open(query.goal) /\ EntryCost(Model, Field, query.start) = 0 THEN "InvalidStart"
      ELSE status

(* What the shared field answers; nothing when the request is to be        *)
(* searched for on its own.                                                *)
FieldAnswer(built) ==
  LET read == FieldPath(Model, Field, built, query.start)
  IN  IF built.status \in {"Found", "Indeterminate"}
        THEN IF read.status = "Found" \/ built.status = "Found" THEN {read} ELSE {}
      ELSE IF built.status = "CostOverflow" THEN {}
      ELSE {Failed(MemberFailure(built.status))}

GroupAnswer == IF Grouped THEN FieldAnswer(GroupField) ELSE {}

ReadGroup ==
  /\ phase = "ready" /\ Grouped
  /\ \E answer \in GroupAnswer : Finish(answer)
  /\ UNCHANGED <<query, frontier, truth>>

(* A caller builds a field, in a box or not, and reads it.                 *)
ReadField ==
  /\ phase = "ready" /\ query.kind = "field"
  /\ Finish(FieldPath(Model, Field, OwnField, query.start))
  /\ UNCHANGED <<query, frontier, truth>>

Search ==
  /\ query.kind \in {"single", "batch"}
  /\ GroupAnswer = {}
  /\ Begin

SearchNext == Search \/ Pop \/ Exhaust \/ ReadGroup \/ ReadField \/ Answered
SearchSpec == SearchInit /\ [][SearchNext]_search_vars

(***************************************************************************)
(* Properties.                                                             *)
(***************************************************************************)
SearchTypeOK ==
  /\ phase \in {"ready", "searching", "done"}
  /\ result.status \in {"NotComputed", "Found", "NoPath", "InvalidStart", "InvalidGoal",
                        "Indeterminate", "CostOverflow"}
  /\ phase = "searching" => frontier.closed \subseteq Tiles

PriceOf(path) ==
  FoldLeft(LAMBDA sum, i : Saturated(sum + StepCost(Model, Field, path[i], path[i + 1])),
           0, [i \in 1 .. Hops(path) |-> i])

(* A found route is one that the class may walk, costs what the result     *)
(* says, and no cheaper one exists, whichever shortcut, band or heap       *)
(* order of astar.h produced it.                                           *)
FoundIsShortest ==
  result.status = "Found" =>
    /\ Head(result.path) = query.start /\ Last(result.path) = query.goal
    /\ PriceOf(result.path) = result.cost
    /\ result.cost = truth[query.goal] /\ result.cost < Infinite

(* A failure is a proof: NoPath and CostOverflow only when no route of a   *)
(* representable cost exists, NoPath under ReportIndeterminate only when   *)
(* none would exist whatever the missing chunks held, Indeterminate only   *)
(* in a sparse world (astar.h:643, "an exhausted search can return         *)
(* Indeterminate rather than a NoPath it cannot justify").                 *)
BestKnown == [t \in Tiles |-> IF Field[t] = Missing
                              THEN CHOOSE v \in Model.passes : Model.cost[v] # 0 ELSE Field[t]]
Walkable(field) ==
  Iterated(LAMBDA reached :
             reached \cup ({p.to : p \in UNION {ToSet(ForwardProbes(Model, field, t)) : t \in reached}}
                            \cap query.domain),
           {query.start} \cap query.domain)
FailuresAreProofs ==
  phase = "done" =>
    /\ result.status \in {"NoPath", "CostOverflow", "Indeterminate"} /\ Open(query.start)
         => truth[query.goal] = Infinite
    /\ result.status = "NoPath" /\ (query.policy = "ReportIndeterminate" \/ Dense)
         => query.goal \notin Walkable(BestKnown)
    /\ result.status = "Indeterminate" => ~Dense /\ query.policy = "ReportIndeterminate"

(* An endpoint is blamed when it is at fault, for what it is: searched for *)
(* alone, grouped, or read from a field, a query that the validation of    *)
(* astar.h refuses gets that refusal and no other answer.  Two exceptions: *)
(* a withdrawn field answers NotComputed, and a reader that does find a    *)
(* field calls a start in a missing chunk InvalidStart when the flood met  *)
(* no missing chunk (weighted_batch.h:317-326), although the policy is     *)
(* ReportIndeterminate.                                                    *)
StartIsUnread == Field[query.start] = Missing /\ (Grouped \/ query.kind = "field")
EndpointsAreJudged ==
  phase = "done" =>
    /\ result.status = "NotComputed" => query.kind = "field"
    /\ IF Rejection = "none" THEN result.status \notin {"InvalidStart", "InvalidGoal"}
       ELSE \/ result.status \in {Rejection, "NotComputed"}
            \/ result.status = "InvalidStart" /\ StartIsUnread

(* Whatever the frontier, the shortcut or the field an answer came from.   *)
AnswersAreExact == FoundIsShortest /\ FailuresAreProofs /\ EndpointsAreJudged

(* "Grouping cannot weaken or strengthen their per-request status"         *)
(* (weighted_batch.h:675-678): a member of a batch that would be refused   *)
(* alone is refused with the same status in its group.                     *)
GroupingKeepsStatus ==
  phase = "done" /\ Grouped /\ Rejection # "none" => result.status = Rejection

(* A tile is closed at its least cost, for it is never reopened, and the   *)
(* two stacks hold exactly f and f + 2 ("every unit face step changing     *)
(* Manhattan distance by exactly one", astar.h:37): both fail as soon as a *)
(* heuristic overestimates or a band is swapped too early.  Nodes whose f  *)
(* is cut off at the largest cost tie, and are beyond any promise; a goal  *)
(* is not among them, so that what the search finds is least, and what it  *)
(* does not find is out of reach.                                          *)
ClosedIsFinal ==
  frontier # <<>> =>
    /\ \A t \in frontier.closed :
         Node(t, frontier.g[t]).f < Infinite => frontier.g[t] = truth[t]
    /\ phase = "done" =>
         IF result.status = "Found" THEN result.cost = truth[query.goal] /\ result.cost < Infinite
         ELSE truth[query.goal] = Infinite
    /\ Banded => /\ \A i \in DOMAIN frontier.open : frontier.open[i].f = frontier.band
                 /\ \A i \in DOMAIN frontier.later : frontier.later[i].f = frontier.band + 2
=============================================================================
