--------------------------- MODULE DistanceFields ---------------------------
(***************************************************************************)
(* Goal-rooted distance fields of path/path.h: a flood over reverse steps  *)
(* from the goal, the bucket flood that may stop once the starts that will *)
(* be read are settled, and the reader that descends a field.              *)
(*                                                                         *)
(* A flood is a record: the labels, the labelled tiles not yet expanded,   *)
(* whether a step into a missing chunk was skipped, whether some label     *)
(* passed the largest cost, and why it stopped.  Heaps and bucket rings    *)
(* are left out: what they do is yield an unexpanded tile of least label.  *)
(***************************************************************************)
EXTENDS TransitionModel

CONSTANT MaxBucketCost    \* MaxCost of the bucket ring

ASSUME BucketAssumption == MaxBucketCost \in Nat \ {0}

Seeded(goals) ==
  [distance |-> [t \in Tiles |-> IF t \in goals THEN 0 ELSE Infinite],
   open |-> goals, missed |-> FALSE, overflowed |-> FALSE, stop |-> "running"]

NextLabel(fl) == CHOOSE t \in fl.open : \A u \in fl.open : fl.distance[t] <= fl.distance[u]

(* One relaxation: the label of probe.to by a step into `from`.            *)
Labelled(fl, from, probe) ==
  LET next == Saturated(fl.distance[from] + probe.cost)
  IN  IF probe.kind = "missing" THEN [fl EXCEPT !.missed = TRUE]
      ELSE IF probe.kind = "overflow" \/ next = Infinite THEN [fl EXCEPT !.overflowed = TRUE]
      ELSE IF next >= fl.distance[probe.to] THEN fl
      ELSE [fl EXCEPT !.distance[probe.to] = next, !.open = @ \cup {probe.to}]

Flooded(fl, m, field, domain, t) ==
  FoldLeft(LAMBDA acc, p : IF p.to \in domain THEN Labelled(acc, t, p) ELSE acc,
           [fl EXCEPT !.open = @ \ {t}], ReverseProbes(m, field, t))

(* The exhaustive floods: unit, weighted, and confined to a box.           *)
Flood(m, field, goals, domain) ==
  Iterated(LAMBDA fl : IF fl.open = {} THEN fl
                       ELSE Flooded(fl, m, field, domain, NextLabel(fl)),
           Seeded(goals))

(***************************************************************************)
(* The bucket flood.  `targets` are the starts to settle; it gives up on a *)
(* cost that does not fit the ring, and at the first label that saturates, *)
(* whether or not a neighbor would have taken it.                          *)
(***************************************************************************)
HasBuckets(m) == m.steps = "default" /\ m.lattice = "orthogonal" /\ ~HasSpecial(m)

BucketStep(fl, m, field, targets) ==
  LET t == NextLabel(fl)
      price == EntryCost(m, field, t)
  IN  IF fl.stop # "running" \/ fl.open = {} THEN fl
      ELSE IF t \in targets /\ targets \cap (fl.open \ {t}) = {}
              /\ \A u \in targets : fl.distance[u] < Infinite
        THEN [fl EXCEPT !.stop = "settled", !.open = @ \ {t}]
      ELSE IF Saturated(fl.distance[t] + price) = Infinite THEN [fl EXCEPT !.stop = "overflow"]
      ELSE IF price > MaxBucketCost THEN [fl EXCEPT !.stop = "costly"]
      ELSE Flooded(fl, m, field, Tiles, t)

BucketFlood(m, field, goal, targets) ==
  Iterated(LAMBDA fl : BucketStep(fl, m, field, targets), Seeded({goal}))

(***************************************************************************)
(* What a build leaves in the scratch: a status, and labels when the       *)
(* status can be read through.                                             *)
(***************************************************************************)
Unbuilt(status) == [status |-> status, kept |-> FALSE, distance |-> <<>>]

Published(fl, dense, policy) ==
  IF fl.missed /\ ~dense /\ policy = "ReportIndeterminate"
    THEN [status |-> "Indeterminate", kept |-> TRUE, distance |-> fl.distance]
  ELSE IF fl.overflowed THEN Unbuilt("CostOverflow")
  ELSE [status |-> "Found", kept |-> TRUE, distance |-> fl.distance]

GoalFailure(m, field, goal, domain, policy) ==
  IF goal \notin domain THEN "InvalidGoal"
  ELSE IF field[goal] = Missing
    THEN IF policy = "ReportIndeterminate" THEN "Indeterminate" ELSE "InvalidGoal"
  ELSE IF ~IsPassable(m, field, goal) \/ EntryCost(m, field, goal) = 0 THEN "InvalidGoal"
  ELSE "none"

BuiltField(m, field, goal, domain, dense, policy) ==
  LET failure == GoalFailure(m, field, goal, domain, policy)
  IN  IF failure # "none" THEN Unbuilt(failure)
      ELSE Published(Flood(m, field, {goal}, domain), dense, policy)

(* The bucket build: targets are armed only when nothing can turn out to   *)
(* be missing.                                                             *)
BuiltBounded(m, field, goal, targets, dense, policy) ==
  LET armed == IF dense \/ policy = "AssumeImpassable" THEN targets ELSE {}
      fl == BucketFlood(m, field, goal, armed)
      failure == GoalFailure(m, field, goal, Tiles, policy)
      exact == BuiltField(m, field, goal, Tiles, dense, policy)
  IN  IF ~HasBuckets(m) \/ failure # "none" THEN exact
      ELSE IF fl.stop = "costly" THEN exact
      ELSE IF fl.stop = "overflow"
        THEN IF ~dense /\ policy = "ReportIndeterminate" THEN exact ELSE Unbuilt("CostOverflow")
      ELSE IF fl.stop = "settled"
        THEN [status |-> "Found", kept |-> TRUE, distance |-> fl.distance]
      ELSE Published(fl, dense, policy)

(***************************************************************************)
(* Reading a field from `start`.                                           *)
(***************************************************************************)
DownhillSteps(m, field, distance, t) ==
  {p \in LegalSteps(m, field, t) :
     distance[p.to] < distance[t] /\ Saturated(distance[p.to] + p.cost) = distance[t]}

(* One step of the descent, to a least label, until a goal is reached;     *)
(* stuck when there is none.                                               *)
Downhill(m, field, distance, path) ==
  LET steps == DownhillSteps(m, field, distance, Last(path))
      least == {p \in steps : \A r \in steps : distance[p.to] <= distance[r.to]}
  IN  IF distance[Last(path)] = 0 \/ steps = {} THEN path
      ELSE Append(path, (CHOOSE p \in least : TRUE).to)

Descended(m, field, distance, start) ==
  Iterated(LAMBDA path : Downhill(m, field, distance, path), <<start>>)

Reading(status, cost, path) == [status |-> status, cost |-> cost, path |-> path]

FieldPath(m, field, built, start) ==
  LET path == Descended(m, field, built.distance, start)
  IN  IF ~built.kept THEN Reading("NotComputed", 0, <<>>)
      ELSE IF field[start] = Missing
        THEN Reading(IF built.status = "Indeterminate" THEN "Indeterminate" ELSE "InvalidStart", 0, <<>>)
      ELSE IF ~IsPassable(m, field, start) \/ EntryCost(m, field, start) = 0
        THEN Reading("InvalidStart", 0, <<>>)
      ELSE IF built.distance[start] = Infinite
        THEN Reading(IF built.status = "Found" THEN "NoPath" ELSE "Indeterminate", 0, <<>>)
      ELSE IF built.distance[Last(path)] # 0 THEN Reading("NotComputed", 0, <<>>)
      ELSE Reading("Found", built.distance[start], path)
=============================================================================
