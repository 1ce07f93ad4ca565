--------------------------- MODULE TransitionModel ---------------------------
(***************************************************************************)
(* ResolvedTransitionModel of topology/transition_model.h: the steps that  *)
(* a movement class may take out of (or into) a tile, in the order in      *)
(* which they are emitted, with the price of each and with what is not     *)
(* known because a chunk is not resident.                                  *)
(*                                                                         *)
(* A model is a record:                                                    *)
(*   lattice   "orthogonal" or "hex" (axial coordinates in the plane z=0)  *)
(*   steps     "default", or "both" or "one": diagonal steps whose corner  *)
(*             rule asks for both or for one of the two corner tiles       *)
(*   passes    the field values the class may enter (PassExpr)             *)
(*   cost      the entry cost at each field value (CostExpr); 0 forbids    *)
(*   special   the edges its provider adds, as a sequence of records       *)
(*             [from, to, cost, missing]                                   *)
(* A field is a function on tiles; the tiles of a chunk that is not        *)
(* resident hold Missing.                                                  *)
(***************************************************************************)
EXTENDS Grid

CONSTANTS
  Straight, Oblique,   \* the step multipliers of DiagonalSteps: 128 and 181
  Infinite             \* the largest cost, 2^32 - 1 in the code

ASSUME TransitionAssumption ==
  /\ Straight \in Nat \ {0} /\ Oblique \in Nat \ {0} /\ Infinite \in Nat \ {0}
  /\ Straight <= Oblique /\ Oblique <= 2 * Straight

Missing == -1
Saturated(cost) == IF cost < Infinite THEN cost ELSE Infinite

IsPassable(m, field, t) == field[t] \in m.passes
EntryCost(m, field, t) == m.cost[field[t]]
Scale(m) == IF m.steps = "default" THEN 1 ELSE Straight
HasSpecial(m) == m.special # <<>>

(* UnitMovementClass: the class's passability at the price of a step.      *)
AsUnit(m) == [m EXCEPT !.cost = [v \in DOMAIN @ |-> 1]]

(***************************************************************************)
(* Regular candidates.                                                     *)
(***************************************************************************)
HexFaces ==
  << <<1, 0, 0>>, <<-1, 0, 0>>, <<0, 1, 0>>, <<0, -1, 0>>, <<1, -1, 0>>, <<-1, 1, 0>> >>

(* A diagonal crosses the first two axes that are not degenerate.          *)
DiagonalAxes ==
  IF ~Degenerate(1) /\ ~Degenerate(2) THEN <<1, 2>>
  ELSE IF ~Degenerate(1) /\ ~Degenerate(3) THEN <<1, 3>> ELSE <<2, 3>>
DiagonalSigns == << <<1, 1>>, <<1, -1>>, <<-1, 1>>, <<-1, -1>> >>

FaceCandidates(from, offsets, multiplier) ==
  [i \in DOMAIN offsets |->
     [to |-> Offset(from, offsets[i]), corners |-> {}, multiplier |-> multiplier]]
Diagonal(from, a, b) ==
  [to |-> Offset(from, Plus(a, b)),
   corners |-> {Offset(from, a), Offset(from, b)}, multiplier |-> Oblique]
DiagonalsOver(from, axes) ==
  [i \in 1 .. 4 |-> Diagonal(from, Along(axes[1], DiagonalSigns[i][1]), Along(axes[2], DiagonalSigns[i][2]))]
DiagonalCandidates(from) == DiagonalsOver(from, DiagonalAxes)

Candidates(m, from) ==
  IF m.lattice = "hex" THEN FaceCandidates(from, HexFaces, 1)
  ELSE IF m.steps = "default" THEN FaceCandidates(from, Faces, 1)
  ELSE FaceCandidates(from, Faces, Straight) \o DiagonalCandidates(from)

(* Whether the corner tiles let a step by, as far as they are known.       *)
Clearance(m, field, corners) ==
  LET clear == {t \in corners : IsPassable(m, field, t)}
      unknown == {t \in corners : field[t] = Missing}
      blocked == corners \ (clear \cup unknown)
  IN  IF corners = {} THEN "legal"
      ELSE IF m.steps = "both"
        THEN IF blocked # {} THEN "blocked"
             ELSE IF unknown # {} THEN "missing" ELSE "legal"
        ELSE IF clear # {} THEN "legal"
             ELSE IF unknown # {} THEN "missing" ELSE "blocked"

(***************************************************************************)
(* Probes: at most one per candidate.                                      *)
(***************************************************************************)
Probe(to, kind, cost) ==
  <<[to |-> to, kind |-> IF kind = "legal" /\ cost >= Infinite THEN "overflow" ELSE kind,
     cost |-> Saturated(cost)]>>

(* emit_candidate: the step to c.to, charged for entering `priced`; a      *)
(* candidate outside the shape is not emitted.                             *)
RegularProbe(m, field, c, priced) ==
  IF ~InShape(c.to) THEN <<>>
  ELSE IF field[c.to] = Missing THEN Probe(c.to, "missing", 0)
  ELSE IF \/ ~IsPassable(m, field, c.to)
          \/ Clearance(m, field, c.corners) = "blocked" THEN <<>>
  ELSE IF field[priced] = Missing THEN Probe(c.to, "missing", 0)
  ELSE IF EntryCost(m, field, priced) = 0 THEN <<>>
  ELSE Probe(c.to, Clearance(m, field, c.corners),
             EntryCost(m, field, priced) * c.multiplier)

(* emit_special_candidate: the provider prices the edge, the class still   *)
(* decides whether its destination may be entered.                         *)
SpecialProbe(m, field, e, to, destination) ==
  IF ~InShape(to) THEN <<>>
  ELSE IF e.missing \/ field[to] = Missing THEN Probe(to, "missing", 0)
  ELSE IF \/ ~IsPassable(m, field, to)
          \/ field[destination] = Missing
          \/ EntryCost(m, field, destination) = 0
          \/ e.cost = 0 THEN <<>>
  ELSE Probe(to, "legal", e.cost * Scale(m))

Gathered(probes(_), candidates) ==
  FoldLeft(LAMBDA out, c : out \o probes(c), <<>>, candidates)

(* for_each_forward: the steps out of `from`.                              *)
ForwardProbes(m, field, from) ==
  Gathered(LAMBDA c : RegularProbe(m, field, c, c.to), Candidates(m, from))
  \o Gathered(LAMBDA e : IF e.from = from THEN SpecialProbe(m, field, e, e.to, e.to) ELSE <<>>,
              m.special)

(* for_each_reverse: the steps into `to`, each named by where it starts.   *)
ReverseProbes(m, field, to) ==
  IF ~IsPassable(m, field, to) THEN <<>>
  ELSE Gathered(LAMBDA c : RegularProbe(m, field, c, to), Candidates(m, to))
       \o Gathered(LAMBDA e : IF e.to = to THEN SpecialProbe(m, field, e, e.from, to) ELSE <<>>,
                   m.special)

(* for_each_dependency_chunk: the chunks a probe out of `from` may read.   *)
DependencyChunks(m, from) ==
  {ChunkOf(from)}
    \cup UNION {{ChunkOf(t) : t \in {c.to} \cup c.corners} :
                  c \in {x \in ToSet(Candidates(m, from)) : InShape(x.to)}}
    \cup {ChunkOf(e.to) : e \in {x \in ToSet(m.special) : x.from = from /\ InShape(x.to)}}

(***************************************************************************)
(* The heuristic: never above what remains, 0 with special edges.          *)
(***************************************************************************)
HexDistance(s, g) ==
  LET dq == g[1] - s[1]
      dr == g[2] - s[2]
  IN  (AbsDiff(dq, 0) + AbsDiff(dr, 0) + AbsDiff(dq + dr, 0)) \div 2

(* Mutant: a diagonal pays for both of the faces it cuts. *)
HeuristicByFaces(m, s, g) == Saturated(Manhattan(s, g) * Scale(m))
OctileDistance(da, db) ==
  IF da < db THEN da * Oblique + (db - da) * Straight ELSE db * Oblique + (da - db) * Straight
Heuristic(m, s, g) ==
  IF HasSpecial(m) THEN 0
  ELSE IF m.lattice = "hex" THEN Saturated(HexDistance(s, g))
  ELSE IF m.steps = "default" THEN Saturated(Manhattan(s, g))
  ELSE Saturated(OctileDistance(AbsDiff(s[DiagonalAxes[1]], g[DiagonalAxes[1]]),
                                AbsDiff(s[DiagonalAxes[2]], g[DiagonalAxes[2]])))

(* The price of the cheapest step s -> t; Infinite when there is none.     *)
LegalSteps(m, field, s) ==
  {p \in ToSet(ForwardProbes(m, field, s)) : p.kind = "legal"}
StepCost(m, field, s, t) ==
  Min({Infinite} \cup {p.cost : p \in {q \in LegalSteps(m, field, s) : q.to = t}})

(* What a walk pays; Infinite or more as soon as one step is not legal.    *)
WalkCost(m, field, path) ==
  FoldLeft(LAMBDA sum, i : sum + StepCost(m, field, path[i], path[i + 1]), 0,
           [i \in 1 .. Len(path) - 1 |-> i])

(* Whether every tile that a step reads is one of its ends.                *)
StepsOverFaces(m) == m.lattice = "orthogonal" /\ m.steps = "default" /\ ~HasSpecial(m)

(***************************************************************************)
(* Reference: the least cost from every tile to the nearest of the goals,  *)
(* by relaxing forward steps until nothing can change.                     *)
(***************************************************************************)
LeastCosts(m, field, goals) ==
  LET steps == [t \in Tiles |-> LegalSteps(m, field, t)] @@ <<>>
      Relaxed(cost) ==
        [t \in Tiles |->
           Min({cost[t]} \cup {Saturated(p.cost + cost[p.to]) : p \in steps[t]})] @@ <<>>
  IN  Iterated(Relaxed, [t \in Tiles |-> IF t \in goals THEN 0 ELSE Infinite])
=============================================================================
