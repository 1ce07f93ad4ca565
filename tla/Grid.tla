-------------------------------- MODULE Grid --------------------------------
(***************************************************************************)
(* The static shape of a world (core/shape.h): a box of tiles cut into     *)
(* chunks, the orders in which code enumerates them, and the straight      *)
(* lines along its axes.  Axis 1 is x, 2 is y and 3 is z; a shape with     *)
(* extent 1 on an axis is degenerate there.                                *)
(*                                                                         *)
(* What searches must return is defined from paths enumerated one by one,  *)
(* so that the modules of the search code have a reference that shares     *)
(* nothing with them.                                                      *)
(***************************************************************************)
EXTENDS Integers, FiniteSets, Sequences, SequencesExt

CONSTANTS
  Size,       \* extent of the shape on each axis
  ChunkSize   \* extent of a chunk on each axis

ASSUME GridAssumption ==
  /\ Size \in [1 .. 3 -> Nat \ {0}]
  /\ ChunkSize \in [1 .. 3 -> Nat \ {0}]

Axes == 1 .. 3
Extent(a) == 0 .. Size[a] - 1
Tiles == Extent(1) \X Extent(2) \X Extent(3)
InShape(t) == \A a \in Axes : t[a] \in Extent(a)
Degenerate(a) == Size[a] = 1

ChunkOf(t) ==
  <<t[1] \div ChunkSize[1], t[2] \div ChunkSize[2], t[3] \div ChunkSize[3]>>
Chunks == {ChunkOf(t) : t \in Tiles}
TilesOf(c) == {t \in Tiles : ChunkOf(t) = c}

AbsDiff(a, b) == IF a < b THEN b - a ELSE a - b
Manhattan(s, g) == AbsDiff(s[1], g[1]) + AbsDiff(s[2], g[2]) + AbsDiff(s[3], g[3])

Offset(t, d) == <<t[1] + d[1], t[2] + d[2], t[3] + d[3]>>
Along(a, k) == <<IF a = 1 THEN k ELSE 0, IF a = 2 THEN k ELSE 0, IF a = 3 THEN k ELSE 0>>
Plus(d, e) == Offset(d, e)

(* +x, -x, +y, -y, +z, -z: the order in which faces are probed.            *)
Faces == << <<1, 0, 0>>, <<-1, 0, 0>>, <<0, 1, 0>>, <<0, -1, 0>>, <<0, 0, 1>>, <<0, 0, -1>> >>
Neighbors(t) == {n \in {Offset(t, d) : d \in ToSet(Faces)} : InShape(n)}
ChunkNeighbors(c) == {ChunkOf(n) : n \in UNION {Neighbors(t) : t \in TilesOf(c)}} \ {c}

(***************************************************************************)
(* Lines.                                                                  *)
(***************************************************************************)
Sign(from, to) == IF from < to THEN 1 ELSE -1

(* The tiles entered on the way along axis a until coordinate `to`.        *)
Line(t, a, to) ==
  [k \in 1 .. AbsDiff(t[a], to) |-> Offset(t, Along(a, k * Sign(t[a], to)))]
Corner(t, a, to) == [t EXCEPT ![a] = to]

(* The tiles entered by walking to g one axis after the other.             *)
Walk(s, g, order) ==
  LET first == Corner(s, order[1], g[order[1]])
      second == Corner(first, order[2], g[order[2]])
  IN  Line(s, order[1], g[order[1]]) \o Line(first, order[2], g[order[2]])
        \o Line(second, order[3], g[order[3]])

(* The value reached from x by n applications, or as many as there are     *)
(* tiles.                                                                  *)
Applied(op(_), x, n) == FoldLeft(LAMBDA y, i : op(y), x, [i \in 1 .. n |-> i])
Iterated(op(_), x) == Applied(op, x, Cardinality(Tiles))

(***************************************************************************)
(* Reference: paths without a repeated tile whose steps are in steps[tile].*)
(***************************************************************************)
PathsVia(steps) ==
  LET Longer(paths) ==
        paths \cup UNION {{Append(p, t) : t \in steps[Last(p)] \ ToSet(p)} : p \in paths}
      paths == Iterated(Longer, {<<t>> : t \in Tiles})
  IN  [ends \in Tiles \X Tiles |->
         {p \in paths : Head(p) = ends[1] /\ Last(p) = ends[2]}]

Hops(path) == Len(path) - 1
Cheapest(paths, Cost(_)) == {p \in paths : \A q \in paths : Cost(p) <= Cost(q)}
=============================================================================
