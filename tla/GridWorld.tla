------------------------------ MODULE GridWorld ------------------------------
(***************************************************************************)
(* The always-resident world as path search sees it: one terrain field     *)
(* over the tiles, and the content version of each chunk, which an edit    *)
(* of the field bumps (the field write and the mark that goes with it).    *)
(* A terrain value is the cost of entering the tile; 0 is impassable.      *)
(***************************************************************************)
EXTENDS Grid

CONSTANTS
  MaxCost,    \* the largest terrain value
  MaxEdits    \* bound: edits of a behaviour

ASSUME GridWorldAssumption == MaxCost \in Nat \ {0} /\ MaxEdits \in Nat

VARIABLES
  terrain,   \* the field
  version    \* meta(chunk).content_version

world == <<terrain, version>>

Costs == 0 .. MaxCost
Terrains == [Tiles -> Costs]

(* Every walk over faces without a repeated tile, by its ends.             *)
PathsBetween == PathsVia([t \in Tiles |-> Neighbors(t)])

Passable(t) == terrain[t] # 0
PathCost(path) == FoldLeft(LAMBDA sum, t : sum + terrain[t], 0, Tail(path))
OpenPaths(s, g) ==
  {p \in PathsBetween[s, g] : \A i \in DOMAIN p : Passable(p[i])}

GridTypeOK ==
  /\ terrain \in Terrains
  /\ version \in [Chunks -> 0 .. MaxEdits]

EditsMade == FoldSet(LAMBDA c, sum : sum + version[c], 0, Chunks)

Edit(t, cost) ==
  /\ EditsMade < MaxEdits
  /\ terrain[t] # cost
  /\ terrain' = [terrain EXCEPT ![t] = cost]
  /\ version' = [version EXCEPT ![ChunkOf(t)] = @ + 1]
=============================================================================
