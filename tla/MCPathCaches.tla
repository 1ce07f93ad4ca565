---------------------------- MODULE MCPathCaches ----------------------------
(* A route along the bottom row and a detour through the top row; edits     *)
(* open and close the middle of either.  A chunk is one tile, so that a     *)
(* detour does not depend on the tile whose opening shortens it.            *)
(* "walker" and "climber" differ in what they enter; "jumper" has the       *)
(* walker's class and a provider edge over the middle column.               *)
EXTENDS PathRuntime

MCPasses == [m \in Models |-> IF m = "climber" THEN {1, 2} ELSE {1}]
MCSpecial ==
  [m \in Models |->
     [t \in Tiles |-> IF m = "jumper" /\ t = <<0, 0, 0>>
                   THEN {<<2, 0, 0>>} ELSE {}]]
MCRequests == {<< <<0, 0, 0>>, <<2, 0, 0>> >>, << <<0, 1, 0>>, <<2, 0, 0>> >>}
MCEditedTiles == {<<1, 0, 0>>, <<1, 1, 0>>}
MCSize == <<3, 2, 1>>
MCChunkSize == <<1, 1, 1>>

(* Field products: a class that steps diagonally, one over faces, and one   *)
(* with a gate that its provider opens and closes; value 2 is dear enough   *)
(* for two tiles of it to pass the largest cost.                            *)
Class(steps) ==
  [lattice |-> "orthogonal", steps |-> steps, passes |-> {1, 2},
   cost |-> [v \in {0, 1, 2} |-> IF v = 2 THEN 12 ELSE v], special |-> <<>>]
Gate == [from |-> <<0, 0, 0>>, to |-> <<2, 0, 0>>, cost |-> 1, missing |-> FALSE]
UnitWalker == AsUnit([Class("default") EXCEPT !.passes = {1}])
MCProductModels ==
  [walker |-> UnitWalker, jumper |-> [UnitWalker EXCEPT !.special = <<Gate>>], climber |-> AsUnit(Class("default")),
   stepper |-> Class("one"), rider |-> Class("default"), hauler |-> Class("default")]
MCProviderEdges == [r \in 0 .. 1 |-> IF r = 0 THEN <<Gate>> ELSE <<>>]
MCGoalLists == {<< <<2, 0, 0>>, <<1, 1, 0>> >>}

(* Weighted routes: the rider's class, which may be dear; and one that      *)
(* steps diagonally between two clear corners.  The route ends in the       *)
(* edited tile of the top row, straight or by way of the far corner, and    *)
(* its start may have no way out but the edited tile of the bottom row.     *)
MCRouteModels == [hauler |-> Class("default"), drifter |-> [Class("default") EXCEPT !.passes = {1}]]
MCOffFaceModels == [skater |-> Class("both")]
MCRouteRequests == {<< <<0, 0, 0>>, <<1, 1, 0>> >>}
MCWaypointLists == {<<>>, << <<2, 0, 0>> >>}

(* Batches of a goal asked for from two chunks and one asked for alone.     *)
(* The hauler may cross a dear tile, or go round it in two steps more.      *)
Near == << <<0, 0, 0>>, <<2, 0, 0>> >>
MCBatches ==
  {<< << <<0, 1, 0>>, <<1, 1, 0>> >>, Near, << <<0, 1, 0>>, <<2, 0, 0>> >> >>, <<Near>>}
MCClassOf == [walker |-> "walker", jumper |-> "walker", climber |-> "climber"]
MCRuntimeEdits == {<< <<1, 0, 0>>, 0>>, << <<1, 0, 0>>, 1>>}
Plain ==
  [mode |-> Exact, graph |-> "none", entries |-> 3, nodes |-> 8, deps |-> 8, invalidate |-> TRUE,
   clearEvery |-> 0, products |-> FALSE, reuse |-> 0, chunks |-> 2, bytes |-> 18,
   strategy |-> "ExactAStar", num |-> 4, den |-> 3, segments |-> 2]
Fields == [Plain EXCEPT !.graph = "fresh", !.products = TRUE, !.chunks = 0]
Ported == [Plain EXCEPT !.strategy = "PortalFirst"]
MCUnitPasses ==
  {<<"walker", Plain>>, <<"walker", [Fields EXCEPT !.mode = Scoped]>>,
   <<"jumper", [Plain EXCEPT !.invalidate = FALSE, !.entries = 1]>>,
   <<"climber", [Fields EXCEPT !.clearEvery = 1]>>}
MCWeightedPasses ==
  {<<"hauler", [Ported EXCEPT !.products = TRUE]>>,
   <<"hauler", [Ported EXCEPT !.graph = "fresh", !.num = 3, !.den = 0, !.segments = 1]>>,
   <<"rider", [Ported EXCEPT !.products = TRUE, !.bytes = 10]>>}

Ground(bottom, top, corner) ==
  [t \in Tiles |-> CASE t = <<1, 0, 0>> -> bottom
                     [] t = <<1, 1, 0>> -> top
                     [] t = <<0, 1, 0>> -> corner
                     [] OTHER -> 1]
MCGrounds ==
  CASE scene = "runtime" -> {Ground(1, 0, 1), Ground(2, 1, 1)}
    [] scene = "portals" -> {Ground(1, 0, 1), Ground(1, 1, 1), Ground(1, 1, 0)}
    [] OTHER -> {Ground(1, 0, 1), Ground(1, 1, 1)}

MCInit == CachesInit /\ terrain \in MCGrounds
MCSpec == MCInit /\ [][CachesNext]_cache_vars
=============================================================================
