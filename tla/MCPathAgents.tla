---------------------------- MODULE MCPathAgents ----------------------------
(***************************************************************************)
(* PathAgents on a triangle 1-2-3 with a tail 3-4, where routes can differ, *)
(* three agents can rotate and two can meet head on.                       *)
(***************************************************************************)
EXTENDS PathAgents, TLC

TriangleWithTail ==
    (1 :> {2, 3}) @@ (2 :> {1, 3}) @@ (3 :> {1, 2, 4}) @@ (4 :> {3})
StartsInTriangle == <<1, 2, 3>>
\* A rotation, a head-on pair, a contested tile, a queue into the tail.
GoalChoices == {<<2, 3, 1>>, <<2, 1, 0>>, <<0, 1, 1>>, <<4, 4, 4>>}

\* The caller ranks by distance to the goal, or without regard to it.
ByDistance == (1 :> <<1, 2, 3, 4>>) @@ (2 :> <<2, 3, 1, 4>>)
                  @@ (3 :> <<3, 1, 2, 4>>) @@ (4 :> <<4, 3, 2, 1>>)
Flat == [t \in 1 .. 4 |-> <<1, 2, 3, 4>>]
OracleChoices == {ByDistance, Flat}

\* The properties read ticked only in the step that sets it.
View == <<agents, routes, elapsed, pathing_dirty, walls, occupied, reserved, flow,
          obstacles, unmarked, edits>>
=============================================================================
