---------------------------- MODULE MCSparseWorld ----------------------------
(* Small instances of the sparse world and of the directory it finds chunks *)
(* with.  The world needs of the directory only that lookups agree with the *)
(* map it represents, so a behaviour runs one of the two, and the directory *)
(* meets every sequence of calls and every hash, not only the world's.  Its *)
(* keys are interchangeable, so their homes may be taken in order.          *)
(* A third kind of behaviour is about the region graph over a sparse world, *)
(* which knows it by residency generations and topology versions only.      *)
(* A fourth is about the task that executes operations on chunks by phases, *)
(* and knows of two chunks what was written to them and their dirty bits.   *)
EXTENDS SparseWorld, ChunkDirectory, AutoExec, TLC

VARIABLES
  part,       \* "world", "directory", "graph" or "task"
  ground, topology, generation, revision, unmarked, changes, graph

graphVars == <<ground, topology, generation, revision, unmarked, changes, graph>>

NoDirectory ==
  /\ capacity = 0 /\ size = 0 /\ home = <<>> /\ buckets = <<>>
  /\ direct = [k \in DirectoryKeys |-> npos] /\ map = direct

(* A building of four levels seen from its side, in two by two chunks; a    *)
(* stair to the right stands on 2, one to the left on 3, which the heavy    *)
(* class may not enter.                                                     *)
At(x, z) == <<x, 0, z>>
StoreySize == <<4, 1, 4>>
StoreyChunk == <<2, 1, 2>>
Walker(dear) ==
  [lattice |-> "orthogonal", steps |-> "default", passes |-> {1, 2, 3},
   cost |-> [v \in 0 .. 3 |-> IF v \in dear THEN 0 ELSE 1], special |-> <<>>]
StoreyClasses == [walker |-> Walker({}), heavy |-> Walker({3})]
StoreyStairs ==
  [v \in -1 .. 3 |-> IF v = 2 THEN <<1, 0, 1>> ELSE IF v = 3 THEN <<-1, 0, 1>> ELSE <<>>]
StoreyGround ==
  [t \in (0 .. 3) \X {0} \X (0 .. 3) |->
     IF t \in {At(0, 1), At(1, 0)} THEN 2
     ELSE IF t \in {At(1, 2), At(2, 1), At(3, 2), At(0, 0)} THEN 1 ELSE 0]
StoreyGrounds ==
  {StoreyGround, [t \in DOMAIN StoreyGround |->
                    IF t[1] < 2 /\ t[3] > 1 THEN -1 ELSE StoreyGround[t]]}
StoreyWrites == {<<At(2, 1), 3>>, <<At(1, 2), 1>>, <<At(1, 0), 1>>, <<At(0, 1), 0>>, <<At(2, 2), 1>>}
StoreyMoving == {<<0, 0, 1>>, <<1, 0, 0>>}
StoreyGates == [r \in 0 .. 1 |-> IF r = 0 THEN {} ELSE {<<At(2, 1), At(3, 2)>>}]
StoreyDirtyLists ==
  {{}, {<<0, 0, 0>>}, {<<1, 0, 0>>}, {<<0, 0, 0>>, <<0, 0, 1>>}, {<<0, 0, 1>>, <<-1, -1, -1>>}}
StoreyTrips ==
  {<<At(1, 2), At(0, 1)>>, <<At(0, 0), At(2, 1)>>, <<At(3, 2), At(1, 2)>>, <<At(0, 0), At(3, 2)>>}

Regions == INSTANCE RegionGraph WITH
  Size <- StoreySize, ChunkSize <- StoreyChunk, Straight <- 1, Oblique <- 1, Infinite <- 9,
  Classes <- StoreyClasses, StairTo <- StoreyStairs, Gates <- StoreyGates,
  Grounds <- StoreyGrounds, Writes <- StoreyWrites, Moving <- StoreyMoving,
  DirtyLists <- StoreyDirtyLists, Trips <- StoreyTrips, MaxChanges <- 3

NoRegions ==
  /\ ground = <<>> /\ topology = <<>> /\ generation = <<>> /\ revision = 0
  /\ unmarked = {} /\ changes = 0 /\ graph = <<>>

(* "paint" writes one field of both chunks; "etch" writes another field of  *)
(* one of them, so that it shares a chunk with paint without a field hazard; *)
(* "sweep" writes paint's field wherever something is dirty; "bad" names a   *)
(* chunk the world does not have and "look" has the wrong policy.            *)
MCTemplates == {"paint", "etch", "sweep", "bad", "look"}
MCPolicy == [t \in MCTemplates |-> IF t = "look" THEN "ReadOnly" ELSE "UniquePerChunk"]
MCReads == [t \in MCTemplates |-> {}]
MCWrites == [t \in MCTemplates |-> CASE t \in {"paint", "sweep"} -> {"f"}
                                     [] t = "look" -> {}
                                     [] OTHER -> {"g"}]
MCDirties == [t \in MCTemplates |-> CASE t = "paint" -> {"d"} [] t = "etch" -> {"e"} [] OTHER -> {}]
MCDomain == [t \in MCTemplates |->
    CASE t = "paint" -> [kind |-> "Explicit", of |-> {0, 1}]
      [] t = "etch" -> [kind |-> "Explicit", of |-> {1}]
      [] t = "sweep" -> [kind |-> "Dirty", of |-> {"d", "e"}]
      [] t = "bad" -> [kind |-> "Explicit", of |-> {1, 2}]
      [] OTHER -> [kind |-> "Resident", of |-> {}]]

(* The application may leave the task alone. *)
Rested == stage = "idle" /\ UNCHANGED exec_vars

MCInit ==
  /\ Init /\ ExecInit
  /\ \/ part \in {"world", "task"} /\ NoDirectory /\ NoRegions
     \/ /\ part = "directory" /\ DirectoryInit /\ NoRegions
        /\ \A d, e \in DirectoryKeys : d < e => home[d] <= home[e]
     \/ part = "graph" /\ NoDirectory /\ Regions!RegionInit

MCNext ==
  /\ UNCHANGED part
  /\ \/ part = "world" /\ Next /\ UNCHANGED <<directory_vars, graphVars, exec_vars>>
     \/ part = "directory" /\ DirectoryNext /\ UNCHANGED <<vars, graphVars, exec_vars>>
     \/ part = "graph" /\ Regions!RegionNext /\ UNCHANGED <<vars, directory_vars, exec_vars>>
     \/ part = "task" /\ (ExecNext \/ Rested) /\ UNCHANGED <<vars, directory_vars, graphVars>>

MCSpec == MCInit /\ [][MCNext]_<<vars, part, directory_vars, graphVars, exec_vars>>

(* Bound: the last materialization comes before any edit, or not at all.   *)
EditsEndEarly == edits = 0 \/ generation_clock < MaxGeneration

Symmetry ==
  Permutations(Keys \ EditedKeys) \cup Permutations(Flags)

(* Whatever updates made it, a region graph that reports fresh is the one   *)
(* that build_region_graph would make now (topology.h:1383).                *)
(* And precheck_path never rules out a route that a search would find       *)
(* (precheck.h:14), and what it says of the rest is so.                     *)
GraphsAreTrue ==
  part = "graph" => Regions!FreshGraphIsRebuilt /\ Regions!VerdictsAreTrue
=============================================================================
