----------------------------- MODULE RegionGraph -----------------------------
(***************************************************************************)
(* The region graph of topology/topology.h: connected regions of each      *)
(* resident chunk, directed portals between them, and the stamps that say  *)
(* what the graph was built from; and precheck_path of path/precheck.h,    *)
(* which lets a caller skip a search when the graph rules a route out.     *)
(*                                                                         *)
(* A portal is kept with the chunk it leaves: the code's stable sort keeps *)
(* the portals of one chunk together, in the order of one derivation.      *)
(* Bounds, tile counts and scratch storage are left out.                   *)
(***************************************************************************)
EXTENDS TransitionModel

CONSTANTS
  Classes,         \* movement classes, by name (TransitionModel without special edges)
  StairTo,         \* [ground value -> offset of the landing, or <<>> without a stair]
  Gates,           \* [revision -> set of <<from, to>>]: what the provider adds to stairs
  Grounds,         \* what the world may hold at the start
  Writes,          \* the <<tile, value>> that callers write
  Moving,          \* the chunks that are evicted and loaded, in a sparse world
  DirtyLists,      \* the sets of chunks given to update_region_graph
  Trips,           \* the <<start, goal>> asked about
  MaxChanges       \* bound: writes, evictions, loads and revisions of a behaviour

Outside == <<-1, -1, -1>>   \* a chunk key that is not of the world

VARIABLES
  ground,       \* what each tile holds: Missing while its chunk is not resident
  topology,     \* meta(chunk).topology_version; 0 when not resident
  generation,   \* residency_generation; 0 when not resident
  revision,     \* the provider's transition_revision
  unmarked,     \* history: chunks written since they were last marked
  changes,      \* history: changes made, for the bound
  graph         \* the RegionGraphT

region_vars == <<ground, topology, generation, revision, unmarked, changes, graph>>

Resident == {c \in Chunks : generation[c] # 0}

(***************************************************************************)
(* Steps and seams of the lattice.                                         *)
(***************************************************************************)
(* for_each_local_axis_neighbor and add_boundary_exits: diagonal classes   *)
(* are labelled by their face steps.                                       *)
Directions(m) == ToSet(IF m.lattice = "hex" THEN HexFaces ELSE Faces)
Beside(m, t) == {n \in {Offset(t, d) : d \in Directions(m)} : InShape(n)}

(* for_each_face_neighbor_chunk.                                           *)
Seams(m, c) == {Offset(c, d) : d \in Directions(m)} \cap Chunks

(***************************************************************************)
(* Providers: for_each_transition, the edges that leave one chunk.         *)
(***************************************************************************)
Crossings(s, t) == Cardinality({a \in Axes : ChunkOf(s)[a] # ChunkOf(t)[a]})

(* A stair rises one level to its side; one whose landing is two chunk     *)
(* borders away contributes nothing.                                       *)
StairsOf(field, feet) ==
  {<<f, Offset(f, StairTo[field[f]])>> : f \in {t \in feet : field[t] # Missing /\ StairTo[field[t]] # <<>>}}
RealStairs(field, feet) ==
  {e \in StairsOf(field, feet) : InShape(e[2]) /\ Crossings(e[1], e[2]) <= 1}
Reversed(edges) == {<<e[2], e[1]>> : e \in edges}

(* Mutant: the way down is looked for in the landing's own chunk alone. *)
StairEdgesOfChunk(field, c) ==
  LET stairs == RealStairs(field, TilesOf(c))
  IN  {e \in stairs \cup Reversed(stairs) : ChunkOf(e[1]) = c}

(* emit_for_feet over the chunk, the one below it and the four beside it.  *)
FootChunks(c) ==
  {c} \cup ({Offset(c, Along(3, -1))} \cup {Offset(c, Along(a, k)) : a \in {1, 2}, k \in {-1, 1}})
StairEdges(field, c) ==
  LET stairs == RealStairs(field, UNION {TilesOf(d) : d \in FootChunks(c) \cap Chunks})
  IN  {e \in stairs \cup Reversed(stairs) : ChunkOf(e[1]) = c}

ProviderEdges(field, rev, c) ==
  StairEdges(field, c) \cup {e \in Gates[rev] : ChunkOf(e[1]) = c}

(***************************************************************************)
(* build_local_chunk_topology: labels in the order of each region's first  *)
(* tile; 0 is invalid_local_region.                                        *)
(***************************************************************************)
LocalIndex(t) ==
  ((t[3] % ChunkSize[3]) * ChunkSize[2] + (t[2] % ChunkSize[2])) * ChunkSize[1]
    + (t[1] % ChunkSize[1])

LocalLabels(m, field, c) ==
  LET open == {t \in TilesOf(c) : IsPassable(m, field, t)}
      Flooded(first) ==
        [t \in open |-> Min({first[t]} \cup {first[n] : n \in Beside(m, t) \cap open})] @@ <<>>
      first == FoldSet(LAMBDA t, f : Flooded(f), [t \in open |-> LocalIndex(t)] @@ <<>>,
                       TilesOf(c))
      firsts == {first[t] : t \in open}
  IN  [t \in TilesOf(c) |->
         IF t \in open THEN Cardinality({i \in firsts : i <= first[t]}) ELSE 0]

(***************************************************************************)
(* Portals, and the regions that reach what is not resident.               *)
(***************************************************************************)
RegionOf(label, t) == <<ChunkOf(t), label[t]>>
Exits(m, label, c) ==
  UNION {{<<t, n>> : n \in Beside(m, t) \ TilesOf(c)} : t \in {x \in TilesOf(c) : label[x] # 0}}

(* append_chunk_portals and append_provider_portals: both ends labelled.   *)
PortalsOf(m, field, rev, label, c) ==
  {[from |-> RegionOf(label, e[1]), to |-> RegionOf(label, e[2]), step |-> e] :
     e \in {x \in Exits(m, label, c) \cup ProviderEdges(field, rev, c) :
              label[x[1]] # 0 /\ label[x[2]] # 0}}

(* rebuild_region_index and mark_provider_missing_reaches.                 *)
ReachingMissing(m, field, rev, label, keys) ==
  {RegionOf(label, e[1]) :
     e \in {x \in UNION {Exits(m, label, c) \cup ProviderEdges(field, rev, c) : c \in keys} :
              label[x[1]] # 0 /\ ChunkOf(x[2]) \notin keys}}

(***************************************************************************)
(* build_region_graph.                                                     *)
(***************************************************************************)
NoGraph == [class |-> "none", revision |-> 0, keys |-> {}, generation |-> <<>>,
            version |-> <<>>, label |-> <<>>, portals |-> <<>>, missing |-> {}]

LabelsOver(m, field, keys) ==
  LET local == [c \in keys |-> LocalLabels(m, field, c)] @@ <<>>
  IN  [t \in Tiles |-> IF ChunkOf(t) \in keys THEN local[ChunkOf(t)][t] ELSE 0] @@ <<>>

Built(class) ==
  LET m == Classes[class]
      label == LabelsOver(m, ground, Resident)
  IN  [class |-> class, revision |-> revision, keys |-> Resident,
       generation |-> [c \in Resident |-> generation[c]],
       version |-> [c \in Resident |-> topology[c]],
       label |-> label,
       portals |-> [c \in Resident |-> PortalsOf(m, ground, revision, label, c)],
       missing |-> ReachingMissing(m, ground, revision, label, Resident)]

(***************************************************************************)
(* update_region_graph.                                                    *)
(***************************************************************************)
SameResidency ==
  /\ graph.keys = Resident
  /\ \A c \in Resident : graph.generation[c] = generation[c]
Patchable(class) == SameResidency /\ graph.class = class /\ graph.revision = revision

(* Labels of the dirty chunks; portals of those and of all beside them.    *)
Patched(class, list) ==
  LET m == Classes[class]
      dirty == list \cap graph.keys
      affected == dirty \cup UNION {Seams(m, c) : c \in dirty}
      fresh == LabelsOver(m, ground, dirty)
      label == [t \in Tiles |-> IF ChunkOf(t) \in dirty THEN fresh[t] ELSE graph.label[t]] @@ <<>>
  IN  [graph EXCEPT
        !.label = label,
        !.version = [c \in graph.keys |-> IF c \in dirty THEN topology[c] ELSE @[c]],
        !.portals = [c \in graph.keys |-> IF c \in affected
                       THEN PortalsOf(m, ground, revision, label, c) ELSE @[c]],
        !.missing = ReachingMissing(m, ground, revision, label, graph.keys)]

(* What an update may make of the graph: a full build when a stamp differs;*)
(* nothing when a key is not of the world, or the list is empty.           *)
UpdatedGraphs(class) ==
  IF ~Patchable(class) THEN {Built(class)}
  ELSE {IF Outside \in list \/ list = {} THEN graph ELSE Patched(class, list) : list \in DirtyLists}

(***************************************************************************)
(* is_region_graph_fresh_for, reachable, coarse_path, precheck_path.       *)
(***************************************************************************)
IsFreshFor(class) ==
  /\ graph.class = class
  /\ SameResidency
  /\ \A c \in Resident : graph.version[c] = topology[c]

NextRegions(regions) ==
  regions \cup {p.to : p \in {q \in UNION Range(graph.portals) : q.from \in regions}}
RegionsFrom(r) == Iterated(NextRegions, {r})

EndpointVerdict(t, invalid) ==
  IF graph.label[t] # 0 THEN "none"
  ELSE IF ChunkOf(t) \notin graph.keys THEN "Indeterminate" ELSE invalid

Reachable(start, goal) ==
  LET s == EndpointVerdict(start, "InvalidStart")
      g == EndpointVerdict(goal, "InvalidGoal")
      reached == RegionsFrom(RegionOf(graph.label, start))
  IN  IF s # "none" THEN s
      ELSE IF g # "none" THEN g
      ELSE IF RegionOf(graph.label, goal) \in reached THEN "Reachable"
      ELSE IF reached \cap graph.missing # {} THEN "Indeterminate" ELSE "Unreachable"

(* The region paths that a breadth-first search may return.                *)
CoarsePaths(start, goal) ==
  LET from == RegionOf(graph.label, start)
      to == RegionOf(graph.label, goal)
      Longer(paths) ==
        IF \E p \in paths : Last(p) = to THEN paths
        ELSE UNION {{Append(p, r) : r \in NextRegions({Last(p)}) \ ToSet(p)} : p \in paths}
  IN  {p \in Iterated(Longer, {<<from>>}) : Last(p) = to}
Corridor(path) == UNION {TilesOf(path[i][1]) : i \in DOMAIN path}

Precheck(class, start, goal, policy) ==
  LET verdict == Reachable(start, goal)
  IN  IF graph.keys = {} THEN "NoGraph"
      ELSE IF ~IsFreshFor(class) \/ graph.revision # revision THEN "GraphStale"
      ELSE IF verdict # "Indeterminate" THEN verdict
      ELSE IF policy = "ReportIndeterminate" THEN "MissingChunk"
      ELSE IF ChunkOf(start) \notin Resident THEN "InvalidStart"
      ELSE IF ChunkOf(goal) \notin Resident THEN "InvalidGoal"
      ELSE "Unreachable"

(***************************************************************************)
(* Actions.                                                                *)
(***************************************************************************)
RegionInit ==
  /\ ground \in Grounds
  /\ generation = [c \in Chunks |-> IF \E t \in TilesOf(c) : ground[t] = Missing THEN 0 ELSE 1]
  /\ topology = [c \in Chunks |-> 0]
  /\ revision = 0
  /\ unmarked = {}
  /\ changes = 0
  /\ graph = NoGraph

Change == changes < MaxChanges /\ changes' = changes + 1

(* A caller writes a field that the class or its provider reads ...        *)
Write ==
  /\ Change
  /\ \E w \in Writes :
       /\ ChunkOf(w[1]) \in Resident /\ ground[w[1]] # w[2]
       /\ ground' = [ground EXCEPT ![w[1]] = w[2]]
       /\ unmarked' = unmarked \cup {ChunkOf(w[1])}
  /\ UNCHANGED <<topology, generation, revision, graph>>

(* ... and marks the chunk: mark_topology_dirty or mark_topology_rebuilt.  *)
Mark ==
  /\ \E c \in unmarked :
       /\ topology' = [topology EXCEPT ![c] = @ + 1]
       /\ unmarked' = unmarked \ {c}
  /\ UNCHANGED <<ground, generation, revision, changes, graph>>

Evict ==
  /\ Change
  /\ \E c \in Moving \cap Resident :
       /\ ground' = [t \in Tiles |-> IF ChunkOf(t) = c THEN Missing ELSE ground[t]] @@ <<>>
       /\ topology' = [topology EXCEPT ![c] = 0]
       /\ generation' = [generation EXCEPT ![c] = 0]
       /\ unmarked' = unmarked \ {c}
  /\ UNCHANGED <<revision, graph>>

(* A page comes back zeroed, with new metadata and a generation that was   *)
(* never used.                                                             *)
Load ==
  /\ Change
  /\ \E c \in Moving \ Resident :
       /\ ground' = [t \in Tiles |-> IF ChunkOf(t) = c THEN 0 ELSE ground[t]] @@ <<>>
       /\ generation' = [generation EXCEPT ![c] = changes + 2]
  /\ UNCHANGED <<topology, revision, unmarked, graph>>

Revise ==
  /\ Change
  /\ revision + 1 \in DOMAIN Gates
  /\ revision' = revision + 1
  /\ UNCHANGED <<ground, topology, generation, unmarked, graph>>

Build ==
  /\ \E class \in DOMAIN Classes : \E g \in {Built(class)} : graph' \in {g, NoGraph}
  /\ UNCHANGED <<ground, topology, generation, revision, unmarked, changes>>

(* An exception clears the graph once its labels may have been written.    *)
Update ==
  /\ \E class \in DOMAIN Classes : \E g \in UpdatedGraphs(class) :
       graph' \in IF g = graph THEN {graph} ELSE {g, NoGraph}
  /\ UNCHANGED <<ground, topology, generation, revision, unmarked, changes>>

RegionNext == Write \/ Mark \/ Evict \/ Load \/ Revise \/ Build \/ Update

(***************************************************************************)
(* Properties.                                                             *)
(***************************************************************************)
(* Whatever sequence of updates, with whatever dirty lists, made it: a     *)
(* graph that reports fresh is the one that a full build would make        *)
(* ("identical to a fresh build_region_graph over the edited world",       *)
(* topology.h:1383), once every written chunk is marked.                   *)
FreshGraphIsRebuilt ==
  \A class \in DOMAIN Classes :
    /\ unmarked = {} /\ IsFreshFor(class) /\ graph.revision = revision /\ graph # NoGraph
    => graph = Built(class)

(* What a search over the same ground may do: for_each_forward, which      *)
(* enumerates a provider tile by tile and knows nothing of chunks.         *)
FeetBelow(t) == {f \in {Offset(t, Plus(Along(a, k), Along(3, -1))) : a \in {1, 2}, k \in {-1, 1}} :
                   InShape(f)}
StairProbes(field, t) ==
  LET up == {e[2] : e \in RealStairs(field, {t})}
      unknown == {f \in FeetBelow(t) : field[f] = Missing}
      down == {f \in FeetBelow(t) \ unknown : <<f, t>> \in RealStairs(field, {f})}
  IN  {[from |-> t, to |-> n, cost |-> 1, missing |-> n \in unknown] : n \in up \cup down \cup unknown}
SearchEdges(field) ==
  UNION {StairProbes(field, t) : t \in {x \in Tiles : field[x] # Missing}}
    \cup {[from |-> e[1], to |-> e[2], cost |-> 1, missing |-> FALSE] : e \in Gates[revision]}
SearchModel(class, field) ==
  [Classes[class] EXCEPT !.special = FoldSet(LAMBDA e, s : Append(s, e), <<>>, SearchEdges(field))]

(* The tiles a walk from `start` gets to, keeping to a set of tiles.       *)
WalkedFrom(class, field, start, domain) ==
  LET m == SearchModel(class, field)
      steps == [t \in domain |-> {p.to : p \in LegalSteps(m, field, t)} \cap domain] @@ <<>>
  IN  Iterated(LAMBDA reached : reached \cup UNION {steps[t] : t \in reached}, {start})

(* The most that the chunks which are not resident could hold: floor, with *)
(* any stair, tried one ground value at a time.                            *)
Fillings(class) == {v \in Classes[class].passes : Classes[class].cost[v] # 0}
Filled(v) == [t \in Tiles |-> IF ground[t] = Missing THEN v ELSE ground[t]] @@ <<>>

(* Only Unreachable lets a caller skip the search, and it never skips one  *)
(* that would have found a route (precheck.h:14, "can never turn a         *)
(* solvable query into a wrong failure"): under ReportIndeterminate not    *)
(* even one through chunks that are not resident.  Reachable, for a class  *)
(* that enters all that it passes, is a route inside every corridor that   *)
(* coarse_path may return; and an endpoint is blamed only if it is closed. *)
VerdictsAreTrue ==
  unmarked = {} =>
    \A class \in DOMAIN Classes, trip \in Trips, policy \in {"ReportIndeterminate", "AssumeImpassable"} :
      LET start == trip[1]
          goal == trip[2]
          m == Classes[class]
          verdict == Precheck(class, start, goal, policy)
      IN  /\ verdict = "Unreachable" =>
               \A v \in Fillings(class) :
                 LET field == IF policy = "ReportIndeterminate" THEN Filled(v) ELSE ground
                 IN  goal \notin WalkedFrom(class, field, start, Tiles)
          /\ verdict = "Reachable" /\ (\A v \in m.passes : m.cost[v] # 0) =>
               \A path \in CoarsePaths(start, goal) :
                 goal \in WalkedFrom(class, ground, start, Corridor(path))
          /\ verdict = "InvalidStart" => ~IsPassable(m, ground, start)
          /\ verdict = "InvalidGoal" => ~IsPassable(m, ground, goal)
=============================================================================
