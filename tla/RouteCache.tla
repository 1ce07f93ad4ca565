----------------------------- MODULE RouteCache -----------------------------
(***************************************************************************)
(* UnitRouteCache of path/route_cache.h and cached_astar_path: exact       *)
(* (start, goal) entries and reuse of the suffixes of stored routes, under *)
(* two staleness policies.  Exact mode drops everything when any content   *)
(* version moved; scoped mode lets an entry survive while the chunks its   *)
(* route crosses keep the versions they had when it was stored.            *)
(*                                                                         *)
(* A model stands for what the cache is bound to: movement class, provider *)
(* and provider revision.  The cache never looks at the world by itself:   *)
(* its caller refreshes it once before the first lookup and after every    *)
(* edit batch (the contract at path.h:628), and `edited` and `based` say   *)
(* whether the caller has.  The world is always resident, so the missing-  *)
(* chunk policy is normalised away and binds nothing.                      *)
(*                                                                         *)
(* Abstracted: hash tables to functions (the probing finds the one live    *)
(* match), fingerprints to the versions they hash, counters of stats().    *)
(***************************************************************************)
EXTENDS GridWorld

CONSTANTS
  Models,            \* model ids
  Passes,            \* Passes[m]: the terrain values class m may enter
  Special,           \* Special[m]: [Tiles -> SUBSET Tiles], provider edges
  EntryCaps, NodeCaps, DependencyCaps,   \* values the caps are set to
  Requests,          \* the <<start, goal>> pairs a direct caller asks for
  Callers,           \* the models it asks for them with
  EditedTiles,       \* the tiles that edits touch
  NewCosts,          \* the values edits write
  MaxEpoch           \* bound: refreshes that advance change_epoch

ASSUME RouteCacheAssumption ==
  /\ Special \in [Models -> [Tiles -> SUBSET Tiles]] /\ "none" \notin Models
  /\ Callers \subseteq Models /\ Requests \subseteq Tiles \X Tiles
  /\ EditedTiles \subseteq Tiles /\ NewCosts \subseteq Costs
  /\ \A caps \in {EntryCaps, NodeCaps, DependencyCaps} : caps \subseteq Nat /\ caps # {} /\ IsFiniteSet(caps)

VARIABLES
  routes,    \* the cache
  answer,    \* history: the last result, until the world changes
  edited,    \* history: edits since the last refresh
  based,     \* history: refreshed since binding (and since a flip)
  opened     \* history: an edit opened a tile since the cache was empty

history == <<answer, edited, based, opened>>
vars == <<world, routes, history>>

Eligible(m) == \A t \in Tiles : Special[m][t] = {}

ModelPaths ==
  [m \in Models |-> PathsVia([t \in Tiles |-> Neighbors(t) \cup Special[m][t]])]
Enters(m, t) == terrain[t] \in Passes[m]
RoutesOf(m, s, g) ==
  {p \in ModelPaths[m][<<s, g>>] : \A i \in DOMAIN p : Enters(m, p[i])}

(***************************************************************************)
(* astar_path: any of the shortest routes.                                 *)
(***************************************************************************)
Failure(status) == [status |-> status, cost |-> 0, path |-> <<>>]
FoundRoute(path) == [status |-> "Found", cost |-> Hops(path), path |-> path]

FreshResults(m, s, g) ==
  IF ~Enters(m, s) THEN {Failure("InvalidStart")}
  ELSE IF ~Enters(m, g) THEN {Failure("InvalidGoal")}
  ELSE IF RoutesOf(m, s, g) = {} THEN {Failure("NoPath")}
  ELSE {FoundRoute(p) : p \in Cheapest(RoutesOf(m, s, g), Hops)}

(***************************************************************************)
(* The cache.                                                              *)
(***************************************************************************)
None == "none"
Exact == "WholeWorldExact"
Scoped == "ScopedFeasible"

EmptyCache(caps) ==
  [entries |-> <<>>, suffixes |-> <<>>, mode |-> Exact, caps |-> caps,
   baseline |-> {}, epoch |-> 1, synced |-> 0, bound |-> None]

Invalidated(c) == [c EXCEPT !.entries = <<>>, !.suffixes = <<>>]

NodeCount(c) == FoldLeft(LAMBDA sum, e : sum + Len(e.path), 0, c.entries)
DependencyCount(c) == FoldLeft(LAMBDA sum, e : sum + Len(e.deps), 0, c.entries)
DeadCount(c) == Cardinality({i \in DOMAIN c.entries : ~c.entries[i].alive})

SetCapsIn(c, entries, nodes) ==
  LET capped == [c EXCEPT !.caps.entries = entries, !.caps.nodes = nodes]
  IN  IF Len(c.entries) > entries \/ NodeCount(c) > nodes
      THEN Invalidated(capped) ELSE capped

SetDependencyCapIn(c, deps) ==
  LET capped == [c EXCEPT !.caps.deps = deps]
  IN  IF DependencyCount(c) > deps THEN Invalidated(capped) ELSE capped

ClearIn(c) == [Invalidated(c) EXCEPT !.bound = None]

(* bind_class and bind_provider: a change of either drops every entry.     *)
BindIn(c, m) ==
  IF c.bound = m THEN c
  ELSE [(IF c.bound = None THEN c ELSE Invalidated(c)) EXCEPT !.bound = m]

SetStalenessIn(c, mode) ==
  IF c.mode = mode THEN c
  ELSE [Invalidated(c) EXCEPT !.mode = mode, !.baseline = {}]

RefreshIn(c) ==
  LET captured == [c EXCEPT !.baseline = {version}]
      revalidating == [captured EXCEPT !.epoch = @ + 1]
  IN  IF c.baseline = {version} THEN c
      ELSE IF c.mode = Exact
        THEN IF c.baseline = {} THEN captured ELSE Invalidated(captured)
      ELSE IF c.baseline = {} /\ c.entries = <<>> THEN captured
      ELSE revalidating

SyncIneligibleIn(c) ==
  IF c.mode = Exact \/ c.synced = c.epoch THEN c
  ELSE [Invalidated(c) EXCEPT !.synced = c.epoch]

FindIn(c, s, g) ==
  {i \in DOMAIN c.entries :
     c.entries[i].alive /\ c.entries[i].start = s /\ c.entries[i].goal = g}

FindSuffixIn(c, s, g) ==
  IF <<s, g>> \notin DOMAIN c.suffixes THEN {}
  ELSE {claim \in {c.suffixes[<<s, g>>]} : c.entries[claim.entry].alive}

(* Past half of the entry cap, the dead take the living with them.         *)
RetireIn(c, i) ==
  LET retired == [c EXCEPT !.entries[i].alive = FALSE]
  IN  IF DeadCount(retired) * 2 > c.caps.entries /\ c.caps.entries # 0
      THEN Invalidated(retired) ELSE retired

DependenciesHold(deps) == \A k \in DOMAIN deps : version[deps[k].key] = deps[k].version

(* Mutant: an empty dependency list reads as "depends on nothing". *)
ValidatedByDependencies(c, i) ==
  IF c.mode = Exact \/ DependenciesHold(c.entries[i].deps)
  THEN [serve |-> TRUE, cache |-> [c EXCEPT !.entries[i].epoch = c.epoch]]
  ELSE [serve |-> FALSE, cache |-> RetireIn(c, i)]
(* validate_for_serve: whether entry i may be served, and the cache after. *)
Validated(c, i) ==
  LET e == c.entries[i]
  IN  IF c.mode = Exact \/ e.epoch = c.epoch THEN [serve |-> TRUE, cache |-> c]
      ELSE IF ~e.whole /\ DependenciesHold(e.deps)
        THEN [serve |-> TRUE, cache |-> [c EXCEPT !.entries[i].epoch = c.epoch]]
      ELSE [serve |-> FALSE, cache |-> RetireIn(c, i)]

(* The chunks along a path, a chunk again each time it is entered again.   *)
ChunkRun(path) ==
  FoldLeft(LAMBDA run, t : IF run # <<>> /\ Last(run) = ChunkOf(t) THEN run
                           ELSE Append(run, ChunkOf(t)), <<>>, path)

(* The first live entry through a node keeps the claim on (node, goal).    *)
WithSuffixes(c, i) ==
  LET e == c.entries[i]
      Claimed(node) == FindSuffixIn(c, node, e.goal) # {}
      claims == {k \in DOMAIN e.path : ~Claimed(e.path[k])}
      added == [key \in {<<e.path[k], e.goal>> : k \in claims} |->
                  [entry |-> i, offset |-> CHOOSE k \in claims : e.path[k] = key[1]]]
      both == [key \in DOMAIN added \cup DOMAIN c.suffixes |->
                 IF key \in DOMAIN added THEN added[key] ELSE c.suffixes[key]]
  IN  IF e.status = "Found" THEN [c EXCEPT !.suffixes = both] ELSE c

StoreIn(c, m, s, g, result) ==
  LET scoped == c.mode = Scoped
      footprint == scoped /\ Eligible(m) /\ result.status = "Found"
      run == IF footprint THEN ChunkRun(result.path) ELSE <<>>
      deps == [k \in DOMAIN run |-> [key |-> run[k], version |-> version[run[k]]]]
      entry == [start |-> s, goal |-> g, status |-> result.status,
                cost |-> result.cost, path |-> result.path, deps |-> deps,
                epoch |-> c.epoch, alive |-> TRUE, whole |-> scoped /\ ~footprint]
      fits == /\ Len(c.entries) + 1 <= c.caps.entries
              /\ NodeCount(c) + Len(result.path) <= c.caps.nodes
              /\ DependencyCount(c) + Len(deps) <= c.caps.deps
      kept == IF fits THEN c ELSE Invalidated(c)
      grown == [kept EXCEPT !.entries = Append(@, entry)]
  IN  IF \/ c.caps.entries = 0 \/ c.caps.nodes = 0
         \/ Len(result.path) > c.caps.nodes
         \/ Len(deps) > c.caps.deps
      THEN c
      ELSE WithSuffixes(grown, Len(grown.entries))

(***************************************************************************)
(* cached_astar_path.  Every outcome, as the cache it leaves and the       *)
(* result it returns.                                                      *)
(***************************************************************************)
Outcome(c, result) == [cache |-> c, result |-> result]

SearchOutcomes(c, m, s, g) ==
  {Outcome(StoreIn(c, m, s, g, r), r) : r \in FreshResults(m, s, g)}

SuffixOutcomes(c, m, s, g) ==
  LET claims == IF Eligible(m) THEN FindSuffixIn(c, s, g) ELSE {}
      Try(claim) == Validated(c, claim.entry)
      Suffix(claim) ==
        LET path == c.entries[claim.entry].path
        IN  FoundRoute(SubSeq(path, claim.offset, Len(path)))
  IN  IF claims = {} THEN SearchOutcomes(c, m, s, g)
      ELSE UNION {IF Try(claim).serve
                  THEN {Outcome(Try(claim).cache, Suffix(claim))}
                  ELSE SearchOutcomes(Try(claim).cache, m, s, g) : claim \in claims}

CachedOutcomes(c, m, s, g) ==
  LET bound == BindIn(c, m)
      ready == IF Eligible(m) THEN bound ELSE SyncIneligibleIn(bound)
      hits == FindIn(ready, s, g)
      Try(i) == Validated(ready, i)
      Stored(i) == [status |-> ready.entries[i].status, cost |-> ready.entries[i].cost,
                    path |-> ready.entries[i].path]
  IN  IF hits = {} THEN SuffixOutcomes(ready, m, s, g)
      ELSE UNION {IF Try(i).serve THEN {Outcome(Try(i).cache, Stored(i))}
                  ELSE SuffixOutcomes(Try(i).cache, m, s, g) : i \in hits}

(***************************************************************************)
(* The direct caller.                                                      *)
(***************************************************************************)
Init ==
  /\ terrain \in Terrains
  /\ version = [c \in Chunks |-> 0]
  /\ routes = EmptyCache([entries |-> Max(EntryCaps), nodes |-> Max(NodeCaps),
                          deps |-> Max(DependencyCaps)])
  /\ answer = {}
  /\ edited = FALSE /\ based = FALSE /\ opened = FALSE

(* What an action that leaves the world alone does to the cache.           *)
Becomes(c) ==
  /\ routes' = c
  /\ opened' = (opened /\ c.entries # <<>>)
  /\ UNCHANGED world

EditTile(t, cost) ==
  /\ Edit(t, cost)
  /\ edited' = TRUE
  /\ answer' = {}
  /\ opened' = (opened \/ \E m \in Models : ~Enters(m, t) /\ cost \in Passes[m])
  /\ UNCHANGED <<routes, based>>

Refresh ==
  /\ RefreshIn(routes).epoch <= MaxEpoch
  /\ Becomes(RefreshIn(routes))
  /\ edited' = FALSE /\ based' = TRUE
  /\ answer' = {}

(* Exact mode without a baseline cannot detect a change (path.h:633), and  *)
(* set_staleness drops the baseline: the caller refreshes after it as it   *)
(* does after an edit.                                                     *)
MayLookUp == ~edited /\ (routes.mode = Exact => based)

Lookup(m, s, g) ==
  /\ MayLookUp
  /\ \E o \in CachedOutcomes(routes, m, s, g) :
       /\ Becomes(o.cache)
       /\ answer' = {[model |-> m, start |-> s, goal |-> g, result |-> o.result]}
  /\ UNCHANGED <<edited, based>>

SetStaleness(mode) ==
  /\ mode # routes.mode
  /\ Becomes(SetStalenessIn(routes, mode))
  /\ based' = FALSE
  /\ answer' = {}
  /\ UNCHANGED edited

SetCaps(entries, nodes) ==
  /\ Becomes(SetCapsIn(routes, entries, nodes))
  /\ answer' = {}
  /\ UNCHANGED <<edited, based>>

SetDependencyCap(deps) ==
  /\ Becomes(SetDependencyCapIn(routes, deps))
  /\ answer' = {}
  /\ UNCHANGED <<edited, based>>

Clear ==
  /\ Becomes(ClearIn(routes))
  /\ answer' = {}
  /\ UNCHANGED <<edited, based>>

Next ==
  \/ \E t \in EditedTiles, cost \in NewCosts : EditTile(t, cost)
  \/ Refresh
  \/ \E m \in Callers, r \in Requests : Lookup(m, r[1], r[2])
  \/ \E mode \in {Exact, Scoped} : SetStaleness(mode)
  \/ \E entries \in EntryCaps, nodes \in NodeCaps : SetCaps(entries, nodes)
  \/ \E deps \in DependencyCaps : SetDependencyCap(deps)
  \/ Clear

Spec == Init /\ [][Next]_vars
(***************************************************************************)
(* Properties.                                                             *)
(***************************************************************************)
Claims(c) == {c.suffixes[key] : key \in DOMAIN c.suffixes}

TypeOK ==
  /\ GridTypeOK
  /\ routes.mode \in {Exact, Scoped}
  /\ routes.baseline \subseteq [Chunks -> 0 .. MaxEdits]
  /\ routes.bound \in Models \cup {None}
  /\ routes.synced <= routes.epoch
  /\ \A i \in DOMAIN routes.entries :
       /\ routes.entries[i].epoch <= routes.epoch
       /\ routes.entries[i].path \in {<<>>} \cup UNION {UNION Range(ModelPaths[m]) : m \in Models}
  /\ {edited, based, opened} \subseteq BOOLEAN

(* The two indexes and the caps of route_cache.h agree with the entries: a *)
(* (start, goal) has at most one live entry, a suffix claim points at its  *)
(* node in an entry for its goal, and no cap is exceeded, tombstones       *)
(* included, whatever order of stores, retirements and cap changes.        *)
IndexesAgree ==
  /\ TypeOK
  /\ \A e \in ToSet(routes.entries) :
       Cardinality(FindIn(routes, e.start, e.goal)) <= 1
  /\ \A key \in DOMAIN routes.suffixes :
       LET claim == routes.suffixes[key]
       IN  /\ claim.entry \in DOMAIN routes.entries
           /\ routes.entries[claim.entry].goal = key[2]
           /\ routes.entries[claim.entry].path[claim.offset] = key[1]
  /\ Len(routes.entries) <= routes.caps.entries
  /\ NodeCount(routes) <= routes.caps.nodes
  /\ DependencyCount(routes) <= routes.caps.deps

(* "Surviving routes are guaranteed LEGAL ... with a truthful served cost" *)
(* (route_cache.h:23): whatever cached_astar_path returns, from an entry,  *)
(* from a suffix or from a search, joins the requested ends over tiles the *)
(* model may enter now; and a failure it returns is the failure that a     *)
(* search would return now.                                                *)
RoutesAreLegal ==
  \A a \in answer :
    IF a.result.status = "Found"
    THEN /\ a.result.path \in RoutesOf(a.model, a.start, a.goal)
         /\ a.result.cost = Hops(a.result.path)
    ELSE a.result \in FreshResults(a.model, a.start, a.goal)

(* "Under blocking-only edits surviving routes remain optimal"             *)
(* (route_cache.h:27): what is served has the status and cost of a fresh   *)
(* search in exact mode, for a model without a scoped footprint, and in    *)
(* scoped mode as well, unless some edit since the cache was last empty    *)
(* opened a tile.  Only an opening makes a served route longer than needed.*)
OnlyOpeningsAge ==
  \A a \in answer :
    routes.mode = Exact \/ ~Eligible(a.model) \/ ~opened =>
      \E fresh \in FreshResults(a.model, a.start, a.goal) :
        a.result.status = fresh.status /\ a.result.cost = fresh.cost

(* Both, of everything that is served. *)
ServedRoutesAreTrue == RoutesAreLegal /\ OnlyOpeningsAge
=============================================================================
