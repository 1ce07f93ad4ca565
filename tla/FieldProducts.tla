--------------------------- MODULE FieldProducts ----------------------------
(***************************************************************************)
(* path/field_product_cache.h: distance fields towards a list of goals,    *)
(* kept with the content versions of the chunks they depend on, and the    *)
(* cache that owns the ones worth keeping under a byte budget.             *)
(*                                                                         *)
(* A product carries the stamp of the model it was built for: movement     *)
(* class and provider, and the revision the provider had.  The caller has  *)
(* one product of its own, `held`, which builds fill and stores move from. *)
(*                                                                         *)
(* Abstracted: entries are kept in the order of their last use instead of  *)
(* with a clock; a goal, a dependency and the rest of an entry weigh one   *)
(* unit each; the labels a saturated flood touches without labelling.      *)
(***************************************************************************)
EXTENDS GridWorld, DistanceFields

CONSTANTS
  ProductModels,    \* model id -> transition model, with unit classes resolved
  AskedModels,      \* those that a direct caller asks for
  Providers,        \* the model ids whose provider adds edges
  ProviderEdges,    \* revision -> the edges the provider adds then
  GoalLists,        \* the goal lists that products are asked for
  ProductBudgets    \* the byte budgets that are set

ASSUME ProductAssumption ==
  /\ Providers \cup AskedModels \subseteq DOMAIN ProductModels
  /\ ProductBudgets \subseteq Nat /\ ProductBudgets # {}

VARIABLES
  revision,         \* the revision of the provider
  held,             \* the caller's product
  products          \* [entries, bytes, budget], least recently used first

product_vars == <<revision, held, products>>

ResolvedModel(m) ==
  IF m \in Providers THEN [ProductModels[m] EXCEPT !.special = ProviderEdges[revision]]
  ELSE ProductModels[m]
Stamp(m) == [model |-> m, revision |-> IF m \in Providers THEN revision ELSE 0]

(***************************************************************************)
(* Building.                                                               *)
(***************************************************************************)
ClearedProduct ==
  [status |-> "NotComputed", stamp |-> [model |-> "none", revision |-> 0],
   goals |-> <<>>, distance |-> <<>>, deps |-> {}]

(* Mutant: only the chunks the flood has reached. *)
ReachedChunks(m, touched) ==
  IF m \in Providers THEN Chunks ELSE {ChunkOf(t) : t \in touched}
(* capture_field_product_dependencies: what the flood read, its blocked    *)
(* frontier included; everything when a provider may look anywhere.        *)
FieldDependencies(m, touched) ==
  LET reached == {ChunkOf(t) : t \in touched}
  IN  IF m \in Providers THEN Chunks
      ELSE IF StepsOverFaces(ProductModels[m]) THEN reached \cup UNION {ChunkNeighbors(c) : c \in reached}
      ELSE reached \cup UNION {DependencyChunks(ResolvedModel(m), t) : t \in touched}

GoalsUsable(m, goals) ==
  /\ goals # <<>>
  /\ \A g \in ToSet(goals) :
       GoalFailure(ResolvedModel(m), terrain, g, Tiles, "AssumeImpassable") = "none"

Product(m, goals) ==
  LET blank == [ClearedProduct EXCEPT !.stamp = Stamp(m), !.goals = goals]
      flood == Flood(ResolvedModel(m), terrain, ToSet(goals), Tiles)
      touched == {t \in Tiles : flood.distance[t] < Infinite}
  IN  IF ~GoalsUsable(m, goals) THEN blank
      ELSE [blank EXCEPT !.status = IF flood.overflowed THEN "CostOverflow" ELSE "Found",
                         !.distance = flood.distance,
                         !.deps = {[key |-> c, version |-> version[c]] :
                                     c \in FieldDependencies(m, touched)}]

(***************************************************************************)
(* Reading: distance_field_product_path, its weighted twin and, by the end *)
(* of the path, nearest_target.                                            *)
(***************************************************************************)
Current(product) ==
  /\ product.deps # {}
  /\ \A d \in product.deps : version[d.key] = d.version

Readable(m, product) ==
  product.status = "Found" /\ Current(product) /\ product.stamp = Stamp(m)

ReadProduct(m, start, product) ==
  FieldPath(ResolvedModel(m), terrain,
            [status |-> "Found", kept |-> Readable(m, product), distance |-> product.distance],
            start)

(***************************************************************************)
(* The cache.                                                              *)
(***************************************************************************)
EntryBytes(product) == 1 + Len(product.goals) + Cardinality(product.deps)

KeyOf(product) == <<product.stamp, product.goals>>
Held(c, key) == {i \in DOMAIN c.entries : KeyOf(c.entries[i].product) = key}

(* The distance labels alone, of the unit that EntryBytes starts from.     *)
CanFitDistanceStorage(c) == 1 <= c.budget

(* evict_to_budget: how many of the oldest entries have to go.             *)
Evicted(c) ==
  LET BytesWithout(n) == c.bytes - FoldLeft(LAMBDA sum, e : sum + e.bytes, 0, SubSeq(c.entries, 1, n))
  IN  Min({n \in 0 .. Len(c.entries) : BytesWithout(n) <= c.budget \/ n = Len(c.entries)})

WithinBudget(c) ==
  LET gone == SubSeq(c.entries, 1, Evicted(c))
  IN  [c EXCEPT !.entries = SubSeq(@, Len(gone) + 1, Len(@)),
                !.bytes = FoldLeft(LAMBDA left, e : left - e.bytes, @, gone)]

(* lookup: the product found, if any, and the cache after.                 *)
LookedUp(c, key) ==
  LET At(i) == LET rest == RemoveAt(c.entries, i)
                   e == c.entries[i]
               IN  IF Current(e.product)
                   THEN [found |-> {e.product}, cache |-> [c EXCEPT !.entries = Append(rest, e)]]
                   ELSE [found |-> {}, cache |-> [c EXCEPT !.entries = rest, !.bytes = @ - e.bytes]]
  IN  IF Held(c, key) = {} THEN [found |-> {}, cache |-> c]
      ELSE At(CHOOSE i \in Held(c, key) : TRUE)

(* Mutant: the bytes of the replaced entry stay accounted for. *)
BytesAfterReplacing(c, i, bytes) == c.bytes + bytes
BytesReplacing(c, i, bytes) == (c.bytes - c.entries[i].bytes) + bytes

(* store_with_key: whether it is kept, the cache after and what the caller *)
(* is left with.  A store that appends and evicts nothing leaves the       *)
(* caller's product moved from: its vectors are empty, its status and      *)
(* stamp are not reset.                                                    *)
Stored(c, product) ==
  LET bytes == EntryBytes(product)
      entry == [product |-> product, bytes |-> bytes]
      grown == [c EXCEPT !.entries = Append(@, entry), !.bytes = @ + bytes]
      Over(i) == [c EXCEPT !.entries = Append(RemoveAt(@, i), entry),
                           !.bytes = BytesReplacing(c, i, bytes)]
      same == Held(c, KeyOf(product))
      moved == [product EXCEPT !.goals = <<>>, !.distance = <<>>, !.deps = {}]
  IN  IF bytes > c.budget THEN [kept |-> FALSE, cache |-> c, left |-> product]
      ELSE IF same # {}
        THEN [kept |-> TRUE, cache |-> WithinBudget(Over(CHOOSE i \in same : TRUE)),
              left |-> ClearedProduct]
      ELSE [kept |-> TRUE, cache |-> WithinBudget(grown),
            left |-> IF Evicted(grown) > 0 THEN ClearedProduct ELSE moved]

ProductInit ==
  /\ revision = 0
  /\ held = ClearedProduct
  /\ \E budget \in ProductBudgets : products = [entries |-> <<>>, bytes |-> 0, budget |-> budget]

BuildProduct(m, goals) ==
  /\ held' = Product(m, goals)
  /\ UNCHANGED <<world, revision, products>>

LookupProduct(m, goals) ==
  /\ products' = LookedUp(products, <<Stamp(m), goals>>).cache
  /\ UNCHANGED <<world, revision, held>>

StoreProduct(m) ==
  /\ held.status = "Found" /\ held.stamp = Stamp(m)
  /\ products' = Stored(products, held).cache
  /\ held' = Stored(products, held).left
  /\ UNCHANGED <<world, revision>>

SetByteBudget(budget) ==
  /\ products' = WithinBudget([products EXCEPT !.budget = budget])
  /\ UNCHANGED <<world, revision, held>>

ClearProducts ==
  /\ products' = [products EXCEPT !.entries = <<>>, !.bytes = 0]
  /\ UNCHANGED <<world, revision, held>>

(* The provider changes its edges and says so.                             *)
ProviderChanges ==
  /\ revision + 1 \in DOMAIN ProviderEdges
  /\ revision' = revision + 1
  /\ UNCHANGED <<world, held, products>>

ProductNext ==
  \/ \E m \in AskedModels, goals \in GoalLists :
       BuildProduct(m, goals) \/ LookupProduct(m, goals)
  \/ \E m \in AskedModels : StoreProduct(m)
  \/ \E budget \in ProductBudgets : SetByteBudget(budget)
  \/ ClearProducts
  \/ ProviderChanges

(***************************************************************************)
(* Properties.                                                             *)
(***************************************************************************)
(* Whatever a reader makes of a product, the caller's or a cached one, is  *)
(* what a fresh computation over the present world and provider would say: *)
(* the least cost to any of its goals with a legal walk of that cost, or   *)
(* no path when there is none.  It is NotComputed exactly when the stamp   *)
(* or a chunk version has moved (field_product_cache.h:1152-1171, 1283).   *)
ProductsAreExact ==
  \A p \in {held} \cup {e.product : e \in ToSet(products.entries)},
     m \in DOMAIN ProductModels :
    p.status = "Found" /\ p.deps # {} =>
      LET model == ResolvedModel(m)
          least == LeastCosts(model, terrain, ToSet(p.goals))
      IN  \A s \in Tiles :
            LET read == ReadProduct(m, s, p)
            IN  /\ read.status = "Found" =>
                     /\ read.cost = least[s] /\ read.cost < Infinite
                     /\ Head(read.path) = s /\ Last(read.path) \in ToSet(p.goals)
                     /\ WalkCost(model, terrain, read.path) = read.cost
                /\ read.status = "NoPath" => least[s] = Infinite
                /\ p.stamp = Stamp(m) /\ Current(p) => read.status # "NotComputed"

(* The byte accounting of the cache is that of its entries through         *)
(* replacements, evictions, stale lookups and budget changes; it stays     *)
(* within the budget, and a key has one entry (field_product_cache.h:515). *)
ProductsFitBudget ==
  /\ products.bytes = FoldLeft(LAMBDA sum, e : sum + EntryBytes(e.product), 0, products.entries)
  /\ products.bytes <= products.budget
  /\ \A e \in ToSet(products.entries) : Cardinality(Held(products, KeyOf(e.product))) = 1
=============================================================================
