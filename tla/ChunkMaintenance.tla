-------------------------- MODULE ChunkMaintenance --------------------------
(***************************************************************************)
(* ChunkMaintenanceAdapter of experimental/chunk_maintenance.h: one        *)
(* derived product per chunk slot of a dense or sparse world, rebuilt by a *)
(* fixed task of a RegisteredScheduler when owned dirty bits say so.       *)
(*                                                                         *)
(* The world needs external synchronization, so one thread makes all the   *)
(* calls; what interleaves are the calls that a rebuild callback makes,    *)
(* the throws, the budgets and the residency transitions between drains.   *)
(* A product is what the callback read: the content of a chunk in one of   *)
(* its residency intervals.  `scene` tells behaviours of the adapter from  *)
(* those of a bare scheduler.                                              *)
(***************************************************************************)
EXTENDS RegisteredMaintenance

CONSTANTS
  SparseKeys,      \* the chunks of a sparse world; those of a dense one are its slots
  Main,            \* the thread that calls the adapter
  MaxMarks,        \* bound: content changes
  MaxTransitions   \* bound: materializations

ASSUME AdapterAssumption ==
  Main \in Producers /\ Slots \subseteq SparseKeys /\ Cardinality(Tasks) = Capacity
  /\ MaxMarks \in Nat /\ MaxTransitions \in Nat

VARIABLES
  scene,      \* "scheduler" or "adapter"
  world,      \* kind, slot of each resident chunk, generation and metadata of each slot
  cells,      \* slots_ of the adapter
  ready,      \* transition_ready_
  released,   \* released_
  op,         \* the adapter call in progress
  bodies,     \* the run_slot of each active frame
  told,       \* history: slots whose caller was told that work did not run
  unread,     \* history: slots marked since the product last read them
  marks       \* content changes so far

adapter_vars == <<world, cells, ready, released, op, bodies, told, unread, marks>>
chunk_vars == <<maintenance_vars, scene, adapter_vars>>

Meta == INSTANCE ChunkMeta WITH Flags <- {"owned"}, Actives <- {}, Positions <- {0}
Owned == {"owned"}

NoKey == 0
NoSlot == 0
NoCall == [name |-> "none", slot |-> NoSlot, claimed |-> FALSE, todo |-> {}, offered |-> FALSE, result |-> "none"]
Unbound == [key |-> NoKey, generation |-> 0, bound |-> FALSE, built |-> FALSE, debt |-> FALSE,
            token |-> [key |-> NoKey, version |-> 0, generation |-> 0], product |-> <<>>]

Sparse == world.kind = "sparse"
ResidentKeys == {k \in SparseKeys : world.slot_of[k] # NoSlot}
KeyOf(s) == {k \in ResidentKeys : world.slot_of[k] = s}
Content(s) == <<world.generation[s], world.meta[s].content_version>>

(* bind_slot and unbind_slot *)
BoundTo(cell, k, generation) ==
  LET same == cell.bound /\ cell.key = k /\ cell.generation = generation
  IN  [cell EXCEPT !.built = @ /\ same, !.debt = @ /\ same,
                   !.bound = TRUE, !.key = k, !.generation = generation]
Emptied(cell) == [cell EXCEPT !.bound = FALSE, !.built = FALSE, !.debt = FALSE, !.generation = 0]

BoundSlots(k) ==
  {s \in Slots : /\ s = world.slot_of[k] /\ cells[s].bound
                 /\ cells[s].key = k /\ cells[s].generation = world.generation[s]}
BindingCurrent(s) ==
  cells[s].key \in ResidentKeys /\ world.slot_of[cells[s].key] = s
  /\ world.generation[s] = cells[s].generation

(***************************************************************************)
(* The adapter over its world, constructed and sealed.                     *)
(***************************************************************************)
BoundCells == [s \in Slots |-> IF KeyOf(s) = {} THEN Unbound
                               ELSE BoundTo(Unbound, CHOOSE k \in KeyOf(s) : TRUE, world.generation[s])]

Nothing ==
  /\ world = <<>> /\ cells = <<>> /\ ready = FALSE /\ released = FALSE
  /\ op = NoCall /\ bodies = <<>> /\ told = {} /\ unread = {} /\ marks = 0

AdapterInit ==
  /\ \E kind \in {"dense", "sparse"} :
       world = [kind |-> kind,
                slot_of |-> [k \in SparseKeys |-> IF k \in Slots THEN k ELSE NoSlot],
                generation |-> [s \in Slots |-> IF kind = "dense" THEN 0 ELSE s],
                clock |-> Capacity,
                meta |-> [s \in Slots |-> Meta!FreshMeta]]
  /\ cells = BoundCells
  /\ ready = FALSE /\ released = FALSE /\ op = NoCall /\ bodies = <<>>
  /\ told = {} /\ unread = {} /\ marks = 0
  /\ \E task \in [Slots -> Tasks] :
       /\ \A a, b \in Slots : task[a] = task[b] => a = b
       /\ slots = [s \in Slots |-> [target |-> task[s], generation |-> 1]]
       /\ handles = {[slot |-> s, generation |-> 1, task |-> task[s]] : s \in Slots}
  /\ sealed = TRUE
  /\ \E kind \in Kinds : backend = [kind |-> kind, queue |-> <<>>, word |-> {}, claimed |-> {}]
  /\ stack = <<>> /\ calls = [p \in Producers |-> Away]
  /\ in_flight = 0 /\ activity = 0 /\ idle = {} /\ drain = NoDrain /\ owed = {}

HandleOf(s) == [slot |-> s, generation |-> slots[s].generation, task |-> slots[s].target]

(***************************************************************************)
(* schedule_slot from outside: the debt is claimed, the handle offered.    *)
(***************************************************************************)
BetweenCalls == op = NoCall /\ Exclusive /\ ~released

OfferSlot(s, call) ==
  /\ Enter(Main, HandleOf(s))
  /\ ready' = FALSE
  /\ op' = [call EXCEPT !.slot = s, !.claimed = cells[s].debt]
  /\ cells' = [cells EXCEPT ![s].debt = FALSE]

Changed(s) == world' = [world EXCEPT !.meta[s] = Meta!MarkContentChanged(@)]
Marked(s) ==
  /\ world' = [world EXCEPT !.meta[s] = Meta!MarkDirty(@, Owned, Meta!TileBox(0))]
  /\ marks < MaxMarks /\ marks' = marks + 1
  /\ unread' = unread \cup {s}

MarkDirty(k) ==
  /\ BetweenCalls
  /\ \E s \in BoundSlots(k) : Marked(s) /\ OfferSlot(s, [NoCall EXCEPT !.name = "offer"])
  /\ UNCHANGED <<released, bodies, told>>

Retry(k) ==
  /\ BetweenCalls
  /\ \E s \in BoundSlots(k) : OfferSlot(s, [NoCall EXCEPT !.name = "offer"])
  /\ UNCHANGED <<world, released, bodies, told, unread, marks>>

(* A disjoint owner of other bits changes a chunk.                         *)
OtherOwnerMarks(k) ==
  /\ BetweenCalls /\ k \in ResidentKeys
  /\ Changed(world.slot_of[k])
  /\ marks < MaxMarks /\ marks' = marks + 1
  /\ UNCHANGED <<maintenance_vars, cells, ready, released, op, bodies, told, unread>>

OfferProceeds ==
  /\ Offer(Main) \/ Count(Main)
  /\ UNCHANGED adapter_vars

(* The offer returns: a claimed debt that was not taken is a debt again,   *)
(* and an exception leaves the call that made the offer.                   *)
OfferReturns ==
  LET s == op.slot
      result == calls[Main].result
  IN  /\ Leave(Main)
      /\ cells' = [cells EXCEPT ![s].debt = @ \/ (op.claimed /\ result \in {"CapacityExhausted", "Stalled"})]
      /\ told' = IF result = "Accepted" THEN told \ {s} ELSE told \cup {s}
      /\ op' = IF op.name = "offer" \/ result = "Thrown" THEN NoCall
               ELSE [op EXCEPT !.slot = NoSlot, !.todo = @ \ 1 .. s]
      /\ UNCHANGED <<world, ready, released, bodies, unread, marks>>

(***************************************************************************)
(* run_some and flush.                                                     *)
(***************************************************************************)
RunSome(budget) ==
  /\ BetweenCalls
  /\ BeginDrain(budget)
  /\ ready' = FALSE
  /\ op' = [NoCall EXCEPT !.name = "run_some"]
  /\ UNCHANGED <<world, cells, released, bodies, told, unread, marks>>

Flush ==
  /\ BetweenCalls
  /\ ready' = FALSE
  /\ op' = [NoCall EXCEPT !.name = "before", !.todo = Slots]
  /\ UNCHANGED <<maintenance_vars, world, cells, released, bodies, told, unread, marks>>

Indebted == {s \in Slots : cells[s].debt}

(* reoffer_retry_debt, in slot order.                                      *)
Reoffer ==
  /\ op.name \in {"before", "after"} /\ op.slot = NoSlot
  /\ \E s \in op.todo \cap Indebted :
       /\ \A r \in op.todo \cap Indebted : s <= r
       /\ OfferSlot(s, [op EXCEPT !.offered = op.name = "after"])
  /\ UNCHANGED <<world, released, bodies, told, unread, marks>>

FlushDrains ==
  /\ op.name = "before" /\ op.slot = NoSlot /\ op.todo \cap Indebted = {}
  /\ BeginDrain(Unbounded)
  /\ op' = [NoCall EXCEPT !.name = "flush"]
  /\ UNCHANGED <<world, cells, ready, released, bodies, told, unread, marks>>

DrainProceeds ==
  /\ ReadInFlight \/ ReadPending \/ Claim \/ DrainCompletes \/ ReadLeft
  /\ UNCHANGED adapter_vars

DrainReturns ==
  /\ Conclude
  /\ op' = [op EXCEPT !.name = IF @ = "flush" THEN "after" ELSE "finalize",
                      !.todo = IF op.name = "flush" THEN Slots ELSE {},
                      !.result = DrainResult]
  /\ UNCHANGED <<world, cells, ready, released, bodies, told, unread, marks>>

(* finalize_drain *)
Finalize ==
  /\ op.name = "finalize" \/ (op.name = "after" /\ op.slot = NoSlot /\ op.todo \cap Indebted = {})
  /\ ready' = (op.result = "Idle" /\ ~op.offered /\ Indebted = {})
  /\ op' = NoCall
  /\ UNCHANGED <<maintenance_vars, world, cells, released, bodies, told, unread, marks>>

(***************************************************************************)
(* run_slot, in the frame on top: look, rebuild, publish, follow up.       *)
(***************************************************************************)
Body == Last(bodies)
AtBody(phase) == Underway /\ Len(bodies) = Cardinality({i \in DOMAIN stack : stack[i].active}) /\ Body.phase = phase
WithBody(body) == bodies' = Append(Front(bodies), body)

NothingToDo(s, observed) ==
  observed.mask = {} /\ (~cells[s].built \/ cells[s].token.version = observed.content_version)

SlotBegins(s) ==
  LET observed == Meta!ObserveDirty(world.meta[s], Owned, world.generation[s])
      runs == cells[s].bound /\ BindingCurrent(s)
      clean == runs /\ NothingToDo(s, observed)
  IN  /\ bodies' = Append(bodies, [phase |-> IF runs /\ ~clean THEN "rebuilding" ELSE "done",
                                   observed |-> observed, units |-> IF cells[s].bound THEN 1 ELSE 0])
      /\ cells' = IF clean THEN [cells EXCEPT ![s].debt = FALSE] ELSE cells
      /\ UNCHANGED <<world, ready, released, op, told, unread, marks>>

RunBeginsSlot ==
  \/ \E s \in Slots : RunBegins(s) /\ SlotBegins(s)
  \/ FrameRuns /\ SlotBegins(Top.slot)

(* The callback looks at the chunk, marks chunks, and returns or throws.   *)
CallbackReads ==
  LET s == Top.slot
  IN  /\ AtBody("rebuilding")
      /\ cells' = [cells EXCEPT ![s].product = Content(s)]
      /\ unread' = unread \ {s}
      /\ WithBody([Body EXCEPT !.phase = "rebuilt"])
      /\ UNCHANGED <<maintenance_vars, world, ready, released, op, told, marks>>

(* schedule_slot from a callback; the synchronous backend always accepts.  *)
NestedSchedule(s, debt) ==
  LET accepted == Synchronous \/ Accepts(backend, s)
  IN  /\ NestedOffer(s)
      /\ ready' = FALSE
      /\ cells' = [cells EXCEPT ![s].debt = ~accepted /\ debt]

CallbackMarks(k) ==
  /\ AtBody("rebuilding") \/ AtBody("rebuilt")
  /\ \E s \in BoundSlots(k) :
       /\ Marked(s) /\ NestedSchedule(s, cells[s].debt)
       /\ told' = IF Synchronous \/ Accepts(backend, s) THEN told \ {s} ELSE told \cup {s}
  /\ UNCHANGED <<released, op, bodies>>

(* Mutant: the dirty bits are observed when the callback has returned. *)
ObservedLate(body, s) == Meta!ObserveDirty(world.meta[s], Owned, world.generation[s])
Observed(body, s) == body.observed

CallbackReturns ==
  LET s == Top.slot
      observed == Observed(Body, s)
      cleared == Meta!StillCurrent(world.meta[s], observed, world.generation[s])
  IN  /\ AtBody("rebuilt")
      /\ cells' = [cells EXCEPT ![s].built = TRUE, ![s].debt = @ /\ ~cleared,
                     ![s].token = [key |-> cells[s].key, version |-> observed.content_version,
                                   generation |-> cells[s].generation]]
      /\ world' = [world EXCEPT !.meta[s] = Meta!ClearDirtyObserved(@, observed, world.generation[s])]
      /\ WithBody([Body EXCEPT !.phase = IF cleared THEN "done" ELSE "stale"])
      /\ told' = IF cleared THEN told \ {s} ELSE told
      /\ UNCHANGED <<maintenance_vars, ready, released, op, unread, marks>>

(* The follow-up that capacity refuses becomes a debt.                     *)
FollowUp ==
  /\ AtBody("stale")
  /\ NestedSchedule(Top.slot, TRUE)
  /\ WithBody([Body EXCEPT !.phase = "done"])
  /\ UNCHANGED <<world, released, op, told, unread, marks>>

CallbackThrows ==
  /\ AtBody("rebuilding") \/ AtBody("rebuilt")
  /\ RunThrows
  /\ bodies' = <<>>
  /\ told' = told \cup Framed \cup Running
  /\ unread' = unread \cup {s \in {Top.slot} : world.meta[s].dirty # {}}
  /\ op' = IF Synchronous THEN op ELSE NoCall
  /\ UNCHANGED <<world, cells, ready, released, marks>>

RunReturns ==
  /\ AtBody("done")
  /\ RunEnds(Body.units)
  /\ bodies' = Front(bodies)
  /\ UNCHANGED <<world, cells, ready, released, op, told, unread, marks>>

(***************************************************************************)
(* Residency, at a quiescent boundary.                                     *)
(***************************************************************************)
Boundary == BetweenCalls /\ ready /\ Sparse

Materialized(k, s) ==
  [world EXCEPT !.slot_of = [j \in SparseKeys |-> IF j = k THEN s ELSE IF @[j] = s THEN NoSlot ELSE @[j]],
                !.clock = @ + 1, !.generation[s] = world.clock + 1, !.meta[s] = Meta!FreshMeta]

(* A free slot if there is one; which chunk goes else is SparseWorld's.    *)
MayTake(s) == KeyOf(s) = {} \/ \A r \in Slots : KeyOf(r) # {}
MayMaterialize(k, s) == k \notin ResidentKeys /\ MayTake(s) /\ world.clock < Capacity + MaxTransitions

EnsureResident(k) ==
  /\ Boundary
  /\ \E s \in Slots :
     \/ /\ MayMaterialize(k, s)
        /\ world' = Materialized(k, s)
        /\ cells' = [cells EXCEPT ![s] = BoundTo(@, k, world.clock + 1)]
        /\ told' = told \ {s} /\ unread' = unread \ {s}
     \/ /\ s = world.slot_of[k]
        /\ cells' = [cells EXCEPT ![s] = BoundTo(@, k, world.generation[s])]
        /\ UNCHANGED <<world, told, unread>>
  /\ UNCHANGED <<maintenance_vars, ready, released, op, bodies, marks>>

Evicted(k) == [world EXCEPT !.slot_of[k] = NoSlot]
Evict(k) ==
  /\ Boundary /\ k \in ResidentKeys
  /\ LET s == world.slot_of[k]
     IN  /\ world' = Evicted(k)
         /\ cells' = [cells EXCEPT ![s] = Emptied(@)]
         /\ told' = told \ {s} /\ unread' = unread \ {s}
  /\ UNCHANGED <<maintenance_vars, ready, released, op, bodies, marks>>

(* An archive load evicts and materializes without the adapter.            *)
LoadAround(k) ==
  /\ Boundary
  /\ \/ \E s \in Slots : /\ MayMaterialize(k, s) /\ world' = Materialized(k, s)
                         /\ told' = told \ {s} /\ unread' = unread \ {s}
     \/ /\ k \in ResidentKeys /\ world' = Evicted(k)
        /\ told' = told \ {world.slot_of[k]} /\ unread' = unread \ {world.slot_of[k]}
  /\ UNCHANGED <<maintenance_vars, cells, ready, released, op, bodies, marks>>

Reconcile ==
  /\ Boundary
  /\ cells' = [s \in Slots |-> IF KeyOf(s) = {} THEN Emptied(cells[s])
                 ELSE BoundTo(Emptied(cells[s]), CHOOSE k \in KeyOf(s) : TRUE, world.generation[s])]
  /\ UNCHANGED <<maintenance_vars, world, ready, released, op, bodies, told, unread, marks>>

AdapterReleases ==
  /\ BetweenCalls /\ ready /\ MayRelease
  /\ slots' = [s \in Slots |-> [target |-> NoTask, generation |-> slots[s].generation + 1]]
  /\ released' = TRUE /\ ready' = FALSE
  /\ UNCHANGED <<handles, sealed, backend, stack, calls, in_flight, activity, idle, drain, owed,
                 world, cells, op, bodies, told, unread, marks>>

-----------------------------------------------------------------------------
AdapterCalls(k) ==
  MarkDirty(k) \/ Retry(k) \/ OtherOwnerMarks(k) \/ EnsureResident(k) \/ Evict(k) \/ LoadAround(k)

AdapterNext ==
  \/ \E k \in SparseKeys : AdapterCalls(k) \/ CallbackMarks(k)
  \/ \E b \in DrainBudgets : RunSome(b)
  \/ OfferProceeds \/ OfferReturns
  \/ Flush \/ Reoffer \/ FlushDrains \/ DrainProceeds \/ DrainReturns \/ Finalize
  \/ RunBeginsSlot \/ CallbackReads \/ CallbackReturns \/ FollowUp \/ CallbackThrows \/ RunReturns
  \/ Reconcile \/ AdapterReleases

ChunkInit ==
  \/ scene = "scheduler" /\ MaintenanceInit /\ Nothing
  \/ scene = "adapter" /\ AdapterInit

ChunkNext ==
  /\ UNCHANGED scene
  /\ \/ scene = "scheduler" /\ MaintenanceNext /\ UNCHANGED adapter_vars
     \/ scene = "adapter" /\ AdapterNext

ChunkSpec == ChunkInit /\ [][ChunkNext]_chunk_vars

-----------------------------------------------------------------------------
(* product *)
TokenCurrent(s) ==
  LET token == cells[s].token
  IN  /\ BindingCurrent(s) /\ cells[s].key = token.key /\ cells[s].generation = token.generation
      /\ world.meta[s].content_version = token.version /\ world.meta[s].dirty = {}

ProductCurrent(k) ==
  \E s \in BoundSlots(k) : cells[s].built /\ cells[s].token.key = k /\ TokenCurrent(s)

(* A product that the adapter calls Current is what its callback would     *)
(* read of the chunk now, although callbacks mark what they rebuild, throw *)
(* half way and share the content version with other owners, and though    *)
(* slots are bound to other chunks and residency intervals between drains  *)
(* (chunk_maintenance.h:97-120).                                           *)
ProductsAreTruthful ==
  scene = "adapter" =>
    \A k \in SparseKeys : ProductCurrent(k) =>
      cells[world.slot_of[k]].product = Content(world.slot_of[k])

(* A chunk marked since its product was read has a run ahead of it, a debt *)
(* that keeps every drain from Idle, or a caller that was told: capacity,  *)
(* marks during a rebuild and exceptions lose nothing, and the residency   *)
(* boundary opens over an adapter that retains nothing                     *)
(* (chunk_maintenance.h:103-120).                                          *)
MarkedWorkIsOwed ==
  scene = "adapter" /\ ~released =>
    /\ unread \subseteq Retained \cup Indebted \cup told \cup {op.slot}
    /\ ready => Retained = {} /\ Indebted = {}

(* Nothing that was accepted, marked or admitted is lost on the way to its *)
(* run, by the scheduler or by the adapter over it.                        *)
NoWorkIsForgotten == AcceptedWorkIsKept /\ MarkedWorkIsOwed
=============================================================================
