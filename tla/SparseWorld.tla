----------------------------- MODULE SparseWorld -----------------------------
(***************************************************************************)
(* World<Shape, Schema, SparseResident> of storage/sparse_world.h: the     *)
(* byte-budgeted, least-recently-used set of resident chunks, with the     *)
(* metadata of chunk_meta.h, and the clients that keep handles and dirty   *)
(* observations across its operations.                                     *)
(*                                                                         *)
(* The directory is abstracted to the partial map that it represents; its  *)
(* two representations are modelled by ChunkDirectory.  Page contents are  *)
(* left out: they are reset together with the metadata.                    *)
(***************************************************************************)
EXTENDS ChunkMeta, FiniteSets, Sequences, SequencesExt

CONSTANTS
  Keys,           \* the chunk keys inside the bounded shape
  Slots,          \* the pages that the byte budget pays for
  Npos,           \* npos_slot, and "no slot" in the lists
  Observers,      \* clients holding one DirtyObservation each
  EditedKeys,     \* bound: the chunks whose metadata is edited
  MaxGeneration,  \* bound: materializations
  MaxEdits        \* bound: metadata operations

ASSUME SlotsAssumption == IsFiniteSet(Slots) /\ Slots # {} /\ Npos \notin Slots
ASSUME SparseBoundsAssumption ==
  EditedKeys \subseteq Keys /\ MaxGeneration \in Nat /\ MaxEdits \in Nat

VARIABLES
  directory,         \* directory_: the slot of each resident key
  slot_key,          \* slot_key_; Npos until the slot held a chunk
  slot_generation,   \* slot_generation_
  meta,              \* metadata_, dirty_masks_, active_masks_, dirty_bounds_
  lru_prev, lru_next, lru_head, lru_tail,
  resident_keys,     \* resident_keys_
  resident_slots,    \* resident_slots_
  slot_position,     \* slot_position_, counted from 1
  free_slots,        \* free_slots_
  generation_clock,  \* generation_clock_
  observation,       \* observation[o]: what observer o holds, or nothing
  order,             \* history: the resident slots by last use
  changed_since,     \* history: the key of o was edited since o observed it
  marks,             \* history: <<flag, tile>> marked in s and not cleared
  edits              \* metadata operations so far

lruVars      == <<lru_prev, lru_next, lru_head, lru_tail>>
residentVars == <<resident_keys, resident_slots, slot_position>>
storageVars  == <<directory, slot_key, slot_generation, lruVars, residentVars,
                  free_slots, generation_clock, order>>
vars == <<storageVars, meta, observation, changed_since, marks, edits>>

NoObservation == [key |-> Npos, seen |-> ObserveDirty(FreshMeta, {}, 0)]

Init ==
  /\ directory = [k \in Keys |-> Npos]
  /\ slot_key = [s \in Slots |-> Npos]
  /\ slot_generation = [s \in Slots |-> 0]
  /\ meta = [s \in Slots |-> FreshMeta]
  /\ lru_prev = [s \in Slots |-> Npos]
  /\ lru_next = [s \in Slots |-> Npos]
  /\ lru_head = Npos
  /\ lru_tail = Npos
  /\ resident_keys = <<>>
  /\ resident_slots = <<>>
  /\ slot_position = [s \in Slots |-> 1]
  /\ free_slots = SetToSeq(Slots)
  /\ generation_clock = 0
  /\ observation = [o \in Observers |-> NoObservation]
  /\ order = <<>>
  /\ changed_since = [o \in Observers |-> FALSE]
  /\ marks = [s \in Slots |-> {}]
  /\ edits = 0

Resident(k) == directory[k] # Npos
Generation(k) == IF Resident(k) THEN slot_generation[directory[k]] ELSE 0

(* valid(handle)                                                           *)
ValidWhileResident(h) == h.generation # 0 /\ Resident(h.key)
Valid(h) == h.generation # 0 /\ Generation(h.key) = h.generation

-----------------------------------------------------------------------------
(* The intrusive list.  A list is a record, so that an operation can chain *)
(* lru_unlink and lru_push_mru.                                            *)

List == [prev |-> lru_prev, next |-> lru_next,
         head |-> lru_head, tail |-> lru_tail]

RelinkedNext(l, s) ==
  IF l.prev[s] = Npos THEN l.next
  ELSE [l.next EXCEPT ![l.prev[s]] = l.next[s]]
RelinkedPrev(l, s) ==
  IF l.next[s] = Npos THEN l.prev
  ELSE [l.prev EXCEPT ![l.next[s]] = l.prev[s]]

Unlink(l, s) ==
  [prev |-> [RelinkedPrev(l, s) EXCEPT ![s] = Npos],
   next |-> [RelinkedNext(l, s) EXCEPT ![s] = Npos],
   head |-> IF l.prev[s] = Npos THEN l.next[s] ELSE l.head,
   tail |-> IF l.next[s] = Npos THEN l.prev[s] ELSE l.tail]

PushMru(l, s) ==
  [prev |-> [l.prev EXCEPT ![s] = l.tail],
   next |-> IF l.tail = Npos THEN [l.next EXCEPT ![s] = Npos]
            ELSE [l.next EXCEPT ![s] = Npos, ![l.tail] = s],
   head |-> IF l.tail = Npos THEN s ELSE l.head,
   tail |-> s]

MoveToMru(l, s) == IF l.tail = s THEN l ELSE PushMru(Unlink(l, s), s)

SetList(l) ==
  /\ lru_prev' = l.prev
  /\ lru_next' = l.next
  /\ lru_head' = l.head
  /\ lru_tail' = l.tail

-----------------------------------------------------------------------------
(* release_slot: the directory, list and swap-removed arrays without s.    *)

WithoutLast(q) == SubSeq(q, 1, Len(q) - 1)
SwapRemoved(q, i) == WithoutLast([q EXCEPT ![i] = q[Len(q)]])

(* The last element takes the place of s, and its slot must learn that.    *)
MovedPositionForgotten(s) == slot_position
MovedPosition(s) ==
  [slot_position EXCEPT ![resident_slots[Len(resident_slots)]] =
                            slot_position[s]]

Released(s) ==
  [directory |-> [directory EXCEPT ![slot_key[s]] = Npos],
   list      |-> Unlink(List, s),
   keys      |-> SwapRemoved(resident_keys, slot_position[s]),
   slots     |-> SwapRemoved(resident_slots, slot_position[s]),
   position  |-> MovedPosition(s),
   order     |-> RemoveFirst(order, s)]

NothingReleased ==
  [directory |-> directory, list |-> List, keys |-> resident_keys,
   slots |-> resident_slots, position |-> slot_position, order |-> order]

(* The part of ensure_resident that follows acquire_slot: slot s, which r  *)
(* left out of every structure, becomes the page of k.                     *)
Materialize(k, s, r) ==
  /\ meta' = [meta EXCEPT ![s] = FreshMeta]
  /\ marks' = [marks EXCEPT ![s] = {}]
  /\ slot_key' = [slot_key EXCEPT ![s] = k]
  /\ generation_clock' = generation_clock + 1
  /\ slot_generation' = [slot_generation EXCEPT ![s] = generation_clock + 1]
  /\ SetList(PushMru(r.list, s))
  /\ slot_position' = [r.position EXCEPT ![s] = Len(r.keys) + 1]
  /\ resident_keys' = Append(r.keys, k)
  /\ resident_slots' = Append(r.slots, s)
  /\ directory' = [r.directory EXCEPT ![k] = s]
  /\ order' = Append(r.order, s)
  /\ UNCHANGED <<observation, changed_since, edits>>

MaterializeInFreeSlot(k) ==
  /\ free_slots # <<>>
  /\ free_slots' = WithoutLast(free_slots)
  /\ Materialize(k, free_slots[Len(free_slots)], NothingReleased)

MostRecentlyUsed == lru_tail
Victim == lru_head

MaterializeInVictim(k) ==
  /\ free_slots = <<>>
  /\ UNCHANGED free_slots
  /\ Materialize(k, Victim, Released(Victim))

(* lru_move_to_mru of a resident key                                       *)
MoveKeyToMru(k) ==
  /\ Resident(k)
  /\ SetList(MoveToMru(List, directory[k]))
  /\ order' = Append(RemoveFirst(order, directory[k]), directory[k])
  /\ UNCHANGED <<directory, slot_key, slot_generation, residentVars,
                 free_slots, generation_clock, meta, observation,
                 changed_since, marks, edits>>

EnsureResident(k) ==
  \/ MoveKeyToMru(k)
  \/ /\ ~Resident(k)
     /\ generation_clock < MaxGeneration
     /\ MaterializeInFreeSlot(k) \/ MaterializeInVictim(k)

(* touch does nothing for an absent key.                                   *)
Touch(k) ==
  \/ MoveKeyToMru(k)
  \/ ~Resident(k) /\ UNCHANGED vars

Evict(k) ==
  LET s == directory[k]
      r == Released(s)
  IN
  /\ Resident(k)
  /\ directory' = r.directory
  /\ SetList(r.list)
  /\ resident_keys' = r.keys
  /\ resident_slots' = r.slots
  /\ slot_position' = r.position
  /\ order' = r.order
  /\ free_slots' = Append(free_slots, s)
  /\ UNCHANGED <<slot_key, slot_generation, generation_clock, meta,
                 observation, changed_since, marks, edits>>

-----------------------------------------------------------------------------
(* Metadata operations: the key must be resident.                          *)

Edit(k) == Resident(k) /\ edits < MaxEdits /\ edits' = edits + 1

SetMeta(k, m) == meta' = [meta EXCEPT ![directory[k]] = m]

ContentChanged(k) ==
  changed_since' = [o \in Observers |->
                      changed_since[o] \/ observation[o].key = k]

MarksAdded(k, mask, t) ==
  marks' = [marks EXCEPT ![directory[k]] = @ \cup (mask \X {t})]
MarksCleared(k, mask) ==
  marks' = [marks EXCEPT ![directory[k]] = {x \in @ : x[1] \notin mask}]

MarkChunkDirty(k, mask, t) ==
  /\ Edit(k)
  /\ SetMeta(k, MarkDirty(meta[directory[k]], mask, TileBox(t)))
  /\ ContentChanged(k)
  /\ MarksAdded(k, mask, t)
  /\ UNCHANGED <<storageVars, observation>>

MarkChunkContentChanged(k) ==
  /\ Edit(k)
  /\ SetMeta(k, MarkContentChanged(meta[directory[k]]))
  /\ ContentChanged(k)
  /\ UNCHANGED <<storageVars, observation, marks>>

MarkTopologyDirty(k, mask, t) ==
  LET m == MarkDirty(meta[directory[k]], mask, TileBox(t)) IN
  /\ Edit(k)
  /\ SetMeta(k, [m EXCEPT !.topology_version = @ + 1])
  /\ ContentChanged(k)
  /\ MarksAdded(k, mask, t)
  /\ UNCHANGED <<storageVars, observation>>

MarkTopologyRebuilt(k) ==
  /\ Edit(k)
  /\ SetMeta(k, [meta[directory[k]] EXCEPT !.topology_version = @ + 1])
  /\ UNCHANGED <<storageVars, observation, changed_since, marks>>

ClearChunkDirty(k, mask) ==
  /\ Edit(k)
  /\ SetMeta(k, ClearDirty(meta[directory[k]], mask))
  /\ MarksCleared(k, mask)
  /\ UNCHANGED <<storageVars, observation, changed_since>>

Observe(o, k, mask) ==
  /\ Edit(k)
  /\ observation' = [observation EXCEPT ![o] =
       [key |-> k, seen |-> ObserveDirty(meta[directory[k]], mask, Generation(k))]]
  /\ changed_since' = [changed_since EXCEPT ![o] = FALSE]
  /\ UNCHANGED <<storageVars, meta, marks>>

(* clear_dirty_observed would accept what o holds.                         *)
Accepts(o) ==
  /\ observation[o].key # Npos
  /\ Resident(observation[o].key)
  /\ StillCurrent(meta[directory[observation[o].key]], observation[o].seen,
                  Generation(observation[o].key))

ClearObserved(o) ==
  LET k == observation[o].key IN
  /\ k # Npos
  /\ Edit(k)
  /\ SetMeta(k, ClearDirtyObserved(meta[directory[k]], observation[o].seen,
                                   Generation(k)))
  /\ \/ Accepts(o) /\ MarksCleared(k, observation[o].seen.mask)
     \/ ~Accepts(o) /\ UNCHANGED marks
  /\ UNCHANGED <<storageVars, observation, changed_since>>

MarkChunkActive(k, mask) ==
  /\ Edit(k)
  /\ SetMeta(k, MarkActive(meta[directory[k]], mask))
  /\ UNCHANGED <<storageVars, observation, changed_since, marks>>

ClearChunkActive(k, mask) ==
  /\ Edit(k)
  /\ SetMeta(k, ClearActive(meta[directory[k]], mask))
  /\ UNCHANGED <<storageVars, observation, changed_since, marks>>

Masks == (SUBSET Flags) \ {{}}

Next ==
  \/ \E k \in Keys : EnsureResident(k) \/ Touch(k) \/ Evict(k)
  \/ \E k \in EditedKeys :
    \/ \E mask \in Masks, t \in Positions :
         MarkChunkDirty(k, mask, t) \/ MarkTopologyDirty(k, mask, t)
    \/ \E mask \in Masks : ClearChunkDirty(k, mask)
    \/ \E mask \in Masks, o \in Observers : Observe(o, k, mask)
    \/ \E o \in Observers : ClearObserved(o)
    \/ MarkChunkContentChanged(k) \/ MarkTopologyRebuilt(k)
    \/ MarkChunkActive(k, Actives) \/ ClearChunkActive(k, Actives)

Spec == Init /\ [][Next]_vars

-----------------------------------------------------------------------------
(* Properties                                                              *)

SlotOrNone == Slots \cup {Npos}
Boxes == [lo : Nat, end : Nat]
Metas == [content_version : Nat, topology_version : Nat, dirty : SUBSET Flags,
          active : SUBSET Actives, bounds : Boxes]
Seen == [mask : SUBSET Flags, bounds : Boxes, content_version : Nat,
         generation : Nat]

(* Every variable has its type.                                            *)
TypeOK ==
  /\ directory \in [Keys -> SlotOrNone]
  /\ slot_key \in [Slots -> Keys \cup {Npos}]
  /\ slot_generation \in [Slots -> Nat]
  /\ meta \in [Slots -> Metas]
  /\ lru_prev \in [Slots -> SlotOrNone]
  /\ lru_next \in [Slots -> SlotOrNone]
  /\ lru_head \in SlotOrNone
  /\ lru_tail \in SlotOrNone
  /\ resident_keys \in Seq(Keys)
  /\ resident_slots \in Seq(Slots)
  /\ slot_position \in [Slots -> Nat \ {0}]
  /\ free_slots \in Seq(Slots)
  /\ generation_clock \in Nat
  /\ observation \in [Observers -> [key : Keys \cup {Npos}, seen : Seen]]
  /\ order \in Seq(Slots)
  /\ changed_since \in [Observers -> BOOLEAN]
  /\ marks \in [Slots -> SUBSET (Flags \X Positions)]
  /\ edits \in Nat

(* The doubly linked list runs through the resident slots in the order of  *)
(* their last use, in both directions.                                     *)
ListIsOrder ==
  LET n == Len(order) IN
  /\ n = Len(resident_slots)
  /\ lru_head = IF n = 0 THEN Npos ELSE order[1]
  /\ lru_tail = IF n = 0 THEN Npos ELSE order[n]
  /\ \A i \in 1 .. n :
       /\ lru_next[order[i]] = IF i = n THEN Npos ELSE order[i + 1]
       /\ lru_prev[order[i]] = IF i = 1 THEN Npos ELSE order[i - 1]

(* The dirty bounds of a chunk contain every tile marked with a flag that  *)
(* is still dirty, whatever other flags were cleared in between.           *)
BoundsCoverMarks ==
  \A s \in Slots : \A x \in marks[s] :
    x[1] \in meta[s].dirty =>
      meta[s].bounds.lo <= x[2] /\ x[2] < meta[s].bounds.end

(* The directory, the swap-removed arrays and the free list describe the   *)
(* same set of resident chunks: ensure_resident, evict and the eviction    *)
(* under budget pressure update all of them together.                      *)
StorageConsistent ==
  /\ TypeOK /\ ListIsOrder /\ BoundsCoverMarks
  /\ Len(resident_slots) = Len(resident_keys)
  /\ \A i \in 1 .. Len(resident_slots) :
       LET s == resident_slots[i] IN
       /\ resident_keys[i] = slot_key[s]
       /\ slot_position[s] = i
       /\ directory[slot_key[s]] = s
  /\ \A k \in Keys : Resident(k) =>
       \E i \in 1 .. Len(resident_keys) : resident_keys[i] = k
  /\ \A s \in Slots :
       Cardinality({i \in 1 .. Len(free_slots) : free_slots[i] = s})
         + Cardinality({k \in Keys : directory[k] = s}) = 1

LRU == INSTANCE ResidentSet WITH
  Capacity   <- Cardinality(Slots),
  recency    <- [i \in 1 .. Len(order) |-> slot_key[order[i]]],
  generation <- [k \in Keys |-> Generation(k)],
  clock      <- generation_clock

(* The slots, lists and arrays of the world implement a bounded set of     *)
(* chunks that evicts the least recently used one and never repeats a      *)
(* generation.                                                             *)
ImplementsResidentSet == LRU!Spec

(* A handle that valid() refuses once is refused for ever, although slots  *)
(* and keys are reused: no step revives a handle of a generation that was  *)
(* given already.                                                          *)
HandlesNeverRevive ==
  [][\A k \in Keys, g \in 1 .. generation_clock :
       LET h == [key |-> k, generation |-> g]
       IN  ~Valid(h) => ~Valid(h)']_vars

(* clear_dirty_observed accepts an observation only if nothing was marked  *)
(* in the chunk since: not even an eviction and a rematerialization, which *)
(* restart content_version, hide a mark from it.                           *)
AcceptedObservationIsFresh ==
  \A o \in Observers : Accepts(o) => ~changed_since[o]

=============================================================================
