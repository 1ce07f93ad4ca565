----------------------------- MODULE DeltaFrame -----------------------------
(***************************************************************************)
(* sim/delta_frame.h: the versioned bridge between a simulated world and a *)
(* presentation that keeps its own shadow of it.  A DeltaCollector turns   *)
(* dirty chunks and entity transitions into records, seals them into a     *)
(* frame, and chains frames by version; a consumer applies a frame only    *)
(* when delta_frame_applicable says so.  Frames can be missed, storage can *)
(* overflow, the collector can be cleared, moved from, or replaced, and    *)
(* the consumer can restart: the shadow must never be wrong without the    *)
(* chain showing it.                                                       *)
(*                                                                         *)
(* Tile records invalidate and carry no contents: applying one re-reads    *)
(* the chunk.  `stale` is the set of chunks the shadow differs on, so that *)
(* no content is modelled.  Per-tile records, boxes, ticks, overlays and   *)
(* the dirty mask's union refine a record and decide nothing here.         *)
(***************************************************************************)
EXTENDS Integers, FiniteSets, Sequences

CONSTANTS Chunks,         \* the world's chunks
          Entities,       \* entity handles
          Tiles,          \* the tiles entities stand on
          Nowhere,        \* where an entity stands that is not placed
          ChunkCapacity,  \* reserve()'s chunk_capacity
          EntityCapacity, \* reserve()'s entity_capacity
          CoalesceMoves,  \* DeltaCollectorOptions::coalesce_moves
          MovesWithBaselinePending, \* may the client move a collector
                                    \* between collect_baseline and publish?
          MaxVersion      \* bound: no publish once the version is here

ASSUME DeltaAssumption ==
    /\ IsFiniteSet(Chunks) /\ Nowhere \notin Tiles
    /\ ChunkCapacity \in Nat /\ EntityCapacity \in Nat /\ MaxVersion \in Nat
    /\ CoalesceMoves \in BOOLEAN /\ MovesWithBaselinePending \in BOOLEAN

VARIABLES
    dirty,     \* the world's dirty chunks, under the collected mask
    at,        \* where each entity stands in the simulation
    version, pendingChunks, chunkRecords, pendingEntities, coalesceSlots,
    pendingTruncated, baselinePending, needsBaseline, movedFrom, reserved,
    frame,     \* the last published frame; frame.live is its generation check
    seen,      \* the consumer's RenderVersion
    stale,     \* chunks whose shadow differs from the world
    shown      \* the consumer's entity presentation

world     == <<dirty, at>>
chunkPart == <<pendingChunks, chunkRecords>>
entityPart == <<pendingEntities, coalesceSlots>>
flags     == <<baselinePending, needsBaseline, movedFrom, reserved>>
consumer  == <<seen, stale, shown>>
vars == <<world, version, chunkPart, entityPart, pendingTruncated, flags,
          frame, consumer>>

Places == Tiles \cup {Nowhere}

\* Teleported, Spawned, Despawned, Parked and Placed are all barriers;
\* Spawned/Placed and Despawned/Parked differ in name alone.
Kinds == {"moved", "teleported", "appeared", "vanished"}
EntityDelta == [entity : Entities, kind : Kinds, from : Tiles, to : Tiles]

Barrier == 0    \* kBarrier; record indices count from 1
NoSlot  == -1   \* the entity has no slot
SlotValues == {NoSlot, Barrier} \cup (Nat \ {0})
NoSlots == [e \in Entities |-> NoSlot]

Frame == [live : BOOLEAN, from : Nat, to : Nat, baseline : BOOLEAN,
          truncated : BOOLEAN, chunks : SUBSET Chunks,
          entities : Seq(EntityDelta)]

\* No view, or one whose generation check fails: its contents are out of reach.
NoFrame == [live |-> FALSE, from |-> 0, to |-> 0, baseline |-> FALSE,
            truncated |-> FALSE, chunks |-> {}, entities |-> <<>>]

\* An unreserved or moved-from collector has empty vectors.
ChunkRoom  == (IF reserved THEN ChunkCapacity ELSE 0) - chunkRecords
EntityRoom == (IF reserved THEN EntityCapacity ELSE 0) - Len(pendingEntities)

TypeOK ==
    /\ dirty \subseteq Chunks /\ stale \subseteq Chunks
    /\ at \in [Entities -> Places] /\ shown \in [Entities -> Places]
    /\ version \in Nat /\ seen \in Nat
    /\ pendingChunks \subseteq Chunks /\ chunkRecords \in 0 .. ChunkCapacity
    /\ pendingEntities \in Seq(EntityDelta)
    /\ Len(pendingEntities) <= EntityCapacity
    /\ coalesceSlots \in [Entities -> SlotValues]
    /\ pendingTruncated \in BOOLEAN /\ baselinePending \in BOOLEAN
    /\ needsBaseline \in BOOLEAN /\ movedFrom \in BOOLEAN
    /\ reserved \in BOOLEAN
    /\ frame \in Frame

Init ==
    /\ dirty = {} /\ at = [e \in Entities |-> Nowhere]
    /\ version = 1
    /\ pendingChunks = {} /\ chunkRecords = 0
    /\ pendingEntities = <<>> /\ coalesceSlots = NoSlots
    /\ pendingTruncated = FALSE /\ baselinePending = FALSE
    /\ needsBaseline = FALSE /\ movedFrom = FALSE /\ reserved = FALSE
    /\ frame = NoFrame
    /\ seen = 0 /\ stale = Chunks /\ shown = [e \in Entities |-> Nowhere]

-----------------------------------------------------------------------------
\* Recording.  The ECS hooks record an intent when it succeeds, so the
\* entity's move in the simulation and its record are one step.

\* find_coalesce_slot: may e's next move fold into its latest record?
Folds(e) ==
    /\ CoalesceMoves /\ coalesceSlots[e] \notin {NoSlot, Barrier}
    /\ pendingEntities[coalesceSlots[e]].to = at[e]

\* append_entity, then the slot upsert if the record was kept
AppendEntity(record, slot) ==
    IF EntityRoom = 0
    THEN /\ pendingTruncated' = TRUE
         /\ UNCHANGED entityPart
    ELSE /\ pendingEntities' = Append(pendingEntities, record)
         /\ coalesceSlots' =
                IF CoalesceMoves
                THEN [coalesceSlots EXCEPT ![record.entity] = slot]
                ELSE coalesceSlots
         /\ UNCHANGED pendingTruncated

\* record_move: extends the entity's open record when it ends where the new
\* step begins, otherwise starts a record.
RecordMove(e, to) ==
    /\ at[e] # Nowhere
    /\ at' = [at EXCEPT ![e] = to]
    /\ \/ /\ Folds(e)
          /\ pendingEntities' =
                [pendingEntities EXCEPT ![coalesceSlots[e]].to = to]
          /\ UNCHANGED <<coalesceSlots, pendingTruncated>>
       \/ /\ ~Folds(e)
          /\ AppendEntity([entity |-> e, kind |-> "moved",
                           from |-> at[e], to |-> to], Len(pendingEntities) + 1)
    /\ UNCHANGED <<dirty, version, chunkPart, flags, frame, consumer>>

\* record_barrier: later moves of the entity start a fresh record.
RecordBarrier(e, kind, from, to) ==
    /\ AppendEntity([entity |-> e, kind |-> kind, from |-> from, to |-> to],
                    Barrier)
    /\ UNCHANGED <<dirty, version, chunkPart, flags, frame, consumer>>

RecordTeleport(e, to) ==
    /\ at[e] # Nowhere
    /\ at' = [at EXCEPT ![e] = to]
    /\ RecordBarrier(e, "teleported", at[e], to)

RecordAppear(e, p) ==     \* record_spawn, record_place
    /\ at[e] = Nowhere
    /\ at' = [at EXCEPT ![e] = p]
    /\ RecordBarrier(e, "appeared", p, p)

RecordVanish(e) ==        \* record_despawn, record_park
    /\ at[e] # Nowhere
    /\ at' = [at EXCEPT ![e] = Nowhere]
    /\ RecordBarrier(e, "vanished", at[e], at[e])

\* The simulation writes a tile of c: mark_dirty.
MarkDirty(c) ==
    /\ dirty' = dirty \cup {c}
    /\ stale' = stale \cup {c}
    /\ UNCHANGED <<at, version, chunkPart, entityPart, pendingTruncated,
                   flags, frame, seen, shown>>

\* The chunks whose records fit; a dense scan takes the first in key order,
\* a sparse one the first in the resident list.
Recordable(cs) ==
    {s \in SUBSET cs : Cardinality(s) =
        IF Cardinality(cs) <= ChunkRoom THEN Cardinality(cs) ELSE ChunkRoom}

\* collect_tile_deltas: a chunk whose record did not fit stays dirty.
CollectTileDeltas ==
    /\ \E kept \in Recordable(dirty) :
         /\ pendingChunks' = pendingChunks \cup kept
         /\ chunkRecords' = chunkRecords + Cardinality(kept)
         /\ pendingTruncated' = (pendingTruncated \/ kept # dirty)
         /\ dirty' = dirty \ kept
    /\ UNCHANGED <<at, version, entityPart, flags, frame, consumer>>

\* collect_baseline: pending tile records and the pending truncation are
\* superseded; every chunk's bits are cleared, record kept or not.
CollectBaseline ==
    LET room == IF reserved THEN ChunkCapacity ELSE 0
        fit  == IF Cardinality(Chunks) <= room THEN Cardinality(Chunks)
                                               ELSE room
    IN  /\ \E kept \in SUBSET Chunks :
             /\ Cardinality(kept) = fit
             /\ pendingChunks' = kept
             /\ chunkRecords' = fit
             /\ pendingTruncated' = (kept # Chunks)
        /\ dirty' = {}
        /\ baselinePending' = TRUE
        /\ UNCHANGED <<at, version, entityPart, needsBaseline, movedFrom,
                       reserved, frame, consumer>>

-----------------------------------------------------------------------------
\* clear_coalesce_slots erases the slots of the pending records' entities.
SlotsWithout(records, slots) ==
    [e \in Entities |->
        IF \E i \in DOMAIN records : records[i].entity = e
        THEN NoSlot ELSE slots[e]]

\* The vectors and flags publish() and clear() both reset.
ResetPending ==
    /\ pendingChunks' = {} /\ chunkRecords' = 0
    /\ pendingEntities' = <<>>
    /\ coalesceSlots' = SlotsWithout(pendingEntities, coalesceSlots)
    /\ pendingTruncated' = FALSE /\ baselinePending' = FALSE

MutEntitiesAreNotState ==
    \/ chunkRecords # 0
    \/ baselinePending \/ pendingTruncated \/ needsBaseline \/ movedFrom

StateCarrying ==
    \/ chunkRecords # 0 \/ pendingEntities # <<>>
    \/ baselinePending \/ pendingTruncated \/ needsBaseline \/ movedFrom

\* A truncated publish advances the version even when it carries nothing.
NextVersion == IF StateCarrying THEN version + 1 ELSE version

MutMoveDoesNotPoison ==
    pendingTruncated \/ (needsBaseline /\ ~baselinePending)

\* A poisoned stream's frame is refused unless it is a baseline.
MustTruncate ==
    pendingTruncated \/ ((needsBaseline \/ movedFrom) /\ ~baselinePending)

\* publish(): the previous frame's view dies with its buffers.
Publish ==
    /\ version < MaxVersion
    /\ version' = NextVersion
    /\ frame' = [live |-> TRUE, from |-> version, to |-> NextVersion,
                 baseline |-> baselinePending,
                 truncated |-> MustTruncate,
                 chunks |-> pendingChunks,
                 entities |-> IF baselinePending THEN <<>>
                                                 ELSE pendingEntities]
    /\ needsBaseline' = (needsBaseline /\ ~baselinePending)
    /\ movedFrom' = (movedFrom /\ ~baselinePending)
    /\ ResetPending
    /\ UNCHANGED <<world, reserved, consumer>>

\* clear(): pending records are lost, so the stream is poisoned.
Clear ==
    /\ ResetPending
    /\ needsBaseline' = TRUE
    /\ UNCHANGED <<world, version, movedFrom, reserved, frame, consumer>>

\* reserve(): may reallocate the published vectors too.
Reserve ==
    /\ reserved' = TRUE
    /\ frame' = NoFrame
    /\ UNCHANGED <<world, version, chunkPart, entityPart, pendingTruncated,
                   baselinePending, needsBaseline, movedFrom, consumer>>

\* The client moves the collector away and this consumer stays with the
\* source: the vectors go, the scalars are copied, MovedFromFlag is set.
MoveFrom ==
    /\ baselinePending => MovesWithBaselinePending
    /\ pendingChunks' = {} /\ chunkRecords' = 0
    /\ pendingEntities' = <<>> /\ coalesceSlots' = NoSlots
    /\ reserved' = FALSE
    /\ movedFrom' = TRUE
    /\ frame' = NoFrame
    /\ UNCHANGED <<world, version, pendingTruncated, baselinePending,
                   needsBaseline, consumer>>

\* While the source is moved-from, the destination owns the dirty bits and
\* collects them for consumers of its own.
DestinationCollects(c) ==
    /\ movedFrom /\ c \in dirty
    /\ dirty' = dirty \ {c}
    /\ UNCHANGED <<at, version, chunkPart, entityPart, pendingTruncated,
                   flags, frame, consumer>>

\* A fresh collector is assigned: a new chain, which consumers start at {0}.
AssignFresh ==
    /\ version' = 1
    /\ pendingChunks' = {} /\ chunkRecords' = 0
    /\ pendingEntities' = <<>> /\ coalesceSlots' = NoSlots
    /\ pendingTruncated' = FALSE /\ baselinePending' = FALSE
    /\ needsBaseline' = FALSE /\ movedFrom' = FALSE /\ reserved' = FALSE
    /\ frame' = NoFrame
    /\ seen' = 0 /\ stale' = Chunks
    /\ shown' = [e \in Entities |-> Nowhere]
    /\ UNCHANGED world

-----------------------------------------------------------------------------
MutGapsAreApplied == ~frame.truncated /\ (frame.baseline \/ seen # 0)

\* delta_frame_applicable
Applicable ==
    /\ ~frame.truncated
    /\ frame.baseline \/ (seen # 0 /\ seen = frame.from)

\* What a record leaves of its entity's presentation.
Effect(record) == IF record.kind = "vanished" THEN Nowhere ELSE record.to

\* The presentation after a run of records: an entity's last record wins.
Replayed(records, presentation) ==
    [e \in Entities |->
        LET mine == {i \in DOMAIN records : records[i].entity = e}
            last == CHOOSE i \in mine : \A j \in mine : j <= i
        IN  IF mine = {} THEN presentation[e] ELSE Effect(records[last])]

\* The consumer applies the live frame; it may also never get to it before
\* the next publish.  A baseline re-snapshots the entities.
Apply ==
    /\ frame.live /\ Applicable
    /\ seen' = frame.to
    /\ stale' = stale \ frame.chunks
    /\ shown' = IF frame.baseline THEN at ELSE Replayed(frame.entities, shown)
    /\ UNCHANGED <<world, version, chunkPart, entityPart, pendingTruncated,
                   flags, frame>>

\* The consumer restarts from nothing.
ConsumerRestart ==
    /\ seen' = 0 /\ stale' = Chunks
    /\ shown' = [e \in Entities |-> Nowhere]
    /\ UNCHANGED <<world, version, chunkPart, entityPart, pendingTruncated,
                   flags, frame>>

Next ==
    \/ \E e \in Entities, p \in Tiles :
         RecordMove(e, p) \/ RecordTeleport(e, p) \/ RecordAppear(e, p)
    \/ \E e \in Entities : RecordVanish(e)
    \/ \E c \in Chunks : MarkDirty(c) \/ DestinationCollects(c)
    \/ CollectTileDeltas \/ CollectBaseline
    \/ Publish \/ Clear \/ Reserve \/ MoveFrom \/ AssignFresh
    \/ Apply \/ ConsumerRestart

Spec == Init /\ [][Next]_vars

-----------------------------------------------------------------------------
\* What the collector still promises the consumer: it has applied everything
\* published, and the next frame will be applicable.
InSync ==
    /\ seen = version
    /\ ~pendingTruncated /\ ~needsBaseline /\ ~movedFrom
    /\ ~baselinePending

\* The collector's next frame will repaint whatever the shadow has wrong: a
\* synchronised consumer's stale chunk is still dirty in the world or already
\* in a pending record.  Overflow leaving bits set, baselines clearing them,
\* moves, clears and missed frames could each lose one. (publish,
\* collect_tile_deltas, collect_baseline, delta_frame_applicable)
StaleChunksAreCovered ==
    InSync => stale \subseteq (dirty \cup pendingChunks)

\* One entity's pending records chain: each starts where the previous one
\* left it, so a renderer that draws from -> to never sees a jump that no
\* teleport made.  (record_move's fold test and record_barrier)
RecordsChain ==
    \A i, j \in DOMAIN pendingEntities :
        LET r == pendingEntities[i]
            s == pendingEntities[j]
        IN  (/\ i < j /\ r.entity = s.entity
             /\ \A k \in i + 1 .. j - 1 : pendingEntities[k].entity # r.entity)
            => Effect(r) = IF s.kind = "appeared" THEN Nowhere ELSE s.from

\* The pending entity records take a synchronised consumer's presentation to
\* where the entities are: coalescing, barriers and dropped records lose no
\* transition.  (record_move, record_barrier, append_entity)
EntitiesAreCovered ==
    /\ RecordsChain
    /\ InSync => Replayed(pendingEntities, shown) = at

\* A moved-from collector's frame with nothing in it is refused: "its next
\* publish is forced truncated, so a consumer on its chain resyncs from a
\* baseline rather than accepting an empty frame" (delta_frame.h:312-315).
MovedFromFrameIsRefused ==
    [][(movedFrom /\ pendingChunks = {} /\ Publish) => frame'.truncated]_vars
=============================================================================
