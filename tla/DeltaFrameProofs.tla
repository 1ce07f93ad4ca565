-------------------------- MODULE DeltaFrameProofs --------------------------
(***************************************************************************)
(* Both halves of the DeltaFrame protocol, for any number of chunks and    *)
(* entities and any capacities.                                            *)
(*                                                                         *)
(* Chunks: as long as no collector is moved between collect_baseline and   *)
(* publish, a synchronised consumer's stale chunks are always still dirty  *)
(* or pending, and a moved-from collector's empty frame is refused.        *)
(* StaleChunksAreCovered is not inductive: it speaks of a synchronised     *)
(* consumer only, and a consumer becomes synchronised by applying a frame, *)
(* so the frame must be known to carry what the consumer lacks             *)
(* (FrameCoversStale), and an untruncated baseline to carry every chunk    *)
(* (BaselineIsWhole), first in the pending state and then in the frame.    *)
(*                                                                         *)
(* Entities: replaying the pending records over what a synchronised        *)
(* consumer shows gives the world, wherever collectors are moved.          *)
(* EntitiesAreCovered needs in addition what the live frame promises its   *)
(* consumer (FrameCoversEntities), that a dropped record is remembered     *)
(* (UnreservedIsEmpty), and what makes coalescing in place sound: an       *)
(* entity's slot points at the last of its records since the barrier, and  *)
(* that record ends where the entity is (SlotsPoint, RecordsAreCurrent).   *)
(***************************************************************************)
EXTENDS DeltaFrame, FiniteSetTheorems, SequenceTheorems,
        NaturalsInduction, WellFoundedInduction, TLAPS

\* The conjuncts of TypeOK the argument needs.
ChunkTypes ==
    /\ dirty \subseteq Chunks /\ stale \subseteq Chunks
    /\ pendingChunks \subseteq Chunks
    /\ version \in Nat /\ seen \in Nat /\ chunkRecords \in Nat
    /\ pendingTruncated \in BOOLEAN /\ baselinePending \in BOOLEAN
    /\ needsBaseline \in BOOLEAN /\ movedFrom \in BOOLEAN
    /\ reserved \in BOOLEAN
    /\ frame.live \in BOOLEAN /\ frame.baseline \in BOOLEAN
    /\ frame.truncated \in BOOLEAN
    /\ frame.from \in Nat /\ frame.to \in Nat /\ frame.chunks \subseteq Chunks
    /\ chunkRecords = 0 => pendingChunks = {}

\* Versions: a live frame ends at the current one, and nobody is ahead.
VersionsOrdered ==
    /\ version >= 1 /\ seen <= version
    /\ frame.live => frame.to = version

\* An untruncated baseline repaints the whole world.
BaselineIsWhole ==
    /\ baselinePending /\ ~pendingTruncated => pendingChunks = Chunks
    /\ frame.live /\ frame.baseline /\ ~frame.truncated
          => frame.chunks = Chunks

\* Applying the live frame would leave only stale chunks that are covered.
FrameCoversStale ==
    /\ frame.live /\ Applicable
    /\ ~pendingTruncated /\ ~needsBaseline /\ ~movedFrom /\ ~baselinePending
    => stale \subseteq (dirty \cup pendingChunks \cup frame.chunks)

ChunkInv ==
    /\ ChunkTypes
    /\ VersionsOrdered
    /\ BaselineIsWhole
    /\ FrameCoversStale
    /\ StaleChunksAreCovered

-----------------------------------------------------------------------------
\* A kept set's size is a number, and only the empty set has none.
LEMMA KeptSize ==
    ASSUME NEW kept \in SUBSET Chunks
    PROVE  /\ IsFiniteSet(kept) /\ Cardinality(kept) \in Nat
           /\ Cardinality(kept) = 0 => kept = {}
<1>1. IsFiniteSet(kept)
  BY DeltaAssumption, FS_Subset
<1> QED
  BY <1>1, FS_CardinalityType, FS_EmptySet

\* publish() either leaves the version, having nothing to carry, or advances
\* it by one past every consumer.
LEMMA PublishVersion ==
    ASSUME ChunkTypes
    PROVE  /\ NextVersion \in Nat
           /\ NextVersion = version \/ NextVersion = version + 1
           /\ NextVersion = version =>
                /\ pendingChunks = {} /\ ~baselinePending
                /\ ~pendingTruncated /\ ~needsBaseline /\ ~movedFrom
<1>1. CASE StateCarrying
  BY <1>1 DEF NextVersion, ChunkTypes
<1>2. CASE ~StateCarrying
  BY <1>2 DEF NextVersion, StateCarrying, ChunkTypes
<1> QED
  BY <1>1, <1>2

\* A cleared or moved-from frame carries nothing to apply.
LEMMA DeadFrame ==
    /\ NoFrame.live = FALSE /\ NoFrame.baseline = FALSE
    /\ NoFrame.truncated = FALSE /\ NoFrame.from = 0 /\ NoFrame.to = 0
    /\ NoFrame.chunks = {}
  BY DEF NoFrame

\* The invariant holds of a fresh collector and consumer.
LEMMA InitChunk == Init => ChunkInv
<1> SUFFICES ASSUME Init PROVE ChunkInv
  OBVIOUS
<1>1. /\ dirty = {} /\ stale = Chunks /\ pendingChunks = {} /\ version = 1
      /\ seen = 0 /\ chunkRecords = 0 /\ frame = NoFrame
      /\ pendingTruncated = FALSE /\ baselinePending = FALSE
      /\ needsBaseline = FALSE /\ movedFrom = FALSE /\ reserved = FALSE
  BY DEF Init
<1>2. ChunkTypes
  <2>1. /\ {} \subseteq Chunks /\ Chunks \subseteq Chunks
        /\ 0 \in Nat /\ 1 \in Nat
    OBVIOUS
  <2> QED
    BY <1>1, <2>1, DeadFrame, Zenon DEF ChunkTypes
<1>3. VersionsOrdered
  BY <1>1, DeadFrame DEF VersionsOrdered
<1>4. BaselineIsWhole
  BY <1>1, DeadFrame DEF BaselineIsWhole
<1>5. FrameCoversStale
  BY <1>1, DeadFrame DEF FrameCoversStale
<1>6. StaleChunksAreCovered
  BY <1>1 DEF StaleChunksAreCovered, InSync
<1> QED
  BY <1>2, <1>3, <1>4, <1>5, <1>6 DEF ChunkInv

\* Recording an entity transition can only set the pending truncation.
LEMMA RecordStep ==
    ASSUME ChunkInv,
           \/ \E e \in Entities, p \in Tiles :
                RecordMove(e, p) \/ RecordTeleport(e, p) \/ RecordAppear(e, p)
           \/ \E e \in Entities : RecordVanish(e)
    PROVE  ChunkInv'
<1>1. /\ UNCHANGED <<dirty, version, chunkPart, flags, frame, consumer>>
      /\ pendingTruncated' = TRUE \/ pendingTruncated' = pendingTruncated
  <2>1. CASE \E e \in Entities, p \in Tiles : RecordMove(e, p)
    BY <2>1 DEF RecordMove, AppendEntity, entityPart
  <2>2. CASE \E e \in Entities, p \in Tiles : RecordTeleport(e, p)
    BY <2>2 DEF RecordTeleport, RecordBarrier, AppendEntity, entityPart
  <2>3. CASE \E e \in Entities, p \in Tiles : RecordAppear(e, p)
    BY <2>3 DEF RecordAppear, RecordBarrier, AppendEntity, entityPart
  <2>4. CASE \E e \in Entities : RecordVanish(e)
    BY <2>4 DEF RecordVanish, RecordBarrier, AppendEntity, entityPart
  <2> QED
    BY <2>1, <2>2, <2>3, <2>4
<1> QED
  BY <1>1 DEF ChunkInv, ChunkTypes, VersionsOrdered, BaselineIsWhole,
              FrameCoversStale, StaleChunksAreCovered, InSync, Applicable,
              chunkPart, flags, consumer

\* The world's writes and the two collections.
LEMMA WorldStep ==
    ASSUME ChunkInv,
           \/ \E c \in Chunks : MarkDirty(c) \/ DestinationCollects(c)
           \/ CollectTileDeltas \/ CollectBaseline
    PROVE  ChunkInv'
<1> USE DEF ChunkInv, VersionsOrdered, BaselineIsWhole, FrameCoversStale,
            StaleChunksAreCovered, InSync, Applicable
<1>1. CASE \E c \in Chunks : MarkDirty(c)
  BY <1>1 DEF MarkDirty, ChunkTypes, chunkPart, flags
<1>2. CASE \E c \in Chunks : DestinationCollects(c)
  BY <1>2 DEF DestinationCollects, ChunkTypes, chunkPart, flags, consumer
<1>3. CASE CollectTileDeltas
  <2>1. PICK kept \in Recordable(dirty) :
              /\ pendingChunks' = pendingChunks \cup kept
              /\ chunkRecords' = chunkRecords + Cardinality(kept)
              /\ pendingTruncated' = (pendingTruncated \/ kept # dirty)
              /\ dirty' = dirty \ kept
    BY <1>3 DEF CollectTileDeltas
  <2>2. kept \subseteq dirty /\ kept \in SUBSET Chunks
    BY DEF Recordable, ChunkTypes
  <2>3. UNCHANGED <<version, flags, frame, consumer>>
    BY <1>3 DEF CollectTileDeltas
  <2>4. ChunkTypes'
    BY <2>1, <2>2, <2>3, KeptSize DEF ChunkTypes, flags, consumer
  <2> QED
    BY <2>1, <2>2, <2>3, <2>4 DEF ChunkTypes, flags, consumer
<1>4. CASE CollectBaseline
  <2>1. PICK kept \in SUBSET Chunks :
              /\ pendingChunks' = kept
              /\ chunkRecords' = Cardinality(kept)
              /\ pendingTruncated' = (kept # Chunks)
    BY <1>4 DEF CollectBaseline
  <2>2. /\ dirty' = {} /\ baselinePending' = TRUE
        /\ UNCHANGED <<version, needsBaseline, movedFrom, reserved, frame,
                       consumer>>
    BY <1>4 DEF CollectBaseline
  <2>3. ChunkTypes'
    BY <2>1, <2>2, KeptSize DEF ChunkTypes, consumer
  <2> QED
    BY <2>1, <2>2, <2>3 DEF ChunkTypes, consumer
<1> QED
  BY <1>1, <1>2, <1>3, <1>4

\* publish() seals what is pending into the frame.
LEMMA PublishStep ==
    ASSUME ChunkInv, Publish
    PROVE  ChunkInv'
<1> USE DEF ChunkInv, ChunkTypes
<1>1. /\ version' = NextVersion
      /\ frame'.live = TRUE /\ frame'.from = version /\ frame'.to = NextVersion
      /\ frame'.baseline = baselinePending /\ frame'.truncated = MustTruncate
      /\ frame'.chunks = pendingChunks
      /\ needsBaseline' = (needsBaseline /\ ~baselinePending)
      /\ movedFrom' = (movedFrom /\ ~baselinePending)
      /\ pendingChunks' = {} /\ chunkRecords' = 0
      /\ pendingTruncated' = FALSE /\ baselinePending' = FALSE
      /\ UNCHANGED <<dirty, reserved, seen, stale>>
  BY DEF Publish, ResetPending, world, consumer
<1>2. MustTruncate \in BOOLEAN
  BY DEF MustTruncate
<1>3. ChunkTypes'
  BY <1>1, <1>2, PublishVersion
<1>4. VersionsOrdered'
  BY <1>1, PublishVersion DEF VersionsOrdered
<1>5. BaselineIsWhole'
  BY <1>1 DEF BaselineIsWhole, MustTruncate
<1>6. FrameCoversStale'
  BY <1>1 DEF FrameCoversStale, BaselineIsWhole, StaleChunksAreCovered,
              InSync, Applicable, MustTruncate
<1>7. StaleChunksAreCovered'
  BY <1>1, PublishVersion
     DEF StaleChunksAreCovered, InSync, VersionsOrdered
<1> QED
  BY <1>3, <1>4, <1>5, <1>6, <1>7

\* The collector's other lifetime events, and the consumer's two.
LEMMA LifetimeStep ==
    ASSUME ChunkInv, MovesWithBaselinePending = FALSE,
           \/ Clear \/ Reserve \/ MoveFrom \/ AssignFresh
           \/ Apply \/ ConsumerRestart
    PROVE  ChunkInv'
<1> USE DEF ChunkInv, ChunkTypes, VersionsOrdered, BaselineIsWhole,
            FrameCoversStale, StaleChunksAreCovered, InSync, Applicable
<1>1. CASE Clear
  BY <1>1 DEF Clear, ResetPending, world, consumer
<1>2. CASE Reserve
  BY <1>2 DEF Reserve, NoFrame, world, chunkPart, consumer
<1>3. CASE MoveFrom
  BY <1>3 DEF MoveFrom, NoFrame, world, consumer
<1>4. CASE AssignFresh
  <2>1. /\ UNCHANGED dirty /\ stale' = Chunks /\ pendingChunks' = {}
        /\ version' = 1 /\ seen' = 0 /\ chunkRecords' = 0 /\ frame' = NoFrame
        /\ pendingTruncated' = FALSE /\ baselinePending' = FALSE
        /\ needsBaseline' = FALSE /\ movedFrom' = FALSE /\ reserved' = FALSE
    BY <1>4 DEF AssignFresh, world
  <2>2. ChunkTypes'
    <3>1. /\ {} \subseteq Chunks /\ Chunks \subseteq Chunks
          /\ 0 \in Nat /\ 1 \in Nat
      OBVIOUS
    <3> QED
      BY <2>1, <3>1, DeadFrame, Zenon
  <2>3. VersionsOrdered'
    BY <2>1, DeadFrame
  <2>4. BaselineIsWhole'
    BY <2>1, DeadFrame
  <2>5. FrameCoversStale'
    BY <2>1, DeadFrame
  <2>6. StaleChunksAreCovered'
    BY <2>1
  <2> QED
    BY <2>2, <2>3, <2>4, <2>5, <2>6
<1>5. CASE Apply
  <2>1. /\ frame.live /\ Applicable
        /\ seen' = frame.to /\ stale' = stale \ frame.chunks
        /\ UNCHANGED <<dirty, version, chunkPart, pendingTruncated, flags,
                       frame>>
    BY <1>5 DEF Apply, world
  <2>2. ChunkTypes'
    BY <2>1 DEF chunkPart, flags
  <2>3. VersionsOrdered'
    BY <2>1
  <2>4. BaselineIsWhole'
    BY <2>1 DEF chunkPart, flags
  <2>5. FrameCoversStale'
    BY <2>1 DEF chunkPart, flags
  <2>6. StaleChunksAreCovered'
    BY <2>1 DEF chunkPart, flags
  <2> QED
    BY <2>2, <2>3, <2>4, <2>5, <2>6
<1>6. CASE ConsumerRestart
  BY <1>6 DEF ConsumerRestart, world, chunkPart, flags
<1> QED
  BY <1>1, <1>2, <1>3, <1>4, <1>5, <1>6

\* A stuttering step keeps the invariant.
LEMMA StutterStep ==
    ASSUME ChunkInv, UNCHANGED vars
    PROVE  ChunkInv'
  BY DEF vars, world, chunkPart, flags, consumer, ChunkInv, ChunkTypes,
         VersionsOrdered, BaselineIsWhole, FrameCoversStale,
         StaleChunksAreCovered, InSync, Applicable

-----------------------------------------------------------------------------
\* The inductive invariant.
THEOREM ChunkInvariant ==
    ASSUME MovesWithBaselinePending = FALSE
    PROVE  Spec => []ChunkInv
<1>1. ChunkInv /\ [Next]_vars => ChunkInv'
  <2> SUFFICES ASSUME ChunkInv, [Next]_vars PROVE ChunkInv'
    OBVIOUS
  <2>1. CASE \/ \E e \in Entities, p \in Tiles :
                  RecordMove(e, p) \/ RecordTeleport(e, p) \/ RecordAppear(e, p)
             \/ \E e \in Entities : RecordVanish(e)
    BY <2>1, RecordStep
  <2>2. CASE \/ \E c \in Chunks : MarkDirty(c) \/ DestinationCollects(c)
             \/ CollectTileDeltas \/ CollectBaseline
    BY <2>2, WorldStep
  <2>3. CASE Publish
    BY <2>3, PublishStep
  <2>4. CASE \/ Clear \/ Reserve \/ MoveFrom \/ AssignFresh
             \/ Apply \/ ConsumerRestart
    BY <2>4, LifetimeStep
  <2>5. CASE UNCHANGED vars
    BY <2>5, StutterStep
  <2> QED
    BY <2>1, <2>2, <2>3, <2>4, <2>5 DEF Next
<1> QED
  BY <1>1, InitChunk, PTL DEF Spec

\* The collector's next frame repaints whatever a synchronised consumer's
\* shadow has wrong, however collections, overflows, clears, moves, missed
\* frames and restarts interleave. (publish, collect_tile_deltas,
\* collect_baseline, delta_frame_applicable)
THEOREM NoUpdateLost ==
    ASSUME MovesWithBaselinePending = FALSE
    PROVE  Spec => []StaleChunksAreCovered
<1>1. ChunkInv => StaleChunksAreCovered
  BY DEF ChunkInv
<1> QED
  BY <1>1, ChunkInvariant, PTL

\* A moved-from collector's frame with nothing in it is truncated, so that its
\* consumer resynchronises (MovedFromFlag and publish()).
THEOREM MovedFromRefused ==
    ASSUME MovesWithBaselinePending = FALSE, Chunks # {}
    PROVE  Spec => MovedFromFrameIsRefused
<1>1. ChunkInv /\ [Next]_vars =>
        [(movedFrom /\ pendingChunks = {} /\ Publish) => frame'.truncated]_vars
  BY DEF ChunkInv, BaselineIsWhole, ChunkTypes, Publish, MustTruncate
<1> QED
  BY <1>1, ChunkInvariant, PTL DEF Spec, MovedFromFrameIsRefused

-----------------------------------------------------------------------------
\* The entity half.  A record is an entity's last one if no later record is
\* the entity's own; Replayed is decided by the last records alone.
IsLast(records, i) ==
    /\ i \in DOMAIN records
    /\ \A j \in DOMAIN records :
         j > i => records[j].entity # records[i].entity

\* The last records end where the entities stand.
RecordsEndAt(records, place) ==
    \A i \in DOMAIN records :
        IsLast(records, i) => Effect(records[i]) = place[records[i].entity]

Presentations == [Entities -> Places]

\* A nonempty set of naturals that is bounded has a greatest element.
LEMMA GreatestNumber ==
    ASSUME NEW T \in SUBSET Nat, T # {}, NEW N \in Nat, \A k \in T : k <= N
    PROVE  \E m \in T : \A k \in T : k <= m
<1> DEFINE U == {n \in 0 .. N : N - n \in T}
           R == OpToRel(<, Nat)
<1>0. ASSUME NEW k \in T PROVE N - k \in U
  <2>1. N - k \in 0 .. N /\ N - (N - k) = k
    OBVIOUS
  <2> QED
    BY <2>1
<1>1. U \in SUBSET Nat /\ U # {}
  <2>1. U \in SUBSET Nat
    OBVIOUS
  <2>2. PICK k \in T : N - k \in U
    BY <1>0
  <2> QED
    BY <2>1, <2>2
<1>2. IsWellFoundedOn(R, Nat)
  BY NatLessThanWellFounded
<1>3. R = {ss \in Nat \X Nat : ss[1] < ss[2]}
  BY DEF OpToRel
<1> HIDE DEF R
<1>4. PICK u \in U : \A v \in U : ~(<<v, u>> \in R)
  <2> HIDE DEF U
  <2> QED
    BY <1>1, <1>2, WFMin
<1>5. \A v \in U : ~(v < u)
  BY <1>1, <1>3, <1>4
<1>6. PICK m \in T : u = N - m
  <2>1. N - u \in T /\ u = N - (N - u)
    OBVIOUS
  <2> QED
    BY <2>1
<1>7. \A k \in T : ~(N - k < N - m)
  <2> HIDE DEF U
  <2> QED
    BY <1>0, <1>5, <1>6
<1> QED
  BY <1>7

\* An entity with a record has a last one.
LEMMA LastExists ==
    ASSUME NEW rs \in Seq(EntityDelta), NEW i \in DOMAIN rs
    PROVE  \E k \in DOMAIN rs : IsLast(rs, k) /\ rs[k].entity = rs[i].entity
<1> DEFINE T == {k \in DOMAIN rs : rs[k].entity = rs[i].entity}
<1>1. Len(rs) \in Nat /\ DOMAIN rs = 1 .. Len(rs)
  BY LenProperties
<1>2. T \in SUBSET Nat /\ T # {} /\ \A k \in T : k <= Len(rs)
  BY <1>1
<1>3. PICK m \in T : \A k \in T : k <= m
  <2> HIDE DEF T
  <2> QED
    BY <1>1, <1>2, GreatestNumber
<1>4. \A k \in DOMAIN rs : k > m => rs[k].entity # rs[i].entity
  BY <1>1, <1>2, <1>3
<1> QED
  BY <1>1, <1>3, <1>4 DEF IsLast

\* What Replayed yields of each entity.
LEMMA ReplayedFacts ==
    ASSUME NEW rs \in Seq(EntityDelta), NEW p \in Presentations
    PROVE  /\ Replayed(rs, p) \in Presentations
           /\ \A i \in DOMAIN rs : IsLast(rs, i) =>
                 Replayed(rs, p)[rs[i].entity] = Effect(rs[i])
           /\ \A e \in Entities : (\A i \in DOMAIN rs : rs[i].entity # e) =>
                 Replayed(rs, p)[e] = p[e]
<1> DEFINE mine(e) == {i \in DOMAIN rs : rs[i].entity = e}
           last(e) == CHOOSE i \in mine(e) : \A j \in mine(e) : j <= i
           rep(e) == IF mine(e) = {} THEN p[e] ELSE Effect(rs[last(e)])
<1>1. /\ Len(rs) \in Nat /\ DOMAIN rs = 1 .. Len(rs)
      /\ \A i \in DOMAIN rs : rs[i] \in EntityDelta
  BY LenProperties, ElementOfSeq
<1>2. Replayed(rs, p) = [e \in Entities |-> rep(e)]
  BY DEF Replayed
<1>3. ASSUME NEW i \in DOMAIN rs, IsLast(rs, i)
      PROVE  last(rs[i].entity) = i /\ i \in mine(rs[i].entity)
  <2>1. i \in mine(rs[i].entity)
    OBVIOUS
  <2>2. \A j \in mine(rs[i].entity) : j <= i
    BY <1>1, <1>3 DEF IsLast
  <2>3. ASSUME NEW k \in mine(rs[i].entity), \A j \in mine(rs[i].entity) : j <= k
        PROVE  k = i
    BY <1>1, <2>1, <2>2, <2>3
  <2> QED
    BY <2>1, <2>2, <2>3
<1>4. ASSUME NEW i \in DOMAIN rs, IsLast(rs, i)
      PROVE  rep(rs[i].entity) = Effect(rs[i])
  BY <1>3, <1>4
<1>5. ASSUME NEW e \in Entities, \A i \in DOMAIN rs : rs[i].entity # e
      PROVE  rep(e) = p[e]
  BY <1>5
<1>6. ASSUME NEW e \in Entities PROVE rep(e) \in Places
  <2>1. CASE mine(e) = {}
    BY <1>5, <2>1 DEF Presentations
  <2>2. CASE mine(e) # {}
    <3>1. PICK i \in DOMAIN rs : rs[i].entity = e
      BY <2>2
    <3>2. PICK k \in DOMAIN rs : IsLast(rs, k) /\ rs[k].entity = e
      BY <3>1, LastExists
    <3>3. rep(e) = Effect(rs[k]) /\ rs[k] \in EntityDelta
      BY <1>1, <1>4, <3>2
    <3> QED
      BY <3>3 DEF Effect, EntityDelta, Places
  <2> QED
    BY <2>1, <2>2
<1> HIDE DEF rep
<1>7. /\ \A e \in Entities : Replayed(rs, p)[e] = rep(e)
      /\ Replayed(rs, p) \in [Entities -> Places]
  BY <1>2, <1>6
<1>8. \A i \in DOMAIN rs : rs[i].entity \in Entities
  BY <1>1 DEF EntityDelta
<1> QED
  BY <1>4, <1>5, <1>7, <1>8 DEF Presentations

\* Nothing recorded, nothing changed.
LEMMA ReplayedNone ==
    ASSUME NEW p \in Presentations
    PROVE  Replayed(<<>>, p) = p
  BY DEF Replayed, Presentations

\* Records that end where the entities stand lead there from anywhere that
\* agrees about the others.
LEMMA ReplayedReaches ==
    ASSUME NEW rs \in Seq(EntityDelta), NEW p \in Presentations,
           NEW q \in Presentations, RecordsEndAt(rs, q),
           \A e \in Entities : p[e] = q[e] \/ \E i \in DOMAIN rs : rs[i].entity = e
    PROVE  Replayed(rs, p) = q
<1>1. ASSUME NEW e \in Entities PROVE Replayed(rs, p)[e] = q[e]
  <2>1. CASE \A i \in DOMAIN rs : rs[i].entity # e
    BY <2>1, ReplayedFacts
  <2>2. CASE \E i \in DOMAIN rs : rs[i].entity = e
    <3>1. PICK k \in DOMAIN rs : IsLast(rs, k) /\ rs[k].entity = e
      BY <2>2, LastExists
    <3>2. Replayed(rs, p)[e] = Effect(rs[k])
      BY <3>1, ReplayedFacts
    <3> QED
      BY <3>1, <3>2 DEF RecordsEndAt
  <2> QED
    BY <2>1, <2>2
<1>2. Replayed(rs, p) \in Presentations
  BY ReplayedFacts
<1> QED
  BY <1>1, <1>2 DEF Presentations

\* Applying the same records again changes nothing.
LEMMA ReplayedTwice ==
    ASSUME NEW rs \in Seq(EntityDelta), NEW p \in Presentations
    PROVE  Replayed(rs, Replayed(rs, p)) = Replayed(rs, p)
<1> DEFINE q == Replayed(rs, p)
<1>1. q \in Presentations /\ RecordsEndAt(rs, q)
  BY ReplayedFacts DEF RecordsEndAt
<1> HIDE DEF q
<1>2. Replayed(rs, q) = q
  BY <1>1, ReplayedReaches
<1> QED
  BY <1>2 DEF q

\* The list with one record more.
LEMMA Appended ==
    ASSUME NEW rs \in Seq(EntityDelta), NEW r \in EntityDelta
    PROVE  /\ Append(rs, r) \in Seq(EntityDelta)
           /\ Len(rs) \in Nat /\ Len(Append(rs, r)) = Len(rs) + 1
           /\ DOMAIN rs = 1 .. Len(rs)
           /\ DOMAIN Append(rs, r) = 1 .. Len(rs) + 1
           /\ \A i \in 1 .. Len(rs) : Append(rs, r)[i] = rs[i]
           /\ Append(rs, r)[Len(rs) + 1] = r
           /\ \A i \in DOMAIN rs : rs[i] \in EntityDelta
  BY LenProperties, ElementOfSeq

\* The list with one record's end moved.
LEMMA Extended ==
    ASSUME NEW rs \in Seq(EntityDelta), NEW k \in DOMAIN rs, NEW to \in Tiles
    PROVE  LET q == [rs EXCEPT ![k].to = to] IN
           /\ q \in Seq(EntityDelta)
           /\ Len(rs) \in Nat /\ Len(q) = Len(rs)
           /\ DOMAIN rs = 1 .. Len(rs) /\ DOMAIN q = 1 .. Len(rs)
           /\ \A i \in DOMAIN rs : rs[i] \in EntityDelta
           /\ \A i \in DOMAIN rs : /\ q[i].entity = rs[i].entity
                                   /\ q[i].kind = rs[i].kind
                                   /\ q[i].from = rs[i].from
           /\ \A i \in DOMAIN rs : i # k => q[i] = rs[i]
           /\ q[k].to = to
<1> DEFINE x == [rs[k] EXCEPT !.to = to]
           q == [rs EXCEPT ![k].to = to]
<1>1. /\ Len(rs) \in Nat /\ DOMAIN rs = 1 .. Len(rs)
      /\ \A i \in DOMAIN rs : rs[i] \in EntityDelta
  BY LenProperties, ElementOfSeq
<1>2. /\ x \in EntityDelta /\ x.entity = rs[k].entity /\ x.kind = rs[k].kind
      /\ x.from = rs[k].from /\ x.to = to
  BY <1>1 DEF EntityDelta
<1>3. q = [rs EXCEPT ![k] = x]
  OBVIOUS
<1> HIDE DEF x, q
<1>4. q \in Seq(EntityDelta) /\ Len(q) = Len(rs)
      /\ \A i \in 1 .. Len(rs) : q[i] = IF i = k THEN x ELSE rs[i]
  BY <1>1, <1>2, <1>3, ExceptSeq
<1>5. DOMAIN q = 1 .. Len(rs)
  BY <1>4, LenProperties
<1>6. \A i \in DOMAIN rs : /\ q[i].entity = rs[i].entity
                           /\ q[i].kind = rs[i].kind
                           /\ q[i].from = rs[i].from
  BY <1>1, <1>2, <1>4
<1>7. q[k].to = to /\ \A i \in DOMAIN rs : i # k => q[i] = rs[i]
  BY <1>1, <1>2, <1>4
<1> QED
  BY <1>1, <1>4, <1>5, <1>6, <1>7 DEF q

\* RecordsChain of any list.
Joins(r, s) == Effect(r) = IF s.kind = "appeared" THEN Nowhere ELSE s.from
Between(records, i, j) ==
    /\ i < j /\ records[i].entity = records[j].entity
    /\ \A k \in i + 1 .. j - 1 : records[k].entity # records[i].entity
Chained(records) ==
    \A i, j \in DOMAIN records :
        Between(records, i, j) => Joins(records[i], records[j])

\* An appended record is its entity's last, and nobody else's.
LEMMA LastsOfAppended ==
    ASSUME NEW rs \in Seq(EntityDelta), NEW r \in EntityDelta,
           NEW i \in DOMAIN Append(rs, r)
    PROVE  /\ IsLast(Append(rs, r), i) <=>
                \/ i = Len(rs) + 1
                \/ IsLast(rs, i) /\ rs[i].entity # r.entity
           /\ i # Len(rs) + 1 => i \in DOMAIN rs /\ Append(rs, r)[i] = rs[i]
<1> DEFINE q == Append(rs, r)
           n == Len(rs)
<1>1. /\ n \in Nat /\ DOMAIN rs = 1 .. n /\ DOMAIN q = 1 .. n + 1
      /\ \A j \in 1 .. n : q[j] = rs[j]
      /\ q[n + 1] = r
  BY Appended
<1> HIDE DEF q, n
<1>2. CASE i = n + 1
  <2>1. IsLast(q, i)
    BY <1>1, <1>2 DEF IsLast
  <2> QED
    BY <1>2, <2>1 DEF q, n
<1>3. CASE i # n + 1
  <2>1. i \in 1 .. n /\ q[i] = rs[i]
    BY <1>1, <1>3 DEF q
  <2>2. ASSUME IsLast(q, i) PROVE IsLast(rs, i) /\ rs[i].entity # r.entity
    <3>1. \A j \in 1 .. n + 1 : j > i => q[j].entity # rs[i].entity
      BY <1>1, <2>1, <2>2 DEF IsLast
    <3>2. r.entity # rs[i].entity
      BY <1>1, <2>1, <3>1
    <3>3. \A j \in 1 .. n : j > i => rs[j].entity # rs[i].entity
      BY <1>1, <3>1
    <3> QED
      BY <1>1, <2>1, <3>2, <3>3 DEF IsLast
  <2>3. ASSUME IsLast(rs, i), rs[i].entity # r.entity PROVE IsLast(q, i)
    <3>1. ASSUME NEW j \in 1 .. n + 1, j > i PROVE q[j].entity # q[i].entity
      <4>1. CASE j = n + 1
        BY <1>1, <2>1, <2>3, <4>1
      <4>2. CASE j # n + 1
        BY <1>1, <2>1, <2>3, <3>1, <4>2 DEF IsLast
      <4> QED
        BY <4>1, <4>2
    <3> QED
      BY <1>1, <2>1, <3>1 DEF IsLast
  <2> QED
    BY <1>1, <1>3, <2>1, <2>2, <2>3 DEF q, n
<1> QED
  BY <1>2, <1>3 DEF n

\* Appending keeps the chain if the new record starts where its entity's
\* last one ended.
LEMMA ChainedAppend ==
    ASSUME NEW rs \in Seq(EntityDelta), NEW r \in EntityDelta, Chained(rs),
           \A i \in DOMAIN rs :
               IsLast(rs, i) /\ rs[i].entity = r.entity => Joins(rs[i], r)
    PROVE  Chained(Append(rs, r))
<1> DEFINE q == Append(rs, r)
           n == Len(rs)
<1>1. /\ n \in Nat /\ DOMAIN rs = 1 .. n /\ DOMAIN q = 1 .. n + 1
      /\ \A j \in 1 .. n : q[j] = rs[j]
      /\ q[n + 1] = r
  BY Appended
<1> HIDE DEF q, n
<1> SUFFICES ASSUME NEW i \in 1 .. n + 1, NEW j \in 1 .. n + 1, Between(q, i, j)
             PROVE  Joins(q[i], q[j])
  BY <1>1 DEF Chained, q
<1>2. i < j /\ i \in 1 .. n /\ q[i] = rs[i]
  BY <1>1 DEF Between
<1>3. CASE j = n + 1
  <2>1. rs[i].entity = r.entity
    BY <1>1, <1>2, <1>3 DEF Between
  <2>2. ASSUME NEW k \in 1 .. n, k > i PROVE rs[k].entity # rs[i].entity
    <3>1. k \in i + 1 .. j - 1
      BY <1>1, <1>2, <1>3, <2>2
    <3> QED
      BY <1>1, <1>2, <3>1 DEF Between
  <2>3. IsLast(rs, i)
    BY <1>1, <1>2, <2>2 DEF IsLast
  <2> QED
    BY <1>1, <1>2, <1>3, <2>1, <2>3
<1>4. CASE j # n + 1
  <2>1. j \in 1 .. n /\ q[j] = rs[j]
    BY <1>1, <1>4
  <2>2. \A k \in i + 1 .. j - 1 : k \in 1 .. n /\ q[k] = rs[k]
    BY <1>1, <1>2, <2>1
  <2>3. Between(rs, i, j)
    BY <1>2, <2>1, <2>2 DEF Between
  <2> QED
    BY <1>1, <1>2, <2>1, <2>3 DEF Chained
<1> QED
  BY <1>3, <1>4

\* Moving the end of an entity's last record keeps the chain, and which
\* records are last.
LEMMA ChainedExtend ==
    ASSUME NEW rs \in Seq(EntityDelta), NEW k \in DOMAIN rs, NEW to \in Tiles,
           Chained(rs), IsLast(rs, k)
    PROVE  /\ Chained([rs EXCEPT ![k].to = to])
           /\ \A i \in DOMAIN rs :
                IsLast([rs EXCEPT ![k].to = to], i) <=> IsLast(rs, i)
<1> DEFINE q == [rs EXCEPT ![k].to = to]
           n == Len(rs)
<1>1. /\ n \in Nat /\ DOMAIN rs = 1 .. n /\ DOMAIN q = 1 .. n
      /\ \A i \in 1 .. n : /\ q[i].entity = rs[i].entity
                           /\ q[i].kind = rs[i].kind
                           /\ q[i].from = rs[i].from
      /\ \A i \in 1 .. n : i # k => q[i] = rs[i]
  BY Extended
<1> HIDE DEF q, n
<1>2. ASSUME NEW i \in 1 .. n, NEW j \in 1 .. n, Between(q, i, j)
      PROVE  Joins(q[i], q[j])
  <2>1. i < j /\ \A m \in i + 1 .. j - 1 : m \in 1 .. n
    BY <1>1, <1>2 DEF Between
  <2>2. Between(rs, i, j)
    BY <1>1, <1>2, <2>1 DEF Between
  <2>3. i # k
    BY <1>1, <2>1, <2>2 DEF IsLast, Between
  <2>4. Joins(rs[i], rs[j])
    BY <1>1, <2>2 DEF Chained
  <2> QED
    BY <1>1, <2>3, <2>4 DEF Joins
<1>3. \A i \in 1 .. n : IsLast(q, i) <=> IsLast(rs, i)
  BY <1>1 DEF IsLast
<1> QED
  BY <1>1, <1>2, <1>3 DEF Chained, q

\* Where the last records end, after either.
LEMMA EndsAppended ==
    ASSUME NEW rs \in Seq(EntityDelta), NEW r \in EntityDelta,
           NEW p \in Presentations, RecordsEndAt(rs, p)
    PROVE  RecordsEndAt(Append(rs, r), [p EXCEPT ![r.entity] = Effect(r)])
<1> DEFINE q == Append(rs, r)
           z == [p EXCEPT ![r.entity] = Effect(r)]
<1>1. \A e \in Entities : z[e] = IF e = r.entity THEN Effect(r) ELSE p[e]
  BY DEF Presentations
<1> HIDE DEF z
<1> SUFFICES ASSUME NEW i \in DOMAIN q, IsLast(q, i)
             PROVE  Effect(q[i]) = z[q[i].entity]
  BY DEF RecordsEndAt, z
<1>2. CASE i = Len(rs) + 1
  <2>1. q[i] = r /\ r.entity \in Entities
    BY <1>2, Appended DEF EntityDelta
  <2> QED
    BY <1>1, <2>1
<1>3. CASE i # Len(rs) + 1
  <2>1. i \in DOMAIN rs /\ q[i] = rs[i] /\ IsLast(rs, i) /\ rs[i].entity # r.entity
    BY <1>3, LastsOfAppended
  <2>2. rs[i].entity \in Entities
    BY <2>1, Appended DEF EntityDelta
  <2> QED
    BY <1>1, <2>1, <2>2 DEF RecordsEndAt
<1> QED
  BY <1>2, <1>3

\* The same for a record whose end moved.
LEMMA EndsExtended ==
    ASSUME NEW rs \in Seq(EntityDelta), NEW k \in DOMAIN rs, NEW to \in Tiles,
           Chained(rs), IsLast(rs, k), rs[k].kind # "vanished",
           NEW p \in Presentations, RecordsEndAt(rs, p)
    PROVE  RecordsEndAt([rs EXCEPT ![k].to = to], [p EXCEPT ![rs[k].entity] = to])
<1> DEFINE q == [rs EXCEPT ![k].to = to]
           z == [p EXCEPT ![rs[k].entity] = to]
<1>1. \A e \in Entities : z[e] = IF e = rs[k].entity THEN to ELSE p[e]
  BY DEF Presentations
<1>2. /\ Len(rs) \in Nat /\ DOMAIN q = DOMAIN rs /\ DOMAIN rs = 1 .. Len(rs)
      /\ \A i \in DOMAIN rs : /\ q[i].entity = rs[i].entity
                              /\ q[i].kind = rs[i].kind
      /\ \A i \in DOMAIN rs : i # k => q[i] = rs[i]
      /\ q[k].to = to
      /\ \A i \in DOMAIN rs : IsLast(q, i) <=> IsLast(rs, i)
      /\ \A i \in DOMAIN rs : rs[i].entity \in Entities
  <2>1. \A i \in DOMAIN rs : IsLast(q, i) <=> IsLast(rs, i)
    BY ChainedExtend
  <2>2. \A i \in DOMAIN rs : rs[i].entity \in Entities
    BY Extended DEF EntityDelta
  <2>3. /\ Len(rs) \in Nat /\ DOMAIN q = DOMAIN rs /\ DOMAIN rs = 1 .. Len(rs)
        /\ \A i \in DOMAIN rs : /\ q[i].entity = rs[i].entity
                                /\ q[i].kind = rs[i].kind
        /\ \A i \in DOMAIN rs : i # k => q[i] = rs[i]
        /\ q[k].to = to
    BY Extended
  <2> QED
    BY <2>1, <2>2, <2>3
<1> HIDE DEF q, z
<1> SUFFICES ASSUME NEW i \in DOMAIN rs, IsLast(rs, i)
             PROVE  Effect(q[i]) = z[q[i].entity]
  BY <1>2 DEF RecordsEndAt, q, z
<1>3. CASE i = k
  BY <1>1, <1>2, <1>3 DEF Effect
<1>4. CASE i # k
  <2>1. rs[i].entity # rs[k].entity
    BY <1>2, <1>4 DEF IsLast
  <2> QED
    BY <1>1, <1>2, <1>4, <2>1 DEF RecordsEndAt
<1> QED
  BY <1>3, <1>4

\* What the list with one record more leads to.
LEMMA ReplayedAppended ==
    ASSUME NEW rs \in Seq(EntityDelta), NEW r \in EntityDelta,
           NEW p \in Presentations, NEW place \in Presentations,
           Replayed(rs, p) = place,
           [place EXCEPT ![r.entity] = Effect(r)] \in Presentations
    PROVE  Replayed(Append(rs, r), p) = [place EXCEPT ![r.entity] = Effect(r)]
<1> DEFINE q == Append(rs, r)
           z == [place EXCEPT ![r.entity] = Effect(r)]
<1>1. RecordsEndAt(rs, place)
  BY ReplayedFacts DEF RecordsEndAt
<1>2. q \in Seq(EntityDelta) /\ RecordsEndAt(q, z) /\ z \in Presentations
  BY <1>1, Appended, EndsAppended
<1>3. ASSUME NEW e \in Entities, \A i \in DOMAIN q : q[i].entity # e
      PROVE  p[e] = z[e]
  <2>1. e # r.entity
    <3>1. Len(rs) + 1 \in DOMAIN q /\ q[Len(rs) + 1] = r
      BY Appended
    <3> QED
      BY <1>3, <3>1
  <2>2. \A i \in DOMAIN rs : rs[i].entity # e
    <3>1. \A i \in DOMAIN rs : i \in DOMAIN q /\ q[i] = rs[i]
      BY Appended
    <3> QED
      BY <1>3, <3>1
  <2>3. p[e] = place[e]
    BY <2>2, ReplayedFacts
  <2> QED
    BY <2>1, <2>3 DEF Presentations
<1> HIDE DEF q, z
<1>4. \A e \in Entities : p[e] = z[e] \/ \E i \in DOMAIN q : q[i].entity = e
  BY <1>3
<1>5. Replayed(q, p) = z
  BY <1>2, <1>4, ReplayedReaches
<1> QED
  BY <1>5 DEF q, z

-----------------------------------------------------------------------------
\* An unreserved collector holds no records.
UnreservedIsEmpty == ~reserved => chunkRecords = 0 /\ pendingEntities = <<>>

\* An open slot is that of its entity's last record, a plain move.
SlotsPoint ==
    \A e \in Entities : coalesceSlots[e] \notin {NoSlot, Barrier} =>
        /\ CoalesceMoves /\ IsLast(pendingEntities, coalesceSlots[e])
        /\ pendingEntities[coalesceSlots[e]].entity = e
        /\ pendingEntities[coalesceSlots[e]].kind = "moved"

\* Unless a record was dropped, which leaves no room for another one and is
\* remembered until publish, the last records end where the entities stand.
RecordsAreCurrent ==
    \/ RecordsEndAt(pendingEntities, at)
    \/ EntityRoom = 0 /\ (pendingTruncated \/ baselinePending)

\* Applying the live frame, if it is not a baseline, would leave only
\* differences that the pending records carry.
FrameCoversEntities ==
    /\ frame.live /\ Applicable /\ ~frame.baseline
    /\ ~pendingTruncated /\ ~needsBaseline /\ ~movedFrom /\ ~baselinePending
    => Replayed(pendingEntities, Replayed(frame.entities, shown)) = at

EntityInv ==
    /\ TypeOK
    /\ UnreservedIsEmpty
    /\ VersionsOrdered
    /\ SlotsPoint
    /\ RecordsAreCurrent
    /\ FrameCoversEntities
    /\ EntitiesAreCovered

\* RecordsChain says of the pending records what Chained says of any.
LEMMA ChainIsChained == RecordsChain <=> Chained(pendingEntities)
  BY DEF RecordsChain, Chained, Between, Joins

\* An empty list is chained and ends anywhere.
LEMMA NothingRecorded ==
    /\ <<>> \in Seq(EntityDelta) /\ Len(<<>>) = 0 /\ DOMAIN <<>> = {}
    /\ Chained(<<>>) /\ \A p : RecordsEndAt(<<>>, p)
<1>1. DOMAIN <<>> = {}
  OBVIOUS
<1> QED
  BY <1>1, EmptySeq DEF Chained, RecordsEndAt

\* A dead frame has the type of a frame.
LEMMA NoFrameType == NoFrame \in Frame
<1>1. <<>> \in Seq(EntityDelta) /\ {} \in SUBSET Chunks
  BY EmptySeq
<1> QED
  BY <1>1 DEF NoFrame, Frame

\* The invariant holds of a fresh collector and consumer.
LEMMA InitEntity == Init => EntityInv
<1> SUFFICES ASSUME Init PROVE EntityInv
  OBVIOUS
<1>1. /\ version = 1 /\ seen = 0 /\ frame = NoFrame /\ pendingEntities = <<>>
      /\ \A e \in Entities : coalesceSlots[e] = NoSlot
  BY DEF Init, NoSlots
<1>2. TypeOK
  <2>1. /\ NoSlots \in [Entities -> SlotValues]
        /\ [e \in Entities |-> Nowhere] \in [Entities -> Places]
    BY DEF NoSlots, SlotValues, Places
  <2>2. 0 \in 0 .. ChunkCapacity /\ 0 <= EntityCapacity
    BY DeltaAssumption
  <2> QED
    BY <2>1, <2>2, NothingRecorded, NoFrameType DEF Init, TypeOK
<1>3. VersionsOrdered /\ FrameCoversEntities
  BY <1>1, DeadFrame DEF VersionsOrdered, FrameCoversEntities
<1>4. EntitiesAreCovered
  BY <1>1, NothingRecorded, ChainIsChained DEF EntitiesAreCovered, InSync
<1>5. UnreservedIsEmpty /\ SlotsPoint /\ RecordsAreCurrent
  BY <1>1, NothingRecorded DEF Init, UnreservedIsEmpty, SlotsPoint, RecordsAreCurrent
<1> QED
  BY <1>2, <1>3, <1>4, <1>5 DEF EntityInv

\* Room for a record means storage, and that none was dropped.
LEMMA RoomFacts ==
    ASSUME EntityInv
    PROVE  /\ pendingEntities \in Seq(EntityDelta)
           /\ Len(pendingEntities) \in Nat /\ EntityRoom \in Nat
           /\ DOMAIN pendingEntities = 1 .. Len(pendingEntities)
           /\ EntityRoom # 0 => /\ reserved /\ RecordsEndAt(pendingEntities, at)
                                /\ Len(pendingEntities) < EntityCapacity
           /\ Chained(pendingEntities)
           /\ at \in Presentations /\ shown \in Presentations
           /\ frame \in Frame /\ frame.entities \in Seq(EntityDelta)
           /\ Replayed(frame.entities, shown) \in Presentations
<1>1. /\ pendingEntities \in Seq(EntityDelta) /\ EntityCapacity \in Nat
      /\ reserved \in BOOLEAN /\ Len(pendingEntities) <= EntityCapacity
      /\ at \in Presentations /\ shown \in Presentations
      /\ frame \in Frame /\ frame.entities \in Seq(EntityDelta)
      /\ ~reserved => pendingEntities = <<>>
  BY DeltaAssumption DEF EntityInv, TypeOK, Presentations, Frame, UnreservedIsEmpty
<1>2. Len(pendingEntities) \in Nat
      /\ DOMAIN pendingEntities = 1 .. Len(pendingEntities)
  BY <1>1, LenProperties
<1>3. EntityRoom \in Nat /\ (EntityRoom # 0 => reserved /\ Len(pendingEntities) < EntityCapacity)
  <2>1. CASE reserved
    <3>1. EntityRoom = EntityCapacity - Len(pendingEntities)
      BY <2>1 DEF EntityRoom
    <3>2. PICK n \in Nat : n = Len(pendingEntities) /\ n <= EntityCapacity
      BY <1>1, <1>2
    <3>3. EntityRoom = EntityCapacity - n /\ EntityCapacity \in Nat
      BY <1>1, <3>1, <3>2
    <3> QED
      BY <2>1, <3>2, <3>3
  <2>2. CASE ~reserved
    <3>1. Len(pendingEntities) = 0
      BY <1>1, <2>2, NothingRecorded
    <3> QED
      BY <2>2, <3>1 DEF EntityRoom
  <2> QED
    BY <2>1, <2>2
<1>4. Chained(pendingEntities)
  BY ChainIsChained DEF EntityInv, EntitiesAreCovered
<1>5. Replayed(frame.entities, shown) \in Presentations
  BY <1>1, ReplayedFacts
<1> QED
  BY <1>1, <1>2, <1>3, <1>4, <1>5 DEF EntityInv, RecordsAreCurrent

\* Appending a record that starts where the entity stood and ends where it
\* stands now, or dropping it.
LEMMA AppendStep ==
    ASSUME EntityInv, NEW r \in EntityDelta,
           NEW slot \in {Barrier, Len(pendingEntities) + 1},
           AppendEntity(r, slot),
           at' = [at EXCEPT ![r.entity] = Effect(r)],
           at[r.entity] = IF r.kind = "appeared" THEN Nowhere ELSE r.from,
           slot # Barrier => r.kind = "moved",
           UNCHANGED <<dirty, version, chunkPart, flags, frame, consumer>>
    PROVE  EntityInv'
<1> DEFINE rs == pendingEntities
<1>1. /\ UNCHANGED <<dirty, version, pendingChunks, chunkRecords, baselinePending,
                     needsBaseline, movedFrom, reserved, frame, seen, stale, shown>>
  BY DEF chunkPart, flags, consumer
<1>2. r.entity \in Entities /\ Effect(r) \in Places /\ at' \in Presentations
  BY RoomFacts DEF EntityDelta, Effect, Places, Presentations
<1>3. VersionsOrdered'
  BY <1>1 DEF EntityInv, VersionsOrdered
<1>4. Applicable' <=> Applicable
  BY <1>1 DEF Applicable
<1>5. CASE EntityRoom = 0
  <2>1. pendingTruncated' = TRUE /\ UNCHANGED <<pendingEntities, coalesceSlots>>
    BY <1>5 DEF AppendEntity, entityPart
  <2>2. TypeOK'
    BY <1>1, <1>2, <2>1 DEF EntityInv, TypeOK, Presentations
  <2>3. UnreservedIsEmpty' /\ SlotsPoint' /\ RecordsAreCurrent' /\ FrameCoversEntities'
    BY <1>1, <1>5, <2>1
    DEF EntityInv, UnreservedIsEmpty, SlotsPoint, RecordsAreCurrent,
        FrameCoversEntities, EntityRoom
  <2>4. EntitiesAreCovered'
    BY <2>1 DEF EntityInv, EntitiesAreCovered, InSync, RecordsChain
  <2> QED
    BY <1>3, <2>2, <2>3, <2>4 DEF EntityInv
<1>6. CASE EntityRoom # 0
  <2>1. /\ pendingEntities' = Append(rs, r) /\ UNCHANGED pendingTruncated
        /\ coalesceSlots' = IF CoalesceMoves
                            THEN [coalesceSlots EXCEPT ![r.entity] = slot]
                            ELSE coalesceSlots
    BY <1>6 DEF AppendEntity
  <2>2. /\ rs \in Seq(EntityDelta) /\ Len(rs) \in Nat /\ Len(rs) < EntityCapacity
        /\ reserved /\ RecordsEndAt(rs, at) /\ Chained(rs) /\ EntityCapacity \in Nat
        /\ DOMAIN rs = 1 .. Len(rs)
    BY <1>6, RoomFacts, DeltaAssumption
  <2>3. /\ Append(rs, r) \in Seq(EntityDelta) /\ Len(Append(rs, r)) = Len(rs) + 1
        /\ DOMAIN Append(rs, r) = 1 .. Len(rs) + 1
        /\ Append(rs, r)[Len(rs) + 1] = r
        /\ \A i \in 1 .. Len(rs) : Append(rs, r)[i] = rs[i]
    BY <2>2, Appended
  <2>4. coalesceSlots \in [Entities -> SlotValues]
    BY DEF EntityInv, TypeOK
  <2>5. TypeOK'
    <3>1. slot \in SlotValues
      BY <2>2 DEF SlotValues, Barrier
    <3>2. coalesceSlots' \in [Entities -> SlotValues]
      BY <2>1, <2>4, <3>1
    <3>3. pendingEntities' \in Seq(EntityDelta) /\ Len(pendingEntities') <= EntityCapacity
      BY <2>1, <2>2, <2>3
    <3> QED
      BY <1>1, <1>2, <2>1, <3>2, <3>3 DEF EntityInv, TypeOK, Presentations
  <2>6. UnreservedIsEmpty'
    BY <1>1, <2>2 DEF UnreservedIsEmpty
  <2>7. SlotsPoint'
    <3> SUFFICES ASSUME NEW e \in Entities, coalesceSlots'[e] \notin {NoSlot, Barrier}
                 PROVE  /\ CoalesceMoves
                        /\ IsLast(pendingEntities', coalesceSlots'[e])
                        /\ pendingEntities'[coalesceSlots'[e]].entity = e
                        /\ pendingEntities'[coalesceSlots'[e]].kind = "moved"
      BY DEF SlotsPoint
    <3>1. CASE CoalesceMoves /\ e = r.entity
      <4>1. coalesceSlots'[e] = slot /\ slot = Len(rs) + 1
        BY <2>1, <2>4, <3>1
      <4>2. IsLast(Append(rs, r), Len(rs) + 1)
        BY <2>2, <2>3 DEF IsLast
      <4> QED
        BY <2>1, <2>3, <3>1, <4>1, <4>2
    <3>2. CASE ~CoalesceMoves \/ e # r.entity
      <4>1. coalesceSlots'[e] = coalesceSlots[e]
        BY <2>1, <2>4, <3>2
      <4>2. PICK k : k = coalesceSlots[e]
        OBVIOUS
      <4>3. /\ IsLast(rs, k) /\ rs[k].entity = e /\ rs[k].kind = "moved"
             /\ k \in DOMAIN rs /\ CoalesceMoves
        BY <4>1, <4>2 DEF EntityInv, SlotsPoint, IsLast
      <4>4. CASE e # r.entity
        <5>1. IsLast(Append(rs, r), k) /\ Append(rs, r)[k] = rs[k]
          BY <2>2, <2>3, <4>3, <4>4, LastsOfAppended
        <5> QED
          BY <2>1, <4>1, <4>2, <4>3, <5>1 DEF IsLast
      <4>5. CASE e = r.entity
        BY <3>2, <4>3, <4>5
      <4> QED
        BY <4>4, <4>5
    <3> QED
      BY <3>1, <3>2
  <2>8. Chained(Append(rs, r))
    <3>1. ASSUME NEW i \in DOMAIN rs, IsLast(rs, i), rs[i].entity = r.entity
          PROVE  Joins(rs[i], r)
      BY <2>2, <3>1 DEF RecordsEndAt, Joins
    <3> QED
      BY <2>2, <3>1, ChainedAppend
  <2>9. RecordsEndAt(Append(rs, r), at')
    BY <2>2, RoomFacts, EndsAppended
  <2>10. ASSUME NEW p \in Presentations, Replayed(rs, p) = at
         PROVE  Replayed(Append(rs, r), p) = at'
    BY <1>2, <2>2, <2>10, RoomFacts, ReplayedAppended
  <2>11. EntitiesAreCovered'
    <3>1. RecordsChain'
      BY <2>1, <2>8 DEF RecordsChain, Chained, Between, Joins
    <3>2. ASSUME InSync' PROVE Replayed(pendingEntities, shown)' = at'
      <4>1. InSync
        BY <1>1, <2>1, <3>2 DEF InSync
      <4>2. Replayed(rs, shown) = at /\ shown \in Presentations
        BY <4>1, RoomFacts DEF EntityInv, EntitiesAreCovered
      <4>3. Replayed(Append(rs, r), shown) = at'
        BY <2>10, <4>2
      <4> QED
        BY <1>1, <2>1, <4>3
    <3> QED
      BY <3>1, <3>2 DEF EntitiesAreCovered
  <2>12. FrameCoversEntities'
    <3> SUFFICES ASSUME frame.live, Applicable, ~frame.baseline, ~pendingTruncated,
                        ~needsBaseline, ~movedFrom, ~baselinePending
                 PROVE  Replayed(Append(rs, r), Replayed(frame.entities, shown)) = at'
      BY <1>1, <1>4, <2>1 DEF FrameCoversEntities
    <3> QED
      BY <2>10, RoomFacts DEF EntityInv, FrameCoversEntities
  <2>13. RecordsAreCurrent'
    BY <2>1, <2>9 DEF RecordsAreCurrent
  <2> QED
    BY <1>3, <2>5, <2>6, <2>7, <2>11, <2>12, <2>13 DEF EntityInv
<1> QED
  BY <1>5, <1>6, RoomFacts

\* The other recorded steps all append.
LEMMA BarrierStep ==
    ASSUME EntityInv, NEW e \in Entities,
           \/ \E p \in Tiles : RecordTeleport(e, p) \/ RecordAppear(e, p)
           \/ RecordVanish(e)
    PROVE  EntityInv'
<1>1. at \in [Entities -> Places]
  BY DEF EntityInv, TypeOK
<1>2. ASSUME NEW p \in Tiles, RecordTeleport(e, p) PROVE EntityInv'
  <2> DEFINE r == [entity |-> e, kind |-> "teleported", from |-> at[e], to |-> p]
  <2>1. at[e] \in Tiles /\ r \in EntityDelta
    BY <1>1, <1>2 DEF RecordTeleport, Places, EntityDelta, Kinds
  <2>2. /\ AppendEntity(r, Barrier) /\ at' = [at EXCEPT ![r.entity] = Effect(r)]
        /\ UNCHANGED <<dirty, version, chunkPart, flags, frame, consumer>>
        /\ at[r.entity] = IF r.kind = "appeared" THEN Nowhere ELSE r.from
    BY <1>2 DEF RecordTeleport, RecordBarrier, Effect
  <2> HIDE DEF r
  <2> QED
    BY <2>1, <2>2, AppendStep
<1>3. ASSUME NEW p \in Tiles, RecordAppear(e, p) PROVE EntityInv'
  <2> DEFINE r == [entity |-> e, kind |-> "appeared", from |-> p, to |-> p]
  <2>1. r \in EntityDelta
    BY DEF EntityDelta, Kinds
  <2>2. /\ AppendEntity(r, Barrier) /\ at' = [at EXCEPT ![r.entity] = Effect(r)]
        /\ UNCHANGED <<dirty, version, chunkPart, flags, frame, consumer>>
        /\ at[r.entity] = IF r.kind = "appeared" THEN Nowhere ELSE r.from
    BY <1>3 DEF RecordAppear, RecordBarrier, Effect
  <2> HIDE DEF r
  <2> QED
    BY <2>1, <2>2, AppendStep
<1>4. CASE RecordVanish(e)
  <2> DEFINE r == [entity |-> e, kind |-> "vanished", from |-> at[e], to |-> at[e]]
  <2>1. at[e] \in Tiles /\ r \in EntityDelta
    BY <1>1, <1>4 DEF RecordVanish, Places, EntityDelta, Kinds
  <2>2. /\ AppendEntity(r, Barrier) /\ at' = [at EXCEPT ![r.entity] = Effect(r)]
        /\ UNCHANGED <<dirty, version, chunkPart, flags, frame, consumer>>
        /\ at[r.entity] = IF r.kind = "appeared" THEN Nowhere ELSE r.from
    BY <1>4 DEF RecordVanish, RecordBarrier, Effect
  <2> HIDE DEF r
  <2> QED
    BY <2>1, <2>2, AppendStep
<1> QED
  BY <1>2, <1>3, <1>4

\* record_move: a fold moves the end of the entity's last record with it.
LEMMA MoveStep ==
    ASSUME EntityInv, NEW e \in Entities, NEW to \in Tiles, RecordMove(e, to)
    PROVE  EntityInv'
<1>1. at \in [Entities -> Places] /\ at' = [at EXCEPT ![e] = to] /\ at[e] \in Tiles
      /\ UNCHANGED <<dirty, version, chunkPart, flags, frame, consumer>>
  BY DEF EntityInv, TypeOK, RecordMove, Places
<1>2. CASE ~Folds(e)
  <2> DEFINE r == [entity |-> e, kind |-> "moved", from |-> at[e], to |-> to]
             slot == Len(pendingEntities) + 1
  <2>1. r \in EntityDelta
    BY <1>1 DEF EntityDelta, Kinds
  <2>2. /\ AppendEntity(r, slot) /\ at' = [at EXCEPT ![r.entity] = Effect(r)]
        /\ at[r.entity] = IF r.kind = "appeared" THEN Nowhere ELSE r.from
        /\ r.kind = "moved"
    BY <1>1, <1>2 DEF RecordMove, Effect
  <2> HIDE DEF r
  <2> QED
    BY <1>1, <2>1, <2>2, AppendStep
<1>3. CASE Folds(e)
  <2> DEFINE rs == pendingEntities
  <2>1. PICK k : k = coalesceSlots[e]
    OBVIOUS
  <2>2. /\ IsLast(rs, k) /\ rs[k].entity = e /\ rs[k].kind = "moved"
        /\ CoalesceMoves /\ rs[k].to = at[e] /\ k \in DOMAIN rs
        /\ pendingEntities' = [rs EXCEPT ![k].to = to]
        /\ UNCHANGED <<coalesceSlots, pendingTruncated>>
    BY <1>3, <2>1 DEF Folds, EntityInv, SlotsPoint, RecordMove, IsLast
  <2>3. PICK q : q = [rs EXCEPT ![k].to = to]
    OBVIOUS
  <2>4. /\ rs \in Seq(EntityDelta) /\ Chained(rs) /\ at \in Presentations
    BY RoomFacts
  <2>5. /\ q \in Seq(EntityDelta) /\ Len(rs) \in Nat /\ Len(q) = Len(rs)
        /\ DOMAIN rs = 1 .. Len(rs) /\ DOMAIN q = DOMAIN rs
        /\ \A i \in DOMAIN rs : /\ q[i].entity = rs[i].entity
                                /\ q[i].kind = rs[i].kind
        /\ Chained(q) /\ \A i \in DOMAIN rs : IsLast(q, i) <=> IsLast(rs, i)
    <3>1. /\ q \in Seq(EntityDelta) /\ Len(rs) \in Nat /\ Len(q) = Len(rs)
          /\ DOMAIN rs = 1 .. Len(rs) /\ DOMAIN q = 1 .. Len(rs)
          /\ \A i \in DOMAIN rs : /\ q[i].entity = rs[i].entity
                                  /\ q[i].kind = rs[i].kind
      BY <2>2, <2>3, <2>4, Extended
    <3>2. Chained(q) /\ \A i \in DOMAIN rs : IsLast(q, i) <=> IsLast(rs, i)
      BY <2>2, <2>3, <2>4, ChainedExtend
    <3> QED
      BY <3>1, <3>2
  <2>6. RecordsEndAt(rs, at) => RecordsEndAt(q, at')
    <3>1. rs[k].kind # "vanished" /\ at' = [at EXCEPT ![rs[k].entity] = to]
      BY <1>1, <2>2
    <3> QED
      BY <2>2, <2>3, <2>4, <3>1, EndsExtended
  <2>7. /\ UNCHANGED <<dirty, version, pendingChunks, chunkRecords, baselinePending,
                       needsBaseline, movedFrom, reserved, frame, seen, stale, shown>>
        /\ pendingEntities' = q /\ (Applicable' <=> Applicable)
    BY <1>1, <2>2, <2>3 DEF chunkPart, flags, consumer, Applicable
  <2>8. ASSUME NEW p \in Presentations, Replayed(rs, p) = at
        PROVE  Replayed(q, p) = at'
    <3>1. RecordsEndAt(rs, at)
      BY <2>4, <2>8, ReplayedFacts DEF RecordsEndAt
    <3>2. at' \in Presentations
      BY <1>1 DEF Presentations, Places
    <3>3. \A x \in Entities : p[x] = at'[x] \/ \E i \in DOMAIN q : q[i].entity = x
      <4> SUFFICES ASSUME NEW x \in Entities, \A i \in DOMAIN q : q[i].entity # x
                   PROVE  p[x] = at'[x]
        OBVIOUS
      <4>1. x # e /\ \A i \in DOMAIN rs : rs[i].entity # x
        BY <2>2, <2>5
      <4>2. p[x] = at[x]
        BY <2>4, <2>8, <4>1, ReplayedFacts
      <4> QED
        BY <1>1, <4>1, <4>2
    <3> QED
      BY <2>5, <2>6, <3>1, <3>2, <3>3, ReplayedReaches
  <2>9. TypeOK'
    BY <1>1, <2>2, <2>5, <2>7 DEF EntityInv, TypeOK, Places
  <2>10. UnreservedIsEmpty' /\ VersionsOrdered'
    <3>1. rs # <<>>
      BY <2>2
    <3> QED
      BY <2>7, <3>1 DEF EntityInv, UnreservedIsEmpty, VersionsOrdered
  <2>11. SlotsPoint'
    BY <2>2, <2>5, <2>7 DEF EntityInv, SlotsPoint, IsLast
  <2>12. RecordsAreCurrent'
    BY <2>2, <2>5, <2>6, <2>7 DEF EntityInv, RecordsAreCurrent, EntityRoom
  <2>13. FrameCoversEntities'
    <3> SUFFICES ASSUME frame.live, Applicable, ~frame.baseline, ~pendingTruncated,
                        ~needsBaseline, ~movedFrom, ~baselinePending
                 PROVE  Replayed(q, Replayed(frame.entities, shown)) = at'
      BY <2>2, <2>7 DEF FrameCoversEntities
    <3> QED
      BY <2>8, RoomFacts DEF EntityInv, FrameCoversEntities
  <2>14. EntitiesAreCovered'
    <3>1. RecordsChain'
      BY <2>5, <2>7 DEF RecordsChain, Chained, Between, Joins
    <3>2. ASSUME InSync' PROVE Replayed(pendingEntities, shown)' = at'
      <4>1. InSync
        BY <2>2, <2>7, <3>2 DEF InSync
      <4>2. Replayed(rs, shown) = at /\ shown \in Presentations
        BY <4>1, RoomFacts DEF EntityInv, EntitiesAreCovered
      <4> QED
        BY <2>7, <2>8, <4>2
    <3> QED
      BY <3>1, <3>2 DEF EntitiesAreCovered
  <2> QED
    BY <2>9, <2>10, <2>11, <2>12, <2>13, <2>14 DEF EntityInv
<1> QED
  BY <1>2, <1>3

\* The world's writes and the collections touch no entity record; what they
\* drop truncates, and a baseline is remembered until it is published.
LEMMA TilesStep ==
    ASSUME EntityInv,
           \/ \E c \in Chunks : MarkDirty(c) \/ DestinationCollects(c)
           \/ CollectTileDeltas \/ CollectBaseline
    PROVE  EntityInv'
<1> DEFINE Fit == chunkRecords' \in 0 .. ChunkCapacity
                  /\ (~reserved => chunkRecords' = 0)
<1>1. /\ dirty \subseteq Chunks /\ ChunkCapacity \in Nat /\ reserved \in BOOLEAN
      /\ chunkRecords \in 0 .. ChunkCapacity /\ (~reserved => chunkRecords = 0)
      /\ IsFiniteSet(Chunks) /\ Cardinality(Chunks) \in Nat
  BY DeltaAssumption, FS_CardinalityType DEF EntityInv, TypeOK, UnreservedIsEmpty
<1>2. /\ UNCHANGED <<at, version, entityPart, needsBaseline, movedFrom, reserved,
                     frame, seen, shown>>
      /\ dirty' \subseteq Chunks /\ stale' \subseteq Chunks /\ pendingChunks' \subseteq Chunks
      /\ pendingTruncated' \in BOOLEAN /\ baselinePending' \in BOOLEAN
      /\ \/ baselinePending' = TRUE
         \/ UNCHANGED baselinePending /\ (pendingTruncated => pendingTruncated')
      /\ Fit
  <2>1. CASE \E c \in Chunks : MarkDirty(c)
    BY <1>1, <2>1 DEF EntityInv, TypeOK, MarkDirty, chunkPart, flags
  <2>2. CASE \E c \in Chunks : DestinationCollects(c)
    BY <1>1, <2>2 DEF EntityInv, TypeOK, DestinationCollects, chunkPart, flags, consumer
  <2>3. CASE CollectTileDeltas
    <3>1. PICK kept \in Recordable(dirty) :
                /\ pendingChunks' = pendingChunks \cup kept
                /\ chunkRecords' = chunkRecords + Cardinality(kept)
                /\ pendingTruncated' = (pendingTruncated \/ kept # dirty)
                /\ dirty' = dirty \ kept
      BY <2>3 DEF CollectTileDeltas
    <3>2. kept \in SUBSET Chunks /\ kept \subseteq dirty
          /\ Cardinality(kept) = IF Cardinality(dirty) <= ChunkRoom
                                 THEN Cardinality(dirty) ELSE ChunkRoom
      BY <1>1 DEF Recordable
    <3>3. Cardinality(dirty) \in Nat
      BY <1>1, FS_Subset, FS_CardinalityType
    <3>4. PICK n : n = Cardinality(kept)
      OBVIOUS
    <3>5. n \in Nat /\ n <= ChunkRoom
      <4>1. n \in Nat
        BY <3>2, <3>4, KeptSize
      <4>2. CASE reserved
        BY <1>1, <3>2, <3>3, <3>4, <4>1, <4>2 DEF ChunkRoom
      <4>3. CASE ~reserved
        BY <1>1, <3>2, <3>3, <3>4, <4>1, <4>3 DEF ChunkRoom
      <4> QED
        BY <4>2, <4>3, <4>1
    <3>6. Fit
      <4>1. CASE reserved
        BY <1>1, <3>1, <3>4, <3>5, <4>1 DEF ChunkRoom
      <4>2. CASE ~reserved
        BY <1>1, <3>1, <3>4, <3>5, <4>2 DEF ChunkRoom
      <4> QED
        BY <4>1, <4>2
    <3> HIDE DEF Fit
    <3> QED
      BY <2>3, <3>1, <3>2, <3>6
      DEF EntityInv, TypeOK, CollectTileDeltas, flags, consumer
  <2>4. CASE CollectBaseline
    <3> DEFINE room == IF reserved THEN ChunkCapacity ELSE 0
               fit == IF Cardinality(Chunks) <= room THEN Cardinality(Chunks)
                                                     ELSE room
    <3>1. PICK kept \in SUBSET Chunks :
                /\ pendingChunks' = kept
                /\ pendingTruncated' = (kept # Chunks)
      BY <2>4 DEF CollectBaseline
    <3>2. chunkRecords' = fit /\ fit \in 0 .. ChunkCapacity /\ (~reserved => fit = 0)
      BY <1>1, <2>4 DEF CollectBaseline
    <3>3. Fit
      BY <3>2
    <3> HIDE DEF Fit
    <3> QED
      BY <2>4, <3>1, <3>3 DEF EntityInv, TypeOK, CollectBaseline, consumer
  <2> QED
    BY <2>1, <2>2, <2>3, <2>4
<1>3. /\ UNCHANGED <<pendingEntities, coalesceSlots>>
      /\ (Applicable' <=> Applicable) /\ EntityRoom' = EntityRoom
  BY <1>2 DEF entityPart, Applicable, EntityRoom
<1>4. TypeOK'
  BY <1>2, <1>3 DEF EntityInv, TypeOK
<1>5. UnreservedIsEmpty' /\ VersionsOrdered' /\ SlotsPoint' /\ RecordsAreCurrent'
  BY <1>2, <1>3
  DEF EntityInv, UnreservedIsEmpty, VersionsOrdered, SlotsPoint, RecordsAreCurrent
<1>6. FrameCoversEntities' /\ EntitiesAreCovered'
  BY <1>2, <1>3
  DEF EntityInv, FrameCoversEntities, EntitiesAreCovered, RecordsChain, InSync
<1> QED
  BY <1>4, <1>5, <1>6 DEF EntityInv

\* The pending records are gone: published, cleared or moved away.
LEMMA EmptiedPending ==
    ASSUME EntityInv, pendingEntities' = <<>>,
           coalesceSlots' \in {NoSlots, SlotsWithout(pendingEntities, coalesceSlots)}
    PROVE  /\ SlotsPoint' /\ RecordsAreCurrent' /\ RecordsChain'
           /\ pendingEntities' \in Seq(EntityDelta)
           /\ Len(pendingEntities') <= EntityCapacity
           /\ coalesceSlots' \in [Entities -> SlotValues]
<1>1. \A e \in Entities : coalesceSlots'[e] \in {NoSlot, Barrier}
  <2>1. \A e \in Entities : NoSlots[e] = NoSlot
    BY DEF NoSlots
  <2>2. ASSUME NEW e \in Entities
        PROVE  SlotsWithout(pendingEntities, coalesceSlots)[e] \in {NoSlot, Barrier}
    <3>1. CASE coalesceSlots[e] \in {NoSlot, Barrier}
      BY <3>1 DEF SlotsWithout
    <3>2. CASE coalesceSlots[e] \notin {NoSlot, Barrier}
      <4>1. PICK k : k = coalesceSlots[e]
        OBVIOUS
      <4>2. k \in DOMAIN pendingEntities /\ pendingEntities[k].entity = e
        BY <3>2, <4>1 DEF EntityInv, SlotsPoint, IsLast
      <4> QED
        BY <4>2 DEF SlotsWithout
    <3> QED
      BY <3>1, <3>2
  <2> QED
    BY <2>1, <2>2
<1>2. coalesceSlots' \in [Entities -> SlotValues]
  <2>1. \E f : coalesceSlots' = [e \in Entities |-> f[e]]
    BY DEF NoSlots, SlotsWithout
  <2> QED
    BY <1>1, <2>1 DEF SlotValues
<1>3. SlotsPoint'
  BY <1>1 DEF SlotsPoint
<1>4. RecordsAreCurrent' /\ RecordsChain'
  BY NothingRecorded DEF RecordsAreCurrent, RecordsEndAt, RecordsChain
<1>5. 0 <= EntityCapacity
  BY DeltaAssumption
<1> QED
  BY <1>2, <1>3, <1>4, <1>5, NothingRecorded

\* publish() moves the pending records into the frame, which then carries
\* what a synchronised consumer lacks.
LEMMA PublishEntities ==
    ASSUME EntityInv, Publish
    PROVE  EntityInv'
<1>1. /\ version' = NextVersion
      /\ frame' = [live |-> TRUE, from |-> version, to |-> NextVersion,
                   baseline |-> baselinePending, truncated |-> MustTruncate,
                   chunks |-> pendingChunks,
                   entities |-> IF baselinePending THEN <<>> ELSE pendingEntities]
      /\ needsBaseline' = (needsBaseline /\ ~baselinePending)
      /\ movedFrom' = (movedFrom /\ ~baselinePending)
      /\ pendingChunks' = {} /\ chunkRecords' = 0 /\ pendingEntities' = <<>>
      /\ coalesceSlots' = SlotsWithout(pendingEntities, coalesceSlots)
      /\ pendingTruncated' = FALSE /\ baselinePending' = FALSE
      /\ UNCHANGED <<dirty, at, reserved, seen, stale, shown>>
  BY DEF Publish, ResetPending, world, consumer
<1>2. TypeOK /\ VersionsOrdered
  BY DEF EntityInv
<1>3. /\ version \in Nat /\ NextVersion \in Nat /\ version >= 1 /\ seen \in Nat
      /\ seen <= version
      /\ NextVersion = version \/ NextVersion = version + 1
      /\ NextVersion = version =>
           /\ pendingEntities = <<>> /\ ~baselinePending
           /\ ~pendingTruncated /\ ~needsBaseline /\ ~movedFrom
  BY <1>2 DEF TypeOK, VersionsOrdered, NextVersion, StateCarrying
<1>4. /\ SlotsPoint' /\ RecordsAreCurrent' /\ RecordsChain'
      /\ pendingEntities' \in Seq(EntityDelta)
      /\ Len(pendingEntities') <= EntityCapacity
      /\ coalesceSlots' \in [Entities -> SlotValues]
  BY <1>1, EmptiedPending
<1>5. /\ frame'.live = TRUE /\ frame'.from = version /\ frame'.to = NextVersion
      /\ frame'.baseline = baselinePending /\ frame'.truncated = MustTruncate
      /\ frame'.entities = IF baselinePending THEN <<>> ELSE pendingEntities
  BY <1>1
<1>6. frame' \in Frame
  <2>1. MustTruncate \in BOOLEAN
    BY DEF MustTruncate
  <2>2. (IF baselinePending THEN <<>> ELSE pendingEntities) \in Seq(EntityDelta)
    BY RoomFacts, NothingRecorded
  <2>3. baselinePending \in BOOLEAN /\ pendingChunks \in SUBSET Chunks
    BY <1>2 DEF TypeOK
  <2> QED
    BY <1>1, <1>3, <2>1, <2>2, <2>3 DEF Frame
<1>7. TypeOK'
  <2>1. /\ needsBaseline' \in BOOLEAN /\ movedFrom' \in BOOLEAN
        /\ pendingTruncated' \in BOOLEAN /\ baselinePending' \in BOOLEAN
        /\ pendingChunks' \subseteq Chunks
    BY <1>1, <1>2 DEF TypeOK
  <2>2. chunkRecords' \in 0 .. ChunkCapacity
    BY <1>1, DeltaAssumption
  <2> QED
    BY <1>1, <1>2, <1>3, <1>4, <1>6, <2>1, <2>2 DEF TypeOK
<1>8. UnreservedIsEmpty' /\ VersionsOrdered'
  BY <1>1, <1>3, <1>5 DEF UnreservedIsEmpty, VersionsOrdered
<1>9. FrameCoversEntities'
  <2> SUFFICES ASSUME Applicable', ~baselinePending, ~needsBaseline', ~movedFrom'
               PROVE  Replayed(<<>>, Replayed(pendingEntities, shown)) = at
    BY <1>1, <1>5 DEF FrameCoversEntities
  <2>1. seen = version /\ ~MustTruncate
    BY <1>1, <1>5 DEF Applicable
  <2>2. InSync
    BY <1>1, <2>1 DEF MustTruncate, InSync
  <2>3. Replayed(pendingEntities, shown) = at
    BY <2>2 DEF EntityInv, EntitiesAreCovered
  <2> QED
    BY <2>3, RoomFacts, ReplayedNone
<1>10. EntitiesAreCovered'
  <2> SUFFICES ASSUME InSync' PROVE Replayed(<<>>, shown) = at
    BY <1>1, <1>4 DEF EntitiesAreCovered
  <2>1. pendingEntities = <<>> /\ InSync
    BY <1>1, <1>3 DEF InSync
  <2> QED
    BY <2>1 DEF EntityInv, EntitiesAreCovered
<1> QED
  BY <1>4, <1>7, <1>8, <1>9, <1>10 DEF EntityInv

\* clear(), a move and a fresh collector leave no live promise behind.
LEMMA EndingsKeepEntities ==
    ASSUME EntityInv, Clear \/ MoveFrom \/ AssignFresh
    PROVE  EntityInv'
<1>1. /\ pendingEntities' = <<>>
      /\ coalesceSlots' \in {NoSlots, SlotsWithout(pendingEntities, coalesceSlots)}
      /\ pendingChunks' = {} /\ chunkRecords' = 0
      /\ UNCHANGED <<dirty, at>>
  BY DEF Clear, MoveFrom, AssignFresh, ResetPending, world
<1>2. /\ SlotsPoint' /\ RecordsAreCurrent' /\ RecordsChain'
      /\ pendingEntities' \in Seq(EntityDelta)
      /\ Len(pendingEntities') <= EntityCapacity
      /\ coalesceSlots' \in [Entities -> SlotValues]
  BY <1>1, EmptiedPending
<1>3. TypeOK /\ VersionsOrdered /\ 0 \in 0 .. ChunkCapacity
  BY DeltaAssumption DEF EntityInv
<1>4. /\ reserved' \in BOOLEAN /\ pendingTruncated' \in BOOLEAN
      /\ baselinePending' \in BOOLEAN /\ needsBaseline' \in BOOLEAN
      /\ movedFrom' \in BOOLEAN /\ version' \in Nat /\ seen' \in Nat
      /\ stale' \subseteq Chunks /\ shown' \in [Entities -> Places]
      /\ version' >= 1 /\ seen' <= version'
      /\ (frame' = frame /\ version' = version) \/ frame' = NoFrame
      /\ needsBaseline' \/ movedFrom' \/ seen' # version'
      /\ needsBaseline' \/ movedFrom' \/ ~frame'.live
  <2>1. [e \in Entities |-> Nowhere] \in [Entities -> Places]
    BY DEF Places
  <2>2. CASE Clear
    BY <1>3, <2>2 DEF TypeOK, VersionsOrdered, Clear, ResetPending, consumer
  <2>3. CASE MoveFrom
    BY <1>3, <2>3, DeadFrame DEF TypeOK, VersionsOrdered, MoveFrom, consumer
  <2>4. CASE AssignFresh
    <3>1. /\ version' = 1 /\ seen' = 0 /\ frame' = NoFrame
          /\ pendingTruncated' = FALSE /\ baselinePending' = FALSE
          /\ needsBaseline' = FALSE /\ movedFrom' = FALSE /\ reserved' = FALSE
          /\ stale' = Chunks /\ shown' = [e \in Entities |-> Nowhere]
      BY <2>4 DEF AssignFresh
    <3>2. shown' \in [Entities -> Places] /\ stale' \subseteq Chunks /\ ~frame'.live
      BY <2>1, <3>1, DeadFrame, Zenon
    <3>3. version' \in Nat /\ seen' \in Nat /\ version' >= 1 /\ seen' <= version'
          /\ seen' # version'
      BY <3>1
    <3> QED
      BY <3>1, <3>2, <3>3, Zenon
  <2> QED
    BY <2>2, <2>3, <2>4
<1>5. TypeOK'
  BY <1>1, <1>2, <1>3, <1>4, NoFrameType DEF TypeOK
<1>6. UnreservedIsEmpty' /\ VersionsOrdered'
  BY <1>1, <1>3, <1>4, DeadFrame DEF UnreservedIsEmpty, VersionsOrdered
<1>7. FrameCoversEntities' /\ EntitiesAreCovered'
  BY <1>2, <1>4 DEF FrameCoversEntities, EntitiesAreCovered, InSync
<1> QED
  BY <1>2, <1>5, <1>6, <1>7 DEF EntityInv

\* reserve() finds no records, or keeps the room it had.
LEMMA ReserveKeepsEntities ==
    ASSUME EntityInv, Reserve
    PROVE  EntityInv'
<1>1. /\ reserved' = TRUE /\ frame' = NoFrame
      /\ UNCHANGED <<dirty, at, version, pendingChunks, chunkRecords, pendingEntities,
                     coalesceSlots, pendingTruncated, baselinePending, needsBaseline,
                     movedFrom, seen, stale, shown>>
  BY DEF Reserve, world, chunkPart, entityPart, consumer
<1>2. TypeOK' /\ UnreservedIsEmpty' /\ SlotsPoint'
  BY <1>1, NoFrameType DEF EntityInv, TypeOK, UnreservedIsEmpty, SlotsPoint
<1>3. VersionsOrdered' /\ FrameCoversEntities'
  BY <1>1, DeadFrame DEF EntityInv, VersionsOrdered, FrameCoversEntities
<1>4. EntitiesAreCovered'
  BY <1>1 DEF EntityInv, EntitiesAreCovered, RecordsChain, InSync
<1>5. RecordsAreCurrent'
  <2>1. CASE reserved
    BY <1>1, <2>1 DEF EntityInv, RecordsAreCurrent, EntityRoom
  <2>2. CASE ~reserved
    <3>1. pendingEntities' = <<>>
      BY <1>1, <2>2 DEF EntityInv, UnreservedIsEmpty
    <3> QED
      BY <3>1, NothingRecorded DEF RecordsAreCurrent, RecordsEndAt
  <2> QED
    BY <2>1, <2>2
<1> QED
  BY <1>2, <1>3, <1>4, <1>5 DEF EntityInv

\* The consumer's two steps.
LEMMA ConsumerStep ==
    ASSUME EntityInv, Apply \/ ConsumerRestart
    PROVE  EntityInv'
<1>1. /\ UNCHANGED <<dirty, at, version, pendingChunks, chunkRecords, pendingEntities,
                     coalesceSlots, pendingTruncated, baselinePending, needsBaseline,
                     movedFrom, reserved, frame>>
  BY DEF Apply, ConsumerRestart, world, chunkPart, entityPart, flags
<1>2. UnreservedIsEmpty' /\ SlotsPoint' /\ RecordsAreCurrent' /\ RecordsChain'
  BY <1>1
  DEF EntityInv, UnreservedIsEmpty, SlotsPoint, RecordsAreCurrent, EntityRoom,
      EntitiesAreCovered, RecordsChain
<1>3. CASE ConsumerRestart
  <2>1. seen' = 0 /\ stale' = Chunks /\ shown' = [e \in Entities |-> Nowhere]
    BY <1>3 DEF ConsumerRestart
  <2>2. TypeOK' /\ VersionsOrdered'
    BY <1>1, <2>1 DEF EntityInv, TypeOK, VersionsOrdered, Places
  <2>3. FrameCoversEntities' /\ EntitiesAreCovered'
    BY <1>1, <1>2, <2>1
    DEF EntityInv, VersionsOrdered, FrameCoversEntities, EntitiesAreCovered, InSync, Applicable
  <2> QED
    BY <1>2, <2>2, <2>3 DEF EntityInv
<1>4. CASE Apply
  <2>1. /\ frame.live /\ Applicable /\ seen' = frame.to /\ stale' = stale \ frame.chunks
        /\ shown' = IF frame.baseline THEN at ELSE Replayed(frame.entities, shown)
    BY <1>4 DEF Apply
  <2>2. /\ shown' \in Presentations /\ frame.to \in Nat /\ frame.to = version
        /\ pendingEntities \in Seq(EntityDelta) /\ at \in Presentations
        /\ shown \in Presentations /\ frame.entities \in Seq(EntityDelta)
    BY <2>1, RoomFacts DEF EntityInv, VersionsOrdered, Frame
  <2>3. TypeOK' /\ VersionsOrdered'
    BY <1>1, <2>1, <2>2 DEF EntityInv, TypeOK, VersionsOrdered, Presentations
  <2>4. FrameCoversEntities'
    <3> SUFFICES ASSUME ~frame.baseline, ~pendingTruncated, ~needsBaseline, ~movedFrom,
                        ~baselinePending
                 PROVE  Replayed(pendingEntities, Replayed(frame.entities, shown')) = at
      BY <1>1 DEF FrameCoversEntities
    <3>1. Replayed(frame.entities, shown') = shown'
      BY <2>1, <2>2, ReplayedTwice
    <3> QED
      BY <2>1, <3>1 DEF EntityInv, FrameCoversEntities
  <2>5. EntitiesAreCovered'
    <3> SUFFICES ASSUME ~pendingTruncated, ~needsBaseline, ~movedFrom, ~baselinePending
                 PROVE  Replayed(pendingEntities, shown') = at
      BY <1>1, <1>2 DEF EntitiesAreCovered, InSync
    <3>1. CASE ~frame.baseline
      BY <2>1, <3>1 DEF EntityInv, FrameCoversEntities
    <3>2. CASE frame.baseline
      <4>1. RecordsEndAt(pendingEntities, at)
        BY DEF EntityInv, RecordsAreCurrent
      <4> QED
        BY <2>1, <2>2, <3>2, <4>1, ReplayedReaches
    <3> QED
      BY <3>1, <3>2
  <2> QED
    BY <1>2, <2>3, <2>4, <2>5 DEF EntityInv
<1> QED
  BY <1>3, <1>4

\* The inductive invariant of the entity half, whatever collectors are moved.
THEOREM EntityInvariant == Spec => []EntityInv
<1>1. EntityInv /\ [Next]_vars => EntityInv'
  <2> SUFFICES ASSUME EntityInv, [Next]_vars PROVE EntityInv'
    OBVIOUS
  <2>1. CASE UNCHANGED vars
    BY <2>1
    DEF vars, world, chunkPart, entityPart, flags, consumer, EntityInv, TypeOK,
        UnreservedIsEmpty, VersionsOrdered, SlotsPoint, RecordsAreCurrent, EntityRoom,
        FrameCoversEntities, EntitiesAreCovered, RecordsChain, InSync, Applicable
  <2>2. ASSUME NEW e \in Entities, NEW p \in Tiles, RecordMove(e, p) PROVE EntityInv'
    BY <2>2, MoveStep
  <2>3. ASSUME NEW e \in Entities,
               \/ \E p \in Tiles : RecordTeleport(e, p) \/ RecordAppear(e, p)
               \/ RecordVanish(e)
        PROVE  EntityInv'
    BY <2>3, BarrierStep
  <2>4. CASE \/ \E c \in Chunks : MarkDirty(c) \/ DestinationCollects(c)
             \/ CollectTileDeltas \/ CollectBaseline
    BY <2>4, TilesStep
  <2>5. CASE Publish
    BY <2>5, PublishEntities
  <2>6. CASE Clear \/ MoveFrom \/ AssignFresh
    BY <2>6, EndingsKeepEntities
  <2>7. CASE Reserve
    BY <2>7, ReserveKeepsEntities
  <2>8. CASE Apply \/ ConsumerRestart
    BY <2>8, ConsumerStep
  <2> QED
    BY <2>1, <2>2, <2>3, <2>4, <2>5, <2>6, <2>7, <2>8 DEF Next
<1> QED
  BY InitEntity, <1>1, PTL DEF Spec

\* One entity's records chain, and the pending records take a synchronised
\* consumer's presentation to where the entities are, however folds, barriers,
\* overflows, baselines, clears, moves, missed frames and restarts interleave.
\* (record_move, record_barrier, append_entity, publish)
THEOREM NoTransitionLost == Spec => []EntitiesAreCovered
<1>1. EntityInv => EntitiesAreCovered
  BY DEF EntityInv
<1> QED
  BY <1>1, EntityInvariant, PTL
=============================================================================
