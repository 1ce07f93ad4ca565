------------------------------ MODULE ChunkMeta ------------------------------
(***************************************************************************)
(* The metadata helpers of storage/chunk_meta.h, shared by the sparse and  *)
(* the always-resident world.  They work on the metadata of one chunk: the *)
(* ChunkMeta record together with the mask and bounds columns that the     *)
(* worlds keep beside it.                                                  *)
(*                                                                         *)
(* A box is abstracted to an interval of tiles along one axis: union_box   *)
(* works on each axis alone.                                               *)
(***************************************************************************)
EXTENDS Naturals

CONSTANTS
  Flags,    \* the bits of a DirtyMask
  Actives,  \* the bits of an ActiveMask
  Positions     \* positions along the axis

ASSUME PositionsAssumption == Positions \subseteq Nat

NoBox == [lo |-> 0, end |-> 0]
TileBox(t) == [lo |-> t, end |-> t + 1]

FreshMeta ==
  [content_version  |-> 0,
   topology_version |-> 0,
   dirty            |-> {},
   active           |-> {},
   bounds           |-> NoBox]

UnionBox(a, b) ==
  [lo  |-> IF a.lo < b.lo THEN a.lo ELSE b.lo,
   end |-> IF a.end < b.end THEN b.end ELSE a.end]

(* Bounds restart only when no flag at all was dirty.                      *)
DirtyBounds(m, mask, box) ==
  IF m.dirty = {} THEN box ELSE UnionBox(m.bounds, box)

NextVersion(m) == m.content_version + 1

MarkDirty(m, mask, box) ==
  IF mask = {} THEN m
  ELSE [m EXCEPT !.bounds = DirtyBounds(m, mask, box),
                 !.dirty = m.dirty \cup mask,
                 !.content_version = NextVersion(m)]

MarkContentChanged(m) == [m EXCEPT !.content_version = NextVersion(m)]

ClearDirty(m, mask) ==
  IF mask = {} THEN m
  ELSE [m EXCEPT !.dirty = m.dirty \ mask,
                 !.bounds = IF m.dirty \subseteq mask THEN NoBox ELSE @]

ObserveDirty(m, mask, generation) ==
  [mask            |-> m.dirty \cap mask,
   bounds          |-> m.bounds,
   content_version |-> m.content_version,
   generation      |-> generation]

(* clear_dirty_observed accepts an observation of this residency interval  *)
(* at this content version only.                                           *)
StillCurrentVersion(m, observed, generation) ==
  m.content_version = observed.content_version
StillCurrent(m, observed, generation) ==
  /\ generation = observed.generation
  /\ m.content_version = observed.content_version

ClearDirtyObserved(m, observed, generation) ==
  IF StillCurrent(m, observed, generation)
    THEN ClearDirty(m, observed.mask) ELSE m

MarkActive(m, mask) == [m EXCEPT !.active = m.active \cup mask]
ClearActive(m, mask) == [m EXCEPT !.active = m.active \ mask]
=============================================================================
