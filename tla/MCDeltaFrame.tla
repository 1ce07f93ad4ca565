---------------------------- MODULE MCDeltaFrame ----------------------------
(* A small collector: chunk storage for the whole world and no more, so a    *)
(* second collection in one frame overflows it.  The two halves share the    *)
(* version and the flags; a behaviour exercises one of them, and stops at    *)
(* MaxEntityVersion once it has touched an entity.                           *)
EXTENDS DeltaFrame, TLC

CONSTANT MaxEntityVersion

EntityTouched ==
    \/ \E e \in Entities : at[e] # Nowhere \/ shown[e] # Nowhere
    \/ pendingEntities # <<>> \/ frame.entities # <<>>
OneHalf == EntityTouched => dirty = {} /\ version <= MaxEntityVersion

Symmetry == Permutations(Chunks) \cup Permutations(Tiles)
=============================================================================
