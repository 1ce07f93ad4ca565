----------------------------- MODULE ResidentSet -----------------------------
(***************************************************************************)
(* What a sparse world promises about residency (storage/sparse_world.h):  *)
(* a bounded set of resident chunks in the order of their last use.  A     *)
(* chunk that is materialized gets a generation no chunk ever had; when    *)
(* the set is full the least recently used chunk makes room for it.        *)
(***************************************************************************)
EXTENDS Naturals, Sequences, SequencesExt

CONSTANTS
  Keys,           \* the chunk keys inside the bounded shape
  Capacity,       \* the largest number of resident chunks
  MaxGeneration   \* bound: materializations

VARIABLES
  recency,     \* the resident keys, least recently used first
  generation,  \* generation[k] of a resident chunk, 0 of an absent one
  clock        \* the last generation given

vars == <<recency, generation, clock>>

Init ==
  /\ recency = <<>>
  /\ generation = [k \in Keys |-> 0]
  /\ clock = 0

Resident(k) == generation[k] # 0

Use(k) ==
  /\ Resident(k)
  /\ recency' = Append(RemoveFirst(recency, k), k)
  /\ UNCHANGED <<generation, clock>>

MaterializeInto(k, room, gens) ==
  /\ recency' = Append(room, k)
  /\ clock' = clock + 1
  /\ generation' = [gens EXCEPT ![k] = clock + 1]

Materialize(k) ==
  /\ ~Resident(k)
  /\ clock < MaxGeneration
  /\ \/ /\ Len(recency) < Capacity
        /\ MaterializeInto(k, recency, generation)
     \/ /\ Len(recency) = Capacity
        /\ MaterializeInto(k, Tail(recency),
                           [generation EXCEPT ![Head(recency)] = 0])

Evict(k) ==
  /\ Resident(k)
  /\ recency' = RemoveFirst(recency, k)
  /\ generation' = [generation EXCEPT ![k] = 0]
  /\ UNCHANGED clock

Next == \E k \in Keys : Use(k) \/ Materialize(k) \/ Evict(k)

Spec == Init /\ [][Next]_vars
=============================================================================
