--------------------------- MODULE ChunkDirectory ---------------------------
(***************************************************************************)
(* detail::ChunkDirectory of storage/sparse_world.h: the fixed-capacity    *)
(* map from the key of a resident chunk to its slot.  When the capacity    *)
(* covers the key space it is a plain array; otherwise an open-addressing  *)
(* table with linear probing, whose deletion shifts entries back instead   *)
(* of leaving tombstones.                                                  *)
(*                                                                         *)
(* The hash (mix) is abstracted to an arbitrary home bucket for each key:  *)
(* the table must be right for every one of them.                          *)
(***************************************************************************)
EXTENDS Naturals, FiniteSets

CONSTANTS
  DirectoryKeys,    \* the key space
  DirectorySlots,   \* the values
  npos,             \* npos: no slot
  Capacities        \* the capacities to reset the directory to

ASSUME DirectoryAssumption ==
  IsFiniteSet(DirectoryKeys) /\ npos \notin DirectorySlots /\ Capacities \subseteq Nat

VARIABLES
  capacity,   \* capacity given to reset: the largest number of entries
  size,       \* the number of buckets; 0 marks the direct mode (mask_ = 0)
  home,       \* home(key)
  buckets,    \* buckets_
  direct,     \* direct_slots_
  map         \* history: the map that the directory represents

directory_vars == <<capacity, size, home, buckets, direct, map>>

Empty == [occupied |-> FALSE]
Bucket(k, s) == [occupied |-> TRUE, key |-> k, slot |-> s]

(* The least power of two that is at least 2 and at least 2 * n: doubled   *)
(* while it is too small, n times at most.                                 *)
TableSize(n) ==
  LET table[p \in 0 .. n] ==
        IF p = 0 THEN 2 ELSE IF table[p - 1] < n * 2 THEN table[p - 1] * 2 ELSE table[p - 1]
  IN  table[n]

reset(n) ==
  /\ capacity = n
  /\ size = IF Cardinality(DirectoryKeys) <= n THEN 0 ELSE TableSize(n)
  /\ home \in [DirectoryKeys -> IF size = 0 THEN {0} ELSE 0 .. size - 1]
  /\ buckets = [i \in 0 .. size - 1 |-> Empty]
  /\ direct = [k \in IF size = 0 THEN DirectoryKeys ELSE {} |-> npos]

DirectoryInit ==
  /\ \E n \in Capacities : reset(n)
  /\ map = [k \in DirectoryKeys |-> npos]

(* Linear probing: the first bucket from i on, round the table, in S.      *)
After(i, d) == (i + d) % size
FirstIn(S, i) ==
  After(i, CHOOSE d \in 0 .. size - 1 :
             After(i, d) \in S /\ \A e \in 0 .. d - 1 : After(i, e) \notin S)

Free == {i \in DOMAIN buckets : ~buckets[i].occupied}
Holding(k) == {i \in DOMAIN buckets : buckets[i].occupied /\ buckets[i].key = k}
Probe(i, k) == FirstIn(Free \cup Holding(k), i)
ProbeFree(i) == FirstIn(Free, i)

find(k) ==
  IF size = 0 THEN direct[k]
  ELSE LET b == buckets[Probe(home[k], k)]
       IN  IF b.occupied THEN b.slot ELSE npos

(* An entry may move back over the hole at lo unless its home lies         *)
(* cyclically inside (lo, hi].                                             *)
InLinearRange(lo, pos, hi) == lo < pos /\ pos <= hi
InCyclicRange(lo, pos, hi) ==
  IF lo <= hi THEN lo < pos /\ pos <= hi ELSE lo < pos \/ pos <= hi

(* The loop of erase: the bucket j is looked at, up to the first free one, *)
(* and moves into the hole unless that would break its probe chain.        *)
ShiftBack(at, j) ==
  IF at.done \/ ~at.buckets[j].occupied THEN [at EXCEPT !.done = TRUE]
  ELSE IF InCyclicRange(at.hole, home[at.buckets[j].key], j) THEN at
  ELSE [at EXCEPT !.buckets[at.hole] = at.buckets[j], !.hole = j]
Backfilled(b, i) ==
  LET loop[n \in 0 .. size] ==
        IF n = 0 THEN [buckets |-> b, hole |-> i, done |-> FALSE]
        ELSE ShiftBack(loop[n - 1], After(i, n))
  IN  [loop[size].buckets EXCEPT ![loop[size].hole] = Empty]

Entries == {k \in DirectoryKeys : map[k] # npos}

(* insert: the key is absent and there is room.                            *)
insert(k, s) ==
  /\ k \notin Entries
  /\ Cardinality(Entries) < capacity
  /\ IF size = 0
       THEN direct' = [direct EXCEPT ![k] = s] /\ UNCHANGED buckets
       ELSE /\ buckets' = [buckets EXCEPT ![ProbeFree(home[k])] = Bucket(k, s)]
            /\ UNCHANGED direct
  /\ map' = [map EXCEPT ![k] = s]
  /\ UNCHANGED <<capacity, size, home>>

(* erase of an absent key changes nothing.                                 *)
erase(k) ==
  LET i == Probe(home[k], k) IN
  /\ IF size = 0
       THEN direct' = [direct EXCEPT ![k] = npos] /\ UNCHANGED buckets
       ELSE /\ buckets' = IF buckets[i].occupied THEN Backfilled(buckets, i)
                                                 ELSE buckets
            /\ UNCHANGED direct
  /\ map' = [map EXCEPT ![k] = npos]
  /\ UNCHANGED <<capacity, size, home>>

DirectoryNext == \E k \in DirectoryKeys : erase(k) \/ \E s \in DirectorySlots : insert(k, s)

DirectorySpec == DirectoryInit /\ [][DirectoryNext]_directory_vars

-----------------------------------------------------------------------------
(* A lookup finds exactly the entries of the map, after any sequence of    *)
(* insertions and backward-shift deletions and for every hash.             *)
LookupsAgree == \A k \in DirectoryKeys : find(k) = map[k]

(* Every occupied bucket holds an entry of its own: a deletion leaves      *)
(* neither a tombstone nor a second copy of an entry it moved, so that the *)
(* table keeps the free bucket at which every probe ends.                  *)
NoTombstones ==
  /\ Cardinality({i \in DOMAIN buckets : buckets[i].occupied}) =
       IF size = 0 THEN 0 ELSE Cardinality(Entries)
  /\ size # 0 => \E i \in DOMAIN buckets : ~buckets[i].occupied

(* Whatever the sequence of insertions and backward-shift deletions, and   *)
(* for every hash, find of the directory returns the slot of the key, and  *)
(* a deletion leaves neither a tombstone nor a second copy of an entry it  *)
(* moved, so that the table keeps the free bucket at which a probe ends.   *)
DirectoryAgrees == LookupsAgree /\ NoTombstones
=============================================================================
