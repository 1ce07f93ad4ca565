------------------------- MODULE SparseWorldProofs -------------------------
(***************************************************************************)
(* Proofs about the sparse world: its slots, lists and arrays stay one     *)
(* consistent description of the resident chunks, they implement the       *)
(* bounded least-recently-used set, a refused handle stays refused, and an *)
(* accepted observation has seen every mark.  The last part is about the   *)
(* directory the world finds its chunks with: it is exact.                 *)
(***************************************************************************)
EXTENDS SparseWorld, ChunkDirectory, FiniteSetTheorems, SequenceTheorems,
        WellFoundedInduction, TLAPS

-----------------------------------------------------------------------------
(* The inductive invariant.                                                *)

Distinct(q) == \A i, j \in 1 .. Len(q) : q[i] = q[j] => i = j

(* q holds each slot of H once.                                            *)
Lists(q, H) ==
  /\ q \in Seq(Slots)
  /\ Distinct(q)
  /\ \A s \in Slots : s \in H <=> \E i \in 1 .. Len(q) : q[i] = s

(* The list l runs through q in both directions.                           *)
Linked(l, q) ==
  /\ l.head = IF Len(q) = 0 THEN Npos ELSE q[1]
  /\ l.tail = IF Len(q) = 0 THEN Npos ELSE q[Len(q)]
  /\ \A i \in 1 .. Len(q) :
       /\ l.next[q[i]] = IF i = Len(q) THEN Npos ELSE q[i + 1]
       /\ l.prev[q[i]] = IF i = 1 THEN Npos ELSE q[i - 1]

Lists2Way == [prev : [Slots -> SlotOrNone], next : [Slots -> SlotOrNone],
              head : SlotOrNone, tail : SlotOrNone]

(* The arrays of the resident chunks find each other.                      *)
Indexed(keys, slots, position) ==
  /\ Len(keys) = Len(slots)
  /\ \A i \in 1 .. Len(slots) : position[slots[i]] = i

Owned(keys, slots, owner) == \A i \in 1 .. Len(slots) : keys[i] = owner[slots[i]]

(* The list, the arrays and the order describe the same slots H, owner     *)
(* being the key of each.                                                  *)
Stored(list, keys, slots, position, ord, owner, H) ==
  /\ list \in Lists2Way
  /\ Linked(list, ord)
  /\ Lists(ord, H)
  /\ Lists(slots, H)
  /\ Len(ord) = Len(slots)
  /\ keys \in Seq(Keys)
  /\ position \in [Slots -> Nat \ {0}]
  /\ Indexed(keys, slots, position)
  /\ Owned(keys, slots, owner)

(* The slots with a chunk.                                                 *)
Held == {s \in Slots : \E k \in Keys : directory[k] = s}

StorageTypeOK ==
  /\ directory \in [Keys -> SlotOrNone]
  /\ slot_key \in [Slots -> Keys \cup {Npos}]
  /\ slot_generation \in [Slots -> Nat]
  /\ generation_clock \in Nat

MetaTypeOK ==
  /\ meta \in [Slots -> Metas]
  /\ observation \in [Observers -> [key : Keys \cup {Npos}, seen : Seen]]
  /\ changed_since \in [Observers -> BOOLEAN]
  /\ marks \in [Slots -> SUBSET (Flags \X Positions)]
  /\ edits \in Nat

(* A resident chunk and its slot know each other, and its generation was   *)
(* given already.                                                          *)
DirectoryInv ==
  \A k \in Keys : Resident(k) =>
    /\ slot_key[directory[k]] = k
    /\ slot_generation[directory[k]] \in 1 .. generation_clock

StorageInv ==
  /\ StorageTypeOK
  /\ DirectoryInv
  /\ Stored(List, resident_keys, resident_slots, slot_position, order, slot_key, Held)
  /\ Lists(free_slots, Slots \ Held)

(* A mark that is not cleared is dirty and inside the bounds.              *)
Inside(X, m) ==
  \A x \in X : x[1] \in m.dirty /\ m.bounds.lo <= x[2] /\ x[2] < m.bounds.end

MarksInv == \A s \in Slots : Inside(marks[s], meta[s])

(* Within one residency interval the content version only grows, and grows *)
(* with every change an observer has to know of.                           *)
Follows(o) ==
  LET k == observation[o].key
      seen == observation[o].seen
  IN  (k # Npos /\ Resident(k) /\ Generation(k) = seen.generation) =>
        /\ seen.content_version <= meta[directory[k]].content_version
        /\ changed_since[o] =>
             seen.content_version # meta[directory[k]].content_version

ObserversInv ==
  \A o \in Observers :
    /\ observation[o].seen.generation <= generation_clock
    /\ Follows(o)

MetaInv == MetaTypeOK /\ MarksInv /\ ObserversInv

WorldInv == StorageInv /\ MetaInv

-----------------------------------------------------------------------------
(* Sequences of distinct elements.                                         *)

(* RemoveFirst takes the only occurrence out and closes the gap.           *)
LEMMA RemovedFirst ==
  ASSUME NEW S, NEW q \in Seq(S), Distinct(q), NEW p \in 1 .. Len(q)
  PROVE  /\ RemoveFirst(q, q[p]) \in Seq(S)
         /\ Len(RemoveFirst(q, q[p])) = Len(q) - 1
         /\ \A i \in 1 .. Len(q) - 1 :
              RemoveFirst(q, q[p])[i] = IF i < p THEN q[i] ELSE q[i + 1]
  <1> DEFINE I == {i \in 1 .. Len(q) : q[i] = q[p]}
  <1>1. Len(q) \in Nat /\ p \in Nat /\ 1 <= p /\ p <= Len(q)
    BY LenProperties
  <1>2. I = {p}
    BY DEF Distinct
  <1>3. Min(I) = p
    BY <1>1, <1>2 DEF Min
  <1>4. RemoveFirst(q, q[p]) = RemoveAt(q, p)
    BY <1>2, <1>3 DEF RemoveFirst, SelectInSeq
  <1> DEFINE a == SubSeq(q, 1, p - 1)
             b == SubSeq(q, p + 1, Len(q))
  <1>5. /\ a \in Seq(S) /\ Len(a) = p - 1
        /\ \A i \in 1 .. p - 1 : a[i] = q[i]
    <2>1. \A i \in 1 .. p - 1 : q[i] \in S
      BY <1>1, ElementOfSeq
    <2> QED  BY <1>1, <2>1, SubSeqProperties
  <1>6. /\ b \in Seq(S) /\ Len(b) = Len(q) - p
        /\ \A i \in 1 .. Len(q) - p : b[i] = q[p + i]
    <2>1. \A i \in p + 1 .. Len(q) : q[i] \in S
      BY <1>1, ElementOfSeq
    <2>2. /\ b \in Seq(S)
          /\ Len(b) = IF p + 1 <= Len(q) THEN Len(q) - (p + 1) + 1 ELSE 0
          /\ \A i \in 1 .. Len(q) - (p + 1) + 1 : b[i] = q[(p + 1) + i - 1]
      BY <1>1, <2>1, SubSeqProperties
    <2> QED  BY <1>1, <2>2
  <1> HIDE DEF a, b
  <1>7. /\ a \o b \in Seq(S)
        /\ Len(a \o b) = Len(a) + Len(b)
        /\ \A i \in 1 .. Len(a) + Len(b) :
             (a \o b)[i] = IF i <= Len(a) THEN a[i] ELSE b[i - Len(a)]
    BY <1>5, <1>6, ConcatProperties
  <1>8. \A i \in 1 .. Len(q) - 1 : (a \o b)[i] = IF i < p THEN q[i] ELSE q[i + 1]
    BY <1>1, <1>5, <1>6, <1>7
  <1>9. RemoveFirst(q, q[p]) = a \o b
    BY <1>4 DEF RemoveAt, a, b
  <1>10. /\ a \o b \in Seq(S)
         /\ Len(a \o b) = Len(q) - 1
    BY <1>1, <1>5, <1>6, <1>7
  <1> QED  BY <1>8, <1>9, <1>10

(* The last element takes the place of the one at i.                       *)
LEMMA RemovedBySwap ==
  ASSUME NEW S, NEW q \in Seq(S), NEW i \in 1 .. Len(q)
  PROVE  /\ SwapRemoved(q, i) \in Seq(S)
         /\ Len(SwapRemoved(q, i)) = Len(q) - 1
         /\ \A j \in 1 .. Len(q) - 1 :
              SwapRemoved(q, i)[j] = IF j = i THEN q[Len(q)] ELSE q[j]
  <1> DEFINE n == Len(q)
             w == [q EXCEPT ![i] = q[n]]
  <1>1. n \in Nat /\ n > 0 /\ q[n] \in S
    BY LenProperties, ElementOfSeq
  <1>2. /\ w \in Seq(S) /\ Len(w) = n
        /\ \A j \in 1 .. n : w[j] = IF j = i THEN q[n] ELSE q[j]
    BY <1>1, ExceptSeq
  <1> HIDE DEF w
  <1>3. \A j \in 1 .. n - 1 : w[j] \in S
    BY <1>1, <1>2, ElementOfSeq
  <1>4. /\ SubSeq(w, 1, n - 1) \in Seq(S)
        /\ Len(SubSeq(w, 1, n - 1)) = n - 1
        /\ \A j \in 1 .. n - 1 : SubSeq(w, 1, n - 1)[j] = w[j]
    BY <1>1, <1>2, <1>3, SubSeqProperties
  <1>5. SwapRemoved(q, i) = SubSeq(w, 1, n - 1)
    BY <1>2 DEF SwapRemoved, WithoutLast, w
  <1> QED  BY <1>1, <1>2, <1>4, <1>5

(* The last element is left out.                                           *)
LEMMA LastRemoved ==
  ASSUME NEW S, NEW q \in Seq(S), q # << >>
  PROVE  /\ Len(q) \in Nat /\ Len(q) > 0 /\ q[Len(q)] \in S
         /\ WithoutLast(q) \in Seq(S)
         /\ Len(WithoutLast(q)) = Len(q) - 1
         /\ \A j \in 1 .. Len(q) - 1 : WithoutLast(q)[j] = q[j]
  <1>1. Len(q) \in Nat /\ Len(q) > 0
    BY EmptySeq, LenProperties
  <1>2. \A j \in 1 .. Len(q) : q[j] \in S
    BY ElementOfSeq
  <1>3. \A j \in 1 .. Len(q) - 1 : q[j] \in S
    BY <1>1, <1>2
  <1>4. \A n \in Nat : n = Len(q) - 1 =>
          /\ SubSeq(q, 1, n) \in Seq(S)
          /\ Len(SubSeq(q, 1, n)) = n
          /\ \A j \in 1 .. n : SubSeq(q, 1, n)[j] = q[j]
    BY <1>1, <1>3, SubSeqProperties
  <1>5. Len(q) - 1 \in Nat
    BY <1>1
  <1>6. /\ SubSeq(q, 1, Len(q) - 1) \in Seq(S)
        /\ Len(SubSeq(q, 1, Len(q) - 1)) = Len(q) - 1
        /\ \A j \in 1 .. Len(q) - 1 : SubSeq(q, 1, Len(q) - 1)[j] = q[j]
    BY <1>4, <1>5
  <1>7. WithoutLast(q) = SubSeq(q, 1, Len(q) - 1)
    BY DEF WithoutLast
  <1>8. Len(q) \in 1 .. Len(q)
    BY <1>1
  <1> QED  BY <1>1, <1>2, <1>6, <1>7, <1>8

-----------------------------------------------------------------------------
(* Lists of slots.                                                         *)

(* A slot that is not listed may be appended.                              *)
LEMMA ListsAppend ==
  ASSUME NEW H \in SUBSET Slots, NEW q, Lists(q, H), NEW s \in Slots, s \notin H
  PROVE  /\ Lists(Append(q, s), H \cup {s})
         /\ Len(Append(q, s)) = Len(q) + 1
  <1>1. /\ q \in Seq(Slots) /\ Len(q) \in Nat
        /\ \A i, j \in 1 .. Len(q) : q[i] = q[j] => i = j
        /\ \A t \in Slots : t \in H <=> \E i \in 1 .. Len(q) : q[i] = t
    BY LenProperties DEF Lists, Distinct
  <1> DEFINE r == Append(q, s)
  <1>2. /\ r \in Seq(Slots) /\ Len(r) = Len(q) + 1 /\ r[Len(q) + 1] = s
        /\ \A i \in 1 .. Len(q) : r[i] = q[i]
    BY <1>1, AppendProperties
  <1> HIDE DEF r
  <1>3. \A i \in 1 .. Len(q) : q[i] # s
    BY <1>1
  <1>4. Distinct(r)
    BY <1>1, <1>2, <1>3 DEF Distinct
  <1>5. \A t \in Slots : t \in H \cup {s} <=> \E i \in 1 .. Len(r) : r[i] = t
    <2> SUFFICES ASSUME NEW t \in Slots
                 PROVE  t \in H \cup {s} <=> \E i \in 1 .. Len(r) : r[i] = t
      OBVIOUS
    <2>1. CASE t = s
      BY <1>1, <1>2, <2>1
    <2>2. CASE t # s /\ t \in H
      <3>1. PICK i \in 1 .. Len(q) : q[i] = t
        BY <1>1, <2>2
      <3>2. i \in 1 .. Len(r) /\ r[i] = t
        BY <1>1, <1>2, <3>1
      <3> QED  BY <2>2, <3>2
    <2>3. CASE t # s /\ t \notin H
      BY <1>1, <1>2, <2>3
    <2> QED  BY <2>1, <2>2, <2>3
  <1> QED  BY <1>2, <1>4, <1>5 DEF Lists, r

(* What is left of a list when the element at p leaves it, wherever the    *)
(* others go.                                                              *)
ComesFrom(r, q, f, p) ==
  /\ \A i \in 1 .. Len(q) - 1 : f[i] \in 1 .. Len(q) /\ f[i] # p /\ r[i] = q[f[i]]
  /\ \A i, j \in 1 .. Len(q) - 1 : f[i] = f[j] => i = j
  /\ \A j \in 1 .. Len(q) : j # p => \E i \in 1 .. Len(q) - 1 : f[i] = j

(* A list without one of its elements lists the set without it.            *)
LEMMA ListsWithout ==
  ASSUME NEW H \in SUBSET Slots, NEW q, Lists(q, H), NEW p \in 1 .. Len(q),
         NEW r \in Seq(Slots), Len(r) = Len(q) - 1,
         NEW f, ComesFrom(r, q, f, p)
  PROVE  Lists(r, H \ {q[p]})
  <1> USE DEF ComesFrom
  <1>0. \A i, j \in 1 .. Len(q) : q[i] = q[j] => i = j
    BY Zenon DEF Lists, Distinct
  <1>1. /\ q \in Seq(Slots) /\ Len(q) \in Nat
        /\ \A i, j \in 1 .. Len(q) : q[i] = q[j] => i = j
        /\ \A t \in Slots : t \in H <=> \E i \in 1 .. Len(q) : q[i] = t
    BY LenProperties DEF Lists, Distinct
  <1>2. Distinct(r)
    <2> SUFFICES ASSUME NEW i \in 1 .. Len(r), NEW j \in 1 .. Len(r), r[i] = r[j]
                 PROVE  i = j
      BY DEF Distinct
    <2>1. i \in 1 .. Len(q) - 1 /\ j \in 1 .. Len(q) - 1
      OBVIOUS
    <2>2. /\ f[i] \in 1 .. Len(q) /\ r[i] = q[f[i]]
          /\ f[j] \in 1 .. Len(q) /\ r[j] = q[f[j]]
      BY <2>1
    <2>3. q[f[i]] = q[f[j]]
      BY <2>2
    <2>4. f[i] = f[j]
      BY <1>0, <2>2, <2>3, Zenon
    <2> QED  BY <2>1, <2>4
  <1>3. ASSUME NEW t \in Slots
        PROVE  t \in H \ {q[p]} <=> \E i \in 1 .. Len(r) : r[i] = t
    <2>1. CASE t \in H \ {q[p]}
      <3>1. PICK j \in 1 .. Len(q) : q[j] = t
        BY <1>1, <2>1
      <3>2. j # p
        BY <2>1, <3>1
      <3>3. PICK i \in 1 .. Len(q) - 1 : f[i] = j
        BY <3>2
      <3> QED  BY <2>1, <3>1, <3>3
    <2>2. ASSUME NEW i \in 1 .. Len(r), r[i] = t PROVE t \in H \ {q[p]}
      <3>1. i \in 1 .. Len(q) - 1
        BY <2>2
      <3>2. f[i] \in 1 .. Len(q) /\ f[i] # p /\ q[f[i]] = t
        BY <2>2, <3>1
      <3>3. t \in H
        BY <1>1, <3>2
      <3>4. t # q[p]
        BY <1>0, <3>2
      <3> QED  BY <3>2, <3>3, <3>4
    <2> QED  BY <2>1, <2>2
  <1> QED  BY <1>2, <1>3 DEF Lists

(* One slot is taken out of the recency order.                             *)
LEMMA ListsRemoveFirst ==
  ASSUME NEW H \in SUBSET Slots, NEW q, Lists(q, H), NEW p \in 1 .. Len(q)
  PROVE  /\ Lists(RemoveFirst(q, q[p]), H \ {q[p]})
         /\ Len(RemoveFirst(q, q[p])) = Len(q) - 1
         /\ \A i \in 1 .. Len(q) - 1 :
              RemoveFirst(q, q[p])[i] = IF i < p THEN q[i] ELSE q[i + 1]
  <1>1. q \in Seq(Slots) /\ Distinct(q) /\ Len(q) \in Nat
    BY LenProperties DEF Lists
  <1> DEFINE r == RemoveFirst(q, q[p])
             f == [i \in 1 .. Len(q) - 1 |-> IF i < p THEN i ELSE i + 1]
  <1>2. /\ r \in Seq(Slots) /\ Len(r) = Len(q) - 1
        /\ \A i \in 1 .. Len(q) - 1 : r[i] = IF i < p THEN q[i] ELSE q[i + 1]
    BY <1>1, RemovedFirst
  <1> HIDE DEF r
  <1>3. \A i \in 1 .. Len(q) - 1 : f[i] \in 1 .. Len(q) /\ f[i] # p /\ r[i] = q[f[i]]
    BY <1>1, <1>2
  <1>4. \A i, j \in 1 .. Len(q) - 1 : f[i] = f[j] => i = j
    BY <1>1
  <1>5. ASSUME NEW j \in 1 .. Len(q), j # p
        PROVE  \E i \in 1 .. Len(q) - 1 : f[i] = j
    <2>1. CASE j < p
      <3>1. j \in 1 .. Len(q) - 1 /\ f[j] = j
        BY <1>1, <2>1
      <3> QED  BY <3>1
    <2>2. CASE j > p
      <3>1. j - 1 \in 1 .. Len(q) - 1 /\ f[j - 1] = j
        BY <1>1, <2>2
      <3> QED  BY <3>1
    <2> QED  BY <1>1, <1>5, <2>1, <2>2
  <1> HIDE DEF f
  <1>6. Lists(r, H \ {q[p]})
    <2>1. ComesFrom(r, q, f, p)
      BY <1>3, <1>4, <1>5 DEF ComesFrom
    <2> QED  BY <1>2, <2>1, ListsWithout
  <1> QED  BY <1>2, <1>6 DEF r

(* One slot is swap-removed from the resident slots, and the position of   *)
(* the slot that took its place is repaired.                               *)
LEMMA ListsSwapRemoved ==
  ASSUME NEW H \in SUBSET Slots, NEW q, Lists(q, H), NEW p \in 1 .. Len(q)
  PROVE  Lists(SwapRemoved(q, p), H \ {q[p]})
  <1>1. q \in Seq(Slots) /\ Distinct(q) /\ Len(q) \in Nat
    BY LenProperties DEF Lists
  <1> DEFINE r == SwapRemoved(q, p)
             f == [i \in 1 .. Len(q) - 1 |-> IF i = p THEN Len(q) ELSE i]
  <1>2. /\ r \in Seq(Slots) /\ Len(r) = Len(q) - 1
        /\ \A i \in 1 .. Len(q) - 1 : r[i] = IF i = p THEN q[Len(q)] ELSE q[i]
    BY <1>1, RemovedBySwap
  <1> HIDE DEF r
  <1>3. \A i \in 1 .. Len(q) - 1 : f[i] \in 1 .. Len(q) /\ f[i] # p /\ r[i] = q[f[i]]
    BY <1>1, <1>2
  <1>4. \A i, j \in 1 .. Len(q) - 1 : f[i] = f[j] => i = j
    BY <1>1
  <1>5. ASSUME NEW j \in 1 .. Len(q), j # p
        PROVE  \E i \in 1 .. Len(q) - 1 : f[i] = j
    <2>1. CASE j < Len(q)
      <3>1. j \in 1 .. Len(q) - 1 /\ f[j] = j
        BY <1>1, <1>5, <2>1
      <3> QED  BY <3>1
    <2>2. CASE j = Len(q)
      <3>1. p \in 1 .. Len(q) - 1 /\ f[p] = j
        BY <1>1, <1>5, <2>2
      <3> QED  BY <3>1
    <2> QED  BY <1>1, <2>1, <2>2
  <1> HIDE DEF f
  <1>6. Lists(r, H \ {q[p]})
    <2>1. ComesFrom(r, q, f, p)
      BY <1>3, <1>4, <1>5 DEF ComesFrom
    <2> QED  BY <1>2, <2>1, ListsWithout
  <1> QED  BY <1>6 DEF r

(* After a swap-removal every remaining slot knows its position, the moved *)
(* one included.                                                           *)
LEMMA IndexedSwapRemoved ==
  ASSUME NEW H \in SUBSET Slots, NEW slots, Lists(slots, H),
         NEW keys \in Seq(Keys), NEW position \in [Slots -> Nat \ {0}],
         Indexed(keys, slots, position), NEW owner,
         Owned(keys, slots, owner), NEW p \in 1 .. Len(slots)
  PROVE  LET moved == [position EXCEPT ![slots[Len(slots)]] = p] IN
         /\ SwapRemoved(keys, p) \in Seq(Keys)
         /\ moved \in [Slots -> Nat \ {0}]
         /\ Indexed(SwapRemoved(keys, p), SwapRemoved(slots, p), moved)
         /\ Len(SwapRemoved(slots, p)) = Len(slots) - 1
         /\ Owned(SwapRemoved(keys, p), SwapRemoved(slots, p), owner)
  <1> DEFINE moved == [position EXCEPT ![slots[Len(slots)]] = p]
             n == Len(slots)
             t == SwapRemoved(slots, p)
             k == SwapRemoved(keys, p)
  <1>1. slots \in Seq(Slots) /\ n \in Nat /\ Len(keys) = n /\ p \in 1 .. Len(keys)
    BY LenProperties DEF Lists, Indexed
  <1>2. \A i, j \in 1 .. n : slots[i] = slots[j] => i = j
    BY Zenon DEF Lists, Distinct
  <1>3. /\ t \in Seq(Slots) /\ Len(t) = n - 1
        /\ \A i \in 1 .. n - 1 : t[i] = IF i = p THEN slots[n] ELSE slots[i]
    BY <1>1, RemovedBySwap
  <1>4. /\ k \in Seq(Keys) /\ Len(k) = n - 1
        /\ \A i \in 1 .. n - 1 : k[i] = IF i = p THEN keys[n] ELSE keys[i]
    <2>1. /\ k \in Seq(Keys) /\ Len(k) = Len(keys) - 1
          /\ \A i \in 1 .. Len(keys) - 1 :
               k[i] = IF i = p THEN keys[Len(keys)] ELSE keys[i]
      BY <1>1, RemovedBySwap
    <2> QED  BY <1>1, <2>1
  <1>5. \A i \in 1 .. n : slots[i] \in Slots
    BY <1>1, ElementOfSeq
  <1>6. \A i \in 1 .. n : position[slots[i]] = i /\ keys[i] = owner[slots[i]]
    BY DEF Indexed, Owned
  <1> HIDE DEF t, k
  <1>7. p \in Nat \ {0} /\ n \in 1 .. n
    BY <1>1
  <1>8. moved \in [Slots -> Nat \ {0}]
    BY <1>7
  <1>9. \A i \in 1 .. n - 1 : moved[t[i]] = i
    <2> SUFFICES ASSUME NEW i \in 1 .. n - 1 PROVE moved[t[i]] = i
      OBVIOUS
    <2>1. CASE i = p
      <3>1. t[i] = slots[n] /\ slots[n] \in Slots
        BY <1>3, <1>5, <1>7, <2>1
      <3> QED  BY <2>1, <3>1
    <2>2. CASE i # p
      <3>1. t[i] = slots[i] /\ slots[i] \in Slots /\ i \in 1 .. n /\ i # n
        BY <1>1, <1>3, <1>5, <2>2
      <3>2. slots[i] # slots[n]
        BY <1>2, <1>7, <3>1
      <3> QED  BY <1>6, <3>1, <3>2
    <2> QED  BY <2>1, <2>2
  <1>10. \A i \in 1 .. n - 1 : k[i] = owner[t[i]]
    <2> SUFFICES ASSUME NEW i \in 1 .. n - 1 PROVE k[i] = owner[t[i]]
      OBVIOUS
    <2>1. i \in 1 .. n
      BY <1>1
    <2> QED  BY <1>3, <1>4, <1>6, <1>7, <2>1
  <1>11. Indexed(k, t, moved)
    BY <1>3, <1>4, <1>9 DEF Indexed
  <1>12. Owned(k, t, owner)
    BY <1>3, <1>10 DEF Owned
  <1> QED  BY <1>3, <1>4, <1>8, <1>11, <1>12 DEF t, k

(* A free slot is taken from the end of the free list.                     *)
LEMMA ListsWithoutLast ==
  ASSUME NEW H \in SUBSET Slots, NEW q, Lists(q, H), q # << >>
  PROVE  /\ Lists(WithoutLast(q), H \ {q[Len(q)]})
         /\ q[Len(q)] \in H
  <1>1. q \in Seq(Slots) /\ Distinct(q)
    BY DEF Lists
  <1> DEFINE r == WithoutLast(q)
             f == [i \in 1 .. Len(q) - 1 |-> i]
             p == Len(q)
  <1>2. /\ p \in Nat /\ p > 0 /\ q[p] \in Slots
        /\ r \in Seq(Slots) /\ Len(r) = p - 1
        /\ \A i \in 1 .. p - 1 : r[i] = q[i]
    BY <1>1, LastRemoved
  <1> HIDE DEF r
  <1>3. \A i \in 1 .. p - 1 : f[i] \in 1 .. p /\ f[i] # p /\ r[i] = q[f[i]]
    BY <1>2
  <1>4. \A i, j \in 1 .. p - 1 : f[i] = f[j] => i = j
    BY <1>2
  <1>5. ASSUME NEW j \in 1 .. p, j # p
        PROVE  \E i \in 1 .. p - 1 : f[i] = j
    <2>1. j \in 1 .. p - 1 /\ f[j] = j
      BY <1>2, <1>5
    <2> QED  BY <2>1
  <1>6. p \in 1 .. Len(q)
    BY <1>2
  <1> HIDE DEF f
  <1>7. Lists(r, H \ {q[p]})
    <2>1. ComesFrom(r, q, f, p)
      BY <1>3, <1>4, <1>5 DEF ComesFrom
    <2> QED  BY <1>2, <1>6, <2>1, ListsWithout
  <1>8. q[p] \in H
    BY <1>2, <1>6 DEF Lists
  <1> QED  BY <1>7, <1>8 DEF r

-----------------------------------------------------------------------------
(* The intrusive list.                                                     *)

LEMMA UnlinkIsRemoval ==
  ASSUME NEW H \in SUBSET Slots, NEW q, Lists(q, H), NEW p \in 1 .. Len(q),
         NEW l \in Lists2Way, Linked(l, q)
  PROVE  /\ Unlink(l, q[p]) \in Lists2Way
         /\ Linked(Unlink(l, q[p]), RemoveFirst(q, q[p]))
  <1> DEFINE n == Len(q)
             s == q[p]
             r == RemoveFirst(q, s)
             u == Unlink(l, s)
  <1>1. q \in Seq(Slots) /\ n \in Nat /\ Npos \notin Slots
    BY LenProperties, SlotsAssumption DEF Lists
  <1>2. \A i, j \in 1 .. n : q[i] = q[j] => i = j
    BY Zenon DEF Lists, Distinct
  <1>3. \A i \in 1 .. n : q[i] \in Slots /\ q[i] # Npos
    BY <1>1, ElementOfSeq
  <1>4. /\ Len(r) = n - 1
        /\ \A i \in 1 .. n - 1 : r[i] = IF i < p THEN q[i] ELSE q[i + 1]
    BY ListsRemoveFirst
  <1> HIDE DEF r
  <1>5. /\ l.prev \in [Slots -> SlotOrNone] /\ l.next \in [Slots -> SlotOrNone]
        /\ l.head \in SlotOrNone /\ l.tail \in SlotOrNone
    BY DEF Lists2Way
  <1>6. /\ l.head = q[1] /\ l.tail = q[n]
        /\ \A i \in 1 .. n :
             /\ l.next[q[i]] = IF i = n THEN Npos ELSE q[i + 1]
             /\ l.prev[q[i]] = IF i = 1 THEN Npos ELSE q[i - 1]
    BY <1>1 DEF Linked
  <1>7. /\ u.prev = [RelinkedPrev(l, s) EXCEPT ![s] = Npos]
        /\ u.next = [RelinkedNext(l, s) EXCEPT ![s] = Npos]
        /\ u.head = (IF l.prev[s] = Npos THEN l.next[s] ELSE l.head)
        /\ u.tail = (IF l.next[s] = Npos THEN l.prev[s] ELSE l.tail)
        /\ u = [prev |-> u.prev, next |-> u.next, head |-> u.head, tail |-> u.tail]
    BY DEF Unlink
  <1>8. s \in Slots /\ l.next[s] \in SlotOrNone /\ l.prev[s] \in SlotOrNone
    BY <1>3, <1>5
  <1>9. RelinkedNext(l, s) \in [Slots -> SlotOrNone] /\ RelinkedPrev(l, s) \in [Slots -> SlotOrNone]
    BY <1>5, <1>8 DEF RelinkedNext, RelinkedPrev
  <1>10. u \in Lists2Way
    <2>1. u.prev \in [Slots -> SlotOrNone] /\ u.next \in [Slots -> SlotOrNone]
      BY <1>7, <1>9 DEF SlotOrNone
    <2>2. u.head \in SlotOrNone /\ u.tail \in SlotOrNone
      BY <1>5, <1>7, <1>8
    <2> HIDE DEF u
    <2> QED  BY <1>7, <2>1, <2>2 DEF Lists2Way
  <1> HIDE DEF u
  (* What became of the neighbours of s.                                   *)
  <1>11. \A i \in 1 .. n : i # p =>
           u.next[q[i]] = IF i = p - 1 THEN l.next[s]
                          ELSE IF i = n THEN Npos ELSE q[i + 1]
    <2> SUFFICES ASSUME NEW i \in 1 .. n, i # p
                 PROVE  u.next[q[i]] = IF i = p - 1 THEN l.next[s]
                          ELSE IF i = n THEN Npos ELSE q[i + 1]
      OBVIOUS
    <2>1. q[i] # s /\ q[i] \in Slots
      BY <1>2, <1>3
    <2>2. u.next[q[i]] = RelinkedNext(l, s)[q[i]]
      BY <1>7, <1>9, <2>1
    <2>3. CASE p = 1
      <3>1. RelinkedNext(l, s) = l.next
        BY <1>6, <2>3 DEF RelinkedNext
      <3> QED  BY <1>1, <1>6, <2>2, <2>3, <3>1
    <2>4. CASE p # 1
      <3>1. p - 1 \in 1 .. n /\ l.prev[s] = q[p - 1] /\ q[p - 1] \in Slots /\ q[p - 1] # Npos
        BY <1>1, <1>3, <1>6, <2>4
      <3>2. RelinkedNext(l, s) = [l.next EXCEPT ![q[p - 1]] = l.next[s]]
        BY <3>1 DEF RelinkedNext
      <3>3. CASE i = p - 1
        BY <1>5, <2>2, <3>1, <3>2, <3>3
      <3>4. CASE i # p - 1
        <4>1. q[i] # q[p - 1]
          BY <1>2, <3>1, <3>4
        <4> QED  BY <1>5, <1>6, <2>1, <2>2, <3>2, <3>4, <4>1
      <3> QED  BY <3>3, <3>4
    <2> QED  BY <2>3, <2>4
  <1>12. \A i \in 1 .. n : i # p =>
           u.prev[q[i]] = IF i = p + 1 THEN l.prev[s]
                          ELSE IF i = 1 THEN Npos ELSE q[i - 1]
    <2> SUFFICES ASSUME NEW i \in 1 .. n, i # p
                 PROVE  u.prev[q[i]] = IF i = p + 1 THEN l.prev[s]
                          ELSE IF i = 1 THEN Npos ELSE q[i - 1]
      OBVIOUS
    <2>1. q[i] # s /\ q[i] \in Slots
      BY <1>2, <1>3
    <2>2. u.prev[q[i]] = RelinkedPrev(l, s)[q[i]]
      BY <1>7, <1>9, <2>1
    <2>3. CASE p = n
      <3>1. RelinkedPrev(l, s) = l.prev
        BY <1>6, <2>3 DEF RelinkedPrev
      <3> QED  BY <1>1, <1>6, <2>2, <2>3, <3>1
    <2>4. CASE p # n
      <3>1. p + 1 \in 1 .. n /\ l.next[s] = q[p + 1] /\ q[p + 1] \in Slots /\ q[p + 1] # Npos
        BY <1>1, <1>3, <1>6, <2>4
      <3>2. RelinkedPrev(l, s) = [l.prev EXCEPT ![q[p + 1]] = l.prev[s]]
        BY <3>1 DEF RelinkedPrev
      <3>3. CASE i = p + 1
        BY <1>5, <2>2, <3>1, <3>2, <3>3
      <3>4. CASE i # p + 1
        <4>1. q[i] # q[p + 1]
          BY <1>2, <3>1, <3>4
        <4> QED  BY <1>5, <1>6, <2>1, <2>2, <3>2, <3>4, <4>1
      <3> QED  BY <3>3, <3>4
    <2> QED  BY <2>3, <2>4
  <1>13. /\ l.next[s] = IF p = n THEN Npos ELSE q[p + 1]
         /\ l.prev[s] = IF p = 1 THEN Npos ELSE q[p - 1]
    BY <1>6
  <1>14. \A i \in 1 .. n - 1 : u.next[r[i]] = IF i = n - 1 THEN Npos ELSE r[i + 1]
    <2> SUFFICES ASSUME NEW i \in 1 .. n - 1
                 PROVE  u.next[r[i]] = IF i = n - 1 THEN Npos ELSE r[i + 1]
      OBVIOUS
    <2>1. i \in 1 .. n /\ i + 1 \in 1 .. n
      BY <1>1
    <2>2. CASE i < p
      <3>1. r[i] = q[i] /\ i # p
        BY <1>4, <2>2
      <3>2. CASE i = p - 1
        BY <1>1, <1>4, <1>11, <1>13, <2>1, <3>1, <3>2
      <3>3. CASE i # p - 1
        <4>1. u.next[r[i]] = q[i + 1]
          BY <1>1, <1>11, <2>1, <2>2, <3>1, <3>3
        <4>2. i # n - 1 /\ i + 1 \in 1 .. n - 1 /\ i + 1 < p
          BY <1>1, <2>2, <3>3
        <4> QED  BY <1>4, <4>1, <4>2
      <3> QED  BY <3>2, <3>3
    <2>3. CASE i >= p
      <3>1. r[i] = q[i + 1] /\ i + 1 # p /\ i + 1 # p - 1
        BY <1>1, <1>4, <2>3
      <3>2. u.next[r[i]] = IF i + 1 = n THEN Npos ELSE q[i + 2]
        BY <1>1, <1>11, <2>1, <3>1
      <3>3. CASE i = n - 1
        BY <1>1, <3>2, <3>3
      <3>4. CASE i # n - 1
        <4>1. i + 1 \in 1 .. n - 1 /\ i + 1 # n /\ ~(i + 1 < p)
          BY <1>1, <2>3, <3>4
        <4>2. r[i + 1] = q[i + 2]
          BY <1>1, <1>4, <4>1
        <4> QED  BY <3>2, <3>4, <4>1, <4>2
      <3> QED  BY <3>3, <3>4
    <2> QED  BY <1>1, <2>2, <2>3
  <1>15. \A i \in 1 .. n - 1 : u.prev[r[i]] = IF i = 1 THEN Npos ELSE r[i - 1]
    <2> SUFFICES ASSUME NEW i \in 1 .. n - 1
                 PROVE  u.prev[r[i]] = IF i = 1 THEN Npos ELSE r[i - 1]
      OBVIOUS
    <2>1. i \in 1 .. n /\ i + 1 \in 1 .. n
      BY <1>1
    <2>2. CASE i < p
      <3>1. r[i] = q[i] /\ i # p /\ i # p + 1
        BY <1>1, <1>4, <2>2
      <3>2. u.prev[r[i]] = IF i = 1 THEN Npos ELSE q[i - 1]
        BY <1>12, <2>1, <3>1
      <3>3. i # 1 => i - 1 \in 1 .. n - 1 /\ i - 1 < p
        BY <1>1, <2>2
      <3> QED  BY <1>4, <3>2, <3>3
    <2>3. CASE i = p
      <3>1. r[i] = q[i + 1] /\ i + 1 # p /\ i + 1 = p + 1
        BY <1>1, <1>4, <2>3
      <3>2. u.prev[r[i]] = l.prev[s]
        BY <1>12, <2>1, <3>1
      <3>3. i # 1 => i - 1 \in 1 .. n - 1 /\ i - 1 < p
        BY <1>1, <2>3
      <3> QED  BY <1>4, <1>13, <2>3, <3>2, <3>3
    <2>4. CASE i > p
      <3>1. r[i] = q[i + 1] /\ i + 1 # p /\ i + 1 # p + 1 /\ i + 1 # 1 /\ i # 1
        BY <1>1, <1>4, <2>4
      <3>2. u.prev[r[i]] = q[(i + 1) - 1]
        BY <1>12, <2>1, <3>1
      <3>3. i - 1 \in 1 .. n - 1 /\ ~(i - 1 < p)
        BY <1>1, <2>4
      <3>4. r[i - 1] = q[(i - 1) + 1]
        BY <1>4, <3>3
      <3>5. (i + 1) - 1 = (i - 1) + 1
        BY <1>1
      <3> QED  BY <3>1, <3>2, <3>4, <3>5
    <2> QED  BY <1>1, <2>2, <2>3, <2>4
  <1>16. u.head = IF n - 1 = 0 THEN Npos ELSE r[1]
    <2>1. CASE p = 1
      <3>1. n # 1 => r[1] = q[2]
        BY <1>1, <1>4, <2>1
      <3>2. u.head = IF n = 1 THEN Npos ELSE q[2]
        BY <1>7, <1>13, <2>1
      <3>3. n - 1 = 0 <=> n = 1
        BY <1>1
      <3> QED  BY <3>1, <3>2, <3>3
    <2>2. CASE p # 1
      <3>1. p - 1 \in 1 .. n /\ 1 \in 1 .. n - 1 /\ 1 < p
        BY <1>1, <2>2
      <3>2. r[1] = q[1] /\ n - 1 # 0
        BY <1>1, <1>4, <3>1
      <3>3. l.prev[s] # Npos
        BY <1>3, <1>13, <2>2, <3>1
      <3> QED  BY <1>6, <1>7, <3>2, <3>3
    <2> QED  BY <2>1, <2>2
  <1>17. u.tail = IF n - 1 = 0 THEN Npos ELSE r[n - 1]
    <2>1. CASE p = n
      <3>1. n # 1 => r[n - 1] = q[n - 1]
        BY <1>1, <1>4, <2>1
      <3>2. u.tail = IF n = 1 THEN Npos ELSE q[n - 1]
        BY <1>7, <1>13, <2>1
      <3>3. n - 1 = 0 <=> n = 1
        BY <1>1
      <3> QED  BY <3>1, <3>2, <3>3
    <2>2. CASE p # n
      <3>1. p + 1 \in 1 .. n /\ n - 1 \in 1 .. n - 1 /\ ~(n - 1 < p)
        BY <1>1, <2>2
      <3>2. r[n - 1] = q[(n - 1) + 1] /\ n - 1 # 0 /\ (n - 1) + 1 = n
        BY <1>1, <1>4, <3>1
      <3>3. l.next[s] # Npos
        BY <1>3, <1>13, <2>2, <3>1
      <3> QED  BY <1>6, <1>7, <3>2, <3>3
    <2> QED  BY <2>1, <2>2
  <1>18. Linked(u, r)
    BY <1>4, <1>14, <1>15, <1>16, <1>17 DEF Linked
  <1> QED  BY <1>10, <1>18 DEF u, r

(* lru_push_mru appends a slot that the list does not hold.                *)
LEMMA PushMruIsAppend ==
  ASSUME NEW H \in SUBSET Slots, NEW q, Lists(q, H),
         NEW l \in Lists2Way, Linked(l, q), NEW s \in Slots, s \notin H
  PROVE  /\ PushMru(l, s) \in Lists2Way
         /\ Linked(PushMru(l, s), Append(q, s))
  <1> DEFINE n == Len(q)
             r == Append(q, s)
             u == PushMru(l, s)
  <1>1. q \in Seq(Slots) /\ n \in Nat /\ Npos \notin Slots
    BY LenProperties, SlotsAssumption DEF Lists
  <1>2. \A i, j \in 1 .. n : q[i] = q[j] => i = j
    BY Zenon DEF Lists, Distinct
  <1>3. \A i \in 1 .. n : q[i] \in Slots /\ q[i] # Npos /\ q[i] # s
    <2>1. \A i \in 1 .. n : q[i] \in Slots
      BY <1>1, ElementOfSeq
    <2>2. \A t \in Slots : t \in H <=> \E i \in 1 .. n : q[i] = t
      BY DEF Lists
    <2> QED  BY <1>1, <2>1, <2>2
  <1>4. /\ Len(r) = n + 1 /\ r[n + 1] = s
        /\ \A i \in 1 .. n : r[i] = q[i]
    BY <1>1, AppendProperties
  <1> HIDE DEF r
  <1>5. /\ l.prev \in [Slots -> SlotOrNone] /\ l.next \in [Slots -> SlotOrNone]
        /\ l.head \in SlotOrNone /\ l.tail \in SlotOrNone
    BY DEF Lists2Way
  <1>6. /\ l.head = IF n = 0 THEN Npos ELSE q[1]
        /\ l.tail = IF n = 0 THEN Npos ELSE q[n]
        /\ \A i \in 1 .. n :
             /\ l.next[q[i]] = IF i = n THEN Npos ELSE q[i + 1]
             /\ l.prev[q[i]] = IF i = 1 THEN Npos ELSE q[i - 1]
    BY DEF Linked
  <1>7. /\ u.prev = [l.prev EXCEPT ![s] = l.tail]
        /\ u.next = (IF l.tail = Npos THEN [l.next EXCEPT ![s] = Npos]
                     ELSE [l.next EXCEPT ![s] = Npos, ![l.tail] = s])
        /\ u.head = (IF l.tail = Npos THEN s ELSE l.head)
        /\ u.tail = s
        /\ u = [prev |-> u.prev, next |-> u.next, head |-> u.head, tail |-> u.tail]
    BY DEF PushMru
  <1>8. l.tail = Npos <=> n = 0
    BY <1>1, <1>3, <1>6
  <1> HIDE DEF u
  <1>9. u \in Lists2Way
    <2>1. u.prev \in [Slots -> SlotOrNone] /\ u.next \in [Slots -> SlotOrNone]
      BY <1>5, <1>7 DEF SlotOrNone
    <2>2. u.head \in SlotOrNone /\ u.tail \in SlotOrNone
      BY <1>5, <1>7 DEF SlotOrNone
    <2> QED  BY <1>7, <2>1, <2>2 DEF Lists2Way
  <1>10. u.prev[s] = l.tail /\ u.next[s] = Npos
    <2>1. n # 0 => l.tail # s
      BY <1>1, <1>3, <1>6
    <2> QED  BY <1>5, <1>7, <1>8, <2>1
  <1>11. \A i \in 1 .. n : u.prev[q[i]] = l.prev[q[i]]
    BY <1>3, <1>5, <1>7
  <1>12. \A i \in 1 .. n : u.next[q[i]] = IF i = n THEN s ELSE l.next[q[i]]
    <2> SUFFICES ASSUME NEW i \in 1 .. n
                 PROVE  u.next[q[i]] = IF i = n THEN s ELSE l.next[q[i]]
      OBVIOUS
    <2>1. l.tail = q[n] /\ l.tail # Npos /\ q[n] \in Slots /\ n \in 1 .. n
      BY <1>1, <1>3, <1>6
    <2>2. u.next = [[l.next EXCEPT ![s] = Npos] EXCEPT ![q[n]] = s]
      BY <1>7, <2>1
    <2>3. i # n => q[i] # q[n]
      BY <1>2, <2>1
    <2> QED  BY <1>3, <1>5, <2>1, <2>2, <2>3
  <1>13. \A i \in 1 .. n + 1 :
           /\ u.next[r[i]] = IF i = n + 1 THEN Npos ELSE r[i + 1]
           /\ u.prev[r[i]] = IF i = 1 THEN Npos ELSE r[i - 1]
    <2> SUFFICES ASSUME NEW i \in 1 .. n + 1
                 PROVE  /\ u.next[r[i]] = IF i = n + 1 THEN Npos ELSE r[i + 1]
                        /\ u.prev[r[i]] = IF i = 1 THEN Npos ELSE r[i - 1]
      OBVIOUS
    <2>1. CASE i = n + 1
      <3>1. r[i] = s /\ (i # 1 => n \in 1 .. n /\ r[i - 1] = q[n]) /\ (i = 1 <=> n = 0)
        BY <1>1, <1>4, <2>1
      <3> QED  BY <1>6, <1>10, <2>1, <3>1
    <2>2. CASE i # n + 1
      <3>1. i \in 1 .. n /\ r[i] = q[i]
        BY <1>1, <1>4, <2>2
      <3>2. r[i + 1] = IF i = n THEN s ELSE q[i + 1]
        BY <1>1, <1>4, <3>1
      <3>3. i # 1 => r[i - 1] = q[i - 1]
        BY <1>1, <1>4, <3>1
      <3> QED  BY <1>6, <1>11, <1>12, <2>2, <3>1, <3>2, <3>3
    <2> QED  BY <2>1, <2>2
  <1>14. u.head = r[1]
    BY <1>1, <1>4, <1>6, <1>7, <1>8
  <1>15. n + 1 # 0
    BY <1>1
  <1>16. Linked(u, r)
    BY <1>4, <1>7, <1>13, <1>14, <1>15 DEF Linked
  <1> QED  BY <1>9, <1>16 DEF u, r

(* lru_move_to_mru takes the slot out of the order and appends it.         *)
LEMMA MoveToMruIsUse ==
  ASSUME NEW H \in SUBSET Slots, NEW q, Lists(q, H), NEW p \in 1 .. Len(q),
         NEW l \in Lists2Way, Linked(l, q)
  PROVE  /\ MoveToMru(l, q[p]) \in Lists2Way
         /\ Linked(MoveToMru(l, q[p]), Append(RemoveFirst(q, q[p]), q[p]))
         /\ Lists(Append(RemoveFirst(q, q[p]), q[p]), H)
         /\ Len(Append(RemoveFirst(q, q[p]), q[p])) = Len(q)
  <1> DEFINE s == q[p]
             r == RemoveFirst(q, s)
  <1>1. q \in Seq(Slots) /\ Len(q) \in Nat /\ s \in Slots /\ s \in H
    <2>1. q \in Seq(Slots) /\ Len(q) \in Nat
      BY LenProperties DEF Lists
    <2>2. s \in Slots
      BY <2>1, ElementOfSeq
    <2>3. s \in H
      BY <2>2 DEF Lists
    <2> QED  BY <2>1, <2>2, <2>3
  <1>2. /\ Lists(r, H \ {s}) /\ Len(r) = Len(q) - 1
        /\ \A i \in 1 .. Len(q) - 1 : r[i] = IF i < p THEN q[i] ELSE q[i + 1]
    BY ListsRemoveFirst
  <1>3. Unlink(l, s) \in Lists2Way /\ Linked(Unlink(l, s), r)
    BY UnlinkIsRemoval
  <1> DEFINE I == H \ {s}
  <1>4. I \in SUBSET Slots /\ s \notin I /\ I \cup {s} = H
    BY <1>1
  <1> HIDE DEF r, s
  <1>5. Lists(Append(r, s), H) /\ Len(Append(r, s)) = Len(q)
    <2>1. Lists(r, I)
      BY <1>2
    <2>2. Lists(Append(r, s), I \cup {s}) /\ Len(Append(r, s)) = Len(r) + 1
      BY <1>1, <1>4, <2>1, ListsAppend
    <2>3. Lists(Append(r, s), H)
      BY <1>4, <2>2, Zenon
    <2> QED  BY <1>1, <1>2, <2>2, <2>3
  <1>6. CASE l.tail = s
    <2>1. MoveToMru(l, s) = l
      BY <1>6 DEF MoveToMru
    <2>2. p = Len(q)
      <3>1. l.tail = q[Len(q)]
        BY <1>1 DEF Linked
      <3>2. Len(q) \in 1 .. Len(q)
        BY <1>1
      <3> QED  BY <1>6, <3>1, <3>2, Zenon DEF Lists, Distinct, s
    <2>3. r \in Seq(Slots) /\ Append(r, s) \in Seq(Slots)
      BY <1>2, <1>5 DEF Lists
    <2>4. \A i \in 1 .. Len(q) : Append(r, s)[i] = q[i]
      <3>1. Append(r, s)[Len(r) + 1] = s /\ \A i \in 1 .. Len(r) : Append(r, s)[i] = r[i]
        BY <1>1, <2>3, AppendProperties
      <3>2. s = q[p]
        BY DEF s
      <3> QED  BY <1>1, <1>2, <2>2, <3>1, <3>2
    <2>5. Append(r, s) = q
      BY <1>1, <1>5, <2>3, <2>4, SeqEqual
    <2> QED  BY <1>5, <2>1, <2>5 DEF s, r
  <1>7. CASE l.tail # s
    <2>1. MoveToMru(l, s) = PushMru(Unlink(l, s), s)
      BY <1>7 DEF MoveToMru
    <2>2. Lists(r, I)
      BY <1>2
    <2>3. /\ PushMru(Unlink(l, s), s) \in Lists2Way
          /\ Linked(PushMru(Unlink(l, s), s), Append(r, s))
      BY <1>1, <1>3, <1>4, <2>2, PushMruIsAppend
    <2> QED  BY <1>5, <2>1, <2>3 DEF s, r
  <1> QED  BY <1>6, <1>7

-----------------------------------------------------------------------------
(* The storage.                                                            *)

(* A slot listed nowhere becomes the page of k.                            *)
LEMMA StoredSlot ==
  ASSUME NEW H \in SUBSET Slots, NEW list, NEW keys, NEW slots, NEW position, NEW ord,
         NEW owner \in [Slots -> Keys \cup {Npos}],
         Stored(list, keys, slots, position, ord, owner, H),
         NEW s \in Slots, s \notin H, NEW k \in Keys
  PROVE  Stored(PushMru(list, s), Append(keys, k), Append(slots, s),
                [position EXCEPT ![s] = Len(keys) + 1], Append(ord, s),
                [owner EXCEPT ![s] = k], H \cup {s})
  <1>1. /\ list \in Lists2Way /\ Linked(list, ord) /\ Lists(ord, H) /\ Lists(slots, H)
        /\ Len(ord) = Len(slots) /\ keys \in Seq(Keys)
        /\ position \in [Slots -> Nat \ {0}] /\ Indexed(keys, slots, position)
        /\ Owned(keys, slots, owner)
    BY DEF Stored
  <1>2. PushMru(list, s) \in Lists2Way /\ Linked(PushMru(list, s), Append(ord, s))
    BY <1>1, PushMruIsAppend
  <1>3. /\ Lists(Append(ord, s), H \cup {s}) /\ Len(Append(ord, s)) = Len(ord) + 1
    BY <1>1, ListsAppend
  <1>4. /\ Lists(Append(slots, s), H \cup {s}) /\ Len(Append(slots, s)) = Len(slots) + 1
    BY <1>1, ListsAppend
  <1> DEFINE n == Len(slots)
             q == Append(slots, s)
             w == Append(keys, k)
             at == [position EXCEPT ![s] = Len(keys) + 1]
             o == [owner EXCEPT ![s] = k]
  <1>5. slots \in Seq(Slots) /\ n \in Nat /\ Len(keys) = n
    BY <1>1, LenProperties DEF Lists, Indexed
  <1>6. /\ q[n + 1] = s /\ \A i \in 1 .. n : q[i] = slots[i]
    BY <1>5, AppendProperties
  <1>7. /\ w \in Seq(Keys) /\ Len(w) = n + 1 /\ w[n + 1] = k
        /\ \A i \in 1 .. n : w[i] = keys[i]
    BY <1>1, <1>5, AppendProperties
  <1>8. \A i \in 1 .. n : slots[i] \in Slots /\ slots[i] # s
    <2>1. \A i \in 1 .. n : slots[i] \in Slots
      BY <1>5, ElementOfSeq
    <2>2. \A t \in Slots : t \in H <=> \E i \in 1 .. n : slots[i] = t
      BY <1>1 DEF Lists
    <2> QED  BY <2>1, <2>2
  <1>9. at \in [Slots -> Nat \ {0}] /\ at[s] = n + 1
    BY <1>1, <1>5
  <1>10. \A i \in 1 .. n : at[q[i]] = i /\ o[q[i]] = w[i]
    <2>1. \A i \in 1 .. n : position[slots[i]] = i
      BY <1>1 DEF Indexed
    <2> QED  BY <1>1, <1>6, <1>7, <1>8, <2>1 DEF Owned
  <1>11. o[s] = k
    OBVIOUS
  <1> HIDE DEF q, w, at, o
  <1>12. \A i \in 1 .. n + 1 : at[q[i]] = i /\ w[i] = o[q[i]]
    <2>1. \A i \in 1 .. n + 1 : i \in 1 .. n \/ i = n + 1
      BY <1>5
    <2> QED  BY <1>6, <1>7, <1>9, <1>10, <1>11, <2>1
  <1>13. Len(q) = n + 1
    BY <1>4 DEF q
  <1>14. Indexed(w, q, at)
    BY <1>7, <1>12, <1>13 DEF Indexed
  <1>15. Lists(q, H \cup {s}) /\ Len(Append(ord, s)) = Len(q)
    BY <1>1, <1>3, <1>4, <1>13 DEF q
  <1>16. Stored(PushMru(list, s), w, q, at, Append(ord, s), o, H \cup {s})
    BY <1>2, <1>3, <1>7, <1>9, <1>12, <1>13, <1>14, <1>15 DEF Stored, Owned
  <1> QED  BY <1>16 DEF q, w, at, o

(* What the records of the resident chunks are worth.                      *)
LEMMA HeldFacts ==
  ASSUME StorageInv
  PROVE  /\ Held \in SUBSET Slots
         /\ \A k \in Keys : Resident(k) => directory[k] \in Held
         /\ \A s \in Held : slot_key[s] \in Keys /\ directory[slot_key[s]] = s
         /\ \A k \in Keys : \A s \in Held : directory[k] = s <=> k = slot_key[s]
         /\ Npos \notin Slots
  BY SlotsAssumption DEF StorageInv, StorageTypeOK, DirectoryInv, Held, Resident, SlotOrNone

(* release_slot leaves every structure consistent without the slot.        *)
LEMMA ReleasedSlot ==
  ASSUME StorageInv, NEW s \in Held
  PROVE  LET r == Released(s) IN
         /\ r.directory = [directory EXCEPT ![slot_key[s]] = Npos]
         /\ Stored(r.list, r.keys, r.slots, r.position, r.order, slot_key, Held \ {s})
  <1> DEFINE i == slot_position[s]
             n == Len(resident_slots)
  <1>1. Held \in SUBSET Slots /\ s \in Slots
    BY HeldFacts
  <1>2. /\ List \in Lists2Way /\ Linked(List, order) /\ Lists(order, Held)
        /\ Lists(resident_slots, Held) /\ Len(order) = n
        /\ resident_keys \in Seq(Keys) /\ slot_position \in [Slots -> Nat \ {0}]
        /\ Indexed(resident_keys, resident_slots, slot_position)
        /\ Owned(resident_keys, resident_slots, slot_key)
    BY DEF StorageInv, Stored
  <1>3. PICK p \in 1 .. Len(order) : order[p] = s
    BY <1>1, <1>2 DEF Lists
  <1>4. i \in 1 .. n /\ resident_slots[i] = s
    <2>1. PICK j \in 1 .. n : resident_slots[j] = s
      BY <1>1, <1>2 DEF Lists
    <2>2. slot_position[resident_slots[j]] = j
      BY <1>2 DEF Indexed
    <2> QED  BY <2>1, <2>2
  <1>5. /\ Lists(RemoveFirst(order, s), Held \ {s})
        /\ Len(RemoveFirst(order, s)) = n - 1
    BY <1>1, <1>2, <1>3, ListsRemoveFirst
  <1>6. /\ Unlink(List, s) \in Lists2Way
        /\ Linked(Unlink(List, s), RemoveFirst(order, s))
    BY <1>1, <1>2, <1>3, UnlinkIsRemoval
  <1>7. Lists(SwapRemoved(resident_slots, i), Held \ {s})
    BY <1>1, <1>2, <1>4, ListsSwapRemoved
  <1>8. MovedPosition(s) = [slot_position EXCEPT ![resident_slots[Len(resident_slots)]] = i]
    BY DEF MovedPosition
  <1> HIDE DEF i
  <1>9. /\ SwapRemoved(resident_keys, i) \in Seq(Keys)
        /\ MovedPosition(s) \in [Slots -> Nat \ {0}]
        /\ Indexed(SwapRemoved(resident_keys, i), SwapRemoved(resident_slots, i), MovedPosition(s))
        /\ Len(SwapRemoved(resident_slots, i)) = n - 1
        /\ Owned(SwapRemoved(resident_keys, i), SwapRemoved(resident_slots, i), slot_key)
    <2> DEFINE moved == [slot_position EXCEPT ![resident_slots[Len(resident_slots)]] = i]
    <2>1. i \in 1 .. Len(resident_slots)
      BY <1>4
    <2>2. /\ SwapRemoved(resident_keys, i) \in Seq(Keys)
          /\ moved \in [Slots -> Nat \ {0}]
          /\ Indexed(SwapRemoved(resident_keys, i), SwapRemoved(resident_slots, i), moved)
          /\ Len(SwapRemoved(resident_slots, i)) = Len(resident_slots) - 1
          /\ Owned(SwapRemoved(resident_keys, i), SwapRemoved(resident_slots, i), slot_key)
      BY <1>1, <1>2, <2>1, IndexedSwapRemoved, Zenon
    <2> QED  BY <1>8, <2>2, Zenon
  <1>10. Stored(Unlink(List, s), SwapRemoved(resident_keys, i), SwapRemoved(resident_slots, i),
                MovedPosition(s), RemoveFirst(order, s), slot_key, Held \ {s})
    BY <1>5, <1>6, <1>7, <1>9 DEF Stored
  <1> QED  BY <1>10, Zenon DEF Released, i

(* r describes the slots H, without the key k.                             *)
Ready(r, k, H) ==
  /\ Stored(r.list, r.keys, r.slots, r.position, r.order, slot_key, H)
  /\ r.directory \in [Keys -> SlotOrNone]
  /\ r.directory[k] = Npos
  /\ \A j \in Keys : r.directory[j] \in {Npos, directory[j]}
  /\ \A t \in Slots : t \in H <=> \E j \in Keys : r.directory[j] = t

(* Materialize writes the slot into every structure that r describes.      *)
LEMMA MaterializedSlot ==
  ASSUME StorageInv, NEW k \in Keys, NEW H \in SUBSET Slots, NEW s \in Slots, s \notin H,
         NEW r, Materialize(k, s, r), Ready(r, k, H),
         Lists(free_slots', Slots \ (H \cup {s}))
  PROVE  /\ StorageInv'
         /\ Held' = H \cup {s}
         /\ slot_key'[s] = k /\ \A t \in H : slot_key'[t] = slot_key[t]
  <1> USE DEF Ready
  <1>1. /\ directory \in [Keys -> SlotOrNone] /\ slot_key \in [Slots -> Keys \cup {Npos}]
        /\ slot_generation \in [Slots -> Nat] /\ generation_clock \in Nat /\ DirectoryInv
    BY DEF StorageInv, StorageTypeOK
  <1>2. Npos \notin Slots /\ s # Npos
    BY SlotsAssumption
  <1>3. /\ slot_key' = [slot_key EXCEPT ![s] = k]
        /\ generation_clock' = generation_clock + 1
        /\ slot_generation' = [slot_generation EXCEPT ![s] = generation_clock + 1]
        /\ List' = PushMru(r.list, s)
        /\ slot_position' = [r.position EXCEPT ![s] = Len(r.keys) + 1]
        /\ resident_keys' = Append(r.keys, k)
        /\ resident_slots' = Append(r.slots, s)
        /\ directory' = [r.directory EXCEPT ![k] = s]
        /\ order' = Append(r.order, s)
    <2>1. PushMru(r.list, s) = [prev |-> PushMru(r.list, s).prev, next |-> PushMru(r.list, s).next,
                                head |-> PushMru(r.list, s).head, tail |-> PushMru(r.list, s).tail]
      BY DEF PushMru
    <2>2. List' = PushMru(r.list, s)
      BY <2>1, Zenon DEF Materialize, SetList, List
    <2> QED  BY <2>2 DEF Materialize
  <1>4. Held' = H \cup {s}
    <2>1. \A t \in Slots : t \in H \cup {s} <=> \E j \in Keys : directory'[j] = t
      <3> SUFFICES ASSUME NEW t \in Slots
                   PROVE  t \in H \cup {s} <=> \E j \in Keys : directory'[j] = t
        OBVIOUS
      <3>1. CASE t = s
        BY <1>3, <3>1
      <3>2. CASE t # s
        BY <1>2, <1>3, <3>2
      <3> QED  BY <3>1, <3>2
    <2> QED  BY <2>1 DEF Held
  <1>5. Stored(List, resident_keys, resident_slots, slot_position, order, slot_key, Held)'
    <2>1. Stored(List', resident_keys', resident_slots', slot_position', order', slot_key', H \cup {s})
      BY <1>1, <1>3, StoredSlot
    <2> QED  BY <1>4, <2>1
  <1>6. StorageTypeOK'
    BY <1>1, <1>3 DEF StorageTypeOK, SlotOrNone
  <1>7. DirectoryInv'
    <2> SUFFICES ASSUME NEW j \in Keys, directory'[j] # Npos
                 PROVE  /\ slot_key'[directory'[j]] = j
                        /\ slot_generation'[directory'[j]] \in 1 .. generation_clock'
      BY DEF DirectoryInv, Resident
    <2>1. CASE j = k
      BY <1>1, <1>3, <2>1
    <2>2. CASE j # k
      <3>1. directory'[j] = directory[j] /\ r.directory[j] = directory[j] /\ directory[j] # Npos
        BY <1>3, <2>2
      <3>2. directory[j] \in Slots /\ directory[j] # s
        BY <1>1, <3>1 DEF SlotOrNone
      <3>3. slot_key[directory[j]] = j /\ slot_generation[directory[j]] \in 1 .. generation_clock
        BY <1>1, <3>1 DEF DirectoryInv, Resident
      <3> QED  BY <1>1, <1>3, <3>1, <3>2, <3>3
    <2> QED  BY <2>1, <2>2
  <1>8. Lists(free_slots, Slots \ Held)'
    BY <1>4
  <1>9. slot_key'[s] = k /\ \A t \in H : slot_key'[t] = slot_key[t]
    BY <1>1, <1>3
  <1> QED  BY <1>4, <1>5, <1>6, <1>7, <1>8, <1>9 DEF StorageInv

(* All slots are free at first, each listed once.                          *)
LEMMA AllSlotsListed == Lists(SetToSeq(Slots), Slots)
  <1> DEFINE n == Cardinality(Slots)
             q == SetToSeq(Slots)
  <1>1. IsFiniteSet(Slots) /\ n \in Nat /\ ExistsBijection(1 .. n, Slots)
    BY SlotsAssumption, FS_CardinalityType
  <1>2. \E f \in [1 .. n -> Slots] : IsInjective(f)
    BY <1>1 DEF ExistsBijection, Bijection, Injection
  <1>3. q \in [1 .. n -> Slots] /\ IsInjective(q)
    BY <1>2 DEF SetToSeq
  <1> HIDE DEF q
  <1>4. q \in Seq(Slots) /\ Len(q) = n /\ DOMAIN q = 1 .. n
    BY <1>1, <1>3
  <1>5. Distinct(q)
    BY <1>3, <1>4 DEF Distinct, IsInjective
  <1>6. q \in Surjection(1 .. n, Slots)
    <2>1. q \in Injection(1 .. n, Slots)
      BY <1>3 DEF Injection
    <2>2. Cardinality(1 .. n) = n
      BY <1>1, FS_Interval
    <2> QED  BY <1>1, <2>1, <2>2, FS_Injection
  <1>7. \A t \in Slots : \E i \in 1 .. Len(q) : q[i] = t
    BY <1>4, <1>6 DEF Surjection
  <1> QED  BY <1>4, <1>5, <1>7 DEF Lists, q

(* The empty world satisfies the storage invariant.                        *)
LEMMA StorageStarts == Init => StorageInv
  <1> SUFFICES ASSUME Init PROVE StorageInv
    OBVIOUS
  <1>1. /\ directory = [k \in Keys |-> Npos] /\ slot_key = [s \in Slots |-> Npos]
        /\ slot_generation = [s \in Slots |-> 0] /\ generation_clock = 0
        /\ order = << >> /\ resident_slots = << >> /\ resident_keys = << >>
        /\ slot_position = [s \in Slots |-> 1] /\ free_slots = SetToSeq(Slots)
        /\ List = [prev |-> [s \in Slots |-> Npos], next |-> [s \in Slots |-> Npos],
                   head |-> Npos, tail |-> Npos]
    BY DEF Init, List
  <1>2. Held = {}
    BY <1>1, SlotsAssumption DEF Held
  <1>3. StorageTypeOK /\ DirectoryInv
    BY <1>1 DEF StorageTypeOK, DirectoryInv, Resident, SlotOrNone
  <1>4. Lists(<< >>, {})
    BY EmptySeq DEF Lists, Distinct
  <1>5. List \in Lists2Way
    BY <1>1 DEF Lists2Way, SlotOrNone
  <1>6. Linked(List, << >>)
    BY <1>1, EmptySeq DEF Linked
  <1>7. resident_keys \in Seq(Keys) /\ slot_position \in [Slots -> Nat \ {0}]
    BY <1>1, EmptySeq
  <1>8. Indexed(resident_keys, resident_slots, slot_position) /\ Owned(resident_keys, resident_slots, slot_key)
    BY <1>1, EmptySeq DEF Indexed, Owned
  <1>9. Stored(List, resident_keys, resident_slots, slot_position, order, slot_key, Held)
    BY <1>1, <1>2, <1>4, <1>5, <1>6, <1>7, <1>8 DEF Stored
  <1>10. Lists(free_slots, Slots \ Held)
    BY <1>1, <1>2, AllSlotsListed
  <1> QED  BY <1>3, <1>9, <1>10 DEF StorageInv

(* No storage variable changes in an operation on the metadata.            *)
LEMMA StorageUnchanged ==
  StorageInv /\ UNCHANGED storageVars => StorageInv'
  <1> SUFFICES ASSUME StorageInv, UNCHANGED storageVars PROVE StorageInv'
    OBVIOUS
  <1>1. UNCHANGED <<directory, slot_key, slot_generation, List, resident_keys, resident_slots,
                    slot_position, free_slots, generation_clock, order>>
    BY DEF storageVars, lruVars, residentVars, List
  <1>2. Held' = Held
    BY <1>1 DEF Held
  <1>3. StorageTypeOK' /\ DirectoryInv'
    BY <1>1 DEF StorageInv, StorageTypeOK, DirectoryInv, Resident
  <1> QED  BY <1>1, <1>2, <1>3 DEF StorageInv

(* ensure_resident and touch of a resident key keep the storage invariant. *)
LEMMA UseKeepsStorage ==
  ASSUME StorageInv, NEW k \in Keys, MoveKeyToMru(k)
  PROVE  StorageInv'
  <1> DEFINE s == directory[k]
  <1>1. s \in Held /\ Held \in SUBSET Slots
    BY HeldFacts DEF MoveKeyToMru
  <1>2. /\ List \in Lists2Way /\ Linked(List, order) /\ Lists(order, Held)
        /\ Len(order) = Len(resident_slots)
    BY DEF StorageInv, Stored
  <1>3. PICK p \in 1 .. Len(order) : order[p] = s
    BY <1>1, <1>2 DEF Lists
  <1>4. order' = Append(RemoveFirst(order, s), s)
    BY DEF MoveKeyToMru
  <1>5. List' = MoveToMru(List, s)
    <2>1. ASSUME NEW l \in Lists2Way
          PROVE  l = [prev |-> l.prev, next |-> l.next, head |-> l.head, tail |-> l.tail]
      BY DEF Lists2Way
    <2>2. MoveToMru(List, s) \in Lists2Way
      BY <1>1, <1>2, <1>3, MoveToMruIsUse
    <2>3. SetList(MoveToMru(List, s))
      BY DEF MoveKeyToMru
    <2> QED  BY <2>1, <2>2, <2>3, Zenon DEF SetList, List
  <1>6. /\ List' \in Lists2Way /\ Linked(List', order') /\ Lists(order', Held)
        /\ Len(order') = Len(order)
    BY <1>1, <1>2, <1>3, <1>4, <1>5, MoveToMruIsUse
  <1>7. UNCHANGED <<directory, slot_key, slot_generation, resident_keys, resident_slots,
                    slot_position, free_slots, generation_clock>>
    BY DEF MoveKeyToMru, residentVars
  <1>8. Held' = Held
    BY <1>7 DEF Held
  <1>9. StorageTypeOK' /\ DirectoryInv'
    BY <1>7 DEF StorageInv, StorageTypeOK, DirectoryInv, Resident
  <1>10. Stored(List', resident_keys, resident_slots, slot_position, order', slot_key, Held)
    <2>1. Stored(List, resident_keys, resident_slots, slot_position, order, slot_key, Held)
      BY DEF StorageInv
    <2> QED  BY <1>2, <1>6, <2>1 DEF Stored
  <1> QED  BY <1>7, <1>8, <1>9, <1>10 DEF StorageInv

(* evict keeps the storage invariant.                                      *)
LEMMA EvictKeepsStorage ==
  ASSUME StorageInv, NEW k \in Keys, Evict(k)
  PROVE  StorageInv'
  <1> DEFINE s == directory[k]
             r == Released(s)
  <1>1. s \in Held /\ Held \in SUBSET Slots /\ s \in Slots /\ slot_key[s] = k /\ Resident(k)
    BY HeldFacts DEF Evict
  <1>2. /\ r.directory = [directory EXCEPT ![k] = Npos]
        /\ Stored(r.list, r.keys, r.slots, r.position, r.order, slot_key, Held \ {s})
    BY <1>1, ReleasedSlot
  <1> HIDE DEF r
  <1>3. /\ directory' = r.directory /\ SetList(r.list) /\ resident_keys' = r.keys
        /\ resident_slots' = r.slots /\ slot_position' = r.position /\ order' = r.order
        /\ free_slots' = Append(free_slots, s)
        /\ UNCHANGED <<slot_key, slot_generation, generation_clock>>
    BY DEF Evict, r
  <1>4. List' = r.list
    <2>1. r.list = [prev |-> r.list.prev, next |-> r.list.next, head |-> r.list.head, tail |-> r.list.tail]
      BY <1>2 DEF Stored, Lists2Way
    <2> QED  BY <1>3, <2>1, Zenon DEF SetList, List
  <1>5. directory \in [Keys -> SlotOrNone] /\ Npos \notin Slots
    BY SlotsAssumption DEF StorageInv, StorageTypeOK
  <1>6. \A j \in Keys : directory'[j] = IF j = k THEN Npos ELSE directory[j]
    BY <1>2, <1>3, <1>5
  <1>7. Held' = Held \ {s}
    <2>1. \A t \in Slots : t \in Held \ {s} <=> \E j \in Keys : directory'[j] = t
      <3>1. \A t \in Held : \A j \in Keys : directory[j] = t <=> j = slot_key[t]
        BY HeldFacts
      <3>2. \A t \in Slots : t \in Held <=> \E j \in Keys : directory[j] = t
        BY DEF Held
      <3>3. \A t \in Held : t # s => slot_key[t] # k /\ slot_key[t] \in Keys /\ directory[slot_key[t]] = t
        BY HeldFacts
      <3> QED  BY <1>1, <1>5, <1>6, <3>1, <3>2, <3>3
    <2> QED  BY <2>1 DEF Held
  <1>8. Stored(List, resident_keys, resident_slots, slot_position, order, slot_key, Held)'
    BY <1>2, <1>3, <1>4, <1>7
  <1>9. StorageTypeOK'
    BY <1>2, <1>3, <1>5 DEF StorageInv, StorageTypeOK, SlotOrNone
  <1>10. DirectoryInv'
    BY <1>3, <1>6 DEF StorageInv, DirectoryInv, Resident
  <1>11. Lists(free_slots, Slots \ Held)'
    <2> DEFINE F == Slots \ Held
    <2>1. Lists(free_slots, F) /\ F \in SUBSET Slots /\ s \notin F
      BY <1>1 DEF StorageInv
    <2>2. Lists(Append(free_slots, s), F \cup {s})
      BY <1>1, <2>1, ListsAppend
    <2>3. F \cup {s} = Slots \ Held'
      BY <1>1, <1>7
    <2> QED  BY <1>3, <2>2, <2>3
  <1> QED  BY <1>8, <1>9, <1>10, <1>11 DEF StorageInv

(* What a materialization does to everything that it does not make.        *)
Materialized(k, s) ==
  /\ StorageInv'
  /\ s \in Slots
  /\ Held' = Held \cup {s}
  /\ directory'[k] = s
  /\ slot_generation'[s] = generation_clock + 1
  /\ generation_clock' = generation_clock + 1
  /\ \A j \in Keys : j # k => directory'[j] = IF directory[j] = s THEN Npos ELSE directory[j]
  /\ \A t \in Slots : t # s => slot_key'[t] = slot_key[t] /\ slot_generation'[t] = slot_generation[t]
  /\ meta' = [meta EXCEPT ![s] = FreshMeta]
  /\ marks' = [marks EXCEPT ![s] = {}]
  /\ UNCHANGED <<observation, changed_since, edits>>

(* ensure_resident of an absent key, with a free slot.                     *)
LEMMA FreeSlotMaterializes ==
  ASSUME StorageInv, NEW k \in Keys, ~Resident(k), MaterializeInFreeSlot(k)
  PROVE  \E s \in Slots : s \notin Held /\ Materialized(k, s) /\ order' = Append(order, s)
  <1> DEFINE s == free_slots[Len(free_slots)]
             r == NothingReleased
             F == Slots \ Held
  <1>1. /\ free_slots # << >> /\ free_slots' = WithoutLast(free_slots) /\ Materialize(k, s, r)
    BY DEF MaterializeInFreeSlot
  <1>2. Lists(free_slots, F) /\ F \in SUBSET Slots
    BY DEF StorageInv
  <1>3. Lists(free_slots', F \ {s}) /\ s \in F
    BY <1>1, <1>2, ListsWithoutLast
  <1>4. F \ {s} = Slots \ (Held \cup {s})
    OBVIOUS
  <1>5. s \in Slots /\ s \notin Held /\ Held \in SUBSET Slots
    BY <1>3, HeldFacts
  <1>6. Lists(free_slots', Slots \ (Held \cup {s}))
    BY <1>3, <1>4
  <1> HIDE DEF s
  <1>7. /\ r.directory = directory /\ r.order = order
        /\ Stored(r.list, r.keys, r.slots, r.position, r.order, slot_key, Held)
    BY DEF StorageInv, NothingReleased
  <1>8. \A t \in Slots : t \in Held <=> \E j \in Keys : r.directory[j] = t
    BY <1>7 DEF Held
  <1> HIDE DEF r, F
  <1>9. /\ r.directory \in [Keys -> SlotOrNone] /\ r.directory[k] = Npos
        /\ \A j \in Keys : r.directory[j] \in {Npos, directory[j]}
        /\ slot_key \in [Slots -> Keys \cup {Npos}] /\ slot_generation \in [Slots -> Nat]
    BY <1>7 DEF StorageInv, StorageTypeOK, Resident
  <1>10. StorageInv' /\ Held' = Held \cup {s}
    <2>1. Ready(r, k, Held)
      BY <1>7, <1>8, <1>9 DEF Ready
    <2> QED  BY <1>1, <1>5, <1>6, <2>1, MaterializedSlot
  <1>11. \A j \in Keys : directory[j] # s
    BY <1>5 DEF Held
  <1>12. Materialized(k, s)
    BY <1>1, <1>5, <1>7, <1>9, <1>10, <1>11 DEF Materialize, Materialized
  <1>13. order' = Append(order, s)
    BY <1>1, <1>7 DEF Materialize
  <1> QED  BY <1>5, <1>12, <1>13

(* ensure_resident of an absent key, with no slot free: all slots are held *)
(* and the least recently used one is taken.                               *)
LEMMA VictimMaterializes ==
  ASSUME StorageInv, NEW k \in Keys, ~Resident(k), MaterializeInVictim(k)
  PROVE  /\ Held = Slots /\ Victim \in Slots /\ Materialized(k, Victim)
         /\ 1 \in 1 .. Len(order) /\ Victim = order[1]
         /\ order' = Append(RemoveFirst(order, Victim), Victim)
  <1> DEFINE s == Victim
             r == Released(s)
  <1>1. /\ free_slots = << >> /\ UNCHANGED free_slots /\ Materialize(k, s, r)
    BY DEF MaterializeInVictim
  <1>2. Held = Slots
    <2>1. Lists(<< >>, Slots \ Held)
      BY <1>1 DEF StorageInv
    <2>2. \A t \in Slots : t \notin Slots \ Held
      BY <2>1 DEF Lists
    <2> QED  BY <2>2 DEF Held
  <1>3. s = order[1] /\ 1 \in 1 .. Len(order) /\ s \in Slots
    <2>1. Linked(List, order) /\ Lists(order, Held)
      BY DEF StorageInv, Stored
    <2>2. PICK t : t \in Slots
      BY SlotsAssumption
    <2>3. PICK i \in 1 .. Len(order) : order[i] = t
      BY <1>2, <2>1, <2>2 DEF Lists
    <2>4. order \in Seq(Slots) /\ Len(order) \in Nat
      BY <2>1, LenProperties DEF Lists
    <2>5. 1 \in 1 .. Len(order) /\ Len(order) # 0
      BY <2>3, <2>4
    <2>6. s = order[1]
      BY <2>1, <2>5 DEF Linked, List, Victim
    <2> QED  BY <2>4, <2>5, <2>6, ElementOfSeq
  <1> HIDE DEF s
  <1>4. /\ r.directory = [directory EXCEPT ![slot_key[s]] = Npos]
        /\ Stored(r.list, r.keys, r.slots, r.position, r.order, slot_key, Held \ {s})
    BY <1>2, <1>3, ReleasedSlot
  <1>5. r.order = RemoveFirst(order, s)
    BY DEF Released
  <1> HIDE DEF r
  <1> DEFINE H == Held \ {s}
  <1>6. directory \in [Keys -> SlotOrNone] /\ Npos \notin Slots
        /\ slot_key \in [Slots -> Keys \cup {Npos}] /\ slot_generation \in [Slots -> Nat]
    BY SlotsAssumption DEF StorageInv, StorageTypeOK
  <1>7. slot_key[s] \in Keys /\ directory[slot_key[s]] = s
        /\ \A j \in Keys : directory[j] = s <=> j = slot_key[s]
    BY <1>2, <1>3, HeldFacts
  <1>8. \A j \in Keys : r.directory[j] = IF directory[j] = s THEN Npos ELSE directory[j]
    BY <1>4, <1>6, <1>7
  <1>9. /\ r.directory \in [Keys -> SlotOrNone]
        /\ r.directory[k] = Npos
        /\ \A j \in Keys : r.directory[j] \in {Npos, directory[j]}
    BY <1>4, <1>6, <1>8 DEF Resident, SlotOrNone
  <1>10. \A t \in Slots : t \in H <=> \E j \in Keys : r.directory[j] = t
    <2>1. \A t \in Slots : t \in Held <=> \E j \in Keys : directory[j] = t
      BY DEF Held
    <2> QED  BY <1>3, <1>6, <1>8, <2>1
  <1>11. H \in SUBSET Slots /\ s \notin H /\ H \cup {s} = Slots
    BY <1>2, <1>3
  <1>12. Lists(free_slots', Slots \ (H \cup {s}))
    BY <1>1, <1>2, <1>11 DEF StorageInv
  <1>13. Stored(r.list, r.keys, r.slots, r.position, r.order, slot_key, H)
    BY <1>4
  <1> HIDE DEF H
  <1>14. StorageInv' /\ Held' = H \cup {s}
    <2>1. Ready(r, k, H)
      BY <1>9, <1>10, <1>13 DEF Ready
    <2> QED  BY <1>1, <1>3, <1>11, <1>12, <2>1, MaterializedSlot
  <1>15. Held' = Held \cup {s}
    BY <1>2, <1>3, <1>11, <1>14
  <1>16. Materialized(k, s)
    BY <1>1, <1>3, <1>6, <1>8, <1>9, <1>14, <1>15 DEF Materialize, Materialized
  <1>17. order' = Append(RemoveFirst(order, s), s)
    BY <1>1, <1>5 DEF Materialize
  <1> QED  BY <1>2, <1>3, <1>16, <1>17 DEF s

-----------------------------------------------------------------------------
(* The metadata of one chunk.                                              *)

LEMMA MarkDirtyFacts ==
  ASSUME NEW m \in Metas, NEW mask \in SUBSET Flags, mask # {}, NEW t \in Positions
  PROVE  LET w == MarkDirty(m, mask, TileBox(t)) IN
         /\ w \in Metas
         /\ w.content_version = m.content_version + 1
         /\ w.dirty = m.dirty \cup mask
         /\ w.bounds.lo <= t /\ t < w.bounds.end
         /\ m.dirty # {} => w.bounds.lo <= m.bounds.lo /\ m.bounds.end <= w.bounds.end
  <1> DEFINE w == MarkDirty(m, mask, TileBox(t))
             b == DirtyBounds(m, mask, TileBox(t))
  <1>1. /\ m.content_version \in Nat /\ m.topology_version \in Nat /\ m.dirty \in SUBSET Flags
        /\ m.active \in SUBSET Actives /\ m.bounds \in Boxes
    BY DEF Metas
  <1>2. m.bounds.lo \in Nat /\ m.bounds.end \in Nat /\ t \in Nat
    BY <1>1, PositionsAssumption DEF Boxes
  <1>3. TileBox(t) = [lo |-> t, end |-> t + 1]
    BY DEF TileBox
  <1>4. /\ b \in Boxes
        /\ b.lo <= t /\ t < b.end
        /\ m.dirty # {} => b.lo <= m.bounds.lo /\ m.bounds.end <= b.end
    <2>1. CASE m.dirty = {}
      <3>1. b = [lo |-> t, end |-> t + 1]
        BY <1>3, <2>1 DEF DirtyBounds
      <3> QED  BY <1>2, <2>1, <3>1 DEF Boxes
    <2>2. CASE m.dirty # {}
      <3>1. /\ b.lo = (IF m.bounds.lo < t THEN m.bounds.lo ELSE t)
            /\ b.end = (IF m.bounds.end < t + 1 THEN t + 1 ELSE m.bounds.end)
            /\ b = [lo |-> b.lo, end |-> b.end]
        BY <1>3, <2>2 DEF DirtyBounds, UnionBox
      <3> HIDE DEF b
      <3>2. b.lo \in Nat /\ b.end \in Nat
        BY <1>2, <3>1
      <3>3. b \in Boxes
        BY <3>1, <3>2 DEF Boxes
      <3> QED  BY <1>2, <3>1, <3>3
    <2> QED  BY <2>1, <2>2
  <1> HIDE DEF b
  <1>5. m = [content_version |-> m.content_version, topology_version |-> m.topology_version,
             dirty |-> m.dirty, active |-> m.active, bounds |-> m.bounds]
    BY DEF Metas
  <1>6. w = [content_version |-> m.content_version + 1, topology_version |-> m.topology_version,
             dirty |-> m.dirty \cup mask, active |-> m.active, bounds |-> b]
    BY <1>5 DEF MarkDirty, NextVersion, b
  <1> HIDE DEF w
  <1>7. m.dirty \cup mask \in SUBSET Flags /\ m.content_version + 1 \in Nat
    BY <1>1
  <1>8. w \in Metas
    BY <1>1, <1>4, <1>6, <1>7 DEF Metas
  <1>9. /\ w.content_version = m.content_version + 1 /\ w.dirty = m.dirty \cup mask
        /\ w.bounds = b
    BY <1>6
  <1> QED  BY <1>4, <1>8, <1>9 DEF w

(* ClearDirty drops the flags of its mask, and the bounds only with the    *)
(* last flag.                                                              *)
LEMMA ClearDirtyFacts ==
  ASSUME NEW m \in Metas, NEW mask \in SUBSET Flags
  PROVE  LET w == ClearDirty(m, mask) IN
         /\ w \in Metas
         /\ w.content_version = m.content_version
         /\ w.dirty = m.dirty \ mask
         /\ ~(m.dirty \subseteq mask) => w.bounds = m.bounds
  <1> DEFINE w == ClearDirty(m, mask)
             b == IF m.dirty \subseteq mask THEN NoBox ELSE m.bounds
  <1>1. /\ m.content_version \in Nat /\ m.topology_version \in Nat /\ m.dirty \in SUBSET Flags
        /\ m.active \in SUBSET Actives /\ m.bounds \in Boxes
    BY DEF Metas
  <1>2. m = [content_version |-> m.content_version, topology_version |-> m.topology_version,
             dirty |-> m.dirty, active |-> m.active, bounds |-> m.bounds]
    BY DEF Metas
  <1>3. b \in Boxes
    BY <1>1 DEF Boxes, NoBox
  <1>4. CASE mask = {}
    BY <1>4 DEF ClearDirty
  <1>5. CASE mask # {}
    <2>1. w = [content_version |-> m.content_version, topology_version |-> m.topology_version,
               dirty |-> m.dirty \ mask, active |-> m.active, bounds |-> b]
      BY <1>2, <1>5 DEF ClearDirty
    <2> HIDE DEF w
    <2>2. m.dirty \ mask \in SUBSET Flags
      BY <1>1
    <2>3. w \in Metas
      BY <1>1, <1>3, <2>1, <2>2 DEF Metas
    <2>4. w.content_version = m.content_version /\ w.dirty = m.dirty \ mask /\ w.bounds = b
      BY <2>1
    <2> QED  BY <2>3, <2>4 DEF w
  <1> QED  BY <1>4, <1>5

-----------------------------------------------------------------------------
(* Marks and observations.                                                 *)

(* A step that leaves the metadata alone and at most takes chunks away.    *)
LEMMA MetaKept ==
  ASSUME StorageInv, StorageInv', MetaInv,
         UNCHANGED <<slot_generation, generation_clock, meta, observation, changed_since, marks, edits>>,
         \A j \in Keys : directory'[j] # Npos => directory'[j] = directory[j]
  PROVE  MetaInv'
  <1>1. MetaTypeOK' /\ MarksInv'
    BY DEF MetaInv, MetaTypeOK, MarksInv
  <1>2. ObserversInv'
    <2> SUFFICES ASSUME NEW o \in Observers
                 PROVE  /\ observation'[o].seen.generation <= generation_clock'
                        /\ Follows(o)'
      BY DEF ObserversInv
    <2> DEFINE k == observation[o].key
    <2>1. k \in Keys \cup {Npos} /\ Follows(o) /\ observation[o].seen.generation <= generation_clock
      BY DEF MetaInv, MetaTypeOK, ObserversInv
    <2>2. Follows(o)'
      BY <2>1 DEF Follows, Resident, Generation
    <2> QED  BY <2>1, <2>2
  <1> QED  BY <1>1, <1>2 DEF MetaInv

(* A slot that gets a chunk starts with fresh metadata, under a generation *)
(* no observation has.                                                     *)
LEMMA MetaMaterialized ==
  ASSUME StorageInv, MetaInv, NEW k \in Keys, NEW s \in Slots, Materialized(k, s)
  PROVE  MetaInv'
  <1>1. /\ meta' = [meta EXCEPT ![s] = FreshMeta] /\ marks' = [marks EXCEPT ![s] = {}]
        /\ UNCHANGED <<observation, changed_since, edits>>
        /\ directory'[k] = s /\ slot_generation'[s] = generation_clock + 1
        /\ generation_clock' = generation_clock + 1 /\ generation_clock \in Nat
    BY DEF Materialized, StorageInv, StorageTypeOK
  <1>2. MetaTypeOK
    BY DEF MetaInv
  <1>3. FreshMeta \in Metas
    BY DEF FreshMeta, Metas, NoBox, Boxes
  <1>4. MetaTypeOK'
    <2>1. meta' \in [Slots -> Metas]
      BY <1>1, <1>2, <1>3 DEF MetaTypeOK
    <2>2. marks' \in [Slots -> SUBSET (Flags \X Positions)]
      BY <1>1, <1>2 DEF MetaTypeOK
    <2> QED  BY <1>1, <1>2, <2>1, <2>2 DEF MetaTypeOK
  <1>5. MarksInv'
    <2> SUFFICES ASSUME NEW t \in Slots, NEW x \in marks'[t]
                 PROVE  /\ x[1] \in meta'[t].dirty
                        /\ meta'[t].bounds.lo <= x[2] /\ x[2] < meta'[t].bounds.end
      BY DEF MarksInv, Inside
    <2>1. t # s
      BY <1>1, <1>2 DEF MetaTypeOK
    <2>2. meta'[t] = meta[t] /\ marks'[t] = marks[t]
      BY <1>1, <1>2, <2>1 DEF MetaTypeOK
    <2> QED  BY <2>2 DEF MetaInv, MarksInv, Inside
  <1>6. ObserversInv'
    <2> SUFFICES ASSUME NEW o \in Observers
                 PROVE  /\ observation'[o].seen.generation <= generation_clock'
                        /\ Follows(o)'
      BY DEF ObserversInv
    <2> DEFINE j == observation[o].key
               g == observation[o].seen.generation
    <2>1. g \in Nat /\ j \in Keys \cup {Npos}
      BY <1>2 DEF MetaTypeOK, Seen
    <2>2. Follows(o) /\ g <= generation_clock
      BY DEF MetaInv, ObserversInv
    <2>3. SUFFICES ASSUME j # Npos, directory'[j] # Npos, slot_generation'[directory'[j]] = g
                   PROVE  /\ observation[o].seen.content_version <= meta'[directory'[j]].content_version
                          /\ changed_since[o] =>
                               observation[o].seen.content_version # meta'[directory'[j]].content_version
      BY <1>1, <2>1, <2>2 DEF Follows, Resident, Generation
    <2>4. j \in Keys /\ j # k
      BY <1>1, <2>1, <2>2, <2>3
    <2>5. directory'[j] = directory[j] /\ directory[j] # s /\ directory[j] # Npos
      BY <2>3, <2>4 DEF Materialized
    <2>6. directory[j] \in Slots
      BY <2>4, <2>5 DEF StorageInv, StorageTypeOK, SlotOrNone
    <2>7. slot_generation[directory[j]] = g
      BY <2>3, <2>5, <2>6 DEF Materialized
    <2>8. meta'[directory[j]] = meta[directory[j]]
      BY <1>1, <1>2, <2>5, <2>6 DEF MetaTypeOK
    <2> QED  BY <2>2, <2>3, <2>5, <2>7, <2>8 DEF Follows, Resident, Generation
  <1> QED  BY <1>4, <1>5, <1>6 DEF MetaInv

(* An edit gives one chunk the metadata m, whose version is not smaller,   *)
(* and is larger if it tells an observer.                                  *)
EditedTo(k, m) ==
  /\ Resident(k)
  /\ m \in Metas
  /\ meta' = [meta EXCEPT ![directory[k]] = m]
  /\ meta[directory[k]].content_version <= m.content_version
  /\ \/ UNCHANGED changed_since
     \/ /\ ContentChanged(k)
        /\ meta[directory[k]].content_version < m.content_version
  /\ UNCHANGED <<storageVars, observation>>

(* An edit that tells the observers raises the content version they        *)
(* compare.                                                                *)
LEMMA ObserversAfterEdit ==
  ASSUME StorageInv, MetaInv, NEW k \in Keys, NEW m, EditedTo(k, m)
  PROVE  /\ ObserversInv'
         /\ meta' \in [Slots -> Metas]
         /\ changed_since' \in [Observers -> BOOLEAN]
  <1> DEFINE s == directory[k]
  <1>1. /\ MetaTypeOK /\ directory \in [Keys -> SlotOrNone] /\ s # Npos /\ s \in Slots
        /\ \A j \in Keys : j # k => directory[j] # s
    BY HeldFacts DEF MetaInv, StorageInv, StorageTypeOK, EditedTo, Resident
  <1>2. meta' \in [Slots -> Metas]
    BY <1>1 DEF EditedTo, MetaTypeOK
  <1>3. changed_since' \in [Observers -> BOOLEAN]
    BY <1>1 DEF EditedTo, ContentChanged, MetaTypeOK
  <1>4. UNCHANGED <<directory, slot_generation, generation_clock, observation>>
    BY DEF EditedTo, storageVars
  <1>5. ObserversInv'
    <2> SUFFICES ASSUME NEW o \in Observers
                 PROVE  /\ observation'[o].seen.generation <= generation_clock'
                        /\ Follows(o)'
      BY DEF ObserversInv
    <2> DEFINE j == observation[o].key
               v == observation[o].seen.content_version
    <2>1. v \in Nat /\ j \in Keys \cup {Npos}
      BY <1>1 DEF MetaTypeOK, Seen
    <2>2. Follows(o) /\ observation[o].seen.generation <= generation_clock
      BY DEF MetaInv, ObserversInv
    <2>3. SUFFICES ASSUME j # Npos, directory[j] # Npos,
                          slot_generation[directory[j]] = observation[o].seen.generation
                   PROVE  /\ v <= meta'[directory[j]].content_version
                          /\ changed_since'[o] => v # meta'[directory[j]].content_version
      BY <1>4, <2>2 DEF Follows, Resident, Generation
    <2>4. /\ v <= meta[directory[j]].content_version
          /\ changed_since[o] => v # meta[directory[j]].content_version
      BY <2>2, <2>3 DEF Follows, Resident, Generation
    <2>5. CASE j = k
      <3>1. meta'[s] = m /\ meta[s].content_version \in Nat /\ m.content_version \in Nat
        BY <1>1, <1>2 DEF EditedTo, MetaTypeOK, Metas
      <3>2. meta[s].content_version <= m.content_version
        BY DEF EditedTo
      <3>3. CASE UNCHANGED changed_since
        BY <2>1, <2>4, <2>5, <3>1, <3>2, <3>3
      <3>4. CASE meta[s].content_version < m.content_version
        BY <2>1, <2>4, <2>5, <3>1, <3>4
      <3> QED  BY <3>3, <3>4 DEF EditedTo
    <2>6. CASE j # k
      <3>1. directory[j] \in Slots /\ directory[j] # s
        BY <1>1, <2>1, <2>3, <2>6 DEF SlotOrNone
      <3>2. meta'[directory[j]] = meta[directory[j]]
        BY <1>1, <3>1 DEF EditedTo, MetaTypeOK
      <3>3. changed_since'[o] = changed_since[o]
        <4>1. changed_since[o] \in BOOLEAN
          BY <1>1 DEF MetaTypeOK
        <4> QED  BY <2>6, <4>1 DEF EditedTo, ContentChanged
      <3> QED  BY <2>4, <3>2, <3>3
    <2> QED  BY <2>5, <2>6
  <1> QED  BY <1>2, <1>3, <1>5

(* The marks of the other chunks stay where they are.                      *)
LEMMA MarksAfterEdit ==
  ASSUME StorageInv, MetaInv, NEW k \in Keys, NEW m, EditedTo(k, m),
         NEW X \in SUBSET (Flags \X Positions),
         marks' = [marks EXCEPT ![directory[k]] = X], edits' \in Nat,
         Inside(X, m)
  PROVE  MetaInv'
  <1> DEFINE s == directory[k]
  <1>1. MetaTypeOK /\ s \in Slots
    BY HeldFacts DEF MetaInv, EditedTo
  <1>2. /\ ObserversInv' /\ meta' \in [Slots -> Metas]
        /\ changed_since' \in [Observers -> BOOLEAN]
    BY ObserversAfterEdit
  <1>3. marks' \in [Slots -> SUBSET (Flags \X Positions)]
    BY <1>1 DEF MetaTypeOK
  <1>4. MetaTypeOK'
    BY <1>1, <1>2, <1>3 DEF MetaTypeOK, EditedTo
  <1>5. MarksInv'
    <2> SUFFICES ASSUME NEW t \in Slots, NEW x \in marks'[t]
                 PROVE  /\ x[1] \in meta'[t].dirty
                        /\ meta'[t].bounds.lo <= x[2] /\ x[2] < meta'[t].bounds.end
      BY DEF MarksInv, Inside
    <2>1. CASE t = s
      <3>1. marks'[t] = X /\ meta'[t] = m
        BY <1>1, <2>1 DEF MetaTypeOK, EditedTo
      <3> QED  BY <3>1 DEF Inside
    <2>2. CASE t # s
      <3>1. marks'[t] = marks[t] /\ meta'[t] = meta[t]
        BY <1>1, <2>2 DEF MetaTypeOK, EditedTo
      <3> QED  BY <3>1 DEF MetaInv, MarksInv, Inside
    <2> QED  BY <2>1, <2>2
  <1> QED  BY <1>2, <1>4, <1>5 DEF MetaInv

(* What an edit of k starts from.                                          *)
LEMMA EditFacts ==
  ASSUME StorageInv, MetaInv, NEW k \in Keys, Edit(k)
  PROVE  /\ Resident(k) /\ directory[k] \in Slots /\ edits' \in Nat
         /\ meta[directory[k]] \in Metas
         /\ meta[directory[k]].content_version \in Nat
         /\ marks[directory[k]] \in SUBSET (Flags \X Positions)
         /\ marks = [marks EXCEPT ![directory[k]] = marks[directory[k]]]
         /\ Generation(k) \in Nat /\ Generation(k) <= generation_clock
         /\ Inside(marks[directory[k]], meta[directory[k]])
  <1> DEFINE s == directory[k]
  <1>1. Resident(k) /\ edits' = edits + 1
    BY DEF Edit
  <1>2. s \in Slots
    BY <1>1, HeldFacts
  <1>3. MetaTypeOK /\ MarksInv
    BY DEF MetaInv
  <1>4. edits' \in Nat /\ meta[s] \in Metas /\ marks[s] \in SUBSET (Flags \X Positions)
        /\ marks = [marks EXCEPT ![s] = marks[s]]
    BY <1>1, <1>2, <1>3 DEF MetaTypeOK
  <1>5. meta[s].content_version \in Nat
    BY <1>4 DEF Metas
  <1>6. slot_generation[s] \in Nat /\ slot_generation[s] <= generation_clock
    BY <1>1, <1>2 DEF StorageInv, StorageTypeOK, DirectoryInv
  <1>7. Generation(k) = slot_generation[s]
    BY <1>1 DEF Generation
  <1>8. Inside(marks[s], meta[s])
    BY <1>2, <1>3 DEF MarksInv
  <1> QED  BY <1>1, <1>2, <1>4, <1>5, <1>6, <1>7, <1>8

(* w is m with a mark at t.                                                *)
Marked(w, m, mask, t) ==
  /\ w.dirty = m.dirty \cup mask
  /\ w.bounds \in Boxes
  /\ w.bounds.lo <= t
  /\ t < w.bounds.end
  /\ m.dirty # {} => w.bounds.lo <= m.bounds.lo /\ m.bounds.end <= w.bounds.end

(* It joins the old marks, all inside the bounds of w.                     *)
LEMMA MarksJoin ==
  ASSUME NEW m \in Metas, NEW w, NEW mask \in SUBSET Flags, NEW t \in Positions,
         Marked(w, m, mask, t),
         NEW Y \in SUBSET (Flags \X Positions), Inside(Y, m)
  PROVE  /\ Y \cup (mask \X {t}) \in SUBSET (Flags \X Positions)
         /\ Inside(Y \cup (mask \X {t}), w)
  <1> USE DEF Marked, Inside
  <1>1. /\ m.bounds.lo \in Nat /\ m.bounds.end \in Nat /\ w.bounds.lo \in Nat /\ w.bounds.end \in Nat
    BY DEF Metas, Boxes
  <1>2. Y \cup (mask \X {t}) \in SUBSET (Flags \X Positions)
    OBVIOUS
  <1>3. ASSUME NEW x \in Y
        PROVE  x[1] \in w.dirty /\ w.bounds.lo <= x[2] /\ x[2] < w.bounds.end
    <2>1. x[2] \in Nat
      BY PositionsAssumption
    <2>2. x[1] \in m.dirty /\ m.bounds.lo <= x[2] /\ x[2] < m.bounds.end
      OBVIOUS
    <2> QED  BY <1>1, <2>1, <2>2
  <1>4. ASSUME NEW x \in mask \X {t}
        PROVE  x[1] \in w.dirty /\ w.bounds.lo <= x[2] /\ x[2] < w.bounds.end
    <2>1. x[1] \in mask /\ x[2] = t
      OBVIOUS
    <2> QED  BY <2>1
  <1> QED  BY <1>2, <1>3, <1>4

(* mark_dirty and mark_topology_dirty keep the metadata invariant.         *)
LEMMA MarkDirtyKeeps ==
  ASSUME StorageInv, MetaInv, NEW k \in Keys, NEW mask \in Masks, NEW t \in Positions,
         MarkChunkDirty(k, mask, t) \/ MarkTopologyDirty(k, mask, t)
  PROVE  MetaInv'
  <1> DEFINE s == directory[k]
             m == meta[s]
             w == MarkDirty(m, mask, TileBox(t))
             X == marks[s] \cup (mask \X {t})
  <1>1. /\ Edit(k) /\ ContentChanged(k) /\ MarksAdded(k, mask, t)
        /\ UNCHANGED <<storageVars, observation>>
    BY DEF MarkChunkDirty, MarkTopologyDirty
  <1>2. /\ Resident(k) /\ s \in Slots /\ edits' \in Nat /\ m \in Metas /\ m.content_version \in Nat
        /\ marks[s] \in SUBSET (Flags \X Positions)
        /\ Inside(marks[s], m)
    BY <1>1, EditFacts
  <1>3. mask \in SUBSET Flags /\ mask # {}
    BY DEF Masks
  <1>4. /\ w \in Metas /\ w.content_version = m.content_version + 1 /\ w.dirty = m.dirty \cup mask
        /\ w.bounds.lo <= t /\ t < w.bounds.end
        /\ m.dirty # {} => w.bounds.lo <= m.bounds.lo /\ m.bounds.end <= w.bounds.end
    BY <1>2, <1>3, MarkDirtyFacts
  <1> HIDE DEF w, m
  <1>5. PICK v \in {w, [w EXCEPT !.topology_version = @ + 1]} : meta' = [meta EXCEPT ![s] = v]
    BY DEF MarkChunkDirty, MarkTopologyDirty, SetMeta, w, m
  <1>6. /\ v \in Metas /\ v.content_version = w.content_version
        /\ v.dirty = w.dirty /\ v.bounds = w.bounds
    BY <1>4, <1>5 DEF Metas
  <1>7. EditedTo(k, v)
    BY <1>1, <1>2, <1>4, <1>5, <1>6 DEF EditedTo, m
  <1>8. v.bounds \in Boxes
    BY <1>6 DEF Metas
  <1>9. X \in SUBSET (Flags \X Positions) /\ Inside(X, v)
    <2>1. Marked(v, m, mask, t)
      BY <1>4, <1>6, <1>8 DEF Marked
    <2> QED  BY <1>2, <1>3, <2>1, MarksJoin
  <1>10. marks' = [marks EXCEPT ![s] = X]
    BY <1>1 DEF MarksAdded
  <1> QED  BY <1>2, <1>7, <1>9, <1>10, MarksAfterEdit

(* clear_dirty keeps the metadata invariant.                               *)
LEMMA ClearDirtyKeeps ==
  ASSUME StorageInv, MetaInv, NEW k \in Keys, NEW mask \in SUBSET Flags, Edit(k),
         SetMeta(k, ClearDirty(meta[directory[k]], mask)), MarksCleared(k, mask),
         UNCHANGED <<storageVars, observation, changed_since>>
  PROVE  MetaInv'
  <1> DEFINE s == directory[k]
             m == meta[s]
             w == ClearDirty(m, mask)
             X == {x \in marks[s] : x[1] \notin mask}
  <1>1. /\ Resident(k) /\ s \in Slots /\ edits' \in Nat /\ m \in Metas /\ m.content_version \in Nat
        /\ marks[s] \in SUBSET (Flags \X Positions)
        /\ Inside(marks[s], m)
    BY EditFacts
  <1>2. /\ w \in Metas /\ w.content_version = m.content_version /\ w.dirty = m.dirty \ mask
        /\ ~(m.dirty \subseteq mask) => w.bounds = m.bounds
    BY <1>1, ClearDirtyFacts
  <1>3. meta' = [meta EXCEPT ![s] = w]
    BY DEF SetMeta
  <1> HIDE DEF w
  <1>4. EditedTo(k, w)
    BY <1>1, <1>2, <1>3 DEF EditedTo
  <1>5. X \in SUBSET (Flags \X Positions)
    BY <1>1
  <1>6. Inside(X, w)
    BY <1>1, <1>2 DEF Inside
  <1>7. marks' = [marks EXCEPT ![s] = X]
    BY DEF MarksCleared
  <1> QED  BY <1>1, <1>4, <1>5, <1>6, <1>7, MarksAfterEdit

(* Edits that neither mark nor clear.                                      *)
LEMMA PlainEditKeeps ==
  ASSUME StorageInv, MetaInv, NEW k \in Keys, Edit(k), NEW w \in Metas, SetMeta(k, w),
         w.dirty = meta[directory[k]].dirty, w.bounds = meta[directory[k]].bounds,
         \/ w.content_version = meta[directory[k]].content_version /\ UNCHANGED changed_since
         \/ w.content_version = meta[directory[k]].content_version + 1 /\ ContentChanged(k),
         UNCHANGED <<storageVars, observation, marks>>
  PROVE  MetaInv'
  <1> DEFINE s == directory[k]
             m == meta[s]
  <1>1. /\ Resident(k) /\ s \in Slots /\ edits' \in Nat /\ m.content_version \in Nat
        /\ marks[s] \in SUBSET (Flags \X Positions)
        /\ marks = [marks EXCEPT ![s] = marks[s]]
        /\ Inside(marks[s], m)
    BY EditFacts
  <1>2. EditedTo(k, w)
    BY <1>1 DEF EditedTo, SetMeta
  <1>3. Inside(marks[s], w)
    BY <1>1 DEF Inside
  <1>4. marks' = [marks EXCEPT ![s] = marks[s]]
    BY <1>1
  <1> QED  BY <1>1, <1>2, <1>3, <1>4, MarksAfterEdit

(* observe_dirty keeps the metadata invariant.                             *)
LEMMA ObserveKeeps ==
  ASSUME StorageInv, MetaInv, NEW o \in Observers, NEW k \in Keys, NEW mask \in SUBSET Flags,
         Observe(o, k, mask)
  PROVE  MetaInv'
  <1> DEFINE s == directory[k]
             m == meta[s]
             saw == [key |-> k, seen |-> ObserveDirty(m, mask, Generation(k))]
  <1>1. /\ Edit(k) /\ observation' = [observation EXCEPT ![o] = saw]
        /\ changed_since' = [changed_since EXCEPT ![o] = FALSE]
        /\ UNCHANGED <<storageVars, meta, marks>>
    BY DEF Observe
  <1>2. /\ edits' \in Nat /\ m \in Metas /\ m.content_version \in Nat
        /\ Generation(k) \in Nat /\ Generation(k) <= generation_clock
    BY <1>1, EditFacts
  <1>3. MetaTypeOK /\ MarksInv /\ ObserversInv
    BY DEF MetaInv
  <1>4. /\ saw.key = k /\ saw.seen.generation = Generation(k)
        /\ saw.seen.content_version = m.content_version
        /\ saw \in [key : Keys \cup {Npos}, seen : Seen]
    <2>1. ObserveDirty(m, mask, Generation(k)) \in Seen
      BY <1>2 DEF ObserveDirty, Seen, Metas
    <2> QED  BY <2>1 DEF ObserveDirty
  <1> HIDE DEF saw
  <1>5. observation' \in [Observers -> [key : Keys \cup {Npos}, seen : Seen]]
    BY <1>1, <1>3, <1>4 DEF MetaTypeOK
  <1>6. changed_since' \in [Observers -> BOOLEAN]
    BY <1>1, <1>3 DEF MetaTypeOK
  <1>7. MetaTypeOK'
    BY <1>1, <1>2, <1>3, <1>5, <1>6 DEF MetaTypeOK
  <1>8. MarksInv'
    BY <1>1, <1>3 DEF MarksInv
  <1>9. UNCHANGED <<directory, slot_generation, generation_clock, meta>>
    BY <1>1 DEF storageVars
  <1>10. ObserversInv'
    <2> SUFFICES ASSUME NEW p \in Observers
                 PROVE  /\ observation'[p].seen.generation <= generation_clock'
                        /\ Follows(p)'
      BY DEF ObserversInv
    <2>1. CASE p = o
      <3>1. observation'[p] = saw /\ changed_since'[p] = FALSE
        BY <1>1, <1>3, <2>1 DEF MetaTypeOK
      <3> QED  BY <1>2, <1>4, <1>9, <3>1 DEF Follows
    <2>2. CASE p # o
      <3>1. observation'[p] = observation[p] /\ changed_since'[p] = changed_since[p]
        BY <1>1, <1>3, <2>2 DEF MetaTypeOK
      <3>2. Follows(p) /\ observation[p].seen.generation <= generation_clock
        BY <1>3 DEF ObserversInv
      <3> QED  BY <1>9, <3>1, <3>2 DEF Follows, Resident, Generation
    <2> QED  BY <2>1, <2>2
  <1> QED  BY <1>7, <1>8, <1>10 DEF MetaInv

(* clear_dirty_observed keeps the metadata invariant.                      *)
LEMMA ClearObservedKeeps ==
  ASSUME StorageInv, MetaInv, NEW o \in Observers, observation[o].key \in Keys, ClearObserved(o)
  PROVE  MetaInv'
  <1> DEFINE k == observation[o].key
             seen == observation[o].seen
             m == meta[directory[k]]
  <1>1. /\ Edit(k) /\ k # Npos
        /\ SetMeta(k, ClearDirtyObserved(m, seen, Generation(k)))
        /\ \/ Accepts(o) /\ MarksCleared(k, seen.mask)
           \/ ~Accepts(o) /\ UNCHANGED marks
        /\ UNCHANGED <<storageVars, observation, changed_since>>
    BY DEF ClearObserved
  <1>2. Accepts(o) <=> StillCurrent(m, seen, Generation(k))
    BY <1>1 DEF Accepts, Edit
  <1>3. seen.mask \in SUBSET Flags
    BY DEF MetaInv, MetaTypeOK, Seen
  <1>4. CASE Accepts(o)
    <2>1. SetMeta(k, ClearDirty(m, seen.mask))
      BY <1>1, <1>2, <1>4 DEF ClearDirtyObserved
    <2> QED  BY <1>1, <1>3, <1>4, <2>1, ClearDirtyKeeps
  <1>5. CASE ~Accepts(o)
    <2>1. SetMeta(k, m)
      BY <1>1, <1>2, <1>5 DEF ClearDirtyObserved
    <2>2. m \in Metas
      BY <1>1, EditFacts
    <2>3. UNCHANGED <<storageVars, observation, marks>> /\ UNCHANGED changed_since
      BY <1>1, <1>5
    <2> QED  BY <1>1, <2>1, <2>2, <2>3, PlainEditKeeps
  <1> QED  BY <1>4, <1>5

-----------------------------------------------------------------------------
(* Every step keeps the invariant.                                         *)

LEMMA MetaStarts == Init => MetaInv
  <1> SUFFICES ASSUME Init PROVE MetaInv
    OBVIOUS
  <1>1. FreshMeta \in Metas
    BY DEF FreshMeta, Metas, NoBox, Boxes
  <1>2. /\ NoObservation \in [key : Keys \cup {Npos}, seen : Seen]
        /\ NoObservation.key = Npos /\ NoObservation.seen.generation = 0
    BY DEF NoObservation, ObserveDirty, FreshMeta, NoBox, Seen, Boxes
  <1>3. MetaTypeOK
    BY <1>1, <1>2 DEF Init, MetaTypeOK
  <1>4. MarksInv
    BY DEF Init, MarksInv, Inside
  <1>5. ObserversInv
    BY <1>2 DEF Init, ObserversInv, Follows
  <1> QED  BY <1>3, <1>4, <1>5 DEF MetaInv

(* An operation on the metadata.                                           *)
Editing ==
  \E k \in EditedKeys :
    \/ \E mask \in Masks, t \in Positions :
         MarkChunkDirty(k, mask, t) \/ MarkTopologyDirty(k, mask, t)
    \/ \E mask \in Masks : ClearChunkDirty(k, mask)
    \/ \E mask \in Masks, o \in Observers : Observe(o, k, mask)
    \/ \E o \in Observers : ClearObserved(o)
    \/ MarkChunkContentChanged(k) \/ MarkTopologyRebuilt(k)
    \/ MarkChunkActive(k, Actives) \/ ClearChunkActive(k, Actives)

(* Metadata operations leave the storage alone and keep the metadata       *)
(* invariant.                                                              *)
LEMMA EditingKeeps ==
  ASSUME StorageInv, MetaInv, Editing
  PROVE  UNCHANGED storageVars /\ MetaInv'
  <1>1. PICK k \in EditedKeys :
    \/ \E mask \in Masks, t \in Positions :
         MarkChunkDirty(k, mask, t) \/ MarkTopologyDirty(k, mask, t)
    \/ \E mask \in Masks : ClearChunkDirty(k, mask)
    \/ \E mask \in Masks, o \in Observers : Observe(o, k, mask)
    \/ \E o \in Observers : ClearObserved(o)
    \/ MarkChunkContentChanged(k) \/ MarkTopologyRebuilt(k)
    \/ MarkChunkActive(k, Actives) \/ ClearChunkActive(k, Actives)
    BY DEF Editing
  <1>2. k \in Keys
    BY SparseBoundsAssumption
  <1> DEFINE m == meta[directory[k]]
  <1>3. ASSUME NEW mask \in Masks, NEW t \in Positions,
               MarkChunkDirty(k, mask, t) \/ MarkTopologyDirty(k, mask, t)
        PROVE  UNCHANGED storageVars /\ MetaInv'
    <2>1. MetaInv'
      BY <1>2, <1>3, MarkDirtyKeeps
    <2> QED  BY <1>3, <2>1 DEF MarkChunkDirty, MarkTopologyDirty
  <1>4. ASSUME NEW mask \in Masks, ClearChunkDirty(k, mask)
        PROVE  UNCHANGED storageVars /\ MetaInv'
    <2>1. /\ Edit(k) /\ SetMeta(k, ClearDirty(m, mask)) /\ MarksCleared(k, mask)
          /\ UNCHANGED <<storageVars, observation, changed_since>> /\ mask \in SUBSET Flags
      BY <1>4 DEF ClearChunkDirty, Masks
    <2>2. MetaInv'
      BY <1>2, <2>1, ClearDirtyKeeps
    <2> QED  BY <2>1, <2>2
  <1>5. ASSUME NEW mask \in Masks, NEW o \in Observers, Observe(o, k, mask)
        PROVE  UNCHANGED storageVars /\ MetaInv'
    <2>1. mask \in SUBSET Flags
      BY DEF Masks
    <2>2. MetaInv'
      BY <1>2, <1>5, <2>1, ObserveKeeps
    <2> QED  BY <1>5, <2>2 DEF Observe
  <1>6. ASSUME NEW o \in Observers, ClearObserved(o)
        PROVE  UNCHANGED storageVars /\ MetaInv'
    <2>1. observation[o].key \in Keys
      BY <1>6 DEF ClearObserved, MetaInv, MetaTypeOK
    <2>2. MetaInv'
      BY <1>6, <2>1, ClearObservedKeeps
    <2> QED  BY <1>6, <2>2 DEF ClearObserved
  <1>7. CASE MarkChunkContentChanged(k) \/ MarkTopologyRebuilt(k)
             \/ MarkChunkActive(k, Actives) \/ ClearChunkActive(k, Actives)
    <2>1. Edit(k) /\ UNCHANGED <<storageVars, observation, marks>>
      BY <1>7 DEF MarkChunkContentChanged, MarkTopologyRebuilt, MarkChunkActive, ClearChunkActive
    <2>2. m \in Metas
      BY <1>2, <2>1, EditFacts
    <2> HIDE DEF m
    <2>3. \E w \in Metas :
            /\ SetMeta(k, w) /\ w.dirty = m.dirty /\ w.bounds = m.bounds
            /\ \/ w.content_version = m.content_version /\ UNCHANGED changed_since
               \/ w.content_version = m.content_version + 1 /\ ContentChanged(k)
      <3>1. CASE MarkChunkContentChanged(k)
        <4> DEFINE w == MarkContentChanged(m)
        <4>1. SetMeta(k, w) /\ ContentChanged(k)
          BY <3>1 DEF MarkChunkContentChanged, m
        <4>2. /\ w \in Metas /\ w.dirty = m.dirty /\ w.bounds = m.bounds
              /\ w.content_version = m.content_version + 1
          BY <2>2 DEF MarkContentChanged, NextVersion, Metas
        <4> QED  BY <4>1, <4>2
      <3>2. CASE MarkTopologyRebuilt(k)
        <4> DEFINE w == [m EXCEPT !.topology_version = @ + 1]
        <4>1. SetMeta(k, w) /\ UNCHANGED changed_since
          BY <3>2 DEF MarkTopologyRebuilt, m
        <4>2. /\ w \in Metas /\ w.dirty = m.dirty /\ w.bounds = m.bounds
              /\ w.content_version = m.content_version
          BY <2>2 DEF Metas
        <4> QED  BY <4>1, <4>2
      <3>3. CASE MarkChunkActive(k, Actives)
        <4> DEFINE w == MarkActive(m, Actives)
        <4>1. SetMeta(k, w) /\ UNCHANGED changed_since
          BY <3>3 DEF MarkChunkActive, m
        <4>2. /\ w \in Metas /\ w.dirty = m.dirty /\ w.bounds = m.bounds
              /\ w.content_version = m.content_version
          BY <2>2 DEF MarkActive, Metas
        <4> QED  BY <4>1, <4>2
      <3>4. CASE ClearChunkActive(k, Actives)
        <4> DEFINE w == ClearActive(m, Actives)
        <4>1. SetMeta(k, w) /\ UNCHANGED changed_since
          BY <3>4 DEF ClearChunkActive, m
        <4>2. /\ w \in Metas /\ w.dirty = m.dirty /\ w.bounds = m.bounds
              /\ w.content_version = m.content_version
          BY <2>2 DEF ClearActive, Metas
        <4> QED  BY <4>1, <4>2
      <3> QED  BY <1>7, <3>1, <3>2, <3>3, <3>4
    <2>4. MetaInv'
      BY <1>2, <2>1, <2>3, PlainEditKeeps DEF m
    <2> QED  BY <2>1, <2>4
  <1> QED  BY <1>1, <1>3, <1>4, <1>5, <1>6, <1>7

(* The five ways in which a step changes the storage.                      *)
LEMMA StepKinds ==
  ASSUME [Next]_vars
  PROVE  \/ UNCHANGED vars
         \/ Editing
         \/ \E k \in Keys : MoveKeyToMru(k)
         \/ \E k \in Keys : Evict(k)
         \/ \E k \in Keys : ~Resident(k) /\ generation_clock < MaxGeneration
                            /\ (MaterializeInFreeSlot(k) \/ MaterializeInVictim(k))
  <1>1. CASE UNCHANGED vars
    BY <1>1
  <1>2. CASE \E k \in Keys : EnsureResident(k) \/ Touch(k) \/ Evict(k)
    BY <1>2 DEF EnsureResident, Touch
  <1>3. CASE Editing
    BY <1>3
  <1> QED  BY <1>1, <1>2, <1>3 DEF Next, Editing

(* Every step keeps the inductive invariant.                               *)
LEMMA WorldStep ==
  ASSUME WorldInv, [Next]_vars
  PROVE  WorldInv'
  <1>1. StorageInv /\ MetaInv
    BY DEF WorldInv
  <1>2. CASE UNCHANGED vars
    <2>1. /\ UNCHANGED storageVars
          /\ UNCHANGED <<directory, slot_generation, generation_clock, meta, observation,
                         changed_since, marks, edits>>
      BY <1>2 DEF vars, storageVars
    <2>2. StorageInv'
      BY <1>1, <2>1, StorageUnchanged
    <2>3. MetaInv'
      BY <1>1, <2>1, <2>2, MetaKept
    <2> QED  BY <2>2, <2>3 DEF WorldInv
  <1>3. CASE Editing
    <2>1. UNCHANGED storageVars /\ MetaInv'
      BY <1>1, <1>3, EditingKeeps
    <2>2. StorageInv'
      BY <1>1, <2>1, StorageUnchanged
    <2> QED  BY <2>1, <2>2 DEF WorldInv
  <1>4. ASSUME NEW k \in Keys, MoveKeyToMru(k) PROVE WorldInv'
    <2>1. StorageInv'
      BY <1>1, <1>4, UseKeepsStorage
    <2>2. UNCHANGED <<directory, slot_generation, generation_clock, meta, observation,
                      changed_since, marks, edits>>
      BY <1>4 DEF MoveKeyToMru
    <2>3. MetaInv'
      BY <1>1, <2>1, <2>2, MetaKept
    <2> QED  BY <2>1, <2>3 DEF WorldInv
  <1>5. ASSUME NEW k \in Keys, Evict(k) PROVE WorldInv'
    <2>1. StorageInv'
      BY <1>1, <1>5, EvictKeepsStorage
    <2>2. UNCHANGED <<slot_generation, generation_clock, meta, observation,
                      changed_since, marks, edits>>
      BY <1>5 DEF Evict
    <2>3. directory' = [directory EXCEPT ![slot_key[directory[k]]] = Npos]
      BY <1>5 DEF Evict, Released
    <2>4. \A j \in Keys : directory'[j] # Npos => directory'[j] = directory[j]
      BY <1>1, <2>3 DEF StorageInv, StorageTypeOK
    <2>5. MetaInv'
      BY <1>1, <2>1, <2>2, <2>4, MetaKept
    <2> QED  BY <2>1, <2>5 DEF WorldInv
  <1>6. ASSUME NEW k \in Keys, ~Resident(k), MaterializeInFreeSlot(k) \/ MaterializeInVictim(k)
        PROVE  WorldInv'
    <2>1. PICK s \in Slots : Materialized(k, s)
      BY <1>1, <1>6, FreeSlotMaterializes, VictimMaterializes
    <2>2. MetaInv'
      BY <1>1, <2>1, MetaMaterialized
    <2> QED  BY <2>1, <2>2 DEF WorldInv, Materialized
  <1> QED  BY <1>2, <1>3, <1>4, <1>5, <1>6, StepKinds

(* The inductive invariant.                                                *)
LEMMA WorldAlways == Spec => []WorldInv
  <1>1. Init => WorldInv
    BY StorageStarts, MetaStarts DEF WorldInv
  <1>2. WorldInv /\ [Next]_vars => WorldInv'
    BY WorldStep
  <1> QED  BY <1>1, <1>2, PTL DEF Spec

-----------------------------------------------------------------------------
(* The theorems.                                                           *)

(* Counting the places of a slot: in the free list, and in the directory.  *)
LEMMA PlacesAddUp ==
  ASSUME StorageInv, NEW s \in Slots
  PROVE  Cardinality({i \in 1 .. Len(free_slots) : free_slots[i] = s})
           + Cardinality({k \in Keys : directory[k] = s}) = 1
  <1> DEFINE I == {i \in 1 .. Len(free_slots) : free_slots[i] = s}
             K == {k \in Keys : directory[k] = s}
  <1>1. /\ \A i, j \in 1 .. Len(free_slots) : free_slots[i] = free_slots[j] => i = j
        /\ s \in Slots \ Held <=> \E i \in 1 .. Len(free_slots) : free_slots[i] = s
    BY DEF StorageInv, Lists, Distinct
  <1>2. Cardinality({}) = 0 /\ \A x : Cardinality({x}) = 1
    BY FS_EmptySet, FS_Singleton
  <1>3. CASE s \in Held
    <2>1. I = {}
      BY <1>1, <1>3
    <2>2. K = {slot_key[s]}
      BY <1>3, HeldFacts
    <2> HIDE DEF I, K
    <2>3. Cardinality(I) = 0 /\ Cardinality(K) = 1
      BY <1>2, <2>1, <2>2, Zenon
    <2> QED  BY <2>3 DEF I, K
  <1>4. CASE s \notin Held
    <2>1. PICK i \in 1 .. Len(free_slots) : free_slots[i] = s
      BY <1>1, <1>4
    <2>2. I = {i}
      BY <1>1, <2>1
    <2>3. K = {}
      BY <1>4 DEF Held
    <2> HIDE DEF I, K
    <2>4. Cardinality(I) = 1 /\ Cardinality(K) = 0
      BY <1>2, <2>2, <2>3, Zenon
    <2> QED  BY <2>4 DEF I, K
  <1> QED  BY <1>3, <1>4

(* What the run checks follows from the inductive invariant.               *)
LEMMA WorldIsConsistent == WorldInv => StorageConsistent
  <1> SUFFICES ASSUME WorldInv PROVE StorageConsistent
    OBVIOUS
  <1>1. StorageInv /\ MetaInv
    BY DEF WorldInv
  <1>2. /\ List \in Lists2Way /\ Linked(List, order) /\ Lists(order, Held) /\ Lists(resident_slots, Held)
        /\ Len(order) = Len(resident_slots) /\ resident_keys \in Seq(Keys)
        /\ slot_position \in [Slots -> Nat \ {0}]
        /\ Indexed(resident_keys, resident_slots, slot_position)
        /\ Owned(resident_keys, resident_slots, slot_key)
    BY <1>1 DEF StorageInv, Stored
  <1>3. /\ lru_prev \in [Slots -> SlotOrNone] /\ lru_next \in [Slots -> SlotOrNone]
        /\ lru_head \in SlotOrNone /\ lru_tail \in SlotOrNone
    BY <1>2 DEF List, Lists2Way
  <1>4. TypeOK
    BY <1>1, <1>2, <1>3 DEF StorageInv, StorageTypeOK, MetaInv, MetaTypeOK, Lists, TypeOK
  <1>5. ListIsOrder
    BY <1>2 DEF Linked, List, ListIsOrder
  <1>6. BoundsCoverMarks
    BY <1>1 DEF MetaInv, MarksInv, Inside, BoundsCoverMarks
  <1>7. Len(resident_slots) = Len(resident_keys)
    BY <1>2 DEF Indexed
  <1>8. ASSUME NEW i \in 1 .. Len(resident_slots)
        PROVE  LET s == resident_slots[i] IN
               /\ resident_keys[i] = slot_key[s]
               /\ slot_position[s] = i
               /\ directory[slot_key[s]] = s
    <2>1. resident_slots[i] \in Slots
      BY <1>2, ElementOfSeq DEF Lists
    <2>2. resident_slots[i] \in Held
      BY <1>2, <2>1 DEF Lists
    <2>3. directory[slot_key[resident_slots[i]]] = resident_slots[i]
      BY <1>1, <2>2, HeldFacts
    <2> QED  BY <1>2, <2>3 DEF Indexed, Owned
  <1>9. ASSUME NEW k \in Keys, Resident(k)
        PROVE  \E i \in 1 .. Len(resident_keys) : resident_keys[i] = k
    <2>1. directory[k] \in Held /\ directory[k] \in Slots /\ slot_key[directory[k]] = k
      BY <1>1, <1>9, HeldFacts DEF StorageInv, DirectoryInv
    <2>2. PICK i \in 1 .. Len(resident_slots) : resident_slots[i] = directory[k]
      BY <1>2, <2>1 DEF Lists
    <2> QED  BY <1>2, <1>7, <2>1, <2>2 DEF Owned
  <1>10. \A s \in Slots :
           Cardinality({i \in 1 .. Len(free_slots) : free_slots[i] = s})
             + Cardinality({k \in Keys : directory[k] = s}) = 1
    BY <1>1, PlacesAddUp
  <1> QED  BY <1>4, <1>5, <1>6, <1>7, <1>8, <1>9, <1>10 DEF StorageConsistent

(* The directory, the two swap-removed arrays, the free list and the       *)
(* intrusive list of a sparse world describe one set of resident chunks,   *)
(* in the order of their last use, and the dirty bounds cover every mark   *)
(* (ensure_resident, touch, evict and the eviction under budget pressure). *)
THEOREM StorageInvariant == Spec => []StorageConsistent
  BY WorldAlways, WorldIsConsistent, PTL

(* An observation that clear_dirty_observed accepts has seen every change. *)
THEOREM ObservationsAreFresh == Spec => []AcceptedObservationIsFresh
  <1>1. WorldInv => AcceptedObservationIsFresh
    <2> SUFFICES ASSUME WorldInv, NEW o \in Observers, Accepts(o)
                 PROVE  ~changed_since[o]
      BY DEF AcceptedObservationIsFresh
    <2>1. Follows(o)
      BY DEF WorldInv, MetaInv, ObserversInv
    <2> QED  BY <2>1 DEF Follows, Accepts, StillCurrent
  <1> QED  BY <1>1, WorldAlways, PTL

(* A step leaves the generation of a chunk, takes it away, or gives one    *)
(* that nobody had.                                                        *)
LEMMA GenerationStep ==
  ASSUME WorldInv, [Next]_vars, NEW k \in Keys
  PROVE  /\ generation_clock \in Nat
         /\ Generation(k)' \in {Generation(k), 0, generation_clock + 1}
  <1>1. StorageInv /\ generation_clock \in Nat
    BY DEF WorldInv, StorageInv, StorageTypeOK
  <1>2. CASE UNCHANGED vars \/ Editing
    <2>1. UNCHANGED <<directory, slot_generation>>
      <3>1. CASE UNCHANGED vars
        BY <3>1 DEF vars, storageVars
      <3>2. CASE Editing
        BY <1>1, <3>2, EditingKeeps DEF WorldInv, storageVars
      <3> QED  BY <1>2, <3>1, <3>2
    <2> QED  BY <1>1, <2>1 DEF Generation, Resident
  <1>3. ASSUME NEW j \in Keys, MoveKeyToMru(j)
        PROVE  Generation(k)' = Generation(k)
    BY <1>3 DEF MoveKeyToMru, Generation, Resident
  <1>4. ASSUME NEW j \in Keys, Evict(j)
        PROVE  Generation(k)' \in {Generation(k), 0}
    <2>1. directory' = [directory EXCEPT ![slot_key[directory[j]]] = Npos] /\ UNCHANGED slot_generation
      BY <1>4 DEF Evict, Released
    <2>2. directory'[k] = directory[k] \/ directory'[k] = Npos
      BY <1>1, <2>1 DEF StorageInv, StorageTypeOK
    <2> QED  BY <2>1, <2>2 DEF Generation, Resident
  <1>5. ASSUME NEW j \in Keys, ~Resident(j), MaterializeInFreeSlot(j) \/ MaterializeInVictim(j)
        PROVE  Generation(k)' \in {Generation(k), 0, generation_clock + 1}
    <2>1. PICK s \in Slots : Materialized(j, s)
      BY <1>1, <1>5, FreeSlotMaterializes, VictimMaterializes
    <2>2. CASE k = j
      BY <2>1, <2>2, SlotsAssumption DEF Materialized, Generation, Resident
    <2>3. CASE k # j
      <3>1. directory'[k] = IF directory[k] = s THEN Npos ELSE directory[k]
        BY <2>1, <2>3 DEF Materialized
      <3>2. directory'[k] = Npos \/ (directory'[k] = directory[k] /\ directory[k] \in Slots /\ directory[k] # s)
        BY <1>1, <3>1 DEF StorageInv, StorageTypeOK, SlotOrNone
      <3> QED  BY <2>1, <3>2 DEF Materialized, Generation, Resident
    <2> QED  BY <2>2, <2>3
  <1> QED  BY <1>1, <1>2, <1>3, <1>4, <1>5, StepKinds

(* A handle that valid() refuses is refused for ever.                      *)
THEOREM HandlesStayRefused == Spec => HandlesNeverRevive
  <1>1. WorldInv /\ [Next]_vars =>
          [\A k \in Keys, g \in 1 .. generation_clock :
             LET h == [key |-> k, generation |-> g]
             IN  ~Valid(h) => ~Valid(h)']_vars
    <2> SUFFICES ASSUME WorldInv, [Next]_vars, NEW k \in Keys, NEW g \in 1 .. generation_clock,
                        ~Valid([key |-> k, generation |-> g])
                 PROVE  ~Valid([key |-> k, generation |-> g])'
      OBVIOUS
    <2>1. generation_clock \in Nat /\ Generation(k)' \in {Generation(k), 0, generation_clock + 1}
      BY GenerationStep
    <2>2. g # 0 /\ g # generation_clock + 1
      BY <2>1
    <2>3. Generation(k) # g
      BY <2>2 DEF Valid
    <2> QED  BY <2>1, <2>2, <2>3 DEF Valid
  <1> QED  BY <1>1, WorldAlways, PTL DEF Spec, HandlesNeverRevive

-----------------------------------------------------------------------------
(* The refinement: the order of the slots, read as keys.                   *)

Named(owner, H) == \A s \in H : owner[s] \in Keys
OneEach(owner, H) == \A s, t \in H : owner[s] = owner[t] => s = t
Agree(owner, next, H) == \A s \in H : next[s] = owner[s]

Recency(ord, owner) == [i \in 1 .. Len(ord) |-> owner[ord[i]]]

(* The order of the slots, read as keys, is a sequence of keys.            *)
LEMMA RecencyIsASeq ==
  ASSUME NEW H \in SUBSET Slots, NEW q, Lists(q, H), NEW owner, Named(owner, H)
  PROVE  /\ Recency(q, owner) \in Seq(Keys)
         /\ Len(Recency(q, owner)) = Len(q)
         /\ Len(q) \in Nat
         /\ \A i \in 1 .. Len(q) : q[i] \in H
  <1>1. q \in Seq(Slots) /\ Len(q) \in Nat
    BY LenProperties DEF Lists
  <1>2. \A i \in 1 .. Len(q) : q[i] \in H
    BY <1>1, ElementOfSeq DEF Lists
  <1>3. Recency(q, owner) \in [1 .. Len(q) -> Keys]
    BY <1>2 DEF Recency, Named
  <1>4. Recency(q, owner) \in Seq(Keys) /\ Len(Recency(q, owner)) = Len(q)
    BY <1>1, <1>3
  <1> QED  BY <1>1, <1>2, <1>4

(* Taking a slot out of the order takes its key out of the recency.        *)
LEMMA RecencyRemoved ==
  ASSUME NEW H \in SUBSET Slots, NEW q, Lists(q, H), NEW owner,
         Named(owner, H), OneEach(owner, H),
         NEW p \in 1 .. Len(q)
  PROVE  Recency(RemoveFirst(q, q[p]), owner) = RemoveFirst(Recency(q, owner), owner[q[p]])
  <1> DEFINE n == Len(q)
             k == Recency(q, owner)
             r == RemoveFirst(q, q[p])
  <1>1. /\ k \in Seq(Keys) /\ Len(k) = n /\ n \in Nat
        /\ \A i \in 1 .. n : q[i] \in H /\ k[i] = owner[q[i]]
    <2>1. \A i \in 1 .. n : k[i] = owner[q[i]]
      BY DEF Recency
    <2> QED  BY <2>1, RecencyIsASeq
  <1>2. \A i, j \in 1 .. n : q[i] = q[j] => i = j
    BY Zenon DEF Lists, Distinct
  <1>3. Distinct(k)
    BY <1>1, <1>2 DEF Distinct, OneEach
  <1>4. k[p] = owner[q[p]] /\ p \in 1 .. Len(k)
    BY <1>1
  <1> HIDE DEF k
  <1>5. /\ RemoveFirst(k, k[p]) \in Seq(Keys)
        /\ Len(RemoveFirst(k, k[p])) = Len(k) - 1
        /\ \A i \in 1 .. Len(k) - 1 :
             RemoveFirst(k, k[p])[i] = IF i < p THEN k[i] ELSE k[i + 1]
    BY <1>1, <1>3, <1>4, RemovedFirst
  <1>6. /\ Lists(r, H \ {q[p]}) /\ Len(r) = n - 1
        /\ \A i \in 1 .. n - 1 : r[i] = IF i < p THEN q[i] ELSE q[i + 1]
    BY ListsRemoveFirst
  <1> DEFINE I == H \ {q[p]}
  <1>7. I \in SUBSET Slots /\ Lists(r, I) /\ Named(owner, I)
    BY <1>6 DEF Named
  <1> HIDE DEF r, I
  <1>8. /\ Recency(r, owner) \in Seq(Keys) /\ Len(Recency(r, owner)) = n - 1
        /\ \A i \in 1 .. n - 1 : Recency(r, owner)[i] = owner[r[i]]
    <2>1. /\ Recency(r, owner) \in Seq(Keys) /\ Len(Recency(r, owner)) = Len(r)
          /\ \A i \in 1 .. Len(r) : Recency(r, owner)[i] = owner[r[i]]
      <3>1. \A i \in 1 .. Len(r) : Recency(r, owner)[i] = owner[r[i]]
        BY DEF Recency
      <3> QED  BY <1>7, <3>1, RecencyIsASeq
    <2> QED  BY <1>6, <2>1
  <1>9. \A i \in 1 .. n - 1 : Recency(r, owner)[i] = RemoveFirst(k, k[p])[i]
    <2> SUFFICES ASSUME NEW i \in 1 .. n - 1
                 PROVE  Recency(r, owner)[i] = RemoveFirst(k, k[p])[i]
      OBVIOUS
    <2>1. i \in 1 .. n /\ i + 1 \in 1 .. n
      BY <1>1
    <2> QED  BY <1>1, <1>5, <1>6, <1>8, <2>1
  <1>10. Len(RemoveFirst(k, k[p])) = n - 1
    BY <1>1, <1>5
  <1>11. Recency(r, owner) = RemoveFirst(k, k[p])
    BY <1>5, <1>8, <1>9, <1>10, SeqEqual
  <1> QED  BY <1>4, <1>11 DEF k, r

(* A slot that joins the order brings its key.                             *)
Joins(H, q, owner, next, s) ==
  /\ H \in SUBSET Slots /\ Lists(q, H) /\ Named(owner, H) /\ Agree(owner, next, H)
  /\ s \in Slots /\ s \notin H /\ next[s] \in Keys

(* Appending such a slot appends its key.                                  *)
LEMMA RecencyAppended ==
  ASSUME NEW H, NEW q, NEW owner, NEW next, NEW s, Joins(H, q, owner, next, s)
  PROVE  Recency(Append(q, s), next) = Append(Recency(q, owner), next[s])
  <1>0. /\ H \in SUBSET Slots /\ Lists(q, H) /\ Named(owner, H) /\ Agree(owner, next, H)
        /\ s \in Slots /\ s \notin H /\ next[s] \in Keys
    BY DEF Joins
  <1> DEFINE n == Len(q)
             k == Recency(q, owner)
             r == Append(q, s)
  <1>1. /\ k \in Seq(Keys) /\ Len(k) = n /\ n \in Nat
        /\ \A i \in 1 .. n : q[i] \in H /\ k[i] = owner[q[i]]
    <2>1. \A i \in 1 .. n : k[i] = owner[q[i]]
      BY DEF Recency
    <2> QED  BY <1>0, <2>1, RecencyIsASeq
  <1>2. /\ Append(k, next[s]) \in Seq(Keys) /\ Len(Append(k, next[s])) = n + 1
        /\ Append(k, next[s])[n + 1] = next[s]
        /\ \A i \in 1 .. n : Append(k, next[s])[i] = k[i]
    BY <1>0, <1>1, AppendProperties
  <1>3. /\ Lists(r, H \cup {s}) /\ Len(r) = n + 1
    BY <1>0, ListsAppend
  <1>4. r[n + 1] = s /\ \A i \in 1 .. n : r[i] = q[i]
    BY <1>0, <1>1, AppendProperties DEF Lists
  <1> HIDE DEF k, r
  <1> DEFINE I == H \cup {s}
  <1>5. I \in SUBSET Slots /\ Lists(r, I) /\ Named(next, I)
    BY <1>0, <1>3 DEF Named, Agree
  <1> HIDE DEF I
  <1>6. /\ Recency(r, next) \in Seq(Keys) /\ Len(Recency(r, next)) = n + 1
        /\ \A i \in 1 .. n + 1 : Recency(r, next)[i] = next[r[i]]
    <2>1. /\ Recency(r, next) \in Seq(Keys) /\ Len(Recency(r, next)) = Len(r)
          /\ \A i \in 1 .. Len(r) : Recency(r, next)[i] = next[r[i]]
      <3>1. \A i \in 1 .. Len(r) : Recency(r, next)[i] = next[r[i]]
        BY DEF Recency
      <3> QED  BY <1>5, <3>1, RecencyIsASeq
    <2> QED  BY <1>3, <2>1
  <1>7. \A i \in 1 .. n + 1 : Recency(r, next)[i] = Append(k, next[s])[i]
    <2> SUFFICES ASSUME NEW i \in 1 .. n + 1
                 PROVE  Recency(r, next)[i] = Append(k, next[s])[i]
      OBVIOUS
    <2>1. i \in 1 .. n \/ i = n + 1
      BY <1>1
    <2>2. CASE i \in 1 .. n
      BY <1>0, <1>1, <1>2, <1>4, <1>6, <2>2 DEF Agree
    <2>3. CASE i = n + 1
      BY <1>2, <1>4, <1>6, <2>3
    <2> QED  BY <2>1, <2>2, <2>3
  <1>8. Recency(r, next) = Append(k, next[s])
    BY <1>2, <1>6, <1>7, SeqEqual
  <1> QED  BY <1>8 DEF k, r

(* The abstract set takes its helper from its own instance of the library. *)
LEMMA SameRemoveFirst ==
  \A q, e : LRU!RemoveFirst(q, e) = RemoveFirst(q, e)
  BY DEF LRU!RemoveFirst, RemoveFirst, LRU!RemoveAt, RemoveAt, LRU!SelectInSeq, SelectInSeq, LRU!Min, Min

(* The refinement mapping, with the names it has here.                     *)
Keyed == Recency(order, slot_key)
Given == [k \in Keys |-> Generation(k)]

(* The empty world is the empty set.                                       *)
LEMMA MappedInit == Init => LRU!Init
  <1> SUFFICES ASSUME Init PROVE LRU!Init
    OBVIOUS
  <1>1. [i \in 1 .. Len(order) |-> slot_key[order[i]]] = << >>
    BY DEF Init
  <1>2. [k \in Keys |-> Generation(k)] = [k \in Keys |-> 0]
    BY DEF Init, Generation, Resident
  <1>3. generation_clock = 0
    BY DEF Init
  <1> QED  BY <1>1, <1>2, <1>3 DEF LRU!Init

(* A key is resident with a generation, and is in the recency with it.     *)
LEMMA MappedFacts ==
  ASSUME StorageInv
  PROVE  /\ \A k \in Keys : Resident(k) <=> Generation(k) # 0
         /\ Named(slot_key, Held) /\ OneEach(slot_key, Held)
         /\ Lists(order, Held) /\ Held \in SUBSET Slots
         /\ Keyed \in Seq(Keys) /\ Len(Keyed) = Len(order) /\ Len(order) \in Nat
         /\ \A i \in 1 .. Len(order) : Keyed[i] = slot_key[order[i]]
  <1>1. /\ Held \in SUBSET Slots /\ Lists(order, Held)
        /\ \A s \in Held : slot_key[s] \in Keys /\ directory[slot_key[s]] = s
    BY HeldFacts DEF StorageInv, Stored
  <1>2. Named(slot_key, Held)
    BY <1>1 DEF Named
  <1>3. OneEach(slot_key, Held)
    BY <1>1 DEF OneEach
  <1>4. /\ Keyed \in Seq(Keys) /\ Len(Keyed) = Len(order) /\ Len(order) \in Nat
        /\ \A i \in 1 .. Len(order) : Keyed[i] = slot_key[order[i]]
    <2>1. \A i \in 1 .. Len(order) : Keyed[i] = slot_key[order[i]]
      BY DEF Keyed, Recency
    <2> QED  BY <1>1, <1>2, <2>1, RecencyIsASeq DEF Keyed
  <1>5. ASSUME NEW k \in Keys PROVE Resident(k) <=> Generation(k) # 0
    <2>1. Resident(k) => slot_generation[directory[k]] # 0
      BY DEF StorageInv, StorageTypeOK, DirectoryInv
    <2> QED  BY <2>1 DEF Generation
  <1> QED  BY <1>1, <1>2, <1>3, <1>4, <1>5

(* The resident slots are as many as the budget pays for when none is      *)
(* free, and fewer otherwise.                                              *)
LEMMA FullMeansCapacity ==
  ASSUME StorageInv
  PROVE  /\ Held = Slots => Len(order) = Cardinality(Slots)
         /\ Held # Slots => Len(order) < Cardinality(Slots)
  <1> DEFINE n == Len(order)
  <1>1. /\ order \in Seq(Slots) /\ Lists(order, Held) /\ Held \in SUBSET Slots
    BY HeldFacts DEF StorageInv, Stored, Lists
  <1>2. n \in Nat /\ IsFiniteSet(1 .. n) /\ Cardinality(1 .. n) = n
    <2>1. n \in Nat
      BY <1>1, LenProperties
    <2> QED  BY <2>1, FS_Interval
  <1>3. order \in Bijection(1 .. n, Held)
    <2>1. \A i \in 1 .. n : order[i] \in Held
      BY <1>1, ElementOfSeq DEF Lists
    <2>2. DOMAIN order = 1 .. n /\ order = [i \in 1 .. n |-> order[i]]
      BY <1>1, LenProperties
    <2>3. order \in [1 .. n -> Held]
      BY <2>1, <2>2
    <2>4. order \in Injection(1 .. n, Held)
      BY <1>1, <2>2, <2>3 DEF Injection, IsInjective, Lists, Distinct
    <2>5. order \in Surjection(1 .. n, Held)
      BY <1>1, <2>3 DEF Surjection, Lists
    <2> QED  BY <2>4, <2>5 DEF Bijection
  <1>4. IsFiniteSet(Held) /\ Cardinality(Held) = n
    <2>1. ExistsBijection(1 .. n, Held)
      BY <1>3 DEF ExistsBijection
    <2> QED  BY <1>2, <2>1, FS_Bijection
  <1>5. /\ IsFiniteSet(Slots) /\ Cardinality(Slots) \in Nat
        /\ Cardinality(Held) <= Cardinality(Slots)
        /\ Cardinality(Slots) = Cardinality(Held) => Slots = Held
    BY <1>1, SlotsAssumption, FS_Subset, FS_CardinalityType
  <1> QED  BY <1>2, <1>4, <1>5

(* A slot that goes to the end of the order, with its key or a new one.    *)
LEMMA SlotToTheEnd ==
  ASSUME StorageInv, NEW s \in Held, NEW next, Agree(slot_key, next, Held \ {s}),
         next[s] \in Keys
  PROVE  Recency(Append(RemoveFirst(order, s), s), next)
           = Append(RemoveFirst(Keyed, slot_key[s]), next[s])
  <1> DEFINE I == Held \ {s}
             r == RemoveFirst(order, s)
  <1>1. PICK p \in 1 .. Len(order) : order[p] = s
    BY MappedFacts DEF Lists
  <1>2. /\ Lists(order, Held) /\ Held \in SUBSET Slots
        /\ Named(slot_key, Held) /\ OneEach(slot_key, Held)
    BY MappedFacts
  <1>3. Lists(RemoveFirst(order, order[p]), Held \ {order[p]})
    BY <1>2, ListsRemoveFirst
  <1>4. Recency(RemoveFirst(order, order[p]), slot_key) = RemoveFirst(Keyed, slot_key[order[p]])
    BY <1>2, RecencyRemoved DEF Keyed
  <1>5. Lists(r, I) /\ Recency(r, slot_key) = RemoveFirst(Keyed, slot_key[s])
    BY <1>1, <1>3, <1>4
  <1>6. /\ I \in SUBSET Slots /\ Named(slot_key, I) /\ s \in Slots /\ s \notin I
    BY <1>2 DEF Named
  <1>7. Agree(slot_key, next, I)
    OBVIOUS
  <1> HIDE DEF I, r
  <1>8. Recency(Append(r, s), next) = Append(Recency(r, slot_key), next[s])
    <2>1. Joins(I, r, slot_key, next, s)
      BY <1>5, <1>6, <1>7 DEF Joins
    <2> QED  BY <2>1, RecencyAppended
  <1> QED  BY <1>5, <1>8 DEF r

(* Each operation of the world is one of the set, or changes nothing of it.*)
LEMMA MappedUse ==
  ASSUME StorageInv, NEW k \in Keys, MoveKeyToMru(k)
  PROVE  LRU!Use(k)
  <1> DEFINE s == directory[k]
  <1>1. /\ s \in Held /\ slot_key[s] = k /\ Resident(k)
    BY HeldFacts DEF MoveKeyToMru, StorageInv, DirectoryInv
  <1>2. Agree(slot_key, slot_key, Held \ {s})
    BY DEF Agree
  <1>3. Recency(Append(RemoveFirst(order, s), s), slot_key)
          = Append(RemoveFirst(Keyed, slot_key[s]), slot_key[s])
    BY <1>1, <1>2, SlotToTheEnd
  <1>6. /\ order' = Append(RemoveFirst(order, s), s)
        /\ UNCHANGED <<slot_key, directory, slot_generation, generation_clock>>
    BY DEF MoveKeyToMru
  <1>7. Keyed' = Append(RemoveFirst(Keyed, k), k)
    <2>1. Keyed' = Recency(order', slot_key')
      BY DEF Keyed
    <2> QED  BY <1>1, <1>3, <1>6, <2>1
  <1>8. Given' = Given
    BY <1>6 DEF Given, Generation, Resident
  <1>9. Given[k] # 0
    BY <1>1, MappedFacts DEF Given
  <1> QED  BY <1>6, <1>7, <1>8, <1>9, SameRemoveFirst
           DEF LRU!Use, LRU!Resident, Keyed, Recency, Given

(* evict of a resident key.                                                *)
LEMMA MappedEvict ==
  ASSUME StorageInv, NEW k \in Keys, Evict(k)
  PROVE  LRU!Evict(k)
  <1> DEFINE s == directory[k]
  <1>1. /\ s \in Held /\ slot_key[s] = k /\ Resident(k)
    BY HeldFacts DEF Evict, StorageInv, DirectoryInv
  <1>2. PICK p \in 1 .. Len(order) : order[p] = s
    BY <1>1, MappedFacts DEF Lists
  <1>3. Recency(RemoveFirst(order, s), slot_key) = RemoveFirst(Keyed, k)
    BY <1>1, <1>2, MappedFacts, RecencyRemoved DEF Keyed
  <1>4. /\ order' = RemoveFirst(order, s)
        /\ directory' = [directory EXCEPT ![k] = Npos]
        /\ UNCHANGED <<slot_key, slot_generation, generation_clock>>
    BY <1>1 DEF Evict, Released
  <1>5. Keyed' = RemoveFirst(Keyed, k)
    BY <1>3, <1>4 DEF Keyed
  <1>6. Given' = [Given EXCEPT ![k] = 0]
    <2>1. directory \in [Keys -> SlotOrNone]
      BY DEF StorageInv, StorageTypeOK
    <2> QED  BY <1>4, <2>1 DEF Given, Generation, Resident
  <1>7. Given[k] # 0
    BY <1>1, MappedFacts DEF Given
  <1> QED  BY <1>4, <1>5, <1>6, <1>7, SameRemoveFirst
           DEF LRU!Evict, LRU!Resident, Keyed, Recency, Given

(* The keys and generations after a materialization.                       *)
LEMMA MaterializedNames ==
  ASSUME StorageInv, NEW k \in Keys, NEW s, Materialized(k, s)
  PROVE  /\ slot_key'[s] = k /\ s \in Slots
         /\ Agree(slot_key, slot_key', Held \ {s})
         /\ Keyed' = Recency(order', slot_key')
         /\ \A j \in Keys : Given'[j] = IF j = k THEN generation_clock + 1
                                         ELSE IF directory[j] = s THEN 0 ELSE Given[j]
         /\ generation_clock' = generation_clock + 1
  <1>1. /\ s \in Slots /\ s # Npos /\ directory'[k] = s /\ slot_generation'[s] = generation_clock + 1
        /\ \A j \in Keys : j # k => directory'[j] = IF directory[j] = s THEN Npos ELSE directory[j]
        /\ \A t \in Slots : t # s => slot_key'[t] = slot_key[t] /\ slot_generation'[t] = slot_generation[t]
        /\ generation_clock' = generation_clock + 1
    BY SlotsAssumption DEF Materialized
  <1>2. slot_key'[s] = k
    BY <1>1 DEF Materialized, StorageInv, DirectoryInv, Resident
  <1>3. Held \in SUBSET Slots
    BY HeldFacts
  <1>4. Agree(slot_key, slot_key', Held \ {s})
    BY <1>1, <1>3 DEF Agree
  <1>5. Keyed' = Recency(order', slot_key')
    BY DEF Keyed
  <1>6. ASSUME NEW j \in Keys
        PROVE  Given'[j] = IF j = k THEN generation_clock + 1
                           ELSE IF directory[j] = s THEN 0 ELSE Given[j]
    <2>1. Given[j] = Generation(j) /\ Given'[j] = Generation(j)'
      BY DEF Given
    <2>2. CASE j = k
      BY <1>1, <2>1, <2>2 DEF Generation, Resident
    <2>3. CASE j # k
      <3>1. directory[j] \in SlotOrNone
        BY DEF StorageInv, StorageTypeOK
      <3>2. CASE directory[j] = s
        <4>1. directory'[j] = Npos
          BY <1>1, <2>3, <3>2
        <4> QED  BY <2>1, <2>3, <3>2, <4>1 DEF Generation, Resident
      <3>3. CASE directory[j] # s
        <4>1. directory'[j] = directory[j]
          BY <1>1, <2>3, <3>3
        <4>2. directory[j] = Npos \/ slot_generation'[directory[j]] = slot_generation[directory[j]]
          BY <1>1, <3>1, <3>3 DEF SlotOrNone
        <4> QED  BY <2>1, <2>3, <3>3, <4>1, <4>2 DEF Generation, Resident
      <3> QED  BY <3>2, <3>3
    <2> QED  BY <2>2, <2>3
  <1> QED  BY <1>1, <1>2, <1>4, <1>5, <1>6

(* An absent key takes a free slot: there was room.                        *)
LEMMA MappedFreeSlot ==
  ASSUME StorageInv, NEW k \in Keys, ~Resident(k), MaterializeInFreeSlot(k),
         generation_clock < MaxGeneration
  PROVE  LRU!Materialize(k)
  <1>1. PICK s \in Slots : s \notin Held /\ Materialized(k, s) /\ order' = Append(order, s)
    BY FreeSlotMaterializes
  <1>2. /\ slot_key'[s] = k /\ Agree(slot_key, slot_key', Held \ {s})
        /\ Keyed' = Recency(order', slot_key')
        /\ \A j \in Keys : Given'[j] = IF j = k THEN generation_clock + 1
                                        ELSE IF directory[j] = s THEN 0 ELSE Given[j]
        /\ generation_clock' = generation_clock + 1
    BY <1>1, MaterializedNames
  <1>3. Joins(Held, order, slot_key, slot_key', s)
    <2>1. Held \ {s} = Held
      BY <1>1
    <2>2. Agree(slot_key, slot_key', Held)
      BY <1>2, <2>1
    <2> QED  BY <1>1, <1>2, <2>2, MappedFacts DEF Joins
  <1>4. Recency(Append(order, s), slot_key') = Append(Recency(order, slot_key), slot_key'[s])
    BY <1>3, RecencyAppended
  <1>5. Keyed' = Append(Keyed, k)
    BY <1>1, <1>2, <1>4 DEF Keyed
  <1>6. \A j \in Keys : directory[j] # s
    BY <1>1 DEF Held
  <1>7. Given' = [Given EXCEPT ![k] = generation_clock + 1]
    <2>1. \A j \in Keys : Given'[j] = [Given EXCEPT ![k] = generation_clock + 1][j]
      BY <1>2, <1>6 DEF Given
    <2> QED  BY <2>1 DEF Given
  <1>8. Len(Keyed) < Cardinality(Slots)
    <2>1. Held # Slots
      BY <1>1
    <2> QED  BY <2>1, FullMeansCapacity, MappedFacts
  <1>9. Given[k] = 0
    BY MappedFacts DEF Given
  <1> QED  BY <1>2, <1>5, <1>7, <1>8, <1>9
           DEF LRU!Materialize, LRU!MaterializeInto, LRU!Resident, Keyed, Recency, Given

(* Taking the first of distinct elements out leaves the tail.              *)
LEMMA FirstRemoved ==
  ASSUME NEW S, NEW q \in Seq(S), Distinct(q), q # << >>
  PROVE  RemoveFirst(q, q[1]) = Tail(q)
  <1> DEFINE r == RemoveFirst(q, q[1])
             u == Tail(q)
             n == Len(q) - 1
  <1>1. 1 \in 1 .. Len(q) /\ n \in Nat
    BY EmptySeq, LenProperties
  <1>2. /\ r \in Seq(S) /\ Len(r) = n
        /\ \A i \in 1 .. n : r[i] = IF i < 1 THEN q[i] ELSE q[i + 1]
    BY <1>1, RemovedFirst
  <1>3. /\ u \in Seq(S) /\ Len(u) = n /\ \A i \in 1 .. Len(u) : u[i] = q[i + 1]
    BY HeadTailProperties
  <1> HIDE DEF r, u, n
  <1>4. \A i \in 1 .. n : r[i] = u[i]
    BY <1>1, <1>2, <1>3
  <1>5. r = u
    BY <1>2, <1>3, <1>4, SeqEqual
  <1> QED  BY <1>5 DEF r, u

(* With no slot free, the least recently used key makes room.              *)
LEMMA MappedVictim ==
  ASSUME StorageInv, NEW k \in Keys, ~Resident(k), MaterializeInVictim(k),
         generation_clock < MaxGeneration
  PROVE  LRU!Materialize(k)
  <1>1. PICK s \in Slots :
          /\ Held = Slots /\ Materialized(k, s)
          /\ 1 \in 1 .. Len(order) /\ s = order[1]
          /\ order' = Append(RemoveFirst(order, s), s)
    BY VictimMaterializes
  <1> DEFINE v == slot_key[s]
  <1>2. /\ slot_key'[s] = k /\ Agree(slot_key, slot_key', Held \ {s})
        /\ Keyed' = Recency(order', slot_key')
        /\ \A j \in Keys : Given'[j] = IF j = k THEN generation_clock + 1
                                        ELSE IF directory[j] = s THEN 0 ELSE Given[j]
        /\ generation_clock' = generation_clock + 1
    <2>1. Materialized(k, s)
      BY <1>1
    <2> QED  BY <2>1, MaterializedNames, Zenon
  <1>3. Keyed' = Append(RemoveFirst(Keyed, v), k)
    <2>1. Recency(Append(RemoveFirst(order, s), s), slot_key')
            = Append(RemoveFirst(Keyed, slot_key[s]), slot_key'[s])
      BY <1>1, <1>2, SlotToTheEnd
    <2> QED  BY <1>1, <1>2, <2>1
  <1>4. /\ Keyed \in Seq(Keys) /\ Len(Keyed) = Len(order) /\ Len(order) \in Nat
        /\ \A i \in 1 .. Len(order) : Keyed[i] = slot_key[order[i]]
    BY MappedFacts
  <1>5. v = Keyed[1] /\ Head(Keyed) = v /\ Keyed # << >>
    BY <1>1, <1>4
  <1>6. RemoveFirst(Keyed, v) = Tail(Keyed)
    <2>1. Distinct(Keyed)
      <3>1. \A i, j \in 1 .. Len(order) : order[i] = order[j] => i = j
        BY MappedFacts, Zenon DEF Lists, Distinct
      <3>2. \A i \in 1 .. Len(order) : order[i] \in Held
        BY MappedFacts, RecencyIsASeq
      <3>3. \A a, b \in Held : slot_key[a] = slot_key[b] => a = b
        BY MappedFacts DEF OneEach
      <3> QED  BY <1>4, <3>1, <3>2, <3>3 DEF Distinct
    <2>2. Keyed \in Seq(Keys) /\ Keyed # << >>
      BY <1>4, <1>5
    <2>6. RemoveFirst(Keyed, Keyed[1]) = Tail(Keyed)
      BY <2>1, <2>2, FirstRemoved
    <2> QED  BY <1>5, <2>6
  <1>7. \A j \in Keys : directory[j] = s <=> j = v
    BY <1>1, HeldFacts
  <1>8. v \in Keys
    BY <1>1, HeldFacts
  <1> HIDE DEF v
  <1>9. Given' = [[Given EXCEPT ![v] = 0] EXCEPT ![k] = generation_clock + 1]
    <2>1. \A j \in Keys :
            Given'[j] = [[Given EXCEPT ![v] = 0] EXCEPT ![k] = generation_clock + 1][j]
      BY <1>2, <1>7, <1>8 DEF Given
    <2> QED  BY <2>1 DEF Given
  <1>10. Len(Keyed) = Cardinality(Slots)
    BY <1>1, FullMeansCapacity, MappedFacts
  <1>11. Given[k] = 0
    BY MappedFacts DEF Given
  <1>12. Keyed' = Append(Tail(Keyed), k)
    BY <1>3, <1>6
  <1> QED  BY <1>2, <1>5, <1>9, <1>10, <1>11, <1>12
           DEF LRU!Materialize, LRU!MaterializeInto, LRU!Resident, Keyed, Recency, Given

(* Every step of the world is a step of the bounded set, or none.          *)
LEMMA MappedStep ==
  ASSUME WorldInv, [Next]_vars
  PROVE  [LRU!Next]_LRU!vars
  <1>1. StorageInv /\ MetaInv
    BY DEF WorldInv
  <1>2. CASE UNCHANGED vars \/ Editing
    <2>1. UNCHANGED storageVars
      <3>1. CASE UNCHANGED vars
        BY <3>1 DEF vars
      <3>2. CASE Editing
        BY <1>1, <3>2, EditingKeeps
      <3> QED  BY <1>2, <3>1, <3>2
    <2>2. UNCHANGED <<order, slot_key, directory, slot_generation, generation_clock>>
      BY <2>1 DEF storageVars
    <2>3. UNCHANGED LRU!vars
      BY <2>2 DEF LRU!vars, Generation, Resident
    <2> QED  BY <2>3
  <1>3. ASSUME NEW k \in Keys, MoveKeyToMru(k) PROVE LRU!Next
    BY <1>1, <1>3, MappedUse DEF LRU!Next
  <1>4. ASSUME NEW k \in Keys, Evict(k) PROVE LRU!Next
    BY <1>1, <1>4, MappedEvict DEF LRU!Next
  <1>5. ASSUME NEW k \in Keys, ~Resident(k), generation_clock < MaxGeneration,
               MaterializeInFreeSlot(k) \/ MaterializeInVictim(k)
        PROVE  LRU!Next
    BY <1>1, <1>5, MappedFreeSlot, MappedVictim DEF LRU!Next
  <1> QED  BY <1>2, <1>3, <1>4, <1>5, StepKinds

(* The slots, lists and arrays of the world implement a bounded set of     *)
(* chunks that evicts the least recently used one and never repeats a      *)
(* generation (ensure_resident, touch, evict), for every shape and budget. *)
THEOREM WorldRefinesResidentSet == Spec => ImplementsResidentSet
  <1> QED  BY MappedInit, MappedStep, WorldAlways, PTL DEF Spec, ImplementsResidentSet, LRU!Spec

-----------------------------------------------------------------------------
(* The chunk directory.                                                    *)

(* A set of naturals has a least element. *)
LEMMA LeastNumber ==
    ASSUME NEW T \in SUBSET Nat, T # {}
    PROVE  \E m \in T : \A k \in T : m <= k
  <1> DEFINE R == OpToRel(<, Nat)
  <1>1. IsWellFoundedOn(R, Nat)
    BY NatLessThanWellFounded
  <1>2. R = {ss \in Nat \X Nat : ss[1] < ss[2]}
    BY DEF OpToRel
  <1> HIDE DEF R
  <1>3. PICK m \in T : \A k \in T : ~(<<k, m>> \in R)
    BY <1>1, WFMin
  <1>4. \A k \in T : ~(k < m)
    BY <1>2, <1>3
  <1> QED BY <1>4

(* From 0 up to N, by the least counterexample. *)
LEMMA BoundedInduction ==
    ASSUME NEW N \in Nat, NEW S, 0 \in S, \A n \in 1 .. N : n - 1 \in S => n \in S
    PROVE  \A n \in 0 .. N : n \in S
  <1> DEFINE T == {n \in 0 .. N : n \notin S}
  <1>1. ASSUME T # {} PROVE FALSE
    <2>1. T \in SUBSET Nat
      OBVIOUS
    <2>2. PICK m \in T : \A k \in T : m <= k
      <3> HIDE DEF T
      <3> QED BY <1>1, <2>1, LeastNumber
    <2>3. m \in 1 .. N /\ m - 1 \in 0 .. N
      OBVIOUS
    <2>4. m - 1 \notin T
      <3> HIDE DEF T
      <3> QED BY <2>2, <2>3
    <2> QED BY <2>3, <2>4
  <1> QED BY <1>1

(* f takes its first value z and then a step at a time. *)
Runs(f, z, step, V, n) ==
  /\ f \in [0 .. n -> V]
  /\ f[0] = z
  /\ \A p \in 1 .. n : f[p] = step[<<p, f[p - 1]>>]

(* A loop of N steps that stay among the values V has its run. *)
LEMMA RunExists ==
    ASSUME NEW N \in Nat, NEW V, NEW z \in V, NEW step,
           \A n \in 1 .. N, v \in V : step[<<n, v>>] \in V
    PROVE  \E f : Runs(f, z, step, V, N)
  <1> DEFINE S == {n \in 0 .. N : \E f : Runs(f, z, step, V, n)}
  <1>1. 0 \in S
    <2> DEFINE f == [p \in 0 .. 0 |-> z]
    <2>1. Runs(f, z, step, V, 0)
      BY DEF Runs
    <2> HIDE DEF f
    <2> QED BY <2>1
  <1>2. ASSUME NEW n \in 1 .. N, n - 1 \in S PROVE n \in S
    <2>1. PICK f : Runs(f, z, step, V, n - 1)
      BY <1>2
    <2> DEFINE g == [p \in 0 .. n |-> IF p < n THEN f[p] ELSE step[<<n, f[n - 1]>>]]
    <2>2. n - 1 \in 0 .. n - 1 /\ f[n - 1] \in V
      BY <2>1 DEF Runs
    <2>3. step[<<n, f[n - 1]>>] \in V
      BY <2>2
    <2>4. g \in [0 .. n -> V]
      BY <2>1, <2>3 DEF Runs
    <2>5. \A p \in 0 .. n - 1 : g[p] = f[p]
      OBVIOUS
    <2>6. g[n] = step[<<n, f[n - 1]>>]
      OBVIOUS
    <2> HIDE DEF g
    <2>7. \A p \in 1 .. n : g[p] = step[<<p, g[p - 1]>>]
      <3> TAKE p \in 1 .. n
      <3>1. CASE p = n
        BY <2>2, <2>5, <2>6, <3>1
      <3>2. CASE p # n
        <4>1. p \in 1 .. n - 1 /\ p \in 0 .. n - 1 /\ p - 1 \in 0 .. n - 1
          BY <3>2
        <4> QED BY <2>1, <2>5, <4>1 DEF Runs
      <3> QED BY <3>1, <3>2
    <2>8. g[0] = z
      BY <2>1, <2>5 DEF Runs
    <2>9. Runs(g, z, step, V, n)
      BY <2>4, <2>7, <2>8 DEF Runs
    <2> QED BY <2>9
  <1>3. \A n \in 0 .. N : n \in S
    <2> HIDE DEF S
    <2> QED BY <1>1, <1>2, BoundedInduction
  <1>4. N \in S
    <2> HIDE DEF S
    <2> QED BY <1>3
  <1> QED BY <1>4

(* The doubling of the table. *)
Doubled(n) == [x \in (1 .. n) \X Nat |-> IF x[2] < n * 2 THEN x[2] * 2 ELSE x[2]]

(* The table has two buckets or more, and more than n. *)
LEMMA TableIsLarger ==
    ASSUME NEW n \in Nat
    PROVE  TableSize(n) \in Nat /\ TableSize(n) >= 2 /\ n < TableSize(n)
  <1> DEFINE T == CHOOSE F : F = [p \in 0 .. n |->
                    IF p = 0 THEN 2 ELSE IF F[p - 1] < n * 2 THEN F[p - 1] * 2 ELSE F[p - 1]]
  <1>1. TableSize(n) = T[n]
    BY Zenon DEF TableSize
  <1>2. PICK f : Runs(f, 2, Doubled(n), Nat, n)
    <2>1. \A p \in 1 .. n, v \in Nat : Doubled(n)[<<p, v>>] \in Nat
      BY DEF Doubled
    <2> QED BY <2>1, RunExists
  <1>3. f = [p \in 0 .. n |->
               IF p = 0 THEN 2 ELSE IF f[p - 1] < n * 2 THEN f[p - 1] * 2 ELSE f[p - 1]]
    <2>1. \A p \in 1 .. n : f[p] = IF f[p - 1] < n * 2 THEN f[p - 1] * 2 ELSE f[p - 1]
      <3> TAKE p \in 1 .. n
      <3>1. p - 1 \in 0 .. n /\ f[p - 1] \in Nat
        BY <1>2 DEF Runs
      <3> QED BY <1>2, <3>1 DEF Runs, Doubled
    <2>2. f \in [0 .. n -> Nat] /\ f[0] = 2
      BY <1>2 DEF Runs
    <2>3. \A p \in 0 .. n : p = 0 \/ p \in 1 .. n
      OBVIOUS
    <2> QED BY <2>1, <2>2, <2>3
  <1>4. T = [p \in 0 .. n |->
               IF p = 0 THEN 2 ELSE IF T[p - 1] < n * 2 THEN T[p - 1] * 2 ELSE T[p - 1]]
    BY <1>3, Zenon
  <1> HIDE DEF T
  <1> DEFINE S == {p \in 0 .. n : T[p] \in Nat /\ T[p] >= 2 /\ (T[p] >= n * 2 \/ T[p] >= (p + 1) * 2)}
  <1>5. 0 \in S
    BY <1>4
  <1>6. ASSUME NEW p \in 1 .. n, p - 1 \in S PROVE p \in S
    <2>1. T[p] = IF T[p - 1] < n * 2 THEN T[p - 1] * 2 ELSE T[p - 1]
      BY <1>4
    <2> QED BY <1>6, <2>1
  <1>7. n \in S
    <2>1. \A p \in 0 .. n : p \in S
      <3> HIDE DEF S
      <3> QED BY <1>5, <1>6, BoundedInduction
    <2> HIDE DEF S
    <2> QED BY <2>1
  <1> QED BY <1>1, <1>7

-----------------------------------------------------------------------------
(* Round the table.                                                        *)

(* The steps of a probe from a to b in a table of n buckets. *)
Dist(n, a, b) == IF a <= b THEN b - a ELSE b - a + n

(* The bucket d steps on: past the last one, from the first on. *)
LEMMA AfterIs ==
    ASSUME size \in Nat, NEW i \in 0 .. size - 1, NEW d \in 0 .. size
    PROVE  After(i, d) = IF i + d < size THEN i + d ELSE i + d - size
  <1> DEFINE q == (i + d) \div size
             r == (i + d) % size
  <1>1. r \in 0 .. size - 1 /\ q \in Int /\ i + d = size * q + r
    BY SMT
  <1> HIDE DEF q, r
  <1>2. i + d < 2 * size /\ i + d >= 0
    OBVIOUS
  <1>3. size * q <= i + d /\ i + d < size * q + size
    BY <1>1
  <1>4. q = 0 \/ q = 1
    <2>1. CASE q >= 2
      <3>1. size * q >= size * 2
        BY <1>1, <2>1, SMT
      <3> QED BY <1>1, <1>2, <1>3, <3>1, SMT
    <2>2. CASE q <= -1
      <3>1. size * q <= size * (-1)
        BY <1>1, <2>2, SMT
      <3> QED BY <1>1, <1>2, <1>3, <3>1, SMT
    <2> QED BY <1>1, <2>1, <2>2
  <1> QED BY <1>1, <1>4 DEF After, r

(* Steps and distances are inverse to each other. *)
LEMMA AfterDist ==
    ASSUME size \in Nat, NEW i \in 0 .. size - 1
    PROVE  /\ \A d \in 0 .. size - 1 : After(i, d) \in 0 .. size - 1 /\ Dist(size, i, After(i, d)) = d
           /\ \A y \in 0 .. size - 1 : Dist(size, i, y) \in 0 .. size - 1 /\ After(i, Dist(size, i, y)) = y
  <1>1. ASSUME NEW d \in 0 .. size - 1
        PROVE  After(i, d) \in 0 .. size - 1 /\ Dist(size, i, After(i, d)) = d
    <2>1. After(i, d) = IF i + d < size THEN i + d ELSE i + d - size
      BY AfterIs
    <2> QED BY <2>1 DEF Dist
  <1>2. ASSUME NEW y \in 0 .. size - 1
        PROVE  Dist(size, i, y) \in 0 .. size - 1 /\ After(i, Dist(size, i, y)) = y
    <2>1. Dist(size, i, y) \in 0 .. size - 1
      BY DEF Dist
    <2>2. After(i, Dist(size, i, y)) = IF i + Dist(size, i, y) < size THEN i + Dist(size, i, y) ELSE i + Dist(size, i, y) - size
      BY <2>1, AfterIs
    <2> QED BY <2>1, <2>2 DEF Dist
  <1> QED BY <1>1, <1>2

(* A probe ends at the first bucket of S. *)
LEMMA FirstInIsFirst ==
    ASSUME size \in Nat, NEW i \in 0 .. size - 1, NEW S \in SUBSET (0 .. size - 1), S # {}
    PROVE  /\ FirstIn(S, i) \in S
           /\ \A y \in 0 .. size - 1 : Dist(size, i, y) < Dist(size, i, FirstIn(S, i)) => y \notin S
  <1> DEFINE T == {Dist(size, i, y) : y \in S}
  <1>1. T \in SUBSET Nat /\ T # {}
    <2>1. ASSUME NEW y \in S PROVE Dist(size, i, y) \in Nat
      <3>1. Dist(size, i, y) \in 0 .. size - 1
        BY AfterDist
      <3> QED BY <3>1
    <2> QED BY <2>1
  <1>2. PICK m \in T : \A k \in T : m <= k
    <2> HIDE DEF T
    <2> QED BY <1>1, LeastNumber
  <1>3. PICK x \in S : m = Dist(size, i, x)
    OBVIOUS
  <1>4. m \in 0 .. size - 1 /\ After(i, m) = x
    BY <1>3, AfterDist
  <1>5. ASSUME NEW e \in 0 .. m - 1 PROVE After(i, e) \notin S
    <2>1. e \in 0 .. size - 1
      BY <1>4
    <2>2. Dist(size, i, After(i, e)) = e
      BY <2>1, AfterDist
    <2>3. After(i, e) \in S => e \in T
      BY <2>2
    <2> HIDE DEF T
    <2> QED BY <1>2, <1>4, <2>3
  <1> DEFINE d == CHOOSE d \in 0 .. size - 1 :
                    After(i, d) \in S /\ \A e \in 0 .. d - 1 : After(i, e) \notin S
  <1>6. d \in 0 .. size - 1 /\ After(i, d) \in S /\ \A e \in 0 .. d - 1 : After(i, e) \notin S
    <2>1. After(i, m) \in S
      BY <1>4
    <2> QED BY <1>4, <1>5, <2>1, Zenon
  <1>7. FirstIn(S, i) = After(i, d)
    BY Zenon DEF FirstIn
  <1> HIDE DEF d, T
  <1>8. Dist(size, i, FirstIn(S, i)) = d
    BY <1>6, <1>7, AfterDist
  <1>9. ASSUME NEW y \in 0 .. size - 1, Dist(size, i, y) < d PROVE y \notin S
    <2>1. Dist(size, i, y) \in 0 .. d - 1 /\ After(i, Dist(size, i, y)) = y
      BY <1>6, <1>9, AfterDist
    <2> QED BY <1>6, <2>1
  <1> QED BY <1>6, <1>7, <1>8, <1>9

-----------------------------------------------------------------------------
(* The table.                                                              *)

Records == [occupied : {FALSE}] \cup [occupied : {TRUE}, key : DirectoryKeys, slot : DirectorySlots]

(* What is in a bucket. *)
LEMMA RecordFacts ==
    /\ Empty \in Records /\ Empty.occupied = FALSE
    /\ \A k \in DirectoryKeys, s \in DirectorySlots :
         /\ Bucket(k, s) \in Records /\ Bucket(k, s).occupied = TRUE
         /\ Bucket(k, s).key = k /\ Bucket(k, s).slot = s
    /\ \A r \in Records :
         /\ r.occupied \in BOOLEAN
         /\ r.occupied => r.key \in DirectoryKeys /\ r.slot \in DirectorySlots
  BY DEF Records, Empty, Bucket

(* The occupied buckets of X hold the map m, each entry once. *)
Holds(b, m, X) ==
  /\ \A x \in X : b[x].occupied => m[b[x].key] = b[x].slot
  /\ \A x, y \in X : b[x].occupied /\ b[y].occupied /\ b[x].key = b[y].key => x = y
  /\ \A k \in DirectoryKeys : m[k] # npos => \E x \in X : b[x].occupied /\ b[x].key = k

(* A probe for the key of a bucket of X comes to that bucket. *)
Chained(n, h, b, X) ==
  \A x \in X, y \in 0 .. n - 1 :
    b[x].occupied /\ Dist(n, h[b[x].key], y) < Dist(n, h[b[x].key], x) => b[y].occupied

TableOK(n, h, b, m) ==
  /\ b \in [0 .. n - 1 -> Records]
  /\ Holds(b, m, 0 .. n - 1)
  /\ Chained(n, h, b, 0 .. n - 1)

TableTyped ==
  /\ size \in Nat
  /\ home \in [DirectoryKeys -> 0 .. size - 1]
  /\ map \in [DirectoryKeys -> DirectorySlots \cup {npos}]

Occupied(n, b) == {x \in 0 .. n - 1 : b[x].occupied}

(* There are as many occupied buckets as entries. *)
LEMMA AsManyAsEntries ==
    ASSUME TableTyped, TableOK(size, home, buckets, map)
    PROVE  /\ Cardinality(Occupied(size, buckets)) = Cardinality(Entries)
           /\ IsFiniteSet(Occupied(size, buckets))
  <1> DEFINE O == Occupied(size, buckets)
             f == [x \in O |-> buckets[x].key]
  <1>1. \A x \in O : x \in 0 .. size - 1 /\ buckets[x].occupied /\ buckets[x] \in Records
    BY DEF Occupied, TableOK
  <1>2. \A x \in O : f[x] \in DirectoryKeys /\ map[f[x]] \in DirectorySlots
    BY <1>1, RecordFacts DEF TableOK, Holds
  <1>3. f \in [O -> Entries]
    BY <1>2, DirectoryAssumption DEF Entries
  <1>4. \A x, y \in O : f[x] = f[y] => x = y
    BY <1>1 DEF TableOK, Holds
  <1>5. ASSUME NEW k \in Entries PROVE \E x \in O : f[x] = k
    <2>1. PICK x \in 0 .. size - 1 : buckets[x].occupied /\ buckets[x].key = k
      BY DEF Entries, TableOK, Holds
    <2>2. x \in O
      BY <2>1 DEF Occupied
    <2> QED BY <2>1, <2>2
  <1> HIDE DEF f
  <1>6. f \in Bijection(O, Entries)
    BY <1>3, <1>4, <1>5, Zenon DEF Bijection, Injection, Surjection, IsInjective
  <1>7. IsFiniteSet(O)
    <2>1. O \subseteq 0 .. size - 1
      BY DEF Occupied
    <2>2. 0 \in Int /\ size - 1 \in Int
      BY DEF TableTyped
    <2>3. IsFiniteSet(0 .. size - 1)
      BY <2>2, FS_Interval
    <2> QED BY <2>1, <2>3, FS_Subset
  <1>8. ExistsBijection(O, Entries)
    BY <1>6 DEF ExistsBijection
  <1> QED BY <1>7, <1>8, FS_Bijection

(* A table that holds fewer entries than buckets has a free bucket. *)
LEMMA FreeBucket ==
    ASSUME TableTyped, TableOK(size, home, buckets, map), capacity \in Nat,
           Cardinality(Entries) <= capacity, capacity < size
    PROVE  /\ Free # {} /\ Free \in SUBSET (0 .. size - 1)
           /\ \A x \in 0 .. size - 1 : x \in Free <=> ~buckets[x].occupied
  <1>1. DOMAIN buckets = 0 .. size - 1
    BY DEF TableOK
  <1>2. ASSUME Free = {} PROVE FALSE
    <2>1. Occupied(size, buckets) = 0 .. size - 1
      BY <1>1, <1>2 DEF Free, Occupied
    <2>2. Cardinality(0 .. size - 1) = size
      <3>1. 0 \in Int /\ size - 1 \in Int /\ 0 <= size - 1
        BY DEF TableTyped
      <3>2. Cardinality(0 .. size - 1) = size - 1 - 0 + 1
        BY <3>1, FS_Interval
      <3> QED BY <3>2 DEF TableTyped
    <2>3. Cardinality(Occupied(size, buckets)) = Cardinality(Entries)
      BY AsManyAsEntries
    <2>4. size = Cardinality(Entries)
      BY <2>1, <2>2, <2>3
    <2> QED BY <2>4 DEF TableTyped
  <1> QED BY <1>1, <1>2 DEF Free

(* A probe for k ends at the entry of k, or at a free bucket when there is *)
(* none.                                                                   *)
LEMMA ProbeFinds ==
    ASSUME TableTyped, TableOK(size, home, buckets, map), capacity \in Nat,
           Cardinality(Entries) <= capacity, capacity < size, NEW k \in DirectoryKeys
    PROVE  LET p == Probe(home[k], k) IN
           /\ p \in 0 .. size - 1
           /\ buckets[p] \in Records
           /\ buckets[p].occupied => buckets[p].key = k /\ buckets[p].slot = map[k]
           /\ ~buckets[p].occupied => map[k] = npos
  <1> DEFINE p == Probe(home[k], k)
             S == Free \cup Holding(k)
  <1>0. size \in Nat /\ home[k] \in 0 .. size - 1
    BY DEF TableTyped
  <1>1. /\ S # {} /\ S \in SUBSET (0 .. size - 1)
        /\ \A x \in 0 .. size - 1 : x \in S <=> (buckets[x].occupied => buckets[x].key = k)
    <2>1. DOMAIN buckets = 0 .. size - 1
      BY DEF TableOK
    <2>2. /\ Free # {} /\ Free \in SUBSET (0 .. size - 1)
          /\ \A x \in 0 .. size - 1 : x \in Free <=> ~buckets[x].occupied
      BY FreeBucket
    <2>3. /\ Holding(k) \in SUBSET (0 .. size - 1)
          /\ \A x \in 0 .. size - 1 : x \in Holding(k) <=> buckets[x].occupied /\ buckets[x].key = k
      BY <2>1 DEF Holding
    <2> QED BY <2>2, <2>3
  <1>2. /\ p \in S
        /\ \A y \in 0 .. size - 1 : Dist(size, home[k], y) < Dist(size, home[k], p) => y \notin S
    <2>1. p = FirstIn(S, home[k])
      BY DEF Probe
    <2> HIDE DEF p, S
    <2> QED BY <1>0, <1>1, <2>1, FirstInIsFirst
  <1> HIDE DEF p, S
  <1>3. p \in 0 .. size - 1 /\ buckets[p] \in Records
    BY <1>1, <1>2 DEF TableOK
  <1>4. buckets[p].occupied => buckets[p].key = k /\ buckets[p].slot = map[k]
    <2>1. buckets[p].occupied => map[buckets[p].key] = buckets[p].slot
      BY <1>3 DEF TableOK, Holds
    <2> QED BY <1>1, <1>2, <1>3, <2>1
  <1>5. ASSUME ~buckets[p].occupied, map[k] # npos PROVE FALSE
    <2>1. PICK x \in 0 .. size - 1 : buckets[x].occupied /\ buckets[x].key = k
      BY <1>5 DEF TableOK, Holds
    <2>2. ~(Dist(size, home[k], x) < Dist(size, home[k], p))
      BY <1>1, <1>2, <2>1
    <2>3. ~(Dist(size, home[k], p) < Dist(size, home[k], x))
      BY <1>3, <1>5, <2>1 DEF TableOK, Chained
    <2>4. x = p
      BY <1>0, <1>3, <2>2, <2>3 DEF Dist
    <2> QED BY <1>5, <2>1, <2>4
  <1>6. /\ p \in 0 .. size - 1
        /\ buckets[p] \in Records
        /\ buckets[p].occupied => buckets[p].key = k /\ buckets[p].slot = map[k]
        /\ ~buckets[p].occupied => map[k] = npos
    BY <1>3, <1>4, <1>5
  <1> QED BY <1>6, Zenon DEF p

(* The first free bucket of its probe takes a new entry. *)
LEMMA InsertedTable ==
    ASSUME TableTyped, TableOK(size, home, buckets, map), capacity \in Nat,
           Cardinality(Entries) <= capacity, capacity < size,
           NEW k \in DirectoryKeys, NEW s \in DirectorySlots, map[k] = npos
    PROVE  TableOK(size, home, [buckets EXCEPT ![ProbeFree(home[k])] = Bucket(k, s)],
                   [map EXCEPT ![k] = s])
  <1> DEFINE p == ProbeFree(home[k])
             b == [buckets EXCEPT ![p] = Bucket(k, s)]
             m == [map EXCEPT ![k] = s]
  <1>0. size \in Nat /\ home[k] \in 0 .. size - 1 /\ buckets \in [0 .. size - 1 -> Records]
    BY DEF TableTyped, TableOK
  <1>1. /\ Free # {} /\ Free \in SUBSET (0 .. size - 1)
        /\ \A x \in 0 .. size - 1 : x \in Free <=> ~buckets[x].occupied
    BY FreeBucket
  <1>2. /\ p \in Free
        /\ \A y \in 0 .. size - 1 : Dist(size, home[k], y) < Dist(size, home[k], p) => y \notin Free
    <2>1. p = FirstIn(Free, home[k])
      BY DEF ProbeFree
    <2> HIDE DEF p
    <2> QED BY <1>0, <1>1, <2>1, FirstInIsFirst
  <1> HIDE DEF p
  <1>3. p \in 0 .. size - 1 /\ ~buckets[p].occupied
    BY <1>1, <1>2
  <1>4. /\ b \in [0 .. size - 1 -> Records]
        /\ b[p] = Bucket(k, s) /\ \A x \in 0 .. size - 1 : x # p => b[x] = buckets[x]
    BY <1>0, <1>3, RecordFacts
  <1>5. m[k] = s /\ (\A l \in DirectoryKeys : l # k => m[l] = map[l])
    BY DEF TableTyped
  <1> HIDE DEF b, m
  <1>6. \A x \in 0 .. size - 1 : buckets[x].occupied =>
          /\ buckets[x].key \in DirectoryKeys /\ buckets[x].key # k
          /\ map[buckets[x].key] = buckets[x].slot
    <2> TAKE x \in 0 .. size - 1
    <2>1. buckets[x].occupied => buckets[x].key \in DirectoryKeys /\ buckets[x].slot \in DirectorySlots
      BY <1>0, RecordFacts
    <2>2. buckets[x].occupied => map[buckets[x].key] = buckets[x].slot
      BY DEF TableOK, Holds
    <2> QED BY <2>1, <2>2, DirectoryAssumption
  <1>7. b[p].occupied /\ b[p].key = k /\ b[p].slot = s
    BY <1>4, RecordFacts
  <1>8. Holds(b, m, 0 .. size - 1)
    <2>1. \A x \in 0 .. size - 1 : b[x].occupied => m[b[x].key] = b[x].slot
      BY <1>4, <1>5, <1>6, <1>7
    <2>2. \A x, y \in 0 .. size - 1 : b[x].occupied /\ b[y].occupied /\ b[x].key = b[y].key => x = y
      <3> TAKE x, y \in 0 .. size - 1
      <3>1. buckets[x].occupied /\ buckets[y].occupied /\ buckets[x].key = buckets[y].key => x = y
        BY DEF TableOK, Holds
      <3> QED BY <1>4, <1>6, <1>7, <3>1
    <2>3. ASSUME NEW l \in DirectoryKeys, m[l] # npos
          PROVE  \E x \in 0 .. size - 1 : b[x].occupied /\ b[x].key = l
      <3>1. CASE l = k
        BY <1>3, <1>7, <3>1
      <3>2. CASE l # k
        <4>1. PICK x \in 0 .. size - 1 : buckets[x].occupied /\ buckets[x].key = l
          BY <1>5, <2>3, <3>2 DEF TableOK, Holds
        <4> QED BY <1>3, <1>4, <4>1
      <3> QED BY <3>1, <3>2
    <2> QED BY <2>1, <2>2, <2>3 DEF Holds
  <1>9. Chained(size, home, b, 0 .. size - 1)
    <2> SUFFICES ASSUME NEW x \in 0 .. size - 1, NEW y \in 0 .. size - 1, b[x].occupied,
                        Dist(size, home[b[x].key], y) < Dist(size, home[b[x].key], x)
                 PROVE  b[y].occupied
      BY DEF Chained
    <2>1. CASE y = p
      BY <1>7, <2>1
    <2>2. CASE y # p /\ x = p
      BY <1>1, <1>2, <1>4, <1>7, <2>2
    <2>3. CASE y # p /\ x # p
      BY <1>4, <2>3 DEF TableOK, Chained
    <2> QED BY <2>1, <2>2, <2>3
  <1>10. TableOK(size, home, b, m)
    BY <1>4, <1>8, <1>9 DEF TableOK
  <1> QED BY <1>10, Zenon DEF b, m, p

-----------------------------------------------------------------------------
(* Deletion by shifting back.                                              *)

Others(i) == (0 .. size - 1) \ {i}

States == [buckets : [0 .. size - 1 -> Records], hole : 0 .. size - 1, done : BOOLEAN]

(* A probe over the hole does not come to x. *)
Avoids(at, x) ==
  ~(Dist(size, home[at.buckets[x].key], at.hole) < Dist(size, home[at.buckets[x].key], x))

(* After n buckets were looked at from i on: the table but for the hole is *)
(* right for the map m, no bucket was emptied, and what was looked at is   *)
(* not behind the hole.                                                    *)
Shifting(b, i, m, n, at) ==
  /\ \A x \in 0 .. size - 1 : at.buckets[x].occupied = b[x].occupied
  /\ Holds(at.buckets, m, Others(at.hole))
  /\ Chained(size, home, at.buckets, Others(at.hole))
  /\ b[at.hole].occupied
  /\ at.done => \A x \in Others(at.hole) : at.buckets[x].occupied => Avoids(at, x)
  /\ ~at.done =>
       /\ Dist(size, i, at.hole) <= n
       /\ \A y \in 0 .. size - 1 : Dist(size, i, y) <= n => b[y].occupied
       /\ \A x \in 0 .. size - 1 :
            Dist(size, i, at.hole) < Dist(size, i, x) /\ Dist(size, i, x) <= n => Avoids(at, x)

ShiftStep(i) == [x \in (1 .. size) \X States |-> ShiftBack(x[2], After(i, x[1]))]

(* Distances round the table. *)
LEMMA Round ==
    ASSUME NEW n \in Nat, NEW a \in 0 .. n - 1, NEW b \in 0 .. n - 1, NEW c \in 0 .. n - 1
    PROVE  /\ Dist(n, a, b) \in 0 .. n - 1
           /\ Dist(n, a, b) = Dist(n, a, c) => b = c
           /\ InCyclicRange(b, a, c) /\ b # c => Dist(n, a, c) < Dist(n, a, b)
           /\ ~InCyclicRange(b, a, c) /\ b # c => Dist(n, a, b) < Dist(n, a, c)
  BY DEF Dist, InCyclicRange

(* On the way from h to x over o, the way from o to x is passed. *)
LEMMA PassedOver ==
    ASSUME NEW n \in Nat, NEW h \in 0 .. n - 1, NEW o \in 0 .. n - 1, NEW x \in 0 .. n - 1,
           NEW j \in 0 .. n - 1, NEW i \in 0 .. n - 1,
           Dist(n, h, o) < Dist(n, h, x), Dist(n, i, o) < Dist(n, i, j),
           Dist(n, i, x) < Dist(n, i, o) \/ Dist(n, i, j) < Dist(n, i, x)
    PROVE  Dist(n, h, j) < Dist(n, h, x)
  BY DEF Dist

(* A look changes nothing but the table, the hole and the flag. *)
LEMMA ShiftTyped ==
    ASSUME TableTyped, NEW at \in States, NEW j \in 0 .. size - 1
    PROVE  ShiftBack(at, j) \in States
  <1>1. /\ at.buckets \in [0 .. size - 1 -> Records] /\ at.hole \in 0 .. size - 1 /\ at.done \in BOOLEAN
        /\ at = [buckets |-> at.buckets, hole |-> at.hole, done |-> at.done]
    BY DEF States
  <1>2. [at EXCEPT !.done = TRUE] \in States
    BY DEF States
  <1>3. [at EXCEPT !.buckets[at.hole] = at.buckets[j], !.hole = j] \in States
    <2>1. [at.buckets EXCEPT ![at.hole] = at.buckets[j]] \in [0 .. size - 1 -> Records]
      BY <1>1
    <2> DEFINE c == [at.buckets EXCEPT ![at.hole] = at.buckets[j]]
    <2>2. [at EXCEPT !.buckets[at.hole] = at.buckets[j], !.hole = j] =
            [[at EXCEPT !.buckets = c] EXCEPT !.hole = j]
      BY Zenon
    <2> HIDE DEF c
    <2>3. [[at EXCEPT !.buckets = c] EXCEPT !.hole = j] \in States
      BY <1>1, <2>1 DEF States, c
    <2> QED BY <2>2, <2>3
  <1> QED BY <1>2, <1>3 DEF ShiftBack

(* One look keeps the loop right. *)
LEMMA ShiftKeeps ==
    ASSUME TableTyped, NEW b \in [0 .. size - 1 -> Records], NEW i \in 0 .. size - 1, NEW m,
           NEW n \in 1 .. size, NEW at \in States, Shifting(b, i, m, n - 1, at),
           \E y \in 0 .. size - 1 : ~b[y].occupied
    PROVE  Shifting(b, i, m, n, ShiftBack(at, After(i, n)))
  <1> DEFINE j == After(i, n)
             o == at.hole
             c == at.buckets
             to == ShiftBack(at, j)
  <1>0. size \in Nat /\ o \in 0 .. size - 1 /\ c \in [0 .. size - 1 -> Records]
    BY DEF TableTyped, States
  <1>h. \A x \in 0 .. size - 1 : c[x].occupied => home[c[x].key] \in 0 .. size - 1
    BY <1>0, RecordFacts DEF TableTyped
  <1>1. CASE at.done
    <2>1. to.buckets = c /\ to.hole = o /\ to.done = TRUE
      BY <1>1 DEF ShiftBack, States
    <2> HIDE DEF to
    <2>2. Shifting(b, i, m, n, to)
      BY <1>1, <2>1 DEF Shifting, Avoids
    <2> QED BY <2>2, Zenon DEF to
  <1>2. CASE ~at.done
    <2>1. n < size
      <3>1. PICK y \in 0 .. size - 1 : ~b[y].occupied
        OBVIOUS
      <3>2. ~(Dist(size, i, y) <= n - 1)
        BY <1>2, <3>1 DEF Shifting
      <3>3. Dist(size, i, y) \in 0 .. size - 1
        BY <1>0, Round
      <3> QED BY <1>0, <3>2, <3>3
    <2>2. j \in 0 .. size - 1 /\ Dist(size, i, j) = n
      <3>1. n \in 0 .. size - 1
        BY <1>0, <2>1
      <3> QED BY <1>0, <3>1, AfterDist
    <2> HIDE DEF j
    <2>3. Dist(size, i, o) <= n - 1 /\ Dist(size, i, o) \in 0 .. size - 1 /\ o # j
      <3>1. Dist(size, i, o) <= n - 1
        BY <1>2 DEF Shifting
      <3>2. Dist(size, i, o) \in 0 .. size - 1
        BY <1>0, Round
      <3> QED BY <1>0, <2>2, <3>1, <3>2
    <2>4. CASE ~c[j].occupied
      <3>1. to.buckets = c /\ to.hole = o /\ to.done = TRUE
        BY <2>4 DEF ShiftBack, States
      <3> HIDE DEF to
      <3>2. ASSUME NEW x \in Others(o), c[x].occupied PROVE Avoids(to, x)
        <4> DEFINE h == home[c[x].key]
        <4>1. x \in 0 .. size - 1 /\ x # o /\ x # j /\ h \in 0 .. size - 1
          BY <1>h, <2>4, <3>2 DEF Others
        <4> HIDE DEF h
        <4>2. ASSUME Dist(size, h, o) < Dist(size, h, x) PROVE FALSE
          <5>0. Dist(size, i, x) \in 0 .. size - 1 /\ Dist(size, i, x) # n /\ Dist(size, i, x) # Dist(size, i, o)
            BY <1>0, <2>2, <4>1, Round
          <5>1. CASE Dist(size, i, x) < Dist(size, i, o) \/ n < Dist(size, i, x)
            <6>1. Dist(size, h, j) < Dist(size, h, x)
              BY <1>0, <2>2, <2>3, <4>1, <4>2, <5>1, PassedOver
            <6>2. c[j].occupied
              BY <2>2, <3>2, <6>1 DEF Shifting, Chained, h
            <6> QED BY <2>4, <6>2
          <5>2. CASE Dist(size, i, o) < Dist(size, i, x) /\ Dist(size, i, x) <= n - 1
            <6>1. Avoids(at, x)
              BY <1>2, <4>1, <5>2 DEF Shifting
            <6> QED BY <4>2, <6>1 DEF Avoids, h
          <5> QED BY <2>3, <5>0, <5>1, <5>2
        <4> QED BY <3>1, <4>2 DEF Avoids, h
      <3>3. Shifting(b, i, m, n, to)
        BY <1>0, <3>1, <3>2 DEF Shifting
      <3> QED BY <3>3, Zenon DEF to, j
    <2>5. CASE c[j].occupied /\ InCyclicRange(o, home[c[j].key], j)
      <3>1. to = at
        BY <1>2, <2>5 DEF ShiftBack
      <3> HIDE DEF to
      <3>2. b[j].occupied
        BY <2>2, <2>5 DEF Shifting
      <3>3. Avoids(at, j)
        <4>1. Dist(size, home[c[j].key], j) < Dist(size, home[c[j].key], o)
          BY <1>0, <1>h, <2>2, <2>3, <2>5, Round
        <4>2. /\ Dist(size, home[c[j].key], j) \in 0 .. size - 1
              /\ Dist(size, home[c[j].key], o) \in 0 .. size - 1
          BY <1>0, <1>h, <2>2, <2>5, Round
        <4> QED BY <4>1, <4>2 DEF Avoids
      <3>4. \A y \in 0 .. size - 1 : Dist(size, i, y) <= n => Dist(size, i, y) <= n - 1 \/ y = j
        BY <1>0, <2>2, Round
      <3>5. Dist(size, i, o) <= n
        BY <2>3
      <3>6. Shifting(b, i, m, n, at)
        BY <1>2, <3>2, <3>3, <3>4, <3>5 DEF Shifting
      <3> QED BY <3>1, <3>6, Zenon DEF to, j
    <2>6. CASE c[j].occupied /\ ~InCyclicRange(o, home[c[j].key], j)
      <3>1. to.buckets = [c EXCEPT ![o] = c[j]] /\ to.hole = j /\ to.done = FALSE
        BY <1>0, <1>2, <2>6 DEF ShiftBack, States
      <3> HIDE DEF to
      <3>2. b[j].occupied
        BY <2>2, <2>6 DEF Shifting
      <3> DEFINE d == to.buckets
      <3>3. /\ d[o] = c[j] /\ \A x \in 0 .. size - 1 : x # o => d[x] = c[x]
        BY <1>0, <3>1
      <3> HIDE DEF d
      <3>4. \A x \in 0 .. size - 1 : d[x].occupied = b[x].occupied
        <4>1. c[j].occupied = c[o].occupied
          <5>1. c[j].occupied = b[j].occupied /\ c[o].occupied = b[o].occupied
            BY <1>0, <2>2 DEF Shifting
          <5>2. b[o].occupied
            BY DEF Shifting
          <5>3. b[o].occupied \in BOOLEAN /\ b[j].occupied \in BOOLEAN
            BY <1>0, <2>2, RecordFacts
          <5> QED BY <3>2, <5>1, <5>2, <5>3
        <4> QED BY <1>0, <3>3, <4>1 DEF Shifting
      <3>5. Holds(d, m, Others(j))
        <4> DEFINE from == [x \in Others(j) |-> IF x = o THEN j ELSE x]
        <4>1. \A x \in Others(j) : from[x] \in Others(o) /\ d[x] = c[from[x]]
          BY <2>2, <2>3, <3>3 DEF Others
        <4>2. \A x, y \in Others(j) : from[x] = from[y] => x = y
          BY DEF Others
        <4>3. \A x \in Others(o) : \E y \in Others(j) : from[y] = x
          <5> TAKE x \in Others(o)
          <5>1. CASE x = j
            <6>1. o \in Others(j) /\ from[o] = j
              BY <1>0, <2>3 DEF Others
            <6> QED BY <5>1, <6>1
          <5>2. CASE x # j
            <6>1. x \in Others(j) /\ from[x] = x
              BY <5>2 DEF Others
            <6> QED BY <6>1
          <5> QED BY <5>1, <5>2
        <4> HIDE DEF from
        <4>4. Holds(c, m, Others(o))
          BY DEF Shifting
        <4>5. \A x \in Others(j) : d[x].occupied => m[d[x].key] = d[x].slot
          BY <4>1, <4>4 DEF Holds
        <4>6. \A x, y \in Others(j) : d[x].occupied /\ d[y].occupied /\ d[x].key = d[y].key => x = y
          <5> SUFFICES ASSUME NEW x \in Others(j), NEW y \in Others(j),
                              d[x].occupied, d[y].occupied, d[x].key = d[y].key
                       PROVE  x = y
            OBVIOUS
          <5>1. \A v, w \in Others(o) : c[v].occupied /\ c[w].occupied /\ c[v].key = c[w].key => v = w
            BY <4>4 DEF Holds
          <5>2. from[x] = from[y]
            BY <4>1, <5>1
          <5> QED BY <4>2, <5>2
        <4>7. \A k \in DirectoryKeys : m[k] # npos => \E x \in Others(j) : d[x].occupied /\ d[x].key = k
          <5> TAKE k \in DirectoryKeys
          <5> HAVE m[k] # npos
          <5>1. PICK x \in Others(o) : c[x].occupied /\ c[x].key = k
            BY <4>4 DEF Holds
          <5>2. PICK y \in Others(j) : from[y] = x
            BY <4>3
          <5> QED BY <4>1, <5>1, <5>2
        <4> QED BY <4>5, <4>6, <4>7 DEF Holds
      <3>6. Chained(size, home, d, Others(j))
        <4> SUFFICES ASSUME NEW x \in Others(j), NEW y \in 0 .. size - 1, d[x].occupied,
                            Dist(size, home[d[x].key], y) < Dist(size, home[d[x].key], x)
                     PROVE  d[y].occupied
          BY DEF Chained
        <4>0. c[y].occupied => d[y].occupied
          <5>1. c[y].occupied = b[y].occupied /\ d[y].occupied = b[y].occupied
            BY <3>4 DEF Shifting
          <5> QED BY <5>1
        <4>1. CASE x = o
          <5> DEFINE h == home[c[j].key]
          <5>1. h \in 0 .. size - 1
            BY <1>h, <2>2, <2>6
          <5>2. Dist(size, h, y) < Dist(size, h, o)
            BY <3>3, <4>1
          <5> HIDE DEF h
          <5>3. Dist(size, h, o) < Dist(size, h, j)
            BY <1>0, <2>2, <2>3, <2>6, <5>1, Round DEF h
          <5>4. Dist(size, h, y) < Dist(size, h, j)
            <6>1. /\ Dist(size, h, y) \in 0 .. size - 1 /\ Dist(size, h, o) \in 0 .. size - 1
                  /\ Dist(size, h, j) \in 0 .. size - 1
              BY <1>0, <2>2, <5>1, Round
            <6> QED BY <5>2, <5>3, <6>1
          <5>5. j \in Others(o)
            BY <2>2, <2>3 DEF Others
          <5>6. c[y].occupied
            BY <2>6, <5>4, <5>5 DEF Shifting, Chained, h
          <5> QED BY <4>0, <5>6
        <4>2. CASE x # o
          <5>1. x \in Others(o) /\ d[x] = c[x]
            BY <3>3, <4>2 DEF Others
          <5>2. c[y].occupied
            BY <5>1 DEF Shifting, Chained
          <5> QED BY <4>0, <5>2
        <4> QED BY <4>1, <4>2
      <3>7. \A y \in 0 .. size - 1 : Dist(size, i, y) <= n => b[y].occupied
        <4>1. \A y \in 0 .. size - 1 : Dist(size, i, y) <= n => Dist(size, i, y) <= n - 1 \/ y = j
          BY <1>0, <2>2, Round
        <4> QED BY <1>2, <3>2, <4>1 DEF Shifting
      <3>8. \A x \in 0 .. size - 1 : ~(n < Dist(size, i, x) /\ Dist(size, i, x) <= n)
        <4>1. \A x \in 0 .. size - 1 : Dist(size, i, x) \in 0 .. size - 1
          BY <1>0, Round
        <4> QED BY <4>1
      <3>9. Shifting(b, i, m, n, to)
        BY <2>2, <3>1, <3>2, <3>4, <3>5, <3>6, <3>7, <3>8 DEF Shifting, d
      <3> QED BY <3>9, Zenon DEF to, j
    <2> QED BY <2>4, <2>5, <2>6
  <1> QED BY <1>1, <1>2 DEF States

(* The loop of the deletion, from the bucket i. *)
LEMMA LoopRuns ==
    ASSUME TableTyped, NEW b \in [0 .. size - 1 -> Records], NEW i \in 0 .. size - 1
    PROVE  \E f : /\ Runs(f, [buckets |-> b, hole |-> i, done |-> FALSE], ShiftStep(i), States, size)
                  /\ Backfilled(b, i) = [f[size].buckets EXCEPT ![f[size].hole] = Empty]
  <1> DEFINE z == [buckets |-> b, hole |-> i, done |-> FALSE]
             T == CHOOSE F : F = [n \in 0 .. size |->
                    IF n = 0 THEN [buckets |-> b, hole |-> i, done |-> FALSE]
                    ELSE ShiftBack(F[n - 1], After(i, n))]
  <1>0. size \in Nat
    BY DEF TableTyped
  <1>1. Backfilled(b, i) = [T[size].buckets EXCEPT ![T[size].hole] = Empty]
    BY Zenon DEF Backfilled
  <1>2. \A n \in 1 .. size : After(i, n) \in 0 .. size - 1
    <2> TAKE n \in 1 .. size
    <2>1. After(i, n) = IF i + n < size THEN i + n ELSE i + n - size
      BY <1>0, AfterIs
    <2> QED BY <1>0, <2>1
  <1>3. z \in States
    BY DEF States
  <1> HIDE DEF z
  <1>4. \A n \in 1 .. size, v \in States : ShiftStep(i)[<<n, v>>] = ShiftBack(v, After(i, n))
    BY DEF ShiftStep
  <1>5. PICK f : Runs(f, z, ShiftStep(i), States, size)
    <2>1. \A n \in 1 .. size, v \in States : ShiftStep(i)[<<n, v>>] \in States
      BY <1>2, <1>4, ShiftTyped
    <2> QED BY <1>0, <1>3, <2>1, RunExists
  <1>6. f = [n \in 0 .. size |-> IF n = 0 THEN z ELSE ShiftBack(f[n - 1], After(i, n))]
    <2>1. \A n \in 1 .. size : f[n] = ShiftBack(f[n - 1], After(i, n))
      <3> TAKE n \in 1 .. size
      <3>1. n - 1 \in 0 .. size
        BY <1>0
      <3>2. f[n - 1] \in States /\ f[n] = ShiftStep(i)[<<n, f[n - 1]>>]
        BY <1>5, <3>1 DEF Runs
      <3> QED BY <1>4, <3>2
    <2>2. f \in [0 .. size -> States] /\ f[0] = z
      BY <1>5 DEF Runs
    <2>3. \A n \in 0 .. size : n = 0 \/ n \in 1 .. size
      BY <1>0
    <2> QED BY <2>1, <2>2, <2>3
  <1>7. T = [n \in 0 .. size |-> IF n = 0 THEN z ELSE ShiftBack(T[n - 1], After(i, n))]
    BY <1>6, Zenon DEF z
  <1> HIDE DEF T
  <1> DEFINE S == {n \in 0 .. size : T[n] = f[n]}
  <1>8. 0 \in S
    BY <1>0, <1>6, <1>7
  <1>9. ASSUME NEW n \in 1 .. size, n - 1 \in S PROVE n \in S
    <2>1. n \in 0 .. size /\ n # 0
      BY <1>0
    <2>2. T[n] = ShiftBack(T[n - 1], After(i, n)) /\ f[n] = ShiftBack(f[n - 1], After(i, n))
      BY <1>6, <1>7, <2>1
    <2> QED BY <1>9, <2>1, <2>2
  <1>10. size \in S
    <2>1. \A n \in 0 .. size : n \in S
      <3> HIDE DEF S
      <3> QED BY <1>0, <1>8, <1>9, BoundedInduction
    <2> HIDE DEF S
    <2> QED BY <1>0, <2>1
  <1>11. Backfilled(b, i) = [f[size].buckets EXCEPT ![f[size].hole] = Empty]
    BY <1>1, <1>10
  <1> QED BY <1>5, <1>11 DEF z

(* A deletion leaves the table of the map without the key. *)
LEMMA ErasedTable ==
    ASSUME TableTyped, TableOK(size, home, buckets, map), NEW k \in DirectoryKeys,
           NEW i \in 0 .. size - 1, buckets[i].occupied, buckets[i].key = k,
           NEW e \in 0 .. size - 1, ~buckets[e].occupied
    PROVE  TableOK(size, home, Backfilled(buckets, i), [map EXCEPT ![k] = npos])
  <1> DEFINE m == [map EXCEPT ![k] = npos]
             z == [buckets |-> buckets, hole |-> i, done |-> FALSE]
  <1>0. size \in Nat /\ buckets \in [0 .. size - 1 -> Records]
    BY DEF TableTyped, TableOK
  <1>1. m[k] = npos /\ \A l \in DirectoryKeys : l # k => m[l] = map[l]
    BY DEF TableTyped
  <1> HIDE DEF m
  <1>2. PICK f : /\ Runs(f, z, ShiftStep(i), States, size)
                 /\ Backfilled(buckets, i) = [f[size].buckets EXCEPT ![f[size].hole] = Empty]
    BY <1>0, LoopRuns
  <1>3. Shifting(buckets, i, m, 0, z)
    <2>1. z.buckets = buckets /\ z.hole = i /\ z.done = FALSE
      OBVIOUS
    <2> HIDE DEF z
    <2>2. \A x \in Others(i) : x \in 0 .. size - 1 /\ x # i
      BY DEF Others
    <2>3. \A x \in Others(i) : buckets[x].occupied => buckets[x].key # k /\ buckets[x].key \in DirectoryKeys
      BY <1>0, <2>2, RecordFacts DEF TableOK, Holds
    <2>4. Holds(buckets, m, Others(i))
      <3>1. \A x \in Others(i) : buckets[x].occupied => m[buckets[x].key] = buckets[x].slot
        BY <1>1, <2>2, <2>3 DEF TableOK, Holds
      <3>2. \A x, y \in Others(i) : buckets[x].occupied /\ buckets[y].occupied /\ buckets[x].key = buckets[y].key => x = y
        BY <2>2 DEF TableOK, Holds
      <3>3. ASSUME NEW l \in DirectoryKeys, m[l] # npos
            PROVE  \E x \in Others(i) : buckets[x].occupied /\ buckets[x].key = l
        <4>1. l # k /\ map[l] # npos
          BY <1>1, <3>3
        <4>2. PICK x \in 0 .. size - 1 : buckets[x].occupied /\ buckets[x].key = l
          BY <4>1 DEF TableOK, Holds
        <4> QED BY <4>1, <4>2 DEF Others
      <3> QED BY <3>1, <3>2, <3>3 DEF Holds
    <2>5. Chained(size, home, buckets, Others(i))
      BY <2>2 DEF TableOK, Chained
    <2>6. Dist(size, i, i) = 0
      BY <1>0 DEF Dist
    <2>7. \A y \in 0 .. size - 1 : Dist(size, i, y) <= 0 => y = i
      BY <1>0 DEF Dist
    <2>8. \A x \in 0 .. size - 1 : ~(0 < Dist(size, i, x) /\ Dist(size, i, x) <= 0)
      BY <1>0 DEF Dist
    <2> QED BY <2>1, <2>4, <2>5, <2>6, <2>7, <2>8 DEF Shifting
  <1> DEFINE S == {n \in 0 .. size : Shifting(buckets, i, m, n, f[n])}
  <1>4. 0 \in S
    <2>1. f[0] = z
      BY <1>2, Zenon DEF Runs
    <2> HIDE DEF z
    <2> QED BY <1>0, <1>3, <2>1
  <1>5. ASSUME NEW n \in 1 .. size, n - 1 \in S PROVE n \in S
    <2>1. n - 1 \in 0 .. size /\ n \in 0 .. size
      BY <1>0
    <2>2. f[n - 1] \in States /\ f[n] = ShiftBack(f[n - 1], After(i, n))
      BY <1>2, <2>1 DEF Runs, ShiftStep
    <2>3. Shifting(buckets, i, m, n, ShiftBack(f[n - 1], After(i, n)))
      BY <1>0, <1>5, <2>2, ShiftKeeps
    <2> QED BY <2>1, <2>2, <2>3
  <1>6. size \in S
    <2>1. \A n \in 0 .. size : n \in S
      <3> HIDE DEF S
      <3> QED BY <1>0, <1>4, <1>5, BoundedInduction
    <2> HIDE DEF S
    <2> QED BY <1>0, <2>1
  <1> DEFINE at == f[size]
             c == at.buckets
             o == at.hole
             b == [c EXCEPT ![o] = Empty]
  <1>7. Shifting(buckets, i, m, size, at)
    BY <1>6
  <1>8. at \in States /\ c \in [0 .. size - 1 -> Records] /\ o \in 0 .. size - 1
    <2>1. size \in 0 .. size
      BY <1>0
    <2> QED BY <1>2, <2>1 DEF Runs, States
  <1>9. Backfilled(buckets, i) = b
    BY <1>2
  <1> HIDE DEF at, S
  <1>10. at.done
    <2>1. Dist(size, i, e) \in 0 .. size - 1
      BY <1>0, Round
    <2>2. Dist(size, i, e) <= size
      BY <1>0, <2>1
    <2>3. at.done \in BOOLEAN
      BY <1>8 DEF States
    <2> QED BY <1>7, <2>2, <2>3 DEF Shifting
  <1>11. /\ b \in [0 .. size - 1 -> Records] /\ b[o].occupied = FALSE
         /\ \A x \in Others(o) : b[x] = c[x]
         /\ \A x \in 0 .. size - 1 : x = o \/ x \in Others(o)
         /\ \A x \in Others(o) : x \in 0 .. size - 1
    BY <1>8, RecordFacts DEF Others
  <1> HIDE DEF b
  <1>12. Holds(b, m, 0 .. size - 1)
    <2>1. Holds(c, m, Others(o))
      BY <1>7 DEF Shifting
    <2>2. \A x \in 0 .. size - 1 : b[x].occupied => x \in Others(o) /\ b[x] = c[x]
      BY <1>11
    <2>3. \A x \in 0 .. size - 1 : b[x].occupied => m[b[x].key] = b[x].slot
      BY <2>1, <2>2 DEF Holds
    <2>4. \A x, y \in 0 .. size - 1 : b[x].occupied /\ b[y].occupied /\ b[x].key = b[y].key => x = y
      <3> SUFFICES ASSUME NEW x \in 0 .. size - 1, NEW y \in 0 .. size - 1,
                          b[x].occupied, b[y].occupied, b[x].key = b[y].key
                   PROVE  x = y
        OBVIOUS
      <3> QED BY <2>1, <2>2 DEF Holds
    <2>5. ASSUME NEW l \in DirectoryKeys, m[l] # npos
          PROVE  \E x \in 0 .. size - 1 : b[x].occupied /\ b[x].key = l
      <3>1. PICK x \in Others(o) : c[x].occupied /\ c[x].key = l
        BY <2>1, <2>5 DEF Holds
      <3> QED BY <1>11, <3>1
    <2> QED BY <2>3, <2>4, <2>5 DEF Holds
  <1>13. Chained(size, home, b, 0 .. size - 1)
    <2> SUFFICES ASSUME NEW x \in 0 .. size - 1, NEW y \in 0 .. size - 1, b[x].occupied,
                        Dist(size, home[b[x].key], y) < Dist(size, home[b[x].key], x)
                 PROVE  b[y].occupied
      BY DEF Chained
    <2>1. x \in Others(o) /\ b[x] = c[x]
      BY <1>11
    <2>2. c[y].occupied
      BY <1>7, <2>1 DEF Shifting, Chained
    <2>3. Avoids(at, x)
      BY <1>7, <1>10, <2>1 DEF Shifting
    <2>4. y # o
      BY <2>1, <2>3 DEF Avoids
    <2> QED BY <1>11, <2>2, <2>4
  <1>14. TableOK(size, home, b, m)
    BY <1>11, <1>12, <1>13 DEF TableOK
  <1> QED BY <1>9, <1>14, Zenon DEF m

-----------------------------------------------------------------------------
(* The inductive invariant of the directory.                               *)

(* Few enough entries; the array or the table represents the map. *)
DirectoryIsMap ==
  /\ capacity \in Nat
  /\ map \in [DirectoryKeys -> DirectorySlots \cup {npos}]
  /\ Cardinality(Entries) <= capacity
  /\ size = 0 => direct = map /\ buckets = <<>>
  /\ size # 0 => /\ size >= 2 /\ capacity < size /\ TableTyped
                 /\ TableOK(size, home, buckets, map)

(* The keys are finite, so the entries are. *)
LEMMA EntriesFinite == IsFiniteSet(Entries)
  BY DirectoryAssumption, FS_Subset DEF Entries

(* reset makes an array or a table without entries. *)
LEMMA DirectoryStarts == DirectoryInit => DirectoryIsMap
  <1> SUFFICES ASSUME DirectoryInit PROVE DirectoryIsMap
    OBVIOUS
  <1>1. PICK n \in Capacities : reset(n)
    BY DEF DirectoryInit
  <1>2. n \in Nat /\ capacity = n
    BY <1>1, DirectoryAssumption DEF reset
  <1>3. map = [k \in DirectoryKeys |-> npos] /\ Entries = {}
    BY DEF DirectoryInit, Entries
  <1>4. Cardinality(Entries) <= capacity
    BY <1>2, <1>3, FS_EmptySet
  <1>5. ASSUME size = 0 PROVE direct = map /\ buckets = <<>>
    <2>1. direct = [k \in DirectoryKeys |-> npos]
      BY <1>1, <1>5 DEF reset
    <2>2. 0 .. size - 1 = {}
      BY <1>5
    <2>3. buckets = [i \in {} |-> Empty]
      BY <1>1, <2>2 DEF reset
    <2> QED BY <1>3, <2>1, <2>3
  <1>6. ASSUME size # 0
        PROVE  /\ size >= 2 /\ capacity < size /\ TableTyped /\ TableOK(size, home, buckets, map)
    <2>1. size = TableSize(n)
      BY <1>1, <1>6 DEF reset
    <2>2. size \in Nat /\ size >= 2 /\ capacity < size
      BY <1>2, <2>1, TableIsLarger
    <2>3. home \in [DirectoryKeys -> 0 .. size - 1] /\ buckets = [i \in 0 .. size - 1 |-> Empty]
      BY <1>1, <1>6 DEF reset
    <2>4. TableTyped
      BY <1>3, <2>2, <2>3 DEF TableTyped
    <2>5. TableOK(size, home, buckets, map)
      BY <1>3, <2>3, RecordFacts DEF TableOK, Holds, Chained
    <2> QED BY <2>2, <2>4, <2>5
  <1>7. map \in [DirectoryKeys -> DirectorySlots \cup {npos}]
    BY <1>3
  <1> QED BY <1>2, <1>4, <1>5, <1>6, <1>7 DEF DirectoryIsMap

(* insert keeps the invariant, in both representations. *)
LEMMA InsertKeeps ==
    ASSUME DirectoryIsMap, NEW k \in DirectoryKeys, NEW s \in DirectorySlots, insert(k, s)
    PROVE  DirectoryIsMap'
  <1>1. map' = [map EXCEPT ![k] = s] /\ map' \in [DirectoryKeys -> DirectorySlots \cup {npos}]
    BY DEF DirectoryIsMap, insert
  <1>2. capacity' = capacity /\ size' = size /\ home' = home /\ map[k] = npos
    BY DEF insert, Entries
  <1>3. Cardinality(Entries') <= capacity
    <2>1. Entries' = Entries \cup {k}
      BY <1>1, DirectoryAssumption DEF Entries, DirectoryIsMap
    <2>2. Cardinality(Entries \cup {k}) = Cardinality(Entries) + 1
      BY EntriesFinite, FS_AddElement DEF insert
    <2>3. Cardinality(Entries) \in Nat
      BY EntriesFinite, FS_CardinalityType
    <2> QED BY <2>1, <2>2, <2>3 DEF insert, DirectoryIsMap
  <1>4. CASE size = 0
    <2>1. direct' = map' /\ buckets' = <<>>
      BY <1>1, <1>4 DEF insert, DirectoryIsMap
    <2> QED BY <1>1, <1>2, <1>3, <1>4, <2>1 DEF DirectoryIsMap
  <1>5. CASE size # 0
    <2>1. buckets' = [buckets EXCEPT ![ProbeFree(home[k])] = Bucket(k, s)]
      BY <1>5 DEF insert
    <2>2. TableOK(size, home, buckets', map')
      BY <1>1, <1>2, <1>5, <2>1, InsertedTable DEF DirectoryIsMap
    <2>3. TableOK(size', home', buckets', map')
      BY <1>2, <2>2
    <2>4. TableTyped'
      BY <1>1, <1>2, <1>5 DEF TableTyped, DirectoryIsMap
    <2> QED BY <1>1, <1>2, <1>3, <1>5, <2>3, <2>4 DEF DirectoryIsMap
  <1> QED BY <1>4, <1>5

(* erase keeps the invariant, in both representations. *)
LEMMA EraseKeeps ==
    ASSUME DirectoryIsMap, NEW k \in DirectoryKeys, erase(k)
    PROVE  DirectoryIsMap'
  <1>1. map' = [map EXCEPT ![k] = npos] /\ map' \in [DirectoryKeys -> DirectorySlots \cup {npos}]
    BY DEF DirectoryIsMap, erase
  <1>2. capacity' = capacity /\ size' = size /\ home' = home
    BY DEF erase
  <1>3. Cardinality(Entries') <= capacity
    <2>1. Entries' \subseteq Entries
      BY <1>1 DEF Entries, DirectoryIsMap
    <2>2. Cardinality(Entries') <= Cardinality(Entries)
      BY <2>1, EntriesFinite, FS_Subset
    <2>3. Cardinality(Entries) \in Nat /\ Cardinality(Entries') \in Nat
      BY <2>1, EntriesFinite, FS_CardinalityType, FS_Subset
    <2> QED BY <2>2, <2>3 DEF DirectoryIsMap
  <1>4. CASE size = 0
    <2>1. direct' = map' /\ buckets' = <<>>
      BY <1>1, <1>4 DEF erase, DirectoryIsMap
    <2> QED BY <1>1, <1>2, <1>3, <1>4, <2>1 DEF DirectoryIsMap
  <1>5. CASE size # 0
    <2> DEFINE i == Probe(home[k], k)
    <2>0. TableTyped /\ TableOK(size, home, buckets, map) /\ capacity < size
      BY <1>5 DEF DirectoryIsMap
    <2>1. /\ i \in 0 .. size - 1
          /\ buckets[i].occupied => buckets[i].key = k
          /\ ~buckets[i].occupied => map[k] = npos
      BY <2>0, ProbeFinds DEF DirectoryIsMap
    <2>2. buckets' = IF buckets[i].occupied THEN Backfilled(buckets, i) ELSE buckets
      BY <1>5 DEF erase
    <2> HIDE DEF i
    <2>3. TableOK(size, home, buckets', map')
      <3>1. CASE buckets[i].occupied
        <4>1. PICK e \in 0 .. size - 1 : ~buckets[e].occupied
          BY <2>0, FreeBucket DEF DirectoryIsMap
        <4>2. TableOK(size, home, Backfilled(buckets, i), [map EXCEPT ![k] = npos])
          BY <2>0, <2>1, <3>1, <4>1, ErasedTable
        <4> QED BY <1>1, <2>2, <3>1, <4>2
      <3>2. CASE ~buckets[i].occupied
        <4>1. map' = map
          BY <1>1, <2>1, <3>2 DEF DirectoryIsMap
        <4> QED BY <2>0, <2>2, <3>2, <4>1
      <3> QED BY <3>1, <3>2
    <2>4. TableOK(size', home', buckets', map')
      BY <1>2, <2>3
    <2>5. TableTyped'
      BY <1>1, <1>2, <1>5 DEF TableTyped, DirectoryIsMap
    <2> QED BY <1>1, <1>2, <1>3, <1>5, <2>4, <2>5 DEF DirectoryIsMap
  <1> QED BY <1>4, <1>5

(* In every reachable state the directory represents its map: as the array *)
(* itself, or as a table in which every probe for an entry comes to it.    *)
THEOREM DirectoryInvariant == DirectorySpec => []DirectoryIsMap
  <1>1. DirectoryInit => DirectoryIsMap
    BY DirectoryStarts
  <1>2. DirectoryIsMap /\ [DirectoryNext]_directory_vars => DirectoryIsMap'
    <2> SUFFICES ASSUME DirectoryIsMap, [DirectoryNext]_directory_vars PROVE DirectoryIsMap'
      OBVIOUS
    <2>1. CASE DirectoryNext
      <3>1. PICK k \in DirectoryKeys : erase(k) \/ \E s \in DirectorySlots : insert(k, s)
        BY <2>1 DEF DirectoryNext
      <3> QED BY <3>1, EraseKeeps, InsertKeeps
    <2>2. CASE UNCHANGED directory_vars
      BY <2>2 DEF directory_vars, DirectoryIsMap, TableTyped, Entries
    <2> QED BY <2>1, <2>2
  <1> QED BY <1>1, <1>2, PTL DEF DirectorySpec

(* For every key space, capacity and hash, find returns the slot of the    *)
(* key after any insertions and deletions, and a deletion leaves neither a *)
(* tombstone nor a second copy (detail::ChunkDirectory).                   *)
THEOREM DirectoryIsExact == DirectorySpec => []DirectoryAgrees
  <1>1. DirectoryIsMap => DirectoryAgrees
    <2> SUFFICES ASSUME DirectoryIsMap PROVE LookupsAgree /\ NoTombstones
      BY DEF DirectoryAgrees
    <2>1. CASE size = 0
      <3>1. {i \in DOMAIN buckets : buckets[i].occupied} = {}
        BY <2>1 DEF DirectoryIsMap
      <3> QED BY <2>1, <3>1, FS_EmptySet DEF LookupsAgree, NoTombstones, find, DirectoryIsMap
    <2>2. CASE size # 0
      <3>0. TableTyped /\ TableOK(size, home, buckets, map) /\ capacity < size
        BY <2>2 DEF DirectoryIsMap
      <3>1. ASSUME NEW k \in DirectoryKeys PROVE find(k) = map[k]
        <4> DEFINE p == Probe(home[k], k)
        <4>1. /\ buckets[p] \in Records
              /\ buckets[p].occupied => buckets[p].slot = map[k]
              /\ ~buckets[p].occupied => map[k] = npos
          BY <3>0, ProbeFinds DEF DirectoryIsMap
        <4> QED BY <2>2, <4>1 DEF find
      <3>2. DOMAIN buckets = 0 .. size - 1
        BY <3>0 DEF TableOK
      <3>3. Cardinality({i \in DOMAIN buckets : buckets[i].occupied}) = Cardinality(Entries)
        BY <3>0, <3>2, AsManyAsEntries DEF Occupied
      <3>4. \E i \in DOMAIN buckets : ~buckets[i].occupied
        BY <3>0, <3>2, FreeBucket DEF DirectoryIsMap
      <3> QED BY <2>2, <3>1, <3>3, <3>4 DEF LookupsAgree, NoTombstones
    <2> QED BY <2>1, <2>2
  <1> QED BY <1>1, DirectoryInvariant, PTL
=============================================================================
