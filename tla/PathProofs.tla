----------------------------- MODULE PathProofs -----------------------------
(***************************************************************************)
(* Proofs about routes and the search for them, for every grid, movement   *)
(* class, provider, request, edit, field and cap: what a lookup of the     *)
(* route cache returns is what its policy says, and what A* closes it has  *)
(* reached at the least cost.                                              *)
(*                                                                         *)
(* Part 1: routes as walks without a repeated tile, whose suffixes are     *)
(* routes and shortest ones.  Part 2: the invariant of the route cache,    *)
(* operation by operation, and the steps of its caller.  Part 3: the       *)
(* search.  Its heuristic never falls by more than a step costs, the       *)
(* reference costs are the least solution of their equations, and the      *)
(* labels of a frontier lie between the two.                               *)
(***************************************************************************)
EXTENDS RouteCache, PathSearch, FiniteSetTheorems, SequenceTheorems, WellFoundedInduction, TLAPS

-----------------------------------------------------------------------------
(* Folds over sequences, and the enumeration of paths.                     *)

(* A set of naturals has a least element. *)
LEMMA LeastNumber ==
    ASSUME NEW T \in SUBSET Nat, T # {}
    PROVE  \E m \in T : \A k \in T : m <= k
  <1> DEFINE R == OpToRel(<, Nat)
  <1>1. IsWellFoundedOn(R, Nat)
    BY NatLessThanWellFounded
  <1>2. R = {ss \in Nat \X Nat : ss[1] < ss[2]}
    BY DEF OpToRel
  <1> HIDE DEF R
  <1>3. PICK m \in T : \A k \in T : ~(<<k, m>> \in R)
    BY <1>1, WFMin
  <1>4. \A k \in T : ~(k < m)
    BY <1>2, <1>3
  <1> QED BY <1>4

(* From 0 up to N, by the least counterexample. *)
LEMMA BoundedInduction ==
    ASSUME NEW N \in Nat, NEW S, 0 \in S, \A n \in 1 .. N : n - 1 \in S => n \in S
    PROVE  \A n \in 0 .. N : n \in S
  <1> DEFINE T == {n \in 0 .. N : n \notin S}
  <1>1. ASSUME T # {} PROVE FALSE
    <2>1. T \in SUBSET Nat
      OBVIOUS
    <2>2. PICK m \in T : \A k \in T : m <= k
      <3> HIDE DEF T
      <3> QED BY <1>1, <2>1, LeastNumber
    <2>3. m \in 1 .. N /\ m - 1 \in 0 .. N
      OBVIOUS
    <2>4. m - 1 \notin T
      <3> HIDE DEF T
      <3> QED BY <2>2, <2>3
    <2> QED BY <2>3, <2>4
  <1> QED BY <1>1

(* The largest of 1 .. n and what is left without it. *)
LEMMA LastOfInterval ==
    ASSUME NEW n \in Nat \ {0}
    PROVE  Max(1 .. n) = n /\ (1 .. n) \ {n} = 1 .. n - 1
  <1>1. n \in 1 .. n /\ \A y \in 1 .. n : n >= y
    OBVIOUS
  <1>2. \A x \in 1 .. n : (\A y \in 1 .. n : x >= y) => x = n
    OBVIOUS
  <1> QED BY <1>1, <1>2 DEF Max

(* A nonempty part of an interval has its largest element in it. *)
LEMMA MaxIsMember ==
    ASSUME NEW N \in Nat, NEW s \in SUBSET (1 .. N), s # {}
    PROVE  Max(s) \in s /\ \A y \in s : Max(s) >= y
  <1> DEFINE T == {N - x : x \in s}
  <1>0. \A x \in s : x \in 1 .. N
    OBVIOUS
  <1>1. T \in SUBSET Nat /\ T # {}
    <2>1. ASSUME NEW x \in s PROVE N - x \in Nat
      BY <1>0
    <2> QED BY <2>1
  <1>2. PICK m \in T : \A k \in T : m <= k
    <2> HIDE DEF T
    <2> QED BY <1>1, LeastNumber
  <1>3. PICK x \in s : m = N - x
    OBVIOUS
  <1>4. ASSUME NEW y \in s PROVE x >= y
    <2>1. N - y \in T
      OBVIOUS
    <2>2. N - x <= N - y
      BY <1>2, <1>3, <2>1
    <2>3. x \in 1 .. N /\ y \in 1 .. N
      BY <1>0
    <2> QED BY <2>2, <2>3
  <1> QED BY <1>4 DEF Max

(* What a fold unfolds to: a function on the parts of an interval.         *)
Folds(f, z, step, N) ==
  /\ f[{}] = z
  /\ \A s \in SUBSET (1 .. N) : s # {} => f[s] = step[<<Max(s), f[s \ {Max(s)}]>>]

(* Every step can be folded. *)
LEMMA FoldExists ==
    ASSUME NEW N \in Nat, NEW A, NEW z \in A, NEW step \in [(1 .. N) \X A -> A]
    PROVE  \E f \in [SUBSET (1 .. N) -> A] : Folds(f, z, step, N)
  <1> DEFINE Has(k) == \E f \in [SUBSET (1 .. k) -> A] : Folds(f, z, step, k)
             S == {k \in 0 .. N : Has(k)}
  <1>1. Has(0)
    <2> DEFINE f == [s \in SUBSET (1 .. 0) |-> z]
    <2>1. SUBSET (1 .. 0) = {{}}
      OBVIOUS
    <2>2. f \in [SUBSET (1 .. 0) -> A] /\ Folds(f, z, step, 0)
      BY <2>1 DEF Folds
    <2> QED BY <2>2
  <1>2. ASSUME NEW m \in 1 .. N, Has(m - 1) PROVE Has(m)
    <2>1. PICK f \in [SUBSET (1 .. m - 1) -> A] : Folds(f, z, step, m - 1)
      BY <1>2
    <2> DEFINE h == [s \in SUBSET (1 .. m) |-> IF m \in s THEN step[<<m, f[s \ {m}]>>] ELSE f[s]]
    <2>2. \A s \in SUBSET (1 .. m) : s \ {m} \in SUBSET (1 .. m - 1) /\ (m \notin s => s \in SUBSET (1 .. m - 1))
      OBVIOUS
    <2>3. h \in [SUBSET (1 .. m) -> A]
      <3>1. ASSUME NEW s \in SUBSET (1 .. m) PROVE step[<<m, f[s \ {m}]>>] \in A
        <4>1. f[s \ {m}] \in A
          BY <2>2
        <4> QED BY <4>1
      <3> QED BY <2>2, <3>1
    <2>4. Folds(h, z, step, m)
      <3>1. h[{}] = z
        BY <2>1 DEF Folds
      <3>2. ASSUME NEW s \in SUBSET (1 .. m), s # {}
            PROVE  h[s] = step[<<Max(s), h[s \ {Max(s)}]>>]
        <4>1. Max(s) \in s /\ \A y \in s : Max(s) >= y
          <5>1. m \in Nat /\ s \in SUBSET (1 .. m)
            OBVIOUS
          <5> HIDE DEF h
          <5> QED BY <3>2, <5>1, MaxIsMember
        <4>2. CASE m \in s
          <5>1. Max(s) = m
            <6>1. Max(s) \in 1 .. m /\ Max(s) >= m
              BY <4>1, <4>2
            <6> HIDE DEF h
            <6> QED BY <6>1
          <5>2. h[s] = step[<<m, f[s \ {m}]>>]
            BY <4>2
          <5>3. h[s \ {m}] = f[s \ {m}]
            <6>1. s \ {m} \in SUBSET (1 .. m) /\ m \notin s \ {m}
              OBVIOUS
            <6> QED BY <6>1
          <5> QED BY <5>1, <5>2, <5>3
        <4>3. CASE m \notin s
          <5>1. s \in SUBSET (1 .. m - 1) /\ s \ {Max(s)} \in SUBSET (1 .. m) /\ m \notin s \ {Max(s)}
            BY <2>2, <4>3
          <5>2. h[s] = f[s] /\ h[s \ {Max(s)}] = f[s \ {Max(s)}]
            BY <4>3, <5>1
          <5> QED BY <2>1, <3>2, <5>1, <5>2 DEF Folds
        <4> QED BY <4>2, <4>3
      <3> HIDE DEF h
      <3> QED BY <3>1, <3>2 DEF Folds
    <2> HIDE DEF h
    <2> QED BY <2>3, <2>4
  <1>3. \A n \in 0 .. N : n \in S
    <2>1. 0 \in S /\ \A n \in 1 .. N : n - 1 \in S => n \in S
      <3> HIDE DEF Has
      <3> QED BY <1>1, <1>2
    <2> HIDE DEF S
    <2> QED BY <2>1, BoundedInduction
  <1>4. N \in 0 .. N
    OBVIOUS
  <1>5. Has(N)
    <2> HIDE DEF Has
    <2> QED BY <1>3, <1>4
  <1> QED BY <1>5

(* Steps and walks.                                                        *)
Walks(steps) == {p \in Seq(Tiles) : p # <<>> /\ \A i \in 1 .. Len(p) - 1 : p[i + 1] \in steps[p[i]]}
Simple(p) == \A i, j \in DOMAIN p : p[i] = p[j] => i = j
Between(s, g) == {p \in Seq(Tiles) : p # <<>> /\ p[1] = s /\ p[Len(p)] = g}

(* One step more, to a tile that is not on the path. *)
LongerPaths(steps, paths) ==
  paths \cup UNION {{Append(p, t) : t \in steps[Last(p)] \ ToSet(p)} : p \in paths}
Enumerates(F, steps) ==
  F = [s \in SUBSET (DOMAIN [i \in 1 .. Cardinality(Tiles) |-> i]) |->
         IF s = {} THEN {<<t>> : t \in Tiles} ELSE LongerPaths(steps, F[s \ {Max(s)}])]
EnumeratedBy(F) ==
  [ends \in Tiles \X Tiles |->
     {p \in F[DOMAIN [i \in 1 .. Cardinality(Tiles) |-> i]] : Head(p) = ends[1] /\ Last(p) = ends[2]}]

(* The tiles are finitely many, and so are the chunks. *)
LEMMA TilesAreFinite ==
  /\ IsFiniteSet(Tiles) /\ Cardinality(Tiles) \in Nat
  /\ \A t \in Tiles : t = <<t[1], t[2], t[3]>> /\ t[1] \in Extent(1) /\ t[2] \in Extent(2) /\ t[3] \in Extent(3)
  <1>1. \A a \in 1 .. 3 : Size[a] \in Nat \ {0}
    BY GridAssumption
  <1>2. \A a \in 1 .. 3 : IsFiniteSet(Extent(a))
    <2>1. ASSUME NEW a \in 1 .. 3 PROVE IsFiniteSet(0 .. Size[a] - 1)
      <3>1. 0 \in Int /\ Size[a] - 1 \in Int
        BY <1>1
      <3> QED BY <3>1, FS_Interval
    <2> QED BY <2>1 DEF Extent
  <1>3. IsFiniteSet(Extent(1) \X Extent(2))
    BY <1>2, FS_Product
  <1>4. IsFiniteSet((Extent(1) \X Extent(2)) \X Extent(3))
    BY <1>2, <1>3, FS_Product
  <1> DEFINE D == (Extent(1) \X Extent(2)) \X Extent(3)
             h == [d \in D |-> <<d[1][1], d[1][2], d[2]>>]
  <1>5. h \in Surjection(D, Tiles)
    <2>1. h \in [D -> Tiles]
      BY DEF Tiles
    <2>2. ASSUME NEW t \in Tiles PROVE \E d \in D : h[d] = t
      <3>1. t = <<t[1], t[2], t[3]>> /\ t[1] \in Extent(1) /\ t[2] \in Extent(2) /\ t[3] \in Extent(3)
        BY DEF Tiles
      <3>2. << <<t[1], t[2]>>, t[3]>> \in D
        BY <3>1
      <3> QED BY <3>1, <3>2
    <2> HIDE DEF h
    <2> QED BY <2>1, <2>2 DEF Surjection
  <1>6. IsFiniteSet(Tiles)
    <2> HIDE DEF h
    <2> QED BY <1>4, <1>5, FS_Surjection
  <1> QED BY <1>6, FS_CardinalityType DEF Tiles

(* The enumeration is a fold of steps.                                     *)
LEMMA PathsUnfold ==
  ASSUME NEW steps
  PROVE  PathsVia(steps) = EnumeratedBy(CHOOSE F : Enumerates(F, steps))
  BY Zenon DEF PathsVia, Iterated, Applied, FoldLeft, MapThenFoldSet, Enumerates, EnumeratedBy, LongerPaths

(* ... that exists. *)
LEMMA EnumerationExists ==
  ASSUME NEW steps \in [Tiles -> SUBSET Tiles]
  PROVE  \E F : Enumerates(F, steps)
  <1> DEFINE N == Cardinality(Tiles)
             A == SUBSET (Seq(Tiles) \ {<<>>})
             z == {<<t>> : t \in Tiles}
             step == [x \in (1 .. N) \X A |-> LongerPaths(steps, x[2])]
  <1>1. N \in Nat
    BY TilesAreFinite
  <1>2. z \in A
    <2>1. ASSUME NEW t \in Tiles PROVE <<t>> \in Seq(Tiles) \ {<<>>}
      <3>1. <<t>> \in Seq(Tiles) /\ Len(<<t>>) = 1
        OBVIOUS
      <3> QED BY <3>1, EmptySeq
    <2> QED BY <2>1
  <1>3. step \in [(1 .. N) \X A -> A]
    <2>1. ASSUME NEW paths \in A PROVE LongerPaths(steps, paths) \in A
      <3>1. ASSUME NEW p \in paths, NEW t \in steps[Last(p)] PROVE Append(p, t) \in Seq(Tiles) \ {<<>>}
        <4>1. p \in Seq(Tiles) /\ p # <<>>
          OBVIOUS
        <4>2. Last(p) \in Tiles
          BY <4>1, LenProperties, EmptySeq, ElementOfSeq DEF Last
        <4>3. t \in Tiles
          BY <4>2
        <4> QED BY <4>1, <4>3, AppendProperties
      <3>2. ASSUME NEW q \in LongerPaths(steps, paths) PROVE q \in Seq(Tiles) \ {<<>>}
        <4>1. CASE q \in paths
          BY <4>1
        <4>2. CASE q \notin paths
          <5>1. PICK p \in paths : q \in {Append(p, t) : t \in steps[Last(p)] \ ToSet(p)}
            BY <4>2 DEF LongerPaths
          <5> QED BY <3>1, <5>1
        <4> QED BY <4>1, <4>2
      <3> QED BY <3>2
    <2> HIDE DEF A
    <2> QED BY <2>1
  <1>4. PICK f \in [SUBSET (1 .. N) -> A] : Folds(f, z, step, N)
    <2> HIDE DEF step, z, A, N
    <2> QED BY <1>1, <1>2, <1>3, FoldExists
  <1>5. DOMAIN [i \in 1 .. N |-> i] = 1 .. N
    OBVIOUS
  <1>6. ASSUME NEW s \in SUBSET (1 .. N), s # {} PROVE f[s] = LongerPaths(steps, f[s \ {Max(s)}])
    <2>1. Max(s) \in 1 .. N
      <3>1. Max(s) \in s
        <4> HIDE DEF N
        <4> QED BY <1>1, <1>6, MaxIsMember
      <3> QED BY <3>1
    <2>2. s \ {Max(s)} \in SUBSET (1 .. N)
      OBVIOUS
    <2>3. f[s \ {Max(s)}] \in A
      BY <2>2
    <2>4. f[s] = step[<<Max(s), f[s \ {Max(s)}]>>]
      BY <1>4, <1>6 DEF Folds
    <2>5. <<Max(s), f[s \ {Max(s)}]>> \in (1 .. N) \X A
      BY <2>1, <2>3
    <2> HIDE DEF A, N
    <2> QED BY <2>4, <2>5
  <1>7. f = [s \in SUBSET (1 .. N) |-> IF s = {} THEN z ELSE LongerPaths(steps, f[s \ {Max(s)}])]
    <2>1. f[{}] = z
      BY <1>4 DEF Folds
    <2>2. f = [s \in SUBSET (1 .. N) |-> f[s]]
      OBVIOUS
    <2>3. \A s \in SUBSET (1 .. N) : f[s] = (IF s = {} THEN z ELSE LongerPaths(steps, f[s \ {Max(s)}]))
      BY <1>6, <2>1
    <2> HIDE DEF z, N, A
    <2> QED BY <2>2, <2>3
  <1>8. Enumerates(f, steps)
    <2>1. z = {<<t>> : t \in Tiles}
      OBVIOUS
    <2> QED BY <1>5, <1>7, <2>1, Zenon DEF Enumerates
  <1> QED BY <1>8

(* Every path is a walk without a repeated tile, and every such walk is a  *)
(* path: none is longer than there are tiles.                              *)
SimpleUpTo(steps, n) == {p \in Walks(steps) : Simple(p) /\ Len(p) <= n}

(* ... one tile at a time. *)
LEMMA LongerIsSimple ==
  ASSUME NEW steps \in [Tiles -> SUBSET Tiles], NEW n \in Nat \ {0}
  PROVE  LongerPaths(steps, SimpleUpTo(steps, n)) = SimpleUpTo(steps, n + 1)
  <1> DEFINE P == SimpleUpTo(steps, n)
  <1>1. ASSUME NEW p \in P, NEW t \in steps[Last(p)] \ ToSet(p)
        PROVE  Append(p, t) \in SimpleUpTo(steps, n + 1)
    <2>1. p \in Seq(Tiles) /\ p # <<>> /\ Len(p) \in Nat \ {0} /\ Len(p) <= n /\ DOMAIN p = 1 .. Len(p)
      BY LenProperties, EmptySeq DEF SimpleUpTo, Walks
    <2>2. /\ \A i \in 1 .. Len(p) - 1 : p[i + 1] \in steps[p[i]]
          /\ \A i, j \in 1 .. Len(p) : p[i] = p[j] => i = j
      BY <2>1 DEF SimpleUpTo, Walks, Simple
    <2>3. Last(p) = p[Len(p)] /\ p[Len(p)] \in Tiles
      BY <2>1, ElementOfSeq DEF Last
    <2>4. t \in Tiles /\ t \in steps[p[Len(p)]] /\ \A i \in 1 .. Len(p) : p[i] # t
      BY <2>1, <2>3 DEF ToSet
    <2> DEFINE q == Append(p, t)
    <2>5. /\ q \in Seq(Tiles) /\ q # <<>> /\ Len(q) = Len(p) + 1 /\ DOMAIN q = 1 .. Len(p) + 1
          /\ \A i \in 1 .. Len(p) : q[i] = p[i]
          /\ q[Len(p) + 1] = t
      BY <2>1, <2>4, AppendProperties, LenProperties
    <2> HIDE DEF q
    <2>6. \A i \in 1 .. Len(q) - 1 : q[i + 1] \in steps[q[i]]
      <3> SUFFICES ASSUME NEW i \in 1 .. Len(p) PROVE q[i + 1] \in steps[q[i]]
        BY <2>1, <2>5
      <3>1. CASE i = Len(p)
        BY <2>1, <2>4, <2>5, <3>1
      <3>2. CASE i # Len(p)
        <4>1. i \in 1 .. Len(p) - 1 /\ i + 1 \in 1 .. Len(p)
          <5>1. Len(p) \in Nat
            BY <2>1
          <5> HIDE DEF q
          <5> QED BY <3>2, <5>1
        <4> QED BY <2>2, <2>5, <4>1
      <3> QED BY <3>1, <3>2
    <2>7. \A i, j \in DOMAIN q : q[i] = q[j] => i = j
      <3> SUFFICES ASSUME NEW i \in 1 .. Len(p) + 1, NEW j \in 1 .. Len(p) + 1, q[i] = q[j] PROVE i = j
        BY <2>5
      <3>1. CASE i \in 1 .. Len(p) /\ j \in 1 .. Len(p)
        BY <2>2, <2>5, <3>1
      <3>2. CASE i = Len(p) + 1 \/ j = Len(p) + 1
        BY <2>1, <2>4, <2>5, <3>2
      <3> QED BY <2>1, <3>1, <3>2
    <2>8. Len(q) <= n + 1
      BY <2>1, <2>5
    <2>9. q \in SimpleUpTo(steps, n + 1)
      BY <2>5, <2>6, <2>7, <2>8 DEF SimpleUpTo, Walks, Simple
    <2> QED BY <2>9 DEF q
  <1>2. ASSUME NEW q \in SimpleUpTo(steps, n + 1), q \notin P
        PROVE  \E p \in P : \E t \in steps[Last(p)] \ ToSet(p) : q = Append(p, t)
    <2>1. /\ q \in Seq(Tiles) /\ q # <<>> /\ Len(q) \in Nat \ {0} /\ Len(q) = n + 1 /\ DOMAIN q = 1 .. n + 1
          /\ \A i \in 1 .. n : q[i + 1] \in steps[q[i]]
          /\ \A i, j \in 1 .. n + 1 : q[i] = q[j] => i = j
      <3>1. q \in Seq(Tiles) /\ q # <<>> /\ Len(q) \in Nat \ {0} /\ Len(q) <= n + 1 /\ DOMAIN q = 1 .. Len(q)
        BY LenProperties, EmptySeq DEF SimpleUpTo, Walks
      <3>2. ~(Len(q) <= n)
        BY <1>2 DEF SimpleUpTo
      <3>3. Len(q) = n + 1
        <4> DEFINE l == Len(q)
        <4>1. l \in Nat /\ l <= n + 1 /\ ~(l <= n)
          BY <3>1, <3>2
        <4> HIDE DEF l, P
        <4>2. l = n + 1
          BY <4>1
        <4> QED BY <4>2 DEF l
      <3>4. /\ \A i \in 1 .. Len(q) - 1 : q[i + 1] \in steps[q[i]]
            /\ \A i, j \in DOMAIN q : q[i] = q[j] => i = j
        BY DEF SimpleUpTo, Walks, Simple
      <3>5. Len(q) - 1 = n
        BY <3>3
      <3> QED BY <3>1, <3>3, <3>4, <3>5
    <2> DEFINE p == SubSeq(q, 1, n)
    <2>2. /\ p \in Seq(Tiles) /\ Len(p) = n /\ p # <<>> /\ DOMAIN p = 1 .. n
          /\ \A i \in 1 .. n : p[i] = q[i]
      <3>1. \A i \in 1 .. n : q[i] \in Tiles
        BY <2>1, ElementOfSeq
      <3>2. /\ p \in Seq(Tiles) /\ Len(p) = n
            /\ \A i \in 1 .. n : p[i] = q[1 + i - 1]
        BY <3>1, SubSeqProperties
      <3> HIDE DEF p
      <3>3. \A i \in 1 .. n : p[i] = q[i]
        BY <3>2
      <3> QED BY <3>2, <3>3, LenProperties, EmptySeq
    <2> HIDE DEF p
    <2>3. p \in P
      <3>1. \A i \in 1 .. Len(p) - 1 : p[i + 1] \in steps[p[i]]
        <4> SUFFICES ASSUME NEW i \in 1 .. n - 1 PROVE p[i + 1] \in steps[p[i]]
          BY <2>2
        <4>1. i \in 1 .. n /\ i + 1 \in 1 .. n
          OBVIOUS
        <4> QED BY <2>1, <2>2, <4>1
      <3>2. Simple(p)
        <4> SUFFICES ASSUME NEW i \in 1 .. n, NEW j \in 1 .. n, p[i] = p[j] PROVE i = j
          BY <2>2 DEF Simple
        <4>1. i \in 1 .. n + 1 /\ j \in 1 .. n + 1
          OBVIOUS
        <4> QED BY <2>1, <2>2, <4>1
      <3> QED BY <2>2, <3>1, <3>2 DEF SimpleUpTo, Walks
    <2>4. Last(p) = q[n]
      BY <2>2 DEF Last
    <2>5. q[n + 1] \in steps[Last(p)] \ ToSet(p)
      <3>1. \A i \in 1 .. n : p[i] # q[n + 1]
        <4> SUFFICES ASSUME NEW i \in 1 .. n, q[i] = q[n + 1] PROVE FALSE
          BY <2>2
        <4>1. i \in 1 .. n + 1 /\ n + 1 \in 1 .. n + 1
          OBVIOUS
        <4>2. i = n + 1
          BY <2>1, <4>1
        <4> QED BY <4>2
      <3>2. n \in 1 .. n
        OBVIOUS
      <3> QED BY <2>1, <2>2, <2>4, <3>1, <3>2 DEF ToSet
    <2>6. q = Append(p, q[n + 1])
      <3>1. q[n + 1] \in Tiles
        BY <2>1, ElementOfSeq
      <3> DEFINE r == Append(p, q[n + 1])
      <3>2. /\ r \in Seq(Tiles) /\ Len(r) = n + 1 /\ r[n + 1] = q[n + 1]
            /\ \A i \in 1 .. n : r[i] = p[i]
        BY <2>2, <3>1, AppendProperties
      <3> HIDE DEF r
      <3>3. \A i \in 1 .. n + 1 : r[i] = q[i]
        BY <2>2, <3>2
      <3>4. r = q
        BY <2>1, <3>2, <3>3, SeqEqual
      <3> QED BY <3>4 DEF r
    <2> QED BY <2>3, <2>5, <2>6
  <1>3. P \subseteq SimpleUpTo(steps, n + 1)
    <2> SUFFICES ASSUME NEW p \in P PROVE Len(p) <= n + 1
      BY DEF SimpleUpTo
    <2>1. Len(p) \in Nat /\ Len(p) <= n
      BY LenProperties DEF SimpleUpTo, Walks
    <2> QED BY <2>1
  <1> HIDE DEF P
  <1>4. ASSUME NEW q \in LongerPaths(steps, P) PROVE q \in SimpleUpTo(steps, n + 1)
    <2>1. CASE q \in P
      BY <1>3, <2>1
    <2>2. CASE q \notin P
      <3>1. PICK p \in P : q \in {Append(p, t) : t \in steps[Last(p)] \ ToSet(p)}
        BY <2>2 DEF LongerPaths
      <3> QED BY <1>1, <3>1
    <2> QED BY <2>1, <2>2
  <1>5. ASSUME NEW q \in SimpleUpTo(steps, n + 1) PROVE q \in LongerPaths(steps, P)
    <2>1. CASE q \in P
      BY <2>1 DEF LongerPaths
    <2>2. CASE q \notin P
      <3>0. PICK p \in P : \E t \in steps[Last(p)] \ ToSet(p) : q = Append(p, t)
        BY <1>2, <2>2
      <3>1. PICK t \in steps[Last(p)] \ ToSet(p) : q = Append(p, t)
        BY <3>0
      <3> DEFINE X(y) == {Append(y, u) : u \in steps[Last(y)] \ ToSet(y)}
      <3>2. q \in X(p)
        BY <3>1
      <3>3. q \in UNION {X(y) : y \in P}
        <4> HIDE DEF X
        <4> QED BY <3>2
      <3> QED BY <3>3 DEF LongerPaths
    <2> QED BY <2>1, <2>2
  <1> QED BY <1>4, <1>5 DEF P

(* A walk without a repeated tile is no longer than there are tiles.       *)
LEMMA SimpleIsShort ==
  ASSUME NEW steps, NEW p \in Walks(steps), Simple(p)
  PROVE  Len(p) <= Cardinality(Tiles)
  <1>1. p \in Seq(Tiles) /\ Len(p) \in Nat /\ DOMAIN p = 1 .. Len(p)
    BY LenProperties DEF Walks
  <1>2. p \in Injection(1 .. Len(p), Tiles)
    <2>1. p \in [1 .. Len(p) -> Tiles]
      BY <1>1, LenProperties
    <2>2. \A i, j \in 1 .. Len(p) : p[i] = p[j] => i = j
      BY <1>1 DEF Simple
    <2> QED BY <2>1, <2>2 DEF Injection, IsInjective
  <1>3. Cardinality(1 .. Len(p)) <= Cardinality(Tiles)
    BY <1>2, TilesAreFinite, FS_Injection
  <1>4. Cardinality(1 .. Len(p)) = Len(p)
    <2>1. 1 \in Int /\ Len(p) \in Int /\ Len(p) >= 0
      BY <1>1
    <2>2. Cardinality(1 .. Len(p)) = IF 1 > Len(p) THEN 0 ELSE Len(p) - 1 + 1
      BY <2>1, FS_Interval
    <2> QED BY <2>1, <2>2
  <1> QED BY <1>3, <1>4

(* The shortest walks are the tiles. *)
LEMMA TilesAreWalks ==
  ASSUME NEW steps \in [Tiles -> SUBSET Tiles]
  PROVE  {<<t>> : t \in Tiles} = SimpleUpTo(steps, 1)
  <1>1. ASSUME NEW t \in Tiles PROVE <<t>> \in SimpleUpTo(steps, 1)
    <2>1. <<t>> \in Seq(Tiles) /\ Len(<<t>>) = 1 /\ <<t>> # <<>> /\ DOMAIN <<t>> = 1 .. 1
      BY EmptySeq
    <2>2. 1 .. 1 - 1 = {}
      OBVIOUS
    <2> QED BY <2>1, <2>2 DEF SimpleUpTo, Walks, Simple
  <1>2. ASSUME NEW p \in SimpleUpTo(steps, 1) PROVE \E t \in Tiles : p = <<t>>
    <2>1. p \in Seq(Tiles) /\ p # <<>> /\ Len(p) <= 1
      BY DEF SimpleUpTo, Walks
    <2>2. Len(p) = 1
      <3>1. Len(p) \in Nat /\ Len(p) # 0
        BY <2>1, LenProperties, EmptySeq
      <3> DEFINE l == Len(p)
      <3>2. l \in Nat /\ l # 0 /\ l <= 1
        BY <2>1, <3>1
      <3> HIDE DEF l
      <3>3. l = 1
        BY <3>2
      <3> QED BY <3>3 DEF l
    <2>3. p[1] \in Tiles
      BY <2>1, <2>2, ElementOfSeq
    <2>4. p = <<p[1]>>
      <3>1. <<p[1]>> \in Seq(Tiles) /\ Len(<<p[1]>>) = 1 /\ \A i \in 1 .. 1 : p[i] = <<p[1]>>[i]
        BY <2>3
      <3> HIDE DEF SimpleUpTo
      <3> QED BY <2>1, <2>2, <3>1, SeqEqual
    <2> QED BY <2>3, <2>4
  <1> QED BY <1>1, <1>2

(* The reference of Grid: the paths from s to g are the simple walks from  *)
(* s to g.                                                                 *)
LEMMA PathsAreSimpleWalks ==
  ASSUME NEW steps \in [Tiles -> SUBSET Tiles], NEW s \in Tiles, NEW g \in Tiles
  PROVE  PathsVia(steps)[<<s, g>>] = {p \in Walks(steps) : Simple(p) /\ p[1] = s /\ p[Len(p)] = g}
  <1> DEFINE N == Cardinality(Tiles)
             F == CHOOSE f : Enumerates(f, steps)
  <1>1. Enumerates(F, steps)
    BY EnumerationExists
  <1>2. N \in Nat /\ DOMAIN [i \in 1 .. N |-> i] = 1 .. N
    BY TilesAreFinite
  <1> HIDE DEF F
  <1>3. F = [x \in SUBSET (1 .. N) |-> IF x = {} THEN {<<t>> : t \in Tiles} ELSE LongerPaths(steps, F[x \ {Max(x)}])]
    BY <1>1, <1>2, Zenon DEF Enumerates
  <1> HIDE DEF N
  <1>4. \A n \in 0 .. N : F[1 .. n] = SimpleUpTo(steps, n + 1)
    <2> DEFINE S == {n \in 0 .. N : F[1 .. n] = SimpleUpTo(steps, n + 1)}
    <2>1. 0 \in S
      <3>1. 1 .. 0 = {} /\ {} \in SUBSET (1 .. N) /\ 0 + 1 = 1 /\ 0 \in 0 .. N
        BY <1>2
      <3>2. F[{}] = {<<t>> : t \in Tiles}
        BY <1>3, <3>1
      <3>3. F[1 .. 0] = SimpleUpTo(steps, 0 + 1)
        BY <3>1, <3>2, TilesAreWalks
      <3> QED BY <3>1, <3>3
    <2>2. ASSUME NEW n \in 1 .. N, n - 1 \in S PROVE n \in S
      <3>1. F[1 .. n - 1] = SimpleUpTo(steps, n)
        <4>1. (n - 1) + 1 = n
          BY <1>2
        <4> QED BY <2>2, <4>1
      <3>2. 1 .. n # {} /\ 1 .. n \in SUBSET (1 .. N) /\ n \in Nat \ {0} /\ n \in 0 .. N
        BY <1>2
      <3>3. F[1 .. n] = LongerPaths(steps, F[(1 .. n) \ {Max(1 .. n)}])
        BY <1>3, <3>2
      <3>4. F[1 .. n] = LongerPaths(steps, F[1 .. n - 1])
        BY <3>2, <3>3, LastOfInterval
      <3>5. F[1 .. n] = SimpleUpTo(steps, n + 1)
        BY <3>1, <3>2, <3>4, LongerIsSimple
      <3> QED BY <3>2, <3>5
    <2> HIDE DEF S
    <2>3. \A n \in 0 .. N : n \in S
      BY <1>2, <2>1, <2>2, BoundedInduction
    <2> QED BY <2>3 DEF S
  <1>5. F[1 .. N] = SimpleUpTo(steps, N + 1)
    <2>1. N \in 0 .. N
      BY <1>2
    <2> QED BY <1>4, <2>1
  <1>6. PathsVia(steps)[<<s, g>>] = {p \in F[1 .. N] : Head(p) = s /\ Last(p) = g}
    <2>1. PathsVia(steps) = EnumeratedBy(F)
      BY PathsUnfold DEF F
    <2>2. EnumeratedBy(F) = [ends \in Tiles \X Tiles |-> {p \in F[1 .. N] : Head(p) = ends[1] /\ Last(p) = ends[2]}]
      BY <1>2, Zenon DEF EnumeratedBy, N
    <2> QED BY <2>1, <2>2
  <1>7. SimpleUpTo(steps, N + 1) = {p \in Walks(steps) : Simple(p)}
    <2> SUFFICES ASSUME NEW p \in Walks(steps), Simple(p) PROVE Len(p) <= N + 1
      BY DEF SimpleUpTo
    <2>1. Len(p) <= N
      BY SimpleIsShort DEF N
    <2>2. Len(p) \in Nat
      BY LenProperties DEF Walks
    <2> QED BY <1>2, <2>1, <2>2
  <1>8. ASSUME NEW p \in Walks(steps) PROVE Head(p) = p[1] /\ Last(p) = p[Len(p)]
    BY DEF Walks, Last
  <1> QED BY <1>5, <1>6, <1>7, <1>8

-----------------------------------------------------------------------------
(* Routes: suffixes, and walks that visit a tile twice.                    *)
StepsOf(m) == [t \in Tiles |-> Neighbors(t) \cup Special[m][t]]
OpenWalks(m, s, g) ==
  {p \in Walks(StepsOf(m)) : /\ p[1] = s /\ p[Len(p)] = g
                             /\ \A i \in 1 .. Len(p) : Enters(m, p[i])}

(* The steps of a model stay on the tiles. *)
LEMMA StepsAreTyped ==
  ASSUME NEW m \in Models
  PROVE  StepsOf(m) \in [Tiles -> SUBSET Tiles]
  <1>1. ASSUME NEW t \in Tiles, NEW n \in Neighbors(t) PROVE n \in Tiles
    <2>1. PICK d \in ToSet(Faces) : n = Offset(t, d) /\ InShape(n)
      BY DEF Neighbors
    <2>2. n = <<n[1], n[2], n[3]>> /\ n[1] \in Extent(1) /\ n[2] \in Extent(2) /\ n[3] \in Extent(3)
      BY <2>1 DEF Offset, InShape, Axes
    <2> QED BY <2>2 DEF Tiles
  <1>2. \A t \in Tiles : Special[m][t] \subseteq Tiles
    BY RouteCacheAssumption
  <1> QED BY <1>1, <1>2 DEF StepsOf

(* What the elements of a walk are. *)
LEMMA WalkTyped ==
  ASSUME NEW steps, NEW p \in Walks(steps)
  PROVE  /\ p \in Seq(Tiles) /\ p # <<>> /\ Len(p) \in Nat /\ Len(p) # 0 /\ Len(p) >= 1
         /\ DOMAIN p = 1 .. Len(p) /\ \A i \in 1 .. Len(p) : p[i] \in Tiles
         /\ \A i \in 1 .. Len(p) - 1 : p[i + 1] \in steps[p[i]]
  <1>1. p \in Seq(Tiles) /\ p # <<>>
    BY DEF Walks
  <1>2. Len(p) \in Nat /\ Len(p) # 0
    BY <1>1, LenProperties, EmptySeq
  <1> QED BY <1>1, <1>2, LenProperties, ElementOfSeq DEF Walks

(* The paths of a model are the walks without a repeated tile.             *)
LEMMA PathsAreWalks ==
  ASSUME NEW m \in Models, NEW s \in Tiles, NEW g \in Tiles
  PROVE  ModelPaths[m][<<s, g>>] = {p \in Walks(StepsOf(m)) : Simple(p) /\ p[1] = s /\ p[Len(p)] = g}
  <1>1. ModelPaths[m] = PathsVia(StepsOf(m))
    BY Zenon DEF ModelPaths, StepsOf
  <1> QED BY <1>1, StepsAreTyped, PathsAreSimpleWalks

(* A route is an open walk without a repeated tile.                        *)
LEMMA RoutesAreWalks ==
  ASSUME NEW m \in Models, NEW s \in Tiles, NEW g \in Tiles
  PROVE  \A p : p \in RoutesOf(m, s, g) <=> p \in OpenWalks(m, s, g) /\ Simple(p)
  <1>1. ASSUME NEW p \in Walks(StepsOf(m)) PROVE DOMAIN p = 1 .. Len(p)
    BY WalkTyped
  <1> QED BY <1>1, PathsAreWalks DEF RoutesOf, OpenWalks

(* Cutting a loop out of a walk makes it shorter.                          *)
LEMMA LoopsCutOut ==
  ASSUME NEW m \in Models, NEW s \in Tiles, NEW g \in Tiles, NEW w \in OpenWalks(m, s, g),
         NEW i \in 1 .. Len(w), NEW j \in 1 .. Len(w), i < j, w[i] = w[j]
  PROVE  \E v \in OpenWalks(m, s, g) : Len(v) < Len(w)
  <1> DEFINE l == Len(w)
             d == j - i
             v == [k \in 1 .. l - d |-> IF k <= i THEN w[k] ELSE w[k + d]]
  <1>1. /\ w \in Seq(Tiles) /\ l \in Nat /\ l >= 1 /\ w[1] = s /\ w[l] = g
        /\ \A k \in 1 .. l : w[k] \in Tiles /\ Enters(m, w[k])
        /\ \A k \in 1 .. l - 1 : w[k + 1] \in StepsOf(m)[w[k]]
    BY WalkTyped DEF OpenWalks
  <1>2. d \in Nat /\ d >= 1 /\ l - d \in Nat /\ l - d >= i /\ l - d < l /\ i >= 1 /\ i \in Nat /\ i + d = j /\ j <= l
    BY <1>1
  <1> HIDE DEF d, l
  <1>3. \A k \in 1 .. l - d : v[k] = w[k] \/ (k > i /\ v[k] = w[k + d])
    OBVIOUS
  <1>4. \A k \in 1 .. l - d : v[k] \in Tiles /\ Enters(m, v[k])
    <2> SUFFICES ASSUME NEW k \in 1 .. l - d PROVE v[k] \in Tiles /\ Enters(m, v[k])
      OBVIOUS
    <2>1. k \in 1 .. l /\ k + d \in 1 .. l
      BY <1>1, <1>2
    <2> HIDE DEF v
    <2> QED BY <1>1, <1>3, <2>1
  <1>5. v \in Seq(Tiles) /\ Len(v) = l - d
    <2>1. v \in [1 .. l - d -> Tiles]
      BY <1>4
    <2> HIDE DEF v
    <2> QED BY <1>2, <2>1, IsASeq, LenProperties
  <1>6. v[1] = s /\ v[l - d] = g
    <2>1. v[1] = s
      <3>1. 1 \in 1 .. l - d /\ 1 <= i
        BY <1>2
      <3> QED BY <1>1, <3>1
    <2>2. l - d \in 1 .. l - d
      BY <1>2
    <2>3. CASE l - d <= i
      <3>1. l - d = i /\ j = l
        <4> HIDE DEF v
        <4> QED BY <1>1, <1>2, <2>3
      <3> QED BY <1>1, <2>1, <2>2, <3>1 DEF l
    <2>4. CASE ~(l - d <= i)
      <3>1. (l - d) + d = l
        BY <1>1, <1>2
      <3> QED BY <1>1, <2>1, <2>2, <2>4, <3>1
    <2> QED BY <2>3, <2>4
  <1>7. ASSUME NEW k \in 1 .. (l - d) - 1 PROVE v[k + 1] \in StepsOf(m)[v[k]]
    <2>1. k \in 1 .. l - d /\ k + 1 \in 1 .. l - d /\ k \in 1 .. l - 1
      BY <1>1, <1>2
    <2>2. CASE k + 1 <= i
      <3>1. v[k + 1] = w[k + 1] /\ v[k] = w[k]
        BY <2>1, <2>2
      <3> QED BY <1>1, <2>1, <3>1
    <2>3. CASE k = i
      <3>1. v[k] = w[i] /\ v[k + 1] = w[j + 1]
        <4>1. (k + 1) + d = j + 1 /\ ~(k + 1 <= i) /\ k <= i
          BY <1>2, <2>3
        <4> QED BY <2>1, <2>3, <4>1
      <3>2. j \in 1 .. l - 1
        BY <1>1, <1>2, <2>1, <2>3
      <3> QED BY <1>1, <3>1, <3>2
    <2>4. CASE k > i
      <3>1. v[k] = w[k + d] /\ v[k + 1] = w[(k + d) + 1]
        <4>1. (k + 1) + d = (k + d) + 1 /\ ~(k + 1 <= i) /\ ~(k <= i)
          BY <1>2, <2>4
        <4> QED BY <2>1, <4>1
      <3>2. k + d \in 1 .. l - 1
        BY <1>1, <1>2, <2>1
      <3> HIDE DEF v
      <3> QED BY <1>1, <3>1, <3>2
    <2>5. k + 1 <= i \/ k = i \/ k > i
      BY <1>2
    <2> QED BY <2>2, <2>3, <2>4, <2>5
  <1> HIDE DEF v
  <1>8. v \in OpenWalks(m, s, g)
    <2>1. v # <<>>
      BY <1>2, <1>5, EmptySeq
    <2> QED BY <1>4, <1>5, <1>6, <1>7, <2>1 DEF OpenWalks, Walks
  <1> QED BY <1>2, <1>5, <1>8 DEF l

(* So whoever can walk has a route no longer than the walk. *)
LEMMA WalksHaveRoutes ==
  ASSUME NEW m \in Models, NEW s \in Tiles, NEW g \in Tiles, NEW w \in OpenWalks(m, s, g)
  PROVE  \E p \in RoutesOf(m, s, g) : Len(p) <= Len(w)
  <1> DEFINE T == {Len(v) : v \in OpenWalks(m, s, g)}
  <1>1. T \in SUBSET Nat /\ T # {}
    BY WalkTyped DEF OpenWalks
  <1>2. PICK n \in T : \A k \in T : n <= k
    <2> HIDE DEF T
    <2> QED BY <1>1, LeastNumber
  <1>3. PICK v \in OpenWalks(m, s, g) : n = Len(v)
    OBVIOUS
  <1>4. Simple(v)
    <2>1. v \in Walks(StepsOf(m)) /\ DOMAIN v = 1 .. Len(v) /\ Len(v) \in Nat
      BY WalkTyped DEF OpenWalks
    <2>2. ASSUME NEW i \in 1 .. Len(v), NEW j \in 1 .. Len(v), v[i] = v[j], i < j PROVE FALSE
      <3>1. PICK u \in OpenWalks(m, s, g) : Len(u) < Len(v)
        BY <2>2, LoopsCutOut
      <3>2. Len(u) \in T
        OBVIOUS
      <3>3. Len(u) \in Nat
        BY <1>1, <3>2
      <3>4. Len(v) <= Len(u)
        BY <1>2, <1>3, <3>2
      <3> QED BY <2>1, <3>1, <3>3, <3>4
    <2>3. ASSUME NEW i \in 1 .. Len(v), NEW j \in 1 .. Len(v), v[i] = v[j] PROVE i = j
      <3>1. ~(i < j) /\ ~(j < i)
        BY <2>2, <2>3
      <3> QED BY <2>1, <3>1
    <2> QED BY <2>1, <2>3 DEF Simple
  <1>5. Len(v) <= Len(w)
    BY <1>2, <1>3
  <1> QED BY <1>3, <1>4, <1>5, RoutesAreWalks

(* The rest of a route from a tile on it is a route from there.            *)
LEMMA SuffixIsRoute ==
  ASSUME NEW m \in Models, NEW s \in Tiles, NEW g \in Tiles, NEW p \in RoutesOf(m, s, g),
         NEW k \in 1 .. Len(p)
  PROVE  /\ p[k] \in Tiles
         /\ SubSeq(p, k, Len(p)) \in RoutesOf(m, p[k], g)
         /\ Len(SubSeq(p, k, Len(p))) = Len(p) - k + 1
  <1> DEFINE l == Len(p)
             q == SubSeq(p, k, l)
  <1>1. p \in OpenWalks(m, s, g) /\ Simple(p)
    BY RoutesAreWalks
  <1>2. /\ p \in Seq(Tiles) /\ l \in Nat /\ l >= 1 /\ p[1] = s /\ p[l] = g /\ DOMAIN p = 1 .. l
        /\ \A i \in 1 .. l : p[i] \in Tiles /\ Enters(m, p[i])
        /\ \A i \in 1 .. l - 1 : p[i + 1] \in StepsOf(m)[p[i]]
        /\ \A i, j \in 1 .. l : p[i] = p[j] => i = j
    BY <1>1, WalkTyped DEF OpenWalks, Simple
  <1> DEFINE n == l - k + 1
  <1>3. k \in Nat /\ k >= 1 /\ k <= l /\ n \in Nat /\ n >= 1
    BY <1>2
  <1>4. /\ q \in Seq(Tiles) /\ Len(q) = n
        /\ \A i \in 1 .. n : q[i] = p[(k + i) - 1]
    <2>1. \A i \in k .. l : p[i] \in Tiles
      BY <1>2, <1>3
    <2>2. k \in Int /\ l \in Int /\ k <= l
      BY <1>2, <1>3
    <2>3. /\ q \in Seq(Tiles) /\ Len(q) = (IF k <= l THEN l - k + 1 ELSE 0)
          /\ \A i \in 1 .. l - k + 1 : q[i] = p[k + i - 1]
      <3> HIDE DEF l
      <3> QED BY <2>1, <2>2, SubSeqProperties
    <2> HIDE DEF q, l
    <2> QED BY <2>2, <2>3
  <1> HIDE DEF q, l
  <1>5. ASSUME NEW i \in 1 .. n PROVE (k + i) - 1 \in 1 .. l
    BY <1>2, <1>3
  <1>6. q[1] = p[k] /\ q[n] = g /\ q # <<>>
    <2>1. 1 \in 1 .. n /\ n \in 1 .. n /\ (k + 1) - 1 = k /\ (k + n) - 1 = l
      BY <1>2, <1>3
    <2> HIDE DEF n
    <2> QED BY <1>2, <1>3, <1>4, <2>1, EmptySeq
  <1>7. ASSUME NEW i \in 1 .. n - 1 PROVE q[i + 1] \in StepsOf(m)[q[i]]
    <2>1. i \in 1 .. n /\ i + 1 \in 1 .. n /\ (k + (i + 1)) - 1 = ((k + i) - 1) + 1 /\ (k + i) - 1 \in 1 .. l - 1
      BY <1>2, <1>3
    <2> HIDE DEF n
    <2>2. q[i + 1] = p[((k + i) - 1) + 1] /\ q[i] = p[(k + i) - 1]
      BY <1>4, <2>1
    <2> QED BY <1>2, <2>1, <2>2
  <1>8. ASSUME NEW i \in 1 .. n, NEW j \in 1 .. n, q[i] = q[j] PROVE i = j
    <2>1. (k + i) - 1 = (k + j) - 1
      BY <1>2, <1>4, <1>5, <1>8
    <2> QED BY <1>3, <2>1
  <1>9. q \in RoutesOf(m, p[k], g)
    <2>1. p[k] \in Tiles /\ DOMAIN q = 1 .. n
      BY <1>2, <1>3, <1>4, LenProperties
    <2>2. q \in Walks(StepsOf(m))
      BY <1>4, <1>6, <1>7 DEF Walks
    <2>3. q \in OpenWalks(m, p[k], g)
      BY <1>2, <1>4, <1>5, <1>6, <2>2 DEF OpenWalks
    <2>4. Simple(q)
      BY <1>8, <2>1 DEF Simple
    <2> QED BY <2>1, <2>3, <2>4, RoutesAreWalks
  <1>10. p[k] \in Tiles
    BY <1>2, <1>3
  <1> QED BY <1>4, <1>9, <1>10 DEF q, l, n

(* ... and a shortest one when the route is: another way from there would  *)
(* make another walk from the start.                                       *)
LEMMA SuffixIsShortest ==
  ASSUME NEW m \in Models, NEW s \in Tiles, NEW g \in Tiles, NEW p \in RoutesOf(m, s, g),
         \A q \in RoutesOf(m, s, g) : Len(p) <= Len(q),
         NEW k \in 1 .. Len(p), NEW r \in RoutesOf(m, p[k], g)
  PROVE  Len(p) - k + 1 <= Len(r)
  <1> DEFINE l == Len(p)
             h == SubSeq(p, 1, k - 1)
             w == h \o r
  <1>1. p \in OpenWalks(m, s, g) /\ p[k] \in Tiles /\ r \in OpenWalks(m, p[k], g)
    BY RoutesAreWalks, SuffixIsRoute
  <1>2. /\ p \in Seq(Tiles) /\ l \in Nat /\ l >= 1 /\ p[1] = s /\ p[l] = g
        /\ \A i \in 1 .. l : p[i] \in Tiles /\ Enters(m, p[i])
        /\ \A i \in 1 .. l - 1 : p[i + 1] \in StepsOf(m)[p[i]]
    BY <1>1, WalkTyped DEF OpenWalks
  <1>3. /\ r \in Seq(Tiles) /\ Len(r) \in Nat /\ Len(r) >= 1 /\ r[1] = p[k] /\ r[Len(r)] = g
        /\ \A i \in 1 .. Len(r) : r[i] \in Tiles /\ Enters(m, r[i])
        /\ \A i \in 1 .. Len(r) - 1 : r[i + 1] \in StepsOf(m)[r[i]]
    BY <1>1, WalkTyped DEF OpenWalks
  <1>4. k \in Nat /\ k >= 1 /\ k <= l /\ k - 1 \in Nat
    BY <1>2
  <1>5. /\ h \in Seq(Tiles) /\ Len(h) = k - 1 /\ \A i \in 1 .. k - 1 : h[i] = p[i]
    <2>1. \A i \in 1 .. k - 1 : p[i] \in Tiles
      BY <1>2, <1>4
    <2>2. 1 \in Int /\ k - 1 \in Int
      BY <1>4
    <2>3. /\ h \in Seq(Tiles) /\ Len(h) = (IF 1 <= k - 1 THEN (k - 1) - 1 + 1 ELSE 0)
          /\ \A i \in 1 .. (k - 1) - 1 + 1 : h[i] = p[1 + i - 1]
      BY <2>1, <2>2, SubSeqProperties
    <2> HIDE DEF h
    <2>4. Len(h) = k - 1
      BY <1>4, <2>3
    <2>5. \A i \in 1 .. k - 1 : h[i] = p[i]
      <3> SUFFICES ASSUME NEW i \in 1 .. k - 1 PROVE h[i] = p[i]
        OBVIOUS
      <3>1. i \in 1 .. (k - 1) - 1 + 1 /\ 1 + i - 1 = i
        BY <1>4
      <3> QED BY <2>3, <3>1
    <2> QED BY <2>3, <2>4, <2>5
  <1> HIDE DEF h, l
  <1>6. /\ w \in Seq(Tiles) /\ Len(w) = (k - 1) + Len(r)
        /\ \A i \in 1 .. (k - 1) + Len(r) : w[i] = IF i <= k - 1 THEN h[i] ELSE r[i - (k - 1)]
    <2>1. /\ h \o r \in Seq(Tiles) /\ Len(h \o r) = Len(h) + Len(r)
          /\ \A i \in 1 .. Len(h) + Len(r) : (h \o r)[i] = IF i <= Len(h) THEN h[i] ELSE r[i - Len(h)]
      BY <1>3, <1>5, ConcatProperties
    <2>2. Len(h) = k - 1
      BY <1>5
    <2> QED BY <2>1, <2>2
  <1> HIDE DEF w
  <1> DEFINE n == (k - 1) + Len(r)
  <1>7. ASSUME NEW i \in 1 .. n PROVE \/ i \in 1 .. k - 1 /\ w[i] = p[i]
                                      \/ i - (k - 1) \in 1 .. Len(r) /\ w[i] = r[i - (k - 1)] /\ i >= k
    <2>1. CASE i <= k - 1
      <3>1. i \in 1 .. k - 1
        BY <1>4, <2>1
      <3> QED BY <1>5, <1>6, <2>1, <3>1
    <2>2. CASE ~(i <= k - 1)
      <3>1. i - (k - 1) \in 1 .. Len(r) /\ i >= k
        BY <1>3, <1>4, <2>2
      <3> QED BY <1>6, <2>2, <3>1
    <2> QED BY <2>1, <2>2
  <1>8. ASSUME NEW i \in 1 .. n PROVE w[i] \in Tiles /\ Enters(m, w[i])
    <2>1. CASE i \in 1 .. k - 1 /\ w[i] = p[i]
      <3>1. i \in 1 .. l
        BY <1>2, <1>4, <2>1
      <3> QED BY <1>2, <2>1, <3>1
    <2>2. CASE i - (k - 1) \in 1 .. Len(r) /\ w[i] = r[i - (k - 1)]
      BY <1>3, <2>2
    <2> QED BY <1>7, <2>1, <2>2
  <1>9. w[1] = s /\ w[n] = g /\ n \in Nat /\ n >= 1
    <2>1. n \in Nat /\ n >= 1 /\ 1 \in 1 .. n /\ n \in 1 .. n /\ ~(n <= k - 1) /\ n - (k - 1) = Len(r)
      BY <1>3, <1>4
    <2>2. w[n] = g
      BY <1>3, <1>6, <2>1
    <2>3. CASE k = 1
      <3>1. ~(1 <= k - 1) /\ 1 - (k - 1) = 1
        BY <2>3
      <3> QED BY <1>2, <1>3, <1>6, <2>1, <2>2, <2>3, <3>1
    <2>4. CASE k # 1
      <3>1. 1 <= k - 1 /\ 1 \in 1 .. k - 1
        BY <1>4, <2>4
      <3> QED BY <1>2, <1>5, <1>6, <2>1, <2>2, <3>1
    <2> QED BY <2>3, <2>4
  <1>10. ASSUME NEW i \in 1 .. n - 1 PROVE w[i + 1] \in StepsOf(m)[w[i]]
    <2>1. i \in 1 .. n /\ i + 1 \in 1 .. n
      BY <1>9
    <2>2. CASE i + 1 <= k - 1
      <3>1. i \in 1 .. k - 1 /\ i + 1 \in 1 .. k - 1 /\ i \in 1 .. l - 1 /\ i <= k - 1
        BY <1>2, <1>4, <2>2
      <3>2. w[i] = p[i] /\ w[i + 1] = p[i + 1]
        BY <1>5, <1>6, <2>1, <2>2, <3>1
      <3> QED BY <1>2, <3>1, <3>2
    <2>3. CASE i = k - 1
      <3>1. i \in 1 .. k - 1 /\ i <= k - 1 /\ ~(i + 1 <= k - 1) /\ (i + 1) - (k - 1) = 1 /\ i \in 1 .. l - 1 /\ i + 1 = k
        BY <1>2, <1>4, <2>1, <2>3
      <3>2. w[i] = p[i] /\ w[i + 1] = r[1]
        BY <1>5, <1>6, <2>1, <3>1
      <3>3. p[i + 1] = r[1]
        BY <1>3, <3>1
      <3> QED BY <1>2, <3>1, <3>2, <3>3
    <2>4. CASE i > k - 1
      <3> DEFINE j == i - (k - 1)
      <3>1. ~(i <= k - 1) /\ ~(i + 1 <= k - 1) /\ (i + 1) - (k - 1) = j + 1 /\ j \in 1 .. Len(r) - 1
        BY <1>3, <1>4, <2>1, <2>4
      <3>2. w[i] = r[j] /\ w[i + 1] = r[j + 1]
        BY <1>6, <2>1, <3>1
      <3> HIDE DEF j
      <3> QED BY <1>3, <3>1, <3>2
    <2>5. i + 1 <= k - 1 \/ i = k - 1 \/ i > k - 1
      BY <1>4, <2>1
    <2> QED BY <2>2, <2>3, <2>4, <2>5
  <1>11. w \in OpenWalks(m, s, g)
    <2>1. w # <<>>
      BY <1>6, <1>9, EmptySeq
    <2>2. Len(w) = n
      BY <1>6
    <2> HIDE DEF n
    <2> QED BY <1>6, <1>8, <1>9, <1>10, <2>1, <2>2 DEF OpenWalks, Walks
  <1>12. PICK q \in RoutesOf(m, s, g) : Len(q) <= Len(w)
    BY <1>11, WalksHaveRoutes
  <1>13. Len(q) \in Nat
    BY RoutesAreWalks, WalkTyped DEF OpenWalks
  <1>14. l <= Len(q)
    BY DEF l
  <1>15. l - k + 1 <= Len(r)
    BY <1>2, <1>3, <1>4, <1>6, <1>12, <1>13, <1>14
  <1> QED BY <1>15 DEF l

(* The run of chunks along a path is a fold as well, and leaves none out.  *)
RunStep(run, c) == IF run # <<>> /\ Last(run) = c THEN run ELSE Append(run, c)
Runs(F, path) ==
  F = [s \in SUBSET (DOMAIN path) |->
         IF s = {} THEN <<>> ELSE RunStep(F[s \ {Max(s)}], ChunkOf(path[Max(s)]))]

(* The fold of ChunkRun. *)
LEMMA RunUnfolds ==
  ASSUME NEW path
  PROVE  ChunkRun(path) = (CHOOSE F : Runs(F, path))[DOMAIN path]
  BY Zenon DEF ChunkRun, FoldLeft, MapThenFoldSet, Runs, RunStep

(* One more chunk of a run. *)
LEMMA RunStepIn ==
  ASSUME NEW run \in Seq(Chunks), NEW c \in Chunks
  PROVE  /\ RunStep(run, c) \in Seq(Chunks)
         /\ ToSet(RunStep(run, c)) = ToSet(run) \cup {c}
  <1>1. CASE run # <<>> /\ Last(run) = c
    <2>1. Len(run) \in 1 .. Len(run) /\ Len(run) \in DOMAIN run
      BY <1>1, LenProperties, EmptySeq
    <2>2. c \in ToSet(run)
      BY <1>1, <2>1 DEF Last, ToSet
    <2> QED BY <1>1, <2>2 DEF RunStep
  <1>2. CASE ~(run # <<>> /\ Last(run) = c)
    <2>1. RunStep(run, c) = Append(run, c)
      BY <1>2 DEF RunStep
    <2>2. ToSet(Append(run, c)) = ToSet(run) \cup {c}
      BY AppendProperties, LenProperties DEF ToSet
    <2> QED BY <2>1, <2>2, AppendProperties
  <1> QED BY <1>1, <1>2

(* Every tile of a path has its chunk in the run. *)
LEMMA RunCovers ==
  ASSUME NEW path \in Seq(Tiles)
  PROVE  /\ ChunkRun(path) \in Seq(Chunks)
         /\ \A i \in 1 .. Len(path) : ChunkOf(path[i]) \in ToSet(ChunkRun(path))
  <1> DEFINE N == Len(path)
             A == Seq(Chunks)
             step == [x \in (1 .. N) \X A |-> RunStep(x[2], ChunkOf(path[x[1]]))]
             F == CHOOSE f : Runs(f, path)
  <1>1. N \in Nat /\ DOMAIN path = 1 .. N /\ \A i \in 1 .. N : ChunkOf(path[i]) \in Chunks
    BY LenProperties, ElementOfSeq DEF Chunks
  <1>2. \E f : Runs(f, path)
    <2>1. step \in [(1 .. N) \X A -> A]
      <3>1. ASSUME NEW n \in 1 .. N, NEW run \in A PROVE RunStep(run, ChunkOf(path[n])) \in A
        BY <1>1, RunStepIn
      <3> HIDE DEF A, N
      <3> QED BY <3>1
    <2>2. <<>> \in A
      BY EmptySeq
    <2>3. PICK f \in [SUBSET (1 .. N) -> A] : Folds(f, <<>>, step, N)
      <3> HIDE DEF step, A, N
      <3> QED BY <1>1, <2>1, <2>2, FoldExists
    <2>4. ASSUME NEW s \in SUBSET (1 .. N), s # {} PROVE f[s] = RunStep(f[s \ {Max(s)}], ChunkOf(path[Max(s)]))
      <3>1. Max(s) \in 1 .. N
        <4>1. Max(s) \in s
          <5> HIDE DEF N
          <5> QED BY <1>1, <2>4, MaxIsMember
        <4> QED BY <4>1
      <3>2. f[s \ {Max(s)}] \in A
        OBVIOUS
      <3>3. f[s] = step[<<Max(s), f[s \ {Max(s)}]>>]
        BY <2>3, <2>4 DEF Folds
      <3>4. <<Max(s), f[s \ {Max(s)}]>> \in (1 .. N) \X A
        BY <3>1, <3>2
      <3> HIDE DEF A, N
      <3> QED BY <3>3, <3>4
    <2>5. f[{}] = <<>> /\ f = [s \in SUBSET (1 .. N) |-> f[s]]
      BY <2>3 DEF Folds
    <2>6. f = [s \in SUBSET (1 .. N) |-> IF s = {} THEN <<>> ELSE RunStep(f[s \ {Max(s)}], ChunkOf(path[Max(s)]))]
      <3>1. \A s \in SUBSET (1 .. N) : f[s] = (IF s = {} THEN <<>> ELSE RunStep(f[s \ {Max(s)}], ChunkOf(path[Max(s)])))
        BY <2>4, <2>5
      <3> HIDE DEF N, A
      <3> QED BY <2>5, <3>1
    <2>7. Runs(f, path)
      <3> HIDE DEF N, A
      <3> QED BY <1>1, <2>6, Zenon DEF Runs
    <2> QED BY <2>7
  <1>3. Runs(F, path)
    BY <1>2
  <1> HIDE DEF F
  <1>4. F = [s \in SUBSET (1 .. N) |-> IF s = {} THEN <<>> ELSE RunStep(F[s \ {Max(s)}], ChunkOf(path[Max(s)]))]
    BY <1>1, <1>3, Zenon DEF Runs
  <1> HIDE DEF N
  <1>5. \A n \in 0 .. N : /\ F[1 .. n] \in Seq(Chunks)
                          /\ \A i \in 1 .. n : ChunkOf(path[i]) \in ToSet(F[1 .. n])
    <2> DEFINE S == {n \in 0 .. N : /\ F[1 .. n] \in Seq(Chunks)
                                    /\ \A i \in 1 .. n : ChunkOf(path[i]) \in ToSet(F[1 .. n])}
    <2>1. 0 \in S
      <3>1. 1 .. 0 = {} /\ {} \in SUBSET (1 .. N) /\ 0 \in 0 .. N
        BY <1>1
      <3>2. F[{}] = <<>>
        BY <1>4, <3>1
      <3> QED BY <3>1, <3>2, EmptySeq
    <2>2. ASSUME NEW n \in 1 .. N, n - 1 \in S PROVE n \in S
      <3>1. /\ F[1 .. n - 1] \in Seq(Chunks)
            /\ \A i \in 1 .. n - 1 : ChunkOf(path[i]) \in ToSet(F[1 .. n - 1])
        BY <2>2
      <3>2. 1 .. n # {} /\ 1 .. n \in SUBSET (1 .. N) /\ n \in Nat \ {0} /\ n \in 0 .. N
        <4> HIDE DEF S, step, A
        <4>1. n \in 1 .. n /\ n \in Nat \ {0} /\ n \in 0 .. N
          BY <1>1
        <4>2. 1 .. n \in SUBSET (1 .. N)
          BY <1>1
        <4> QED BY <4>1, <4>2
      <3>3. Max(1 .. n) = n /\ (1 .. n) \ {n} = 1 .. n - 1
        BY <3>2, LastOfInterval
      <3>4. F[1 .. n] = RunStep(F[1 .. n - 1], ChunkOf(path[n]))
        BY <1>4, <3>2, <3>3
      <3>5. F[1 .. n] \in Seq(Chunks) /\ ToSet(F[1 .. n]) = ToSet(F[1 .. n - 1]) \cup {ChunkOf(path[n])}
        BY <1>1, <3>1, <3>4, RunStepIn
      <3>6. ASSUME NEW i \in 1 .. n PROVE ChunkOf(path[i]) \in ToSet(F[1 .. n])
        <4>1. CASE i = n
          BY <3>5, <4>1
        <4>2. CASE i # n
          <5>1. i \in 1 .. n - 1
            BY <3>2, <4>2
          <5> QED BY <3>1, <3>5, <5>1
        <4> QED BY <4>1, <4>2
      <3> QED BY <3>2, <3>5, <3>6
    <2> HIDE DEF S
    <2>3. \A n \in 0 .. N : n \in S
      BY <1>1, <2>1, <2>2, BoundedInduction
    <2> QED BY <2>3 DEF S
  <1>6. ChunkRun(path) = F[1 .. N]
    BY <1>1, RunUnfolds DEF F
  <1>7. N \in 0 .. N
    BY <1>1
  <1> QED BY <1>5, <1>6, <1>7 DEF N

-----------------------------------------------------------------------------
(* The inductive invariant.                                                *)
Statuses == {"Found", "InvalidStart", "InvalidGoal", "NoPath"}
Dependency == [key : Chunks, version : Nat]
EntryRecord == [start : Tiles, goal : Tiles, status : Statuses, cost : Int, path : Seq(Tiles),
                deps : Seq(Dependency), epoch : Nat, alive : BOOLEAN, whole : BOOLEAN]
Claim == [entry : Nat, offset : Nat]
Caps == [entries : Nat, nodes : Nat, deps : Nat]
CacheRecord ==
  [entries : Seq(EntryRecord), suffixes : UNION {[D -> Claim] : D \in SUBSET (Tiles \X Tiles)},
   mode : {Exact, Scoped}, caps : Caps, baseline : SUBSET [Chunks -> Nat],
   epoch : Nat, synced : Nat, bound : Models \cup {None}]

ResultOf(e) == [status |-> e.status, cost |-> e.cost, path |-> e.path]
Covered(e) == \A i \in DOMAIN e.path : \E k \in DOMAIN e.deps : e.deps[k].key = ChunkOf(e.path[i])
Shortest(m, e) == \A q \in RoutesOf(m, e.start, e.goal) : Len(e.path) <= Len(q)

(* What a stored route is, whatever has changed since.                     *)
StoredRoute(m, e) ==
  /\ e.status = "Found" => e.path \in ModelPaths[m][<<e.start, e.goal>>] /\ e.cost = Hops(e.path)
  /\ \A k \in DOMAIN e.deps : e.deps[k].version <= version[e.deps[k].key]

(* An entry that is served without looking at its dependencies is fresh.   *)
FreshWhile(c, e) ==
  /\ c.mode = Exact /\ c.baseline = {version} => ResultOf(e) \in FreshResults(c.bound, e.start, e.goal)
  /\ c.mode = Scoped /\ e.whole /\ e.epoch = c.epoch /\ ~edited =>
       ResultOf(e) \in FreshResults(c.bound, e.start, e.goal)

(* An entry that is served for its dependencies names the chunks of its    *)
(* route, which is open while these are as they were, and shortest unless  *)
(* some tile was opened.                                                   *)
LegalWhile(c, e) ==
  c.mode = Scoped /\ ~e.whole =>
    /\ e.status = "Found" /\ Eligible(c.bound) /\ Covered(e)
    /\ DependenciesHold(e.deps) => e.path \in RoutesOf(c.bound, e.start, e.goal)
    /\ e.epoch = c.epoch /\ ~edited => DependenciesHold(e.deps)
    /\ ~opened => Shortest(c.bound, e)

EntryHolds(c, e) ==
  e.epoch <= c.epoch /\ StoredRoute(c.bound, e) /\ FreshWhile(c, e) /\ LegalWhile(c, e)

(* A claim on a suffix points into a route for its goal. *)
ClaimHolds(c, key) ==
  LET claim == c.suffixes[key]
  IN  /\ claim.entry \in DOMAIN c.entries
      /\ c.entries[claim.entry].status = "Found" /\ c.entries[claim.entry].goal = key[2]
      /\ claim.offset \in DOMAIN c.entries[claim.entry].path
      /\ c.entries[claim.entry].path[claim.offset] = key[1]

CacheOK(c) ==
  /\ c \in CacheRecord
  /\ c.entries # <<>> => c.bound \in Models
  /\ c.entries # <<>> /\ c.mode = Exact => c.baseline # {}
  /\ \A b \in c.baseline, k \in Chunks : b[k] <= version[k]
  /\ \A i \in DOMAIN c.entries : EntryHolds(c, c.entries[i])
  /\ \A key \in DOMAIN c.suffixes : ClaimHolds(c, key)

(* The caller's refreshes: what an edit does to the baseline.              *)
BaselineIsTrue ==
  /\ edited => routes.baseline # {version}
  /\ based /\ ~edited => routes.baseline = {version}

RouteInv ==
  /\ terrain \in Terrains /\ version \in [Chunks -> Nat]
  /\ {edited, based, opened} \subseteq BOOLEAN
  /\ CacheOK(routes) /\ BaselineIsTrue /\ ServedRoutesAreTrue

-----------------------------------------------------------------------------
(* What a search returns.                                                  *)

(* A route and its length. *)
LEMMA RouteTyped ==
  ASSUME NEW m \in Models, NEW s \in Tiles, NEW g \in Tiles, NEW p \in RoutesOf(m, s, g)
  PROVE  /\ p \in Seq(Tiles) /\ p # <<>> /\ Len(p) \in Nat /\ Len(p) >= 1 /\ DOMAIN p = 1 .. Len(p)
         /\ p[1] = s /\ p[Len(p)] = g /\ Enters(m, s) /\ Enters(m, g)
         /\ \A i \in 1 .. Len(p) : p[i] \in Tiles
         /\ p \in ModelPaths[m][<<s, g>>] /\ Hops(p) \in Int
  <1>1. p \in OpenWalks(m, s, g)
    BY RoutesAreWalks
  <1>2. /\ p \in Seq(Tiles) /\ p # <<>> /\ Len(p) \in Nat /\ Len(p) >= 1 /\ DOMAIN p = 1 .. Len(p)
        /\ \A i \in 1 .. Len(p) : p[i] \in Tiles
    BY <1>1, WalkTyped DEF OpenWalks
  <1>3. 1 \in 1 .. Len(p) /\ Len(p) \in 1 .. Len(p)
    BY <1>2
  <1>4. Hops(p) \in Int
    BY <1>2 DEF Hops
  <1> QED BY <1>1, <1>2, <1>3, <1>4 DEF OpenWalks, RoutesOf

(* A shortest route is what a search may return. *)
LEMMA ShortestIsFresh ==
  ASSUME NEW m \in Models, NEW s \in Tiles, NEW g \in Tiles, NEW p \in RoutesOf(m, s, g),
         \A q \in RoutesOf(m, s, g) : Len(p) <= Len(q)
  PROVE  FoundRoute(p) \in FreshResults(m, s, g)
  <1>1. Enters(m, s) /\ Enters(m, g) /\ RoutesOf(m, s, g) # {}
    BY RouteTyped
  <1>2. \A q \in RoutesOf(m, s, g) : Hops(p) <= Hops(q)
    <2> SUFFICES ASSUME NEW q \in RoutesOf(m, s, g) PROVE Len(p) - 1 <= Len(q) - 1
      BY DEF Hops
    <2>1. Len(p) \in Nat /\ Len(q) \in Nat /\ Len(p) <= Len(q)
      BY RouteTyped
    <2> QED BY <2>1
  <1>3. p \in Cheapest(RoutesOf(m, s, g), Hops)
    BY <1>2, Zenon DEF Cheapest
  <1> QED BY <1>1, <1>3, Zenon DEF FreshResults

(* What it returns is a shortest route or a failure. *)
LEMMA FreshIsShortest ==
  ASSUME NEW m \in Models, NEW s \in Tiles, NEW g \in Tiles, NEW r \in FreshResults(m, s, g)
  PROVE  /\ r = [status |-> r.status, cost |-> r.cost, path |-> r.path]
         /\ r.status \in Statuses /\ r.cost \in Int /\ r.path \in Seq(Tiles)
         /\ r.status = "Found" =>
              /\ r.path \in RoutesOf(m, s, g) /\ r.cost = Hops(r.path)
              /\ \A q \in RoutesOf(m, s, g) : Len(r.path) <= Len(q)
  <1>1. CASE r \in {Failure("InvalidStart"), Failure("InvalidGoal"), Failure("NoPath")}
    <2>1. <<>> \in Seq(Tiles)
      BY EmptySeq
    <2>2. PICK x \in {"InvalidStart", "InvalidGoal", "NoPath"} : r = [status |-> x, cost |-> 0, path |-> <<>>]
      BY <1>1 DEF Failure
    <2>3. r.status = x /\ r.cost = 0 /\ r.path = <<>>
      BY <2>2
    <2> QED BY <2>1, <2>2, <2>3 DEF Statuses
  <1>2. CASE r \notin {Failure("InvalidStart"), Failure("InvalidGoal"), Failure("NoPath")}
    <2>1. r \in {FoundRoute(p) : p \in Cheapest(RoutesOf(m, s, g), Hops)}
      BY <1>2, Zenon DEF FreshResults
    <2>2. PICK p \in Cheapest(RoutesOf(m, s, g), Hops) : r = FoundRoute(p)
      BY <2>1
    <2>3. p \in RoutesOf(m, s, g) /\ \A q \in RoutesOf(m, s, g) : Hops(p) <= Hops(q)
      BY Zenon DEF Cheapest
    <2>4. ASSUME NEW q \in RoutesOf(m, s, g) PROVE Len(p) <= Len(q)
      <3>1. Len(p) \in Nat /\ Len(q) \in Nat /\ Len(p) - 1 <= Len(q) - 1
        BY <2>3, RouteTyped DEF Hops
      <3> QED BY <3>1
    <2>5. p \in Seq(Tiles) /\ Hops(p) \in Int
      <3>1. p \in RoutesOf(m, s, g)
        BY <2>3
      <3> QED BY <3>1, RouteTyped
    <2> QED BY <2>2, <2>3, <2>4, <2>5 DEF FoundRoute, Statuses
  <1> QED BY <1>1, <1>2

(* Closing tiles takes routes away and adds none.                          *)
LEMMA ClosingKeepsRoutes ==
  ASSUME NEW m \in Models, NEW s \in Tiles, NEW g \in Tiles,
         \A t \in Tiles : Enters(m, t)' => Enters(m, t)
  PROVE  RoutesOf(m, s, g)' \subseteq RoutesOf(m, s, g)
  <1> SUFFICES ASSUME NEW p \in RoutesOf(m, s, g)' PROVE p \in RoutesOf(m, s, g)
    OBVIOUS
  <1>1. p \in ModelPaths[m][<<s, g>>] /\ \A i \in DOMAIN p : Enters(m, p[i])'
    BY DEF RoutesOf
  <1>2. \A i \in DOMAIN p : p[i] \in Tiles
    BY <1>1, PathsAreWalks, WalkTyped
  <1> QED BY <1>1, <1>2 DEF RoutesOf

(* A suffix of what a search could return could be returned as well. *)
LEMMA FreshSuffix ==
  ASSUME NEW m \in Models, NEW s \in Tiles, NEW g \in Tiles, NEW p \in RoutesOf(m, s, g),
         \A q \in RoutesOf(m, s, g) : Len(p) <= Len(q), NEW k \in DOMAIN p
  PROVE  FoundRoute(SubSeq(p, k, Len(p))) \in FreshResults(m, p[k], g)
  <1>1. k \in 1 .. Len(p)
    BY RouteTyped
  <1>2. /\ p[k] \in Tiles /\ SubSeq(p, k, Len(p)) \in RoutesOf(m, p[k], g)
        /\ Len(SubSeq(p, k, Len(p))) = Len(p) - k + 1
    BY <1>1, SuffixIsRoute
  <1>3. \A r \in RoutesOf(m, p[k], g) : Len(SubSeq(p, k, Len(p))) <= Len(r)
    BY <1>1, <1>2, SuffixIsShortest
  <1> QED BY <1>2, <1>3, ShortestIsFresh

-----------------------------------------------------------------------------
(* What the operations of the cache keep.                                  *)

(* An empty index. *)
LEMMA NoClaims == <<>> \in UNION {[D -> Claim] : D \in SUBSET (Tiles \X Tiles)} /\ DOMAIN <<>> = {}
  <1>1. <<>> \in [{} -> Claim]
    OBVIOUS
  <1>2. [{} -> Claim] \in {[D -> Claim] : D \in SUBSET (Tiles \X Tiles)}
    OBVIOUS
  <1> QED BY <1>1, <1>2

(* A cache without entries holds nothing that could be wrong.              *)
LEMMA EmptyIsOK ==
  ASSUME NEW c \in CacheRecord, c.entries = <<>>, c.suffixes = <<>>,
         \A b \in c.baseline, k \in Chunks : b[k] <= version[k]
  PROVE  CacheOK(c)
  BY NoClaims DEF CacheOK

(* The fields of a cache. *)
LEMMA CacheTyped ==
  ASSUME NEW c \in CacheRecord
  PROVE  /\ c.entries \in Seq(EntryRecord) /\ c.suffixes \in UNION {[D -> Claim] : D \in SUBSET (Tiles \X Tiles)}
         /\ c.mode \in {Exact, Scoped} /\ c.caps \in Caps /\ c.baseline \in SUBSET [Chunks -> Nat]
         /\ c.epoch \in Nat /\ c.synced \in Nat /\ c.bound \in Models \cup {None}
         /\ c = [entries |-> c.entries, suffixes |-> c.suffixes, mode |-> c.mode, caps |-> c.caps,
                 baseline |-> c.baseline, epoch |-> c.epoch, synced |-> c.synced, bound |-> c.bound]
         /\ Len(c.entries) \in Nat /\ DOMAIN c.entries = 1 .. Len(c.entries)
         /\ \A i \in DOMAIN c.entries : c.entries[i] \in EntryRecord
         /\ DOMAIN c.suffixes \subseteq Tiles \X Tiles
         /\ \A key \in DOMAIN c.suffixes : c.suffixes[key] \in Claim
  <1>1. /\ c.entries \in Seq(EntryRecord) /\ c.suffixes \in UNION {[D -> Claim] : D \in SUBSET (Tiles \X Tiles)}
        /\ c.mode \in {Exact, Scoped} /\ c.caps \in Caps /\ c.baseline \in SUBSET [Chunks -> Nat]
        /\ c.epoch \in Nat /\ c.synced \in Nat /\ c.bound \in Models \cup {None}
        /\ c = [entries |-> c.entries, suffixes |-> c.suffixes, mode |-> c.mode, caps |-> c.caps,
                baseline |-> c.baseline, epoch |-> c.epoch, synced |-> c.synced, bound |-> c.bound]
    BY DEF CacheRecord
  <1>2. PICK D \in SUBSET (Tiles \X Tiles) : c.suffixes \in [D -> Claim]
    BY <1>1
  <1> QED BY <1>1, <1>2, LenProperties, ElementOfSeq

(* What stays of a cache that is invalidated. *)
LEMMA InvalidatedIsOK ==
  ASSUME NEW c, CacheOK(c)
  PROVE  /\ CacheOK(Invalidated(c)) /\ Invalidated(c).entries = <<>> /\ Invalidated(c).suffixes = <<>>
         /\ Invalidated(c).mode = c.mode /\ Invalidated(c).bound = c.bound
         /\ Invalidated(c).baseline = c.baseline /\ Invalidated(c).epoch = c.epoch
         /\ Invalidated(c).caps = c.caps /\ Invalidated(c).synced = c.synced
         /\ Invalidated(c) \in CacheRecord
  <1> DEFINE d == Invalidated(c)
  <1>1. c \in CacheRecord /\ \A b \in c.baseline, k \in Chunks : b[k] <= version[k]
    BY DEF CacheOK
  <1>2. /\ d.entries = <<>> /\ d.suffixes = <<>> /\ d.mode = c.mode /\ d.bound = c.bound
        /\ d.baseline = c.baseline /\ d.epoch = c.epoch /\ d.caps = c.caps /\ d.synced = c.synced
        /\ d \in CacheRecord
    BY <1>1, NoClaims, EmptySeq DEF CacheRecord, Invalidated
  <1> HIDE DEF d
  <1>3. CacheOK(d)
    BY <1>1, <1>2, EmptyIsOK
  <1> QED BY <1>2, <1>3 DEF d

(* Binding another model drops the entries of the one before. *)
LEMMA BindIsOK ==
  ASSUME NEW c, CacheOK(c), NEW m \in Models
  PROVE  /\ CacheOK(BindIn(c, m)) /\ BindIn(c, m).bound = m
         /\ BindIn(c, m).mode = c.mode /\ BindIn(c, m).baseline = c.baseline
         /\ (BindIn(c, m).entries = c.entries /\ c.entries # <<>>) \/ BindIn(c, m).entries = <<>>
  <1> DEFINE d == BindIn(c, m)
             z == Invalidated(c)
  <1>1. c \in CacheRecord /\ \A b \in c.baseline, k \in Chunks : b[k] <= version[k]
    BY DEF CacheOK
  <1>2. /\ z \in CacheRecord /\ CacheOK(z) /\ z.entries = <<>> /\ z.suffixes = <<>>
        /\ z.mode = c.mode /\ z.baseline = c.baseline
    BY InvalidatedIsOK
  <1>3. CASE c.bound = m
    BY <1>3 DEF BindIn
  <1>4. CASE c.bound # m /\ c.bound = None
    <2>1. c.entries = <<>> /\ d = [c EXCEPT !.bound = m]
      BY <1>4, RouteCacheAssumption DEF CacheOK, BindIn, None
    <2>2. c.suffixes = <<>>
      <3>1. DOMAIN c.entries = {} /\ DOMAIN c.suffixes = {}
        BY <1>1, <2>1, CacheTyped DEF CacheOK, ClaimHolds
      <3> QED BY <1>1, <3>1, CacheTyped
    <2>3. /\ d \in CacheRecord /\ d.entries = <<>> /\ d.suffixes = <<>> /\ d.bound = m
          /\ d.mode = c.mode /\ d.baseline = c.baseline
      BY <1>1, <2>1, <2>2 DEF CacheRecord
    <2> HIDE DEF d
    <2>4. CacheOK(d)
      BY <1>1, <2>3, EmptyIsOK
    <2> QED BY <2>3, <2>4 DEF d
  <1>5. CASE c.bound # m /\ c.bound # None
    <2>1. d = [z EXCEPT !.bound = m]
      BY <1>5 DEF BindIn
    <2> HIDE DEF z
    <2>2. /\ d \in CacheRecord /\ d.entries = <<>> /\ d.suffixes = <<>> /\ d.bound = m
          /\ d.mode = c.mode /\ d.baseline = c.baseline
      BY <1>2, <2>1 DEF CacheRecord
    <2> HIDE DEF d
    <2>3. CacheOK(d)
      BY <1>1, <2>2, EmptyIsOK
    <2> QED BY <2>2, <2>3 DEF d
  <1> QED BY <1>3, <1>4, <1>5

(* A provider's pass of the scoped cache drops what an older epoch stored. *)
LEMMA SyncIsOK ==
  ASSUME NEW c, CacheOK(c)
  PROVE  /\ CacheOK(SyncIneligibleIn(c)) /\ SyncIneligibleIn(c).bound = c.bound
         /\ SyncIneligibleIn(c).mode = c.mode /\ SyncIneligibleIn(c).baseline = c.baseline
         /\ SyncIneligibleIn(c).entries = c.entries \/ SyncIneligibleIn(c).entries = <<>>
  <1> DEFINE d == SyncIneligibleIn(c)
             z == Invalidated(c)
  <1>1. c \in CacheRecord /\ \A b \in c.baseline, k \in Chunks : b[k] <= version[k]
    BY DEF CacheOK
  <1>2. /\ z \in CacheRecord /\ CacheOK(z) /\ z.entries = <<>> /\ z.suffixes = <<>>
        /\ z.mode = c.mode /\ z.baseline = c.baseline /\ z.bound = c.bound
    BY InvalidatedIsOK
  <1>3. CASE c.mode = Exact \/ c.synced = c.epoch
    BY <1>3 DEF SyncIneligibleIn
  <1>4. CASE ~(c.mode = Exact \/ c.synced = c.epoch)
    <2>1. d = [z EXCEPT !.synced = c.epoch] /\ c.epoch \in Nat
      BY <1>1, <1>4, CacheTyped DEF SyncIneligibleIn
    <2> HIDE DEF z
    <2>2. /\ d \in CacheRecord /\ d.entries = <<>> /\ d.suffixes = <<>> /\ d.bound = c.bound
          /\ d.mode = c.mode /\ d.baseline = c.baseline
      BY <1>2, <2>1 DEF CacheRecord
    <2> HIDE DEF d
    <2>3. CacheOK(d)
      BY <1>1, <2>2, EmptyIsOK
    <2> QED BY <2>2, <2>3 DEF d
  <1> QED BY <1>3, <1>4

(* An entry in the place of another. *)
Touched(c, i, e) == [c EXCEPT !.entries = [c.entries EXCEPT ![i] = e]]

(* Changing flags or the epoch of an entry leaves the indexes alone. *)
LEMMA EntryTouched ==
  ASSUME NEW c, CacheOK(c), NEW i \in DOMAIN c.entries, NEW e \in EntryRecord,
         e.start = c.entries[i].start, e.goal = c.entries[i].goal, e.status = c.entries[i].status,
         e.path = c.entries[i].path,
         EntryHolds(Touched(c, i, e), e)
  PROVE  /\ CacheOK(Touched(c, i, e)) /\ Touched(c, i, e) \in CacheRecord
         /\ Touched(c, i, e).bound = c.bound /\ Touched(c, i, e).mode = c.mode
         /\ Touched(c, i, e).baseline = c.baseline
         /\ Touched(c, i, e).entries = [c.entries EXCEPT ![i] = e]
  <1> DEFINE d == Touched(c, i, e)
  <1>1. c \in CacheRecord
    BY DEF CacheOK
  <1>2. /\ c.entries \in Seq(EntryRecord) /\ Len(c.entries) \in Nat /\ DOMAIN c.entries = 1 .. Len(c.entries)
        /\ \A j \in DOMAIN c.entries : c.entries[j] \in EntryRecord
    BY <1>1, CacheTyped
  <1> DEFINE s == [c.entries EXCEPT ![i] = e]
  <1>3. s \in Seq(EntryRecord) /\ DOMAIN s = DOMAIN c.entries /\ s # <<>> /\ c.entries # <<>>
    <2>1. s \in Seq(EntryRecord) /\ Len(s) = Len(c.entries)
      BY <1>2, ExceptSeq
    <2>2. DOMAIN s = DOMAIN c.entries
      BY <2>1, <1>2, LenProperties
    <2>3. Len(c.entries) # 0
      BY <1>2
    <2> QED BY <2>1, <2>2, <2>3, EmptySeq
  <1>4. s[i] = e /\ \A j \in DOMAIN s : j # i => s[j] = c.entries[j]
    BY <1>3
  <1> HIDE DEF s
  <1>5. /\ d \in CacheRecord /\ d.entries = s /\ d.bound = c.bound /\ d.mode = c.mode
        /\ d.baseline = c.baseline /\ d.epoch = c.epoch /\ d.caps = c.caps /\ d.suffixes = c.suffixes
    <2>1. d = [c EXCEPT !.entries = s]
      BY DEF s, Touched
    <2> HIDE DEF d
    <2> QED BY <1>1, <1>3, <2>1 DEF CacheRecord
  <1>e. EntryHolds(d, e)
    OBVIOUS
  <1> HIDE DEF d
  <1>6. ASSUME NEW j \in DOMAIN d.entries PROVE EntryHolds(d, d.entries[j])
    <2>1. CASE j = i
      BY <1>4, <1>5, <1>e, <2>1
    <2>2. CASE j # i
      <3>1. d.entries[j] = c.entries[j] /\ EntryHolds(c, c.entries[j])
        BY <1>3, <1>4, <1>5, <1>6, <2>2 DEF CacheOK
      <3> QED BY <1>5, <3>1 DEF EntryHolds, FreshWhile, LegalWhile
    <2> QED BY <2>1, <2>2
  <1>7. ASSUME NEW key \in DOMAIN d.suffixes PROVE ClaimHolds(d, key)
    <2>1. ClaimHolds(c, key)
      BY <1>5 DEF CacheOK
    <2>2. \A j \in DOMAIN s : /\ s[j].status = c.entries[j].status /\ s[j].goal = c.entries[j].goal
                              /\ s[j].path = c.entries[j].path
      BY <1>4
    <2> QED BY <1>3, <1>5, <2>1, <2>2 DEF ClaimHolds
  <1>8. CacheOK(d)
    BY <1>3, <1>5, <1>6, <1>7 DEF CacheOK
  <1> QED BY <1>3, <1>5, <1>8 DEF s, d

(* Retiring an entry, and the rest with it when too many are dead. *)
LEMMA RetireIsOK ==
  ASSUME NEW c, CacheOK(c), NEW i \in DOMAIN c.entries
  PROVE  /\ CacheOK(RetireIn(c, i)) /\ RetireIn(c, i).bound = c.bound
         /\ RetireIn(c, i).mode = c.mode /\ RetireIn(c, i).baseline = c.baseline
  <1> DEFINE e == [c.entries[i] EXCEPT !.alive = FALSE]
             d == [c EXCEPT !.entries[i].alive = FALSE]
  <1>1. c \in CacheRecord /\ c.entries[i] \in EntryRecord /\ EntryHolds(c, c.entries[i])
    BY CacheTyped DEF CacheOK
  <1>2. /\ e \in EntryRecord /\ e.start = c.entries[i].start /\ e.goal = c.entries[i].goal
        /\ e.status = c.entries[i].status /\ e.path = c.entries[i].path /\ e.cost = c.entries[i].cost
        /\ e.deps = c.entries[i].deps /\ e.epoch = c.entries[i].epoch /\ e.whole = c.entries[i].whole
    BY <1>1 DEF EntryRecord
  <1>3. d = Touched(c, i, e)
    BY <1>1 DEF CacheRecord, Touched
  <1> HIDE DEF e, d
  <1>4. d.bound = c.bound /\ d.mode = c.mode /\ d.baseline = c.baseline /\ d.epoch = c.epoch
    BY <1>1, <1>3 DEF CacheRecord, Touched
  <1>5. EntryHolds(d, e)
    BY <1>1, <1>2, <1>4 DEF EntryHolds, StoredRoute, FreshWhile, LegalWhile, ResultOf, Covered, Shortest
  <1>6. CacheOK(d) /\ d.bound = c.bound /\ d.mode = c.mode /\ d.baseline = c.baseline
    BY <1>2, <1>3, <1>5, EntryTouched
  <1>7. RetireIn(c, i) \in {d, Invalidated(d)}
    BY Zenon DEF RetireIn, d
  <1> QED BY <1>6, <1>7, InvalidatedIsOK

(* What a lookup may answer.                                               *)
Answers(mode, m, s, g, r) ==
  /\ r.status = "Found" => r.path \in RoutesOf(m, s, g) /\ r.cost = Hops(r.path)
  /\ r.status # "Found" => r \in FreshResults(m, s, g)
  /\ mode = Exact \/ ~Eligible(m) \/ ~opened => r \in FreshResults(m, s, g)

(* The caller has refreshed. *)
Ready(c) == ~edited /\ (c.mode = Exact => c.baseline = {version})

(* What a search returns answers. *)
LEMMA FreshAnswers ==
  ASSUME NEW mode, NEW m \in Models, NEW s \in Tiles, NEW g \in Tiles, NEW r \in FreshResults(m, s, g)
  PROVE  Answers(mode, m, s, g, r)
  BY FreshIsShortest DEF Answers

(* The rest of a route that answers answers for the tile it starts from. *)
LEMMA SuffixAnswers ==
  ASSUME NEW mode, NEW m \in Models, NEW s \in Tiles, NEW g \in Tiles, NEW r,
         Answers(mode, m, s, g, r), r.status = "Found", NEW k \in DOMAIN r.path
  PROVE  Answers(mode, m, r.path[k], g, FoundRoute(SubSeq(r.path, k, Len(r.path))))
  <1> DEFINE p == r.path
             q == SubSeq(p, k, Len(p))
  <1>1. p \in RoutesOf(m, s, g)
    BY DEF Answers
  <1>2. k \in 1 .. Len(p)
    <2>1. \A x \in RoutesOf(m, s, g) : DOMAIN x = 1 .. Len(x)
      BY RouteTyped
    <2> QED BY <1>1, <2>1
  <1>3. q \in RoutesOf(m, p[k], g)
    BY <1>1, <1>2, SuffixIsRoute
  <1>4. ASSUME r \in FreshResults(m, s, g)
        PROVE  FoundRoute(q) \in FreshResults(m, p[k], g)
    <2>1. \A x \in RoutesOf(m, s, g) : Len(p) <= Len(x)
      BY <1>4, FreshIsShortest
    <2> QED BY <1>1, <2>1, FreshSuffix
  <1>5. /\ FoundRoute(q).status = "Found" /\ FoundRoute(q).path = q
        /\ FoundRoute(q).cost = Hops(q)
    BY DEF FoundRoute
  <1> HIDE DEF p, q
  <1>6. mode = Exact \/ ~Eligible(m) \/ ~opened => FoundRoute(q) \in FreshResults(m, p[k], g)
    BY <1>4 DEF Answers
  <1>7. Answers(mode, m, p[k], g, FoundRoute(q))
    BY <1>3, <1>5, <1>6 DEF Answers
  <1> QED BY <1>7 DEF p, q

(* The ends of a stored entry. *)
LEMMA EntryTyped ==
  ASSUME NEW c, CacheOK(c), NEW i \in DOMAIN c.entries
  PROVE  /\ c.entries[i] \in EntryRecord /\ c.bound \in Models /\ EntryHolds(c, c.entries[i])
         /\ c.entries[i].start \in Tiles /\ c.entries[i].goal \in Tiles
         /\ c.entries # <<>>
  <1>1. c \in CacheRecord /\ EntryHolds(c, c.entries[i])
    BY DEF CacheOK
  <1>2. c.entries[i] \in EntryRecord /\ c.entries # <<>>
    BY <1>1, CacheTyped
  <1> QED BY <1>1, <1>2 DEF CacheOK, EntryRecord

(* An entry that may be served answers.                                    *)
LEMMA ServedEntryAnswers ==
  ASSUME NEW c, CacheOK(c), Ready(c), NEW i \in DOMAIN c.entries, Validated(c, i).serve
  PROVE  Answers(c.mode, c.bound, c.entries[i].start, c.entries[i].goal, ResultOf(c.entries[i]))
  <1> DEFINE e == c.entries[i]
             r == ResultOf(e)
  <1>1. /\ e \in EntryRecord /\ c.bound \in Models /\ EntryHolds(c, e)
        /\ e.start \in Tiles /\ e.goal \in Tiles
    BY EntryTyped
  <1>2. c.mode \in {Exact, Scoped} /\ Exact # Scoped
    BY CacheTyped DEF CacheOK, Exact, Scoped
  <1>3. r.status = e.status /\ r.cost = e.cost /\ r.path = e.path
    BY DEF ResultOf
  <1>4. c.mode = Exact \/ e.epoch = c.epoch \/ (~e.whole /\ DependenciesHold(e.deps))
    BY DEF Validated
  <1> HIDE DEF e, r
  <1>5. CASE r \in FreshResults(c.bound, e.start, e.goal)
    <2>1. Answers(c.mode, c.bound, e.start, e.goal, r)
      BY <1>1, <1>5, FreshAnswers
    <2> QED BY <2>1 DEF e, r
  <1>6. CASE r \notin FreshResults(c.bound, e.start, e.goal)
    <2>1. c.mode = Scoped /\ ~e.whole
      <3>1. ~(c.mode = Exact)
        BY <1>1, <1>6 DEF EntryHolds, FreshWhile, Ready, r
      <3>2. c.mode = Scoped
        BY <1>2, <3>1
      <3>3. ~(e.whole /\ e.epoch = c.epoch)
        BY <1>1, <1>6, <3>2 DEF EntryHolds, FreshWhile, Ready, r
      <3>4. e.whole \in BOOLEAN
        BY <1>1 DEF EntryRecord
      <3> QED BY <1>4, <3>1, <3>2, <3>3, <3>4
    <2>2. /\ e.status = "Found" /\ Eligible(c.bound)
          /\ DependenciesHold(e.deps) => e.path \in RoutesOf(c.bound, e.start, e.goal)
          /\ e.epoch = c.epoch => DependenciesHold(e.deps)
          /\ ~opened => Shortest(c.bound, e)
          /\ e.cost = Hops(e.path)
      BY <1>1, <2>1 DEF EntryHolds, LegalWhile, Ready, StoredRoute
    <2>3. e.path \in RoutesOf(c.bound, e.start, e.goal)
      BY <1>2, <1>4, <2>1, <2>2
    <2>4. ASSUME ~opened PROVE FALSE
      <3>1. FoundRoute(e.path) \in FreshResults(c.bound, e.start, e.goal)
        BY <1>1, <2>2, <2>3, <2>4, ShortestIsFresh DEF Shortest
      <3>2. r = FoundRoute(e.path)
        BY <2>2 DEF FoundRoute, ResultOf, r
      <3> QED BY <1>6, <3>1, <3>2
    <2>5. Answers(c.mode, c.bound, e.start, e.goal, r)
      BY <1>2, <1>3, <2>1, <2>2, <2>3, <2>4 DEF Answers
    <2> QED BY <2>5 DEF e, r
  <1> QED BY <1>5, <1>6

(* Looking at an entry keeps the cache, whatever comes of it. *)
LEMMA ValidatedIsOK ==
  ASSUME NEW c, CacheOK(c), NEW i \in DOMAIN c.entries
  PROVE  /\ CacheOK(Validated(c, i).cache) /\ Validated(c, i).cache.bound = c.bound
         /\ Validated(c, i).cache.mode = c.mode /\ Validated(c, i).cache.baseline = c.baseline
  <1> DEFINE f == [c.entries[i] EXCEPT !.epoch = c.epoch]
             d == [c EXCEPT !.entries[i].epoch = c.epoch]
  <1>1. c \in CacheRecord /\ c.entries[i] \in EntryRecord /\ EntryHolds(c, c.entries[i])
    BY EntryTyped DEF CacheOK
  <1>2. CASE c.mode = Exact \/ c.entries[i].epoch = c.epoch
    BY <1>2 DEF Validated
  <1>3. CASE ~(c.mode = Exact \/ c.entries[i].epoch = c.epoch) /\ ~c.entries[i].whole /\ DependenciesHold(c.entries[i].deps)
    <2>1. Validated(c, i).cache = d
      BY <1>3 DEF Validated
    <2>2. /\ f \in EntryRecord /\ f.start = c.entries[i].start /\ f.goal = c.entries[i].goal
          /\ f.status = c.entries[i].status /\ f.path = c.entries[i].path /\ f.cost = c.entries[i].cost
          /\ f.deps = c.entries[i].deps /\ f.epoch = c.epoch /\ f.whole = c.entries[i].whole
      BY <1>1, CacheTyped DEF EntryRecord
    <2>3. d = Touched(c, i, f)
      BY <1>1 DEF CacheRecord, Touched
    <2> HIDE DEF f, d
    <2>4. d.bound = c.bound /\ d.mode = c.mode /\ d.baseline = c.baseline /\ d.epoch = c.epoch /\ c.epoch \in Nat
      BY <1>1, <2>3 DEF CacheRecord, Touched
    <2>5. c.mode # Exact
      BY <1>3
    <2>6. EntryHolds(d, f)
      <3>1. f.epoch <= d.epoch /\ StoredRoute(d.bound, f)
        BY <1>1, <2>2, <2>4 DEF EntryHolds, StoredRoute
      <3>2. FreshWhile(d, f)
        BY <1>3, <2>2, <2>4 DEF FreshWhile
      <3>3. LegalWhile(d, f)
        BY <1>1, <1>3, <2>2, <2>4 DEF EntryHolds, LegalWhile, Covered, Shortest
      <3> QED BY <3>1, <3>2, <3>3 DEF EntryHolds
    <2>7. CacheOK(d) /\ d.bound = c.bound /\ d.mode = c.mode /\ d.baseline = c.baseline
      BY <2>2, <2>3, <2>6, EntryTouched
    <2> QED BY <2>1, <2>7
  <1>4. CASE ~(c.mode = Exact \/ c.entries[i].epoch = c.epoch) /\ ~(~c.entries[i].whole /\ DependenciesHold(c.entries[i].deps))
    <2>1. Validated(c, i).cache = RetireIn(c, i)
      BY <1>4 DEF Validated
    <2> QED BY <2>1, RetireIsOK
  <1> QED BY <1>2, <1>3, <1>4

-----------------------------------------------------------------------------
(* Storing a result.                                                       *)

(* An entry after the others. *)
Appended(c, e) == [c EXCEPT !.entries = Append(@, e)]

(* The others stay where they are, and so do the claims on them. *)
LEMMA AppendedIsOK ==
  ASSUME NEW c, CacheOK(c), c.bound \in Models, c.mode = Exact => c.baseline # {},
         NEW e \in EntryRecord, EntryHolds(c, e)
  PROVE  /\ CacheOK(Appended(c, e)) /\ Appended(c, e).bound = c.bound
         /\ Appended(c, e).mode = c.mode /\ Appended(c, e).baseline = c.baseline
         /\ Len(Appended(c, e).entries) \in DOMAIN Appended(c, e).entries
  <1> DEFINE s == Append(c.entries, e)
             d == Appended(c, e)
  <1>1. /\ c \in CacheRecord /\ c.entries \in Seq(EntryRecord) /\ Len(c.entries) \in Nat
        /\ DOMAIN c.entries = 1 .. Len(c.entries)
    <2>1. c \in CacheRecord
      BY DEF CacheOK
    <2> QED BY <2>1, CacheTyped
  <1>2. /\ s \in Seq(EntryRecord) /\ Len(s) = Len(c.entries) + 1 /\ DOMAIN s = 1 .. Len(c.entries) + 1
        /\ s[Len(c.entries) + 1] = e /\ \A j \in 1 .. Len(c.entries) : s[j] = c.entries[j]
    <2>1. /\ s \in Seq(EntryRecord) /\ Len(s) = Len(c.entries) + 1
          /\ s[Len(c.entries) + 1] = e /\ \A j \in 1 .. Len(c.entries) : s[j] = c.entries[j]
      BY <1>1, AppendProperties
    <2>2. DOMAIN s = 1 .. Len(s)
      BY <2>1, LenProperties
    <2> QED BY <2>1, <2>2
  <1>3. d = [c EXCEPT !.entries = s]
    BY DEF Appended
  <1> HIDE DEF s, d
  <1>4. /\ d \in CacheRecord /\ d.entries = s /\ d.bound = c.bound /\ d.mode = c.mode
        /\ d.baseline = c.baseline /\ d.epoch = c.epoch /\ d.suffixes = c.suffixes
    BY <1>1, <1>2, <1>3 DEF CacheRecord
  <1>5. ASSUME NEW j \in DOMAIN d.entries PROVE EntryHolds(d, d.entries[j])
    <2>1. EntryHolds(c, d.entries[j])
      <3>1. CASE j = Len(c.entries) + 1
        BY <1>2, <1>4, <3>1
      <3>2. CASE j # Len(c.entries) + 1
        <4>1. j \in 1 .. Len(c.entries)
          BY <1>1, <1>2, <1>4, <3>2
        <4> QED BY <1>1, <1>2, <1>4, <4>1 DEF CacheOK
      <3> QED BY <3>1, <3>2
    <2> QED BY <1>4, <2>1 DEF EntryHolds, FreshWhile, LegalWhile
  <1>6. ASSUME NEW key \in DOMAIN d.suffixes PROVE ClaimHolds(d, key)
    <2>1. ClaimHolds(c, key)
      BY <1>4 DEF CacheOK
    <2>2. c.suffixes[key].entry \in 1 .. Len(c.entries)
      BY <1>1, <2>1 DEF ClaimHolds
    <2>3. c.suffixes[key].entry \in DOMAIN s /\ s[c.suffixes[key].entry] = c.entries[c.suffixes[key].entry]
      BY <1>1, <1>2, <2>2
    <2> QED BY <1>4, <2>1, <2>3 DEF ClaimHolds
  <1>7. CacheOK(d)
    BY <1>4, <1>5, <1>6 DEF CacheOK
  <1>8. Len(d.entries) \in DOMAIN d.entries
    BY <1>1, <1>2, <1>4
  <1> QED BY <1>4, <1>7, <1>8 DEF d

(* Claims that point at their nodes may be indexed. *)
LEMMA ClaimedIsOK ==
  ASSUME NEW c, CacheOK(c), NEW f \in UNION {[D -> Claim] : D \in SUBSET (Tiles \X Tiles)},
         \A key \in DOMAIN f : ClaimHolds([c EXCEPT !.suffixes = f], key)
  PROVE  LET d == [c EXCEPT !.suffixes = f]
         IN  /\ CacheOK(d) /\ d.bound = c.bound /\ d.mode = c.mode /\ d.baseline = c.baseline
             /\ d.entries = c.entries
  <1> DEFINE d == [c EXCEPT !.suffixes = f]
  <1>1. c \in CacheRecord
    BY DEF CacheOK
  <1>2. \A key \in DOMAIN f : ClaimHolds(d, key)
    OBVIOUS
  <1>3. /\ d \in CacheRecord /\ d.entries = c.entries /\ d.bound = c.bound /\ d.mode = c.mode
        /\ d.baseline = c.baseline /\ d.epoch = c.epoch /\ d.suffixes = f
    BY <1>1 DEF CacheRecord
  <1> HIDE DEF d
  <1>4. \A j \in DOMAIN d.entries : EntryHolds(d, d.entries[j])
    BY <1>3 DEF CacheOK, EntryHolds, FreshWhile, LegalWhile
  <1>5. CacheOK(d)
    BY <1>2, <1>3, <1>4 DEF CacheOK
  <1> QED BY <1>3, <1>5 DEF d

(* The new entry claims the nodes that nobody alive claims. *)
LEMMA WithSuffixesIsOK ==
  ASSUME NEW c, CacheOK(c), NEW i \in DOMAIN c.entries
  PROVE  /\ CacheOK(WithSuffixes(c, i)) /\ WithSuffixes(c, i).bound = c.bound
         /\ WithSuffixes(c, i).mode = c.mode /\ WithSuffixes(c, i).baseline = c.baseline
         /\ WithSuffixes(c, i).entries = c.entries
  <1> DEFINE e == c.entries[i]
             claims == {k \in DOMAIN e.path : ~(FindSuffixIn(c, e.path[k], e.goal) # {})}
             keys == {<<e.path[k], e.goal>> : k \in claims}
             added == [key \in keys |-> [entry |-> i, offset |-> CHOOSE k \in claims : e.path[k] = key[1]]]
             f == [key \in keys \cup DOMAIN c.suffixes |->
                     IF key \in keys THEN added[key] ELSE c.suffixes[key]]
             d == [c EXCEPT !.suffixes = f]
  <1>1. /\ c \in CacheRecord /\ e \in EntryRecord /\ e.goal \in Tiles /\ e.path \in Seq(Tiles)
        /\ i \in Nat
    BY EntryTyped, CacheTyped DEF CacheOK, EntryRecord
  <1>2. WithSuffixes(c, i) = IF e.status = "Found" THEN d ELSE c
    <2>1. DOMAIN added = keys
      OBVIOUS
    <2> QED BY <2>1, Zenon DEF WithSuffixes
  <1>3. CASE e.status # "Found"
    BY <1>2, <1>3
  <1>4. CASE e.status = "Found"
    <2>1. WithSuffixes(c, i) = d
      BY <1>2, <1>4
    <2>2. /\ DOMAIN e.path \subseteq Nat /\ \A k \in DOMAIN e.path : e.path[k] \in Tiles
      BY <1>1, LenProperties, ElementOfSeq
    <2>3. keys \subseteq Tiles \X Tiles
      BY <1>1, <2>2
    <2>4. ASSUME NEW key \in keys
          PROVE  /\ added[key] \in Claim /\ added[key].entry = i /\ added[key].offset \in DOMAIN e.path
                 /\ e.path[added[key].offset] = key[1] /\ key[2] = e.goal
      <3> DEFINE k == CHOOSE k \in claims : e.path[k] = key[1]
      <3>1. PICK x \in claims : key = <<e.path[x], e.goal>>
        OBVIOUS
      <3>2. key[1] = e.path[x] /\ key[2] = e.goal
        BY <3>1
      <3>3. k \in claims /\ e.path[k] = key[1]
        <4> HIDE DEF claims, e
        <4> QED BY <3>2
      <3>4. k \in DOMAIN e.path
        BY <3>3
      <3>5. added[key] = [entry |-> i, offset |-> k]
        OBVIOUS
      <3> HIDE DEF k, added
      <3> QED BY <1>1, <2>2, <3>2, <3>3, <3>4, <3>5 DEF Claim
    <2>6. /\ DOMAIN f = keys \cup DOMAIN c.suffixes
          /\ \A key \in DOMAIN f : f[key] = IF key \in keys THEN added[key] ELSE c.suffixes[key]
          /\ f = [key \in DOMAIN f |-> f[key]]
      <3> HIDE DEF keys, added
      <3> QED OBVIOUS
    <2> HIDE DEF f, keys, added
    <2>7. f \in [DOMAIN f -> Claim] /\ DOMAIN f \in SUBSET (Tiles \X Tiles)
      <3>1. DOMAIN c.suffixes \subseteq Tiles \X Tiles /\ \A key \in DOMAIN c.suffixes : c.suffixes[key] \in Claim
        BY <1>1, CacheTyped
      <3> QED BY <2>3, <2>4, <2>6, <3>1
    <2>8. f \in UNION {[D -> Claim] : D \in SUBSET (Tiles \X Tiles)}
      BY <2>7
    <2>9. d.entries = c.entries /\ d.suffixes = f
      BY <1>1 DEF CacheRecord
    <2>10. ASSUME NEW key \in DOMAIN f PROVE ClaimHolds(d, key)
      <3>1. CASE key \in keys
        <4>1. f[key] = added[key]
          BY <2>6, <3>1
        <4> HIDE DEF d
        <4> QED BY <1>4, <2>4, <2>9, <3>1, <4>1 DEF ClaimHolds
      <3>2. CASE key \notin keys
        <4>1. f[key] = c.suffixes[key] /\ ClaimHolds(c, key)
          BY <2>6, <3>2 DEF CacheOK
        <4> HIDE DEF d
        <4> QED BY <2>9, <4>1 DEF ClaimHolds
      <3> QED BY <3>1, <3>2
    <2>11. CacheOK(d) /\ d.bound = c.bound /\ d.mode = c.mode /\ d.baseline = c.baseline
      BY <2>8, <2>10, ClaimedIsOK
    <2> QED BY <2>1, <2>9, <2>11
  <1> QED BY <1>3, <1>4

(* The versions of the chunks of a run. *)
Footprint(run) == [k \in DOMAIN run |-> [key |-> run[k], version |-> version[run[k]]]]

(* A footprint just taken names the chunks of its run as they are. *)
LEMMA FootprintHolds ==
  ASSUME version \in [Chunks -> Nat], NEW run \in Seq(Chunks)
  PROVE  /\ Footprint(run) \in Seq(Dependency) /\ DOMAIN Footprint(run) = DOMAIN run
         /\ DependenciesHold(Footprint(run))
         /\ \A k \in DOMAIN run : Footprint(run)[k].key = run[k] /\ run[k] \in Chunks
         /\ \A k \in DOMAIN run : Footprint(run)[k].version <= version[run[k]]
  <1> DEFINE d == Footprint(run)
  <1>1. Len(run) \in Nat /\ DOMAIN run = 1 .. Len(run) /\ \A k \in DOMAIN run : run[k] \in Chunks
    BY LenProperties, ElementOfSeq
  <1>2. DOMAIN d = DOMAIN run /\ \A k \in DOMAIN run : d[k] = [key |-> run[k], version |-> version[run[k]]]
    BY DEF Footprint
  <1>3. \A k \in DOMAIN run : d[k] \in Dependency /\ version[run[k]] \in Nat
    BY <1>1, <1>2 DEF Dependency
  <1>4. d \in [1 .. Len(run) -> Dependency]
    BY <1>1, <1>3 DEF Footprint
  <1> HIDE DEF d
  <1>5. d \in Seq(Dependency)
    BY <1>1, <1>4, SeqDef
  <1>6. DependenciesHold(d)
    BY <1>1, <1>2 DEF DependenciesHold
  <1> QED BY <1>1, <1>2, <1>3, <1>5, <1>6 DEF d

(* The entry that StoreIn appends. *)
Stored(c, m, s, g, r) ==
  LET footprint == c.mode = Scoped /\ Eligible(m) /\ r.status = "Found"
  IN  [start |-> s, goal |-> g, status |-> r.status, cost |-> r.cost, path |-> r.path,
       deps |-> Footprint(IF footprint THEN ChunkRun(r.path) ELSE <<>>),
       epoch |-> c.epoch, alive |-> TRUE, whole |-> c.mode = Scoped /\ ~footprint]

(* The entry that a search makes is fresh, and covered if it has a footprint. *)
LEMMA StoredHolds ==
  ASSUME NEW c, CacheOK(c), NEW m \in Models, c.bound = m, version \in [Chunks -> Nat],
         NEW s \in Tiles, NEW g \in Tiles, NEW r \in FreshResults(m, s, g)
  PROVE  Stored(c, m, s, g, r) \in EntryRecord /\ EntryHolds(c, Stored(c, m, s, g, r))
  <1> DEFINE footprint == c.mode = Scoped /\ Eligible(m) /\ r.status = "Found"
             run == IF footprint THEN ChunkRun(r.path) ELSE <<>>
             e == Stored(c, m, s, g, r)
  <1>1. /\ c \in CacheRecord /\ c.epoch \in Nat /\ c.mode \in {Exact, Scoped} /\ Exact # Scoped
    BY CacheTyped DEF CacheOK, Exact, Scoped
  <1>2. /\ r = [status |-> r.status, cost |-> r.cost, path |-> r.path]
        /\ r.status \in Statuses /\ r.cost \in Int /\ r.path \in Seq(Tiles)
        /\ r.status = "Found" =>
             /\ r.path \in RoutesOf(m, s, g) /\ r.cost = Hops(r.path)
             /\ \A q \in RoutesOf(m, s, g) : Len(r.path) <= Len(q)
    BY FreshIsShortest
  <1>3. run \in Seq(Chunks)
    BY <1>2, RunCovers, EmptySeq
  <1>4. /\ e.start = s /\ e.goal = g /\ e.status = r.status /\ e.cost = r.cost /\ e.path = r.path
        /\ e.deps = Footprint(run) /\ e.epoch = c.epoch
        /\ e.whole = (c.mode = Scoped /\ ~footprint)
    BY DEF Stored
  <1>5. /\ Footprint(run) \in Seq(Dependency) /\ DOMAIN Footprint(run) = DOMAIN run
        /\ DependenciesHold(Footprint(run))
        /\ \A k \in DOMAIN run : Footprint(run)[k].key = run[k] /\ run[k] \in Chunks
        /\ \A k \in DOMAIN run : Footprint(run)[k].version <= version[run[k]]
    BY <1>3, FootprintHolds
  <1>6. e \in EntryRecord
    <2>1. e = [start |-> s, goal |-> g, status |-> r.status, cost |-> r.cost, path |-> r.path,
               deps |-> Footprint(run), epoch |-> c.epoch, alive |-> TRUE,
               whole |-> c.mode = Scoped /\ ~footprint]
      BY DEF Stored
    <2>2. (c.mode = Scoped /\ ~footprint) \in BOOLEAN
      OBVIOUS
    <2> HIDE DEF e, footprint, run
    <2> QED BY <1>1, <1>2, <1>5, <2>1, <2>2 DEF EntryRecord
  <1>7. ResultOf(e) = r
    BY <1>2, <1>4 DEF ResultOf
  <1>8. ASSUME footprint PROVE Covered(e)
    <2>1. run = ChunkRun(r.path)
      BY <1>8
    <2>2. \A i \in 1 .. Len(r.path) : ChunkOf(r.path[i]) \in ToSet(run)
      BY <1>2, <2>1, RunCovers
    <2>3. DOMAIN r.path = 1 .. Len(r.path)
      BY <1>2, LenProperties
    <2> HIDE DEF e, run, footprint
    <2>4. ASSUME NEW i \in DOMAIN r.path
          PROVE  \E k \in DOMAIN run : run[k] = ChunkOf(r.path[i])
      BY <2>2, <2>3, <2>4 DEF ToSet
    <2> QED BY <1>4, <1>5, <2>4 DEF Covered
  <1>9. r.status = "Found" => r.path \in ModelPaths[m][<<s, g>>]
    BY <1>2, RouteTyped
  <1>10. StoredRoute(m, e)
    <2> HIDE DEF e, run, footprint
    <2> QED BY <1>2, <1>4, <1>5, <1>9 DEF StoredRoute
  <1>11. FreshWhile(c, e)
    <2> HIDE DEF e, run, footprint
    <2> QED BY <1>4, <1>7 DEF FreshWhile
  <1>12. ASSUME c.mode = Scoped, ~e.whole PROVE footprint
    BY <1>4, <1>12
  <1>13. ASSUME footprint PROVE r.status = "Found" /\ Eligible(m)
    BY <1>13
  <1>14. r.status = "Found" => Shortest(m, e)
    <2> HIDE DEF e, run, footprint
    <2> QED BY <1>2, <1>4 DEF Shortest
  <1>15. LegalWhile(c, e)
    <2> HIDE DEF e, run, footprint
    <2> QED BY <1>2, <1>4, <1>5, <1>8, <1>12, <1>13, <1>14 DEF LegalWhile
  <1> HIDE DEF e, run, footprint
  <1>16. EntryHolds(c, e)
    BY <1>1, <1>4, <1>10, <1>11, <1>15 DEF EntryHolds
  <1> QED BY <1>6, <1>16 DEF e

(* Storing keeps the cache. *)
LEMMA StoreIsOK ==
  ASSUME NEW c, CacheOK(c), Ready(c), NEW m \in Models, c.bound = m, version \in [Chunks -> Nat],
         NEW s \in Tiles, NEW g \in Tiles, NEW r \in FreshResults(m, s, g)
  PROVE  /\ CacheOK(StoreIn(c, m, s, g, r)) /\ StoreIn(c, m, s, g, r).mode = c.mode
         /\ StoreIn(c, m, s, g, r).baseline = c.baseline
  <1> DEFINE e == Stored(c, m, s, g, r)
             z == Invalidated(c)
             W(x) == WithSuffixes(Appended(x, e), Len(Appended(x, e).entries))
  <1>1. StoreIn(c, m, s, g, r) \in {c, W(c), W(z)}
    <2>1. \A run : [k \in DOMAIN run |-> [key |-> run[k], version |-> version[run[k]]]] = Footprint(run)
      BY DEF Footprint
    <2>2. ASSUME NEW x PROVE [x EXCEPT !.entries = Append(@, e)] = Appended(x, e)
      BY DEF Appended
    <2> QED BY <2>1, <2>2, Zenon DEF StoreIn, Stored, Appended, Footprint
  <1>2. /\ CacheOK(z) /\ z.entries = <<>> /\ z.suffixes = <<>> /\ z.mode = c.mode
        /\ z.bound = m /\ z.baseline = c.baseline /\ z.epoch = c.epoch
    BY InvalidatedIsOK
  <1>3. e \in EntryRecord /\ EntryHolds(c, e)
    BY StoredHolds
  <1> HIDE DEF e, z
  <1>4. EntryHolds(z, e)
    BY <1>2, <1>3 DEF EntryHolds, FreshWhile, LegalWhile
  <1>5. ASSUME NEW x \in {c, z}
        PROVE  CacheOK(W(x)) /\ W(x).mode = c.mode /\ W(x).baseline = c.baseline
    <2>1. /\ CacheOK(x) /\ x.bound \in Models /\ (x.mode = Exact => x.baseline # {})
          /\ EntryHolds(x, e) /\ x.mode = c.mode /\ x.baseline = c.baseline
      BY <1>2, <1>3, <1>4, <1>5 DEF Ready
    <2>2. /\ CacheOK(Appended(x, e)) /\ Appended(x, e).mode = c.mode
          /\ Appended(x, e).baseline = c.baseline
          /\ Len(Appended(x, e).entries) \in DOMAIN Appended(x, e).entries
      BY <1>3, <2>1, AppendedIsOK
    <2> QED BY <2>2, WithSuffixesIsOK
  <1> HIDE DEF W
  <1> QED BY <1>1, <1>5

-----------------------------------------------------------------------------
(* The outcomes of a lookup.                                               *)
Good(c, m, s, g, o) ==
  /\ CacheOK(o.cache) /\ o.cache.mode = c.mode /\ o.cache.baseline = c.baseline
  /\ Answers(c.mode, m, s, g, o.result)
  /\ o.cache.entries # <<>> \/ o.result \in FreshResults(m, s, g)

(* A search. *)
LEMMA SearchIsGood ==
  ASSUME NEW c, CacheOK(c), Ready(c), NEW m \in Models, c.bound = m, version \in [Chunks -> Nat],
         NEW s \in Tiles, NEW g \in Tiles, NEW o \in SearchOutcomes(c, m, s, g)
  PROVE  Good(c, m, s, g, o)
  <1>1. PICK r \in FreshResults(m, s, g) : o = Outcome(StoreIn(c, m, s, g, r), r)
    BY DEF SearchOutcomes
  <1>2. o.cache = StoreIn(c, m, s, g, r) /\ o.result = r
    BY <1>1 DEF Outcome
  <1>3. /\ CacheOK(StoreIn(c, m, s, g, r)) /\ StoreIn(c, m, s, g, r).mode = c.mode
        /\ StoreIn(c, m, s, g, r).baseline = c.baseline
    BY StoreIsOK, Zenon
  <1>4. Answers(c.mode, m, s, g, o.result)
    BY <1>2, FreshAnswers
  <1> QED BY <1>2, <1>3, <1>4 DEF Good

(* An entry that is served stays in the cache. *)
LEMMA ServedIsKept ==
  ASSUME NEW c, CacheOK(c), NEW i \in DOMAIN c.entries, Validated(c, i).serve
  PROVE  Validated(c, i).cache.entries # <<>>
  <1> DEFINE d == [c EXCEPT !.entries[i].epoch = c.epoch]
  <1>1. c \in CacheRecord /\ c.entries # <<>>
    BY EntryTyped DEF CacheOK
  <1>2. DOMAIN d.entries = DOMAIN c.entries
    BY <1>1 DEF CacheRecord
  <1>3. d.entries # <<>>
    <2> HIDE DEF d
    <2> QED BY <1>2
  <1>4. Validated(c, i).cache \in {c, d}
    BY Zenon DEF Validated
  <1> HIDE DEF d
  <1> QED BY <1>1, <1>3, <1>4

(* What is left after an entry could not be served is ready as well. *)
LEMMA StillReady ==
  ASSUME NEW c, CacheOK(c), Ready(c), NEW i \in DOMAIN c.entries
  PROVE  LET d == Validated(c, i).cache
         IN  /\ CacheOK(d) /\ Ready(d) /\ d.bound = c.bound /\ d.mode = c.mode
             /\ d.baseline = c.baseline /\ (Validated(c, i).serve => d.entries # <<>>)
  <1> DEFINE d == Validated(c, i).cache
  <1>1. CacheOK(d) /\ d.bound = c.bound /\ d.mode = c.mode /\ d.baseline = c.baseline
    BY ValidatedIsOK
  <1> HIDE DEF d
  <1>2. Ready(d)
    BY <1>1 DEF Ready
  <1>3. Validated(c, i).serve => d.entries # <<>>
    BY ServedIsKept DEF d
  <1> QED BY <1>1, <1>2, <1>3 DEF d

(* A suffix of a stored route, or else a search. *)
LEMMA SuffixIsGood ==
  ASSUME NEW c, CacheOK(c), Ready(c), NEW m \in Models, c.bound = m, version \in [Chunks -> Nat],
         NEW s \in Tiles, NEW g \in Tiles, NEW o \in SuffixOutcomes(c, m, s, g)
  PROVE  Good(c, m, s, g, o)
  <1> DEFINE claims == IF Eligible(m) THEN FindSuffixIn(c, s, g) ELSE {}
             Try(claim) == Validated(c, claim.entry)
             Suffix(claim) == FoundRoute(SubSeq(c.entries[claim.entry].path, claim.offset,
                                                Len(c.entries[claim.entry].path)))
             Of(claim) == IF Try(claim).serve THEN {Outcome(Try(claim).cache, Suffix(claim))}
                          ELSE SearchOutcomes(Try(claim).cache, m, s, g)
  <1>1. SuffixOutcomes(c, m, s, g) = IF claims = {} THEN SearchOutcomes(c, m, s, g)
                                     ELSE UNION {Of(claim) : claim \in claims}
    BY Zenon DEF SuffixOutcomes
  <1>2. CASE claims = {}
    BY <1>1, <1>2, SearchIsGood
  <1>3. CASE claims # {}
    <2>1. PICK claim \in claims : o \in Of(claim)
      <3>1. o \in UNION {Of(claim) : claim \in claims}
        BY <1>1, <1>3
      <3> HIDE DEF claims, Of
      <3> QED BY <3>1
    <2>2. <<s, g>> \in DOMAIN c.suffixes /\ claim = c.suffixes[<<s, g>>]
      <3>1. claim \in FindSuffixIn(c, s, g)
        <4>1. claims \in {FindSuffixIn(c, s, g), {}}
          BY Zenon
        <4> HIDE DEF claims
        <4> QED BY <4>1
      <3> QED BY <3>1 DEF FindSuffixIn
    <2> DEFINE e == c.entries[claim.entry]
    <2>3. /\ claim.entry \in DOMAIN c.entries /\ e.status = "Found" /\ e.goal = g
          /\ claim.offset \in DOMAIN e.path /\ e.path[claim.offset] = s
      BY <2>2 DEF CacheOK, ClaimHolds
    <2> HIDE DEF claims
    <2>4. /\ CacheOK(Try(claim).cache) /\ Ready(Try(claim).cache) /\ Try(claim).cache.bound = m
          /\ Try(claim).cache.mode = c.mode /\ Try(claim).cache.baseline = c.baseline
          /\ Try(claim).serve => Try(claim).cache.entries # <<>>
      BY <2>3, StillReady
    <2>5. CASE ~Try(claim).serve
      <3>1. o \in SearchOutcomes(Try(claim).cache, m, s, g)
        BY <2>1, <2>5
      <3> HIDE DEF Try
      <3>2. Good(Try(claim).cache, m, s, g, o)
        BY <2>4, <3>1, SearchIsGood
      <3> QED BY <2>4, <3>2 DEF Good
    <2>6. CASE Try(claim).serve
      <3>1. o = Outcome(Try(claim).cache, Suffix(claim))
        BY <2>1, <2>6
      <3>2. o.cache = Try(claim).cache /\ o.result = Suffix(claim)
        BY <3>1 DEF Outcome
      <3>3. Answers(c.mode, m, e.start, e.goal, ResultOf(e))
        BY <2>3, <2>6, ServedEntryAnswers
      <3>4. e.start \in Tiles /\ e.goal \in Tiles
        BY <2>3, EntryTyped
      <3>5. ResultOf(e).status = "Found" /\ ResultOf(e).path = e.path
        BY <2>3 DEF ResultOf
      <3>6. Suffix(claim) = FoundRoute(SubSeq(e.path, claim.offset, Len(e.path)))
        OBVIOUS
      <3> HIDE DEF e, Try, Suffix
      <3>7. Answers(c.mode, m, ResultOf(e).path[claim.offset], e.goal,
                    FoundRoute(SubSeq(ResultOf(e).path, claim.offset, Len(ResultOf(e).path))))
        BY <2>3, <3>3, <3>4, <3>5, SuffixAnswers
      <3> QED BY <2>3, <2>4, <2>6, <3>2, <3>5, <3>6, <3>7 DEF Good
    <2> QED BY <2>5, <2>6
  <1> QED BY <1>2, <1>3

(* The whole of cached_astar_path. *)
LEMMA CachedIsGood ==
  ASSUME NEW c, CacheOK(c), Ready(c), NEW m \in Models, version \in [Chunks -> Nat],
         NEW s \in Tiles, NEW g \in Tiles, NEW o \in CachedOutcomes(c, m, s, g)
  PROVE  Good(c, m, s, g, o)
  <1> DEFINE bound == BindIn(c, m)
             ready == IF Eligible(m) THEN bound ELSE SyncIneligibleIn(bound)
             hits == FindIn(ready, s, g)
             Try(i) == Validated(ready, i)
             Kept(i) == [status |-> ready.entries[i].status, cost |-> ready.entries[i].cost,
                         path |-> ready.entries[i].path]
             Of(i) == IF Try(i).serve THEN {Outcome(Try(i).cache, Kept(i))}
                      ELSE SuffixOutcomes(Try(i).cache, m, s, g)
  <1>1. CachedOutcomes(c, m, s, g) = IF hits = {} THEN SuffixOutcomes(ready, m, s, g)
                                     ELSE UNION {Of(i) : i \in hits}
    BY Zenon DEF CachedOutcomes
  <1>2. CacheOK(bound) /\ bound.bound = m /\ bound.mode = c.mode /\ bound.baseline = c.baseline
    BY BindIsOK
  <1>3. CacheOK(ready) /\ ready.bound = m /\ ready.mode = c.mode /\ ready.baseline = c.baseline
    <2> HIDE DEF bound
    <2>1. ready \in {bound, SyncIneligibleIn(bound)}
      BY Zenon
    <2>2. /\ CacheOK(SyncIneligibleIn(bound)) /\ SyncIneligibleIn(bound).bound = m
          /\ SyncIneligibleIn(bound).mode = c.mode /\ SyncIneligibleIn(bound).baseline = c.baseline
      BY <1>2, SyncIsOK
    <2> HIDE DEF ready
    <2> QED BY <1>2, <2>1, <2>2
  <1> HIDE DEF ready, bound
  <1>5. Ready(ready)
    BY <1>3 DEF Ready
  <1>6. CASE hits = {}
    <2>1. Good(ready, m, s, g, o)
      BY <1>1, <1>3, <1>5, <1>6, SuffixIsGood
    <2> QED BY <1>3, <2>1 DEF Good
  <1>7. CASE hits # {}
    <2>1. PICK i \in hits : o \in Of(i)
      <3>1. o \in UNION {Of(i) : i \in hits}
        BY <1>1, <1>7
      <3> HIDE DEF hits, Of
      <3> QED BY <3>1
    <2> DEFINE e == ready.entries[i]
    <2>2. i \in DOMAIN ready.entries /\ e.start = s /\ e.goal = g
      BY <2>1 DEF FindIn
    <2>3. /\ CacheOK(Try(i).cache) /\ Ready(Try(i).cache) /\ Try(i).cache.bound = m
          /\ Try(i).cache.mode = c.mode /\ Try(i).cache.baseline = c.baseline
          /\ Try(i).serve => Try(i).cache.entries # <<>>
      BY <1>3, <1>5, <2>2, StillReady
    <2>4. CASE ~Try(i).serve
      <3>1. o \in SuffixOutcomes(Try(i).cache, m, s, g)
        BY <2>1, <2>4
      <3> HIDE DEF Try
      <3>2. Good(Try(i).cache, m, s, g, o)
        BY <2>3, <3>1, SuffixIsGood
      <3> QED BY <2>3, <3>2 DEF Good
    <2>5. CASE Try(i).serve
      <3>1. o = Outcome(Try(i).cache, Kept(i))
        BY <2>1, <2>5
      <3>2. o.cache = Try(i).cache /\ o.result = Kept(i)
        BY <3>1 DEF Outcome
      <3>3. Answers(c.mode, m, s, g, ResultOf(e))
        BY <1>3, <1>5, <2>2, <2>5, ServedEntryAnswers
      <3>4. Kept(i) = ResultOf(e)
        BY DEF ResultOf
      <3> HIDE DEF e, Try, Kept
      <3> QED BY <2>3, <2>5, <3>2, <3>3, <3>4 DEF Good
    <2> QED BY <2>4, <2>5
  <1> QED BY <1>6, <1>7

-----------------------------------------------------------------------------
(* The caller's other operations.                                          *)

(* A cache without entries has no claims either. *)
LEMMA NoEntriesNoClaims ==
  ASSUME NEW c, CacheOK(c), c.entries = <<>>
  PROVE  c.suffixes = <<>>
  <1>1. c \in CacheRecord /\ DOMAIN c.entries = {}
    BY DEF CacheOK
  <1>2. DOMAIN c.suffixes = {}
    BY <1>1 DEF CacheOK, ClaimHolds
  <1> QED BY <1>1, <1>2, CacheTyped

(* Entries that are all to be validated before they are served. *)
Unserved(c) == \A i \in DOMAIN c.entries : c.mode = Scoped /\ c.entries[i].epoch # c.epoch

(* A refresh after an edit drops the entries or leaves them to be validated. *)
LEMMA RefreshIsOK ==
  ASSUME NEW c, CacheOK(c), edited => c.baseline # {version}, version \in [Chunks -> Nat]
  PROVE  /\ CacheOK(RefreshIn(c)) /\ RefreshIn(c).baseline = {version}
         /\ ~edited \/ Unserved(RefreshIn(c))
  <1> DEFINE captured == [c EXCEPT !.baseline = {version}]
             revalidating == [captured EXCEPT !.epoch = @ + 1]
             z == Invalidated(captured)
  <1>1. c \in CacheRecord /\ c.epoch \in Nat /\ c.mode \in {Exact, Scoped} /\ Exact # Scoped
    BY CacheTyped DEF CacheOK, Exact, Scoped
  <1>2. /\ RefreshIn(c) = IF c.baseline = {version} THEN c
                          ELSE IF c.mode = Exact
                            THEN IF c.baseline = {} THEN captured ELSE z
                          ELSE IF c.baseline = {} /\ c.entries = <<>> THEN captured
                          ELSE revalidating
    BY Zenon DEF RefreshIn
  <1>3. \A k \in Chunks : version[k] <= version[k]
    OBVIOUS
  <1>4. /\ captured \in CacheRecord /\ captured.baseline = {version} /\ captured.entries = c.entries
        /\ captured.suffixes = c.suffixes /\ captured.mode = c.mode /\ captured.bound = c.bound
        /\ captured.epoch = c.epoch
    BY <1>1 DEF CacheRecord
  <1>5. /\ revalidating \in CacheRecord /\ revalidating.baseline = {version}
        /\ revalidating.entries = c.entries /\ revalidating.suffixes = c.suffixes
        /\ revalidating.mode = c.mode /\ revalidating.bound = c.bound
        /\ revalidating.epoch = c.epoch + 1
    <2> HIDE DEF captured
    <2>1. c.epoch + 1 \in Nat
      BY <1>1
    <2> QED BY <1>4, <2>1 DEF CacheRecord
  <1>6. /\ z \in CacheRecord /\ z.entries = <<>> /\ z.suffixes = <<>> /\ z.baseline = {version}
    <2> HIDE DEF captured
    <2> QED BY <1>4, NoClaims, EmptySeq DEF CacheRecord, Invalidated
  <1>7. c.entries = <<>> => c.suffixes = <<>>
    BY NoEntriesNoClaims
  <1> HIDE DEF captured, revalidating, z
  <1>8. ASSUME NEW d \in CacheRecord, d.entries = <<>>, d.suffixes = <<>>, d.baseline = {version}
        PROVE  CacheOK(d) /\ d.baseline = {version} /\ Unserved(d)
    <2>1. CacheOK(d)
      BY <1>3, <1>8, EmptyIsOK
    <2>2. Unserved(d)
      BY <1>8 DEF Unserved
    <2> QED BY <1>8, <2>1, <2>2
  <1>9. CASE c.baseline = {version}
    BY <1>2, <1>9
  <1>10. CASE c.baseline # {version} /\ c.entries = <<>>
    <2>1. RefreshIn(c) \in {captured, z, revalidating}
      BY <1>2, <1>10
    <2> QED BY <1>4, <1>5, <1>6, <1>7, <1>8, <1>10, <2>1
  <1>11. CASE c.baseline # {version} /\ c.entries # <<>> /\ c.mode = Exact
    <2>1. RefreshIn(c) = z
      BY <1>2, <1>11 DEF CacheOK
    <2> QED BY <1>6, <1>8, <2>1
  <1>12. CASE c.baseline # {version} /\ c.entries # <<>> /\ c.mode # Exact
    <2>1. RefreshIn(c) = revalidating /\ c.mode = Scoped
      BY <1>1, <1>2, <1>12
    <2>2. ASSUME NEW i \in DOMAIN c.entries
          PROVE  /\ EntryHolds(revalidating, c.entries[i])
                 /\ c.entries[i].epoch # revalidating.epoch
      <3>1. EntryHolds(c, c.entries[i]) /\ c.entries[i] \in EntryRecord
        BY EntryTyped
      <3>2. c.entries[i].epoch <= revalidating.epoch /\ c.entries[i].epoch # revalidating.epoch
        <4>1. c.entries[i].epoch \in Nat /\ c.entries[i].epoch <= c.epoch
          BY <3>1 DEF EntryRecord, EntryHolds
        <4> QED BY <1>1, <1>5, <4>1
      <3>3. FreshWhile(revalidating, c.entries[i])
        BY <1>1, <1>5, <2>1, <3>2 DEF FreshWhile
      <3>4. LegalWhile(revalidating, c.entries[i])
        BY <1>5, <3>1, <3>2 DEF LegalWhile, EntryHolds
      <3> QED BY <1>5, <3>1, <3>2, <3>3, <3>4 DEF EntryHolds
    <2>3. \A key \in DOMAIN c.suffixes : ClaimHolds(revalidating, key)
      BY <1>5 DEF CacheOK, ClaimHolds
    <2>4. CacheOK(revalidating)
      BY <1>3, <1>5, <2>1, <2>2, <2>3 DEF CacheOK
    <2>5. Unserved(revalidating)
      BY <1>5, <2>1, <2>2 DEF Unserved
    <2> QED BY <1>5, <2>1, <2>4, <2>5
  <1> QED BY <1>9, <1>10, <1>11, <1>12

(* Another policy forgets everything. *)
LEMMA StalenessIsOK ==
  ASSUME NEW c, CacheOK(c), NEW mode \in {Exact, Scoped}, mode # c.mode
  PROVE  CacheOK(SetStalenessIn(c, mode)) /\ SetStalenessIn(c, mode).baseline = {}
  <1> DEFINE d == SetStalenessIn(c, mode)
             z == Invalidated(c)
  <1>1. z \in CacheRecord /\ z.entries = <<>> /\ z.suffixes = <<>>
    BY InvalidatedIsOK
  <1>2. d = [z EXCEPT !.mode = mode, !.baseline = {}]
    BY DEF SetStalenessIn
  <1> HIDE DEF z, d
  <1>3. d \in CacheRecord /\ d.entries = <<>> /\ d.suffixes = <<>> /\ d.baseline = {}
    BY <1>1, <1>2 DEF CacheRecord
  <1>4. CacheOK(d)
    BY <1>3, EmptyIsOK
  <1> QED BY <1>3, <1>4 DEF d

(* Other caps, and what no longer fits under them. *)
LEMMA CapsAreOK ==
  ASSUME NEW c, CacheOK(c), NEW caps \in Caps, NEW d \in {[c EXCEPT !.caps = caps], Invalidated([c EXCEPT !.caps = caps])}
  PROVE  CacheOK(d) /\ d.baseline = c.baseline /\ d.mode = c.mode
  <1> DEFINE x == [c EXCEPT !.caps = caps]
  <1>1. c \in CacheRecord
    BY DEF CacheOK
  <1>2. /\ x \in CacheRecord /\ x.entries = c.entries /\ x.suffixes = c.suffixes /\ x.mode = c.mode
        /\ x.bound = c.bound /\ x.baseline = c.baseline /\ x.epoch = c.epoch
    BY <1>1 DEF CacheRecord
  <1> HIDE DEF x
  <1>3. \A i \in DOMAIN x.entries : EntryHolds(x, x.entries[i])
    BY <1>2 DEF CacheOK, EntryHolds, FreshWhile, LegalWhile
  <1>4. \A key \in DOMAIN x.suffixes : ClaimHolds(x, key)
    BY <1>2 DEF CacheOK, ClaimHolds
  <1>5. CacheOK(x)
    BY <1>2, <1>3, <1>4 DEF CacheOK
  <1>6. d \in {x, Invalidated(x)}
    BY DEF x
  <1> QED BY <1>2, <1>5, <1>6, InvalidatedIsOK

(* set_caps. *)
LEMMA SetCapsIsOK ==
  ASSUME NEW c, CacheOK(c), NEW entries \in Nat, NEW nodes \in Nat
  PROVE  /\ CacheOK(SetCapsIn(c, entries, nodes)) /\ SetCapsIn(c, entries, nodes).mode = c.mode
         /\ SetCapsIn(c, entries, nodes).baseline = c.baseline
  <1> DEFINE caps == [c.caps EXCEPT !.entries = entries, !.nodes = nodes]
             x == [c EXCEPT !.caps.entries = entries, !.caps.nodes = nodes]
  <1>1. c \in CacheRecord /\ c.caps \in Caps
    BY CacheTyped DEF CacheOK
  <1>2. caps \in Caps
    BY <1>1 DEF Caps
  <1>3. x = [c EXCEPT !.caps = caps]
    BY <1>1 DEF CacheRecord, Caps
  <1>4. SetCapsIn(c, entries, nodes) \in {x, Invalidated(x)}
    BY Zenon DEF SetCapsIn
  <1> HIDE DEF caps, x
  <1> QED BY <1>2, <1>3, <1>4, CapsAreOK

(* set_dependency_cap. *)
LEMMA SetDependencyCapIsOK ==
  ASSUME NEW c, CacheOK(c), NEW deps \in Nat
  PROVE  /\ CacheOK(SetDependencyCapIn(c, deps)) /\ SetDependencyCapIn(c, deps).mode = c.mode
         /\ SetDependencyCapIn(c, deps).baseline = c.baseline
  <1> DEFINE caps == [c.caps EXCEPT !.deps = deps]
             x == [c EXCEPT !.caps.deps = deps]
  <1>1. c \in CacheRecord /\ c.caps \in Caps
    BY CacheTyped DEF CacheOK
  <1>2. caps \in Caps
    BY <1>1 DEF Caps
  <1>3. x = [c EXCEPT !.caps = caps]
    BY <1>1 DEF CacheRecord, Caps
  <1>4. SetDependencyCapIn(c, deps) \in {x, Invalidated(x)}
    BY Zenon DEF SetDependencyCapIn
  <1> HIDE DEF caps, x
  <1> QED BY <1>2, <1>3, <1>4, CapsAreOK

(* clear() also forgets what it was bound to. *)
LEMMA ClearIsOK ==
  ASSUME NEW c, CacheOK(c)
  PROVE  CacheOK(ClearIn(c)) /\ ClearIn(c).mode = c.mode /\ ClearIn(c).baseline = c.baseline
  <1> DEFINE z == Invalidated(c)
             d == ClearIn(c)
  <1>1. /\ z \in CacheRecord /\ z.entries = <<>> /\ z.suffixes = <<>> /\ z.mode = c.mode
        /\ z.baseline = c.baseline
    BY InvalidatedIsOK
  <1>2. d = [z EXCEPT !.bound = None]
    BY DEF ClearIn
  <1> HIDE DEF z, d
  <1>3. d \in CacheRecord /\ d.entries = <<>> /\ d.suffixes = <<>> /\ d.mode = c.mode /\ d.baseline = c.baseline
    BY <1>1, <1>2 DEF CacheRecord
  <1>4. CacheOK(d)
    BY <1>3, EmptyIsOK DEF CacheOK
  <1> QED BY <1>3, <1>4 DEF d

-----------------------------------------------------------------------------
(* Steps.                                                                  *)

(* The world alone decides what a search returns. *)
LEMMA WorldDecides ==
  ASSUME UNCHANGED world, NEW m, NEW s, NEW g
  PROVE  RoutesOf(m, s, g)' = RoutesOf(m, s, g) /\ FreshResults(m, s, g)' = FreshResults(m, s, g)
  <1>1. terrain' = terrain
    BY DEF world
  <1>2. RoutesOf(m, s, g)' = RoutesOf(m, s, g)
    BY <1>1 DEF RoutesOf, Enters
  <1> QED BY <1>1, <1>2 DEF FreshResults, Enters

(* A step that leaves the world alone makes the cache what its operation   *)
(* makes it; a refresh leaves nothing to be served unseen.                 *)
LEMMA BecomesIsOK ==
  ASSUME NEW d, CacheOK(d), Becomes(d), edited' = edited \/ Unserved(d), opened \in BOOLEAN
  PROVE  CacheOK(routes)'
  <1>1. /\ routes' = d /\ UNCHANGED world /\ version' = version /\ terrain' = terrain
        /\ opened' = (opened /\ d.entries # <<>>)
    BY DEF Becomes, world
  <1>2. /\ d \in CacheRecord /\ (d.entries # <<>> => d.bound \in Models)
        /\ (d.entries # <<>> /\ d.mode = Exact => d.baseline # {})
        /\ \A b \in d.baseline, k \in Chunks : b[k] <= version[k]
    BY DEF CacheOK
  <1>3. ASSUME NEW i \in DOMAIN d.entries PROVE EntryHolds(routes, d.entries[i])'
    <2> DEFINE e == d.entries[i]
    <2>1. EntryHolds(d, e) /\ d.entries # <<>>
      BY EntryTyped
    <2>2. opened' = opened
      BY <1>1, <2>1, Zenon
    <2>3. \/ edited' = edited
          \/ d.mode # Exact /\ e.epoch # d.epoch
      BY DEF Unserved, Exact, Scoped
    <2> HIDE DEF e
    <2>4. /\ RoutesOf(d.bound, e.start, e.goal)' = RoutesOf(d.bound, e.start, e.goal)
          /\ FreshResults(d.bound, e.start, e.goal)' = FreshResults(d.bound, e.start, e.goal)
      BY <1>1, WorldDecides, Zenon
    <2>5. e.epoch <= d.epoch /\ StoredRoute(d.bound, e)'
      BY <1>1, <2>1 DEF EntryHolds, StoredRoute
    <2>6. FreshWhile(d, e)'
      BY <1>1, <2>1, <2>3, <2>4 DEF EntryHolds, FreshWhile
    <2>7. LegalWhile(d, e)'
      <3>1. DependenciesHold(e.deps)' = DependenciesHold(e.deps)
        BY <1>1 DEF DependenciesHold
      <3>2. Shortest(d.bound, e)' = Shortest(d.bound, e)
        BY <2>4 DEF Shortest
      <3> QED BY <1>1, <2>1, <2>2, <2>3, <2>4, <3>1, <3>2 DEF EntryHolds, LegalWhile
    <2> QED BY <1>1, <2>5, <2>6, <2>7 DEF EntryHolds, e
  <1>4. ASSUME NEW key \in DOMAIN d.suffixes PROVE ClaimHolds(routes, key)'
    BY <1>1 DEF CacheOK, ClaimHolds
  <1> QED BY <1>1, <1>2, <1>3, <1>4 DEF CacheOK

(* An edit: versions only grow, and that of the tile's chunk does.         *)
LEMMA EditIsOK ==
  ASSUME CacheOK(routes), version \in [Chunks -> Nat], terrain \in Terrains,
         opened \in BOOLEAN, NEW t \in EditedTiles, NEW cost \in NewCosts, EditTile(t, cost)
  PROVE  /\ CacheOK(routes)' /\ terrain' \in Terrains /\ version' \in [Chunks -> Nat]
         /\ routes.baseline # {version'} /\ opened' \in BOOLEAN
  <1> DEFINE k == ChunkOf(t)
  <1>1. /\ terrain' = [terrain EXCEPT ![t] = cost] /\ version' = [version EXCEPT ![k] = @ + 1]
        /\ edited' = TRUE /\ routes' = routes
        /\ opened' = (opened \/ \E m \in Models : ~Enters(m, t) /\ cost \in Passes[m])
    BY DEF EditTile, Edit
  <1>2. t \in Tiles /\ cost \in Costs /\ k \in Chunks
    BY RouteCacheAssumption DEF Chunks
  <1> HIDE DEF k
  <1>3. /\ terrain' \in Terrains /\ terrain'[t] = cost /\ \A x \in Tiles : x # t => terrain'[x] = terrain[x]
    BY <1>1, <1>2 DEF Terrains
  <1>4. /\ version' \in [Chunks -> Nat] /\ version'[k] = version[k] + 1 /\ version[k] \in Nat
        /\ \A x \in Chunks : version[x] \in Nat /\ version'[x] \in Nat /\ version[x] <= version'[x]
        /\ \A x \in Chunks : version'[x] <= version[x] => x # k
    BY <1>1, <1>2
  <1>5. opened' \in BOOLEAN /\ (~opened' => ~opened)
    BY <1>1, Zenon
  <1>6. ASSUME ~opened', NEW m \in Models, NEW x \in Tiles, Enters(m, x)'
        PROVE  Enters(m, x)
    <2>1. Enters(m, t) \/ cost \notin Passes[m]
      BY <1>1, <1>6, Zenon
    <2>2. CASE x = t
      BY <1>3, <1>6, <2>1, <2>2 DEF Enters
    <2>3. CASE x # t
      BY <1>3, <1>6, <2>3 DEF Enters
    <2> QED BY <2>2, <2>3
  <1>7. routes \in CacheRecord /\ routes.baseline \in SUBSET [Chunks -> Nat]
    BY CacheTyped DEF CacheOK
  <1>8. version' \notin routes.baseline
    BY <1>2, <1>4 DEF CacheOK
  <1>9. \A b \in routes.baseline, x \in Chunks : b[x] <= version'[x]
    <2> SUFFICES ASSUME NEW b \in routes.baseline, NEW x \in Chunks PROVE b[x] <= version'[x]
      OBVIOUS
    <2>1. b[x] <= version[x] /\ b[x] \in Nat
      BY <1>7 DEF CacheOK
    <2> QED BY <1>4, <2>1
  <1>10. ASSUME NEW i \in DOMAIN routes.entries PROVE EntryHolds(routes, routes.entries[i])'
    <2> DEFINE e == routes.entries[i]
    <2>1. EntryHolds(routes, e) /\ e \in EntryRecord /\ routes.bound \in Models /\ e.start \in Tiles /\ e.goal \in Tiles
      BY EntryTyped
    <2>7. e' = e
      BY <1>1 DEF e
    <2> HIDE DEF e
    <2>2. /\ e.deps \in Seq(Dependency) /\ e.path \in Seq(Tiles)
          /\ \A j \in DOMAIN e.deps : e.deps[j].key \in Chunks /\ e.deps[j].version \in Nat
          /\ \A j \in DOMAIN e.path : e.path[j] \in Tiles
      <3>1. e.deps \in Seq(Dependency) /\ e.path \in Seq(Tiles)
        BY <2>1 DEF EntryRecord
      <3>2. \A j \in DOMAIN e.deps : e.deps[j] \in Dependency
        BY <3>1, LenProperties, ElementOfSeq
      <3>3. \A j \in DOMAIN e.path : e.path[j] \in Tiles
        BY <3>1, LenProperties, ElementOfSeq
      <3> QED BY <3>1, <3>2, <3>3 DEF Dependency
    <2>3. \A j \in DOMAIN e.deps : e.deps[j].version <= version[e.deps[j].key]
      BY <2>1 DEF EntryHolds, StoredRoute
    <2>4. ASSUME NEW j \in DOMAIN e.deps PROVE e.deps[j].version <= version'[e.deps[j].key]
      BY <1>4, <2>2, <2>3
    <2>5. ASSUME DependenciesHold(e.deps)'
          PROVE  DependenciesHold(e.deps) /\ \A j \in DOMAIN e.deps : e.deps[j].key # k
      <3>1. \A j \in DOMAIN e.deps : version'[e.deps[j].key] = e.deps[j].version
        BY <2>5, <2>7 DEF DependenciesHold
      <3>2. ASSUME NEW j \in DOMAIN e.deps
            PROVE  version[e.deps[j].key] = e.deps[j].version /\ e.deps[j].key # k
        <4>1. e.deps[j].key \in Chunks /\ version'[e.deps[j].key] <= version[e.deps[j].key]
          BY <2>2, <2>3, <3>1
        <4> QED BY <1>4, <3>1, <4>1
      <3> QED BY <3>2 DEF DependenciesHold
    <2>6. StoredRoute(routes.bound, e)'
      <3>1. e' = e /\ routes.bound' = routes.bound
        BY <1>1 DEF e
      <3> QED BY <1>1, <2>1, <2>4, <3>1 DEF EntryHolds, StoredRoute
    <2>8. FreshWhile(routes, e)'
      BY <1>1, <1>8, <2>7 DEF FreshWhile
    <2>9. ASSUME Covered(e), DependenciesHold(e.deps)', DependenciesHold(e.deps) =>
                   e.path \in RoutesOf(routes.bound, e.start, e.goal)
          PROVE  e.path \in RoutesOf(routes.bound, e.start, e.goal)'
      <3>1. e.path \in RoutesOf(routes.bound, e.start, e.goal) /\ \A j \in DOMAIN e.deps : e.deps[j].key # k
        BY <2>5, <2>9
      <3>2. ASSUME NEW j \in DOMAIN e.path PROVE Enters(routes.bound, e.path[j])'
        <4>1. ChunkOf(e.path[j]) # k
          BY <2>9, <3>1 DEF Covered
        <4>2. e.path[j] # t /\ e.path[j] \in Tiles
          BY <2>2, <4>1 DEF k
        <4>3. Enters(routes.bound, e.path[j])
          BY <3>1 DEF RoutesOf
        <4> QED BY <1>1, <1>3, <2>7, <4>2, <4>3 DEF Enters
      <3> QED BY <1>1, <2>7, <3>1, <3>2 DEF RoutesOf
    <2>10. ASSUME ~opened', Shortest(routes.bound, e)
           PROVE  Shortest(routes.bound, e)'
      <3>1. RoutesOf(routes.bound, e.start, e.goal)' \subseteq RoutesOf(routes.bound, e.start, e.goal)
        <4>1. \A x \in Tiles : Enters(routes.bound, x)' => Enters(routes.bound, x)
          BY <1>1, <1>6, <2>1, <2>10
        <4> QED BY <1>1, <2>1, <2>7, <4>1, ClosingKeepsRoutes
      <3> QED BY <1>1, <2>7, <2>10, <3>1 DEF Shortest
    <2>11. LegalWhile(routes, e)'
      BY <1>1, <1>5, <2>1, <2>7, <2>9, <2>10 DEF EntryHolds, LegalWhile, Covered
    <2> QED BY <1>1, <2>1, <2>6, <2>7, <2>8, <2>11 DEF EntryHolds, e
  <1>11. ASSUME NEW key \in DOMAIN routes.suffixes PROVE ClaimHolds(routes, key)'
    BY <1>1 DEF CacheOK, ClaimHolds
  <1>12. CacheOK(routes)'
    BY <1>1, <1>9, <1>10, <1>11 DEF CacheOK
  <1> QED BY <1>3, <1>4, <1>5, <1>8, <1>12

-----------------------------------------------------------------------------
(* Finite caps have a largest one. *)
LEMMA LargestCap ==
  ASSUME NEW S \in SUBSET Nat, S # {}, IsFiniteSet(S)
  PROVE  Max(S) \in S
  <1>1. PICK seq \in Seq(S) : \A s \in S : \E n \in 1 .. Len(seq) : seq[n] = s
    BY DEF IsFiniteSet
  <1> DEFINE N == Len(seq)
             Below == {n \in 0 .. N : \E b \in Nat : \A i \in 1 .. n : seq[i] <= b}
  <1>2. N \in Nat /\ \A i \in 1 .. N : seq[i] \in S /\ seq[i] \in Nat
    BY LenProperties, ElementOfSeq
  <1> HIDE DEF N
  <1>3. 0 \in Below
    <2>1. 0 \in 0 .. N /\ 0 \in Nat /\ \A i \in 1 .. 0 : seq[i] <= 0
      BY <1>2
    <2> QED BY <2>1
  <1>4. ASSUME NEW n \in 1 .. N, n - 1 \in Below PROVE n \in Below
    <2>1. PICK b \in Nat : \A i \in 1 .. n - 1 : seq[i] <= b
      BY <1>4
    <2> DEFINE c == IF seq[n] <= b THEN b ELSE seq[n]
    <2>2. c \in Nat /\ b <= c /\ seq[n] <= c
      BY <1>2
    <2> HIDE DEF c
    <2>3. ASSUME NEW i \in 1 .. n PROVE seq[i] <= c
      <3>1. CASE i = n
        BY <2>2, <3>1
      <3>2. CASE i # n
        <4>1. i \in 1 .. n - 1 /\ i \in 1 .. N
          BY <1>2, <3>2
        <4>2. seq[i] <= b /\ seq[i] \in Nat
          BY <1>2, <2>1, <4>1
        <4> QED BY <2>2, <4>2
      <3> QED BY <3>1, <3>2
    <2>4. n \in 0 .. N
      BY <1>2
    <2> QED BY <2>2, <2>3, <2>4
  <1> HIDE DEF Below
  <1>5. N \in Below
    <2>1. \A n \in 0 .. N : n \in Below
      BY <1>2, <1>3, <1>4, BoundedInduction
    <2> QED BY <1>2, <2>1
  <1>6. PICK b \in Nat : \A i \in 1 .. N : seq[i] <= b
    BY <1>5 DEF Below
  <1>7. \A s \in S : s <= b
    BY <1>1, <1>6 DEF N
  <1> DEFINE T == {b - x : x \in S}
  <1>8. T \in SUBSET Nat /\ T # {}
    <2>1. ASSUME NEW x \in S PROVE b - x \in Nat
      BY <1>7
    <2> QED BY <2>1
  <1>9. PICK l \in T : \A k \in T : l <= k
    <2> HIDE DEF T
    <2> QED BY <1>8, LeastNumber
  <1>10. PICK x \in S : l = b - x
    OBVIOUS
  <1>11. ASSUME NEW y \in S PROVE x >= y
    <2>1. b - y \in T
      OBVIOUS
    <2>2. b - x <= b - y
      BY <1>9, <1>10, <2>1
    <2> QED BY <2>2
  <1> QED BY <1>11 DEF Max

(* The initial cache. *)
LEMMA InitHolds == Init => RouteInv
  <1> SUFFICES ASSUME Init PROVE RouteInv
    OBVIOUS
  <1>1. Max(EntryCaps) \in Nat /\ Max(NodeCaps) \in Nat /\ Max(DependencyCaps) \in Nat
    BY RouteCacheAssumption, LargestCap
  <1>2. terrain \in Terrains /\ version \in [Chunks -> Nat] /\ {edited, based, opened} \subseteq BOOLEAN
    BY DEF Init
  <1>3. /\ routes \in CacheRecord /\ routes.entries = <<>> /\ routes.suffixes = <<>> /\ routes.baseline = {}
    BY <1>1, NoClaims, EmptySeq DEF Init, EmptyCache, CacheRecord, Caps, None
  <1>4. CacheOK(routes)
    BY <1>3, EmptyIsOK
  <1>5. BaselineIsTrue
    BY DEF Init, BaselineIsTrue
  <1>6. ServedRoutesAreTrue
    BY DEF Init, ServedRoutesAreTrue, RoutesAreLegal, OnlyOpeningsAge
  <1> QED BY <1>2, <1>4, <1>5, <1>6 DEF RouteInv

(* What is answered is true, and stays so while nothing changes. *)
LEMMA AnswerHolds ==
  ASSUME NEW mode, NEW m \in Models, NEW s \in Tiles, NEW g \in Tiles, NEW r,
         UNCHANGED world, Answers(mode, m, s, g, r), routes'.mode = mode,
         opened' = opened \/ r \in FreshResults(m, s, g), opened \in BOOLEAN,
         answer' = {[model |-> m, start |-> s, goal |-> g, result |-> r]}
  PROVE  ServedRoutesAreTrue'
  <1>1. /\ RoutesOf(m, s, g)' = RoutesOf(m, s, g) /\ FreshResults(m, s, g)' = FreshResults(m, s, g)
    BY WorldDecides
  <1> DEFINE a == [model |-> m, start |-> s, goal |-> g, result |-> r]
  <1>2. a.model = m /\ a.start = s /\ a.goal = g /\ a.result = r
    OBVIOUS
  <1> HIDE DEF a
  <1>3. answer' = {a}
    BY DEF a
  <1>4. RoutesAreLegal'
    BY <1>1, <1>2, <1>3 DEF RoutesAreLegal, Answers
  <1>5. routes'.mode = Exact \/ ~Eligible(m) \/ ~opened' => r \in FreshResults(m, s, g)
    BY DEF Answers
  <1>6. OnlyOpeningsAge'
    BY <1>1, <1>2, <1>3, <1>5 DEF OnlyOpeningsAge
  <1> QED BY <1>4, <1>6 DEF ServedRoutesAreTrue

(* Nothing is answered. *)
LEMMA NothingIsAnswered ==
  ASSUME answer' = {}
  PROVE  ServedRoutesAreTrue'
  BY DEF ServedRoutesAreTrue, RoutesAreLegal, OnlyOpeningsAge

(* The rest of the invariant after an operation on the cache alone. *)
LEMMA OperationKeeps ==
  ASSUME RouteInv, NEW d, CacheOK(d), Becomes(d), edited' = edited \/ Unserved(d),
         edited' \in BOOLEAN, based' \in BOOLEAN,
         edited' => d.baseline # {version}, based' /\ ~edited' => d.baseline = {version},
         ServedRoutesAreTrue'
  PROVE  RouteInv'
  <1>1. /\ routes' = d /\ version' = version /\ terrain' = terrain
        /\ opened' = (opened /\ d.entries # <<>>) /\ opened \in BOOLEAN
    BY DEF Becomes, world, RouteInv
  <1>2. CacheOK(routes)'
    BY <1>1, BecomesIsOK
  <1>3. BaselineIsTrue'
    BY <1>1 DEF BaselineIsTrue
  <1>4. opened' \in BOOLEAN
    BY <1>1, Zenon
  <1>5. terrain' \in Terrains /\ version' \in [Chunks -> Nat]
    BY <1>1 DEF RouteInv
  <1> QED BY <1>2, <1>3, <1>4, <1>5 DEF RouteInv

(* Every step keeps the invariant.                                         *)
LEMMA NextKeeps == RouteInv /\ [Next]_vars => RouteInv'
  <1> SUFFICES ASSUME RouteInv, [Next]_vars PROVE RouteInv'
    OBVIOUS
  <1>1. /\ CacheOK(routes) /\ BaselineIsTrue /\ version \in [Chunks -> Nat] /\ terrain \in Terrains
        /\ edited \in BOOLEAN /\ based \in BOOLEAN /\ opened \in BOOLEAN
    BY DEF RouteInv
  <1>2. ASSUME NEW t \in EditedTiles, NEW cost \in NewCosts, EditTile(t, cost) PROVE RouteInv'
    <2>1. /\ CacheOK(routes)' /\ terrain' \in Terrains /\ version' \in [Chunks -> Nat]
          /\ routes.baseline # {version'} /\ opened' \in BOOLEAN
      BY <1>1, <1>2, EditIsOK
    <2>2. edited' = TRUE /\ answer' = {} /\ routes' = routes /\ based' = based
      BY <1>2 DEF EditTile
    <2>3. ServedRoutesAreTrue'
      BY <2>2, NothingIsAnswered
    <2> QED BY <1>1, <2>1, <2>2, <2>3 DEF RouteInv, BaselineIsTrue
  <1>3. ASSUME Refresh PROVE RouteInv'
    <2> DEFINE d == RefreshIn(routes)
    <2>1. CacheOK(d) /\ d.baseline = {version} /\ (~edited \/ Unserved(d))
      BY <1>1, RefreshIsOK DEF BaselineIsTrue
    <2>2. Becomes(d) /\ edited' = FALSE /\ based' = TRUE /\ answer' = {}
      BY <1>3 DEF Refresh
    <2>3. ServedRoutesAreTrue'
      BY <2>2, NothingIsAnswered
    <2> HIDE DEF d
    <2>5. edited' = edited \/ Unserved(d)
      BY <1>1, <2>1, <2>2
    <2> QED BY <2>1, <2>2, <2>3, <2>5, OperationKeeps
  <1>4. ASSUME NEW m \in Models, NEW s \in Tiles, NEW g \in Tiles, Lookup(m, s, g) PROVE RouteInv'
    <2>1. Ready(routes)
      BY <1>1, <1>4 DEF Lookup, MayLookUp, BaselineIsTrue, Ready
    <2>2. PICK o \in CachedOutcomes(routes, m, s, g) :
            /\ Becomes(o.cache)
            /\ answer' = {[model |-> m, start |-> s, goal |-> g, result |-> o.result]}
      BY <1>4 DEF Lookup
    <2>3. Good(routes, m, s, g, o)
      BY <1>1, <2>1, CachedIsGood
    <2>4. /\ CacheOK(o.cache) /\ o.cache.mode = routes.mode /\ o.cache.baseline = routes.baseline
          /\ Answers(routes.mode, m, s, g, o.result)
          /\ o.cache.entries # <<>> \/ o.result \in FreshResults(m, s, g)
      BY <2>3 DEF Good
    <2>5. edited' = edited /\ based' = based
      BY <1>4 DEF Lookup
    <2>6. UNCHANGED world /\ routes' = o.cache /\ opened' = (opened /\ o.cache.entries # <<>>)
      BY <2>2 DEF Becomes
    <2>7. opened' = opened \/ o.result \in FreshResults(m, s, g)
      <3>1. CASE o.cache.entries # <<>>
        <4>1. opened' = (opened /\ TRUE)
          BY <2>6, <3>1, Zenon
        <4>2. opened \in BOOLEAN
          BY <1>1
        <4>3. opened' = opened
          BY <4>1, <4>2
        <4> QED BY <4>3
      <3>2. CASE o.cache.entries = <<>>
        BY <2>4, <3>2
      <3> QED BY <3>1, <3>2
    <2>8. routes'.mode = routes.mode
      BY <2>4, <2>6
    <2>9. ServedRoutesAreTrue'
      BY <1>1, <2>2, <2>4, <2>6, <2>7, <2>8, AnswerHolds
    <2> QED BY <1>1, <2>2, <2>4, <2>5, <2>9, OperationKeeps DEF BaselineIsTrue
  <1>5. ASSUME NEW mode \in {Exact, Scoped}, SetStaleness(mode) PROVE RouteInv'
    <2> DEFINE d == SetStalenessIn(routes, mode)
    <2>1. Becomes(d) /\ based' = FALSE /\ answer' = {} /\ edited' = edited /\ mode # routes.mode
      BY <1>5 DEF SetStaleness
    <2>2. CacheOK(d) /\ d.baseline = {}
      BY <1>1, <2>1, StalenessIsOK
    <2>3. ServedRoutesAreTrue'
      BY <2>1, NothingIsAnswered
    <2>4. d.baseline # {version}
      BY <2>2
    <2> HIDE DEF d
    <2> QED BY <1>1, <2>1, <2>2, <2>3, <2>4, OperationKeeps
  <1>6. ASSUME NEW d, CacheOK(d), d.baseline = routes.baseline, Becomes(d), answer' = {},
               edited' = edited, based' = based
        PROVE  RouteInv'
    <2>1. ServedRoutesAreTrue'
      BY <1>6, NothingIsAnswered
    <2> QED BY <1>1, <1>6, <2>1, OperationKeeps DEF BaselineIsTrue
  <1>7. ASSUME NEW entries \in EntryCaps, NEW nodes \in NodeCaps, SetCaps(entries, nodes) PROVE RouteInv'
    <2> DEFINE d == SetCapsIn(routes, entries, nodes)
    <2>1. entries \in Nat /\ nodes \in Nat
      BY RouteCacheAssumption
    <2>2. CacheOK(d) /\ d.baseline = routes.baseline
      BY <1>1, <2>1, SetCapsIsOK
    <2>3. Becomes(d) /\ answer' = {} /\ edited' = edited /\ based' = based
      BY <1>7 DEF SetCaps
    <2> HIDE DEF d
    <2> QED BY <1>6, <2>2, <2>3
  <1>8. ASSUME NEW deps \in DependencyCaps, SetDependencyCap(deps) PROVE RouteInv'
    <2> DEFINE d == SetDependencyCapIn(routes, deps)
    <2>1. deps \in Nat
      BY RouteCacheAssumption
    <2>2. CacheOK(d) /\ d.baseline = routes.baseline
      BY <1>1, <2>1, SetDependencyCapIsOK
    <2>3. Becomes(d) /\ answer' = {} /\ edited' = edited /\ based' = based
      BY <1>8 DEF SetDependencyCap
    <2> HIDE DEF d
    <2> QED BY <1>6, <2>2, <2>3
  <1>9. ASSUME Clear PROVE RouteInv'
    <2> DEFINE d == ClearIn(routes)
    <2>1. CacheOK(d) /\ d.baseline = routes.baseline
      BY <1>1, ClearIsOK
    <2>2. Becomes(d) /\ answer' = {} /\ edited' = edited /\ based' = based
      BY <1>9 DEF Clear
    <2> HIDE DEF d
    <2> QED BY <1>6, <2>1, <2>2
  <1>10. ASSUME UNCHANGED vars PROVE RouteInv'
    <2>1. /\ terrain' = terrain /\ version' = version /\ routes' = routes /\ answer' = answer
          /\ edited' = edited /\ based' = based /\ opened' = opened
      BY <1>10 DEF vars, world, history
    <2>2. \A m, s, g : /\ RoutesOf(m, s, g)' = RoutesOf(m, s, g)
                       /\ FreshResults(m, s, g)' = FreshResults(m, s, g)
      BY <2>1, WorldDecides DEF world
    <2>3. RoutesAreLegal'
      BY <2>1, <2>2 DEF RouteInv, ServedRoutesAreTrue, RoutesAreLegal
    <2>4. OnlyOpeningsAge'
      BY <2>1, <2>2 DEF RouteInv, ServedRoutesAreTrue, OnlyOpeningsAge
    <2>5. CacheOK(routes)'
      BY <2>1, <2>2 DEF RouteInv, CacheOK, EntryHolds, StoredRoute, FreshWhile, LegalWhile, Shortest,
                        DependenciesHold, ClaimHolds
    <2>6. BaselineIsTrue'
      BY <1>1, <2>1 DEF BaselineIsTrue
    <2> QED BY <1>1, <2>1, <2>3, <2>4, <2>5, <2>6 DEF RouteInv, ServedRoutesAreTrue
  <1>11. ASSUME NEW m \in Callers, NEW r \in Requests, Lookup(m, r[1], r[2]) PROVE RouteInv'
    <2>1. m \in Models /\ r[1] \in Tiles /\ r[2] \in Tiles
      BY RouteCacheAssumption
    <2> QED BY <1>4, <1>11, <2>1
  <1>12. CASE Next
    BY <1>2, <1>3, <1>5, <1>7, <1>8, <1>9, <1>11, <1>12 DEF Next
  <1> QED BY <1>10, <1>12

(* For every world, model and cap, whatever edits, refreshes, lookups and  *)
(* changes of policy come in between: entries are fresh while they may be  *)
(* served unseen, covered by their dependencies otherwise, and claims      *)
(* point at their nodes.                                                   *)
THEOREM RouteCacheInvariant == Spec => []RouteInv
  BY InitHolds, NextKeeps, PTL DEF Spec

(* "Surviving routes are guaranteed LEGAL" and "under blocking-only edits  *)
(* surviving routes remain optimal" (route_cache.h:23, 27), of whatever    *)
(* cached_astar_path returns.                                              *)
THEOREM RoutesServedAreTrue == Spec => []ServedRoutesAreTrue
  <1>1. RouteInv => ServedRoutesAreTrue
    BY DEF RouteInv
  <1> QED BY <1>1, RouteCacheInvariant, PTL

-----------------------------------------------------------------------------
(* Part 3: the search.  First, what a step changes in the heuristic.       *)

(* One step along an axis changes the distance there by one. *)
LEMMA StepApart ==
  ASSUME NEW a \in Int, NEW b \in Int, NEW d \in {1, -1}
  PROVE  /\ AbsDiff(a, b) \in Nat /\ AbsDiff(a + d, b) \in Nat
         /\ AbsDiff(a + d, b) = AbsDiff(a, b) + 1 \/ AbsDiff(a + d, b) = AbsDiff(a, b) - 1
  BY DEF AbsDiff

(* Cutting off at the largest cost keeps the order. *)
LEMMA SaturatedIsMonotone ==
  ASSUME NEW a \in Nat, NEW b \in Nat
  PROVE  /\ Saturated(a) \in 0 .. Infinite /\ Saturated(a) <= a
         /\ a <= b => Saturated(a) <= Saturated(b)
         /\ a < Infinite => Saturated(a) = a
         /\ a >= Infinite => Saturated(a) = Infinite
         /\ Saturated(a) < Infinite => Saturated(a) = a
  BY TransitionAssumption DEF Saturated

(* ... and a difference no larger than a price. *)
LEMMA SaturatedIsConsistent ==
  ASSUME NEW a \in Nat, NEW b \in Nat, NEW c \in Nat, a <= c + b
  PROVE  Saturated(a) <= c + Saturated(b)
  BY TransitionAssumption DEF Saturated

(* The coordinates of a tile are integers. *)
LEMMA CoordinatesOfTile ==
  ASSUME NEW t \in Tiles
  PROVE  t[1] \in Int /\ t[2] \in Int /\ t[3] \in Int
  BY TilesAreFinite, GridAssumption DEF Extent

(* Tiles and what an offset makes of them. *)
LEMMA OffsetOfTile ==
  ASSUME NEW t \in Tiles, NEW x \in Int, NEW y \in Int, NEW z \in Int
  PROVE  /\ t[1] \in Int /\ t[2] \in Int /\ t[3] \in Int
         /\ Offset(t, <<x, y, z>>) = <<t[1] + x, t[2] + y, t[3] + z>>
         /\ InShape(Offset(t, <<x, y, z>>)) => Offset(t, <<x, y, z>>) \in Tiles
  <1>1. t[1] \in Int /\ t[2] \in Int /\ t[3] \in Int
    BY CoordinatesOfTile
  <1>2. Offset(t, <<x, y, z>>) = <<t[1] + x, t[2] + y, t[3] + z>>
    BY DEF Offset
  <1>3. ASSUME InShape(<<t[1] + x, t[2] + y, t[3] + z>>) PROVE <<t[1] + x, t[2] + y, t[3] + z>> \in Tiles
    BY <1>3 DEF InShape, Tiles, Axes
  <1> QED BY <1>1, <1>2, <1>3

(* Faces: the Manhattan distance changes by one. *)
FaceSteps == {<<1, 0, 0>>, <<-1, 0, 0>>, <<0, 1, 0>>, <<0, -1, 0>>, <<0, 0, 1>>, <<0, 0, -1>>}
HexSteps == {<<1, 0, 0>>, <<-1, 0, 0>>, <<0, 1, 0>>, <<0, -1, 0>>, <<1, -1, 0>>, <<-1, 1, 0>>}

(* A step over a face changes the Manhattan distance to any tile by one. *)
LEMMA FaceChangesManhattan ==
  ASSUME NEW s \in Tiles, NEW g \in Tiles, NEW d \in FaceSteps
  PROVE  /\ Manhattan(s, g) \in Nat /\ Manhattan(Offset(s, d), g) \in Nat
         /\ \/ Manhattan(Offset(s, d), g) = Manhattan(s, g) + 1
            \/ Manhattan(Offset(s, d), g) = Manhattan(s, g) - 1
  <1>1. s[1] \in Int /\ s[2] \in Int /\ s[3] \in Int /\ g[1] \in Int /\ g[2] \in Int /\ g[3] \in Int
    BY CoordinatesOfTile
  <1>2. PICK x \in {0, 1, -1}, y \in {0, 1, -1}, z \in {0, 1, -1} :
          /\ d = <<x, y, z>>
          /\ \/ x \in {1, -1} /\ y = 0 /\ z = 0
             \/ y \in {1, -1} /\ x = 0 /\ z = 0
             \/ z \in {1, -1} /\ x = 0 /\ y = 0
    BY DEF FaceSteps
  <1>3. Offset(s, d) = <<s[1] + x, s[2] + y, s[3] + z>>
    BY <1>1, <1>2, OffsetOfTile
  <1>4. \A a, b \in Int : AbsDiff(a, b) \in Nat
    BY DEF AbsDiff
  <1>5. CASE x \in {1, -1} /\ y = 0 /\ z = 0
    <2>1. Manhattan(Offset(s, d), g) = AbsDiff(s[1] + x, g[1]) + AbsDiff(s[2], g[2]) + AbsDiff(s[3], g[3])
      BY <1>1, <1>3, <1>5 DEF Manhattan
    <2>2. \/ AbsDiff(s[1] + x, g[1]) = AbsDiff(s[1], g[1]) + 1
          \/ AbsDiff(s[1] + x, g[1]) = AbsDiff(s[1], g[1]) - 1
      BY <1>1, <1>5, StepApart
    <2>3. AbsDiff(s[1] + x, g[1]) \in Nat
      BY <1>1, <1>5, StepApart
    <2>4. Manhattan(s, g) = AbsDiff(s[1], g[1]) + AbsDiff(s[2], g[2]) + AbsDiff(s[3], g[3])
      BY DEF Manhattan
    <2>5. AbsDiff(s[1], g[1]) \in Nat /\ AbsDiff(s[2], g[2]) \in Nat /\ AbsDiff(s[3], g[3]) \in Nat
      BY <1>1, <1>4
    <2> QED BY <2>1, <2>2, <2>3, <2>4, <2>5
  <1>6. CASE y \in {1, -1} /\ x = 0 /\ z = 0
    <2>1. Manhattan(Offset(s, d), g) = AbsDiff(s[1], g[1]) + AbsDiff(s[2] + y, g[2]) + AbsDiff(s[3], g[3])
      BY <1>1, <1>3, <1>6 DEF Manhattan
    <2>2. \/ AbsDiff(s[2] + y, g[2]) = AbsDiff(s[2], g[2]) + 1
          \/ AbsDiff(s[2] + y, g[2]) = AbsDiff(s[2], g[2]) - 1
      BY <1>1, <1>6, StepApart
    <2>3. AbsDiff(s[2] + y, g[2]) \in Nat
      BY <1>1, <1>6, StepApart
    <2>4. Manhattan(s, g) = AbsDiff(s[1], g[1]) + AbsDiff(s[2], g[2]) + AbsDiff(s[3], g[3])
      BY DEF Manhattan
    <2>5. AbsDiff(s[1], g[1]) \in Nat /\ AbsDiff(s[2], g[2]) \in Nat /\ AbsDiff(s[3], g[3]) \in Nat
      BY <1>1, <1>4
    <2> QED BY <2>1, <2>2, <2>3, <2>4, <2>5
  <1>7. CASE z \in {1, -1} /\ x = 0 /\ y = 0
    <2>1. Manhattan(Offset(s, d), g) = AbsDiff(s[1], g[1]) + AbsDiff(s[2], g[2]) + AbsDiff(s[3] + z, g[3])
      BY <1>1, <1>3, <1>7 DEF Manhattan
    <2>2. \/ AbsDiff(s[3] + z, g[3]) = AbsDiff(s[3], g[3]) + 1
          \/ AbsDiff(s[3] + z, g[3]) = AbsDiff(s[3], g[3]) - 1
      BY <1>1, <1>7, StepApart
    <2>3. AbsDiff(s[3] + z, g[3]) \in Nat
      BY <1>1, <1>7, StepApart
    <2>4. Manhattan(s, g) = AbsDiff(s[1], g[1]) + AbsDiff(s[2], g[2]) + AbsDiff(s[3], g[3])
      BY DEF Manhattan
    <2>5. AbsDiff(s[1], g[1]) \in Nat /\ AbsDiff(s[2], g[2]) \in Nat /\ AbsDiff(s[3], g[3]) \in Nat
      BY <1>1, <1>4
    <2> QED BY <2>1, <2>2, <2>3, <2>4, <2>5
  <1> QED BY <1>2, <1>5, <1>6, <1>7

(* Hexes: the distance changes by at most one. *)
LEMMA HexStepIsNear ==
  ASSUME NEW s \in Tiles, NEW g \in Tiles, NEW d \in HexSteps
  PROVE  /\ HexDistance(s, g) \in Nat /\ HexDistance(Offset(s, d), g) \in Nat
         /\ HexDistance(s, g) <= 1 + HexDistance(Offset(s, d), g)
  <1>1. s[1] \in Int /\ s[2] \in Int /\ g[1] \in Int /\ g[2] \in Int
    BY CoordinatesOfTile
  <1>2. PICK x \in {0, 1, -1}, y \in {0, 1, -1} :
          /\ d = <<x, y, 0>>
          /\ \/ x \in {1, -1} /\ y = 0
             \/ y \in {1, -1} /\ x = 0
             \/ x = 1 /\ y = -1
             \/ x = -1 /\ y = 1
    BY DEF HexSteps
  <1>3. Offset(s, d) = <<s[1] + x, s[2] + y, s[3] + 0>>
    BY <1>1, <1>2, OffsetOfTile
  <1> DEFINE q == g[1] - s[1]
             r == g[2] - s[2]
             u == AbsDiff(q, 0) + AbsDiff(r, 0) + AbsDiff(q + r, 0)
             v == AbsDiff(q - x, 0) + AbsDiff(r - y, 0) + AbsDiff(q + r - x - y, 0)
  <1>4. q \in Int /\ r \in Int
    BY <1>1
  <1>5. HexDistance(s, g) = u \div 2
    BY DEF HexDistance
  <1>6. HexDistance(Offset(s, d), g) = v \div 2
    <2>1. g[1] - (s[1] + x) = q - x /\ g[2] - (s[2] + y) = r - y
      BY <1>1
    <2>2. (q - x) + (r - y) = q + r - x - y
      BY <1>4
    <2>3. Offset(s, d)[1] = s[1] + x /\ Offset(s, d)[2] = s[2] + y
      BY <1>3
    <2>4. HexDistance(Offset(s, d), g) = (AbsDiff(q - x, 0) + AbsDiff(r - y, 0) + AbsDiff((q - x) + (r - y), 0)) \div 2
      BY <2>1, <2>3 DEF HexDistance
    <2> QED BY <2>2, <2>4
  <1>7. u \in Nat /\ v \in Nat /\ u <= v + 2
    <2> HIDE DEF q, r
    <2> QED BY <1>2, <1>4 DEF AbsDiff
  <1>8. u \div 2 \in Nat /\ v \div 2 \in Nat /\ u \div 2 <= 1 + v \div 2
    <2> HIDE DEF u, v
    <2> QED BY <1>7
  <1> QED BY <1>5, <1>6, <1>8

(* Octile distances: a step on one of the axes changes them by at most the *)
(* price of a face, a step on both by at most that of a diagonal.          *)
LEMMA OctileStep ==
  ASSUME NEW a \in Nat, NEW b \in Nat
  PROVE  /\ OctileDistance(a, b) \in Nat
         /\ a >= b => OctileDistance(a + 1, b) = OctileDistance(a, b) + Straight
         /\ a < b => OctileDistance(a + 1, b) = OctileDistance(a, b) + Oblique - Straight
         /\ b >= a => OctileDistance(a, b + 1) = OctileDistance(a, b) + Straight
         /\ b < a => OctileDistance(a, b + 1) = OctileDistance(a, b) + Oblique - Straight
  <1>1. Straight \in Nat /\ Oblique \in Nat
    BY TransitionAssumption
  <1>2. \A x, y, z \in Nat : /\ x * z \in Nat /\ (x + 1) * z = x * z + z
                             /\ x <= y => (y - x) * z \in Nat /\ (y - x) * z = y * z - x * z
    OBVIOUS
  <1> DEFINE aS == a * Straight
             aO == a * Oblique
             bS == b * Straight
             bO == b * Oblique
  <1>3. aS \in Nat /\ aO \in Nat /\ bS \in Nat /\ bO \in Nat
    BY <1>1, <1>2
  <1>4. /\ a <= b => (b - a) * Straight = bS - aS /\ bS - aS \in Nat
        /\ b <= a => (a - b) * Straight = aS - bS /\ aS - bS \in Nat
    BY <1>1, <1>2
  <1>5. OctileDistance(a, b) = IF a < b THEN aO + (bS - aS) ELSE bO + (aS - bS)
    BY <1>4 DEF OctileDistance
  <1>6. (a + 1) * Straight = aS + Straight /\ (a + 1) * Oblique = aO + Oblique
    BY <1>1, <1>2
  <1>7. (b + 1) * Straight = bS + Straight /\ (b + 1) * Oblique = bO + Oblique
    BY <1>1, <1>2
  <1>8. OctileDistance(a + 1, b) = IF a + 1 < b THEN (aO + Oblique) + (bS - (aS + Straight))
                                   ELSE bO + ((aS + Straight) - bS)
    <2>1. a + 1 \in Nat /\ (a + 1 < b => (b - (a + 1)) * Straight = bS - (aS + Straight))
      BY <1>1, <1>2, <1>6
    <2>2. ~(a + 1 < b) => ((a + 1) - b) * Straight = (aS + Straight) - bS
      BY <1>1, <1>2, <1>6
    <2> HIDE DEF aS, aO, bS, bO
    <2> QED BY <1>6, <2>1, <2>2 DEF OctileDistance, bO
  <1>9. OctileDistance(a, b + 1) = IF a < b + 1 THEN aO + ((bS + Straight) - aS)
                                   ELSE (bO + Oblique) + (aS - (bS + Straight))
    <2>1. a < b + 1 => ((b + 1) - a) * Straight = (bS + Straight) - aS
      BY <1>1, <1>2, <1>7
    <2>2. ~(a < b + 1) => (a - (b + 1)) * Straight = aS - (bS + Straight)
      BY <1>1, <1>2, <1>7
    <2> HIDE DEF aS, aO, bS, bO
    <2> QED BY <1>7, <2>1, <2>2 DEF OctileDistance, aO
  <1>10. a = b => aS = bS /\ aO = bO
    OBVIOUS
  <1>11. a + 1 = b => bS = aS + Straight /\ bO = aO + Oblique
    BY <1>6
  <1>12. b + 1 = a => aS = bS + Straight /\ aO = bO + Oblique
    BY <1>7
  <1> HIDE DEF aS, aO, bS, bO
  <1>13. OctileDistance(a, b) \in Nat
    <2>1. a <= b => bS - aS \in Nat
      BY <1>4
    <2>2. b <= a => aS - bS \in Nat
      BY <1>4
    <2>3. CASE a < b
      <3>1. OctileDistance(a, b) = aO + (bS - aS)
        BY <1>5, <2>3
      <3> QED BY <1>3, <2>1, <2>3, <3>1
    <2>4. CASE ~(a < b)
      <3>1. OctileDistance(a, b) = bO + (aS - bS)
        BY <1>5, <2>4
      <3> QED BY <1>3, <2>2, <2>4, <3>1
    <2> QED BY <2>3, <2>4
  <1>14. ASSUME a >= b PROVE OctileDistance(a + 1, b) = OctileDistance(a, b) + Straight
    <2>1. OctileDistance(a, b) = bO + (aS - bS) /\ OctileDistance(a + 1, b) = bO + ((aS + Straight) - bS)
      BY <1>5, <1>8, <1>14
    <2> QED BY <1>1, <1>3, <2>1
  <1>15. ASSUME a < b PROVE OctileDistance(a + 1, b) = OctileDistance(a, b) + Oblique - Straight
    <2>1. OctileDistance(a, b) = aO + (bS - aS)
      BY <1>5, <1>15
    <2>2. CASE a + 1 < b
      <3>1. OctileDistance(a + 1, b) = (aO + Oblique) + (bS - (aS + Straight))
        BY <1>8, <2>2
      <3> QED BY <1>1, <1>3, <2>1, <3>1
    <2>3. CASE a + 1 = b
      <3>1. OctileDistance(a + 1, b) = bO + ((aS + Straight) - bS)
        BY <1>8, <2>3
      <3>2. bS = aS + Straight /\ bO = aO + Oblique
        BY <1>11, <2>3
      <3> QED BY <1>1, <1>3, <2>1, <3>1, <3>2
    <2> QED BY <1>15, <2>2, <2>3
  <1>16. ASSUME b >= a PROVE OctileDistance(a, b + 1) = OctileDistance(a, b) + Straight
    <2>1. OctileDistance(a, b + 1) = aO + ((bS + Straight) - aS)
      BY <1>9, <1>16
    <2>2. CASE a < b
      <3>1. OctileDistance(a, b) = aO + (bS - aS)
        BY <1>5, <2>2
      <3> QED BY <1>1, <1>3, <2>1, <3>1
    <2>3. CASE a = b
      <3>1. OctileDistance(a, b) = bO + (aS - bS)
        BY <1>5, <2>3
      <3>2. aS = bS /\ aO = bO
        BY <1>10, <2>3
      <3> QED BY <1>1, <1>3, <2>1, <3>1, <3>2
    <2> QED BY <1>16, <2>2, <2>3
  <1>17. ASSUME b < a PROVE OctileDistance(a, b + 1) = OctileDistance(a, b) + Oblique - Straight
    <2>1. OctileDistance(a, b) = bO + (aS - bS)
      BY <1>5, <1>17
    <2>2. CASE b + 1 <= a
      <3>1. CASE a < b + 1
        BY <2>2, <3>1
      <3>2. CASE ~(a < b + 1)
        <4>1. OctileDistance(a, b + 1) = (bO + Oblique) + (aS - (bS + Straight))
          BY <1>9, <3>2
        <4> QED BY <1>1, <1>3, <2>1, <4>1
      <3> QED BY <3>1, <3>2
    <2> QED BY <1>17, <2>2
  <1> QED BY <1>13, <1>14, <1>15, <1>16, <1>17

(* The same without regard to which of the two is less. *)
LEMMA OctileRises ==
  ASSUME NEW a \in Nat, NEW b \in Nat
  PROVE  /\ OctileDistance(a, b) \in Nat /\ OctileDistance(a + 1, b) \in Nat
         /\ OctileDistance(b, a) \in Nat /\ OctileDistance(b, a + 1) \in Nat
         /\ \/ OctileDistance(a + 1, b) = OctileDistance(a, b) + Straight
            \/ OctileDistance(a + 1, b) = OctileDistance(a, b) + Oblique - Straight
         /\ \/ OctileDistance(b, a + 1) = OctileDistance(b, a) + Straight
            \/ OctileDistance(b, a + 1) = OctileDistance(b, a) + Oblique - Straight
  <1>1. a + 1 \in Nat
    OBVIOUS
  <1>2. /\ OctileDistance(a, b) \in Nat /\ OctileDistance(a + 1, b) \in Nat
        /\ OctileDistance(b, a) \in Nat /\ OctileDistance(b, a + 1) \in Nat
    BY <1>1, OctileStep
  <1>3. \/ OctileDistance(a + 1, b) = OctileDistance(a, b) + Straight
        \/ OctileDistance(a + 1, b) = OctileDistance(a, b) + Oblique - Straight
    <2>1. CASE a >= b
      BY <2>1, OctileStep
    <2>2. CASE a < b
      BY <2>2, OctileStep
    <2> QED BY <2>1, <2>2
  <1>4. \/ OctileDistance(b, a + 1) = OctileDistance(b, a) + Straight
        \/ OctileDistance(b, a + 1) = OctileDistance(b, a) + Oblique - Straight
    <2>1. CASE a >= b
      BY <2>1, OctileStep
    <2>2. CASE a < b
      BY <2>2, OctileStep
    <2> QED BY <2>1, <2>2
  <1> QED BY <1>2, <1>3, <1>4

(* ... and what that makes of a step. *)
LEMMA OctileIsNear ==
  ASSUME NEW a \in Nat, NEW b \in Nat, NEW p \in Nat, NEW q \in Nat,
         p \in {a, a + 1, a - 1}, q \in {b, b + 1, b - 1}
  PROVE  /\ p = a \/ q = b => OctileDistance(a, b) <= Straight + OctileDistance(p, q)
         /\ OctileDistance(a, b) <= Oblique + OctileDistance(p, q)
  <1>1. Straight \in Nat /\ Oblique \in Nat /\ Straight <= Oblique /\ Oblique <= 2 * Straight
    BY TransitionAssumption
  <1>2. /\ OctileDistance(a, b) \in Nat /\ OctileDistance(a, q) \in Nat
        /\ OctileDistance(p, b) \in Nat /\ OctileDistance(p, q) \in Nat
    BY OctileStep
  <1>3. ASSUME NEW x \in Nat, NEW y \in Nat, NEW z \in Nat, z \in {x, x + 1, x - 1}
        PROVE  /\ OctileDistance(x, y) <= Straight + OctileDistance(z, y)
               /\ OctileDistance(y, x) <= Straight + OctileDistance(y, z)
    <2>0. OctileDistance(x, y) \in Nat /\ OctileDistance(y, x) \in Nat
      BY OctileStep
    <2>1. CASE z = x
      BY <1>1, <2>0, <2>1
    <2>2. CASE z = x + 1
      <3>1. /\ OctileDistance(x + 1, y) \in Nat /\ OctileDistance(y, x + 1) \in Nat
            /\ OctileDistance(x, y) \in Nat /\ OctileDistance(y, x) \in Nat
            /\ \/ OctileDistance(x + 1, y) = OctileDistance(x, y) + Straight
               \/ OctileDistance(x + 1, y) = OctileDistance(x, y) + Oblique - Straight
            /\ \/ OctileDistance(y, x + 1) = OctileDistance(y, x) + Straight
               \/ OctileDistance(y, x + 1) = OctileDistance(y, x) + Oblique - Straight
        BY OctileRises
      <3>2. /\ OctileDistance(x, y) <= Straight + OctileDistance(x + 1, y)
            /\ OctileDistance(y, x) <= Straight + OctileDistance(y, x + 1)
        BY <1>1, <3>1
      <3> QED BY <2>2, <3>2
    <2>3. CASE z = x - 1
      <3>1. x = z + 1
        BY <2>3
      <3>2. /\ OctileDistance(z + 1, y) \in Nat /\ OctileDistance(y, z + 1) \in Nat
            /\ OctileDistance(z, y) \in Nat /\ OctileDistance(y, z) \in Nat
            /\ \/ OctileDistance(z + 1, y) = OctileDistance(z, y) + Straight
               \/ OctileDistance(z + 1, y) = OctileDistance(z, y) + Oblique - Straight
            /\ \/ OctileDistance(y, z + 1) = OctileDistance(y, z) + Straight
               \/ OctileDistance(y, z + 1) = OctileDistance(y, z) + Oblique - Straight
        BY OctileRises
      <3>3. /\ OctileDistance(z + 1, y) <= Straight + OctileDistance(z, y)
            /\ OctileDistance(y, z + 1) <= Straight + OctileDistance(y, z)
        BY <1>1, <3>2
      <3> QED BY <3>1, <3>3
    <2> QED BY <1>3, <2>1, <2>2, <2>3
  <1>4. p = a \/ q = b => OctileDistance(a, b) <= Straight + OctileDistance(p, q)
    BY <1>3
  <1>5. OctileDistance(a, b) <= Oblique + OctileDistance(p, q)
    <2>1. CASE p = a \/ q = b
      BY <1>1, <1>2, <1>4, <2>1
    <2>2. CASE p = a + 1 /\ q = b + 1
      <3>1. \/ OctileDistance(p, q) = OctileDistance(p, b) + Straight
            \/ OctileDistance(p, q) = OctileDistance(p, b) + Oblique - Straight
        BY <2>2, OctileRises
      <3>2. \/ OctileDistance(p, b) = OctileDistance(a, b) + Straight
            \/ OctileDistance(p, b) = OctileDistance(a, b) + Oblique - Straight
        BY <2>2, OctileRises
      <3> QED BY <1>1, <1>2, <3>1, <3>2
    <2>3. CASE p = a + 1 /\ q = b - 1
      <3>0. b = q + 1
        BY <2>3
      <3>1. \/ OctileDistance(a, b) = OctileDistance(a, q) + Straight
            \/ OctileDistance(a, b) = OctileDistance(a, q) + Oblique - Straight
        BY <3>0, OctileRises
      <3>2. \/ OctileDistance(p, q) = OctileDistance(a, q) + Straight
            \/ OctileDistance(p, q) = OctileDistance(a, q) + Oblique - Straight
        BY <2>3, OctileRises
      <3> QED BY <1>1, <1>2, <3>1, <3>2
    <2>4. CASE p = a - 1 /\ q = b + 1
      <3>0. a = p + 1
        BY <2>4
      <3>1. \/ OctileDistance(a, b) = OctileDistance(p, b) + Straight
            \/ OctileDistance(a, b) = OctileDistance(p, b) + Oblique - Straight
        BY <3>0, OctileRises
      <3>2. \/ OctileDistance(p, q) = OctileDistance(p, b) + Straight
            \/ OctileDistance(p, q) = OctileDistance(p, b) + Oblique - Straight
        BY <2>4, OctileRises
      <3> QED BY <1>1, <1>2, <3>1, <3>2
    <2>5. CASE p = a - 1 /\ q = b - 1
      <3>1. a = p + 1 /\ b = q + 1
        BY <2>5
      <3>2. CASE p >= q
        <4>1. OctileDistance(p + 1, q) = OctileDistance(p, q) + Straight
          BY <3>2, OctileStep
        <4>2. OctileDistance(p + 1, q + 1) = OctileDistance(p + 1, q) + Oblique - Straight
          BY <3>1, <3>2, OctileStep
        <4>3. OctileDistance(a, b) = OctileDistance(p, q) + Straight + Oblique - Straight
          BY <3>1, <4>1, <4>2
        <4> QED BY <1>1, <1>2, <4>3
      <3>3. CASE p < q
        <4>1. OctileDistance(p + 1, q) = OctileDistance(p, q) + Oblique - Straight
          BY <3>3, OctileStep
        <4>2. OctileDistance(p + 1, q + 1) = OctileDistance(p + 1, q) + Straight
          BY <3>1, <3>3, OctileStep
        <4>3. OctileDistance(a, b) = OctileDistance(p, q) + Oblique - Straight + Straight
          BY <3>1, <4>1, <4>2
        <4> QED BY <1>1, <1>2, <4>3
      <3> QED BY <3>2, <3>3
    <2> QED BY <2>1, <2>2, <2>3, <2>4, <2>5
  <1> QED BY <1>4, <1>5

(* The two axes of diagonal steps. *)
LEMMA TwoAxes == DiagonalAxes \in {<<1, 2>>, <<1, 3>>, <<2, 3>>}
  BY DEF DiagonalAxes

(* An offset changes the distance along an axis by at most one. *)
LEMMA CoordinateMoves ==
  ASSUME NEW s \in Tiles, NEW g \in Tiles, NEW x \in {0, 1, -1}, NEW y \in {0, 1, -1}, NEW z \in {0, 1, -1},
         NEW t, t = <<s[1] + x, s[2] + y, s[3] + z>>
  PROVE  \A a \in 1 .. 3 :
           /\ AbsDiff(s[a], g[a]) \in Nat /\ AbsDiff(t[a], g[a]) \in Nat
           /\ AbsDiff(t[a], g[a]) \in {AbsDiff(s[a], g[a]), AbsDiff(s[a], g[a]) + 1, AbsDiff(s[a], g[a]) - 1}
           /\ <<x, y, z>>[a] = 0 => AbsDiff(t[a], g[a]) = AbsDiff(s[a], g[a])
  <1>1. /\ s[1] \in Int /\ s[2] \in Int /\ s[3] \in Int
        /\ g[1] \in Int /\ g[2] \in Int /\ g[3] \in Int
    BY CoordinatesOfTile
  <1>2. ASSUME NEW p \in Int, NEW q \in Int, NEW d \in {0, 1, -1}
        PROVE  /\ AbsDiff(p, q) \in Nat /\ AbsDiff(p + d, q) \in Nat
               /\ AbsDiff(p + d, q) \in {AbsDiff(p, q), AbsDiff(p, q) + 1, AbsDiff(p, q) - 1}
               /\ d = 0 => AbsDiff(p + d, q) = AbsDiff(p, q)
    BY <1>2 DEF AbsDiff
  <1>3. t[1] = s[1] + x /\ t[2] = s[2] + y /\ t[3] = s[3] + z
    OBVIOUS
  <1>4. <<x, y, z>>[1] = x /\ <<x, y, z>>[2] = y /\ <<x, y, z>>[3] = z
    OBVIOUS
  <1> SUFFICES ASSUME NEW a \in 1 .. 3
               PROVE  /\ AbsDiff(s[a], g[a]) \in Nat /\ AbsDiff(t[a], g[a]) \in Nat
                      /\ AbsDiff(t[a], g[a]) \in {AbsDiff(s[a], g[a]), AbsDiff(s[a], g[a]) + 1, AbsDiff(s[a], g[a]) - 1}
                      /\ <<x, y, z>>[a] = 0 => AbsDiff(t[a], g[a]) = AbsDiff(s[a], g[a])
    OBVIOUS
  <1>5. CASE a = 1
    BY <1>1, <1>2, <1>3, <1>4, <1>5
  <1>6. CASE a = 2
    BY <1>1, <1>2, <1>3, <1>4, <1>6
  <1>7. CASE a = 3
    BY <1>1, <1>2, <1>3, <1>4, <1>7
  <1> QED BY <1>5, <1>6, <1>7

(* A heuristic is a cost. *)
LEMMA HeuristicTyped ==
  ASSUME NEW m, NEW s \in Tiles, NEW g \in Tiles
  PROVE  Heuristic(m, s, g) \in 0 .. Infinite
  <1>1. /\ s[1] \in Int /\ s[2] \in Int /\ s[3] \in Int
        /\ g[1] \in Int /\ g[2] \in Int /\ g[3] \in Int
    BY CoordinatesOfTile
  <1>2. \A a, b \in Int : AbsDiff(a, b) \in Nat
    BY DEF AbsDiff
  <1>3. Manhattan(s, g) \in Nat
    <2>1. <<1, 0, 0>> \in FaceSteps
      BY DEF FaceSteps
    <2> QED BY <2>1, FaceChangesManhattan
  <1>4. HexDistance(s, g) \in Nat
    <2>1. <<1, 0, 0>> \in HexSteps
      BY DEF HexSteps
    <2> QED BY <2>1, HexStepIsNear
  <1>5. \A a, b \in Nat : OctileDistance(a, b) \in Nat
    BY OctileStep
  <1>6. OctileDistance(AbsDiff(s[DiagonalAxes[1]], g[DiagonalAxes[1]]),
                       AbsDiff(s[DiagonalAxes[2]], g[DiagonalAxes[2]])) \in Nat
    <2>1. DiagonalAxes[1] \in 1 .. 3 /\ DiagonalAxes[2] \in 1 .. 3
      BY TwoAxes
    <2>2. \A a \in 1 .. 3 : AbsDiff(s[a], g[a]) \in Nat
      <3>1. \A p, q \in Int : AbsDiff(p, q) \in Nat
        BY DEF AbsDiff
      <3>2. \A a \in 1 .. 3 : s[a] \in Int /\ g[a] \in Int
        <4>1. \A a \in 1 .. 3 : a = 1 \/ a = 2 \/ a = 3
          OBVIOUS
        <4> QED BY <4>1, CoordinatesOfTile
      <3> QED BY <3>1, <3>2
    <2> QED BY <1>5, <2>1, <2>2
  <1>7. \A n \in Nat : Saturated(n) \in 0 .. Infinite
    BY SaturatedIsMonotone
  <1>8. Infinite \in Nat
    BY TransitionAssumption
  <1> QED BY <1>3, <1>4, <1>6, <1>7, <1>8 DEF Heuristic

(* The candidates of a step, lattice by lattice. *)
IsFace(from, c, k) == c.multiplier = k /\ \E d \in FaceSteps : c.to = Offset(from, d)
IsHexFace(from, c) == c.multiplier = 1 /\ \E d \in HexSteps : c.to = Offset(from, d)
IsDiagonal(from, c) ==
  /\ c.multiplier = Oblique
  /\ \E x \in {1, -1}, y \in {1, -1} :
       c.to = Offset(from, Plus(Along(DiagonalAxes[1], x), Along(DiagonalAxes[2], y)))

(* What emit_regular_candidates offers: faces, hexagon faces or diagonals. *)
LEMMA CandidateForms ==
  ASSUME NEW m, NEW from
  PROVE  \E N \in Nat :
           /\ DOMAIN Candidates(m, from) = 1 .. N
           /\ \A i \in 1 .. N :
                LET c == Candidates(m, from)[i]
                IN  IF m.lattice = "hex" THEN IsHexFace(from, c)
                    ELSE IF m.steps = "default" THEN IsFace(from, c, 1)
                    ELSE IsFace(from, c, Straight) \/ IsDiagonal(from, c)
  <1>1. DOMAIN Faces = 1 .. 6 /\ \A i \in 1 .. 6 : Faces[i] \in FaceSteps
    BY DEF Faces, FaceSteps
  <1>2. DOMAIN HexFaces = 1 .. 6 /\ \A i \in 1 .. 6 : HexFaces[i] \in HexSteps
    BY DEF HexFaces, HexSteps
  <1>3. ASSUME NEW k
        PROVE  /\ DOMAIN FaceCandidates(from, Faces, k) = 1 .. 6
               /\ \A i \in 1 .. 6 : IsFace(from, FaceCandidates(from, Faces, k)[i], k)
    <2>1. DOMAIN FaceCandidates(from, Faces, k) = 1 .. 6
      BY <1>1 DEF FaceCandidates
    <2>2. ASSUME NEW i \in 1 .. 6
          PROVE  IsFace(from, FaceCandidates(from, Faces, k)[i], k)
      <3>1. FaceCandidates(from, Faces, k)[i] = [to |-> Offset(from, Faces[i]), corners |-> {}, multiplier |-> k]
        BY <1>1 DEF FaceCandidates
      <3>2. FaceCandidates(from, Faces, k)[i].to = Offset(from, Faces[i]) /\ FaceCandidates(from, Faces, k)[i].multiplier = k
        BY <3>1
      <3> QED BY <1>1, <3>2 DEF IsFace
    <2> QED BY <2>1, <2>2
  <1>4. CASE m.lattice = "hex"
    <2>1. Candidates(m, from) = FaceCandidates(from, HexFaces, 1)
      BY <1>4 DEF Candidates
    <2>2. DOMAIN Candidates(m, from) = 1 .. 6
      BY <1>2, <2>1 DEF FaceCandidates
    <2>3. ASSUME NEW i \in 1 .. 6
          PROVE  IsHexFace(from, Candidates(m, from)[i])
      <3>1. Candidates(m, from)[i] = [to |-> Offset(from, HexFaces[i]), corners |-> {}, multiplier |-> 1]
        BY <1>2, <2>1 DEF FaceCandidates
      <3>2. Candidates(m, from)[i].to = Offset(from, HexFaces[i]) /\ Candidates(m, from)[i].multiplier = 1
        BY <3>1
      <3> QED BY <1>2, <3>2 DEF IsHexFace
    <2>4. 6 \in Nat
      OBVIOUS
    <2> QED BY <1>4, <2>2, <2>3, <2>4
  <1>5. CASE m.lattice # "hex" /\ m.steps = "default"
    <2>1. Candidates(m, from) = FaceCandidates(from, Faces, 1)
      BY <1>5 DEF Candidates
    <2>2. 6 \in Nat
      OBVIOUS
    <2> QED BY <1>3, <1>5, <2>1, <2>2
  <1>6. CASE m.lattice # "hex" /\ m.steps # "default"
    <2> DEFINE F == FaceCandidates(from, Faces, Straight)
               D == DiagonalCandidates(from)
               S == {F[i] : i \in 1 .. 6} \cup {D[i] : i \in 1 .. 4}
    <2>1. Candidates(m, from) = F \o D
      BY <1>6 DEF Candidates
    <2>2. /\ D = [i \in 1 .. 4 |-> Diagonal(from, Along(DiagonalAxes[1], DiagonalSigns[i][1]),
                                            Along(DiagonalAxes[2], DiagonalSigns[i][2]))]
      BY DEF DiagonalCandidates, DiagonalsOver
    <2>3. \A i \in 1 .. 4 : DiagonalSigns[i][1] \in {1, -1} /\ DiagonalSigns[i][2] \in {1, -1}
      BY DEF DiagonalSigns
    <2>4. ASSUME NEW i \in 1 .. 4 PROVE IsDiagonal(from, D[i])
      <3>1. D[i] = Diagonal(from, Along(DiagonalAxes[1], DiagonalSigns[i][1]),
                            Along(DiagonalAxes[2], DiagonalSigns[i][2]))
        BY <2>2
      <3>2. /\ D[i].to = Offset(from, Plus(Along(DiagonalAxes[1], DiagonalSigns[i][1]),
                                           Along(DiagonalAxes[2], DiagonalSigns[i][2])))
            /\ D[i].multiplier = Oblique
        BY <3>1 DEF Diagonal
      <3> QED BY <2>3, <3>2 DEF IsDiagonal
    <2>5. F \in Seq(S) /\ Len(F) = 6
      <3>1. DOMAIN F = 1 .. 6
        BY <1>3
      <3>2. F = [i \in 1 .. 6 |-> F[i]]
        BY <1>1 DEF FaceCandidates
      <3>3. \A i \in 1 .. 6 : F[i] \in S
        OBVIOUS
      <3>4. F \in [1 .. 6 -> S] /\ 6 \in Nat
        <4> HIDE DEF F, S, D
        <4> QED BY <3>2, <3>3
      <3> HIDE DEF F, S, D
      <3> QED BY <3>1, <3>4
    <2>6. D \in Seq(S) /\ Len(D) = 4
      <3>1. DOMAIN D = 1 .. 4 /\ D = [i \in 1 .. 4 |-> D[i]]
        BY <2>2
      <3>2. \A i \in 1 .. 4 : D[i] \in S
        OBVIOUS
      <3>3. D \in [1 .. 4 -> S] /\ 4 \in Nat
        <4> HIDE DEF F, S, D
        <4> QED BY <3>1, <3>2
      <3> HIDE DEF F, S, D
      <3> QED BY <3>1, <3>3
    <2>7. /\ F \o D \in Seq(S) /\ Len(F \o D) = 10 /\ DOMAIN (F \o D) = 1 .. 10
          /\ \A i \in 1 .. 10 : (F \o D)[i] \in S
      <3> HIDE DEF F, D, S
      <3>1. F \o D \in Seq(S) /\ Len(F \o D) = Len(F) + Len(D)
        BY <2>5, <2>6, ConcatProperties
      <3>2. Len(F \o D) = 10
        BY <2>5, <2>6, <3>1
      <3>3. DOMAIN (F \o D) = 1 .. 10
        BY <3>1, <3>2, LenProperties
      <3> QED BY <3>1, <3>2, <3>3, ElementOfSeq
    <2>8. \A c \in S : IsFace(from, c, Straight) \/ IsDiagonal(from, c)
      BY <1>3, <2>4
    <2>9. 10 \in Nat
      OBVIOUS
    <2> HIDE DEF F, D, S
    <2> QED BY <1>6, <2>1, <2>7, <2>8, <2>9
  <1> QED BY <1>4, <1>5, <1>6

(* A candidate is no nearer to any goal than its price, and a face of the  *)
(* cheapest kind changes the distance by exactly one.                      *)
OverFaces(m) == m.lattice = "orthogonal" /\ m.steps = "default" /\ ~HasSpecial(m)
NearStep(m, from, to, price) ==
  /\ \A g \in Tiles : Heuristic(m, from, g) <= price + Heuristic(m, to, g)
  /\ OverFaces(m) => \A g \in Tiles : \/ Manhattan(to, g) = Manhattan(from, g) + 1
                                      \/ Manhattan(to, g) = Manhattan(from, g) - 1

(* A step over a face brings no goal nearer than its price. *)
LEMMA FaceIsNear ==
  ASSUME NEW m, NEW from \in Tiles, NEW d \in FaceSteps, NEW g \in Tiles, Offset(from, d) \in Tiles
  PROVE  /\ Saturated(Manhattan(from, g)) <= 1 + Saturated(Manhattan(Offset(from, d), g))
         /\ Saturated(OctileDistance(AbsDiff(from[DiagonalAxes[1]], g[DiagonalAxes[1]]),
                                     AbsDiff(from[DiagonalAxes[2]], g[DiagonalAxes[2]])))
              <= Straight + Saturated(OctileDistance(AbsDiff(Offset(from, d)[DiagonalAxes[1]], g[DiagonalAxes[1]]),
                                                     AbsDiff(Offset(from, d)[DiagonalAxes[2]], g[DiagonalAxes[2]])))
  <1>1. Saturated(Manhattan(from, g)) <= 1 + Saturated(Manhattan(Offset(from, d), g))
    <2>1. /\ Manhattan(from, g) \in Nat /\ Manhattan(Offset(from, d), g) \in Nat
          /\ Manhattan(from, g) <= 1 + Manhattan(Offset(from, d), g)
      BY FaceChangesManhattan
    <2> QED BY <2>1, SaturatedIsConsistent
  <1>2. PICK x \in {0, 1, -1}, y \in {0, 1, -1}, z \in {0, 1, -1} :
          /\ d = <<x, y, z>>
          /\ \/ x = 0 /\ y = 0
             \/ x = 0 /\ z = 0
             \/ y = 0 /\ z = 0
    BY DEF FaceSteps
  <1> DEFINE t == Offset(from, d)
             A == DiagonalAxes[1]
             B == DiagonalAxes[2]
  <1>3. t = <<from[1] + x, from[2] + y, from[3] + z>>
    BY <1>2, OffsetOfTile
  <1>4. \A a \in 1 .. 3 :
           /\ AbsDiff(from[a], g[a]) \in Nat /\ AbsDiff(t[a], g[a]) \in Nat
           /\ AbsDiff(t[a], g[a]) \in {AbsDiff(from[a], g[a]), AbsDiff(from[a], g[a]) + 1, AbsDiff(from[a], g[a]) - 1}
           /\ <<x, y, z>>[a] = 0 => AbsDiff(t[a], g[a]) = AbsDiff(from[a], g[a])
    <2> HIDE DEF t
    <2> QED BY <1>3, CoordinateMoves
  <1>5. A \in 1 .. 3 /\ B \in 1 .. 3 /\ A # B
    BY TwoAxes
  <1>6. <<x, y, z>>[A] = 0 \/ <<x, y, z>>[B] = 0
    <2>1. <<x, y, z>>[1] = x /\ <<x, y, z>>[2] = y /\ <<x, y, z>>[3] = z
      OBVIOUS
    <2>2. \/ A = 1 /\ B = 2
          \/ A = 1 /\ B = 3
          \/ A = 2 /\ B = 3
      BY TwoAxes
    <2> HIDE DEF A, B
    <2> QED BY <1>2, <2>1, <2>2
  <1> DEFINE a == AbsDiff(from[A], g[A])
             b == AbsDiff(from[B], g[B])
             p == AbsDiff(t[A], g[A])
             q == AbsDiff(t[B], g[B])
  <1>7. /\ a \in Nat /\ b \in Nat /\ p \in Nat /\ q \in Nat
        /\ p \in {a, a + 1, a - 1} /\ q \in {b, b + 1, b - 1}
        /\ p = a \/ q = b
    <2> HIDE DEF A, B, t
    <2> QED BY <1>4, <1>5, <1>6
  <1>8. OctileDistance(a, b) \in Nat /\ OctileDistance(p, q) \in Nat /\ OctileDistance(a, b) <= Straight + OctileDistance(p, q)
    <2> HIDE DEF a, b, p, q
    <2> QED BY <1>7, OctileStep, OctileIsNear
  <1>9. Saturated(OctileDistance(a, b)) <= Straight + Saturated(OctileDistance(p, q))
    <2>1. Straight \in Nat
      BY TransitionAssumption
    <2> HIDE DEF a, b, p, q
    <2> QED BY <1>8, <2>1, SaturatedIsConsistent
  <1> QED BY <1>1, <1>9

(* Nor does a diagonal step. *)
LEMMA DiagonalIsNear ==
  ASSUME NEW from \in Tiles, NEW g \in Tiles, NEW x \in {1, -1}, NEW y \in {1, -1}
  PROVE  LET t == Offset(from, Plus(Along(DiagonalAxes[1], x), Along(DiagonalAxes[2], y)))
         IN  /\ InShape(t) => t \in Tiles
             /\ Saturated(OctileDistance(AbsDiff(from[DiagonalAxes[1]], g[DiagonalAxes[1]]),
                                         AbsDiff(from[DiagonalAxes[2]], g[DiagonalAxes[2]])))
                  <= Oblique + Saturated(OctileDistance(AbsDiff(t[DiagonalAxes[1]], g[DiagonalAxes[1]]),
                                                        AbsDiff(t[DiagonalAxes[2]], g[DiagonalAxes[2]])))
  <1> DEFINE A == DiagonalAxes[1]
             B == DiagonalAxes[2]
             d == Plus(Along(A, x), Along(B, y))
             t == Offset(from, d)
  <1>1. \/ A = 1 /\ B = 2
        \/ A = 1 /\ B = 3
        \/ A = 2 /\ B = 3
    BY TwoAxes
  <1>2. \E u \in {0, 1, -1}, v \in {0, 1, -1}, w \in {0, 1, -1} : d = <<u, v, w>>
    <2>1. d = <<(IF A = 1 THEN x ELSE 0) + (IF B = 1 THEN y ELSE 0),
                (IF A = 2 THEN x ELSE 0) + (IF B = 2 THEN y ELSE 0),
                (IF A = 3 THEN x ELSE 0) + (IF B = 3 THEN y ELSE 0)>>
      BY DEF Plus, Offset, Along
    <2> HIDE DEF A, B, d
    <2>2. x + 0 = x /\ 0 + y = y /\ 0 + 0 = 0
      OBVIOUS
    <2>3. CASE A = 1 /\ B = 2
      <3>1. d = <<x, y, 0>>
        BY <2>1, <2>2, <2>3
      <3> QED BY <3>1
    <2>4. CASE A = 1 /\ B = 3
      <3>1. d = <<x, 0, y>>
        BY <2>1, <2>2, <2>4
      <3> QED BY <3>1
    <2>5. CASE A = 2 /\ B = 3
      <3>1. d = <<0, x, y>>
        BY <2>1, <2>2, <2>5
      <3> QED BY <3>1
    <2> QED BY <1>1, <2>3, <2>4, <2>5
  <1>3. PICK u \in {0, 1, -1}, v \in {0, 1, -1}, w \in {0, 1, -1} : d = <<u, v, w>>
    BY <1>2
  <1> HIDE DEF d
  <1>4. t = <<from[1] + u, from[2] + v, from[3] + w>> /\ (InShape(t) => t \in Tiles)
    BY <1>3, OffsetOfTile
  <1>5. \A a \in 1 .. 3 :
           /\ AbsDiff(from[a], g[a]) \in Nat /\ AbsDiff(t[a], g[a]) \in Nat
           /\ AbsDiff(t[a], g[a]) \in {AbsDiff(from[a], g[a]), AbsDiff(from[a], g[a]) + 1, AbsDiff(from[a], g[a]) - 1}
    <2> HIDE DEF t
    <2> QED BY <1>4, CoordinateMoves
  <1> DEFINE a == AbsDiff(from[A], g[A])
             b == AbsDiff(from[B], g[B])
             p == AbsDiff(t[A], g[A])
             q == AbsDiff(t[B], g[B])
  <1>6. /\ a \in Nat /\ b \in Nat /\ p \in Nat /\ q \in Nat
        /\ p \in {a, a + 1, a - 1} /\ q \in {b, b + 1, b - 1}
    <2>1. A \in 1 .. 3 /\ B \in 1 .. 3
      BY TwoAxes
    <2> HIDE DEF A, B, t
    <2> QED BY <1>5, <2>1
  <1>7. OctileDistance(a, b) \in Nat /\ OctileDistance(p, q) \in Nat /\ OctileDistance(a, b) <= Oblique + OctileDistance(p, q)
    <2> HIDE DEF a, b, p, q
    <2> QED BY <1>6, OctileStep, OctileIsNear
  <1>8. Saturated(OctileDistance(a, b)) <= Oblique + Saturated(OctileDistance(p, q))
    <2>1. Oblique \in Nat
      BY TransitionAssumption
    <2> HIDE DEF a, b, p, q
    <2> QED BY <1>7, <2>1, SaturatedIsConsistent
  <1> QED BY <1>4, <1>8 DEF d

(* So no candidate of any lattice is nearer to a goal than its price. *)
LEMMA CandidateIsNear ==
  ASSUME NEW m, m.lattice \in {"orthogonal", "hex"}, NEW from \in Tiles, NEW i \in DOMAIN Candidates(m, from),
         InShape(Candidates(m, from)[i].to)
  PROVE  /\ Candidates(m, from)[i].to \in Tiles
         /\ Candidates(m, from)[i].multiplier \in Nat \ {0}
         /\ OverFaces(m) => Candidates(m, from)[i].multiplier = 1
         /\ NearStep(m, from, Candidates(m, from)[i].to, Candidates(m, from)[i].multiplier)
  <1> DEFINE c == Candidates(m, from)[i]
  <1>1. IF m.lattice = "hex" THEN IsHexFace(from, c)
        ELSE IF m.steps = "default" THEN IsFace(from, c, 1)
        ELSE IsFace(from, c, Straight) \/ IsDiagonal(from, c)
    <2>1. PICK N \in Nat :
           /\ DOMAIN Candidates(m, from) = 1 .. N
           /\ \A j \in 1 .. N :
                LET k == Candidates(m, from)[j]
                IN  IF m.lattice = "hex" THEN IsHexFace(from, k)
                    ELSE IF m.steps = "default" THEN IsFace(from, k, 1)
                    ELSE IsFace(from, k, Straight) \/ IsDiagonal(from, k)
      BY CandidateForms
    <2>2. i \in 1 .. N
      BY <2>1
    <2> QED BY <2>1, <2>2
  <1> HIDE DEF c
  <1>2. InShape(c.to)
    BY DEF c
  <1>3. Straight \in Nat \ {0} /\ Oblique \in Nat \ {0}
    BY TransitionAssumption
  <1>4. ASSUME NEW d \in FaceSteps \cup HexSteps, c.to = Offset(from, d) PROVE c.to \in Tiles
    <2>1. PICK x \in {0, 1, -1}, y \in {0, 1, -1}, z \in {0, 1, -1} : d = <<x, y, z>>
      BY DEF FaceSteps, HexSteps
    <2> QED BY <1>2, <1>4, <2>1, OffsetOfTile
  <1>5. \A g \in Tiles : Heuristic(m, from, g) \in Nat
    BY HeuristicTyped, TransitionAssumption
  <1>6. CASE m.lattice = "hex"
    <2>1. PICK d \in HexSteps : c.to = Offset(from, d)
      BY <1>1, <1>6 DEF IsHexFace
    <2>2. c.multiplier = 1
      BY <1>1, <1>6 DEF IsHexFace
    <2>3. c.to \in Tiles
      BY <1>4, <2>1
    <2>4. ~OverFaces(m)
      BY <1>6 DEF OverFaces
    <2>5. ASSUME NEW g \in Tiles PROVE Heuristic(m, from, g) <= 1 + Heuristic(m, c.to, g)
      <3>1. CASE HasSpecial(m)
        BY <3>1 DEF Heuristic
      <3>2. CASE ~HasSpecial(m)
        <4>1. Heuristic(m, from, g) = Saturated(HexDistance(from, g)) /\ Heuristic(m, c.to, g) = Saturated(HexDistance(c.to, g))
          BY <1>6, <3>2 DEF Heuristic
        <4>2. HexDistance(from, g) \in Nat /\ HexDistance(c.to, g) \in Nat /\ HexDistance(from, g) <= 1 + HexDistance(c.to, g)
          BY <2>1, HexStepIsNear
        <4>3. Saturated(HexDistance(from, g)) <= 1 + Saturated(HexDistance(c.to, g))
          BY <4>2, SaturatedIsConsistent
        <4> QED BY <4>1, <4>3
      <3> QED BY <3>1, <3>2
    <2>6. NearStep(m, from, c.to, c.multiplier)
      BY <2>2, <2>4, <2>5 DEF NearStep
    <2> QED BY <2>2, <2>3, <2>4, <2>6 DEF c
  <1>7. CASE m.lattice # "hex" /\ m.steps = "default"
    <2>1. PICK d \in FaceSteps : c.to = Offset(from, d)
      BY <1>1, <1>7 DEF IsFace
    <2>2. c.multiplier = 1
      BY <1>1, <1>7 DEF IsFace
    <2>3. c.to \in Tiles
      BY <1>4, <2>1
    <2>4. ASSUME NEW g \in Tiles PROVE \/ Manhattan(c.to, g) = Manhattan(from, g) + 1
                                       \/ Manhattan(c.to, g) = Manhattan(from, g) - 1
      BY <2>1, FaceChangesManhattan
    <2>5. ASSUME NEW g \in Tiles PROVE Heuristic(m, from, g) <= 1 + Heuristic(m, c.to, g)
      <3>1. CASE HasSpecial(m)
        BY <3>1 DEF Heuristic
      <3>2. CASE ~HasSpecial(m)
        <4>1. Heuristic(m, from, g) = Saturated(Manhattan(from, g)) /\ Heuristic(m, c.to, g) = Saturated(Manhattan(c.to, g))
          BY <1>7, <3>2 DEF Heuristic
        <4>2. Saturated(Manhattan(from, g)) <= 1 + Saturated(Manhattan(c.to, g))
          BY <2>1, <2>3, FaceIsNear
        <4> QED BY <4>1, <4>2
      <3> QED BY <3>1, <3>2
    <2>6. NearStep(m, from, c.to, c.multiplier)
      BY <2>2, <2>4, <2>5 DEF NearStep
    <2> QED BY <2>2, <2>3, <2>6 DEF c
  <1>8. CASE m.lattice # "hex" /\ m.steps # "default"
    <2>1. ~OverFaces(m)
      BY <1>8 DEF OverFaces
    <2> DEFINE Octile(t, g) == Saturated(OctileDistance(AbsDiff(t[DiagonalAxes[1]], g[DiagonalAxes[1]]),
                                                        AbsDiff(t[DiagonalAxes[2]], g[DiagonalAxes[2]])))
    <2>2. ASSUME c.to \in Tiles, c.multiplier \in Nat \ {0},
                 \A g \in Tiles : Octile(from, g) <= c.multiplier + Octile(c.to, g)
          PROVE  NearStep(m, from, c.to, c.multiplier)
      <3>1. ASSUME NEW g \in Tiles PROVE Heuristic(m, from, g) <= c.multiplier + Heuristic(m, c.to, g)
        <4>1. CASE HasSpecial(m)
          <5>1. Heuristic(m, from, g) = 0 /\ Heuristic(m, c.to, g) = 0
            BY <4>1 DEF Heuristic
          <5> QED BY <2>2, <5>1
        <4>2. CASE ~HasSpecial(m)
          <5>1. Heuristic(m, from, g) = Octile(from, g) /\ Heuristic(m, c.to, g) = Octile(c.to, g)
            BY <1>8, <4>2 DEF Heuristic
          <5> HIDE DEF Octile
          <5> QED BY <2>2, <5>1
        <4> QED BY <4>1, <4>2
      <3> QED BY <2>1, <3>1 DEF NearStep
    <2>3. CASE IsFace(from, c, Straight)
      <3>1. PICK d \in FaceSteps : c.to = Offset(from, d)
        BY <2>3 DEF IsFace
      <3>2. c.multiplier = Straight
        BY <2>3 DEF IsFace
      <3>3. c.to \in Tiles
        BY <1>4, <3>1
      <3>4. \A g \in Tiles : Octile(from, g) <= c.multiplier + Octile(c.to, g)
        BY <3>1, <3>2, <3>3, FaceIsNear
      <3>5. NearStep(m, from, c.to, c.multiplier)
        BY <1>3, <2>2, <3>2, <3>3, <3>4
      <3> QED BY <1>3, <2>1, <3>2, <3>3, <3>5 DEF c
    <2>4. CASE IsDiagonal(from, c)
      <3>1. PICK x \in {1, -1}, y \in {1, -1} :
              c.to = Offset(from, Plus(Along(DiagonalAxes[1], x), Along(DiagonalAxes[2], y)))
        BY <2>4 DEF IsDiagonal
      <3>2. c.multiplier = Oblique
        BY <2>4 DEF IsDiagonal
      <3>3. c.to \in Tiles /\ \A g \in Tiles : Octile(from, g) <= c.multiplier + Octile(c.to, g)
        BY <1>2, <3>1, <3>2, DiagonalIsNear
      <3>5. NearStep(m, from, c.to, c.multiplier)
        BY <1>3, <2>2, <3>2, <3>3
      <3> QED BY <1>3, <2>1, <3>2, <3>3, <3>5 DEF c
    <2> QED BY <1>1, <1>8, <2>3, <2>4
  <1> QED BY <1>6, <1>7, <1>8

(* What a probe is: a legal one is no step nearer to any goal than its     *)
(* price.                                                                  *)
ProbeSet == [to : Tiles, kind : {"legal", "missing", "overflow"}, cost : 0 .. Infinite]
UnitCosts(m) == \A v \in DOMAIN m.cost : m.cost[v] = 1
GoodProbes(m, from) ==
  {p \in ProbeSet :
     p.kind = "legal" => /\ p.cost < Infinite /\ NearStep(m, from, p.to, p.cost)
                         /\ OverFaces(m) /\ UnitCosts(m) => p.cost = 1}

(* What Probe emits keeps the price, or counts as an overflow. *)
LEMMA ProbeIsGood ==
  ASSUME NEW m, NEW from \in Tiles, NEW to \in Tiles, NEW kind \in {"legal", "missing"}, NEW price \in Nat,
         kind = "legal" => /\ \A g \in Tiles : Heuristic(m, from, g) <= price + Heuristic(m, to, g)
                           /\ NearStep(m, from, to, price)
                           /\ OverFaces(m) /\ UnitCosts(m) => price = 1
  PROVE  Probe(to, kind, price) \in Seq(GoodProbes(m, from))
  <1> DEFINE p == [to |-> to, kind |-> IF kind = "legal" /\ price >= Infinite THEN "overflow" ELSE kind,
                   cost |-> Saturated(price)]
  <1>1. Probe(to, kind, price) = <<p>>
    BY DEF Probe
  <1>2. p \in ProbeSet
    BY SaturatedIsMonotone DEF ProbeSet
  <1>3. ASSUME p.kind = "legal" PROVE p.cost = price /\ price < Infinite /\ kind = "legal"
    <2>1. Infinite \in Nat
      BY TransitionAssumption
    <2>2. kind = "legal" /\ ~(price >= Infinite)
      BY <1>3
    <2>3. price < Infinite
      BY <2>1, <2>2
    <2> QED BY <2>2, <2>3, SaturatedIsMonotone
  <1>4. p.to = to
    OBVIOUS
  <1> HIDE DEF p
  <1>5. p \in GoodProbes(m, from)
    BY <1>2, <1>3, <1>4 DEF GoodProbes
  <1> QED BY <1>1, <1>5

(* The corner tiles give one of three answers. *)
LEMMA ClearanceTyped ==
  ASSUME NEW m, NEW field, NEW corners
  PROVE  Clearance(m, field, corners) \in {"legal", "missing", "blocked"}
  <1> DEFINE clear == {t \in corners : IsPassable(m, field, t)}
             unknown == {t \in corners : field[t] = Missing}
             blocked == corners \ (clear \cup unknown)
  <1>1. Clearance(m, field, corners) =
           IF corners = {} THEN "legal"
           ELSE IF m.steps = "both"
             THEN IF blocked # {} THEN "blocked" ELSE IF unknown # {} THEN "missing" ELSE "legal"
             ELSE IF clear # {} THEN "legal" ELSE IF unknown # {} THEN "missing" ELSE "blocked"
    BY Zenon DEF Clearance
  <1> HIDE DEF clear, unknown, blocked
  <1> QED BY <1>1

(* An entry cost times a multiplier is at least the multiplier. *)
LEMMA PriceIsAtLeast ==
  ASSUME NEW e \in Nat \ {0}, NEW k \in Nat
  PROVE  e * k \in Nat /\ e * k >= k /\ (e = 1 => e * k = k)
  OBVIOUS

(* Regular probes. *)
LEMMA RegularIsGood ==
  ASSUME NEW m, IsModel(m), NEW field, NEW from \in Tiles, NEW i \in DOMAIN Candidates(m, from)
  PROVE  RegularProbe(m, field, Candidates(m, from)[i], Candidates(m, from)[i].to) \in Seq(GoodProbes(m, from))
  <1> DEFINE c == Candidates(m, from)[i]
             e == EntryCost(m, field, c.to)
             clear == Clearance(m, field, c.corners)
             G == GoodProbes(m, from)
  <1>1. <<>> \in Seq(G)
    BY EmptySeq
  <1>2. CASE ~InShape(c.to)
    <2>1. RegularProbe(m, field, c, c.to) = <<>>
      BY <1>2 DEF RegularProbe
    <2> QED BY <1>1, <2>1
  <1>3. CASE InShape(c.to)
    <2>0. m.lattice \in {"orthogonal", "hex"} /\ m.passes \in SUBSET DOMAIN m.cost /\ m.cost \in [DOMAIN m.cost -> Nat]
      BY DEF IsModel
    <2>1. /\ c.to \in Tiles /\ c.multiplier \in Nat \ {0}
          /\ OverFaces(m) => c.multiplier = 1
          /\ NearStep(m, from, c.to, c.multiplier)
      BY <1>3, <2>0, CandidateIsNear
    <2>2. Probe(c.to, "missing", 0) \in Seq(G)
      BY <2>1, ProbeIsGood
    <2>3. CASE field[c.to] = Missing
      <3>1. RegularProbe(m, field, c, c.to) = Probe(c.to, "missing", 0)
        BY <1>3, <2>3 DEF RegularProbe
      <3> QED BY <2>2, <3>1
    <2>4. CASE field[c.to] # Missing /\ (~IsPassable(m, field, c.to) \/ clear = "blocked")
      <3>1. RegularProbe(m, field, c, c.to) = <<>>
        BY <1>3, <2>4 DEF RegularProbe
      <3> QED BY <1>1, <3>1
    <2>5. CASE field[c.to] # Missing /\ IsPassable(m, field, c.to) /\ clear # "blocked" /\ e = 0
      <3>1. RegularProbe(m, field, c, c.to) = <<>>
        BY <1>3, <2>5 DEF RegularProbe
      <3> QED BY <1>1, <3>1
    <2>6. CASE field[c.to] # Missing /\ IsPassable(m, field, c.to) /\ clear # "blocked" /\ e # 0
      <3>1. RegularProbe(m, field, c, c.to) = Probe(c.to, clear, e * c.multiplier)
        BY <1>3, <2>6 DEF RegularProbe
      <3>2. clear \in {"legal", "missing"}
        BY <2>6, ClearanceTyped
      <3>3. field[c.to] \in DOMAIN m.cost /\ e \in Nat \ {0}
        BY <2>0, <2>6 DEF IsPassable, EntryCost
      <3>4. UnitCosts(m) => e = 1
        BY <3>3 DEF UnitCosts, EntryCost
      <3> DEFINE k == c.multiplier
                 price == e * k
      <3> HIDE DEF c, e, clear, G
      <3>5. price \in Nat /\ price >= k /\ (e = 1 => price = k)
        BY <2>1, <3>3, PriceIsAtLeast
      <3>6. OverFaces(m) /\ UnitCosts(m) => price = 1
        BY <2>1, <3>4, <3>5
      <3>7. \A g \in Tiles : Heuristic(m, from, g) <= price + Heuristic(m, c.to, g)
        <4> HIDE DEF price
        <4>1. \A g \in Tiles : Heuristic(m, from, g) <= k + Heuristic(m, c.to, g)
          BY <2>1 DEF NearStep
        <4>2. \A g \in Tiles : Heuristic(m, from, g) \in Nat /\ Heuristic(m, c.to, g) \in Nat
          BY <2>1, HeuristicTyped, TransitionAssumption
        <4>3. k \in Nat
          BY <2>1
        <4> HIDE DEF k
        <4> QED BY <3>5, <4>1, <4>2, <4>3
      <3>8. NearStep(m, from, c.to, price)
        BY <2>1, <3>7 DEF NearStep
      <3>9. Probe(c.to, clear, price) \in Seq(G)
        <4> HIDE DEF price, k
        <4> QED BY <2>1, <3>2, <3>5, <3>6, <3>7, <3>8, ProbeIsGood DEF G
      <3> QED BY <3>1, <3>9 DEF c, clear, e, G
    <2> QED BY <2>3, <2>4, <2>5, <2>6
  <1> QED BY <1>2, <1>3

(* Special probes. *)
LEMMA SpecialIsGood ==
  ASSUME NEW m, IsModel(m), NEW field, NEW from \in Tiles, NEW i \in DOMAIN m.special
  PROVE  SpecialProbe(m, field, m.special[i], m.special[i].to, m.special[i].to) \in Seq(GoodProbes(m, from))
  <1> DEFINE x == m.special[i]
             G == GoodProbes(m, from)
  <1>1. <<>> \in Seq(G)
    BY EmptySeq
  <1>2. x \in [from : Tiles, to : Tiles, cost : Nat, missing : BOOLEAN] /\ m.special # <<>>
    <2>1. m.special \in Seq([from : Tiles, to : Tiles, cost : Nat, missing : BOOLEAN])
      BY DEF IsModel
    <2>2. DOMAIN m.special = 1 .. Len(m.special) /\ Len(m.special) \in Nat
      BY <2>1, LenProperties
    <2>3. m.special # <<>>
      <3>1. ASSUME m.special = <<>> PROVE FALSE
        BY <2>2, <3>1, EmptySeq
      <3> QED BY <3>1
    <2> QED BY <2>1, <2>2, <2>3, ElementOfSeq
  <1>3. ~OverFaces(m) /\ \A s, g \in Tiles : Heuristic(m, s, g) = 0
    BY <1>2 DEF OverFaces, HasSpecial, Heuristic
  <1>4. \A n \in Nat : /\ NearStep(m, from, x.to, n)
                       /\ \A g \in Tiles : Heuristic(m, from, g) <= n + Heuristic(m, x.to, g)
    <2>1. \A n \in Nat : 0 <= n + 0
      OBVIOUS
    <2>2. x.to \in Tiles
      BY <1>2
    <2> HIDE DEF x
    <2> QED BY <1>3, <2>1, <2>2 DEF NearStep
  <1>5. x.cost * Scale(m) \in Nat
    <2>1. Scale(m) \in Nat
      BY TransitionAssumption DEF Scale
    <2>2. x.cost \in Nat
      BY <1>2
    <2>3. \A a, b \in Nat : a * b \in Nat
      OBVIOUS
    <2> HIDE DEF x
    <2> QED BY <2>1, <2>2, <2>3
  <1>6. x.to \in Tiles
    BY <1>2
  <1> HIDE DEF x
  <1>7. Probe(x.to, "missing", 0) \in Seq(G)
    BY <1>6, ProbeIsGood
  <1>8. Probe(x.to, "legal", x.cost * Scale(m)) \in Seq(G)
    BY <1>3, <1>4, <1>5, <1>6, ProbeIsGood
  <1>9. SpecialProbe(m, field, x, x.to, x.to) \in {<<>>, Probe(x.to, "missing", 0), Probe(x.to, "legal", x.cost * Scale(m))}
    BY DEF SpecialProbe
  <1> QED BY <1>1, <1>7, <1>8, <1>9 DEF x

-----------------------------------------------------------------------------
(* The probes of a tile: what is gathered is a fold of concatenations.     *)
Concatenates(F, parts) ==
  F = [s \in SUBSET (DOMAIN parts) |-> IF s = {} THEN <<>> ELSE F[s \ {Max(s)}] \o parts[Max(s)]]

(* A concatenation of sequences over G is one. *)
LEMMA ConcatenationTyped ==
  ASSUME NEW N \in Nat, NEW G, NEW parts \in [1 .. N -> Seq(G)]
  PROVE  (CHOOSE F : Concatenates(F, parts))[DOMAIN parts] \in Seq(G)
  <1> DEFINE A == Seq(G)
             step == [x \in (1 .. N) \X A |-> x[2] \o parts[x[1]]]
             F == CHOOSE f : Concatenates(f, parts)
  <1>1. DOMAIN parts = 1 .. N /\ \A i \in 1 .. N : parts[i] \in A
    OBVIOUS
  <1>2. \A a, b \in A : a \o b \in A
    BY ConcatProperties
  <1>3. <<>> \in A
    BY EmptySeq
  <1>4. \E f : Concatenates(f, parts)
    <2>1. step \in [(1 .. N) \X A -> A]
      <3> HIDE DEF A
      <3> QED BY <1>1, <1>2
    <2>2. PICK f \in [SUBSET (1 .. N) -> A] : Folds(f, <<>>, step, N)
      <3> HIDE DEF step, A
      <3> QED BY <1>3, <2>1, FoldExists
    <2>3. ASSUME NEW s \in SUBSET (1 .. N), s # {} PROVE f[s] = f[s \ {Max(s)}] \o parts[Max(s)]
      <3>1. Max(s) \in 1 .. N
        <4>1. Max(s) \in s
          BY <2>3, MaxIsMember
        <4> QED BY <4>1
      <3>2. f[s \ {Max(s)}] \in A
        OBVIOUS
      <3>3. f[s] = step[<<Max(s), f[s \ {Max(s)}]>>]
        BY <2>2, <2>3 DEF Folds
      <3>4. <<Max(s), f[s \ {Max(s)}]>> \in (1 .. N) \X A
        BY <3>1, <3>2
      <3> HIDE DEF A
      <3> QED BY <3>3, <3>4
    <2>4. f[{}] = <<>> /\ f = [s \in SUBSET (1 .. N) |-> f[s]]
      BY <2>2 DEF Folds
    <2>5. f = [s \in SUBSET (1 .. N) |-> IF s = {} THEN <<>> ELSE f[s \ {Max(s)}] \o parts[Max(s)]]
      <3>1. \A s \in SUBSET (1 .. N) : f[s] = (IF s = {} THEN <<>> ELSE f[s \ {Max(s)}] \o parts[Max(s)])
        BY <2>3, <2>4
      <3> HIDE DEF A
      <3> QED BY <2>4, <3>1
    <2>6. Concatenates(f, parts)
      <3> HIDE DEF A
      <3> QED BY <1>1, <2>5, Zenon DEF Concatenates
    <2> QED BY <2>6
  <1>5. Concatenates(F, parts)
    BY <1>4
  <1> HIDE DEF F
  <1>6. F = [s \in SUBSET (1 .. N) |-> IF s = {} THEN <<>> ELSE F[s \ {Max(s)}] \o parts[Max(s)]]
    BY <1>1, <1>5, Zenon DEF Concatenates
  <1> DEFINE S == {n \in 0 .. N : F[1 .. n] \in A}
  <1>7. 0 \in S
    <2>1. 1 .. 0 = {} /\ {} \in SUBSET (1 .. N) /\ 0 \in 0 .. N
      OBVIOUS
    <2>2. F[{}] = <<>>
      BY <1>6, <2>1
    <2> HIDE DEF A
    <2> QED BY <1>3, <2>1, <2>2
  <1>8. ASSUME NEW n \in 1 .. N, n - 1 \in S PROVE n \in S
    <2>1. 1 .. n # {} /\ 1 .. n \in SUBSET (1 .. N) /\ n \in Nat \ {0} /\ n \in 0 .. N
      <3>1. n \in 1 .. n /\ n \in Nat \ {0} /\ n \in 0 .. N /\ \A k \in 1 .. n : k \in 1 .. N
        OBVIOUS
      <3> HIDE DEF A, S
      <3> QED BY <3>1
    <2>2. F[1 .. n] = F[1 .. n - 1] \o parts[n]
      <3>1. Max(1 .. n) = n /\ (1 .. n) \ {n} = 1 .. n - 1
        BY <2>1, LastOfInterval
      <3> HIDE DEF A, S
      <3> QED BY <1>6, <2>1, <3>1
    <2>3. F[1 .. n - 1] \in A
      BY <1>8
    <2> HIDE DEF A
    <2> QED BY <1>1, <1>2, <2>1, <2>2, <2>3
  <1>9. \A n \in 0 .. N : n \in S
    <2> HIDE DEF S
    <2> QED BY <1>7, <1>8, BoundedInduction
  <1>10. N \in 0 .. N
    OBVIOUS
  <1> QED BY <1>1, <1>9, <1>10 DEF F

(* What ForwardProbes gathers from. *)
RegularParts(m, field, from) ==
  [i \in DOMAIN Candidates(m, from) |->
     RegularProbe(m, field, Candidates(m, from)[i], Candidates(m, from)[i].to)]
SpecialParts(m, field, from) ==
  [i \in DOMAIN m.special |->
     IF m.special[i].from = from
     THEN SpecialProbe(m, field, m.special[i], m.special[i].to, m.special[i].to) ELSE <<>>]
GathersRegular(F, m, field, from) ==
  F = [s \in SUBSET (DOMAIN Candidates(m, from)) |->
         IF s = {} THEN <<>>
         ELSE F[s \ {Max(s)}] \o RegularProbe(m, field, Candidates(m, from)[Max(s)], Candidates(m, from)[Max(s)].to)]
GathersSpecial(F, m, field, from) ==
  F = [s \in SUBSET (DOMAIN m.special) |->
         IF s = {} THEN <<>>
         ELSE F[s \ {Max(s)}] \o (IF m.special[Max(s)].from = from
                                  THEN SpecialProbe(m, field, m.special[Max(s)], m.special[Max(s)].to, m.special[Max(s)].to)
                                  ELSE <<>>)]

(* The two folds of ForwardProbes. *)
LEMMA ForwardUnfolds ==
  ASSUME NEW m, NEW field, NEW from
  PROVE  ForwardProbes(m, field, from) =
           (CHOOSE F : GathersRegular(F, m, field, from))[DOMAIN Candidates(m, from)]
           \o (CHOOSE F : GathersSpecial(F, m, field, from))[DOMAIN m.special]
  BY Zenon DEF ForwardProbes, Gathered, FoldLeft, MapThenFoldSet, GathersRegular, GathersSpecial

(* Every probe out of a tile is good. *)
LEMMA ForwardIsGood ==
  ASSUME NEW m, IsModel(m), NEW field, NEW from \in Tiles
  PROVE  ForwardProbes(m, field, from) \in Seq(GoodProbes(m, from))
  <1> DEFINE G == GoodProbes(m, from)
  <1>1. (CHOOSE F : GathersRegular(F, m, field, from))[DOMAIN Candidates(m, from)] \in Seq(G)
    <2>1. PICK N \in Nat : DOMAIN Candidates(m, from) = 1 .. N
      BY CandidateForms
    <2> DEFINE parts == RegularParts(m, field, from)
    <2>2. DOMAIN parts = DOMAIN Candidates(m, from)
      BY DEF RegularParts
    <2>3. ASSUME NEW i \in 1 .. N
          PROVE  /\ parts[i] = RegularProbe(m, field, Candidates(m, from)[i], Candidates(m, from)[i].to)
                 /\ parts[i] \in Seq(G)
      <3>1. parts[i] = RegularProbe(m, field, Candidates(m, from)[i], Candidates(m, from)[i].to)
        BY <2>1 DEF RegularParts
      <3>2. parts[i] \in Seq(G)
        BY <2>1, <3>1, RegularIsGood
      <3> QED BY <3>1, <3>2
    <2>4. parts = [i \in DOMAIN parts |-> parts[i]]
      BY DEF RegularParts
    <2>5. parts \in [1 .. N -> Seq(G)]
      <3> HIDE DEF parts, G
      <3> QED BY <2>1, <2>2, <2>3, <2>4
    <2>6. \A F : GathersRegular(F, m, field, from) <=> Concatenates(F, parts)
      <3> HIDE DEF parts
      <3>1. \A s \in SUBSET (1 .. N) : s # {} => Max(s) \in 1 .. N
        <4>1. \A s \in SUBSET (1 .. N) : s # {} => Max(s) \in s
          BY <2>1, MaxIsMember
        <4> QED BY <4>1
      <3> TAKE F
      <3> DEFINE L == [s \in SUBSET (1 .. N) |->
                         IF s = {} THEN <<>>
                         ELSE F[s \ {Max(s)}] \o RegularProbe(m, field, Candidates(m, from)[Max(s)], Candidates(m, from)[Max(s)].to)]
                 R == [s \in SUBSET (1 .. N) |-> IF s = {} THEN <<>> ELSE F[s \ {Max(s)}] \o parts[Max(s)]]
      <3>2. L = R
        BY <2>3, <3>1
      <3>3. GathersRegular(F, m, field, from) <=> F = L
        BY <2>1, Zenon DEF GathersRegular
      <3>4. Concatenates(F, parts) <=> F = R
        BY <2>1, <2>2, Zenon DEF Concatenates
      <3> HIDE DEF L, R
      <3> QED BY <3>2, <3>3, <3>4
    <2>7. (CHOOSE F : GathersRegular(F, m, field, from)) = (CHOOSE F : Concatenates(F, parts))
      <3> HIDE DEF parts
      <3> QED BY <2>6
    <2> HIDE DEF parts, G
    <2> QED BY <2>2, <2>5, <2>7, ConcatenationTyped
  <1>2. (CHOOSE F : GathersSpecial(F, m, field, from))[DOMAIN m.special] \in Seq(G)
    <2>1. PICK N \in Nat : DOMAIN m.special = 1 .. N
      <3>1. m.special \in Seq([from : Tiles, to : Tiles, cost : Nat, missing : BOOLEAN])
        BY DEF IsModel
      <3> QED BY <3>1, LenProperties
    <2> DEFINE parts == SpecialParts(m, field, from)
    <2>2. DOMAIN parts = DOMAIN m.special
      BY DEF SpecialParts
    <2>3. ASSUME NEW i \in 1 .. N
          PROVE  /\ parts[i] = IF m.special[i].from = from
                               THEN SpecialProbe(m, field, m.special[i], m.special[i].to, m.special[i].to) ELSE <<>>
                 /\ parts[i] \in Seq(G)
      <3>1. parts[i] = IF m.special[i].from = from
                       THEN SpecialProbe(m, field, m.special[i], m.special[i].to, m.special[i].to) ELSE <<>>
        BY <2>1 DEF SpecialParts
      <3>2. SpecialProbe(m, field, m.special[i], m.special[i].to, m.special[i].to) \in Seq(G)
        BY <2>1, SpecialIsGood
      <3>3. <<>> \in Seq(G)
        BY EmptySeq
      <3> HIDE DEF parts, G
      <3> QED BY <3>1, <3>2, <3>3
    <2>4. parts = [i \in DOMAIN parts |-> parts[i]]
      BY DEF SpecialParts
    <2>5. parts \in [1 .. N -> Seq(G)]
      <3> HIDE DEF parts, G
      <3> QED BY <2>1, <2>2, <2>3, <2>4
    <2>6. \A F : GathersSpecial(F, m, field, from) <=> Concatenates(F, parts)
      <3> HIDE DEF parts
      <3>1. \A s \in SUBSET (1 .. N) : s # {} => Max(s) \in 1 .. N
        <4>1. \A s \in SUBSET (1 .. N) : s # {} => Max(s) \in s
          BY <2>1, MaxIsMember
        <4> QED BY <4>1
      <3> TAKE F
      <3> DEFINE L == [s \in SUBSET (1 .. N) |->
                         IF s = {} THEN <<>>
                         ELSE F[s \ {Max(s)}] \o (IF m.special[Max(s)].from = from
                                                  THEN SpecialProbe(m, field, m.special[Max(s)], m.special[Max(s)].to, m.special[Max(s)].to)
                                                  ELSE <<>>)]
                 R == [s \in SUBSET (1 .. N) |-> IF s = {} THEN <<>> ELSE F[s \ {Max(s)}] \o parts[Max(s)]]
      <3>2. L = R
        BY <2>3, <3>1
      <3>3. GathersSpecial(F, m, field, from) <=> F = L
        BY <2>1, Zenon DEF GathersSpecial
      <3>4. Concatenates(F, parts) <=> F = R
        BY <2>1, <2>2, Zenon DEF Concatenates
      <3> HIDE DEF L, R
      <3> QED BY <3>2, <3>3, <3>4
    <2>7. (CHOOSE F : GathersSpecial(F, m, field, from)) = (CHOOSE F : Concatenates(F, parts))
      <3> HIDE DEF parts
      <3> QED BY <2>6
    <2> HIDE DEF parts, G
    <2> QED BY <2>2, <2>5, <2>7, ConcatenationTyped
  <1> HIDE DEF G
  <1> QED BY <1>1, <1>2, ForwardUnfolds, ConcatProperties DEF G

-----------------------------------------------------------------------------
(* The reference costs: a round of relaxation takes the cheapest of what   *)
(* is known and what one more step gives.                                  *)
CostTables == [Tiles -> 0 .. Infinite]
Moves == Tiles \X ProbeSet
Relaxes(moves, c) == \A s \in moves : c[s[2].to] <= Saturated(c[s[1]] + s[2].cost)

(* A query's model is a model, at the price of a step when it is unit. *)
LEMMA ModelOfQuery ==
  ASSUME NEW q, IsQuery(q)
  PROVE  /\ IsModel(ModelOf(q)) /\ q.start \in Tiles /\ q.goal \in Tiles
         /\ q.unit => UnitCosts(ModelOf(q))
  <1> DEFINE m == SearchModels[q.model]
  <1>1. q.model \in DOMAIN SearchModels /\ q.start \in Tiles /\ q.goal \in Tiles /\ q.unit \in BOOLEAN
    BY DEF IsQuery
  <1>2. IsModel(m)
    BY <1>1, SearchAssumption
  <1> HIDE DEF m
  <1>3. IsModel(AsUnit(m)) /\ UnitCosts(AsUnit(m))
    <2> DEFINE u == AsUnit(m)
    <2>1. /\ m = [lattice |-> m.lattice, steps |-> m.steps, passes |-> m.passes, cost |-> m.cost, special |-> m.special]
          /\ m.lattice \in {"orthogonal", "hex"} /\ m.steps \in {"default", "both", "one"}
          /\ m.passes \in SUBSET DOMAIN m.cost
          /\ m.special \in Seq([from : Tiles, to : Tiles, cost : Nat, missing : BOOLEAN])
      BY <1>2 DEF IsModel
    <2>2. u = [lattice |-> m.lattice, steps |-> m.steps, passes |-> m.passes,
               cost |-> [v \in DOMAIN m.cost |-> 1], special |-> m.special]
      BY <2>1 DEF AsUnit
    <2>3. /\ u.lattice = m.lattice /\ u.steps = m.steps /\ u.passes = m.passes
          /\ u.cost = [v \in DOMAIN m.cost |-> 1] /\ u.special = m.special
      BY <2>2
    <2>4. DOMAIN u.cost = DOMAIN m.cost /\ \A v \in DOMAIN u.cost : u.cost[v] = 1
      BY <2>3
    <2>5. u.cost \in [DOMAIN u.cost -> Nat]
      BY <2>3
    <2>6. u = [lattice |-> u.lattice, steps |-> u.steps, passes |-> u.passes, cost |-> u.cost, special |-> u.special]
      BY <2>2, <2>3
    <2> HIDE DEF u
    <2>7. IsModel(u)
      BY <2>1, <2>3, <2>4, <2>5, <2>6 DEF IsModel
    <2> QED BY <2>4, <2>7 DEF u, UnitCosts
  <1> QED BY <1>1, <1>2, <1>3 DEF ModelOf, m

(* A nonempty set of naturals has its least element in it. *)
LEMMA MinIsMember ==
  ASSUME NEW T \in SUBSET Nat, T # {}
  PROVE  Min(T) \in T /\ \A k \in T : Min(T) <= k
  <1>1. \E m \in T : \A k \in T : m <= k
    BY LeastNumber
  <1> QED BY <1>1 DEF Min

(* One round. *)
LEMMA RoundRelaxes ==
  ASSUME NEW moves \in SUBSET Moves, NEW c \in CostTables
  PROVE  /\ CheaperBy(moves, c) \in CostTables
         /\ \A t \in Tiles : CheaperBy(moves, c)[t] <= c[t]
         /\ \A s \in moves : CheaperBy(moves, c)[s[2].to] <= Saturated(c[s[1]] + s[2].cost)
         /\ \A t \in Tiles : \/ CheaperBy(moves, c)[t] = c[t]
                             \/ \E s \in moves : s[2].to = t /\ CheaperBy(moves, c)[t] = Saturated(c[s[1]] + s[2].cost)
  <1> DEFINE offers(t) == {c[t]} \cup {Saturated(c[s[1]] + s[2].cost) : s \in {x \in moves : x[2].to = t}}
             next == [t \in Tiles |-> Min(offers(t))]
  <1>1. CheaperBy(moves, c) = next
    BY DEF CheaperBy
  <1>2. Infinite \in Nat
    BY TransitionAssumption
  <1>3. \A t \in Tiles : c[t] \in 0 .. Infinite
    BY DEF CostTables
  <1>4. ASSUME NEW s \in moves
        PROVE  /\ s[1] \in Tiles /\ s[2].to \in Tiles
               /\ Saturated(c[s[1]] + s[2].cost) \in 0 .. Infinite
    <2>1. s[1] \in Tiles /\ s[2] \in ProbeSet
      BY DEF Moves
    <2>2. s[2].to \in Tiles /\ s[2].cost \in 0 .. Infinite
      BY <2>1 DEF ProbeSet
    <2>3. c[s[1]] + s[2].cost \in Nat
      BY <1>2, <1>3, <2>1, <2>2
    <2> QED BY <2>1, <2>2, <2>3, SaturatedIsMonotone
  <1>5. ASSUME NEW t \in Tiles
        PROVE  /\ next[t] \in offers(t) /\ \A k \in offers(t) : next[t] <= k
               /\ offers(t) \in SUBSET (0 .. Infinite)
    <2>1. offers(t) \in SUBSET (0 .. Infinite)
      BY <1>3, <1>4
    <2>2. c[t] \in offers(t)
      OBVIOUS
    <2>3. offers(t) \in SUBSET Nat
      <3>1. \A k \in 0 .. Infinite : k \in Nat
        BY <1>2
      <3> QED BY <2>1, <3>1
    <2>4. next[t] = Min(offers(t))
      OBVIOUS
    <2> HIDE DEF offers, next
    <2> QED BY <2>1, <2>2, <2>3, <2>4, MinIsMember
  <1>6. next \in CostTables
    <2>1. \A t \in Tiles : next[t] \in 0 .. Infinite
      <3> HIDE DEF next, offers
      <3> QED BY <1>5
    <2>2. next = [t \in Tiles |-> next[t]]
      OBVIOUS
    <2> HIDE DEF next, offers
    <2> QED BY <2>1, <2>2 DEF CostTables
  <1>7. \A t \in Tiles : c[t] \in offers(t)
    OBVIOUS
  <1>8. \A s \in moves : Saturated(c[s[1]] + s[2].cost) \in offers(s[2].to)
    OBVIOUS
  <1>9. \A t \in Tiles : \A k \in offers(t) :
          k = c[t] \/ \E s \in moves : s[2].to = t /\ k = Saturated(c[s[1]] + s[2].cost)
    OBVIOUS
  <1> HIDE DEF next, offers
  <1>10. \A t \in Tiles : next[t] <= c[t]
    BY <1>5, <1>7
  <1>11. \A s \in moves : next[s[2].to] <= Saturated(c[s[1]] + s[2].cost)
    BY <1>4, <1>5, <1>8
  <1>12. \A t \in Tiles : \/ next[t] = c[t]
                          \/ \E s \in moves : s[2].to = t /\ next[t] = Saturated(c[s[1]] + s[2].cost)
    BY <1>5, <1>9
  <1> QED BY <1>1, <1>6, <1>10, <1>11, <1>12

(* What a round leaves settled: no step out of a settled tile gives less,  *)
(* and no other tile is cheaper.                                           *)
Settled(moves, c, S) ==
  /\ \A s \in moves : s[1] \in S => c[s[2].to] <= Saturated(c[s[1]] + s[2].cost)
  /\ \A t \in S : \A u \in Tiles \ S : c[t] <= c[u]

(* A saturated sum is no less than either part that is a cost. *)
LEMMA SumsOnlyGrow ==
  ASSUME NEW a \in 0 .. Infinite, NEW b \in 0 .. Infinite
  PROVE  Saturated(a + b) \in 0 .. Infinite /\ Saturated(a + b) >= a
  BY TransitionAssumption DEF Saturated

(* Saturated sums keep the order. *)
LEMMA SumsAreMonotone ==
  ASSUME NEW a \in 0 .. Infinite, NEW b \in 0 .. Infinite, NEW k \in 0 .. Infinite, a <= b
  PROVE  Saturated(a + k) <= Saturated(b + k)
  BY TransitionAssumption DEF Saturated

(* Every round settles one more tile, the cheapest of the others. *)
LEMMA RoundSettles ==
  ASSUME NEW moves \in SUBSET Moves, NEW c \in CostTables, NEW S \in SUBSET Tiles, S # Tiles, Settled(moves, c, S)
  PROVE  \E m \in Tiles \ S : Settled(moves, CheaperBy(moves, c), S \cup {m})
  <1> DEFINE d == CheaperBy(moves, c)
  <1>1. /\ d \in CostTables
        /\ \A t \in Tiles : d[t] <= c[t]
        /\ \A s \in moves : d[s[2].to] <= Saturated(c[s[1]] + s[2].cost)
        /\ \A t \in Tiles : \/ d[t] = c[t]
                            \/ \E s \in moves : s[2].to = t /\ d[t] = Saturated(c[s[1]] + s[2].cost)
    BY RoundRelaxes
  <1> HIDE DEF d
  <1>2. /\ Infinite \in Nat
        /\ \A t \in Tiles : c[t] \in 0 .. Infinite /\ d[t] \in 0 .. Infinite
    BY <1>1, TransitionAssumption DEF CostTables
  <1>3. \A s \in moves : s[1] \in Tiles /\ s[2].to \in Tiles /\ s[2].cost \in 0 .. Infinite
    BY DEF Moves, ProbeSet
  <1>4. \A s \in moves : Saturated(c[s[1]] + s[2].cost) \in 0 .. Infinite /\ Saturated(c[s[1]] + s[2].cost) >= c[s[1]]
    BY <1>2, <1>3, SumsOnlyGrow
  <1>5. PICK m \in Tiles \ S : \A u \in Tiles \ S : c[m] <= c[u]
    <2> DEFINE T == {c[u] : u \in Tiles \ S}
    <2>1. T # {} /\ T \in SUBSET Nat
      BY <1>2
    <2>2. PICK k \in T : \A l \in T : k <= l
      <3> HIDE DEF T
      <3> QED BY <2>1, LeastNumber
    <2> QED BY <2>2
  <1>6. ASSUME NEW u \in Tiles \ S PROVE d[u] >= c[m]
    <2>1. CASE d[u] = c[u]
      BY <1>5, <2>1
    <2>2. CASE d[u] # c[u]
      <3>1. PICK s \in moves : s[2].to = u /\ d[u] = Saturated(c[s[1]] + s[2].cost)
        BY <1>1, <2>2
      <3>2. CASE s[1] \in S
        <4>1. c[u] <= d[u]
          BY <3>1, <3>2 DEF Settled
        <4>2. d[u] <= c[u]
          BY <1>1
        <4>3. FALSE
          BY <1>2, <2>2, <4>1, <4>2
        <4> QED BY <4>3
      <3>3. CASE s[1] \notin S
        <4>1. s[1] \in Tiles \ S /\ d[u] >= c[s[1]]
          BY <1>3, <1>4, <3>1, <3>3
        <4>2. c[m] <= c[s[1]]
          BY <1>5, <4>1
        <4> QED BY <1>2, <4>1, <4>2
      <3> QED BY <3>2, <3>3
    <2> QED BY <2>1, <2>2
  <1>7. ASSUME NEW t \in S PROVE d[t] = c[t] /\ c[t] <= c[m]
    <2>1. c[t] <= c[m]
      BY <1>5 DEF Settled
    <2>2. CASE d[t] # c[t]
      <3>1. PICK s \in moves : s[2].to = t /\ d[t] = Saturated(c[s[1]] + s[2].cost)
        BY <1>1, <2>2
      <3>2. c[t] <= d[t]
        <4>1. CASE s[1] \in S
          BY <3>1, <4>1 DEF Settled
        <4>2. CASE s[1] \notin S
          <5>1. s[1] \in Tiles \ S /\ d[t] >= c[s[1]]
            BY <1>3, <1>4, <3>1, <4>2
          <5>2. c[t] <= c[s[1]]
            BY <5>1 DEF Settled
          <5> QED BY <1>2, <5>1, <5>2
        <4> QED BY <4>1, <4>2
      <3>3. d[t] <= c[t]
        BY <1>1
      <3> QED BY <1>2, <2>1, <3>2, <3>3
    <2> QED BY <2>1, <2>2
  <1>8. d[m] = c[m]
    <2>1. d[m] >= c[m] /\ d[m] <= c[m]
      BY <1>1, <1>6
    <2> QED BY <1>2, <2>1
  <1>9. ASSUME NEW s \in moves, s[1] \in S \cup {m} PROVE d[s[2].to] <= Saturated(d[s[1]] + s[2].cost)
    <2>1. d[s[1]] = c[s[1]]
      BY <1>7, <1>8, <1>9
    <2> QED BY <1>1, <2>1
  <1>10. ASSUME NEW t \in S \cup {m}, NEW u \in Tiles \ (S \cup {m}) PROVE d[t] <= d[u]
    <2>1. d[t] <= c[m]
      BY <1>2, <1>7, <1>8
    <2>2. d[u] >= c[m]
      BY <1>6
    <2>3. t \in Tiles
      OBVIOUS
    <2> QED BY <1>2, <2>1, <2>2, <2>3
  <1> QED BY <1>9, <1>10 DEF Settled, d

(* A cost that every step respects is no more than what a round gives. *)
LEMMA RoundKeepsBounds ==
  ASSUME NEW moves \in SUBSET Moves, NEW c \in CostTables, NEW e \in CostTables, Relaxes(moves, e),
         \A t \in Tiles : e[t] <= c[t]
  PROVE  \A t \in Tiles : e[t] <= CheaperBy(moves, c)[t]
  <1> DEFINE d == CheaperBy(moves, c)
  <1>1. \A t \in Tiles : \/ d[t] = c[t]
                         \/ \E s \in moves : s[2].to = t /\ d[t] = Saturated(c[s[1]] + s[2].cost)
    BY RoundRelaxes
  <1> HIDE DEF d
  <1> SUFFICES ASSUME NEW t \in Tiles PROVE e[t] <= d[t]
    BY DEF d
  <1>2. CASE d[t] = c[t]
    BY <1>2
  <1>3. CASE d[t] # c[t]
    <2>1. PICK s \in moves : s[2].to = t /\ d[t] = Saturated(c[s[1]] + s[2].cost)
      BY <1>1, <1>3
    <2>2. s[1] \in Tiles /\ s[2].cost \in 0 .. Infinite
      BY DEF Moves, ProbeSet
    <2>3. e[t] <= Saturated(e[s[1]] + s[2].cost)
      BY <2>1 DEF Relaxes
    <2>4. e[s[1]] \in 0 .. Infinite /\ c[s[1]] \in 0 .. Infinite /\ e[s[1]] <= c[s[1]]
      BY <2>2 DEF CostTables
    <2>5. Saturated(e[s[1]] + s[2].cost) <= Saturated(c[s[1]] + s[2].cost)
      BY <2>2, <2>4, SumsAreMonotone
    <2>6. /\ Saturated(e[s[1]] + s[2].cost) \in 0 .. Infinite
          /\ Saturated(c[s[1]] + s[2].cost) \in 0 .. Infinite
      BY <2>2, <2>4, SumsOnlyGrow
    <2>7. e[t] \in 0 .. Infinite
      BY DEF CostTables
    <2> QED BY <2>1, <2>3, <2>5, <2>6, <2>7, TransitionAssumption
  <1> QED BY <1>2, <1>3

(* The steps that a query may use. *)
LEMMA StepsOfQuery ==
  ASSUME NEW q, IsQuery(q), q.domain = Tiles
  PROVE  /\ StepsWithin(q) = {s \in Moves : s[2] \in LegalSteps(ModelOf(q), q.field, s[1])}
         /\ \A s \in StepsWithin(q) : s[2] \in GoodProbes(ModelOf(q), s[1]) /\ s[2].kind = "legal"
  <1> DEFINE m == ModelOf(q)
             legal(t) == LegalSteps(m, q.field, t)
  <1>1. IsModel(m)
    BY ModelOfQuery
  <1>2. ASSUME NEW t \in Tiles, NEW p \in legal(t)
        PROVE  p \in GoodProbes(m, t) /\ p.kind = "legal"
    <2>1. p \in ToSet(ForwardProbes(m, q.field, t)) /\ p.kind = "legal"
      BY DEF LegalSteps
    <2> HIDE DEF m
    <2>2. ForwardProbes(m, q.field, t) \in Seq(GoodProbes(m, t))
      BY <1>1, ForwardIsGood
    <2>3. ToSet(ForwardProbes(m, q.field, t)) \in SUBSET GoodProbes(m, t)
      BY <2>2, LenProperties, ElementOfSeq DEF ToSet
    <2> QED BY <2>1, <2>3
  <1>3. \A t \in Tiles : \A p \in legal(t) : p \in ProbeSet /\ p.to \in Tiles
    <2> HIDE DEF legal
    <2> QED BY <1>2 DEF GoodProbes, ProbeSet
  <1>4. StepsWithin(q) = UNION {{t} \X {p \in legal(t) : p.to \in Tiles} : t \in Tiles}
    BY DEF StepsWithin
  <1> HIDE DEF legal
  <1>5. ASSUME NEW s \in StepsWithin(q)
        PROVE  s \in Moves /\ s[1] \in Tiles /\ s[2] \in legal(s[1])
    <2>1. PICK t \in Tiles : s \in {t} \X {p \in legal(t) : p.to \in Tiles}
      BY <1>4
    <2>2. s = <<s[1], s[2]>> /\ s[1] = t /\ s[2] \in legal(t)
      BY <2>1
    <2> QED BY <1>3, <2>2 DEF Moves
  <1>6. ASSUME NEW s \in Moves, s[2] \in legal(s[1]) PROVE s \in StepsWithin(q)
    <2>1. s = <<s[1], s[2]>> /\ s[1] \in Tiles
      BY DEF Moves
    <2>2. s \in {s[1]} \X {p \in legal(s[1]) : p.to \in Tiles}
      BY <1>3, <1>6, <2>1
    <2> QED BY <1>4, <2>1, <2>2
  <1>7. StepsWithin(q) = {s \in Moves : s[2] \in legal(s[1])}
    BY <1>5, <1>6
  <1>8. \A s \in StepsWithin(q) : s[2] \in GoodProbes(m, s[1]) /\ s[2].kind = "legal"
    <2> HIDE DEF m
    <2> QED BY <1>2, <1>5
  <1> QED BY <1>7, <1>8 DEF legal

(* The least costs from the start of a query: every step respects them,    *)
(* and they bound whatever every step respects.                            *)
IsLeast(q, c) ==
  /\ c \in CostTables /\ c[q.start] = 0
  /\ Relaxes(StepsWithin(q), c)
  /\ \A e \in CostTables : e[q.start] = 0 /\ Relaxes(StepsWithin(q), e) => \A t \in Tiles : e[t] <= c[t]

RunsRounds(F, moves, z) ==
  F = [s \in SUBSET (DOMAIN [i \in 1 .. Cardinality(Tiles) |-> i]) |->
         IF s = {} THEN z ELSE CheaperBy(moves, F[s \ {Max(s)}])]

(* The rounds of CostsFromStart are a fold. *)
LEMMA RoundsUnfold ==
  ASSUME NEW q
  PROVE  CostsFromStart(q) =
           (CHOOSE F : RunsRounds(F, StepsWithin(q), [t \in Tiles |-> IF t = q.start THEN 0 ELSE Infinite]))
             [DOMAIN [i \in 1 .. Cardinality(Tiles) |-> i]]
  BY Zenon DEF CostsFromStart, Iterated, Applied, FoldLeft, MapThenFoldSet, RunsRounds

(* ... that exists. *)
LEMMA RoundsExist ==
  ASSUME NEW moves \in SUBSET Moves, NEW z \in CostTables
  PROVE  \E F : RunsRounds(F, moves, z)
  <1> DEFINE N == Cardinality(Tiles)
             A == CostTables
             step == [x \in (1 .. N) \X A |-> CheaperBy(moves, x[2])]
  <1>1. N \in Nat /\ DOMAIN [i \in 1 .. N |-> i] = 1 .. N
    BY TilesAreFinite
  <1>2. step \in [(1 .. N) \X A -> A]
    <2>1. \A c \in A : CheaperBy(moves, c) \in A
      BY RoundRelaxes
    <2> HIDE DEF A, N
    <2> QED BY <2>1
  <1>3. PICK f \in [SUBSET (1 .. N) -> A] : Folds(f, z, step, N)
    <2>1. z \in A
      OBVIOUS
    <2> HIDE DEF step, A, N
    <2> QED BY <1>1, <1>2, <2>1, FoldExists
  <1> HIDE DEF N
  <1>4. ASSUME NEW s \in SUBSET (1 .. N), s # {} PROVE f[s] = CheaperBy(moves, f[s \ {Max(s)}])
    <2>1. Max(s) \in 1 .. N
      <3>1. Max(s) \in s
        BY <1>1, <1>4, MaxIsMember
      <3> QED BY <3>1
    <2>2. f[s \ {Max(s)}] \in A
      OBVIOUS
    <2>3. f[s] = step[<<Max(s), f[s \ {Max(s)}]>>]
      BY <1>3, <1>4 DEF Folds
    <2>4. <<Max(s), f[s \ {Max(s)}]>> \in (1 .. N) \X A
      BY <2>1, <2>2
    <2> HIDE DEF A
    <2> QED BY <2>3, <2>4
  <1>5. f[{}] = z /\ f = [s \in SUBSET (1 .. N) |-> f[s]]
    BY <1>3 DEF Folds
  <1>6. f = [s \in SUBSET (1 .. N) |-> IF s = {} THEN z ELSE CheaperBy(moves, f[s \ {Max(s)}])]
    <2>1. \A s \in SUBSET (1 .. N) : f[s] = (IF s = {} THEN z ELSE CheaperBy(moves, f[s \ {Max(s)}]))
      BY <1>4, <1>5
    <2> HIDE DEF A
    <2> QED BY <1>5, <2>1
  <1>7. RunsRounds(f, moves, z)
    <2> HIDE DEF A
    <2> QED BY <1>1, <1>6, Zenon DEF RunsRounds, N
  <1> QED BY <1>7

(* As many rounds as there are tiles settle every tile, so that no step    *)
(* gives less.                                                             *)
LEMMA RoundsAreLeast ==
  ASSUME NEW q, IsQuery(q), q.domain = Tiles
  PROVE  IsLeast(q, CostsFromStart(q))
  <1> DEFINE moves == StepsWithin(q)
             z == [t \in Tiles |-> IF t = q.start THEN 0 ELSE Infinite]
             N == Cardinality(Tiles)
             F == CHOOSE f : RunsRounds(f, moves, z)
  <1>1. moves \in SUBSET Moves
    BY StepsOfQuery
  <1>2. z \in CostTables /\ z[q.start] = 0 /\ q.start \in Tiles
    BY ModelOfQuery, TransitionAssumption DEF CostTables
  <1>3. RunsRounds(F, moves, z)
    <2> HIDE DEF moves, z
    <2> QED BY <1>1, <1>2, RoundsExist
  <1>4. N \in Nat /\ DOMAIN [i \in 1 .. N |-> i] = 1 .. N
    BY TilesAreFinite
  <1>5. CostsFromStart(q) = F[1 .. N]
    <2>1. CostsFromStart(q) = F[DOMAIN [i \in 1 .. N |-> i]]
      BY RoundsUnfold
    <2> HIDE DEF F, N
    <2> QED BY <1>4, <2>1
  <1> HIDE DEF F
  <1>6. F = [s \in SUBSET (1 .. N) |-> IF s = {} THEN z ELSE CheaperBy(moves, F[s \ {Max(s)}])]
    <2> HIDE DEF moves, z
    <2> QED BY <1>3, <1>4, Zenon DEF RunsRounds, N
  <1>7. \A e \in CostTables : e[q.start] = 0 => \A t \in Tiles : e[t] <= z[t]
    <2>1. Infinite \in Nat
      BY TransitionAssumption
    <2> SUFFICES ASSUME NEW e \in CostTables, e[q.start] = 0, NEW t \in Tiles PROVE e[t] <= z[t]
      OBVIOUS
    <2>2. e[t] \in 0 .. Infinite
      BY DEF CostTables
    <2>3. z[t] = IF t = q.start THEN 0 ELSE Infinite
      OBVIOUS
    <2> HIDE DEF z
    <2> QED BY <2>1, <2>2, <2>3
  <1> HIDE DEF moves, z, N
  <1> DEFINE Fine(n) ==
               /\ F[1 .. n] \in CostTables /\ F[1 .. n][q.start] = 0
               /\ \A e \in CostTables : e[q.start] = 0 /\ Relaxes(moves, e) => \A t \in Tiles : e[t] <= F[1 .. n][t]
               /\ \E S \in SUBSET Tiles : Cardinality(S) = n /\ Settled(moves, F[1 .. n], S)
             G == {n \in 0 .. N : Fine(n)}
  <1>8. 0 \in G
    <2>1. 1 .. 0 = {} /\ {} \in SUBSET (1 .. N) /\ 0 \in 0 .. N
      BY <1>4
    <2>2. F[1 .. 0] = z
      BY <1>6, <2>1
    <2>3. {} \in SUBSET Tiles /\ Cardinality({}) = 0 /\ Settled(moves, z, {})
      BY FS_EmptySet DEF Settled
    <2>4. Fine(0)
      BY <1>2, <1>7, <2>2, <2>3
    <2> HIDE DEF Fine
    <2> QED BY <2>1, <2>4
  <1>9. ASSUME NEW n \in 1 .. N, n - 1 \in G PROVE n \in G
    <2>1. Fine(n - 1) /\ n \in Nat \ {0} /\ n \in 0 .. N
      <3> HIDE DEF Fine
      <3> QED BY <1>4, <1>9
    <2>2. F[1 .. n] = CheaperBy(moves, F[1 .. n - 1])
      <3>1. Max(1 .. n) = n /\ (1 .. n) \ {n} = 1 .. n - 1
        BY <2>1, LastOfInterval
      <3>2. 1 .. n # {} /\ 1 .. n \in SUBSET (1 .. N)
        <4>1. n \in 1 .. n /\ \A k \in 1 .. n : k \in 1 .. N
          BY <1>4
        <4> HIDE DEF G, Fine
        <4> QED BY <4>1
      <3> HIDE DEF G, Fine
      <3> QED BY <1>6, <3>1, <3>2
    <2> DEFINE c == F[1 .. n - 1]
               d == CheaperBy(moves, c)
    <2>3. /\ c \in CostTables /\ c[q.start] = 0
          /\ \A e \in CostTables : e[q.start] = 0 /\ Relaxes(moves, e) => \A t \in Tiles : e[t] <= c[t]
      BY <2>1
    <2>4. PICK S \in SUBSET Tiles : Cardinality(S) = n - 1 /\ Settled(moves, c, S)
      BY <2>1
    <2> HIDE DEF G, Fine, c
    <2>5. d \in CostTables /\ d[q.start] = 0
      <3>1. d \in CostTables /\ \A t \in Tiles : d[t] <= c[t]
        BY <1>1, <2>3, RoundRelaxes
      <3>2. d[q.start] \in 0 .. Infinite /\ d[q.start] <= 0
        BY <1>2, <2>3, <3>1 DEF CostTables
      <3> HIDE DEF d
      <3> QED BY <3>1, <3>2, TransitionAssumption
    <2>6. \A e \in CostTables : e[q.start] = 0 /\ Relaxes(moves, e) => \A t \in Tiles : e[t] <= d[t]
      BY <1>1, <2>3, RoundKeepsBounds
    <2>7. \E T \in SUBSET Tiles : Cardinality(T) = n /\ Settled(moves, d, T)
      <3>1. S # Tiles
        <4>1. ASSUME S = Tiles PROVE FALSE
          BY <1>4, <2>4, <4>1 DEF N
        <4> QED BY <4>1
      <3>2. PICK m \in Tiles \ S : Settled(moves, d, S \cup {m})
        BY <1>1, <2>3, <2>4, <3>1, RoundSettles
      <3>3. IsFiniteSet(S)
        BY TilesAreFinite, FS_Subset
      <3>4. Cardinality(S \cup {m}) = Cardinality(S) + 1
        BY <3>3, FS_AddElement
      <3>5. Cardinality(S \cup {m}) = n
        BY <2>1, <2>4, <3>4
      <3> QED BY <3>2, <3>5
    <2>8. Fine(n)
      <3>1. F[1 .. n] = d
        BY <2>2 DEF c
      <3> HIDE DEF d
      <3> QED BY <2>5, <2>6, <2>7, <3>1 DEF Fine
    <2> QED BY <2>1, <2>8 DEF G
  <1>10. \A n \in 0 .. N : n \in G
    <2> HIDE DEF G
    <2> QED BY <1>4, <1>8, <1>9, BoundedInduction
  <1>11. Fine(N)
    <2>1. N \in 0 .. N
      BY <1>4
    <2> HIDE DEF Fine
    <2> QED BY <1>10, <2>1
  <1> DEFINE c == F[1 .. N]
  <1>12. PICK S \in SUBSET Tiles : Cardinality(S) = N /\ Settled(moves, c, S)
    BY <1>11
  <1>13. S = Tiles
    BY <1>12, TilesAreFinite, FS_Subset DEF N
  <1>14. /\ c \in CostTables /\ c[q.start] = 0
         /\ \A e \in CostTables : e[q.start] = 0 /\ Relaxes(moves, e) => \A t \in Tiles : e[t] <= c[t]
    BY <1>11
  <1> HIDE DEF c, G, Fine
  <1>15. Relaxes(moves, c)
    <2>1. \A s \in moves : s[1] \in Tiles
      BY <1>1 DEF Moves
    <2> QED BY <1>12, <1>13, <2>1 DEF Settled, Relaxes
  <1>16. IsLeast(q, c)
    BY <1>14, <1>15 DEF IsLeast, moves
  <1> QED BY <1>5, <1>16 DEF c

-----------------------------------------------------------------------------
(* The search, as facts about a query and a frontier.                      *)
HOf(q, t) == Heuristic(ModelOf(q), t, q.goal)
FOf(q, t, g) == Saturated(g + HOf(q, t))
InBands(q) == q.unit /\ OverFaces(ModelOf(q))

Entries(q) ==
  {n \in [tile : Tiles, g : 0 .. Infinite - 1, f : 0 .. Infinite] : n.f = FOf(q, n.tile, n.g)}
Frontiers(q) ==
  [g : CostTables, parent : [Tiles -> Tiles], closed : SUBSET Tiles, band : 0 .. Infinite,
   open : Seq(Entries(q)), later : Seq(Entries(q)), missed : BOOLEAN, overflowed : BOOLEAN]
EntriesOf(fr) == ToSet(fr.open) \cup ToSet(fr.later)

(* What the labels are: no cheaper than the least costs, each open one in  *)
(* an entry, the closed ones final unless their f is cut off, and below    *)
(* every entry.                                                            *)
Labels(q, c, fr) ==
  /\ fr.g[q.start] = 0
  /\ \A t \in Tiles : c[t] <= fr.g[t]
  /\ \A t \in fr.closed : fr.g[t] < Infinite
  /\ \A t \in fr.closed : FOf(q, t, fr.g[t]) < Infinite => fr.g[t] = c[t]
  /\ \A t \in Tiles \ fr.closed : fr.g[t] < Infinite => \E n \in EntriesOf(fr) : n.tile = t /\ n.g = fr.g[t]
  /\ \A n \in EntriesOf(fr) : fr.g[n.tile] <= n.g

(* The two stacks hold f and f + 2, and no entry is further from the start *)
(* than tiles are closed.                                                  *)
Bands(q, fr) ==
  IF InBands(q)
  THEN /\ \A n \in ToSet(fr.open) : n.f = fr.band
       /\ \A n \in ToSet(fr.later) : n.f = fr.band + 2
       /\ \A n \in EntriesOf(fr) : n.g <= Cardinality(fr.closed)
  ELSE fr.later = <<>>

(* Every step out of a tile of S gives no less than is known, unless f is  *)
(* cut off there.                                                          *)
Spread(q, fr, S) ==
  \A s \in StepsWithin(q) :
    s[1] \in S /\ FOf(q, s[1], fr.g[s[1]]) < Infinite => fr.g[s[2].to] <= Saturated(fr.g[s[1]] + s[2].cost)

ClosedBelow(q, fr, F) == \A t \in fr.closed : FOf(q, t, fr.g[t]) <= F
EntriesFrom(fr, F) == \A n \in EntriesOf(fr) : F <= n.f

Explored(q, c, fr) ==
  /\ Labels(q, c, fr) /\ Bands(q, fr)
  /\ \A n \in EntriesOf(fr) : ClosedBelow(q, fr, n.f)
  /\ Spread(q, fr, fr.closed \ {q.goal})

(* A frontier's parts. *)
LEMMA FrontierParts ==
  ASSUME NEW q, NEW fr \in Frontiers(q)
  PROVE  /\ fr.g \in CostTables /\ fr.parent \in [Tiles -> Tiles] /\ fr.closed \in SUBSET Tiles /\ fr.band \in 0 .. Infinite
         /\ fr.open \in Seq(Entries(q)) /\ fr.later \in Seq(Entries(q))
         /\ fr.missed \in BOOLEAN /\ fr.overflowed \in BOOLEAN
         /\ \A t \in Tiles : fr.g[t] \in 0 .. Infinite
         /\ EntriesOf(fr) \in SUBSET Entries(q)
         /\ \A n \in EntriesOf(fr) : /\ n.tile \in Tiles /\ n.g \in 0 .. Infinite - 1 /\ n.f \in 0 .. Infinite
                                     /\ n.f = FOf(q, n.tile, n.g)
  <1>1. /\ fr.g \in CostTables /\ fr.parent \in [Tiles -> Tiles] /\ fr.closed \in SUBSET Tiles /\ fr.band \in 0 .. Infinite
        /\ fr.open \in Seq(Entries(q)) /\ fr.later \in Seq(Entries(q))
        /\ fr.missed \in BOOLEAN /\ fr.overflowed \in BOOLEAN
    BY DEF Frontiers
  <1>2. EntriesOf(fr) \in SUBSET Entries(q)
    BY <1>1, LenProperties, ElementOfSeq DEF EntriesOf, ToSet
  <1>3. \A t \in Tiles : fr.g[t] \in 0 .. Infinite
    BY <1>1 DEF CostTables
  <1>4. \A n \in Entries(q) : /\ n.tile \in Tiles /\ n.g \in 0 .. Infinite - 1 /\ n.f \in 0 .. Infinite
                              /\ n.f = FOf(q, n.tile, n.g)
    BY DEF Entries
  <1> QED BY <1>1, <1>2, <1>3, <1>4

(* f is a cost, and no less than g. *)
LEMMA FTyped ==
  ASSUME NEW q, IsQuery(q), NEW t \in Tiles, NEW g \in 0 .. Infinite
  PROVE  /\ HOf(q, t) \in 0 .. Infinite /\ FOf(q, t, g) \in 0 .. Infinite
         /\ FOf(q, t, g) = IF g + HOf(q, t) < Infinite THEN g + HOf(q, t) ELSE Infinite
  <1>1. q.goal \in Tiles
    BY ModelOfQuery
  <1>2. HOf(q, t) \in 0 .. Infinite
    BY <1>1, HeuristicTyped DEF HOf
  <1> QED BY <1>2, SumsOnlyGrow, TransitionAssumption DEF FOf, Saturated

(* An entry's f is what it pays and what remains. *)
LEMMA NodeTyped ==
  ASSUME NEW q, IsQuery(q), NEW n \in Entries(q)
  PROVE  /\ n.tile \in Tiles /\ n.g \in 0 .. Infinite - 1 /\ n.g \in 0 .. Infinite /\ n.f \in 0 .. Infinite
         /\ n.f = FOf(q, n.tile, n.g) /\ HOf(q, n.tile) \in 0 .. Infinite
         /\ n.f = IF n.g + HOf(q, n.tile) < Infinite THEN n.g + HOf(q, n.tile) ELSE Infinite
  <1>1. n.tile \in Tiles /\ n.g \in 0 .. Infinite - 1 /\ n.f \in 0 .. Infinite /\ n.f = FOf(q, n.tile, n.g)
    BY DEF Entries
  <1>2. n.g \in 0 .. Infinite
    BY <1>1, TransitionAssumption
  <1> QED BY <1>1, <1>2, FTyped

(* Nothing remains at the goal. *)
LEMMA NothingRemains ==
  ASSUME NEW q, IsQuery(q)
  PROVE  HOf(q, q.goal) = 0
  <1> DEFINE g == q.goal
  <1>1. g \in Tiles
    BY ModelOfQuery
  <1>2. \A a \in Int : AbsDiff(a, a) = 0
    BY DEF AbsDiff
  <1>3. g[1] \in Int /\ g[2] \in Int /\ g[3] \in Int
    BY <1>1, CoordinatesOfTile
  <1> HIDE DEF g
  <1>4. Manhattan(g, g) = 0
    BY <1>2, <1>3 DEF Manhattan
  <1>5. HexDistance(g, g) = 0
    <2>1. g[1] - g[1] = 0 /\ g[2] - g[2] = 0 /\ 0 + 0 = 0 /\ AbsDiff(0, 0) = 0 /\ (0 + 0 + 0) \div 2 = 0
      BY <1>2, <1>3
    <2> QED BY <2>1 DEF HexDistance
  <1>6. OctileDistance(AbsDiff(g[DiagonalAxes[1]], g[DiagonalAxes[1]]), AbsDiff(g[DiagonalAxes[2]], g[DiagonalAxes[2]])) = 0
    <2>1. AbsDiff(g[DiagonalAxes[1]], g[DiagonalAxes[1]]) = 0 /\ AbsDiff(g[DiagonalAxes[2]], g[DiagonalAxes[2]]) = 0
      <3>1. \/ DiagonalAxes[1] = 1 /\ DiagonalAxes[2] = 2
            \/ DiagonalAxes[1] = 1 /\ DiagonalAxes[2] = 3
            \/ DiagonalAxes[1] = 2 /\ DiagonalAxes[2] = 3
        BY TwoAxes
      <3> QED BY <1>2, <1>3, <3>1
    <2>2. OctileDistance(0, 0) = 0
      BY TransitionAssumption DEF OctileDistance
    <2> QED BY <2>1, <2>2
  <1>7. Saturated(0) = 0
    BY TransitionAssumption DEF Saturated
  <1>8. Heuristic(ModelOf(q), g, g) = 0
    BY <1>4, <1>5, <1>6, <1>7 DEF Heuristic
  <1> QED BY <1>8 DEF HOf, g

(* No step comes nearer to the goal than it costs. *)
LEMMA StepsAreNear ==
  ASSUME NEW q, IsQuery(q), q.domain = Tiles, NEW s \in StepsWithin(q)
  PROVE  /\ s[1] \in Tiles /\ s[2].to \in Tiles /\ s[2].cost \in 0 .. Infinite
         /\ HOf(q, s[1]) <= s[2].cost + HOf(q, s[2].to)
  <1>1. s \in Moves /\ s[2] \in GoodProbes(ModelOf(q), s[1]) /\ s[2].kind = "legal"
    BY StepsOfQuery
  <1>2. s[1] \in Tiles /\ s[2].to \in Tiles /\ s[2].cost \in 0 .. Infinite
    BY <1>1 DEF Moves, ProbeSet
  <1>3. NearStep(ModelOf(q), s[1], s[2].to, s[2].cost)
    BY <1>1 DEF GoodProbes
  <1>4. q.goal \in Tiles
    BY ModelOfQuery
  <1> QED BY <1>2, <1>3, <1>4 DEF NearStep, HOf

(* The potential argument: while every closed tile is at or below F and    *)
(* every entry at or above it, no tile that is not closed costs less than  *)
(* F leaves for it.                                                        *)
LEMMA OpenTilesCost ==
  ASSUME NEW q, IsQuery(q), q.domain = Tiles, NEW c, IsLeast(q, c), NEW fr \in Frontiers(q),
         Explored(q, c, fr), q.goal \notin fr.closed,
         NEW F \in 0 .. Infinite, ClosedBelow(q, fr, F), EntriesFrom(fr, F)
  PROVE  \A t \in Tiles \ fr.closed : F - HOf(q, t) <= c[t]
  <1> DEFINE Fine(t) == t \in fr.closed /\ FOf(q, t, fr.g[t]) < Infinite
             Left(t) == IF F <= HOf(q, t) THEN 0 ELSE F - HOf(q, t)
             e == [t \in Tiles |-> IF Fine(t) THEN fr.g[t] ELSE Left(t)]
  <1>1. Infinite \in Nat \ {0} /\ F \in Nat
    BY TransitionAssumption
  <1>2. /\ \A t \in Tiles : fr.g[t] \in 0 .. Infinite
        /\ fr.closed \in SUBSET Tiles
        /\ \A n \in EntriesOf(fr) : /\ n.tile \in Tiles /\ n.g \in 0 .. Infinite - 1 /\ n.f \in 0 .. Infinite
                                    /\ n.f = FOf(q, n.tile, n.g)
    BY FrontierParts
  <1>3. \A t \in Tiles : /\ HOf(q, t) \in 0 .. Infinite
                         /\ FOf(q, t, fr.g[t]) = IF fr.g[t] + HOf(q, t) < Infinite THEN fr.g[t] + HOf(q, t) ELSE Infinite
    BY <1>2, FTyped
  <1>4. \A t \in Tiles : e[t] = IF Fine(t) THEN fr.g[t] ELSE Left(t)
    OBVIOUS
  <1>5. \A t \in Tiles : Left(t) \in 0 .. Infinite
    BY <1>1, <1>3
  <1>6. e \in CostTables
    <2>1. \A t \in Tiles : e[t] \in 0 .. Infinite
      <3> HIDE DEF e, Fine, Left
      <3> QED BY <1>2, <1>4, <1>5
    <2>2. e = [t \in Tiles |-> e[t]]
      OBVIOUS
    <2> HIDE DEF e
    <2> QED BY <2>1, <2>2 DEF CostTables
  <1> HIDE DEF e
  <1>7. ASSUME NEW t \in Tiles, ~Fine(t) PROVE Left(t) <= fr.g[t]
    <2>1. CASE t \in fr.closed
      <3>1. FOf(q, t, fr.g[t]) = Infinite
        BY <1>1, <1>2, <1>3, <1>7, <2>1
      <3> QED BY <1>1, <1>2, <1>3, <3>1
    <2>2. CASE t \notin fr.closed /\ fr.g[t] < Infinite
      <3>1. PICK n \in EntriesOf(fr) : n.tile = t /\ n.g = fr.g[t]
        BY <2>2 DEF Explored, Labels
      <3>2. F <= FOf(q, t, fr.g[t])
        BY <1>2, <3>1 DEF EntriesFrom
      <3> QED BY <1>1, <1>2, <1>3, <3>2
    <2>3. CASE t \notin fr.closed /\ ~(fr.g[t] < Infinite)
      <3>1. fr.g[t] = Infinite
        BY <1>1, <1>2, <2>3
      <3> QED BY <1>1, <1>3, <3>1
    <2> QED BY <2>1, <2>2, <2>3
  <1>8. e[q.start] = 0
    <2>1. q.start \in Tiles /\ fr.g[q.start] = 0
      BY ModelOfQuery DEF Explored, Labels
    <2>2. CASE Fine(q.start)
      BY <1>4, <2>1, <2>2
    <2>3. CASE ~Fine(q.start)
      <3>1. Left(q.start) <= 0 /\ Left(q.start) \in 0 .. Infinite
        BY <1>5, <1>7, <2>1, <2>3
      <3>2. Left(q.start) = 0
        <4> HIDE DEF Left
        <4> QED BY <1>1, <3>1
      <3> QED BY <1>4, <2>1, <2>3, <3>2
    <2> QED BY <2>2, <2>3
  <1>9. Relaxes(StepsWithin(q), e)
    <2> SUFFICES ASSUME NEW s \in StepsWithin(q)
                 PROVE  e[s[2].to] <= Saturated(e[s[1]] + s[2].cost)
      BY DEF Relaxes
    <2> DEFINE u == s[1]
               v == s[2].to
               k == s[2].cost
    <2>1. u \in Tiles /\ v \in Tiles /\ k \in 0 .. Infinite /\ HOf(q, u) <= k + HOf(q, v)
      BY StepsAreNear
    <2>2. /\ e[u] \in 0 .. Infinite /\ e[v] \in 0 .. Infinite
          /\ Saturated(e[u] + k) = IF e[u] + k < Infinite THEN e[u] + k ELSE Infinite
      <3>1. e[u] \in 0 .. Infinite /\ e[v] \in 0 .. Infinite
        BY <1>6, <2>1 DEF CostTables
      <3> QED BY <3>1 DEF Saturated
    <2>3. CASE Fine(u)
      <3>1. u \in fr.closed \ {q.goal} /\ FOf(q, u, fr.g[u]) < Infinite
        BY <2>3
      <3>2. fr.g[v] <= Saturated(fr.g[u] + k)
        BY <3>1 DEF Explored, Spread
      <3>3. e[u] = fr.g[u]
        BY <1>4, <2>1, <2>3
      <3>4. e[v] <= fr.g[v]
        <4>1. CASE Fine(v)
          BY <1>2, <1>4, <2>1, <4>1
        <4>2. CASE ~Fine(v)
          BY <1>4, <1>7, <2>1, <4>2
        <4> QED BY <4>1, <4>2
      <3>5. fr.g[v] \in 0 .. Infinite
        BY <1>2, <2>1
      <3>6. e[v] <= Saturated(e[u] + k)
        <4>1. e[v] <= fr.g[v] /\ fr.g[v] <= Saturated(e[u] + k)
          BY <3>2, <3>3, <3>4
        <4> HIDE DEF u, v, k
        <4> QED BY <1>1, <2>1, <2>2, <3>5, <4>1
      <3> QED BY <3>6
    <2>4. CASE ~Fine(u)
      <3>1. e[u] = Left(u)
        BY <1>4, <2>1, <2>4
      <3>2. e[v] = 0 \/ e[v] <= F - HOf(q, v)
        <4>1. CASE Fine(v)
          <5>1. e[v] = fr.g[v] /\ v \in fr.closed /\ FOf(q, v, fr.g[v]) < Infinite
            BY <1>4, <2>1, <4>1
          <5>2. FOf(q, v, fr.g[v]) <= F
            BY <5>1 DEF ClosedBelow
          <5>3. fr.g[v] \in 0 .. Infinite /\ HOf(q, v) \in 0 .. Infinite
            BY <1>2, <1>3, <2>1
          <5>4. FOf(q, v, fr.g[v]) = fr.g[v] + HOf(q, v)
            BY <1>1, <1>3, <2>1, <5>1
          <5> HIDE DEF v
          <5> QED BY <1>1, <5>1, <5>2, <5>3, <5>4
        <4>2. CASE ~Fine(v)
          <5>1. e[v] = Left(v)
            BY <1>4, <2>1, <4>2
          <5>2. HOf(q, v) \in 0 .. Infinite
            BY <1>3, <2>1
          <5> HIDE DEF v
          <5> QED BY <1>1, <5>1, <5>2
        <4> QED BY <4>1, <4>2
      <3>3. HOf(q, u) \in 0 .. Infinite /\ HOf(q, v) \in 0 .. Infinite
        BY <1>3, <2>1
      <3>4. e[u] >= F - HOf(q, u)
        <4> HIDE DEF u, v, k
        <4> QED BY <1>1, <3>1, <3>3
      <3>5. e[v] <= Saturated(e[u] + k)
        <4> HIDE DEF u, v, k, Left
        <4> QED BY <1>1, <2>1, <2>2, <3>2, <3>3, <3>4
      <3> QED BY <3>5
    <2> QED BY <2>3, <2>4
  <1>10. \A t \in Tiles : e[t] <= c[t]
    BY <1>6, <1>8, <1>9 DEF IsLeast
  <1>11. c \in CostTables
    BY DEF IsLeast
  <1> SUFFICES ASSUME NEW t \in Tiles \ fr.closed PROVE F - HOf(q, t) <= c[t]
    OBVIOUS
  <1>12. Left(t) <= c[t] /\ c[t] \in 0 .. Infinite
    BY <1>4, <1>10, <1>11 DEF CostTables
  <1> QED BY <1>1, <1>3, <1>12

(* Entries taken out of a list and put behind one. *)
LEMMA EntryTaken ==
  ASSUME NEW A, NEW s \in Seq(A), NEW i \in DOMAIN s
  PROVE  /\ s[i] \in A /\ s[i] \in ToSet(s)
         /\ RemoveAt(s, i) \in Seq(A)
         /\ ToSet(RemoveAt(s, i)) \in SUBSET ToSet(s)
         /\ \A n \in ToSet(s) : n = s[i] \/ n \in ToSet(RemoveAt(s, i))
  <1> DEFINE N == Len(s)
             a == SubSeq(s, 1, i - 1)
             b == SubSeq(s, i + 1, N)
             r == a \o b
  <1>1. N \in Nat /\ DOMAIN s = 1 .. N /\ i \in 1 .. N /\ \A k \in 1 .. N : s[k] \in A
    BY LenProperties, ElementOfSeq
  <1>2. /\ a \in Seq(A) /\ Len(a) = i - 1 /\ \A k \in 1 .. i - 1 : a[k] = s[k]
    <2>1. /\ 1 \in Int /\ i - 1 \in Int /\ \A k \in 1 .. i - 1 : s[k] \in A
      BY <1>1
    <2>2. /\ a \in Seq(A) /\ Len(a) = IF 1 <= i - 1 THEN (i - 1) - 1 + 1 ELSE 0
          /\ \A k \in 1 .. (i - 1) - 1 + 1 : a[k] = s[1 + k - 1]
      <3> HIDE DEF N
      <3> QED BY <2>1, SubSeqProperties
    <2>3. i \in Nat \ {0}
      BY <1>1
    <2>4. (i - 1) - 1 + 1 = i - 1 /\ \A k \in 1 .. i - 1 : 1 + k - 1 = k
      BY <2>3
    <2> HIDE DEF a
    <2> QED BY <2>2, <2>3, <2>4
  <1>3. /\ b \in Seq(A) /\ Len(b) = N - i /\ \A k \in 1 .. N - i : b[k] = s[i + k]
    <2>1. /\ i + 1 \in Int /\ N \in Int /\ \A k \in i + 1 .. N : s[k] \in A
      BY <1>1
    <2>2. /\ b \in Seq(A) /\ Len(b) = IF i + 1 <= N THEN N - (i + 1) + 1 ELSE 0
          /\ \A k \in 1 .. N - (i + 1) + 1 : b[k] = s[(i + 1) + k - 1]
      <3> HIDE DEF N
      <3> QED BY <2>1, SubSeqProperties
    <2>3. i \in 1 .. N /\ N \in Nat
      BY <1>1
    <2>4. N - (i + 1) + 1 = N - i /\ \A k \in 1 .. N - i : (i + 1) + k - 1 = i + k
      BY <2>3
    <2> HIDE DEF b, N
    <2> QED BY <2>2, <2>3, <2>4
  <1> HIDE DEF a, b
  <1>4. /\ r \in Seq(A) /\ Len(r) = (i - 1) + (N - i)
        /\ \A k \in 1 .. (i - 1) + (N - i) : r[k] = IF k <= i - 1 THEN a[k] ELSE b[k - (i - 1)]
    <2>1. /\ a \o b \in Seq(A) /\ Len(a \o b) = Len(a) + Len(b)
          /\ \A k \in 1 .. Len(a) + Len(b) : (a \o b)[k] = IF k <= Len(a) THEN a[k] ELSE b[k - Len(a)]
      BY <1>2, <1>3, ConcatProperties
    <2> QED BY <1>2, <1>3, <2>1
  <1> HIDE DEF r
  <1>5. Len(r) = N - 1 /\ DOMAIN r = 1 .. N - 1
    <2>1. (i - 1) + (N - i) = N - 1
      BY <1>1
    <2> QED BY <1>4, <2>1, LenProperties
  <1>6. \A k \in 1 .. N - 1 : r[k] = IF k <= i - 1 THEN s[k] ELSE s[k + 1]
    <2> SUFFICES ASSUME NEW k \in 1 .. N - 1 PROVE r[k] = IF k <= i - 1 THEN s[k] ELSE s[k + 1]
      OBVIOUS
    <2>1. k \in 1 .. (i - 1) + (N - i)
      BY <1>1
    <2>2. CASE k <= i - 1
      <3>1. k \in 1 .. i - 1
        BY <1>1, <2>2
      <3> QED BY <1>2, <1>4, <2>1, <2>2, <3>1
    <2>3. CASE ~(k <= i - 1)
      <3>1. k - (i - 1) \in 1 .. N - i /\ i + (k - (i - 1)) = k + 1
        BY <1>1, <2>3
      <3> QED BY <1>3, <1>4, <2>1, <2>3, <3>1
    <2> QED BY <2>2, <2>3
  <1>7. ASSUME NEW n \in ToSet(r) PROVE n \in ToSet(s)
    <2>1. PICK k \in 1 .. N - 1 : n = r[k]
      BY <1>5 DEF ToSet
    <2>2. k \in 1 .. N /\ k + 1 \in 1 .. N
      BY <1>1
    <2> QED BY <1>1, <1>6, <2>1, <2>2 DEF ToSet
  <1>8. ASSUME NEW n \in ToSet(s) PROVE n = s[i] \/ n \in ToSet(r)
    <2>1. PICK k \in 1 .. N : n = s[k]
      BY <1>1 DEF ToSet
    <2>2. CASE k < i
      <3>1. k \in 1 .. N - 1 /\ k <= i - 1
        BY <1>1, <2>2
      <3> QED BY <1>5, <1>6, <2>1, <3>1 DEF ToSet
    <2>3. CASE k > i
      <3>1. k - 1 \in 1 .. N - 1 /\ ~(k - 1 <= i - 1) /\ (k - 1) + 1 = k
        BY <1>1, <2>3
      <3> QED BY <1>5, <1>6, <2>1, <3>1 DEF ToSet
    <2>4. k = i \/ k < i \/ k > i
      BY <1>1
    <2> QED BY <2>1, <2>2, <2>3, <2>4
  <1>9. RemoveAt(s, i) = r
    BY DEF RemoveAt, r, a, b, N
  <1>10. s[i] \in A /\ s[i] \in ToSet(s)
    BY <1>1 DEF ToSet
  <1> QED BY <1>4, <1>7, <1>8, <1>9, <1>10

(* What appending an entry adds to a stack. *)
LEMMA EntryAppended ==
  ASSUME NEW A, NEW s \in Seq(A), NEW n \in A
  PROVE  Append(s, n) \in Seq(A) /\ ToSet(Append(s, n)) = ToSet(s) \cup {n}
  <1>1. /\ Append(s, n) \in Seq(A) /\ Len(Append(s, n)) = Len(s) + 1
        /\ \A k \in 1 .. Len(s) : Append(s, n)[k] = s[k]
        /\ Append(s, n)[Len(s) + 1] = n
    BY AppendProperties
  <1>2. /\ Len(s) \in Nat /\ DOMAIN s = 1 .. Len(s)
        /\ DOMAIN Append(s, n) = 1 .. Len(s) + 1
    BY <1>1, LenProperties
  <1>3. 1 .. Len(s) + 1 = (1 .. Len(s)) \cup {Len(s) + 1}
    BY <1>2
  <1> QED BY <1>1, <1>2, <1>3 DEF ToSet

(* The search's own terms are those of the query. *)
LEMMA TermsOfSearch ==
  /\ Model = ModelOf(query)
  /\ \A t, g : Node(t, g) = [tile |-> t, g |-> g, f |-> FOf(query, t, g)]
  /\ Banded <=> InBands(query)
  BY DEF Model, Node, FOf, HOf, Banded, InBands, OverFaces

(* Where the two stacks are used f is never cut off, and changes by 0 or   *)
(* by 2 with a step.                                                       *)
LEMMA BandSteps ==
  ASSUME NEW q, IsQuery(q), InBands(q)
  PROVE  /\ \A t \in Tiles : HOf(q, t) \in Nat /\ HOf(q, t) + Cardinality(Tiles) + 3 <= Infinite
         /\ \A from \in Tiles : \A p \in GoodProbes(ModelOf(q), from) :
              p.kind = "legal" =>
                /\ p.cost = 1 /\ p.to \in Tiles
                /\ HOf(q, p.to) = HOf(q, from) + 1 \/ HOf(q, p.to) = HOf(q, from) - 1
  <1> DEFINE m == ModelOf(q)
             g == q.goal
  <1>1. g \in Tiles /\ OverFaces(m) /\ UnitCosts(m)
    BY ModelOfQuery DEF InBands
  <1> HIDE DEF m, g
  <1>2. \A t \in Tiles : Heuristic(m, t, g) = Saturated(Manhattan(t, g))
    BY <1>1 DEF OverFaces, Heuristic
  <1>3. Size[1] \in Nat \ {0} /\ Size[2] \in Nat \ {0} /\ Size[3] \in Nat \ {0} /\ Infinite \in Nat /\ Cardinality(Tiles) \in Nat
    BY GridAssumption, TransitionAssumption, TilesAreFinite
  <1>4. Cardinality(Tiles) + Size[1] + Size[2] + Size[3] <= Infinite
    BY SearchAssumption
  <1>5. ASSUME NEW t \in Tiles
        PROVE  /\ Manhattan(t, g) \in Nat
               /\ Manhattan(t, g) + 3 <= Size[1] + Size[2] + Size[3]
    <2>1. /\ t[1] \in 0 .. Size[1] - 1 /\ t[2] \in 0 .. Size[2] - 1 /\ t[3] \in 0 .. Size[3] - 1
          /\ g[1] \in 0 .. Size[1] - 1 /\ g[2] \in 0 .. Size[2] - 1 /\ g[3] \in 0 .. Size[3] - 1
      BY <1>1, TilesAreFinite DEF Extent
    <2>2. \A n \in Nat \ {0} : \A a, b \in 0 .. n - 1 : AbsDiff(a, b) \in Nat /\ AbsDiff(a, b) + 1 <= n
      BY DEF AbsDiff
    <2>3. /\ AbsDiff(t[1], g[1]) \in Nat /\ AbsDiff(t[1], g[1]) + 1 <= Size[1]
          /\ AbsDiff(t[2], g[2]) \in Nat /\ AbsDiff(t[2], g[2]) + 1 <= Size[2]
          /\ AbsDiff(t[3], g[3]) \in Nat /\ AbsDiff(t[3], g[3]) + 1 <= Size[3]
      BY <1>3, <2>1, <2>2
    <2> QED BY <1>3, <2>3 DEF Manhattan
  <1>6. \A t \in Tiles : Heuristic(m, t, g) = Manhattan(t, g)
    <2>1. \A n \in Nat : n < Infinite => Saturated(n) = n
      BY DEF Saturated
    <2>2. \A t \in Tiles : Manhattan(t, g) < Infinite
      BY <1>3, <1>4, <1>5
    <2> QED BY <1>2, <1>5, <2>1, <2>2
  <1>7. ASSUME NEW from \in Tiles, NEW p \in GoodProbes(m, from), p.kind = "legal"
        PROVE  /\ p.cost = 1 /\ p.to \in Tiles
               /\ Manhattan(p.to, g) = Manhattan(from, g) + 1 \/ Manhattan(p.to, g) = Manhattan(from, g) - 1
    BY <1>1, <1>7 DEF GoodProbes, ProbeSet, NearStep
  <1>8. \A t \in Tiles : HOf(q, t) = Manhattan(t, g)
    BY <1>6 DEF HOf, m, g
  <1>9. \A t \in Tiles : HOf(q, t) \in Nat /\ HOf(q, t) + Cardinality(Tiles) + 3 <= Infinite
    BY <1>3, <1>4, <1>5, <1>8
  <1>10. \A from \in Tiles : \A p \in GoodProbes(m, from) :
           p.kind = "legal" =>
             /\ p.cost = 1 /\ p.to \in Tiles
             /\ HOf(q, p.to) = HOf(q, from) + 1 \/ HOf(q, p.to) = HOf(q, from) - 1
    BY <1>7, <1>8
  <1> QED BY <1>9, <1>10 DEF m

(* What an expansion maintains from probe to probe.                        *)
Growing(q, c, node, C, fr) ==
  /\ Labels(q, c, fr) /\ Bands(q, fr)
  /\ fr.closed = C /\ node.tile \in C /\ fr.g[node.tile] = node.g
  /\ ClosedBelow(q, fr, node.f) /\ EntriesFrom(fr, node.f)
  /\ Spread(q, fr, C \ {q.goal, node.tile})
  /\ InBands(q) => node.f = fr.band /\ node.g + 1 <= Cardinality(C)

(* The flags say nothing of the labels. *)
LEMMA FlagsDoNotMatter ==
  ASSUME NEW q, NEW c, NEW node, NEW C, NEW fr, Growing(q, c, node, C, fr),
         NEW w, w.g = fr.g, w.closed = fr.closed, w.band = fr.band, w.open = fr.open, w.later = fr.later
  PROVE  Growing(q, c, node, C, w)
  <1>1. EntriesOf(w) = EntriesOf(fr)
    BY DEF EntriesOf
  <1>2. Labels(q, c, w) /\ Bands(q, w)
    BY <1>1 DEF Growing, Labels, Bands
  <1>3. ClosedBelow(q, w, node.f) /\ EntriesFrom(w, node.f) /\ Spread(q, w, C \ {q.goal, node.tile})
    BY <1>1 DEF Growing, ClosedBelow, EntriesFrom, Spread
  <1> QED BY <1>2, <1>3 DEF Growing

(* A cheaper label takes the place of the old one, with an entry.          *)
Replaces(q, node, C, fr, probe, cost, n, w) ==
  /\ probe.kind = "legal" /\ <<node.tile, probe>> \in StepsWithin(q) /\ probe.to \notin C
  /\ cost \in 0 .. Infinite - 1 /\ cost = Saturated(node.g + probe.cost) /\ cost < fr.g[probe.to]
  /\ n = [tile |-> probe.to, g |-> cost, f |-> FOf(q, probe.to, cost)]
  /\ w \in Frontiers(q)
  /\ w.g = [fr.g EXCEPT ![probe.to] = cost] /\ w.closed = C /\ w.band = fr.band
  /\ \/ w.open = Append(fr.open, n) /\ w.later = fr.later /\ (InBands(q) => n.f = fr.band)
     \/ w.open = fr.open /\ w.later = Append(fr.later, n) /\ InBands(q) /\ n.f = fr.band + 2

(* A frontier whose label was replaced is still one in growth. *)
LEMMA CheaperGrows ==
  ASSUME NEW q, IsQuery(q), q.domain = Tiles, NEW c, IsLeast(q, c),
         NEW node \in Entries(q), NEW C, NEW fr \in Frontiers(q), Growing(q, c, node, C, fr),
         NEW probe \in GoodProbes(ModelOf(q), node.tile),
         NEW cost, NEW n, NEW w, Replaces(q, node, C, fr, probe, cost, n, w)
  PROVE  /\ Growing(q, c, node, C, w)
         /\ \A t \in Tiles : w.g[t] <= fr.g[t]
  <1> DEFINE to == probe.to
  <1> SUFFICES ASSUME
                 probe.kind = "legal", <<node.tile, probe>> \in StepsWithin(q), probe.to \notin C,
                 cost \in 0 .. Infinite - 1, cost = Saturated(node.g + probe.cost), cost < fr.g[probe.to],
                 n = [tile |-> probe.to, g |-> cost, f |-> FOf(q, probe.to, cost)],
                 w \in Frontiers(q),
                 w.g = [fr.g EXCEPT ![probe.to] = cost], w.closed = C, w.band = fr.band,
                 \/ w.open = Append(fr.open, n) /\ w.later = fr.later /\ (InBands(q) => n.f = fr.band)
                 \/ w.open = fr.open /\ w.later = Append(fr.later, n) /\ InBands(q) /\ n.f = fr.band + 2
               PROVE  /\ Growing(q, c, node, C, w)
                      /\ \A t \in Tiles : w.g[t] <= fr.g[t]
    BY DEF Replaces
  <1>1. Infinite \in Nat \ {0}
    BY TransitionAssumption
  <1>2. /\ fr.g \in CostTables /\ fr.closed \in SUBSET Tiles
        /\ fr.open \in Seq(Entries(q)) /\ fr.later \in Seq(Entries(q))
        /\ \A t \in Tiles : fr.g[t] \in 0 .. Infinite
        /\ \A x \in EntriesOf(fr) : x.tile \in Tiles /\ x.g \in 0 .. Infinite - 1
    BY FrontierParts
  <1>3. to \in Tiles /\ probe.cost \in 0 .. Infinite
    BY DEF GoodProbes, ProbeSet
  <1>4. /\ node.tile \in Tiles /\ node.g \in 0 .. Infinite - 1 /\ node.f \in 0 .. Infinite
        /\ node.f = FOf(q, node.tile, node.g)
    BY NodeTyped
  <1>19. cost \in 0 .. Infinite /\ node.g \in 0 .. Infinite
    BY <1>1, <1>4
  <1>5. /\ w.g[to] = cost /\ \A t \in Tiles : t # to => w.g[t] = fr.g[t]
    BY <1>2, <1>3 DEF CostTables
  <1>6. n \in Entries(q) /\ n.tile = to /\ n.g = cost /\ n.f = FOf(q, to, cost) /\ n.f \in 0 .. Infinite
    <2>1. FOf(q, to, cost) \in 0 .. Infinite
      BY <1>3, <1>19, FTyped
    <2> QED BY <1>3, <2>1 DEF Entries
  <1>0. ToSet(Append(fr.open, n)) = ToSet(fr.open) \cup {n} /\ ToSet(Append(fr.later, n)) = ToSet(fr.later) \cup {n}
    <2> DEFINE A == Entries(q)
    <2>1. fr.open \in Seq(A) /\ fr.later \in Seq(A) /\ n \in A
      BY <1>2, <1>6
    <2> HIDE DEF A
    <2> QED BY <2>1, EntryAppended
  <1>7. EntriesOf(w) = EntriesOf(fr) \cup {n}
    <2> DEFINE A == ToSet(fr.open)
               B == ToSet(fr.later)
    <2>1. \/ ToSet(w.open) = A \cup {n} /\ ToSet(w.later) = B
          \/ ToSet(w.open) = A /\ ToSet(w.later) = B \cup {n}
      BY <1>0
    <2>2. EntriesOf(fr) = A \cup B /\ EntriesOf(w) = ToSet(w.open) \cup ToSet(w.later)
      BY DEF EntriesOf
    <2> HIDE DEF A, B
    <2> QED BY <2>1, <2>2
  <1>8. \A t \in Tiles : w.g[t] <= fr.g[t]
    BY <1>1, <1>2, <1>5
  <1>9. fr.closed = C /\ Labels(q, c, fr) /\ C \in SUBSET Tiles
    BY <1>2 DEF Growing
  <1>10. \A t \in C : w.g[t] = fr.g[t] /\ t \in Tiles
    BY <1>5, <1>9
  <1> HIDE DEF to
  <1>11. c[to] <= cost
    <2>1. c[to] <= Saturated(c[node.tile] + probe.cost)
      <3> DEFINE s == <<node.tile, probe>>
      <3>1. s[1] = node.tile /\ s[2] = probe
        OBVIOUS
      <3>2. c[s[2].to] <= Saturated(c[s[1]] + s[2].cost)
        BY DEF IsLeast, Relaxes
      <3> HIDE DEF s
      <3> QED BY <3>1, <3>2 DEF to
    <2>2. c[node.tile] \in 0 .. Infinite /\ c[to] \in 0 .. Infinite
      BY <1>3, <1>4 DEF IsLeast, CostTables
    <2>3. c[node.tile] <= node.g
      BY <1>4, <1>9 DEF Labels, Growing
    <2>4. /\ Saturated(c[node.tile] + probe.cost) <= Saturated(node.g + probe.cost)
          /\ Saturated(c[node.tile] + probe.cost) \in 0 .. Infinite
      <3>1. node.g \in 0 .. Infinite
        BY <1>1, <1>4
      <3> QED BY <1>3, <2>2, <2>3, <3>1, SumsAreMonotone, SumsOnlyGrow
    <2> QED BY <1>1, <2>1, <2>2, <2>4
  <1>12. Labels(q, c, w)
    <2>1. w.g[q.start] = 0
      <3>1. fr.g[q.start] = 0 /\ q.start \in Tiles
        BY <1>9, ModelOfQuery DEF Labels
      <3>2. q.start # to
        <4>1. ASSUME q.start = to PROVE FALSE
          BY <1>1, <3>1, <4>1 DEF to
        <4> QED BY <4>1
      <3> QED BY <1>5, <3>1, <3>2
    <2>2. \A t \in Tiles : c[t] <= w.g[t]
      BY <1>5, <1>9, <1>11 DEF Labels
    <2>3. \A t \in w.closed : w.g[t] < Infinite
      BY <1>9, <1>10 DEF Labels
    <2>4. \A t \in w.closed : FOf(q, t, w.g[t]) < Infinite => w.g[t] = c[t]
      BY <1>9, <1>10 DEF Labels
    <2>5. ASSUME NEW t \in Tiles \ w.closed, w.g[t] < Infinite
          PROVE  \E x \in EntriesOf(w) : x.tile = t /\ x.g = w.g[t]
      <3>1. CASE t = to
        BY <1>5, <1>6, <1>7, <3>1
      <3>2. CASE t # to
        BY <1>5, <1>7, <1>9, <2>5, <3>2 DEF Labels
      <3> QED BY <3>1, <3>2
    <2>6. ASSUME NEW x \in EntriesOf(w) PROVE w.g[x.tile] <= x.g
      <3>1. CASE x = n
        BY <1>1, <1>5, <1>6, <3>1
      <3>2. CASE x \in EntriesOf(fr)
        <4>1. fr.g[x.tile] <= x.g /\ x.tile \in Tiles /\ x.g \in 0 .. Infinite - 1
          BY <1>2, <1>9, <3>2 DEF Labels
        <4>2. w.g[x.tile] <= fr.g[x.tile] /\ fr.g[x.tile] \in 0 .. Infinite
          BY <1>2, <1>8, <4>1
        <4>3. w.g[x.tile] \in 0 .. Infinite
          BY <1>1, <1>2, <1>5, <4>1
        <4> QED BY <1>1, <4>1, <4>2, <4>3
      <3> QED BY <1>7, <3>1, <3>2
    <2> QED BY <2>1, <2>2, <2>3, <2>4, <2>5, <2>6 DEF Labels
  <1>13. Bands(q, w)
    <2>1. CASE InBands(q)
      <3>1. /\ \A x \in ToSet(fr.open) : x.f = fr.band
            /\ \A x \in ToSet(fr.later) : x.f = fr.band + 2
            /\ \A x \in EntriesOf(fr) : x.g <= Cardinality(C)
            /\ node.g + 1 <= Cardinality(C)
        BY <1>9, <2>1 DEF Growing, Bands
      <3>2. /\ \A x \in ToSet(w.open) : x.f = w.band
            /\ \A x \in ToSet(w.later) : x.f = w.band + 2
        <4>1. \/ ToSet(w.open) = ToSet(fr.open) \cup {n} /\ ToSet(w.later) = ToSet(fr.later) /\ n.f = fr.band
              \/ ToSet(w.open) = ToSet(fr.open) /\ ToSet(w.later) = ToSet(fr.later) \cup {n} /\ n.f = fr.band + 2
          BY <1>0, <2>1
        <4> QED BY <3>1, <4>1
      <3>3. n.g <= Cardinality(C)
        <4>1. probe.cost = 1
          BY <1>4, <2>1, BandSteps
        <4>2. node.g + 1 < Infinite \/ node.g + 1 = Infinite
          BY <1>1, <1>4
        <4>3. Saturated(node.g + 1) = node.g + 1
          BY <4>2 DEF Saturated
        <4> QED BY <1>6, <3>1, <4>1, <4>3
      <3>4. \A x \in EntriesOf(w) : x.g <= Cardinality(C)
        BY <1>7, <3>1, <3>3
      <3> QED BY <2>1, <3>2, <3>4 DEF Bands
    <2>2. CASE ~InBands(q)
      BY <2>2 DEF Growing, Bands
    <2> QED BY <2>1, <2>2
  <1>14. ClosedBelow(q, w, node.f)
    BY <1>10 DEF Growing, ClosedBelow
  <1>15. EntriesFrom(w, node.f)
    <2>1. node.f <= n.f
      <3> DEFINE h == HOf(q, node.tile)
                 k == HOf(q, to)
                 d == probe.cost
      <3>1. h \in 0 .. Infinite /\ k \in 0 .. Infinite /\ d \in 0 .. Infinite /\ h <= d + k
        <4>1. h \in 0 .. Infinite /\ k \in 0 .. Infinite
          <5>1. 0 \in 0 .. Infinite
            BY <1>1
          <5> QED BY <1>3, <1>4, <5>1, FTyped
        <4>2. NearStep(ModelOf(q), node.tile, to, d) /\ q.goal \in Tiles
          BY ModelOfQuery DEF GoodProbes, to
        <4>3. h <= d + k
          BY <4>2 DEF NearStep, HOf
        <4> QED BY <1>3, <4>1, <4>3
      <3>2. node.f = IF node.g + h < Infinite THEN node.g + h ELSE Infinite
        BY NodeTyped
      <3>3. n.f = IF cost + k < Infinite THEN cost + k ELSE Infinite
        <4>1. FOf(q, to, cost) = IF cost + k < Infinite THEN cost + k ELSE Infinite
          BY <1>3, <1>19, FTyped
        <4> HIDE DEF k
        <4> QED BY <1>6, <4>1
      <3>4. cost = IF node.g + d < Infinite THEN node.g + d ELSE Infinite
        BY DEF Saturated
      <3> HIDE DEF h, k, d
      <3>5. cost = node.g + d
        <4>1. node.g + d < Infinite
          BY <1>1, <1>4, <3>1, <3>4
        <4> QED BY <3>4, <4>1
      <3> QED BY <1>1, <1>4, <3>1, <3>2, <3>3, <3>5
    <2> QED BY <1>7, <2>1 DEF Growing, EntriesFrom
  <1>16. Spread(q, w, C \ {q.goal, node.tile})
    <2> SUFFICES ASSUME NEW s \in StepsWithin(q), s[1] \in C \ {q.goal, node.tile}, FOf(q, s[1], w.g[s[1]]) < Infinite
                 PROVE  w.g[s[2].to] <= Saturated(w.g[s[1]] + s[2].cost)
      BY DEF Spread
    <2>1. s[2].to \in Tiles /\ s[2].cost \in 0 .. Infinite
      BY StepsAreNear
    <2>2. w.g[s[1]] = fr.g[s[1]] /\ fr.g[s[1]] \in 0 .. Infinite
      BY <1>2, <1>10
    <2>3. fr.g[s[2].to] <= Saturated(fr.g[s[1]] + s[2].cost)
      BY <2>2 DEF Growing, Spread
    <2>4. w.g[s[2].to] <= fr.g[s[2].to] /\ fr.g[s[2].to] \in 0 .. Infinite /\ w.g[s[2].to] \in 0 .. Infinite
      BY <1>1, <1>2, <1>5, <1>8, <2>1
    <2>5. Saturated(fr.g[s[1]] + s[2].cost) \in 0 .. Infinite
      BY <2>1, <2>2, SumsOnlyGrow
    <2> QED BY <1>1, <2>2, <2>3, <2>4, <2>5
  <1>17. w.g[node.tile] = node.g
    BY <1>10 DEF Growing
  <1> QED BY <1>8, <1>12, <1>13, <1>14, <1>15, <1>16, <1>17 DEF Growing

(* One relaxation, whichever way it goes.                                  *)
LEMMA RelaxedGrows ==
  ASSUME IsQuery(query), query.domain = Tiles, NEW c, IsLeast(query, c),
         NEW node \in Entries(query), NEW C, NEW fr \in Frontiers(query), Growing(query, c, node, C, fr),
         NEW probe \in GoodProbes(ModelOf(query), node.tile),
         probe.kind = "legal" => <<node.tile, probe>> \in StepsWithin(query)
  PROVE  /\ Relaxed(fr, node, probe) \in Frontiers(query)
         /\ Growing(query, c, node, C, Relaxed(fr, node, probe))
         /\ \A t \in Tiles : Relaxed(fr, node, probe).g[t] <= fr.g[t]
         /\ probe.kind = "legal" /\ node.f < Infinite
              => Relaxed(fr, node, probe).g[probe.to] <= Saturated(node.g + probe.cost)
  <1> DEFINE q == query
             cost == Saturated(node.g + probe.cost)
             tentative == IF Banded THEN node.g + 1 ELSE cost
             to == probe.to
             r == Relaxed(fr, node, probe)
  <1>1. Infinite \in Nat \ {0}
    BY TransitionAssumption
  <1>2. /\ fr.g \in CostTables /\ fr.closed \in SUBSET Tiles /\ fr.parent \in [Tiles -> Tiles] /\ fr.band \in 0 .. Infinite
        /\ fr.open \in Seq(Entries(q)) /\ fr.later \in Seq(Entries(q))
        /\ \A t \in Tiles : fr.g[t] \in 0 .. Infinite
    BY FrontierParts
  <1>3. to \in Tiles /\ probe.cost \in 0 .. Infinite /\ probe.kind \in {"legal", "missing", "overflow"}
    BY DEF GoodProbes, ProbeSet
  <1>4. /\ node.tile \in Tiles /\ node.g \in 0 .. Infinite - 1 /\ node.f \in 0 .. Infinite
        /\ node.f = FOf(q, node.tile, node.g)
    BY DEF Entries
  <1>5. fr.closed = C /\ Labels(q, c, fr) /\ fr.g[node.tile] = node.g /\ ClosedBelow(q, fr, node.f)
    BY DEF Growing
  <1>6. cost \in 0 .. Infinite /\ node.g \in 0 .. Infinite
    <2>1. node.g \in 0 .. Infinite
      BY <1>1, <1>4
    <2> QED BY <1>3, <2>1, SumsOnlyGrow
  <1>7. \A t \in Tiles : fr.g[t] <= fr.g[t]
    BY <1>1, <1>2
  <1>8. r = IF probe.kind = "missing" THEN [fr EXCEPT !.missed = TRUE]
            ELSE IF probe.kind = "overflow" THEN [fr EXCEPT !.overflowed = TRUE]
            ELSE IF to \in fr.closed THEN fr
            ELSE IF tentative = Infinite /\ ~Banded THEN [fr EXCEPT !.overflowed = TRUE]
            ELSE IF tentative >= fr.g[to] THEN fr
            ELSE Pushed([fr EXCEPT !.g[to] = tentative, !.parent[to] = node.tile], Node(to, tentative))
    BY Zenon DEF Relaxed
  <1>9. [fr EXCEPT !.missed = TRUE] \in Frontiers(q) /\ [fr EXCEPT !.overflowed = TRUE] \in Frontiers(q)
    BY DEF Frontiers
  <1>10. \A w \in {[fr EXCEPT !.missed = TRUE], [fr EXCEPT !.overflowed = TRUE]} :
           w \in Frontiers(q) /\ Growing(q, c, node, C, w) /\ w.g = fr.g
    <2> SUFFICES ASSUME NEW w, w = [fr EXCEPT !.missed = TRUE] \/ w = [fr EXCEPT !.overflowed = TRUE]
                 PROVE  w \in Frontiers(q) /\ Growing(q, c, node, C, w) /\ w.g = fr.g
      OBVIOUS
    <2>1. w \in Frontiers(q)
      BY <1>9
    <2>2. w.g = fr.g /\ w.closed = fr.closed /\ w.band = fr.band /\ w.open = fr.open /\ w.later = fr.later
      BY DEF Frontiers
    <2> HIDE DEF r, cost, tentative, to
    <2>3. Growing(q, c, node, C, w)
      BY <2>2, FlagsDoNotMatter
    <2> QED BY <2>1, <2>2, <2>3
  <1>11. CASE probe.kind # "legal"
    <2>1. r \in {[fr EXCEPT !.missed = TRUE], [fr EXCEPT !.overflowed = TRUE]}
      BY <1>3, <1>8, <1>11
    <2> HIDE DEF r
    <2> QED BY <1>7, <1>10, <1>11, <2>1 DEF r
  <1>12. CASE probe.kind = "legal" /\ to \in fr.closed
    <2>1. r = fr
      BY <1>8, <1>12
    <2>2. ASSUME node.f < Infinite PROVE fr.g[to] <= cost
      <3>1. FOf(q, to, fr.g[to]) <= node.f /\ FOf(q, to, fr.g[to]) \in 0 .. Infinite
        BY <1>1, <1>2, <1>3, <1>5, <1>12, FTyped DEF ClosedBelow
      <3>2. FOf(q, to, fr.g[to]) < Infinite
        BY <1>1, <1>4, <2>2, <3>1
      <3>3. fr.g[to] = c[to]
        BY <1>5, <1>12, <3>2 DEF Labels
      <3>4. c[to] <= Saturated(c[node.tile] + probe.cost)
        <4> DEFINE s == <<node.tile, probe>>
        <4>1. s[1] = node.tile /\ s[2] = probe
          OBVIOUS
        <4>2. c[s[2].to] <= Saturated(c[s[1]] + s[2].cost)
          BY <1>12 DEF IsLeast, Relaxes
        <4> HIDE DEF s
        <4> QED BY <4>1, <4>2
      <3>5. c[node.tile] <= node.g /\ c[node.tile] \in 0 .. Infinite /\ c[to] \in 0 .. Infinite
        BY <1>3, <1>4, <1>5 DEF Labels, IsLeast, CostTables
      <3>6. /\ Saturated(c[node.tile] + probe.cost) <= cost
            /\ Saturated(c[node.tile] + probe.cost) \in 0 .. Infinite
        BY <1>3, <1>6, <3>5, SumsAreMonotone, SumsOnlyGrow
      <3> HIDE DEF cost, to
      <3> QED BY <1>1, <1>6, <3>3, <3>4, <3>5, <3>6
    <2> HIDE DEF r
    <2> QED BY <1>7, <2>1, <2>2 DEF r
  <1>13. CASE probe.kind = "legal" /\ to \notin fr.closed
    <2>1. /\ tentative = cost
          /\ Banded => tentative < Infinite
      <3>1. CASE Banded
        <4>1. InBands(q)
          BY <3>1, TermsOfSearch
        <4>2. probe.cost = 1
          BY <1>4, <1>13, <4>1, BandSteps
        <4>3. node.g + 1 <= Cardinality(C)
          BY <4>1 DEF Growing
        <4>4. Cardinality(C) <= Cardinality(Tiles) /\ Cardinality(C) \in Nat /\ Cardinality(Tiles) \in Nat
          BY <1>2, <1>5, TilesAreFinite, FS_Subset, FS_CardinalityType
        <4>5. HOf(q, to) \in Nat /\ HOf(q, to) + Cardinality(Tiles) + 3 <= Infinite
          BY <1>3, <4>1, BandSteps
        <4>6. node.g + 1 < Infinite
          BY <1>1, <1>4, <4>3, <4>4, <4>5
        <4>7. cost = node.g + 1
          BY <4>2, <4>6 DEF Saturated
        <4> QED BY <3>1, <4>6, <4>7
      <3>2. CASE ~Banded
        BY <3>2
      <3> QED BY <3>1, <3>2
    <2>2. CASE tentative = Infinite /\ ~Banded
      <3>1. r = [fr EXCEPT !.overflowed = TRUE]
        BY <1>8, <1>13, <2>2
      <3>2. fr.g[to] <= cost
        BY <1>1, <1>2, <1>3, <2>1, <2>2
      <3> HIDE DEF r, cost, tentative, to
      <3> QED BY <1>7, <1>10, <3>1, <3>2 DEF r, cost, to
    <2>3. CASE ~(tentative = Infinite /\ ~Banded) /\ tentative >= fr.g[to]
      <3>1. r = fr
        BY <1>8, <1>13, <2>3
      <3>2. fr.g[to] <= cost
        BY <1>1, <1>2, <1>3, <1>6, <2>1, <2>3
      <3> HIDE DEF r, cost, tentative, to
      <3> QED BY <1>7, <3>1, <3>2 DEF r, cost, to
    <2>4. CASE ~(tentative = Infinite /\ ~Banded) /\ ~(tentative >= fr.g[to])
      <3> DEFINE n == [tile |-> to, g |-> cost, f |-> FOf(q, to, cost)]
                 gg == [fr.g EXCEPT ![to] = cost]
                 pp == [fr.parent EXCEPT ![to] = node.tile]
                 late == Banded /\ n.f > fr.band
                 w == [g |-> gg, parent |-> pp, closed |-> fr.closed, band |-> fr.band,
                       open |-> IF late THEN fr.open ELSE Append(fr.open, n),
                       later |-> IF late THEN Append(fr.later, n) ELSE fr.later,
                       missed |-> fr.missed, overflowed |-> fr.overflowed]
      <3>1. cost \in 0 .. Infinite - 1 /\ cost < fr.g[to]
        <4>1. cost # Infinite
          BY <1>1, <1>6, <2>1, <2>4
        <4>2. ~(cost >= fr.g[to]) /\ fr.g[to] \in 0 .. Infinite
          BY <1>2, <1>3, <2>1, <2>4
        <4> HIDE DEF cost, to
        <4> QED BY <1>1, <1>6, <4>1, <4>2
      <3>2. n \in Entries(q) /\ n.f \in 0 .. Infinite
        <4>1. FOf(q, to, cost) \in 0 .. Infinite
          BY <1>3, <1>6, FTyped
        <4> HIDE DEF cost
        <4> QED BY <1>3, <3>1, <4>1 DEF Entries
      <3>3. Node(to, tentative) = n
        BY <2>1, TermsOfSearch
      <3>4. r = Pushed([fr EXCEPT !.g[to] = cost, !.parent[to] = node.tile], n)
        <4>1. r = Pushed([fr EXCEPT !.g[to] = tentative, !.parent[to] = node.tile], Node(to, tentative))
          BY <1>8, <1>13, <2>4
        <4> HIDE DEF r, n, tentative, cost
        <4> QED BY <2>1, <3>3, <4>1
      <3>5. fr = [g |-> fr.g, parent |-> fr.parent, closed |-> fr.closed, band |-> fr.band, open |-> fr.open,
                  later |-> fr.later, missed |-> fr.missed, overflowed |-> fr.overflowed]
        BY DEF Frontiers
      <3>6. r = w
        <4> DEFINE v == [fr EXCEPT !.g[to] = cost, !.parent[to] = node.tile]
                   v1 == [g |-> gg, parent |-> pp, closed |-> fr.closed, band |-> fr.band, open |-> fr.open,
                          later |-> fr.later, missed |-> fr.missed, overflowed |-> fr.overflowed]
        <4>1. v = [[fr EXCEPT !.g = gg] EXCEPT !.parent = pp]
          <5>1. [fr EXCEPT !.g = gg].parent = fr.parent
            BY <3>5
          <5> QED BY <5>1, Zenon
        <4>2. v = v1
          <5> HIDE DEF v, gg, pp
          <5> QED BY <3>5, <4>1
        <4>3. r = IF Banded /\ n.f > v.band THEN [v EXCEPT !.later = Append(@, n)] ELSE [v EXCEPT !.open = Append(@, n)]
          <5> HIDE DEF r, n, cost
          <5> QED BY <3>4 DEF Pushed
        <4> HIDE DEF v, r, n, gg, pp
        <4>4. v.band = fr.band
          BY <4>2
        <4>5. CASE late
          <5>1. r = [v EXCEPT !.later = Append(@, n)]
            BY <4>3, <4>4, <4>5
          <5> QED BY <4>2, <4>5, <5>1
        <4>6. CASE ~late
          <5>1. r = [v EXCEPT !.open = Append(@, n)]
            BY <4>3, <4>4, <4>6
          <5> QED BY <4>2, <4>6, <5>1
        <4> QED BY <4>5, <4>6
      <3>7. w \in Frontiers(q)
        <4>1. gg \in CostTables
          <5> HIDE DEF cost
          <5> QED BY <1>2, <1>3, <1>6 DEF CostTables
        <4>2. pp \in [Tiles -> Tiles]
          BY <1>2, <1>3, <1>4
        <4>3. Append(fr.open, n) \in Seq(Entries(q)) /\ Append(fr.later, n) \in Seq(Entries(q))
          <5> HIDE DEF n
          <5> QED BY <1>2, <3>2, EntryAppended
        <4>4. fr.missed \in BOOLEAN /\ fr.overflowed \in BOOLEAN
          BY FrontierParts
        <4> HIDE DEF gg, pp, n, late
        <4> QED BY <1>2, <4>1, <4>2, <4>3, <4>4 DEF Frontiers
      <3>8. \/ w.open = Append(fr.open, n) /\ w.later = fr.later /\ (InBands(q) => n.f = fr.band)
            \/ w.open = fr.open /\ w.later = Append(fr.later, n) /\ InBands(q) /\ n.f = fr.band + 2
        <4>1. InBands(q) => n.f = fr.band \/ n.f = fr.band + 2
          <5> SUFFICES ASSUME InBands(q) PROVE n.f = fr.band \/ n.f = fr.band + 2
            OBVIOUS
          <5> DEFINE h == HOf(q, node.tile)
                     k == HOf(q, to)
          <5>1. probe.cost = 1 /\ (k = h + 1 \/ k = h - 1)
            BY <1>4, <1>13, BandSteps
          <5>2. node.g + 1 <= Cardinality(C) /\ node.f = fr.band
            BY DEF Growing
          <5>3. Cardinality(C) <= Cardinality(Tiles) /\ Cardinality(C) \in Nat /\ Cardinality(Tiles) \in Nat
            BY <1>2, <1>5, TilesAreFinite, FS_Subset, FS_CardinalityType
          <5>4. /\ h \in Nat /\ h + Cardinality(Tiles) + 3 <= Infinite
                /\ k \in Nat /\ k + Cardinality(Tiles) + 3 <= Infinite
            BY <1>3, <1>4, BandSteps
          <5>5. node.f = IF node.g + h < Infinite THEN node.g + h ELSE Infinite
            BY <1>4, <1>6, FTyped
          <5>6. n.f = IF cost + k < Infinite THEN cost + k ELSE Infinite
            BY <1>3, <1>6, FTyped
          <5>7. cost = node.g + 1
            <6>1. node.g + 1 < Infinite
              <7> HIDE DEF k, h
              <7> QED BY <1>1, <1>4, <5>2, <5>3, <5>4
            <6> QED BY <5>1, <6>1 DEF Saturated
          <5> HIDE DEF h, k, n, cost
          <5>8. node.f = node.g + h
            BY <1>1, <1>4, <5>2, <5>3, <5>4, <5>5
          <5>9. n.f = node.g + 1 + k
            BY <1>1, <1>4, <5>2, <5>3, <5>4, <5>6, <5>7
          <5> QED BY <1>1, <1>4, <5>1, <5>2, <5>4, <5>8, <5>9
        <4>2. Banded <=> InBands(q)
          BY TermsOfSearch
        <4>3. CASE late
          <5>1. n.f # fr.band
            <6> HIDE DEF n
            <6> QED BY <1>2, <3>2, <4>3, <1>1
          <5> HIDE DEF n
          <5> QED BY <4>1, <4>2, <4>3, <5>1
        <4>4. CASE ~late
          <5>1. InBands(q) => n.f # fr.band + 2
            <6> HIDE DEF n
            <6> QED BY <1>1, <1>2, <3>2, <4>2, <4>4
          <5> HIDE DEF n
          <5> QED BY <4>1, <4>2, <4>4, <5>1
        <4> QED BY <4>3, <4>4
      <3>9. w.g = [fr.g EXCEPT ![to] = cost] /\ w.closed = C /\ w.band = fr.band
        BY <1>5
      <3>10. Growing(q, c, node, C, w) /\ \A t \in Tiles : w.g[t] <= fr.g[t]
        <4>1. to \notin C /\ <<node.tile, probe>> \in StepsWithin(q)
          BY <1>5, <1>13
        <4>2. n = [tile |-> probe.to, g |-> cost, f |-> FOf(q, probe.to, cost)] /\ cost = Saturated(node.g + probe.cost)
          OBVIOUS
        <4>3. cost \in 0 .. Infinite - 1 /\ cost < fr.g[probe.to] /\ w.g = [fr.g EXCEPT ![probe.to] = cost]
              /\ probe.to \notin C /\ probe.kind = "legal"
          BY <1>13, <3>1, <3>9, <4>1
        <4> HIDE DEF w, n, cost, r, tentative, gg, pp, late, to
        <4>4. Replaces(q, node, C, fr, probe, cost, n, w)
          BY <3>7, <3>8, <3>9, <4>1, <4>2, <4>3 DEF Replaces
        <4> QED BY <4>4, CheaperGrows
      <3>11. w.g[to] = cost
        <4> HIDE DEF cost
        <4> QED BY <1>2, <1>3 DEF CostTables
      <3>12. cost <= cost
        BY <1>1, <1>6
      <3> HIDE DEF w, r, n, gg, pp, late, tentative
      <3> QED BY <3>6, <3>7, <3>10, <3>11, <3>12 DEF r
    <2> QED BY <2>2, <2>3, <2>4
  <1> QED BY <1>3, <1>11, <1>12, <1>13

(* An expansion is a fold of relaxations.                                  *)
Closing(fr, t) == [fr EXCEPT !.closed = @ \cup {t}]
Expands(F, fr, node) ==
  F = [s \in SUBSET (DOMAIN ForwardProbes(Model, Field, node.tile)) |->
         IF s = {} THEN [fr EXCEPT !.closed = @ \cup {node.tile}]
         ELSE Relaxed(F[s \ {Max(s)}], node, ForwardProbes(Model, Field, node.tile)[Max(s)])]

(* The fold that Expanded runs. *)
LEMMA ExpandedUnfolds ==
  ASSUME NEW fr, NEW node
  PROVE  Expanded(fr, node) = (CHOOSE F : Expands(F, fr, node))[DOMAIN ForwardProbes(Model, Field, node.tile)]
  BY Zenon DEF Expanded, FoldLeft, MapThenFoldSet, Expands

(* ... that keeps the labels, and relaxes every step out of the tile.      *)
LEMMA ExpandedGrows ==
  ASSUME IsQuery(query), query.domain = Tiles, NEW c, IsLeast(query, c),
         NEW node \in Entries(query), NEW C, NEW fr,
         Closing(fr, node.tile) \in Frontiers(query), Growing(query, c, node, C, Closing(fr, node.tile))
  PROVE  /\ Expanded(fr, node) \in Frontiers(query)
         /\ Growing(query, c, node, C, Expanded(fr, node))
         /\ node.f < Infinite =>
              \A s \in StepsWithin(query) :
                s[1] = node.tile => Expanded(fr, node).g[s[2].to] <= Saturated(node.g + s[2].cost)
  <1> DEFINE q == query
             probes == ForwardProbes(Model, Field, node.tile)
             N == Len(probes)
             z == Closing(fr, node.tile)
             A == {x \in Frontiers(q) : Growing(q, c, node, C, x)}
             step == [x \in (1 .. N) \X A |-> Relaxed(x[2], node, probes[x[1]])]
             F == CHOOSE f : Expands(f, fr, node)
  <1>1. node.tile \in Tiles /\ node.g \in 0 .. Infinite /\ IsModel(ModelOf(q))
    BY NodeTyped, ModelOfQuery
  <1>2. probes = ForwardProbes(ModelOf(q), q.field, node.tile)
    BY DEF Model, Field
  <1>3. probes \in Seq(GoodProbes(ModelOf(q), node.tile))
    <2> HIDE DEF probes
    <2> QED BY <1>1, <1>2, ForwardIsGood
  <1>4. /\ N \in Nat /\ DOMAIN probes = 1 .. N
        /\ \A i \in 1 .. N : probes[i] \in GoodProbes(ModelOf(q), node.tile)
    <2> HIDE DEF probes
    <2> QED BY <1>3, LenProperties, ElementOfSeq
  <1>5. ASSUME NEW i \in 1 .. N, probes[i].kind = "legal" PROVE <<node.tile, probes[i]>> \in StepsWithin(q)
    <2> DEFINE s == <<node.tile, probes[i]>>
    <2>1. probes[i] \in LegalSteps(ModelOf(q), q.field, node.tile)
      <3> HIDE DEF probes
      <3> QED BY <1>2, <1>4, <1>5 DEF LegalSteps, ToSet
    <2>2. s[1] = node.tile /\ s[2] = probes[i]
      OBVIOUS
    <2>3. s \in Moves
      <3> HIDE DEF probes
      <3> QED BY <1>1, <1>4 DEF Moves, GoodProbes
    <2> HIDE DEF s, probes
    <2> QED BY <2>1, <2>2, <2>3, StepsOfQuery DEF s
  <1>6. ASSUME NEW s \in StepsWithin(q), s[1] = node.tile
        PROVE  \E i \in 1 .. N : s[2] = probes[i] /\ probes[i].kind = "legal"
    <2>1. s[2] \in LegalSteps(ModelOf(q), q.field, node.tile) /\ s[2].kind = "legal"
      BY <1>6, StepsOfQuery
    <2> HIDE DEF probes
    <2> QED BY <1>2, <1>4, <2>1 DEF LegalSteps, ToSet
  <1>7. z \in A
    OBVIOUS
  <1> HIDE DEF probes, z
  <1>8. ASSUME NEW x \in A, NEW i \in 1 .. N
        PROVE  /\ Relaxed(x, node, probes[i]) \in A
               /\ \A t \in Tiles : Relaxed(x, node, probes[i]).g[t] <= x.g[t]
               /\ probes[i].kind = "legal" /\ node.f < Infinite
                    => Relaxed(x, node, probes[i]).g[probes[i].to] <= Saturated(node.g + probes[i].cost)
    <2>1. x \in Frontiers(q) /\ Growing(q, c, node, C, x) /\ probes[i] \in GoodProbes(ModelOf(q), node.tile)
      BY <1>4
    <2> DEFINE p == probes[i]
    <2>2. p.kind = "legal" => <<node.tile, p>> \in StepsWithin(q)
      BY <1>5
    <2> HIDE DEF N, p
    <2>3. /\ Relaxed(x, node, p) \in Frontiers(q)
          /\ Growing(q, c, node, C, Relaxed(x, node, p))
          /\ \A t \in Tiles : Relaxed(x, node, p).g[t] <= x.g[t]
          /\ p.kind = "legal" /\ node.f < Infinite
               => Relaxed(x, node, p).g[p.to] <= Saturated(node.g + p.cost)
      BY <2>1, <2>2, RelaxedGrows DEF p
    <2> QED BY <2>3 DEF p
  <1> HIDE DEF N
  <1>9. \E f : Expands(f, fr, node)
    <2>1. step \in [(1 .. N) \X A -> A]
      <3>1. \A x \in (1 .. N) \X A : Relaxed(x[2], node, probes[x[1]]) \in A
        <4> HIDE DEF A
        <4> QED BY <1>8
      <3> HIDE DEF A
      <3> QED BY <3>1
    <2>2. PICK f \in [SUBSET (1 .. N) -> A] : Folds(f, z, step, N)
      <3> HIDE DEF step, A
      <3> QED BY <1>4, <1>7, <2>1, FoldExists
    <2>3. ASSUME NEW s \in SUBSET (1 .. N), s # {} PROVE f[s] = Relaxed(f[s \ {Max(s)}], node, probes[Max(s)])
      <3>1. Max(s) \in 1 .. N
        <4>1. Max(s) \in s
          <5> HIDE DEF A
          <5> QED BY <1>4, <2>3, MaxIsMember
        <4> QED BY <4>1
      <3>2. f[s \ {Max(s)}] \in A
        <4> HIDE DEF A
        <4> QED OBVIOUS
      <3>3. f[s] = step[<<Max(s), f[s \ {Max(s)}]>>]
        <4> HIDE DEF A, step
        <4> QED BY <2>2, <2>3 DEF Folds
      <3>4. <<Max(s), f[s \ {Max(s)}]>> \in (1 .. N) \X A
        <4> HIDE DEF A
        <4> QED BY <3>1, <3>2
      <3> HIDE DEF A
      <3> QED BY <3>3, <3>4
    <2>4. f[{}] = z /\ f = [s \in SUBSET (1 .. N) |-> f[s]]
      <3> HIDE DEF A, step
      <3> QED BY <2>2 DEF Folds
    <2>5. f = [s \in SUBSET (1 .. N) |-> IF s = {} THEN z ELSE Relaxed(f[s \ {Max(s)}], node, probes[Max(s)])]
      <3>1. \A s \in SUBSET (1 .. N) : f[s] = (IF s = {} THEN z ELSE Relaxed(f[s \ {Max(s)}], node, probes[Max(s)]))
        BY <2>3, <2>4
      <3> HIDE DEF A
      <3> QED BY <2>4, <3>1
    <2>6. f = [s \in SUBSET (DOMAIN probes) |->
                 IF s = {} THEN [fr EXCEPT !.closed = @ \cup {node.tile}]
                 ELSE Relaxed(f[s \ {Max(s)}], node, probes[Max(s)])]
      <3>1. z = [fr EXCEPT !.closed = @ \cup {node.tile}]
        BY Zenon DEF z, Closing
      <3> HIDE DEF A
      <3> QED BY <1>4, <2>5, <3>1, Zenon
    <2>7. Expands(f, fr, node)
      <3> HIDE DEF A
      <3> QED BY <2>6, Zenon DEF Expands, probes
    <2> QED BY <2>7
  <1>10. Expands(F, fr, node)
    BY <1>9
  <1>11. Expanded(fr, node) = F[1 .. N]
    <2>1. Expanded(fr, node) = F[DOMAIN probes]
      BY ExpandedUnfolds DEF probes
    <2> HIDE DEF F
    <2> QED BY <1>4, <2>1
  <1> HIDE DEF F
  <1>12. F = [s \in SUBSET (1 .. N) |-> IF s = {} THEN z ELSE Relaxed(F[s \ {Max(s)}], node, probes[Max(s)])]
    <2>1. F = [s \in SUBSET (DOMAIN probes) |->
                 IF s = {} THEN [fr EXCEPT !.closed = @ \cup {node.tile}]
                 ELSE Relaxed(F[s \ {Max(s)}], node, probes[Max(s)])]
      BY <1>10, Zenon DEF Expands, probes
    <2>2. z = [fr EXCEPT !.closed = @ \cup {node.tile}]
      BY Zenon DEF z, Closing
    <2> HIDE DEF A
    <2> QED BY <1>4, <2>1, <2>2, Zenon
  <1> DEFINE Held(n) ==
               /\ F[1 .. n] \in A
               /\ node.f < Infinite =>
                    \A i \in 1 .. n : probes[i].kind = "legal" =>
                      F[1 .. n].g[probes[i].to] <= Saturated(node.g + probes[i].cost)
             G == {n \in 0 .. N : Held(n)}
  <1> HIDE DEF A
  <1>13. 0 \in G
    <2>1. 1 .. 0 = {} /\ {} \in SUBSET (1 .. N) /\ 0 \in 0 .. N
      BY <1>4
    <2>2. F[1 .. 0] = z
      BY <1>12, <2>1
    <2>3. Held(0)
      BY <1>7, <2>1, <2>2
    <2> HIDE DEF Held
    <2> QED BY <2>1, <2>3
  <1>14. ASSUME NEW n \in 1 .. N, n - 1 \in G PROVE n \in G
    <2>1. Held(n - 1) /\ n \in Nat \ {0} /\ n \in 0 .. N
      <3> HIDE DEF Held
      <3> QED BY <1>4, <1>14
    <2>2. F[1 .. n] = Relaxed(F[1 .. n - 1], node, probes[n])
      <3>1. Max(1 .. n) = n /\ (1 .. n) \ {n} = 1 .. n - 1
        BY <2>1, LastOfInterval
      <3>2. 1 .. n # {} /\ 1 .. n \in SUBSET (1 .. N)
        <4>1. n \in 1 .. n /\ \A k \in 1 .. n : k \in 1 .. N
          BY <1>4
        <4> HIDE DEF G, Held
        <4> QED BY <4>1
      <3> HIDE DEF G, Held
      <3> QED BY <1>12, <3>1, <3>2
    <2> DEFINE x == F[1 .. n - 1]
               y == Relaxed(x, node, probes[n])
    <2>3. x \in A
      BY <2>1
    <2>4. /\ y \in A
          /\ \A t \in Tiles : y.g[t] <= x.g[t]
          /\ probes[n].kind = "legal" /\ node.f < Infinite => y.g[probes[n].to] <= Saturated(node.g + probes[n].cost)
      <3> HIDE DEF x, G, Held
      <3> QED BY <1>8, <2>3
    <2>5. \A t \in Tiles : x.g[t] \in 0 .. Infinite /\ y.g[t] \in 0 .. Infinite
      <3> HIDE DEF x, y, G, Held
      <3>1. x \in Frontiers(q) /\ y \in Frontiers(q)
        BY <2>3, <2>4 DEF A
      <3> QED BY <3>1, FrontierParts
    <2>6. ASSUME node.f < Infinite, NEW i \in 1 .. n, probes[i].kind = "legal"
          PROVE  y.g[probes[i].to] <= Saturated(node.g + probes[i].cost)
      <3>1. CASE i = n
        BY <2>4, <2>6, <3>1
      <3>2. CASE i # n
        <4>1. i \in 1 .. n - 1 /\ i \in 1 .. N
          BY <1>4, <3>2
        <4>2. x.g[probes[i].to] <= Saturated(node.g + probes[i].cost)
          BY <2>1, <2>6, <4>1
        <4>3. probes[i].to \in Tiles /\ probes[i].cost \in 0 .. Infinite
          BY <1>4, <4>1 DEF GoodProbes, ProbeSet
        <4>4. y.g[probes[i].to] <= x.g[probes[i].to] /\ x.g[probes[i].to] \in 0 .. Infinite /\ y.g[probes[i].to] \in 0 .. Infinite
          BY <2>4, <2>5, <4>3
        <4>5. Saturated(node.g + probes[i].cost) \in 0 .. Infinite
          BY <1>1, <4>3, SumsOnlyGrow
        <4> HIDE DEF x, y, G, Held
        <4> QED BY <4>2, <4>4, <4>5, TransitionAssumption
      <3> QED BY <3>1, <3>2
    <2>7. Held(n)
      <3>1. F[1 .. n] = y
        BY <2>2
      <3> HIDE DEF y, x
      <3> QED BY <2>4, <2>6, <3>1
    <2> HIDE DEF Held
    <2> QED BY <2>1, <2>7
  <1>15. Held(N)
    <2>1. \A n \in 0 .. N : n \in G
      <3> HIDE DEF G
      <3> QED BY <1>4, <1>13, <1>14, BoundedInduction
    <2>2. N \in 0 .. N
      BY <1>4
    <2> HIDE DEF Held
    <2> QED BY <2>1, <2>2
  <1>16. F[1 .. N] \in Frontiers(q) /\ Growing(q, c, node, C, F[1 .. N])
    BY <1>15 DEF A
  <1>17. ASSUME node.f < Infinite, NEW s \in StepsWithin(q), s[1] = node.tile
         PROVE  F[1 .. N].g[s[2].to] <= Saturated(node.g + s[2].cost)
    <2>1. PICK i \in 1 .. N : s[2] = probes[i] /\ probes[i].kind = "legal"
      BY <1>6, <1>17
    <2> QED BY <1>15, <1>17, <2>1
  <1> QED BY <1>11, <1>16, <1>17

(* A whole expansion leaves an explored frontier. *)
LEMMA ExpandedIsExplored ==
  ASSUME IsQuery(query), query.domain = Tiles, NEW c, IsLeast(query, c),
         NEW node \in Entries(query), NEW C, NEW fr,
         Closing(fr, node.tile) \in Frontiers(query), Growing(query, c, node, C, Closing(fr, node.tile))
  PROVE  /\ Expanded(fr, node) \in Frontiers(query) /\ Explored(query, c, Expanded(fr, node))
         /\ Expanded(fr, node).closed = C
  <1> DEFINE q == query
             x == Expanded(fr, node)
  <1>1. /\ x \in Frontiers(q) /\ Growing(q, c, node, C, x)
        /\ node.f < Infinite =>
             \A s \in StepsWithin(q) : s[1] = node.tile => x.g[s[2].to] <= Saturated(node.g + s[2].cost)
    BY ExpandedGrows
  <1> HIDE DEF x
  <1>2. /\ node.tile \in Tiles /\ node.g \in 0 .. Infinite /\ node.f \in 0 .. Infinite
        /\ node.f = FOf(q, node.tile, node.g)
    BY NodeTyped
  <1>3. /\ x.closed = C /\ x.g[node.tile] = node.g /\ Labels(q, c, x) /\ Bands(q, x)
        /\ ClosedBelow(q, x, node.f) /\ EntriesFrom(x, node.f)
        /\ Spread(q, x, C \ {q.goal, node.tile})
    BY <1>1 DEF Growing
  <1>4. ASSUME NEW n \in EntriesOf(x) PROVE ClosedBelow(q, x, n.f)
    <2> SUFFICES ASSUME NEW t \in x.closed PROVE FOf(q, t, x.g[t]) <= n.f
      BY DEF ClosedBelow
    <2>1. t \in Tiles /\ x.g[t] \in 0 .. Infinite /\ n.f \in 0 .. Infinite
      BY <1>1, FrontierParts
    <2>2. FOf(q, t, x.g[t]) \in 0 .. Infinite
      BY <2>1, FTyped
    <2>3. FOf(q, t, x.g[t]) <= node.f /\ node.f <= n.f
      BY <1>3 DEF ClosedBelow, EntriesFrom
    <2> QED BY <1>2, <2>1, <2>2, <2>3, TransitionAssumption
  <1>5. Spread(q, x, C \ {q.goal})
    <2> SUFFICES ASSUME NEW s \in StepsWithin(q), s[1] \in C \ {q.goal}, FOf(q, s[1], x.g[s[1]]) < Infinite
                 PROVE  x.g[s[2].to] <= Saturated(x.g[s[1]] + s[2].cost)
      BY DEF Spread
    <2>1. CASE s[1] = node.tile
      BY <1>1, <1>2, <1>3, <2>1
    <2>2. CASE s[1] # node.tile
      BY <1>3, <2>2 DEF Spread
    <2> QED BY <2>1, <2>2
  <1> QED BY <1>1, <1>3, <1>4, <1>5 DEF Explored, x

-----------------------------------------------------------------------------
(* Pops.  Swapping the stacks keeps what is known.                         *)
LEMMA SwappedIsExplored ==
  ASSUME IsQuery(query), NEW c, NEW fr \in Frontiers(query), Explored(query, c, fr)
  PROVE  /\ Swapped(fr) \in Frontiers(query) /\ Explored(query, c, Swapped(fr))
         /\ Swapped(fr).closed = fr.closed
         /\ Banded /\ (fr.open # <<>> \/ fr.later # <<>>) => Swapped(fr).open # <<>>
  <1>1. CASE ~(Banded /\ fr.open = <<>>)
    BY <1>1 DEF Swapped
  <1>2. CASE Banded /\ fr.open = <<>>
    <2> DEFINE q == query
               w == Swapped(fr)
               b == Saturated(fr.band + 2)
    <2>1. w = [fr EXCEPT !.open = fr.later, !.later = <<>>, !.band = b]
      BY <1>2, Zenon DEF Swapped
    <2>2. InBands(q)
      BY <1>2, TermsOfSearch
    <2>3. /\ fr = [g |-> fr.g, parent |-> fr.parent, closed |-> fr.closed, band |-> fr.band, open |-> fr.open,
                   later |-> fr.later, missed |-> fr.missed, overflowed |-> fr.overflowed]
      BY DEF Frontiers
    <2>4. w = [g |-> fr.g, parent |-> fr.parent, closed |-> fr.closed, band |-> b, open |-> fr.later,
               later |-> <<>>, missed |-> fr.missed, overflowed |-> fr.overflowed]
      <3> HIDE DEF w, b
      <3> QED BY <2>1, <2>3
    <2>5. fr.band \in 0 .. Infinite /\ Infinite \in Nat /\ fr.later \in Seq(Entries(q)) /\ fr.open \in Seq(Entries(q))
      BY FrontierParts, TransitionAssumption
    <2>6. b \in 0 .. Infinite
      <3>1. fr.band + 2 \in Nat
        BY <2>5
      <3> QED BY <3>1, SaturatedIsMonotone
    <2>7. w \in Frontiers(q)
      <3>1. <<>> \in Seq(Entries(q))
        BY EmptySeq
      <3> HIDE DEF w, b
      <3> QED BY <2>4, <2>6, <3>1 DEF Frontiers
    <2>8. /\ w.g = fr.g /\ w.closed = fr.closed /\ w.open = fr.later /\ w.later = <<>> /\ w.band = b
      <3> HIDE DEF w, b
      <3> QED BY <2>4
    <2> HIDE DEF w
    <2>9. ToSet(<<>>) = {}
      BY DEF ToSet
    <2>10. EntriesOf(w) = EntriesOf(fr) /\ EntriesOf(w) = ToSet(fr.later)
      BY <1>2, <2>8, <2>9 DEF EntriesOf
    <2>11. Labels(q, c, w)
      BY <2>8, <2>10 DEF Explored, Labels
    <2>12. Bands(q, w)
      <3>1. /\ \A n \in ToSet(fr.later) : n.f = fr.band + 2
            /\ \A n \in EntriesOf(fr) : n.g <= Cardinality(fr.closed)
        BY <2>2 DEF Explored, Bands
      <3>2. ASSUME NEW n \in ToSet(fr.later) PROVE n.f = b
        <4>1. n.f \in 0 .. Infinite
          BY <2>10, FrontierParts
        <4>2. n.f = fr.band + 2
          BY <3>1
        <4> QED BY <2>5, <4>1, <4>2 DEF Saturated
      <3> HIDE DEF b
      <3> QED BY <2>2, <2>8, <2>9, <2>10, <3>1, <3>2 DEF Bands
    <2>13. \A n \in EntriesOf(w) : ClosedBelow(q, w, n.f)
      BY <2>8, <2>10 DEF Explored, ClosedBelow
    <2>14. Spread(q, w, w.closed \ {q.goal})
      BY <2>8 DEF Explored, Spread
    <2> QED BY <1>2, <2>7, <2>8, <2>11, <2>12, <2>13, <2>14 DEF Explored, w
  <1> QED BY <1>1, <1>2

(* A frontier less one entry. *)
Less(fr, i) == [fr EXCEPT !.open = RemoveAt(@, i)]

(* What taking one entry out of a frontier leaves. *)
LEMMA LessOneEntry ==
  ASSUME NEW q, NEW fr \in Frontiers(q), NEW i \in DOMAIN fr.open
  PROVE  /\ fr.open[i] \in Entries(q) /\ fr.open[i] \in EntriesOf(fr) /\ fr.open[i] \in ToSet(fr.open)
         /\ Less(fr, i) \in Frontiers(q)
         /\ Less(fr, i).g = fr.g /\ Less(fr, i).closed = fr.closed /\ Less(fr, i).band = fr.band
         /\ Less(fr, i).later = fr.later /\ ToSet(Less(fr, i).open) \in SUBSET ToSet(fr.open)
         /\ EntriesOf(Less(fr, i)) \in SUBSET EntriesOf(fr)
         /\ \A n \in EntriesOf(fr) : n = fr.open[i] \/ n \in EntriesOf(Less(fr, i))
  <1> DEFINE r == RemoveAt(fr.open, i)
             w == Less(fr, i)
  <1>1. fr.open \in Seq(Entries(q))
    BY FrontierParts
  <1>2. /\ fr.open[i] \in Entries(q) /\ fr.open[i] \in ToSet(fr.open)
        /\ r \in Seq(Entries(q))
        /\ ToSet(r) \in SUBSET ToSet(fr.open)
        /\ \A n \in ToSet(fr.open) : n = fr.open[i] \/ n \in ToSet(r)
    <2> HIDE DEF r
    <2> QED BY <1>1, EntryTaken DEF r
  <1>3. w = [fr EXCEPT !.open = r]
    BY DEF Less
  <1> HIDE DEF r, w
  <1>4. /\ w \in Frontiers(q) /\ w.open = r
        /\ w.g = fr.g /\ w.closed = fr.closed /\ w.band = fr.band /\ w.later = fr.later
    BY <1>2, <1>3 DEF Frontiers
  <1>5. /\ EntriesOf(w) \in SUBSET EntriesOf(fr)
        /\ \A n \in EntriesOf(fr) : n = fr.open[i] \/ n \in EntriesOf(w)
        /\ fr.open[i] \in EntriesOf(fr)
    BY <1>2, <1>4 DEF EntriesOf
  <1> QED BY <1>2, <1>4, <1>5 DEF w

(* The entry popped is a least one. *)
LEMMA PoppedIsLeast ==
  ASSUME IsQuery(query), NEW c, NEW fr \in Frontiers(query), Explored(query, c, fr),
         Banded => fr.open # <<>>, NEW i \in PoppedIndices(fr.open)
  PROVE  i \in DOMAIN fr.open /\ EntriesFrom(fr, fr.open[i].f)
  <1>0. fr.open \in Seq(Entries(query)) /\ Infinite \in Nat /\ fr.band \in 0 .. Infinite
    BY FrontierParts, TransitionAssumption
  <1>1. i \in DOMAIN fr.open
    <2>1. CASE Banded
      <3>1. i = Len(fr.open)
        BY <2>1 DEF PoppedIndices
      <3>2. Len(fr.open) \in 1 .. Len(fr.open) /\ DOMAIN fr.open = 1 .. Len(fr.open)
        BY <1>0, <2>1, LenProperties, EmptySeq
      <3> QED BY <3>1, <3>2
    <2>2. CASE ~Banded
      BY <2>2 DEF PoppedIndices
    <2> QED BY <2>1, <2>2
  <1>2. fr.open[i] \in ToSet(fr.open) /\ fr.open[i] \in EntriesOf(fr)
    BY <1>1, LessOneEntry
  <1>3. \A n \in EntriesOf(fr) : n.f \in 0 .. Infinite /\ n.g \in 0 .. Infinite - 1
    BY FrontierParts
  <1>4. CASE Banded
    <2>1. InBands(query)
      BY <1>4, TermsOfSearch
    <2>2. /\ \A n \in ToSet(fr.open) : n.f = fr.band
          /\ \A n \in ToSet(fr.later) : n.f = fr.band + 2
      BY <2>1 DEF Explored, Bands
    <2>3. fr.open[i].f = fr.band
      BY <1>2, <2>2
    <2>4. fr.band <= fr.band /\ fr.band <= fr.band + 2
      BY <1>0
    <2> QED BY <1>1, <2>2, <2>3, <2>4 DEF EntriesFrom, EntriesOf
  <1>5. CASE ~Banded
    <2>1. fr.later = <<>>
      BY <1>5, TermsOfSearch DEF Explored, Bands
    <2>2. ToSet(<<>>) = {}
      BY DEF ToSet
    <2>3. ASSUME NEW n \in ToSet(fr.open) PROVE fr.open[i].f <= n.f
      <3>1. PICK k \in DOMAIN fr.open : n = fr.open[k]
        BY DEF ToSet
      <3>2. ~NodeLess(fr.open[k], fr.open[i])
        BY <1>5 DEF PoppedIndices
      <3>3. ~(n.f < fr.open[i].f)
        BY <3>1, <3>2 DEF NodeLess
      <3>4. n.f \in 0 .. Infinite /\ fr.open[i].f \in 0 .. Infinite
        BY <1>2, <1>3 DEF EntriesOf
      <3> QED BY <1>0, <3>3, <3>4
    <2> QED BY <1>1, <2>1, <2>2, <2>3 DEF EntriesFrom, EntriesOf
  <1> QED BY <1>4, <1>5

(* An entry that is stale may go. *)
LEMMA StaleMayGo ==
  ASSUME NEW q, NEW c, NEW fr \in Frontiers(q), Explored(q, c, fr), NEW i \in DOMAIN fr.open,
         fr.open[i].tile \in fr.closed \/ fr.open[i].g # fr.g[fr.open[i].tile]
  PROVE  Explored(q, c, Less(fr, i))
  <1> DEFINE w == Less(fr, i)
             node == fr.open[i]
  <1>1. /\ w.g = fr.g /\ w.closed = fr.closed /\ w.band = fr.band
        /\ w.later = fr.later /\ ToSet(w.open) \in SUBSET ToSet(fr.open)
        /\ EntriesOf(w) \in SUBSET EntriesOf(fr)
        /\ \A n \in EntriesOf(fr) : n = node \/ n \in EntriesOf(w)
    BY LessOneEntry
  <1> HIDE DEF w
  <1>2. Labels(q, c, w)
    <2>1. ASSUME NEW t \in Tiles \ fr.closed, fr.g[t] < Infinite
          PROVE  \E n \in EntriesOf(w) : n.tile = t /\ n.g = fr.g[t]
      <3>1. PICK n \in EntriesOf(fr) : n.tile = t /\ n.g = fr.g[t]
        BY <2>1 DEF Explored, Labels
      <3>2. n # node
        BY <3>1
      <3> QED BY <1>1, <3>1, <3>2
    <2> QED BY <1>1, <2>1 DEF Explored, Labels
  <1>3. Bands(q, w)
    BY <1>1 DEF Explored, Bands
  <1>4. \A n \in EntriesOf(w) : ClosedBelow(q, w, n.f)
    BY <1>1 DEF Explored, ClosedBelow
  <1>5. Spread(q, w, w.closed \ {q.goal})
    BY <1>1 DEF Explored, Spread
  <1> QED BY <1>2, <1>3, <1>4, <1>5 DEF Explored, w

(* A live one closes its tile at its least cost. *)
LEMMA LiveCloses ==
  ASSUME NEW q, IsQuery(q), q.domain = Tiles, NEW c, IsLeast(q, c), NEW fr \in Frontiers(q),
         Explored(q, c, fr), q.goal \notin fr.closed,
         NEW i \in DOMAIN fr.open, EntriesFrom(fr, fr.open[i].f),
         fr.open[i].tile \notin fr.closed, fr.open[i].g = fr.g[fr.open[i].tile]
  PROVE  /\ Closing(Less(fr, i), fr.open[i].tile) \in Frontiers(q)
         /\ Growing(q, c, fr.open[i], fr.closed \cup {fr.open[i].tile}, Closing(Less(fr, i), fr.open[i].tile))
         /\ fr.open[i].f < Infinite => fr.open[i].g = c[fr.open[i].tile]
  <1> DEFINE r == Less(fr, i)
             node == fr.open[i]
             t == node.tile
             C == fr.closed \cup {t}
             w == Closing(r, t)
  <1>1. /\ node \in Entries(q) /\ node \in EntriesOf(fr) /\ node \in ToSet(fr.open)
        /\ r \in Frontiers(q)
        /\ r.g = fr.g /\ r.closed = fr.closed /\ r.band = fr.band
        /\ r.later = fr.later /\ ToSet(r.open) \in SUBSET ToSet(fr.open)
        /\ EntriesOf(r) \in SUBSET EntriesOf(fr)
        /\ \A n \in EntriesOf(fr) : n = node \/ n \in EntriesOf(r)
    BY LessOneEntry
  <1>2. /\ t \in Tiles /\ node.g \in 0 .. Infinite - 1 /\ node.g \in 0 .. Infinite /\ node.f \in 0 .. Infinite
        /\ node.f = FOf(q, t, node.g) /\ HOf(q, t) \in 0 .. Infinite
        /\ node.f = IF node.g + HOf(q, t) < Infinite THEN node.g + HOf(q, t) ELSE Infinite
    <2> HIDE DEF node
    <2> QED BY <1>1, NodeTyped
  <1>3. /\ fr.closed \in SUBSET Tiles /\ \A u \in Tiles : fr.g[u] \in 0 .. Infinite
        /\ c \in CostTables /\ Infinite \in Nat \ {0}
    BY FrontierParts, TransitionAssumption DEF IsLeast
  <1> HIDE DEF r
  <1>4. /\ w \in Frontiers(q) /\ w.closed = C
        /\ w.g = fr.g /\ w.band = fr.band /\ w.open = r.open /\ w.later = fr.later
    <2>1. w = [r EXCEPT !.closed = C]
      BY <1>1 DEF Closing
    <2>2. C \in SUBSET Tiles
      BY <1>2, <1>3
    <2> HIDE DEF w, C
    <2> QED BY <1>1, <2>1, <2>2 DEF Frontiers
  <1> HIDE DEF w
  <1>5. EntriesOf(w) = EntriesOf(r)
    BY <1>1, <1>4 DEF EntriesOf
  <1>6. node.f < Infinite => node.g = c[t]
    <2> SUFFICES ASSUME node.f < Infinite PROVE node.g = c[t]
      OBVIOUS
    <2>1. ClosedBelow(q, fr, node.f)
      BY <1>1 DEF Explored
    <2>2. node.f - HOf(q, t) <= c[t]
      <3> HIDE DEF node, t
      <3>1. node.f \in 0 .. Infinite /\ EntriesFrom(fr, node.f) /\ t \in Tiles \ fr.closed
        BY <1>2 DEF node, t
      <3> QED BY <2>1, <3>1, OpenTilesCost
    <2>3. c[t] <= node.g /\ c[t] \in 0 .. Infinite
      BY <1>2, <1>3 DEF Explored, Labels, CostTables
    <2>4. node.f = node.g + HOf(q, t)
      BY <1>2, <1>3
    <2> HIDE DEF node, t
    <2> QED BY <1>2, <1>3, <2>2, <2>3, <2>4
  <1>7. \A u \in C : u \in fr.closed \/ u = t
    OBVIOUS
  <1>8. Labels(q, c, w)
    <2>1. ASSUME NEW u \in C PROVE fr.g[u] < Infinite /\ (FOf(q, u, fr.g[u]) < Infinite => fr.g[u] = c[u])
      <3>1. CASE u = t
        <4>1. fr.g[t] = node.g /\ node.g < Infinite
          BY <1>2, <1>3
        <4>2. FOf(q, t, fr.g[t]) = node.f
          BY <1>2, <4>1
        <4> HIDE DEF node, t, C
        <4> QED BY <1>6, <3>1, <4>1, <4>2
      <3>2. CASE u \in fr.closed
        BY <3>2 DEF Explored, Labels
      <3> QED BY <3>1, <3>2
    <2>2. ASSUME NEW u \in Tiles \ C, fr.g[u] < Infinite
          PROVE  \E n \in EntriesOf(w) : n.tile = u /\ n.g = fr.g[u]
      <3>1. PICK n \in EntriesOf(fr) : n.tile = u /\ n.g = fr.g[u]
        BY <2>2 DEF Explored, Labels
      <3>2. n # node
        BY <3>1
      <3> QED BY <1>1, <1>5, <3>1, <3>2
    <2>3. \A n \in EntriesOf(w) : fr.g[n.tile] <= n.g
      BY <1>1, <1>5 DEF Explored, Labels
    <2>4. fr.g[q.start] = 0 /\ \A u \in Tiles : c[u] <= fr.g[u]
      BY DEF Explored, Labels
    <2> HIDE DEF C, node, t
    <2> QED BY <1>4, <2>1, <2>2, <2>3, <2>4 DEF Labels
  <1>9. /\ InBands(q) => /\ node.f = fr.band /\ node.g + 1 <= Cardinality(C)
                         /\ \A n \in EntriesOf(w) : n.g <= Cardinality(C)
    <2> SUFFICES ASSUME InBands(q)
                 PROVE  /\ node.f = fr.band /\ node.g + 1 <= Cardinality(C)
                        /\ \A n \in EntriesOf(w) : n.g <= Cardinality(C)
      OBVIOUS
    <2>1. /\ node.f = fr.band /\ \A n \in EntriesOf(fr) : n.g <= Cardinality(fr.closed)
      BY <1>1 DEF Explored, Bands
    <2>2. IsFiniteSet(fr.closed)
      BY <1>3, TilesAreFinite, FS_Subset
    <2>3. Cardinality(fr.closed) \in Nat /\ Cardinality(C) = Cardinality(fr.closed) + 1
      BY <2>2, FS_CardinalityType, FS_AddElement
    <2>4. \A n \in EntriesOf(w) : n \in EntriesOf(fr) /\ n.g \in 0 .. Infinite - 1
      BY <1>1, <1>5, FrontierParts
    <2>5. node.g <= Cardinality(fr.closed)
      BY <1>1, <2>1
    <2> HIDE DEF C, node, t
    <2> QED BY <1>2, <1>3, <2>1, <2>3, <2>4, <2>5
  <1>10. Bands(q, w)
    <2>1. CASE InBands(q)
      <3>1. /\ \A n \in ToSet(fr.open) : n.f = fr.band
            /\ \A n \in ToSet(fr.later) : n.f = fr.band + 2
        BY <2>1 DEF Explored, Bands
      <3> HIDE DEF C, node, t
      <3> QED BY <1>1, <1>4, <1>9, <2>1, <3>1 DEF Bands
    <2>2. CASE ~InBands(q)
      BY <1>4, <2>2 DEF Explored, Bands
    <2> QED BY <2>1, <2>2
  <1>11. ClosedBelow(q, w, node.f)
    <2>1. ClosedBelow(q, fr, node.f)
      BY <1>1 DEF Explored
    <2>2. FOf(q, t, fr.g[t]) <= node.f
      BY <1>2, <1>3
    <2> HIDE DEF node, t
    <2> QED BY <1>4, <1>7, <2>1, <2>2 DEF ClosedBelow
  <1>12. EntriesFrom(w, node.f)
    BY <1>1, <1>5 DEF EntriesFrom
  <1>13. Spread(q, w, C \ {q.goal, t})
    <2>1. Spread(q, fr, fr.closed \ {q.goal})
      BY DEF Explored
    <2>2. \A u \in C \ {q.goal, t} : u \in fr.closed \ {q.goal}
      OBVIOUS
    <2> HIDE DEF C, node, t
    <2> QED BY <1>4, <2>1, <2>2 DEF Spread
  <1>14. Growing(q, c, node, C, w)
    <2>1. t \in C /\ w.g[t] = node.g
      BY <1>4
    <2>2. InBands(q) => node.f = w.band /\ node.g + 1 <= Cardinality(C)
      BY <1>4, <1>9
    <2> HIDE DEF C, node
    <2> QED BY <1>4, <1>8, <1>10, <1>11, <1>12, <1>13, <2>1, <2>2 DEF Growing
  <1> QED BY <1>4, <1>6, <1>14 DEF w, r

(* The conditions under which a popped entry closes its tile: the entry at
   place i is one of the least, its tile is open and its label is current. *)
Live(q, c, fr, i) ==
  /\ IsQuery(q) /\ q.domain = Tiles /\ IsLeast(q, c)
  /\ fr \in Frontiers(q) /\ Explored(q, c, fr) /\ q.goal \notin fr.closed
  /\ i \in DOMAIN fr.open /\ EntriesFrom(fr, fr.open[i].f)
  /\ fr.open[i].tile \notin fr.closed /\ fr.open[i].g = fr.g[fr.open[i].tile]

(* What closing the tile of the entry at place i comes to: a frontier in the
   middle of its growth, and a label that is the least cost. *)
Closes(q, c, fr, i) ==
  /\ Closing(Less(fr, i), fr.open[i].tile) \in Frontiers(q)
  /\ Growing(q, c, fr.open[i], fr.closed \cup {fr.open[i].tile}, Closing(Less(fr, i), fr.open[i].tile))
  /\ fr.open[i].f < Infinite => fr.open[i].g = c[fr.open[i].tile]

(* Closing the tile of a live entry, from the named condition. *)
LEMMA LiveMayClose ==
  ASSUME NEW q, NEW c, NEW fr, NEW i, Live(q, c, fr, i)
  PROVE  Closes(q, c, fr, i)
  BY LiveCloses DEF Live, Closes


-----------------------------------------------------------------------------
(* The invariant of a query: before its search there is no frontier, and   *)
(* from then on the frontier is explored and holds every answer.           *)
SearchInv ==
  /\ query \in Queries
  /\ truth = CostsFromStart(query)
  /\ \/ frontier = <<>> /\ phase \in {"ready", "done"}
     \/ /\ phase \in {"searching", "done"}
        /\ query.domain = Tiles
        /\ frontier \in Frontiers(query)
        /\ Explored(query, truth, frontier)
        /\ phase = "searching" => query.goal \notin frontier.closed
        /\ phase = "done" => IF result.status = "Found"
                             THEN result.cost = truth[query.goal] /\ result.cost < Infinite
                             ELSE truth[query.goal] = Infinite

(* The first frontier. *)
LEMMA FirstIsExplored ==
  ASSUME IsQuery(query), NEW c, IsLeast(query, c)
  PROVE  /\ FirstFrontier \in Frontiers(query) /\ Explored(query, c, FirstFrontier)
         /\ query.goal \notin FirstFrontier.closed
  <1> DEFINE q == query
             w == FirstFrontier
             g0 == [t \in Tiles |-> IF t = q.start THEN 0 ELSE Infinite]
             h == HOf(q, q.start)
             n == [tile |-> q.start, g |-> 0, f |-> FOf(q, q.start, 0)]
  <1>1. q.start \in Tiles /\ q.goal \in Tiles /\ Infinite \in Nat \ {0}
    BY ModelOfQuery, TransitionAssumption
  <1>2. 0 \in 0 .. Infinite /\ 0 \in 0 .. Infinite - 1
    BY <1>1
  <1>3. /\ h \in 0 .. Infinite /\ FOf(q, q.start, 0) \in 0 .. Infinite
        /\ FOf(q, q.start, 0) = IF 0 + h < Infinite THEN 0 + h ELSE Infinite
    BY <1>1, <1>2, FTyped
  <1>4. n \in Entries(q) /\ n.f = h /\ n.tile = q.start /\ n.g = 0
    <2>1. n.f = h
      <3> HIDE DEF h
      <3> QED BY <1>1, <1>3
    <2> HIDE DEF h
    <2> QED BY <1>1, <1>2, <1>3, <2>1 DEF Entries
  <1>5. w = [g |-> g0, parent |-> [t \in Tiles |-> t], closed |-> {}, band |-> h,
             open |-> <<n>>, later |-> <<>>, missed |-> FALSE, overflowed |-> FALSE]
    <2>1. Node(q.start, 0) = n
      BY TermsOfSearch
    <2>2. Heuristic(Model, q.start, q.goal) = h
      BY DEF HOf, Model
    <2> HIDE DEF n, h
    <2> QED BY <2>1, <2>2 DEF FirstFrontier
  <1> HIDE DEF w, h
  <1>6. g0 \in CostTables
    <2>1. \A t \in Tiles : g0[t] \in 0 .. Infinite
      BY <1>1
    <2> QED BY <2>1 DEF CostTables
  <1>7. <<n>> \in Seq(Entries(q)) /\ <<>> \in Seq(Entries(q)) /\ ToSet(<<>>) = {} /\ ToSet(<<n>>) = {n}
    <2>1. n \in Entries(q)
      BY <1>4
    <2> HIDE DEF n
    <2>2. <<n>> \in Seq(Entries(q)) /\ <<>> \in Seq(Entries(q))
      BY <2>1, EmptySeq
    <2>3. DOMAIN <<n>> = {1} /\ <<n>>[1] = n
      OBVIOUS
    <2> QED BY <2>2, <2>3 DEF ToSet
  <1>8. /\ w \in Frontiers(q)
        /\ w.g = g0 /\ w.closed = {} /\ w.band = h /\ w.open = <<n>> /\ w.later = <<>>
    <2> HIDE DEF n, g0
    <2> QED BY <1>3, <1>5, <1>6, <1>7 DEF Frontiers
  <1>9. EntriesOf(w) = {n}
    <2> HIDE DEF n
    <2> QED BY <1>7, <1>8 DEF EntriesOf
  <1>10. /\ g0[q.start] = 0
         /\ \A t \in Tiles : g0[t] < Infinite => t = q.start
         /\ \A t \in Tiles : t # q.start => g0[t] = Infinite
    BY <1>1
  <1>11. Labels(q, c, w)
    <2>1. c[q.start] = 0 /\ \A t \in Tiles : c[t] \in 0 .. Infinite
      BY DEF IsLeast, CostTables
    <2>2. \A t \in Tiles : c[t] <= g0[t]
      <3> HIDE DEF g0
      <3>1. ASSUME NEW t \in Tiles PROVE c[t] <= g0[t]
        <4>1. CASE t = q.start
          BY <1>10, <2>1, <4>1
        <4>2. CASE t # q.start
          BY <1>1, <1>10, <2>1, <4>2
        <4> QED BY <4>1, <4>2
      <3> QED BY <3>1
    <2>3. \A t \in Tiles : g0[t] < Infinite => n.tile = t /\ n.g = g0[t]
      BY <1>4, <1>10
    <2>4. g0[n.tile] <= n.g
      BY <1>1, <1>4, <1>10
    <2> HIDE DEF g0, n
    <2> QED BY <1>8, <1>9, <1>10, <2>2, <2>3, <2>4 DEF Labels
  <1>12. Bands(q, w)
    <2>1. n.f = h /\ n.g <= Cardinality({})
      <3>1. Cardinality({}) = 0
        BY FS_EmptySet
      <3> QED BY <1>4, <3>1
    <2> HIDE DEF n, g0
    <2> QED BY <1>7, <1>8, <1>9, <2>1 DEF Bands
  <1>13. \A x \in EntriesOf(w) : ClosedBelow(q, w, x.f)
    BY <1>8 DEF ClosedBelow
  <1>14. Spread(q, w, w.closed \ {q.goal})
    BY <1>8 DEF Spread
  <1> QED BY <1>8, <1>11, <1>12, <1>13, <1>14 DEF Explored, w

(* Init. *)
LEMMA SearchStarts ==
  ASSUME SearchInit
  PROVE  SearchInv
  BY DEF SearchInit, SearchInv

(* Beginning a search, or answering without one. *)
LEMMA BeginKeeps ==
  ASSUME SearchInv, Search
  PROVE  SearchInv'
  <1>1. /\ phase = "ready" /\ query' = query /\ truth' = truth
        /\ \/ phase' = "done" /\ frontier' = frontier
           \/ phase' = "searching" /\ frontier' = FirstFrontier
    BY Zenon DEF Search, Begin, Finish
  <1>2. frontier = <<>> /\ query \in Queries /\ truth = CostsFromStart(query)
    BY <1>1 DEF SearchInv
  <1>3. CASE phase' = "done" /\ frontier' = frontier
    BY <1>1, <1>2, <1>3 DEF SearchInv
  <1>4. CASE phase' = "searching" /\ frontier' = FirstFrontier
    <2>1. IsQuery(query)
      BY <1>2, SearchAssumption
    <2>2. query.domain = Tiles
      <3>1. query.kind # "field"
        BY DEF Search
      <3> QED BY <2>1, <3>1 DEF IsQuery
    <2>3. IsLeast(query, truth)
      BY <1>2, <2>1, <2>2, RoundsAreLeast
    <2>4. /\ FirstFrontier \in Frontiers(query) /\ Explored(query, truth, FirstFrontier)
          /\ query.goal \notin FirstFrontier.closed
      BY <2>1, <2>3, FirstIsExplored
    <2>5. /\ frontier' \in Frontiers(query) /\ Explored(query, truth, frontier')
          /\ query.goal \notin (frontier').closed
      BY <1>4, <2>4
    <2>6. phase' \in {"searching", "done"} /\ phase' # "done"
      BY <1>4
    <2> QED BY <1>1, <1>2, <2>2, <2>5, <2>6 DEF SearchInv
  <1> QED BY <1>1, <1>3, <1>4

(* An answer read out of a field leaves no frontier. *)
LEMMA ReadsKeep ==
  ASSUME SearchInv, ReadGroup \/ ReadField
  PROVE  SearchInv'
  <1>1. /\ phase = "ready" /\ query' = query /\ truth' = truth /\ frontier' = frontier /\ phase' = "done"
    BY Zenon DEF ReadGroup, ReadField, Finish
  <1> QED BY <1>1 DEF SearchInv

(* Pops. *)
LEMMA PopKeeps ==
  ASSUME SearchInv, Pop
  PROVE  SearchInv'
  <1> DEFINE q == query
             c == truth
             fr == Swapped(frontier)
  <1>1. /\ phase = "searching" /\ query' = query /\ truth' = truth
        /\ frontier.open # <<>> \/ frontier.later # <<>>
    BY Zenon DEF Pop
  <1>2. /\ query \in Queries /\ truth = CostsFromStart(query) /\ query.domain = Tiles
        /\ frontier \in Frontiers(q) /\ Explored(q, c, frontier) /\ q.goal \notin frontier.closed
    BY <1>1 DEF SearchInv
  <1>3. IsQuery(query)
    BY <1>2, SearchAssumption
  <1>4. IsLeast(q, c)
    BY <1>2, <1>3, RoundsAreLeast
  <1>5. /\ fr \in Frontiers(q) /\ Explored(q, c, fr) /\ fr.closed = frontier.closed
        /\ Banded => fr.open # <<>>
    BY <1>1, <1>2, <1>3, SwappedIsExplored
  <1>6. PICK i \in PoppedIndices(fr.open) :
          LET node == fr.open[i]
              rest == [fr EXCEPT !.open = RemoveAt(@, i)]
          IN  IF node.tile \in fr.closed \/ node.g # fr.g[node.tile]
              THEN frontier' = rest /\ UNCHANGED <<phase, result>>
              ELSE IF node.tile = query.goal
              THEN /\ frontier' = [rest EXCEPT !.closed = @ \cup {node.tile}]
                   /\ Finish(Found(node.g, Traced(rest)))
              ELSE frontier' = Expanded(rest, node) /\ UNCHANGED <<phase, result>>
    BY Zenon DEF Pop
  <1> DEFINE node == fr.open[i]
             rest == Less(fr, i)
             t == node.tile
             C == fr.closed \cup {t}
  <1>7. \/ /\ t \in fr.closed \/ node.g # fr.g[t]
           /\ frontier' = rest /\ phase' = phase /\ result' = result
        \/ /\ t \notin fr.closed /\ node.g = fr.g[t] /\ t = q.goal
           /\ frontier' = Closing(rest, t) /\ phase' = "done" /\ result' = Found(node.g, Traced(rest))
        \/ /\ t \notin fr.closed /\ node.g = fr.g[t] /\ t # q.goal
           /\ frontier' = Expanded(rest, node) /\ phase' = phase /\ result' = result
    BY <1>6, Zenon DEF Less, Closing, Finish
  <1>8. /\ i \in DOMAIN fr.open /\ EntriesFrom(fr, node.f)
    <2> HIDE DEF fr
    <2> QED BY <1>3, <1>5, PoppedIsLeast
  <1> HIDE DEF fr
  <1>9. q.goal \notin fr.closed
    BY <1>2, <1>5
  <1>10. CASE /\ t \in fr.closed \/ node.g # fr.g[t]
              /\ frontier' = rest /\ phase' = phase /\ result' = result
    <2>1. rest \in Frontiers(q) /\ rest.closed = fr.closed
      BY <1>5, <1>8, LessOneEntry
    <2>2. Explored(q, c, rest)
      BY <1>5, <1>8, <1>10, StaleMayGo
    <2>3. phase' = "searching"
      BY <1>1, <1>10
    <2>4. /\ frontier' \in Frontiers(q) /\ Explored(q, c, frontier') /\ q.goal \notin (frontier').closed
      <3> HIDE DEF rest
      <3> QED BY <1>9, <1>10, <2>1, <2>2
    <2> QED BY <1>1, <1>2, <2>3, <2>4 DEF SearchInv
  <1>11. ASSUME t \notin fr.closed, node.g = fr.g[t]
         PROVE  /\ Closing(rest, t) \in Frontiers(q)
                /\ Growing(q, c, node, C, Closing(rest, t))
                /\ node.f < Infinite => node.g = c[t]
    <2>1. Live(q, c, fr, i)
      BY <1>2, <1>3, <1>4, <1>5, <1>8, <1>9, <1>11 DEF Live
    <2>2. Closes(q, c, fr, i)
      BY <2>1, LiveMayClose
    <2> HIDE DEF q, c
    <2> QED BY <2>2 DEF Closes
  <1>12. /\ node \in Entries(q) /\ rest \in Frontiers(q)
    BY <1>5, <1>8, LessOneEntry
  <1>13. CASE /\ t \notin fr.closed /\ node.g = fr.g[t] /\ t = q.goal
              /\ frontier' = Closing(rest, t) /\ phase' = "done" /\ result' = Found(node.g, Traced(rest))
    <2> DEFINE w == Closing(rest, t)
    <2>1. /\ w \in Frontiers(q) /\ Growing(q, c, node, C, w)
          /\ node.f < Infinite => node.g = c[t]
      BY <1>11, <1>13
    <2>2. node.f = IF node.g + HOf(q, t) < Infinite THEN node.g + HOf(q, t) ELSE Infinite
      <3> HIDE DEF node
      <3> QED BY <1>3, <1>12, NodeTyped
    <2>3. HOf(q, t) = 0
      BY <1>3, <1>13, NothingRemains
    <2>4. node.g \in 0 .. Infinite - 1 /\ Infinite \in Nat
      <3> HIDE DEF node
      <3> QED BY <1>3, <1>12, NodeTyped, TransitionAssumption
    <2>5. node.g < Infinite /\ node.g = c[q.goal]
      <3>1. node.f < Infinite /\ node.g < Infinite
        <4> HIDE DEF node, t
        <4> QED BY <2>2, <2>3, <2>4
      <3> QED BY <1>13, <2>1, <3>1
    <2>6. Explored(q, c, w)
      <3> HIDE DEF w, C, rest
      <3>1. w.closed = C /\ Labels(q, c, w) /\ Bands(q, w) /\ ClosedBelow(q, w, node.f) /\ EntriesFrom(w, node.f)
            /\ Spread(q, w, C \ {q.goal, t})
        BY <2>1 DEF Growing
      <3>2. Spread(q, w, w.closed \ {q.goal})
        <4>1. C \ {q.goal, t} = w.closed \ {q.goal}
          BY <1>13, <3>1
        <4> QED BY <3>1, <4>1
      <3>3. ASSUME NEW n \in EntriesOf(w) PROVE ClosedBelow(q, w, n.f)
        <4> SUFFICES ASSUME NEW u \in w.closed PROVE FOf(q, u, w.g[u]) <= n.f
          BY DEF ClosedBelow
        <4>1. u \in Tiles /\ w.g[u] \in 0 .. Infinite /\ n.f \in 0 .. Infinite
          BY <2>1, FrontierParts
        <4>2. FOf(q, u, w.g[u]) \in 0 .. Infinite
          BY <1>3, <4>1, FTyped
        <4>3. FOf(q, u, w.g[u]) <= node.f /\ node.f <= n.f
          BY <3>1 DEF ClosedBelow, EntriesFrom
        <4>4. node.f \in 0 .. Infinite
          <5> HIDE DEF node
          <5> QED BY <1>3, <1>12, NodeTyped
        <4> HIDE DEF node
        <4> QED BY <4>1, <4>2, <4>3, <4>4, TransitionAssumption
      <3> QED BY <3>1, <3>2, <3>3 DEF Explored
    <2>7. (result').status = "Found" /\ (result').cost = node.g
      BY <1>13 DEF Found
    <2>8. frontier' \in Frontiers(q) /\ Explored(q, c, frontier')
      <3> HIDE DEF w
      <3> QED BY <1>13, <2>1, <2>6 DEF w
    <2>9. phase' = "done"
      BY <1>13
    <2> HIDE DEF node, rest, t, w
    <2> QED BY <1>1, <1>2, <2>5, <2>7, <2>8, <2>9 DEF SearchInv
  <1>14. CASE /\ t \notin fr.closed /\ node.g = fr.g[t] /\ t # q.goal
              /\ frontier' = Expanded(rest, node) /\ phase' = phase /\ result' = result
    <2>1. Closing(rest, t) \in Frontiers(q) /\ Growing(q, c, node, C, Closing(rest, t))
      BY <1>11, <1>14
    <2>2. /\ Expanded(rest, node) \in Frontiers(q) /\ Explored(q, c, Expanded(rest, node))
          /\ Expanded(rest, node).closed = C
      <3> HIDE DEF node, rest, C
      <3>1. Closing(rest, node.tile) \in Frontiers(q) /\ Growing(q, c, node, C, Closing(rest, node.tile))
        BY <2>1
      <3> QED BY <1>2, <1>3, <1>4, <1>12, <3>1, ExpandedIsExplored
    <2>3. q.goal \notin C
      BY <1>9, <1>14
    <2>4. /\ frontier' \in Frontiers(q) /\ Explored(q, c, frontier') /\ q.goal \notin (frontier').closed
      <3> HIDE DEF rest, node, C
      <3> QED BY <1>14, <2>2, <2>3
    <2>5. phase' = "searching"
      BY <1>1, <1>14
    <2> HIDE DEF node, rest, t
    <2> QED BY <1>1, <1>2, <2>4, <2>5 DEF SearchInv
  <1> QED BY <1>7, <1>10, <1>13, <1>14

(* When no entry is left the goal is out of reach. *)
LEMMA ExhaustKeeps ==
  ASSUME SearchInv, Exhaust
  PROVE  SearchInv'
  <1> DEFINE q == query
             c == truth
             fr == frontier
  <1>1. /\ phase = "searching" /\ query' = query /\ truth' = truth /\ frontier' = frontier /\ phase' = "done"
        /\ fr.open = <<>> /\ fr.later = <<>>
        /\ (result').status # "Found"
    BY DEF Exhaust, Finish, Failed
  <1>2. /\ query \in Queries /\ truth = CostsFromStart(query) /\ query.domain = Tiles
        /\ fr \in Frontiers(q) /\ Explored(q, c, fr) /\ q.goal \notin fr.closed
    BY <1>1 DEF SearchInv
  <1>3. IsQuery(query)
    BY <1>2, SearchAssumption
  <1>4. IsLeast(q, c)
    BY <1>2, <1>3, RoundsAreLeast
  <1>5. Infinite \in Nat /\ Infinite \in 0 .. Infinite /\ q.goal \in Tiles
    BY <1>3, ModelOfQuery, TransitionAssumption
  <1>6. EntriesFrom(fr, Infinite)
    <2>1. ToSet(<<>>) = {}
      BY DEF ToSet
    <2> QED BY <1>1, <2>1 DEF EntriesFrom, EntriesOf
  <1>7. ClosedBelow(q, fr, Infinite)
    <2>1. \A t \in fr.closed : t \in Tiles /\ fr.g[t] \in 0 .. Infinite
      BY <1>2, FrontierParts
    <2>2. \A t \in fr.closed : FOf(q, t, fr.g[t]) \in 0 .. Infinite
      BY <1>3, <2>1, FTyped
    <2> QED BY <1>5, <2>2 DEF ClosedBelow
  <1>8. Infinite - HOf(q, q.goal) <= c[q.goal]
    BY <1>2, <1>3, <1>4, <1>5, <1>6, <1>7, OpenTilesCost
  <1>9. c[q.goal] = Infinite
    <2>1. HOf(q, q.goal) = 0
      BY <1>3, NothingRemains
    <2>2. c[q.goal] \in 0 .. Infinite
      BY <1>4, <1>5 DEF IsLeast, CostTables
    <2> QED BY <1>5, <1>8, <2>1, <2>2
  <1> QED BY <1>1, <1>2, <1>9 DEF SearchInv

(* Every step of a query keeps the invariant. *)
LEMMA SearchSteps ==
  ASSUME SearchInv, [SearchNext]_search_vars
  PROVE  SearchInv'
  <1>1. CASE Search
    BY <1>1, BeginKeeps
  <1>2. CASE Pop
    BY <1>2, PopKeeps
  <1>3. CASE Exhaust
    BY <1>3, ExhaustKeeps
  <1>4. CASE ReadGroup \/ ReadField
    BY <1>4, ReadsKeep
  <1>5. CASE Answered \/ UNCHANGED search_vars
    <2>1. query' = query /\ truth' = truth /\ frontier' = frontier /\ phase' = phase /\ result' = result
      BY <1>5 DEF Answered, search_vars
    <2> QED BY <2>1 DEF SearchInv
  <1> QED BY <1>1, <1>2, <1>3, <1>4, <1>5 DEF SearchNext

(* What the invariant says of closed tiles. *)
LEMMA SearchIsFinal ==
  ASSUME SearchInv
  PROVE  ClosedIsFinal
  <1>1. CASE frontier = <<>>
    BY <1>1 DEF ClosedIsFinal
  <1>2. CASE /\ frontier \in Frontiers(query)
             /\ Explored(query, truth, frontier)
             /\ phase = "done" => IF result.status = "Found"
                                  THEN result.cost = truth[query.goal] /\ result.cost < Infinite
                                  ELSE truth[query.goal] = Infinite
    <2>1. \A t \in frontier.closed : Node(t, frontier.g[t]).f < Infinite => frontier.g[t] = truth[t]
      <3>1. \A t, g : Node(t, g).f = FOf(query, t, g)
        BY TermsOfSearch
      <3> QED BY <1>2, <3>1 DEF Explored, Labels
    <2>2. Banded => /\ \A i \in DOMAIN frontier.open : frontier.open[i].f = frontier.band
                    /\ \A i \in DOMAIN frontier.later : frontier.later[i].f = frontier.band + 2
      BY <1>2, TermsOfSearch DEF Explored, Bands, ToSet
    <2> QED BY <1>2, <2>1, <2>2 DEF ClosedIsFinal
  <1> QED BY <1>1, <1>2 DEF SearchInv

(* The inductive invariant of astar_path and weighted_astar_path. *)
THEOREM SearchInvariant == SearchSpec => []SearchInv
  <1>1. SearchInit => SearchInv
    BY SearchStarts
  <1>2. SearchInv /\ [SearchNext]_search_vars => SearchInv'
    BY SearchSteps
  <1> QED BY <1>1, <1>2, PTL DEF SearchSpec

(* A tile is closed at its least cost, a route found costs the least, and  *)
(* an exhausted search had none to find, for every grid, model and field.  *)
THEOREM ClosedTilesAreFinal == SearchSpec => []ClosedIsFinal
  <1>1. SearchInv => ClosedIsFinal
    BY SearchIsFinal
  <1> QED BY <1>1, SearchInvariant, PTL

=============================================================================
