-------------------------- MODULE PathAgentsProofs --------------------------
(***************************************************************************)
(* What holds of path agents, their routes, occupancy and flow accounting, *)
(* for every world, span, policy and number of steps: the three drivers    *)
(* of PathAgents, the admission of JointMovement and the decisions of      *)
(* PibtMovement.                                                           *)
(*   1. The recursive functions of the drivers, unfolded.                  *)
(*   2. One agent's outcome, and the agent-by-agent driver.                *)
(*   3. Planning, the caller's edits and the end of a tick.                *)
(*   4. Joint admission and its driver.                                    *)
(*   5. The decision machine of PIBT, which stops, and its driver.         *)
(*   6. The inductive invariant of the specification and its consequences. *)
(***************************************************************************)
EXTENDS PathAgents, SequenceTheorems, FiniteSetTheorems, WellFoundedInduction, TLAPS

-----------------------------------------------------------------------------
(* Numbers, repetition and sequences.                                      *)

(* A nonempty set of numbers has a least one. *)
LEMMA LeastNumber ==
    ASSUME NEW T \in SUBSET Nat, T # {}
    PROVE  \E m \in T : \A k \in T : m <= k
  <1> DEFINE R == OpToRel(<, Nat)
  <1>1. IsWellFoundedOn(R, Nat)
    BY NatLessThanWellFounded
  <1>2. R = {ss \in Nat \X Nat : ss[1] < ss[2]}
    BY DEF OpToRel
  <1> HIDE DEF R
  <1>3. PICK m \in T : \A k \in T : ~(<<k, m>> \in R)
    BY <1>1, WFMin
  <1>4. \A k \in T : ~(k < m)
    BY <1>2, <1>3
  <1> QED BY <1>4

(* From 0 up to N, by the least counterexample. *)
LEMMA BoundedInduction ==
    ASSUME NEW N \in Nat, NEW S, 0 \in S, \A n \in 1 .. N : n - 1 \in S => n \in S
    PROVE  \A n \in 0 .. N : n \in S
  <1> DEFINE T == {n \in 0 .. N : n \notin S}
  <1>1. ASSUME T # {} PROVE FALSE
    <2>1. T \in SUBSET Nat
      OBVIOUS
    <2>2. PICK m \in T : \A k \in T : m <= k
      <3> HIDE DEF T
      <3> QED BY <1>1, <2>1, LeastNumber
    <2>3. m \in 1 .. N /\ m - 1 \in 0 .. N
      OBVIOUS
    <2>4. m - 1 \notin T
      <3> HIDE DEF T
      <3> QED BY <2>2, <2>3
    <2> QED BY <2>3, <2>4
  <1> QED BY <1>1

-----------------------------------------------------------------------------
(* The recursions of the model, unfolded.                                  *)

Admitted(outcome) == {i \in Agents : outcome[i] = "Admitted"}
Movers(pass, desired) == {i \in Agents : desired[i] # pass[i].at}

\* Where the outcomes of a round and of a pass start from, and what each agent's does.
AppliedStart(s, outcome) ==
    Enter(Vacate(s, {s.agents[i].position : i \in Admitted(outcome)}),
          {NextTile(s, i) : i \in Admitted(outcome)})
AppliedNext(outcome, s, i) ==
    CASE outcome[i] = "Inactive" -> s
      [] outcome[i] = "Admitted" -> AfterMove(s, i)
      [] OTHER -> AfterFailure(s, i, outcome[i])
ConfiguredStart(s, pass, desired) ==
    [Enter(Vacate(s, {pass[i].at : i \in Movers(pass, desired)}),
           {desired[i] : i \in Movers(pass, desired)})
        EXCEPT !.halted = (Movers(pass, desired) = {})]
ConfiguredNext(pass, desired, s, i) ==
    CASE i \in Movers(pass, desired) -> Displaced(s, i, desired[i])
      [] i \notin Movers(pass, desired) /\ pass[i].active ->
            AfterFailure(s, i, IF pass[i].stuck THEN "Impassable" ELSE "Occupied")
      [] OTHER -> s

(* Agent by agent: every agent takes its steps in span order. *)
LEMMA EachUnfolds ==
    ASSUME NEW s, NEW steps, Len(Starts) * steps \in Nat
    PROVE  \E f : /\ f[0] = s
                  /\ \A k \in 1 .. Len(Starts) * steps :
                        f[k] = Stepped(f[k - 1], ((k - 1) \div steps) + 1)
                  /\ SteppedEach(s, steps) = f[Len(Starts) * steps]
  <1> DEFINE N == Len(Starts) * steps
             z0 == s
             next(k, x) == Stepped(x, ((k - 1) \div steps) + 1)
             upTo[k \in 0 .. Len(Starts) * steps] ==
                IF k = 0 THEN s ELSE Stepped(upTo[k - 1], ((k - 1) \div steps) + 1)
             Is(n, f) == /\ f = [k \in 0 .. n |-> f[k]] /\ f[0] = z0
                         /\ \A k \in 1 .. n : f[k] = next(k, f[k - 1])
             S == {n \in 0 .. N : \E f : Is(n, f)}
  <1>0. N \in Nat
    OBVIOUS
  <1>1. 0 \in S
    <2> DEFINE g == [k \in 0 .. 0 |-> z0]
    <2> HIDE DEF next, z0, N
    <2>1. Is(0, g)
      OBVIOUS
    <2> HIDE DEF Is, g
    <2> QED BY <2>1, <1>0
  <1>2. ASSUME NEW n \in 1 .. N, n - 1 \in S PROVE n \in S
    <2>1. PICK f : Is(n - 1, f)
      BY <1>2
    <2> DEFINE g == [k \in 0 .. n |-> IF k = n THEN next(n, f[n - 1]) ELSE f[k]]
    <2> HIDE DEF next, N, z0
    <2>2. n \in Nat /\ n # 0 /\ \A k \in 1 .. n : k # n => k \in 1 .. n - 1
      BY <1>0
    <2>3. g[0] = z0 /\ \A k \in 0 .. n - 1 : g[k] = f[k]
      BY <2>1, <2>2
    <2>4. ASSUME NEW k \in 1 .. n PROVE g[k] = next(k, g[k - 1])
      <3>1. k - 1 \in 0 .. n - 1 /\ g[k - 1] = f[k - 1]
        BY <2>2, <2>3
      <3>2. CASE k = n
        BY <3>1, <3>2
      <3>3. CASE k # n
        <4>1. k \in 1 .. n - 1 /\ k \in 0 .. n - 1
          BY <2>2, <3>3
        <4>2. f[k] = next(k, f[k - 1])
          BY <2>1, <4>1
        <4> HIDE DEF g, Is
        <4> QED BY <2>3, <3>1, <4>1, <4>2
      <3> QED BY <3>2, <3>3
    <2>5. Is(n, g)
      BY <2>3, <2>4
    <2> HIDE DEF Is, g
    <2> QED BY <2>5, <1>0
  <1>3. N \in S
    <2> HIDE DEF S, N
    <2> QED BY <1>0, <1>1, <1>2, BoundedInduction, SMTT(30)
  <1>4. PICK f : Is(N, f)
    <2> HIDE DEF N, next, z0
    <2> QED BY <1>3
  <1>5. f = [k \in 0 .. N |-> IF k = 0 THEN z0 ELSE next(k, f[k - 1])]
    <2> HIDE DEF next, N, z0
    <2>1. ASSUME NEW k \in 0 .. N PROVE f[k] = IF k = 0 THEN z0 ELSE next(k, f[k - 1])
      <3>1. k = 0 \/ k \in 1 .. N
        BY <1>0
      <3> QED BY <1>4, <3>1
    <2>2. f = [k \in 0 .. N |-> f[k]]
      BY <1>4
    <2> QED BY <2>1, <2>2
  <1>6. upTo = [k \in 0 .. N |-> IF k = 0 THEN z0 ELSE next(k, upTo[k - 1])]
    BY <1>5
  <1>7. SteppedEach(s, steps) = upTo[Len(Starts) * steps]
    BY DEF SteppedEach
  <1> HIDE DEF upTo
  <1>8. upTo[0] = z0 /\ \A k \in 1 .. N : upTo[k] = next(k, upTo[k - 1])
    <2> HIDE DEF next, N, z0
    <2> QED BY <1>0, <1>6
  <1> QED BY <1>7, <1>8

(* Jointly: one admission round after another. *)
LEMMA JointUnfolds ==
    ASSUME NEW s, NEW steps \in Nat, NEW policy
    PROVE  \E f : /\ f[0] = s
                  /\ \A k \in 1 .. steps :
                        f[k] = Applied(f[k - 1], Admission(RoundOf(f[k - 1]), policy))
                  /\ SteppedJointly(s, steps, policy) = f[steps]
  <1> DEFINE N == steps
             z0 == s
             next(k, x) == Applied(x, Admission(RoundOf(x), policy))
             upTo[k \in 0 .. steps] ==
                IF k = 0 THEN s ELSE Applied(upTo[k - 1], Admission(RoundOf(upTo[k - 1]), policy))
             Is(n, f) == /\ f = [k \in 0 .. n |-> f[k]] /\ f[0] = z0
                         /\ \A k \in 1 .. n : f[k] = next(k, f[k - 1])
             S == {n \in 0 .. N : \E f : Is(n, f)}
  <1>0. N \in Nat
    OBVIOUS
  <1>1. 0 \in S
    <2> DEFINE g == [k \in 0 .. 0 |-> z0]
    <2> HIDE DEF next, z0, N
    <2>1. Is(0, g)
      OBVIOUS
    <2> HIDE DEF Is, g
    <2> QED BY <2>1, <1>0
  <1>2. ASSUME NEW n \in 1 .. N, n - 1 \in S PROVE n \in S
    <2>1. PICK f : Is(n - 1, f)
      BY <1>2
    <2> DEFINE g == [k \in 0 .. n |-> IF k = n THEN next(n, f[n - 1]) ELSE f[k]]
    <2> HIDE DEF next, N, z0
    <2>2. n \in Nat /\ n # 0 /\ \A k \in 1 .. n : k # n => k \in 1 .. n - 1
      BY <1>0
    <2>3. g[0] = z0 /\ \A k \in 0 .. n - 1 : g[k] = f[k]
      BY <2>1, <2>2
    <2>4. ASSUME NEW k \in 1 .. n PROVE g[k] = next(k, g[k - 1])
      <3>1. k - 1 \in 0 .. n - 1 /\ g[k - 1] = f[k - 1]
        BY <2>2, <2>3
      <3>2. CASE k = n
        BY <3>1, <3>2
      <3>3. CASE k # n
        <4>1. k \in 1 .. n - 1 /\ k \in 0 .. n - 1
          BY <2>2, <3>3
        <4>2. f[k] = next(k, f[k - 1])
          BY <2>1, <4>1
        <4> HIDE DEF g, Is
        <4> QED BY <2>3, <3>1, <4>1, <4>2
      <3> QED BY <3>2, <3>3
    <2>5. Is(n, g)
      BY <2>3, <2>4
    <2> HIDE DEF Is, g
    <2> QED BY <2>5, <1>0
  <1>3. N \in S
    <2> HIDE DEF S, N
    <2> QED BY <1>0, <1>1, <1>2, BoundedInduction
  <1>4. PICK f : Is(N, f)
    <2> HIDE DEF N, next, z0
    <2> QED BY <1>3
  <1>5. f = [k \in 0 .. N |-> IF k = 0 THEN z0 ELSE next(k, f[k - 1])]
    <2> HIDE DEF next, N, z0
    <2>1. ASSUME NEW k \in 0 .. N PROVE f[k] = IF k = 0 THEN z0 ELSE next(k, f[k - 1])
      <3>1. k = 0 \/ k \in 1 .. N
        BY <1>0
      <3> QED BY <1>4, <3>1
    <2>2. f = [k \in 0 .. N |-> f[k]]
      BY <1>4
    <2> QED BY <2>1, <2>2
  <1>6. upTo = [k \in 0 .. N |-> IF k = 0 THEN z0 ELSE next(k, upTo[k - 1])]
    BY <1>5
  <1>7. SteppedJointly(s, steps, policy) = upTo[steps]
    BY DEF SteppedJointly
  <1> HIDE DEF upTo
  <1>8. upTo[0] = z0 /\ \A k \in 1 .. N : upTo[k] = next(k, upTo[k - 1])
    <2> HIDE DEF next, N, z0
    <2> QED BY <1>0, <1>6
  <1> QED BY <1>7, <1>8

\* One turn of the PIBT driver.
PibtNext(s, oracle, policy) ==
    IF s.halted THEN s ELSE PibtPass(s, oracle, policy)

(* PIBT: one pass after another until nobody moves. *)
LEMMA PibtUnfolds ==
    ASSUME NEW s, NEW steps \in Nat, NEW oracle, NEW policy
    PROVE  \E f : /\ f[0] = s
                  /\ \A k \in 1 .. steps : f[k] = PibtNext(f[k - 1], oracle, policy)
                  /\ SteppedByPibt(s, steps, oracle, policy) = f[steps]
  <1> DEFINE N == steps
             z0 == s
             next(k, x) == PibtNext(x, oracle, policy)
             upTo[k \in 0 .. steps] ==
                IF k = 0 THEN s ELSE PibtNext(upTo[k - 1], oracle, policy)
             Is(n, f) == /\ f = [k \in 0 .. n |-> f[k]] /\ f[0] = z0
                         /\ \A k \in 1 .. n : f[k] = next(k, f[k - 1])
             S == {n \in 0 .. N : \E f : Is(n, f)}
  <1>0. N \in Nat
    OBVIOUS
  <1>1. 0 \in S
    <2> DEFINE g == [k \in 0 .. 0 |-> z0]
    <2> HIDE DEF next, z0, N
    <2>1. Is(0, g)
      OBVIOUS
    <2> HIDE DEF Is, g
    <2> QED BY <2>1, <1>0
  <1>2. ASSUME NEW n \in 1 .. N, n - 1 \in S PROVE n \in S
    <2>1. PICK f : Is(n - 1, f)
      BY <1>2
    <2> DEFINE g == [k \in 0 .. n |-> IF k = n THEN next(n, f[n - 1]) ELSE f[k]]
    <2> HIDE DEF next, N, z0
    <2>2. n \in Nat /\ n # 0 /\ \A k \in 1 .. n : k # n => k \in 1 .. n - 1
      BY <1>0
    <2>3. g[0] = z0 /\ \A k \in 0 .. n - 1 : g[k] = f[k]
      BY <2>1, <2>2
    <2>4. ASSUME NEW k \in 1 .. n PROVE g[k] = next(k, g[k - 1])
      <3>1. k - 1 \in 0 .. n - 1 /\ g[k - 1] = f[k - 1]
        BY <2>2, <2>3
      <3>2. CASE k = n
        BY <3>1, <3>2
      <3>3. CASE k # n
        <4>1. k \in 1 .. n - 1 /\ k \in 0 .. n - 1
          BY <2>2, <3>3
        <4>2. f[k] = next(k, f[k - 1])
          BY <2>1, <4>1
        <4> HIDE DEF g, Is
        <4> QED BY <2>3, <3>1, <4>1, <4>2
      <3> QED BY <3>2, <3>3
    <2>5. Is(n, g)
      BY <2>3, <2>4
    <2> HIDE DEF Is, g
    <2> QED BY <2>5, <1>0
  <1>3. N \in S
    <2> HIDE DEF S, N
    <2> QED BY <1>0, <1>1, <1>2, BoundedInduction
  <1>4. PICK f : Is(N, f)
    <2> HIDE DEF N, next, z0
    <2> QED BY <1>3
  <1>5. f = [k \in 0 .. N |-> IF k = 0 THEN z0 ELSE next(k, f[k - 1])]
    <2> HIDE DEF next, N, z0
    <2>1. ASSUME NEW k \in 0 .. N PROVE f[k] = IF k = 0 THEN z0 ELSE next(k, f[k - 1])
      <3>1. k = 0 \/ k \in 1 .. N
        BY <1>0
      <3> QED BY <1>4, <3>1
    <2>2. f = [k \in 0 .. N |-> f[k]]
      BY <1>4
    <2> QED BY <2>1, <2>2
  <1>6. upTo = [k \in 0 .. N |-> IF k = 0 THEN z0 ELSE next(k, upTo[k - 1])]
    BY <1>5
  <1>7. SteppedByPibt(s, steps, oracle, policy) = upTo[steps]
    BY DEF SteppedByPibt, PibtNext
  <1> HIDE DEF upTo
  <1>8. upTo[0] = z0 /\ \A k \in 1 .. N : upTo[k] = next(k, upTo[k - 1])
    <2> HIDE DEF next, N, z0
    <2> QED BY <1>0, <1>6
  <1> QED BY <1>7, <1>8

(* The outcomes of a round are applied in span order, after the exchange of tiles. *)
LEMMA AppliedUnfolds ==
    ASSUME NEW s, NEW outcome, Len(Starts) \in Nat
    PROVE  \E f : /\ f[0] = AppliedStart(s, outcome)
                  /\ \A k \in 1 .. Len(Starts) : f[k] = AppliedNext(outcome, f[k - 1], k)
                  /\ Applied(s, outcome) = f[Len(Starts)]
  <1> DEFINE N == Len(Starts)
             admitted == {i \in Agents : outcome[i] = "Admitted"}
             moved == Enter(Vacate(s, {s.agents[i].position : i \in admitted}),
                            {NextTile(s, i) : i \in admitted})
             z0 == Enter(Vacate(s, {s.agents[i].position : i \in Admitted(outcome)}),
                                    {NextTile(s, i) : i \in Admitted(outcome)})
             next(k, x) == CASE outcome[k] = "Inactive" -> x
  [] outcome[k] = "Admitted" -> AfterMove(x, k)
  [] OTHER -> AfterFailure(x, k, outcome[k])
             upTo[i \in 0 .. Len(Starts)] ==
                IF i = 0 THEN moved ELSE CASE outcome[i] = "Inactive" -> upTo[i - 1]
                       [] outcome[i] = "Admitted" -> AfterMove(upTo[i - 1], i)
                       [] OTHER -> AfterFailure(upTo[i - 1], i, outcome[i])
             Is(n, f) == /\ f = [k \in 0 .. n |-> f[k]] /\ f[0] = z0
                         /\ \A k \in 1 .. n : f[k] = next(k, f[k - 1])
             S == {n \in 0 .. N : \E f : Is(n, f)}
  <1>0. N \in Nat
    OBVIOUS
  <1>1. 0 \in S
    <2> DEFINE g == [k \in 0 .. 0 |-> z0]
    <2> HIDE DEF next, z0, N
    <2>1. Is(0, g)
      OBVIOUS
    <2> HIDE DEF Is, g
    <2> QED BY <2>1, <1>0
  <1>2. ASSUME NEW n \in 1 .. N, n - 1 \in S PROVE n \in S
    <2>1. PICK f : Is(n - 1, f)
      BY <1>2
    <2> DEFINE g == [k \in 0 .. n |-> IF k = n THEN next(n, f[n - 1]) ELSE f[k]]
    <2> HIDE DEF next, N, z0
    <2>2. n \in Nat /\ n # 0 /\ \A k \in 1 .. n : k # n => k \in 1 .. n - 1
      BY <1>0
    <2>3. g[0] = z0 /\ \A k \in 0 .. n - 1 : g[k] = f[k]
      BY <2>1, <2>2
    <2>4. ASSUME NEW k \in 1 .. n PROVE g[k] = next(k, g[k - 1])
      <3>1. k - 1 \in 0 .. n - 1 /\ g[k - 1] = f[k - 1]
        BY <2>2, <2>3
      <3>2. CASE k = n
        BY <3>1, <3>2
      <3>3. CASE k # n
        <4>1. k \in 1 .. n - 1 /\ k \in 0 .. n - 1
          BY <2>2, <3>3
        <4>2. f[k] = next(k, f[k - 1])
          BY <2>1, <4>1
        <4> HIDE DEF g, Is
        <4> QED BY <2>3, <3>1, <4>1, <4>2
      <3> QED BY <3>2, <3>3
    <2>5. Is(n, g)
      BY <2>3, <2>4
    <2> HIDE DEF Is, g
    <2> QED BY <2>5, <1>0
  <1>3. N \in S
    <2> HIDE DEF S, N
    <2> QED BY <1>0, <1>1, <1>2, BoundedInduction
  <1>4. PICK f : Is(N, f)
    <2> HIDE DEF N, next, z0
    <2> QED BY <1>3
  <1>5. f = [k \in 0 .. N |-> IF k = 0 THEN z0 ELSE next(k, f[k - 1])]
    <2> HIDE DEF next, N, z0
    <2>1. ASSUME NEW k \in 0 .. N PROVE f[k] = IF k = 0 THEN z0 ELSE next(k, f[k - 1])
      <3>1. k = 0 \/ k \in 1 .. N
        BY <1>0
      <3> QED BY <1>4, <3>1
    <2>2. f = [k \in 0 .. N |-> f[k]]
      BY <1>4
    <2> QED BY <2>1, <2>2
  <1>6. upTo = [k \in 0 .. N |-> IF k = 0 THEN z0 ELSE next(k, upTo[k - 1])]
    BY <1>5 DEF Admitted
  <1>7. Applied(s, outcome) = upTo[Len(Starts)]
    BY DEF Applied, Admitted
  <1> HIDE DEF upTo
  <1>8. upTo[0] = z0 /\ \A k \in 1 .. N : upTo[k] = next(k, upTo[k - 1])
    <2> HIDE DEF next, N, z0
    <2> QED BY <1>0, <1>6
  <1>9. z0 = AppliedStart(s, outcome) /\ \A k, x : next(k, x) = AppliedNext(outcome, x, k)
    BY DEF AppliedStart, AppliedNext
  <1> HIDE DEF next, z0
  <1> QED BY <1>7, <1>8, <1>9

(* The configuration is applied in span order, after the exchange of tiles. *)
LEMMA ConfiguredUnfolds ==
    ASSUME NEW s, NEW pass, NEW desired, Len(Starts) \in Nat
    PROVE  \E f : /\ f[0] = ConfiguredStart(s, pass, desired)
                  /\ \A k \in 1 .. Len(Starts) : f[k] = ConfiguredNext(pass, desired, f[k - 1], k)
                  /\ Configured(s, pass, desired) = f[Len(Starts)]
  <1> DEFINE N == Len(Starts)
             movers == {i \in Agents : desired[i] # pass[i].at}
             moved == Enter(Vacate(s, {pass[i].at : i \in movers}),
                            {desired[i] : i \in movers})
             z0 == [Enter(Vacate(s, {pass[i].at : i \in Movers(pass, desired)}),
                                     {desired[i] : i \in Movers(pass, desired)})
                                  EXCEPT !.halted = (Movers(pass, desired) = {})]
             next(k, x) == CASE k \in Movers(pass, desired) -> Displaced(x, k, desired[k])
  [] k \notin Movers(pass, desired) /\ pass[k].active ->
        AfterFailure(x, k, IF pass[k].stuck THEN "Impassable" ELSE "Occupied")
  [] OTHER -> x
             upTo[i \in 0 .. Len(Starts)] ==
                IF i = 0 THEN [moved EXCEPT !.halted = (movers = {})] ELSE CASE i \in movers -> Displaced(upTo[i - 1], i, desired[i])
                       [] i \notin movers /\ pass[i].active ->
                             AfterFailure(upTo[i - 1], i,
                                 IF pass[i].stuck THEN "Impassable" ELSE "Occupied")
                       [] OTHER -> upTo[i - 1]
             Is(n, f) == /\ f = [k \in 0 .. n |-> f[k]] /\ f[0] = z0
                         /\ \A k \in 1 .. n : f[k] = next(k, f[k - 1])
             S == {n \in 0 .. N : \E f : Is(n, f)}
  <1>0. N \in Nat
    OBVIOUS
  <1>1. 0 \in S
    <2> DEFINE g == [k \in 0 .. 0 |-> z0]
    <2> HIDE DEF next, z0, N
    <2>1. Is(0, g)
      OBVIOUS
    <2> HIDE DEF Is, g
    <2> QED BY <2>1, <1>0
  <1>2. ASSUME NEW n \in 1 .. N, n - 1 \in S PROVE n \in S
    <2>1. PICK f : Is(n - 1, f)
      BY <1>2
    <2> DEFINE g == [k \in 0 .. n |-> IF k = n THEN next(n, f[n - 1]) ELSE f[k]]
    <2> HIDE DEF next, N, z0
    <2>2. n \in Nat /\ n # 0 /\ \A k \in 1 .. n : k # n => k \in 1 .. n - 1
      BY <1>0
    <2>3. g[0] = z0 /\ \A k \in 0 .. n - 1 : g[k] = f[k]
      BY <2>1, <2>2
    <2>4. ASSUME NEW k \in 1 .. n PROVE g[k] = next(k, g[k - 1])
      <3>1. k - 1 \in 0 .. n - 1 /\ g[k - 1] = f[k - 1]
        BY <2>2, <2>3
      <3>2. CASE k = n
        BY <3>1, <3>2
      <3>3. CASE k # n
        <4>1. k \in 1 .. n - 1 /\ k \in 0 .. n - 1
          BY <2>2, <3>3
        <4>2. f[k] = next(k, f[k - 1])
          BY <2>1, <4>1
        <4> HIDE DEF g, Is
        <4> QED BY <2>3, <3>1, <4>1, <4>2
      <3> QED BY <3>2, <3>3
    <2>5. Is(n, g)
      BY <2>3, <2>4
    <2> HIDE DEF Is, g
    <2> QED BY <2>5, <1>0
  <1>3. N \in S
    <2> HIDE DEF S, N
    <2> QED BY <1>0, <1>1, <1>2, BoundedInduction
  <1>4. PICK f : Is(N, f)
    <2> HIDE DEF N, next, z0
    <2> QED BY <1>3
  <1>5. f = [k \in 0 .. N |-> IF k = 0 THEN z0 ELSE next(k, f[k - 1])]
    <2> HIDE DEF next, N, z0
    <2>1. ASSUME NEW k \in 0 .. N PROVE f[k] = IF k = 0 THEN z0 ELSE next(k, f[k - 1])
      <3>1. k = 0 \/ k \in 1 .. N
        BY <1>0
      <3> QED BY <1>4, <3>1
    <2>2. f = [k \in 0 .. N |-> f[k]]
      BY <1>4
    <2> QED BY <2>1, <2>2
  <1>6. upTo = [k \in 0 .. N |-> IF k = 0 THEN z0 ELSE next(k, upTo[k - 1])]
    BY <1>5 DEF Movers
  <1>7. Configured(s, pass, desired) = upTo[Len(Starts)]
    BY DEF Configured, Movers
  <1> HIDE DEF upTo
  <1>8. upTo[0] = z0 /\ \A k \in 1 .. N : upTo[k] = next(k, upTo[k - 1])
    <2> HIDE DEF next, N, z0
    <2> QED BY <1>0, <1>6
  <1>9. z0 = ConfiguredStart(s, pass, desired)
        /\ \A k, x : next(k, x) = ConfiguredNext(pass, desired, x, k)
    BY DEF ConfiguredStart, ConfiguredNext
  <1> HIDE DEF next, z0
  <1> QED BY <1>7, <1>8, <1>9

(* The passes of phase 3, one agent at a time. *)
LEMMA DrainedUnfolds ==
    ASSUME NEW round, Len(round) \in Nat
    PROVE  \E f : /\ f[0] = Validated(round)
                  /\ \A k \in 1 .. Len(round) * Len(round) :
                        f[k] = Chained(round, f[k - 1], ((k - 1) % Len(round)) + 1)
                  /\ Drained(round) = f[Len(round) * Len(round)]
  <1> DEFINE N == Len(round) * Len(round)
             z0 == Validated(round)
             next(k, x) == Chained(round, x, ((k - 1) % Len(round)) + 1)
             upTo[k \in 0 .. Len(round) * Len(round)] ==
                IF k = 0 THEN Validated(round) ELSE Chained(round, upTo[k - 1], ((k - 1) % Len(round)) + 1)
             Is(n, f) == /\ f = [k \in 0 .. n |-> f[k]] /\ f[0] = z0
                         /\ \A k \in 1 .. n : f[k] = next(k, f[k - 1])
             S == {n \in 0 .. N : \E f : Is(n, f)}
  <1>0. N \in Nat
    OBVIOUS
  <1>1. 0 \in S
    <2> DEFINE g == [k \in 0 .. 0 |-> z0]
    <2> HIDE DEF next, z0, N
    <2>1. Is(0, g)
      OBVIOUS
    <2> HIDE DEF Is, g
    <2> QED BY <2>1, <1>0
  <1>2. ASSUME NEW n \in 1 .. N, n - 1 \in S PROVE n \in S
    <2>1. PICK f : Is(n - 1, f)
      BY <1>2
    <2> DEFINE g == [k \in 0 .. n |-> IF k = n THEN next(n, f[n - 1]) ELSE f[k]]
    <2> HIDE DEF next, N, z0
    <2>2. n \in Nat /\ n # 0 /\ \A k \in 1 .. n : k # n => k \in 1 .. n - 1
      BY <1>0
    <2>3. g[0] = z0 /\ \A k \in 0 .. n - 1 : g[k] = f[k]
      BY <2>1, <2>2
    <2>4. ASSUME NEW k \in 1 .. n PROVE g[k] = next(k, g[k - 1])
      <3>1. k - 1 \in 0 .. n - 1 /\ g[k - 1] = f[k - 1]
        BY <2>2, <2>3
      <3>2. CASE k = n
        BY <3>1, <3>2
      <3>3. CASE k # n
        <4>1. k \in 1 .. n - 1 /\ k \in 0 .. n - 1
          BY <2>2, <3>3
        <4>2. f[k] = next(k, f[k - 1])
          BY <2>1, <4>1
        <4> HIDE DEF g, Is
        <4> QED BY <2>3, <3>1, <4>1, <4>2
      <3> QED BY <3>2, <3>3
    <2>5. Is(n, g)
      BY <2>3, <2>4
    <2> HIDE DEF Is, g
    <2> QED BY <2>5, <1>0
  <1>3. N \in S
    <2> HIDE DEF S, N
    <2> QED BY <1>0, <1>1, <1>2, BoundedInduction
  <1>4. PICK f : Is(N, f)
    <2> HIDE DEF N, next, z0
    <2> QED BY <1>3
  <1>5. f = [k \in 0 .. N |-> IF k = 0 THEN z0 ELSE next(k, f[k - 1])]
    <2> HIDE DEF next, N, z0
    <2>1. ASSUME NEW k \in 0 .. N PROVE f[k] = IF k = 0 THEN z0 ELSE next(k, f[k - 1])
      <3>1. k = 0 \/ k \in 1 .. N
        BY <1>0
      <3> QED BY <1>4, <3>1
    <2>2. f = [k \in 0 .. N |-> f[k]]
      BY <1>4
    <2> QED BY <2>1, <2>2
  <1>6. upTo = [k \in 0 .. N |-> IF k = 0 THEN z0 ELSE next(k, upTo[k - 1])]
    BY <1>5
  <1>7. Drained(round) = upTo[Len(round) * Len(round)]
    BY DEF Drained
  <1> HIDE DEF upTo
  <1>8. upTo[0] = z0 /\ \A k \in 1 .. N : upTo[k] = next(k, upTo[k - 1])
    <2> HIDE DEF next, N, z0
    <2> QED BY <1>0, <1>6
  <1> QED BY <1>7, <1>8

(* The walk along the pending moves that phase 4 takes from one agent. *)
LEMMA WalkUnfolds ==
    ASSUME NEW round, NEW state, NEW i, Len(round) \in Nat
    PROVE  \E f : /\ f[0] = {i}
                  /\ \A k \in 1 .. Len(round) :
                        f[k] = {m \in UNION {Occupants(round, round[j].to) : j \in f[k - 1]} : state[m] = "Pending"}
                  /\ CycleOf(round, state, i) = IF \E k \in 1 .. Len(round) : i \in f[k]
                                                THEN UNION {f[k] : k \in 0 .. Len(round)}
                                                ELSE {}
  <1> DEFINE N == Len(round)
             z0 == {i}
             next(k, x) == {m \in UNION {Occupants(round, round[j].to) : j \in x} : state[m] = "Pending"}
             walk[k \in 0 .. Len(round)] ==
                IF k = 0 THEN {i} ELSE {m \in UNION {Occupants(round, round[j].to) : j \in walk[k - 1]} : state[m] = "Pending"}
             Is(n, f) == /\ f = [k \in 0 .. n |-> f[k]] /\ f[0] = z0
                         /\ \A k \in 1 .. n : f[k] = next(k, f[k - 1])
             S == {n \in 0 .. N : \E f : Is(n, f)}
  <1>0. N \in Nat
    OBVIOUS
  <1>1. 0 \in S
    <2> DEFINE g == [k \in 0 .. 0 |-> z0]
    <2> HIDE DEF next, z0, N
    <2>1. Is(0, g)
      OBVIOUS
    <2> HIDE DEF Is, g
    <2> QED BY <2>1, <1>0
  <1>2. ASSUME NEW n \in 1 .. N, n - 1 \in S PROVE n \in S
    <2>1. PICK f : Is(n - 1, f)
      BY <1>2
    <2> DEFINE g == [k \in 0 .. n |-> IF k = n THEN next(n, f[n - 1]) ELSE f[k]]
    <2> HIDE DEF next, N, z0
    <2>2. n \in Nat /\ n # 0 /\ \A k \in 1 .. n : k # n => k \in 1 .. n - 1
      BY <1>0
    <2>3. g[0] = z0 /\ \A k \in 0 .. n - 1 : g[k] = f[k]
      BY <2>1, <2>2
    <2>4. ASSUME NEW k \in 1 .. n PROVE g[k] = next(k, g[k - 1])
      <3>1. k - 1 \in 0 .. n - 1 /\ g[k - 1] = f[k - 1]
        BY <2>2, <2>3
      <3>2. CASE k = n
        BY <3>1, <3>2
      <3>3. CASE k # n
        <4>1. k \in 1 .. n - 1 /\ k \in 0 .. n - 1
          BY <2>2, <3>3
        <4>2. f[k] = next(k, f[k - 1])
          BY <2>1, <4>1
        <4> HIDE DEF g, Is
        <4> QED BY <2>3, <3>1, <4>1, <4>2
      <3> QED BY <3>2, <3>3
    <2>5. Is(n, g)
      BY <2>3, <2>4
    <2> HIDE DEF Is, g
    <2> QED BY <2>5, <1>0
  <1>3. N \in S
    <2> HIDE DEF S, N
    <2> QED BY <1>0, <1>1, <1>2, BoundedInduction
  <1>4. PICK f : Is(N, f)
    <2> HIDE DEF N, next, z0
    <2> QED BY <1>3
  <1>5. f = [k \in 0 .. N |-> IF k = 0 THEN z0 ELSE next(k, f[k - 1])]
    <2> HIDE DEF next, N, z0
    <2>1. ASSUME NEW k \in 0 .. N PROVE f[k] = IF k = 0 THEN z0 ELSE next(k, f[k - 1])
      <3>1. k = 0 \/ k \in 1 .. N
        BY <1>0
      <3> QED BY <1>4, <3>1
    <2>2. f = [k \in 0 .. N |-> f[k]]
      BY <1>4
    <2> QED BY <2>1, <2>2
  <1>6. walk = [k \in 0 .. N |-> IF k = 0 THEN z0 ELSE next(k, walk[k - 1])]
    BY <1>5
  <1>7. CycleOf(round, state, i) = IF \E k \in 1 .. Len(round) : i \in walk[k]
                                                THEN UNION {walk[k] : k \in 0 .. Len(round)}
                                                ELSE {}
    BY <1>6 DEF CycleOf
  <1> HIDE DEF walk
  <1>8. walk[0] = z0 /\ \A k \in 1 .. N : walk[k] = next(k, walk[k - 1])
    <2> HIDE DEF next, N, z0
    <2> QED BY <1>0, <1>6
  <1> QED BY <1>7, <1>8

(* The bound on the steps of a pass is the sum over its agents. *)
LEMMA MostStepsUnfolds ==
    ASSUME NEW pass, Len(pass) \in Nat
    PROVE  \E f : /\ f[0] = 0
                  /\ \A k \in 1 .. Len(pass) :
                        f[k] = f[k - 1] + 2 * Len(pass[k].options) + 2
                  /\ MostSteps(pass) = f[Len(pass)]
  <1> DEFINE N == Len(pass)
             z0 == 0
             next(k, x) == x + 2 * Len(pass[k].options) + 2
             upTo[k \in 0 .. Len(pass)] ==
                IF k = 0 THEN 0 ELSE upTo[k - 1] + 2 * Len(pass[k].options) + 2
             Is(n, f) == /\ f = [k \in 0 .. n |-> f[k]] /\ f[0] = z0
                         /\ \A k \in 1 .. n : f[k] = next(k, f[k - 1])
             S == {n \in 0 .. N : \E f : Is(n, f)}
  <1>0. N \in Nat
    OBVIOUS
  <1>1. 0 \in S
    <2> DEFINE g == [k \in 0 .. 0 |-> z0]
    <2> HIDE DEF next, z0, N
    <2>1. Is(0, g)
      OBVIOUS
    <2> HIDE DEF Is, g
    <2> QED BY <2>1, <1>0
  <1>2. ASSUME NEW n \in 1 .. N, n - 1 \in S PROVE n \in S
    <2>1. PICK f : Is(n - 1, f)
      BY <1>2
    <2> DEFINE g == [k \in 0 .. n |-> IF k = n THEN next(n, f[n - 1]) ELSE f[k]]
    <2> HIDE DEF next, N, z0
    <2>2. n \in Nat /\ n # 0 /\ \A k \in 1 .. n : k # n => k \in 1 .. n - 1
      BY <1>0
    <2>3. g[0] = z0 /\ \A k \in 0 .. n - 1 : g[k] = f[k]
      BY <2>1, <2>2
    <2>4. ASSUME NEW k \in 1 .. n PROVE g[k] = next(k, g[k - 1])
      <3>1. k - 1 \in 0 .. n - 1 /\ g[k - 1] = f[k - 1]
        BY <2>2, <2>3
      <3>2. CASE k = n
        BY <3>1, <3>2
      <3>3. CASE k # n
        <4>1. k \in 1 .. n - 1 /\ k \in 0 .. n - 1
          BY <2>2, <3>3
        <4>2. f[k] = next(k, f[k - 1])
          BY <2>1, <4>1
        <4> HIDE DEF g, Is
        <4> QED BY <2>3, <3>1, <4>1, <4>2
      <3> QED BY <3>2, <3>3
    <2>5. Is(n, g)
      BY <2>3, <2>4
    <2> HIDE DEF Is, g
    <2> QED BY <2>5, <1>0
  <1>3. N \in S
    <2> HIDE DEF S, N
    <2> QED BY <1>0, <1>1, <1>2, BoundedInduction
  <1>4. PICK f : Is(N, f)
    <2> HIDE DEF N, next, z0
    <2> QED BY <1>3
  <1>5. f = [k \in 0 .. N |-> IF k = 0 THEN z0 ELSE next(k, f[k - 1])]
    <2> HIDE DEF next, N, z0
    <2>1. ASSUME NEW k \in 0 .. N PROVE f[k] = IF k = 0 THEN z0 ELSE next(k, f[k - 1])
      <3>1. k = 0 \/ k \in 1 .. N
        BY <1>0
      <3> QED BY <1>4, <3>1
    <2>2. f = [k \in 0 .. N |-> f[k]]
      BY <1>4
    <2> QED BY <2>1, <2>2
  <1>6. upTo = [k \in 0 .. N |-> IF k = 0 THEN z0 ELSE next(k, upTo[k - 1])]
    BY <1>5
  <1>7. MostSteps(pass) = upTo[Len(pass)]
    BY DEF MostSteps
  <1> HIDE DEF upTo
  <1>8. upTo[0] = z0 /\ \A k \in 1 .. N : upTo[k] = next(k, upTo[k - 1])
    <2> HIDE DEF next, N, z0
    <2> QED BY <1>0, <1>6
  <1> QED BY <1>7, <1>8

(* The machine of a pass, step by step. *)
LEMMA DecidedUnfolds ==
    ASSUME NEW pass, NEW policy, MostSteps(pass) \in Nat
    PROVE  \E f : /\ f[0] = Undeciding(pass)
                  /\ \A k \in 1 .. MostSteps(pass) :
                        f[k] = Deciding(pass, f[k - 1], policy)
                  /\ Decided(pass, policy) = f[MostSteps(pass)].desired
  <1> DEFINE N == MostSteps(pass)
             z0 == Undeciding(pass)
             next(k, x) == Deciding(pass, x, policy)
             upTo[k \in 0 .. MostSteps(pass)] ==
                IF k = 0 THEN Undeciding(pass) ELSE Deciding(pass, upTo[k - 1], policy)
             Is(n, f) == /\ f = [k \in 0 .. n |-> f[k]] /\ f[0] = z0
                         /\ \A k \in 1 .. n : f[k] = next(k, f[k - 1])
             S == {n \in 0 .. N : \E f : Is(n, f)}
  <1>0. N \in Nat
    OBVIOUS
  <1>1. 0 \in S
    <2> DEFINE g == [k \in 0 .. 0 |-> z0]
    <2> HIDE DEF next, z0, N
    <2>1. Is(0, g)
      OBVIOUS
    <2> HIDE DEF Is, g
    <2> QED BY <2>1, <1>0
  <1>2. ASSUME NEW n \in 1 .. N, n - 1 \in S PROVE n \in S
    <2>1. PICK f : Is(n - 1, f)
      BY <1>2
    <2> DEFINE g == [k \in 0 .. n |-> IF k = n THEN next(n, f[n - 1]) ELSE f[k]]
    <2> HIDE DEF next, N, z0
    <2>2. n \in Nat /\ n # 0 /\ \A k \in 1 .. n : k # n => k \in 1 .. n - 1
      BY <1>0
    <2>3. g[0] = z0 /\ \A k \in 0 .. n - 1 : g[k] = f[k]
      BY <2>1, <2>2
    <2>4. ASSUME NEW k \in 1 .. n PROVE g[k] = next(k, g[k - 1])
      <3>1. k - 1 \in 0 .. n - 1 /\ g[k - 1] = f[k - 1]
        BY <2>2, <2>3
      <3>2. CASE k = n
        BY <3>1, <3>2
      <3>3. CASE k # n
        <4>1. k \in 1 .. n - 1 /\ k \in 0 .. n - 1
          BY <2>2, <3>3
        <4>2. f[k] = next(k, f[k - 1])
          BY <2>1, <4>1
        <4> HIDE DEF g, Is
        <4> QED BY <2>3, <3>1, <4>1, <4>2
      <3> QED BY <3>2, <3>3
    <2>5. Is(n, g)
      BY <2>3, <2>4
    <2> HIDE DEF Is, g
    <2> QED BY <2>5, <1>0
  <1>3. N \in S
    <2> HIDE DEF S, N
    <2> QED BY <1>0, <1>1, <1>2, BoundedInduction
  <1>4. PICK f : Is(N, f)
    <2> HIDE DEF N, next, z0
    <2> QED BY <1>3
  <1>5. f = [k \in 0 .. N |-> IF k = 0 THEN z0 ELSE next(k, f[k - 1])]
    <2> HIDE DEF next, N, z0
    <2>1. ASSUME NEW k \in 0 .. N PROVE f[k] = IF k = 0 THEN z0 ELSE next(k, f[k - 1])
      <3>1. k = 0 \/ k \in 1 .. N
        BY <1>0
      <3> QED BY <1>4, <3>1
    <2>2. f = [k \in 0 .. N |-> f[k]]
      BY <1>4
    <2> QED BY <2>1, <2>2
  <1>6. upTo = [k \in 0 .. N |-> IF k = 0 THEN z0 ELSE next(k, upTo[k - 1])]
    BY <1>5
  <1>7. Decided(pass, policy) = upTo[MostSteps(pass)].desired
    BY DEF Decided
  <1> HIDE DEF upTo
  <1>8. upTo[0] = z0 /\ \A k \in 1 .. N : upTo[k] = next(k, upTo[k - 1])
    <2> HIDE DEF next, N, z0
    <2> QED BY <1>0, <1>6
  <1> QED BY <1>7, <1>8

(* The answers to a submission, agent by agent. *)
LEMMA AnswersUnfold ==
    ASSUME NEW prepared, NEW submitted, Len(Starts) \in Nat
    PROVE  \E f : /\ f[0] = {<<>>}
                  /\ \A k \in 1 .. Len(Starts) :
                        f[k] = AnsweredNext(f[k - 1], IF k \in submitted THEN Answers(prepared[k]) ELSE {<<>>})
                  /\ AllAnswers(prepared, submitted) = f[Len(Starts)]
  <1> DEFINE N == Len(Starts)
             z0 == {<<>>}
             next(k, x) == AnsweredNext(x, IF k \in submitted THEN Answers(prepared[k]) ELSE {<<>>})
             upTo[k \in 0 .. Len(Starts)] ==
                IF k = 0 THEN {<<>>} ELSE AnsweredNext(upTo[k - 1], IF k \in submitted THEN Answers(prepared[k]) ELSE {<<>>})
             Is(n, f) == /\ f = [k \in 0 .. n |-> f[k]] /\ f[0] = z0
                         /\ \A k \in 1 .. n : f[k] = next(k, f[k - 1])
             S == {n \in 0 .. N : \E f : Is(n, f)}
  <1>0. N \in Nat
    OBVIOUS
  <1>1. 0 \in S
    <2> DEFINE g == [k \in 0 .. 0 |-> z0]
    <2> HIDE DEF next, z0, N
    <2>1. Is(0, g)
      OBVIOUS
    <2> HIDE DEF Is, g
    <2> QED BY <2>1, <1>0
  <1>2. ASSUME NEW n \in 1 .. N, n - 1 \in S PROVE n \in S
    <2>1. PICK f : Is(n - 1, f)
      BY <1>2
    <2> DEFINE g == [k \in 0 .. n |-> IF k = n THEN next(n, f[n - 1]) ELSE f[k]]
    <2> HIDE DEF next, N, z0
    <2>2. n \in Nat /\ n # 0 /\ \A k \in 1 .. n : k # n => k \in 1 .. n - 1
      BY <1>0
    <2>3. g[0] = z0 /\ \A k \in 0 .. n - 1 : g[k] = f[k]
      BY <2>1, <2>2
    <2>4. ASSUME NEW k \in 1 .. n PROVE g[k] = next(k, g[k - 1])
      <3>1. k - 1 \in 0 .. n - 1 /\ g[k - 1] = f[k - 1]
        BY <2>2, <2>3
      <3>2. CASE k = n
        BY <3>1, <3>2
      <3>3. CASE k # n
        <4>1. k \in 1 .. n - 1 /\ k \in 0 .. n - 1
          BY <2>2, <3>3
        <4>2. f[k] = next(k, f[k - 1])
          BY <2>1, <4>1
        <4> HIDE DEF g, Is
        <4> QED BY <2>3, <3>1, <4>1, <4>2
      <3> QED BY <3>2, <3>3
    <2>5. Is(n, g)
      BY <2>3, <2>4
    <2> HIDE DEF Is, g
    <2> QED BY <2>5, <1>0
  <1>3. N \in S
    <2> HIDE DEF S, N
    <2> QED BY <1>0, <1>1, <1>2, BoundedInduction
  <1>4. PICK f : Is(N, f)
    <2> HIDE DEF N, next, z0
    <2> QED BY <1>3
  <1>5. f = [k \in 0 .. N |-> IF k = 0 THEN z0 ELSE next(k, f[k - 1])]
    <2> HIDE DEF next, N, z0
    <2>1. ASSUME NEW k \in 0 .. N PROVE f[k] = IF k = 0 THEN z0 ELSE next(k, f[k - 1])
      <3>1. k = 0 \/ k \in 1 .. N
        BY <1>0
      <3> QED BY <1>4, <3>1
    <2>2. f = [k \in 0 .. N |-> f[k]]
      BY <1>4
    <2> QED BY <2>1, <2>2
  <1>6. upTo = [k \in 0 .. N |-> IF k = 0 THEN z0 ELSE next(k, upTo[k - 1])]
    BY <1>5
  <1>7. AllAnswers(prepared, submitted) = upTo[Len(Starts)]
    BY DEF AllAnswers
  <1> HIDE DEF upTo
  <1>8. upTo[0] = z0 /\ \A k \in 1 .. N : upTo[k] = next(k, upTo[k - 1])
    <2> HIDE DEF next, N, z0
    <2> QED BY <1>0, <1>6
  <1> QED BY <1>7, <1>8

-----------------------------------------------------------------------------
(* The state a tick works on.                                              *)

AgentRecord == [position : Tiles, goal : Tiles \union {NoTile}, index : Nat,
                last : Results, phase : Phases, retries : 0 .. MaxRetries]
RetainedRoute == SimpleRoutes \union {<<>>}
MoveState == [agents : [Agents -> AgentRecord], routes : [Agents -> RetainedRoute],
              occupied : SUBSET Tiles, reserved : SUBSET Tiles,
              elapsed : [Agents -> 0 .. ElapsedLimit], halted : BOOLEAN,
              searched : SUBSET Agents, flow : FlowRecord]

\* An agent and its retained route agree; when they are current, terrain has
\* not changed since the route was found or found missing.
FitsRoute(a, r, current) ==
    /\ a \in AgentRecord /\ r \in RetainedRoute
    /\ a.index >= 1
    /\ a.phase = "Idle" <=> a.goal = NoTile
    /\ a.phase = "Unreachable" => a.last # "Found"
    /\ Outstanding(a) =>
          /\ a.last = "Found" => /\ a.index <= Len(r)
                                 /\ r[a.index] = a.position
                                 /\ r[Len(r)] = a.goal
          /\ a.last = "NoPath" => r = <<>>
    /\ Outstanding(a) /\ current =>
          /\ a.last = "Found" => \A k \in a.index .. Len(r) : r[k] \notin walls
          /\ a.last = "NoPath" => RoutesBetween(a.position, a.goal, walls) = {}

\* pos places every agent on a tile of its own, off the obstacles, and the
\* occupancy field occ says so.
PlacedAt(pos, occ) ==
    /\ \A i, j \in Agents : pos[i] = pos[j] => i = j
    /\ \A i \in Agents : pos[i] \notin obstacles
    /\ occ = {pos[i] : i \in Agents} \union obstacles

At(s) == [i \in Agents |-> s.agents[i].position]
Placed(s) == PlacedAt(At(s), s.occupied)
Fits(s, current) == \A i \in Agents : FitsRoute(s.agents[i], s.routes[i], current)

\* The accountant f of the agents ag.
CountedIn(ag, f) ==
    /\ RetentionIdentity(f)
    /\ f.outstanding = Cardinality({i \in Agents : Outstanding(ag[i])})
Counted(s) == CountedIn(s.agents, s.flow)

\* What a tick may have done between two states of it.
Reaches(s0, s) ==
    /\ s.routes = s0.routes /\ s.reserved = s0.reserved /\ s.searched = s0.searched
    /\ \A i \in Agents : Outstanding(s.agents[i]) => Outstanding(s0.agents[i])
    /\ \A i \in Agents : s.agents[i].position # s0.agents[i].position =>
          /\ s.agents[i].position \notin walls \union s0.reserved
          /\ Outstanding(s0.agents[i])

Sound(s, current) == s \in MoveState /\ Fits(s, current) /\ Placed(s) /\ Counted(s)

\* Agent i alone changes, ends up on the tile `to`, and its goal is accounted for.
AgentStep(s, t, i, to) ==
    /\ t \in MoveState
    /\ t.routes = s.routes /\ t.searched = s.searched /\ t.halted = s.halted
    /\ t.occupied = s.occupied /\ t.reserved = s.reserved
    /\ \A j \in Agents : j # i => t.agents[j] = s.agents[j]
    /\ t.agents[i].position = to
    /\ \/ Outstanding(t.agents[i]) /\ t.flow = s.flow
       \/ /\ ~Outstanding(t.agents[i])
          /\ \E b \in Buckets : t.flow = LeaveOutstanding(s.flow, b, 1)
    /\ \A current \in BOOLEAN : FitsRoute(s.agents[i], s.routes[i], current)
                                   => FitsRoute(t.agents[i], s.routes[i], current)

-----------------------------------------------------------------------------
(* Facts about the constants and the operators.                            *)

(* The span is finite, and every agent starts on a tile. *)
LEMMA SpanFacts ==
    /\ Len(Starts) \in Nat /\ Agents = 1 .. Len(Starts)
    /\ IsFiniteSet(Agents) /\ Cardinality(Agents) = Len(Starts)
    /\ \A i \in Agents : Starts[i] \in Tiles
    /\ MaxRetries \in Nat /\ ElapsedLimit \in Nat \ {0}
  <1>1. Starts \in Seq(Tiles)
    BY PathAgentsAssumption
  <1>2. Len(Starts) \in Nat /\ Agents = 1 .. Len(Starts) /\ \A i \in Agents : Starts[i] \in Tiles
    BY <1>1, LenProperties, ElementOfSeq DEF Agents
  <1>3. IsFiniteSet(1 .. Len(Starts)) /\ Cardinality(1 .. Len(Starts)) = Len(Starts)
    <2>1. 1 \in Int /\ Len(Starts) \in Int
      BY <1>2
    <2>2. /\ IsFiniteSet(1 .. Len(Starts))
          /\ Cardinality(1 .. Len(Starts)) = IF 1 > Len(Starts) THEN 0 ELSE Len(Starts) - 1 + 1
      BY <2>1, FS_Interval, Zenon
    <2> QED BY <1>2, <2>2
  <1> QED BY <1>2, <1>3, PathAgentsAssumption

(* Evaluating a sequence once does not change it. *)
LEMMA OnceIs ==
    ASSUME NEW n \in Nat, NEW f, f = [i \in 1 .. n |-> f[i]]
    PROVE  Once(f) = f
  <1> DEFINE T == {f[i] : i \in 1 .. n}
  <1>1. f \in [1 .. n -> T]
    OBVIOUS
  <1>2. f \in Seq(T)
    BY <1>1, SeqDef
  <1>3. f \o <<>> = f
    BY <1>2, ConcatEmptySeq
  <1> QED BY <1>3 DEF Once

(* A route is a nonempty sequence of tiles. *)
LEMMA RouteFacts ==
    ASSUME NEW r \in RetainedRoute
    PROVE  /\ r \in Seq(Tiles) /\ Len(r) \in Nat
           /\ \A k \in 1 .. Len(r) : r[k] \in Tiles
           /\ r \in SimpleRoutes => Len(r) >= 1
  <1>1. CASE r = <<>>
    <2>1. r \in Seq(Tiles) /\ Len(r) = 0
      BY <1>1
    <2>2. ASSUME r \in SimpleRoutes PROVE FALSE
      <3>1. Cardinality(Tiles) \in Nat
        BY PathAgentsAssumption, FS_CardinalityType
      <3>2. PICK m \in 1 .. Cardinality(Tiles) : r \in [1 .. m -> Tiles]
        BY <2>2 DEF SimpleRoutes
      <3>3. r \in Seq(Tiles) /\ DOMAIN r = 1 .. m /\ m \in Nat /\ m >= 1
        BY <3>1, <3>2, SeqDef
      <3>4. Len(r) = m
        BY <3>3, LenProperties
      <3> QED BY <2>1, <3>3, <3>4
    <2> QED BY <2>1, <2>2
  <1>2. CASE r \in SimpleRoutes
    <2>1. Cardinality(Tiles) \in Nat
      BY PathAgentsAssumption, FS_CardinalityType
    <2>2. PICK m \in 1 .. Cardinality(Tiles) : r \in [1 .. m -> Tiles]
      BY <1>2 DEF SimpleRoutes
    <2>3. r \in Seq(Tiles) /\ DOMAIN r = 1 .. m /\ m \in Nat /\ m >= 1
      BY <2>1, <2>2, SeqDef
    <2>4. Len(r) \in Nat /\ DOMAIN r = 1 .. Len(r)
      BY <2>3, LenProperties
    <2>5. Len(r) = m
      BY <2>3, <2>4
    <2>6. \A k \in 1 .. Len(r) : r[k] \in Tiles
      BY <2>2, <2>5
    <2> QED BY <2>3, <2>4, <2>5, <2>6
  <1> QED BY <1>1, <1>2 DEF RetainedRoute

(* Lifecycles that end leave the accountant's books balanced. *)
LEMMA LeaveKeeps ==
    ASSUME NEW f \in FlowRecord, NEW b \in Buckets, NEW n \in Nat, n <= f.outstanding
    PROVE  /\ LeaveOutstanding(f, b, n) \in FlowRecord
           /\ LeaveOutstanding(f, b, n).outstanding = f.outstanding - n
           /\ RetentionIdentity(f) => RetentionIdentity(LeaveOutstanding(f, b, n))
  <1> DEFINE g == LeaveOutstanding(f, b, n)
  <1>1. /\ f.outstanding \in Nat /\ f.terminal \in [Buckets -> Nat] /\ f.admitted \in Nat
        /\ f.terminal[b] + n \in Nat
    BY DEF FlowRecord
  <1>2. g = [f EXCEPT !.terminal = [f.terminal EXCEPT ![b] = f.terminal[b] + n],
                      !.outstanding = f.outstanding - n]
    <2>1. (IF f.outstanding > n THEN f.outstanding - n ELSE 0) = f.outstanding - n
      BY <1>1
    <2> QED BY <2>1 DEF LeaveOutstanding, FlowRecord
  <1>3. /\ g \in FlowRecord /\ g.outstanding = f.outstanding - n /\ g.admitted = f.admitted
        /\ g.terminal = [f.terminal EXCEPT ![b] = f.terminal[b] + n]
    <2> DEFINE bt == [f.terminal EXCEPT ![b] = f.terminal[b] + n]
               o == f.outstanding - n
    <2>1. bt \in [Buckets -> Nat] /\ o \in Nat
      BY <1>1
    <2>2. g = [f EXCEPT !.terminal = bt, !.outstanding = o]
      BY <1>2
    <2> HIDE DEF bt, o, g
    <2>3. g \in FlowRecord /\ g.outstanding = o /\ g.admitted = f.admitted /\ g.terminal = bt
      BY <2>1, <2>2 DEF FlowRecord
    <2> QED BY <2>3 DEF bt, o
  <1>4. Terminal(g) = Terminal(f) + n /\ Terminal(f) \in Nat
    <2>1. \A c \in Buckets : g.terminal[c] = IF c = b THEN f.terminal[c] + n ELSE f.terminal[c]
      BY <1>1, <1>3
    <2>2. \A c \in Buckets : f.terminal[c] \in Nat
      BY <1>1
    <2>3. "completed" \in Buckets /\ "negative" \in Buckets /\ "stale" \in Buckets
          /\ "dropped" \in Buckets /\ b \in {"completed", "negative", "stale", "dropped"}
      BY DEF Buckets
    <2> HIDE DEF g
    <2> QED BY <2>1, <2>2, <2>3 DEF Terminal
  <1>5. RetentionIdentity(f) => RetentionIdentity(g)
    <2> HIDE DEF g
    <2> QED BY <1>1, <1>3, <1>4 DEF RetentionIdentity
  <1> QED BY <1>3, <1>5

(* An agent's step keeps the accountant true. *)
LEMMA AgentStepCounts ==
    ASSUME NEW s \in MoveState, NEW t, NEW i \in Agents, NEW to, AgentStep(s, t, i, to),
           Outstanding(s.agents[i]), Counted(s)
    PROVE  Counted(t)
  <1> DEFINE O == {j \in Agents : Outstanding(s.agents[j])}
             P == {j \in Agents : Outstanding(t.agents[j])}
  <1>1. IsFiniteSet(O) /\ IsFiniteSet(P) /\ i \in O
    BY SpanFacts, FS_Subset
  <1>2. s.flow \in FlowRecord /\ s.flow.outstanding = Cardinality(O) /\ RetentionIdentity(s.flow)
    BY DEF MoveState, Counted, CountedIn
  <1>3. CASE Outstanding(t.agents[i])
    <2>1. t.flow = s.flow /\ P = O
      BY <1>3 DEF AgentStep
    <2> QED BY <1>2, <2>1 DEF Counted, CountedIn
  <1>4. CASE ~Outstanding(t.agents[i])
    <2>1. P = O \ {i}
      BY <1>4 DEF AgentStep
    <2>2. PICK b \in Buckets : t.flow = LeaveOutstanding(s.flow, b, 1)
      BY <1>4 DEF AgentStep
    <2>3. Cardinality(P) = Cardinality(O) - 1 /\ Cardinality(O) \in Nat /\ Cardinality(P) \in Nat
      BY <1>1, <2>1, FS_RemoveElement, FS_CardinalityType, ZenonT(40)
    <2>4. 1 <= s.flow.outstanding
      BY <1>2, <2>3
    <2>5. RetentionIdentity(t.flow) /\ t.flow.outstanding = s.flow.outstanding - 1
      BY <1>2, <2>2, <2>4, LeaveKeeps
    <2> QED BY <1>2, <2>3, <2>5 DEF Counted, CountedIn
  <1> QED BY <1>3, <1>4

-----------------------------------------------------------------------------
(* What one agent's outcome changes.                                       *)

AgentOf(at, goal, index, last, phase, retries) ==
    [position |-> at, goal |-> goal, index |-> index, last |-> last, phase |-> phase,
     retries |-> retries]

\* s with agent i replaced by b
WithAgent(s, i, b, f, e) ==
    [agents |-> [s.agents EXCEPT ![i] = b], routes |-> s.routes, occupied |-> s.occupied,
     reserved |-> s.reserved, elapsed |-> e, halted |-> s.halted, searched |-> s.searched,
     flow |-> f]

(* Replacing one agent is a step of that agent. *)
LEMMA WithAgentSteps ==
    ASSUME NEW s \in MoveState, NEW i \in Agents, NEW b \in AgentRecord, NEW f \in FlowRecord,
           NEW e \in [Agents -> 0 .. ElapsedLimit],
           \/ Outstanding(b) /\ f = s.flow
           \/ ~Outstanding(b) /\ \E bucket \in Buckets : f = LeaveOutstanding(s.flow, bucket, 1),
           \A current \in BOOLEAN : FitsRoute(s.agents[i], s.routes[i], current)
                                       => FitsRoute(b, s.routes[i], current)
    PROVE  AgentStep(s, WithAgent(s, i, b, f, e), i, b.position)
  <1> DEFINE t == WithAgent(s, i, b, f, e)
  <1>1. s.agents \in [Agents -> AgentRecord]
    BY DEF MoveState
  <1>2. /\ t.agents = [s.agents EXCEPT ![i] = b] /\ t.flow = f
        /\ t.routes = s.routes /\ t.searched = s.searched /\ t.halted = s.halted
        /\ t.occupied = s.occupied /\ t.reserved = s.reserved
    BY DEF WithAgent
  <1>3. t.agents[i] = b /\ \A j \in Agents : j # i => t.agents[j] = s.agents[j]
    BY <1>1, <1>2
  <1>4. t \in MoveState
    <2>1. [s.agents EXCEPT ![i] = b] \in [Agents -> AgentRecord]
      BY <1>1
    <2> QED BY <2>1 DEF WithAgent, MoveState
  <1> HIDE DEF t
  <1>5. AgentStep(s, t, i, b.position)
    BY <1>2, <1>3, <1>4 DEF AgentStep
  <1> QED BY <1>5 DEF t

(* A record of a move state is what its fields say. *)
LEMMA MoveStateFields ==
    ASSUME NEW s \in MoveState, NEW i \in Agents
    PROVE  /\ s.agents \in [Agents -> AgentRecord] /\ s.agents[i] \in AgentRecord
           /\ s.routes[i] \in RetainedRoute /\ s.flow \in FlowRecord
           /\ s.elapsed \in [Agents -> 0 .. ElapsedLimit]
           /\ LET a == s.agents[i] IN
              /\ a.position \in Tiles /\ a.goal \in Tiles \union {NoTile} /\ a.index \in Nat
              /\ a.last \in Results /\ a.phase \in Phases /\ a.retries \in 0 .. MaxRetries
  <1>1. /\ s.agents \in [Agents -> AgentRecord] /\ s.agents[i] \in AgentRecord
        /\ s.routes[i] \in RetainedRoute /\ s.flow \in FlowRecord
        /\ s.elapsed \in [Agents -> 0 .. ElapsedLimit]
    BY DEF MoveState
  <1> QED BY <1>1 DEF AgentRecord

(* The updates that movement makes to an agent, spelled out. *)
LEMMA RefusedAgent ==
    ASSUME NEW a \in AgentRecord, NEW l, NEW ph
    PROVE  [a EXCEPT !.phase = ph, !.last = l]
              = AgentOf(a.position, a.goal, a.index, l, ph, a.retries)
  <1> DEFINE b1 == [a EXCEPT !.phase = ph]
             b2 == [b1 EXCEPT !.last = l]
  <1>1. [a EXCEPT !.phase = ph, !.last = l] = b2
    OBVIOUS
  <1>2. b1 = AgentOf(a.position, a.goal, a.index, a.last, ph, a.retries)
    BY DEF AgentRecord, AgentOf
  <1> HIDE DEF b1
  <1>3. b2 = AgentOf(a.position, a.goal, a.index, l, ph, a.retries)
    BY <1>2 DEF AgentOf
  <1> HIDE DEF b2
  <1> QED BY <1>1, <1>3

(* The same for an agent that takes the next step of its route. *)
LEMMA AdvancedAgent ==
    ASSUME NEW a \in AgentRecord, NEW to
    PROVE  Advanced(a, to)
              = AgentOf(to, a.goal, a.index + 1, a.last, "Following", 0)
  <1> DEFINE b1 == [a EXCEPT !.position = to]
             b2 == [b1 EXCEPT !.index = a.index + 1]
             b3 == [b2 EXCEPT !.phase = "Following"]
             b4 == [b3 EXCEPT !.retries = 0]
  <1>1. Advanced(a, to) = b4
    BY DEF Advanced, AgentRecord
  <1>2. b1 = AgentOf(to, a.goal, a.index, a.last, a.phase, a.retries)
    BY DEF AgentRecord, AgentOf
  <1> HIDE DEF b1
  <1>3. b2 = AgentOf(to, a.goal, a.index + 1, a.last, a.phase, a.retries)
    BY <1>2 DEF AgentOf
  <1> HIDE DEF b2
  <1>4. b3 = AgentOf(to, a.goal, a.index + 1, a.last, "Following", a.retries)
    BY <1>3 DEF AgentOf
  <1> HIDE DEF b3
  <1>5. b4 = AgentOf(to, a.goal, a.index + 1, a.last, "Following", 0)
    BY <1>4 DEF AgentOf
  <1> HIDE DEF b4
  <1> QED BY <1>1, <1>5

(* The same for an agent that is pushed off its route. *)
LEMMA StrandedAgent ==
    ASSUME NEW a \in AgentRecord, NEW to
    PROVE  [a EXCEPT !.position = to, !.last = "none", !.phase = "Blocked", !.retries = 0]
              = AgentOf(to, a.goal, a.index, "none", "Blocked", 0)
  <1> DEFINE b1 == [a EXCEPT !.position = to]
             b2 == [b1 EXCEPT !.last = "none"]
             b3 == [b2 EXCEPT !.phase = "Blocked"]
             b4 == [b3 EXCEPT !.retries = 0]
  <1>1. [a EXCEPT !.position = to, !.last = "none", !.phase = "Blocked", !.retries = 0] = b4
    OBVIOUS
  <1>2. b1 = AgentOf(to, a.goal, a.index, a.last, a.phase, a.retries)
    BY DEF AgentRecord, AgentOf
  <1> HIDE DEF b1
  <1>3. b2 = AgentOf(to, a.goal, a.index, "none", a.phase, a.retries)
    BY <1>2 DEF AgentOf
  <1> HIDE DEF b2
  <1>4. b3 = AgentOf(to, a.goal, a.index, "none", "Blocked", a.retries)
    BY <1>3 DEF AgentOf
  <1> HIDE DEF b3
  <1>5. b4 = AgentOf(to, a.goal, a.index, "none", "Blocked", 0)
    BY <1>4 DEF AgentOf
  <1> HIDE DEF b4
  <1> QED BY <1>1, <1>5

(* A refused agent keeps its tile; only a structural failure ends its goal. *)
LEMMA FailureSteps ==
    ASSUME NEW s \in MoveState, NEW i \in Agents, NEW status, Outstanding(s.agents[i]),
           s.flow.outstanding >= 1
    PROVE  AgentStep(s, AfterFailure(s, i, status), i, s.agents[i].position)
  <1> DEFINE a == s.agents[i]
             t == AfterFailure(s, i, status)
  <1>0. a \in AgentRecord /\ s.agents \in [Agents -> AgentRecord]
    BY MoveStateFields
  <1>1. /\ s.agents \in [Agents -> AgentRecord] /\ s.flow \in FlowRecord
        /\ s.elapsed \in [Agents -> 0 .. ElapsedLimit] /\ a \in AgentRecord
    BY MoveStateFields
  <1>2. CASE status = "NotAdjacent"
    <2> DEFINE b == AgentOf(a.position, a.goal, a.index, "none", "Unreachable", a.retries)
               f == LeaveOutstanding(s.flow, "dropped", 1)
    <2>1. b \in AgentRecord /\ ~Outstanding(b) /\ b.position = a.position
      BY MoveStateFields DEF AgentRecord, AgentOf, Phases, Results, Outstanding
    <2>2. f \in FlowRecord /\ "dropped" \in Buckets
      BY <1>1, LeaveKeeps DEF Buckets
    <2>3. t = WithAgent(s, i, b, f, s.elapsed)
      <3> DEFINE c == [a EXCEPT !.phase = "Unreachable", !.last = "none"]
      <3>1. t = [s EXCEPT !.agents = [s.agents EXCEPT ![i] = c], !.flow = f]
        BY <1>2, <1>0 DEF AfterFailure, MoveState, AgentRecord
      <3>2. c = b
        BY <1>0, RefusedAgent
      <3> HIDE DEF c, t
      <3> QED BY <3>1, <3>2 DEF WithAgent, MoveState
    <2>4. ASSUME NEW current \in BOOLEAN, FitsRoute(a, s.routes[i], current)
          PROVE FitsRoute(b, s.routes[i], current)
      BY <2>1, <2>4 DEF FitsRoute, AgentOf, Outstanding
    <2> HIDE DEF b, f, t, a
    <2>5. AgentStep(s, WithAgent(s, i, b, f, s.elapsed), i, b.position)
      BY <1>1, <2>1, <2>2, <2>4, WithAgentSteps DEF f, a
    <2> QED BY <2>1, <2>3, <2>5 DEF t, a
  <1>3. CASE status # "NotAdjacent"
    <2> DEFINE l == IF status \in {"Occupied", "Reserved"} THEN a.last ELSE "none"
               b == AgentOf(a.position, a.goal, a.index, l, "Blocked", a.retries)
    <2>1. b \in AgentRecord /\ Outstanding(b) /\ b.position = a.position
          /\ (l = a.last \/ l = "none")
      BY MoveStateFields DEF AgentRecord, AgentOf, Phases, Results, Outstanding
    <2>2. t = WithAgent(s, i, b, s.flow, s.elapsed)
      <3> DEFINE c == [a EXCEPT !.phase = "Blocked", !.last = l]
      <3>1. t = [s EXCEPT !.agents = [s.agents EXCEPT ![i] = c]]
        BY <1>3, <1>0 DEF AfterFailure, MoveState, AgentRecord
      <3>2. c = b
        BY <1>0, RefusedAgent
      <3> HIDE DEF c, t
      <3> QED BY <3>1, <3>2 DEF WithAgent, MoveState
    <2> HIDE DEF l
    <2>3. ASSUME NEW current \in BOOLEAN, FitsRoute(a, s.routes[i], current)
          PROVE FitsRoute(b, s.routes[i], current)
      BY <2>1, <2>3 DEF FitsRoute, AgentOf, Outstanding
    <2> HIDE DEF b, t, a
    <2>4. AgentStep(s, WithAgent(s, i, b, s.flow, s.elapsed), i, b.position)
      BY <1>1, <2>1, <2>3, WithAgentSteps DEF a
    <2> QED BY <2>1, <2>2, <2>4 DEF t, a
  <1> QED BY <1>2, <1>3

(* Arriving ends the goal as completed. *)
LEMMA ArrivalSteps ==
    ASSUME NEW s \in MoveState, NEW i \in Agents, NEW to \in Tiles,
           NEW e \in [Agents -> 0 .. ElapsedLimit], s.flow.outstanding >= 1
    PROVE  AgentStep(s, WithAgent(s, i, [IdleAgent(to) EXCEPT !.last = "Found"],
                                  LeaveOutstanding(s.flow, "completed", 1), e), i, to)
  <1> DEFINE b == [IdleAgent(to) EXCEPT !.last = "Found"]
             f == LeaveOutstanding(s.flow, "completed", 1)
  <1>1. b \in AgentRecord /\ ~Outstanding(b) /\ b.position = to /\ b.phase = "Idle"
        /\ b.goal = NoTile /\ b.index = 1
    BY SpanFacts DEF AgentRecord, IdleAgent, Phases, Results, Outstanding
  <1>2. s.flow \in FlowRecord /\ s.routes[i] \in RetainedRoute
    BY MoveStateFields
  <1>3. f \in FlowRecord /\ "completed" \in Buckets
    BY <1>2, LeaveKeeps DEF Buckets
  <1>4. \A current \in BOOLEAN : FitsRoute(b, s.routes[i], current)
    BY <1>1, <1>2 DEF FitsRoute
  <1> HIDE DEF b
  <1>5. AgentStep(s, WithAgent(s, i, b, f, e), i, b.position)
    BY <1>1, <1>3, <1>4, WithAgentSteps
  <1> QED BY <1>1, <1>5 DEF b

(* A step along the retained route keeps it. *)
LEMMA AdvanceSteps ==
    ASSUME NEW s \in MoveState, NEW i \in Agents, Outstanding(s.agents[i]),
           FitsRoute(s.agents[i], s.routes[i], FALSE),
           s.agents[i].index < Len(s.routes[i])
    PROVE  LET a  == s.agents[i]
               to == s.routes[i][a.index + 1]
           IN  /\ to \in Tiles
               /\ AgentStep(s, WithAgent(s, i,
                       AgentOf(to, a.goal, a.index + 1, a.last, "Following", 0),
                       s.flow, s.elapsed), i, to)
  <1> DEFINE a == s.agents[i]
             r == s.routes[i]
             to == r[a.index + 1]
             b == AgentOf(to, a.goal, a.index + 1, a.last, "Following", 0)
  <1>1. /\ r \in RetainedRoute /\ Len(r) \in Nat /\ \A k \in 1 .. Len(r) : r[k] \in Tiles
        /\ a.index \in Nat /\ s.flow \in FlowRecord /\ s.elapsed \in [Agents -> 0 .. ElapsedLimit]
        /\ Len(<<>>) = 0
    BY MoveStateFields, RouteFacts
  <1>2. to \in Tiles /\ a.goal \in Tiles /\ a.last # "NoPath"
    BY <1>1, PathAgentsAssumption, MoveStateFields DEF FitsRoute, Outstanding
  <1>3. b \in AgentRecord /\ Outstanding(b) /\ b.position = to
    BY <1>2, SpanFacts, MoveStateFields DEF AgentRecord, AgentOf, Phases, Outstanding
  <1>4. ASSUME NEW current \in BOOLEAN, FitsRoute(a, r, current) PROVE FitsRoute(b, r, current)
    <2>1. b.position = r[a.index + 1] /\ b.goal = a.goal /\ b.index = a.index + 1
          /\ b.last = a.last /\ b.phase = "Following"
      BY DEF AgentOf
    <2>2. a.index < Len(r) /\ Outstanding(a)
      OBVIOUS
    <2>3. NoTile \notin Tiles
      BY PathAgentsAssumption
    <2> HIDE DEF a, r, b
    <2> QED BY <1>1, <1>2, <1>3, <1>4, <2>1, <2>2, <2>3 DEF FitsRoute
  <1> HIDE DEF b
  <1>5. AgentStep(s, WithAgent(s, i, b, s.flow, s.elapsed), i, b.position)
    BY <1>1, <1>3, <1>4, WithAgentSteps
  <1> QED BY <1>2, <1>3, <1>5 DEF b

(* An agent that moves reaches its goal, or the next tile of its route.     *)
LEMMA MoveSteps ==
    ASSUME NEW s \in MoveState, NEW i \in Agents, WantsToMove(s, i),
           FitsRoute(s.agents[i], s.routes[i], FALSE), s.flow.outstanding >= 1
    PROVE  /\ AgentStep(s, AfterMove(s, i), i, NextTile(s, i))
           /\ Outstanding(s.agents[i]) /\ NextTile(s, i) \in Tiles
  <1> DEFINE a == s.agents[i]
             to == NextTile(s, i)
             t == AfterMove(s, i)
  <1>0. a \in AgentRecord /\ s.agents \in [Agents -> AgentRecord]
    BY MoveStateFields
  <1>1. Outstanding(a) /\ a.index < Len(s.routes[i]) /\ to = s.routes[i][a.index + 1]
    BY DEF WantsToMove, FitsRoute, Outstanding, NextTile
  <1>2. /\ to \in Tiles
        /\ AgentStep(s, WithAgent(s, i, AgentOf(to, a.goal, a.index + 1, a.last, "Following", 0),
                                  s.flow, s.elapsed), i, to)
    BY <1>1, AdvanceSteps
  <1>3. s.elapsed \in [Agents -> 0 .. ElapsedLimit]
    BY MoveStateFields
  <1>4. CASE to = a.goal
    <2>1. t = WithAgent(s, i, [IdleAgent(to) EXCEPT !.last = "Found"],
                        LeaveOutstanding(s.flow, "completed", 1), s.elapsed)
      BY <1>4, s.agents[i] \in AgentRecord DEF AfterMove, WithAgent, AgentOf, MoveState, AgentRecord
    <2>2. AgentStep(s, t, i, to)
      <3> HIDE DEF to, t
      <3> QED BY <1>2, <1>3, <2>1, ArrivalSteps
    <2> QED BY <1>1, <1>2, <2>2
  <1>5. CASE to # a.goal
    <2>1. t = WithAgent(s, i, AgentOf(to, a.goal, a.index + 1, a.last, "Following", 0),
                        s.flow, s.elapsed)
      <3> DEFINE c == Advanced(a, to)
      <3>1. t = [s EXCEPT !.agents[i] = c]
        BY <1>5 DEF AfterMove
      <3>2. c = AgentOf(to, a.goal, a.index + 1, a.last, "Following", 0)
        BY <1>0, AdvancedAgent
      <3> HIDE DEF c, t
      <3>3. t = [s EXCEPT !.agents = [s.agents EXCEPT ![i] = c]]
        BY <1>0, <3>1 DEF MoveState
      <3> QED BY <3>2, <3>3 DEF WithAgent, MoveState
    <2> QED BY <1>1, <1>2, <2>1
  <1> QED BY <1>4, <1>5

(* An agent that PIBT displaces reaches its goal, the next tile of its route, *)
(* or a tile from which it is planned for again.                           *)
LEMMA DisplacedSteps ==
    ASSUME NEW s \in MoveState, NEW i \in Agents, NEW to \in Tiles, Outstanding(s.agents[i]),
           FitsRoute(s.agents[i], s.routes[i], FALSE), s.flow.outstanding >= 1
    PROVE  AgentStep(s, Displaced(s, i, to), i, to)
  <1> DEFINE a == s.agents[i]
             r == s.routes[i]
             t == Displaced(s, i, to)
             onRoute == a.index < Len(r) /\ r[a.index + 1] = to
  <1>0. a \in AgentRecord /\ s.agents \in [Agents -> AgentRecord]
    BY MoveStateFields
  <1>1. s.elapsed \in [Agents -> 0 .. ElapsedLimit] /\ s.flow \in FlowRecord /\ a \in AgentRecord
    BY MoveStateFields
  <1>3. CASE to = a.goal
    <2> DEFINE e == [s.elapsed EXCEPT ![i] = 0]
    <2>1. e \in [Agents -> 0 .. ElapsedLimit]
      BY <1>1, SpanFacts
    <2>2. t = WithAgent(s, i, [IdleAgent(to) EXCEPT !.last = "Found"],
                        LeaveOutstanding(s.flow, "completed", 1), e)
      BY <1>3, s.agents[i] \in AgentRecord DEF Displaced, WithAgent, AgentOf, MoveState, AgentRecord
    <2> HIDE DEF t, e
    <2>3. AgentStep(s, t, i, to)
      BY <2>1, <2>2, ArrivalSteps
    <2> QED BY <2>3 DEF t
  <1>4. CASE to # a.goal /\ onRoute
    <2>1. t = WithAgent(s, i, AgentOf(to, a.goal, a.index + 1, a.last, "Following", 0),
                        s.flow, s.elapsed)
      <3> DEFINE c == Advanced(a, to)
      <3>1. t = [s EXCEPT !.agents[i] = c]
        BY <1>4 DEF Displaced
      <3>2. c = AgentOf(to, a.goal, a.index + 1, a.last, "Following", 0)
        BY <1>0, AdvancedAgent
      <3> HIDE DEF c, t
      <3>3. t = [s EXCEPT !.agents = [s.agents EXCEPT ![i] = c]]
        BY <1>0, <3>1 DEF MoveState
      <3> QED BY <3>2, <3>3 DEF WithAgent, MoveState
    <2> HIDE DEF t
    <2>2. AgentStep(s, t, i, to)
      BY <1>4, <2>1, AdvanceSteps
    <2> QED BY <2>2 DEF t
  <1>5. CASE to # a.goal /\ ~onRoute
    <2> DEFINE b == AgentOf(to, a.goal, a.index, "none", "Blocked", 0)
    <2>1. b \in AgentRecord /\ Outstanding(b) /\ b.position = to /\ b.last = "none"
          /\ b.phase = "Blocked" /\ b.index = a.index /\ b.goal = a.goal
      BY SpanFacts, MoveStateFields DEF AgentRecord, AgentOf, Phases, Results, Outstanding
    <2>2. t = WithAgent(s, i, b, s.flow, s.elapsed)
      <3> DEFINE c == [a EXCEPT !.position = to, !.last = "none", !.phase = "Blocked",
                               !.retries = 0]
      <3>1. t = [s EXCEPT !.agents[i] = c]
        BY <1>5 DEF Displaced
      <3>2. c = b
        BY <1>0, StrandedAgent
      <3> HIDE DEF c, t
      <3>3. t = [s EXCEPT !.agents = [s.agents EXCEPT ![i] = c]]
        BY <1>0, <3>1 DEF MoveState
      <3> QED BY <3>2, <3>3 DEF WithAgent, MoveState
    <2>3. \A current \in BOOLEAN : FitsRoute(b, r, current)
      <3>1. r \in RetainedRoute /\ a.phase # "Idle" /\ FitsRoute(a, r, FALSE)
        BY MoveStateFields DEF Outstanding
      <3> HIDE DEF r, a, b
      <3> QED BY <2>1, <3>1 DEF FitsRoute
    <2> HIDE DEF t, b
    <2>4. AgentStep(s, t, i, to)
      BY <1>1, <2>1, <2>2, <2>3, WithAgentSteps
    <2> QED BY <2>4 DEF t
  <1> QED BY <1>3, <1>4, <1>5

-----------------------------------------------------------------------------
(* Exchanging tiles, and the driver that moves agent by agent.             *)

\* The agents M of the places pos move to dest, as a set.
Exchange(M, dest, pos, occ, new, next) ==
    /\ M \in SUBSET Agents
    /\ \A i \in M : dest[i] \notin obstacles /\ (dest[i] \in occ => \E k \in M : pos[k] = dest[i])
    /\ \A i, j \in M : dest[i] = dest[j] => i = j
    /\ \A i \in Agents : new[i] = IF i \in M THEN dest[i] ELSE pos[i]
    /\ next = (occ \ {pos[i] : i \in M}) \union {dest[i] : i \in M}

(* Agents that move to tiles of their own, free or vacated by one of them,  *)
(* leave everybody on a tile of its own. *)
LEMMA ExchangePlaces ==
    ASSUME NEW pos, NEW occ, PlacedAt(pos, occ), NEW M, NEW dest, NEW new, NEW next,
           Exchange(M, dest, pos, occ, new, next)
    PROVE  PlacedAt(new, next)
  <1>0. /\ M \in SUBSET Agents
        /\ \A i \in M : dest[i] \notin obstacles /\ (dest[i] \in occ => \E k \in M : pos[k] = dest[i])
        /\ \A i, j \in M : dest[i] = dest[j] => i = j
        /\ \A i \in Agents : new[i] = IF i \in M THEN dest[i] ELSE pos[i]
        /\ next = (occ \ {pos[i] : i \in M}) \union {dest[i] : i \in M}
    BY DEF Exchange
  <1>1. \A i, j \in Agents : pos[i] = pos[j] => i = j
    BY DEF PlacedAt
  <1>2. \A i \in Agents : pos[i] \in occ /\ pos[i] \notin obstacles
    BY DEF PlacedAt
  <1>3. ASSUME NEW i \in Agents, NEW j \in Agents, new[i] = new[j] PROVE i = j
    <2>1. CASE i \in M /\ j \in M
      BY <1>0, <1>3, <2>1
    <2>2. CASE i \notin M /\ j \notin M
      BY <1>0, <1>1, <1>3, <2>2
    <2>3. ASSUME NEW k \in Agents, NEW l \in Agents, k \in M, l \notin M PROVE new[k] # new[l]
      <3>1. ASSUME dest[k] = pos[l] PROVE FALSE
        <4>1. PICK m \in M : pos[m] = pos[l]
          BY <1>0, <1>2, <2>3, <3>1
        <4> QED BY <1>0, <1>1, <2>3, <4>1
      <3> QED BY <1>0, <2>3, <3>1
    <2> QED BY <1>3, <2>1, <2>2, <2>3
  <1>4. \A i \in Agents : new[i] \notin obstacles
    BY <1>0, <1>2
  <1>5. next = {new[i] : i \in Agents} \union obstacles
    <2>1. ASSUME NEW t \in next PROVE t \in {new[i] : i \in Agents} \union obstacles
      <3>1. CASE t \in {dest[i] : i \in M}
        BY <1>0, <3>1
      <3>2. CASE t \in occ /\ t \notin {pos[i] : i \in M}
        BY <1>0, <3>2 DEF PlacedAt
      <3> QED BY <1>0, <2>1, <3>1, <3>2
    <2>2. ASSUME NEW i \in Agents PROVE new[i] \in next
      <3>1. CASE i \in M
        BY <1>0, <3>1
      <3>2. CASE i \notin M
        BY <1>0, <1>1, <1>2, <3>2
      <3> QED BY <3>1, <3>2
    <2>3. ASSUME NEW t \in obstacles PROVE t \in next
      BY <1>0, <1>2, <2>3 DEF PlacedAt
    <2> QED BY <2>1, <2>2, <2>3
  <1> QED BY <1>3, <1>4, <1>5 DEF PlacedAt

(* A live goal is counted. *)
LEMMA LiveIsCounted ==
    ASSUME NEW s \in MoveState, Counted(s), NEW i \in Agents, Outstanding(s.agents[i])
    PROVE  s.flow.outstanding \in Nat /\ s.flow.outstanding >= 1
  <1> DEFINE O == {j \in Agents : Outstanding(s.agents[j])}
  <1>1. IsFiniteSet(O) /\ i \in O
    BY SpanFacts, FS_Subset
  <1>2. s.flow \in FlowRecord /\ s.flow.outstanding = Cardinality(O)
    BY DEF MoveState, Counted, CountedIn
  <1>3. Cardinality(O) \in Nat /\ Cardinality(O) # 0
    <2> HIDE DEF O
    <2> QED BY <1>1, FS_CardinalityType, FS_EmptySet
  <1> QED BY <1>2, <1>3

(* Clearing tiles and entering others touches the two fields only. *)
LEMMA EnterFields ==
    ASSUME NEW s \in MoveState, NEW A, NEW B \in SUBSET Tiles, B \intersect s.reserved = {}
    PROVE  LET u == Enter(Vacate(s, A), B) IN
           /\ u \in MoveState
           /\ u.agents = s.agents /\ u.routes = s.routes /\ u.flow = s.flow
           /\ u.elapsed = s.elapsed /\ u.halted = s.halted /\ u.searched = s.searched
           /\ u.reserved = s.reserved
           /\ u.occupied = (s.occupied \ A) \union B
  <1> DEFINE o == (s.occupied \ A) \union B
             u == Enter(Vacate(s, A), B)
  <1>1. s.occupied \subseteq Tiles /\ s.reserved \subseteq Tiles
    BY DEF MoveState
  <1>2. o \in SUBSET Tiles /\ s.reserved \ B = s.reserved
    BY <1>1
  <1>3. u = [s EXCEPT !.occupied = o, !.reserved = s.reserved \ B]
    BY DEF Enter, Vacate, MoveState
  <1>4. u = [s EXCEPT !.occupied = o]
    <2> HIDE DEF o, u
    <2> QED BY <1>2, <1>3 DEF MoveState
  <1> HIDE DEF o, u
  <1>5. /\ u \in MoveState
        /\ u.agents = s.agents /\ u.routes = s.routes /\ u.flow = s.flow
        /\ u.elapsed = s.elapsed /\ u.halted = s.halted /\ u.searched = s.searched
        /\ u.reserved = s.reserved
        /\ u.occupied = o
    BY <1>2, <1>4 DEF MoveState
  <1> QED BY <1>5 DEF o, u

(* What a tick does accumulates. *)
LEMMA ReachesOn ==
    ASSUME NEW s0, NEW s, NEW t, Reaches(s0, s), Reaches(s, t)
    PROVE  Reaches(s0, t)
  BY DEF Reaches

(* A step of one agent, forwards or on the spot, is a sound step. *)
LEMMA SteppedSound ==
    ASSUME NEW s, NEW current \in BOOLEAN, Sound(s, current), NEW i \in Agents
    PROVE  /\ Sound(Stepped(s, i), current) /\ Reaches(s, Stepped(s, i))
           /\ \A j \in Agents : j # i => Stepped(s, i).agents[j] = s.agents[j]
  <1> DEFINE from == s.agents[i].position
             to == NextTile(s, i)
             verdict == Verdict(s, from, to)
             t == Stepped(s, i)
  <1>1. s \in MoveState /\ Fits(s, current) /\ Placed(s) /\ Counted(s)
    BY DEF Sound
  <1>2. CASE ~WantsToMove(s, i)
    <2>1. t = s
      BY <1>2 DEF Stepped
    <2> QED BY <1>1, <2>1 DEF Reaches
  <1>3. ASSUME WantsToMove(s, i)
        PROVE  /\ Outstanding(s.agents[i]) /\ s.flow.outstanding >= 1
               /\ FitsRoute(s.agents[i], s.routes[i], FALSE)
    <2>1. Outstanding(s.agents[i]) /\ FitsRoute(s.agents[i], s.routes[i], FALSE)
      BY <1>1, <1>3 DEF Fits, FitsRoute, WantsToMove, Outstanding
    <2> QED BY <1>1, <2>1, LiveIsCounted
  <1>4. CASE WantsToMove(s, i) /\ verdict # "Moved"
    <2>1. t = AfterFailure(s, i, verdict)
      BY <1>4 DEF Stepped
    <2> HIDE DEF t, verdict
    <2>2. AgentStep(s, t, i, from)
      BY <1>1, <1>3, <1>4, <2>1, FailureSteps
    <2>3. Counted(t)
      BY <1>1, <1>3, <1>4, <2>2, AgentStepCounts
    <2>4. Fits(t, current)
      BY <1>1, <2>2 DEF Fits, AgentStep
    <2>5. At(t) = At(s) /\ t.occupied = s.occupied
      BY <2>2 DEF AgentStep, At
    <2>6. Placed(t)
      BY <1>1, <2>5 DEF Placed
    <2>7. Reaches(s, t)
      BY <1>3, <1>4, <2>2 DEF Reaches, AgentStep
    <2> QED BY <2>2, <2>3, <2>4, <2>6, <2>7 DEF Sound, AgentStep, t
  <1>5. CASE WantsToMove(s, i) /\ verdict = "Moved"
    <2> DEFINE u == Enter(Vacate(s, {from}), {to})
    <2>1. t = AfterMove(u, i)
      BY <1>5 DEF Stepped
    <2>2. to \notin walls /\ to \notin s.occupied /\ to \notin s.reserved
      BY <1>5 DEF Verdict
    <2>3. to \in Tiles
      BY <1>1, <1>3, <1>5, MoveSteps
    <2>4. /\ u \in MoveState /\ u.agents = s.agents /\ u.routes = s.routes /\ u.flow = s.flow
          /\ u.reserved = s.reserved /\ u.searched = s.searched
          /\ u.occupied = (s.occupied \ {from}) \union {to}
      <3>1. {to} \in SUBSET Tiles /\ {to} \intersect s.reserved = {}
        BY <2>2, <2>3
      <3> HIDE DEF to, from
      <3> QED BY <1>1, <3>1, EnterFields
    <2> HIDE DEF u, t
    <2>5. WantsToMove(u, i) /\ NextTile(u, i) = to
      BY <1>5, <2>4 DEF WantsToMove, NextTile
    <2>6. AgentStep(u, t, i, to)
      BY <1>3, <1>5, <2>1, <2>4, <2>5, MoveSteps
    <2>7. Counted(t)
      <3>1. Counted(u)
        BY <1>1, <2>4 DEF Counted
      <3> QED BY <1>3, <1>5, <2>4, <2>6, <3>1, AgentStepCounts
    <2>8. Fits(t, current)
      BY <1>1, <2>4, <2>6 DEF Fits, AgentStep
    <2>9. Placed(t)
      <3> DEFINE dest == [j \in Agents |-> to]
                 M == {i}
                 p == At(s)
      <3>1. PlacedAt(At(s), s.occupied)
        BY <1>1 DEF Placed
      <3>2. \A j \in Agents : At(t)[j] = IF j \in M THEN dest[j] ELSE p[j]
        BY <2>4, <2>6 DEF At, AgentStep
      <3>3. \A j \in M : dest[j] \notin obstacles /\ dest[j] \notin s.occupied
        BY <2>2, <3>1 DEF PlacedAt
      <3>4. {p[j] : j \in M} = {from} /\ {dest[j] : j \in M} = {to}
        BY DEF At
      <3>7. M \in SUBSET Agents /\ \A j, k \in M : dest[j] = dest[k] => j = k
        OBVIOUS
      <3> HIDE DEF dest, from, to, M, p
      <3>8. PlacedAt(p, s.occupied)
        BY <3>1 DEF p
      <3>9. Exchange(M, dest, p, s.occupied, At(t), (s.occupied \ {from}) \union {to})
        BY <3>2, <3>3, <3>4, <3>7 DEF Exchange
      <3>5. PlacedAt(At(t), (s.occupied \ {from}) \union {to})
        BY <3>8, <3>9, ExchangePlaces
      <3>6. t.occupied = (s.occupied \ {from}) \union {to}
        BY <2>4, <2>6 DEF AgentStep
      <3> QED BY <3>5, <3>6 DEF Placed
    <2>10. Reaches(s, t)
      BY <1>3, <1>5, <2>2, <2>4, <2>6 DEF Reaches, AgentStep
    <2> QED BY <2>4, <2>6, <2>7, <2>8, <2>9, <2>10 DEF Sound, AgentStep, t
  <1> QED BY <1>2, <1>4, <1>5

(* Agent by agent, every step is sound, and nobody trades places with anybody *)
(* when each takes one step. *)
LEMMA EachSound ==
    ASSUME NEW s, NEW current \in BOOLEAN, Sound(s, current), NEW steps \in Nat
    PROVE  LET t == SteppedEach(s, steps) IN
           /\ Sound(t, current) /\ Reaches(s, t)
           /\ steps = 1 => \A i, j \in Agents :
                 i # j /\ t.agents[i].position = s.agents[j].position
                    => t.agents[j].position # s.agents[i].position
  <1> DEFINE n == Len(Starts)
             N == Len(Starts) * steps
  <1>1. n \in Nat /\ N \in Nat /\ Agents = 1 .. n
    BY SpanFacts
  <1>2. PICK f : /\ f[0] = s
                 /\ \A k \in 1 .. N : f[k] = Stepped(f[k - 1], ((k - 1) \div steps) + 1)
                 /\ SteppedEach(s, steps) = f[N]
    BY <1>1, EachUnfolds, ZenonT(40)
  <1> DEFINE turn(k) == ((k - 1) \div steps) + 1
  <1>3. ASSUME NEW k \in 1 .. N PROVE turn(k) \in Agents /\ (steps = 1 => turn(k) = k)
    <2>1. steps >= 1
      <3>1. CASE steps = 0
        BY <1>1, <3>1
      <3> QED BY <3>1
    <2>2. (k - 1) \div steps \in 0 .. n - 1
      <3> DEFINE q == (k - 1) \div steps
      <3>1. q \in Int /\ k - 1 = steps * q + ((k - 1) % steps) /\ (k - 1) % steps \in 0 .. steps - 1
        BY <1>1, <2>1
      <3> HIDE DEF q
      <3>2. q >= 0
        <4>1. ASSUME q <= -1 PROVE FALSE
          <5>1. steps * q <= steps * (-1)
            BY <2>1, <3>1, <4>1
          <5> QED BY <1>1, <2>1, <3>1, <5>1
        <4> QED BY <3>1, <4>1
      <3>3. q <= n - 1
        <4>1. ASSUME q >= n PROVE FALSE
          <5>1. steps * q >= steps * n
            BY <1>1, <2>1, <3>1, <4>1
          <5>2. k - 1 >= N
            BY <1>1, <3>1, <5>1
          <5> QED BY <1>1, <5>2
        <4> QED BY <1>1, <3>1, <4>1
      <3> QED BY <1>1, <3>1, <3>2, <3>3 DEF q
    <2>3. steps = 1 => (k - 1) \div steps = k - 1
      BY <1>1
    <2> QED BY <1>1, <2>2, <2>3
  <1>4. ASSUME NEW k \in 1 .. N, Sound(f[k - 1], current)
        PROVE  /\ Sound(f[k], current) /\ Reaches(f[k - 1], f[k])
               /\ \A j \in Agents : j # turn(k) => f[k].agents[j] = f[k - 1].agents[j]
    <2> HIDE DEF N
    <2>1. f[k] = Stepped(f[k - 1], turn(k)) /\ turn(k) \in Agents
      BY <1>2, <1>3
    <2> HIDE DEF turn
    <2> QED BY <1>4, <2>1, SteppedSound
  <1> HIDE DEF N, turn
  <1> DEFINE S == {k \in 0 .. N : Sound(f[k], current) /\ Reaches(s, f[k])}
  <1>5. \A k \in 0 .. N : k \in S
    <2>1. 0 \in S
      BY <1>1, <1>2 DEF Reaches
    <2>2. ASSUME NEW k \in 1 .. N, k - 1 \in S PROVE k \in S
      <3>1. Sound(f[k], current) /\ Reaches(f[k - 1], f[k]) /\ Reaches(s, f[k - 1])
        BY <1>4, <2>2
      <3>2. Reaches(s, f[k])
        BY <3>1, ReachesOn
      <3> QED BY <1>1, <3>1, <3>2
    <2> HIDE DEF S
    <2> QED BY <1>1, <2>1, <2>2, BoundedInduction
  <1>6. Sound(f[N], current) /\ Reaches(s, f[N])
    BY <1>1, <1>5
  <1>7. ASSUME steps = 1, NEW i \in Agents, NEW j \in Agents, i < j
        PROVE  f[N].agents[i].position # s.agents[j].position
    <2>1. N = n
      BY <1>1, <1>7 DEF N
    <2> DEFINE P == {k \in 0 .. N : /\ \A m \in Agents : m > k => f[k].agents[m] = s.agents[m]
                                    /\ k >= i => f[k].agents[i] = f[i].agents[i]}
    <2>2. \A k \in 0 .. N : k \in P
      <3>1. 0 \in P
        BY <1>1, <1>2
      <3>2. ASSUME NEW k \in 1 .. N, k - 1 \in P PROVE k \in P
        <4>1. \A m \in Agents : m # k => f[k].agents[m] = f[k - 1].agents[m]
          BY <1>3, <1>4, <1>5, <1>7, <3>2
        <4>2. \A m \in Agents : m > k => f[k].agents[m] = s.agents[m]
          BY <1>1, <3>2, <4>1
        <4>3. k >= i => f[k].agents[i] = f[i].agents[i]
          <5>1. CASE k = i
            BY <5>1
          <5>2. CASE k # i
            BY <1>1, <3>2, <4>1, <5>2
          <5> QED BY <5>1, <5>2
        <4> QED BY <4>2, <4>3
      <3> HIDE DEF P
      <3> QED BY <1>1, <3>1, <3>2, BoundedInduction
    <2>3. i \in 0 .. N /\ j > i /\ N \in 0 .. N /\ N >= i
      BY <1>1, <1>7, <2>1
    <2>4. f[i].agents[j] = s.agents[j] /\ f[N].agents[i] = f[i].agents[i]
      BY <2>2, <2>3
    <2>5. f[i].agents[i].position # f[i].agents[j].position
      <3>1. Sound(f[i], current)
        BY <1>5, <2>3
      <3>2. At(f[i])[i] # At(f[i])[j]
        BY <1>1, <1>7, <3>1 DEF Sound, Placed, PlacedAt
      <3> QED BY <3>2 DEF At
    <2> QED BY <2>4, <2>5
  <1>8. ASSUME steps = 1, NEW i \in Agents, NEW j \in Agents, i # j,
               f[N].agents[i].position = s.agents[j].position
        PROVE  f[N].agents[j].position # s.agents[i].position
    BY <1>1, <1>7, <1>8
  <1> QED BY <1>2, <1>6, <1>8

-----------------------------------------------------------------------------
(* Planning.                                                               *)

Current == ~pathing_dirty /\ ~unmarked

\* What is true between ticks.
PathAgentsInv ==
    /\ TypeOK
    /\ \A i \in Agents : FitsRoute(agents[i], routes[i], Current)
    /\ PlacedAt([i \in Agents |-> agents[i].position], occupied)
    /\ CountedIn(agents, flow)

(* Preparing spends a retry or gives up; it changes nothing else. *)
LEMMA PreparedFits ==
    ASSUME NEW i \in Agents, NEW r, NEW current \in BOOLEAN, FitsRoute(agents[i], r, current),
           NEW steps \in Nat, NEW policy
    PROVE  LET a == agents[i]
               p == Prepared(a, steps, policy)
           IN  /\ FitsRoute(p, r, current)
               /\ p.position = a.position /\ p.goal = a.goal
               /\ Outstanding(p) <=> Outstanding(a) /\ i \notin GivenUp(steps, policy)
               /\ i \in GivenUp(steps, policy) => Outstanding(a)
               /\ p.retries <= Streak(a)
  <1> DEFINE a == agents[i]
             p == Prepared(a, steps, policy)
  <1>1. a \in AgentRecord /\ a.retries \in 0 .. MaxRetries /\ MaxRetries \in Nat
    BY SpanFacts DEF FitsRoute, AgentRecord
  <1>2. i \in GivenUp(steps, policy) <=> policy = "MarkUnreachable" /\ Exhausted(a, steps)
    BY DEF GivenUp
  <1>3. CASE Retries(a, steps)
    <2>2. a.phase = "Blocked" /\ a.retries + 1 \in 0 .. MaxRetries /\ ~Exhausted(a, steps)
      BY <1>1, <1>3 DEF Retries, Exhausted
    <2>1. p = [a EXCEPT !.retries = a.retries + 1]
      BY <1>3, <2>2 DEF Prepared
    <2>3. p \in AgentRecord /\ p.phase = a.phase /\ p.last = a.last /\ p.index = a.index
          /\ p.position = a.position /\ p.goal = a.goal /\ p.retries = a.retries + 1
      BY <1>1, <2>1, <2>2 DEF AgentRecord
    <2> HIDE DEF p, a
    <2>4. Outstanding(p) <=> Outstanding(a)
      BY <2>3 DEF Outstanding
    <2>5. FitsRoute(p, r, current)
      BY <2>3, <2>4 DEF FitsRoute, a
    <2>6. p.retries <= Streak(a)
      BY <1>1, <2>2, <2>3 DEF Streak, a
    <2> QED BY <1>2, <2>2, <2>3, <2>4, <2>5, <2>6 DEF p, a
  <1>4. CASE ~Retries(a, steps) /\ Exhausted(a, steps) /\ policy = "MarkUnreachable"
    <2>1. p = [a EXCEPT !.phase = "Unreachable", !.last = "none"]
      BY <1>4 DEF Prepared
    <2>2. p = AgentOf(a.position, a.goal, a.index, "none", "Unreachable", a.retries)
      BY <1>1, <2>1, RefusedAgent
    <2>3. p \in AgentRecord /\ p.phase = "Unreachable" /\ p.last = "none" /\ p.index = a.index
          /\ p.position = a.position /\ p.goal = a.goal /\ p.retries = a.retries
      BY <1>1, <2>2 DEF AgentRecord, AgentOf, Phases, Results
    <2>4. a.phase = "Blocked"
      BY <1>4 DEF Exhausted
    <2> HIDE DEF p, a
    <2>5. ~Outstanding(p) /\ Outstanding(a)
      BY <2>3, <2>4 DEF Outstanding
    <2>6. FitsRoute(p, r, current)
      BY <2>3, <2>4, <2>5 DEF FitsRoute, a
    <2>7. p.retries <= Streak(a)
      BY <1>1, <2>4, <2>3 DEF Streak, a
    <2> QED BY <1>2, <1>4, <2>3, <2>5, <2>6, <2>7 DEF p, a
  <1>5. CASE ~Retries(a, steps) /\ ~(Exhausted(a, steps) /\ policy = "MarkUnreachable")
    <2>1. p = a
      BY <1>5 DEF Prepared
    <2>2. a.retries <= Streak(a)
      BY <1>1 DEF Streak
    <2> QED BY <1>2, <1>5, <2>1, <2>2
  <1> QED BY <1>3, <1>4, <1>5

(* What a search answers is a route through open tiles, or, with <<>>, that *)
(* there is none. *)
LEMMA AnswerFacts ==
    ASSUME NEW a \in AgentRecord, Outstanding(a), a.goal # NoTile, NEW r \in Answers(a)
    PROVE  /\ r \in RetainedRoute
           /\ r # <<>> => /\ Len(r) >= 1 /\ r[1] = a.position /\ r[Len(r)] = a.goal
                          /\ \A k \in 1 .. Len(r) : r[k] \notin walls
           /\ r = <<>> => RoutesBetween(a.position, a.goal, walls) = {}
  <1> DEFINE found == RoutesBetween(a.position, a.goal, walls)
  <1>1. a.position \in Tiles /\ a.goal \in Tiles
    BY PathAgentsAssumption DEF AgentRecord
  <1>2. RoutesOver[<<a.position, a.goal>>]
           = {q \in SimpleRoutes : q[1] = a.position /\ q[Len(q)] = a.goal}
    BY <1>1 DEF RoutesOver
  <1>3. ASSUME NEW q \in found
        PROVE  /\ q \in SimpleRoutes /\ q[1] = a.position /\ q[Len(q)] = a.goal
               /\ Len(q) >= 1 /\ \A k \in 1 .. Len(q) : q[k] \notin walls
    <2>1. q \in SimpleRoutes /\ q[1] = a.position /\ q[Len(q)] = a.goal
          /\ \A k \in DOMAIN q : q[k] \notin walls
      BY <1>2 DEF RoutesBetween
    <2>2. q \in RetainedRoute
      BY <2>1 DEF RetainedRoute
    <2>3. q \in Seq(Tiles) /\ Len(q) >= 1
      BY <2>1, <2>2, RouteFacts
    <2>4. DOMAIN q = 1 .. Len(q)
      BY <2>3, LenProperties
    <2> QED BY <2>1, <2>3, <2>4
  <1>4. <<>> \notin found
    <2>1. Len(<<>>) = 0
      OBVIOUS
    <2> QED BY <1>3, <2>1
  <1>5. CASE found = {}
    <2>1. r = <<>>
      BY <1>5 DEF Answers
    <2> QED BY <1>5, <2>1 DEF RetainedRoute
  <1>6. CASE found # {}
    <2>1. r \in found
      BY <1>6 DEF Answers
    <2>2. r # <<>>
      BY <1>4, <2>1
    <2> HIDE DEF found
    <2> QED BY <1>3, <2>1, <2>2 DEF RetainedRoute
  <1> QED BY <1>5, <1>6

(* Every submitted agent gets an answer of its own, the others none. *)
LEMMA AllAnswersFacts ==
    ASSUME NEW prepared, NEW submitted, NEW answers \in AllAnswers(prepared, submitted)
    PROVE  \A i \in Agents :
              answers[i] \in IF i \in submitted THEN Answers(prepared[i]) ELSE {<<>>}
  <1> DEFINE n == Len(Starts)
             Given(i) == IF i \in submitted THEN Answers(prepared[i]) ELSE {<<>>}
             T == UNION {Given(i) : i \in Agents}
  <1>1. n \in Nat /\ Agents = 1 .. n
    BY SpanFacts
  <1>2. PICK f : /\ f[0] = {<<>>}
                 /\ \A k \in 1 .. n : f[k] = AnsweredNext(f[k - 1], Given(k))
                 /\ AllAnswers(prepared, submitted) = f[n]
    BY <1>1, AnswersUnfold
  <1> DEFINE S == {k \in 0 .. n : \A x \in f[k] : /\ x \in Seq(T) /\ Len(x) = k
                                                  /\ \A i \in 1 .. k : x[i] \in Given(i)}
  <1>3. \A k \in 0 .. n : k \in S
    <2>1. 0 \in S
      <3>1. <<>> \in Seq(T) /\ Len(<<>>) = 0 /\ 1 .. 0 = {}
        OBVIOUS
      <3>2. \A i \in 1 .. 0 : <<>>[i] \in Given(i)
        BY <3>1
      <3>3. f[0] = {<<>>} /\ 0 \in 0 .. n
        BY <1>1, <1>2
      <3> HIDE DEF T, Given
      <3> QED BY <3>1, <3>2, <3>3
    <2>2. ASSUME NEW k \in 1 .. n, k - 1 \in S PROVE k \in S
      <3>1. ASSUME NEW x \in f[k]
            PROVE x \in Seq(T) /\ Len(x) = k /\ \A i \in 1 .. k : x[i] \in Given(i)
        <4> HIDE DEF T, Given
        <4>1. PICK y \in f[k - 1], z \in Given(k) : x = Append(y, z)
          BY <1>2, <3>1 DEF AnsweredNext
        <4>2. y \in Seq(T) /\ Len(y) = k - 1 /\ \A i \in 1 .. k - 1 : y[i] \in Given(i)
          BY <2>2, <4>1
        <4>3. z \in T
          BY <1>1, <4>1 DEF T
        <4>4. /\ x \in Seq(T) /\ Len(x) = Len(y) + 1 /\ x[Len(y) + 1] = z
              /\ \A i \in 1 .. Len(y) : x[i] = y[i]
          BY <4>1, <4>2, <4>3, AppendProperties
        <4>5. Len(x) = k /\ x[k] = z /\ \A i \in 1 .. k - 1 : x[i] = y[i]
          BY <4>2, <4>4
        <4>6. \A i \in 1 .. k : i = k \/ i \in 1 .. k - 1
          BY <1>1
        <4> QED BY <4>1, <4>2, <4>4, <4>5, <4>6
      <3> HIDE DEF T, Given
      <3> QED BY <1>1, <3>1
    <2> HIDE DEF S, T, Given
    <2> QED BY <1>1, <2>1, <2>2, BoundedInduction
  <1>4. n \in 0 .. n /\ answers \in f[n]
    BY <1>1, <1>2
  <1>5. \A i \in 1 .. n : answers[i] \in Given(i)
    <2> HIDE DEF T, Given
    <2> QED BY <1>3, <1>4
  <1> QED BY <1>1, <1>5

(* An answered agent follows its new route, or waits without one. *)
LEMMA AnsweredFits ==
    ASSUME NEW a, NEW q, NEW old \in BOOLEAN, FitsRoute(a, q, old), Outstanding(a),
           NEW r \in Answers(a), NEW current \in BOOLEAN
    PROVE  LET b == Answered(a, r) IN
           /\ FitsRoute(b, r, current) /\ Outstanding(b)
           /\ b.position = a.position /\ b.retries <= a.retries
  <1> DEFINE b == Answered(a, r)
  <1>1. a \in AgentRecord /\ a.goal # NoTile /\ a.retries \in 0 .. MaxRetries /\ MaxRetries \in Nat
    BY SpanFacts DEF FitsRoute, AgentRecord, Outstanding
  <1>2. /\ r \in RetainedRoute /\ Len(<<>>) = 0
        /\ r # <<>> => /\ Len(r) >= 1 /\ r[1] = a.position /\ r[Len(r)] = a.goal
                       /\ \A k \in 1 .. Len(r) : r[k] \notin walls
        /\ r = <<>> => RoutesBetween(a.position, a.goal, walls) = {}
    BY <1>1, AnswerFacts
  <1>3. CASE r # <<>>
    <2> DEFINE k == IF a.phase = "Blocked" THEN a.retries ELSE 0
    <2>1. k \in 0 .. MaxRetries /\ k <= a.retries
      BY <1>1
    <2>2. b = [a EXCEPT !.index = 1, !.last = "Found", !.phase = "Following", !.retries = k]
      BY <1>1, <1>3 DEF Answered, AgentRecord
    <2> HIDE DEF k, b
    <2>3. b = AgentOf(a.position, a.goal, 1, "Found", "Following", k)
      <3> DEFINE b1 == [a EXCEPT !.index = 1]
                 b2 == [b1 EXCEPT !.last = "Found"]
                 b3 == [b2 EXCEPT !.phase = "Following"]
                 b4 == [b3 EXCEPT !.retries = k]
      <3>1. b = b4
        BY <2>2
      <3>2. b1 = AgentOf(a.position, a.goal, 1, a.last, a.phase, a.retries)
        BY <1>1 DEF AgentRecord, AgentOf
      <3> HIDE DEF b1
      <3>3. b2 = AgentOf(a.position, a.goal, 1, "Found", a.phase, a.retries)
        BY <3>2 DEF AgentOf
      <3> HIDE DEF b2
      <3>4. b3 = AgentOf(a.position, a.goal, 1, "Found", "Following", a.retries)
        BY <3>3 DEF AgentOf
      <3> HIDE DEF b3
      <3>5. b4 = AgentOf(a.position, a.goal, 1, "Found", "Following", k)
        BY <3>4 DEF AgentOf
      <3> HIDE DEF b4
      <3> QED BY <3>1, <3>5
    <2>4. b \in AgentRecord /\ b.position = a.position /\ b.goal = a.goal /\ b.index = 1
          /\ b.last = "Found" /\ b.phase = "Following" /\ b.retries = k /\ Outstanding(b)
      BY <1>1, <2>1, <2>3 DEF AgentRecord, AgentOf, Phases, Results, Outstanding
    <2>5. FitsRoute(b, r, current)
      BY <1>1, <1>2, <1>3, <2>4 DEF FitsRoute
    <2> QED BY <2>1, <2>4, <2>5 DEF b
  <1>4. CASE r = <<>>
    <2>2. b = [a EXCEPT !.index = 1, !.last = "NoPath", !.phase = "Blocked"]
      BY <1>1, <1>4 DEF Answered
    <2> HIDE DEF b
    <2>3. b = AgentOf(a.position, a.goal, 1, "NoPath", "Blocked", a.retries)
      <3> DEFINE b1 == [a EXCEPT !.index = 1]
                 b2 == [b1 EXCEPT !.last = "NoPath"]
                 b3 == [b2 EXCEPT !.phase = "Blocked"]
      <3>1. b = b3
        BY <2>2
      <3>2. b1 = AgentOf(a.position, a.goal, 1, a.last, a.phase, a.retries)
        BY <1>1 DEF AgentRecord, AgentOf
      <3> HIDE DEF b1
      <3>3. b2 = AgentOf(a.position, a.goal, 1, "NoPath", a.phase, a.retries)
        BY <3>2 DEF AgentOf
      <3> HIDE DEF b2
      <3>4. b3 = AgentOf(a.position, a.goal, 1, "NoPath", "Blocked", a.retries)
        BY <3>3 DEF AgentOf
      <3> HIDE DEF b3
      <3> QED BY <3>1, <3>4
    <2>4. b \in AgentRecord /\ b.position = a.position /\ b.goal = a.goal /\ b.index = 1
          /\ b.last = "NoPath" /\ b.phase = "Blocked" /\ b.retries = a.retries /\ Outstanding(b)
      BY <1>1, <2>3 DEF AgentRecord, AgentOf, Phases, Results, Outstanding
    <2>5. FitsRoute(b, r, current)
      BY <1>1, <1>2, <1>4, <2>4 DEF FitsRoute
    <2> QED BY <1>1, <2>4, <2>5 DEF b
  <1> QED BY <1>3, <1>4

(* Planning moves nobody, leaves every agent with a plan that fits it, and *)
(* accounts for the goals it ends. *)
LEMMA PlansSound ==
    ASSUME PathAgentsInv, NEW steps \in Nat, NEW exhaustion, NEW s \in Plans(steps, exhaustion)
    PROVE  /\ Sound(s, pathing_dirty \/ ~unmarked)
           /\ s.reserved = reserved /\ s.occupied = occupied /\ s.elapsed = elapsed
           /\ s.halted = FALSE
           /\ \A i \in Agents : /\ s.agents[i].position = agents[i].position
                                /\ Outstanding(s.agents[i]) => Outstanding(agents[i])
                                /\ s.agents[i].retries <= Streak(agents[i])
  <1> DEFINE prepared  == AllPrepared(steps, exhaustion)
             process   == pathing_dirty \/ NeedsProcessing(steps)
             scope     == IF process THEN InScope(prepared) ELSE {}
             submitted == {i \in scope : Outstanding(prepared[i]) /\ ~AtGoal(prepared[i])}
             arrived   == {i \in scope : AtGoal(prepared[i])}
             gone      == GivenUp(steps, exhaustion)
             current   == pathing_dirty \/ ~unmarked
  <1>1. PICK answers \in AllAnswers(prepared, submitted) :
           s = [agents   |-> Planned(prepared, scope, submitted, answers),
                routes   |-> Once([i \in Agents |-> IF i \in submitted THEN answers[i]
                                                    ELSE routes[i]]),
                occupied |-> occupied,
                reserved |-> reserved,
                elapsed  |-> elapsed,
                halted   |-> FALSE,
                searched |-> submitted,
                flow     |-> LeaveOutstanding(
                                 LeaveOutstanding(flow, "dropped", Cardinality(gone)),
                                 "completed", Cardinality(arrived))]
    BY DEF Plans
  <1>2. /\ Len(Starts) \in Nat /\ Agents = 1 .. Len(Starts) /\ TypeOK /\ current \in BOOLEAN
        /\ Current \in BOOLEAN /\ (Current => current)
    BY SpanFacts DEF PathAgentsInv, TypeOK, Current
  <1>3. prepared = [i \in Agents |-> Prepared(agents[i], steps, exhaustion)]
    <2> DEFINE g == [i \in Agents |-> Prepared(agents[i], steps, exhaustion)]
    <2>1. g = [i \in 1 .. Len(Starts) |-> g[i]]
      BY <1>2
    <2>2. prepared = Once(g)
      BY DEF AllPrepared
    <2> HIDE DEF g
    <2>3. Once(g) = g
      BY <1>2, <2>1, OnceIs
    <2> QED BY <2>2, <2>3 DEF g
  <1>4. ASSUME NEW i \in Agents
        PROVE  /\ FitsRoute(prepared[i], routes[i], Current)
               /\ prepared[i].position = agents[i].position
               /\ Outstanding(prepared[i]) <=> Outstanding(agents[i]) /\ i \notin gone
               /\ i \in gone => Outstanding(agents[i])
               /\ prepared[i].retries <= Streak(agents[i])
               /\ prepared[i] \in AgentRecord
    <2> DEFINE p == Prepared(agents[i], steps, exhaustion)
    <2>1. FitsRoute(agents[i], routes[i], Current)
      BY DEF PathAgentsInv
    <2>2. prepared[i] = p
      BY <1>3
    <2>3. /\ FitsRoute(p, routes[i], Current) /\ p.position = agents[i].position
          /\ Outstanding(p) <=> Outstanding(agents[i]) /\ i \notin GivenUp(steps, exhaustion)
          /\ i \in GivenUp(steps, exhaustion) => Outstanding(agents[i])
          /\ p.retries <= Streak(agents[i])
      <3> DEFINE r == routes[i]
                 c == Current
      <3>1. FitsRoute(agents[i], r, c) /\ c \in BOOLEAN
        BY <1>2, <2>1
      <3> HIDE DEF r, c
      <3>2. /\ FitsRoute(Prepared(agents[i], steps, exhaustion), r, c)
            /\ Prepared(agents[i], steps, exhaustion).position = agents[i].position
            /\ Outstanding(Prepared(agents[i], steps, exhaustion))
                 <=> Outstanding(agents[i]) /\ i \notin GivenUp(steps, exhaustion)
            /\ i \in GivenUp(steps, exhaustion) => Outstanding(agents[i])
            /\ Prepared(agents[i], steps, exhaustion).retries <= Streak(agents[i])
        BY <3>1, PreparedFits, Zenon
      <3> QED BY <3>2 DEF r, c
    <2> HIDE DEF p, prepared
    <2>4. p \in AgentRecord
      BY <2>3 DEF FitsRoute
    <2> QED BY <2>2, <2>3, <2>4
  <1> HIDE DEF prepared
  <1>5. scope \subseteq Agents /\ gone \subseteq Agents /\ submitted \subseteq scope
        /\ arrived \subseteq scope
    BY DEF InScope, GivenUp
  <1> DEFINE Plan(i) == CASE i \in submitted -> Answered(prepared[i], answers[i])
                          [] i \in scope /\ AtGoal(prepared[i]) -> IdleAgent(prepared[i].position)
                          [] i \in scope /\ ~Outstanding(prepared[i]) ->
                                [prepared[i] EXCEPT !.index = 1]
                          [] OTHER -> prepared[i]
             Route(i) == IF i \in submitted THEN answers[i] ELSE routes[i]
  <1>6. s.agents = [i \in Agents |-> Plan(i)]
    <2> DEFINE g == [i \in Agents |-> Plan(i)]
    <2>1. g = [i \in 1 .. Len(Starts) |-> g[i]]
      BY <1>2
    <2>2. s.agents = Once(g)
      BY <1>1 DEF Planned
    <2> HIDE DEF g
    <2>3. Once(g) = g
      BY <1>2, <2>1, OnceIs
    <2> QED BY <2>2, <2>3 DEF g
  <1>7. s.routes = [i \in Agents |-> Route(i)]
    <2> DEFINE g == [i \in Agents |-> Route(i)]
    <2>1. g = [i \in 1 .. Len(Starts) |-> g[i]]
      BY <1>2
    <2>2. s.routes = Once(g)
      BY <1>1
    <2> HIDE DEF g
    <2>3. Once(g) = g
      BY <1>2, <2>1, OnceIs
    <2> QED BY <2>2, <2>3 DEF g
  <1>8. /\ s.occupied = occupied /\ s.reserved = reserved /\ s.elapsed = elapsed
        /\ s.halted = FALSE /\ s.searched = submitted
        /\ s.flow = LeaveOutstanding(LeaveOutstanding(flow, "dropped", Cardinality(gone)),
                                     "completed", Cardinality(arrived))
    BY <1>1
  <1>9. ASSUME NEW i \in Agents
        PROVE  /\ FitsRoute(Plan(i), Route(i), current)
               /\ Plan(i).position = agents[i].position
               /\ Outstanding(Plan(i)) <=> Outstanding(prepared[i]) /\ i \notin arrived
               /\ Plan(i).retries <= Streak(agents[i])
    <2> DEFINE p == prepared[i]
    <2>0. /\ FitsRoute(p, routes[i], Current) /\ p.position = agents[i].position
          /\ p.retries <= Streak(agents[i]) /\ p \in AgentRecord /\ p.retries \in Nat
          /\ Streak(agents[i]) \in Int
      <3>1. p \in AgentRecord /\ agents[i] \in AgentRecord
        BY <1>4 DEF PathAgentsInv, FitsRoute
      <3>2. p.retries \in Nat /\ agents[i].retries \in Nat
        BY <3>1, SpanFacts DEF AgentRecord
      <3> QED BY <1>4, <3>1, <3>2 DEF Streak
    <2>1. CASE i \in submitted
      <3>1. Outstanding(p) /\ ~AtGoal(p)
        BY <2>1
      <3>2. answers[i] \in Answers(p)
        BY <2>1, AllAnswersFacts
      <3>3. Plan(i) = Answered(p, answers[i]) /\ Route(i) = answers[i] /\ i \notin arrived
        BY <2>1, <3>1
      <3> HIDE DEF Plan, Route, submitted, arrived, scope, current, p
      <3>4. /\ FitsRoute(Plan(i), Route(i), current) /\ Outstanding(Plan(i))
            /\ Plan(i).position = p.position /\ Plan(i).retries <= p.retries
        BY <1>2, <2>0, <3>1, <3>2, <3>3, AnsweredFits
      <3>5. Plan(i).retries \in Int
        <4>1. Plan(i) \in AgentRecord
          BY <3>4 DEF FitsRoute
        <4> QED BY <4>1 DEF AgentRecord
      <3> QED BY <2>0, <3>1, <3>3, <3>4, <3>5 DEF p
    <2>2. CASE i \in scope /\ AtGoal(p)
      <3>1. i \notin submitted /\ i \in arrived /\ Outstanding(p)
        BY <2>2 DEF AtGoal
      <3>2. Plan(i) = IdleAgent(p.position) /\ Route(i) = routes[i]
        BY <2>2, <3>1
      <3> HIDE DEF Plan, Route, submitted, arrived, scope, current, p
      <3>3. Plan(i) \in AgentRecord /\ ~Outstanding(Plan(i)) /\ Plan(i).position = p.position
            /\ Plan(i).retries = 0 /\ Plan(i).phase = "Idle" /\ Plan(i).goal = NoTile
            /\ Plan(i).index = 1
        BY <2>0, <3>2, SpanFacts DEF IdleAgent, AgentRecord, Phases, Results, Outstanding
      <3>4. FitsRoute(Plan(i), Route(i), current)
        BY <2>0, <3>2, <3>3 DEF FitsRoute
      <3> QED BY <2>0, <3>1, <3>3, <3>4 DEF p
    <2>3. CASE i \in scope /\ ~Outstanding(p)
      <3>1. i \notin submitted /\ i \notin arrived /\ ~AtGoal(p)
        BY <2>3 DEF AtGoal
      <3>2. Plan(i) = [p EXCEPT !.index = 1] /\ Route(i) = routes[i]
        BY <2>3, <3>1
      <3> HIDE DEF Plan, Route, submitted, arrived, scope, current, p
      <3>3. Plan(i) \in AgentRecord /\ Plan(i).position = p.position
            /\ Plan(i).retries = p.retries /\ Plan(i).phase = p.phase /\ Plan(i).goal = p.goal
            /\ Plan(i).last = p.last /\ Plan(i).index = 1
        BY <2>0, <3>2 DEF AgentRecord
      <3>4. ~Outstanding(Plan(i))
        BY <2>3, <3>3 DEF Outstanding
      <3>5. FitsRoute(Plan(i), Route(i), current)
        BY <2>0, <3>2, <3>3, <3>4 DEF FitsRoute
      <3> QED BY <2>0, <2>3, <3>1, <3>3, <3>4, <3>5 DEF p
    <2>4. CASE i \notin scope
      <3>1. i \notin submitted /\ i \notin arrived /\ Plan(i) = p /\ Route(i) = routes[i]
        BY <2>4
      <3>2. current = Current
        <4>1. ~pathing_dirty
          BY <2>4 DEF InScope
        <4> QED BY <1>2, <4>1 DEF Current, TypeOK
      <3> HIDE DEF Plan, Route, submitted, arrived, scope, current, p
      <3> QED BY <2>0, <3>1, <3>2 DEF p
    <2>5. i \in scope => i \in submitted \/ AtGoal(p) \/ ~Outstanding(p)
      OBVIOUS
    <2> HIDE DEF Plan, Route, submitted, arrived, scope, current, p
    <2> QED BY <2>1, <2>2, <2>3, <2>4, <2>5
  <1> HIDE DEF Plan, Route, scope, current
  <1>10. Fits(s, current)
    BY <1>6, <1>7, <1>9 DEF Fits
  <1>11. Placed(s)
    <2>1. At(s) = [i \in Agents |-> agents[i].position]
      BY <1>6, <1>9 DEF At
    <2> QED BY <1>8, <2>1 DEF Placed, PathAgentsInv
  <1>12. Counted(s) /\ s.flow \in FlowRecord
    <2> DEFINE O == {i \in Agents : Outstanding(agents[i])}
               P == {i \in Agents : Outstanding(prepared[i])}
               Q == {i \in Agents : Outstanding(s.agents[i])}
               f1 == LeaveOutstanding(flow, "dropped", Cardinality(gone))
               f2 == LeaveOutstanding(f1, "completed", Cardinality(arrived))
    <2>1. P = O \ gone /\ gone \subseteq O
      BY <1>4, <1>5
    <2>2. Q = P \ arrived /\ arrived \subseteq P
      BY <1>5, <1>6, <1>9 DEF AtGoal
    <2>3. IsFiniteSet(O) /\ IsFiniteSet(gone) /\ IsFiniteSet(P) /\ IsFiniteSet(arrived)
      BY <2>1, <2>2, SpanFacts, FS_Subset
    <2>4. /\ Cardinality(P) = Cardinality(O) - Cardinality(gone)
          /\ Cardinality(gone) \in Nat /\ Cardinality(O) \in Nat /\ Cardinality(P) \in Nat
      <3>1. O \intersect gone = gone
        BY <2>1
      <3> HIDE DEF O, P
      <3> QED BY <2>1, <2>3, <3>1, FS_Difference, FS_CardinalityType, ZenonT(40)
    <2>5. /\ Cardinality(Q) = Cardinality(P) - Cardinality(arrived)
          /\ Cardinality(arrived) \in Nat /\ Cardinality(Q) \in Nat
      <3>1. P \intersect arrived = arrived
        BY <2>2
      <3>2. IsFiniteSet(Q)
        BY <2>2, <2>3, FS_Subset
      <3> HIDE DEF Q, P, arrived
      <3> QED BY <2>2, <2>3, <3>1, <3>2, FS_Difference, FS_CardinalityType, ZenonT(40)
    <2>6. flow \in FlowRecord /\ RetentionIdentity(flow) /\ flow.outstanding = Cardinality(O)
      BY <1>2 DEF PathAgentsInv, CountedIn, TypeOK
    <2> HIDE DEF O, P, Q, f2, f1, gone, arrived
    <2>7. f1 \in FlowRecord /\ RetentionIdentity(f1) /\ f1.outstanding = Cardinality(P)
      <3>1. "dropped" \in Buckets /\ Cardinality(gone) <= flow.outstanding
        BY <2>4, <2>6 DEF Buckets
      <3> QED BY <2>4, <2>6, <3>1, LeaveKeeps DEF f1
    <2>8. f2 \in FlowRecord /\ RetentionIdentity(f2) /\ f2.outstanding = Cardinality(Q)
      <3>1. "completed" \in Buckets /\ Cardinality(arrived) <= f1.outstanding
        BY <2>4, <2>5, <2>7 DEF Buckets
      <3> QED BY <2>5, <2>7, <3>1, LeaveKeeps DEF f2
    <2>9. s.flow = f2
      BY <1>8 DEF f1, f2
    <2> QED BY <2>8, <2>9 DEF Counted, CountedIn, Q
  <1>13. s \in MoveState
    <2>1. s.agents \in [Agents -> AgentRecord] /\ s.routes \in [Agents -> RetainedRoute]
      BY <1>6, <1>7, <1>9 DEF FitsRoute
    <2>2. /\ s.occupied \in SUBSET Tiles /\ s.reserved \in SUBSET Tiles
          /\ s.elapsed \in [Agents -> 0 .. ElapsedLimit] /\ s.halted \in BOOLEAN
          /\ s.searched \in SUBSET Agents
      BY <1>2, <1>5, <1>8 DEF TypeOK
    <2>3. s = [agents |-> s.agents, routes |-> s.routes, occupied |-> s.occupied,
               reserved |-> s.reserved, elapsed |-> s.elapsed, halted |-> s.halted,
               searched |-> s.searched, flow |-> s.flow]
      BY <1>1
    <2> QED BY <1>12, <2>1, <2>2, <2>3 DEF MoveState
  <1> QED BY <1>4, <1>6, <1>8, <1>9, <1>10, <1>11, <1>12, <1>13 DEF Sound, current

-----------------------------------------------------------------------------
(* Beginning, the caller's edits, and the end of a tick.                   *)

(* An agent without a goal fits any route. *)
LEMMA IdleFits ==
    ASSUME NEW t \in Tiles, NEW r \in RetainedRoute, NEW current \in BOOLEAN
    PROVE  /\ FitsRoute(IdleAgent(t), r, current) /\ ~Outstanding(IdleAgent(t))
           /\ IdleAgent(t).position = t
  <1>1. IdleAgent(t) = AgentOf(t, NoTile, 1, "none", "Idle", 0)
    BY DEF IdleAgent, AgentOf
  <1>2. AgentOf(t, NoTile, 1, "none", "Idle", 0) \in AgentRecord
    BY SpanFacts DEF AgentOf, AgentRecord, Phases, Results
  <1>3. FitsRoute(AgentOf(t, NoTile, 1, "none", "Idle", 0), r, current)
    BY <1>2 DEF FitsRoute, AgentOf, Outstanding
  <1> QED BY <1>1, <1>3 DEF AgentOf, Outstanding

(* So does an agent that was just given a goal. *)
LEMMA ArmedFits ==
    ASSUME NEW t \in Tiles, NEW goal \in Tiles, NEW r \in RetainedRoute, NEW current \in BOOLEAN,
           NEW a, a.position = t
    PROVE  /\ FitsRoute(ArmedAgent(a, goal), r, current) /\ Outstanding(ArmedAgent(a, goal))
           /\ ArmedAgent(a, goal).position = t
  <1> DEFINE b == IdleAgent(t)
             c == [b EXCEPT !.goal = goal]
             d == [c EXCEPT !.phase = "NeedsPath"]
  <1>1. ArmedAgent(a, goal) = d
    BY DEF ArmedAgent
  <1>2. b = AgentOf(t, NoTile, 1, "none", "Idle", 0)
    BY DEF IdleAgent, AgentOf
  <1>3. c = AgentOf(t, goal, 1, "none", "Idle", 0)
    <2> HIDE DEF b
    <2> QED BY <1>2 DEF AgentOf
  <1>4. d = AgentOf(t, goal, 1, "none", "NeedsPath", 0)
    <2> HIDE DEF c
    <2> QED BY <1>3 DEF AgentOf
  <1> HIDE DEF d
  <1>5. AgentOf(t, goal, 1, "none", "NeedsPath", 0) \in AgentRecord
    BY SpanFacts DEF AgentOf, AgentRecord, Phases, Results
  <1>6. goal # NoTile
    BY PathAgentsAssumption
  <1>7. FitsRoute(AgentOf(t, goal, 1, "none", "NeedsPath", 0), r, current)
    BY <1>5, <1>6 DEF FitsRoute, AgentOf, Outstanding
  <1> QED BY <1>1, <1>4, <1>7 DEF AgentOf, Outstanding

(* Before the first tick everything fits. *)
LEMMA InitFits == Init => PathAgentsInv
  <1> SUFFICES ASSUME Init PROVE PathAgentsInv
    OBVIOUS
  <1>1. PICK goals \in FirstGoals :
          LET armed == {i \in Agents : goals[i] # NoTile} IN
          /\ agents = Once([i \in Agents |->
                IF i \in armed THEN ArmedAgent(IdleAgent(Starts[i]), goals[i])
                ELSE IdleAgent(Starts[i])])
          /\ flow = [NoFlow EXCEPT !.offered = Cardinality(armed),
                !.admitted = Cardinality(armed), !.outstanding = Cardinality(armed)]
    BY DEF Init
  <1> DEFINE armed == {i \in Agents : goals[i] # NoTile}
             One(i) == IF i \in armed THEN ArmedAgent(IdleAgent(Starts[i]), goals[i])
                       ELSE IdleAgent(Starts[i])
  <1>2. /\ Len(Starts) \in Nat /\ Agents = 1 .. Len(Starts)
        /\ \A i \in Agents : Starts[i] \in Tiles /\ goals[i] \in Tiles \union {NoTile}
    BY SpanFacts, PathAgentsAssumption DEF Agents
  <1>3. agents = [i \in Agents |-> One(i)]
    <2> DEFINE g == [i \in Agents |-> One(i)]
    <2>1. g = [i \in 1 .. Len(Starts) |-> g[i]]
      BY <1>2
    <2>2. agents = Once(g)
      BY <1>1
    <2> HIDE DEF g
    <2>3. Once(g) = g
      BY <1>2, <2>1, OnceIs
    <2> QED BY <2>2, <2>3 DEF g
  <1>4. routes = [i \in Agents |-> <<>>]
    <2> DEFINE g == [i \in Agents |-> <<>>]
    <2>1. g = [i \in 1 .. Len(Starts) |-> g[i]]
      BY <1>2
    <2>2. routes = Once(g)
      BY DEF Init
    <2> HIDE DEF g
    <2>3. Once(g) = g
      BY <1>2, <2>1, OnceIs
    <2> QED BY <2>2, <2>3 DEF g
  <1>5. elapsed = [i \in Agents |-> 0]
    <2> DEFINE g == [i \in Agents |-> 0]
    <2>1. g = [i \in 1 .. Len(Starts) |-> g[i]]
      BY <1>2
    <2>2. elapsed = Once(g)
      BY DEF Init
    <2> HIDE DEF g
    <2>3. Once(g) = g
      BY <1>2, <2>1, OnceIs
    <2> QED BY <2>2, <2>3 DEF g
  <1>6. /\ pathing_dirty = TRUE /\ unmarked = FALSE /\ edits = 0
        /\ occupied = {Starts[i] : i \in Agents}
        /\ walls = {} /\ reserved = {} /\ obstacles = {}
    BY DEF Init
  <1>7. flow = [NoFlow EXCEPT !.offered = Cardinality(armed),
                !.admitted = Cardinality(armed), !.outstanding = Cardinality(armed)]
    BY <1>1
  <1>8. \A i \in Agents : /\ FitsRoute(agents[i], routes[i], Current)
                          /\ agents[i].position = Starts[i]
                          /\ Outstanding(agents[i]) <=> i \in armed
    <2> SUFFICES ASSUME NEW i \in Agents
                 PROVE  /\ FitsRoute(agents[i], routes[i], Current)
                        /\ agents[i].position = Starts[i]
                        /\ Outstanding(agents[i]) <=> i \in armed
      OBVIOUS
    <2> DEFINE t == Starts[i]
               a == IdleAgent(Starts[i])
               c == Current
    <2>1. agents[i] = One(i) /\ routes[i] = <<>> /\ t \in Tiles
      BY <1>2, <1>3, <1>4
    <2>2. <<>> \in RetainedRoute /\ c \in BOOLEAN
      BY <1>6 DEF RetainedRoute, Current
    <2>3. a.position = t
      BY DEF IdleAgent
    <2>4. CASE i \in armed
      <3>1. goals[i] \in Tiles
        BY <1>2, <2>4
      <3> HIDE DEF a, c
      <3>2. FitsRoute(ArmedAgent(a, goals[i]), <<>>, c) /\ Outstanding(ArmedAgent(a, goals[i]))
            /\ ArmedAgent(a, goals[i]).position = t
        BY <2>1, <2>2, <2>3, <3>1, ArmedFits
      <3> QED BY <2>1, <2>4, <3>2 DEF a, c
    <2>5. CASE i \notin armed
      <3> HIDE DEF c, a
      <3>2. FitsRoute(IdleAgent(t), <<>>, c) /\ ~Outstanding(IdleAgent(t))
            /\ IdleAgent(t).position = t
        BY <2>1, <2>2, IdleFits
      <3> QED BY <2>1, <2>5, <3>2 DEF a, c
    <2> QED BY <2>4, <2>5
  <1> HIDE DEF One
  <1>9. CountedIn(agents, flow) /\ flow \in FlowRecord
    <2>1. {i \in Agents : Outstanding(agents[i])} = armed
      BY <1>8
    <2>2. Cardinality(armed) \in Nat
      BY SpanFacts, FS_Subset, FS_CardinalityType
    <2> HIDE DEF armed
    <2> DEFINE n == Cardinality(armed)
    <2> HIDE DEF n
    <2>3. n \in Nat /\ flow = [NoFlow EXCEPT !.offered = n, !.admitted = n, !.outstanding = n]
      BY <1>7, <2>2 DEF n
    <2>4. flow = [offered |-> n, admitted |-> n, rejected |-> 0,
                  terminal |-> [b \in Buckets |-> 0], outstanding |-> n,
                  inventory |-> 0, residence |-> 0, clock |-> 0]
      BY <2>3 DEF NoFlow
    <2>5. flow \in FlowRecord /\ flow.admitted = n /\ flow.outstanding = n
          /\ flow.terminal = [b \in Buckets |-> 0]
      <3>1. n \in Nat
        BY <2>3
      <3> QED BY <2>4, <3>1 DEF FlowRecord
    <2>6. Terminal(flow) = 0
      BY <2>5 DEF Terminal, Buckets
    <2> QED BY <2>1, <2>3, <2>5, <2>6 DEF CountedIn, RetentionIdentity, n
  <1>10. PlacedAt([i \in Agents |-> agents[i].position], occupied)
    <2>1. [i \in Agents |-> agents[i].position] = [i \in Agents |-> Starts[i]]
      BY <1>8
    <2>2. \A i, j \in Agents : Starts[i] = Starts[j] => i = j
      BY PathAgentsAssumption DEF Agents
    <2> QED BY <1>6, <2>1, <2>2 DEF PlacedAt
  <1>11. TypeOK
    <2>1. agents \in [Agents -> AgentRecord] /\ \A i \in Agents : agents[i].phase = "Idle" <=> agents[i].goal = NoTile
      BY <1>3, <1>8 DEF FitsRoute
    <2>2. routes \in [Agents -> SimpleRoutes \union {<<>>}]
      BY <1>4
    <2>3. elapsed \in [Agents -> 0 .. ElapsedLimit]
      BY <1>5, SpanFacts
    <2>4. occupied \subseteq Tiles /\ edits \in 0 .. MaxEdits
      BY <1>2, <1>6, PathAgentsAssumption
    <2> QED BY <1>6, <1>9, <2>1, <2>2, <2>3, <2>4 DEF TypeOK, AgentRecord
  <1> QED BY <1>8, <1>9, <1>10, <1>11 DEF PathAgentsInv

(* What a tick commits is what holds between ticks. *)
LEMMA CommitKeeps ==
    ASSUME PathAgentsInv, NEW s, Sound(s, pathing_dirty \/ ~unmarked), NEW driver, NEW swaps,
           NEW steps, Commit(s, driver, swaps, steps)
    PROVE  PathAgentsInv'
  <1>1. /\ agents' = s.agents /\ routes' = s.routes /\ elapsed' = s.elapsed
        /\ occupied' = s.occupied /\ reserved' = s.reserved /\ flow' = s.flow
        /\ pathing_dirty' = FALSE /\ unmarked' = (unmarked /\ ~pathing_dirty)
        /\ walls' = walls /\ obstacles' = obstacles /\ edits' = edits
    BY DEF Commit
  <1>2. /\ s.agents \in [Agents -> AgentRecord] /\ s.routes \in [Agents -> RetainedRoute]
        /\ s.elapsed \in [Agents -> 0 .. ElapsedLimit] /\ s.flow \in FlowRecord
        /\ s.occupied \in SUBSET Tiles /\ s.reserved \in SUBSET Tiles
    BY DEF Sound, MoveState
  <1>3. /\ walls \subseteq Tiles /\ obstacles \subseteq Tiles /\ edits \in 0 .. MaxEdits
        /\ pathing_dirty \in BOOLEAN /\ unmarked \in BOOLEAN
    BY DEF PathAgentsInv, TypeOK
  <1>4. Current' = (pathing_dirty \/ ~unmarked)
    BY <1>1, <1>3 DEF Current
  <1> DEFINE c == pathing_dirty \/ ~unmarked
  <1>5. \A i \in Agents : FitsRoute(s.agents[i], s.routes[i], c)
    BY DEF Sound, Fits
  <1>6. \A i \in Agents : FitsRoute(agents[i], routes[i], Current)'
    <2> SUFFICES ASSUME NEW i \in Agents PROVE FitsRoute(agents[i], routes[i], Current)'
      OBVIOUS
    <2>1. FitsRoute(s.agents[i], s.routes[i], c)
      BY <1>5
    <2> QED BY <1>1, <1>4, <2>1 DEF FitsRoute, Outstanding
  <1>7. \A i \in Agents : s.agents[i].phase = "Idle" <=> s.agents[i].goal = NoTile
    BY <1>5 DEF FitsRoute
  <1>8. TypeOK'
    BY <1>1, <1>2, <1>3, <1>7 DEF TypeOK, AgentRecord, RetainedRoute
  <1>9. PlacedAt([i \in Agents |-> agents[i].position], occupied)'
    BY <1>1 DEF Sound, Placed, PlacedAt, At
  <1>10. CountedIn(agents, flow)'
    BY <1>1 DEF Sound, Counted, CountedIn, Outstanding
  <1> QED BY <1>6, <1>8, <1>9, <1>10 DEF PathAgentsInv

(* Superseding a goal ends its lifecycle in the books. *)
LEMMA ArmedBooks ==
    ASSUME PathAgentsInv, NEW i \in Agents
    PROVE  LET O == {j \in Agents : Outstanding(agents[j])} IN
           /\ Armed(i) \in FlowRecord /\ RetentionIdentity(Armed(i))
           /\ Armed(i).outstanding = Cardinality(O \ {i})
           /\ IsFiniteSet(O) /\ IsFiniteSet(O \ {i}) /\ Cardinality(O \ {i}) \in Nat
  <1> DEFINE O == {j \in Agents : Outstanding(agents[j])}
  <1>1. IsFiniteSet(O) /\ IsFiniteSet(O \ {i})
    BY SpanFacts, FS_Subset
  <1>2. Cardinality(O) \in Nat /\ Cardinality(O \ {i}) \in Nat
    BY <1>1, FS_CardinalityType
  <1>3. flow \in FlowRecord /\ RetentionIdentity(flow) /\ flow.outstanding = Cardinality(O)
    BY DEF PathAgentsInv, CountedIn, TypeOK
  <1>4. CASE Outstanding(agents[i])
    <2>1. i \in O
      BY <1>4
    <2> HIDE DEF O
    <2>2. Cardinality(O \ {i}) = Cardinality(O) - 1
      BY <1>1, <2>1, FS_RemoveElement
    <2>3. Armed(i) = LeaveOutstanding(flow, "dropped", 1)
      BY <1>4 DEF Armed
    <2>4. "dropped" \in Buckets /\ 1 \in Nat /\ 1 <= flow.outstanding
      BY <1>2, <1>3, <2>2 DEF Buckets
    <2> QED BY <1>1, <1>2, <1>3, <2>2, <2>3, <2>4, LeaveKeeps DEF O
  <1>5. CASE ~Outstanding(agents[i])
    <2>1. O \ {i} = O
      BY <1>5
    <2>2. Armed(i) = flow
      BY <1>5 DEF Armed
    <2> QED BY <1>1, <1>2, <1>3, <2>1, <2>2
  <1> QED BY <1>4, <1>5

(* Admitting a lifecycle adds it to the books. *)
LEMMA AdmitKeeps ==
    ASSUME NEW f \in FlowRecord, RetentionIdentity(f)
    PROVE  LET g == RecordAdmitted([f EXCEPT !.offered = @ + 1]) IN
           /\ g \in FlowRecord /\ RetentionIdentity(g) /\ g.outstanding = f.outstanding + 1
  <1> DEFINE u == [f EXCEPT !.offered = @ + 1]
             v == [u EXCEPT !.admitted = @ + 1]
             w == [v EXCEPT !.outstanding = @ + 1]
             g == RecordAdmitted(u)
  <1>1. u \in FlowRecord /\ u.admitted = f.admitted /\ u.outstanding = f.outstanding
        /\ u.terminal = f.terminal
    BY DEF FlowRecord
  <1>2. g = [[u EXCEPT !.admitted = @ + 1] EXCEPT !.outstanding = @ + 1]
    BY <1>1 DEF RecordAdmitted, FlowRecord
  <1> HIDE DEF u
  <1>3. v \in FlowRecord /\ v.admitted = u.admitted + 1 /\ v.outstanding = u.outstanding
        /\ v.terminal = u.terminal
    BY <1>1 DEF FlowRecord
  <1>4. g = w
    BY <1>2
  <1> HIDE DEF v
  <1>5. w \in FlowRecord /\ w.admitted = v.admitted /\ w.outstanding = v.outstanding + 1
        /\ w.terminal = v.terminal
    BY <1>3 DEF FlowRecord
  <1> HIDE DEF w, g
  <1>6. Terminal(g) = Terminal(f) /\ Terminal(f) \in Nat
    BY <1>1, <1>3, <1>4, <1>5 DEF Terminal, FlowRecord, Buckets
  <1>7. f.admitted \in Nat /\ f.outstanding \in Nat
    BY DEF FlowRecord
  <1>8. g.admitted = f.admitted + 1 /\ g.outstanding = f.outstanding + 1 /\ g \in FlowRecord
    BY <1>1, <1>3, <1>4, <1>5
  <1>9. RetentionIdentity(g)
    BY <1>6, <1>7, <1>8 DEF RetentionIdentity
  <1> QED BY <1>8, <1>9 DEF g, u

(* The caller's edits keep every agent on its tile and with its plan. *)
LEMMA AgentEditKeeps ==
    ASSUME PathAgentsInv, NEW i \in Agents, NEW b, NEW f,
           \A r \in RetainedRoute : FitsRoute(b, r, Current), b.position = agents[i].position,
           f \in FlowRecord, CountedIn([agents EXCEPT ![i] = b], f), Edit,
           agents' = [agents EXCEPT ![i] = b], flow' = f,
           UNCHANGED <<routes, elapsed, pathing_dirty, walls, occupied, reserved, obstacles, unmarked>>
    PROVE  PathAgentsInv'
  <1>1. TypeOK /\ agents \in [Agents -> AgentRecord] /\ routes \in [Agents -> RetainedRoute]
    BY DEF PathAgentsInv, TypeOK, AgentRecord, RetainedRoute
  <1>2. FitsRoute(b, routes[i], Current) /\ b \in AgentRecord /\ (b.phase = "Idle" <=> b.goal = NoTile)
    BY <1>1 DEF FitsRoute
  <1>3. Current' = Current
    BY DEF Current
  <1>4. \A j \in Agents : agents'[j] = IF j = i THEN b ELSE agents[j]
    BY <1>1
  <1>5. edits' \in 0 .. MaxEdits
    BY <1>1, PathAgentsAssumption DEF Edit, TypeOK
  <1>6. TypeOK'
    <2>1. agents' \in [Agents -> AgentRecord]
      BY <1>1, <1>2
    <2>2. \A j \in Agents : agents'[j].phase = "Idle" <=> agents'[j].goal = NoTile
      BY <1>1, <1>2, <1>4 DEF TypeOK
    <2> QED BY <1>1, <1>5, <2>1, <2>2 DEF TypeOK, AgentRecord
  <1>7. \A j \in Agents : FitsRoute(agents[j], routes[j], Current)'
    <2> SUFFICES ASSUME NEW j \in Agents PROVE FitsRoute(agents[j], routes[j], Current)'
      OBVIOUS
    <2>1. CASE j = i
      BY <1>2, <1>3, <1>4, <2>1 DEF FitsRoute, Outstanding
    <2>2. CASE j # i
      <3>1. FitsRoute(agents[j], routes[j], Current)
        BY DEF PathAgentsInv
      <3> QED BY <1>3, <1>4, <2>2, <3>1 DEF FitsRoute, Outstanding
    <2> QED BY <2>1, <2>2
  <1>8. PlacedAt([j \in Agents |-> agents[j].position], occupied)'
    <2>1. [j \in Agents |-> agents'[j].position] = [j \in Agents |-> agents[j].position]
      BY <1>4
    <2> QED BY <2>1 DEF PathAgentsInv, PlacedAt
  <1>9. CountedIn(agents, flow)'
    BY DEF CountedIn, Outstanding
  <1> QED BY <1>6, <1>7, <1>8, <1>9 DEF PathAgentsInv

(* Setting a goal keeps what holds between ticks. *)
LEMMA SetGoalKeeps ==
    ASSUME PathAgentsInv, NEW i \in Agents, NEW goal \in GoalTiles, SetGoal(i, goal)
    PROVE  PathAgentsInv'
  <1> DEFINE a == agents[i]
             b == ArmedAgent(a, goal)
             f == RecordAdmitted([Armed(i) EXCEPT !.offered = @ + 1])
             O == {j \in Agents : Outstanding(agents[j])}
             new == [agents EXCEPT ![i] = b]
             O2 == {j \in Agents : Outstanding(new[j])}
             c == Current
  <1>1. goal \in Tiles /\ a.position \in Tiles /\ agents \in [Agents -> AgentRecord] /\ c \in BOOLEAN
    BY PathAgentsAssumption DEF PathAgentsInv, TypeOK, AgentRecord, Current
  <1>2. \A r \in RetainedRoute : FitsRoute(b, r, c) /\ Outstanding(b) /\ b.position = a.position
    <2> HIDE DEF a, c
    <2> QED BY <1>1, ArmedFits
  <1>3. <<>> \in RetainedRoute
    BY DEF RetainedRoute
  <1>4. Outstanding(b) /\ b.position = a.position
    BY <1>2, <1>3
  <1> HIDE DEF b
  <1>5. O2 = O \union {i}
    BY <1>1, <1>4
  <1>6. Cardinality(O2) = Cardinality(O \ {i}) + 1
    <2>1. O2 = (O \ {i}) \union {i} /\ i \notin O \ {i} /\ IsFiniteSet(O \ {i})
      BY <1>5, ArmedBooks
    <2> HIDE DEF O, O2
    <2> QED BY <2>1, FS_AddElement
  <1>7. f \in FlowRecord /\ RetentionIdentity(f) /\ f.outstanding = Cardinality(O \ {i}) + 1
    <2>1. Armed(i) \in FlowRecord /\ RetentionIdentity(Armed(i)) /\ Armed(i).outstanding = Cardinality(O \ {i})
      BY ArmedBooks
    <2> HIDE DEF O
    <2> QED BY <2>1, AdmitKeeps
  <1> HIDE DEF f
  <1>8. CountedIn(new, f)
    BY <1>6, <1>7 DEF CountedIn
  <1>9. /\ Edit /\ agents' = new /\ flow' = f
        /\ UNCHANGED <<routes, elapsed, pathing_dirty, walls, occupied, reserved, obstacles, unmarked>>
    BY DEF SetGoal, f, b
  <1> QED BY <1>2, <1>4, <1>7, <1>8, <1>9, AgentEditKeeps

(* So does clearing one. *)
LEMMA ClearGoalKeeps ==
    ASSUME PathAgentsInv, NEW i \in Agents, ClearGoal(i)
    PROVE  PathAgentsInv'
  <1> DEFINE a == agents[i]
             b == IdleAgent(a.position)
             f == Armed(i)
             O == {j \in Agents : Outstanding(agents[j])}
             new == [agents EXCEPT ![i] = b]
             O2 == {j \in Agents : Outstanding(new[j])}
             c == Current
  <1>1. a.position \in Tiles /\ agents \in [Agents -> AgentRecord] /\ c \in BOOLEAN
    BY DEF PathAgentsInv, TypeOK, AgentRecord, Current
  <1>2. \A r \in RetainedRoute : FitsRoute(b, r, c) /\ ~Outstanding(b) /\ b.position = a.position
    <2> HIDE DEF a, c
    <2> QED BY <1>1, IdleFits
  <1>3. <<>> \in RetainedRoute
    BY DEF RetainedRoute
  <1>4. ~Outstanding(b) /\ b.position = a.position
    BY <1>2, <1>3
  <1> HIDE DEF b
  <1>5. O2 = O \ {i}
    BY <1>1, <1>4
  <1>7. f \in FlowRecord /\ RetentionIdentity(f) /\ f.outstanding = Cardinality(O \ {i})
    BY ArmedBooks
  <1> HIDE DEF f
  <1>8. CountedIn(new, f)
    BY <1>5, <1>7 DEF CountedIn
  <1>9. /\ Edit /\ agents' = new /\ flow' = f
        /\ UNCHANGED <<routes, elapsed, pathing_dirty, walls, occupied, reserved, obstacles, unmarked>>
    BY DEF ClearGoal, f, b
  <1> QED BY <1>2, <1>4, <1>7, <1>8, <1>9, AgentEditKeeps

(* And editing terrain, reserving tiles and occupying free ones. *)
LEMMA FieldEditsKeep ==
    ASSUME PathAgentsInv, NEW t \in EditTiles, NEW mark \in BOOLEAN,
           EditTerrain(t, mark) \/ ToggleReservation(t) \/ ToggleObstacle(t)
    PROVE  PathAgentsInv'
  <1>1. TypeOK /\ t \in Tiles /\ edits' \in 0 .. MaxEdits
    BY PathAgentsAssumption DEF PathAgentsInv, TypeOK, EditTerrain, ToggleReservation, ToggleObstacle, Edit
  <1>2. agents' = agents /\ routes' = routes /\ elapsed' = elapsed /\ flow' = flow
    BY DEF EditTerrain, ToggleReservation, ToggleObstacle
  <1>3. CountedIn(agents, flow)'
    BY <1>2 DEF PathAgentsInv, CountedIn, Outstanding
  <1>4. TypeOK'
    <2>1. CASE EditTerrain(t, mark)
      BY <1>1, <2>1 DEF TypeOK, EditTerrain
    <2>2. CASE ToggleReservation(t)
      BY <1>1, <2>2 DEF TypeOK, ToggleReservation
    <2>3. CASE ToggleObstacle(t)
      BY <1>1, <2>3 DEF TypeOK, ToggleObstacle
    <2> QED BY <2>1, <2>2, <2>3
  <1>5. \A j \in Agents : FitsRoute(agents[j], routes[j], Current)'
    <2> SUFFICES ASSUME NEW j \in Agents PROVE FitsRoute(agents[j], routes[j], Current)'
      OBVIOUS
    <2>1. FitsRoute(agents[j], routes[j], Current)
      BY DEF PathAgentsInv
    <2>2. Current' => Current /\ walls' = walls
      BY <1>1 DEF Current, TypeOK, EditTerrain, ToggleReservation, ToggleObstacle
    <2> QED BY <1>2, <2>1, <2>2 DEF FitsRoute, Outstanding
  <1>6. PlacedAt([j \in Agents |-> agents[j].position], occupied)'
    <2> DEFINE pos == [j \in Agents |-> agents[j].position]
               New == /\ \A i \in Agents : pos[i] \notin obstacles'
                      /\ occupied' = {pos[i] : i \in Agents} \union obstacles'
    <2>1. /\ \A i, j \in Agents : pos[i] = pos[j] => i = j
          /\ \A i \in Agents : pos[i] \notin obstacles
          /\ occupied = {pos[i] : i \in Agents} \union obstacles
      BY DEF PathAgentsInv, PlacedAt
    <2>2. [j \in Agents |-> agents'[j].position] = pos
      BY <1>2
    <2> HIDE DEF pos
    <2>3. occupied' = occupied /\ obstacles' = obstacles => New
      BY <2>1
    <2>4. ASSUME t \notin occupied, occupied' = occupied \union {t},
                 obstacles' = obstacles \union {t}
          PROVE  New
      BY <2>1, <2>4
    <2>5. ASSUME t \in obstacles, occupied' = occupied \ {t}, obstacles' = obstacles \ {t}
          PROVE  New
      BY <2>1, <2>5
    <2>6. New
      <3> HIDE DEF New
      <3> QED BY <2>3, <2>4, <2>5 DEF EditTerrain, ToggleReservation, ToggleObstacle
    <2> QED BY <2>1, <2>2, <2>6 DEF PlacedAt
  <1> QED BY <1>3, <1>4, <1>5, <1>6 DEF PathAgentsInv

(* The driver that moves agent by agent keeps what holds between ticks. *)
LEMMA EachKeeps == PathAgentsInv /\ TickWithMovement => PathAgentsInv'
  <1> SUFFICES ASSUME PathAgentsInv, TickWithMovement PROVE PathAgentsInv'
    OBVIOUS
  <1>0. PICK steps \in StepBudgets : \E exhaustion \in Choices(steps) : \E s \in Plans(steps, exhaustion) :
           Commit(SteppedEach(s, steps), "each", "Forbid", steps)
    BY DEF TickWithMovement
  <1>00. PICK exhaustion \in Choices(steps) : \E s \in Plans(steps, exhaustion) :
           Commit(SteppedEach(s, steps), "each", "Forbid", steps)
    BY <1>0
  <1>1. PICK s \in Plans(steps, exhaustion) : Commit(SteppedEach(s, steps), "each", "Forbid", steps)
    BY <1>00
  <1>2. steps \in Nat
    BY PathAgentsAssumption
  <1> DEFINE c == pathing_dirty \/ ~unmarked
  <1>3. Sound(s, c) /\ c \in BOOLEAN
    BY <1>2, PlansSound
  <1> HIDE DEF c
  <1>4. Sound(SteppedEach(s, steps), c)
    BY <1>2, <1>3, EachSound
  <1> QED BY <1>1, <1>4, CommitKeeps DEF c

-----------------------------------------------------------------------------
(* Joint movement: which moves of a round are admitted.                    *)

Verdicts == {"Inactive", "Impassable", "NotAdjacent", "Occupied", "Reserved", "Moved"}

\* A round as the tick drivers build it.
IsRound(round, n) ==
    /\ n \in Nat /\ round = [i \in 1 .. n |-> round[i]]
    /\ \A i \in 1 .. n : round[i].verdict \in Verdicts
    /\ \A i, k \in 1 .. n : round[i].at = round[k].at => i = k
    /\ \A i, k \in 1 .. n : round[i].verdict = "Moved" => round[k].at # round[i].to
    /\ \A i, k \in 1 .. n : round[i].verdict = "Moved" /\ round[k].verdict = "Occupied"
                               => round[i].to # round[k].to
    /\ \A i \in 1 .. n : round[i].verdict = "Occupied" => round[i].to # round[i].at

Lends(round, state, i) ==
    \E k \in DOMAIN round : state[k] = "Admitted" /\ round[k].at = round[i].to

\* What phases 1 to 3 establish: admitted moves have tiles of their own, enter
\* what is free or vacated, and none is admitted against another.
Settles(round, state) ==
    /\ state = [i \in DOMAIN round |-> state[i]]
    /\ \A i \in DOMAIN round :
          /\ state[i] = "Inactive" <=> round[i].verdict = "Inactive"
          /\ state[i] = "Admitted" =>
                \/ round[i].verdict = "Moved"
                \/ /\ round[i].verdict = "Occupied" /\ ~round[i].reserved
                   /\ Lends(round, state, i)
          /\ state[i] = "Pending" => round[i].verdict = "Occupied" /\ ~round[i].reserved
          /\ state[i] \in Verdicts \union {"Pending", "Admitted"}
    /\ \A i, k \in DOMAIN round :
          state[i] = "Admitted" /\ state[k] = "Admitted" =>
             /\ round[i].to = round[k].to => i = k
             /\ ~(round[i].to = round[k].at /\ round[k].to = round[i].at)

(* A round has as many entries as agents. *)
LEMMA RoundSpan ==
    ASSUME NEW round, NEW n, IsRound(round, n)
    PROVE  DOMAIN round = 1 .. n /\ Len(round) = n /\ n \in Nat
  <1>1. n \in Nat /\ round = [i \in 1 .. n |-> round[i]]
    BY DEF IsRound
  <1> DEFINE T == {round[i] : i \in 1 .. n}
  <1>2. DOMAIN round = 1 .. n
    BY <1>1, Zenon
  <1>3. round \in [1 .. n -> T]
    BY <1>1
  <1>4. round \in Seq(T)
    BY <1>1, <1>3, SeqDef
  <1> HIDE DEF T
  <1>5. Len(round) \in Nat /\ DOMAIN round = 1 .. Len(round)
    BY <1>4, LenProperties
  <1> QED BY <1>1, <1>2, <1>5

(* Phases 1 and 2 give a free tile to the first agent that wants it. *)
LEMMA ValidatedSettles ==
    ASSUME NEW round, NEW n, IsRound(round, n)
    PROVE  Settles(round, Validated(round))
  <1> DEFINE V(i) == CASE round[i].verdict = "Moved" ->
                            IF FirstClaim(round, i) THEN "Admitted" ELSE "Occupied"
                       [] round[i].verdict = "Occupied" ->
                            IF round[i].reserved THEN "Reserved" ELSE "Pending"
                       [] OTHER -> round[i].verdict
             g == [i \in DOMAIN round |-> V(i)]
             v == Validated(round)
  <1>1. n \in Nat /\ DOMAIN round = 1 .. n
    BY RoundSpan
  <1>2. v = g
    <2>1. g = [i \in 1 .. n |-> g[i]]
      BY <1>1
    <2>2. v = Once(g)
      BY DEF Validated
    <2> HIDE DEF g, v
    <2>3. Once(g) = g
      BY <1>1, <2>1, OnceIs
    <2> QED BY <2>2, <2>3
  <1> HIDE DEF v
  <1>3. ASSUME NEW i \in 1 .. n
        PROVE  /\ round[i].verdict = "Moved" => v[i] = IF FirstClaim(round, i) THEN "Admitted" ELSE "Occupied"
               /\ round[i].verdict = "Occupied" => v[i] = IF round[i].reserved THEN "Reserved" ELSE "Pending"
               /\ round[i].verdict \notin {"Moved", "Occupied"} => v[i] = round[i].verdict
               /\ round[i].verdict \in Verdicts
    <2>1. v[i] = V(i) /\ round[i].verdict \in Verdicts
      BY <1>1, <1>2 DEF IsRound
    <2> QED BY <2>1
  <1>4. ASSUME NEW i \in 1 .. n, v[i] = "Admitted"
        PROVE  round[i].verdict = "Moved" /\ FirstClaim(round, i)
    BY <1>3, <1>4 DEF Verdicts
  <1>5. \A i, k \in 1 .. n : v[i] = "Admitted" /\ v[k] = "Admitted" =>
             /\ round[i].to = round[k].to => i = k
             /\ round[i].to # round[k].at
    <2> SUFFICES ASSUME NEW i \in 1 .. n, NEW k \in 1 .. n, v[i] = "Admitted", v[k] = "Admitted"
                 PROVE  (round[i].to = round[k].to => i = k) /\ round[i].to # round[k].at
      OBVIOUS
    <2>1. /\ round[i].verdict = "Moved" /\ FirstClaim(round, i)
          /\ round[k].verdict = "Moved" /\ FirstClaim(round, k)
      BY <1>4
    <2>2. round[i].to # round[k].at
      BY <2>1 DEF IsRound
    <2>3. ASSUME round[i].to = round[k].to PROVE i = k
      <3>1. CASE i < k
        BY <1>1, <2>1, <2>3, <3>1 DEF FirstClaim
      <3>2. CASE k < i
        BY <1>1, <2>1, <2>3, <3>2 DEF FirstClaim
      <3> QED BY <1>1, <3>1, <3>2
    <2> QED BY <2>2, <2>3
  <1>6. v = [i \in DOMAIN round |-> v[i]]
    BY <1>2
  <1>7. ASSUME NEW i \in 1 .. n
        PROVE  /\ v[i] = "Inactive" <=> round[i].verdict = "Inactive"
               /\ v[i] = "Admitted" => round[i].verdict = "Moved"
               /\ v[i] = "Pending" => round[i].verdict = "Occupied" /\ ~round[i].reserved
               /\ v[i] \in Verdicts \union {"Pending", "Admitted"}
    BY <1>3 DEF Verdicts
  <1> QED BY <1>1, <1>5, <1>6, <1>7 DEF Settles, v

(* Phase 3: an admitted mover's tile is granted once, and never to an agent *)
(* whose own tile that mover enters. *)
LEMMA ChainedSettles ==
    ASSUME NEW round, NEW n, IsRound(round, n), NEW state, Settles(round, state),
           NEW i \in DOMAIN round
    PROVE  Settles(round, Chained(round, state, i))
  <1> DEFINE t == Chained(round, state, i)
             lent == \E k \in Occupants(round, round[i].to) : state[k] = "Admitted"
  <1>1. n \in Nat /\ DOMAIN round = 1 .. n
    BY RoundSpan
  <1>2. CASE ~(state[i] = "Pending" /\ lent)
    BY <1>2 DEF Chained
  <1>3. CASE state[i] = "Pending" /\ lent
    <2> DEFINE w == IF round[i].to \in Claimed(round, state) THEN "Occupied" ELSE "Admitted"
    <2>1. t = [state EXCEPT ![i] = w] /\ Lends(round, state, i)
      BY <1>3 DEF Chained, Occupants, Lends
    <2>2. state = [k \in DOMAIN round |-> state[k]]
      BY DEF Settles
    <2> HIDE DEF t
    <2>3. /\ t = [k \in DOMAIN round |-> t[k]]
          /\ \A k \in DOMAIN round : t[k] = IF k = i THEN w ELSE state[k]
      BY <2>1, <2>2
    <2>4. /\ round[i].verdict = "Occupied" /\ ~round[i].reserved /\ state[i] # "Admitted"
          /\ w \in {"Occupied", "Admitted"}
      BY <1>3 DEF Settles
    <2>5. w = "Admitted" => \A k \in DOMAIN round : state[k] = "Admitted" => round[k].to # round[i].to
      BY DEF Claimed
    <2> HIDE DEF w
    <2>6. \A k \in DOMAIN round : Lends(round, state, k) => Lends(round, t, k)
      BY <2>3, <2>4 DEF Lends
    <2>7. \A k \in DOMAIN round : state[k] = "Admitted" => round[k].to # round[i].at
      <3> SUFFICES ASSUME NEW k \in DOMAIN round, state[k] = "Admitted", round[k].to = round[i].at
                   PROVE  FALSE
        OBVIOUS
      <3>1. round[k].verdict # "Moved"
        BY <1>1 DEF IsRound
      <3>2. Lends(round, state, k)
        BY <3>1 DEF Settles
      <3>3. PICK m \in DOMAIN round : state[m] = "Admitted" /\ round[m].at = round[i].at
        BY <3>2 DEF Lends
      <3>4. m = i
        BY <1>1, <3>3 DEF IsRound
      <3> QED BY <2>4, <3>3, <3>4
    <2>8. round[i].to # round[i].at
      BY <1>1, <2>4 DEF IsRound
    <2>9. \A k \in DOMAIN round :
          /\ t[k] = "Inactive" <=> round[k].verdict = "Inactive"
          /\ t[k] = "Admitted" =>
                \/ round[k].verdict = "Moved"
                \/ /\ round[k].verdict = "Occupied" /\ ~round[k].reserved
                   /\ Lends(round, t, k)
          /\ t[k] = "Pending" => round[k].verdict = "Occupied" /\ ~round[k].reserved
          /\ t[k] \in Verdicts \union {"Pending", "Admitted"}
      <3> SUFFICES ASSUME NEW k \in DOMAIN round
                   PROVE  /\ t[k] = "Inactive" <=> round[k].verdict = "Inactive"
                          /\ t[k] = "Admitted" =>
                                \/ round[k].verdict = "Moved"
                                \/ /\ round[k].verdict = "Occupied" /\ ~round[k].reserved
                                   /\ Lends(round, t, k)
                          /\ t[k] = "Pending" => round[k].verdict = "Occupied" /\ ~round[k].reserved
                          /\ t[k] \in Verdicts \union {"Pending", "Admitted"}
        OBVIOUS
      <3>1. CASE k = i
        <4>1. t[k] = w
          BY <2>3, <3>1
        <4>2. Lends(round, t, k)
          BY <2>1, <2>6, <3>1
        <4> QED BY <2>4, <3>1, <4>1, <4>2 DEF Verdicts
      <3>2. CASE k # i
        BY <2>3, <2>6, <3>2 DEF Settles
      <3> QED BY <3>1, <3>2
    <2>10. \A j, k \in DOMAIN round :
          t[j] = "Admitted" /\ t[k] = "Admitted" =>
             /\ round[j].to = round[k].to => j = k
             /\ ~(round[j].to = round[k].at /\ round[k].to = round[j].at)
      <3> SUFFICES ASSUME NEW j \in DOMAIN round, NEW k \in DOMAIN round,
                          t[j] = "Admitted", t[k] = "Admitted"
                   PROVE  /\ round[j].to = round[k].to => j = k
                          /\ ~(round[j].to = round[k].at /\ round[k].to = round[j].at)
        OBVIOUS
      <3>1. CASE j # i /\ k # i
        BY <2>3, <3>1 DEF Settles
      <3>2. CASE j = i /\ k # i
        BY <2>3, <2>5, <2>7, <3>2
      <3>3. CASE j # i /\ k = i
        BY <2>3, <2>5, <2>7, <3>3
      <3>4. CASE j = i /\ k = i
        BY <2>8, <3>4
      <3> QED BY <3>1, <3>2, <3>3, <3>4
    <2> QED BY <2>3, <2>9, <2>10 DEF Settles, t
  <1> QED BY <1>2, <1>3

(* So do all passes. *)
LEMMA DrainedSettles ==
    ASSUME NEW round, NEW n, IsRound(round, n)
    PROVE  Settles(round, Drained(round))
  <1> DEFINE N == Len(round) * Len(round)
             turn(k) == ((k - 1) % Len(round)) + 1
  <1>1. Len(round) \in Nat /\ DOMAIN round = 1 .. Len(round) /\ N \in Nat
    BY RoundSpan
  <1>2. PICK f : /\ f[0] = Validated(round)
                 /\ \A k \in 1 .. N : f[k] = Chained(round, f[k - 1], turn(k))
                 /\ Drained(round) = f[N]
    BY <1>1, DrainedUnfolds
  <1>3. ASSUME NEW k \in 1 .. N PROVE turn(k) \in DOMAIN round
    <2>1. Len(round) >= 1
      <3>1. CASE Len(round) = 0
        BY <3>1
      <3> QED BY <1>1, <3>1
    <2>2. (k - 1) % Len(round) \in 0 .. Len(round) - 1
      <3>1. k - 1 \in Int
        BY <1>1
      <3> HIDE DEF N
      <3> QED BY <1>1, <2>1, <3>1
    <2> QED BY <1>1, <2>2
  <1> HIDE DEF N, turn
  <1> DEFINE S == {k \in 0 .. N : Settles(round, f[k])}
  <1>4. 0 \in S
    BY <1>1, <1>2, ValidatedSettles
  <1>5. ASSUME NEW k \in 1 .. N, k - 1 \in S PROVE k \in S
    <2>1. Settles(round, Chained(round, f[k - 1], turn(k)))
      BY <1>3, <1>5, ChainedSettles
    <2> QED BY <1>2, <2>1
  <1>6. \A k \in 0 .. N : k \in S
    <2> HIDE DEF S
    <2> QED BY <1>1, <1>4, <1>5, BoundedInduction
  <1> QED BY <1>1, <1>2, <1>6

\* Where the walk of phase 4 goes from the agents J.
Onward(round, state, J) ==
    {m \in UNION {Occupants(round, round[j].to) : j \in J} : state[m] = "Pending"}

IsWalk(round, state, i, f) ==
    /\ f[0] = {i}
    /\ \A k \in 1 .. Len(round) : f[k] = Onward(round, state, f[k - 1])

(* One goes from j to the pending occupant of the tile that j wants. *)
LEMMA OnwardFacts ==
    ASSUME NEW round, NEW state, NEW J, NEW m
    PROVE  m \in Onward(round, state, J) <=>
              /\ m \in DOMAIN round /\ state[m] = "Pending"
              /\ \E j \in J : round[m].at = round[j].to
  BY DEF Onward, Occupants

(* A walk stays in a set that is closed under its steps. *)
LEMMA WalkStays ==
    ASSUME NEW round, NEW n, IsRound(round, n), NEW state, NEW i, NEW f, IsWalk(round, state, i, f),
           NEW P, i \in P,
           \A x \in P, m \in DOMAIN round :
              state[m] = "Pending" /\ round[m].at = round[x].to => m \in P
    PROVE  \A k \in 0 .. n : f[k] \subseteq P
  <1>1. n \in Nat /\ DOMAIN round = 1 .. n /\ Len(round) = n
    BY RoundSpan
  <1> DEFINE S == {k \in 0 .. n : f[k] \subseteq P}
  <1>2. 0 \in S
    BY <1>1 DEF IsWalk
  <1>3. ASSUME NEW k \in 1 .. n, k - 1 \in S PROVE k \in S
    <2>1. f[k] = Onward(round, state, f[k - 1])
      BY <1>1 DEF IsWalk
    <2>2. f[k] \subseteq P
      BY <1>3, <2>1, OnwardFacts
    <2> QED BY <1>1, <2>2
  <1> HIDE DEF S
  <1>4. \A k \in 0 .. n : k \in S
    BY <1>1, <1>2, <1>3, BoundedInduction
  <1> QED BY <1>4 DEF S

(* A walk visits one agent at a time, and none after it has ended. *)
LEMMA WalkSingle ==
    ASSUME NEW round, NEW n, IsRound(round, n), NEW state, NEW i \in DOMAIN round,
           state[i] = "Pending", NEW f, IsWalk(round, state, i, f)
    PROVE  \A k \in 0 .. n :
              /\ \A x \in f[k] : x \in DOMAIN round /\ state[x] = "Pending"
              /\ \A x, y \in f[k] : x = y
              /\ (\E j \in 0 .. k : f[j] = {}) => f[k] = {}
  <1>1. n \in Nat /\ DOMAIN round = 1 .. n /\ Len(round) = n
    BY RoundSpan
  <1> DEFINE P == {x \in DOMAIN round : state[x] = "Pending"}
             S == {k \in 0 .. n : /\ \A x, y \in f[k] : x = y
                                  /\ (\E j \in 0 .. k : f[j] = {}) => f[k] = {}}
  <1>2. \A k \in 0 .. n : f[k] \subseteq P
    <2>1. i \in P /\ \A x \in P, m \in DOMAIN round :
                        state[m] = "Pending" /\ round[m].at = round[x].to => m \in P
      OBVIOUS
    <2> HIDE DEF P
    <2> QED BY <2>1, WalkStays
  <1>3. 0 \in S
    BY <1>1 DEF IsWalk
  <1>4. ASSUME NEW k \in 1 .. n, k - 1 \in S PROVE k \in S
    <2>1. f[k] = Onward(round, state, f[k - 1])
      BY <1>1 DEF IsWalk
    <2>2. \A x, y \in f[k] : x = y
      <3> SUFFICES ASSUME NEW x \in f[k], NEW y \in f[k] PROVE x = y
        OBVIOUS
      <3>1. PICK u \in f[k - 1] : round[x].at = round[u].to
        BY <2>1, OnwardFacts
      <3>2. PICK v \in f[k - 1] : round[y].at = round[v].to
        BY <2>1, OnwardFacts
      <3>3. u = v
        BY <1>4
      <3>4. x \in DOMAIN round /\ y \in DOMAIN round
        BY <2>1, OnwardFacts
      <3> QED BY <1>1, <3>1, <3>2, <3>3, <3>4 DEF IsRound
    <2>3. f[k - 1] = {} => f[k] = {}
      BY <2>1, OnwardFacts
    <2>4. ASSUME NEW j \in 0 .. k, f[j] = {} PROVE f[k] = {}
      <3>1. CASE j = k
        BY <2>4, <3>1
      <3>2. CASE j # k
        <4>1. j \in 0 .. k - 1
          BY <1>1, <3>2
        <4> QED BY <1>4, <2>3, <2>4, <4>1
      <3> QED BY <3>1, <3>2
    <2> QED BY <1>1, <2>2, <2>4
  <1>5. \A k \in 0 .. n : k \in S
    <2> HIDE DEF S
    <2> QED BY <1>1, <1>3, <1>4, BoundedInduction
  <1> QED BY <1>2, <1>5

(* Phase 4 walks once around from every agent. *)
LEMMA WalkExists ==
    ASSUME NEW round, NEW n, IsRound(round, n), NEW state, NEW i
    PROVE  \E f : /\ IsWalk(round, state, i, f)
                  /\ CycleOf(round, state, i) =
                        IF \E k \in 1 .. n : i \in f[k] THEN UNION {f[k] : k \in 0 .. n} ELSE {}
  <1>1. n \in Nat /\ DOMAIN round = 1 .. n /\ Len(round) = n
    BY RoundSpan
  <1>2. PICK f : /\ f[0] = {i}
                 /\ \A k \in 1 .. Len(round) :
                      f[k] = {m \in UNION {Occupants(round, round[j].to) : j \in f[k - 1]} : state[m] = "Pending"}
                 /\ CycleOf(round, state, i) = IF \E k \in 1 .. Len(round) : i \in f[k]
                                              THEN UNION {f[k] : k \in 0 .. Len(round)}
                                              ELSE {}
    BY <1>1, WalkUnfolds
  <1>3. IsWalk(round, state, i, f)
    BY <1>2 DEF IsWalk, Onward
  <1> QED BY <1>1, <1>2, <1>3

(* A cycle is closed: its members want each other's tiles, one each, and each *)
(* of them finds the same cycle. *)
LEMMA CycleFacts ==
    ASSUME NEW round, NEW n, IsRound(round, n), NEW state, NEW i \in DOMAIN round,
           state[i] = "Pending", CycleOf(round, state, i) # {}
    PROVE  LET C == CycleOf(round, state, i) IN
           /\ i \in C /\ C \subseteq {x \in DOMAIN round : state[x] = "Pending"}
           /\ \A x, y \in C : round[x].to = round[y].to => x = y
           /\ \E m \in C : round[m].at = round[i].to /\ CycleOf(round, state, m) = C
           /\ \A m \in DOMAIN round :
                 round[m].at = round[i].to /\ round[m].to = round[i].at => C \subseteq {i, m}
  <1> DEFINE C == CycleOf(round, state, i)
             A(m, x) == /\ m \in DOMAIN round /\ state[m] = "Pending"
                        /\ round[m].at = round[x].to
  <1>1. n \in Nat /\ DOMAIN round = 1 .. n /\ Len(round) = n
    BY RoundSpan
  <1>2. PICK f : /\ IsWalk(round, state, i, f)
                 /\ C = IF \E k \in 1 .. n : i \in f[k] THEN UNION {f[k] : k \in 0 .. n} ELSE {}
    BY WalkExists
  <1>3. PICK p \in 1 .. n : i \in f[p]
    BY <1>2
  <1>4. C = UNION {f[k] : k \in 0 .. n}
    BY <1>2, <1>3
  <1> HIDE DEF C
  <1>5. /\ \A k \in 0 .. n : /\ \A x \in f[k] : x \in DOMAIN round /\ state[x] = "Pending"
                             /\ \A x, y \in f[k] : x = y
        /\ \A k \in 0 .. p : f[k] # {}
        /\ f[0] = {i}
        /\ \A k \in 1 .. n : f[k] = Onward(round, state, f[k - 1])
    <2>1. \A k \in 0 .. n : /\ \A x \in f[k] : x \in DOMAIN round /\ state[x] = "Pending"
                            /\ \A x, y \in f[k] : x = y
                            /\ (\E j \in 0 .. k : f[j] = {}) => f[k] = {}
      BY <1>2, WalkSingle
    <2>2. p \in 0 .. n /\ f[p] # {}
      BY <1>1, <1>3
    <2> QED BY <1>1, <1>2, <2>1, <2>2 DEF IsWalk
  <1>6. ASSUME NEW k \in 0 .. p - 1, NEW x \in f[k] PROVE \E m \in f[k + 1] : A(m, x)
    <2>1. k + 1 \in 1 .. n /\ k + 1 \in 0 .. p /\ k \in 0 .. n /\ (k + 1) - 1 = k
      BY <1>1
    <2>2. f[k + 1] = Onward(round, state, f[k]) /\ f[k + 1] # {}
      BY <1>5, <2>1
    <2>3. PICK m : m \in f[k + 1]
      BY <2>2
    <2>4. PICK y \in f[k] : A(m, y)
      BY <2>2, <2>3, OnwardFacts
    <2>5. y = x
      BY <1>5, <2>1
    <2> QED BY <2>3, <2>4, <2>5
  <1> DEFINE P == UNION {f[k] : k \in 0 .. p - 1}
  <1>7. /\ i \in P /\ P \subseteq {x \in DOMAIN round : state[x] = "Pending"}
        /\ \A x \in P : \E m \in P : A(m, x)
    <2>1. 0 \in 0 .. p - 1 /\ \A k \in 0 .. p - 1 : k \in 0 .. n
      BY <1>1
    <2>2. i \in P
      BY <1>5, <2>1
    <2>3. ASSUME NEW k \in 0 .. p - 1, NEW x \in f[k] PROVE \E m \in P : A(m, x)
      <3>1. PICK m \in f[k + 1] : A(m, x)
        BY <1>6
      <3>2. CASE k + 1 \in 0 .. p - 1
        BY <3>1, <3>2
      <3>3. CASE k + 1 \notin 0 .. p - 1
        <4>1. k + 1 = p /\ p \in 0 .. n
          BY <1>1, <3>3
        <4>2. m = i
          BY <1>3, <1>5, <3>1, <4>1
        <4> QED BY <2>2, <3>1, <4>2
      <3> QED BY <3>2, <3>3
    <2> QED BY <1>5, <2>1, <2>2, <2>3
  <1>8. \A x \in P, m \in DOMAIN round : A(m, x) => m \in P
    <2> SUFFICES ASSUME NEW x \in P, NEW m \in DOMAIN round, A(m, x) PROVE m \in P
      OBVIOUS
    <2>1. PICK m2 \in P : A(m2, x)
      BY <1>7
    <2>2. m2 = m
      BY <1>1, <2>1 DEF IsRound
    <2> QED BY <2>1, <2>2
  <1>9. C = P
    <2>1. \A k \in 0 .. n : f[k] \subseteq P
      <3> HIDE DEF P
      <3> QED BY <1>2, <1>7, <1>8, WalkStays
    <2>2. \A k \in 0 .. p - 1 : k \in 0 .. n
      BY <1>1
    <2> QED BY <1>4, <2>1, <2>2
  <1>10. \A y \in P : \E x \in P : A(y, x)
    <2>1. ASSUME NEW k \in 1 .. p, NEW y \in f[k] PROVE \E x \in P : A(y, x)
      <3>1. k - 1 \in 0 .. p - 1 /\ k \in 1 .. n
        BY <1>1
      <3>2. f[k] = Onward(round, state, f[k - 1])
        BY <1>5, <3>1
      <3>3. PICK x \in f[k - 1] : A(y, x)
        BY <3>2, OnwardFacts
      <3> QED BY <3>1, <3>3
    <2>2. ASSUME NEW y \in P PROVE \E x \in P : A(y, x)
      <3>1. PICK k \in 0 .. p - 1 : y \in f[k]
        OBVIOUS
      <3>2. CASE k = 0
        <4>1. y \in f[p] /\ p \in 1 .. p
          BY <1>1, <1>3, <1>5, <3>1, <3>2
        <4> HIDE DEF P, A
        <4> QED BY <2>1, <4>1
      <3>3. CASE k # 0
        <4>1. k \in 1 .. p
          BY <1>1, <3>1, <3>3
        <4> HIDE DEF P, A
        <4> QED BY <2>1, <3>1, <4>1
      <3> QED BY <3>2, <3>3
    <2> QED BY <2>2
  <1> HIDE DEF P
  <1>11. \A x, y \in C : round[x].to = round[y].to => x = y
    <2> DEFINE F == [x \in P |-> CHOOSE m \in P : A(m, x)]
    <2>1. \A x \in P : F[x] \in P /\ A(F[x], x)
      BY <1>7
    <2>2. F \in [P -> P]
      BY <2>1
    <2>3. \A y \in P : \E x \in P : F[x] = y
      <3> SUFFICES ASSUME NEW y \in P PROVE \E x \in P : F[x] = y
        OBVIOUS
      <3>1. PICK x \in P : A(y, x)
        BY <1>10
      <3>2. A(F[x], x)
        BY <2>1
      <3> HIDE DEF F
      <3>3. F[x] = y
        BY <1>1, <3>1, <3>2 DEF IsRound
      <3> QED BY <3>3
    <2>4. \A x, y \in P : round[x].to = round[y].to => F[x] = F[y]
      <3> SUFFICES ASSUME NEW x \in P, NEW y \in P, round[x].to = round[y].to PROVE F[x] = F[y]
        OBVIOUS
      <3>1. A(F[x], x) /\ A(F[y], y)
        BY <2>1
      <3> HIDE DEF F
      <3> QED BY <1>1, <3>1 DEF IsRound
    <2> HIDE DEF F, A
    <2>5. IsFiniteSet(P)
      <3>1. IsFiniteSet(1 .. n)
        <4>1. 1 \in Int /\ n \in Int
          BY <1>1
        <4> QED BY <4>1, FS_Interval, Zenon
      <3> QED BY <1>1, <1>7, <3>1, FS_Subset
    <2>6. F \in Surjection(P, P)
      BY <2>2, <2>3 DEF Surjection
    <2>7. F \in Injection(P, P)
      BY <2>5, <2>6, FS_SurjSameCardinalityImpliesInj
    <2>8. \A x, y \in P : F[x] = F[y] => x = y
      BY <2>7 DEF Injection, IsInjective
    <2> QED BY <1>9, <2>4, <2>8
  <1>12. PICK m \in f[1] : A(m, i)
    <2>1. 0 \in 0 .. p - 1 /\ i \in f[0] /\ 0 + 1 = 1
      BY <1>1, <1>5
    <2> QED BY <1>6, <2>1
  <1>13. m \in P
    BY <1>7, <1>8, <1>12
  <1>14. CycleOf(round, state, m) = C
    <2>1. PICK g : /\ IsWalk(round, state, m, g)
                 /\ CycleOf(round, state, m) =
                       IF \E k \in 1 .. n : m \in g[k] THEN UNION {g[k] : k \in 0 .. n} ELSE {}
      BY WalkExists
    <2>2. g[0] = {m} /\ \A k \in 1 .. n : g[k] = Onward(round, state, g[k - 1])
      BY <1>1, <2>1 DEF IsWalk
    <2> DEFINE S == {k \in 0 .. n - 1 : g[k] = f[k + 1]}
    <2>3. f[1] = {m} /\ 1 \in 0 .. n
      <3>1. 1 \in 0 .. n
        BY <1>1
      <3> QED BY <1>5, <1>12, <3>1
    <2>4. 0 \in S
      <3>1. 0 \in 0 .. n - 1 /\ 0 + 1 = 1
        BY <1>1
      <3>2. g[0] = f[0 + 1]
        BY <2>2, <2>3, <3>1
      <3> QED BY <3>1, <3>2
    <2>5. ASSUME NEW k \in 1 .. n - 1, k - 1 \in S PROVE k \in S
      <3>1. k \in 1 .. n /\ k + 1 \in 1 .. n /\ (k + 1) - 1 = k /\ (k - 1) + 1 = k
        BY <1>1
      <3>2. g[k] = Onward(round, state, g[k - 1]) /\ f[k + 1] = Onward(round, state, f[k])
        BY <1>5, <2>2, <3>1
      <3> QED BY <1>1, <2>5, <3>1, <3>2
    <2>6. \A k \in 0 .. n - 1 : k \in S
      <3> HIDE DEF S
      <3>1. n - 1 \in Nat
        BY <1>1
      <3> QED BY <2>4, <2>5, <3>1, BoundedInduction
    <2>7. p - 1 \in 0 .. n - 1 /\ (p - 1) + 1 = p /\ p \in 0 .. n /\ p - 1 \in 0 .. n
      BY <1>1
    <2>8. g[p - 1] = {i}
      BY <1>3, <1>5, <2>6, <2>7
    <2>9. g[p] = f[1]
      <3>1. 1 - 1 = 0 /\ 1 \in 1 .. n
        BY <1>1
      <3>2. f[1] = Onward(round, state, f[1 - 1]) /\ g[p] = Onward(round, state, g[p - 1])
        BY <1>5, <2>2, <3>1
      <3>3. f[1] = Onward(round, state, {i})
        BY <1>5, <3>1, <3>2
      <3> QED BY <2>8, <3>2, <3>3
    <2>10. CycleOf(round, state, m) = UNION {g[k] : k \in 0 .. n}
      BY <2>1, <2>3, <2>9
    <2>11. \A k \in 0 .. n : g[k] \subseteq P
      BY <1>8, <1>13, <2>1, WalkStays
    <2>12. ASSUME NEW k \in 0 .. n, NEW x \in f[k] PROVE \E j \in 0 .. n : x \in g[j]
      <3>1. CASE k = 0
        BY <1>5, <2>7, <2>8, <2>12, <3>1
      <3>2. CASE k # 0
        <4>1. k - 1 \in 0 .. n - 1 /\ k - 1 \in 0 .. n /\ (k - 1) + 1 = k
          BY <1>1, <3>2
        <4>2. g[k - 1] = f[k]
          BY <2>6, <4>1
        <4> QED BY <2>12, <4>1, <4>2
      <3> QED BY <3>1, <3>2
    <2> QED BY <1>4, <1>9, <2>10, <2>11, <2>12
  <1>15. ASSUME NEW q \in DOMAIN round, round[q].at = round[i].to, round[q].to = round[i].at
         PROVE  C \subseteq {i, q}
    <2> DEFINE Q == {i, q}
    <2>1. i \in Q /\ \A x \in Q, y \in DOMAIN round :
              state[y] = "Pending" /\ round[y].at = round[x].to => y \in Q
      BY <1>1, <1>15 DEF IsRound
    <2> HIDE DEF Q
    <2>2. \A k \in 0 .. n : f[k] \subseteq Q
      BY <1>2, <2>1, WalkStays
    <2> QED BY <1>4, <2>2 DEF Q
  <1> QED BY <1>7, <1>9, <1>11, <1>12, <1>13, <1>14, <1>15 DEF C

\* What the driver may rely on when it applies the outcomes of a round.
MayTrade(retries1, retries2, policy) ==
    \/ policy = "Permit"
    \/ policy = "PermitOnDeadlock" /\ retries1 >= DeadlockTicks /\ retries2 >= DeadlockTicks

AdmissionIsSafe(round, outcome, policy) ==
    /\ \A i \in DOMAIN round :
          /\ outcome[i] = "Inactive" <=> round[i].verdict = "Inactive"
          /\ outcome[i] = "Admitted" =>
                \/ round[i].verdict = "Moved"
                \/ /\ round[i].verdict = "Occupied" /\ ~round[i].reserved
                   /\ Lends(round, outcome, i)
    /\ \A i, k \in DOMAIN round : outcome[i] = "Admitted" /\ outcome[k] = "Admitted" =>
          /\ round[i].to = round[k].to => i = k
          /\ i # k /\ round[i].to = round[k].at /\ round[k].to = round[i].at =>
                MayTrade(round[i].retries, round[k].retries, policy)

(* Admission gives every admitted move a tile of its own, free or vacated by *)
(* another admitted move, and lets two agents trade places only where the    *)
(* swap policy says so. *)
THEOREM AdmissionSafe ==
    ASSUME NEW round, NEW n, IsRound(round, n), NEW policy
    PROVE  AdmissionIsSafe(round, Admission(round, policy), policy)
  <1> DEFINE d == Drained(round)
             o == Admission(round, policy)
             C(i) == CycleOf(round, d, i)
             V(i) == CASE d[i] # "Pending" -> d[i]
                       [] d[i] = "Pending" /\ C(i) = {} -> "Occupied"
                       [] OTHER -> IF CycleAdmitted(round, C(i), policy)
                                   THEN "Admitted" ELSE "Occupied"
  <1>1. n \in Nat /\ DOMAIN round = 1 .. n /\ Settles(round, d)
    BY RoundSpan, DrainedSettles
  <1>2. \A i \in DOMAIN round : o[i] = V(i)
    <2> DEFINE g == [i \in DOMAIN round |-> V(i)]
    <2>1. g = [i \in 1 .. n |-> g[i]]
      BY <1>1
    <2>2. o = Once(g)
      BY DEF Admission
    <2>3. \A i \in DOMAIN round : g[i] = V(i)
      OBVIOUS
    <2> HIDE DEF g, o, V
    <2>4. Once(g) = g
      BY <1>1, <2>1, OnceIs
    <2> QED BY <2>2, <2>3, <2>4
  <1> DEFINE Turns(i) == d[i] = "Pending" /\ C(i) # {} /\ CycleAdmitted(round, C(i), policy)
  <1>3. ASSUME NEW i \in DOMAIN round
        PROVE  /\ o[i] = "Admitted" <=> (d[i] = "Admitted" \/ Turns(i))
               /\ o[i] = "Inactive" <=> d[i] = "Inactive"
    BY <1>2
  <1> HIDE DEF o, d, V
  <1>4. ASSUME NEW i \in DOMAIN round, Turns(i)
        PROVE  /\ i \in C(i) /\ C(i) \subseteq {x \in DOMAIN round : d[x] = "Pending"}
               /\ \A x, y \in C(i) : round[x].to = round[y].to => x = y
               /\ \E m \in C(i) : round[m].at = round[i].to /\ C(m) = C(i)
               /\ \A m \in DOMAIN round :
                     round[m].at = round[i].to /\ round[m].to = round[i].at => C(i) \subseteq {i, m}
    BY <1>1, <1>4, CycleFacts
  <1>5. ASSUME NEW i \in DOMAIN round, Turns(i)
        PROVE  \E m \in DOMAIN round : round[m].at = round[i].to /\ C(m) = C(i) /\ Turns(m)
    <2>1. PICK m \in C(i) : round[m].at = round[i].to /\ C(m) = C(i)
      BY <1>4, <1>5
    <2>2. m \in DOMAIN round /\ d[m] = "Pending"
      BY <1>4, <1>5
    <2> HIDE DEF C
    <2> QED BY <1>5, <2>1, <2>2
  \* A tile that a drained mover enters is never one that waits in a cycle.
  <1>6. ASSUME NEW i \in DOMAIN round, d[i] = "Admitted", NEW k \in DOMAIN round, d[k] = "Pending"
        PROVE  round[i].to # round[k].at
    <2> SUFFICES ASSUME round[i].to = round[k].at PROVE FALSE
      OBVIOUS
    <2>1. round[i].verdict # "Moved"
      BY <1>1 DEF IsRound
    <2>2. Lends(round, d, i)
      BY <1>1, <1>6, <2>1 DEF Settles
    <2>3. PICK m \in DOMAIN round : d[m] = "Admitted" /\ round[m].at = round[k].at
      BY <2>2 DEF Lends
    <2>4. m = k
      BY <1>1, <2>3 DEF IsRound
    <2> QED BY <1>6, <2>3, <2>4
  <1>7. ASSUME NEW i \in DOMAIN round
        PROVE  /\ o[i] = "Inactive" <=> round[i].verdict = "Inactive"
               /\ o[i] = "Admitted" =>
                     \/ round[i].verdict = "Moved"
                     \/ /\ round[i].verdict = "Occupied" /\ ~round[i].reserved
                        /\ Lends(round, o, i)
    <2>1. o[i] = "Inactive" <=> round[i].verdict = "Inactive"
      BY <1>1, <1>3 DEF Settles
    <2>2. CASE d[i] = "Admitted"
      <3>1. Lends(round, d, i) => Lends(round, o, i)
        BY <1>3 DEF Lends
      <3> QED BY <1>1, <2>1, <2>2, <3>1 DEF Settles
    <2>3. CASE Turns(i)
      <3>1. PICK m \in DOMAIN round : round[m].at = round[i].to /\ Turns(m)
        BY <1>5, <2>3
      <3>2. Lends(round, o, i)
        BY <1>3, <3>1 DEF Lends
      <3> QED BY <1>1, <2>1, <2>3, <3>2 DEF Settles
    <2>4. CASE ~(d[i] = "Admitted" \/ Turns(i))
      <3>1. o[i] # "Admitted"
        BY <1>3, <2>4
      <3> QED BY <2>1, <3>1
    <2> HIDE DEF Turns
    <2> QED BY <2>2, <2>3, <2>4
  <1>8. ASSUME NEW i \in DOMAIN round, NEW k \in DOMAIN round, o[i] = "Admitted", o[k] = "Admitted",
               round[i].to = round[k].to
        PROVE  i = k
    <2>1. ASSUME NEW x \in DOMAIN round, NEW y \in DOMAIN round, d[x] = "Admitted", Turns(y),
                 round[x].to = round[y].to
          PROVE  FALSE
      <3>1. PICK m \in DOMAIN round : round[m].at = round[y].to /\ Turns(m)
        BY <1>5, <2>1
      <3> QED BY <1>6, <2>1, <3>1
    <2>2. CASE d[i] = "Admitted" /\ d[k] = "Admitted"
      BY <1>1, <1>8, <2>2 DEF Settles
    <2>3. CASE Turns(i) /\ Turns(k)
      <3>1. PICK m \in DOMAIN round : round[m].at = round[i].to /\ C(m) = C(i)
        BY <1>5, <2>3
      <3>2. PICK m2 \in DOMAIN round : round[m2].at = round[k].to /\ C(m2) = C(k)
        BY <1>5, <2>3
      <3>3. m = m2
        BY <1>1, <1>8, <3>1, <3>2 DEF IsRound
      <3>4. C(i) = C(k)
        BY <3>1, <3>2, <3>3
      <3>5. i \in C(i) /\ k \in C(i) /\ \A x, y \in C(i) : round[x].to = round[y].to => x = y
        BY <1>4, <2>3, <3>4
      <3> QED BY <1>8, <3>5
    <2> HIDE DEF Turns
    <2> QED BY <1>3, <1>8, <2>1, <2>2, <2>3
  <1>9. ASSUME NEW i \in DOMAIN round, NEW k \in DOMAIN round, o[i] = "Admitted", o[k] = "Admitted",
               i # k, round[i].to = round[k].at, round[k].to = round[i].at
        PROVE  MayTrade(round[i].retries, round[k].retries, policy)
    <2>1. CASE d[i] = "Admitted" /\ d[k] = "Admitted"
      BY <1>1, <1>9, <2>1 DEF Settles
    <2>2. CASE d[i] = "Admitted" /\ Turns(k)
      BY <1>6, <1>9, <2>2
    <2>3. CASE Turns(i) /\ d[k] = "Admitted"
      BY <1>6, <1>9, <2>3
    <2>4. CASE Turns(i) /\ Turns(k)
      <3>1. C(i) \subseteq {i, k} /\ i \in C(i)
        BY <1>4, <1>9, <2>4
      <3>2. k \in C(i)
        <4>1. PICK m \in C(i) : round[m].at = round[i].to
          BY <1>4, <2>4
        <4>2. m \in DOMAIN round
          BY <1>4, <2>4
        <4>3. m = k
          BY <1>1, <1>9, <4>1, <4>2 DEF IsRound
        <4> QED BY <4>1, <4>3
      <3>3. ~(Cardinality(C(i)) >= 3)
        <4>1. IsFiniteSet({i}) /\ Cardinality({i}) = 1
          BY FS_Singleton
        <4>2. IsFiniteSet({i} \union {k}) /\ Cardinality({i} \union {k}) = 2
          <5>1. k \notin {i}
            BY <1>9
          <5> HIDE DEF C, Turns
          <5> QED BY <4>1, <5>1, FS_AddElement
        <4>3. C(i) = {i} \union {k}
          BY <3>1, <3>2
        <4> QED BY <4>2, <4>3
      <3> QED BY <2>4, <3>1, <3>2, <3>3 DEF CycleAdmitted, MayTrade
    <2> HIDE DEF Turns
    <2> QED BY <1>3, <1>9, <2>1, <2>2, <2>3, <2>4
  <1> QED BY <1>7, <1>8, <1>9 DEF AdmissionIsSafe, o

-----------------------------------------------------------------------------
(* Exchanging tiles first, then recording every agent's outcome.           *)

\* The states f of a driver that exchanges the tiles of the agents M as one set
\* and then advances or refuses every agent in span order.
SpanSteps(s, M, dest, f) ==
    /\ M \in SUBSET Agents
    /\ \A i \in M : /\ dest[i] \notin walls \union s.reserved /\ dest[i] \notin obstacles
                    /\ dest[i] \in s.occupied => \E k \in M : s.agents[k].position = dest[i]
                    /\ Outstanding(s.agents[i])
    /\ \A i, j \in M : dest[i] = dest[j] => i = j
    /\ f[0] \in MoveState
    /\ f[0].agents = s.agents /\ f[0].routes = s.routes /\ f[0].flow = s.flow
    /\ f[0].reserved = s.reserved /\ f[0].searched = s.searched
    /\ f[0].occupied = (s.occupied \ {s.agents[i].position : i \in M}) \union {dest[i] : i \in M}
    /\ \A k \in Agents :
          (/\ f[k - 1] \in MoveState /\ f[k - 1].agents[k] = s.agents[k]
           /\ f[k - 1].routes = s.routes /\ Counted(f[k - 1])) =>
              \/ f[k] = f[k - 1] /\ k \notin M
              \/ /\ Outstanding(s.agents[k])
                 /\ AgentStep(f[k - 1], f[k], k, IF k \in M THEN dest[k] ELSE s.agents[k].position)

(* Such a driver keeps the state sound. *)
LEMMA SpanFold ==
    ASSUME NEW s, NEW current \in BOOLEAN, Sound(s, current), NEW M, NEW dest, NEW f,
           SpanSteps(s, M, dest, f)
    PROVE  LET t == f[Len(Starts)] IN
           /\ Sound(t, current) /\ Reaches(s, t) /\ t.halted = f[0].halted
           /\ \A i \in Agents : t.agents[i].position = IF i \in M THEN dest[i] ELSE s.agents[i].position
  <1> DEFINE n == Len(Starts)
             goes(i) == IF i \in M THEN dest[i] ELSE s.agents[i].position
             S == {k \in 0 .. n :
                     /\ f[k] \in MoveState /\ f[k].routes = s.routes /\ f[k].reserved = s.reserved
                     /\ f[k].searched = s.searched /\ f[k].occupied = f[0].occupied
                     /\ f[k].halted = f[0].halted
                     /\ Counted(f[k]) /\ Fits(f[k], current)
                     /\ \A j \in Agents : j > k => f[k].agents[j] = s.agents[j]
                     /\ \A j \in Agents : j <= k => f[k].agents[j].position = goes(j)
                     /\ \A j \in Agents : Outstanding(f[k].agents[j]) => Outstanding(s.agents[j])}
  <1>1. n \in Nat /\ Agents = 1 .. n
    BY SpanFacts
  <1>2. s \in MoveState /\ Fits(s, current) /\ Placed(s) /\ Counted(s)
    BY DEF Sound
  <1>0. /\ M \in SUBSET Agents
        /\ \A i \in M : /\ dest[i] \notin walls \union s.reserved /\ dest[i] \notin obstacles
                        /\ dest[i] \in s.occupied => \E k \in M : s.agents[k].position = dest[i]
                        /\ Outstanding(s.agents[i])
        /\ \A i, j \in M : dest[i] = dest[j] => i = j
        /\ f[0] \in MoveState
        /\ f[0].agents = s.agents /\ f[0].routes = s.routes /\ f[0].flow = s.flow
        /\ f[0].reserved = s.reserved /\ f[0].searched = s.searched
        /\ f[0].occupied = (s.occupied \ {s.agents[i].position : i \in M}) \union {dest[i] : i \in M}
    BY DEF SpanSteps
  <1>3. 0 \in S
    <2>1. Counted(f[0]) /\ Fits(f[0], current)
      BY <1>0, <1>2 DEF Counted, Fits
    <2>2. \A j \in Agents : ~(j <= 0)
      BY <1>1
    <2> QED BY <1>0, <1>1, <2>1, <2>2
  <1>4. ASSUME NEW k \in 1 .. n, k - 1 \in S PROVE k \in S
    <2> DEFINE u == f[k - 1]
               t == f[k]
    <2>1. /\ u \in MoveState /\ u.routes = s.routes /\ u.reserved = s.reserved
          /\ u.searched = s.searched /\ u.occupied = f[0].occupied /\ u.halted = f[0].halted
          /\ Counted(u) /\ Fits(u, current)
          /\ \A j \in Agents : j > k - 1 => u.agents[j] = s.agents[j]
          /\ \A j \in Agents : j <= k - 1 => u.agents[j].position = goes(j)
          /\ \A j \in Agents : Outstanding(u.agents[j]) => Outstanding(s.agents[j])
      BY <1>4
    <2>2. k \in Agents /\ u.agents[k] = s.agents[k]
      BY <1>1, <2>1
    <2>3. \/ t = u /\ k \notin M
          \/ Outstanding(s.agents[k]) /\ AgentStep(u, t, k, goes(k))
      BY <2>1, <2>2 DEF SpanSteps
    <2> HIDE DEF u, t, goes
    <2>4. CASE t = u /\ k \notin M
      <3>1. t.agents[k].position = goes(k)
        BY <2>2, <2>4 DEF goes
      <3>2. \A j \in Agents : j > k => t.agents[j] = s.agents[j]
        BY <1>1, <2>1, <2>4
      <3>3. \A j \in Agents : j <= k => t.agents[j].position = goes(j)
        BY <1>1, <2>1, <2>4, <3>1
      <3> QED BY <1>1, <2>1, <2>4, <3>2, <3>3 DEF t
    <2>5. CASE Outstanding(s.agents[k]) /\ AgentStep(u, t, k, goes(k))
      <3>1. /\ t \in MoveState /\ t.routes = s.routes /\ t.searched = s.searched
            /\ t.occupied = f[0].occupied /\ t.reserved = s.reserved /\ t.halted = f[0].halted
            /\ \A j \in Agents : j # k => t.agents[j] = u.agents[j]
            /\ t.agents[k].position = goes(k)
        BY <2>1, <2>5 DEF AgentStep
      <3>2. Counted(t)
        BY <2>1, <2>2, <2>5, AgentStepCounts
      <3>3. Fits(t, current)
        BY <2>1, <2>5 DEF Fits, AgentStep
      <3>4. \A j \in Agents : j > k => t.agents[j] = s.agents[j]
        BY <1>1, <2>1, <3>1
      <3>5. \A j \in Agents : j <= k => t.agents[j].position = goes(j)
        BY <1>1, <2>1, <3>1
      <3>6. \A j \in Agents : Outstanding(t.agents[j]) => Outstanding(s.agents[j])
        BY <2>1, <2>5, <3>1
      <3> QED BY <1>1, <3>1, <3>2, <3>3, <3>4, <3>5, <3>6 DEF t
    <2> QED BY <2>3, <2>4, <2>5
  <1>5. \A k \in 0 .. n : k \in S
    <2> HIDE DEF S
    <2> QED BY <1>1, <1>3, <1>4, BoundedInduction
  <1> DEFINE t == f[n]
  <1>6. /\ t \in MoveState /\ t.routes = s.routes /\ t.reserved = s.reserved
        /\ t.searched = s.searched /\ t.occupied = f[0].occupied /\ t.halted = f[0].halted
        /\ Counted(t) /\ Fits(t, current)
        /\ \A j \in Agents : t.agents[j].position = goes(j)
        /\ \A j \in Agents : Outstanding(t.agents[j]) => Outstanding(s.agents[j])
    <2>1. n \in S /\ \A j \in Agents : j <= n
      BY <1>1, <1>5
    <2> QED BY <2>1
  <1> HIDE DEF t, S
  <1>7. Placed(t)
    <2> DEFINE p == At(s)
               q == At(t)
    <2>1. /\ \A i \in Agents : p[i] = s.agents[i].position
          /\ \A i \in Agents : q[i] = IF i \in M THEN dest[i] ELSE p[i]
          /\ PlacedAt(p, s.occupied)
      BY <1>2, <1>6 DEF At, Placed
    <2>2. {s.agents[i].position : i \in M} = {p[i] : i \in M}
      BY <1>0, <2>1
    <2> HIDE DEF p, q
    <2>3. Exchange(M, dest, p, s.occupied, q, t.occupied)
      BY <1>0, <1>6, <2>1, <2>2 DEF Exchange
    <2>4. PlacedAt(q, t.occupied)
      BY <2>1, <2>3, ExchangePlaces
    <2> QED BY <2>4 DEF Placed, q
  <1>8. Reaches(s, t)
    BY <1>0, <1>6 DEF Reaches
  <1> QED BY <1>6, <1>7, <1>8 DEF Sound, t

-----------------------------------------------------------------------------
(* The joint driver.                                                       *)

(* The round that the driver collects. *)
LEMMA RoundOfIsRound ==
    ASSUME NEW s \in MoveState, Placed(s)
    PROVE  LET r == RoundOf(s) IN
           /\ IsRound(r, Len(Starts)) /\ DOMAIN r = Agents
           /\ \A i \in Agents :
                 /\ r[i].at = s.agents[i].position /\ r[i].retries = s.agents[i].retries
                 /\ r[i].verdict = "Inactive" <=> ~WantsToMove(s, i)
                 /\ r[i].verdict # "Inactive" =>
                       /\ r[i].to = NextTile(s, i) /\ (r[i].reserved <=> NextTile(s, i) \in s.reserved)
                       /\ r[i].verdict = Verdict(s, s.agents[i].position, NextTile(s, i))
  <1> DEFINE E(i) == IF WantsToMove(s, i)
                     THEN [at |-> s.agents[i].position, to |-> NextTile(s, i),
                           retries |-> s.agents[i].retries,
                           verdict |-> Verdict(s, s.agents[i].position, NextTile(s, i)),
                           reserved |-> NextTile(s, i) \in s.reserved]
                     ELSE [at |-> s.agents[i].position, to |-> s.agents[i].position,
                           retries |-> s.agents[i].retries, verdict |-> "Inactive",
                           reserved |-> FALSE]
             r == RoundOf(s)
  <1>1. Len(Starts) \in Nat /\ Agents = 1 .. Len(Starts)
    BY SpanFacts
  <1>2. r = [i \in Agents |-> E(i)]
    <2> DEFINE g == [i \in Agents |-> E(i)]
    <2>1. g = [i \in 1 .. Len(Starts) |-> g[i]]
      BY <1>1
    <2>2. r = Once(g)
      BY DEF RoundOf
    <2> HIDE DEF g, r
    <2>3. Once(g) = g
      BY <1>1, <2>1, OnceIs
    <2> QED BY <2>2, <2>3 DEF g
  <1> HIDE DEF r
  <1>3. ASSUME NEW from, NEW to, NEW z
        PROVE  /\ Verdict(z, from, to) \in Verdicts \ {"Inactive"}
               /\ Verdict(z, from, to) = "Moved" => to \notin z.occupied
               /\ Verdict(z, from, to) = "Occupied" => to \in z.occupied /\ to \in Neighbors[from]
    BY DEF Verdict, Verdicts
  <1>4. \A i \in Agents : s.agents[i].position \in Tiles /\ s.agents[i].position \in s.occupied
    <2>1. \A i \in Agents : At(s)[i] = s.agents[i].position
      BY DEF At
    <2> QED BY <2>1, MoveStateFields DEF Placed, PlacedAt
  <1>5. ASSUME NEW i \in Agents
        PROVE  /\ r[i].at = s.agents[i].position /\ r[i].retries = s.agents[i].retries
               /\ r[i].verdict = "Inactive" <=> ~WantsToMove(s, i)
               /\ r[i].verdict # "Inactive" =>
                       /\ r[i].to = NextTile(s, i) /\ (r[i].reserved <=> NextTile(s, i) \in s.reserved)
                       /\ r[i].verdict = Verdict(s, s.agents[i].position, NextTile(s, i))
               /\ r[i].verdict \in Verdicts
               /\ r[i].verdict = "Moved" => r[i].to \notin s.occupied
               /\ r[i].verdict = "Occupied" => r[i].to \in s.occupied /\ r[i].to # r[i].at
    <2>1. CASE WantsToMove(s, i)
      <3>1. /\ r[i].at = s.agents[i].position /\ r[i].retries = s.agents[i].retries
            /\ r[i].to = NextTile(s, i) /\ (r[i].reserved <=> NextTile(s, i) \in s.reserved)
            /\ r[i].verdict = Verdict(s, s.agents[i].position, NextTile(s, i))
        BY <1>2, <2>1
      <3> HIDE DEF E
      <3>2. r[i].verdict \in Verdicts \ {"Inactive"}
        BY <1>3, <3>1
      <3>3. r[i].verdict = "Moved" => r[i].to \notin s.occupied
        BY <1>3, <3>1
      <3>4. r[i].verdict = "Occupied" => r[i].to \in s.occupied /\ r[i].to # r[i].at
        <4>1. \A t \in Tiles : t \notin Neighbors[t]
          BY PathAgentsAssumption
        <4>2. s.agents[i].position \notin Neighbors[s.agents[i].position]
          BY <1>4, <4>1
        <4> QED BY <1>3, <3>1, <4>2, ZenonT(40)
      <3> QED BY <2>1, <3>1, <3>2, <3>3, <3>4
    <2>2. CASE ~WantsToMove(s, i)
      BY <1>2, <2>2 DEF Verdicts
    <2> QED BY <2>1, <2>2
  <1>6. \A i, k \in Agents : s.agents[i].position = s.agents[k].position => i = k
    <2>1. \A i \in Agents : At(s)[i] = s.agents[i].position
      BY DEF At
    <2> QED BY <2>1 DEF Placed, PlacedAt
  <1>7. r = [i \in 1 .. Len(Starts) |-> r[i]] /\ DOMAIN r = Agents
    BY <1>1, <1>2
  <1> HIDE DEF E
  <1>8. IsRound(r, Len(Starts))
    BY <1>1, <1>4, <1>5, <1>6, <1>7 DEF IsRound
  <1> QED BY <1>5, <1>7, <1>8 DEF r

\* Two agents trade places in one round only as the policy says.
TradesObey(s, t, policy) ==
    \A i, k \in Agents :
       /\ i # k /\ t.agents[i].position = s.agents[k].position
       /\ t.agents[k].position = s.agents[i].position
       => MayTrade(s.agents[i].retries, s.agents[k].retries, policy)

(* One joint round is sound. *)
LEMMA AppliedSound ==
    ASSUME NEW s, NEW current \in BOOLEAN, Sound(s, current), NEW policy
    PROVE  LET t == Applied(s, Admission(RoundOf(s), policy)) IN
           Sound(t, current) /\ Reaches(s, t) /\ TradesObey(s, t, policy)
  <1> DEFINE r == RoundOf(s)
             o == Admission(r, policy)
             M == Admitted(o)
             dest == [i \in Agents |-> NextTile(s, i)]
             n == Len(Starts)
  <1>1. n \in Nat /\ Agents = 1 .. n
    BY SpanFacts
  <1>2. s \in MoveState /\ Fits(s, current) /\ Placed(s) /\ Counted(s)
    BY DEF Sound
  <1>3. /\ IsRound(r, n) /\ DOMAIN r = Agents
        /\ \A i \in Agents :
              /\ r[i].at = s.agents[i].position /\ r[i].retries = s.agents[i].retries
              /\ r[i].verdict = "Inactive" <=> ~WantsToMove(s, i)
              /\ r[i].verdict # "Inactive" =>
                    /\ r[i].to = NextTile(s, i) /\ (r[i].reserved <=> NextTile(s, i) \in s.reserved)
                    /\ r[i].verdict = Verdict(s, s.agents[i].position, NextTile(s, i))
    BY <1>2, RoundOfIsRound
  <1> HIDE DEF r
  <1>4. AdmissionIsSafe(r, o, policy)
    BY <1>3, AdmissionSafe
  <1> HIDE DEF o
  <1>5. ASSUME NEW i \in Agents
        PROVE  /\ o[i] = "Inactive" <=> ~WantsToMove(s, i)
               /\ o[i] = "Admitted" =>
                     \/ r[i].verdict = "Moved"
                     \/ /\ r[i].verdict = "Occupied" /\ ~r[i].reserved
                        /\ Lends(r, o, i)
    BY <1>3, <1>4 DEF AdmissionIsSafe
  <1>6. ASSUME NEW i \in Agents, WantsToMove(s, i)
        PROVE  /\ Outstanding(s.agents[i]) /\ s.flow.outstanding >= 1
               /\ FitsRoute(s.agents[i], s.routes[i], FALSE) /\ NextTile(s, i) \in Tiles
    <2>1. Outstanding(s.agents[i]) /\ FitsRoute(s.agents[i], s.routes[i], FALSE)
      BY <1>2, <1>6 DEF Fits, FitsRoute, WantsToMove, Outstanding
    <2>2. s.flow.outstanding >= 1
      BY <1>2, <2>1, LiveIsCounted
    <2> QED BY <1>2, <1>6, <2>1, <2>2, MoveSteps
  <1>7. ASSUME NEW i \in M
        PROVE  /\ i \in Agents /\ WantsToMove(s, i) /\ dest[i] = NextTile(s, i)
               /\ r[i].to = NextTile(s, i) /\ dest[i] \in Tiles
               /\ dest[i] \notin walls \union s.reserved /\ dest[i] \notin obstacles
               /\ dest[i] \in s.occupied => \E k \in M : s.agents[k].position = dest[i]
               /\ Outstanding(s.agents[i])
    <2> DEFINE v == Verdict(s, s.agents[i].position, NextTile(s, i))
    <2>1. i \in Agents /\ o[i] = "Admitted" /\ dest[i] = NextTile(s, i)
      BY DEF Admitted
    <2>2. WantsToMove(s, i) /\ r[i].to = NextTile(s, i) /\ r[i].verdict = v
          /\ (r[i].reserved <=> NextTile(s, i) \in s.reserved)
      BY <1>3, <1>5, <2>1
    <2>3. v = "Moved" => /\ NextTile(s, i) \notin walls /\ NextTile(s, i) \notin s.reserved
                         /\ NextTile(s, i) \notin s.occupied
      BY DEF Verdict
    <2>4. v = "Occupied" => NextTile(s, i) \notin walls
      BY DEF Verdict
    <2>5. NextTile(s, i) \in Tiles /\ Outstanding(s.agents[i])
      BY <1>6, <2>1, <2>2
    <2>6. \A k \in Agents : At(s)[k] = s.agents[k].position
      BY DEF At
    <2>7. obstacles \subseteq s.occupied /\ \A k \in Agents : s.agents[k].position \notin obstacles
      BY <1>2, <2>6 DEF Placed, PlacedAt
    <2> HIDE DEF v, dest
    <2>8. CASE v = "Moved"
      BY <2>1, <2>2, <2>3, <2>5, <2>7, <2>8
    <2>9. CASE v # "Moved"
      <3>1. v = "Occupied" /\ ~r[i].reserved /\ Lends(r, o, i)
        BY <1>5, <2>1, <2>2, <2>9
      <3>2. PICK k \in Agents : o[k] = "Admitted" /\ r[k].at = r[i].to
        BY <1>3, <3>1 DEF Lends
      <3>3. k \in M /\ s.agents[k].position = NextTile(s, i)
        BY <1>3, <2>2, <3>2 DEF Admitted
      <3>4. NextTile(s, i) \notin obstacles
        BY <2>7, <3>2, <3>3
      <3> HIDE DEF M
      <3> QED BY <2>1, <2>2, <2>4, <2>5, <3>1, <3>3, <3>4
    <2> QED BY <2>8, <2>9
  <1>8. M \subseteq Agents /\ \A i \in Agents : i \in M <=> o[i] = "Admitted"
    BY DEF Admitted
  <1>9. \A i, j \in M : dest[i] = dest[j] => i = j
    BY <1>3, <1>4, <1>7, <1>8 DEF AdmissionIsSafe
  <1> DEFINE left == {s.agents[i].position : i \in M}
             entered == {NextTile(s, i) : i \in M}
  <1>10. PICK f : /\ f[0] = AppliedStart(s, o)
                  /\ \A k \in 1 .. n : f[k] = AppliedNext(o, f[k - 1], k)
                  /\ Applied(s, o) = f[n]
    BY <1>1, AppliedUnfolds
  <1> HIDE DEF M
  <1>11. entered \in SUBSET Tiles /\ entered \intersect s.reserved = {}
         /\ entered = {dest[i] : i \in M}
    BY <1>7
  <1> HIDE DEF left, entered, dest
  <1>12. /\ f[0] \in MoveState
         /\ f[0].agents = s.agents /\ f[0].routes = s.routes /\ f[0].flow = s.flow
         /\ f[0].reserved = s.reserved /\ f[0].searched = s.searched
         /\ f[0].occupied = (s.occupied \ left) \union entered
    <2>1. f[0] = Enter(Vacate(s, left), entered)
      BY <1>10 DEF left, entered, M, AppliedStart
    <2> QED BY <1>2, <1>11, <2>1, EnterFields
  <1>13. ASSUME NEW k \in Agents, f[k - 1] \in MoveState, f[k - 1].agents[k] = s.agents[k],
                f[k - 1].routes = s.routes, Counted(f[k - 1])
         PROVE  \/ f[k] = f[k - 1] /\ k \notin M
                \/ /\ Outstanding(s.agents[k])
                   /\ AgentStep(f[k - 1], f[k], k, IF k \in M THEN dest[k] ELSE s.agents[k].position)
    <2> DEFINE u == f[k - 1]
    <2>1. /\ o[k] = "Inactive" => f[k] = u
          /\ o[k] = "Admitted" => f[k] = AfterMove(u, k)
          /\ o[k] \notin {"Inactive", "Admitted"} => f[k] = AfterFailure(u, k, o[k])
      BY <1>1, <1>10 DEF AppliedNext
    <2>2. u \in MoveState /\ u.agents[k] = s.agents[k] /\ u.routes = s.routes /\ Counted(u)
      BY <1>13
    <2> HIDE DEF u
    <2>3. CASE o[k] = "Inactive"
      BY <1>8, <2>1, <2>3 DEF u
    <2>4. CASE o[k] # "Inactive"
      <3>1. WantsToMove(s, k)
        BY <1>5, <2>4
      <3>2. WantsToMove(u, k) /\ NextTile(u, k) = NextTile(s, k)
        BY <2>2, <3>1 DEF WantsToMove, NextTile
      <3>3. Outstanding(u.agents[k]) /\ FitsRoute(u.agents[k], u.routes[k], FALSE)
            /\ Outstanding(s.agents[k])
        BY <1>6, <2>2, <3>1
      <3>4. u.flow.outstanding >= 1
        BY <2>2, <3>3, LiveIsCounted
      <3>5. CASE o[k] = "Admitted"
        <4>1. AgentStep(u, f[k], k, NextTile(s, k))
          BY <2>1, <2>2, <3>2, <3>3, <3>4, <3>5, MoveSteps
        <4>2. k \in M /\ dest[k] = NextTile(s, k)
          BY <1>7, <1>8, <3>5
        <4> QED BY <3>3, <4>1, <4>2 DEF u
      <3>6. CASE o[k] # "Admitted"
        <4>1. f[k] = AfterFailure(u, k, o[k]) /\ k \notin M
          BY <1>8, <2>1, <2>4, <3>6
        <4>2. AgentStep(u, f[k], k, u.agents[k].position)
          BY <2>2, <3>3, <3>4, <4>1, FailureSteps
        <4> QED BY <2>2, <3>3, <4>1, <4>2 DEF u
      <3> QED BY <3>5, <3>6
    <2> QED BY <2>3, <2>4
  <1>14. SpanSteps(s, M, dest, f)
    <2>1. \A k \in Agents :
             (/\ f[k - 1] \in MoveState /\ f[k - 1].agents[k] = s.agents[k]
              /\ f[k - 1].routes = s.routes /\ Counted(f[k - 1])) =>
                 \/ f[k] = f[k - 1] /\ k \notin M
                 \/ /\ Outstanding(s.agents[k])
                    /\ AgentStep(f[k - 1], f[k], k, IF k \in M THEN dest[k] ELSE s.agents[k].position)
      BY <1>13
    <2>2. f[0].occupied = (s.occupied \ {s.agents[i].position : i \in M}) \union {dest[i] : i \in M}
      BY <1>11, <1>12 DEF left
    <2>3. \A i \in M : /\ dest[i] \notin walls \union s.reserved /\ dest[i] \notin obstacles
                       /\ dest[i] \in s.occupied => \E k \in M : s.agents[k].position = dest[i]
                       /\ Outstanding(s.agents[i])
      BY <1>7
    <2> QED BY <1>8, <1>9, <1>12, <2>1, <2>2, <2>3 DEF SpanSteps
  <1> DEFINE t == f[n]
  <1>15. /\ Sound(t, current) /\ Reaches(s, t)
         /\ \A i \in Agents : t.agents[i].position = IF i \in M THEN dest[i] ELSE s.agents[i].position
    BY <1>14, SpanFold
  <1> HIDE DEF t
  <1>16. TradesObey(s, t, policy)
    <2> SUFFICES ASSUME NEW i \in Agents, NEW k \in Agents, i # k,
                        t.agents[i].position = s.agents[k].position,
                        t.agents[k].position = s.agents[i].position
                 PROVE  MayTrade(s.agents[i].retries, s.agents[k].retries, policy)
      BY DEF TradesObey
    <2>1. s.agents[i].position # s.agents[k].position
      <3>1. At(s)[i] # At(s)[k]
        BY <1>2 DEF Placed, PlacedAt
      <3> QED BY <3>1 DEF At
    <2>2. i \in M /\ k \in M
      BY <1>15, <2>1
    <2>3. /\ o[i] = "Admitted" /\ o[k] = "Admitted" /\ r[i].to = s.agents[k].position
          /\ r[k].to = s.agents[i].position
      BY <1>7, <1>8, <1>15, <2>2
    <2>4. /\ r[i].at = s.agents[i].position /\ r[k].at = s.agents[k].position
          /\ r[i].retries = s.agents[i].retries /\ r[k].retries = s.agents[k].retries
      BY <1>3
    <2> QED BY <1>3, <1>4, <2>3, <2>4 DEF AdmissionIsSafe
  <1> QED BY <1>10, <1>15, <1>16 DEF t, o, r

(* So is a tick of joint rounds. *)
LEMMA JointSound ==
    ASSUME NEW s, NEW current \in BOOLEAN, Sound(s, current), NEW steps \in Nat, NEW policy
    PROVE  LET t == SteppedJointly(s, steps, policy) IN
           Sound(t, current) /\ Reaches(s, t) /\ (steps = 1 => TradesObey(s, t, policy))
  <1>1. PICK f : /\ f[0] = s
                 /\ \A k \in 1 .. steps :
                       f[k] = Applied(f[k - 1], Admission(RoundOf(f[k - 1]), policy))
                 /\ SteppedJointly(s, steps, policy) = f[steps]
    BY JointUnfolds
  <1> DEFINE S == {k \in 0 .. steps : Sound(f[k], current) /\ Reaches(s, f[k])}
  <1>2. 0 \in S
    BY <1>1 DEF Reaches
  <1>3. ASSUME NEW k \in 1 .. steps, k - 1 \in S PROVE k \in S
    <2> DEFINE u == f[k - 1]
    <2>1. Sound(u, current) /\ Reaches(s, u) /\ f[k] = Applied(u, Admission(RoundOf(u), policy))
      BY <1>1, <1>3
    <2> HIDE DEF u
    <2>2. Sound(f[k], current) /\ Reaches(u, f[k])
      BY <2>1, AppliedSound
    <2> QED BY <2>1, <2>2, ReachesOn
  <1>4. \A k \in 0 .. steps : k \in S
    <2> HIDE DEF S
    <2> QED BY <1>2, <1>3, BoundedInduction
  <1>5. ASSUME steps = 1 PROVE TradesObey(s, f[steps], policy)
    <2>1. 1 \in 1 .. steps /\ 1 - 1 = 0
      BY <1>5
    <2>2. f[1] = Applied(f[1 - 1], Admission(RoundOf(f[1 - 1]), policy))
      BY <1>1, <2>1
    <2>3. f[1] = Applied(s, Admission(RoundOf(s), policy))
      BY <1>1, <2>1, <2>2
    <2> QED BY <1>5, <2>3, AppliedSound
  <1> QED BY <1>1, <1>4, <1>5

-----------------------------------------------------------------------------
(* PIBT: candidates and sums.                                              *)

\* The sum of the first n of w.
Total(n, w) ==
    LET upTo[k \in 0 .. n] == IF k = 0 THEN 0 ELSE upTo[k - 1] + w[k]
    IN  upTo[n]

(* The elements that are kept, one after another. *)
LEMMA AmongUnfolds ==
    ASSUME NEW seq, NEW set, Len(seq) \in Nat
    PROVE  \E f : /\ f[0] = <<>>
                  /\ \A k \in 1 .. Len(seq) :
                        f[k] = IF seq[k] \in set THEN Append(f[k - 1], seq[k]) ELSE f[k - 1]
                  /\ Among(seq, set) = f[Len(seq)]
  <1> DEFINE N == Len(seq)
             z0 == <<>>
             next(k, x) == IF seq[k] \in set THEN Append(x, seq[k]) ELSE x
             kept[k \in 0 .. Len(seq)] ==
                IF k = 0 THEN <<>> ELSE (IF seq[k] \in set THEN Append(kept[k - 1], seq[k]) ELSE kept[k - 1])
             Is(n, f) == /\ f = [k \in 0 .. n |-> f[k]] /\ f[0] = z0
                         /\ \A k \in 1 .. n : f[k] = next(k, f[k - 1])
             S == {n \in 0 .. N : \E f : Is(n, f)}
  <1>0. N \in Nat
    OBVIOUS
  <1>1. 0 \in S
    <2> DEFINE g == [k \in 0 .. 0 |-> z0]
    <2> HIDE DEF next, z0, N
    <2>1. Is(0, g)
      OBVIOUS
    <2> HIDE DEF Is, g
    <2> QED BY <2>1, <1>0
  <1>2. ASSUME NEW n \in 1 .. N, n - 1 \in S PROVE n \in S
    <2>1. PICK f : Is(n - 1, f)
      BY <1>2
    <2> DEFINE g == [k \in 0 .. n |-> IF k = n THEN next(n, f[n - 1]) ELSE f[k]]
    <2> HIDE DEF next, N, z0
    <2>2. n \in Nat /\ n # 0 /\ \A k \in 1 .. n : k # n => k \in 1 .. n - 1
      BY <1>0
    <2>3. g[0] = z0 /\ \A k \in 0 .. n - 1 : g[k] = f[k]
      BY <2>1, <2>2
    <2>4. ASSUME NEW k \in 1 .. n PROVE g[k] = next(k, g[k - 1])
      <3>1. k - 1 \in 0 .. n - 1 /\ g[k - 1] = f[k - 1]
        BY <2>2, <2>3
      <3>2. CASE k = n
        BY <3>1, <3>2
      <3>3. CASE k # n
        <4>1. k \in 1 .. n - 1 /\ k \in 0 .. n - 1
          BY <2>2, <3>3
        <4>2. f[k] = next(k, f[k - 1])
          BY <2>1, <4>1
        <4> HIDE DEF g, Is
        <4> QED BY <2>3, <3>1, <4>1, <4>2
      <3> QED BY <3>2, <3>3
    <2>5. Is(n, g)
      BY <2>3, <2>4
    <2> HIDE DEF Is, g
    <2> QED BY <2>5, <1>0
  <1>3. N \in S
    <2> HIDE DEF S, N
    <2> QED BY <1>0, <1>1, <1>2, BoundedInduction
  <1>4. PICK f : Is(N, f)
    <2> HIDE DEF N, next, z0
    <2> QED BY <1>3
  <1>5. f = [k \in 0 .. N |-> IF k = 0 THEN z0 ELSE next(k, f[k - 1])]
    <2> HIDE DEF next, N, z0
    <2>1. ASSUME NEW k \in 0 .. N PROVE f[k] = IF k = 0 THEN z0 ELSE next(k, f[k - 1])
      <3>1. k = 0 \/ k \in 1 .. N
        BY <1>0
      <3> QED BY <1>4, <3>1
    <2>2. f = [k \in 0 .. N |-> f[k]]
      BY <1>4
    <2> QED BY <2>1, <2>2
  <1>6. kept = [k \in 0 .. N |-> IF k = 0 THEN z0 ELSE next(k, kept[k - 1])]
    BY <1>5
  <1>7. Among(seq, set) = kept[Len(seq)]
    BY DEF Among
  <1> HIDE DEF kept
  <1>8. kept[0] = z0 /\ \A k \in 1 .. N : kept[k] = next(k, kept[k - 1])
    <2> HIDE DEF next, N, z0
    <2> QED BY <1>0, <1>6
  <1> QED BY <1>7, <1>8

(* A sum, term by term. *)
LEMMA TotalUnfolds ==
    ASSUME NEW n \in Nat, NEW w
    PROVE  \E f : /\ f[0] = 0
                  /\ \A k \in 1 .. n :
                        f[k] = f[k - 1] + w[k]
                  /\ Total(n, w) = f[n]
  <1> DEFINE N == n
             z0 == 0
             next(k, x) == x + w[k]
             upTo[k \in 0 .. n] ==
                IF k = 0 THEN 0 ELSE upTo[k - 1] + w[k]
             Is(r, f) == /\ f = [k \in 0 .. r |-> f[k]] /\ f[0] = z0
                         /\ \A k \in 1 .. r : f[k] = next(k, f[k - 1])
             S == {r \in 0 .. N : \E f : Is(r, f)}
  <1>0. N \in Nat
    OBVIOUS
  <1>1. 0 \in S
    <2> DEFINE g == [k \in 0 .. 0 |-> z0]
    <2> HIDE DEF next, z0, N
    <2>1. Is(0, g)
      OBVIOUS
    <2> HIDE DEF Is, g
    <2> QED BY <2>1, <1>0
  <1>2. ASSUME NEW r \in 1 .. N, r - 1 \in S PROVE r \in S
    <2>1. PICK f : Is(r - 1, f)
      BY <1>2
    <2> DEFINE g == [k \in 0 .. r |-> IF k = r THEN next(r, f[r - 1]) ELSE f[k]]
    <2> HIDE DEF next, N, z0
    <2>2. r \in Nat /\ r # 0 /\ \A k \in 1 .. r : k # r => k \in 1 .. r - 1
      BY <1>0
    <2>3. g[0] = z0 /\ \A k \in 0 .. r - 1 : g[k] = f[k]
      BY <2>1, <2>2
    <2>4. ASSUME NEW k \in 1 .. r PROVE g[k] = next(k, g[k - 1])
      <3>1. k - 1 \in 0 .. r - 1 /\ g[k - 1] = f[k - 1]
        BY <2>2, <2>3
      <3>2. CASE k = r
        BY <3>1, <3>2
      <3>3. CASE k # r
        <4>1. k \in 1 .. r - 1 /\ k \in 0 .. r - 1
          BY <2>2, <3>3
        <4>2. f[k] = next(k, f[k - 1])
          BY <2>1, <4>1
        <4> HIDE DEF g, Is
        <4> QED BY <2>3, <3>1, <4>1, <4>2
      <3> QED BY <3>2, <3>3
    <2>5. Is(r, g)
      BY <2>3, <2>4
    <2> HIDE DEF Is, g
    <2> QED BY <2>5, <1>0
  <1>3. N \in S
    <2> HIDE DEF S, N
    <2> QED BY <1>0, <1>1, <1>2, BoundedInduction
  <1>4. PICK f : Is(N, f)
    <2> HIDE DEF N, next, z0
    <2> QED BY <1>3
  <1>5. f = [k \in 0 .. N |-> IF k = 0 THEN z0 ELSE next(k, f[k - 1])]
    <2> HIDE DEF next, N, z0
    <2>1. ASSUME NEW k \in 0 .. N PROVE f[k] = IF k = 0 THEN z0 ELSE next(k, f[k - 1])
      <3>1. k = 0 \/ k \in 1 .. N
        BY <1>0
      <3> QED BY <1>4, <3>1
    <2>2. f = [k \in 0 .. N |-> f[k]]
      BY <1>4
    <2> QED BY <2>1, <2>2
  <1>6. upTo = [k \in 0 .. N |-> IF k = 0 THEN z0 ELSE next(k, upTo[k - 1])]
    BY <1>5
  <1>7. Total(n, w) = upTo[n]
    BY DEF Total
  <1> HIDE DEF upTo
  <1>8. upTo[0] = z0 /\ \A k \in 1 .. N : upTo[k] = next(k, upTo[k - 1])
    <2> HIDE DEF next, N, z0
    <2> QED BY <1>0, <1>6
  <1> QED BY <1>7, <1>8

(* Only elements of the set are kept. *)
LEMMA AmongFacts ==
    ASSUME NEW U, NEW seq \in Seq(U), NEW set
    PROVE  /\ Among(seq, set) \in Seq(U) /\ Len(Among(seq, set)) \in Nat
           /\ \A p \in 1 .. Len(Among(seq, set)) : Among(seq, set)[p] \in U \intersect set
  <1> DEFINE N == Len(seq)
             V == U \intersect set
  <1>0. N \in Nat /\ \A k \in 1 .. N : seq[k] \in U
    OBVIOUS
  <1>1. PICK f : /\ f[0] = <<>>
                 /\ \A k \in 1 .. N : f[k] = IF seq[k] \in set THEN Append(f[k - 1], seq[k]) ELSE f[k - 1]
                 /\ Among(seq, set) = f[N]
    BY <1>0, AmongUnfolds
  <1> DEFINE S == {k \in 0 .. N : f[k] \in Seq(V)}
  <1>2. 0 \in S
    <2>1. <<>> \in Seq(V) /\ 0 \in 0 .. N
      BY <1>0
    <2> QED BY <1>1, <2>1
  <1>3. ASSUME NEW k \in 1 .. N, k - 1 \in S PROVE k \in S
    <2>1. f[k - 1] \in Seq(V) /\ seq[k] \in U /\ k \in 0 .. N
      BY <1>0, <1>3
    <2>2. CASE seq[k] \in set
      <3>1. f[k] = Append(f[k - 1], seq[k]) /\ seq[k] \in V
        BY <1>1, <2>1, <2>2
      <3> HIDE DEF V
      <3>2. Append(f[k - 1], seq[k]) \in Seq(V)
        BY <2>1, <3>1
      <3> QED BY <2>1, <3>1, <3>2
    <2>3. CASE seq[k] \notin set
      BY <1>1, <2>1, <2>3
    <2> QED BY <2>2, <2>3
  <1>4. N \in S
    <2> HIDE DEF S, N
    <2>1. N \in Nat /\ \A k \in 1 .. N : k - 1 \in S => k \in S
      BY <1>0, <1>3
    <2>2. \A k \in 0 .. N : k \in S
      BY <1>2, <2>1, BoundedInduction
    <2> QED BY <2>1, <2>2
  <1>5. f[N] \in Seq(V)
    BY <1>4
  <1>6. f[N] \in Seq(U) /\ Len(f[N]) \in Nat /\ \A p \in 1 .. Len(f[N]) : f[N][p] \in V
    BY <1>5
  <1> QED BY <1>1, <1>6

(* Sums of numbers are numbers, and a sum with a smaller term is smaller. *)
LEMMA TotalFacts ==
    ASSUME NEW n \in Nat, NEW w \in [1 .. n -> Nat]
    PROVE  /\ Total(n, w) \in Nat
           /\ Total(n, w) = 0 => \A k \in 1 .. n : w[k] = 0
  <1>1. PICK f : /\ f[0] = 0
                 /\ \A k \in 1 .. n : f[k] = f[k - 1] + w[k]
                 /\ Total(n, w) = f[n]
    BY TotalUnfolds
  <1> DEFINE S == {k \in 0 .. n : f[k] \in Nat /\ \A j \in 1 .. k : w[j] <= f[k]}
  <1>2. 0 \in S
    BY <1>1
  <1>3. ASSUME NEW k \in 1 .. n, k - 1 \in S PROVE k \in S
    <2>1. f[k] = f[k - 1] + w[k] /\ f[k - 1] \in Nat /\ w[k] \in Nat /\ f[k] \in Nat
      BY <1>1, <1>3
    <2>2. ASSUME NEW j \in 1 .. k PROVE w[j] <= f[k]
      <3>1. CASE j = k
        BY <2>1, <3>1
      <3>2. CASE j # k
        <4>1. j \in 1 .. k - 1 /\ w[j] \in Nat
          BY <3>2
        <4>2. w[j] <= f[k - 1]
          BY <1>3, <4>1
        <4> QED BY <2>1, <4>1, <4>2
      <3> QED BY <3>1, <3>2
    <2> QED BY <2>1, <2>2
  <1>4. n \in S
    <2> HIDE DEF S
    <2>1. \A k \in 1 .. n : k - 1 \in S => k \in S
      BY <1>3
    <2>2. \A k \in 0 .. n : k \in S
      BY <1>2, <2>1, BoundedInduction
    <2> QED BY <2>2
  <1>5. f[n] \in Nat /\ \A j \in 1 .. n : w[j] <= f[n]
    BY <1>4
  <1>6. ASSUME f[n] = 0, NEW k \in 1 .. n PROVE w[k] = 0
    <2>1. w[k] <= 0 /\ w[k] \in Nat
      BY <1>5, <1>6
    <2> QED BY <2>1
  <1> QED BY <1>1, <1>5, <1>6

\* No term of v is larger than that of w, and some term is smaller.
Below(n, v, w) ==
    /\ v \in [1 .. n -> Nat] /\ w \in [1 .. n -> Nat]
    /\ \A k \in 1 .. n : v[k] <= w[k]
    /\ \E k \in 1 .. n : v[k] < w[k]

(* Then its sum is smaller. *)
LEMMA TotalFalls ==
    ASSUME NEW n \in Nat, NEW v, NEW w, Below(n, v, w)
    PROVE  Total(n, v) < Total(n, w)
  <1>0. /\ v \in [1 .. n -> Nat] /\ w \in [1 .. n -> Nat]
        /\ \A k \in 1 .. n : v[k] <= w[k]
    BY DEF Below
  <1>i. PICK i \in 1 .. n : v[i] < w[i]
    BY DEF Below
  <1>1. PICK f : /\ f[0] = 0
                 /\ \A k \in 1 .. n : f[k] = f[k - 1] + v[k]
                 /\ Total(n, v) = f[n]
    BY TotalUnfolds
  <1>2. PICK g : /\ g[0] = 0
                 /\ \A k \in 1 .. n : g[k] = g[k - 1] + w[k]
                 /\ Total(n, w) = g[n]
    BY TotalUnfolds
  <1> DEFINE S == {k \in 0 .. n : f[k] \in Nat /\ g[k] \in Nat /\ f[k] <= g[k] /\ (i <= k => f[k] < g[k])}
  <1>3. 0 \in S
    BY <1>1, <1>2
  <1>4. ASSUME NEW k \in 1 .. n, k - 1 \in S PROVE k \in S
    <2>1. f[k] = f[k - 1] + v[k] /\ g[k] = g[k - 1] + w[k] /\ v[k] \in Nat /\ w[k] \in Nat /\ v[k] <= w[k]
      BY <1>0, <1>1, <1>2
    <2>2. f[k - 1] \in Nat /\ g[k - 1] \in Nat /\ f[k - 1] <= g[k - 1] /\ (i <= k - 1 => f[k - 1] < g[k - 1])
      BY <1>4
    <2>3. i = k \/ (i <= k => i <= k - 1)
      OBVIOUS
    <2> QED BY <1>i, <2>1, <2>2, <2>3
  <1>5. n \in S
    <2> HIDE DEF S
    <2> QED BY <1>3, <1>4, BoundedInduction
  <1> QED BY <1>1, <1>2, <1>5

-----------------------------------------------------------------------------
(* The decision machine of PIBT.                                           *)

\* What the machine relies on: the entries of a pass over n agents.
IsPass(pass, n) ==
    /\ n \in Nat /\ pass = [i \in 1 .. n |-> pass[i]]
    /\ \A i, j \in 1 .. n : pass[i].at = pass[j].at => i = j
    /\ \A i \in 1 .. n :
          /\ pass[i].at \in Tiles /\ pass[i].active \in BOOLEAN /\ pass[i].stuck \in BOOLEAN
          /\ pass[i].options \in Seq(Tiles) /\ pass[i].retries \in Nat
          /\ pass[i].elapsed \in 0 .. ElapsedLimit
          /\ pass[i].active <=> pass[i].elapsed # 0

Machine(n) ==
    [desired : [1 .. n -> Tiles], claimed : SUBSET Tiles, next : [1 .. n -> Nat \ {0}],
     state : [1 .. n -> {"undecided", "deciding", "waiting", "decided"}],
     stack : Seq(1 .. n), placed : BOOLEAN]

\* The fields of a machine.
Reads(n, m, D, S, X, C, K, p) ==
    /\ m \in Machine(n)
    /\ m.desired = D /\ m.state = S /\ m.next = X /\ m.claimed = C /\ m.stack = K
    /\ m.placed = p

Top(m) == m.stack[Len(m.stack)]

\* The agent on top has just heard from the peer it lent the turn.
Heard(m, placed) ==
    Len(m.stack) >= 1 /\ m.state[Top(m)] = "waiting" /\ m.placed = placed

\* Agents whose desire is binding.
Holds(m, k) == m.state[k] \in {"decided", "waiting"}

\* How far each agent has got in its candidates.
Progress(pass, n, m) == \A k \in 1 .. n :
    /\ m.state[k] = "undecided" => m.next[k] = 1
    /\ m.state[k] = "deciding" => m.next[k] <= Len(pass[k].options) + 1
    /\ m.state[k] = "waiting" => m.next[k] <= Len(pass[k].options)

\* The stack holds the agents that are deciding, each once, and all but the
\* last have lent their turn.
Stacked(pass, n, m) ==
    /\ \A p \in 1 .. Len(m.stack) :
          /\ m.state[m.stack[p]] \in {"deciding", "waiting"}
          /\ p < Len(m.stack) => m.state[m.stack[p]] = "waiting"
          /\ pass[m.stack[p]].active /\ ~pass[m.stack[p]].stuck
    /\ \A p, q \in 1 .. Len(m.stack) : m.stack[p] = m.stack[q] => p = q
    /\ \A k \in 1 .. n : m.state[k] \in {"deciding", "waiting"} =>
          \E p \in 1 .. Len(m.stack) : m.stack[p] = k

\* Who has not decided desires its own tile; who waits desires another.
Fresh(pass, n, m) == \A k \in 1 .. n :
    /\ m.state[k] = "undecided" => m.desired[k] = pass[k].at /\ pass[k].at \notin m.claimed
    /\ m.state[k] = "deciding" => m.desired[k] = pass[k].at
    /\ m.state[k] = "waiting" => m.desired[k] # pass[k].at

\* Whoever desires another tile may leave its own and found that one among its
\* candidates.
Wanting(pass, n, m) == \A k \in 1 .. n : m.desired[k] # pass[k].at =>
    /\ pass[k].active /\ ~pass[k].stuck
    /\ \E p \in 1 .. Len(pass[k].options) : m.desired[k] = pass[k].options[p]

\* Two binding desires meet only while the lender has yet to hear that its peer
\* failed.
Apart(n, m) == \A x, y \in 1 .. n :
    x # y /\ Holds(m, x) /\ Holds(m, y) /\ m.desired[x] = m.desired[y]
       => Heard(m, FALSE) /\ Top(m) \in {x, y}

\* A binding desire without a claim is that of an agent without a live goal,
\* reached when everybody with one has decided.
Backed(pass, n, m) == \A y \in 1 .. n : Holds(m, y) /\ m.desired[y] \notin m.claimed =>
    /\ m.desired[y] = pass[y].at
    /\ \A k \in 1 .. n : pass[k].active => m.state[k] = "decided"

\* Only the lender desires the tile of an agent on the stack, until the peer on
\* top has found a place.
Lent(pass, n, m) == \A y \in 1 .. n : Holds(m, y) =>
    \A p \in 1 .. Len(m.stack) : m.desired[y] = pass[m.stack[p]].at =>
        (p > 1 /\ m.stack[p - 1] = y) \/ Heard(m, TRUE)

\* Two agents desire each other's tiles only as the policy says.
Trading(pass, n, policy, m) == \A x, y \in 1 .. n :
    x # y /\ m.desired[x] = pass[y].at /\ m.desired[y] = pass[x].at
       => MayTrade(pass[x].retries, pass[y].retries, policy)

MachineInv(pass, n, policy, m) ==
    /\ m \in Machine(n)
    /\ Progress(pass, n, m) /\ Stacked(pass, n, m) /\ Fresh(pass, n, m) /\ Wanting(pass, n, m)
    /\ Apart(n, m) /\ Backed(pass, n, m) /\ Lent(pass, n, m)
    /\ Trading(pass, n, policy, m)

\* What is left to do for each agent.
Weight(pass, m, k) ==
    IF m.state[k] = "undecided" THEN 2 * Len(pass[k].options) + 2
    ELSE IF m.state[k] = "deciding" THEN 2 * (Len(pass[k].options) - m.next[k] + 1) + 1
    ELSE IF m.state[k] = "waiting" THEN 2 * (Len(pass[k].options) - m.next[k] + 1)
    ELSE 0
Weights(pass, n, m) == [k \in 1 .. n |-> Weight(pass, m, k)]

\* A step of the machine: the invariant is kept and less is left to do.
Steps(pass, n, policy, m, t) ==
    MachineInv(pass, n, policy, t) /\ Below(n, Weights(pass, n, t), Weights(pass, n, m))

(* The updates of the machine, field by field. *)
LEMMA SettledReads ==
    ASSUME NEW n \in Nat, NEW m \in Machine(n), NEW i \in 1 .. n, NEW placed \in BOOLEAN
    PROVE  Reads(n, Settled(m, i, placed), m.desired, [m.state EXCEPT ![i] = "decided"], m.next,
                 m.claimed, m.stack, placed)
  BY DEF Reads, Settled, Machine

(* The same for taking the top off the stack. *)
LEMMA PoppedReads ==
    ASSUME NEW n \in Nat, NEW m \in Machine(n), Len(m.stack) >= 1
    PROVE  Reads(n, Popped(m), m.desired, m.state, m.next, m.claimed,
                 SubSeq(m.stack, 1, Len(m.stack) - 1), m.placed)
  <1>1. m.stack \in Seq(1 .. n)
    BY DEF Machine
  <1>2. SubSeq(m.stack, 1, Len(m.stack) - 1) \in Seq(1 .. n)
    BY <1>1
  <1> QED BY <1>2 DEF Reads, Popped, Machine

(* The same for putting an agent on it. *)
LEMMA PushedReads ==
    ASSUME NEW n \in Nat, NEW m \in Machine(n), NEW i \in 1 .. n
    PROVE  Reads(n, [m EXCEPT !.state[i] = "deciding", !.stack = Append(@, i)],
                 m.desired, [m.state EXCEPT ![i] = "deciding"], m.next, m.claimed,
                 Append(m.stack, i), m.placed)
  <1>1. m.stack \in Seq(1 .. n)
    BY DEF Machine
  <1>2. Append(m.stack, i) \in Seq(1 .. n)
    BY <1>1
  <1> QED BY <1>2 DEF Reads, Machine

(* The same for claiming a tile and desiring it. *)
LEMMA TakenReads ==
    ASSUME NEW n \in Nat, NEW m \in Machine(n), NEW i \in 1 .. n, NEW tile \in Tiles
    PROVE  Reads(n, [m EXCEPT !.claimed = @ \union {tile}, !.desired[i] = tile],
                 [m.desired EXCEPT ![i] = tile], m.state, m.next, m.claimed \union {tile},
                 m.stack, m.placed)
  <1>1. /\ m.desired \in [1 .. n -> Tiles] /\ m.next \in [1 .. n -> Nat \ {0}]
        /\ m.claimed \in SUBSET Tiles /\ m.stack \in Seq(1 .. n)
        /\ m.state \in [1 .. n -> {"undecided", "deciding", "waiting", "decided"}]
    BY DEF Machine
  <1>2. [m.desired EXCEPT ![i] = tile] \in [1 .. n -> Tiles]
    BY <1>1
  <1>3. m.claimed \union {tile} \in SUBSET Tiles
    BY <1>1
  <1> QED BY <1>1, <1>2, <1>3 DEF Reads, Machine

(* The same for claiming alone. *)
LEMMA ClaimedReads ==
    ASSUME NEW n \in Nat, NEW m \in Machine(n), NEW tile \in Tiles
    PROVE  Reads(n, [m EXCEPT !.claimed = @ \union {tile}],
                 m.desired, m.state, m.next, m.claimed \union {tile}, m.stack, m.placed)
  BY SMTT(30), ZenonT(40) DEF Reads, Machine

(* The same for beginning to wait. *)
LEMMA WaitingReads ==
    ASSUME NEW n \in Nat, NEW m \in Machine(n), NEW i \in 1 .. n
    PROVE  Reads(n, [m EXCEPT !.state[i] = "waiting"],
                 m.desired, [m.state EXCEPT ![i] = "waiting"], m.next, m.claimed, m.stack, m.placed)
  BY DEF Reads, Machine

(* The same for going on to the next candidate. *)
LEMMA SkippedReads ==
    ASSUME NEW n \in Nat, NEW m \in Machine(n), NEW i \in 1 .. n
    PROVE  Reads(n, [m EXCEPT !.next[i] = @ + 1],
                 m.desired, m.state, [m.next EXCEPT ![i] = @ + 1], m.claimed, m.stack, m.placed)
  <1>1. /\ m.desired \in [1 .. n -> Tiles] /\ m.next \in [1 .. n -> Nat \ {0}]
        /\ m.claimed \in SUBSET Tiles /\ m.stack \in Seq(1 .. n)
        /\ m.state \in [1 .. n -> {"undecided", "deciding", "waiting", "decided"}]
    BY DEF Machine
  <1>3. [m.next EXCEPT ![i] = @ + 1] \in [1 .. n -> Nat \ {0}]
    BY <1>1
  <1> QED BY <1>1, <1>3 DEF Reads, Machine

(* The same for coming back from a peer that failed. *)
LEMMA RetriedReads ==
    ASSUME NEW n \in Nat, NEW m \in Machine(n), NEW i \in 1 .. n, NEW tile \in Tiles
    PROVE  Reads(n, [m EXCEPT !.desired[i] = tile, !.next[i] = @ + 1, !.state[i] = "deciding"],
                 [m.desired EXCEPT ![i] = tile], [m.state EXCEPT ![i] = "deciding"],
                 [m.next EXCEPT ![i] = @ + 1], m.claimed, m.stack, m.placed)
  <1>1. /\ m.desired \in [1 .. n -> Tiles] /\ m.next \in [1 .. n -> Nat \ {0}]
        /\ m.claimed \in SUBSET Tiles /\ m.stack \in Seq(1 .. n)
        /\ m.state \in [1 .. n -> {"undecided", "deciding", "waiting", "decided"}]
    BY DEF Machine
  <1>2. [m.desired EXCEPT ![i] = tile] \in [1 .. n -> Tiles]
    BY <1>1
  <1>3. [m.next EXCEPT ![i] = @ + 1] \in [1 .. n -> Nat \ {0}]
    BY <1>1
  <1>4. [m.state EXCEPT ![i] = "deciding"] \in [1 .. n -> {"undecided", "deciding", "waiting", "decided"}]
    BY <1>1
  <1> QED BY <1>1, <1>2, <1>3, <1>4 DEF Reads, Machine

(* The elements of a stack with one more or one less. *)
LEMMA StackFacts ==
    ASSUME NEW n \in Nat, NEW K \in Seq(1 .. n)
    PROVE  /\ Len(K) \in Nat /\ \A p \in 1 .. Len(K) : K[p] \in 1 .. n
           /\ (K = <<>>) <=> (Len(K) = 0)
           /\ \A i \in 1 .. n :
                 /\ Append(K, i) \in Seq(1 .. n) /\ Len(Append(K, i)) = Len(K) + 1
                 /\ Append(K, i)[Len(K) + 1] = i
                 /\ \A p \in 1 .. Len(K) : Append(K, i)[p] = K[p]
           /\ Len(K) >= 1 =>
                 LET J == SubSeq(K, 1, Len(K) - 1) IN
                 /\ J \in Seq(1 .. n) /\ Len(J) = Len(K) - 1
                 /\ \A p \in 1 .. Len(K) - 1 : J[p] = K[p]
  <1>1. Len(K) \in Nat /\ (\A p \in 1 .. Len(K) : K[p] \in 1 .. n) /\ ((K = <<>>) <=> (Len(K) = 0))
    BY EmptySeq
  <1>2. ASSUME NEW i \in 1 .. n
        PROVE  /\ Append(K, i) \in Seq(1 .. n) /\ Len(Append(K, i)) = Len(K) + 1
               /\ Append(K, i)[Len(K) + 1] = i
               /\ \A p \in 1 .. Len(K) : Append(K, i)[p] = K[p]
    OBVIOUS
  <1>3. ASSUME Len(K) >= 1
        PROVE  LET J == SubSeq(K, 1, Len(K) - 1) IN
                 /\ J \in Seq(1 .. n) /\ Len(J) = Len(K) - 1
                 /\ \A p \in 1 .. Len(K) - 1 : J[p] = K[p]
    <2>1. 1 \in 1 .. Len(K) + 1 /\ Len(K) - 1 \in 1 - 1 .. Len(K)
      BY <1>1, <1>3
    <2>2. Len(K) - 1 - 1 + 1 = Len(K) - 1 /\ \A p \in 1 .. Len(K) - 1 : 1 + p - 1 = p
      BY <1>1
    <2> QED BY <2>1, <2>2, SubSeqProperties
  <1> QED BY <1>1, <1>2, <1>3
(* What the types of a machine say. *)
LEMMA MachineFacts ==
    ASSUME NEW n \in Nat, NEW m \in Machine(n)
    PROVE  /\ m.stack \in Seq(1 .. n) /\ Len(m.stack) \in Nat
           /\ \A p \in 1 .. Len(m.stack) : m.stack[p] \in 1 .. n
           /\ m.placed \in BOOLEAN /\ m.claimed \subseteq Tiles
           /\ \A k \in 1 .. n : /\ m.desired[k] \in Tiles /\ m.next[k] \in Nat \ {0}
                                /\ m.state[k] \in {"undecided", "deciding", "waiting", "decided"}
  <1>1. m.stack \in Seq(1 .. n)
    BY DEF Machine
  <1>2. Len(m.stack) \in Nat /\ \A p \in 1 .. Len(m.stack) : m.stack[p] \in 1 .. n
    BY <1>1
  <1> QED BY <1>1, <1>2 DEF Machine

(* What is left to do is a number. *)
LEMMA WeightIs ==
    ASSUME NEW pass, NEW n, IsPass(pass, n), NEW m \in Machine(n), Progress(pass, n, m),
           NEW k \in 1 .. n
    PROVE  LET l == Len(pass[k].options) IN
           /\ Weight(pass, m, k) \in Nat /\ l \in Nat
           /\ m.state[k] = "undecided" => Weight(pass, m, k) = 2 * l + 2
           /\ m.state[k] = "deciding" => Weight(pass, m, k) = 2 * (l - m.next[k]) + 3
           /\ m.state[k] = "waiting" => Weight(pass, m, k) = 2 * (l - m.next[k]) + 2
           /\ m.state[k] = "decided" => Weight(pass, m, k) = 0
  <1>1. n \in Nat /\ Len(pass[k].options) \in Nat
    BY DEF IsPass
  <1>2. m.next[k] \in Nat \ {0} /\ m.state[k] \in {"undecided", "deciding", "waiting", "decided"}
    BY <1>1, MachineFacts
  <1> DEFINE l == Len(pass[k].options)
  <1>3. /\ m.state[k] = "undecided" => Weight(pass, m, k) = 2 * l + 2
        /\ m.state[k] = "deciding" => Weight(pass, m, k) = 2 * (l - m.next[k] + 1) + 1 /\ m.next[k] <= l + 1
        /\ m.state[k] = "waiting" => Weight(pass, m, k) = 2 * (l - m.next[k] + 1) /\ m.next[k] <= l
        /\ m.state[k] = "decided" => Weight(pass, m, k) = 0
    BY DEF Progress, Weight
  <1>4. l \in Nat /\ m.next[k] \in Nat
    BY <1>1, <1>2
  <1> HIDE DEF l
  <1>5. /\ 2 * (l - m.next[k] + 1) + 1 = 2 * (l - m.next[k]) + 3
        /\ 2 * (l - m.next[k] + 1) = 2 * (l - m.next[k]) + 2
    BY <1>4
  <1>6. Weight(pass, m, k) \in Nat
    BY <1>2, <1>3, <1>4
  <1> QED BY <1>3, <1>4, <1>5, <1>6 DEF l

(* An agent of which neither state nor progress changes has as much left. *)
LEMMA SameWeight ==
    ASSUME NEW pass, NEW m, NEW t, NEW k, t.state[k] = m.state[k], t.next[k] = m.next[k]
    PROVE  Weight(pass, t, k) = Weight(pass, m, k)
  BY DEF Weight

\* Agent i goes on: it is settled, or starts, lends its turn, or passes a candidate.
GoesOn(m, t, i) ==
    \/ t.state[i] = "decided" /\ m.state[i] # "decided"
    \/ t.state[i] = "deciding" /\ m.state[i] = "undecided" /\ t.next[i] = m.next[i]
    \/ t.state[i] = "waiting" /\ m.state[i] = "deciding" /\ t.next[i] = m.next[i]
    \/ t.state[i] = "deciding" /\ m.state[i] \in {"waiting", "deciding"} /\ t.next[i] = m.next[i] + 1

(* Then it has less left to do. *)
LEMMA WeightFalls ==
    ASSUME NEW pass, NEW n, IsPass(pass, n), NEW m \in Machine(n), NEW t \in Machine(n),
           Progress(pass, n, m), Progress(pass, n, t), NEW i \in 1 .. n, GoesOn(m, t, i)
    PROVE  Weight(pass, t, i) < Weight(pass, m, i)
  <1> DEFINE l == Len(pass[i].options)
             x == m.next[i]
             y == t.next[i]
             v == Weight(pass, m, i)
             w == Weight(pass, t, i)
  <1>n. n \in Nat
    BY DEF IsPass
  <1>1. /\ m.state[i] \in {"undecided", "deciding", "waiting", "decided"}
        /\ x \in Nat /\ x >= 1
    BY <1>n, MachineFacts
  <1>2. l \in Nat /\ v \in Nat /\ w \in Nat
    BY WeightIs
  <1>3. /\ m.state[i] = "undecided" => v = 2 * l + 2
        /\ m.state[i] = "deciding" => v = 2 * (l - x) + 3
        /\ m.state[i] = "waiting" => v = 2 * (l - x) + 2
    BY WeightIs
  <1>4. /\ t.state[i] = "deciding" => w = 2 * (l - y) + 3
        /\ t.state[i] = "waiting" => w = 2 * (l - y) + 2
        /\ t.state[i] = "decided" => w = 0
    BY WeightIs
  <1>5. /\ m.state[i] = "undecided" => x = 1
        /\ m.state[i] = "deciding" => x <= l + 1
        /\ m.state[i] = "waiting" => x <= l
    BY DEF Progress
  <1> HIDE DEF l, x, v, w
  <1>6. w < v
    <2>1. CASE t.state[i] = "decided" /\ m.state[i] # "decided"
      BY <1>1, <1>2, <1>3, <1>4, <1>5, <2>1
    <2>2. CASE t.state[i] = "deciding" /\ m.state[i] = "undecided" /\ y = x
      BY <1>1, <1>2, <1>3, <1>4, <1>5, <2>2
    <2>3. CASE t.state[i] = "waiting" /\ m.state[i] = "deciding" /\ y = x
      BY <1>1, <1>2, <1>3, <1>4, <1>5, <2>3
    <2>4. CASE t.state[i] = "deciding" /\ m.state[i] = "waiting" /\ y = x + 1
      BY <1>1, <1>2, <1>3, <1>4, <1>5, <2>4
    <2>5. CASE t.state[i] = "deciding" /\ m.state[i] = "deciding" /\ y = x + 1
      BY <1>1, <1>2, <1>3, <1>4, <1>5, <2>5
    <2> QED BY <2>1, <2>2, <2>3, <2>4, <2>5 DEF GoesOn, x, y
  <1> QED BY <1>6 DEF v, w

\* The next candidate of i is free: unclaimed, and no swap that the policy forbids.
MayTake(pass, n, policy, m, i, tile) ==
    /\ m.next[i] <= Len(pass[i].options) /\ tile = pass[i].options[m.next[i]]
    /\ tile \notin m.claimed
    /\ \A k \in 1 .. n : pass[k].at = tile /\ m.desired[k] = pass[i].at /\ tile # pass[i].at =>
          MayTrade(pass[i].retries, pass[k].retries, policy)

(* Turning to an agent without a live goal settles it. *)
LEMMA IdleSteps ==
    ASSUME NEW pass, NEW n, IsPass(pass, n), NEW policy, NEW m, MachineInv(pass, n, policy, m),
           NEW i \in 1 .. n,
           m.stack = <<>>,
           m.state[i] = "undecided",
           ~pass[i].active,
           \A k \in 1 .. n : m.state[k] = "undecided" => ~pass[k].active,
           NEW t, Reads(n, t, m.desired, [m.state EXCEPT ![i] = "decided"],
                        m.next, m.claimed, m.stack, FALSE)
    PROVE  Steps(pass, n, policy, m, t)
  <1>m. n \in Nat /\ m \in Machine(n) /\ t \in Machine(n)
    BY DEF IsPass, MachineInv, Reads
  <1>t. /\ m.stack \in Seq(1 .. n) /\ Len(m.stack) \in Nat /\ Len(t.stack) \in Nat
        /\ \A p \in 1 .. Len(m.stack) : m.stack[p] \in 1 .. n
        /\ m.placed \in BOOLEAN
        /\ \A k \in 1 .. n : /\ m.desired[k] \in Tiles /\ m.next[k] \in Nat \ {0}
                             /\ m.state[k] \in {"undecided", "deciding", "waiting", "decided"}
    BY <1>m, MachineFacts
  <1>p. /\ \A k \in 1 .. n : /\ pass[k].at \in Tiles /\ pass[k].active \in BOOLEAN /\ pass[k].stuck \in BOOLEAN
                             /\ pass[k].options \in Seq(Tiles) /\ Len(pass[k].options) \in Nat
        /\ \A j, k \in 1 .. n : pass[j].at = pass[k].at => j = k
    BY DEF IsPass
  <1>i. /\ Progress(pass, n, m) /\ Stacked(pass, n, m) /\ Fresh(pass, n, m) /\ Wanting(pass, n, m)
        /\ Apart(n, m) /\ Backed(pass, n, m) /\ Lent(pass, n, m) /\ Trading(pass, n, policy, m)
    BY DEF MachineInv
  <1>r. /\ t.desired = m.desired /\ t.state = [m.state EXCEPT ![i] = "decided"]
        /\ t.next = m.next /\ t.claimed = m.claimed
        /\ t.stack = m.stack /\ t.placed = FALSE
    BY DEF Reads
  <1>d. m.desired \in [1 .. n -> Tiles] /\ DOMAIN m.state = 1 .. n /\ DOMAIN m.next = 1 .. n
    BY <1>m DEF Machine
  <1>1. /\ \A k \in 1 .. n : /\ t.state[k] = IF k = i THEN "decided" ELSE m.state[k]
                             /\ t.desired[k] = m.desired[k]
                             /\ t.next[k] = m.next[k]
    BY <1>d, <1>r
  <1>2. Len(m.stack) = 0 /\ Len(t.stack) = 0
    BY <1>m, <1>t, <1>r, StackFacts DEF Top
  <1>11. Progress(pass, n, t)
    BY <1>t, <1>p, <1>i, <1>r, <1>1, <1>2 DEF Progress
  <1>12. Stacked(pass, n, t)
    BY <1>t, <1>p, <1>i, <1>r, <1>1, <1>2 DEF Stacked
  <1>13. Fresh(pass, n, t)
    BY <1>t, <1>p, <1>i, <1>r, <1>1, <1>2 DEF Fresh
  <1>14. Wanting(pass, n, t)
    BY <1>t, <1>p, <1>i, <1>r, <1>1, <1>2 DEF Wanting
  <1>15. Apart(n, t)
    BY <1>t, <1>p, <1>i, <1>r, <1>1, <1>2 DEF Apart, Backed, Lent, Fresh, Stacked, Holds, Heard, Top
  <1>16. Backed(pass, n, t)
    BY <1>t, <1>p, <1>i, <1>r, <1>1, <1>2 DEF Backed, Fresh, Stacked, Holds
  <1>17. Lent(pass, n, t)
    BY <1>t, <1>p, <1>i, <1>r, <1>1, <1>2 DEF Lent, Backed, Fresh, Stacked, Holds, Heard, Top
  <1>18. Trading(pass, n, policy, t)
    BY <1>t, <1>p, <1>i, <1>r, <1>1, <1>2 DEF Trading
  <1>19. MachineInv(pass, n, policy, t)
    BY <1>m, <1>11, <1>12, <1>13, <1>14, <1>15, <1>16, <1>17, <1>18 DEF MachineInv
  <1>20. ASSUME NEW k \in 1 .. n
         PROVE  /\ Weight(pass, m, k) \in Nat /\ Weight(pass, t, k) \in Nat
                /\ Weight(pass, t, k) <= Weight(pass, m, k)
                /\ k = i => Weight(pass, t, k) < Weight(pass, m, k)
    <2>1. Weight(pass, m, k) \in Nat /\ Weight(pass, t, k) \in Nat
      BY <1>m, <1>i, <1>11, WeightIs
    <2>2. k # i => Weight(pass, t, k) = Weight(pass, m, k)
      BY <1>1, SameWeight
    <2>3. Weight(pass, t, i) < Weight(pass, m, i)
      <3>1. GoesOn(m, t, i)
        BY <1>t, <1>1, <1>2 DEF GoesOn
      <3> QED BY <1>m, <1>i, <1>11, <3>1, WeightFalls
    <2> QED BY <2>1, <2>2, <2>3
  <1>21. Below(n, Weights(pass, n, t), Weights(pass, n, m))
    <2> HIDE DEF Weight
    <2> QED BY <1>20 DEF Below, Weights
  <1> QED BY <1>19, <1>21 DEF Steps

(* Turning to an agent with one starts its decision. *)
LEMMA StartSteps ==
    ASSUME NEW pass, NEW n, IsPass(pass, n), NEW policy, NEW m, MachineInv(pass, n, policy, m),
           NEW i \in 1 .. n,
           m.stack = <<>>,
           m.state[i] = "undecided",
           pass[i].active,
           ~pass[i].stuck,
           NEW t, Reads(n, t, m.desired, [m.state EXCEPT ![i] = "deciding"],
                        m.next, m.claimed, Append(m.stack, i), m.placed)
    PROVE  Steps(pass, n, policy, m, t)
  <1>m. n \in Nat /\ m \in Machine(n) /\ t \in Machine(n)
    BY DEF IsPass, MachineInv, Reads
  <1>t. /\ m.stack \in Seq(1 .. n) /\ Len(m.stack) \in Nat /\ Len(t.stack) \in Nat
        /\ \A p \in 1 .. Len(m.stack) : m.stack[p] \in 1 .. n
        /\ m.placed \in BOOLEAN
        /\ \A k \in 1 .. n : /\ m.desired[k] \in Tiles /\ m.next[k] \in Nat \ {0}
                             /\ m.state[k] \in {"undecided", "deciding", "waiting", "decided"}
    BY <1>m, MachineFacts
  <1>p. /\ \A k \in 1 .. n : /\ pass[k].at \in Tiles /\ pass[k].active \in BOOLEAN /\ pass[k].stuck \in BOOLEAN
                             /\ pass[k].options \in Seq(Tiles) /\ Len(pass[k].options) \in Nat
        /\ \A j, k \in 1 .. n : pass[j].at = pass[k].at => j = k
    BY DEF IsPass
  <1>i. /\ Progress(pass, n, m) /\ Stacked(pass, n, m) /\ Fresh(pass, n, m) /\ Wanting(pass, n, m)
        /\ Apart(n, m) /\ Backed(pass, n, m) /\ Lent(pass, n, m) /\ Trading(pass, n, policy, m)
    BY DEF MachineInv
  <1>r. /\ t.desired = m.desired /\ t.state = [m.state EXCEPT ![i] = "deciding"]
        /\ t.next = m.next /\ t.claimed = m.claimed
        /\ t.stack = Append(m.stack, i) /\ t.placed = m.placed
    BY DEF Reads
  <1>d. m.desired \in [1 .. n -> Tiles] /\ DOMAIN m.state = 1 .. n /\ DOMAIN m.next = 1 .. n
    BY <1>m DEF Machine
  <1>1. /\ \A k \in 1 .. n : /\ t.state[k] = IF k = i THEN "deciding" ELSE m.state[k]
                             /\ t.desired[k] = m.desired[k]
                             /\ t.next[k] = m.next[k]
    BY <1>d, <1>r
  <1>2. Len(m.stack) = 0 /\ Len(t.stack) = 1 /\ t.stack[1] = i
    BY <1>m, <1>t, <1>r, StackFacts DEF Top
  <1>11. Progress(pass, n, t)
    BY <1>t, <1>p, <1>i, <1>r, <1>1, <1>2 DEF Progress
  <1>12. Stacked(pass, n, t)
    BY <1>t, <1>p, <1>i, <1>r, <1>1, <1>2 DEF Stacked
  <1>13. Fresh(pass, n, t)
    BY <1>t, <1>p, <1>i, <1>r, <1>1, <1>2 DEF Fresh
  <1>14. Wanting(pass, n, t)
    BY <1>t, <1>p, <1>i, <1>r, <1>1, <1>2 DEF Wanting
  <1>15. Apart(n, t)
    BY <1>t, <1>p, <1>i, <1>r, <1>1, <1>2 DEF Apart, Backed, Lent, Fresh, Stacked, Holds, Heard, Top
  <1>16. Backed(pass, n, t)
    BY <1>t, <1>p, <1>i, <1>r, <1>1, <1>2 DEF Backed, Fresh, Stacked, Holds
  <1>17. Lent(pass, n, t)
    BY <1>t, <1>p, <1>i, <1>r, <1>1, <1>2 DEF Lent, Backed, Fresh, Stacked, Holds, Heard, Top
  <1>18. Trading(pass, n, policy, t)
    BY <1>t, <1>p, <1>i, <1>r, <1>1, <1>2 DEF Trading
  <1>19. MachineInv(pass, n, policy, t)
    BY <1>m, <1>11, <1>12, <1>13, <1>14, <1>15, <1>16, <1>17, <1>18 DEF MachineInv
  <1>20. ASSUME NEW k \in 1 .. n
         PROVE  /\ Weight(pass, m, k) \in Nat /\ Weight(pass, t, k) \in Nat
                /\ Weight(pass, t, k) <= Weight(pass, m, k)
                /\ k = i => Weight(pass, t, k) < Weight(pass, m, k)
    <2>1. Weight(pass, m, k) \in Nat /\ Weight(pass, t, k) \in Nat
      BY <1>m, <1>i, <1>11, WeightIs
    <2>2. k # i => Weight(pass, t, k) = Weight(pass, m, k)
      BY <1>1, SameWeight
    <2>3. Weight(pass, t, i) < Weight(pass, m, i)
      <3>1. GoesOn(m, t, i)
        BY <1>t, <1>1, <1>2 DEF GoesOn
      <3> QED BY <1>m, <1>i, <1>11, <3>1, WeightFalls
    <2> QED BY <2>1, <2>2, <2>3
  <1>21. Below(n, Weights(pass, n, t), Weights(pass, n, m))
    <2> HIDE DEF Weight
    <2> QED BY <1>20 DEF Below, Weights
  <1> QED BY <1>19, <1>21 DEF Steps

(* One that cannot leave its tile claims it. *)
LEMMA StuckSteps ==
    ASSUME NEW pass, NEW n, IsPass(pass, n), NEW policy, NEW m, MachineInv(pass, n, policy, m),
           NEW i \in 1 .. n,
           m.stack = <<>>,
           m.state[i] = "undecided",
           pass[i].active,
           NEW t, Reads(n, t, m.desired, [m.state EXCEPT ![i] = "decided"],
                        m.next, m.claimed \union {pass[i].at}, m.stack, FALSE)
    PROVE  Steps(pass, n, policy, m, t)
  <1>m. n \in Nat /\ m \in Machine(n) /\ t \in Machine(n)
    BY DEF IsPass, MachineInv, Reads
  <1>t. /\ m.stack \in Seq(1 .. n) /\ Len(m.stack) \in Nat /\ Len(t.stack) \in Nat
        /\ \A p \in 1 .. Len(m.stack) : m.stack[p] \in 1 .. n
        /\ m.placed \in BOOLEAN
        /\ \A k \in 1 .. n : /\ m.desired[k] \in Tiles /\ m.next[k] \in Nat \ {0}
                             /\ m.state[k] \in {"undecided", "deciding", "waiting", "decided"}
    BY <1>m, MachineFacts
  <1>p. /\ \A k \in 1 .. n : /\ pass[k].at \in Tiles /\ pass[k].active \in BOOLEAN /\ pass[k].stuck \in BOOLEAN
                             /\ pass[k].options \in Seq(Tiles) /\ Len(pass[k].options) \in Nat
        /\ \A j, k \in 1 .. n : pass[j].at = pass[k].at => j = k
    BY DEF IsPass
  <1>i. /\ Progress(pass, n, m) /\ Stacked(pass, n, m) /\ Fresh(pass, n, m) /\ Wanting(pass, n, m)
        /\ Apart(n, m) /\ Backed(pass, n, m) /\ Lent(pass, n, m) /\ Trading(pass, n, policy, m)
    BY DEF MachineInv
  <1>r. /\ t.desired = m.desired /\ t.state = [m.state EXCEPT ![i] = "decided"]
        /\ t.next = m.next /\ t.claimed = m.claimed \union {pass[i].at}
        /\ t.stack = m.stack /\ t.placed = FALSE
    BY DEF Reads
  <1>d. m.desired \in [1 .. n -> Tiles] /\ DOMAIN m.state = 1 .. n /\ DOMAIN m.next = 1 .. n
    BY <1>m DEF Machine
  <1>1. /\ \A k \in 1 .. n : /\ t.state[k] = IF k = i THEN "decided" ELSE m.state[k]
                             /\ t.desired[k] = m.desired[k]
                             /\ t.next[k] = m.next[k]
    BY <1>d, <1>r
  <1>2. Len(m.stack) = 0 /\ Len(t.stack) = 0
    BY <1>m, <1>t, <1>r, StackFacts DEF Top
  <1>11. Progress(pass, n, t)
    BY <1>t, <1>p, <1>i, <1>r, <1>1, <1>2 DEF Progress
  <1>12. Stacked(pass, n, t)
    BY <1>t, <1>p, <1>i, <1>r, <1>1, <1>2 DEF Stacked
  <1>13. Fresh(pass, n, t)
    BY <1>t, <1>p, <1>i, <1>r, <1>1, <1>2 DEF Fresh
  <1>14. Wanting(pass, n, t)
    BY <1>t, <1>p, <1>i, <1>r, <1>1, <1>2 DEF Wanting
  <1>15. Apart(n, t)
    BY <1>t, <1>p, <1>i, <1>r, <1>1, <1>2 DEF Apart, Backed, Lent, Fresh, Stacked, Holds, Heard, Top
  <1>16. Backed(pass, n, t)
    BY <1>t, <1>p, <1>i, <1>r, <1>1, <1>2 DEF Backed, Fresh, Stacked, Holds
  <1>17. Lent(pass, n, t)
    BY <1>t, <1>p, <1>i, <1>r, <1>1, <1>2 DEF Lent, Backed, Fresh, Stacked, Holds, Heard, Top
  <1>18. Trading(pass, n, policy, t)
    BY <1>t, <1>p, <1>i, <1>r, <1>1, <1>2 DEF Trading
  <1>19. MachineInv(pass, n, policy, t)
    BY <1>m, <1>11, <1>12, <1>13, <1>14, <1>15, <1>16, <1>17, <1>18 DEF MachineInv
  <1>20. ASSUME NEW k \in 1 .. n
         PROVE  /\ Weight(pass, m, k) \in Nat /\ Weight(pass, t, k) \in Nat
                /\ Weight(pass, t, k) <= Weight(pass, m, k)
                /\ k = i => Weight(pass, t, k) < Weight(pass, m, k)
    <2>1. Weight(pass, m, k) \in Nat /\ Weight(pass, t, k) \in Nat
      BY <1>m, <1>i, <1>11, WeightIs
    <2>2. k # i => Weight(pass, t, k) = Weight(pass, m, k)
      BY <1>1, SameWeight
    <2>3. Weight(pass, t, i) < Weight(pass, m, i)
      <3>1. GoesOn(m, t, i)
        BY <1>t, <1>1, <1>2 DEF GoesOn
      <3> QED BY <1>m, <1>i, <1>11, <3>1, WeightFalls
    <2> QED BY <2>1, <2>2, <2>3
  <1>21. Below(n, Weights(pass, n, t), Weights(pass, n, m))
    <2> HIDE DEF Weight
    <2> QED BY <1>20 DEF Below, Weights
  <1> QED BY <1>19, <1>21 DEF Steps

(* A lender whose peer found a place keeps what it desires. *)
LEMMA HeardSteps ==
    ASSUME NEW pass, NEW n, IsPass(pass, n), NEW policy, NEW m, MachineInv(pass, n, policy, m),
           NEW i \in 1 .. n,
           Len(m.stack) >= 1,
           i = Top(m),
           m.state[i] = "waiting",
           m.placed,
           NEW t, Reads(n, t, m.desired, [m.state EXCEPT ![i] = "decided"],
                        m.next, m.claimed, SubSeq(m.stack, 1, Len(m.stack) - 1), TRUE)
    PROVE  Steps(pass, n, policy, m, t)
  <1>m. n \in Nat /\ m \in Machine(n) /\ t \in Machine(n)
    BY DEF IsPass, MachineInv, Reads
  <1>t. /\ m.stack \in Seq(1 .. n) /\ Len(m.stack) \in Nat /\ Len(t.stack) \in Nat
        /\ \A p \in 1 .. Len(m.stack) : m.stack[p] \in 1 .. n
        /\ m.placed \in BOOLEAN
        /\ \A k \in 1 .. n : /\ m.desired[k] \in Tiles /\ m.next[k] \in Nat \ {0}
                             /\ m.state[k] \in {"undecided", "deciding", "waiting", "decided"}
    BY <1>m, MachineFacts
  <1>p. /\ \A k \in 1 .. n : /\ pass[k].at \in Tiles /\ pass[k].active \in BOOLEAN /\ pass[k].stuck \in BOOLEAN
                             /\ pass[k].options \in Seq(Tiles) /\ Len(pass[k].options) \in Nat
        /\ \A j, k \in 1 .. n : pass[j].at = pass[k].at => j = k
    BY DEF IsPass
  <1>i. /\ Progress(pass, n, m) /\ Stacked(pass, n, m) /\ Fresh(pass, n, m) /\ Wanting(pass, n, m)
        /\ Apart(n, m) /\ Backed(pass, n, m) /\ Lent(pass, n, m) /\ Trading(pass, n, policy, m)
    BY DEF MachineInv
  <1>r. /\ t.desired = m.desired /\ t.state = [m.state EXCEPT ![i] = "decided"]
        /\ t.next = m.next /\ t.claimed = m.claimed
        /\ t.stack = SubSeq(m.stack, 1, Len(m.stack) - 1) /\ t.placed = TRUE
    BY DEF Reads
  <1>d. m.desired \in [1 .. n -> Tiles] /\ DOMAIN m.state = 1 .. n /\ DOMAIN m.next = 1 .. n
    BY <1>m DEF Machine
  <1>1. /\ \A k \in 1 .. n : /\ t.state[k] = IF k = i THEN "decided" ELSE m.state[k]
                             /\ t.desired[k] = m.desired[k]
                             /\ t.next[k] = m.next[k]
    BY <1>d, <1>r
  <1>2. /\ Len(t.stack) = Len(m.stack) - 1 /\ m.stack[Len(m.stack)] = i
        /\ \A p \in 1 .. Len(m.stack) - 1 : t.stack[p] = m.stack[p]
    BY <1>m, <1>t, <1>r, StackFacts DEF Top
  <1>3. /\ \A p \in 1 .. Len(t.stack) : t.stack[p] \in 1 .. n /\ t.stack[p] # i /\ t.state[t.stack[p]] = "waiting"
        /\ Len(t.stack) >= 1 => Top(t) = m.stack[Len(m.stack) - 1] /\ t.state[Top(t)] = "waiting"
    <2>1. ASSUME NEW p \in 1 .. Len(t.stack)
          PROVE  t.stack[p] \in 1 .. n /\ t.stack[p] # i /\ t.state[t.stack[p]] = "waiting"
      <3>1. /\ p \in 1 .. Len(m.stack) /\ p < Len(m.stack) /\ p # Len(m.stack) /\ t.stack[p] = m.stack[p]
            /\ Len(m.stack) \in 1 .. Len(m.stack)
        BY <1>t, <1>2
      <3>2. m.stack[p] \in 1 .. n /\ m.stack[p] # i /\ m.state[m.stack[p]] = "waiting"
        BY <1>t, <1>i, <1>2, <3>1 DEF Stacked
      <3> QED BY <1>1, <3>1, <3>2
    <2>2. Len(t.stack) >= 1 => Len(t.stack) \in 1 .. Len(t.stack) /\ Top(t) = m.stack[Len(m.stack) - 1]
      BY <1>t, <1>2 DEF Top
    <2> QED BY <2>1, <2>2 DEF Top
  <1>11. Progress(pass, n, t)
    BY <1>t, <1>p, <1>i, <1>r, <1>1, <1>2, <1>3 DEF Progress
  <1>12. Stacked(pass, n, t)
    <2>1. ASSUME NEW p \in 1 .. Len(t.stack)
          PROVE  /\ pass[t.stack[p]].active /\ ~pass[t.stack[p]].stuck
                 /\ \A q \in 1 .. Len(t.stack) : t.stack[p] = t.stack[q] => p = q
      <3>1. \A q \in 1 .. Len(t.stack) : q \in 1 .. Len(m.stack) /\ t.stack[q] = m.stack[q]
        BY <1>t, <1>2, SMTT(30)
      <3> QED BY <1>i, <3>1 DEF Stacked
    <2>2. ASSUME NEW k \in 1 .. n, t.state[k] \in {"deciding", "waiting"}
          PROVE  \E p \in 1 .. Len(t.stack) : t.stack[p] = k
      <3>1. k # i /\ m.state[k] \in {"deciding", "waiting"}
        BY <1>1, <2>2
      <3>2. PICK p \in 1 .. Len(m.stack) : m.stack[p] = k
        BY <1>i, <3>1 DEF Stacked
      <3>3. p \in 1 .. Len(t.stack)
        BY <1>t, <1>2, <3>1, <3>2
      <3> QED BY <1>2, <3>2, <3>3
    <2> QED BY <1>3, <2>1, <2>2 DEF Stacked
  <1>13. Fresh(pass, n, t)
    BY <1>t, <1>p, <1>i, <1>r, <1>1, <1>2, <1>3 DEF Fresh
  <1>14. Wanting(pass, n, t)
    BY <1>t, <1>p, <1>i, <1>r, <1>1, <1>2, <1>3 DEF Wanting
  <1>15. Apart(n, t)
    BY <1>t, <1>p, <1>i, <1>r, <1>1, <1>2, <1>3 DEF Apart, Backed, Lent, Fresh, Stacked, Holds, Heard, Top
  <1>16. Backed(pass, n, t)
    BY <1>t, <1>p, <1>i, <1>r, <1>1, <1>2, <1>3 DEF Backed, Fresh, Stacked, Holds
  <1>17. Lent(pass, n, t)
    BY <1>t, <1>p, <1>i, <1>r, <1>1, <1>2, <1>3 DEF Lent, Backed, Fresh, Stacked, Holds, Heard, Top
  <1>18. Trading(pass, n, policy, t)
    BY <1>t, <1>p, <1>i, <1>r, <1>1, <1>2, <1>3 DEF Trading
  <1>19. MachineInv(pass, n, policy, t)
    BY <1>m, <1>11, <1>12, <1>13, <1>14, <1>15, <1>16, <1>17, <1>18 DEF MachineInv
  <1>20. ASSUME NEW k \in 1 .. n
         PROVE  /\ Weight(pass, m, k) \in Nat /\ Weight(pass, t, k) \in Nat
                /\ Weight(pass, t, k) <= Weight(pass, m, k)
                /\ k = i => Weight(pass, t, k) < Weight(pass, m, k)
    <2>1. Weight(pass, m, k) \in Nat /\ Weight(pass, t, k) \in Nat
      BY <1>m, <1>i, <1>11, WeightIs
    <2>2. k # i => Weight(pass, t, k) = Weight(pass, m, k)
      BY <1>1, SameWeight
    <2>3. Weight(pass, t, i) < Weight(pass, m, i)
      <3>1. GoesOn(m, t, i)
        BY <1>t, <1>1, <1>2, <1>3 DEF GoesOn
      <3> QED BY <1>m, <1>i, <1>11, <3>1, WeightFalls
    <2> QED BY <2>1, <2>2, <2>3
  <1>21. Below(n, Weights(pass, n, t), Weights(pass, n, m))
    <2> HIDE DEF Weight
    <2> QED BY <1>20 DEF Below, Weights
  <1> QED BY <1>19, <1>21 DEF Steps

(* One whose peer failed is back on its own tile. *)
LEMMA RetrySteps ==
    ASSUME NEW pass, NEW n, IsPass(pass, n), NEW policy, NEW m, MachineInv(pass, n, policy, m),
           NEW i \in 1 .. n,
           Len(m.stack) >= 1,
           i = Top(m),
           m.state[i] = "waiting",
           ~m.placed,
           NEW t, Reads(n, t, [m.desired EXCEPT ![i] = pass[i].at], [m.state EXCEPT ![i] = "deciding"],
                        [m.next EXCEPT ![i] = @ + 1], m.claimed, m.stack, m.placed)
    PROVE  Steps(pass, n, policy, m, t)
  <1>m. n \in Nat /\ m \in Machine(n) /\ t \in Machine(n)
    BY DEF IsPass, MachineInv, Reads
  <1>t. /\ m.stack \in Seq(1 .. n) /\ Len(m.stack) \in Nat /\ Len(t.stack) \in Nat
        /\ \A p \in 1 .. Len(m.stack) : m.stack[p] \in 1 .. n
        /\ m.placed \in BOOLEAN
        /\ \A k \in 1 .. n : /\ m.desired[k] \in Tiles /\ m.next[k] \in Nat \ {0}
                             /\ m.state[k] \in {"undecided", "deciding", "waiting", "decided"}
    BY <1>m, MachineFacts
  <1>p. /\ \A k \in 1 .. n : /\ pass[k].at \in Tiles /\ pass[k].active \in BOOLEAN /\ pass[k].stuck \in BOOLEAN
                             /\ pass[k].options \in Seq(Tiles) /\ Len(pass[k].options) \in Nat
        /\ \A j, k \in 1 .. n : pass[j].at = pass[k].at => j = k
    BY DEF IsPass
  <1>i. /\ Progress(pass, n, m) /\ Stacked(pass, n, m) /\ Fresh(pass, n, m) /\ Wanting(pass, n, m)
        /\ Apart(n, m) /\ Backed(pass, n, m) /\ Lent(pass, n, m) /\ Trading(pass, n, policy, m)
    BY DEF MachineInv
  <1>r. /\ t.desired = [m.desired EXCEPT ![i] = pass[i].at] /\ t.state = [m.state EXCEPT ![i] = "deciding"]
        /\ t.next = [m.next EXCEPT ![i] = @ + 1] /\ t.claimed = m.claimed
        /\ t.stack = m.stack /\ t.placed = m.placed
    BY DEF Reads
  <1>d. m.desired \in [1 .. n -> Tiles] /\ DOMAIN m.state = 1 .. n /\ DOMAIN m.next = 1 .. n
    BY <1>m DEF Machine
  <1>1. /\ \A k \in 1 .. n : /\ t.state[k] = IF k = i THEN "deciding" ELSE m.state[k]
                             /\ t.desired[k] = IF k = i THEN pass[i].at ELSE m.desired[k]
                             /\ t.next[k] = IF k = i THEN m.next[i] + 1 ELSE m.next[k]
    BY <1>d, <1>r
  <1>2. Len(t.stack) = Len(m.stack) /\ m.stack[Len(m.stack)] = i /\ \A p \in 1 .. Len(m.stack) : t.stack[p] = m.stack[p]
    BY <1>m, <1>t, <1>r, StackFacts DEF Top
  <1>11. Progress(pass, n, t)
    BY <1>t, <1>p, <1>i, <1>r, <1>1, <1>2 DEF Progress
  <1>12. Stacked(pass, n, t)
    BY <1>t, <1>p, <1>i, <1>r, <1>1, <1>2 DEF Stacked
  <1>13. Fresh(pass, n, t)
    BY <1>t, <1>p, <1>i, <1>r, <1>1, <1>2 DEF Fresh
  <1>14. Wanting(pass, n, t)
    BY <1>t, <1>p, <1>i, <1>r, <1>1, <1>2 DEF Wanting
  <1>15. Apart(n, t)
    BY <1>t, <1>p, <1>i, <1>r, <1>1, <1>2 DEF Apart, Backed, Lent, Fresh, Stacked, Holds, Heard, Top
  <1>16. Backed(pass, n, t)
    BY <1>t, <1>p, <1>i, <1>r, <1>1, <1>2 DEF Backed, Fresh, Stacked, Holds
  <1>17. Lent(pass, n, t)
    BY <1>t, <1>p, <1>i, <1>r, <1>1, <1>2 DEF Lent, Backed, Fresh, Stacked, Holds, Heard, Top
  <1>18. Trading(pass, n, policy, t)
    BY <1>t, <1>p, <1>i, <1>r, <1>1, <1>2 DEF Trading
  <1>19. MachineInv(pass, n, policy, t)
    BY <1>m, <1>11, <1>12, <1>13, <1>14, <1>15, <1>16, <1>17, <1>18 DEF MachineInv
  <1>20. ASSUME NEW k \in 1 .. n
         PROVE  /\ Weight(pass, m, k) \in Nat /\ Weight(pass, t, k) \in Nat
                /\ Weight(pass, t, k) <= Weight(pass, m, k)
                /\ k = i => Weight(pass, t, k) < Weight(pass, m, k)
    <2>1. Weight(pass, m, k) \in Nat /\ Weight(pass, t, k) \in Nat
      BY <1>m, <1>i, <1>11, WeightIs
    <2>2. k # i => Weight(pass, t, k) = Weight(pass, m, k)
      BY <1>1, SameWeight
    <2>3. Weight(pass, t, i) < Weight(pass, m, i)
      <3>1. GoesOn(m, t, i)
        BY <1>t, <1>1, <1>2 DEF GoesOn
      <3> QED BY <1>m, <1>i, <1>11, <3>1, WeightFalls
    <2> QED BY <2>1, <2>2, <2>3
  <1>21. Below(n, Weights(pass, n, t), Weights(pass, n, m))
    <2> HIDE DEF Weight
    <2> QED BY <1>20 DEF Below, Weights
  <1> QED BY <1>19, <1>21 DEF Steps

(* One without a candidate left claims its own tile and fails. *)
LEMMA ExhaustSteps ==
    ASSUME NEW pass, NEW n, IsPass(pass, n), NEW policy, NEW m, MachineInv(pass, n, policy, m),
           NEW i \in 1 .. n,
           Len(m.stack) >= 1,
           i = Top(m),
           m.state[i] = "deciding",
           NEW t, Reads(n, t, [m.desired EXCEPT ![i] = pass[i].at], [m.state EXCEPT ![i] = "decided"],
                        m.next, m.claimed \union {pass[i].at}, SubSeq(m.stack, 1, Len(m.stack) - 1), FALSE)
    PROVE  Steps(pass, n, policy, m, t)
  <1>m. n \in Nat /\ m \in Machine(n) /\ t \in Machine(n)
    BY DEF IsPass, MachineInv, Reads
  <1>t. /\ m.stack \in Seq(1 .. n) /\ Len(m.stack) \in Nat /\ Len(t.stack) \in Nat
        /\ \A p \in 1 .. Len(m.stack) : m.stack[p] \in 1 .. n
        /\ m.placed \in BOOLEAN
        /\ \A k \in 1 .. n : /\ m.desired[k] \in Tiles /\ m.next[k] \in Nat \ {0}
                             /\ m.state[k] \in {"undecided", "deciding", "waiting", "decided"}
    BY <1>m, MachineFacts
  <1>p. /\ \A k \in 1 .. n : /\ pass[k].at \in Tiles /\ pass[k].active \in BOOLEAN /\ pass[k].stuck \in BOOLEAN
                             /\ pass[k].options \in Seq(Tiles) /\ Len(pass[k].options) \in Nat
        /\ \A j, k \in 1 .. n : pass[j].at = pass[k].at => j = k
    BY DEF IsPass
  <1>i. /\ Progress(pass, n, m) /\ Stacked(pass, n, m) /\ Fresh(pass, n, m) /\ Wanting(pass, n, m)
        /\ Apart(n, m) /\ Backed(pass, n, m) /\ Lent(pass, n, m) /\ Trading(pass, n, policy, m)
    BY DEF MachineInv
  <1>r. /\ t.desired = [m.desired EXCEPT ![i] = pass[i].at] /\ t.state = [m.state EXCEPT ![i] = "decided"]
        /\ t.next = m.next /\ t.claimed = m.claimed \union {pass[i].at}
        /\ t.stack = SubSeq(m.stack, 1, Len(m.stack) - 1) /\ t.placed = FALSE
    BY DEF Reads
  <1>d. m.desired \in [1 .. n -> Tiles] /\ DOMAIN m.state = 1 .. n /\ DOMAIN m.next = 1 .. n
    BY <1>m DEF Machine
  <1>1. /\ \A k \in 1 .. n : /\ t.state[k] = IF k = i THEN "decided" ELSE m.state[k]
                             /\ t.desired[k] = IF k = i THEN pass[i].at ELSE m.desired[k]
                             /\ t.next[k] = m.next[k]
    BY <1>d, <1>r
  <1>2. /\ Len(t.stack) = Len(m.stack) - 1 /\ m.stack[Len(m.stack)] = i
        /\ \A p \in 1 .. Len(m.stack) - 1 : t.stack[p] = m.stack[p]
    BY <1>m, <1>t, <1>r, StackFacts DEF Top
  <1>3. /\ \A p \in 1 .. Len(t.stack) : t.stack[p] \in 1 .. n /\ t.stack[p] # i /\ t.state[t.stack[p]] = "waiting"
        /\ Len(t.stack) >= 1 => Top(t) = m.stack[Len(m.stack) - 1] /\ t.state[Top(t)] = "waiting"
    <2>1. ASSUME NEW p \in 1 .. Len(t.stack)
          PROVE  t.stack[p] \in 1 .. n /\ t.stack[p] # i /\ t.state[t.stack[p]] = "waiting"
      <3>1. /\ p \in 1 .. Len(m.stack) /\ p < Len(m.stack) /\ p # Len(m.stack) /\ t.stack[p] = m.stack[p]
            /\ Len(m.stack) \in 1 .. Len(m.stack)
        BY <1>t, <1>2
      <3>2. m.stack[p] \in 1 .. n /\ m.stack[p] # i /\ m.state[m.stack[p]] = "waiting"
        BY <1>t, <1>i, <1>2, <3>1 DEF Stacked
      <3> QED BY <1>1, <3>1, <3>2
    <2>2. Len(t.stack) >= 1 => Len(t.stack) \in 1 .. Len(t.stack) /\ Top(t) = m.stack[Len(m.stack) - 1]
      BY <1>t, <1>2 DEF Top
    <2> QED BY <2>1, <2>2 DEF Top
  <1>4. /\ Len(m.stack) \in 1 .. Len(m.stack) /\ pass[i].active /\ ~pass[i].stuck
        /\ \A b \in BOOLEAN : ~Heard(m, b)
        /\ ~\A k \in 1 .. n : pass[k].active => m.state[k] = "decided"
    BY <1>t, <1>i, <1>2 DEF Stacked, Heard
  <1>11. Progress(pass, n, t)
    BY <1>t, <1>p, <1>i, <1>r, <1>1, <1>2, <1>3, <1>4 DEF Progress
  <1>12. Stacked(pass, n, t)
    <2>1. ASSUME NEW p \in 1 .. Len(t.stack)
          PROVE  /\ pass[t.stack[p]].active /\ ~pass[t.stack[p]].stuck
                 /\ \A q \in 1 .. Len(t.stack) : t.stack[p] = t.stack[q] => p = q
      <3>1. \A q \in 1 .. Len(t.stack) : q \in 1 .. Len(m.stack) /\ t.stack[q] = m.stack[q]
        BY <1>t, <1>2
      <3> QED BY <1>i, <3>1 DEF Stacked
    <2>2. ASSUME NEW k \in 1 .. n, t.state[k] \in {"deciding", "waiting"}
          PROVE  \E p \in 1 .. Len(t.stack) : t.stack[p] = k
      <3>1. k # i /\ m.state[k] \in {"deciding", "waiting"}
        BY <1>1, <2>2
      <3>2. PICK p \in 1 .. Len(m.stack) : m.stack[p] = k
        BY <1>i, <3>1 DEF Stacked
      <3>3. p \in 1 .. Len(t.stack)
        BY <1>t, <1>2, <3>1, <3>2
      <3> QED BY <1>2, <3>2, <3>3
    <2> QED BY <1>3, <2>1, <2>2 DEF Stacked
  <1>13. Fresh(pass, n, t)
    BY <1>t, <1>p, <1>i, <1>r, <1>1, <1>2, <1>3, <1>4 DEF Fresh
  <1>14. Wanting(pass, n, t)
    BY <1>t, <1>p, <1>i, <1>r, <1>1, <1>2, <1>3, <1>4 DEF Wanting
  <1>15. Apart(n, t)
    <2>1. ASSUME NEW z \in 1 .. n, z # i, Holds(m, z), m.desired[z] = pass[i].at
          PROVE  Len(m.stack) > 1 /\ m.stack[Len(m.stack) - 1] = z
      BY <1>2, <1>4, <1>i, <2>1 DEF Lent
    <2>2. \A k \in 1 .. n : t.desired[k] = m.desired[k]
      BY <1>1, <1>i DEF Fresh
    <2>3. ASSUME NEW x \in 1 .. n, NEW y \in 1 .. n, x # y, Holds(t, x), Holds(t, y),
                 t.desired[x] = t.desired[y]
          PROVE  Heard(t, FALSE) /\ Top(t) \in {x, y}
      <3>1. (x # i => Holds(m, x)) /\ (y # i => Holds(m, y))
        BY <1>1, <2>3 DEF Holds
      <3>2. ~(x # i /\ y # i)
        BY <1>4, <1>i, <2>2, <2>3, <3>1 DEF Apart
      <3>3. Len(m.stack) > 1 /\ m.stack[Len(m.stack) - 1] \in {x, y}
        BY <1>1, <2>1, <2>2, <2>3, <3>1, <3>2
      <3>4. Len(t.stack) >= 1 /\ t.placed = FALSE
        BY <1>t, <1>2, <1>r, <3>3
      <3> QED BY <1>3, <3>3, <3>4 DEF Heard
    <2> QED BY <2>3 DEF Apart
  <1>16. Backed(pass, n, t)
    BY <1>t, <1>p, <1>i, <1>r, <1>1, <1>2, <1>3, <1>4 DEF Backed, Fresh, Stacked, Holds
  <1>17. Lent(pass, n, t)
    <2>1. ASSUME NEW y \in 1 .. n, Holds(t, y), NEW p \in 1 .. Len(t.stack), t.desired[y] = pass[t.stack[p]].at
          PROVE  p > 1 /\ t.stack[p - 1] = y
      <3>1. p \in 1 .. Len(m.stack) /\ t.stack[p] = m.stack[p] /\ (p > 1 => t.stack[p - 1] = m.stack[p - 1])
        <4>1. p \in 1 .. Len(m.stack) - 1 /\ p \in 1 .. Len(m.stack) /\ (p > 1 => p - 1 \in 1 .. Len(m.stack) - 1)
          BY <1>t, <1>2
        <4> QED BY <1>2, <4>1
      <3>2. t.stack[p] \in 1 .. n /\ t.stack[p] # i
        BY <1>3
      <3>3. y # i
        BY <1>1, <1>p, <2>1, <3>2
      <3>4. Holds(m, y) /\ m.desired[y] = pass[m.stack[p]].at
        BY <1>1, <2>1, <3>1, <3>3 DEF Holds
      <3> QED BY <1>4, <1>i, <3>1, <3>4 DEF Lent
    <2> QED BY <2>1 DEF Lent
  <1>18. Trading(pass, n, policy, t)
    BY <1>t, <1>p, <1>i, <1>r, <1>1, <1>2, <1>3, <1>4 DEF Trading
  <1>19. MachineInv(pass, n, policy, t)
    BY <1>m, <1>11, <1>12, <1>13, <1>14, <1>15, <1>16, <1>17, <1>18 DEF MachineInv
  <1>20. ASSUME NEW k \in 1 .. n
         PROVE  /\ Weight(pass, m, k) \in Nat /\ Weight(pass, t, k) \in Nat
                /\ Weight(pass, t, k) <= Weight(pass, m, k)
                /\ k = i => Weight(pass, t, k) < Weight(pass, m, k)
    <2>1. Weight(pass, m, k) \in Nat /\ Weight(pass, t, k) \in Nat
      BY <1>m, <1>i, <1>11, WeightIs
    <2>2. k # i => Weight(pass, t, k) = Weight(pass, m, k)
      BY <1>1, SameWeight
    <2>3. Weight(pass, t, i) < Weight(pass, m, i)
      <3>1. GoesOn(m, t, i)
        BY <1>t, <1>1, <1>2, <1>3, <1>4 DEF GoesOn
      <3> QED BY <1>m, <1>i, <1>11, <3>1, WeightFalls
    <2> QED BY <2>1, <2>2, <2>3
  <1>21. Below(n, Weights(pass, n, t), Weights(pass, n, m))
    <2> HIDE DEF Weight
    <2> QED BY <1>20 DEF Below, Weights
  <1> QED BY <1>19, <1>21 DEF Steps

(* A candidate that is taken is passed over. *)
LEMMA SkipSteps ==
    ASSUME NEW pass, NEW n, IsPass(pass, n), NEW policy, NEW m, MachineInv(pass, n, policy, m),
           NEW i \in 1 .. n,
           Len(m.stack) >= 1,
           i = Top(m),
           m.state[i] = "deciding",
           m.next[i] <= Len(pass[i].options),
           NEW t, Reads(n, t, m.desired, m.state,
                        [m.next EXCEPT ![i] = @ + 1], m.claimed, m.stack, m.placed)
    PROVE  Steps(pass, n, policy, m, t)
  <1>m. n \in Nat /\ m \in Machine(n) /\ t \in Machine(n)
    BY DEF IsPass, MachineInv, Reads
  <1>t. /\ m.stack \in Seq(1 .. n) /\ Len(m.stack) \in Nat /\ Len(t.stack) \in Nat
        /\ \A p \in 1 .. Len(m.stack) : m.stack[p] \in 1 .. n
        /\ m.placed \in BOOLEAN
        /\ \A k \in 1 .. n : /\ m.desired[k] \in Tiles /\ m.next[k] \in Nat \ {0}
                             /\ m.state[k] \in {"undecided", "deciding", "waiting", "decided"}
    BY <1>m, MachineFacts
  <1>p. /\ \A k \in 1 .. n : /\ pass[k].at \in Tiles /\ pass[k].active \in BOOLEAN /\ pass[k].stuck \in BOOLEAN
                             /\ pass[k].options \in Seq(Tiles) /\ Len(pass[k].options) \in Nat
        /\ \A j, k \in 1 .. n : pass[j].at = pass[k].at => j = k
    BY DEF IsPass
  <1>i. /\ Progress(pass, n, m) /\ Stacked(pass, n, m) /\ Fresh(pass, n, m) /\ Wanting(pass, n, m)
        /\ Apart(n, m) /\ Backed(pass, n, m) /\ Lent(pass, n, m) /\ Trading(pass, n, policy, m)
    BY DEF MachineInv
  <1>r. /\ t.desired = m.desired /\ t.state = m.state
        /\ t.next = [m.next EXCEPT ![i] = @ + 1] /\ t.claimed = m.claimed
        /\ t.stack = m.stack /\ t.placed = m.placed
    BY DEF Reads
  <1>d. m.desired \in [1 .. n -> Tiles] /\ DOMAIN m.state = 1 .. n /\ DOMAIN m.next = 1 .. n
    BY <1>m DEF Machine
  <1>1. /\ \A k \in 1 .. n : /\ t.state[k] = m.state[k]
                             /\ t.desired[k] = m.desired[k]
                             /\ t.next[k] = IF k = i THEN m.next[i] + 1 ELSE m.next[k]
    BY <1>d, <1>r
  <1>2. Len(t.stack) = Len(m.stack) /\ m.stack[Len(m.stack)] = i /\ \A p \in 1 .. Len(m.stack) : t.stack[p] = m.stack[p]
    BY <1>m, <1>t, <1>r, StackFacts DEF Top
  <1>11. Progress(pass, n, t)
    BY <1>t, <1>p, <1>i, <1>r, <1>1, <1>2 DEF Progress
  <1>12. Stacked(pass, n, t)
    BY <1>i, <1>r DEF Stacked
  <1>13. Fresh(pass, n, t)
    BY <1>t, <1>p, <1>i, <1>r, <1>1, <1>2 DEF Fresh
  <1>14. Wanting(pass, n, t)
    BY <1>t, <1>p, <1>i, <1>r, <1>1, <1>2 DEF Wanting
  <1>15. Apart(n, t)
    BY <1>t, <1>p, <1>i, <1>r, <1>1, <1>2 DEF Apart, Backed, Lent, Fresh, Stacked, Holds, Heard, Top
  <1>16. Backed(pass, n, t)
    BY <1>t, <1>p, <1>i, <1>r, <1>1, <1>2 DEF Backed, Fresh, Stacked, Holds
  <1>17. Lent(pass, n, t)
    BY <1>t, <1>p, <1>i, <1>r, <1>1, <1>2 DEF Lent, Backed, Fresh, Stacked, Holds, Heard, Top
  <1>18. Trading(pass, n, policy, t)
    BY <1>t, <1>p, <1>i, <1>r, <1>1, <1>2 DEF Trading
  <1>19. MachineInv(pass, n, policy, t)
    BY <1>m, <1>11, <1>12, <1>13, <1>14, <1>15, <1>16, <1>17, <1>18 DEF MachineInv
  <1>20. ASSUME NEW k \in 1 .. n
         PROVE  /\ Weight(pass, m, k) \in Nat /\ Weight(pass, t, k) \in Nat
                /\ Weight(pass, t, k) <= Weight(pass, m, k)
                /\ k = i => Weight(pass, t, k) < Weight(pass, m, k)
    <2>1. Weight(pass, m, k) \in Nat /\ Weight(pass, t, k) \in Nat
      BY <1>m, <1>i, <1>11, WeightIs
    <2>2. k # i => Weight(pass, t, k) = Weight(pass, m, k)
      BY <1>1, SameWeight
    <2>3. Weight(pass, t, i) < Weight(pass, m, i)
      <3>1. GoesOn(m, t, i)
        BY <1>t, <1>1, <1>2 DEF GoesOn
      <3> QED BY <1>m, <1>i, <1>11, <3>1, WeightFalls
    <2> QED BY <2>1, <2>2, <2>3
  <1>21. Below(n, Weights(pass, n, t), Weights(pass, n, m))
    <2> HIDE DEF Weight
    <2> QED BY <1>20 DEF Below, Weights
  <1> QED BY <1>19, <1>21 DEF Steps

(* A candidate that is free is taken. *)
LEMMA SettleSteps ==
    ASSUME NEW pass, NEW n, IsPass(pass, n), NEW policy, NEW m, MachineInv(pass, n, policy, m),
           NEW i \in 1 .. n,
           Len(m.stack) >= 1,
           i = Top(m),
           m.state[i] = "deciding",
           NEW tile \in Tiles,
           MayTake(pass, n, policy, m, i, tile),
           \A k \in 1 .. n : pass[k].at = tile /\ m.state[k] = "undecided" => tile = pass[i].at,
           NEW t, Reads(n, t, [m.desired EXCEPT ![i] = tile], [m.state EXCEPT ![i] = "decided"],
                        m.next, m.claimed \union {tile}, SubSeq(m.stack, 1, Len(m.stack) - 1), TRUE)
    PROVE  Steps(pass, n, policy, m, t)
  <1>m. n \in Nat /\ m \in Machine(n) /\ t \in Machine(n)
    BY DEF IsPass, MachineInv, Reads
  <1>t. /\ m.stack \in Seq(1 .. n) /\ Len(m.stack) \in Nat /\ Len(t.stack) \in Nat
        /\ \A p \in 1 .. Len(m.stack) : m.stack[p] \in 1 .. n
        /\ m.placed \in BOOLEAN
        /\ \A k \in 1 .. n : /\ m.desired[k] \in Tiles /\ m.next[k] \in Nat \ {0}
                             /\ m.state[k] \in {"undecided", "deciding", "waiting", "decided"}
    BY <1>m, MachineFacts
  <1>p. /\ \A k \in 1 .. n : /\ pass[k].at \in Tiles /\ pass[k].active \in BOOLEAN /\ pass[k].stuck \in BOOLEAN
                             /\ pass[k].options \in Seq(Tiles) /\ Len(pass[k].options) \in Nat
        /\ \A j, k \in 1 .. n : pass[j].at = pass[k].at => j = k
    BY DEF IsPass
  <1>i. /\ Progress(pass, n, m) /\ Stacked(pass, n, m) /\ Fresh(pass, n, m) /\ Wanting(pass, n, m)
        /\ Apart(n, m) /\ Backed(pass, n, m) /\ Lent(pass, n, m) /\ Trading(pass, n, policy, m)
    BY DEF MachineInv
  <1>r. /\ t.desired = [m.desired EXCEPT ![i] = tile] /\ t.state = [m.state EXCEPT ![i] = "decided"]
        /\ t.next = m.next /\ t.claimed = m.claimed \union {tile}
        /\ t.stack = SubSeq(m.stack, 1, Len(m.stack) - 1) /\ t.placed = TRUE
    BY DEF Reads
  <1>d. m.desired \in [1 .. n -> Tiles] /\ DOMAIN m.state = 1 .. n /\ DOMAIN m.next = 1 .. n
    BY <1>m DEF Machine
  <1>1. /\ \A k \in 1 .. n : /\ t.state[k] = IF k = i THEN "decided" ELSE m.state[k]
                             /\ t.desired[k] = IF k = i THEN tile ELSE m.desired[k]
                             /\ t.next[k] = m.next[k]
    BY <1>d, <1>r, ZenonT(40)
  <1>2. /\ Len(t.stack) = Len(m.stack) - 1 /\ m.stack[Len(m.stack)] = i
        /\ \A p \in 1 .. Len(m.stack) - 1 : t.stack[p] = m.stack[p]
    BY <1>m, <1>t, <1>r, StackFacts DEF Top
  <1>3. /\ \A p \in 1 .. Len(t.stack) : t.stack[p] \in 1 .. n /\ t.stack[p] # i /\ t.state[t.stack[p]] = "waiting"
        /\ Len(t.stack) >= 1 => Top(t) = m.stack[Len(m.stack) - 1] /\ t.state[Top(t)] = "waiting"
    <2>1. ASSUME NEW p \in 1 .. Len(t.stack)
          PROVE  t.stack[p] \in 1 .. n /\ t.stack[p] # i /\ t.state[t.stack[p]] = "waiting"
      <3>1. /\ p \in 1 .. Len(m.stack) /\ p < Len(m.stack) /\ p # Len(m.stack) /\ t.stack[p] = m.stack[p]
            /\ Len(m.stack) \in 1 .. Len(m.stack)
        BY <1>t, <1>2
      <3>2. m.stack[p] \in 1 .. n /\ m.stack[p] # i /\ m.state[m.stack[p]] = "waiting"
        BY <1>t, <1>i, <1>2, <3>1 DEF Stacked
      <3> QED BY <1>1, <3>1, <3>2
    <2>2. Len(t.stack) >= 1 => Len(t.stack) \in 1 .. Len(t.stack) /\ Top(t) = m.stack[Len(m.stack) - 1]
      BY <1>t, <1>2 DEF Top
    <2> QED BY <2>1, <2>2 DEF Top
  <1>4. /\ Len(m.stack) \in 1 .. Len(m.stack) /\ pass[i].active /\ ~pass[i].stuck
        /\ \A b \in BOOLEAN : ~Heard(m, b)
        /\ ~\A k \in 1 .. n : pass[k].active => m.state[k] = "decided"
    BY <1>t, <1>i, <1>2 DEF Stacked, Heard
  <1>11. Progress(pass, n, t)
    BY <1>t, <1>p, <1>i, <1>r, <1>1, <1>2, <1>3, <1>4 DEF Progress
  <1>12. Stacked(pass, n, t)
    <2>1. ASSUME NEW p \in 1 .. Len(t.stack)
          PROVE  /\ pass[t.stack[p]].active /\ ~pass[t.stack[p]].stuck
                 /\ \A q \in 1 .. Len(t.stack) : t.stack[p] = t.stack[q] => p = q
      <3>1. \A q \in 1 .. Len(t.stack) : q \in 1 .. Len(m.stack) /\ t.stack[q] = m.stack[q]
        BY <1>t, <1>2, SMTT(30)
      <3> QED BY <1>i, <3>1 DEF Stacked
    <2>2. ASSUME NEW k \in 1 .. n, t.state[k] \in {"deciding", "waiting"}
          PROVE  \E p \in 1 .. Len(t.stack) : t.stack[p] = k
      <3>1. k # i /\ m.state[k] \in {"deciding", "waiting"}
        BY <1>1, <2>2
      <3>2. PICK p \in 1 .. Len(m.stack) : m.stack[p] = k
        BY <1>i, <3>1 DEF Stacked
      <3>3. p \in 1 .. Len(t.stack)
        BY <1>t, <1>2, <3>1, <3>2
      <3> QED BY <1>2, <3>2, <3>3
    <2> QED BY <1>3, <2>1, <2>2 DEF Stacked
  <1>13. Fresh(pass, n, t)
    BY <1>t, <1>p, <1>i, <1>r, <1>1, <1>2, <1>3, <1>4 DEF Fresh
  <1>14. Wanting(pass, n, t)
    BY <1>t, <1>p, <1>i, <1>r, <1>1, <1>2, <1>3, <1>4, SMTT(30) DEF Wanting, MayTake
  <1>15. Apart(n, t)
    <2>1. ASSUME NEW z \in 1 .. n, Holds(m, z) PROVE m.desired[z] # tile
      <3>1. tile \notin m.claimed
        BY DEF MayTake
      <3>2. m.desired[z] \notin m.claimed => \A k \in 1 .. n : pass[k].active => m.state[k] = "decided"
        BY <1>i, <2>1 DEF Backed
      <3> QED BY <1>4, <3>1, <3>2
    <2>2. ASSUME NEW x \in 1 .. n, NEW y \in 1 .. n, x # y, Holds(t, x), Holds(t, y),
                 t.desired[x] = t.desired[y]
          PROVE  FALSE
      <3>1. (x # i => Holds(m, x)) /\ (y # i => Holds(m, y))
        BY <1>1, <2>2 DEF Holds
      <3>2. CASE x = i
        BY <1>1, <2>1, <2>2, <3>1, <3>2
      <3>3. CASE y = i
        BY <1>1, <2>1, <2>2, <3>1, <3>3
      <3>4. CASE x # i /\ y # i
        BY <1>1, <1>4, <1>i, <2>2, <3>1, <3>4 DEF Apart
      <3> QED BY <3>2, <3>3, <3>4
    <2> QED BY <2>2 DEF Apart
  <1>16. Backed(pass, n, t)
    BY <1>t, <1>p, <1>i, <1>r, <1>1, <1>2, <1>3, <1>4 DEF Backed, Fresh, Stacked, Holds
  <1>17. Lent(pass, n, t)
    <2>1. Len(t.stack) >= 1 => Heard(t, TRUE)
      BY <1>3, <1>r DEF Heard
    <2>2. ASSUME NEW p \in 1 .. Len(t.stack) PROVE Heard(t, TRUE)
      <3>1. Len(t.stack) >= 1
        BY <1>t
      <3> QED BY <2>1, <3>1
    <2> QED BY <2>2 DEF Lent
  <1>18. Trading(pass, n, policy, t)
    BY <1>t, <1>p, <1>i, <1>r, <1>1, <1>2, <1>3, <1>4, SMTT(30) DEF Trading, MayTrade, MayTake
  <1>19. MachineInv(pass, n, policy, t)
    BY <1>m, <1>11, <1>12, <1>13, <1>14, <1>15, <1>16, <1>17, <1>18 DEF MachineInv
  <1>20. ASSUME NEW k \in 1 .. n
         PROVE  /\ Weight(pass, m, k) \in Nat /\ Weight(pass, t, k) \in Nat
                /\ Weight(pass, t, k) <= Weight(pass, m, k)
                /\ k = i => Weight(pass, t, k) < Weight(pass, m, k)
    <2>1. Weight(pass, m, k) \in Nat /\ Weight(pass, t, k) \in Nat
      BY <1>m, <1>i, <1>11, WeightIs
    <2>2. k # i => Weight(pass, t, k) = Weight(pass, m, k)
      BY <1>1, SameWeight
    <2>3. Weight(pass, t, i) < Weight(pass, m, i)
      <3>1. GoesOn(m, t, i)
        BY <1>t, <1>1, <1>2, <1>3, <1>4 DEF GoesOn
      <3> QED BY <1>m, <1>i, <1>11, <3>1, WeightFalls
    <2> QED BY <2>1, <2>2, <2>3
  <1>21. Below(n, Weights(pass, n, t), Weights(pass, n, m))
    <2> HIDE DEF Weight
    <2> QED BY <1>20 DEF Below, Weights
  <1> QED BY <1>19, <1>21 DEF Steps

(* A candidate that a peer holds is taken, and the peer decides next. *)
LEMMA LendSteps ==
    ASSUME NEW pass, NEW n, IsPass(pass, n), NEW policy, NEW m, MachineInv(pass, n, policy, m),
           NEW i \in 1 .. n,
           Len(m.stack) >= 1,
           i = Top(m),
           m.state[i] = "deciding",
           NEW tile \in Tiles,
           MayTake(pass, n, policy, m, i, tile),
           tile # pass[i].at,
           NEW j \in 1 .. n,
           pass[j].at = tile,
           m.state[j] = "undecided",
           pass[j].active,
           ~pass[j].stuck,
           NEW t, Reads(n, t, [m.desired EXCEPT ![i] = tile], [[m.state EXCEPT ![i] = "waiting"] EXCEPT ![j] = "deciding"],
                        m.next, m.claimed \union {tile}, Append(m.stack, j), m.placed)
    PROVE  Steps(pass, n, policy, m, t)
  <1>m. n \in Nat /\ m \in Machine(n) /\ t \in Machine(n)
    BY DEF IsPass, MachineInv, Reads
  <1>t. /\ m.stack \in Seq(1 .. n) /\ Len(m.stack) \in Nat /\ Len(t.stack) \in Nat
        /\ \A p \in 1 .. Len(m.stack) : m.stack[p] \in 1 .. n
        /\ m.placed \in BOOLEAN
        /\ \A k \in 1 .. n : /\ m.desired[k] \in Tiles /\ m.next[k] \in Nat \ {0}
                             /\ m.state[k] \in {"undecided", "deciding", "waiting", "decided"}
    BY <1>m, MachineFacts
  <1>p. /\ \A k \in 1 .. n : /\ pass[k].at \in Tiles /\ pass[k].active \in BOOLEAN /\ pass[k].stuck \in BOOLEAN
                             /\ pass[k].options \in Seq(Tiles) /\ Len(pass[k].options) \in Nat
        /\ \A a, b \in 1 .. n : pass[a].at = pass[b].at => a = b
    BY DEF IsPass
  <1>i. /\ Progress(pass, n, m) /\ Stacked(pass, n, m) /\ Fresh(pass, n, m) /\ Wanting(pass, n, m)
        /\ Apart(n, m) /\ Backed(pass, n, m) /\ Lent(pass, n, m) /\ Trading(pass, n, policy, m)
    BY DEF MachineInv
  <1>r. /\ t.desired = [m.desired EXCEPT ![i] = tile] /\ t.state = [[m.state EXCEPT ![i] = "waiting"] EXCEPT ![j] = "deciding"]
        /\ t.next = m.next /\ t.claimed = m.claimed \union {tile}
        /\ t.stack = Append(m.stack, j) /\ t.placed = m.placed
    BY DEF Reads
  <1>d. m.desired \in [1 .. n -> Tiles] /\ DOMAIN m.state = 1 .. n /\ DOMAIN m.next = 1 .. n
    BY <1>m DEF Machine
  <1>1. /\ \A k \in 1 .. n : /\ t.state[k] = IF k = j THEN "deciding" ELSE IF k = i THEN "waiting" ELSE m.state[k]
                             /\ t.desired[k] = IF k = i THEN tile ELSE m.desired[k]
                             /\ t.next[k] = m.next[k]
    BY <1>d, <1>r
  <1>2. /\ Len(t.stack) = Len(m.stack) + 1 /\ m.stack[Len(m.stack)] = i /\ t.stack[Len(m.stack) + 1] = j
        /\ \A p \in 1 .. Len(m.stack) : t.stack[p] = m.stack[p]
    BY <1>m, <1>t, <1>r, StackFacts DEF Top
  <1>4. /\ Len(m.stack) \in 1 .. Len(m.stack) /\ i # j
        /\ \A b \in BOOLEAN : ~Heard(m, b)
        /\ \A p \in 1 .. Len(m.stack) : m.stack[p] # j
        /\ m.next[i] <= Len(pass[i].options) /\ tile = pass[i].options[m.next[i]]
        /\ tile \notin m.claimed
    <2>1. Len(m.stack) \in 1 .. Len(m.stack) /\ i # j
      BY <1>t
    <2>2. \A b \in BOOLEAN : ~Heard(m, b)
      BY DEF Heard
    <2>3. \A p \in 1 .. Len(m.stack) : m.stack[p] # j
      BY <1>i DEF Stacked
    <2> QED BY <2>1, <2>2, <2>3 DEF MayTake
  <1>a. pass[i].active /\ ~pass[i].stuck /\ ~\A k \in 1 .. n : pass[k].active => m.state[k] = "decided"
    BY <1>i, <1>2, <1>4 DEF Stacked
  <1>5. ASSUME NEW z \in 1 .. n, Holds(m, z)
        PROVE  m.desired[z] # tile /\ m.desired[z] \in m.claimed /\ z \notin {i, j}
    <2>1. m.desired[z] \notin m.claimed => \A k \in 1 .. n : pass[k].active => m.state[k] = "decided"
      BY <1>i, <1>5 DEF Backed
    <2>2. z \notin {i, j}
      BY <1>5 DEF Holds
    <2> QED BY <1>4, <1>a, <2>1, <2>2
  <1>6. (\A k \in 1 .. n : pass[k].at = tile => k = j) /\ m.desired[j] = tile
    BY <1>p, <1>i DEF Fresh
  <1>7. \A k \in 1 .. n : Holds(t, k) => k = i \/ Holds(m, k)
    BY <1>1, <1>5 DEF Holds
  <1>8. ASSUME NEW p \in 1 .. Len(m.stack)
        PROVE  /\ m.stack[p] \in 1 .. n /\ m.stack[p] # j /\ t.state[m.stack[p]] = "waiting"
               /\ pass[m.stack[p]].active /\ ~pass[m.stack[p]].stuck
    <2>1. m.stack[p] \in 1 .. n /\ m.stack[p] # j /\ pass[m.stack[p]].active /\ ~pass[m.stack[p]].stuck
      BY <1>t, <1>4, <1>i DEF Stacked
    <2>2. p = Len(m.stack) \/ p < Len(m.stack)
      BY <1>t
    <2>3. m.stack[p] = i \/ m.state[m.stack[p]] = "waiting"
      BY <1>2, <1>i, <2>2 DEF Stacked
    <2> QED BY <1>1, <2>1, <2>3
  <1>9. ASSUME NEW y \in 1 .. n, Holds(m, y), NEW p \in 1 .. Len(m.stack), m.desired[y] = pass[m.stack[p]].at
        PROVE  p > 1 /\ m.stack[p - 1] = y
    BY <1>i, <1>4, <1>9 DEF Lent
  <1>11. Progress(pass, n, t)
    BY <1>p, <1>i, <1>1, <1>4, SMTT(30) DEF Progress
  <1>12. Stacked(pass, n, t)
    <2>1. \A p \in 1 .. Len(t.stack) : p = Len(m.stack) + 1 \/ p \in 1 .. Len(m.stack)
      BY <1>t, <1>2
    <2>2. ASSUME NEW p \in 1 .. Len(t.stack)
          PROVE  /\ t.state[t.stack[p]] \in {"deciding", "waiting"}
                 /\ p < Len(t.stack) => t.state[t.stack[p]] = "waiting"
                 /\ pass[t.stack[p]].active /\ ~pass[t.stack[p]].stuck
      <3>1. CASE p = Len(m.stack) + 1
        BY <1>t, <1>1, <1>2, <3>1
      <3>2. CASE p \in 1 .. Len(m.stack)
        BY <1>2, <1>8, <3>2
      <3> QED BY <2>1, <3>1, <3>2
    <2>3. ASSUME NEW p \in 1 .. Len(t.stack), NEW q \in 1 .. Len(t.stack), t.stack[p] = t.stack[q]
          PROVE  p = q
      <3>1. CASE p \in 1 .. Len(m.stack) /\ q \in 1 .. Len(m.stack)
        BY <1>2, <1>i, <2>3, <3>1 DEF Stacked
      <3>2. CASE p \notin 1 .. Len(m.stack) \/ q \notin 1 .. Len(m.stack)
        BY <1>2, <1>8, <2>1, <2>3, <3>2
      <3> QED BY <3>1, <3>2
    <2>4. ASSUME NEW k \in 1 .. n, t.state[k] \in {"deciding", "waiting"}
          PROVE  \E p \in 1 .. Len(t.stack) : t.stack[p] = k
      <3>1. CASE k = j
        <4>1. Len(m.stack) + 1 \in 1 .. Len(t.stack)
          BY <1>t, <1>2
        <4> QED BY <1>2, <3>1, <4>1
      <3>2. CASE k # j
        <4>1. m.state[k] \in {"deciding", "waiting"}
          BY <1>1, <2>4, <3>2
        <4>2. PICK p \in 1 .. Len(m.stack) : m.stack[p] = k
          BY <1>i, <4>1 DEF Stacked
        <4>3. p \in 1 .. Len(t.stack)
          BY <1>t, <1>2
        <4> QED BY <1>2, <4>2, <4>3
      <3> QED BY <3>1, <3>2
    <2> QED BY <2>2, <2>3, <2>4 DEF Stacked
  <1>13. Fresh(pass, n, t)
    <2>1. ASSUME NEW k \in 1 .. n, t.state[k] = "undecided"
          PROVE  t.desired[k] = pass[k].at /\ pass[k].at \notin t.claimed
      <3>1. k # i /\ k # j /\ m.state[k] = "undecided"
        BY <1>1, <1>4, <2>1
      <3>2. pass[k].at # tile /\ m.desired[k] = pass[k].at /\ pass[k].at \notin m.claimed
        BY <1>6, <1>i, <3>1 DEF Fresh
      <3> QED BY <1>1, <1>r, <3>1, <3>2
    <2>2. ASSUME NEW k \in 1 .. n, t.state[k] \in {"deciding", "waiting"}
          PROVE  /\ t.state[k] = "deciding" => t.desired[k] = pass[k].at
                 /\ t.state[k] = "waiting" => t.desired[k] # pass[k].at
      BY <1>1, <1>4, <1>i, <2>2 DEF Fresh
    <2> QED BY <2>1, <2>2 DEF Fresh
  <1>14. Wanting(pass, n, t)
    <2>1. m.next[i] \in 1 .. Len(pass[i].options)
      BY <1>t, <1>p, <1>4
    <2> QED BY <1>p, <1>i, <1>1, <1>4, <1>a, <2>1, SMTT(30) DEF Wanting
  <1>15. Apart(n, t)
    <2>1. ASSUME NEW x \in 1 .. n, NEW y \in 1 .. n, x # y, Holds(t, x), Holds(t, y),
                 t.desired[x] = t.desired[y]
          PROVE  FALSE
      <3>1. CASE x = i \/ y = i
        BY <1>1, <1>5, <1>7, <2>1, <3>1
      <3>2. CASE x # i /\ y # i
        BY <1>1, <1>4, <1>7, <1>i, <2>1, <3>2 DEF Apart
      <3> QED BY <3>1, <3>2
    <2> QED BY <2>1 DEF Apart
  <1>16. Backed(pass, n, t)
    <2>1. \A y \in 1 .. n : Holds(t, y) => t.desired[y] \in t.claimed
      BY <1>r, <1>1, <1>5, <1>6, <1>7
    <2> QED BY <2>1 DEF Backed
  <1>17. Lent(pass, n, t)
    <2>1. ASSUME NEW y \in 1 .. n, Holds(t, y), NEW p \in 1 .. Len(t.stack), t.desired[y] = pass[t.stack[p]].at
          PROVE  p > 1 /\ t.stack[p - 1] = y
      <3>1. p = Len(m.stack) + 1 \/ p \in 1 .. Len(m.stack)
        BY <1>t, <1>2
      <3>2. CASE p = Len(m.stack) + 1
        <4>1. p > 1 /\ p - 1 = Len(m.stack) /\ t.stack[p - 1] = i /\ t.stack[p] = j
          BY <1>t, <1>2, <1>4, <3>2
        <4>2. y = i
          BY <1>1, <1>5, <1>7, <2>1, <4>1
        <4> QED BY <4>1, <4>2
      <3>3. CASE p \in 1 .. Len(m.stack)
        <4>1. t.stack[p] = m.stack[p] /\ (p > 1 => t.stack[p - 1] = m.stack[p - 1])
          <5>1. p > 1 => p - 1 \in 1 .. Len(m.stack)
            BY <1>t, <3>3
          <5> QED BY <1>2, <3>3, <5>1
        <4>2. y # i
          BY <1>1, <1>6, <1>8, <2>1, <3>3, <4>1
        <4>3. Holds(m, y) /\ m.desired[y] = pass[m.stack[p]].at
          BY <1>1, <1>7, <2>1, <4>1, <4>2
        <4> QED BY <1>9, <3>3, <4>1, <4>3
      <3> QED BY <3>1, <3>2, <3>3
    <2> QED BY <2>1 DEF Lent
  <1>18. Trading(pass, n, policy, t)
    <2>1. \A k \in 1 .. n : pass[k].at = tile /\ m.desired[k] = pass[i].at =>
              MayTrade(pass[i].retries, pass[k].retries, policy)
      BY DEF MayTake
    <2>2. \A a, b : MayTrade(a, b, policy) => MayTrade(b, a, policy)
      BY DEF MayTrade
    <2> QED BY <1>i, <1>1, <2>1, <2>2 DEF Trading
  <1>19. MachineInv(pass, n, policy, t)
    BY <1>m, <1>11, <1>12, <1>13, <1>14, <1>15, <1>16, <1>17, <1>18 DEF MachineInv
  <1>20. ASSUME NEW k \in 1 .. n
         PROVE  /\ Weight(pass, m, k) \in Nat /\ Weight(pass, t, k) \in Nat
                /\ Weight(pass, t, k) <= Weight(pass, m, k)
                /\ k = i => Weight(pass, t, k) < Weight(pass, m, k)
    <2>1. Weight(pass, m, k) \in Nat /\ Weight(pass, t, k) \in Nat
      BY <1>m, <1>i, <1>11, WeightIs
    <2>2. k \notin {i, j} => Weight(pass, t, k) = Weight(pass, m, k)
      BY <1>1, SameWeight
    <2>3. GoesOn(m, t, i) /\ GoesOn(m, t, j)
      BY <1>t, <1>1, <1>2, <1>4 DEF GoesOn
    <2>4. Weight(pass, t, i) < Weight(pass, m, i)
      BY <1>m, <1>i, <1>11, <2>3, WeightFalls
    <2>5. Weight(pass, t, j) < Weight(pass, m, j)
      BY <1>m, <1>i, <1>11, <2>3, WeightFalls
    <2> QED BY <2>1, <2>2, <2>4, <2>5
  <1>21. Below(n, Weights(pass, n, t), Weights(pass, n, m))
    <2> HIDE DEF Weight
    <2> QED BY <1>20 DEF Below, Weights
  <1> QED BY <1>19, <1>21 DEF Steps

(* A peer that cannot leave its tile fails at once, and its claim stays. *)
LEMMA RefuseSteps ==
    ASSUME NEW pass, NEW n, IsPass(pass, n), NEW policy, NEW m, MachineInv(pass, n, policy, m),
           NEW i \in 1 .. n,
           Len(m.stack) >= 1,
           i = Top(m),
           m.state[i] = "deciding",
           NEW tile \in Tiles,
           MayTake(pass, n, policy, m, i, tile),
           tile # pass[i].at,
           NEW j \in 1 .. n,
           pass[j].at = tile,
           m.state[j] = "undecided",
           NEW t, Reads(n, t, [m.desired EXCEPT ![i] = tile], [[m.state EXCEPT ![i] = "waiting"] EXCEPT ![j] = "decided"],
                        m.next, (m.claimed \union {tile}) \union {pass[j].at}, m.stack, FALSE)
    PROVE  Steps(pass, n, policy, m, t)
  <1>m. n \in Nat /\ m \in Machine(n) /\ t \in Machine(n)
    BY DEF IsPass, MachineInv, Reads
  <1>t. /\ m.stack \in Seq(1 .. n) /\ Len(m.stack) \in Nat /\ Len(t.stack) \in Nat
        /\ \A p \in 1 .. Len(m.stack) : m.stack[p] \in 1 .. n
        /\ m.placed \in BOOLEAN
        /\ \A k \in 1 .. n : /\ m.desired[k] \in Tiles /\ m.next[k] \in Nat \ {0}
                             /\ m.state[k] \in {"undecided", "deciding", "waiting", "decided"}
    BY <1>m, MachineFacts
  <1>p. /\ \A k \in 1 .. n : /\ pass[k].at \in Tiles /\ pass[k].active \in BOOLEAN /\ pass[k].stuck \in BOOLEAN
                             /\ pass[k].options \in Seq(Tiles) /\ Len(pass[k].options) \in Nat
        /\ \A a, b \in 1 .. n : pass[a].at = pass[b].at => a = b
    BY DEF IsPass
  <1>i. /\ Progress(pass, n, m) /\ Stacked(pass, n, m) /\ Fresh(pass, n, m) /\ Wanting(pass, n, m)
        /\ Apart(n, m) /\ Backed(pass, n, m) /\ Lent(pass, n, m) /\ Trading(pass, n, policy, m)
    BY DEF MachineInv
  <1>r. /\ t.desired = [m.desired EXCEPT ![i] = tile] /\ t.state = [[m.state EXCEPT ![i] = "waiting"] EXCEPT ![j] = "decided"]
        /\ t.next = m.next /\ t.claimed = (m.claimed \union {tile}) \union {pass[j].at}
        /\ t.stack = m.stack /\ t.placed = FALSE
    BY DEF Reads
  <1>d. m.desired \in [1 .. n -> Tiles] /\ DOMAIN m.state = 1 .. n /\ DOMAIN m.next = 1 .. n
    BY <1>m DEF Machine
  <1>1. /\ \A k \in 1 .. n : /\ t.state[k] = IF k = j THEN "decided" ELSE IF k = i THEN "waiting" ELSE m.state[k]
                             /\ t.desired[k] = IF k = i THEN tile ELSE m.desired[k]
                             /\ t.next[k] = m.next[k]
    BY <1>d, <1>r
  <1>2. /\ Len(t.stack) = Len(m.stack) /\ m.stack[Len(m.stack)] = i
        /\ \A p \in 1 .. Len(m.stack) : t.stack[p] = m.stack[p]
    BY <1>m, <1>t, <1>r, StackFacts DEF Top
  <1>4. /\ Len(m.stack) \in 1 .. Len(m.stack) /\ i # j
        /\ \A b \in BOOLEAN : ~Heard(m, b)
        /\ \A p \in 1 .. Len(m.stack) : m.stack[p] # j
        /\ m.next[i] <= Len(pass[i].options) /\ tile = pass[i].options[m.next[i]]
        /\ tile \notin m.claimed
    <2>1. Len(m.stack) \in 1 .. Len(m.stack) /\ i # j
      BY <1>t
    <2>2. \A b \in BOOLEAN : ~Heard(m, b)
      BY DEF Heard
    <2>3. \A p \in 1 .. Len(m.stack) : m.stack[p] # j
      BY <1>i DEF Stacked
    <2> QED BY <2>1, <2>2, <2>3 DEF MayTake
  <1>a. pass[i].active /\ ~pass[i].stuck /\ ~\A k \in 1 .. n : pass[k].active => m.state[k] = "decided"
    BY <1>i, <1>2, <1>4 DEF Stacked
  <1>5. ASSUME NEW z \in 1 .. n, Holds(m, z)
        PROVE  m.desired[z] # tile /\ m.desired[z] \in m.claimed /\ z \notin {i, j}
    <2>1. m.desired[z] \notin m.claimed => \A k \in 1 .. n : pass[k].active => m.state[k] = "decided"
      BY <1>i, <1>5 DEF Backed
    <2>2. z \notin {i, j}
      BY <1>5 DEF Holds
    <2> QED BY <1>4, <1>a, <2>1, <2>2
  <1>6. (\A k \in 1 .. n : pass[k].at = tile => k = j) /\ m.desired[j] = tile
    BY <1>p, <1>i DEF Fresh
  <1>7. \A k \in 1 .. n : Holds(t, k) => k \in {i, j} \/ Holds(m, k)
    BY <1>1, <1>5 DEF Holds
  <1>8. ASSUME NEW p \in 1 .. Len(m.stack)
        PROVE  /\ m.stack[p] \in 1 .. n /\ m.stack[p] # j /\ t.state[m.stack[p]] = "waiting"
               /\ pass[m.stack[p]].active /\ ~pass[m.stack[p]].stuck
    <2>1. m.stack[p] \in 1 .. n /\ m.stack[p] # j /\ pass[m.stack[p]].active /\ ~pass[m.stack[p]].stuck
      BY <1>t, <1>4, <1>i DEF Stacked
    <2>2. p = Len(m.stack) \/ p < Len(m.stack)
      BY <1>t
    <2>3. m.stack[p] = i \/ m.state[m.stack[p]] = "waiting"
      BY <1>2, <1>i, <2>2 DEF Stacked
    <2> QED BY <1>1, <2>1, <2>3
  <1>9. ASSUME NEW y \in 1 .. n, Holds(m, y), NEW p \in 1 .. Len(m.stack), m.desired[y] = pass[m.stack[p]].at
        PROVE  p > 1 /\ m.stack[p - 1] = y
    BY <1>i, <1>4, <1>9 DEF Lent
  <1>11. Progress(pass, n, t)
    BY <1>p, <1>i, <1>1, <1>4, SMTT(30) DEF Progress
  <1>12. Stacked(pass, n, t)
    <2>1. ASSUME NEW k \in 1 .. n, t.state[k] \in {"deciding", "waiting"}
          PROVE  \E p \in 1 .. Len(t.stack) : t.stack[p] = k
      <3>1. m.state[k] \in {"deciding", "waiting"}
        BY <1>1, <2>1
      <3> QED BY <1>i, <1>2, <1>r, <3>1 DEF Stacked
    <2>2. ASSUME NEW p \in 1 .. Len(t.stack), NEW q \in 1 .. Len(t.stack), t.stack[p] = t.stack[q]
          PROVE  p = q
      BY <1>i, <1>r, <2>2 DEF Stacked
    <2> QED BY <1>2, <1>8, <2>1, <2>2 DEF Stacked
  <1>13. Fresh(pass, n, t)
    <2>1. ASSUME NEW k \in 1 .. n, t.state[k] = "undecided"
          PROVE  t.desired[k] = pass[k].at /\ pass[k].at \notin t.claimed
      <3>1. k # i /\ k # j /\ m.state[k] = "undecided"
        BY <1>1, <1>4, <2>1
      <3>2. pass[k].at # tile /\ m.desired[k] = pass[k].at /\ pass[k].at \notin m.claimed
        BY <1>6, <1>i, <3>1 DEF Fresh
      <3> QED BY <1>1, <1>r, <3>1, <3>2
    <2>2. ASSUME NEW k \in 1 .. n, t.state[k] \in {"deciding", "waiting"}
          PROVE  /\ t.state[k] = "deciding" => t.desired[k] = pass[k].at
                 /\ t.state[k] = "waiting" => t.desired[k] # pass[k].at
      BY <1>1, <1>4, <1>i, <2>2, SMTT(30) DEF Fresh
    <2> QED BY <2>1, <2>2 DEF Fresh
  <1>14. Wanting(pass, n, t)
    <2>1. m.next[i] \in 1 .. Len(pass[i].options)
      BY <1>t, <1>p, <1>4
    <2> QED BY <1>p, <1>i, <1>1, <1>4, <1>a, <2>1, SMTT(30) DEF Wanting
  <1>15. Apart(n, t)
    <2>1. Heard(t, FALSE) /\ Top(t) = i
      BY <1>t, <1>r, <1>1, <1>2, <1>4 DEF Heard, Top
    <2>2. ASSUME NEW x \in 1 .. n, NEW y \in 1 .. n, x # y, Holds(t, x), Holds(t, y),
                 t.desired[x] = t.desired[y]
          PROVE  i \in {x, y}
      <3>1. CASE x = j /\ y # i
        BY <1>1, <1>5, <1>6, <1>7, <2>2, <3>1
      <3>2. CASE y = j /\ x # i
        BY <1>1, <1>5, <1>6, <1>7, <2>2, <3>2
      <3>3. CASE x \notin {i, j} /\ y \notin {i, j}
        BY <1>1, <1>4, <1>7, <1>i, <2>2, <3>3 DEF Apart
      <3> QED BY <2>2, <3>1, <3>2, <3>3
    <2> QED BY <2>1, <2>2 DEF Apart
  <1>16. Backed(pass, n, t)
    <2>1. \A y \in 1 .. n : Holds(t, y) => t.desired[y] \in t.claimed
      BY <1>r, <1>1, <1>5, <1>6, <1>7
    <2> QED BY <2>1 DEF Backed
  <1>17. Lent(pass, n, t)
    <2>1. ASSUME NEW y \in 1 .. n, Holds(t, y), NEW p \in 1 .. Len(t.stack), t.desired[y] = pass[t.stack[p]].at
          PROVE  p > 1 /\ t.stack[p - 1] = y
      <3>1. p \in 1 .. Len(m.stack) /\ t.stack = m.stack
        BY <1>r
      <3>2. y \notin {i, j}
        BY <1>1, <1>6, <1>8, <2>1, <3>1
      <3>3. Holds(m, y) /\ m.desired[y] = pass[m.stack[p]].at
        BY <1>1, <1>7, <2>1, <3>1, <3>2
      <3> QED BY <1>9, <3>1, <3>3
    <2> QED BY <2>1 DEF Lent
  <1>18. Trading(pass, n, policy, t)
    <2>1. \A k \in 1 .. n : pass[k].at = tile /\ m.desired[k] = pass[i].at =>
              MayTrade(pass[i].retries, pass[k].retries, policy)
      BY DEF MayTake
    <2>2. \A a, b : MayTrade(a, b, policy) => MayTrade(b, a, policy)
      BY DEF MayTrade
    <2> QED BY <1>i, <1>1, <2>1, <2>2 DEF Trading
  <1>19. MachineInv(pass, n, policy, t)
    BY <1>m, <1>11, <1>12, <1>13, <1>14, <1>15, <1>16, <1>17, <1>18 DEF MachineInv
  <1>20. ASSUME NEW k \in 1 .. n
         PROVE  /\ Weight(pass, m, k) \in Nat /\ Weight(pass, t, k) \in Nat
                /\ Weight(pass, t, k) <= Weight(pass, m, k)
                /\ k = i => Weight(pass, t, k) < Weight(pass, m, k)
    <2>1. Weight(pass, m, k) \in Nat /\ Weight(pass, t, k) \in Nat
      BY <1>m, <1>i, <1>11, WeightIs
    <2>2. k \notin {i, j} => Weight(pass, t, k) = Weight(pass, m, k)
      BY <1>1, SameWeight
    <2>3. GoesOn(m, t, i) /\ GoesOn(m, t, j)
      BY <1>t, <1>1, <1>2, <1>4 DEF GoesOn
    <2>4. Weight(pass, t, i) < Weight(pass, m, i)
      BY <1>m, <1>i, <1>11, <2>3, WeightFalls
    <2>5. Weight(pass, t, j) < Weight(pass, m, j)
      BY <1>m, <1>i, <1>11, <2>3, WeightFalls
    <2> QED BY <2>1, <2>2, <2>4, <2>5
  <1>21. Below(n, Weights(pass, n, t), Weights(pass, n, m))
    <2> HIDE DEF Weight
    <2> QED BY <1>20 DEF Below, Weights
  <1> QED BY <1>19, <1>21 DEF Steps

(* Among the agents that are left there is a first in decision order, and it *)
(* has no live goal only if none of them has. *)
LEMMA FirstExists ==
    ASSUME NEW pass, NEW n, IsPass(pass, n), NEW U \in SUBSET (1 .. n), U # {}
    PROVE  LET i == CHOOSE k \in U : \A j \in U \ {k} : Before(pass, k, j) IN
           /\ i \in U
           /\ ~pass[i].active => \A j \in U : ~pass[j].active
  <1> DEFINE i == CHOOSE k \in U : \A j \in U \ {k} : Before(pass, k, j)
             T == {ElapsedLimit - pass[k].elapsed : k \in U}
  <1>0. /\ n \in Nat /\ ElapsedLimit \in Nat
        /\ \A k \in 1 .. n : pass[k].elapsed \in 0 .. ElapsedLimit /\ (pass[k].active <=> pass[k].elapsed # 0)
    BY SpanFacts DEF IsPass
  <1>1. T \in SUBSET Nat /\ T # {}
    <2>1. \A k \in U : ElapsedLimit - pass[k].elapsed \in Nat
      BY <1>0
    <2> QED BY <2>1
  <1>2. PICK a \in T : \A b \in T : a <= b
    <2> HIDE DEF T
    <2> QED BY <1>1, LeastNumber
  <1>3. PICK k0 \in U : a = ElapsedLimit - pass[k0].elapsed
    BY <1>2
  <1>4. \A k \in U : pass[k].elapsed <= pass[k0].elapsed
    <2>1. ASSUME NEW k \in U PROVE pass[k].elapsed <= pass[k0].elapsed
      <3>1. a <= ElapsedLimit - pass[k].elapsed
        BY <1>2
      <3>2. pass[k].elapsed \in Int /\ pass[k0].elapsed \in Int
        BY <1>0
      <3> QED BY <1>0, <1>3, <3>1, <3>2
    <2> QED BY <2>1
  <1> DEFINE V == {k \in U : pass[k].elapsed = pass[k0].elapsed}
  <1>5. PICK k \in V : \A j \in V : k <= j
    <2>1. V \in SUBSET Nat /\ V # {}
      <3>1. U \in SUBSET Nat
        BY <1>0
      <3>2. k0 \in V
        OBVIOUS
      <3> QED BY <3>1, <3>2
    <2> HIDE DEF V
    <2> QED BY <2>1, LeastNumber
  <1>6. ASSUME NEW j \in U \ {k} PROVE Before(pass, k, j)
    <2>1. pass[k].elapsed = pass[k0].elapsed /\ pass[j].elapsed \in Int /\ pass[k].elapsed \in Int
      BY <1>0, <1>5
    <2>2. pass[j].elapsed <= pass[k].elapsed
      BY <1>4, <2>1
    <2>3. pass[j].elapsed = pass[k].elapsed => k <= j
      BY <1>5, <2>1
    <2>4. j \in Int /\ k \in Int /\ j # k
      BY <1>0, <1>5
    <2> QED BY <2>1, <2>2, <2>3, <2>4 DEF Before
  <1>7. i \in U /\ \A j \in U \ {i} : Before(pass, i, j)
    <2>1. \E x \in U : \A j \in U \ {x} : Before(pass, x, j)
      BY <1>5, <1>6
    <2> QED BY <2>1
  <1> HIDE DEF i
  <1>8. ASSUME ~pass[i].active, NEW j \in U PROVE ~pass[j].active
    <2>1. pass[i].elapsed = 0 /\ pass[j].elapsed \in Nat
      BY <1>0, <1>7, <1>8
    <2>2. j # i => pass[i].elapsed > pass[j].elapsed \/ pass[i].elapsed = pass[j].elapsed
      BY <1>7 DEF Before
    <2>3. pass[j].elapsed = 0
      BY <2>1, <2>2
    <2> QED BY <1>0, <2>3
  <1> QED BY <1>7, <1>8 DEF i

(* Turning to the next agent is a step of the machine. *)
LEMMA TurnedSteps ==
    ASSUME NEW pass, NEW n, IsPass(pass, n), NEW policy, NEW m, MachineInv(pass, n, policy, m),
           m.stack = <<>>, Undecided(m) # {}
    PROVE  Steps(pass, n, policy, m, Turned(pass, m))
  <1>1. n \in Nat /\ m \in Machine(n) /\ (\A k \in 1 .. n : pass[k].at \in Tiles /\ pass[k].active \in BOOLEAN /\ pass[k].stuck \in BOOLEAN)
    BY DEF IsPass, MachineInv
  <1>2. Undecided(m) = {k \in 1 .. n : m.state[k] = "undecided"}
    BY <1>1 DEF Undecided, Machine
  <1> DEFINE i == CHOOSE k \in Undecided(m) : \A j \in Undecided(m) \ {k} : Before(pass, k, j)
  <1>3. i \in Undecided(m) /\ (~pass[i].active => \A j \in Undecided(m) : ~pass[j].active)
    BY <1>2, FirstExists
  <1>4. Turned(pass, m) = IF pass[i].active THEN Started(pass, m, i) ELSE Settled(m, i, FALSE)
    BY DEF Turned
  <1> HIDE DEF i
  <1>5. i \in 1 .. n /\ m.state[i] = "undecided"
        /\ (~pass[i].active => \A k \in 1 .. n : m.state[k] = "undecided" => ~pass[k].active)
    BY <1>2, <1>3
  <1>6. CASE ~pass[i].active
    <2>1. Reads(n, Settled(m, i, FALSE), m.desired, [m.state EXCEPT ![i] = "decided"], m.next, m.claimed, m.stack, FALSE)
      BY <1>1, <1>5, SettledReads
    <2> QED BY <1>4, <1>5, <1>6, <2>1, IdleSteps
  <1>7. CASE pass[i].active /\ ~pass[i].stuck
    <2> DEFINE t == [m EXCEPT !.state[i] = "deciding", !.stack = Append(@, i)]
    <2>1. Reads(n, t, m.desired, [m.state EXCEPT ![i] = "deciding"], m.next, m.claimed, Append(m.stack, i), m.placed)
      BY <1>1, <1>5, PushedReads
    <2>2. Turned(pass, m) = t
      BY <1>4, <1>7 DEF Started
    <2> HIDE DEF t
    <2> QED BY <1>5, <1>7, <2>1, <2>2, StartSteps
  <1>8. CASE pass[i].active /\ pass[i].stuck
    <2> DEFINE u == [m EXCEPT !.claimed = @ \union {pass[i].at}]
    <2>1. Reads(n, u, m.desired, m.state, m.next, m.claimed \union {pass[i].at}, m.stack, m.placed)
      BY <1>1, <1>5, ClaimedReads
    <2>2. Turned(pass, m) = Settled(u, i, FALSE)
      BY <1>4, <1>8 DEF Started
    <2> HIDE DEF u
    <2>3. Reads(n, Settled(u, i, FALSE), u.desired, [u.state EXCEPT ![i] = "decided"], u.next, u.claimed, u.stack, FALSE)
      <3>1. u \in Machine(n)
        BY <2>1 DEF Reads
      <3> QED BY <1>1, <1>5, <3>1, SettledReads
    <2>4. Reads(n, Settled(u, i, FALSE), m.desired, [m.state EXCEPT ![i] = "decided"], m.next, m.claimed \union {pass[i].at}, m.stack, FALSE)
      BY <2>1, <2>3 DEF Reads
    <2> QED BY <1>5, <1>8, <2>2, <2>4, StuckSteps
  <1> QED BY <1>1, <1>5, <1>6, <1>7, <1>8

(* Hearing from a peer is a step of the machine. *)
LEMMA ResumedSteps ==
    ASSUME NEW pass, NEW n, IsPass(pass, n), NEW policy, NEW m, MachineInv(pass, n, policy, m),
           NEW i \in 1 .. n, Len(m.stack) >= 1, i = Top(m), m.state[i] = "waiting"
    PROVE  Steps(pass, n, policy, m, Resumed(pass, m, i))
  <1>1. n \in Nat /\ m \in Machine(n) /\ pass[i].at \in Tiles
    BY DEF IsPass, MachineInv
  <1>2. m.placed \in BOOLEAN
    BY <1>1, MachineFacts
  <1>3. CASE m.placed
    <2> DEFINE u == Settled(m, i, TRUE)
    <2>1. Reads(n, u, m.desired, [m.state EXCEPT ![i] = "decided"], m.next, m.claimed, m.stack, TRUE)
      BY <1>1, SettledReads
    <2>2. Resumed(pass, m, i) = Popped(u)
      BY <1>3 DEF Resumed
    <2> HIDE DEF u
    <2>3. Reads(n, Popped(u), u.desired, u.state, u.next, u.claimed, SubSeq(u.stack, 1, Len(u.stack) - 1), u.placed)
      BY <1>1, <2>1, PoppedReads DEF Reads
    <2>4. Reads(n, Popped(u), m.desired, [m.state EXCEPT ![i] = "decided"], m.next, m.claimed,
                SubSeq(m.stack, 1, Len(m.stack) - 1), TRUE)
      BY <2>1, <2>3 DEF Reads
    <2> QED BY <1>3, <2>2, <2>4, HeardSteps
  <1>4. CASE ~m.placed
    <2> DEFINE t == [m EXCEPT !.desired[i] = pass[i].at, !.next[i] = @ + 1, !.state[i] = "deciding"]
    <2>1. Reads(n, t, [m.desired EXCEPT ![i] = pass[i].at], [m.state EXCEPT ![i] = "deciding"],
                [m.next EXCEPT ![i] = @ + 1], m.claimed, m.stack, m.placed)
      BY <1>1, RetriedReads
    <2>2. Resumed(pass, m, i) = t
      BY <1>4 DEF Resumed
    <2> HIDE DEF t
    <2> QED BY <1>4, <2>1, <2>2, RetrySteps
  <1> QED BY <1>2, <1>3, <1>4

(* So is running out of candidates. *)
LEMMA ExhaustingSteps ==
    ASSUME NEW pass, NEW n, IsPass(pass, n), NEW policy, NEW m, MachineInv(pass, n, policy, m),
           NEW i \in 1 .. n, Len(m.stack) >= 1, i = Top(m), m.state[i] = "deciding"
    PROVE  Steps(pass, n, policy, m, Exhausting(pass, m, i))
  <1>1. n \in Nat /\ m \in Machine(n) /\ pass[i].at \in Tiles
    BY DEF IsPass, MachineInv
  <1> DEFINE at == pass[i].at
             u == [m EXCEPT !.claimed = @ \union {at}, !.desired[i] = at]
             v == Settled(u, i, FALSE)
  <1>2. Reads(n, u, [m.desired EXCEPT ![i] = at], m.state, m.next, m.claimed \union {at}, m.stack, m.placed)
    BY <1>1, TakenReads
  <1>3. Exhausting(pass, m, i) = Popped(v)
    BY DEF Exhausting
  <1> HIDE DEF u, at
  <1>4. Reads(n, v, u.desired, [u.state EXCEPT ![i] = "decided"], u.next, u.claimed, u.stack, FALSE)
    <2>1. u \in Machine(n)
      BY <1>2 DEF Reads
    <2> QED BY <1>1, <2>1, SettledReads DEF v
  <1> HIDE DEF v
  <1>5. Reads(n, Popped(v), v.desired, v.state, v.next, v.claimed, SubSeq(v.stack, 1, Len(v.stack) - 1), v.placed)
    BY <1>1, <1>2, <1>4, PoppedReads DEF Reads
  <1>6. Reads(n, Popped(v), [m.desired EXCEPT ![i] = at], [m.state EXCEPT ![i] = "decided"], m.next,
              m.claimed \union {at}, SubSeq(m.stack, 1, Len(m.stack) - 1), FALSE)
    BY <1>2, <1>4, <1>5 DEF Reads
  <1> QED BY <1>3, <1>6, ExhaustSteps DEF at

(* And so is trying a candidate, whoever holds it. *)
LEMMA TriedSteps ==
    ASSUME NEW pass, NEW n, IsPass(pass, n), NEW policy \in SwapPolicies,
           NEW m, MachineInv(pass, n, policy, m),
           NEW i \in 1 .. n, Len(m.stack) >= 1, i = Top(m), m.state[i] = "deciding",
           m.next[i] <= Len(pass[i].options)
    PROVE  Steps(pass, n, policy, m, Tried(pass, m, i, policy))
  <1>1. /\ n \in Nat /\ m \in Machine(n) /\ DOMAIN pass = 1 .. n
        /\ \A k \in 1 .. n : pass[k].at \in Tiles /\ pass[k].active \in BOOLEAN /\ pass[k].stuck \in BOOLEAN
    BY DEF IsPass, MachineInv
  <1> DEFINE tile == pass[i].options[m.next[i]]
             peers == {k \in Occupants(pass, tile) : tile # pass[i].at /\ m.state[k] = "undecided"}
             taken == [m EXCEPT !.claimed = @ \union {tile}, !.desired[i] = tile]
             waits == [taken EXCEPT !.state[i] = "waiting"]
  <1>2. tile \in Tiles
    <2>1. pass[i].options \in Seq(Tiles)
      BY DEF IsPass
    <2>2. m.next[i] \in 1 .. Len(pass[i].options)
      BY <1>1, <2>1, MachineFacts
    <2> QED BY <2>1, <2>2
  <1>3. Tried(pass, m, i, policy)
           = IF tile \in m.claimed \/ SwapDenied(pass, m, i, tile, policy)
             THEN [m EXCEPT !.next[i] = @ + 1]
             ELSE IF peers = {} THEN Popped(Settled(taken, i, TRUE))
             ELSE Started(pass, waits, CHOOSE k \in peers : TRUE)
    BY DEF Tried
  <1>4. \A k \in peers : k \in 1 .. n /\ pass[k].at = tile /\ tile # pass[i].at /\ m.state[k] = "undecided"
    BY <1>1 DEF Occupants
  <1>5. peers = {} => \A k \in 1 .. n : pass[k].at = tile /\ m.state[k] = "undecided" => tile = pass[i].at
    BY <1>1 DEF Occupants
  <1>6. Reads(n, taken, [m.desired EXCEPT ![i] = tile], m.state, m.next, m.claimed \union {tile}, m.stack, m.placed)
    <2> HIDE DEF tile
    <2> QED BY <1>1, <1>2, TakenReads
  <1>7. taken \in Machine(n)
    BY <1>6 DEF Reads
  <1>8. ~(tile \in m.claimed \/ SwapDenied(pass, m, i, tile, policy)) => MayTake(pass, n, policy, m, i, tile)
    <2> HIDE DEF tile
    <2>1. ASSUME tile \notin m.claimed, ~SwapDenied(pass, m, i, tile, policy),
                 NEW k \in 1 .. n, pass[k].at = tile, m.desired[k] = pass[i].at, tile # pass[i].at
          PROVE  MayTrade(pass[i].retries, pass[k].retries, policy)
      <3>1. k \in Occupants(pass, tile)
        BY <1>1, <2>1 DEF Occupants
      <3>2. ~(/\ policy # "Permit"
              /\ policy = "PermitOnDeadlock" =>
                    pass[i].retries < DeadlockTicks \/ pass[k].retries < DeadlockTicks)
        BY <2>1, <3>1 DEF SwapDenied
      <3>3. pass[i].retries \in Nat /\ pass[k].retries \in Nat /\ DeadlockTicks \in Nat
        BY DeadlockTicksAssumption DEF IsPass
      <3> QED BY <3>2, <3>3 DEF MayTrade
    <2> QED BY <2>1 DEF MayTake, tile
  <1>9. CASE tile \in m.claimed \/ SwapDenied(pass, m, i, tile, policy)
    <2> DEFINE t == [m EXCEPT !.next[i] = @ + 1]
    <2>1. Reads(n, t, m.desired, m.state, [m.next EXCEPT ![i] = @ + 1], m.claimed, m.stack, m.placed)
      BY <1>1, SkippedReads
    <2>2. Tried(pass, m, i, policy) = t
      BY <1>3, <1>9
    <2> HIDE DEF t, tile, peers, taken, waits
    <2> QED BY <2>1, <2>2, SkipSteps
  <1>10. ASSUME MayTake(pass, n, policy, m, i, tile), peers = {}, Tried(pass, m, i, policy) = Popped(Settled(taken, i, TRUE))
         PROVE  Steps(pass, n, policy, m, Tried(pass, m, i, policy))
    <2> DEFINE v == Settled(taken, i, TRUE)
    <2> HIDE DEF tile, taken, peers
    <2>1. Reads(n, v, taken.desired, [taken.state EXCEPT ![i] = "decided"], taken.next, taken.claimed, taken.stack, TRUE)
      BY <1>1, <1>7, SettledReads
    <2> HIDE DEF v
    <2>2. v \in Machine(n) /\ Len(v.stack) >= 1
      BY <1>6, <2>1 DEF Reads
    <2>3. Reads(n, Popped(v), v.desired, v.state, v.next, v.claimed, SubSeq(v.stack, 1, Len(v.stack) - 1), v.placed)
      BY <1>1, <2>2, PoppedReads
    <2>4. Reads(n, Popped(v), [m.desired EXCEPT ![i] = tile], [m.state EXCEPT ![i] = "decided"], m.next,
                m.claimed \union {tile}, SubSeq(m.stack, 1, Len(m.stack) - 1), TRUE)
      BY <1>6, <2>1, <2>3 DEF Reads
    <2>5. Tried(pass, m, i, policy) = Popped(v)
      BY <1>10 DEF v
    <2> QED BY <1>2, <1>5, <1>10, <2>4, <2>5, SettleSteps
  <1>11. ASSUME MayTake(pass, n, policy, m, i, tile), NEW j \in peers, Tried(pass, m, i, policy) = Started(pass, waits, j)
         PROVE  Steps(pass, n, policy, m, Tried(pass, m, i, policy))
    <2>1. j \in 1 .. n /\ pass[j].at = tile /\ tile # pass[i].at /\ m.state[j] = "undecided"
      BY <1>4
    <2> HIDE DEF tile, peers
    <2>w. Reads(n, waits, taken.desired, [taken.state EXCEPT ![i] = "waiting"], taken.next, taken.claimed, taken.stack, taken.placed)
      <3> HIDE DEF taken
      <3> QED BY <1>1, <1>7, WaitingReads
    <2> HIDE DEF taken, waits
    <2>2. Reads(n, waits, [m.desired EXCEPT ![i] = tile], [m.state EXCEPT ![i] = "waiting"], m.next,
                m.claimed \union {tile}, m.stack, m.placed)
      BY <1>6, <2>w DEF Reads
    <2>3. waits \in Machine(n)
      BY <2>2 DEF Reads
    <2>4. CASE pass[j].active /\ ~pass[j].stuck
      <3> DEFINE t == [waits EXCEPT !.state[j] = "deciding", !.stack = Append(@, j)]
      <3>1. Reads(n, t, waits.desired, [waits.state EXCEPT ![j] = "deciding"], waits.next, waits.claimed,
                  Append(waits.stack, j), waits.placed)
        BY <1>1, <2>1, <2>3, PushedReads
      <3>2. Tried(pass, m, i, policy) = t
        BY <1>11, <2>4 DEF Started
      <3> HIDE DEF t
      <3>3. Reads(n, t, [m.desired EXCEPT ![i] = tile], [[m.state EXCEPT ![i] = "waiting"] EXCEPT ![j] = "deciding"],
                  m.next, m.claimed \union {tile}, Append(m.stack, j), m.placed)
        BY <2>2, <3>1 DEF Reads
      <3> QED BY <1>2, <1>11, <2>1, <2>4, <3>2, <3>3, LendSteps
    <2>5. CASE ~(pass[j].active /\ ~pass[j].stuck)
      <3> DEFINE at == pass[j].at
                 u == [waits EXCEPT !.claimed = @ \union {at}]
      <3>1. Reads(n, u, waits.desired, waits.state, waits.next, waits.claimed \union {at}, waits.stack, waits.placed)
        BY <1>1, <2>1, <2>3, ClaimedReads
      <3>2. Tried(pass, m, i, policy) = Settled(u, j, FALSE)
        BY <1>11, <2>5 DEF Started
      <3> HIDE DEF u, at
      <3>3. u \in Machine(n)
        BY <3>1 DEF Reads
      <3>4. Reads(n, Settled(u, j, FALSE), u.desired, [u.state EXCEPT ![j] = "decided"], u.next, u.claimed, u.stack, FALSE)
        BY <1>1, <2>1, <3>3, SettledReads
      <3>5. Reads(n, Settled(u, j, FALSE), [m.desired EXCEPT ![i] = tile],
                  [[m.state EXCEPT ![i] = "waiting"] EXCEPT ![j] = "decided"],
                  m.next, (m.claimed \union {tile}) \union {pass[j].at}, m.stack, FALSE)
        BY <2>2, <3>1, <3>4, ZenonT(40) DEF Reads, at
      <3> QED BY <1>2, <1>11, <2>1, <3>2, <3>5, RefuseSteps
    <2> QED BY <2>4, <2>5
  <1>12. CASE ~(tile \in m.claimed \/ SwapDenied(pass, m, i, tile, policy))
    <2>1. MayTake(pass, n, policy, m, i, tile)
      BY <1>8, <1>12
    <2> HIDE DEF taken, waits, peers, tile
    <2>2. CASE peers = {}
      BY <1>3, <1>10, <1>12, <2>1, <2>2
    <2>3. CASE peers # {}
      <3>1. (CHOOSE k \in peers : TRUE) \in peers
        BY <2>3
      <3> QED BY <1>3, <1>11, <1>12, <2>1, <2>3, <3>1
    <2> QED BY <2>2, <2>3
  <1> QED BY <1>9, <1>12

\* Nobody is left to decide.
Final(m) == m.stack = <<>> /\ Undecided(m) = {}

(* Until nobody is left to decide, every step of the machine is one. *)
LEMMA DecidingSteps ==
    ASSUME NEW pass, NEW n, IsPass(pass, n), NEW policy \in SwapPolicies,
           NEW m, MachineInv(pass, n, policy, m)
    PROVE  LET t == Deciding(pass, m, policy) IN
           IF Final(m) THEN t = m ELSE Steps(pass, n, policy, m, t)
  <1> DEFINE i == m.stack[Len(m.stack)]
  <1>1. n \in Nat /\ m \in Machine(n) /\ Stacked(pass, n, m)
    BY DEF IsPass, MachineInv
  <1>2. m.stack \in Seq(1 .. n) /\ Len(m.stack) \in Nat
    BY <1>1, MachineFacts
  <1>3. CASE m.stack = <<>>
    <2>1. CASE Undecided(m) = {}
      BY <1>3, <2>1 DEF Deciding, Final
    <2>2. CASE Undecided(m) # {}
      <3>1. Deciding(pass, m, policy) = Turned(pass, m)
        BY <1>3, <2>2 DEF Deciding
      <3> QED BY <1>3, <2>2, <3>1, TurnedSteps DEF Final
    <2> QED BY <2>1, <2>2
  <1>4. CASE m.stack # <<>>
    <2>1. Len(m.stack) >= 1 /\ Len(m.stack) \in 1 .. Len(m.stack)
      BY <1>1, <1>2, <1>4, StackFacts
    <2>2. i \in 1 .. n /\ i = Top(m) /\ m.state[i] \in {"deciding", "waiting"}
      BY <1>1, <2>1, MachineFacts DEF Stacked, Top
    <2>3. ~Final(m)
      BY <1>4 DEF Final
    <2>4. Deciding(pass, m, policy) =
             CASE m.state[i] = "waiting"              -> Resumed(pass, m, i)
               [] m.state[i] = "deciding"
                  /\ m.next[i] > Len(pass[i].options) -> Exhausting(pass, m, i)
               [] OTHER                               -> Tried(pass, m, i, policy)
      BY <1>4 DEF Deciding
    <2> HIDE DEF i
    <2>5. CASE m.state[i] = "waiting"
      <3>1. Deciding(pass, m, policy) = Resumed(pass, m, i)
        BY <2>4, <2>5
      <3> QED BY <2>1, <2>2, <2>3, <2>5, <3>1, ResumedSteps
    <2>6. CASE m.state[i] = "deciding" /\ m.next[i] > Len(pass[i].options)
      <3>1. Deciding(pass, m, policy) = Exhausting(pass, m, i)
        BY <2>4, <2>6
      <3> QED BY <2>1, <2>2, <2>3, <2>6, <3>1, ExhaustingSteps
    <2>7. CASE m.state[i] = "deciding" /\ ~(m.next[i] > Len(pass[i].options))
      <3>1. Deciding(pass, m, policy) = Tried(pass, m, i, policy)
        BY <2>4, <2>7
      <3>2. m.next[i] \in Nat /\ Len(pass[i].options) \in Nat
        BY <1>1, <2>2, MachineFacts DEF IsPass
      <3>3. m.next[i] <= Len(pass[i].options)
        BY <2>7, <3>2
      <3> QED BY <2>1, <2>2, <2>3, <2>7, <3>1, <3>3, TriedSteps
    <2> QED BY <2>2, <2>5, <2>6, <2>7
  <1> QED BY <1>3, <1>4

(* The machine starts with as much to do as the bound on its steps. *)
LEMMA UndecidingStarts ==
    ASSUME NEW pass, NEW n, IsPass(pass, n), NEW policy
    PROVE  LET m == Undeciding(pass) IN
           /\ MachineInv(pass, n, policy, m)
           /\ MostSteps(pass) = Total(n, Weights(pass, n, m))
  <1> DEFINE m == Undeciding(pass)
  <1>p. /\ n \in Nat /\ pass = [i \in 1 .. n |-> pass[i]]
        /\ \A i \in 1 .. n : pass[i].at \in Tiles /\ pass[i].options \in Seq(Tiles) /\ Len(pass[i].options) \in Nat
        /\ \A i, j \in 1 .. n : pass[i].at = pass[j].at => i = j
    BY DEF IsPass
  <1>d. DOMAIN pass = 1 .. n /\ Len(pass) = n
    BY <1>p
  <1>1. /\ Once([i \in 1 .. n |-> pass[i].at]) = [i \in 1 .. n |-> pass[i].at]
        /\ Once([i \in 1 .. n |-> "undecided"]) = [i \in 1 .. n |-> "undecided"]
        /\ Once([i \in 1 .. n |-> 1]) = [i \in 1 .. n |-> 1]
    <2> DEFINE a == [i \in 1 .. n |-> pass[i].at]
               b == [i \in 1 .. n |-> "undecided"]
               c == [i \in 1 .. n |-> 1]
    <2>1. a = [i \in 1 .. n |-> a[i]] /\ b = [i \in 1 .. n |-> b[i]] /\ c = [i \in 1 .. n |-> c[i]]
      OBVIOUS
    <2> HIDE DEF a, b, c
    <2>2. Once(a) = a /\ Once(b) = b /\ Once(c) = c
      BY <1>p, <2>1, OnceIs
    <2> QED BY <2>2 DEF a, b, c
  <1>2. /\ m.desired = [i \in 1 .. n |-> pass[i].at] /\ m.state = [i \in 1 .. n |-> "undecided"]
        /\ m.next = [i \in 1 .. n |-> 1] /\ m.claimed = {} /\ m.stack = <<>> /\ m.placed = FALSE
        /\ m = [desired |-> m.desired, state |-> m.state, next |-> m.next, claimed |-> m.claimed,
                stack |-> m.stack, placed |-> m.placed]
    BY <1>d, <1>1 DEF Undeciding
  <1> HIDE DEF m
  <1>3. m \in Machine(n)
    <2>1. /\ m.desired \in [1 .. n -> Tiles]
          /\ m.state \in [1 .. n -> {"undecided", "deciding", "waiting", "decided"}]
          /\ m.next \in [1 .. n -> Nat \ {0}] /\ m.claimed \in SUBSET Tiles /\ m.stack \in Seq(1 .. n)
          /\ m.placed \in BOOLEAN
      <3>1. m.desired \in [1 .. n -> Tiles]
        BY <1>p, <1>2
      <3>2. m.state \in [1 .. n -> {"undecided", "deciding", "waiting", "decided"}]
        BY <1>2
      <3>3. m.next \in [1 .. n -> Nat \ {0}]
        BY <1>2
      <3>4. <<>> \in Seq(1 .. n)
        OBVIOUS
      <3> QED BY <1>2, <3>1, <3>2, <3>3, <3>4
    <2> QED BY <1>2, <2>1 DEF Machine
  <1>4. /\ \A k \in 1 .. n : m.state[k] = "undecided" /\ m.next[k] = 1 /\ m.desired[k] = pass[k].at
        /\ Len(m.stack) = 0 /\ m.claimed = {}
    BY <1>2
  <1>5. MachineInv(pass, n, policy, m)
    <2>1. Progress(pass, n, m) /\ Fresh(pass, n, m) /\ Wanting(pass, n, m)
      BY <1>4 DEF Progress, Fresh, Wanting
    <2>2. Stacked(pass, n, m)
      BY <1>4 DEF Stacked
    <2>3. Apart(n, m) /\ Backed(pass, n, m) /\ Lent(pass, n, m)
      BY <1>4 DEF Apart, Backed, Lent, Holds
    <2>4. Trading(pass, n, policy, m)
      BY <1>4, <1>p DEF Trading
    <2> QED BY <1>3, <2>1, <2>2, <2>3, <2>4 DEF MachineInv
  <1>6. MostSteps(pass) = Total(n, Weights(pass, n, m))
    <2> DEFINE w == Weights(pass, n, m)
    <2>1. \A k \in 1 .. n : w[k] = 2 * Len(pass[k].options) + 2
      BY <1>4 DEF Weights, Weight
    <2> HIDE DEF w
    <2>2. PICK f : /\ f[0] = 0
                   /\ \A k \in 1 .. n : f[k] = f[k - 1] + 2 * Len(pass[k].options) + 2
                   /\ MostSteps(pass) = f[n]
      BY <1>p, <1>d, MostStepsUnfolds
    <2>3. PICK g : /\ g[0] = 0
                   /\ \A k \in 1 .. n : g[k] = g[k - 1] + w[k]
                   /\ Total(n, w) = g[n]
      BY <1>p, TotalUnfolds
    <2> DEFINE S == {k \in 0 .. n : f[k] \in Nat /\ f[k] = g[k]}
    <2>4. 0 \in S
      BY <1>p, <2>2, <2>3
    <2>5. ASSUME NEW k \in 1 .. n, k - 1 \in S PROVE k \in S
      <3> DEFINE l == Len(pass[k].options)
      <3>1. l \in Nat /\ f[k - 1] \in Nat /\ f[k - 1] = g[k - 1] /\ f[k] = f[k - 1] + 2 * l + 2 /\ g[k] = g[k - 1] + w[k]
            /\ w[k] = 2 * l + 2
        BY <1>p, <2>1, <2>2, <2>3, <2>5
      <3> HIDE DEF l
      <3>2. f[k] \in Nat /\ f[k] = g[k]
        BY <3>1
      <3> QED BY <3>2, <1>p
    <2>6. n \in S
      <3> HIDE DEF S
      <3>1. \A k \in 1 .. n : k - 1 \in S => k \in S
        BY <2>5
      <3>2. \A k \in 0 .. n : k \in S
        BY <1>p, <2>4, <3>1, BoundedInduction
      <3> QED BY <1>p, <3>2
    <2>7. f[n] = g[n]
      BY <2>6
    <2> QED BY <2>2, <2>3, <2>7 DEF w
  <1> QED BY <1>5, <1>6 DEF m

\* What the driver may rely on when it applies a configuration.
ConfigurationIsSafe(pass, desired, policy) ==
    /\ \A i \in DOMAIN pass : desired[i] # pass[i].at =>
          /\ pass[i].active /\ ~pass[i].stuck
          /\ \E p \in 1 .. Len(pass[i].options) : desired[i] = pass[i].options[p]
    /\ \A i, k \in DOMAIN pass :
          /\ desired[i] = desired[k] => i = k
          /\ i # k /\ desired[i] = pass[k].at /\ desired[k] = pass[i].at =>
                MayTrade(pass[i].retries, pass[k].retries, policy)

\* f follows the decision machine of a pass from its start.
IsDeciding(pass, policy, f) ==
    /\ f[0] = Undeciding(pass)
    /\ \A k \in 1 .. MostSteps(pass) : f[k] = Deciding(pass, f[k - 1], policy)

(* What is left to try is a number, and MostSteps is that number at the start. *)
LEMMA MostStepsIs ==
    ASSUME NEW pass, NEW n, IsPass(pass, n), NEW policy \in SwapPolicies
    PROVE  /\ \A m : MachineInv(pass, n, policy, m) =>
                  /\ Weights(pass, n, m) \in [1 .. n -> Nat]
                  /\ Total(n, Weights(pass, n, m)) \in Nat
           /\ MachineInv(pass, n, policy, Undeciding(pass))
           /\ MostSteps(pass) = Total(n, Weights(pass, n, Undeciding(pass)))
           /\ MostSteps(pass) \in Nat
  <1> DEFINE N == MostSteps(pass)
             left(m) == Total(n, Weights(pass, n, m))
  <1>0. n \in Nat /\ DOMAIN pass = 1 .. n
    BY DEF IsPass
  <1>w. ASSUME NEW m, MachineInv(pass, n, policy, m)
        PROVE  Weights(pass, n, m) \in [1 .. n -> Nat] /\ left(m) \in Nat
    <2>1. ASSUME NEW k \in 1 .. n PROVE Weight(pass, m, k) \in Nat
      <3>1. m \in Machine(n) /\ Progress(pass, n, m)
        BY <1>w DEF MachineInv
      <3> QED BY <3>1, WeightIs
    <2>2. Weights(pass, n, m) \in [1 .. n -> Nat]
      <3> HIDE DEF Weight
      <3> QED BY <2>1 DEF Weights
    <2> QED BY <1>0, <2>2, TotalFacts
  <1>1. MachineInv(pass, n, policy, Undeciding(pass)) /\ N = left(Undeciding(pass)) /\ N \in Nat
    <2>1. MachineInv(pass, n, policy, Undeciding(pass)) /\ N = left(Undeciding(pass))
      BY UndecidingStarts
    <2> HIDE DEF N, left
    <2> QED BY <1>w, <2>1
  <1> QED BY <1>w, <1>1

(* The decision machine stops: after MostSteps steps its stack is empty and   *)
(* everybody has decided, because every step lowers the sum of what each      *)
(* agent has left to try. (run_decision, with inheritance and backtracking.)  *)
THEOREM DecidingEnds ==
    ASSUME NEW pass, NEW n, IsPass(pass, n), NEW policy \in SwapPolicies,
           NEW f, IsDeciding(pass, policy, f)
    PROVE  LET m == f[MostSteps(pass)] IN
           /\ m.stack = <<>> /\ \A k \in 1 .. n : m.state[k] = "decided"
           /\ MachineInv(pass, n, policy, m)
  <1> DEFINE N == MostSteps(pass)
             left(m) == Total(n, Weights(pass, n, m))
  <1>0. n \in Nat /\ DOMAIN pass = 1 .. n
    BY DEF IsPass
  <1>w. ASSUME NEW m, MachineInv(pass, n, policy, m)
        PROVE  Weights(pass, n, m) \in [1 .. n -> Nat] /\ left(m) \in Nat
    BY <1>w, MostStepsIs
  <1>1. MachineInv(pass, n, policy, Undeciding(pass)) /\ N = left(Undeciding(pass)) /\ N \in Nat
    BY MostStepsIs
  <1>2. f[0] = Undeciding(pass) /\ \A k \in 1 .. N : f[k] = Deciding(pass, f[k - 1], policy)
    BY DEF IsDeciding
  <1> DEFINE S == {k \in 0 .. N : MachineInv(pass, n, policy, f[k]) /\ (Final(f[k]) \/ left(f[k]) + k <= N)}
  <1>3. 0 \in S
    <2>1. 0 \in 0 .. N /\ MachineInv(pass, n, policy, f[0]) /\ left(f[0]) + 0 <= N
      <3> HIDE DEF N, left
      <3> QED BY <1>1, <1>2
    <2> QED BY <2>1
  <1>4. ASSUME NEW k \in 1 .. N, k - 1 \in S PROVE k \in S
    <2> DEFINE m == f[k - 1]
               t == f[k]
    <2>1. MachineInv(pass, n, policy, m) /\ (Final(m) \/ left(m) + (k - 1) <= N)
      BY <1>4
    <2>2. t = Deciding(pass, m, policy)
      BY <1>2
    <2>k. k \in 0 .. N /\ k \in Nat /\ N \in Nat
      BY <1>1
    <2> HIDE DEF m, t, N
    <2>3. CASE Final(m)
      <3>1. t = m
        BY <2>1, <2>2, <2>3, DecidingSteps
      <3>2. MachineInv(pass, n, policy, t) /\ Final(t)
        BY <2>1, <2>3, <3>1
      <3> HIDE DEF left
      <3> QED BY <2>k, <3>2 DEF t
    <2>4. CASE ~Final(m)
      <3>1. Steps(pass, n, policy, m, t)
        BY <2>1, <2>2, <2>4, DecidingSteps
      <3>2. MachineInv(pass, n, policy, t) /\ Below(n, Weights(pass, n, t), Weights(pass, n, m))
        BY <3>1 DEF Steps
      <3>3. left(t) < left(m)
        BY <1>0, <3>2, TotalFalls
      <3>4. left(t) \in Nat /\ left(m) \in Nat
        BY <1>w, <2>1, <3>2
      <3> HIDE DEF left
      <3>5. left(t) + k <= N
        BY <2>k, <2>1, <2>4, <3>3, <3>4
      <3> QED BY <2>k, <3>2, <3>5 DEF t
    <2> QED BY <2>3, <2>4
  <1>5. N \in S
    <2> HIDE DEF S, N
    <2>1. \A k \in 1 .. N : k - 1 \in S => k \in S
      BY <1>4
    <2>2. \A k \in 0 .. N : k \in S
      BY <1>1, <1>3, <2>1, BoundedInduction
    <2> QED BY <1>1, <2>2
  <1> DEFINE m == f[N]
  <1>6. MachineInv(pass, n, policy, m) /\ (Final(m) \/ left(m) + N <= N)
    BY <1>5
  <1> HIDE DEF m, N
  <1>7. m.stack = <<>> /\ \A k \in 1 .. n : m.state[k] = "decided"
    <2>0. m \in Machine(n) /\ Progress(pass, n, m) /\ Stacked(pass, n, m)
      BY <1>6 DEF MachineInv
    <2>1. CASE Final(m)
      <3>1. Undecided(m) = {} /\ m.stack = <<>> /\ DOMAIN m.state = 1 .. n
        BY <2>0, <2>1 DEF Final, Machine
      <3>2. \A k \in 1 .. n : m.state[k] \notin {"deciding", "waiting"}
        <4>1. Len(m.stack) = 0
          BY <3>1
        <4> QED BY <2>0, <4>1 DEF Stacked
      <3>3. \A k \in 1 .. n : m.state[k] # "undecided"
        BY <3>1 DEF Undecided
      <3> QED BY <1>0, <2>0, <3>1, <3>2, <3>3, MachineFacts
    <2>2. CASE left(m) + N <= N
      <3>1. left(m) \in Nat /\ Weights(pass, n, m) \in [1 .. n -> Nat]
        BY <1>w, <1>6
      <3>2. left(m) = 0
        <4> HIDE DEF left
        <4> QED BY <1>1, <2>2, <3>1
      <3>3. ASSUME NEW k \in 1 .. n PROVE Weight(pass, m, k) = 0
        <4>1. Weights(pass, n, m)[k] = 0
          BY <1>0, <3>1, <3>2, TotalFacts
        <4> HIDE DEF Weight
        <4> QED BY <4>1 DEF Weights
      <3>4. ASSUME NEW k \in 1 .. n PROVE m.state[k] = "decided"
        <4> DEFINE l == Len(pass[k].options)
                   x == m.next[k]
        <4>1. /\ l \in Nat /\ x \in Nat /\ m.state[k] \in {"undecided", "deciding", "waiting", "decided"}
              /\ m.state[k] = "deciding" => x <= l + 1
              /\ m.state[k] = "waiting" => x <= l
          BY <1>0, <2>0, MachineFacts DEF IsPass, Progress
        <4>2. /\ m.state[k] = "undecided" => 0 = 2 * l + 2
              /\ m.state[k] = "deciding" => 0 = 2 * (l - x) + 3
              /\ m.state[k] = "waiting" => 0 = 2 * (l - x) + 2
          BY <2>0, <3>3, WeightIs
        <4> HIDE DEF l, x
        <4> QED BY <4>1, <4>2
      <3>5. m.stack = <<>>
        <4>1. Len(m.stack) \in Nat /\ (Len(m.stack) = 0 => m.stack = <<>>)
          BY <1>0, <2>0, MachineFacts, StackFacts
        <4>2. Len(m.stack) >= 1 => m.state[m.stack[1]] \in {"deciding", "waiting"} /\ m.stack[1] \in 1 .. n
          BY <1>0, <2>0, MachineFacts DEF Stacked
        <4> QED BY <3>4, <4>1, <4>2
      <3> QED BY <3>4, <3>5
    <2> QED BY <1>6, <2>1, <2>2
  <1> QED BY <1>6, <1>7 DEF m, N

(* A pass ends with agents on tiles of their own; whoever moves has a live goal *)
(* and moves to one of its candidates; and two agents trade places only where   *)
(* the swap policy says so. (advance_path_agents_with_pibt, SwapPolicy.)        *)
THEOREM DecidedSafe ==
    ASSUME NEW pass, NEW n, IsPass(pass, n), NEW policy \in SwapPolicies
    PROVE  ConfigurationIsSafe(pass, Decided(pass, policy), policy)
  <1> DEFINE N == MostSteps(pass)
  <1>0. n \in Nat /\ DOMAIN pass = 1 .. n
    BY DEF IsPass
  <1>1. N \in Nat
    BY MostStepsIs
  <1>2. PICK f : /\ f[0] = Undeciding(pass)
                 /\ \A k \in 1 .. N : f[k] = Deciding(pass, f[k - 1], policy)
                 /\ Decided(pass, policy) = f[N].desired
    BY <1>1, DecidedUnfolds
  <1> DEFINE m == f[N]
  <1>7. Decided(pass, policy) = m.desired
    BY <1>2
  <1>8. /\ m.stack = <<>> /\ \A k \in 1 .. n : m.state[k] = "decided"
        /\ MachineInv(pass, n, policy, m)
    <2>1. IsDeciding(pass, policy, f)
      BY <1>2 DEF IsDeciding
    <2> QED BY <2>1, DecidingEnds
  <1> HIDE DEF m, N
  <1>9. Wanting(pass, n, m) /\ Apart(n, m) /\ Trading(pass, n, policy, m)
    BY <1>8 DEF MachineInv
  <1>10. ASSUME NEW i \in 1 .. n, NEW k \in 1 .. n, m.desired[i] = m.desired[k] PROVE i = k
    <2>1. Len(m.stack) = 0
      BY <1>8
    <2> QED BY <1>8, <1>9, <1>10, <2>1 DEF Apart, Holds, Heard
  <1> QED BY <1>0, <1>7, <1>9, <1>10 DEF ConfigurationIsSafe, Wanting, Trading

-----------------------------------------------------------------------------
(* The driver that applies the decisions.                                  *)

\* s once its priorities have aged
AgedState(s) == [s EXCEPT !.elapsed = Once([i \in Agents |-> Aged(s, i)])]

(* Priorities age within their range, and an agent has one while its goal is live. *)
LEMMA AgedSound ==
    ASSUME NEW s, NEW current \in BOOLEAN, Sound(s, current)
    PROVE  LET u == AgedState(s) IN
           /\ Sound(u, current) /\ Reaches(s, u) /\ u.agents = s.agents
           /\ \A i \in Agents : Outstanding(u.agents[i]) <=> u.elapsed[i] # 0
  <1> DEFINE e == [i \in Agents |-> Aged(s, i)]
             u == AgedState(s)
  <1>1. s \in MoveState /\ Fits(s, current) /\ Placed(s) /\ Counted(s)
    BY DEF Sound
  <1>2. ASSUME NEW i \in Agents
        PROVE  Aged(s, i) \in 0 .. ElapsedLimit /\ (Outstanding(s.agents[i]) <=> Aged(s, i) # 0)
    <2>1. s.elapsed[i] \in 0 .. ElapsedLimit /\ ElapsedLimit \in Nat \ {0}
      BY <1>1, MoveStateFields, SpanFacts
    <2> QED BY <2>1 DEF Aged
  <1>3. Once(e) = e
    <2>1. e = [i \in 1 .. Len(Starts) |-> e[i]] /\ Len(Starts) \in Nat
      BY SpanFacts
    <2> HIDE DEF e
    <2> QED BY <2>1, OnceIs
  <1>4. e \in [Agents -> 0 .. ElapsedLimit] /\ \A i \in Agents : e[i] # 0 <=> Outstanding(s.agents[i])
    BY <1>2
  <1>5. u = [s EXCEPT !.elapsed = e]
    BY <1>3 DEF AgedState
  <1> HIDE DEF e, u
  <1>6. /\ u \in MoveState /\ u.agents = s.agents /\ u.routes = s.routes /\ u.occupied = s.occupied
        /\ u.reserved = s.reserved /\ u.elapsed = e /\ u.searched = s.searched /\ u.flow = s.flow
    BY <1>1, <1>4, <1>5 DEF MoveState
  <1>7. Sound(u, current)
    BY <1>1, <1>6 DEF Sound, Fits, Placed, Counted, At
  <1>8. Reaches(s, u)
    BY <1>6 DEF Reaches
  <1> QED BY <1>4, <1>6, <1>7, <1>8 DEF u

\* A tile that a candidate of agent i may be.
MayEnter(s, i, tile) ==
    \/ tile = s.agents[i].position
    \/ /\ tile \in Tiles \ (walls \union s.reserved)
       /\ tile \in s.occupied => \E k \in Agents : s.agents[k].position = tile

(* The pass that the driver decides on. *)
LEMMA PassOfIsPass ==
    ASSUME NEW s, NEW current \in BOOLEAN, Sound(s, current),
           \A i \in Agents : Outstanding(s.agents[i]) <=> s.elapsed[i] # 0,
           NEW oracle \in Oracles
    PROVE  LET pass == PassOf(s, oracle) IN
           /\ IsPass(pass, Len(Starts)) /\ DOMAIN pass = Agents
           /\ \A i \in Agents :
                 /\ pass[i].at = s.agents[i].position /\ pass[i].retries = s.agents[i].retries
                 /\ pass[i].active <=> Outstanding(s.agents[i])
                 /\ \A p \in 1 .. Len(pass[i].options) : MayEnter(s, i, pass[i].options[p])
  <1> DEFINE E(i) == [at      |-> s.agents[i].position,
                      active  |-> Outstanding(s.agents[i]),
                      stuck   |-> s.agents[i].position \in walls,
                      options |-> IF Outstanding(s.agents[i]) THEN Candidates(s, i, oracle)
                                  ELSE <<>>,
                      retries |-> s.agents[i].retries,
                      elapsed |-> s.elapsed[i]]
             pass == PassOf(s, oracle)
             n == Len(Starts)
  <1>1. n \in Nat /\ Agents = 1 .. n
    BY SpanFacts
  <1>2. s \in MoveState /\ Fits(s, current) /\ Placed(s)
    BY DEF Sound
  <1>3. pass = [i \in Agents |-> E(i)]
    <2> DEFINE g == [i \in Agents |-> E(i)]
    <2>1. g = [i \in 1 .. n |-> g[i]]
      BY <1>1
    <2>2. pass = Once(g)
      BY DEF PassOf
    <2> HIDE DEF g, pass
    <2>3. Once(g) = g
      BY <1>1, <2>1, OnceIs
    <2> QED BY <2>2, <2>3 DEF g
  <1> HIDE DEF pass
  <1>4. ASSUME NEW i \in Agents, Outstanding(s.agents[i])
        PROVE  /\ Candidates(s, i, oracle) \in Seq(Tiles)
               /\ \A p \in 1 .. Len(Candidates(s, i, oracle)) : MayEnter(s, i, Candidates(s, i, oracle)[p])
    <2> DEFINE at   == s.agents[i].position
               goal == s.agents[i].goal
               free == {t \in Neighbors[at] \ (walls \union s.reserved) :
                           t \in s.occupied => \E k \in Agents : s.agents[k].position = t}
               set  == free \union {at}
    <2>1. goal \in Tiles
      <3>1. goal \in Tiles \union {NoTile} /\ FitsRoute(s.agents[i], s.routes[i], current)
        BY <1>2, MoveStateFields DEF Fits
      <3>2. goal # NoTile
        BY <1>4, <3>1 DEF FitsRoute, Outstanding
      <3> QED BY <3>1, <3>2
    <2>2. oracle[goal] \in Seq(Tiles)
      <3>1. oracle \in [Tiles -> Seq(Tiles)]
        BY PathAgentsAssumption
      <3> QED BY <2>1, <3>1
    <2>3. Candidates(s, i, oracle) = Among(oracle[goal], set)
      BY DEF Candidates
    <2>4. ASSUME NEW x \in Tiles \intersect set PROVE MayEnter(s, i, x)
      BY DEF MayEnter
    <2> HIDE DEF set, goal
    <2> QED BY <2>2, <2>3, <2>4, AmongFacts
  <1>5. ASSUME NEW i \in Agents
        PROVE  /\ pass[i].at = s.agents[i].position /\ pass[i].retries = s.agents[i].retries
               /\ pass[i].active = Outstanding(s.agents[i]) /\ pass[i].active \in BOOLEAN
               /\ pass[i].stuck \in BOOLEAN /\ pass[i].elapsed = s.elapsed[i]
               /\ pass[i].options = IF Outstanding(s.agents[i]) THEN Candidates(s, i, oracle) ELSE <<>>
    <2>1. pass[i] = E(i)
      BY <1>3
    <2>2. Outstanding(s.agents[i]) \in BOOLEAN /\ (s.agents[i].position \in walls) \in BOOLEAN
      BY DEF Outstanding
    <2>3. /\ pass[i].at = s.agents[i].position /\ pass[i].retries = s.agents[i].retries
          /\ pass[i].active = Outstanding(s.agents[i]) /\ pass[i].stuck = (s.agents[i].position \in walls)
          /\ pass[i].elapsed = s.elapsed[i]
      BY <2>1
    <2>4. pass[i].options = IF Outstanding(s.agents[i]) THEN Candidates(s, i, oracle) ELSE <<>>
      BY <2>1
    <2> QED BY <2>2, <2>3, <2>4
  <1>6. ASSUME NEW i \in Agents
        PROVE  /\ pass[i].options \in Seq(Tiles)
               /\ \A p \in 1 .. Len(pass[i].options) : MayEnter(s, i, pass[i].options[p])
    <2>1. CASE Outstanding(s.agents[i])
      <3>1. pass[i].options = Candidates(s, i, oracle)
        BY <1>5, <2>1
      <3> QED BY <1>4, <2>1, <3>1
    <2>2. CASE ~Outstanding(s.agents[i])
      <3>1. pass[i].options = <<>>
        BY <1>5, <2>2
      <3> QED BY <3>1
    <2> QED BY <2>1, <2>2
  <1>7. pass = [i \in 1 .. n |-> pass[i]] /\ DOMAIN pass = Agents
    BY <1>1, <1>3
  <1>8. \A i, k \in Agents : s.agents[i].position = s.agents[k].position => i = k
    <2>1. \A i \in Agents : At(s)[i] = s.agents[i].position
      BY DEF At
    <2> QED BY <1>2, <2>1 DEF Placed, PlacedAt
  <1>9. ASSUME NEW i \in Agents
        PROVE  /\ pass[i].at \in Tiles /\ pass[i].active \in BOOLEAN /\ pass[i].stuck \in BOOLEAN
               /\ pass[i].options \in Seq(Tiles) /\ pass[i].retries \in Nat
               /\ pass[i].elapsed \in 0 .. ElapsedLimit
               /\ pass[i].active <=> pass[i].elapsed # 0
    <2>1. s.agents[i].position \in Tiles /\ s.agents[i].retries \in 0 .. MaxRetries
          /\ s.elapsed[i] \in 0 .. ElapsedLimit /\ MaxRetries \in Nat
      BY <1>2, MoveStateFields, SpanFacts
    <2> QED BY <1>5, <1>6, <2>1
  <1>10. IsPass(pass, n)
    <2>1. \A i, j \in Agents : pass[i].at = pass[j].at => i = j
      BY <1>5, <1>8
    <2> HIDE DEF n
    <2> QED BY <1>1, <1>7, <1>9, <2>1 DEF IsPass
  <1>11. \A i \in Agents : pass[i].active <=> Outstanding(s.agents[i])
    BY <1>5
  <1> HIDE DEF E
  <1> QED BY <1>5, <1>6, <1>7, <1>10, <1>11 DEF pass

(* One PIBT pass is sound. *)
LEMMA PibtPassSound ==
    ASSUME NEW s, NEW current \in BOOLEAN, Sound(s, current), NEW oracle \in Oracles,
           NEW policy \in SwapPolicies
    PROVE  LET t == PibtPass(s, oracle, policy) IN
           Sound(t, current) /\ Reaches(s, t) /\ TradesObey(s, t, policy)
  <1> DEFINE u == AgedState(s)
             pass == PassOf(u, oracle)
             dest == Decided(pass, policy)
             M == Movers(pass, dest)
             n == Len(Starts)
  <1>1. n \in Nat /\ Agents = 1 .. n
    BY SpanFacts
  <1>2. /\ Sound(u, current) /\ Reaches(s, u) /\ u.agents = s.agents
        /\ \A i \in Agents : Outstanding(u.agents[i]) <=> u.elapsed[i] # 0
    BY AgedSound
  <1>3. PibtPass(s, oracle, policy) = Configured(u, pass, dest)
    BY DEF PibtPass, AgedState
  <1> HIDE DEF u
  <1>4. u \in MoveState /\ Fits(u, current) /\ Placed(u) /\ Counted(u)
    BY <1>2 DEF Sound
  <1>5. /\ IsPass(pass, n) /\ DOMAIN pass = Agents
        /\ \A i \in Agents :
              /\ pass[i].at = u.agents[i].position /\ pass[i].retries = u.agents[i].retries
              /\ pass[i].active <=> Outstanding(u.agents[i])
              /\ \A p \in 1 .. Len(pass[i].options) : MayEnter(u, i, pass[i].options[p])
    BY <1>2, PassOfIsPass
  <1> HIDE DEF pass
  <1>6. ConfigurationIsSafe(pass, dest, policy)
    BY <1>5, DecidedSafe
  <1> HIDE DEF dest
  <1>m. M \subseteq Agents /\ \A i \in Agents : i \in M <=> dest[i] # u.agents[i].position
    BY <1>5 DEF Movers
  <1>7. ASSUME NEW i \in M
        PROVE  /\ i \in Agents /\ dest[i] \in Tiles /\ dest[i] \notin walls \union u.reserved
               /\ dest[i] \notin obstacles /\ Outstanding(u.agents[i])
               /\ dest[i] \in u.occupied => \E k \in M : u.agents[k].position = dest[i]
    <2>1. i \in Agents /\ dest[i] # pass[i].at /\ dest[i] # u.agents[i].position
      BY <1>5, <1>m
    <2>2. Outstanding(u.agents[i]) /\ MayEnter(u, i, dest[i])
      BY <1>5, <1>6, <2>1 DEF ConfigurationIsSafe
    <2>3. /\ dest[i] \in Tiles \ (walls \union u.reserved)
          /\ dest[i] \in u.occupied => \E k \in Agents : u.agents[k].position = dest[i]
      BY <2>1, <2>2 DEF MayEnter
    <2>4. \A k \in Agents : At(u)[k] = u.agents[k].position
      BY DEF At
    <2>5. obstacles \subseteq u.occupied /\ \A k \in Agents : u.agents[k].position \notin obstacles
      BY <1>4, <2>4 DEF Placed, PlacedAt
    <2>6. dest[i] \notin obstacles
      BY <2>3, <2>5
    <2>7. ASSUME NEW k \in Agents, u.agents[k].position = dest[i] PROVE k \in M
      <3>1. k # i
        BY <2>1, <2>7
      <3>2. dest[k] # dest[i]
        BY <1>5, <1>6, <2>1, <3>1 DEF ConfigurationIsSafe
      <3> QED BY <1>m, <2>7, <3>2
    <2> HIDE DEF M
    <2> QED BY <2>1, <2>2, <2>3, <2>6, <2>7
  <1>8. \A i, j \in M : dest[i] = dest[j] => i = j
    BY <1>5, <1>6, <1>m DEF ConfigurationIsSafe
  <1> DEFINE left == {pass[i].at : i \in M}
             entered == {dest[i] : i \in M}
             moved == Enter(Vacate(u, left), entered)
  <1>9. PICK f : /\ f[0] = ConfiguredStart(u, pass, dest)
                 /\ \A k \in 1 .. n : f[k] = ConfiguredNext(pass, dest, f[k - 1], k)
                 /\ Configured(u, pass, dest) = f[n]
    BY <1>1, ConfiguredUnfolds
  <1>10. f[0] = [moved EXCEPT !.halted = (M = {})]
    BY <1>9 DEF ConfiguredStart
  <1>k. \A k \in Agents :
            /\ k \in M => f[k] = Displaced(f[k - 1], k, dest[k])
            /\ k \notin M /\ pass[k].active => \E status : f[k] = AfterFailure(f[k - 1], k, status)
            /\ k \notin M /\ ~pass[k].active => f[k] = f[k - 1]
    <2> HIDE DEF M
    <2>1. \A k \in Agents : f[k] = ConfiguredNext(pass, dest, f[k - 1], k)
      BY <1>1, <1>9
    <2> QED BY <2>1 DEF ConfiguredNext, M
  <1> HIDE DEF M
  <1>11. /\ entered \in SUBSET Tiles /\ entered \intersect u.reserved = {}
         /\ left = {u.agents[i].position : i \in M}
    BY <1>5, <1>7, <1>m
  <1> HIDE DEF left, entered
  <1>12. /\ f[0] \in MoveState
         /\ f[0].agents = u.agents /\ f[0].routes = u.routes /\ f[0].flow = u.flow
         /\ f[0].reserved = u.reserved /\ f[0].searched = u.searched
         /\ f[0].occupied = (u.occupied \ left) \union entered
    <2>1. /\ moved \in MoveState
          /\ moved.agents = u.agents /\ moved.routes = u.routes /\ moved.flow = u.flow
          /\ moved.reserved = u.reserved /\ moved.searched = u.searched
          /\ moved.occupied = (u.occupied \ left) \union entered
      BY <1>4, <1>11, EnterFields
    <2> HIDE DEF moved
    <2>2. (M = {}) \in BOOLEAN
      OBVIOUS
    <2> QED BY <1>10, <2>1, <2>2 DEF MoveState
  <1>13. ASSUME NEW k \in Agents, f[k - 1] \in MoveState, f[k - 1].agents[k] = u.agents[k],
                f[k - 1].routes = u.routes, Counted(f[k - 1])
         PROVE  \/ f[k] = f[k - 1] /\ k \notin M
                \/ /\ Outstanding(u.agents[k])
                   /\ AgentStep(f[k - 1], f[k], k, IF k \in M THEN dest[k] ELSE u.agents[k].position)
    <2> DEFINE v == f[k - 1]
    <2>1. /\ k \in M => f[k] = Displaced(v, k, dest[k])
          /\ k \notin M /\ pass[k].active => \E status : f[k] = AfterFailure(v, k, status)
          /\ k \notin M /\ ~pass[k].active => f[k] = v
      BY <1>k
    <2>2. v \in MoveState /\ v.agents[k] = u.agents[k] /\ v.routes = u.routes /\ Counted(v)
      BY <1>13
    <2> HIDE DEF v
    <2>3. ASSUME Outstanding(u.agents[k])
          PROVE  Outstanding(v.agents[k]) /\ FitsRoute(v.agents[k], v.routes[k], FALSE) /\ v.flow.outstanding >= 1
      <3>1. Outstanding(v.agents[k])
        BY <2>2, <2>3
      <3>2. FitsRoute(v.agents[k], v.routes[k], FALSE)
        BY <1>4, <2>2 DEF Fits, FitsRoute
      <3> QED BY <2>2, <3>1, <3>2, LiveIsCounted
    <2>4. CASE k \in M
      <3>1. Outstanding(u.agents[k]) /\ dest[k] \in Tiles
        BY <1>7, <2>4
      <3>2. AgentStep(v, f[k], k, dest[k])
        BY <2>1, <2>2, <2>3, <2>4, <3>1, DisplacedSteps
      <3> QED BY <2>4, <3>1, <3>2 DEF v
    <2>5. CASE k \notin M /\ pass[k].active
      <3>1. Outstanding(u.agents[k])
        BY <1>5, <2>5
      <3>2. PICK status : f[k] = AfterFailure(v, k, status)
        BY <2>1, <2>5
      <3>3. AgentStep(v, f[k], k, v.agents[k].position)
        BY <2>2, <2>3, <3>1, <3>2, FailureSteps
      <3> QED BY <2>2, <2>5, <3>1, <3>3 DEF v
    <2>6. CASE k \notin M /\ ~pass[k].active
      BY <2>1, <2>6 DEF v
    <2> QED BY <2>4, <2>5, <2>6
  <1>14. SpanSteps(u, M, dest, f)
    <2>1. \A k \in Agents :
             (/\ f[k - 1] \in MoveState /\ f[k - 1].agents[k] = u.agents[k]
              /\ f[k - 1].routes = u.routes /\ Counted(f[k - 1])) =>
                 \/ f[k] = f[k - 1] /\ k \notin M
                 \/ /\ Outstanding(u.agents[k])
                    /\ AgentStep(f[k - 1], f[k], k, IF k \in M THEN dest[k] ELSE u.agents[k].position)
      BY <1>13
    <2>2. f[0].occupied = (u.occupied \ {u.agents[i].position : i \in M}) \union {dest[i] : i \in M}
      BY <1>11, <1>12 DEF entered
    <2>3. \A i \in M : /\ dest[i] \notin walls \union u.reserved /\ dest[i] \notin obstacles
                       /\ dest[i] \in u.occupied => \E k \in M : u.agents[k].position = dest[i]
                       /\ Outstanding(u.agents[i])
      BY <1>7
    <2> QED BY <1>m, <1>8, <1>12, <2>1, <2>2, <2>3 DEF SpanSteps
  <1> DEFINE t == f[n]
  <1>15. /\ Sound(t, current) /\ Reaches(u, t)
         /\ \A i \in Agents : t.agents[i].position = IF i \in M THEN dest[i] ELSE u.agents[i].position
    BY <1>2, <1>14, SpanFold
  <1> HIDE DEF t
  <1>16. TradesObey(s, t, policy)
    <2> SUFFICES ASSUME NEW i \in Agents, NEW k \in Agents, i # k,
                        t.agents[i].position = s.agents[k].position,
                        t.agents[k].position = s.agents[i].position
                 PROVE  MayTrade(s.agents[i].retries, s.agents[k].retries, policy)
      BY DEF TradesObey
    <2>1. dest[i] = pass[k].at /\ dest[k] = pass[i].at
      BY <1>2, <1>5, <1>15, <1>m
    <2> QED BY <1>2, <1>5, <1>6, <2>1 DEF ConfigurationIsSafe
  <1>17. Reaches(s, t)
    BY <1>2, <1>15, ReachesOn
  <1> QED BY <1>3, <1>9, <1>15, <1>16, <1>17 DEF t

(* So is a tick of PIBT passes. *)
LEMMA PibtSound ==
    ASSUME NEW s, NEW current \in BOOLEAN, Sound(s, current), s.halted = FALSE,
           NEW steps \in Nat, NEW oracle \in Oracles, NEW policy \in SwapPolicies
    PROVE  LET t == SteppedByPibt(s, steps, oracle, policy) IN
           Sound(t, current) /\ Reaches(s, t) /\ (steps = 1 => TradesObey(s, t, policy))
  <1>1. PICK f : /\ f[0] = s
                 /\ \A k \in 1 .. steps : f[k] = PibtNext(f[k - 1], oracle, policy)
                 /\ SteppedByPibt(s, steps, oracle, policy) = f[steps]
    BY PibtUnfolds
  <1> DEFINE S == {k \in 0 .. steps : Sound(f[k], current) /\ Reaches(s, f[k])}
  <1>2. 0 \in S
    BY <1>1 DEF Reaches
  <1>3. ASSUME NEW k \in 1 .. steps, k - 1 \in S PROVE k \in S
    <2> DEFINE u == f[k - 1]
    <2>1. Sound(u, current) /\ Reaches(s, u) /\ (f[k] = u \/ f[k] = PibtPass(u, oracle, policy))
      BY <1>1, <1>3 DEF PibtNext
    <2> HIDE DEF u
    <2>2. CASE f[k] = u
      BY <2>1, <2>2
    <2>3. CASE f[k] = PibtPass(u, oracle, policy)
      <3>1. Sound(f[k], current) /\ Reaches(u, f[k])
        BY <2>1, <2>3, PibtPassSound
      <3> QED BY <2>1, <3>1, ReachesOn
    <2> QED BY <2>1, <2>2, <2>3
  <1>4. \A k \in 0 .. steps : k \in S
    <2> HIDE DEF S
    <2> QED BY <1>2, <1>3, BoundedInduction
  <1>5. ASSUME steps = 1 PROVE TradesObey(s, f[steps], policy)
    <2>1. 1 \in 1 .. steps /\ 1 - 1 = 0
      BY <1>5
    <2>2. f[1] = PibtPass(s, oracle, policy)
      BY <1>1, <2>1 DEF PibtNext
    <2> QED BY <1>5, <2>2, PibtPassSound
  <1> QED BY <1>1, <1>4, <1>5

-----------------------------------------------------------------------------
(* What a tick commits.                                                    *)

\* A tick planned s, moved from it to t with the swap policy, and committed t.
Ticks(s, t, driver, swaps, steps) ==
    /\ Sound(s, pathing_dirty \/ ~unmarked)
    /\ s.reserved = reserved
    /\ \A i \in Agents : /\ s.agents[i].position = agents[i].position
                         /\ Outstanding(s.agents[i]) => Outstanding(agents[i])
                         /\ s.agents[i].retries <= Streak(agents[i])
    /\ Sound(t, pathing_dirty \/ ~unmarked) /\ Reaches(s, t)
    /\ steps = 1 => TradesObey(s, t, swaps)
    /\ Commit(t, driver, swaps, steps)

(* What the tick drivers need of a plan. *)
LEMMA PlanIsReady ==
    ASSUME PathAgentsInv, NEW steps \in StepBudgets, NEW exhaustion, NEW s \in Plans(steps, exhaustion),
           NEW t, NEW driver, NEW swaps,
           \A current \in BOOLEAN : Sound(s, current) /\ s.halted = FALSE =>
              Sound(t, current) /\ Reaches(s, t) /\ (steps = 1 => TradesObey(s, t, swaps)),
           Commit(t, driver, swaps, steps)
    PROVE  Ticks(s, t, driver, swaps, steps)
  <1> DEFINE c == pathing_dirty \/ ~unmarked
  <1>1. steps \in Nat
    BY PathAgentsAssumption
  <1>2. /\ Sound(s, c) /\ s.reserved = reserved /\ s.halted = FALSE
        /\ \A i \in Agents : /\ s.agents[i].position = agents[i].position
                             /\ Outstanding(s.agents[i]) => Outstanding(agents[i])
                             /\ s.agents[i].retries <= Streak(agents[i])
    BY <1>1, PlansSound
  <1>3. c \in BOOLEAN
    OBVIOUS
  <1> HIDE DEF c
  <1>4. Sound(t, c) /\ Reaches(s, t) /\ (steps = 1 => TradesObey(s, t, swaps))
    BY <1>2, <1>3
  <1> QED BY <1>2, <1>4 DEF Ticks, c

(* Every driver plans, moves and commits. *)
LEMMA TickFacts ==
    ASSUME PathAgentsInv, TickWithMovement \/ TickWithJointMovement \/ TickWithPibt
    PROVE  \E s, t, driver, swaps : \E steps \in Nat : Ticks(s, t, driver, swaps, steps)
  <1>0. StepBudgets \subseteq Nat
    BY PathAgentsAssumption
  <1>1. CASE TickWithMovement
    <2>0. PICK steps \in StepBudgets : \E exhaustion \in Choices(steps) :
             \E s \in Plans(steps, exhaustion) :
                Commit(SteppedEach(s, steps), "each", "Forbid", steps)
      BY <1>1 DEF TickWithMovement
    <2>1. PICK exhaustion \in Choices(steps) : \E s \in Plans(steps, exhaustion) :
             Commit(SteppedEach(s, steps), "each", "Forbid", steps)
      BY <2>0
    <2>2. PICK s \in Plans(steps, exhaustion) : Commit(SteppedEach(s, steps), "each", "Forbid", steps)
      BY <2>1
    <2> DEFINE t == SteppedEach(s, steps)
    <2>3. ASSUME NEW current \in BOOLEAN, Sound(s, current)
          PROVE  Sound(t, current) /\ Reaches(s, t) /\ (steps = 1 => TradesObey(s, t, "Forbid"))
      <3>1. /\ Sound(t, current) /\ Reaches(s, t)
            /\ steps = 1 => \A i, j \in Agents :
                  i # j /\ t.agents[i].position = s.agents[j].position
                     => t.agents[j].position # s.agents[i].position
        BY <1>0, <2>3, EachSound
      <3> HIDE DEF t
      <3>2. steps = 1 => TradesObey(s, t, "Forbid")
        BY <3>1 DEF TradesObey
      <3> QED BY <3>1, <3>2
    <2> HIDE DEF t
    <2>4. Ticks(s, t, "each", "Forbid", steps)
      BY <2>2, <2>3, PlanIsReady DEF t
    <2> QED BY <1>0, <2>4
  <1>2. CASE TickWithJointMovement
    <2>0. PICK steps \in StepBudgets \ {0} : \E exhaustion \in Choices(steps) :
             \E s \in Plans(steps, exhaustion), swaps \in SwapPolicies :
                Commit(SteppedJointly(s, steps, swaps), "joint", swaps, steps)
      BY <1>2 DEF TickWithJointMovement
    <2>1. PICK exhaustion \in Choices(steps) :
             \E s \in Plans(steps, exhaustion), swaps \in SwapPolicies :
                Commit(SteppedJointly(s, steps, swaps), "joint", swaps, steps)
      BY <2>0
    <2>2. PICK s \in Plans(steps, exhaustion), swaps \in SwapPolicies :
             Commit(SteppedJointly(s, steps, swaps), "joint", swaps, steps)
      BY <2>1
    <2> DEFINE t == SteppedJointly(s, steps, swaps)
    <2>3. ASSUME NEW current \in BOOLEAN, Sound(s, current)
          PROVE  Sound(t, current) /\ Reaches(s, t) /\ (steps = 1 => TradesObey(s, t, swaps))
      BY <1>0, <2>3, JointSound
    <2> HIDE DEF t
    <2>4. Ticks(s, t, "joint", swaps, steps)
      BY <2>2, <2>3, PlanIsReady DEF t
    <2> QED BY <1>0, <2>4
  <1>3. CASE TickWithPibt
    <2>0. PICK steps \in StepBudgets \ {0} : \E exhaustion \in Choices(steps) :
             \E s \in Plans(steps, exhaustion), oracle \in Oracles, swaps \in SwapPolicies :
                Commit(SteppedByPibt(s, steps, oracle, swaps), "pibt", swaps, steps)
      BY <1>3 DEF TickWithPibt
    <2>1. PICK exhaustion \in Choices(steps) :
             \E s \in Plans(steps, exhaustion), oracle \in Oracles, swaps \in SwapPolicies :
                Commit(SteppedByPibt(s, steps, oracle, swaps), "pibt", swaps, steps)
      BY <2>0
    <2>2. PICK s \in Plans(steps, exhaustion), oracle \in Oracles, swaps \in SwapPolicies :
             Commit(SteppedByPibt(s, steps, oracle, swaps), "pibt", swaps, steps)
      BY <2>1
    <2> DEFINE t == SteppedByPibt(s, steps, oracle, swaps)
    <2>3. ASSUME NEW current \in BOOLEAN, Sound(s, current), s.halted = FALSE
          PROVE  Sound(t, current) /\ Reaches(s, t) /\ (steps = 1 => TradesObey(s, t, swaps))
      BY <1>0, <2>3, PibtSound
    <2> HIDE DEF t
    <2>4. Ticks(s, t, "pibt", swaps, steps)
      BY <2>2, <2>3, PlanIsReady DEF t
    <2> QED BY <1>0, <2>4
  <1> QED BY <1>1, <1>2, <1>3

(* What holds between ticks holds after every step: the caller's edits, and *)
(* a tick of each of the three drivers. *)
LEMMA NextKeeps == PathAgentsInv /\ [Next]_vars => PathAgentsInv'
  <1> SUFFICES ASSUME PathAgentsInv, [Next]_vars PROVE PathAgentsInv'
    OBVIOUS
  <1>1. ASSUME NEW i \in Agents, NEW t \in GoalTiles, SetGoal(i, t) PROVE PathAgentsInv'
    BY <1>1, SetGoalKeeps
  <1>2. ASSUME NEW i \in Agents, ClearGoal(i) PROVE PathAgentsInv'
    BY <1>2, ClearGoalKeeps
  <1>3. ASSUME NEW t \in EditTiles, NEW mark \in BOOLEAN, EditTerrain(t, mark) PROVE PathAgentsInv'
    BY <1>3, FieldEditsKeep
  <1>4. ASSUME NEW t \in EditTiles, ToggleReservation(t) \/ ToggleObstacle(t) PROVE PathAgentsInv'
    BY <1>4, FieldEditsKeep
  <1>5. CASE TickWithMovement \/ TickWithJointMovement \/ TickWithPibt
    <2>1. PICK s, t, driver, swaps : \E steps \in Nat : Ticks(s, t, driver, swaps, steps)
      BY <1>5, TickFacts
    <2>2. PICK steps \in Nat : Ticks(s, t, driver, swaps, steps)
      BY <2>1
    <2>3. Sound(t, pathing_dirty \/ ~unmarked) /\ Commit(t, driver, swaps, steps)
      BY <2>2 DEF Ticks
    <2> QED BY <2>3, CommitKeeps
  <1>6. CASE UNCHANGED vars
    <2>1. /\ UNCHANGED <<agents, routes, elapsed, pathing_dirty, walls, occupied>>
          /\ UNCHANGED <<reserved, flow, obstacles, unmarked, edits>>
      BY <1>6 DEF vars
    <2>2. TypeOK'
      BY <2>1 DEF PathAgentsInv, TypeOK
    <2>3. \A j \in Agents : FitsRoute(agents[j], routes[j], Current)'
      <3> SUFFICES ASSUME NEW j \in Agents PROVE FitsRoute(agents[j], routes[j], Current)'
        OBVIOUS
      <3>1. FitsRoute(agents[j], routes[j], Current)
        BY DEF PathAgentsInv
      <3> QED BY <2>1, <3>1 DEF FitsRoute, Outstanding, Current
    <2>4. PlacedAt([j \in Agents |-> agents[j].position], occupied)'
      BY <2>1 DEF PathAgentsInv, PlacedAt
    <2>5. CountedIn(agents, flow)'
      BY <2>1 DEF PathAgentsInv, CountedIn, Outstanding
    <2> QED BY <2>2, <2>3, <2>4, <2>5 DEF PathAgentsInv
  <1> QED BY <1>1, <1>2, <1>3, <1>4, <1>5, <1>6 DEF Next

(* Whatever driver moves them, and whatever the caller does between ticks,  *)
(* the agents, their routes, the occupancy field and the accountant agree.  *)
(* (sim/path_agent_tick.h.) *)
THEOREM PathAgentsAreSound == Spec => []PathAgentsInv
  <1>1. Init => PathAgentsInv
    BY InitFits
  <1> QED BY <1>1, NextKeeps, PTL DEF Spec

(* No two agents ever stand on one tile, and the occupancy field is set     *)
(* exactly where an agent or an obstacle stands. (commit_movement_intent,   *)
(* joint_movement.h phase 5, pibt_movement.h phase 5.) *)
THEOREM AgentsStandApart == Spec => []OneAgentPerTile
  <1>1. PathAgentsInv => OneAgentPerTile
    <2> SUFFICES ASSUME PathAgentsInv PROVE OneAgentPerTile
      OBVIOUS
    <2> DEFINE pos == [i \in Agents |-> agents[i].position]
    <2>1. /\ \A i, j \in Agents : pos[i] = pos[j] => i = j
          /\ \A i \in Agents : pos[i] \notin obstacles
          /\ occupied = {pos[i] : i \in Agents} \union obstacles
      BY DEF PathAgentsInv, PlacedAt
    <2>2. Positions = {pos[i] : i \in Agents}
      BY DEF Positions
    <2>3. \A i \in Agents : pos[i] = agents[i].position
      OBVIOUS
    <2> HIDE DEF pos
    <2>4. Positions \intersect obstacles = {}
      BY <2>1, <2>2
    <2>5. TypeOK
      BY DEF PathAgentsInv
    <2> QED BY <2>1, <2>2, <2>3, <2>4, <2>5 DEF OneAgentPerTile
  <1> QED BY <1>1, PathAgentsAreSound, PTL

(* The accountant's outstanding count is the number of live goals, through  *)
(* supersession, cancellation, arrival and exhaustion. (FlowCounters.) *)
THEOREM GoalsAreConserved == Spec => []GoalsConserved
  <1>1. PathAgentsInv => GoalsConserved
    BY DEF PathAgentsInv, CountedIn, GoalsConserved
  <1> QED BY <1>1, PathAgentsAreSound, PTL

(* A retained route is the agent's own and, while terrain edits are marked, *)
(* still open; a negative answer is still true. (PathSubmitScope.) *)
THEOREM PlansStayCurrent == Spec => []PlansAreCurrent
  <1>1. PathAgentsInv => PlansAreCurrent
    BY DEF PathAgentsInv, FitsRoute, Current, PlansAreCurrent
  <1> QED BY <1>1, PathAgentsAreSound, PTL

\* What MovesObeyRules says of one step.
MoveObeysRules ==
    ticked'.driver # "none" =>
        /\ \A i \in Agents : agents'[i].position # agents[i].position =>
              /\ agents'[i].position \notin walls \union reserved
              /\ Outstanding(agents[i])
        /\ ticked'.steps = 1 => \A i, j \in Agents : Swapped(i, j) =>
              \/ ticked'.swaps = "Permit"
              \/ /\ ticked'.swaps = "PermitOnDeadlock"
                 /\ \A k \in {i, j} : Streak(agents[k]) >= DeadlockTicks

(* A tick moves nobody onto a wall or a reserved tile. *)
LEMMA TickObeysRules ==
    ASSUME PathAgentsInv, NEW s, NEW t, NEW driver, NEW swaps, NEW steps \in Nat,
           Ticks(s, t, driver, swaps, steps)
    PROVE  MoveObeysRules
  <1>1. /\ s.reserved = reserved /\ Reaches(s, t) /\ (steps = 1 => TradesObey(s, t, swaps))
        /\ s \in MoveState
        /\ \A i \in Agents : /\ s.agents[i].position = agents[i].position
                             /\ Outstanding(s.agents[i]) => Outstanding(agents[i])
                             /\ s.agents[i].retries <= Streak(agents[i])
    BY DEF Ticks, Sound
  <1>2. /\ agents' = t.agents
        /\ ticked'.driver = driver /\ ticked'.swaps = swaps /\ ticked'.steps = steps
    BY DEF Ticks, Commit
  <1>3. ASSUME NEW i \in Agents, agents'[i].position # agents[i].position
        PROVE  agents'[i].position \notin walls \union reserved /\ Outstanding(agents[i])
    BY <1>1, <1>2, <1>3 DEF Reaches
  <1>4. ASSUME steps = 1, NEW i \in Agents, NEW j \in Agents, Swapped(i, j)
        PROVE  \/ swaps = "Permit"
               \/ swaps = "PermitOnDeadlock" /\ \A k \in {i, j} : Streak(agents[k]) >= DeadlockTicks
    <2>1. MayTrade(s.agents[i].retries, s.agents[j].retries, swaps)
      BY <1>1, <1>2, <1>4 DEF TradesObey, Swapped
    <2>2. ASSUME NEW k \in Agents, s.agents[k].retries >= DeadlockTicks
          PROVE  Streak(agents[k]) >= DeadlockTicks
      <3>1. s.agents[k].retries \in Nat /\ s.agents[k].retries <= Streak(agents[k])
        BY <1>1, MoveStateFields, SpanFacts
      <3>2. Streak(agents[k]) \in Nat
        <4>1. agents[k].retries \in Nat
          BY SpanFacts DEF PathAgentsInv, TypeOK
        <4> QED BY <4>1 DEF Streak
      <3> QED BY <2>2, <3>1, <3>2, DeadlockTicksAssumption
    <2> QED BY <2>1, <2>2 DEF MayTrade
  <1> QED BY <1>2, <1>3, <1>4 DEF MoveObeysRules

(* Ticks move agents with live goals only, onto tiles that are neither walls *)
(* nor reserved, and let two agents trade places only as the swap policy     *)
(* says. (SwapPolicy; start_deciding in pibt_movement.h.) *)
THEOREM MovesAreLegal == Spec => MovesObeyRules
  <1>1. PathAgentsInv /\ [Next]_vars => [MoveObeysRules]_vars
    <2> SUFFICES ASSUME PathAgentsInv, Next PROVE MoveObeysRules
      OBVIOUS
    <2>1. CASE TickWithMovement \/ TickWithJointMovement \/ TickWithPibt
      <3>1. PICK s, t, driver, swaps : \E steps \in Nat : Ticks(s, t, driver, swaps, steps)
        BY <2>1, TickFacts
      <3>2. PICK steps \in Nat : Ticks(s, t, driver, swaps, steps)
        BY <3>1
      <3> QED BY <3>2, TickObeysRules
    <2>2. CASE Edit
      BY <2>2 DEF Edit, NoTick, MoveObeysRules
    <2> QED BY <2>1, <2>2
            DEF Next, SetGoal, ClearGoal, EditTerrain, ToggleReservation, ToggleObstacle
  <1>2. PathAgentsInv /\ [Next]_vars
           => [ticked'.driver # "none" =>
                /\ \A i \in Agents : agents'[i].position # agents[i].position =>
                      /\ agents'[i].position \notin walls \union reserved
                      /\ Outstanding(agents[i])
                /\ ticked'.steps = 1 => \A i, j \in Agents : Swapped(i, j) =>
                      \/ ticked'.swaps = "Permit"
                      \/ /\ ticked'.swaps = "PermitOnDeadlock"
                         /\ \A k \in {i, j} : Streak(agents[k]) >= DeadlockTicks]_vars
    BY <1>1 DEF MoveObeysRules
  <1> QED BY <1>2, PathAgentsAreSound, PTL DEF Spec, MovesObeyRules
=============================================================================
