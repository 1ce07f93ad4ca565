--------------------------- MODULE AutoExecProofs ---------------------------
(***************************************************************************)
(* Proofs about the queued-operation pipeline, for every world, set of     *)
(* operations and executor: phases equal serial execution, every write is  *)
(* marked, no operation is lost, and answers are true.                     *)
(***************************************************************************)
EXTENDS AutoExec, SequenceTheorems, FiniteSetTheorems, WellFoundedInduction, TLAPS

-----------------------------------------------------------------------------
(* The inductive invariant.                                                *)

PlannedOp == [id : Ids, kind : Templates, handle : Nat, chunks : SUBSET ChunkKeys]
ExecRecord == [state : {"todo", "running", "Executed", "threw"}, left : SUBSET ChunkKeys,
               inside : BOOLEAN, seen : Seq(Ids), marked : SUBSET ChunkKeys]
SlotRecord == [state : {"Unbound", "Pending", "Ready", "Failed"}, drained : BOOLEAN]
Outcomes == {"none", "open", "discarded", "dropped", "Ready", "Failed"}

\* The batch carries fresh ids in the order in which they were issued.
QueueOK ==
    /\ issued \in 0..MaxIssued
    /\ queue \in Seq(Operations)
    /\ \A n \in DOMAIN queue : queue[n].id <= issued
    /\ \A m, n \in DOMAIN queue : m < n => queue[m].id < queue[n].id

\* p is a plan for the batch whose ids are `ids`: handles ascend through it.
PlanFor(p, ids) ==
    /\ p \in Seq(PlannedOp)
    /\ \A k \in DOMAIN p : p[k].handle \in DOMAIN ids /\ p[k].id = ids[p[k].handle]
    /\ \A j, k \in DOMAIN p : j < k => p[j].handle < p[k].handle

\* The run works on the batch it was started with, and follow-ups are younger.
RunOK ==
    /\ stage \in {"idle", "phases", "drain"}
    /\ run_ids \in Seq(Ids)
    /\ \A h \in DOMAIN run_ids : run_ids[h] <= issued
    /\ \A g, h \in DOMAIN run_ids : g < h => run_ids[g] < run_ids[h]
    /\ PlanFor(plan, run_ids)
    /\ stage = "idle" => plan = <<>> /\ exec = <<>> /\ slots = <<>>
    /\ stage = "phases" => /\ phase \in 1..LastPhase(plan)
                           /\ run_ids = [n \in 1..Len(queue) |-> queue[n].id]
    /\ stage = "drain" => \A n \in DOMAIN queue : \A h \in DOMAIN run_ids :
                              run_ids[h] < queue[n].id

\* What an operation's state says of its progress.
Consistent(x, chunks) ==
    /\ x.left \subseteq chunks /\ x.marked \subseteq chunks
    /\ x.state = "todo" => x = NotStarted
    /\ x.inside => x.state = "running" /\ x.left # {}
    /\ x.state = "Executed" => x.left = {}

\* Earlier phases are over and later ones have not begun.
ExecOK ==
    /\ exec \in [DOMAIN plan -> ExecRecord]
    /\ \A k \in DOMAIN plan : Consistent(exec[k], plan[k].chunks)
    /\ stage = "phases" =>
           \A k \in DOMAIN plan :
               /\ PhaseOf(plan)[k] < phase => exec[k].state = "Executed"
               /\ PhaseOf(plan)[k] > phase => exec[k].state = "todo"
    /\ stage = "drain" => \A k \in DOMAIN plan : exec[k].state = "Executed"

\* An operation's slot: Failed if it was rejected, Pending from the beginning
\* of its phase and Ready from its end.
Handles == {plan[k].handle : k \in DOMAIN plan}
IsPrepared(k) == stage = "drain" \/ PhaseOf(plan)[k] <= phase
SlotsOK ==
    /\ slots \in Seq(SlotRecord)
    /\ stage # "idle" =>
        /\ DOMAIN slots \subseteq DOMAIN run_ids
        /\ \A h \in DOMAIN run_ids \ Handles : h \in DOMAIN slots /\ slots[h].state = "Failed"
        /\ \A k \in DOMAIN plan :
              IF IsPrepared(k)
              THEN /\ plan[k].handle \in DOMAIN slots
                   /\ slots[plan[k].handle].state =
                         IF exec[k].state = "Executed" THEN "Ready" ELSE "Pending"
              ELSE plan[k].handle \in DOMAIN slots => slots[plan[k].handle].state = "Unbound"
    /\ stage = "phases" => \A h \in DOMAIN slots : ~slots[h].drained

Owned == Queued(queue) \union (IF stage = "drain" THEN {run_ids[h] : h \in Undrained} ELSE {})

\* An operation is open as long as somebody still has it, and a drained slot
\* has told the application what became of its operation.
SettledOK ==
    /\ settled \in [Ids -> Outcomes]
    /\ \A i \in Ids : i > issued <=> settled[i] = "none"
    /\ \A i \in Ids : settled[i] = "open" <=> i \in Owned
    /\ stage = "drain" => \A h \in DOMAIN slots :
           slots[h].drained => settled[run_ids[h]] = slots[h].state

MarksOK ==
    /\ dirty \in [ChunkKeys -> SUBSET DirtyBits] /\ unseen \in [ChunkKeys -> SUBSET DirtyBits]
    /\ WritesLeaveDirtyMarks

Occurs(i, s) == \E n \in DOMAIN s : s[n] = i
PlanIds == {plan[k].id : k \in DOMAIN plan}

\* Unless it was in a run that threw, an operation that has written a chunk is
\* in the present run or has been answered, and had written nothing before.
WorldOK ==
    /\ throws \in 0..MaxThrows
    /\ world \in [ChunkKeys -> Seq(Ids)] /\ world_before \in [ChunkKeys -> Seq(Ids)]
    /\ aborted \subseteq Ids
    /\ \A i \in Ids \ aborted : \A c \in ChunkKeys :
           /\ Occurs(i, world[c]) => settled[i] = "Ready" \/ i \in PlanIds
           /\ i \in PlanIds => ~Occurs(i, world_before[c])

\* The operations that are done with a chunk.
DoneWith(k, c) == \/ exec[k].state = "Executed"
                  \/ exec[k].state = "running" /\ c \notin exec[k].left
\* Those of the first n operations that write c are the ones that are done with it.
UpTo(n, c) == \A k \in DOMAIN plan : WritesTo(plan, k, c) => (DoneWith(k, c) <=> k <= n)
NobodyThrew == \A k \in DOMAIN plan : exec[k].state # "threw"

\* Nobody writes a chunk between another's read and write of it, and a chunk
\* is as serial execution of the operations that are done with it leaves it.
SerialOK ==
    /\ \A k \in DOMAIN plan : exec[k].inside /\ Mutating(plan[k].kind) =>
           exec[k].seen = world[Min(exec[k].left)]
    /\ NobodyThrew =>
           \A c \in ChunkKeys : \A n \in 0..Len(plan) :
               stage # "idle" /\ UpTo(n, c) => world[c] = Serially(plan, world_before)[n][c]

AutoExecInv ==
    QueueOK /\ RunOK /\ ExecOK /\ SlotsOK /\ SettledOK /\ MarksOK /\ WorldOK /\ SerialOK

-----------------------------------------------------------------------------
(* Numbers.                                                                *)

(* A nonempty set of naturals has a least element. *)
LEMMA LeastNumber ==
    ASSUME NEW T \in SUBSET Nat, T # {}
    PROVE  \E m \in T : \A k \in T : m <= k
  <1> DEFINE R == OpToRel(<, Nat)
  <1>1. IsWellFoundedOn(R, Nat)
    BY NatLessThanWellFounded
  <1>2. R = {ss \in Nat \X Nat : ss[1] < ss[2]}
    BY DEF OpToRel
  <1> HIDE DEF R
  <1>3. PICK m \in T : \A k \in T : ~(<<k, m>> \in R)
    BY <1>1, WFMin
  <1>4. \A k \in T : ~(k < m)
    BY <1>2, <1>3
  <1> QED BY <1>4

(* From 0 up to N, by the least counterexample. *)
LEMMA BoundedInduction ==
    ASSUME NEW N \in Nat, NEW S, 0 \in S, \A n \in 1 .. N : n - 1 \in S => n \in S
    PROVE  \A n \in 0 .. N : n \in S
  <1> DEFINE T == {n \in 0 .. N : n \notin S}
  <1>1. ASSUME T # {} PROVE FALSE
    <2>1. T \in SUBSET Nat
      OBVIOUS
    <2>2. PICK m \in T : \A k \in T : m <= k
      <3> HIDE DEF T
      <3> QED BY <1>1, <2>1, LeastNumber
    <2>3. m \in 1 .. N /\ m - 1 \in 0 .. N
      OBVIOUS
    <2>4. m - 1 \notin T
      <3> HIDE DEF T
      <3> QED BY <2>2, <2>3
    <2> QED BY <2>3, <2>4
  <1> QED BY <1>1

(* The next chunk of an operation is one of its chunks. *)
LEMMA MinIsLeast ==
    ASSUME NEW S \in SUBSET Nat, S # {}
    PROVE  Min(S) \in S /\ \A y \in S : Min(S) <= y
  <1>1. \E m \in S : \A k \in S : m <= k
    BY LeastNumber
  <1> QED BY <1>1 DEF Min

(* A nonempty set of numbers up to N has a greatest element. *)
LEMMA MaxIsGreatest ==
    ASSUME NEW N \in Nat, NEW S \in SUBSET (0 .. N), S # {}
    PROVE  Max(S) \in S /\ \A y \in S : Max(S) >= y
  <1> DEFINE T == {m \in Nat : \A y \in S : m >= y}
  <1>1. T \in SUBSET Nat /\ N \in T
    OBVIOUS
  <1>2. PICK m \in T : \A k \in T : m <= k
    <2> HIDE DEF T
    <2> QED BY <1>1, LeastNumber
  <1>3. m \in S
    <2>1. SUFFICES ASSUME m \notin S PROVE FALSE
      OBVIOUS
    <2>2. PICK y \in S : TRUE
      OBVIOUS
    <2>3. m - 1 \in T
      BY <1>2, <2>1, <2>2
    <2>4. ~(m <= m - 1)
      BY <1>2
    <2> HIDE DEF T
    <2> QED BY <1>2, <2>3, <2>4
  <1>4. \E x \in S : \A y \in S : x >= y
    BY <1>2, <1>3
  <1> QED BY <1>4 DEF Max

-----------------------------------------------------------------------------
(* Recursive functions: planning, phases and serial execution.             *)

(* A step repeated from a start. *)
Iterates(f, z, step, N) == f[0] = z /\ \A n \in 1 .. N : f[n] = step[<<n, f[n - 1]>>]

(* Every step over a set can be repeated. *)
LEMMA IterationExists ==
    ASSUME NEW N \in Nat, NEW A, NEW z \in A, NEW step \in [(1 .. N) \X A -> A]
    PROVE  \E f \in [0 .. N -> A] : Iterates(f, z, step, N)
  <1> DEFINE Has(k) == \E f \in [0 .. k -> A] : Iterates(f, z, step, k)
             S == {k \in 0 .. N : Has(k)}
  <1>1. Has(0)
    <2> DEFINE f == [n \in 0 .. 0 |-> z]
    <2>1. f \in [0 .. 0 -> A] /\ Iterates(f, z, step, 0)
      BY DEF Iterates
    <2> QED BY <2>1
  <1>2. ASSUME NEW m \in 1 .. N, Has(m - 1) PROVE Has(m)
    <2>1. PICK f \in [0 .. m - 1 -> A] : Iterates(f, z, step, m - 1)
      BY <1>2
    <2> DEFINE h == [n \in 0 .. m |-> IF n = m THEN step[<<m, f[m - 1]>>] ELSE f[n]]
    <2>2. h \in [0 .. m -> A]
      <3>1. step[<<m, f[m - 1]>>] \in A
        OBVIOUS
      <3>2. \A n \in 0 .. m : n # m => n \in 0 .. m - 1
        OBVIOUS
      <3> QED BY <3>1, <3>2
    <2>3. Iterates(h, z, step, m)
      <3>1. h[0] = z
        BY <2>1 DEF Iterates
      <3>2. ASSUME NEW n \in 1 .. m PROVE h[n] = step[<<n, h[n - 1]>>]
        BY <2>1 DEF Iterates
      <3> QED BY <3>1, <3>2 DEF Iterates
    <2> HIDE DEF h
    <2> QED BY <2>2, <2>3
  <1>3. \A n \in 0 .. N : n \in S
    <2>1. 0 \in S /\ \A n \in 1 .. N : n - 1 \in S => n \in S
      <3> HIDE DEF Has
      <3> QED BY <1>1, <1>2
    <2> HIDE DEF S
    <2> QED BY <2>1, BoundedInduction
  <1> QED BY <1>3

(* What the plan of the first n operations of a batch is.                  *)
Planned(p, ids, n, v) ==
    /\ p \in Seq(PlannedOp)
    /\ \A k \in DOMAIN p : p[k].handle \in 1 .. n /\ p[k].id = ids[p[k].handle]
    /\ \A j, k \in DOMAIN p : j < k => p[j].handle < p[k].handle
    /\ \A h \in 1 .. n : v[h] = "Planned" <=> \E k \in DOMAIN p : p[k].handle = h

(* An accepted operation is appended to the plan.                          *)
LEMMA AcceptedIsAppended ==
    ASSUME NEW N \in Nat, NEW n \in 1 .. N, NEW ids, NEW v, NEW p,
           Planned(p, ids, n - 1, v), NEW x \in PlannedOp,
           x.handle = n, x.id = ids[n], v[n] = "Planned"
    PROVE  Planned(Append(p, x), ids, n, v)
  <1> DEFINE q == Append(p, x)
  <1>1. p \in Seq(PlannedOp) /\ q \in Seq(PlannedOp) /\ Len(p) \in Nat
        /\ DOMAIN p = 1 .. Len(p) /\ DOMAIN q = 1 .. Len(p) + 1
        /\ q[Len(p) + 1] = x
        /\ \A k \in DOMAIN p : q[k] = p[k]
    BY AppendProperties, LenProperties DEF Planned
  <1> HIDE DEF q
  <1>2. \A k \in DOMAIN q : k \in DOMAIN p \/ k = Len(p) + 1
    BY <1>1
  <1>6. Len(p) + 1 \in DOMAIN q /\ q[Len(p) + 1].handle = n /\ q[Len(p) + 1].id = ids[n]
    <2>1. Len(p) + 1 \in DOMAIN q
      BY <1>1
    <2>2. q[Len(p) + 1] = x
      BY <1>1
    <2> QED BY <2>1, <2>2
  <1>3. \A k \in DOMAIN q : q[k].handle \in 1 .. n /\ q[k].id = ids[q[k].handle]
    <2>1. \A k \in DOMAIN p : p[k].handle \in 1 .. n /\ p[k].id = ids[p[k].handle]
      BY DEF Planned
    <2>3. ASSUME NEW k \in DOMAIN q
          PROVE  q[k].handle \in 1 .. n /\ q[k].id = ids[q[k].handle]
      <3>1. CASE k \in DOMAIN p
        BY <1>1, <2>1, <3>1
      <3>2. CASE k = Len(p) + 1
        BY <1>6, <3>2
      <3> QED BY <1>2, <3>1, <3>2
    <2> QED BY <2>3
  <1>4. \A j, k \in DOMAIN q : j < k => q[j].handle < q[k].handle
    <2>1. \A j, k \in DOMAIN p : j < k => p[j].handle < p[k].handle
      BY DEF Planned
    <2>2. \A j \in DOMAIN p : p[j].handle < x.handle
      BY DEF Planned
    <2> QED BY <1>1, <2>1, <2>2
  <1>5. ASSUME NEW h \in 1 .. n
        PROVE  v[h] = "Planned" <=> \E k \in DOMAIN q : q[k].handle = h
    <2>1. CASE h = n
      <3>1. Len(p) + 1 \in DOMAIN q /\ q[Len(p) + 1].handle = h
        BY <1>6, <2>1
      <3> QED BY <2>1, <3>1
    <2>2. CASE h # n
      <3>1. h \in 1 .. n - 1
        BY <2>2
      <3>2. v[h] = "Planned" <=> \E k \in DOMAIN p : p[k].handle = h
        BY <3>1 DEF Planned
      <3>3. (\E k \in DOMAIN q : q[k].handle = h) <=> \E k \in DOMAIN p : p[k].handle = h
        <4>1. \A k \in DOMAIN p : k \in DOMAIN q /\ q[k].handle = p[k].handle
          BY <1>1
        <4>2. \A k \in DOMAIN q : q[k].handle = h => k \in DOMAIN p
          BY <1>2, <1>6, <2>2
        <4> QED BY <4>1, <4>2
      <3> QED BY <3>2, <3>3
    <2> QED BY <2>1, <2>2
  <1> QED BY <1>1, <1>3, <1>4, <1>5 DEF Planned, q

(* plan_operations: the plan names each accepted operation of the batch    *)
(* once, in the order of the batch, with its chunks in the world.          *)
LEMMA PlanIsPlan ==
    ASSUME NEW q \in Seq(Operations), NEW d, NEW ids, ids = [n \in 1 .. Len(q) |-> q[n].id]
    PROVE  /\ PlanFor(PlanOperations(q, d).plan, ids)
           /\ DOMAIN PlanOperations(q, d).verdicts = 1 .. Len(q)
           /\ \A h \in 1 .. Len(q) : PlanOperations(q, d).verdicts[h] = "Planned" <=>
                 \E k \in DOMAIN PlanOperations(q, d).plan : PlanOperations(q, d).plan[k].handle = h
  <1> DEFINE N == Len(q)
             candidate(n) == [id |-> q[n].id, kind |-> q[n].kind, handle |-> n,
                              chunks |-> Expand(q[n].kind, d)]
             accepted[n \in 0..Len(q)] ==
               IF n = 0 THEN <<>>
               ELSE IF Verdict(accepted[n - 1], candidate(n)) = "Planned"
                    THEN Append(accepted[n - 1], candidate(n))
                    ELSE accepted[n - 1]
             v == [n \in 1..Len(q) |-> Verdict(accepted[n - 1], candidate(n))]
             next(n, a) == IF Verdict(a, candidate(n)) = "Planned" THEN Append(a, candidate(n)) ELSE a
             A == Seq(PlannedOp)
             step == [x \in (1 .. N) \X A |-> next(x[1], x[2])]
  <1>1. N \in Nat /\ DOMAIN q = 1 .. N /\ \A n \in 1 .. N : q[n].id \in Ids /\ q[n].kind \in Templates
    <2>1. N \in Nat /\ DOMAIN q = 1 .. N /\ \A n \in 1 .. N : q[n] \in Operations
      BY LenProperties, ElementOfSeq
    <2> QED BY <2>1 DEF Operations
  <1>2. ASSUME NEW n \in 1 .. N, NEW a, Verdict(a, candidate(n)) = "Planned"
        PROVE  candidate(n) \in PlannedOp
    <2>1. Expand(q[n].kind, d) \subseteq ChunkKeys
      BY <1>1, <1>2, QueuedPlanAssumption DEF Verdict, Expand
    <2> QED BY <1>1, <2>1 DEF PlannedOp
  <1>3. step \in [(1 .. N) \X A -> A]
    <2>1. ASSUME NEW n \in 1 .. N, NEW a \in A PROVE next(n, a) \in A
      <3>1. CASE Verdict(a, candidate(n)) = "Planned"
        <4>1. candidate(n) \in PlannedOp
          BY <1>2, <3>1
        <4> HIDE DEF candidate
        <4> QED BY <3>1, <4>1, AppendProperties
      <3>2. CASE Verdict(a, candidate(n)) # "Planned"
        BY <3>2
      <3> QED BY <3>1, <3>2
    <2> HIDE DEF next, A, N
    <2> QED BY <2>1
  <1>4. <<>> \in A
    BY EmptySeq
  <1>5. PICK f \in [0 .. N -> A] : Iterates(f, <<>>, step, N)
    <2> HIDE DEF A, step, N
    <2> QED BY <1>1, <1>3, <1>4, IterationExists
  <1>6. ASSUME NEW n \in 1 .. N PROVE f[n] = next(n, f[n - 1])
    <2>1. f[n - 1] \in A /\ f[n] = step[<<n, f[n - 1]>>]
      <3>1. n \in 1 .. N /\ n - 1 \in 0 .. N
        BY <1>1
      <3> HIDE DEF A, step, N
      <3>2. f[n] = step[<<n, f[n - 1]>>]
        BY <1>5, <3>1 DEF Iterates
      <3> QED BY <1>5, <3>1, <3>2
    <2>2. <<n, f[n - 1]>> \in (1 .. N) \X A
      BY <2>1
    <2>3. step[<<n, f[n - 1]>>] = next(<<n, f[n - 1]>>[1], <<n, f[n - 1]>>[2])
      <3> HIDE DEF next, A, N
      <3> QED BY <2>2
    <2> QED BY <2>1, <2>3
  <1>7. f = [n \in 0 .. Len(q) |-> IF n = 0 THEN <<>>
               ELSE IF Verdict(f[n - 1], candidate(n)) = "Planned"
                    THEN Append(f[n - 1], candidate(n))
                    ELSE f[n - 1]]
    <2>1. f[0] = <<>>
      BY <1>5 DEF Iterates
    <2>2. \A n \in 0 .. N : n = 0 \/ n \in 1 .. N
      BY <1>1
    <2> HIDE DEF candidate, A
    <2> QED BY <1>5, <1>6, <2>1, <2>2
  <1>8. accepted = [n \in 0 .. Len(q) |-> IF n = 0 THEN <<>>
               ELSE IF Verdict(accepted[n - 1], candidate(n)) = "Planned"
                    THEN Append(accepted[n - 1], candidate(n))
                    ELSE accepted[n - 1]]
    <2> HIDE DEF candidate
    <2> QED BY <1>7
  <1>9. PlanOperations(q, d) = [plan |-> accepted[Len(q)], verdicts |-> v]
    BY DEF PlanOperations
  <1> HIDE DEF accepted
  <1> DEFINE S == {n \in 0 .. N : Planned(accepted[n], ids, n, v)}
  <1>10. 0 \in S
    <2>1. accepted[0] = <<>>
      BY <1>1, <1>8
    <2>2. Planned(<<>>, ids, 0, v)
      <3> HIDE DEF v
      <3> QED BY EmptySeq DEF Planned
    <2> QED BY <1>1, <2>1, <2>2
  <1>11. ASSUME NEW n \in 1 .. N, n - 1 \in S PROVE n \in S
    <2>1. Planned(accepted[n - 1], ids, n - 1, v) /\ n \in 0 .. N /\ n # 0
      BY <1>1, <1>11
    <2>2. v[n] = Verdict(accepted[n - 1], candidate(n)) /\ ids[n] = q[n].id
      OBVIOUS
    <2>3. CASE v[n] = "Planned"
      <3>1. accepted[n] = Append(accepted[n - 1], candidate(n))
        BY <1>1, <1>8, <2>1, <2>2, <2>3
      <3>2. candidate(n) \in PlannedOp /\ candidate(n).handle = n /\ candidate(n).id = ids[n]
        BY <1>2, <2>2, <2>3
      <3> HIDE DEF v, candidate, N
      <3>3. Planned(accepted[n], ids, n, v)
        BY <1>1, <2>1, <2>3, <3>1, <3>2, AcceptedIsAppended
      <3> QED BY <2>1, <3>3
    <2>4. CASE v[n] # "Planned"
      <3>1. accepted[n] = accepted[n - 1]
        BY <1>1, <1>8, <2>1, <2>2, <2>4
      <3> HIDE DEF v, candidate, N
      <3>2. \A h \in 1 .. n : h \in 1 .. n - 1 \/ h = n
        BY <1>1
      <3>3. \A h \in 1 .. n - 1 : h \in 1 .. n /\ h # n
        BY <1>1
      <3>4. Planned(accepted[n - 1], ids, n, v)
        BY <2>1, <2>4, <3>2, <3>3 DEF Planned
      <3> QED BY <2>1, <3>1, <3>4
    <2> QED BY <2>3, <2>4
  <1>12. Planned(accepted[N], ids, N, v)
    <2>1. \A n \in 0 .. N : n \in S
      <3> HIDE DEF S, N
      <3> QED BY <1>1, <1>10, <1>11, BoundedInduction
    <2> QED BY <1>1, <2>1
  <1>13. DOMAIN v = 1 .. Len(q) /\ DOMAIN ids = 1 .. N
    OBVIOUS
  <1> HIDE DEF v
  <1>14. PlanFor(accepted[N], ids)
    BY <1>12, <1>13 DEF Planned, PlanFor
  <1> QED BY <1>9, <1>12, <1>13, <1>14 DEF Planned, v

(* f numbers the phases of the first m operations of a plan. *)
NextPhase(f, p, n) ==
    IF n = 1 THEN 1
    ELSE IF \E k \in 1..(n - 1) : /\ f[k] = f[n - 1]
                                  /\ PhaseConflict(p[k], p[n])
         THEN f[n - 1] + 1
         ELSE f[n - 1]
Phased(f, p, m) == \A n \in 1 .. m : f[n] = NextPhase(f, p, n)

(* A phase number depends on the numbers before it only. *)
LEMMA NextPhaseLooksBack ==
    ASSUME NEW p, NEW n \in Nat \ {0}, NEW f, NEW g, \A k \in 1 .. n - 1 : f[k] = g[k]
    PROVE  NextPhase(f, p, n) = NextPhase(g, p, n)
  <1>1. CASE n = 1
    BY <1>1 DEF NextPhase
  <1>2. CASE n # 1
    <2>1. n - 1 \in 1 .. n - 1
      BY <1>2
    <2>2. (\E k \in 1..(n - 1) : f[k] = f[n - 1] /\ PhaseConflict(p[k], p[n]))
            <=> \E k \in 1..(n - 1) : g[k] = g[n - 1] /\ PhaseConflict(p[k], p[n])
      BY <2>1
    <2> QED BY <1>2, <2>1, <2>2 DEF NextPhase
  <1> QED BY <1>1, <1>2

(* Every plan can be cut into phases. *)
LEMMA PhasesExist ==
    ASSUME NEW p, NEW N \in Nat
    PROVE  \E f \in [1 .. N -> Nat] : Phased(f, p, N)
  <1> DEFINE Has(k) == \E f \in [1 .. k -> Nat] : Phased(f, p, k)
             S == {k \in 0 .. N : Has(k)}
  <1>1. Has(0)
    <2> DEFINE f == [n \in 1 .. 0 |-> 0]
    <2>1. f \in [1 .. 0 -> Nat] /\ Phased(f, p, 0)
      BY DEF Phased
    <2> QED BY <2>1
  <1>2. ASSUME NEW m \in 1 .. N, Has(m - 1) PROVE Has(m)
    <2>1. PICK f \in [1 .. m - 1 -> Nat] : Phased(f, p, m - 1)
      BY <1>2
    <2> DEFINE next == NextPhase(f, p, m)
               h == [n \in 1 .. m |-> IF n = m THEN next ELSE f[n]]
    <2>2. next \in Nat
      BY DEF NextPhase
    <2>3. \A n \in 1 .. m : n # m => n \in 1 .. m - 1
      OBVIOUS
    <2>4. h \in [1 .. m -> Nat]
      <3> HIDE DEF next
      <3> QED BY <2>2, <2>3
    <2>5. \A n \in 1 .. m - 1 : n \in 1 .. m /\ n # m
      OBVIOUS
    <2>6. \A n \in 1 .. m - 1 : h[n] = f[n]
      <3> HIDE DEF next
      <3> QED BY <2>5
    <2>7. h[m] = next
      <3> HIDE DEF next
      <3> QED OBVIOUS
    <2> HIDE DEF h
    <2>8. ASSUME NEW n \in 1 .. m PROVE h[n] = NextPhase(h, p, n)
      <3>1. n \in Nat \ {0} /\ \A k \in 1 .. n - 1 : k \in 1 .. m - 1
        OBVIOUS
      <3>2. \A k \in 1 .. n - 1 : h[k] = f[k]
        BY <2>6, <3>1
      <3>3. NextPhase(h, p, n) = NextPhase(f, p, n)
        BY <3>1, <3>2, NextPhaseLooksBack
      <3>4. CASE n = m
        BY <2>7, <3>3, <3>4
      <3>5. CASE n # m
        BY <2>1, <2>3, <2>6, <3>3, <3>5 DEF Phased
      <3> QED BY <3>4, <3>5
    <2>9. Phased(h, p, m)
      BY <2>8 DEF Phased
    <2> QED BY <2>4, <2>9
  <1>3. \A n \in 0 .. N : n \in S
    <2>1. 0 \in S /\ \A n \in 1 .. N : n - 1 \in S => n \in S
      <3> HIDE DEF Has
      <3> QED BY <1>1, <1>2
    <2> HIDE DEF S
    <2> QED BY <2>1, BoundedInduction
  <1>4. Has(N)
    <2> HIDE DEF Has
    <2> QED BY <1>3
  <1> QED BY <1>4

(* plan_parallel_execution_phases: phases are numbered from 1, in the      *)
(* order of the plan, and of two operations in conflict the later one is   *)
(* in a later phase.                                                       *)
LEMMA PhasesAreOrdered ==
    ASSUME NEW p, Len(p) \in Nat
    PROVE  /\ PhaseOf(p) \in [1 .. Len(p) -> Nat \ {0}]
           /\ \A j, k \in 1 .. Len(p) : j <= k => PhaseOf(p)[j] <= PhaseOf(p)[k]
           /\ \A j, k \in 1 .. Len(p) :
                 j < k /\ PhaseConflict(p[j], p[k]) => PhaseOf(p)[j] < PhaseOf(p)[k]
           /\ \A k \in 1 .. Len(p) : k = 1 => PhaseOf(p)[k] = 1
           /\ \A k \in 1 .. Len(p) : k # 1 => PhaseOf(p)[k] <= PhaseOf(p)[k - 1] + 1
  <1> DEFINE N == Len(p)
             phase_[n \in 1..Len(p)] ==
               IF n = 1 THEN 1
               ELSE IF \E k \in 1..(n - 1) : /\ phase_[k] = phase_[n - 1]
                                             /\ PhaseConflict(p[k], p[n])
                    THEN phase_[n - 1] + 1
                    ELSE phase_[n - 1]
  <1>1. PICK f \in [1 .. N -> Nat] : Phased(f, p, N)
    BY PhasesExist
  <1>2. f = [n \in 1 .. Len(p) |->
               IF n = 1 THEN 1
               ELSE IF \E k \in 1..(n - 1) : /\ f[k] = f[n - 1]
                                             /\ PhaseConflict(p[k], p[n])
                    THEN f[n - 1] + 1
                    ELSE f[n - 1]]
    BY <1>1 DEF Phased, NextPhase
  <1>3. phase_ = [n \in 1 .. Len(p) |->
               IF n = 1 THEN 1
               ELSE IF \E k \in 1..(n - 1) : /\ phase_[k] = phase_[n - 1]
                                             /\ PhaseConflict(p[k], p[n])
                    THEN phase_[n - 1] + 1
                    ELSE phase_[n - 1]]
    BY <1>2
  <1>4. PhaseOf(p) = phase_
    BY DEF PhaseOf
  <1> HIDE DEF phase_
  <1> DEFINE F == PhaseOf(p)
  <1>5. DOMAIN F = 1 .. N /\ \A n \in 1 .. N : F[n] = NextPhase(F, p, n)
    BY <1>3, <1>4 DEF NextPhase
  <1> HIDE DEF F
  <1> DEFINE Low(n) == \A k \in 1 .. n : F[k] \in Nat \ {0} /\ F[k] <= F[n]
             S == {n \in 0 .. N : n = 0 \/ Low(n)}
  <1>6. ASSUME NEW n \in 1 .. N, n - 1 \in S PROVE n \in S
    <2>1. CASE n = 1
      <3>1. F[1] = 1
        BY <1>5, <2>1 DEF NextPhase
      <3> QED BY <2>1, <3>1
    <2>2. CASE n # 1
      <3>1. Low(n - 1) /\ n - 1 \in 1 .. n - 1
        BY <1>6, <2>2
      <3>2. F[n - 1] \in Nat \ {0} /\ (F[n] = F[n - 1] \/ F[n] = F[n - 1] + 1)
        BY <1>5, <2>2, <3>1 DEF NextPhase
      <3>3. F[n] \in Nat \ {0} /\ F[n - 1] <= F[n]
        BY <3>2
      <3>4. ASSUME NEW k \in 1 .. n PROVE F[k] \in Nat \ {0} /\ F[k] <= F[n]
        <4>1. CASE k = n
          BY <3>3, <4>1
        <4>2. CASE k # n
          <5>1. k \in 1 .. n - 1
            BY <4>2
          <5>2. F[k] \in Nat \ {0} /\ F[k] <= F[n - 1]
            BY <3>1, <5>1
          <5> QED BY <3>2, <3>3, <5>2
        <4> QED BY <4>1, <4>2
      <3> QED BY <3>4
    <2> QED BY <2>1, <2>2
  <1>7. \A n \in 0 .. N : n \in S
    <2>1. 0 \in S
      OBVIOUS
    <2> HIDE DEF S
    <2> QED BY <1>6, <2>1, BoundedInduction
  <1>8. \A n \in 1 .. N : Low(n)
    BY <1>7
  <1>9. F \in [1 .. N -> Nat \ {0}]
    <2>1. \A n \in 1 .. N : F[n] \in Nat \ {0}
      BY <1>8
    <2>2. F = [n \in 1 .. N |-> F[n]]
      BY <1>3, <1>4 DEF F
    <2> QED BY <2>1, <2>2
  <1>10. \A j, k \in 1 .. N : j <= k => F[j] <= F[k]
    BY <1>8
  <1>11. ASSUME NEW j \in 1 .. N, NEW k \in 1 .. N, j < k, PhaseConflict(p[j], p[k])
         PROVE  F[j] < F[k]
    <2>1. k # 1 /\ k - 1 \in 1 .. N /\ j \in 1 .. k - 1
      BY <1>11
    <2>2. F[j] <= F[k - 1] /\ F[j] \in Nat /\ F[k - 1] \in Nat
      BY <1>9, <1>10, <2>1
    <2>3. CASE F[j] = F[k - 1]
      <3>1. F[k] = F[k - 1] + 1
        BY <1>5, <1>11, <2>1, <2>3 DEF NextPhase
      <3> QED BY <2>2, <2>3, <3>1
    <2>4. CASE F[j] # F[k - 1]
      <3>1. F[k - 1] <= F[k] /\ F[k] \in Nat
        BY <1>9, <1>10, <2>1
      <3> QED BY <2>2, <2>4, <3>1
    <2> QED BY <2>3, <2>4
  <1>12. \A k \in 1 .. N : k = 1 => F[k] = 1
    BY <1>5 DEF NextPhase
  <1>13. \A k \in 1 .. N : k # 1 => F[k] <= F[k - 1] + 1
    <2> SUFFICES ASSUME NEW k \in 1 .. N, k # 1 PROVE F[k] <= F[k - 1] + 1
      OBVIOUS
    <2>1. k - 1 \in 1 .. N
      OBVIOUS
    <2>2. F[k - 1] \in Nat /\ F[k] \in {F[k - 1], F[k - 1] + 1}
      BY <1>5, <1>9, <2>1 DEF NextPhase
    <2> QED BY <2>2
  <1> QED BY <1>9, <1>10, <1>11, <1>12, <1>13 DEF F

(* Serial execution, one operation at a time. *)
LEMMA SeriallyUnfolds ==
    ASSUME NEW p \in Seq(PlannedOp), NEW before \in [ChunkKeys -> Seq(Ids)]
    PROVE  /\ Len(p) \in Nat /\ DOMAIN p = 1 .. Len(p)
           /\ Serially(p, before) \in [0 .. Len(p) -> [ChunkKeys -> Seq(Ids)]]
           /\ Serially(p, before)[0] = before
           /\ \A n \in 1 .. Len(p) : \A c \in ChunkKeys :
                 Serially(p, before)[n][c] =
                    IF WritesTo(p, n, c) THEN Append(Serially(p, before)[n - 1][c], p[n].id)
                                         ELSE Serially(p, before)[n - 1][c]
  <1> DEFINE N == Len(p)
             after[n \in 0..Len(p)] ==
               IF n = 0 THEN before
               ELSE [c \in ChunkKeys |-> IF WritesTo(p, n, c)
                                      THEN Append(after[n - 1][c], p[n].id)
                                      ELSE after[n - 1][c]]
             next(n, a) == [c \in ChunkKeys |-> IF WritesTo(p, n, c)
                                             THEN Append(a[c], p[n].id) ELSE a[c]]
             A == [ChunkKeys -> Seq(Ids)]
             step == [x \in (1 .. N) \X A |-> next(x[1], x[2])]
  <1>1. N \in Nat /\ DOMAIN p = 1 .. N /\ \A n \in 1 .. N : p[n].id \in Ids
    <2>1. N \in Nat /\ DOMAIN p = 1 .. N /\ \A n \in 1 .. N : p[n] \in PlannedOp
      BY LenProperties, ElementOfSeq
    <2> QED BY <2>1 DEF PlannedOp
  <1>2. step \in [(1 .. N) \X A -> A]
    <2>1. ASSUME NEW n \in 1 .. N, NEW a \in A PROVE next(n, a) \in A
      <3>1. ASSUME NEW c \in ChunkKeys
            PROVE  (IF WritesTo(p, n, c) THEN Append(a[c], p[n].id) ELSE a[c]) \in Seq(Ids)
        <4>1. a[c] \in Seq(Ids) /\ p[n].id \in Ids
          BY <1>1
        <4>2. Append(a[c], p[n].id) \in Seq(Ids)
          BY <4>1, AppendProperties
        <4> QED BY <4>1, <4>2
      <3> QED BY <3>1
    <2> HIDE DEF next, A, N
    <2> QED BY <2>1
  <1>3. PICK f \in [0 .. N -> A] : Iterates(f, before, step, N)
    <2>1. before \in A
      OBVIOUS
    <2> HIDE DEF A, step, N
    <2> QED BY <1>1, <1>2, <2>1, IterationExists
  <1>4. ASSUME NEW n \in 1 .. N PROVE f[n] = next(n, f[n - 1])
    <2>1. n \in 1 .. N /\ n - 1 \in 0 .. N
      BY <1>1
    <2>2. f[n - 1] \in A /\ f[n] = step[<<n, f[n - 1]>>]
      <3> HIDE DEF A, step, N
      <3> QED BY <1>3, <2>1 DEF Iterates
    <2>3. <<n, f[n - 1]>> \in (1 .. N) \X A
      BY <2>2
    <2>4. step[<<n, f[n - 1]>>] = next(<<n, f[n - 1]>>[1], <<n, f[n - 1]>>[2])
      <3> HIDE DEF next, A, N
      <3> QED BY <2>3
    <2> QED BY <2>2, <2>4
  <1>5. f = [n \in 0 .. Len(p) |-> IF n = 0 THEN before ELSE next(n, f[n - 1])]
    <2>1. f[0] = before
      BY <1>3 DEF Iterates
    <2>2. \A n \in 0 .. N : n = 0 \/ n \in 1 .. N
      BY <1>1
    <2> HIDE DEF next, A
    <2> QED BY <1>3, <1>4, <2>1, <2>2
  <1>6. after = [n \in 0 .. Len(p) |-> IF n = 0 THEN before ELSE next(n, after[n - 1])]
    BY <1>5
  <1>7. Serially(p, before) = after
    BY DEF Serially
  <1> HIDE DEF after
  <1>8. after[0] = before /\ \A n \in 1 .. N : after[n] = next(n, after[n - 1])
    <2> HIDE DEF next
    <2> QED BY <1>1, <1>6
  <1> DEFINE S == {n \in 0 .. N : after[n] \in A}
  <1>9. 0 \in S /\ \A n \in 1 .. N : n - 1 \in S => n \in S
    <2>1. 0 \in S
      <3>1. before \in A /\ 0 \in 0 .. N
        BY <1>1
      <3>2. after[0] = before
        BY <1>8
      <3> HIDE DEF A, next, step, N
      <3> QED BY <3>1, <3>2
    <2>2. ASSUME NEW n \in 1 .. N, after[n - 1] \in A PROVE n \in 0 .. N /\ after[n] \in A
      <3>1. <<n, after[n - 1]>> \in (1 .. N) \X A /\ step[<<n, after[n - 1]>>] \in A
        <4> HIDE DEF step, A, N
        <4> QED BY <1>2, <2>2
      <3>2. step[<<n, after[n - 1]>>] = next(<<n, after[n - 1]>>[1], <<n, after[n - 1]>>[2])
        <4> HIDE DEF next, A, N
        <4> QED BY <3>1
      <3>3. n \in 0 .. N
        BY <1>1
      <3>4. <<n, after[n - 1]>>[1] = n /\ <<n, after[n - 1]>>[2] = after[n - 1]
        OBVIOUS
      <3> HIDE DEF next, A, N, step
      <3> QED BY <1>8, <3>1, <3>2, <3>3, <3>4
    <2> HIDE DEF A
    <2> QED BY <2>1, <2>2
  <1>10. \A n \in 0 .. N : after[n] \in A
    <2>1. \A n \in 0 .. N : n \in S
      <3> HIDE DEF S, N
      <3> QED BY <1>1, <1>9, BoundedInduction
    <2> QED BY <2>1
  <1>11. after \in [0 .. N -> A]
    <2> HIDE DEF A, next
    <2> QED BY <1>6, <1>10
  <1>12. \A n \in 1 .. N : \A c \in ChunkKeys :
           after[n][c] = IF WritesTo(p, n, c) THEN Append(after[n - 1][c], p[n].id)
                                              ELSE after[n - 1][c]
    BY <1>8
  <1> QED BY <1>1, <1>7, <1>8, <1>11, <1>12

(* Operations that do not write a chunk leave it as it is. *)
LEMMA SeriallySkips ==
    ASSUME NEW p \in Seq(PlannedOp), NEW before \in [ChunkKeys -> Seq(Ids)], NEW c \in ChunkKeys,
           NEW m \in 0 .. Len(p), NEW n \in m .. Len(p),
           \A k \in 1 .. Len(p) : m < k /\ k <= n => ~WritesTo(p, k, c)
    PROVE  Serially(p, before)[n][c] = Serially(p, before)[m][c]
  <1> DEFINE w == Serially(p, before)
             S == {i \in 0 .. n : i >= m => w[i][c] = w[m][c]}
  <1>1. Len(p) \in Nat /\ n \in Nat /\ m \in Nat
    BY SeriallyUnfolds
  <1>2. \A i \in 1 .. Len(p) : ~WritesTo(p, i, c) => w[i][c] = w[i - 1][c]
    BY SeriallyUnfolds
  <1> HIDE DEF w
  <1>3. 0 \in S
    BY <1>1
  <1>4. ASSUME NEW i \in 1 .. n, i - 1 \in S PROVE i \in S
    <2>1. i \in 0 .. n /\ i \in 1 .. Len(p)
      BY <1>1
    <2>2. CASE i <= m
      BY <1>1, <2>1, <2>2
    <2>3. CASE i > m
      <3>1. w[i][c] = w[i - 1][c]
        BY <1>1, <1>2, <2>1, <2>3
      <3>2. i - 1 >= m
        BY <1>1, <2>3
      <3> QED BY <1>4, <2>1, <3>1, <3>2
    <2> QED BY <1>1, <2>2, <2>3
  <1>5. \A i \in 0 .. n : i \in S
    <2> HIDE DEF S
    <2> QED BY <1>1, <1>3, <1>4, BoundedInduction
  <1>6. n \in 0 .. n /\ n >= m
    BY <1>1
  <1>7. w[n][c] = w[m][c]
    BY <1>5, <1>6
  <1> QED BY <1>7 DEF w

(* An operation wrote a chunk at exactly one moment. *)
WroteOnce(i, s) == \E m : {x \in DOMAIN s : s[x] = i} = {m}

(* Serial execution writes a chunk once for each of its writers. *)
LEMMA SeriallyWritesOnce ==
    ASSUME NEW p \in Seq(PlannedOp), NEW before \in [ChunkKeys -> Seq(Ids)], NEW c \in ChunkKeys,
           NEW k \in 1 .. Len(p), WritesTo(p, k, c),
           \A j \in 1 .. Len(p) : j # k => p[j].id # p[k].id,
           ~Occurs(p[k].id, before[c])
    PROVE  WroteOnce(p[k].id, Serially(p, before)[Len(p)][c])
  <1> DEFINE N == Len(p)
             w == Serially(p, before)
             id == p[k].id
             At(s) == {x \in DOMAIN s : s[x] = id}
             Right(n) == IF n < k THEN At(w[n][c]) = {} ELSE \E m : At(w[n][c]) = {m}
             S == {n \in 0 .. N : Right(n)}
  <1>1. N \in Nat /\ w[0] = before
    BY SeriallyUnfolds
  <1>2. \A n \in 0 .. N : w[n][c] \in Seq(Ids)
    <2>1. w \in [0 .. N -> [ChunkKeys -> Seq(Ids)]]
      BY SeriallyUnfolds
    <2> HIDE DEF w, N
    <2> QED BY <2>1
  <1>3. \A n \in 1 .. N : w[n][c] = IF WritesTo(p, n, c) THEN Append(w[n - 1][c], p[n].id)
                                                         ELSE w[n - 1][c]
    BY SeriallyUnfolds
  <1>4. \A n \in 1 .. N : p[n].id \in Ids
    <2>1. \A n \in 1 .. N : p[n] \in PlannedOp
      BY LenProperties, ElementOfSeq
    <2> QED BY <2>1 DEF PlannedOp
  <1> HIDE DEF w
  <1>5. 0 \in S
    <2>1. At(before[c]) = {}
      BY DEF Occurs
    <2>2. 0 < k /\ 0 \in 0 .. N
      BY <1>1
    <2> QED BY <1>1, <2>1, <2>2
  <1>6. ASSUME NEW n \in 1 .. N, n - 1 \in S PROVE n \in S
    <2>1. n \in 0 .. N /\ n - 1 \in 0 .. N /\ Right(n - 1)
      <3> HIDE DEF Right
      <3> QED BY <1>1, <1>6
    <2> DEFINE s == w[n - 1][c]
               t == Append(s, p[n].id)
    <2>2. s \in Seq(Ids)
      BY <1>2, <2>1
    <2>3. /\ Len(s) \in Nat /\ DOMAIN s = 1 .. Len(s) /\ DOMAIN t = 1 .. Len(s) + 1
          /\ t[Len(s) + 1] = p[n].id
          /\ \A x \in DOMAIN s : t[x] = s[x]
      <3> HIDE DEF s
      <3> QED BY <1>4, <2>2, AppendProperties, LenProperties
    <2>4. CASE ~WritesTo(p, n, c)
      <3>1. w[n][c] = w[n - 1][c] /\ n # k
        BY <1>3, <2>4
      <3>2. n < k <=> n - 1 < k
        BY <1>1, <3>1
      <3> QED BY <2>1, <3>1, <3>2
    <2>5. CASE WritesTo(p, n, c)
      <3>1. w[n][c] = t
        BY <1>3, <2>5
      <3> HIDE DEF s, t
      <3>2. CASE n = k
        <4>1. n - 1 < k /\ ~(n < k)
          BY <1>1, <3>2
        <4>2. At(s) = {}
          BY <2>1, <4>1 DEF s
        <4>3. At(t) = {Len(s) + 1}
          BY <2>3, <3>2, <4>2
        <4> QED BY <2>1, <3>1, <4>1, <4>3
      <3>3. CASE n # k
        <4>1. n < k <=> n - 1 < k
          BY <1>1, <3>3
        <4>2. At(t) = At(s)
          BY <2>3, <3>3
        <4>3. Right(n) <=> Right(n - 1)
          BY <3>1, <4>1, <4>2 DEF s
        <4> HIDE DEF Right
        <4> QED BY <2>1, <4>3
      <3> QED BY <3>2, <3>3
    <2> QED BY <2>4, <2>5
  <1>7. \A n \in 0 .. N : n \in S
    <2> HIDE DEF S, N
    <2> QED BY <1>1, <1>5, <1>6, BoundedInduction
  <1>8. Right(N) /\ ~(N < k)
    <2>1. N \in 0 .. N /\ ~(N < k)
      BY <1>1
    <2> HIDE DEF Right
    <2> QED BY <1>7, <2>1
  <1>9. \E m : At(w[N][c]) = {m}
    BY <1>8
  <1> QED BY <1>9 DEF w, WroteOnce

-----------------------------------------------------------------------------
(* The batch, the plan and the slots.                                      *)

(* A function over 1 .. n is a sequence. *)
LEMMA FunctionIsSeq ==
    ASSUME NEW S, NEW n \in Nat, NEW f \in [1 .. n -> S]
    PROVE  f \in Seq(S) /\ Len(f) = n /\ DOMAIN f = 1 .. n
  OBVIOUS

(* The ids of a batch that carries only what it should. *)
LEMMA QueueFacts ==
    ASSUME QueueOK
    PROVE  /\ issued \in Nat /\ MaxIssued \in Nat /\ issued <= MaxIssued
           /\ Len(queue) \in Nat /\ DOMAIN queue = 1 .. Len(queue)
           /\ \A n \in DOMAIN queue :
                 /\ queue[n] \in Operations /\ queue[n].id \in Ids /\ queue[n].kind \in Templates
                 /\ queue[n].id <= issued /\ queue[n].id \in Nat
           /\ Queued(queue) \subseteq 1 .. issued
           /\ Queued(<<>>) = {}
  <1>1. issued \in Nat /\ MaxIssued \in Nat /\ issued <= MaxIssued
    BY AutoExecAssumption DEF QueueOK
  <1>2. Len(queue) \in Nat /\ DOMAIN queue = 1 .. Len(queue)
    BY LenProperties DEF QueueOK
  <1>3. \A n \in DOMAIN queue : queue[n] \in Operations
    BY <1>2, ElementOfSeq DEF QueueOK
  <1>4. \A n \in DOMAIN queue : queue[n].id \in Ids /\ queue[n].kind \in Templates
    BY <1>3 DEF Operations
  <1>5. \A n \in DOMAIN queue : queue[n].id <= issued /\ queue[n].id \in Nat
    BY <1>1, <1>4 DEF QueueOK, Ids
  <1>6. Queued(queue) \subseteq 1 .. issued
    BY <1>1, <1>4, <1>5 DEF Queued, Ids
  <1>7. Queued(<<>>) = {}
    BY DEF Queued
  <1> QED BY <1>1, <1>2, <1>3, <1>4, <1>5, <1>6, <1>7

(* enqueue: the new operations are the youngest of the batch.              *)
LEMMA BatchGrows ==
    ASSUME QueueOK, NEW fs \in Seq(Templates), queue' = queue \o Batch(fs),
           issued' = issued + Len(fs), issued' <= MaxIssued
    PROVE  /\ QueueOK'
           /\ Queued(queue)' = Queued(queue) \union (issued + 1 .. issued')
           /\ \A n \in DOMAIN queue' :
                 \/ n \in DOMAIN queue /\ queue'[n] = queue[n]
                 \/ queue'[n].id > issued
  <1> DEFINE F == Len(fs)
             L == Len(queue)
             b == Batch(fs)
  <1>1. issued \in Nat /\ MaxIssued \in Nat /\ L \in Nat /\ DOMAIN queue = 1 .. L
        /\ \A n \in 1 .. L : queue[n].id <= issued /\ queue[n].id \in Nat
    BY QueueFacts
  <1>2. F \in Nat /\ DOMAIN fs = 1 .. F /\ \A n \in 1 .. F : fs[n] \in Templates
    BY LenProperties, ElementOfSeq
  <1>3. b = [n \in 1 .. F |-> [id |-> issued + n, kind |-> fs[n]]]
    BY <1>2 DEF Batch
  <1>4. b \in [1 .. F -> Operations]
    <2>1. \A n \in 1 .. F : issued + n \in Ids
      BY <1>1, <1>2 DEF Ids
    <2> QED BY <1>2, <1>3, <2>1 DEF Operations
  <1>5. b \in Seq(Operations) /\ Len(b) = F /\ \A n \in 1 .. F : b[n].id = issued + n
    <2>1. b \in Seq(Operations) /\ Len(b) = F
      <3> HIDE DEF b, F
      <3> QED BY <1>2, <1>4, FunctionIsSeq
    <2> QED BY <1>3, <2>1
  <1> HIDE DEF b, F
  <1>6. queue' \in Seq(Operations) /\ Len(queue') = L + F
        /\ \A n \in 1 .. L + F : queue'[n] = IF n <= L THEN queue[n] ELSE b[n - L]
    <2>1. queue' = queue \o b /\ queue \in Seq(Operations) /\ L \in Nat
      BY <1>1 DEF b, QueueOK
    <2>2. /\ queue \o b \in Seq(Operations)
          /\ Len(queue \o b) = L + F
          /\ \A n \in 1 .. L + F : (queue \o b)[n] = IF n <= L THEN queue[n] ELSE b[n - L]
      BY <1>5, <2>1, ConcatProperties
    <2> HIDE DEF L
    <2> QED BY <2>1, <2>2
  <1>7. DOMAIN queue' = 1 .. L + F
    BY <1>6, LenProperties
  <1>8. \A n \in 1 .. L : n \in 1 .. L + F /\ queue'[n] = queue[n]
    BY <1>1, <1>2, <1>6
  <1>9. \A n \in 1 .. F : n + L \in 1 .. L + F /\ queue'[n + L].id = issued + n
    <2> SUFFICES ASSUME NEW n \in 1 .. F
                 PROVE  n + L \in 1 .. L + F /\ queue'[n + L].id = issued + n
      OBVIOUS
    <2>1. n + L \in 1 .. L + F /\ ~(n + L <= L) /\ (n + L) - L = n
      BY <1>1, <1>2
    <2>2. queue'[n + L] = b[n]
      BY <1>6, <2>1
    <2> QED BY <1>5, <2>1, <2>2
  <1>10. \A n \in 1 .. L + F : n \in 1 .. L \/ \E m \in 1 .. F : n = m + L
    <2> SUFFICES ASSUME NEW n \in 1 .. L + F, n \notin 1 .. L PROVE \E m \in 1 .. F : n = m + L
      OBVIOUS
    <2>1. n - L \in 1 .. F /\ n = (n - L) + L
      BY <1>1, <1>2
    <2> QED BY <2>1
  <1> HIDE DEF L
  <1>18. \A n \in DOMAIN queue' : \/ n \in 1 .. L /\ queue'[n] = queue[n]
                                  \/ \E x \in 1 .. F : queue'[n].id = issued + x
    <2> SUFFICES ASSUME NEW n \in 1 .. L + F, n \notin 1 .. L
                 PROVE  \E x \in 1 .. F : queue'[n].id = issued + x
      BY <1>7, <1>8
    <2>1. PICK x \in 1 .. F : n = x + L
      BY <1>10
    <2> QED BY <1>9, <2>1
  <1>11. issued' = issued + F /\ issued' \in 0 .. MaxIssued
    BY <1>1, <1>2 DEF F
  <1>12. \A n \in DOMAIN queue' : queue'[n].id <= issued'
    <2> SUFFICES ASSUME NEW n \in DOMAIN queue' PROVE queue'[n].id <= issued'
      OBVIOUS
    <2>1. CASE n \in 1 .. L /\ queue'[n] = queue[n]
      BY <1>1, <1>2, <1>11, <2>1
    <2>2. CASE \E x \in 1 .. F : queue'[n].id = issued + x
      BY <1>1, <1>2, <1>11, <2>2
    <2> QED BY <1>18, <2>1, <2>2
  <1>13. \A m, n \in DOMAIN queue' : m < n => queue'[m].id < queue'[n].id
    <2> SUFFICES ASSUME NEW m \in 1 .. L + F, NEW n \in 1 .. L + F, m < n
                 PROVE  queue'[m].id < queue'[n].id
      BY <1>7
    <2>1. CASE n \in 1 .. L
      <3>1. m \in 1 .. L
        BY <1>1, <2>1
      <3> QED BY <1>1, <1>8, <2>1, <3>1 DEF QueueOK
    <2>2. CASE n \notin 1 .. L
      <3>1. PICK x \in 1 .. F : n = x + L
        BY <1>10, <2>2
      <3>2. queue'[n].id = issued + x
        BY <1>9, <3>1
      <3>3. CASE m \in 1 .. L
        BY <1>1, <1>2, <1>8, <3>2, <3>3
      <3>4. CASE m \notin 1 .. L
        <4>1. PICK y \in 1 .. F : m = y + L
          BY <1>10, <3>4
        <4>2. queue'[m].id = issued + y
          BY <1>9, <4>1
        <4>3. y < x
          BY <1>1, <1>2, <3>1, <4>1
        <4> QED BY <1>1, <1>2, <3>2, <4>2, <4>3
      <3> QED BY <3>3, <3>4
    <2> QED BY <2>1, <2>2
  <1>14. Queued(queue') = Queued(queue) \union (issued + 1 .. issued')
    <2>1. Queued(queue') \subseteq Queued(queue) \union (issued + 1 .. issued')
      <3> SUFFICES ASSUME NEW n \in 1 .. L + F
                   PROVE  queue'[n].id \in Queued(queue) \union (issued + 1 .. issued')
        BY <1>7 DEF Queued
      <3>1. CASE n \in 1 .. L
        BY <1>1, <1>8, <3>1 DEF Queued
      <3>2. CASE n \notin 1 .. L
        <4>1. PICK x \in 1 .. F : queue'[n].id = issued + x
          BY <1>7, <1>18, <3>2
        <4>2. issued + x \in issued + 1 .. issued'
          BY <1>1, <1>2, <1>11
        <4> QED BY <4>1, <4>2
      <3> QED BY <3>1, <3>2
    <2>2. Queued(queue) \subseteq Queued(queue')
      BY <1>1, <1>7, <1>8 DEF Queued
    <2>3. ASSUME NEW i \in issued + 1 .. issued' PROVE i \in Queued(queue')
      <3>1. i - issued \in 1 .. F /\ i = issued + (i - issued)
        BY <1>1, <1>2, <1>11
      <3>2. (i - issued) + L \in DOMAIN queue' /\ queue'[(i - issued) + L].id = i
        BY <1>7, <1>9, <3>1
      <3> QED BY <3>2 DEF Queued
    <2> QED BY <2>1, <2>2, <2>3
  <1>15. \A n \in DOMAIN queue' : \/ n \in DOMAIN queue /\ queue'[n] = queue[n]
                                  \/ queue'[n].id > issued
    <2>1. \A x \in 1 .. F : issued + x > issued
      BY <1>1, <1>2
    <2> QED BY <1>1, <1>18, <2>1
  <1>16. QueueOK'
    BY <1>6, <1>11, <1>12, <1>13 DEF QueueOK
  <1>17. Queued(queue)' = Queued(queue')
    BY DEF Queued
  <1> QED BY <1>14, <1>15, <1>16, <1>17

(* Nothing is wrong with an empty batch. *)
LEMMA BatchCleared ==
    ASSUME QueueOK, queue' = <<>>, issued' = issued
    PROVE  QueueOK' /\ Queued(queue)' = {}
  <1>1. <<>> \in Seq(Operations) /\ DOMAIN <<>> = {}
    BY EmptySeq
  <1> QED BY <1>1 DEF QueueOK, Queued

(* A plan names its operations once each. *)
LEMMA PlanFacts ==
    ASSUME NEW p, NEW ids \in Seq(Ids), PlanFor(p, ids),
           \A g, h \in DOMAIN ids : g < h => ids[g] < ids[h]
    PROVE  /\ Len(p) \in Nat /\ DOMAIN p = 1 .. Len(p) /\ p \in Seq(PlannedOp)
           /\ \A k \in DOMAIN p : /\ p[k].id \in Ids /\ p[k].kind \in Templates
                                  /\ p[k].handle \in DOMAIN ids /\ p[k].handle \in Nat
                                  /\ p[k].id = ids[p[k].handle]
                                  /\ p[k].chunks \subseteq ChunkKeys
           /\ \A j, k \in DOMAIN p : j # k => p[j].handle # p[k].handle /\ p[j].id # p[k].id
  <1>1. Len(p) \in Nat /\ DOMAIN p = 1 .. Len(p) /\ p \in Seq(PlannedOp)
    BY LenProperties DEF PlanFor
  <1>2. \A k \in DOMAIN p : p[k] \in PlannedOp
    BY <1>1, ElementOfSeq
  <1>3. ASSUME NEW k \in DOMAIN p
        PROVE  /\ p[k].id \in Ids /\ p[k].kind \in Templates
               /\ p[k].handle \in DOMAIN ids /\ p[k].handle \in Nat
               /\ p[k].id = ids[p[k].handle]
               /\ p[k].chunks \subseteq ChunkKeys
    BY <1>2 DEF PlanFor, PlannedOp
  <1>4. ASSUME NEW j \in DOMAIN p, NEW k \in DOMAIN p, j < k
        PROVE  p[j].handle # p[k].handle /\ p[j].id # p[k].id
    <2>1. p[j].handle < p[k].handle
      BY <1>4 DEF PlanFor
    <2>2. p[j].id < p[k].id
      BY <1>3, <2>1
    <2> QED BY <1>3, <2>1, <2>2 DEF Ids
  <1>5. \A j, k \in DOMAIN p : j # k => j < k \/ k < j
    BY <1>1
  <1>6. \A j, k \in DOMAIN p : j # k => p[j].handle # p[k].handle /\ p[j].id # p[k].id
    BY <1>4, <1>5
  <1> QED BY <1>1, <1>3, <1>6

(* begin_handles: the handles of a phase become Pending and no other slot  *)
(* is touched; the slots never outnumber the batch.                        *)
LEMMA PreparedSlots ==
    ASSUME NEW s \in Seq(SlotRecord), NEW ids \in Seq(Ids), NEW p, PlanFor(p, ids),
           NEW n \in Nat, DOMAIN s \subseteq DOMAIN ids
    PROVE  /\ Prepared(s, p, n) \in Seq(SlotRecord)
           /\ DOMAIN s \subseteq DOMAIN Prepared(s, p, n)
           /\ DOMAIN Prepared(s, p, n) \subseteq DOMAIN ids
           /\ \A k \in InPhase(p, n) : /\ p[k].handle \in DOMAIN Prepared(s, p, n)
                                       /\ Prepared(s, p, n)[p[k].handle] = Slot("Pending")
           /\ \A h \in DOMAIN Prepared(s, p, n) :
                 h \notin {p[k].handle : k \in InPhase(p, n)} =>
                    Prepared(s, p, n)[h] = IF h \in DOMAIN s THEN s[h] ELSE Slot("Unbound")
  <1> DEFINE handles == {p[k].handle : k \in InPhase(p, n)}
             all == {Len(s)} \union handles
             size == Max(all)
             r == Prepared(s, p, n)
             value(h) == IF h \in handles THEN Slot("Pending")
                         ELSE IF h \in DOMAIN s THEN s[h] ELSE Slot("Unbound")
  <1>1. Len(s) \in Nat /\ DOMAIN s = 1 .. Len(s) /\ Len(ids) \in Nat /\ DOMAIN ids = 1 .. Len(ids)
    BY LenProperties
  <1>2. handles \subseteq 1 .. Len(ids)
    BY <1>1 DEF PlanFor, InPhase
  <1>3. all \in SUBSET (0 .. Len(ids)) /\ all # {}
    <2>1. Len(s) \in 0 .. Len(ids)
      <3>1. Len(s) = 0 \/ Len(s) \in DOMAIN s
        BY <1>1
      <3> QED BY <1>1, <3>1
    <2>2. handles \subseteq 0 .. Len(ids)
      <3>1. 1 .. Len(ids) \subseteq 0 .. Len(ids)
        BY <1>1
      <3> HIDE DEF handles
      <3> QED BY <1>2, <3>1
    <2> DEFINE z == Len(s)
               bound == 0 .. Len(ids)
    <2>3. z \in bound /\ handles \subseteq bound
      BY <2>1, <2>2
    <2> HIDE DEF handles, z, bound
    <2>4. {z} \union handles \in SUBSET bound /\ {z} \union handles # {}
      BY <2>3
    <2> QED BY <2>4 DEF z, bound
  <1>4. size \in all /\ \A y \in all : size >= y
    <2> HIDE DEF all
    <2> QED BY <1>1, <1>3, MaxIsGreatest
  <1>5. size \in Nat /\ size <= Len(ids) /\ Len(s) <= size /\ \A h \in handles : h \in 1 .. size
    <2> HIDE DEF handles, size
    <2> QED BY <1>1, <1>2, <1>3, <1>4
  <1>6. r = [h \in 1 .. size |-> value(h)]
    BY DEF Prepared
  <1> HIDE DEF r, size
  <1>7. \A h \in DOMAIN s : s[h] \in SlotRecord
    BY <1>1, ElementOfSeq
  <1>8. r \in [1 .. size -> SlotRecord]
    <2>1. Slot("Pending") \in SlotRecord /\ Slot("Unbound") \in SlotRecord
      BY DEF Slot, SlotRecord
    <2> HIDE DEF handles
    <2> QED BY <1>6, <1>7, <2>1
  <1>9. r \in Seq(SlotRecord) /\ DOMAIN r = 1 .. size
    BY <1>5, <1>8, FunctionIsSeq
  <1>10. DOMAIN s \subseteq DOMAIN r /\ DOMAIN r \subseteq DOMAIN ids
    BY <1>1, <1>5, <1>9
  <1>11. \A k \in InPhase(p, n) : p[k].handle \in handles
    OBVIOUS
  <1> HIDE DEF handles
  <1>12. \A h \in handles : h \in DOMAIN r /\ r[h] = Slot("Pending")
    BY <1>5, <1>6, <1>9
  <1>13. \A h \in DOMAIN r : h \notin handles =>
             r[h] = IF h \in DOMAIN s THEN s[h] ELSE Slot("Unbound")
    BY <1>6, <1>9
  <1> QED BY <1>9, <1>10, <1>11, <1>12, <1>13 DEF r, handles

(* Rejected operations have Failed slots from the beginning of a run. *)
LEMMA RejectionSlots ==
    ASSUME NEW v, NEW n \in Nat, DOMAIN v = 1 .. n
    PROVE  /\ Rejections(v) \in Seq(SlotRecord)
           /\ DOMAIN Rejections(v) \subseteq 1 .. n
           /\ \A h \in 1 .. n : v[h] # "Planned" =>
                 h \in DOMAIN Rejections(v) /\ Rejections(v)[h] = Slot("Failed")
           /\ \A h \in DOMAIN Rejections(v) : v[h] = "Planned" =>
                 Rejections(v)[h] = Slot("Unbound")
  <1> DEFINE failed == {h \in DOMAIN v : v[h] # "Planned"}
             all == failed \union {0}
             size == Max(all)
             r == Rejections(v)
  <1>1. all \in SUBSET (0 .. n) /\ all # {}
    OBVIOUS
  <1>2. size \in all /\ \A y \in all : size >= y
    <2> HIDE DEF all
    <2> QED BY <1>1, MaxIsGreatest
  <1>3. size \in 0 .. n /\ \A h \in failed : h \in 1 .. size
    <2> HIDE DEF size
    <2> QED BY <1>1, <1>2
  <1>4. r = [h \in 1 .. size |-> Slot(IF h \in failed THEN "Failed" ELSE "Unbound")]
    BY DEF Rejections
  <1> HIDE DEF size, r
  <1>5. r \in [1 .. size -> SlotRecord]
    <2>1. Slot("Failed") \in SlotRecord /\ Slot("Unbound") \in SlotRecord
      BY DEF Slot, SlotRecord
    <2> HIDE DEF failed
    <2> QED BY <1>4, <2>1
  <1>6. r \in Seq(SlotRecord) /\ DOMAIN r = 1 .. size /\ DOMAIN r \subseteq 1 .. n
    BY <1>3, <1>5, FunctionIsSeq
  <1>7. \A h \in failed : h \in DOMAIN r /\ r[h] = Slot("Failed")
    BY <1>3, <1>4
  <1>8. \A h \in DOMAIN r : h \notin failed => r[h] = Slot("Unbound")
    BY <1>4
  <1> QED BY <1>6, <1>7, <1>8 DEF r

-----------------------------------------------------------------------------
(* What the invariant says of a run.                                       *)

(* The plan of a run, its phases and its progress. *)
LEMMA RunFacts ==
    ASSUME AutoExecInv
    PROVE  /\ Len(plan) \in Nat /\ DOMAIN plan = 1 .. Len(plan) /\ plan \in Seq(PlannedOp)
           /\ DOMAIN exec = DOMAIN plan
           /\ \A k \in DOMAIN plan :
                 /\ plan[k].id \in Ids /\ plan[k].kind \in Templates
                 /\ plan[k].handle \in DOMAIN run_ids /\ plan[k].handle \in Nat
                 /\ plan[k].id = run_ids[plan[k].handle]
                 /\ plan[k].chunks \subseteq ChunkKeys /\ plan[k].chunks \subseteq Nat
           /\ \A j, k \in DOMAIN plan :
                 j # k => plan[j].handle # plan[k].handle /\ plan[j].id # plan[k].id
           /\ \A k \in DOMAIN plan : exec[k] \in ExecRecord
  <1>1. run_ids \in Seq(Ids) /\ PlanFor(plan, run_ids)
        /\ \A g, h \in DOMAIN run_ids : g < h => run_ids[g] < run_ids[h]
    BY DEF AutoExecInv, RunOK
  <1>2. \A k \in DOMAIN plan : plan[k].chunks \subseteq ChunkKeys
    BY <1>1, PlanFacts
  <1>3. \A k \in DOMAIN plan : plan[k].chunks \subseteq Nat
    BY <1>2, QueuedPlanAssumption
  <1>4. exec \in [DOMAIN plan -> ExecRecord]
    BY DEF AutoExecInv, ExecOK
  <1>5. DOMAIN exec = DOMAIN plan /\ \A k \in DOMAIN plan : exec[k] \in ExecRecord
    BY <1>4
  <1> QED BY <1>1, <1>3, <1>5, PlanFacts

(* The phases of a run. *)
LEMMA RunPhases ==
    ASSUME AutoExecInv
    PROVE  /\ \A k \in DOMAIN plan : PhaseOf(plan)[k] \in Nat \ {0}
           /\ \A k \in DOMAIN plan : PhaseOf(plan)[k] <= LastPhase(plan)
           /\ LastPhase(plan) \in Nat
           /\ \A j, k \in DOMAIN plan : j <= k => PhaseOf(plan)[j] <= PhaseOf(plan)[k]
           /\ \A j, k \in DOMAIN plan :
                 j < k /\ PhaseConflict(plan[j], plan[k]) => PhaseOf(plan)[j] < PhaseOf(plan)[k]
           /\ stage = "phases" => phase \in Nat \ {0} /\ plan # <<>> /\ phase <= LastPhase(plan)
  <1>1. Len(plan) \in Nat /\ DOMAIN plan = 1 .. Len(plan) /\ plan \in Seq(PlannedOp)
    BY RunFacts
  <1>2. /\ PhaseOf(plan) \in [1 .. Len(plan) -> Nat \ {0}]
        /\ \A j, k \in 1 .. Len(plan) : j <= k => PhaseOf(plan)[j] <= PhaseOf(plan)[k]
        /\ \A j, k \in 1 .. Len(plan) :
              j < k /\ PhaseConflict(plan[j], plan[k]) => PhaseOf(plan)[j] < PhaseOf(plan)[k]
    BY <1>1, PhasesAreOrdered
  <1>3. \A k \in DOMAIN plan : PhaseOf(plan)[k] \in Nat \ {0}
    BY <1>1, <1>2
  <1>4. CASE plan = <<>>
    <2>1. LastPhase(plan) = 0 /\ DOMAIN plan = {}
      BY <1>4 DEF LastPhase
    <2>2. stage # "phases"
      BY <2>1 DEF AutoExecInv, RunOK
    <2> QED BY <2>1, <2>2
  <1>5. CASE plan # <<>>
    <2>1. Len(plan) \in DOMAIN plan
      BY <1>1, <1>5, EmptySeq
    <2>2. LastPhase(plan) = PhaseOf(plan)[Len(plan)]
      BY <1>5 DEF LastPhase
    <2>3. \A k \in DOMAIN plan : PhaseOf(plan)[k] <= LastPhase(plan)
      BY <1>1, <1>2, <2>1, <2>2
    <2>4. LastPhase(plan) \in Nat
      BY <1>3, <2>1, <2>2
    <2>5. stage = "phases" => phase \in Nat \ {0} /\ phase <= LastPhase(plan)
      BY <2>4 DEF AutoExecInv, RunOK
    <2> QED BY <1>1, <1>2, <1>3, <1>5, <2>3, <2>4, <2>5
  <1> QED BY <1>4, <1>5

(* The first chunk that a kernel still has to visit is a chunk of its      *)
(* operation.                                                              *)
LEMMA NextChunk ==
    ASSUME AutoExecInv, NEW k \in DOMAIN plan, exec[k].left # {}
    PROVE  /\ Min(exec[k].left) \in exec[k].left
           /\ Min(exec[k].left) \in plan[k].chunks
           /\ Min(exec[k].left) \in ChunkKeys
  <1>1. exec[k].left \subseteq plan[k].chunks
    BY DEF AutoExecInv, ExecOK, Consistent
  <1>2. plan[k].chunks \subseteq ChunkKeys /\ plan[k].chunks \subseteq Nat
    BY RunFacts
  <1>3. Min(exec[k].left) \in exec[k].left
    BY <1>1, <1>2, MinIsLeast
  <1> QED BY <1>1, <1>2, <1>3

-----------------------------------------------------------------------------
(* The invariant holds initially.                                          *)
LEMMA InitHolds == ExecInit => AutoExecInv
  <1> SUFFICES ASSUME ExecInit PROVE AutoExecInv
    OBVIOUS
  <1> USE AutoExecAssumption
  <1>1. \A S : <<>> \in Seq(S) /\ DOMAIN <<>> = {}
    BY EmptySeq
  <1>2. QueueOK
    BY <1>1 DEF ExecInit, QueueOK
  <1>3. PlanFor(<<>>, <<>>)
    BY <1>1 DEF PlanFor
  <1>4. RunOK
    BY <1>1, <1>3 DEF ExecInit, RunOK
  <1>5. ExecOK
    BY <1>1 DEF ExecInit, ExecOK
  <1>6. SlotsOK
    BY <1>1 DEF ExecInit, SlotsOK
  <1>7. SettledOK
    <2>1. Owned = {}
      BY <1>1 DEF ExecInit, Owned, Queued
    <2>2. \A i \in Ids : i > 0
      BY DEF Ids
    <2> QED BY <2>1, <2>2 DEF ExecInit, SettledOK, Outcomes
  <1>8. MarksOK
    BY DEF ExecInit, MarksOK, WritesLeaveDirtyMarks
  <1>9. WorldOK
    <2>1. world \in [ChunkKeys -> Seq(Ids)] /\ world_before \in [ChunkKeys -> Seq(Ids)]
      BY <1>1 DEF ExecInit
    <2>2. \A i \in Ids : \A c \in ChunkKeys : ~Occurs(i, world[c]) /\ ~Occurs(i, world_before[c])
      BY <1>1 DEF ExecInit, Occurs
    <2> QED BY <2>1, <2>2 DEF ExecInit, WorldOK
  <1>10. SerialOK
    BY <1>1 DEF ExecInit, SerialOK
  <1> QED BY <1>2, <1>4, <1>5, <1>6, <1>7, <1>8, <1>9, <1>10 DEF AutoExecInv

-----------------------------------------------------------------------------
(* Between runs.                                                           *)

(* Between runs there is no plan and nothing is in progress. *)
LEMMA IdleFacts ==
    ASSUME AutoExecInv, stage = "idle"
    PROVE  /\ plan = <<>> /\ exec = <<>> /\ slots = <<>>
           /\ DOMAIN plan = {} /\ DOMAIN exec = {} /\ PlanIds = {}
           /\ Owned = Queued(queue)
  <1>1. plan = <<>> /\ exec = <<>> /\ slots = <<>>
    BY DEF AutoExecInv, RunOK
  <1>2. DOMAIN <<>> = {}
    BY EmptySeq
  <1> QED BY <1>1, <1>2 DEF PlanIds, Owned

(* What a run has left behind stays as it is until the next one. *)
LEMMA IdleKeeps ==
    ASSUME AutoExecInv, stage = "idle", UNCHANGED <<run, run_ids, world, world_before>>,
           issued \in Nat, issued' \in Nat, issued <= issued'
    PROVE  RunOK' /\ ExecOK' /\ SlotsOK' /\ SerialOK' /\ DOMAIN plan' = {} /\ PlanIds' = {}
  <1> USE DEF run
  <1>1. plan' = <<>> /\ exec' = <<>> /\ slots' = <<>> /\ DOMAIN plan' = {}
    BY IdleFacts
  <1>2. RunOK'
    <2>1. run_ids' \in Seq(Ids) /\ PlanFor(plan', run_ids')
          /\ \A g, h \in DOMAIN run_ids' : g < h => run_ids'[g] < run_ids'[h]
      BY DEF AutoExecInv, RunOK
    <2>2. \A h \in DOMAIN run_ids' : run_ids'[h] <= issued'
      <3>1. \A h \in DOMAIN run_ids : run_ids[h] \in Nat
        BY LenProperties, ElementOfSeq, AutoExecAssumption DEF AutoExecInv, RunOK, Ids
      <3>2. \A h \in DOMAIN run_ids : run_ids[h] <= issued
        BY DEF AutoExecInv, RunOK
      <3> QED BY <3>1, <3>2
    <2> QED BY <1>1, <2>1, <2>2 DEF RunOK
  <1>3. ExecOK'
    BY DEF AutoExecInv, ExecOK
  <1>4. SlotsOK'
    BY <1>1, EmptySeq DEF SlotsOK
  <1>5. SerialOK'
    BY <1>1 DEF SerialOK
  <1> QED BY <1>1, <1>2, <1>3, <1>4, <1>5 DEF PlanIds

(* The dirty marks of a phase depend on the phase and its progress only. *)
LEMMA MarksKept ==
    ASSUME AutoExecInv, UNCHANGED <<stage, plan, phase, exec, dirty, unseen>>
    PROVE  MarksOK'
  BY DEF AutoExecInv, MarksOK, WritesLeaveDirtyMarks, Recorded, Members

(* An operation that is neither answered nor in the run has written nothing. *)
LEMMA UnissuedWroteNothing ==
    ASSUME AutoExecInv, NEW i \in Ids \ aborted, settled[i] # "Ready", i \notin PlanIds, NEW c \in ChunkKeys
    PROVE  ~Occurs(i, world[c])
  BY DEF AutoExecInv, WorldOK

(* Enqueue keeps the invariant. *)
LEMMA EnqueueKeeps ==
    ASSUME AutoExecInv, NEW t \in Templates, Enqueue(t)
    PROVE  AutoExecInv'
  <1>1. issued \in Nat /\ issued' = issued + 1 /\ issued' \in Nat /\ issued <= issued' /\ issued' <= MaxIssued
        /\ MaxIssued \in Nat
    BY AutoExecAssumption DEF AutoExecInv, QueueOK, Enqueue
  <1>2. QueueOK' /\ Queued(queue)' = Queued(queue) \union {issued'}
    <2>1. <<t>> \in Seq(Templates) /\ Len(<<t>>) = 1
      OBVIOUS
    <2>2. queue' = queue \o Batch(<<t>>) /\ issued' = issued + Len(<<t>>) /\ QueueOK
      BY <1>1, <2>1 DEF Enqueue, AutoExecInv
    <2>3. QueueOK' /\ Queued(queue)' = Queued(queue) \union (issued + 1 .. issued')
      BY <1>1, <2>1, <2>2, BatchGrows
    <2>4. issued + 1 .. issued' = {issued'}
      BY <1>1
    <2> QED BY <2>3, <2>4
  <1>3. stage = "idle" /\ UNCHANGED <<run, chunk_state, run_ids, world_before, unseen, aborted>>
    BY DEF Enqueue
  <1>4. RunOK' /\ ExecOK' /\ SlotsOK' /\ SerialOK' /\ DOMAIN plan' = {} /\ PlanIds' = {}
    BY <1>1, <1>3, IdleKeeps DEF chunk_state
  <1>5. MarksOK'
    BY <1>3, MarksKept DEF run, chunk_state
  <1>6. /\ settled \in [Ids -> Outcomes]
        /\ \A i \in Ids : i > issued <=> settled[i] = "none"
        /\ \A i \in Ids : settled[i] = "open" <=> i \in Queued(queue)
    BY <1>3, IdleFacts DEF AutoExecInv, SettledOK
  <1>7. \A i \in Ids : settled'[i] = IF i = issued' THEN "open" ELSE settled[i]
    BY <1>1 DEF Enqueue, Settle
  <1>8. settled' \in [Ids -> Outcomes]
    <2>1. settled' = [i \in Ids |-> IF i = issued' THEN "open" ELSE settled[i]]
      BY <1>1 DEF Enqueue, Settle
    <2> QED BY <1>6, <2>1 DEF Outcomes
  <1>9. SettledOK'
    <2>1. Owned' = Queued(queue) \union {issued'}
      BY <1>2, <1>3 DEF Owned, run
    <2>2. \A i \in Ids : i > issued' <=> settled'[i] = "none"
      <3>1. \A i \in Ids : i # issued' => (i > issued' <=> i > issued)
        BY <1>1 DEF Ids
      <3>2. ~(issued' > issued')
        BY <1>1
      <3> QED BY <1>6, <1>7, <3>1, <3>2
    <2>3. \A i \in Ids : settled'[i] = "open" <=> i \in Owned'
      BY <1>6, <1>7, <2>1
    <2> QED BY <1>3, <1>8, <2>2, <2>3 DEF SettledOK, run
  <1>10. WorldOK'
    <2>1. \A i \in Ids \ aborted : \A c \in ChunkKeys : Occurs(i, world[c]) => settled'[i] = "Ready"
      <3> SUFFICES ASSUME NEW i \in Ids \ aborted, NEW c \in ChunkKeys, Occurs(i, world[c])
                   PROVE  settled'[i] = "Ready"
        OBVIOUS
      <3>1. settled[i] = "Ready"
        BY <1>3, IdleFacts, UnissuedWroteNothing
      <3>2. i # issued'
        <4>1. settled[i] # "none"
          BY <3>1
        <4> QED BY <1>1, <1>6, <4>1
      <3> QED BY <1>7, <3>1, <3>2
    <2> QED BY <1>3, <1>4, <2>1 DEF AutoExecInv, WorldOK, run, chunk_state
  <1> QED BY <1>2, <1>4, <1>5, <1>9, <1>10 DEF AutoExecInv

(* A batch that is discarded or dropped leaves nothing open. *)
LEMMA DiscardKeeps ==
    ASSUME AutoExecInv, NEW how \in {"discarded", "dropped"}, stage = "idle",
           queue' = <<>>, settled' = Settle(Queued(queue), how),
           UNCHANGED <<issued, run, chunk_state, run_ids, world_before, unseen, aborted>>
    PROVE  AutoExecInv'
  <1>1. issued \in Nat /\ issued' \in Nat /\ issued <= issued'
    BY AutoExecAssumption DEF AutoExecInv, QueueOK
  <1>2. QueueOK' /\ Queued(queue)' = {}
    BY BatchCleared DEF AutoExecInv
  <1>3. RunOK' /\ ExecOK' /\ SlotsOK' /\ SerialOK' /\ DOMAIN plan' = {} /\ PlanIds' = {}
    BY <1>1, IdleKeeps DEF chunk_state
  <1>4. MarksOK'
    BY MarksKept DEF run, chunk_state
  <1>5. /\ settled \in [Ids -> Outcomes]
        /\ \A i \in Ids : i > issued <=> settled[i] = "none"
        /\ \A i \in Ids : settled[i] = "open" <=> i \in Queued(queue)
    BY IdleFacts DEF AutoExecInv, SettledOK
  <1>6. \A i \in Ids : settled'[i] = IF i \in Queued(queue) THEN how ELSE settled[i]
    BY DEF Settle
  <1>7. SettledOK'
    <2>1. Owned' = {}
      BY <1>2 DEF Owned, run
    <2>2. settled' \in [Ids -> Outcomes]
      BY <1>5 DEF Settle, Outcomes
    <2>3. \A i \in Ids : i > issued' <=> settled'[i] = "none"
      BY <1>5, <1>6
    <2>4. \A i \in Ids : settled'[i] # "open"
      BY <1>5, <1>6
    <2> QED BY <2>1, <2>2, <2>3, <2>4 DEF SettledOK, run
  <1>8. WorldOK'
    <2>1. \A i \in Ids \ aborted : \A c \in ChunkKeys : Occurs(i, world[c]) => settled'[i] = "Ready"
      <3> SUFFICES ASSUME NEW i \in Ids \ aborted, NEW c \in ChunkKeys, Occurs(i, world[c])
                   PROVE  settled'[i] = "Ready"
        OBVIOUS
      <3>1. settled[i] = "Ready"
        BY IdleFacts, UnissuedWroteNothing
      <3> QED BY <1>5, <1>6, <3>1
    <2> QED BY <1>3, <2>1 DEF AutoExecInv, WorldOK, run, chunk_state
  <1> QED BY <1>2, <1>3, <1>4, <1>7, <1>8 DEF AutoExecInv

(* ClearQueue keeps the invariant. *)
LEMMA ClearQueueKeeps == AutoExecInv /\ ClearQueue => AutoExecInv'
  BY DiscardKeeps DEF ClearQueue

(* DropMismatched keeps the invariant. *)
LEMMA DropMismatchedKeeps == AutoExecInv /\ DropMismatched => AutoExecInv'
  BY DiscardKeeps DEF DropMismatched

(* ClearDirtyChunks keeps the invariant: a consumer clears what it has seen. *)
LEMMA ClearDirtyKeeps == AutoExecInv /\ ClearDirtyChunks => AutoExecInv'
  <1> SUFFICES ASSUME AutoExecInv, ClearDirtyChunks PROVE AutoExecInv'
    OBVIOUS
  <1>1. stage = "idle" /\ UNCHANGED <<batch, run, world, settled, run_ids, world_before, aborted>>
    BY DEF ClearDirtyChunks
  <1>2. issued \in Nat
    BY AutoExecAssumption DEF AutoExecInv, QueueOK
  <1>3. QueueOK'
    BY <1>1 DEF AutoExecInv, QueueOK, batch
  <1>4. RunOK' /\ ExecOK' /\ SlotsOK' /\ SerialOK' /\ PlanIds' = {}
    BY <1>1, <1>2, IdleKeeps DEF batch
  <1>5. SettledOK'
    BY <1>1 DEF AutoExecInv, SettledOK, Owned, Undrained, Queued, batch, run
  <1>6. MarksOK'
    BY DEF ClearDirtyChunks, MarksOK, WritesLeaveDirtyMarks
  <1>7. WorldOK'
    BY <1>1, <1>4, IdleFacts DEF AutoExecInv, WorldOK, run
  <1> QED BY <1>3, <1>4, <1>5, <1>6, <1>7 DEF AutoExecInv

-----------------------------------------------------------------------------
(* A run begins.                                                           *)

(* BeginRun plans the batch as it stands.                                  *)
LEMMA BeginPlans ==
    ASSUME AutoExecInv, BeginRun
    PROVE  /\ run_ids' \in Seq(Ids)
           /\ DOMAIN run_ids' = DOMAIN queue /\ DOMAIN queue = 1 .. Len(queue) /\ Len(queue) \in Nat
           /\ \A h \in DOMAIN run_ids' : run_ids'[h] = queue[h].id
           /\ \A g, h \in DOMAIN run_ids' : g < h => run_ids'[g] < run_ids'[h]
           /\ PlanFor(plan', run_ids')
           /\ run_ids' = [n \in 1 .. Len(queue) |-> queue[n].id]
  <1>1. QueueOK
    BY DEF AutoExecInv
  <1>2. Len(queue) \in Nat /\ DOMAIN queue = 1 .. Len(queue)
        /\ \A n \in DOMAIN queue : queue[n].id \in Ids
    BY <1>1, QueueFacts
  <1>3. run_ids' = [n \in 1 .. Len(queue) |-> queue[n].id]
    BY <1>2 DEF BeginRun
  <1>4. run_ids' \in [1 .. Len(queue) -> Ids]
    BY <1>2, <1>3
  <1>5. run_ids' \in Seq(Ids)
    BY <1>2, <1>4, FunctionIsSeq
  <1>6. \A g, h \in DOMAIN run_ids' : g < h => run_ids'[g] < run_ids'[h]
    BY <1>1, <1>2, <1>3 DEF QueueOK
  <1>7. plan' = PlanOperations(queue, dirty).plan
    BY DEF BeginRun
  <1>8. PlanFor(plan', run_ids')
    <2>1. queue \in Seq(Operations)
      BY <1>1 DEF QueueOK
    <2> QED BY <1>3, <1>7, <2>1, PlanIsPlan
  <1> QED BY <1>2, <1>3, <1>5, <1>6, <1>8

(* BeginRun gives every rejected operation a Failed slot, and every        *)
(* operation of the first phase a Pending one.                             *)
LEMMA BeginSlots ==
    ASSUME AutoExecInv, BeginRun
    PROVE  /\ slots' \in Seq(SlotRecord)
           /\ DOMAIN slots' \subseteq DOMAIN run_ids'
           /\ \A h \in DOMAIN slots' : ~slots'[h].drained
           /\ \A h \in DOMAIN run_ids' \ {plan'[k].handle : k \in DOMAIN plan'} :
                 h \in DOMAIN slots' /\ slots'[h].state = "Failed"
           /\ stage' = "phases" => \A k \in DOMAIN plan' :
                 IF PhaseOf(plan')[k] <= 1
                 THEN plan'[k].handle \in DOMAIN slots' /\ slots'[plan'[k].handle].state = "Pending"
                 ELSE plan'[k].handle \in DOMAIN slots' => slots'[plan'[k].handle].state = "Unbound"
  <1> DEFINE v == PlanOperations(queue, dirty).verdicts
             N == Len(queue)
             r == Rejections(v)
             planned == {plan'[k].handle : k \in DOMAIN plan'}
  <1>1. N \in Nat /\ DOMAIN run_ids' = 1 .. N /\ run_ids' \in Seq(Ids) /\ PlanFor(plan', run_ids')
        /\ \A g, h \in DOMAIN run_ids' : g < h => run_ids'[g] < run_ids'[h]
    BY BeginPlans
  <1>2. DOMAIN v = 1 .. N /\ \A h \in 1 .. N : v[h] = "Planned" <=> h \in planned
    <2>1. queue \in Seq(Operations) /\ plan' = PlanOperations(queue, dirty).plan
      BY DEF AutoExecInv, QueueOK, BeginRun
    <2>5. run_ids' = [n \in 1 .. Len(queue) |-> queue[n].id]
      BY BeginPlans
    <2>2. DOMAIN v = 1 .. N
      BY <2>1, <2>5, PlanIsPlan
    <2>3. \A h \in 1 .. N : v[h] = "Planned" <=> \E k \in DOMAIN plan' : plan'[k].handle = h
      <3> DEFINE p == PlanOperations(queue, dirty).plan
      <3>1. \A h \in 1 .. N : v[h] = "Planned" <=> \E k \in DOMAIN p : p[k].handle = h
        BY <2>1, <2>5, PlanIsPlan
      <3>2. plan' = p
        BY <2>1
      <3> HIDE DEF v, N, p
      <3> QED BY <3>1, <3>2
    <2>4. \A h : h \in planned <=> \E k \in DOMAIN plan' : plan'[k].handle = h
      OBVIOUS
    <2> HIDE DEF v, N, planned
    <2> QED BY <2>2, <2>3, <2>4
  <1>3. /\ r \in Seq(SlotRecord)
        /\ DOMAIN r \subseteq 1 .. N
        /\ \A h \in 1 .. N : h \notin planned => h \in DOMAIN r /\ r[h] = Slot("Failed")
        /\ \A h \in DOMAIN r : h \in planned => r[h] = Slot("Unbound")
    <2>1. /\ r \in Seq(SlotRecord)
          /\ DOMAIN r \subseteq 1 .. N
          /\ \A h \in 1 .. N : v[h] # "Planned" => h \in DOMAIN r /\ r[h] = Slot("Failed")
          /\ \A h \in DOMAIN r : v[h] = "Planned" => r[h] = Slot("Unbound")
      <3> HIDE DEF v
      <3> QED BY <1>1, <1>2, RejectionSlots
    <2> HIDE DEF r, v, planned
    <2> QED BY <1>2, <2>1
  <1>4. \/ /\ plan' = <<>> /\ stage' = "drain" /\ slots' = r
        \/ /\ plan' # <<>> /\ stage' = "phases" /\ slots' = Prepared(r, plan', 1)
    BY DEF BeginRun
  <1>5. \A k \in DOMAIN plan' : plan'[k].handle \in planned
    OBVIOUS
  <1> HIDE DEF v, r, N
  <1>6. CASE slots' = r /\ plan' = <<>> /\ stage' = "drain"
    <2>1. planned = {}
      BY <1>6, EmptySeq
    <2>2. \A h \in DOMAIN r : r[h] = Slot("Failed") /\ h \in DOMAIN run_ids'
      BY <1>1, <1>3, <2>1
    <2>3. \A h \in DOMAIN run_ids' : h \in DOMAIN slots' /\ slots'[h].state = "Failed"
      BY <1>1, <1>3, <1>6, <2>1 DEF Slot
    <2> HIDE DEF planned
    <2>4. \A h \in DOMAIN slots' : ~slots'[h].drained
      BY <1>6, <2>2 DEF Slot
    <2> QED BY <1>3, <1>6, <2>2, <2>3, <2>4 DEF planned
  <1>7. CASE slots' = Prepared(r, plan', 1) /\ stage' = "phases"
    <2> DEFINE first == {plan'[k].handle : k \in InPhase(plan', 1)}
    <2>1. /\ slots' \in Seq(SlotRecord)
          /\ DOMAIN r \subseteq DOMAIN slots'
          /\ DOMAIN slots' \subseteq DOMAIN run_ids'
          /\ \A k \in InPhase(plan', 1) : /\ plan'[k].handle \in DOMAIN slots'
                                          /\ slots'[plan'[k].handle] = Slot("Pending")
          /\ \A h \in DOMAIN slots' : h \notin first =>
                slots'[h] = IF h \in DOMAIN r THEN r[h] ELSE Slot("Unbound")
      BY <1>1, <1>3, <1>7, PreparedSlots
    <2>2. first \subseteq planned
      BY DEF InPhase
    <2>3. \A k \in DOMAIN plan' : PhaseOf(plan')[k] # 1 => plan'[k].handle \notin first
      <3>1. \A j, k \in DOMAIN plan' : j # k => plan'[j].handle # plan'[k].handle
        BY <1>1, PlanFacts
      <3> QED BY <3>1 DEF InPhase
    <2>4. \A h \in first : slots'[h] = Slot("Pending")
      BY <2>1
    <2> HIDE DEF first, planned
    <2>5. \A h \in DOMAIN slots' : ~slots'[h].drained
      <3> SUFFICES ASSUME NEW h \in DOMAIN slots' PROVE ~slots'[h].drained
        OBVIOUS
      <3>1. h \in 1 .. N
        BY <1>1, <2>1
      <3>2. slots'[h] \in {Slot("Pending"), Slot("Failed"), Slot("Unbound")}
        BY <1>3, <2>1, <2>4, <3>1
      <3> QED BY <3>2 DEF Slot
    <2>6. \A h \in DOMAIN run_ids' \ planned : h \in DOMAIN slots' /\ slots'[h].state = "Failed"
      <3> SUFFICES ASSUME NEW h \in DOMAIN run_ids' \ planned
                   PROVE  h \in DOMAIN slots' /\ slots'[h] = Slot("Failed")
        BY DEF Slot
      <3> QED BY <1>1, <1>3, <2>1, <2>2
    <2>7. ASSUME NEW k \in DOMAIN plan'
          PROVE  IF PhaseOf(plan')[k] <= 1
                 THEN plan'[k].handle \in DOMAIN slots' /\ slots'[plan'[k].handle].state = "Pending"
                 ELSE plan'[k].handle \in DOMAIN slots' => slots'[plan'[k].handle].state = "Unbound"
      <3>1. PhaseOf(plan')[k] \in Nat \ {0}
        BY <1>1, PlanFacts, PhasesAreOrdered
      <3>2. CASE PhaseOf(plan')[k] = 1
        <4>1. k \in InPhase(plan', 1)
          BY <3>2 DEF InPhase
        <4> QED BY <2>1, <3>2, <4>1 DEF Slot
      <3>3. CASE PhaseOf(plan')[k] # 1
        <4>1. ~(PhaseOf(plan')[k] <= 1)
          BY <3>1, <3>3
        <4>2. plan'[k].handle \in DOMAIN slots' => slots'[plan'[k].handle] = Slot("Unbound")
          BY <1>3, <1>5, <2>1, <2>3, <3>3
        <4> QED BY <4>1, <4>2 DEF Slot
      <3> QED BY <3>2, <3>3
    <2> QED BY <1>7, <2>1, <2>5, <2>6, <2>7 DEF planned
  <1> QED BY <1>4, <1>6, <1>7

(* BeginRun keeps the invariant. *)
LEMMA BeginRunKeeps == AutoExecInv /\ BeginRun => AutoExecInv'
  <1> SUFFICES ASSUME AutoExecInv, BeginRun PROVE AutoExecInv'
    OBVIOUS
  <1>1. stage = "idle" /\ UNCHANGED <<issued, throws, chunk_state, settled, unseen, aborted>>
        /\ world_before' = world
    BY DEF BeginRun
  <1>2. \/ plan' = <<>> /\ stage' = "drain" /\ queue' = <<>>
        \/ plan' # <<>> /\ stage' = "phases" /\ phase' = 1 /\ queue' = queue
    BY DEF BeginRun
  <1>3. exec' = [k \in DOMAIN plan' |-> NotStarted]
    BY DEF BeginRun
  <1>4. /\ run_ids' \in Seq(Ids)
        /\ DOMAIN run_ids' = DOMAIN queue /\ DOMAIN queue = 1 .. Len(queue) /\ Len(queue) \in Nat
        /\ \A h \in DOMAIN run_ids' : run_ids'[h] = queue[h].id
        /\ \A g, h \in DOMAIN run_ids' : g < h => run_ids'[g] < run_ids'[h]
        /\ PlanFor(plan', run_ids')
        /\ run_ids' = [n \in 1 .. Len(queue) |-> queue[n].id]
    BY BeginPlans
  <1>5. /\ Len(plan') \in Nat /\ DOMAIN plan' = 1 .. Len(plan') /\ plan' \in Seq(PlannedOp)
        /\ \A k \in DOMAIN plan' : /\ plan'[k].id \in Ids /\ plan'[k].handle \in DOMAIN run_ids'
                                   /\ plan'[k].id = run_ids'[plan'[k].handle]
    BY <1>4, PlanFacts
  <1>6. QueueOK'
    <2>1. CASE queue' = <<>>
      BY <1>1, <2>1, BatchCleared DEF AutoExecInv
    <2>2. CASE queue' = queue
      BY <1>1, <2>2 DEF AutoExecInv, QueueOK
    <2> QED BY <1>2, <2>1, <2>2
  <1>7. \A k \in DOMAIN plan' : PhaseOf(plan')[k] \in Nat \ {0}
    BY <1>5, PhasesAreOrdered
  <1>8. RunOK'
    <2>1. \A h \in DOMAIN run_ids' : run_ids'[h] <= issued'
      <3>1. \A n \in DOMAIN queue : queue[n].id <= issued
        BY DEF AutoExecInv, QueueOK
      <3> QED BY <1>1, <1>4, <3>1
    <2>2. stage' = "phases" => phase' \in 1 .. LastPhase(plan')
      <3> SUFFICES ASSUME plan' # <<>>, phase' = 1 PROVE phase' \in 1 .. LastPhase(plan')
        BY <1>2
      <3>1. Len(plan') \in DOMAIN plan'
        BY <1>5, EmptySeq
      <3>2. LastPhase(plan') \in Nat \ {0}
        BY <1>7, <3>1 DEF LastPhase
      <3> QED BY <3>2
    <2>3. stage' = "phases" => run_ids' = [n \in 1 .. Len(queue') |-> queue'[n].id]
      BY <1>2, <1>4
    <2>4. stage' = "drain" => DOMAIN queue' = {}
      BY <1>2, EmptySeq
    <2> QED BY <1>2, <1>4, <2>1, <2>2, <2>3, <2>4 DEF RunOK
  <1>9. \A k \in DOMAIN plan' : exec'[k] = NotStarted
    BY <1>3
  <1>10. ExecOK'
    <2>1. NotStarted \in ExecRecord
      BY EmptySeq DEF NotStarted, ExecRecord
    <2>2. exec' \in [DOMAIN plan' -> ExecRecord]
      BY <1>3, <2>1
    <2>3. \A k \in DOMAIN plan' : Consistent(exec'[k], plan'[k].chunks)
      BY <1>9 DEF Consistent, NotStarted
    <2>4. stage' = "phases" => \A k \in DOMAIN plan' :
             /\ PhaseOf(plan')[k] < phase' => exec'[k].state = "Executed"
             /\ PhaseOf(plan')[k] > phase' => exec'[k].state = "todo"
      BY <1>2, <1>7, <1>9 DEF NotStarted
    <2>5. stage' = "drain" => DOMAIN plan' = {}
      BY <1>2, EmptySeq
    <2> QED BY <2>2, <2>3, <2>4, <2>5 DEF ExecOK
  <1>11. SlotsOK'
    <2>1. /\ slots' \in Seq(SlotRecord)
          /\ DOMAIN slots' \subseteq DOMAIN run_ids'
          /\ \A h \in DOMAIN slots' : ~slots'[h].drained
          /\ \A h \in DOMAIN run_ids' \ {plan'[k].handle : k \in DOMAIN plan'} :
                h \in DOMAIN slots' /\ slots'[h].state = "Failed"
      BY BeginSlots
    <2>2. stage' = "phases" => \A k \in DOMAIN plan' :
                 IF PhaseOf(plan')[k] <= 1
                 THEN plan'[k].handle \in DOMAIN slots' /\ slots'[plan'[k].handle].state = "Pending"
                 ELSE plan'[k].handle \in DOMAIN slots' => slots'[plan'[k].handle].state = "Unbound"
      BY BeginSlots
    <2>3. ASSUME NEW k \in DOMAIN plan'
          PROVE  IF IsPrepared(k)'
                 THEN /\ plan'[k].handle \in DOMAIN slots'
                      /\ slots'[plan'[k].handle].state =
                            IF exec'[k].state = "Executed" THEN "Ready" ELSE "Pending"
                 ELSE plan'[k].handle \in DOMAIN slots' => slots'[plan'[k].handle].state = "Unbound"
      <3>1. stage' = "phases" /\ phase' = 1
        BY <1>2, EmptySeq
      <3>2. IsPrepared(k)' <=> PhaseOf(plan')[k] <= 1
        BY <3>1 DEF IsPrepared
      <3>3. exec'[k].state # "Executed"
        BY <1>9 DEF NotStarted
      <3> QED BY <2>2, <3>1, <3>2, <3>3
    <2> QED BY <2>1, <2>3 DEF SlotsOK, Handles
  <1>12. SettledOK'
    <2>1. Owned' = Queued(queue)
      <3>1. CASE stage' = "drain"
        <4>1. plan' = <<>> /\ queue' = <<>>
          BY <1>2, <3>1
        <4>2. DOMAIN plan' = {} /\ Queued(queue') = {}
          BY <4>1, EmptySeq DEF Queued
        <4>3. \A h \in DOMAIN run_ids' : h \in DOMAIN slots' /\ slots'[h].state = "Failed" /\ ~slots'[h].drained
          BY <4>2, BeginSlots
        <4>4. Undrained' = DOMAIN run_ids'
          BY <4>3, BeginSlots DEF Undrained
        <4>5. {run_ids'[h] : h \in DOMAIN run_ids'} = Queued(queue)
          BY <1>4 DEF Queued
        <4>6. Owned' = Queued(queue') \union {run_ids'[h] : h \in Undrained'}
          BY <3>1 DEF Owned
        <4> QED BY <4>2, <4>4, <4>5, <4>6
      <3>2. CASE stage' = "phases"
        BY <1>2, <3>2 DEF Owned
      <3> QED BY <1>2, <3>1, <3>2
    <2>2. /\ settled \in [Ids -> Outcomes]
          /\ \A i \in Ids : i > issued <=> settled[i] = "none"
          /\ \A i \in Ids : settled[i] = "open" <=> i \in Queued(queue)
      BY <1>1, IdleFacts DEF AutoExecInv, SettledOK
    <2>3. \A h \in DOMAIN slots' : ~slots'[h].drained
      BY BeginSlots
    <2> QED BY <1>1, <2>1, <2>2, <2>3 DEF SettledOK
  <1>13. MarksOK'
    <2>1. \A c \in ChunkKeys : unseen[c] \subseteq dirty[c]
      BY <1>1 DEF AutoExecInv, MarksOK, WritesLeaveDirtyMarks
    <2>2. \A c \in ChunkKeys : unseen'[c] \subseteq dirty'[c]
      BY <1>1, <2>1 DEF chunk_state
    <2>3. WritesLeaveDirtyMarks'
      BY <2>2 DEF WritesLeaveDirtyMarks
    <2> QED BY <1>1, <2>3 DEF AutoExecInv, MarksOK, chunk_state
  <1>14. WorldOK'
    <2> SUFFICES ASSUME NEW i \in Ids \ aborted, NEW c \in ChunkKeys
                 PROVE  /\ Occurs(i, world[c]) => settled[i] = "Ready"
                        /\ i \in PlanIds' => ~Occurs(i, world[c])
      BY <1>1 DEF AutoExecInv, WorldOK, chunk_state
    <2>1. Occurs(i, world[c]) => settled[i] = "Ready"
      BY <1>1, IdleFacts, UnissuedWroteNothing
    <2>2. i \in PlanIds' => settled[i] = "open"
      <3>1. \A j \in Ids : settled[j] = "open" <=> j \in Queued(queue)
        BY <1>1, IdleFacts DEF AutoExecInv, SettledOK
      <3>2. PlanIds' \subseteq Queued(queue)
        BY <1>4, <1>5 DEF PlanIds, Queued
      <3> QED BY <3>1, <3>2
    <2> QED BY <2>1, <2>2
  <1>15. SerialOK'
    <2>1. \A k \in DOMAIN plan' : ~exec'[k].inside
      BY <1>9 DEF NotStarted
    <2>2. ASSUME NEW c \in ChunkKeys, NEW n \in 0 .. Len(plan'), UpTo(n, c)'
          PROVE  world'[c] = Serially(plan', world_before')[n][c]
      <3>1. \A k \in DOMAIN plan' : ~DoneWith(k, c)'
        BY <1>9 DEF DoneWith, NotStarted
      <3>2. \A k \in 1 .. Len(plan') : 0 < k /\ k <= n => ~WritesTo(plan', k, c)
        BY <1>5, <2>2, <3>1 DEF UpTo
      <3>3. world_before' \in [ChunkKeys -> Seq(Ids)]
        BY <1>1 DEF AutoExecInv, WorldOK
      <3>4. Serially(plan', world_before')[n][c] = Serially(plan', world_before')[0][c]
        <4>1. 0 \in 0 .. Len(plan') /\ n \in 0 .. Len(plan')
          BY <1>5
        <4> QED BY <1>5, <3>2, <3>3, <4>1, SeriallySkips
      <3>5. Serially(plan', world_before')[0] = world_before'
        BY <1>5, <3>3, SeriallyUnfolds
      <3> QED BY <1>1, <3>4, <3>5 DEF chunk_state
    <2> QED BY <2>1, <2>2 DEF SerialOK
  <1> QED BY <1>6, <1>8, <1>10, <1>11, <1>12, <1>13, <1>14, <1>15 DEF AutoExecInv

-----------------------------------------------------------------------------
(* Steps of an operation.                                                  *)

(* The batch and the answers stand still while a phase is executed. *)
LEMMA PhaseKeeps ==
    ASSUME AutoExecInv, stage = "phases",
           UNCHANGED <<batch, stage, plan, phase, run_ids, settled>>
    PROVE  QueueOK' /\ RunOK' /\ SettledOK'
  <1>1. QueueOK'
    BY DEF AutoExecInv, QueueOK, batch
  <1>2. RunOK'
    BY DEF AutoExecInv, RunOK, batch
  <1>3. SettledOK'
    <2>1. Owned' = Owned
      BY DEF Owned, batch, Queued
    <2> QED BY <2>1 DEF AutoExecInv, SettledOK, batch
  <1> QED BY <1>1, <1>2, <1>3

(* An operation of the present phase is neither over nor ahead. *)
LEMMA ProgressKept ==
    ASSUME AutoExecInv, stage = "phases", UNCHANGED <<stage, plan, phase>>,
           NEW k \in Members, exec' \in [DOMAIN plan -> ExecRecord],
           \A j \in DOMAIN plan : j # k => exec'[j] = exec[j],
           Consistent(exec'[k], plan[k].chunks)
    PROVE  ExecOK'
  <1>1. \A j \in DOMAIN plan : Consistent(exec'[j], plan'[j].chunks)
    BY DEF AutoExecInv, ExecOK
  <1>2. PhaseOf(plan)[k] = phase /\ phase \in Nat
    BY RunPhases DEF Members, InPhase
  <1>3. ASSUME NEW j \in DOMAIN plan
        PROVE  /\ PhaseOf(plan)[j] < phase => exec'[j].state = "Executed"
               /\ PhaseOf(plan)[j] > phase => exec'[j].state = "todo"
    <2>1. CASE j = k
      BY <1>2, <2>1
    <2>2. CASE j # k
      BY <2>2 DEF AutoExecInv, ExecOK
    <2> QED BY <2>1, <2>2
  <1> QED BY <1>1, <1>3 DEF ExecOK

(* A slot follows the end of its operation only. *)
LEMMA SlotsKept ==
    ASSUME AutoExecInv, stage = "phases", UNCHANGED <<stage, plan, phase, slots, run_ids>>,
           \A j \in DOMAIN plan : exec'[j].state = "Executed" <=> exec[j].state = "Executed"
    PROVE  SlotsOK'
  BY DEF AutoExecInv, SlotsOK, IsPrepared, Handles

(* Dirty records are only added to while a phase is executed. *)
LEMMA RecordsKept ==
    ASSUME AutoExecInv, stage = "phases", UNCHANGED <<stage, plan, phase, dirty, unseen>>,
           \A j \in DOMAIN plan : exec[j].marked \subseteq exec'[j].marked
    PROVE  MarksOK'
  <1>1. Members' = Members
    BY DEF Members
  <1>2. \A c \in ChunkKeys : Recorded(c) \subseteq Recorded(c)'
    BY <1>1 DEF Recorded, Members, InPhase
  <1>3. WritesLeaveDirtyMarks'
    BY <1>2 DEF AutoExecInv, MarksOK, WritesLeaveDirtyMarks
  <1> QED BY <1>3 DEF AutoExecInv, MarksOK

(* The chunks are right as long as they and those who are done with them   *)
(* stay as they are.                                                       *)
LEMMA SerialKept ==
    ASSUME AutoExecInv, stage = "phases", UNCHANGED <<stage, plan, world, world_before>>,
           \A j \in DOMAIN plan : \A c \in ChunkKeys :
              WritesTo(plan, j, c) => (DoneWith(j, c)' <=> DoneWith(j, c)),
           \A j \in DOMAIN plan : exec[j].state = "threw" => exec'[j].state = "threw",
           \A j \in DOMAIN plan : exec'[j].inside /\ Mutating(plan[j].kind) =>
              exec'[j].seen = world[Min(exec'[j].left)]
    PROVE  SerialOK'
  <1>1. NobodyThrew' => NobodyThrew
    BY DEF NobodyThrew
  <1>2. ASSUME NEW c \in ChunkKeys, NEW n \in 0 .. Len(plan), UpTo(n, c)' PROVE UpTo(n, c)
    BY <1>2 DEF UpTo
  <1>3. ASSUME NobodyThrew', NEW c \in ChunkKeys, NEW n \in 0 .. Len(plan'), UpTo(n, c)'
        PROVE  world'[c] = Serially(plan', world_before')[n][c]
    <2>1. UpTo(n, c) /\ NobodyThrew /\ n \in 0 .. Len(plan)
      BY <1>1, <1>2, <1>3
    <2> QED BY <2>1 DEF AutoExecInv, SerialOK
  <1> QED BY <1>3 DEF SerialOK

(* Nothing is written and nothing answered. *)
LEMMA WorldKept ==
    ASSUME AutoExecInv, UNCHANGED <<plan, throws, world, settled, world_before, aborted>>
    PROVE  WorldOK'
  BY DEF AutoExecInv, WorldOK, PlanIds

(* StartOperation keeps the invariant. *)
LEMMA StartOperationKeeps ==
    ASSUME AutoExecInv, NEW k \in DOMAIN plan, StartOperation(k)
    PROVE  AutoExecInv'
  <1>1. stage = "phases" /\ k \in Members /\ exec[k].state = "todo"
        /\ UNCHANGED <<batch, stage, plan, phase, slots, throws, chunk_state, history>>
        /\ exec' = [exec EXCEPT ![k].state = "running", ![k].left = plan[k].chunks]
    BY DEF StartOperation
  <1>2. exec \in [DOMAIN plan -> ExecRecord] /\ exec[k] = NotStarted
    BY <1>1 DEF AutoExecInv, ExecOK, Consistent
  <1>3. plan[k].chunks \subseteq ChunkKeys
    BY RunFacts
  <1>4. /\ exec'[k].state = "running" /\ exec'[k].left = plan[k].chunks
        /\ exec'[k].inside = FALSE /\ exec'[k].seen = exec[k].seen /\ exec'[k].marked = {}
        /\ exec'[k] \in ExecRecord
    <2>1. exec[k] \in ExecRecord /\ exec[k].inside = FALSE /\ exec[k].marked = {}
      <3>1. exec[k] \in ExecRecord
        BY <1>2
      <3>2. NotStarted.inside = FALSE /\ NotStarted.marked = {}
        BY DEF NotStarted
      <3> QED BY <1>2, <3>1, <3>2
    <2>2. plan[k].chunks \in SUBSET ChunkKeys
      BY <1>3
    <2> QED BY <1>1, <1>2, <2>1, <2>2 DEF ExecRecord
  <1>5. \A j \in DOMAIN plan : j # k => exec'[j] = exec[j]
    BY <1>1, <1>2
  <1>6. exec' \in [DOMAIN plan -> ExecRecord]
    <2>1. \A j \in DOMAIN plan : exec'[j] \in ExecRecord
      BY <1>2, <1>4, <1>5
    <2>2. exec' = [j \in DOMAIN plan |-> exec'[j]]
      BY <1>1, <1>2
    <2> QED BY <2>1, <2>2
  <1>7. ExecOK'
    <2>1. Consistent(exec'[k], plan[k].chunks)
      BY <1>4 DEF Consistent
    <2> QED BY <1>1, <1>5, <1>6, <2>1, ProgressKept
  <1>8. SlotsOK'
    <2>1. \A j \in DOMAIN plan : exec'[j].state = "Executed" <=> exec[j].state = "Executed"
      BY <1>1, <1>4, <1>5
    <2> QED BY <1>1, <2>1, SlotsKept DEF history
  <1>9. MarksOK'
    <2>1. \A j \in DOMAIN plan : exec[j].marked \subseteq exec'[j].marked
      BY <1>2, <1>4, <1>5 DEF NotStarted
    <2> QED BY <1>1, <2>1, RecordsKept DEF history, chunk_state
  <1>10. SerialOK'
    <2>1. \A j \in DOMAIN plan : \A c \in ChunkKeys :
             WritesTo(plan, j, c) => (DoneWith(j, c)' <=> DoneWith(j, c))
      <3> SUFFICES ASSUME NEW j \in DOMAIN plan, NEW c \in ChunkKeys, WritesTo(plan, j, c)
                   PROVE  DoneWith(j, c)' <=> DoneWith(j, c)
        OBVIOUS
      <3>1. CASE j = k
        <4>1. c \in plan[k].chunks
          BY <3>1 DEF WritesTo
        <4> QED BY <1>1, <1>4, <3>1, <4>1 DEF DoneWith
      <3>2. CASE j # k
        BY <1>5, <3>2 DEF DoneWith
      <3> QED BY <3>1, <3>2
    <2>2. \A j \in DOMAIN plan : exec[j].state = "threw" => exec'[j].state = "threw"
      BY <1>1, <1>5
    <2>3. \A j \in DOMAIN plan : exec'[j].inside /\ Mutating(plan[j].kind) =>
             exec'[j].seen = world[Min(exec'[j].left)]
      BY <1>4, <1>5 DEF AutoExecInv, SerialOK
    <2> QED BY <1>1, <2>1, <2>2, <2>3, SerialKept DEF history, chunk_state
  <1>11. WorldOK'
    BY <1>1, WorldKept DEF history, chunk_state
  <1>12. QueueOK' /\ RunOK' /\ SettledOK'
    BY <1>1, PhaseKeeps DEF history
  <1> QED BY <1>7, <1>8, <1>9, <1>10, <1>11, <1>12 DEF AutoExecInv

(* EnterChunk keeps the invariant. *)
LEMMA EnterChunkKeeps ==
    ASSUME AutoExecInv, NEW k \in DOMAIN plan, EnterChunk(k)
    PROVE  AutoExecInv'
  <1>0. PICK c0 : c0 = Min(exec[k].left)
    OBVIOUS
  <1>1. stage = "phases" /\ k \in Members /\ exec[k].state = "running"
        /\ exec[k].left # {} /\ ~exec[k].inside
        /\ UNCHANGED <<batch, stage, plan, phase, slots, throws, chunk_state,
                       settled, run_ids, world_before, aborted>>
        /\ exec' = [exec EXCEPT ![k].inside = TRUE, ![k].seen = world[c0],
                                ![k].marked = @ \union {c0}]
        /\ unseen' = [unseen EXCEPT ![c0] = @ \union Dirties[plan[k].kind]]
    BY <1>0 DEF EnterChunk, Running
  <1>2. exec \in [DOMAIN plan -> ExecRecord] /\ Consistent(exec[k], plan[k].chunks)
    BY DEF AutoExecInv, ExecOK
  <1>3. c0 \in exec[k].left /\ c0 \in plan[k].chunks /\ c0 \in ChunkKeys
    BY <1>0, <1>1, NextChunk
  <1>4. world \in [ChunkKeys -> Seq(Ids)]
    BY DEF AutoExecInv, WorldOK
  <1>5. /\ exec'[k].state = "running" /\ exec'[k].left = exec[k].left
        /\ exec'[k].inside = TRUE /\ exec'[k].seen = world[c0]
        /\ exec'[k].marked = exec[k].marked \union {c0}
        /\ exec'[k] \in ExecRecord
    <2>1. exec[k] \in ExecRecord /\ world[c0] \in Seq(Ids)
      BY <1>2, <1>3, <1>4
    <2> QED BY <1>1, <1>2, <1>3, <2>1 DEF ExecRecord
  <1>6. \A j \in DOMAIN plan : j # k => exec'[j] = exec[j]
    BY <1>1, <1>2
  <1>7. exec' \in [DOMAIN plan -> ExecRecord]
    <2>1. \A j \in DOMAIN plan : exec'[j] \in ExecRecord
      BY <1>2, <1>5, <1>6
    <2>2. exec' = [j \in DOMAIN plan |-> exec'[j]]
      BY <1>1, <1>2
    <2> QED BY <2>1, <2>2
  <1>8. ExecOK'
    <2>1. Consistent(exec'[k], plan[k].chunks)
      BY <1>1, <1>2, <1>3, <1>5 DEF Consistent
    <2> QED BY <1>1, <1>6, <1>7, <2>1, ProgressKept
  <1>9. SlotsOK'
    <2>1. \A j \in DOMAIN plan : exec'[j].state = "Executed" <=> exec[j].state = "Executed"
      BY <1>1, <1>5, <1>6
    <2> QED BY <1>1, <2>1, SlotsKept
  <1>10. MarksOK'
    <2>1. unseen \in [ChunkKeys -> SUBSET DirtyBits] /\ dirty \in [ChunkKeys -> SUBSET DirtyBits]
      BY DEF AutoExecInv, MarksOK
    <2>2. Dirties[plan[k].kind] \subseteq DirtyBits
      BY RunFacts DEF DirtyBits
    <2>3. unseen' \in [ChunkKeys -> SUBSET DirtyBits]
      BY <1>1, <1>3, <2>1, <2>2
    <2>4. \A c \in ChunkKeys : Recorded(c) \subseteq Recorded(c)'
      <3>1. \A j \in DOMAIN plan : exec[j].marked \subseteq exec'[j].marked
        BY <1>5, <1>6
      <3>2. Members' = Members
        BY <1>1 DEF Members
      <3> QED BY <1>1, <3>1, <3>2 DEF Recorded, Members, InPhase
    <2>5. Dirties[plan[k].kind] \subseteq Recorded(c0)'
      <3>1. k \in Members' /\ c0 \in exec'[k].marked
        BY <1>1, <1>5 DEF Members
      <3> QED BY <1>1, <3>1 DEF Recorded
    <2>6. ASSUME NEW c \in ChunkKeys PROVE unseen'[c] \subseteq dirty'[c] \union Recorded(c)'
      <3>1. unseen[c] \subseteq dirty[c] \union Recorded(c)
        BY <1>1 DEF AutoExecInv, MarksOK, WritesLeaveDirtyMarks
      <3>2. CASE c = c0
        <4>1. unseen'[c] = unseen[c] \union Dirties[plan[k].kind]
          BY <1>1, <2>1, <3>2
        <4> QED BY <1>1, <2>4, <2>5, <3>1, <3>2, <4>1 DEF chunk_state
      <3>3. CASE c # c0
        <4>1. unseen'[c] = unseen[c]
          BY <1>1, <2>1, <3>3
        <4> QED BY <1>1, <2>4, <3>1, <4>1 DEF chunk_state
      <3> QED BY <3>2, <3>3
    <2>7. WritesLeaveDirtyMarks'
      BY <1>1, <2>6 DEF WritesLeaveDirtyMarks
    <2> QED BY <1>1, <2>1, <2>3, <2>7 DEF MarksOK, chunk_state
  <1>11. SerialOK'
    <2>1. \A j \in DOMAIN plan : \A c \in ChunkKeys :
             WritesTo(plan, j, c) => (DoneWith(j, c)' <=> DoneWith(j, c))
      BY <1>1, <1>5, <1>6 DEF DoneWith
    <2>2. \A j \in DOMAIN plan : exec[j].state = "threw" => exec'[j].state = "threw"
      BY <1>1, <1>6
    <2>3. \A j \in DOMAIN plan : exec'[j].inside /\ Mutating(plan[j].kind) =>
             exec'[j].seen = world[Min(exec'[j].left)]
      BY <1>0, <1>5, <1>6 DEF AutoExecInv, SerialOK
    <2> QED BY <1>1, <2>1, <2>2, <2>3, SerialKept DEF chunk_state
  <1>12. WorldOK'
    BY <1>1, WorldKept DEF chunk_state
  <1>13. QueueOK' /\ RunOK' /\ SettledOK'
    BY <1>1, PhaseKeeps
  <1> QED BY <1>8, <1>9, <1>10, <1>11, <1>12, <1>13 DEF AutoExecInv

-----------------------------------------------------------------------------
(* Writes.                                                                 *)

(* While an operation runs, those that write a chunk of its before it have *)
(* executed and those after it have not begun.                             *)
LEMMA WritersAreOrdered ==
    ASSUME AutoExecInv, stage = "phases", NEW k \in DOMAIN plan, exec[k].state = "running",
           NEW j \in DOMAIN plan, j # k, NEW c \in plan[j].chunks \intersect plan[k].chunks,
           Mutating(plan[j].kind) \/ Mutating(plan[k].kind)
    PROVE  /\ j < k => exec[j].state = "Executed"
           /\ k < j => exec[j].state = "todo"
  <1>1. /\ \A i \in DOMAIN plan : PhaseOf(plan)[i] \in Nat
        /\ \A i, l \in DOMAIN plan :
              i < l /\ PhaseConflict(plan[i], plan[l]) => PhaseOf(plan)[i] < PhaseOf(plan)[l]
        /\ phase \in Nat
    BY RunPhases
  <1>2. \A i \in DOMAIN plan : /\ PhaseOf(plan)[i] < phase => exec[i].state = "Executed"
                               /\ PhaseOf(plan)[i] > phase => exec[i].state = "todo"
    BY DEF AutoExecInv, ExecOK
  <1>3. PhaseOf(plan)[k] = phase
    BY <1>1, <1>2
  <1>4. PhaseConflict(plan[j], plan[k]) /\ PhaseConflict(plan[k], plan[j])
    BY DEF PhaseConflict
  <1>5. ASSUME j < k PROVE exec[j].state = "Executed"
    BY <1>1, <1>2, <1>3, <1>4, <1>5
  <1>6. ASSUME k < j PROVE exec[j].state = "todo"
    BY <1>1, <1>2, <1>3, <1>4, <1>6
  <1> QED BY <1>5, <1>6

(* A kernel appends its operation to the chunk it is in, and to no chunk   *)
(* that another kernel is in the middle of.                                *)
LEMMA WriteAppends ==
    ASSUME AutoExecInv, stage = "phases", NEW k \in DOMAIN plan,
           exec[k].state = "running", exec[k].inside,
           NEW c0, c0 = Min(exec[k].left)
    PROVE  /\ c0 \in ChunkKeys /\ c0 \in plan[k].chunks /\ c0 \in exec[k].left
           /\ world \in [ChunkKeys -> Seq(Ids)] /\ Written(k, c0) \in [ChunkKeys -> Seq(Ids)]
           /\ \A c \in ChunkKeys : Written(k, c0)[c] =
                 IF c = c0 /\ Mutating(plan[k].kind) THEN Append(world[c0], plan[k].id)
                                                     ELSE world[c]
           /\ \A j \in DOMAIN plan :
                 j # k /\ exec[j].inside /\ Mutating(plan[j].kind) =>
                    exec[j].seen = Written(k, c0)[Min(exec[j].left)]
           /\ \A i \in Ids : \A c \in ChunkKeys :
                 Occurs(i, Written(k, c0)[c]) => Occurs(i, world[c]) \/ i = plan[k].id
  <1>1. \A j \in DOMAIN plan : exec[j].inside => exec[j].state = "running" /\ exec[j].left # {}
    BY DEF AutoExecInv, ExecOK, Consistent
  <1>2. c0 \in ChunkKeys /\ c0 \in plan[k].chunks /\ c0 \in exec[k].left
    BY <1>1, NextChunk
  <1>3. world \in [ChunkKeys -> Seq(Ids)] /\ plan[k].id \in Ids
    BY RunFacts DEF AutoExecInv, WorldOK
  <1>4. Mutating(plan[k].kind) => exec[k].seen = world[c0]
    BY DEF AutoExecInv, SerialOK
  <1>5. Append(world[c0], plan[k].id) \in Seq(Ids)
    BY <1>2, <1>3, AppendProperties
  <1>6. Written(k, c0) = IF Mutating(plan[k].kind)
                         THEN [world EXCEPT ![c0] = Append(world[c0], plan[k].id)] ELSE world
    BY <1>4 DEF Written
  <1>7. Written(k, c0) \in [ChunkKeys -> Seq(Ids)]
    BY <1>2, <1>3, <1>5, <1>6
  <1>8. \A c \in ChunkKeys : Written(k, c0)[c] =
                 IF c = c0 /\ Mutating(plan[k].kind) THEN Append(world[c0], plan[k].id)
                                                     ELSE world[c]
    BY <1>2, <1>3, <1>6
  <1>9. ASSUME NEW j \in DOMAIN plan, j # k, exec[j].inside, Mutating(plan[j].kind)
        PROVE  exec[j].seen = Written(k, c0)[Min(exec[j].left)]
    <2>1. exec[j].state = "running" /\ exec[j].left # {}
      BY <1>1, <1>9
    <2>2. Min(exec[j].left) \in ChunkKeys /\ Min(exec[j].left) \in plan[j].chunks
      BY <2>1, NextChunk
    <2>3. Min(exec[j].left) # c0
      <3> SUFFICES ASSUME Min(exec[j].left) = c0 PROVE FALSE
        OBVIOUS
      <3>1. c0 \in plan[j].chunks \intersect plan[k].chunks
        BY <1>2, <2>2
      <3>2. /\ j < k => exec[j].state = "Executed"
            /\ k < j => exec[j].state = "todo"
        BY <1>9, <3>1, WritersAreOrdered
      <3>3. j < k \/ k < j
        BY <1>9, RunFacts
      <3> QED BY <2>1, <3>2, <3>3
    <2>4. Written(k, c0)[Min(exec[j].left)] = world[Min(exec[j].left)]
      BY <1>8, <2>2, <2>3
    <2>5. exec[j].seen = world[Min(exec[j].left)]
      BY <1>9 DEF AutoExecInv, SerialOK
    <2> QED BY <2>4, <2>5
  <1>10. ASSUME NEW i \in Ids, NEW c \in ChunkKeys, Occurs(i, Written(k, c0)[c]), i # plan[k].id
         PROVE  Occurs(i, world[c])
    <2>1. CASE Written(k, c0)[c] = world[c]
      BY <1>10, <2>1
    <2>2. CASE Written(k, c0)[c] = Append(world[c], plan[k].id)
      <3> DEFINE s == world[c]
                 t == Append(s, plan[k].id)
      <3>1. s \in Seq(Ids)
        BY <1>3
      <3>2. DOMAIN s = 1 .. Len(s) /\ Len(s) \in Nat /\ DOMAIN t = 1 .. Len(s) + 1
            /\ t[Len(s) + 1] = plan[k].id /\ \A x \in DOMAIN s : t[x] = s[x]
        <4> HIDE DEF s
        <4> QED BY <1>3, <3>1, AppendProperties, LenProperties
      <3>3. PICK x \in DOMAIN t : t[x] = i
        BY <1>10, <2>2 DEF Occurs
      <3> HIDE DEF t, s
      <3>4. x \in DOMAIN s /\ s[x] = i
        BY <1>10, <3>2, <3>3
      <3> QED BY <3>4 DEF Occurs, s
    <2> QED BY <1>8, <2>1, <2>2
  <1> QED BY <1>2, <1>3, <1>7, <1>8, <1>9, <1>10

(* Whatever a run writes, its own operations have written. *)
LEMMA WrittenByPlan ==
    ASSUME AutoExecInv, NEW k \in DOMAIN plan, throws' \in 0 .. MaxThrows,
           UNCHANGED <<plan, settled, world_before, aborted>>,
           world' \in [ChunkKeys -> Seq(Ids)],
           \A i \in Ids : \A c \in ChunkKeys :
              Occurs(i, world'[c]) => Occurs(i, world[c]) \/ i = plan[k].id
    PROVE  WorldOK'
  <1>1. plan[k].id \in PlanIds /\ PlanIds' = PlanIds
    BY DEF PlanIds
  <1>2. \A i \in Ids \ aborted : \A c \in ChunkKeys : Occurs(i, world'[c]) => settled[i] = "Ready" \/ i \in PlanIds
    BY <1>1 DEF AutoExecInv, WorldOK
  <1> QED BY <1>1, <1>2 DEF AutoExecInv, WorldOK

(* LeaveChunk keeps the invariant: the chunk is now as serial execution    *)
(* up to the operation leaves it.                                          *)
LEMMA LeaveChunkKeeps ==
    ASSUME AutoExecInv, NEW k \in DOMAIN plan, LeaveChunk(k)
    PROVE  AutoExecInv'
  <1>0. PICK c0 : c0 = Min(exec[k].left)
    OBVIOUS
  <1>1. stage = "phases" /\ k \in Members /\ exec[k].state = "running" /\ exec[k].inside
        /\ UNCHANGED <<batch, stage, plan, phase, slots, throws, dirty, history>>
        /\ world' = Written(k, c0)
        /\ exec' = [exec EXCEPT ![k].inside = FALSE, ![k].seen = <<>>, ![k].left = @ \ {c0}]
    BY <1>0 DEF LeaveChunk, Running
  <1>2. exec \in [DOMAIN plan -> ExecRecord] /\ Consistent(exec[k], plan[k].chunks)
    BY DEF AutoExecInv, ExecOK
  <1>3. /\ c0 \in ChunkKeys /\ c0 \in plan[k].chunks /\ c0 \in exec[k].left
        /\ world' \in [ChunkKeys -> Seq(Ids)]
        /\ \A c \in ChunkKeys : world'[c] =
              IF c = c0 /\ Mutating(plan[k].kind) THEN Append(world[c0], plan[k].id) ELSE world[c]
        /\ \A j \in DOMAIN plan :
              j # k /\ exec[j].inside /\ Mutating(plan[j].kind) =>
                 exec[j].seen = world'[Min(exec[j].left)]
        /\ \A i \in Ids : \A c \in ChunkKeys :
              Occurs(i, world'[c]) => Occurs(i, world[c]) \/ i = plan[k].id
    BY <1>0, <1>1, WriteAppends
  <1>4. /\ exec'[k].state = "running" /\ exec'[k].left = exec[k].left \ {c0}
        /\ exec'[k].inside = FALSE /\ exec'[k].marked = exec[k].marked
        /\ exec'[k] \in ExecRecord
    <2>1. exec[k] \in ExecRecord /\ <<>> \in Seq(Ids)
      BY <1>2, EmptySeq
    <2> QED BY <1>1, <1>2, <2>1 DEF ExecRecord
  <1>5. \A j \in DOMAIN plan : j # k => exec'[j] = exec[j]
    BY <1>1, <1>2
  <1>6. exec' \in [DOMAIN plan -> ExecRecord]
    <2>1. \A j \in DOMAIN plan : exec'[j] \in ExecRecord
      BY <1>2, <1>4, <1>5
    <2>2. exec' = [j \in DOMAIN plan |-> exec'[j]]
      BY <1>1, <1>2
    <2> QED BY <2>1, <2>2
  <1>7. ExecOK'
    <2>1. Consistent(exec'[k], plan[k].chunks)
      BY <1>2, <1>4 DEF Consistent
    <2> QED BY <1>1, <1>5, <1>6, <2>1, ProgressKept
  <1>8. SlotsOK'
    <2>1. \A j \in DOMAIN plan : exec'[j].state = "Executed" <=> exec[j].state = "Executed"
      BY <1>1, <1>4, <1>5
    <2> QED BY <1>1, <2>1, SlotsKept DEF history
  <1>9. MarksOK'
    <2>1. \A j \in DOMAIN plan : exec[j].marked \subseteq exec'[j].marked
      BY <1>4, <1>5
    <2> QED BY <1>1, <2>1, RecordsKept DEF history
  <1>10. WorldOK'
    <2>1. throws' \in 0 .. MaxThrows
      BY <1>1 DEF AutoExecInv, WorldOK
    <2> QED BY <1>1, <1>3, <2>1, WrittenByPlan DEF history
  <1>11. SerialOK'
    <2>1. \A j \in DOMAIN plan : exec'[j].inside /\ Mutating(plan[j].kind) =>
             exec'[j].seen = world'[Min(exec'[j].left)]
      BY <1>3, <1>4, <1>5
    <2>2. ASSUME NEW j \in DOMAIN plan, NEW c \in ChunkKeys, j # k \/ c # c0
          PROVE  DoneWith(j, c)' <=> DoneWith(j, c)
      <3>1. CASE j = k
        BY <1>1, <1>4, <2>2, <3>1 DEF DoneWith
      <3>2. CASE j # k
        BY <1>5, <3>2 DEF DoneWith
      <3> QED BY <3>1, <3>2
    <2>3. ASSUME NobodyThrew', NEW c \in ChunkKeys, NEW n \in 0 .. Len(plan), UpTo(n, c)'
          PROVE  world'[c] = Serially(plan, world_before)[n][c]
      <3>1. \A m \in 0 .. Len(plan) : UpTo(m, c) => world[c] = Serially(plan, world_before)[m][c]
        <4>1. NobodyThrew
          BY <1>1, <1>5, <2>3 DEF NobodyThrew
        <4> QED BY <1>1, <4>1 DEF AutoExecInv, SerialOK
      <3>2. \A j \in DOMAIN plan : WritesTo(plan, j, c) => (DoneWith(j, c)' <=> j <= n)
        BY <1>1, <2>3 DEF UpTo
      <3>3. CASE c # c0 \/ ~Mutating(plan[k].kind)
        <4>1. world'[c] = world[c]
          BY <1>3, <3>3
        <4>2. \A j \in DOMAIN plan : WritesTo(plan, j, c) => (DoneWith(j, c)' <=> DoneWith(j, c))
          BY <2>2, <3>3 DEF WritesTo
        <4>3. UpTo(n, c)
          BY <3>2, <4>2 DEF UpTo
        <4> QED BY <3>1, <4>1, <4>3
      <3>4. CASE c = c0 /\ Mutating(plan[k].kind)
        <4>1. WritesTo(plan, k, c) /\ DoneWith(k, c)' /\ ~DoneWith(k, c)
          BY <1>1, <1>3, <1>4, <3>4 DEF WritesTo, DoneWith
        <4>2. k \in 1 .. Len(plan) /\ Len(plan) \in Nat /\ DOMAIN plan = 1 .. Len(plan) /\ k <= n
          BY <3>2, <4>1, RunFacts
        <4>3. ASSUME NEW j \in DOMAIN plan, j # k, WritesTo(plan, j, c)
              PROVE  /\ j < k => exec[j].state = "Executed"
                     /\ k < j => exec[j].state = "todo"
          <5>1. c \in plan[j].chunks \intersect plan[k].chunks /\ Mutating(plan[k].kind)
            BY <1>3, <3>4, <4>3 DEF WritesTo
          <5> QED BY <1>1, <4>3, <5>1, WritersAreOrdered
        <4>4. \A j \in 1 .. Len(plan) : k < j /\ j <= n => ~WritesTo(plan, j, c)
          <5> SUFFICES ASSUME NEW j \in 1 .. Len(plan), k < j, j <= n, WritesTo(plan, j, c) PROVE FALSE
            OBVIOUS
          <5>1. j \in DOMAIN plan /\ j # k
            BY <4>2
          <5>2. exec'[j].state = "todo"
            BY <1>5, <4>3, <5>1
          <5>3. DoneWith(j, c)'
            BY <3>2, <5>1
          <5> QED BY <5>2, <5>3 DEF DoneWith
        <4>5. UpTo(k - 1, c)
          <5> SUFFICES ASSUME NEW j \in DOMAIN plan, WritesTo(plan, j, c)
                       PROVE  DoneWith(j, c) <=> j <= k - 1
            BY DEF UpTo
          <5>1. CASE j = k
            BY <4>1, <4>2, <5>1
          <5>2. CASE j < k
            BY <4>2, <4>3, <5>2 DEF DoneWith
          <5>3. CASE k < j
            <6>1. exec[j].state = "todo"
              BY <4>2, <4>3, <5>3
            <6>2. ~(j <= k - 1)
              BY <4>2, <5>3
            <6> QED BY <6>1, <6>2 DEF DoneWith
          <5> QED BY <4>2, <5>1, <5>2, <5>3
        <4> DEFINE w == Serially(plan, world_before)
        <4>6. plan \in Seq(PlannedOp) /\ world_before \in [ChunkKeys -> Seq(Ids)]
          BY RunFacts DEF AutoExecInv, WorldOK
        <4>7. world[c] = w[k - 1][c]
          <5>1. k - 1 \in 0 .. Len(plan)
            BY <4>2
          <5> QED BY <3>1, <4>5, <5>1
        <4>8. w[k][c] = Append(w[k - 1][c], plan[k].id)
          BY <4>1, <4>2, <4>6, SeriallyUnfolds
        <4>9. w[n][c] = w[k][c]
          <5>1. k \in 0 .. Len(plan) /\ n \in k .. Len(plan)
            BY <4>2
          <5> QED BY <4>4, <4>6, <5>1, SeriallySkips
        <4>10. world'[c] = Append(world[c], plan[k].id)
          BY <1>3, <3>4
        <4> QED BY <4>7, <4>8, <4>9, <4>10
      <3> QED BY <3>3, <3>4
    <2> QED BY <1>1, <2>1, <2>3 DEF SerialOK, history
  <1>12. QueueOK' /\ RunOK' /\ SettledOK'
    BY <1>1, PhaseKeeps DEF history
  <1> QED BY <1>7, <1>8, <1>9, <1>10, <1>11, <1>12 DEF AutoExecInv

(* ThrowInChunk keeps the invariant, whether or not the chunk was written. *)
LEMMA ThrowInChunkKeeps ==
    ASSUME AutoExecInv, NEW k \in DOMAIN plan, ThrowInChunk(k)
    PROVE  AutoExecInv'
  <1>0. PICK c0 : c0 = Min(exec[k].left)
    OBVIOUS
  <1>1. stage = "phases" /\ k \in Members /\ exec[k].state = "running" /\ exec[k].inside
        /\ UNCHANGED <<batch, stage, plan, phase, slots, dirty, history>>
        /\ throws < MaxThrows /\ throws' = throws + 1
        /\ world' \in {world, Written(k, c0)}
        /\ exec' = [exec EXCEPT ![k].state = "threw", ![k].inside = FALSE, ![k].seen = <<>>]
    BY <1>0 DEF ThrowInChunk, Running
  <1>2. exec \in [DOMAIN plan -> ExecRecord] /\ Consistent(exec[k], plan[k].chunks)
    BY DEF AutoExecInv, ExecOK
  <1>3. /\ world' \in [ChunkKeys -> Seq(Ids)]
        /\ \A j \in DOMAIN plan :
              j # k /\ exec[j].inside /\ Mutating(plan[j].kind) =>
                 exec[j].seen = world'[Min(exec[j].left)]
        /\ \A i \in Ids : \A c \in ChunkKeys :
              Occurs(i, world'[c]) => Occurs(i, world[c]) \/ i = plan[k].id
    <2>1. CASE world' = world
      BY <2>1 DEF AutoExecInv, WorldOK, SerialOK
    <2>2. CASE world' = Written(k, c0)
      BY <1>0, <1>1, <2>2, WriteAppends
    <2> QED BY <1>1, <2>1, <2>2
  <1>4. /\ exec'[k].state = "threw" /\ exec'[k].left = exec[k].left
        /\ exec'[k].inside = FALSE /\ exec'[k].marked = exec[k].marked
        /\ exec'[k] \in ExecRecord
    <2>1. exec[k] \in ExecRecord /\ <<>> \in Seq(Ids)
      BY <1>2, EmptySeq
    <2> QED BY <1>1, <1>2, <2>1 DEF ExecRecord
  <1>5. \A j \in DOMAIN plan : j # k => exec'[j] = exec[j]
    BY <1>1, <1>2
  <1>6. exec' \in [DOMAIN plan -> ExecRecord]
    <2>1. \A j \in DOMAIN plan : exec'[j] \in ExecRecord
      BY <1>2, <1>4, <1>5
    <2>2. exec' = [j \in DOMAIN plan |-> exec'[j]]
      BY <1>1, <1>2
    <2> QED BY <2>1, <2>2
  <1>7. ExecOK'
    <2>1. Consistent(exec'[k], plan[k].chunks)
      BY <1>2, <1>4 DEF Consistent
    <2> QED BY <1>1, <1>5, <1>6, <2>1, ProgressKept
  <1>8. SlotsOK'
    <2>1. \A j \in DOMAIN plan : exec'[j].state = "Executed" <=> exec[j].state = "Executed"
      BY <1>1, <1>4, <1>5
    <2> QED BY <1>1, <2>1, SlotsKept DEF history
  <1>9. MarksOK'
    <2>1. \A j \in DOMAIN plan : exec[j].marked \subseteq exec'[j].marked
      BY <1>4, <1>5
    <2> QED BY <1>1, <2>1, RecordsKept DEF history
  <1>10. WorldOK'
    <2>1. throws' \in 0 .. MaxThrows
      BY <1>1, AutoExecAssumption DEF AutoExecInv, WorldOK
    <2> QED BY <1>1, <1>3, <2>1, WrittenByPlan DEF history
  <1>11. SerialOK'
    <2>1. \A j \in DOMAIN plan : exec'[j].inside /\ Mutating(plan[j].kind) =>
             exec'[j].seen = world'[Min(exec'[j].left)]
      BY <1>3, <1>4, <1>5
    <2>2. ~NobodyThrew'
      BY <1>1, <1>4 DEF NobodyThrew
    <2> QED BY <1>1, <2>1, <2>2 DEF SerialOK
  <1>12. QueueOK' /\ RunOK' /\ SettledOK'
    BY <1>1, PhaseKeeps DEF history
  <1> QED BY <1>7, <1>8, <1>9, <1>10, <1>11, <1>12 DEF AutoExecInv

(* FinishOperation keeps the invariant: the operation's own slot is Ready. *)
LEMMA FinishOperationKeeps ==
    ASSUME AutoExecInv, NEW k \in DOMAIN plan, FinishOperation(k)
    PROVE  AutoExecInv'
  <1>1. stage = "phases" /\ k \in Members /\ exec[k].state = "running" /\ exec[k].left = {}
        /\ UNCHANGED <<batch, stage, plan, phase, throws, chunk_state, history>>
        /\ exec' = [exec EXCEPT ![k].state = "Executed"]
        /\ slots' = [slots EXCEPT ![plan[k].handle].state = "Ready"]
    BY DEF FinishOperation, Running, SlotOf
  <1>2. exec \in [DOMAIN plan -> ExecRecord] /\ Consistent(exec[k], plan[k].chunks)
    BY DEF AutoExecInv, ExecOK
  <1>3. ~exec[k].inside
    BY <1>1, <1>2 DEF Consistent
  <1>4. /\ exec'[k].state = "Executed" /\ exec'[k].left = {}
        /\ exec'[k].inside = exec[k].inside /\ exec'[k].marked = exec[k].marked
        /\ exec'[k] \in ExecRecord
    <2>1. exec[k] \in ExecRecord
      BY <1>2
    <2> QED BY <1>1, <1>2, <2>1 DEF ExecRecord
  <1>5. \A j \in DOMAIN plan : j # k => exec'[j] = exec[j]
    BY <1>1, <1>2
  <1>6. exec' \in [DOMAIN plan -> ExecRecord]
    <2>1. \A j \in DOMAIN plan : exec'[j] \in ExecRecord
      BY <1>2, <1>4, <1>5
    <2>2. exec' = [j \in DOMAIN plan |-> exec'[j]]
      BY <1>1, <1>2
    <2> QED BY <2>1, <2>2
  <1>7. ExecOK'
    <2>1. Consistent(exec'[k], plan[k].chunks)
      BY <1>2, <1>3, <1>4 DEF Consistent
    <2> QED BY <1>1, <1>5, <1>6, <2>1, ProgressKept
  <1>8. SlotsOK'
    <2>1. PICK h : h = plan[k].handle
      OBVIOUS
    <2>2. IsPrepared(k) /\ exec[k].state # "Executed"
      BY <1>1, RunPhases DEF IsPrepared, Members, InPhase
    <2>3. h \in DOMAIN slots /\ slots \in Seq(SlotRecord)
      BY <1>1, <2>1, <2>2 DEF AutoExecInv, SlotsOK
    <2>4. DOMAIN slots = 1 .. Len(slots) /\ slots[h] \in SlotRecord
      BY <2>3, LenProperties, ElementOfSeq
    <2>5. PICK x : x = [slots[h] EXCEPT !.state = "Ready"]
      OBVIOUS
    <2>6. x \in SlotRecord /\ x.state = "Ready" /\ x.drained = slots[h].drained
      BY <2>4, <2>5 DEF SlotRecord
    <2>7. slots' = [slots EXCEPT ![h] = x]
      BY <1>1, <2>1, <2>5
    <2>8. slots' \in Seq(SlotRecord) /\ DOMAIN slots' = DOMAIN slots
      BY <2>3, <2>4, <2>6, <2>7, ExceptSeq
    <2>9. slots'[h] = x /\ \A g \in DOMAIN slots : g # h => slots'[g] = slots[g]
      BY <2>3, <2>7
    <2>10. \A g \in DOMAIN slots' : ~slots'[g].drained
      BY <1>1, <2>3, <2>6, <2>8, <2>9 DEF AutoExecInv, SlotsOK
    <2>11. \A g \in DOMAIN run_ids \ Handles : g \in DOMAIN slots' /\ slots'[g].state = "Failed"
      BY <1>1, <2>1, <2>8, <2>9 DEF AutoExecInv, SlotsOK, Handles
    <2>12. ASSUME NEW j \in DOMAIN plan
           PROVE  IF IsPrepared(j)
                  THEN /\ plan[j].handle \in DOMAIN slots'
                       /\ slots'[plan[j].handle].state =
                             IF exec'[j].state = "Executed" THEN "Ready" ELSE "Pending"
                  ELSE plan[j].handle \in DOMAIN slots' => slots'[plan[j].handle].state = "Unbound"
      <3>1. CASE j = k
        BY <1>4, <2>1, <2>2, <2>3, <2>6, <2>8, <2>9, <3>1
      <3>2. CASE j # k
        <4>1. plan[j].handle # h
          BY <2>1, <3>2, RunFacts
        <4>2. exec'[j] = exec[j]
          BY <1>5, <3>2
        <4> QED BY <1>1, <2>8, <2>9, <4>1, <4>2 DEF AutoExecInv, SlotsOK
      <3> QED BY <3>1, <3>2
    <2>13. run_ids' = run_ids /\ Handles' = Handles /\ \A j \in DOMAIN plan : IsPrepared(j)' <=> IsPrepared(j)
      BY <1>1 DEF history, Handles, IsPrepared
    <2>14. DOMAIN slots' \subseteq DOMAIN run_ids
      BY <1>1, <2>8 DEF AutoExecInv, SlotsOK
    <2> QED BY <1>1, <2>8, <2>10, <2>11, <2>12, <2>13, <2>14 DEF SlotsOK
  <1>9. MarksOK'
    <2>1. \A j \in DOMAIN plan : exec[j].marked \subseteq exec'[j].marked
      BY <1>4, <1>5
    <2> QED BY <1>1, <2>1, RecordsKept DEF history, chunk_state
  <1>10. SerialOK'
    <2>1. \A j \in DOMAIN plan : \A c \in ChunkKeys :
             WritesTo(plan, j, c) => (DoneWith(j, c)' <=> DoneWith(j, c))
      BY <1>1, <1>4, <1>5 DEF DoneWith
    <2>2. \A j \in DOMAIN plan : exec[j].state = "threw" => exec'[j].state = "threw"
      BY <1>1, <1>5
    <2>3. \A j \in DOMAIN plan : exec'[j].inside /\ Mutating(plan[j].kind) =>
             exec'[j].seen = world[Min(exec'[j].left)]
      BY <1>3, <1>4, <1>5 DEF AutoExecInv, SerialOK
    <2> QED BY <1>1, <2>1, <2>2, <2>3, SerialKept DEF history, chunk_state
  <1>11. WorldOK'
    BY <1>1, WorldKept DEF history, chunk_state
  <1>12. QueueOK' /\ RunOK' /\ SettledOK'
    BY <1>1, PhaseKeeps DEF history
  <1> QED BY <1>7, <1>8, <1>9, <1>10, <1>11, <1>12 DEF AutoExecInv

-----------------------------------------------------------------------------
(* A phase ends, or a kernel threw.                                        *)

(* merge_planned_dirty publishes every record of the phase. *)
LEMMA MergedCovers ==
    ASSUME AutoExecInv, stage = "phases", dirty' = Merged, unseen' = unseen
    PROVE  MarksOK'
  <1>1. /\ dirty \in [ChunkKeys -> SUBSET DirtyBits] /\ unseen \in [ChunkKeys -> SUBSET DirtyBits]
        /\ \A c \in ChunkKeys : unseen[c] \subseteq dirty[c] \union Recorded(c)
    BY DEF AutoExecInv, MarksOK, WritesLeaveDirtyMarks
  <1>2. dirty' = [c \in ChunkKeys |-> dirty[c] \union Recorded(c)]
    BY DEF Merged, Recorded
  <1>3. \A c \in ChunkKeys : Recorded(c) \subseteq DirtyBits
    BY RunFacts DEF Recorded, Members, InPhase, DirtyBits
  <1>4. dirty' \in [ChunkKeys -> SUBSET DirtyBits]
    BY <1>1, <1>2, <1>3
  <1>5. \A c \in ChunkKeys : unseen'[c] \subseteq dirty'[c]
    BY <1>1, <1>2
  <1> QED BY <1>1, <1>4, <1>5 DEF MarksOK, WritesLeaveDirtyMarks

(* EndPhase keeps the invariant when another phase follows. *)
LEMMA NextPhaseKeeps ==
    ASSUME AutoExecInv, EndPhase, phase < LastPhase(plan)
    PROVE  AutoExecInv'
  <1>1. stage = "phases" /\ dirty' = Merged /\ phase' = phase + 1
        /\ slots' = Prepared(slots, plan, phase + 1)
        /\ UNCHANGED <<queue, stage, issued, plan, exec, throws, world, history>>
        /\ \A k \in Members : exec[k].state = "Executed"
    BY DEF EndPhase
  <1>2. /\ \A k \in DOMAIN plan : PhaseOf(plan)[k] \in Nat \ {0}
        /\ LastPhase(plan) \in Nat /\ phase \in Nat \ {0}
    BY <1>1, RunPhases
  <1>3. \A k \in DOMAIN plan : PhaseOf(plan)[k] <= phase => exec[k].state = "Executed"
    <2>1. \A k \in DOMAIN plan : PhaseOf(plan)[k] < phase => exec[k].state = "Executed"
      BY <1>1 DEF AutoExecInv, ExecOK
    <2>2. \A k \in DOMAIN plan : PhaseOf(plan)[k] = phase => exec[k].state = "Executed"
      BY <1>1 DEF Members, InPhase
    <2> QED BY <1>2, <2>1, <2>2
  <1>4. \A k \in DOMAIN plan : PhaseOf(plan)[k] > phase => exec[k].state = "todo"
    BY <1>1 DEF AutoExecInv, ExecOK
  <1>5. QueueOK'
    BY <1>1 DEF AutoExecInv, QueueOK
  <1>6. RunOK'
    <2>1. phase' \in 1 .. LastPhase(plan')
      BY <1>1, <1>2
    <2> QED BY <1>1, <2>1 DEF AutoExecInv, RunOK, history
  <1>7. ExecOK'
    <2>1. \A k \in DOMAIN plan : /\ PhaseOf(plan)[k] < phase + 1 => exec[k].state = "Executed"
                                 /\ PhaseOf(plan)[k] > phase + 1 => exec[k].state = "todo"
      BY <1>2, <1>3, <1>4
    <2> QED BY <1>1, <2>1 DEF AutoExecInv, ExecOK
  <1>8. SlotsOK'
    <2> DEFINE next == {plan[k].handle : k \in InPhase(plan, phase + 1)}
    <2>1. /\ slots \in Seq(SlotRecord) /\ DOMAIN slots \subseteq DOMAIN run_ids
          /\ \A h \in DOMAIN run_ids \ Handles : h \in DOMAIN slots /\ slots[h].state = "Failed"
          /\ \A h \in DOMAIN slots : ~slots[h].drained
      BY <1>1 DEF AutoExecInv, SlotsOK
    <2>2. \A k \in DOMAIN plan :
              IF PhaseOf(plan)[k] <= phase
              THEN /\ plan[k].handle \in DOMAIN slots
                   /\ slots[plan[k].handle].state = "Ready"
              ELSE plan[k].handle \in DOMAIN slots => slots[plan[k].handle].state = "Unbound"
      BY <1>1, <1>3 DEF AutoExecInv, SlotsOK, IsPrepared
    <2>3. run_ids \in Seq(Ids) /\ PlanFor(plan, run_ids)
      BY DEF AutoExecInv, RunOK
    <2>4. /\ slots' \in Seq(SlotRecord)
          /\ DOMAIN slots \subseteq DOMAIN slots'
          /\ DOMAIN slots' \subseteq DOMAIN run_ids
          /\ \A k \in InPhase(plan, phase + 1) :
                plan[k].handle \in DOMAIN slots' /\ slots'[plan[k].handle] = Slot("Pending")
          /\ \A h \in DOMAIN slots' : h \notin next =>
                slots'[h] = IF h \in DOMAIN slots THEN slots[h] ELSE Slot("Unbound")
      <3>1. PICK n \in Nat : n = phase + 1
        BY <1>2
      <3>2. slots' = Prepared(slots, plan, n)
        BY <1>1, <3>1
      <3>3. /\ slots' \in Seq(SlotRecord)
            /\ DOMAIN slots \subseteq DOMAIN slots'
            /\ DOMAIN slots' \subseteq DOMAIN run_ids
            /\ \A k \in InPhase(plan, n) :
                  plan[k].handle \in DOMAIN slots' /\ slots'[plan[k].handle] = Slot("Pending")
            /\ \A h \in DOMAIN slots' : h \notin {plan[k].handle : k \in InPhase(plan, n)} =>
                  slots'[h] = IF h \in DOMAIN slots THEN slots[h] ELSE Slot("Unbound")
        BY <2>1, <2>3, <3>2, PreparedSlots
      <3> QED BY <3>1, <3>3
    <2>5. \A h \in next : slots'[h] = Slot("Pending")
      BY <2>4
    <2>6. \A k \in DOMAIN plan : PhaseOf(plan)[k] # phase + 1 => plan[k].handle \notin next
      BY RunFacts DEF InPhase
    <2>7. next \subseteq Handles
      BY DEF InPhase, Handles
    <2> HIDE DEF next
    <2>8. \A h \in DOMAIN slots' : ~slots'[h].drained
      <3> SUFFICES ASSUME NEW h \in DOMAIN slots' PROVE ~slots'[h].drained
        OBVIOUS
      <3>1. CASE h \in next
        BY <2>5, <3>1 DEF Slot
      <3>2. CASE h \notin next /\ h \in DOMAIN slots
        BY <2>1, <2>4, <3>2
      <3>3. CASE h \notin next /\ h \notin DOMAIN slots
        BY <2>4, <3>3 DEF Slot
      <3> QED BY <3>1, <3>2, <3>3
    <2>9. \A h \in DOMAIN run_ids \ Handles : h \in DOMAIN slots' /\ slots'[h].state = "Failed"
      BY <2>1, <2>4, <2>7
    <2>10. ASSUME NEW k \in DOMAIN plan
           PROVE  IF PhaseOf(plan)[k] <= phase + 1
                  THEN /\ plan[k].handle \in DOMAIN slots'
                       /\ slots'[plan[k].handle].state =
                             IF exec[k].state = "Executed" THEN "Ready" ELSE "Pending"
                  ELSE plan[k].handle \in DOMAIN slots' => slots'[plan[k].handle].state = "Unbound"
      <3>1. CASE PhaseOf(plan)[k] = phase + 1
        <4>1. k \in InPhase(plan, phase + 1)
          BY <3>1 DEF InPhase
        <4>2. plan[k].handle \in DOMAIN slots' /\ slots'[plan[k].handle].state = "Pending"
          BY <2>4, <4>1 DEF Slot
        <4>3. exec[k].state = "todo" /\ PhaseOf(plan)[k] <= phase + 1
          BY <1>2, <1>4, <3>1
        <4> QED BY <4>2, <4>3
      <3>2. CASE PhaseOf(plan)[k] # phase + 1
        <4>1. plan[k].handle \notin next
          BY <2>6, <3>2
        <4>2. CASE PhaseOf(plan)[k] <= phase
          <5>1. PhaseOf(plan)[k] <= phase + 1 /\ exec[k].state = "Executed"
            BY <1>2, <1>3, <4>2
          <5>2. plan[k].handle \in DOMAIN slots /\ slots[plan[k].handle].state = "Ready"
            BY <2>2, <4>2
          <5> QED BY <2>4, <4>1, <5>1, <5>2
        <4>3. CASE ~(PhaseOf(plan)[k] <= phase)
          <5>1. ~(PhaseOf(plan)[k] <= phase + 1)
            BY <1>2, <3>2, <4>3
          <5>2. plan[k].handle \in DOMAIN slots => slots[plan[k].handle].state = "Unbound"
            BY <2>2, <4>3
          <5> QED BY <2>4, <4>1, <5>1, <5>2 DEF Slot
        <4> QED BY <4>2, <4>3
      <3> QED BY <3>1, <3>2
    <2>11. run_ids' = run_ids /\ Handles' = Handles
           /\ \A k \in DOMAIN plan : IsPrepared(k)' <=> PhaseOf(plan)[k] <= phase + 1
      BY <1>1 DEF history, Handles, IsPrepared
    <2> QED BY <1>1, <2>4, <2>8, <2>9, <2>10, <2>11 DEF SlotsOK
  <1>9. SettledOK'
    <2>1. Owned' = Owned
      BY <1>1 DEF Owned, Queued
    <2> QED BY <1>1, <2>1 DEF AutoExecInv, SettledOK, history
  <1>10. MarksOK'
    BY <1>1, MergedCovers DEF history
  <1>11. WorldOK'
    BY <1>1, WorldKept DEF history
  <1>12. SerialOK'
    BY <1>1 DEF AutoExecInv, SerialOK, NobodyThrew, UpTo, DoneWith, history
  <1> QED BY <1>5, <1>6, <1>7, <1>8, <1>9, <1>10, <1>11, <1>12 DEF AutoExecInv

(* EndPhase keeps the invariant when it ends the last phase: every         *)
(* operation of the batch has an answer waiting.                           *)
LEMMA LastPhaseKeeps ==
    ASSUME AutoExecInv, EndPhase, ~(phase < LastPhase(plan))
    PROVE  AutoExecInv'
  <1>1. stage = "phases" /\ dirty' = Merged /\ stage' = "drain" /\ queue' = <<>>
        /\ UNCHANGED <<phase, slots, issued, plan, exec, throws, world, history>>
        /\ \A k \in Members : exec[k].state = "Executed"
    BY DEF EndPhase
  <1>2. /\ \A k \in DOMAIN plan : PhaseOf(plan)[k] \in Nat /\ PhaseOf(plan)[k] <= LastPhase(plan)
        /\ LastPhase(plan) \in Nat /\ phase \in Nat
    BY <1>1, RunPhases
  <1>3. \A k \in DOMAIN plan : PhaseOf(plan)[k] <= phase
    BY <1>2
  <1>4. \A k \in DOMAIN plan : exec[k].state = "Executed"
    <2>1. \A k \in DOMAIN plan : PhaseOf(plan)[k] < phase => exec[k].state = "Executed"
      BY <1>1 DEF AutoExecInv, ExecOK
    <2>2. \A k \in DOMAIN plan : PhaseOf(plan)[k] = phase => exec[k].state = "Executed"
      BY <1>1 DEF Members, InPhase
    <2> QED BY <1>2, <1>3, <2>1, <2>2
  <1>5. QueueOK' /\ Queued(queue') = {}
    BY <1>1, BatchCleared DEF AutoExecInv, Queued
  <1>6. RunOK'
    <2>1. DOMAIN queue' = {}
      BY <1>1, EmptySeq
    <2> QED BY <1>1, <2>1 DEF AutoExecInv, RunOK, history
  <1>7. ExecOK'
    BY <1>1, <1>4 DEF AutoExecInv, ExecOK
  <1>8. /\ slots \in Seq(SlotRecord) /\ DOMAIN slots \subseteq DOMAIN run_ids
        /\ \A h \in DOMAIN run_ids \ Handles : h \in DOMAIN slots /\ slots[h].state = "Failed"
        /\ \A h \in DOMAIN slots : ~slots[h].drained
    BY <1>1 DEF AutoExecInv, SlotsOK
  <1>9. \A k \in DOMAIN plan : plan[k].handle \in DOMAIN slots /\ slots[plan[k].handle].state = "Ready"
    BY <1>1, <1>3, <1>4 DEF AutoExecInv, SlotsOK, IsPrepared
  <1>10. SlotsOK'
    <2>1. Handles' = Handles /\ run_ids' = run_ids
      BY <1>1 DEF Handles, history
    <2>2. \A k \in DOMAIN plan : IsPrepared(k)'
      BY <1>1 DEF IsPrepared
    <2> QED BY <1>1, <1>4, <1>8, <1>9, <2>1, <2>2 DEF SlotsOK
  <1>11. SettledOK'
    <2>1. Undrained' = DOMAIN run_ids
      <3>1. \A h \in DOMAIN run_ids : h \in DOMAIN slots /\ slots[h].state \in {"Ready", "Failed"}
        <4> SUFFICES ASSUME NEW h \in DOMAIN run_ids
                     PROVE  h \in DOMAIN slots /\ slots[h].state \in {"Ready", "Failed"}
          OBVIOUS
        <4>1. CASE h \in Handles
          BY <1>9, <4>1 DEF Handles
        <4>2. CASE h \notin Handles
          BY <1>8, <4>2
        <4> QED BY <4>1, <4>2
      <3> QED BY <1>1, <1>8, <3>1 DEF Undrained
    <2>2. {run_ids[h] : h \in DOMAIN run_ids} = Queued(queue)
      <3>1. run_ids = [n \in 1 .. Len(queue) |-> queue[n].id]
        BY <1>1 DEF AutoExecInv, RunOK
      <3>2. DOMAIN queue = 1 .. Len(queue)
        BY QueueFacts DEF AutoExecInv
      <3> QED BY <3>1, <3>2 DEF Queued
    <2>3. Owned' = Queued(queue)
      <3>1. Owned' = Queued(queue') \union {run_ids'[h] : h \in Undrained'}
        BY <1>1 DEF Owned
      <3>2. run_ids' = run_ids
        BY <1>1 DEF history
      <3> QED BY <1>5, <2>1, <2>2, <3>1, <3>2
    <2>4. Owned = Queued(queue)
      BY <1>1 DEF Owned
    <2> QED BY <1>1, <1>8, <2>3, <2>4 DEF AutoExecInv, SettledOK, history
  <1>12. MarksOK'
    BY <1>1, MergedCovers DEF history
  <1>13. WorldOK'
    BY <1>1, WorldKept DEF history
  <1>14. SerialOK'
    BY <1>1 DEF AutoExecInv, SerialOK, NobodyThrew, UpTo, DoneWith, history
  <1> QED BY <1>5, <1>6, <1>7, <1>10, <1>11, <1>12, <1>13, <1>14 DEF AutoExecInv

(* A run that is over leaves nothing in progress. *)
LEMMA RunIsOver ==
    ASSUME AutoExecInv, stage' = "idle", plan' = <<>>, exec' = <<>>, slots' = <<>>,
           UNCHANGED <<run_ids, issued>>
    PROVE  RunOK' /\ ExecOK' /\ SlotsOK' /\ SerialOK' /\ PlanIds' = {}
  <1>1. \A S : <<>> \in Seq(S) /\ DOMAIN <<>> = {}
    BY EmptySeq
  <1>2. PlanFor(<<>>, run_ids)
    BY <1>1 DEF PlanFor
  <1>3. RunOK'
    BY <1>2 DEF AutoExecInv, RunOK
  <1>4. ExecOK'
    BY <1>1 DEF ExecOK
  <1>5. SlotsOK'
    BY <1>1 DEF SlotsOK
  <1>6. SerialOK'
    BY <1>1 DEF SerialOK
  <1>7. PlanIds' = {}
    BY <1>1 DEF PlanIds
  <1> QED BY <1>3, <1>4, <1>5, <1>6, <1>7

(* AbortRun keeps the invariant: the batch stays with the caller. *)
LEMMA AbortRunKeeps == AutoExecInv /\ AbortRun => AutoExecInv'
  <1> SUFFICES ASSUME AutoExecInv, AbortRun PROVE AutoExecInv'
    OBVIOUS
  <1>1. stage = "phases" /\ dirty' = Merged /\ stage' = "idle" /\ plan' = <<>> /\ exec' = <<>>
        /\ slots' = <<>> /\ aborted' = aborted \union Queued(queue)
        /\ UNCHANGED <<batch, throws, world, settled, run_ids, world_before, unseen>>
    BY DEF AbortRun, DirtyAfterThrow
  <1>2. RunOK' /\ ExecOK' /\ SlotsOK' /\ SerialOK' /\ PlanIds' = {}
    BY <1>1, RunIsOver DEF batch
  <1>3. QueueOK'
    BY <1>1 DEF AutoExecInv, QueueOK, batch
  <1>4. SettledOK'
    <2>1. Owned' = Owned
      BY <1>1 DEF Owned, batch, Queued
    <2> QED BY <1>1, <2>1 DEF AutoExecInv, SettledOK, batch
  <1>5. MarksOK'
    BY <1>1, MergedCovers
  <1>6. WorldOK'
    <2>1. PlanIds \subseteq Queued(queue)
      <3>1. run_ids = [n \in 1 .. Len(queue) |-> queue[n].id]
        BY <1>1 DEF AutoExecInv, RunOK
      <3>2. DOMAIN queue = 1 .. Len(queue)
        BY QueueFacts DEF AutoExecInv
      <3>3. \A k \in DOMAIN plan : plan[k].handle \in DOMAIN run_ids /\ plan[k].id = run_ids[plan[k].handle]
        BY RunFacts
      <3> QED BY <3>1, <3>2, <3>3 DEF PlanIds, Queued
    <2>2. Queued(queue) \subseteq Ids
      BY QueueFacts DEF AutoExecInv, Queued
    <2> QED BY <1>1, <1>2, <2>1, <2>2 DEF AutoExecInv, WorldOK
  <1> QED BY <1>2, <1>3, <1>4, <1>5, <1>6 DEF AutoExecInv

-----------------------------------------------------------------------------
(* The drain.                                                              *)

(* EndRun keeps the invariant: every operation of the run has its answer.  *)
LEMMA EndRunKeeps == AutoExecInv /\ EndRun => AutoExecInv'
  <1> SUFFICES ASSUME AutoExecInv, EndRun PROVE AutoExecInv'
    OBVIOUS
  <1>1. stage = "drain" /\ Undrained = {} /\ queue' = queue /\ slots' = <<>>
        /\ stage' = "idle" /\ plan' = <<>> /\ exec' = <<>>
        /\ UNCHANGED <<issued, throws, chunk_state, history>>
    BY DEF EndRun, QueueAfterDrain
  <1>2. RunOK' /\ ExecOK' /\ SlotsOK' /\ SerialOK' /\ PlanIds' = {}
    BY <1>1, RunIsOver DEF history
  <1>3. QueueOK'
    BY <1>1 DEF AutoExecInv, QueueOK
  <1>4. SettledOK'
    <2>1. Owned' = Owned
      BY <1>1 DEF Owned, Queued
    <2> QED BY <1>1, <2>1 DEF AutoExecInv, SettledOK, history
  <1>5. MarksOK'
    BY <1>1 DEF AutoExecInv, MarksOK, WritesLeaveDirtyMarks, chunk_state, history
  <1>6. WorldOK'
    <2>1. \A i \in PlanIds : settled[i] = "Ready"
      <3> SUFFICES ASSUME NEW k \in DOMAIN plan PROVE settled[plan[k].id] = "Ready"
        BY DEF PlanIds
      <3>1. exec[k].state = "Executed"
        BY <1>1 DEF AutoExecInv, ExecOK
      <3>2. plan[k].handle \in DOMAIN slots /\ slots[plan[k].handle].state = "Ready"
        BY <1>1, <3>1 DEF AutoExecInv, SlotsOK, IsPrepared
      <3>3. slots[plan[k].handle].drained
        BY <1>1, <3>2 DEF Undrained
      <3>4. settled[run_ids[plan[k].handle]] = "Ready"
        BY <1>1, <3>2, <3>3 DEF AutoExecInv, SettledOK
      <3> QED BY <3>4, RunFacts
    <2> QED BY <1>1, <1>2, <2>1 DEF AutoExecInv, WorldOK, chunk_state, history
  <1> QED BY <1>2, <1>3, <1>4, <1>5, <1>6 DEF AutoExecInv

(* Deliver keeps the invariant: one operation is answered, and what the    *)
(* hook enqueues is new.                                                   *)
LEMMA DeliverKeeps ==
    ASSUME AutoExecInv, NEW fs \in Seq(Templates), Deliver(fs)
    PROVE  AutoExecInv'
  <1>0. PICK h : h = Min(Undrained)
    OBVIOUS
  <1>1. /\ stage = "drain" /\ Undrained # {}
        /\ slots' = [slots EXCEPT ![h].drained = TRUE]
        /\ queue' = queue \o Batch(fs) /\ issued' = issued + Len(fs) /\ issued' <= MaxIssued
        /\ settled' = [i \in Ids |-> IF i \in (issued + 1)..issued' THEN "open"
                                     ELSE Settle({run_ids[h]}, slots[h].state)[i]]
        /\ UNCHANGED <<stage, plan, phase, exec, throws, chunk_state,
                       run_ids, world_before, unseen, aborted>>
    BY <1>0 DEF Deliver
  <1>2. slots \in Seq(SlotRecord) /\ DOMAIN slots = 1 .. Len(slots) /\ Len(slots) \in Nat
        /\ DOMAIN slots \subseteq DOMAIN run_ids
    BY <1>1, LenProperties DEF AutoExecInv, SlotsOK
  <1>3. h \in Undrained /\ h \in DOMAIN slots /\ ~slots[h].drained /\ slots[h].state \in {"Ready", "Failed"}
    <2>1. Undrained \in SUBSET Nat
      BY <1>2 DEF Undrained
    <2>2. h \in Undrained
      BY <1>0, <1>1, <2>1, MinIsLeast
    <2> QED BY <2>2 DEF Undrained
  <1>4. /\ QueueOK'
        /\ Queued(queue)' = Queued(queue) \union (issued + 1 .. issued')
        /\ \A n \in DOMAIN queue' :
              \/ n \in DOMAIN queue /\ queue'[n] = queue[n]
              \/ queue'[n].id > issued
    BY <1>1, BatchGrows DEF AutoExecInv
  <1>5. issued \in Nat /\ issued' \in Nat /\ issued <= issued'
    <2>1. issued \in Nat /\ Len(fs) \in Nat
      BY QueueFacts, LenProperties DEF AutoExecInv
    <2> QED BY <1>1, <2>1
  <1>6. /\ \A g \in DOMAIN run_ids : run_ids[g] \in Ids /\ run_ids[g] \in Nat /\ run_ids[g] <= issued
        /\ \A f, g \in DOMAIN run_ids : f # g => run_ids[f] # run_ids[g]
    <2>1. DOMAIN run_ids = 1 .. Len(run_ids) /\ Len(run_ids) \in Nat
          /\ \A g \in DOMAIN run_ids : run_ids[g] \in Ids
      BY LenProperties, ElementOfSeq DEF AutoExecInv, RunOK
    <2>2. \A g \in DOMAIN run_ids : run_ids[g] \in Nat
      BY <2>1 DEF Ids
    <2>3. \A f, g \in DOMAIN run_ids : f < g => run_ids[f] # run_ids[g]
      BY <2>2 DEF AutoExecInv, RunOK
    <2>4. \A f, g \in DOMAIN run_ids : f # g => f < g \/ g < f
      BY <2>1
    <2> QED BY <2>1, <2>2, <2>3, <2>4 DEF AutoExecInv, RunOK
  <1>7. RunOK'
    <2>1. \A n \in DOMAIN queue' : \A g \in DOMAIN run_ids : run_ids[g] < queue'[n].id
      <3> SUFFICES ASSUME NEW n \in DOMAIN queue', NEW g \in DOMAIN run_ids
                   PROVE  run_ids[g] < queue'[n].id
        OBVIOUS
      <3>1. CASE n \in DOMAIN queue /\ queue'[n] = queue[n]
        BY <1>1, <3>1 DEF AutoExecInv, RunOK
      <3>2. CASE queue'[n].id > issued
        <4>1. queue'[n].id \in Nat
          <5>1. queue' \in Seq(Operations)
            BY <1>4 DEF QueueOK
          <5>2. queue'[n] \in Operations
            BY <5>1, LenProperties, ElementOfSeq
          <5> QED BY <5>2 DEF Operations, Ids
        <4> QED BY <1>5, <1>6, <3>2, <4>1
      <3> QED BY <1>4, <3>1, <3>2
    <2>2. \A g \in DOMAIN run_ids : run_ids[g] <= issued'
      BY <1>5, <1>6
    <2> QED BY <1>1, <2>1, <2>2 DEF AutoExecInv, RunOK
  <1>8. ExecOK'
    BY <1>1 DEF AutoExecInv, ExecOK
  <1>9. /\ slots' \in Seq(SlotRecord) /\ DOMAIN slots' = DOMAIN slots
        /\ slots'[h].state = slots[h].state /\ slots'[h].drained = TRUE
        /\ \A g \in DOMAIN slots : g # h => slots'[g] = slots[g]
    <2>1. PICK x : x = [slots[h] EXCEPT !.drained = TRUE]
      OBVIOUS
    <2>2. slots[h] \in SlotRecord
      BY <1>2, <1>3, ElementOfSeq
    <2>3. x \in SlotRecord /\ x.state = slots[h].state /\ x.drained = TRUE
      BY <2>1, <2>2 DEF SlotRecord
    <2>4. slots' = [slots EXCEPT ![h] = x]
      BY <1>1, <2>1
    <2>5. slots' \in Seq(SlotRecord) /\ DOMAIN slots' = DOMAIN slots
      BY <1>2, <1>3, <2>3, <2>4, ExceptSeq
    <2>6. slots'[h] = x /\ \A g \in DOMAIN slots : g # h => slots'[g] = slots[g]
      BY <1>3, <2>4
    <2> QED BY <2>3, <2>5, <2>6
  <1>10. \A g \in DOMAIN slots : slots'[g].state = slots[g].state
    BY <1>9
  <1>11. SlotsOK'
    <2>1. Handles' = Handles /\ \A k : IsPrepared(k)
      BY <1>1 DEF Handles, IsPrepared
    <2>2. \A k : IsPrepared(k)'
      BY <1>1 DEF IsPrepared
    <2>3. /\ \A g \in DOMAIN run_ids \ Handles : g \in DOMAIN slots /\ slots[g].state = "Failed"
          /\ \A k \in DOMAIN plan : /\ plan[k].handle \in DOMAIN slots
                                    /\ slots[plan[k].handle].state =
                                          IF exec[k].state = "Executed" THEN "Ready" ELSE "Pending"
      BY <1>1, <2>1 DEF AutoExecInv, SlotsOK
    <2> QED BY <1>1, <1>2, <1>9, <1>10, <2>1, <2>2, <2>3 DEF SlotsOK
  <1>12. /\ settled \in [Ids -> Outcomes]
         /\ \A i \in Ids : i > issued <=> settled[i] = "none"
         /\ \A i \in Ids : settled[i] = "open" <=> i \in Queued(queue) \union {run_ids[g] : g \in Undrained}
         /\ \A g \in DOMAIN slots : slots[g].drained => settled[run_ids[g]] = slots[g].state
    BY <1>1 DEF AutoExecInv, SettledOK, Owned
  <1>13. \A i \in Ids : settled'[i] = IF i \in (issued + 1)..issued' THEN "open"
                                      ELSE IF i = run_ids[h] THEN slots[h].state ELSE settled[i]
    BY <1>1 DEF Settle
  <1>14. h \in DOMAIN run_ids /\ run_ids[h] \in Ids /\ run_ids[h] <= issued /\ settled[run_ids[h]] = "open"
         /\ run_ids[h] \notin (issued + 1)..issued'
    <2>1. h \in DOMAIN run_ids
      BY <1>2, <1>3
    <2>2. run_ids[h] \in Ids /\ run_ids[h] <= issued /\ run_ids[h] \in Nat
      BY <1>6, <2>1
    <2>3. settled[run_ids[h]] = "open"
      BY <1>3, <1>12, <2>2
    <2> QED BY <1>5, <2>1, <2>2, <2>3
  <1>15. Undrained' = Undrained \ {h}
    BY <1>3, <1>9, <1>10 DEF Undrained
  <1>16. SettledOK'
    <2>1. settled' \in [Ids -> Outcomes]
      <3>1. \A i \in Ids : settled'[i] \in Outcomes
        BY <1>3, <1>12, <1>13 DEF Outcomes
      <3>2. settled' = [i \in Ids |-> settled'[i]]
        BY <1>1
      <3> QED BY <3>1, <3>2
    <2>2. \A i \in Ids : i > issued' <=> settled'[i] = "none"
      <3> SUFFICES ASSUME NEW i \in Ids PROVE i > issued' <=> settled'[i] = "none"
        OBVIOUS
      <3>1. i \in Nat
        BY DEF Ids
      <3>2. CASE i \in (issued + 1)..issued'
        <4>1. ~(i > issued')
          BY <1>5, <3>2
        <4> QED BY <1>13, <3>2, <4>1
      <3>3. CASE i \notin (issued + 1)..issued'
        <4>1. i > issued' <=> i > issued
          BY <1>5, <3>1, <3>3
        <4>2. CASE i = run_ids[h]
          <5>1. ~(i > issued)
            BY <1>12, <1>14, <4>2
          <5> QED BY <1>3, <1>13, <3>3, <4>1, <4>2, <5>1
        <4>3. CASE i # run_ids[h]
          BY <1>12, <1>13, <3>3, <4>1, <4>3
        <4> QED BY <4>2, <4>3
      <3> QED BY <3>2, <3>3
    <2>3. Owned' = (Queued(queue) \union (issued + 1 .. issued')) \union {run_ids[g] : g \in Undrained \ {h}}
      <3>1. Owned' = Queued(queue)' \union {run_ids'[g] : g \in Undrained'}
        BY <1>1 DEF Owned
      <3> QED BY <1>1, <1>4, <1>15, <3>1
    <2>4. ASSUME NEW i \in Ids PROVE settled'[i] = "open" <=> i \in Owned'
      <3>1. CASE i \in (issued + 1)..issued'
        BY <1>13, <2>3, <3>1
      <3>2. CASE i \notin (issued + 1)..issued' /\ i = run_ids[h]
        <4>1. i \notin {run_ids[g] : g \in Undrained \ {h}}
          <5>1. Undrained \subseteq DOMAIN run_ids
            BY <1>2 DEF Undrained
          <5> QED BY <1>6, <1>14, <3>2, <5>1
        <4>2. i \notin Queued(queue)
          <5>1. \A n \in DOMAIN queue : run_ids[h] < queue[n].id
            BY <1>1, <1>14 DEF AutoExecInv, RunOK
          <5>2. \A n \in DOMAIN queue : queue[n].id \in Nat
            BY QueueFacts DEF AutoExecInv
          <5>3. run_ids[h] \in Nat
            BY <1>6, <1>14
          <5>4. \A n \in DOMAIN queue : run_ids[h] # queue[n].id
            BY <5>1, <5>2, <5>3
          <5> QED BY <3>2, <5>4 DEF Queued
        <4>3. settled'[i] # "open"
          BY <1>3, <1>13, <3>2
        <4> QED BY <2>3, <3>2, <4>1, <4>2, <4>3
      <3>3. CASE i \notin (issued + 1)..issued' /\ i # run_ids[h]
        <4>1. settled'[i] = settled[i]
          BY <1>13, <3>3
        <4>2. i \in {run_ids[g] : g \in Undrained} <=> i \in {run_ids[g] : g \in Undrained \ {h}}
          BY <3>3
        <4> QED BY <1>12, <2>3, <3>3, <4>1, <4>2
      <3> QED BY <3>1, <3>2, <3>3
    <2>5. ASSUME NEW g \in DOMAIN slots, slots'[g].drained
          PROVE  settled'[run_ids[g]] = slots'[g].state
      <3>1. CASE g = h
        BY <1>9, <1>13, <1>14, <3>1
      <3>2. CASE g # h
        <4>1. slots[g].drained /\ slots'[g].state = slots[g].state /\ g \in DOMAIN run_ids
          BY <1>2, <1>9, <2>5, <3>2
        <4>2. run_ids[g] \in Ids /\ run_ids[g] # run_ids[h] /\ run_ids[g] \notin (issued + 1)..issued'
          BY <1>5, <1>6, <1>14, <3>2, <4>1
        <4> QED BY <1>12, <1>13, <4>1, <4>2
      <3> QED BY <3>1, <3>2
    <2> QED BY <1>1, <1>9, <2>1, <2>2, <2>4, <2>5 DEF SettledOK
  <1>17. MarksOK'
    BY <1>1, MarksKept DEF chunk_state
  <1>18. WorldOK'
    <2>1. ASSUME NEW i \in Ids \ aborted, NEW c \in ChunkKeys, Occurs(i, world[c]), i \notin PlanIds
          PROVE  settled'[i] = "Ready"
      <3>1. settled[i] = "Ready"
        BY <2>1 DEF AutoExecInv, WorldOK
      <3>2. i # run_ids[h]
        BY <1>14, <3>1
      <3>3. ~(i > issued)
        BY <1>12, <3>1
      <3>4. i \notin (issued + 1)..issued'
        BY <1>5, <3>3
      <3> QED BY <1>13, <3>1, <3>2, <3>4
    <2>2. PlanIds' = PlanIds
      BY <1>1 DEF PlanIds
    <2> QED BY <1>1, <2>1, <2>2 DEF AutoExecInv, WorldOK, chunk_state
  <1>19. SerialOK'
    BY <1>1 DEF AutoExecInv, SerialOK, NobodyThrew, UpTo, DoneWith, chunk_state
  <1> QED BY <1>4, <1>7, <1>8, <1>11, <1>16, <1>17, <1>18, <1>19 DEF AutoExecInv

-----------------------------------------------------------------------------
(* The theorems.                                                           *)

(* Every step keeps the invariant. *)
LEMMA NextKeeps == AutoExecInv /\ [ExecNext]_exec_vars => AutoExecInv'
  <1> SUFFICES ASSUME AutoExecInv, [ExecNext]_exec_vars PROVE AutoExecInv'
    OBVIOUS
  <1>1. CASE \E t \in Templates : Enqueue(t)
    BY <1>1, EnqueueKeeps
  <1>2. CASE ClearQueue
    BY <1>2, ClearQueueKeeps
  <1>3. CASE ClearDirtyChunks
    BY <1>3, ClearDirtyKeeps
  <1>4. CASE DropMismatched
    BY <1>4, DropMismatchedKeeps
  <1>5. CASE BeginRun
    BY <1>5, BeginRunKeeps
  <1>6. CASE \E k \in DOMAIN plan : StartOperation(k)
    BY <1>6, StartOperationKeeps
  <1>7. CASE \E k \in DOMAIN plan : EnterChunk(k)
    BY <1>7, EnterChunkKeeps
  <1>8. CASE \E k \in DOMAIN plan : LeaveChunk(k)
    BY <1>8, LeaveChunkKeeps
  <1>9. CASE \E k \in DOMAIN plan : ThrowInChunk(k)
    BY <1>9, ThrowInChunkKeeps
  <1>10. CASE \E k \in DOMAIN plan : FinishOperation(k)
    BY <1>10, FinishOperationKeeps
  <1>11. CASE EndPhase
    BY <1>11, NextPhaseKeeps, LastPhaseKeeps
  <1>12. CASE AbortRun
    BY <1>12, AbortRunKeeps
  <1>13. CASE \E followups \in {<<>>} \union {<<t>> : t \in Templates} : Deliver(followups)
    <2>1. PICK fs \in {<<>>} \union {<<t>> : t \in Templates} : Deliver(fs)
      BY <1>13
    <2>2. fs \in Seq(Templates)
      <3>1. CASE fs = <<>>
        BY <3>1, EmptySeq
      <3>2. CASE fs \in {<<t>> : t \in Templates}
        <4>1. PICK t \in Templates : fs = <<t>>
          BY <3>2
        <4>2. <<t>> \in Seq(Templates)
          OBVIOUS
        <4> QED BY <4>1, <4>2
      <3> QED BY <2>1, <3>1, <3>2
    <2> QED BY <2>1, <2>2, DeliverKeeps
  <1>14. CASE EndRun
    BY <1>14, EndRunKeeps
  <1>15. CASE UNCHANGED exec_vars
    <2>1. UNCHANGED <<queue, issued, stage, plan, phase, exec, slots, throws, dirty, world,
                      settled, run_ids, world_before, unseen, aborted>>
      BY <1>15 DEF exec_vars, batch, run, chunk_state, history
    <2>2. QueueOK'
      BY <2>1 DEF AutoExecInv, QueueOK
    <2>3. RunOK'
      BY <2>1 DEF AutoExecInv, RunOK
    <2>4. ExecOK'
      BY <2>1 DEF AutoExecInv, ExecOK
    <2>5. SlotsOK'
      BY <2>1 DEF AutoExecInv, SlotsOK, IsPrepared, Handles
    <2>6. SettledOK'
      <3>1. Owned' = Owned
        BY <2>1 DEF Owned, Queued, Undrained
      <3> QED BY <2>1, <3>1 DEF AutoExecInv, SettledOK
    <2>7. MarksOK'
      BY <2>1, MarksKept
    <2>8. WorldOK'
      BY <2>1, WorldKept
    <2>9. SerialOK'
      BY <2>1 DEF AutoExecInv, SerialOK, NobodyThrew, UpTo, DoneWith
    <2> QED BY <2>2, <2>3, <2>4, <2>5, <2>6, <2>7, <2>8, <2>9 DEF AutoExecInv
  <1> QED BY <1>1, <1>2, <1>3, <1>4, <1>5, <1>6, <1>7, <1>8, <1>9, <1>10, <1>11,
             <1>12, <1>13, <1>14, <1>15 DEF ExecNext

(* The inductive invariant of the pipeline: sim/auto_exec.h runs a batch   *)
(* from planning to the drain as the eight parts of AutoExecInv say.       *)
THEOREM AutoExecInvariant == ExecSpec => []AutoExecInv
  <1>1. ExecInit => AutoExecInv
    BY InitHolds
  <1>2. AutoExecInv /\ [ExecNext]_exec_vars => AutoExecInv'
    BY NextKeeps
  <1> QED BY <1>1, <1>2, PTL DEF ExecSpec

(* When the phases are done, every operation of the plan is done with      *)
(* every chunk, so the chunks are as serial execution leaves them.         *)
LEMMA DrainIsSerial ==
    ASSUME AutoExecInv, stage = "drain"
    PROVE  world = Serially(plan, world_before)[Len(plan)]
  <1> DEFINE w == Serially(plan, world_before)
             N == Len(plan)
  <1>1. N \in Nat /\ DOMAIN plan = 1 .. N /\ plan \in Seq(PlannedOp)
    BY RunFacts
  <1>2. world \in [ChunkKeys -> Seq(Ids)] /\ world_before \in [ChunkKeys -> Seq(Ids)]
    BY DEF AutoExecInv, WorldOK
  <1>3. w \in [0 .. N -> [ChunkKeys -> Seq(Ids)]]
    BY <1>1, <1>2, SeriallyUnfolds
  <1>4. \A k \in DOMAIN plan : exec[k].state = "Executed"
    BY DEF AutoExecInv, ExecOK
  <1>5. NobodyThrew
    BY <1>4 DEF NobodyThrew
  <1>6. N \in 0 .. N
    BY <1>1
  <1>7. \A c \in ChunkKeys : UpTo(N, c)
    BY <1>1, <1>4 DEF UpTo, DoneWith
  <1>8. \A c \in ChunkKeys : world[c] = w[N][c]
    BY <1>5, <1>6, <1>7 DEF AutoExecInv, SerialOK
  <1>9. w[N] \in [ChunkKeys -> Seq(Ids)]
    <2> HIDE DEF w, N
    <2> QED BY <1>3, <1>6
  <1> HIDE DEF w, N
  <1>10. world = w[N]
    BY <1>2, <1>8, <1>9
  <1> QED BY <1>10 DEF w, N

(* Serial and pool execution agree (sim/auto_exec.h): the phases leave in  *)
(* the chunks what serial execution of the accepted operations leaves.     *)
THEOREM PhasesEqualSerial == ExecSpec => []SerialEquivalence
  <1>1. AutoExecInv => SerialEquivalence
    BY DrainIsSerial DEF SerialEquivalence
  <1> QED BY <1>1, AutoExecInvariant, PTL

(* No write goes unnoticed (merge_planned_dirty of sim/auto_exec.h): its   *)
(* dirty bits are set or recorded, also after a run that threw.            *)
THEOREM WritesAreMarked == ExecSpec => []WritesLeaveDirtyMarks
  <1>1. AutoExecInv => WritesLeaveDirtyMarks
    BY DEF AutoExecInv, MarksOK
  <1> QED BY <1>1, AutoExecInvariant, PTL

(* The variables have their types. *)
LEMMA InvHasTypes == AutoExecInv => ExecTypeOK
  <1> SUFFICES ASSUME AutoExecInv PROVE ExecTypeOK
    OBVIOUS
  <1>1. \A n \in DOMAIN queue : queue[n] \in Operations
    BY QueueFacts DEF AutoExecInv
  <1>2. issued \in 0..MaxIssued /\ throws \in 0..MaxThrows /\ stage \in {"idle", "phases", "drain"}
    BY DEF AutoExecInv, QueueOK, RunOK, WorldOK
  <1>3. \A k \in DOMAIN plan : /\ plan[k].id \in Ids /\ plan[k].kind \in Templates
                               /\ plan[k].chunks \subseteq ChunkKeys
                               /\ plan[k].handle \in DOMAIN run_ids
    BY RunFacts
  <1>4. DOMAIN exec = DOMAIN plan
    BY RunFacts
  <1>5. \A k \in DOMAIN plan : /\ exec[k].state \in {"todo", "running", "Executed", "threw"}
                               /\ exec[k].left \subseteq plan[k].chunks
                               /\ exec[k].marked \subseteq plan[k].chunks
    BY RunFacts DEF AutoExecInv, ExecOK, Consistent, ExecRecord
  <1>6. \A h \in DOMAIN slots : /\ slots[h].state \in {"Unbound", "Pending", "Ready", "Failed"}
                                /\ slots[h].drained \in BOOLEAN
    <2>1. slots \in Seq(SlotRecord)
      BY DEF AutoExecInv, SlotsOK
    <2>2. \A h \in DOMAIN slots : slots[h] \in SlotRecord
      BY <2>1, LenProperties, ElementOfSeq
    <2> QED BY <2>2 DEF SlotRecord
  <1>7. dirty \in [ChunkKeys -> SUBSET DirtyBits] /\ unseen \in [ChunkKeys -> SUBSET DirtyBits]
    BY DEF AutoExecInv, MarksOK
  <1>8. aborted \subseteq Ids /\ \A c \in ChunkKeys : \A n \in DOMAIN world[c] : world[c][n] \in Ids
    <2>1. aborted \subseteq Ids /\ world \in [ChunkKeys -> Seq(Ids)]
      BY DEF AutoExecInv, WorldOK
    <2>2. ASSUME NEW c \in ChunkKeys, NEW n \in DOMAIN world[c] PROVE world[c][n] \in Ids
      <3>1. world[c] \in Seq(Ids)
        BY <2>1
      <3> QED BY <3>1, LenProperties, ElementOfSeq
    <2> QED BY <2>1, <2>2
  <1> QED BY <1>1, <1>2, <1>3, <1>4, <1>5, <1>6, <1>7, <1>8 DEF ExecTypeOK

(* No operation is lost or answered twice (sim/auto_exec.h and the drain   *)
(* of result_channel.h): an operation is unsettled exactly while it is in  *)
(* the batch or has a completion that the drain has not reached.           *)
THEOREM OperationsAreKept == ExecSpec => []NoOperationLost
  <1>1. AutoExecInv => NoOperationLost
    <2> SUFFICES ASSUME AutoExecInv PROVE NoOperationLost
      OBVIOUS
    <2>1. {i \in Ids : settled[i] = "open"} \subseteq Owned
      BY DEF AutoExecInv, SettledOK
    <2>2. Owned \subseteq Ids
      <3>1. Queued(queue) \subseteq Ids
        BY QueueFacts DEF AutoExecInv, Queued
      <3>2. stage = "drain" => \A h \in Undrained : run_ids[h] \in Ids
        <4>1. \A h \in DOMAIN run_ids : run_ids[h] \in Ids
          BY LenProperties, ElementOfSeq DEF AutoExecInv, RunOK
        <4> QED BY <4>1 DEF AutoExecInv, SlotsOK, Undrained
      <3> QED BY <3>1, <3>2 DEF Owned
    <2>3. Owned \subseteq {i \in Ids : settled[i] = "open"}
      BY <2>2 DEF AutoExecInv, SettledOK
    <2>4. {i \in Ids : settled[i] = "open"} = Owned
      BY <2>1, <2>3
    <2> QED BY <2>4, InvHasTypes DEF NoOperationLost, Owned
  <1> QED BY <1>1, AutoExecInvariant, PTL

(* An operation of the plan is not answered with a failure. *)
LEMMA PlannedIsNotRefused ==
    ASSUME AutoExecInv, NEW k \in DOMAIN plan
    PROVE  settled[plan[k].id] \in {"open", "Ready"}
  <1>1. plan[k].handle \in DOMAIN run_ids /\ plan[k].id = run_ids[plan[k].handle] /\ plan[k].id \in Ids
    BY RunFacts
  <1>2. CASE stage = "idle"
    BY <1>2, IdleFacts
  <1>3. CASE stage = "phases"
    <2>1. run_ids = [n \in 1 .. Len(queue) |-> queue[n].id]
      BY <1>3 DEF AutoExecInv, RunOK
    <2>2. DOMAIN queue = 1 .. Len(queue)
      BY QueueFacts DEF AutoExecInv
    <2>3. plan[k].id \in Queued(queue)
      BY <1>1, <2>1, <2>2 DEF Queued
    <2> QED BY <1>1, <2>3 DEF AutoExecInv, SettledOK, Owned
  <1>4. CASE stage = "drain"
    <2>1. exec[k].state = "Executed"
      BY <1>4 DEF AutoExecInv, ExecOK
    <2>2. plan[k].handle \in DOMAIN slots /\ slots[plan[k].handle].state = "Ready"
      BY <1>4, <2>1 DEF AutoExecInv, SlotsOK, IsPrepared
    <2>3. CASE slots[plan[k].handle].drained
      BY <1>1, <1>4, <2>2, <2>3 DEF AutoExecInv, SettledOK
    <2>4. CASE ~slots[plan[k].handle].drained
      <3>1. plan[k].handle \in Undrained
        BY <2>2, <2>4 DEF Undrained
      <3>2. plan[k].id \in Owned
        BY <1>1, <1>4, <3>1 DEF Owned
      <3> QED BY <1>1, <3>2 DEF AutoExecInv, SettledOK
    <2> QED BY <2>3, <2>4
  <1> QED BY <1>2, <1>3, <1>4 DEF AutoExecInv, RunOK

(* An answer is true (result_channel.h): a Ready operation has written     *)
(* each of its chunks exactly once, and one that was rejected, dropped or  *)
(* discarded has written nothing.                                          *)
THEOREM AnswersHold == ExecSpec => []AnswersAreTrue
  <1>1. AutoExecInv => AnswersAreTrue
    <2> SUFFICES ASSUME AutoExecInv PROVE AnswersAreTrue
      OBVIOUS
    <2>1. ASSUME stage = "drain", NEW h \in DOMAIN slots, slots[h].state = "Ready"
          PROVE  \E k \in DOMAIN plan : plan[k].handle = h /\ Applied(k)
      <3>1. h \in DOMAIN run_ids /\ h \in Handles
        BY <2>1 DEF AutoExecInv, SlotsOK
      <3>2. PICK k \in DOMAIN plan : plan[k].handle = h
        BY <3>1 DEF Handles
      <3>3. ASSUME Mutating(plan[k].kind), plan[k].id \notin aborted, NEW c \in plan[k].chunks
            PROVE  TimesWritten(plan[k].id, c) = 1
        <4> DEFINE w == Serially(plan, world_before)
        <4>1. /\ plan \in Seq(PlannedOp) /\ k \in 1 .. Len(plan) /\ plan[k].id \in Ids /\ c \in ChunkKeys
              /\ \A j \in 1 .. Len(plan) : j # k => plan[j].id # plan[k].id
          BY <3>2, <3>3, RunFacts
        <4>2. world_before \in [ChunkKeys -> Seq(Ids)]
          BY DEF AutoExecInv, WorldOK
        <4>3. WritesTo(plan, k, c)
          BY <3>3 DEF WritesTo
        <4>4. ~Occurs(plan[k].id, world_before[c])
          BY <3>2, <3>3, <4>1 DEF AutoExecInv, WorldOK, PlanIds
        <4>5. WroteOnce(plan[k].id, w[Len(plan)][c])
          BY <4>1, <4>2, <4>3, <4>4, SeriallyWritesOnce
        <4>6. world = w[Len(plan)]
          BY <2>1, DrainIsSerial
        <4> HIDE DEF w
        <4>7. PICK m : {x \in DOMAIN world[c] : world[c][x] = plan[k].id} = {m}
          BY <4>5, <4>6 DEF WroteOnce
        <4> QED BY <4>7, FS_Singleton DEF TimesWritten
      <3> QED BY <3>2, <3>3 DEF Applied
    <2>2. ASSUME NEW i \in Ids \ aborted, settled[i] \in {"Failed", "dropped", "discarded"},
                 NEW c \in ChunkKeys
          PROVE  TimesWritten(i, c) = 0
      <3>1. i \notin PlanIds
        BY <2>2, PlannedIsNotRefused DEF PlanIds
      <3>2. ~Occurs(i, world[c])
        BY <2>2, <3>1, UnissuedWroteNothing
      <3>3. {x \in DOMAIN world[c] : world[c][x] = i} = {}
        BY <3>2 DEF Occurs
      <3> QED BY <3>3, FS_EmptySet DEF TimesWritten
    <2> QED BY <2>1, <2>2 DEF AnswersAreTrue
  <1> QED BY <1>1, AutoExecInvariant, PTL
=============================================================================
