----------------------------- MODULE QueuedPlan -----------------------------
(***************************************************************************)
(* The queued-operation planner of ops/queued.h as pure operators: which   *)
(* queued operations are accepted, over which chunks, and how an accepted  *)
(* plan is cut into phases whose operations may run concurrently.          *)
(*                                                                         *)
(* An operation is described by a template: its write policy, the fields   *)
(* it reads and writes, the dirty bits it leaves and its domain. A chunk   *)
(* list is a set: DomainDesc sorts and deduplicates it. The chunk index    *)
(* that speeds up both searches returns what the plain scan returns and is *)
(* abstracted into it. Handles are dense, as OperationBatch assigns them.  *)
(***************************************************************************)
EXTENDS Integers, Sequences

CONSTANTS
    ChunkKeys,       \* the chunk keys of the world
    Templates,       \* the kinds of operation the application enqueues
    Policy, Reads, Writes, Dirties,
    Domain           \* [kind |-> "Explicit" | "Dirty" | "Resident", of |-> set]

Policies == {"ReadOnly", "UniquePerTile", "UniquePerChunk", "Unsafe"}
Fields == UNION {Reads[t] \union Writes[t] : t \in Templates}
DirtyBits == UNION {Dirties[t] : t \in Templates}

ASSUME QueuedPlanAssumption ==
    /\ ChunkKeys \subseteq Nat
    /\ Policy \in [Templates -> Policies]
    /\ \A t \in Templates : Domain[t].kind \in {"Explicit", "Dirty", "Resident"}

(* The chunks a domain selects in a world with the given dirty bits. *)
Expand(t, dirty) ==
    CASE Domain[t].kind = "Explicit" -> Domain[t].of
      [] Domain[t].kind = "Dirty" -> {c \in ChunkKeys : dirty[c] \intersect Domain[t].of # {}}
      [] Domain[t].kind = "Resident" -> ChunkKeys

HazardMask(t, u) == (Writes[t] \intersect Writes[u])
                    \union (Writes[t] \intersect Reads[u])
                    \union (Reads[t] \intersect Writes[u])

Hazards(earlier, later) == /\ HazardMask(earlier.kind, later.kind) # {}
                           /\ earlier.chunks \intersect later.chunks # {}

(* The verdict on one operation, given the operations accepted before it. *)
Verdict(plan, op) ==
    IF Policy[op.kind] = "ReadOnly" /\ Writes[op.kind] # {} THEN "InvalidFieldAccess"
    ELSE IF Domain[op.kind].kind = "Explicit" /\ ~(op.chunks \subseteq ChunkKeys) THEN "InvalidDomain"
    ELSE IF \E k \in DOMAIN plan : Hazards(plan[k], op) THEN "HazardConflict"
    ELSE "Planned"

(* plan_operations: accepted[n] is the plan after the first n operations,  *)
(* each carrying its handle, the position in the batch.                    *)
PlanOperations(queue, dirty) ==
    LET candidate(n) == [id |-> queue[n].id, kind |-> queue[n].kind, handle |-> n,
                         chunks |-> Expand(queue[n].kind, dirty)]
        accepted[n \in 0..Len(queue)] ==
            IF n = 0 THEN <<>>
            ELSE IF Verdict(accepted[n - 1], candidate(n)) = "Planned"
                 THEN Append(accepted[n - 1], candidate(n))
                 ELSE accepted[n - 1]
    IN  [plan |-> accepted[Len(queue)],
         verdicts |-> [n \in 1..Len(queue) |-> Verdict(accepted[n - 1], candidate(n))]]

Mutating(t) == Policy[t] # "ReadOnly"

(* Mutant: only declared field hazards keep operations out of one phase. *)
MutConflictByFields(a, b) == Hazards(a, b)

(* parallel_phase_conflict *)
PhaseConflict(a, b) ==
    /\ a.chunks \intersect b.chunks # {}
    /\ Mutating(a.kind) \/ Mutating(b.kind) \/ HazardMask(a.kind, b.kind) # {}

(* plan_parallel_execution_phases: the phase each planned operation is in. *)
(* An operation opens a new phase when it conflicts with the open one.     *)
PhaseOf(plan) ==
    LET phase[n \in 1..Len(plan)] ==
            IF n = 1 THEN 1
            ELSE IF \E k \in 1..(n - 1) : /\ phase[k] = phase[n - 1]
                                          /\ PhaseConflict(plan[k], plan[n])
                 THEN phase[n - 1] + 1
                 ELSE phase[n - 1]
    IN  phase
=============================================================================
