------------------------------ MODULE AutoExec ------------------------------
(***************************************************************************)
(* The queued-operation pipeline of sim/auto_exec.h over one always        *)
(* resident world: a run plans the caller's batch, executes the plan phase *)
(* by phase on the serial executor or the worker pool, publishes the dirty *)
(* records of each phase, and drains the result channel through a hook     *)
(* that may enqueue follow-up operations. Kernels may throw.               *)
(*                                                                         *)
(* A chunk's contents are the sequence of operations that wrote it, so     *)
(* that lost and reordered updates are visible. A kernel visit reads the   *)
(* chunk, then writes it, and other threads run in between. A phase on the *)
(* pool starts its operations as the executor contract allows (module      *)
(* PhaseContract, which WorkerPool implements).                            *)
(***************************************************************************)
EXTENDS QueuedPlan, FiniteSets, FiniteSetsExt

CONSTANTS
    TaskPolicy,     \* the Policy parameter of AutoExecTask
    Pool,           \* use_pool was called
    Threshold,      \* parallel_threshold_
    MaxIssued,      \* bound: operations enqueued
    MaxThrows       \* bound: kernels that throw

ASSUME AutoExecAssumption ==
    /\ TaskPolicy \in {"ReadOnly", "UniquePerChunk"}
    /\ Threshold \in Nat \ {0} /\ MaxIssued \in Nat /\ MaxThrows \in Nat

VARIABLES
    queue,      \* ops_: the caller's OperationBatch
    issued,     \* operations enqueued so far; the newest one's id
    stage,      \* "idle", "phases" or "drain"
    plan, phase, \* the accepted operations and the phase being executed
    exec,       \* exec[k]: progress of plan[k]
    dirty,      \* dirty[c]: the dirty bits of a chunk of the world
    world,      \* world[c]: the operations that wrote the chunk, in order
    slots,      \* channel_: slots[h] = [state, drained]
    throws,
    settled,    \* history: what became of each operation
    run_ids,    \* history: the operations of the batch being run, by handle
    world_before, \* history: the world when the run began
    unseen,     \* history: bits written and not yet cleared by a consumer
    aborted     \* history: operations that were in a run that threw

batch == <<queue, issued>>
run == <<stage, plan, phase, exec, slots, throws>>
chunk_state == <<dirty, world>>
history == <<settled, run_ids, world_before, unseen, aborted>>
exec_vars == <<batch, run, chunk_state, history>>

Ids == 1..MaxIssued
NotStarted == [state |-> "todo", left |-> {}, inside |-> FALSE, seen |-> <<>>, marked |-> {}]
Slot(s) == [state |-> s, drained |-> FALSE]

ExecInit ==
    /\ queue = <<>> /\ issued = 0
    /\ stage = "idle" /\ plan = <<>> /\ phase = 0 /\ exec = <<>> /\ slots = <<>>
    /\ throws = 0
    /\ dirty = [c \in ChunkKeys |-> {}]
    /\ world = [c \in ChunkKeys |-> <<>>]
    /\ settled = [i \in Ids |-> "none"]
    /\ run_ids = <<>>
    /\ world_before = world
    /\ unseen = [c \in ChunkKeys |-> {}]
    /\ aborted = {}

Batch(kinds) == [n \in DOMAIN kinds |-> [id |-> issued + n, kind |-> kinds[n]]]
Queued(q) == {q[n].id : n \in DOMAIN q}
Settle(ids, how) == [i \in Ids |-> IF i \in ids THEN how ELSE settled[i]]

(* The application between runs: it enqueues, discards its batch, or has   *)
(* handled the dirty chunks.                                               *)
Enqueue(t) ==
    /\ stage = "idle" /\ issued < MaxIssued
    /\ queue' = queue \o Batch(<<t>>)
    /\ issued' = issued + 1
    /\ settled' = Settle({issued + 1}, "open")
    /\ UNCHANGED <<run, chunk_state, run_ids, world_before, unseen, aborted>>

ClearQueue ==
    /\ stage = "idle" /\ queue # <<>>
    /\ queue' = <<>>
    /\ settled' = Settle(Queued(queue), "discarded")
    /\ UNCHANGED <<issued, run, chunk_state, run_ids, world_before, unseen, aborted>>

ClearDirtyChunks ==
    /\ stage = "idle"
    /\ \E c \in ChunkKeys : dirty[c] # {}
    /\ dirty' = [c \in ChunkKeys |-> {}]
    /\ unseen' = [c \in ChunkKeys |-> {}]
    /\ UNCHANGED <<batch, run, world, settled, run_ids, world_before, aborted>>

(* A queue with an operation of another policy is dropped unexecuted. *)
Mismatched == \E n \in DOMAIN queue : Policy[queue[n].kind] # TaskPolicy

DropMismatched ==
    /\ stage = "idle" /\ queue # <<>>
    /\ Mismatched
    /\ queue' = <<>>
    /\ settled' = Settle(Queued(queue), "dropped")
    /\ UNCHANGED <<issued, run, chunk_state, run_ids, world_before, unseen, aborted>>

InPhase(p, n) == {k \in DOMAIN p : PhaseOf(p)[k] = n}
LastPhase(p) == IF p = <<>> THEN 0 ELSE PhaseOf(p)[Len(p)]

(* The slots of a phase's operations become Pending before any of them     *)
(* runs; a slot that does not exist yet is created along the way.          *)
Prepared(s, p, n) ==
    LET handles == {p[k].handle : k \in InPhase(p, n)}
        size == Max({Len(s)} \union handles)
    IN  [h \in 1..size |-> IF h \in handles THEN Slot("Pending")
                           ELSE IF h \in DOMAIN s THEN s[h] ELSE Slot("Unbound")]
Rejections(verdicts) ==
    LET failed == {n \in DOMAIN verdicts : verdicts[n] # "Planned"}
    IN  [h \in 1..Max(failed \union {0}) |->
            Slot(IF h \in failed THEN "Failed" ELSE "Unbound")]

BeginRun ==
    /\ stage = "idle" /\ queue # <<>>
    /\ ~Mismatched
    /\ LET planned == PlanOperations(queue, dirty)
           rejected == Rejections(planned.verdicts)
       IN  /\ plan' = planned.plan
           /\ exec' = [k \in DOMAIN planned.plan |-> NotStarted]
           /\ run_ids' = [n \in DOMAIN queue |-> queue[n].id]
           /\ world_before' = world
           /\ IF planned.plan = <<>>
              THEN /\ stage' = "drain" /\ phase' = 0
                   /\ slots' = rejected
                   /\ queue' = <<>>
              ELSE /\ stage' = "phases" /\ phase' = 1
                   /\ slots' = Prepared(rejected, planned.plan, 1)
                   /\ UNCHANGED queue
    /\ UNCHANGED <<issued, throws, chunk_state, settled, unseen, aborted>>

Members == InPhase(plan, phase)
OnPool == Pool /\ Cardinality(Members) >= Threshold
Running == {k \in Members : exec[k].state = "running"}
Threw == {k \in Members : exec[k].state = "threw"}

(* On the pool an operation of the phase may start at any time; serially   *)
(* it starts when those before it have executed.                           *)
MayStart(k) == OnPool \/ \A j \in Members : j < k => exec[j].state = "Executed"

StartOperation(k) ==
    /\ stage = "phases" /\ k \in Members
    /\ exec[k].state = "todo"
    /\ MayStart(k)
    /\ exec' = [exec EXCEPT ![k].state = "running", ![k].left = plan[k].chunks]
    /\ UNCHANGED <<batch, stage, plan, phase, slots, throws, chunk_state, history>>

(* The next chunk of an operation: its dirty record is written before the  *)
(* kernel is called on it.                                                 *)
EnterChunk(k) ==
    /\ stage = "phases" /\ k \in Running
    /\ exec[k].left # {} /\ ~exec[k].inside
    /\ LET c == Min(exec[k].left)
       IN  /\ exec' = [exec EXCEPT ![k].inside = TRUE, ![k].seen = world[c],
                                   ![k].marked = @ \union {c}]
           /\ unseen' = [unseen EXCEPT ![c] = @ \union Dirties[plan[k].kind]]
    /\ UNCHANGED <<batch, stage, plan, phase, slots, throws, chunk_state,
                   settled, run_ids, world_before, aborted>>

Written(k, c) == IF Mutating(plan[k].kind)
                 THEN [world EXCEPT ![c] = Append(exec[k].seen, plan[k].id)]
                 ELSE world

LeaveChunk(k) ==
    /\ stage = "phases" /\ k \in Running
    /\ exec[k].inside
    /\ LET c == Min(exec[k].left)
       IN  /\ world' = Written(k, c)
           /\ exec' = [exec EXCEPT ![k].inside = FALSE, ![k].seen = <<>>,
                                   ![k].left = @ \ {c}]
    /\ UNCHANGED <<batch, stage, plan, phase, slots, throws, dirty, history>>

(* The kernel throws, before or after it has written the chunk. *)
ThrowInChunk(k) ==
    /\ stage = "phases" /\ k \in Running
    /\ exec[k].inside
    /\ throws < MaxThrows
    /\ throws' = throws + 1
    /\ world' \in {world, Written(k, Min(exec[k].left))}
    /\ exec' = [exec EXCEPT ![k].state = "threw", ![k].inside = FALSE, ![k].seen = <<>>]
    /\ UNCHANGED <<batch, stage, plan, phase, slots, dirty, history>>

(* Mutant: results are stored by position in the plan, not by handle. *)
MutSlotByPosition(k) == k

SlotOf(k) == plan[k].handle

(* The executing thread stamps the completion of its own slot. *)
FinishOperation(k) ==
    /\ stage = "phases" /\ k \in Running
    /\ exec[k].left = {}
    /\ exec' = [exec EXCEPT ![k].state = "Executed"]
    /\ slots' = [slots EXCEPT ![SlotOf(k)].state = "Ready"]
    /\ UNCHANGED <<batch, stage, plan, phase, throws, chunk_state, history>>

(* merge_planned_dirty: the records of the phase's partitions reach the    *)
(* world, whether the phase completed or threw.                            *)
Merged == [c \in ChunkKeys |->
              dirty[c] \union UNION {Dirties[plan[k].kind] :
                                        k \in {j \in Members : c \in exec[j].marked}}]

(* The queue is cleared after the last phase, before the drain. *)
EndPhase ==
    /\ stage = "phases"
    /\ \A k \in Members : exec[k].state = "Executed"
    /\ dirty' = Merged
    /\ IF phase < LastPhase(plan)
       THEN /\ phase' = phase + 1
            /\ slots' = Prepared(slots, plan, phase + 1)
            /\ UNCHANGED <<queue, stage>>
       ELSE /\ stage' = "drain"
            /\ queue' = <<>>
            /\ UNCHANGED <<phase, slots>>
    /\ UNCHANGED <<issued, plan, exec, throws, world, history>>

(* Mutant: unwinding does not publish the started operations' records. *)
MutUnwindDropsDirty == dirty

DirtyAfterThrow == Merged

(* A kernel threw: every started operation has been joined, its records    *)
(* are published, the channel is cleared and the exception leaves the      *)
(* task. The queue stays for the caller.                                   *)
AbortRun ==
    /\ stage = "phases"
    /\ Running = {} /\ Threw # {}
    /\ dirty' = DirtyAfterThrow
    /\ slots' = <<>>
    /\ stage' = "idle" /\ plan' = <<>> /\ phase' = 0 /\ exec' = <<>>
    /\ aborted' = aborted \union Queued(queue)
    /\ UNCHANGED <<batch, throws, world, settled, run_ids, world_before, unseen>>

(* The drain visits completed slots in handle order; the hook may enqueue  *)
(* a follow-up into the batch, which the run has already cleared.          *)
Undrained == {h \in DOMAIN slots : ~slots[h].drained /\ slots[h].state \in {"Ready", "Failed"}}

Deliver(followups) ==
    /\ stage = "drain" /\ Undrained # {}
    /\ LET h == Min(Undrained)
           answered == Settle({run_ids[h]}, slots[h].state)
       IN  /\ slots' = [slots EXCEPT ![h].drained = TRUE]
           /\ queue' = queue \o Batch(followups)
           /\ issued' = issued + Len(followups)
           /\ issued' <= MaxIssued
           /\ settled' = [i \in Ids |-> IF i \in (issued + 1)..issued' THEN "open"
                                                                      ELSE answered[i]]
    /\ UNCHANGED <<stage, plan, phase, exec, throws, chunk_state,
                   run_ids, world_before, unseen, aborted>>

(* Mutant: the batch is cleared again after the drain. *)
MutClearsAfterDrain == <<>>

QueueAfterDrain == queue

EndRun ==
    /\ stage = "drain" /\ Undrained = {}
    /\ queue' = QueueAfterDrain
    /\ slots' = <<>>
    /\ stage' = "idle" /\ plan' = <<>> /\ phase' = 0 /\ exec' = <<>>
    /\ UNCHANGED <<issued, throws, chunk_state, history>>

ExecNext ==
    \/ \E t \in Templates : Enqueue(t)
    \/ ClearQueue \/ ClearDirtyChunks \/ DropMismatched \/ BeginRun
    \/ \E k \in DOMAIN plan :
          \/ StartOperation(k) \/ EnterChunk(k) \/ LeaveChunk(k)
          \/ ThrowInChunk(k) \/ FinishOperation(k)
    \/ EndPhase \/ AbortRun
    \/ \E followups \in {<<>>} \union {<<t>> : t \in Templates} : Deliver(followups)
    \/ EndRun

ExecSpec == ExecInit /\ [][ExecNext]_exec_vars

-----------------------------------------------------------------------------
(* Types; a plan only ever names chunks of the world. *)
Operations == [id : Ids, kind : Templates]
ExecTypeOK ==
    /\ \A n \in DOMAIN queue : queue[n] \in Operations
    /\ issued \in 0..MaxIssued /\ throws \in 0..MaxThrows
    /\ stage \in {"idle", "phases", "drain"}
    /\ \A k \in DOMAIN plan : /\ plan[k].id \in Ids /\ plan[k].kind \in Templates
                              /\ plan[k].chunks \subseteq ChunkKeys
                              /\ plan[k].handle \in DOMAIN run_ids
    /\ DOMAIN exec = DOMAIN plan
    /\ \A k \in DOMAIN exec : /\ exec[k].state \in {"todo", "running", "Executed", "threw"}
                              /\ exec[k].left \subseteq plan[k].chunks
                              /\ exec[k].marked \subseteq plan[k].chunks
    /\ \A h \in DOMAIN slots : /\ slots[h].state \in {"Unbound", "Pending", "Ready", "Failed"}
                               /\ slots[h].drained \in BOOLEAN
    /\ dirty \in [ChunkKeys -> SUBSET DirtyBits] /\ unseen \in [ChunkKeys -> SUBSET DirtyBits]
    /\ \A c \in ChunkKeys : \A n \in DOMAIN world[c] : world[c][n] \in Ids
    /\ aborted \subseteq Ids

(* Serially(p, before)[n]: the chunks after the first n operations of a    *)
(* plan, executed one after the other in the order of the batch.           *)
WritesTo(p, n, c) == Mutating(p[n].kind) /\ c \in p[n].chunks
Serially(p, before) ==
    LET after[n \in 0..Len(p)] ==
            IF n = 0 THEN before
            ELSE [c \in ChunkKeys |-> IF WritesTo(p, n, c)
                                   THEN Append(after[n - 1][c], p[n].id)
                                   ELSE after[n - 1][c]]
    IN  after

(* Serial and pool execution agree (auto_exec.h:58-62): when the phases    *)
(* are done, the chunks hold what serial execution of the accepted         *)
(* operations leaves in them, whatever ran beside what.                    *)
SerialEquivalence ==
    stage = "drain" => world = Serially(plan, world_before)[Len(plan)]

(* No write goes unnoticed (auto_exec.h:176-181, :189-191): the dirty bits *)
(* of every chunk a kernel was started on, and no consumer has cleared     *)
(* since, are set in the world or recorded in a partition of the phase     *)
(* being executed, also after a run that threw.                            *)
Recorded(c) == UNION {Dirties[plan[k].kind] : k \in {j \in Members : c \in exec[j].marked}}
WritesLeaveDirtyMarks ==
    \A c \in ChunkKeys :
        unseen[c] \subseteq dirty[c] \union (IF stage = "phases" THEN Recorded(c) ELSE {})

(* No operation is lost or answered twice (auto_exec.h:231-242,            *)
(* result_channel.h:145-153): an operation is unsettled exactly while it   *)
(* is in the batch, or has a completion the drain has not reached; what    *)
(* the hook enqueues is in the batch of the next run.                      *)
NoOperationLost ==
    /\ ExecTypeOK
    /\ {i \in Ids : settled[i] = "open"} =
         Queued(queue) \union (IF stage = "drain" THEN {run_ids[h] : h \in Undrained} ELSE {})

(* An answer is true (result_channel.h:31-36): a slot is Ready only for an *)
(* accepted operation that has written each of its chunks exactly once,    *)
(* and an operation reported rejected, or dropped with its batch, has      *)
(* written nothing; operations that were in a run that threw and stayed in *)
(* the batch are excepted.                                                 *)
TimesWritten(i, c) == Cardinality({n \in DOMAIN world[c] : world[c][n] = i})
Applied(k) == Mutating(plan[k].kind) /\ plan[k].id \notin aborted =>
                  \A c \in plan[k].chunks : TimesWritten(plan[k].id, c) = 1
AnswersAreTrue ==
    /\ stage = "drain" =>
           \A h \in DOMAIN slots : slots[h].state = "Ready" =>
               \E k \in DOMAIN plan : plan[k].handle = h /\ Applied(k)
    /\ \A i \in Ids \ aborted : settled[i] \in {"Failed", "dropped", "discarded"} =>
           \A c \in ChunkKeys : TimesWritten(i, c) = 0
=============================================================================
