--------------------------- MODULE ResumableQueue ---------------------------
(***************************************************************************)
(* ops/async_work.h: ResumableWorkQueue, a cooperative queue of            *)
(* continuations behind generation-stamped tickets.  advance() walks the   *)
(* slots in submission order and invokes each pending continuation with    *)
(* what is left of one item budget; a continuation reports its progress,   *)
(* settles its slot, over-reports, or throws out of the pass.  Clients     *)
(* cancel, supersede, fail, outdate and retire tickets between passes.     *)
(*                                                                         *)
(* Results' values and required versions are data and left out.  Failed,   *)
(* Cancelled and Superseded differ in name alone and are one state.  The   *)
(* queue has its flow accountant attached.  Reentrant mutation ends the process  *)
(* (fail_fast), so a pass excludes every other operation.                  *)
(***************************************************************************)
EXTENDS FlowAccounting, FiniteSets, Sequences

CONSTANTS MaxSlots,       \* bound: slots per generation
          MaxGeneration,  \* bound: no clear() past this generation
          MaxSubmissions, \* bound: submissions
          MaxTick,        \* bound: last observed tick
          MaxReplies,     \* a continuation settles or is settled after at
                          \* most this many further Pending replies and throws
          Budgets,        \* max_items values given to advance()
          Versions        \* AsyncVersion values

ASSUME QueueAssumption ==
    /\ MaxSlots \in Nat /\ MaxGeneration \in Nat \ {0} /\ MaxSubmissions \in Nat
    /\ MaxTick \in Nat /\ MaxReplies \in Nat
    /\ Budgets \subseteq Nat /\ Versions # {}

VARIABLES
    slots,       \* Seq of slots; id is a ghost, the offer's number
    generation,
    flow,        \* the attached FlowAccounting
    pass,        \* the running advance(), if any
    issued       \* history: the tickets clients hold, with the offer's number

queue_vars == <<slots, generation, flow, pass, issued>>

Settled == {"immediate", "ready", "negative", "stale"}
Slot == [id : Nat, state : {"pending"} \cup Settled, version : Versions,
         submitted : Nat, replies : 0 .. MaxReplies]
Ticket == [index : Nat, generation : Nat, id : Nat]
Pass == [cursor : Nat, remaining : Nat, invocations : Nat]

Idle == [cursor |-> 0, remaining |-> 0, invocations |-> 0]

MutAnyGeneration(t) == t.index \in DOMAIN slots

\* find(): the slot a ticket names, if it still names one
Resolves(t) == t.generation = generation /\ t.index \in DOMAIN slots

IsPending(i) == slots[i].state = "pending"

QueueTypeOK ==
    /\ slots \in Seq(Slot) /\ Len(slots) <= MaxSlots
    /\ generation \in 1 .. MaxGeneration
    /\ flow \in FlowRecord
    /\ pass \in Pass
    /\ issued \subseteq Ticket

QueueInit ==
    /\ slots = <<>> /\ generation = 1
    /\ flow = NoFlow /\ pass = Idle
    /\ issued = {}

-----------------------------------------------------------------------------
AnyVersion == CHOOSE v \in Versions : TRUE

Push(slot) ==
    /\ pass = Idle
    /\ Len(slots) < MaxSlots /\ flow.offered < MaxSubmissions
    /\ slots' = Append(slots, slot)
    /\ issued' = issued \cup {[index |-> Len(slots) + 1,
                               generation |-> generation, id |-> slot.id]}
    /\ UNCHANGED <<generation, pass>>

Offered == [flow EXCEPT !.offered = @ + 1]

Submit(replies) ==
    /\ Push([id |-> flow.offered, state |-> "pending", version |-> AnyVersion,
             submitted |-> flow.clock, replies |-> replies])
    /\ flow' = RecordAdmitted(Offered)

\* Admitted and completed at once, never outstanding.
SubmitImmediate(v) ==
    /\ Push([id |-> flow.offered, state |-> "immediate", version |-> v,
             submitted |-> 0, replies |-> 0])
    /\ flow' = AddTo([Offered EXCEPT !.admitted = @ + 1], "completed")

-----------------------------------------------------------------------------
BucketOf(state) == IF state = "ready" THEN "completed" ELSE state

MutStaysOutstanding(f, i, state) == AddTo(f, BucketOf(state))

\* account_terminal: one bucket, and out of the outstanding set
AccountTerminal(f, i, state) ==
    RecordLeft(AddTo(f, BucketOf(state)), slots[i].submitted)

\* The next slot the pass invokes: the first pending one at or past the cursor.
Upcoming ==
    {i \in DOMAIN slots : i >= pass.cursor /\ IsPending(i)
        /\ \A j \in DOMAIN slots : pass.cursor <= j /\ j < i => ~IsPending(j)}

MutSkipsFirstSlot(budget) ==
    /\ pass = Idle
    /\ \E i \in DOMAIN slots : IsPending(i)
    /\ pass' = [cursor |-> 2, remaining |-> budget, invocations |-> budget]
    /\ UNCHANGED <<slots, generation, flow, issued>>

\* advance().  A pass over no pending slot changes nothing.
BeginAdvance(budget) ==
    /\ pass = Idle
    /\ \E i \in DOMAIN slots : IsPending(i)
    /\ pass' = [cursor |-> 1, remaining |-> budget, invocations |-> budget]
    /\ UNCHANGED <<slots, generation, flow, issued>>

CanInvoke == pass.cursor # 0 /\ pass.remaining > 0 /\ pass.invocations > 0

\* The pass after the callback in slot i consumed `items`.
PassAfter(i, items) ==
    [cursor |-> i + 1, remaining |-> pass.remaining - items,
     invocations |-> pass.invocations - 1]

\* A continuation over-reports its items: its slot fails, nothing is charged.
OverReport(i) ==
    /\ CanInvoke
    /\ slots' = [slots EXCEPT ![i].state = "negative"]
    /\ flow' = AccountTerminal(flow, i, "negative")
    /\ pass' = PassAfter(i, 0)
    /\ UNCHANGED <<generation, issued>>

\* It reports Pending: the slot keeps its place and is retried next pass.
StepPending(i, items, v) ==
    /\ CanInvoke /\ items <= pass.remaining /\ slots[i].replies > 0
    /\ slots' = [slots EXCEPT ![i].version = v, ![i].replies = @ - 1]
    /\ pass' = PassAfter(i, items)
    /\ UNCHANGED <<generation, flow, issued>>

\* It reports Ready, Failed or Stale.
StepSettles(i, items, v, state) ==
    /\ CanInvoke /\ items <= pass.remaining
    /\ slots' = [slots EXCEPT ![i].version = v, ![i].state = state]
    /\ flow' = AccountTerminal(flow, i, state)
    /\ pass' = PassAfter(i, items)
    /\ UNCHANGED <<generation, issued>>

\* It throws: the guard ends the pass, the slot stays Pending.
StepThrows(i) ==
    /\ CanInvoke /\ slots[i].replies > 0
    /\ slots' = [slots EXCEPT ![i].replies = @ - 1]
    /\ pass' = Idle
    /\ UNCHANGED <<generation, flow, issued>>

EndAdvance ==
    /\ pass.cursor # 0
    /\ ~CanInvoke \/ Upcoming = {}
    /\ pass' = Idle
    /\ UNCHANGED <<slots, generation, flow, issued>>

\* A continuation returns, reporting one of the given versions.
StepReturns(versions) == \E i \in Upcoming :
    \/ OverReport(i)
    \/ \E items \in 0 .. pass.remaining, v \in versions :
         \/ StepPending(i, items, v)
         \/ \E state \in {"ready", "negative", "stale"} :
              StepSettles(i, items, v, state)

Step == StepReturns(Versions) \/ \E i \in Upcoming : StepThrows(i)

-----------------------------------------------------------------------------
\* set_terminal: cancel, supersede, fail and mark_stale
SetTerminal(t, state) ==
    /\ pass = Idle
    /\ Resolves(t) /\ IsPending(t.index)
    /\ slots' = [slots EXCEPT ![t.index].state = state]
    /\ flow' = AccountTerminal(flow, t.index, state)
    /\ UNCHANGED <<generation, pass, issued>>

\* mark_stale_if_version: moves a completed item to the stale bucket.
MarkStaleIfVersion(t, current) ==
    /\ pass = Idle
    /\ Resolves(t) /\ slots[t.index].state \in {"immediate", "ready"}
    /\ slots[t.index].version # current
    /\ slots' = [slots EXCEPT ![t.index].state = "stale"]
    /\ flow' = AddTo([flow EXCEPT !.terminal["completed"] =
                                     IF @ > 0 THEN @ - 1 ELSE @], "stale")
    /\ UNCHANGED <<generation, pass, issued>>

PendingSlots == {i \in DOMAIN slots : IsPending(i)}

\* How long the pending slots have been in the queue, together.
Waited ==
    LET upTo[n \in 0 .. Len(slots)] ==
          IF n = 0 THEN 0
          ELSE upTo[n - 1] + IF IsPending(n) THEN flow.clock - slots[n].submitted
                                             ELSE 0
    IN  upTo[Len(slots)]

\* clear() drops every pending slot and retires every ticket.
DroppedAll ==
    LET n == Cardinality(PendingSlots)
    IN  [flow EXCEPT !.terminal["dropped"] = @ + n,
                     !.outstanding = IF @ > n THEN @ - n ELSE 0,
                     !.residence = @ + Waited]

Clear ==
    /\ pass = Idle
    /\ generation < MaxGeneration
    /\ slots' = <<>>
    /\ generation' = generation + 1
    /\ flow' = DroppedAll
    /\ UNCHANGED <<pass, issued>>

ObserveFlowTick ==
    /\ pass = Idle
    /\ flow.clock < MaxTick
    /\ \E tick \in flow.clock + 1 .. MaxTick : flow' = ObserveTick(flow, tick)
    /\ UNCHANGED <<slots, generation, pass, issued>>

QueueNext ==
    \/ \E r \in 0 .. MaxReplies : Submit(r)
    \/ \E v \in Versions : SubmitImmediate(v)
    \/ \E b \in Budgets : BeginAdvance(b)
    \/ Step \/ EndAdvance
    \/ \E t \in issued :
         \/ \E s \in {"negative", "stale"} : SetTerminal(t, s)
         \/ \E v \in Versions : MarkStaleIfVersion(t, v)
    \/ Clear \/ ObserveFlowTick

QueueSpec == QueueInit /\ [][QueueNext]_queue_vars

-----------------------------------------------------------------------------
\* Little's law, exactly: the inventory weighted tick by tick equals the time
\* the items, gone or waiting, have spent in the queue.  (observe_tick and
\* close_outstanding, which accumulate the two sides independently)
LittlesLaw == flow.inventory = flow.residence + Waited

\* The accountant's two conservation identities and its outstanding count:
\* every offer and every admitted item is in exactly one place, though callbacks
\* throw, over-report and go stale after completing. (FlowCounters,
\* account_terminal, mark_stale_if_version, clear)
FlowConserved ==
    /\ AdmissionIdentity(flow) /\ RetentionIdentity(flow)
    /\ flow.outstanding = Cardinality(PendingSlots)
    /\ QueueTypeOK /\ LittlesLaw

\* A ticket's result settles once, and a retired ticket answers for nothing,
\* whatever was submitted to its index since. (find, set_terminal, clear)
Outcome(s) ==
    IF \A t \in issued : t.id # s THEN "unissued"
    ELSE LET t == CHOOSE t \in issued : t.id = s
         IN  IF Resolves(t) THEN slots[t.index].state ELSE "retired"

Lifecycle == INSTANCE ResultLifecycle WITH
    Submissions <- 0 .. MaxSubmissions - 1,
    outcome <- [s \in 0 .. MaxSubmissions - 1 |-> Outcome(s)]
ImplementsLifecycle == Lifecycle!Spec
=============================================================================
