----------------------- MODULE RegisteredMaintenance ------------------------
(***************************************************************************)
(* RegisteredScheduler of experimental/registered_maintenance.h (the type  *)
(* behind tess::maintenance::RegisteredScheduler) over the four backends   *)
(* of experimental/maintenance.h.  Tasks register in fixed slots during    *)
(* setup; then producer threads offer them by handle while one drain at a  *)
(* time runs them; a task that runs may offer others.  A slot is released  *)
(* only on evidence that nothing is retained.                              *)
(*                                                                         *)
(* Between two steps lies what the code does under one lock or with one    *)
(* atomic.  Abstracted: the pointer ring and the hash tables are sequences *)
(* and membership in them; the dirty words are one, a set of slots; metrics *)
(* and flow accounts; calls that end the process are not made.             *)
(***************************************************************************)
EXTENDS Integers, FiniteSets, SequencesExt

CONSTANTS
  Capacity,        \* slots of the registry
  QueueCapacity,   \* entries of a queued backend
  Kinds,           \* the backends considered
  Tasks,           \* caller-owned tasks
  Producers,       \* threads that offer work
  DrainBudgets,    \* budgets given to run_some
  MaxHandles,      \* bound: handles issued
  MaxOffers        \* bound: accepted offers before the last ones begin

ASSUME MaintenanceAssumption ==
  /\ Capacity \in Nat \ {0} /\ QueueCapacity \in Nat \ {0}
  /\ Kinds \subseteq {"fifo", "coalescing", "dirty", "immediate"}
  /\ DrainBudgets \subseteq Nat /\ "none" \notin Tasks /\ MaxHandles \in Nat /\ MaxOffers \in Nat

VARIABLES
  slots,        \* slots_: the task registered in each, and its generation
  handles,      \* history: the handles issued, each with its task
  sealed,       \* sealed_
  backend,      \* its kind, the queued entries, the dirty word, what a drain claimed of it
  stack,        \* the runs in progress, of the thread that runs tasks
  calls,        \* where each producer is in try_schedule
  in_flight,    \* in_flight_schedules_
  activity,     \* activity_epoch_
  idle,         \* idle_epoch_, as a set of at most one epoch
  drain,        \* the drain in progress and what it has read
  owed          \* history: slots with an accepted offer and no run since

scheduler_vars == <<slots, handles, sealed, backend, stack, calls, in_flight, activity, idle, drain>>
maintenance_vars == <<scheduler_vars, owed>>

Slots == 1 .. Capacity
NoTask == "none"
Unbounded == -1                     \* the budget of flush
Away == [at |-> "away", slot |-> 0, result |-> "none"]
NoDrain == [at |-> "none", activity |-> 0, quiet |-> FALSE, budget |-> 0, completed |-> TRUE, left |-> FALSE]

Synchronous == backend.kind = "immediate"
Queued == backend.queue # <<>> \/ backend.word # {}
Pending == ToSet(backend.queue) \cup backend.word \cup backend.claimed
Framed == {stack[i].slot : i \in {j \in DOMAIN stack : stack[j].repeats > 0}}
Running == {stack[i].slot : i \in {j \in DOMAIN stack : stack[j].active}}
Live == {s \in Slots : slots[s].target # NoTask}

HasPending == IF Synchronous THEN stack # <<>> ELSE Queued

(***************************************************************************)
(* The backends.                                                           *)
(***************************************************************************)
Coalesces(b, s) == b.kind = "coalescing" /\ s \in ToSet(b.queue)
Accepts(b, s) == b.kind = "dirty" \/ Coalesces(b, s) \/ Len(b.queue) < QueueCapacity

(* Bits are drained in registration order, queues in the order offered.    *)
Offered(b, s) ==
  IF b.kind = "dirty" THEN [b EXCEPT !.word = @ \cup {s}]
  ELSE IF ~Accepts(b, s) \/ Coalesces(b, s) THEN b
  ELSE [b EXCEPT !.queue = Append(@, s)]

(* ImmediateScheduler: a slot that is running already runs again; another  *)
(* runs at once, above it.                                                 *)
Frame(s) == [slot |-> s, repeats |-> 1, active |-> FALSE, scheduled |-> FALSE]
FrameOf(s) == {i \in DOMAIN stack : stack[i].slot = s}
Requested(s) ==
  IF FrameOf(s) = {} THEN Append(stack, Frame(s))
  ELSE [i \in DOMAIN stack |-> IF i \in FrameOf(s) THEN [stack[i] EXCEPT !.repeats = @ + 1] ELSE stack[i]]

(* Mutant: the claimed rest of a word is dropped. *)
Dropped(b) == [b EXCEPT !.claimed = {}]
Released(b) == [b EXCEPT !.word = @ \cup b.claimed, !.claimed = {}]

(***************************************************************************)
(* Setup and release: exclusive of every other operation.                  *)
(***************************************************************************)
Exclusive == stack = <<>> /\ drain.at = "none" /\ \A p \in Producers : calls[p] = Away

MaintenanceInit ==
  /\ slots = [s \in Slots |-> [target |-> NoTask, generation |-> 1]]
  /\ handles = {} /\ sealed = FALSE
  /\ \E kind \in Kinds : backend = [kind |-> kind, queue |-> <<>>, word |-> {}, claimed |-> {}]
  /\ stack = <<>> /\ calls = [p \in Producers |-> Away]
  /\ in_flight = 0 /\ activity = 0 /\ idle = {} /\ drain = NoDrain
  /\ owed = {}

Resolves(h) == slots[h.slot].target # NoTask /\ slots[h.slot].generation = h.generation

FirstFree == {s \in Slots \ Live : \A r \in Slots \ Live : s <= r}
Registered(t) == \E s \in Live : slots[s].target = t

RegisterTask(t) ==
  /\ Exclusive /\ ~sealed
  /\ ~Registered(t)
  /\ Cardinality(handles) < MaxHandles
  /\ \E s \in FirstFree :
       /\ slots' = [slots EXCEPT ![s].target = t]
       /\ handles' = handles \cup {[slot |-> s, generation |-> slots[s].generation, task |-> t]}
  /\ UNCHANGED <<sealed, backend, stack, calls, in_flight, activity, idle, drain, owed>>

Seal ==
  /\ Exclusive /\ ~sealed
  /\ sealed' = TRUE
  /\ UNCHANGED <<slots, handles, backend, stack, calls, in_flight, activity, idle, drain, owed>>

MayRelease == sealed => activity \in idle /\ ~HasPending

TryRelease(h) ==
  /\ Exclusive
  /\ Resolves(h) /\ MayRelease
  /\ slots' = [slots EXCEPT ![h.slot] = [target |-> NoTask, generation |-> @.generation + 1]]
  /\ UNCHANGED <<handles, sealed, backend, stack, calls, in_flight, activity, idle, drain, owed>>

(***************************************************************************)
(* try_schedule, by a producer: count in, offer, invalidate, count out.    *)
(***************************************************************************)
Enter(p, h) ==
  /\ sealed /\ calls[p] = Away /\ Resolves(h)
  /\ in_flight' = in_flight + 1
  /\ calls' = [calls EXCEPT ![p] = [at |-> "entered", slot |-> h.slot, result |-> "none"]]
  /\ UNCHANGED <<slots, handles, sealed, backend, stack, activity, idle, drain, owed>>

(* The backend takes the offer or refuses it.  The synchronous one runs it *)
(* first, and returns when its frame has ended.                            *)
Offer(p) ==
  /\ calls[p].at = "entered"
  /\ LET s == calls[p].slot
     IN  IF Synchronous
         THEN /\ stack = <<>>
              /\ stack' = Requested(s) /\ owed' = owed \cup {s}
              /\ calls' = [calls EXCEPT ![p].at = "running"]
              /\ UNCHANGED backend
         ELSE /\ backend' = Offered(backend, s)
              /\ owed' = IF Accepts(backend, s) THEN owed \cup {s} ELSE owed
              /\ calls' = [calls EXCEPT ![p].at = "offered",
                             ![p].result = IF Accepts(backend, s) THEN "Accepted" ELSE "CapacityExhausted"]
              /\ UNCHANGED stack
  /\ UNCHANGED <<slots, handles, sealed, in_flight, activity, idle, drain>>

Invalidates(result) == result # "CapacityExhausted"

Count(p) ==
  /\ calls[p].at = "offered"
  /\ activity' = IF Invalidates(calls[p].result) THEN activity + 1 ELSE activity
  /\ calls' = [calls EXCEPT ![p].at = "counted"]
  /\ UNCHANGED <<slots, handles, sealed, backend, stack, in_flight, idle, drain, owed>>

Leave(p) ==
  /\ calls[p].at = "counted"
  /\ idle' = IF Invalidates(calls[p].result) THEN {} ELSE idle
  /\ in_flight' = in_flight - 1
  /\ calls' = [calls EXCEPT ![p] = Away]
  /\ UNCHANGED <<slots, handles, sealed, backend, stack, activity, drain, owed>>

(***************************************************************************)
(* run_some and flush: read, drain, read again, conclude.                  *)
(***************************************************************************)
BeginDrain(budget) ==
  /\ sealed /\ drain.at = "none"
  /\ idle' = {}
  /\ drain' = [NoDrain EXCEPT !.at = "counting", !.activity = activity, !.budget = budget]
  /\ UNCHANGED <<slots, handles, sealed, backend, stack, calls, in_flight, activity, owed>>

ReadInFlight ==
  /\ drain.at = "counting"
  /\ drain' = [drain EXCEPT !.at = "looking", !.quiet = in_flight = 0]
  /\ UNCHANGED <<slots, handles, sealed, backend, stack, calls, in_flight, activity, idle, owed>>

ReadPending ==
  /\ drain.at = "looking"
  /\ Synchronous => stack = <<>>
  /\ drain' = [drain EXCEPT !.at = IF Synchronous THEN "done" ELSE "draining",
                            !.quiet = @ /\ ~HasPending]
  /\ UNCHANGED <<slots, handles, sealed, backend, stack, calls, in_flight, activity, idle, owed>>

HasBudget == drain.budget # 0

(* The dirty word is claimed whole; what a budget leaves of it is restored. *)
Claim ==
  /\ drain.at = "draining" /\ stack = <<>>
  /\ backend.kind = "dirty" /\ backend.claimed = {} /\ backend.word # {} /\ HasBudget
  /\ backend' = [backend EXCEPT !.claimed = backend.word, !.word = {}]
  /\ UNCHANGED <<slots, handles, sealed, stack, calls, in_flight, activity, idle, drain, owed>>

NextToRun ==
  IF backend.kind = "dirty" THEN {s \in backend.claimed : \A r \in backend.claimed : s <= r}
  ELSE IF backend.queue = <<>> THEN {} ELSE {Head(backend.queue)}

Taken(s) ==
  IF backend.kind = "dirty" THEN [backend EXCEPT !.claimed = @ \ {s}]
  ELSE [backend EXCEPT !.queue = Tail(@)]

RunBegins(s) ==
  /\ drain.at = "draining" /\ stack = <<>> /\ HasBudget
  /\ s \in NextToRun
  /\ backend' = Taken(s)
  /\ stack' = <<[Frame(s) EXCEPT !.repeats = 0, !.active = TRUE]>>
  /\ owed' = owed \ {s}
  /\ UNCHANGED <<slots, handles, sealed, calls, in_flight, activity, idle, drain>>

DrainCompletes ==
  /\ drain.at = "draining" /\ stack = <<>>
  /\ ~HasBudget \/ (~Queued /\ backend.claimed = {})
  /\ backend' = Released(backend)
  /\ drain' = [drain EXCEPT !.at = "done"]
  /\ UNCHANGED <<slots, handles, sealed, stack, calls, in_flight, activity, idle, owed>>

ReadLeft ==
  /\ drain.at = "done"
  /\ Synchronous => stack = <<>>
  /\ drain' = [drain EXCEPT !.at = "closing", !.left = HasPending]
  /\ UNCHANGED <<slots, handles, sealed, backend, stack, calls, in_flight, activity, idle, owed>>

(* Mutant: offers that came and went since the drain began are not seen. *)
QuietByPending == drain.quiet /\ ~drain.left /\ in_flight = 0
ConcludesIdle ==
  drain.quiet /\ ~drain.left /\ in_flight = 0 /\ activity = drain.activity

DrainResult ==
  IF ~drain.completed THEN "Stalled"
  ELSE IF drain.left THEN "BudgetExhausted"
  ELSE IF ConcludesIdle THEN "Idle" ELSE "Drained"

Conclude ==
  /\ drain.at = "closing"
  /\ idle' = IF DrainResult = "Idle" THEN {activity} ELSE idle
  /\ drain' = NoDrain
  /\ UNCHANGED <<slots, handles, sealed, backend, stack, calls, in_flight, activity, owed>>

(***************************************************************************)
(* A task that runs: on the drain's thread, or on that of a producer.      *)
(***************************************************************************)
Top == Last(stack)
WithTop(frame) == [stack EXCEPT ![Len(stack)] = frame]
Underway == stack # <<>> /\ Top.active
Caller == {p \in Producers : calls[p].at = "running"}

(* The synchronous backend enters the next repeat of its topmost frame.    *)
FrameRuns ==
  /\ Synchronous /\ stack # <<>> /\ ~Top.active
  /\ stack' = WithTop([Top EXCEPT !.repeats = @ - 1, !.active = TRUE])
  /\ owed' = owed \ {Top.slot}
  /\ UNCHANGED <<slots, handles, sealed, backend, calls, in_flight, activity, idle, drain>>

(* It offers a slot of its own scheduler.  A frame pushed for it counts as *)
(* activity when it returns.                                               *)
NestedOffer(s) ==
  /\ Underway
  /\ IF Synchronous
     THEN /\ stack' = Requested(s) /\ owed' = owed \cup {s}
          /\ activity' = IF FrameOf(s) = {} THEN activity ELSE activity + 1
          /\ idle' = IF FrameOf(s) = {} THEN idle ELSE {}
          /\ UNCHANGED backend
     ELSE /\ backend' = Offered(backend, s)
          /\ owed' = IF Accepts(backend, s) THEN owed \cup {s} ELSE owed
          /\ activity' = IF Accepts(backend, s) THEN activity + 1 ELSE activity
          /\ idle' = IF Accepts(backend, s) THEN {} ELSE idle
          /\ stack' = WithTop([Top EXCEPT !.scheduled = @ \/ Accepts(backend, s)])
  /\ UNCHANGED <<slots, handles, sealed, calls, in_flight, drain>>

(* A drained task ends: without progress behind it, work it has scheduled  *)
(* ends the drain as well.                                                 *)
Stalls(units) == units = 0 /\ Top.scheduled

DrainedEnds(units) ==
  /\ ~Synchronous /\ Underway /\ (units = 0 \/ HasBudget)
  /\ stack' = <<>>
  /\ backend' = IF Stalls(units) THEN Released(backend) ELSE backend
  /\ drain' = IF Stalls(units) THEN [drain EXCEPT !.at = "done", !.completed = FALSE]
              ELSE [drain EXCEPT !.budget = IF @ = Unbounded THEN @ ELSE @ - units]
  /\ UNCHANGED <<slots, handles, sealed, calls, in_flight, activity, idle, owed>>

(* A repeat ends: the frame runs again, returns, or is abandoned.          *)
FrameEnds(units) ==
  /\ Synchronous /\ Underway
  /\ LET abandoned == Top.repeats > 0 /\ units = 0
         returns == Top.repeats = 0 \/ abandoned
         outermost == returns /\ Len(stack) = 1
     IN  /\ stack' = IF returns THEN Front(stack) ELSE WithTop([Top EXCEPT !.active = FALSE])
         /\ owed' = IF abandoned THEN owed \ {Top.slot} ELSE owed
         /\ calls' = IF outermost
                     THEN [p \in Producers |->
                             IF p \in Caller
                             THEN [calls[p] EXCEPT !.at = "offered",
                                     !.result = IF abandoned THEN "Stalled" ELSE "Accepted"]
                             ELSE calls[p]]
                     ELSE calls
         /\ activity' = IF returns /\ ~outermost THEN activity + 1 ELSE activity
         /\ idle' = IF returns /\ ~outermost THEN {} ELSE idle
  /\ UNCHANGED <<slots, handles, sealed, backend, in_flight, drain>>

(* It throws: the frames go, the claimed rest of the word is restored, and *)
(* the exception leaves the drain or the producer's call.                  *)
RunThrows ==
  /\ Underway
  /\ stack' = <<>> /\ owed' = owed \ Framed
  /\ backend' = Released(backend)
  /\ drain' = IF Synchronous THEN drain ELSE NoDrain
  /\ calls' = [p \in Producers |->
                 IF p \in Caller THEN [calls[p] EXCEPT !.at = "offered", !.result = "Thrown"] ELSE calls[p]]
  /\ LET nested == IF Synchronous THEN Len(stack) - 1 ELSE 0
     IN  activity' = activity + nested /\ idle' = IF nested > 0 THEN {} ELSE idle
  /\ UNCHANGED <<slots, handles, sealed, in_flight>>

RunEnds(units) == DrainedEnds(units) \/ FrameEnds(units)

-----------------------------------------------------------------------------
ProducerSteps(p) == Offer(p) \/ Count(p) \/ Leave(p)
DrainSteps ==
  \/ ReadInFlight \/ ReadPending \/ Claim \/ \E s \in Slots : RunBegins(s)
  \/ DrainCompletes \/ ReadLeft \/ Conclude \/ FrameRuns

MaintenanceNext ==
  \/ \E t \in Tasks : RegisterTask(t)
  \/ Seal
  \/ \E h \in handles : TryRelease(h)
  \/ \E p \in Producers : ProducerSteps(p)
  \/ \E b \in DrainBudgets \cup {Unbounded} : BeginDrain(b)
  \/ DrainSteps
  \/ /\ activity < MaxOffers
     /\ (\E h \in handles, p \in Producers : Enter(p, h)) \/ \E s \in Live : NestedOffer(s)
  \/ \E units \in {0, 1} : RunEnds(units)
  \/ RunThrows

MaintenanceSpec == MaintenanceInit /\ [][MaintenanceNext]_maintenance_vars

-----------------------------------------------------------------------------
FrameRecord == [slot : Slots, repeats : Nat, active : BOOLEAN, scheduled : BOOLEAN]
Call == [at : {"away", "entered", "running", "offered", "counted"}, slot : 0 .. Capacity,
         result : {"none", "Accepted", "CapacityExhausted", "Stalled", "Thrown"}]
DrainRecord == [at : {"none", "counting", "looking", "draining", "done", "closing"}, activity : Nat,
                quiet : BOOLEAN, budget : Int, completed : BOOLEAN, left : BOOLEAN]

MaintenanceTypeOK ==
  /\ slots \in [Slots -> [target : Tasks \cup {NoTask}, generation : Nat \ {0}]]
  /\ handles \subseteq [slot : Slots, generation : Nat \ {0}, task : Tasks]
  /\ sealed \in BOOLEAN
  /\ backend \in [kind : Kinds, queue : Seq(Slots), word : SUBSET Slots, claimed : SUBSET Slots]
  /\ stack \in Seq(FrameRecord)
  /\ calls \in [Producers -> Call]
  /\ in_flight \in Nat /\ activity \in Nat /\ idle \subseteq Nat
  /\ drain \in DrainRecord
  /\ owed \subseteq Slots

(* "Accepted means the offer was synchronously executed, retained, or      *)
(* coalesced without loss": until a run of the slot begins, an accepted    *)
(* offer is in the queue, in the word, among the bits a drain has claimed  *)
(* or in a frame, through coalescing, throws, stalls and exhausted budgets *)
(* (registered_maintenance.h:22-31, :94-98); only the repeats of a         *)
(* synchronous run go with it when it throws or makes no progress.         *)
AcceptedWorkIsKept ==
  /\ MaintenanceTypeOK
  /\ owed \subseteq Pending \cup Framed
  /\ drain.at # "draining" => backend.claimed = {}

(* "Release never cancels work": Idle is returned only when nothing is     *)
(* retained and no producer is inside try_schedule, whatever overlapped    *)
(* the drain; the evidence it leaves holds as long as no producer comes    *)
(* back (registered_maintenance.h:606-635), so what is retained or runs is *)
(* never a released slot; and a handle names its own task or nothing.      *)
Retained == Pending \cup Framed \cup Running
Returned == \A p \in Producers : calls[p] = Away
ReleaseCancelsNothing ==
  /\ Retained \subseteq Live
  /\ drain.at = "closing" /\ DrainResult = "Idle" => Retained = {} /\ Returned
  /\ activity \in idle /\ Returned => Retained = {}
  /\ \A h \in handles : Resolves(h) => slots[h.slot].target = h.task
=============================================================================
