----------------------------- MODULE Schedule -----------------------------
(***************************************************************************)
(* The fixed-tick task schedule of sim/schedule.h, after seal(): one tick  *)
(* visits every task once in phase order, decides from its cadence and its *)
(* pending triggers whether it is due, consumes the triggers and calls it. *)
(* A callback may raise triggers and toggle tasks while it runs, and may   *)
(* throw; the rest of that tick is then abandoned but still counted.       *)
(*                                                                         *)
(* A dirty or event mask is a set of bits. Only OnDirty tasks read         *)
(* pending_mask and only OnEvent tasks read pending_events, so pending[t]  *)
(* stands for whichever of the two task t reads. The tick counter has the  *)
(* width the code gives it: it is counted modulo TickModulus.              *)
(***************************************************************************)
EXTENDS Integers, FiniteSets

CONSTANTS
    Tasks,          \* task ids, in registration order
    Phase,          \* Phase[t]: the SimPhase t is registered in, as a number
    Kind,           \* Kind[t]: the CadenceKind of t
    EveryN,         \* EveryN[t]: cadence.every_n
    Subscribed,     \* Subscribed[t]: cadence.dirty_mask or cadence.event_mask
    DirtyBits, EventBits,
    TickModulus,    \* 2^64 for the uint64_t of SimClock
    MayThrow,       \* the tasks registered without the noexcept contract
    Poked,          \* the tasks the application calls request_run on
    Toggled         \* the tasks the application calls set_enabled on

Kinds == {"EveryTick", "EveryN", "OnDirty", "OnEvent", "Background", "Manual"}

(* TickModulus is a multiple of each period, so that the tick determines   *)
(* the phase of a countdown even after it wraps.                           *)
ASSUME ScheduleAssumption ==
    /\ Tasks \subseteq Nat /\ IsFiniteSet(Tasks)
    /\ Phase \in [Tasks -> Nat]
    /\ Kind \in [Tasks -> Kinds]
    /\ EveryN \in [Tasks -> Nat \ {0}]
    /\ Subscribed \in [Tasks -> SUBSET (DirtyBits \union EventBits)]
    /\ DirtyBits \intersect EventBits = {}
    /\ TickModulus \in Nat \ {0}
    /\ \A t \in Tasks : Kind[t] = "EveryN" => TickModulus % EveryN[t] = 0
    /\ MayThrow \subseteq Tasks /\ Poked \subseteq Tasks /\ Toggled \subseteq Tasks

Bits == DirtyBits \union EventBits
Nobody == [task |-> -1, bits |-> {}, requested |-> FALSE]
Calls == [task : Tasks, bits : SUBSET Bits, requested : BOOLEAN] \union {Nobody}

VARIABLES
    tick,             \* clock.tick
    todo,             \* the tasks this tick has not reached
    running,          \* the callback in progress and the triggers it took
    pending,          \* pending_mask of OnDirty, pending_events of OnEvent tasks
    run_requested, in_progress, enabled, ticks_until_due,
    owed,             \* history: subscribed bits raised and not yet worked off
    owed_run,         \* history: the same for request_run
    served            \* history: what the callback that just returned had taken

record == <<pending, run_requested, in_progress, enabled, ticks_until_due>>
history == <<owed, owed_run, served>>
vars == <<tick, todo, running, record, history>>

(* The masks a raised bit reaches: every OnDirty task for a dirty bit and  *)
(* every OnEvent task for an event bit, subscribed to it or not.           *)
Reaches(t) ==
    CASE Kind[t] = "OnDirty" -> DirtyBits
      [] Kind[t] = "OnEvent" -> EventBits
      [] OTHER -> {}
Merged(p, bits) == [t \in Tasks |-> p[t] \union (bits \intersect Reaches(t))]

Wanted(t) == Subscribed[t] \intersect Reaches(t)
Fired(t) == pending[t] \intersect Wanted(t)
Owing(o, bits) == [t \in Tasks |-> o[t] \union (bits \intersect Wanted(t))]

Init ==
    /\ tick = 0 /\ todo = {} /\ running = Nobody
    /\ pending = [t \in Tasks |-> {}]
    /\ run_requested = [t \in Tasks |-> FALSE]
    /\ in_progress = [t \in Tasks |-> FALSE]
    /\ enabled = [t \in Tasks |-> TRUE]
    /\ ticks_until_due = [t \in Tasks |-> IF Kind[t] = "EveryN" THEN EveryN[t] ELSE 0]
    /\ owed = [t \in Tasks |-> {}]
    /\ owed_run = [t \in Tasks |-> FALSE]
    /\ served = Nobody

(* The calls of the frame owner: between ticks, or from the body of the    *)
(* callback that is running.                                               *)
OwnerMayCall == todo = {} \/ running # Nobody

Notify(bits) ==
    /\ OwnerMayCall
    /\ pending' = Merged(pending, bits)
    /\ owed' = Owing(owed, bits)
    /\ served' = Nobody
    /\ UNCHANGED <<tick, todo, running, run_requested, in_progress, enabled,
                   ticks_until_due, owed_run>>

RequestRun(t) ==
    /\ OwnerMayCall
    /\ run_requested' = [run_requested EXCEPT ![t] = TRUE]
    /\ owed_run' = [owed_run EXCEPT ![t] = TRUE]
    /\ served' = Nobody
    /\ UNCHANGED <<tick, todo, running, pending, in_progress, enabled,
                   ticks_until_due, owed>>

SetEnabled(t, on) ==
    /\ OwnerMayCall
    /\ enabled[t] # on
    /\ enabled' = [enabled EXCEPT ![t] = on]
    /\ served' = Nobody
    /\ UNCHANGED <<tick, todo, running, pending, run_requested, in_progress,
                   ticks_until_due, owed, owed_run>>

BeginTick ==
    /\ todo = {} /\ running = Nobody
    /\ tick' = (tick + 1) % TickModulus
    /\ todo' = Tasks
    /\ served' = Nobody
    /\ UNCHANGED <<running, record, owed, owed_run>>

(* phase_order_: phase by phase, registration order within a phase. *)
Precedes(t, u) == Phase[t] < Phase[u] \/ (Phase[t] = Phase[u] /\ t < u)
IsNext(t) == /\ running = Nobody
             /\ t \in todo
             /\ \A u \in todo \ {t} : Precedes(t, u)

(* One step of an EveryN countdown, and whether it comes round. *)
Counted(t) == Kind[t] = "EveryN" /\ ticks_until_due[t] = 1

Countdown(t) == CASE Kind[t] # "EveryN" -> ticks_until_due[t]
                  [] Counted(t) -> EveryN[t]
                  [] OTHER -> ticks_until_due[t] - 1

(* Mutant: work left over does not keep a Background task due. *)
MutForgetsBackground(t) ==
    CASE Kind[t] = "EveryTick" -> TRUE
      [] Kind[t] = "EveryN" -> Counted(t) \/ run_requested[t]
      [] Kind[t] \in {"OnDirty", "OnEvent"} -> Fired(t) # {} \/ run_requested[t]
      [] OTHER -> run_requested[t]

Due(t) == CASE Kind[t] = "EveryTick" -> TRUE
            [] Kind[t] = "EveryN" -> Counted(t) \/ run_requested[t]
            [] Kind[t] \in {"OnDirty", "OnEvent"} -> Fired(t) # {} \/ run_requested[t]
            [] Kind[t] = "Background" -> in_progress[t] \/ run_requested[t]
            [] Kind[t] = "Manual" -> run_requested[t]

(* run_task_if_due returns early: not due, or due but disabled. The        *)
(* countdown has moved; the triggers stay.                                 *)
PassOver(t) ==
    /\ IsNext(t)
    /\ ~Due(t) \/ ~enabled[t]
    /\ todo' = todo \ {t}
    /\ ticks_until_due' = [ticks_until_due EXCEPT ![t] = Countdown(t)]
    /\ served' = Nobody
    /\ UNCHANGED <<tick, running, pending, run_requested, in_progress, enabled,
                   owed, owed_run>>

(* The triggers are consumed before the callback is entered. *)
Consumed(t) == [pending EXCEPT ![t] = @ \ Fired(t)]

StartTask(t) ==
    /\ IsNext(t)
    /\ Due(t) /\ enabled[t]
    /\ todo' = todo \ {t}
    /\ ticks_until_due' = [ticks_until_due EXCEPT ![t] = Countdown(t)]
    /\ running' = [task |-> t, bits |-> Fired(t), requested |-> run_requested[t]]
    /\ pending' = Consumed(t)
    /\ run_requested' = [run_requested EXCEPT ![t] = FALSE]
    /\ served' = Nobody
    /\ UNCHANGED <<tick, in_progress, enabled, owed, owed_run>>

(* The callback returns: its result is merged at once, so that tasks later *)
(* in the order see it in this tick. What it had taken is worked off, less *)
(* what was raised again while it ran.                                     *)
FinishTask(t, produced, more_work) ==
    /\ running.task = t
    /\ running' = Nobody
    /\ in_progress' = [in_progress EXCEPT ![t] = Kind[t] = "Background" /\ more_work]
    /\ pending' = Merged(pending, produced)
    /\ owed' = Owing([owed EXCEPT ![t] = @ \ (running.bits \ pending[t])], produced)
    /\ owed_run' = [owed_run EXCEPT ![t] = run_requested[t]]
    /\ served' = running
    /\ UNCHANGED <<tick, todo, run_requested, enabled, ticks_until_due>>

(* The callback throws: what it had taken is merged back, and every task   *)
(* the tick has not reached only counts the tick.                          *)
(* Mutants: a throw forgets the triggers it had taken, or the cadences *)
(* of the tasks behind it.                                             *)
MutThrowDropsTriggers(t) == pending
MutThrowStopsCadences == ticks_until_due

Restored(t) == [pending EXCEPT ![t] = @ \union running.bits]
AbortedCountdowns == [u \in Tasks |-> IF u \in todo THEN Countdown(u) ELSE ticks_until_due[u]]

ThrowTask(t) ==
    /\ t \in MayThrow
    /\ running.task = t
    /\ running' = Nobody
    /\ pending' = Restored(t)
    /\ run_requested' = [run_requested EXCEPT ![t] = @ \/ running.requested]
    /\ ticks_until_due' = AbortedCountdowns
    /\ todo' = {}
    /\ served' = Nobody
    /\ UNCHANGED <<tick, in_progress, enabled, owed, owed_run>>

Finish(t) == \E produced \in SUBSET Bits, more_work \in BOOLEAN :
                 FinishTask(t, produced, more_work)

Next ==
    \/ BeginTick
    \/ \E bits \in (SUBSET DirtyBits) \union (SUBSET EventBits) : Notify(bits)
    \/ \E t \in Poked : RequestRun(t)
    \/ \E t \in Toggled, on \in BOOLEAN : SetEnabled(t, on)
    \/ \E t \in Tasks : PassOver(t) \/ StartTask(t) \/ Finish(t) \/ ThrowTask(t)

Spec == Init /\ [][Next]_vars

(* The application keeps ticking, the loop of run_tick keeps going,        *)
(* callbacks return, and a task that is entered again and again does not   *)
(* throw every time.                                                       *)
TickGoesOn == BeginTick \/ \E t \in Tasks : PassOver(t) \/ StartTask(t)


-----------------------------------------------------------------------------
(* Types; a countdown never reaches zero between ticks. *)
TypeOK ==
    /\ tick \in 0..(TickModulus - 1)
    /\ todo \subseteq Tasks
    /\ running \in Calls /\ served \in Calls
    /\ pending \in [Tasks -> SUBSET Bits] /\ owed \in [Tasks -> SUBSET Bits]
    /\ run_requested \in [Tasks -> BOOLEAN] /\ owed_run \in [Tasks -> BOOLEAN]
    /\ in_progress \in [Tasks -> BOOLEAN] /\ enabled \in [Tasks -> BOOLEAN]
    /\ ticks_until_due \in [Tasks -> Nat]
    /\ \A t \in Tasks : Kind[t] = "EveryN" => ticks_until_due[t] \in 1..EveryN[t]

(* Lockstep (schedule.h:485-488, :382-385): whatever was disabled, poked   *)
(* or cut short by a throw, the countdown of an EveryN task is the one the *)
(* tick counter alone determines.                                          *)
TicksCounted(t) == IF t \in todo THEN (tick - 1) % TickModulus ELSE tick
CadenceIsLockstep ==
    \A t \in Tasks : Kind[t] = "EveryN" =>
        ticks_until_due[t] = EveryN[t] - (TicksCounted(t) % EveryN[t])

(* No trigger is lost or invented (schedule.h:536-537, :561-568): the      *)
(* subscribed bits and requests raised since a task last finished work on  *)
(* them are exactly those that are pending or in the hands of its running  *)
(* callback, through throws, disablement and bits raised during the run.   *)
InHand(t) == IF running.task = t THEN running.bits ELSE {}
RequestInHand(t) == running.task = t /\ running.requested
NoTriggerLost ==
    \A t \in Tasks :
        /\ owed[t] = Fired(t) \union InHand(t)
        /\ owed_run[t] = (run_requested[t] \/ RequestInHand(t))

(* Every trigger is served (schedule.h:485-488, :562-564): a subscribed    *)
(* bit that is raised, a requested run and background work left over each  *)
(* lead to a run of the task that returns, unless the task is disabled,    *)
(* however often this and other callbacks throw.                           *)
TriggersServed ==
    \A t \in Tasks :
        /\ \A b \in Wanted(t) :
              (b \in pending[t]) ~> ((served.task = t /\ b \in served.bits) \/ ~enabled[t])
        /\ t \in Poked => (run_requested[t] ~> (served.task = t \/ ~enabled[t]))
        /\ Kind[t] = "Background" => (in_progress[t] ~> (served.task = t \/ ~enabled[t]))

=============================================================================
