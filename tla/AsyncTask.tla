----------------------------- MODULE AsyncTask ------------------------------
(***************************************************************************)
(* sim/async_work_task.h: a ResumableWorkQueue driven by a Background task *)
(* of a Schedule.  A run of the task is one advance() of the queue; the    *)
(* task stays in progress while the queue has pending work, and a client   *)
(* that submits to an idle queue has to call request_run itself.           *)
(*                                                                         *)
(* `scene` says what a behaviour is about: a schedule whose tasks do what  *)
(* Schedule allows them, the queue behind task Adapter of a schedule       *)
(* without other enabled tasks, or a queue that its owner advances.        *)
(***************************************************************************)
EXTENDS Schedule, ResumableQueue

CONSTANTS Adapter,
          MaxAdapted   \* bound: submissions behind the adapter

ASSUME AdapterAssumption == Adapter \in Tasks /\ Kind[Adapter] = "Background"

VARIABLES
    scene,
    unpoked     \* history: submitted, and request_run not called since

all_vars == <<vars, queue_vars, scene, unpoked>>

SceneInit ==
    /\ QueueInit
    /\ unpoked = FALSE
    /\ \/ scene = "schedule" /\ Init
       \/ /\ scene \in {"adapter", "queue"}
          /\ tick = 0 /\ todo = {} /\ running = Nobody
          /\ pending = [t \in Tasks |-> {}]
          /\ run_requested = [t \in Tasks |-> FALSE]
          /\ in_progress = [t \in Tasks |-> FALSE]
          /\ enabled = [t \in Tasks |-> t = Adapter]
          /\ ticks_until_due = [t \in Tasks |-> IF Kind[t] = "EveryN" THEN EveryN[t] ELSE 0]
          /\ owed = [t \in Tasks |-> {}]
          /\ owed_run = [t \in Tasks |-> FALSE]
          /\ served = Nobody

Adapted == scene = "adapter"

-----------------------------------------------------------------------------
\* The clients of the queue, outside of every pass.
ClientActs == pass = Idle /\ running = Nobody /\ OwnerMayCall /\ UNCHANGED vars

SubmitWork ==
    /\ ClientActs /\ flow.offered < MaxAdapted
    /\ \E r \in 0 .. MaxReplies : Submit(r)
    /\ unpoked' = TRUE

ClientSettles ==
    /\ ClientActs
    /\ \/ \E t \in issued, s \in {"negative", "stale"} : SetTerminal(t, s)
       \/ Clear
    /\ UNCHANGED unpoked

\* The client re-arms the task after it has submitted.
Poke ==
    /\ RequestRun(Adapter)
    /\ unpoked' = FALSE
    /\ UNCHANGED queue_vars

\* operator(): the schedule enters the task, which begins a pass; a pass
\* over a queue with nothing pending leaves it alone.
RunBegins ==
    /\ StartTask(Adapter)
    /\ \/ \E b \in Budgets \ {0} : BeginAdvance(b)
       \/ PendingSlots = {} /\ UNCHANGED queue_vars
    /\ UNCHANGED unpoked

RunContinues ==
    /\ running.task = Adapter
    /\ StepReturns({AnyVersion}) \/ EndAdvance
    /\ UNCHANGED <<vars, unpoked>>

\* Mutant: the budget, not the queue, decides whether there is more work.
MoreWorkIfInvoked == \E i \in DOMAIN slots : slots[i].replies > 0
MoreWork == PendingSlots # {}

RunReturns ==
    /\ pass = Idle
    /\ FinishTask(Adapter, {}, MoreWork)
    /\ UNCHANGED <<queue_vars, unpoked>>

\* A continuation's exception leaves advance() and the task's callback.
RunThrows ==
    /\ \E i \in Upcoming : StepThrows(i)
    /\ ThrowTask(Adapter)
    /\ UNCHANGED unpoked

OthersPass ==
    /\ BeginTick \/ \E t \in Tasks : PassOver(t)
    /\ UNCHANGED <<queue_vars, unpoked>>

AdaptedTick == OthersPass \/ RunBegins \/ RunContinues \/ RunReturns \/ RunThrows

AdapterNext == SubmitWork \/ ClientSettles \/ Poke \/ AdaptedTick

SceneNext ==
    /\ UNCHANGED scene
    /\ \/ scene = "schedule" /\ Next /\ UNCHANGED <<queue_vars, unpoked>>
       \/ scene = "adapter" /\ AdapterNext
       \/ scene = "queue" /\ QueueNext /\ UNCHANGED <<vars, unpoked>>

SceneSpec == SceneInit /\ [][SceneNext]_all_vars

\* The application keeps ticking, callbacks return, and a task entered again
\* and again does not throw every time; the owner of a queue keeps advancing it
\* while work is pending.  The scene never changes, so one condition can name
\* the steps of all.
ScheduleStep(A) == scene = "schedule" /\ A /\ UNCHANGED <<queue_vars, scene, unpoked>>
QueueStep(A) == scene = "queue" /\ A /\ UNCHANGED <<vars, scene, unpoked>>

SceneFairness ==
    /\ WF_all_vars(\/ ScheduleStep(TickGoesOn)
                   \/ scene = "adapter" /\ AdaptedTick /\ UNCHANGED scene
                   \/ QueueStep(Step \/ EndAdvance))
    /\ WF_all_vars(ScheduleStep(\E t \in Tasks \ MayThrow : Finish(t)))
    /\ \A t \in MayThrow :
         SF_all_vars(ScheduleStep(Finish(t)) \/ QueueStep(\E b \in Budgets \ {0} : BeginAdvance(b)))
SceneLiveSpec == SceneSpec /\ SceneFairness

-----------------------------------------------------------------------------
\* The task never disarms over pending work: as long as some slot is pending,
\* the next tick will run the task, or the client that submitted has still to
\* call request_run, whatever threw, settled or was cleared in between.
\* (ResumableWorkTask::operator(), Schedule::run_task_if_due)
WorkStaysArmed ==
    Adapted /\ PendingSlots # {} =>
        in_progress[Adapter] \/ run_requested[Adapter] \/ running.task = Adapter \/ unpoked

\* Every pending slot is settled or retired, unless a client submitted behind
\* the adapter and has not called request_run: neither exceptions nor slots
\* ahead of it in the strict submission order hold it up forever, as long as
\* each continuation ends after finitely many replies.
\* (advance, ResumableWorkTask::operator())
PendingSettles ==
    \A s \in 0 .. MaxSubmissions - 1 :
        Outcome(s) = "pending" ~> Outcome(s) # "pending" \/ unpoked
=============================================================================
