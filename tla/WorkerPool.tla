----------------------------- MODULE WorkerPool -----------------------------
(***************************************************************************)
(* WorkerPoolPhaseExecutorImpl of ops/phase_executor.h: the persistent     *)
(* worker pool that runs the operations of one phase.                      *)
(*                                                                         *)
(* A critical section of mutex_ is one action.  Waiting on a condition     *)
(* variable is a state of the thread ("asleep"): a notification moves it   *)
(* back to the state in which it evaluates its predicate under the mutex,  *)
(* and so may a spurious wakeup.  The atomics next_offset_,                *)
(* finished_operations_ and cancelled_ are read and written by actions of  *)
(* their own, outside every critical section.                              *)
(*                                                                         *)
(* The no-throw job is the catching job whose callbacks never throw:       *)
(* cancelled_ is reset by the dispatch and only a throwing callback sets   *)
(* it, so the two loops then take the same steps.                          *)
(***************************************************************************)
EXTENDS Integers, FiniteSets, Sequences

CONSTANTS
  Workers,        \* the threads of the pool
  Callers,        \* the threads that call for_each_operation
  MaxOps,         \* bound: operations per call
  MaxDispatches,  \* bound: calls that pass at least one operation
  RunsPerWorker   \* how finely a range is cut: 4 in the source

ASSUME WorkersAssumption == IsFiniteSet(Workers) /\ Workers # {}
ASSUME BoundsAssumption ==
  /\ MaxOps \in Nat \ {0}
  /\ MaxDispatches \in Nat
  /\ RunsPerWorker \in Nat \ {0}

VARIABLES
  life,             \* "building", "ready", "stopping", "gone"
  aborted,          \* fail_fast ended the process
  stop,             \* stop_
  pc,               \* pc[w]: where worker w is
  seen,             \* seen[w]: seen_epoch
  local,            \* local[w]: the job and the run that worker w copied
  caller,           \* caller[c]: where caller c is
  to_notify,        \* notifications the dispatcher still has to send
  results,          \* results_: <<epoch, status>> of the last writer of a slot
  next_offset,      \* next_offset_
  finished,         \* finished_operations_
  cancelled,        \* cancelled_
  exception,        \* exception_ is set
  job,              \* job_context_ (the epoch it was set in), job_count_, ...
  job_epoch,        \* job_epoch_
  active_workers,   \* active_workers_
  job_active,       \* job_active_
  dispatch_active,  \* dispatch_active_
  calls,            \* history: calls[o], callbacks begun in this dispatch
  outcome           \* history: what the last finished call returned

threadVars   == <<pc, seen, local>>
callerVars   == <<caller, to_notify, outcome>>
atomicVars   == <<next_offset, finished, cancelled>>
dispatchVars == <<job, job_epoch, job_active, dispatch_active>>
lifeVars     == <<life, aborted, stop>>

vars == <<lifeVars, threadVars, callerVars, atomicVars, dispatchVars,
          results, exception, active_workers, calls>>

Offsets  == 0 .. MaxOps - 1
Statuses == {"Executed", "Failed"}

(* PlannedExecutionResult{} reads as Executed; epoch 0 marks a slot that   *)
(* no callback ever wrote.                                                 *)
DefaultResult == [epoch |-> 0, status |-> "Executed"]
NoJob         == [epoch |-> 0, count |-> 0, stride |-> 1, may_throw |-> FALSE]
NoRun         == [begin |-> 0, end |-> 0, pos |-> 0, done |-> 0]
IdleLocal     == [job |-> NoJob, run |-> NoRun]

Contract == INSTANCE PhaseContract WITH
  in_call <- dispatch_active,
  count   <- job.count,
  op      <- [o \in Offsets |->
               IF \E w \in Workers : pc[w] = "invoke" /\ local[w].run.pos = o
                 THEN "running"
               ELSE IF calls[o] = 0 THEN "todo"
               ELSE IF results[o].epoch = job_epoch THEN results[o].status
               ELSE "threw"],
  outcome <- outcome

LeastOf(S) == CHOOSE x \in S : \A y \in S : x <= y
AtLeastOne(n) == IF n < 1 THEN 1 ELSE n

-----------------------------------------------------------------------------
Init ==
  /\ life = "building"
  /\ aborted = FALSE
  /\ stop = FALSE
  /\ pc = [w \in Workers |-> "unborn"]
  /\ seen = [w \in Workers |-> 0]
  /\ local = [w \in Workers |-> IdleLocal]
  /\ caller = [c \in Callers |-> "idle"]
  /\ to_notify = 0
  /\ results = [o \in Offsets |-> DefaultResult]
  /\ next_offset = 0
  /\ finished = 0
  /\ cancelled = FALSE
  /\ exception = FALSE
  /\ job = NoJob
  /\ job_epoch = 0
  /\ active_workers = 0
  /\ job_active = FALSE
  /\ dispatch_active = FALSE
  /\ calls = [o \in Offsets |-> 0]
  /\ outcome = Contract!Success

-----------------------------------------------------------------------------
(* Construction and destruction                                            *)

(* The constructor starts one thread per worker ...                        *)
SpawnWorker(w) ==
  /\ life = "building"
  /\ pc[w] = "unborn"
  /\ pc' = [pc EXCEPT ![w] = "evaluate"]
  /\ life' = IF \E v \in Workers \ {w} : pc[v] = "unborn"
               THEN "building" ELSE "ready"
  /\ UNCHANGED <<aborted, stop, seen, local, callerVars, atomicVars,
                 dispatchVars, results, exception, active_workers, calls>>

(* notify_all on work_cv_: sleeping workers go back to their predicate.    *)
NobodyAwake == pc
AllAwake == [w \in Workers |-> IF pc[w] = "asleep" THEN "evaluate" ELSE pc[w]]

(* stop_ is set under the mutex and every sleeping worker is notified.     *)
StopAndNotifyAll ==
  /\ stop' = TRUE
  /\ life' = "stopping"
  /\ pc' = AllAwake
  /\ UNCHANGED <<aborted, seen, local, callerVars, atomicVars, dispatchVars,
                 results, exception, active_workers, calls>>

(* ... and stops the ones that did start when a thread cannot be created.  *)
SpawnFails == life = "building" /\ StopAndNotifyAll

(* The destructor; its owner ends every call first.                        *)
Destroy ==
  /\ life = "ready"
  /\ \A c \in Callers : caller[c] = "idle"
  /\ StopAndNotifyAll

JoinWorkers ==
  /\ life = "stopping"
  /\ \A w \in Workers : pc[w] \in {"unborn", "exited"}
  /\ life' = "gone"
  /\ UNCHANGED <<aborted, stop, threadVars, callerVars, atomicVars,
                 dispatchVars, results, exception, active_workers, calls>>

-----------------------------------------------------------------------------
(* The calling thread: for_each_operation                                  *)

Stride(n) == AtLeastOne(n \div (Cardinality(Workers) * RunsPerWorker))

(* The setup block: all of it under the mutex.                             *)
Dispatch(c, n, may_throw) ==
  /\ life = "ready"
  /\ caller[c] = "idle"
  /\ ~dispatch_active
  /\ job_epoch < MaxDispatches
  /\ caller' = [caller EXCEPT ![c] = "notify"]
  /\ job' = [epoch |-> job_epoch + 1, count |-> n, stride |-> Stride(n),
             may_throw |-> may_throw]
  /\ job_epoch' = job_epoch + 1
  /\ dispatch_active' = TRUE
  /\ job_active' = TRUE
  /\ next_offset' = 0
  /\ finished' = 0
  /\ cancelled' = FALSE
  /\ exception' = FALSE
  /\ to_notify' = (n + Stride(n) - 1) \div Stride(n)
  /\ calls' = [o \in Offsets |-> 0]
  /\ UNCHANGED <<lifeVars, threadVars, results, active_workers, outcome>>

(* With a run for every worker one notify_all wakes them; with fewer runs  *)
(* each notify_one wakes some sleeping worker, or none.                    *)
NotifyAll(c) ==
  /\ caller[c] = "notify"
  /\ to_notify >= Cardinality(Workers)
  /\ pc' = AllAwake
  /\ to_notify' = 0
  /\ caller' = [caller EXCEPT ![c] = "await"]
  /\ UNCHANGED <<lifeVars, seen, local, outcome, atomicVars, dispatchVars,
                 results, exception, active_workers, calls>>

NotifyOne(c) ==
  /\ caller[c] = "notify"
  /\ to_notify < Cardinality(Workers)
  /\ \/ \E w \in Workers : /\ pc[w] = "asleep"
                           /\ pc' = [pc EXCEPT ![w] = "evaluate"]
     \/ /\ \A w \in Workers : pc[w] # "asleep"
        /\ pc' = pc
  /\ to_notify' = to_notify - 1
  /\ caller' = [caller EXCEPT ![c] = IF to_notify = 1 THEN "await" ELSE @]
  /\ UNCHANGED <<lifeVars, seen, local, outcome, atomicVars, dispatchVars,
                 results, exception, active_workers, calls>>

(* The wait predicate of done_cv_.                                         *)
JobDoneIgnoringWorkers == exception \/ finished = job.count
JobDoneIgnoringRuns == active_workers = 0
JobDone == active_workers = 0 /\ (exception \/ finished = job.count)

FailedOffsets == {o \in 0 .. job.count - 1 : results[o].status # "Executed"}

ReportedOffset == LeastOf(FailedOffsets)

(* What the call returns or throws, selected before dispatch ownership is  *)
(* released.                                                               *)
SelectedOutcome ==
  IF exception THEN Contract!Exception
  ELSE IF FailedOffsets # {} THEN Contract!Failure(ReportedOffset)
  ELSE Contract!Success

AwaitReturns(c) ==
  /\ caller[c] = "await"
  /\ JobDone
  /\ outcome' = SelectedOutcome
  /\ job_active' = FALSE
  /\ dispatch_active' = FALSE
  /\ caller' = [caller EXCEPT ![c] = "idle"]
  /\ UNCHANGED <<lifeVars, threadVars, to_notify, atomicVars, job, job_epoch,
                 results, exception, active_workers, calls>>

AwaitSleeps(c) ==
  /\ caller[c] = "await"
  /\ ~JobDone
  /\ caller' = [caller EXCEPT ![c] = "asleep"]
  /\ UNCHANGED <<lifeVars, threadVars, to_notify, outcome, atomicVars,
                 dispatchVars, results, exception, active_workers, calls>>

(* A second call, from another thread or from a callback, and a            *)
(* reserve_operations during a dispatch end the process.                   *)
Misuse ==
  /\ life = "ready"
  /\ dispatch_active
  /\ \/ \E c \in Callers : caller[c] = "idle"
     \/ \E w \in Workers : pc[w] = "invoke"
  /\ aborted' = TRUE
  /\ UNCHANGED <<life, stop, threadVars, callerVars, atomicVars, dispatchVars,
                 results, exception, active_workers, calls>>

-----------------------------------------------------------------------------
(* A worker: run_worker and the two job loops                              *)

(* The wait predicate of work_cv_, and what follows it under the mutex.    *)
WorkerExits(w) ==
  /\ pc[w] = "evaluate"
  /\ stop
  /\ pc' = [pc EXCEPT ![w] = "exited"]
  /\ UNCHANGED <<lifeVars, seen, local, callerVars, atomicVars, dispatchVars,
                 results, exception, active_workers, calls>>

WorkerJoins(w) ==
  /\ pc[w] = "evaluate"
  /\ ~stop
  /\ job_active
  /\ job_epoch # seen[w]
  /\ seen' = [seen EXCEPT ![w] = job_epoch]
  /\ active_workers' = active_workers + 1
  /\ local' = [local EXCEPT ![w] = [job |-> job, run |-> NoRun]]
  /\ pc' = [pc EXCEPT ![w] = "loop"]
  /\ UNCHANGED <<lifeVars, callerVars, atomicVars, dispatchVars, results,
                 exception, calls>>

WorkerSleeps(w) ==
  /\ pc[w] = "evaluate"
  /\ ~stop
  /\ ~(job_active /\ job_epoch # seen[w])
  /\ pc' = [pc EXCEPT ![w] = "asleep"]
  /\ UNCHANGED <<lifeVars, seen, local, callerVars, atomicVars, dispatchVars,
                 results, exception, active_workers, calls>>

(* The loop test of run_catching_job.                                      *)
TestCancelled(w) ==
  /\ pc[w] = "loop"
  /\ pc' = [pc EXCEPT ![w] = IF cancelled THEN "leave" ELSE "claim"]
  /\ UNCHANGED <<lifeVars, seen, local, callerVars, atomicVars, dispatchVars,
                 results, exception, active_workers, calls>>

(* One fetch_add claims a run of stride operations.                        *)
AfterClaimOfOne(w) == next_offset + 1
AfterClaim(w) == next_offset + local[w].job.stride

ClaimRun(w) ==
  LET begin == next_offset
      n     == local[w].job.count
      end   == LeastOf({begin + local[w].job.stride, n})
  IN
  /\ pc[w] = "claim"
  /\ next_offset' = AfterClaim(w)
  /\ \/ /\ begin >= n
        /\ pc' = [pc EXCEPT ![w] = "leave"]
        /\ UNCHANGED local
     \/ /\ begin < n
        /\ pc' = [pc EXCEPT ![w] = "operation"]
        /\ local' = [local EXCEPT ![w].run =
             [begin |-> begin, end |-> end, pos |-> begin, done |-> 0]]
  /\ UNCHANGED <<lifeVars, seen, callerVars, finished, cancelled,
                 dispatchVars, results, exception, active_workers, calls>>

(* The test before an operation; the callback is in flight from here on.   *)
BeginOperation(w) ==
  /\ pc[w] = "operation"
  /\ ~cancelled
  /\ pc' = [pc EXCEPT ![w] = "invoke"]
  /\ calls' = [calls EXCEPT ![local[w].run.pos] = @ + 1]
  /\ UNCHANGED <<lifeVars, seen, local, callerVars, atomicVars, dispatchVars,
                 results, exception, active_workers>>

SkipCancelledRun(w) ==
  /\ pc[w] = "operation"
  /\ cancelled
  /\ pc' = [pc EXCEPT ![w] = "publish_and_leave"]
  /\ UNCHANGED <<lifeVars, seen, local, callerVars, atomicVars, dispatchVars,
                 results, exception, active_workers, calls>>

(* The callback returns; its result goes to the slot of the operation.     *)
CallbackReturns(w, s) ==
  LET run == local[w].run IN
  /\ pc[w] = "invoke"
  /\ results' = [results EXCEPT ![run.pos] =
                   [epoch |-> local[w].job.epoch, status |-> s]]
  /\ local' = [local EXCEPT ![w].run.pos = run.pos + 1,
                            ![w].run.done = run.done + 1]
  /\ pc' = [pc EXCEPT ![w] = IF run.pos + 1 = run.end THEN "publish"
                                                      ELSE "operation"]
  /\ UNCHANGED <<lifeVars, seen, callerVars, atomicVars, dispatchVars,
                 exception, active_workers, calls>>

(* The callback throws: cancel first, then record under the mutex.         *)
CallbackThrows(w) ==
  /\ pc[w] = "invoke"
  /\ local[w].job.may_throw
  /\ cancelled' = TRUE
  /\ pc' = [pc EXCEPT ![w] = "record"]
  /\ UNCHANGED <<lifeVars, seen, local, callerVars, next_offset, finished,
                 dispatchVars, results, exception, active_workers, calls>>

RecordException(w) ==
  /\ pc[w] = "record"
  /\ exception' = TRUE
  /\ pc' = [pc EXCEPT ![w] = "publish_and_leave"]
  /\ UNCHANGED <<lifeVars, seen, local, callerVars, atomicVars, dispatchVars,
                 results, active_workers, calls>>

(* One release-add publishes the run; a cancelled worker then leaves.      *)
PublishRun(w) ==
  /\ pc[w] \in {"publish", "publish_and_leave"}
  /\ finished' = finished + local[w].run.done
  /\ pc' = [pc EXCEPT ![w] = IF @ = "publish" THEN "loop" ELSE "leave"]
  /\ local' = [local EXCEPT ![w].run = NoRun]
  /\ UNCHANGED <<lifeVars, seen, callerVars, next_offset, cancelled,
                 dispatchVars, results, exception, active_workers, calls>>

(* Leaving the job; the last active worker notifies done_cv_.              *)
LastWorkerBeforeDecrement == active_workers = 0
LastWorker == active_workers = 1

WorkerLeaves(w) ==
  /\ pc[w] = "leave"
  /\ active_workers' = active_workers - 1
  /\ pc' = [pc EXCEPT ![w] = "evaluate"]
  /\ local' = [local EXCEPT ![w] = IdleLocal]
  /\ caller' = [c \in Callers |->
       IF LastWorker /\ caller[c] = "asleep" THEN "await" ELSE caller[c]]
  /\ UNCHANGED <<lifeVars, seen, to_notify, outcome, atomicVars, dispatchVars,
                 results, exception, calls>>

-----------------------------------------------------------------------------
SpuriousWake ==
  /\ \/ \E w \in Workers : /\ pc[w] = "asleep"
                           /\ pc' = [pc EXCEPT ![w] = "evaluate"]
                           /\ UNCHANGED caller
     \/ \E c \in Callers : /\ caller[c] = "asleep"
                           /\ caller' = [caller EXCEPT ![c] = "await"]
                           /\ UNCHANGED pc
  /\ UNCHANGED <<lifeVars, seen, local, to_notify, outcome, atomicVars,
                 dispatchVars, results, exception, active_workers, calls>>

WorkerStep(w) ==
  \/ WorkerExits(w) \/ WorkerJoins(w) \/ WorkerSleeps(w)
  \/ TestCancelled(w) \/ ClaimRun(w)
  \/ BeginOperation(w) \/ SkipCancelledRun(w)
  \/ \E s \in Statuses : CallbackReturns(w, s)
  \/ CallbackThrows(w) \/ RecordException(w)
  \/ PublishRun(w) \/ WorkerLeaves(w)

CallerStep(c) ==
  NotifyAll(c) \/ NotifyOne(c) \/ AwaitReturns(c) \/ AwaitSleeps(c)

OwnerStep ==
  \/ \E w \in Workers : SpawnWorker(w)
  \/ SpawnFails \/ Destroy \/ JoinWorkers

(* The process is over: destroyed, or ended by fail_fast.                  *)
Finished == (life = "gone" \/ aborted) /\ UNCHANGED vars

Step ==
  \/ OwnerStep
  \/ \E c \in Callers :
       \/ \E n \in 1 .. MaxOps, t \in BOOLEAN : Dispatch(c, n, t)
       \/ CallerStep(c)
  \/ \E w \in Workers : WorkerStep(w)
  \/ SpuriousWake
  \/ Misuse

Next == (~aborted /\ Step) \/ Finished

(* Every thread that can take a step eventually does: the scheduler runs   *)
(* each of them, a callback ends, and the mutex starves nobody.  Waking    *)
(* without a notification is never relied upon.                            *)
Fairness ==
  /\ \A w \in Workers : WF_vars(~aborted /\ WorkerStep(w))
  /\ \A c \in Callers : WF_vars(~aborted /\ CallerStep(c))
  /\ WF_vars(~aborted /\ JoinWorkers)

Spec == Init /\ [][Next]_vars
FairSpec == Spec /\ Fairness

-----------------------------------------------------------------------------
(* Properties                                                              *)

JobStates == {"loop", "claim", "operation", "invoke", "record", "publish",
              "publish_and_leave", "leave"}
PoolStates == {"unborn", "evaluate", "asleep", "exited"}

Jobs == [epoch : Nat, count : 0 .. MaxOps, stride : Nat \ {0},
         may_throw : BOOLEAN]
Runs == [begin : Nat, end : Nat, pos : Nat, done : Nat]
Results == [epoch : Nat, status : Statuses]
Outcomes == {Contract!Success, Contract!Exception}
              \cup {Contract!Failure(o) : o \in Offsets}

(* Every variable has its type.                                            *)
TypeOK ==
  /\ life \in {"building", "ready", "stopping", "gone"}
  /\ aborted \in BOOLEAN
  /\ stop \in BOOLEAN
  /\ pc \in [Workers -> JobStates \cup PoolStates]
  /\ seen \in [Workers -> Nat]
  /\ local \in [Workers -> [job : Jobs, run : Runs]]
  /\ caller \in [Callers -> {"idle", "notify", "await", "asleep"}]
  /\ to_notify \in Nat
  /\ results \in [Offsets -> Results]
  /\ next_offset \in Nat
  /\ finished \in Nat
  /\ cancelled \in BOOLEAN
  /\ exception \in BOOLEAN
  /\ job \in Jobs
  /\ job_epoch \in Nat
  /\ active_workers \in Nat
  /\ job_active \in BOOLEAN
  /\ dispatch_active \in BOOLEAN
  /\ calls \in [Offsets -> Nat]
  /\ outcome \in Outcomes

InJob == {w \in Workers : pc[w] \in JobStates}

(* A worker holds the callback of a call only while that very call is      *)
(* still waiting: job_context_ points into the caller's stack frame, which *)
(* for_each_operation must not leave under a worker.                       *)
NoCallbackAfterReturn ==
  \A w \in InJob : dispatch_active /\ local[w].job = job

(* When the wait predicate of done_cv_ lets a call without an exception    *)
(* go, every slot of results_ it is about to scan was written by this      *)
(* dispatch: results_ is never cleared, so an earlier phase's failure or   *)
(* success could be read instead.                                          *)
NoStaleResultRead ==
  \A c \in Callers :
    caller[c] = "await" /\ JobDone /\ ~exception =>
      \A o \in 0 .. job.count - 1 : results[o].epoch = job.epoch

(* The pool keeps the phase executor contract: it implements PhaseContract *)
(* (at most one callback per operation, all joined at the return, the      *)
(* first failure in plan order reported, an exception only if one threw).  *)
ImplementsContract == Contract!Spec

(* A call that is in progress ends, however few workers were notified and  *)
(* whichever callbacks threw, unless the process is ended by a misuse.     *)
EveryCallReturns ==
  \A c \in Callers : caller[c] # "idle" ~> (caller[c] = "idle" \/ aborted)

(* A pool that is being destroyed, or whose construction failed half way,  *)
(* joins every worker that was started.                                    *)
ShutdownCompletes == life = "stopping" ~> (life = "gone" \/ aborted)
=============================================================================
