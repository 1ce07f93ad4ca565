-------------------------- MODULE WorkerPoolProofs --------------------------
(***************************************************************************)
(* What TLAPS proves of WorkerPool, for every number of workers, callers,  *)
(* operations and dispatches.                                              *)
(*                                                                         *)
(* NoCallbackAfterReturn is not inductive: the wait predicate of done_cv_  *)
(* reads the counter active_workers_, so the counter must be known to be   *)
(* the number of workers inside a job (ActiveCount), and the predicate of  *)
(* work_cv_ reads job_active_, which must be known to follow               *)
(* dispatch_active_ (ActiveTogether).  OneDispatch is the dispatch         *)
(* contract itself: one call at most is in flight.                         *)
(*                                                                         *)
(* The second half goes on to what the atomics do, and shows that a call   *)
(* without an exception reads only results of its own dispatch and that    *)
(* the pool implements PhaseContract.                                      *)
(***************************************************************************)
EXTENDS WorkerPool, FiniteSetTheorems, WellFoundedInduction, TLAPS

ActiveCount    == active_workers = Cardinality(InJob)
ActiveTogether == job_active = dispatch_active

OneDispatch ==
  \A c \in Callers : caller[c] # "idle" =>
    dispatch_active /\ \A d \in Callers \ {c} : caller[d] = "idle"

(* A dispatcher between its two critical sections has workers to notify.   *)
NotifierOwes == \A c \in Callers : caller[c] = "notify" => to_notify > 0

DispatchInv == ActiveTogether /\ OneDispatch /\ NotifierOwes

PoolInv == TypeOK /\ ActiveCount /\ DispatchInv /\ NoCallbackAfterReturn

-----------------------------------------------------------------------------
(* A nonempty set of naturals has a least element, and LeastOf is it: the  *)
(* first offset that the result scan of for_each_operation stops at.       *)
LEMMA LeastOfIsLeast ==
  ASSUME NEW S \in SUBSET Nat, S # {}
  PROVE  LeastOf(S) \in S /\ \A y \in S : LeastOf(S) <= y
<1>1. PICK x \in S : \A y \in S : ~(<<y, x>> \in OpToRel(<, Nat))
  BY NatLessThanWellFounded, WFMin
<1>2. ASSUME NEW y \in S, y < x PROVE FALSE
  <2>. DEFINE p == <<y, x>>
  <2>1. p \in Nat \X Nat /\ p[1] < p[2]
    BY <1>2
  <2>2. p \in OpToRel(<, Nat)
    BY <2>1 DEF OpToRel
  <2>. QED
    BY <2>2, <1>1
<1>3. \A y \in S : x <= y
  BY <1>2
<1>. QED
  BY <1>3 DEF LeastOf

(* The stride a dispatch cuts its range with is at least one.              *)
LEMMA StrideIsPositive ==
  ASSUME NEW n \in Nat
  PROVE  Stride(n) \in Nat \ {0}
<1>1. Cardinality(Workers) \in Nat \ {0}
  BY WorkersAssumption, FS_EmptySet, FS_CardinalityType
<1>. DEFINE d == Cardinality(Workers) * RunsPerWorker
<1>2. d \in Nat \ {0}
  BY <1>1, BoundsAssumption
<1>. HIDE DEF d
<1>3. n \div d \in Int
  BY <1>2
<1>4. AtLeastOne(n \div d) \in Nat \ {0}
  BY <1>3 DEF AtLeastOne
<1>. QED
  BY <1>4 DEF Stride, d

(* A range that is not empty is cut into one run at least.                 *)
LEMMA RunsArePositive ==
  ASSUME NEW n \in Nat \ {0}, NEW s \in Nat \ {0}
  PROVE  (n + s - 1) \div s \in Nat \ {0}
  OBVIOUS

-----------------------------------------------------------------------------
(* The number of workers in a job is a natural number, and it is zero only *)
(* if there is none.                                                       *)
LEMMA CountFacts ==
  ASSUME TypeOK, ActiveCount
  PROVE  /\ active_workers \in Nat
         /\ active_workers = 0 <=> InJob = {}
<1>1. IsFiniteSet(InJob)
  BY WorkersAssumption, FS_Subset DEF InJob
<1>. QED
  BY <1>1, FS_CardinalityType, FS_EmptySet DEF ActiveCount

(* A worker that leaves finds the counter at one or more.                  *)
LEMMA LeaverIsCounted ==
  ASSUME TypeOK, ActiveCount, NEW w \in Workers, pc[w] = "leave"
  PROVE  active_workers - 1 \in Nat
<1>1. w \in InJob
  BY DEF InJob, JobStates
<1>. QED
  BY <1>1, CountFacts

(* What a call reports belongs to the outcomes a call can have.            *)
LEMMA OutcomeType ==
  ASSUME TypeOK
  PROVE  SelectedOutcome \in Outcomes
<1>1. CASE FailedOffsets = {}
  BY <1>1 DEF SelectedOutcome, Outcomes
<1>2. CASE FailedOffsets # {}
  <2>1. FailedOffsets \subseteq Offsets /\ FailedOffsets \subseteq Nat
    BY BoundsAssumption DEF FailedOffsets, Offsets, TypeOK, Jobs
  <2>2. ReportedOffset \in Offsets
    BY <2>1, <1>2, LeastOfIsLeast DEF ReportedOffset
  <2>. QED
    BY <2>2 DEF SelectedOutcome, Outcomes
<1>. QED
  BY <1>1, <1>2

(* Every step keeps the types.  The counter is needed for WorkerLeaves,    *)
(* which decrements it.                                                    *)
LEMMA TypeStep ==
  ASSUME TypeOK, ActiveCount, NotifierOwes, [Next]_vars
  PROVE  TypeOK'
<1>. USE DEF lifeVars, threadVars, callerVars, atomicVars, dispatchVars
<1>1. ASSUME NEW w \in Workers, SpawnWorker(w) PROVE TypeOK'
  BY <1>1 DEF SpawnWorker, TypeOK, PoolStates
<1>2. CASE StopAndNotifyAll
  BY <1>2 DEF StopAndNotifyAll, AllAwake, TypeOK, PoolStates
<1>3. CASE JoinWorkers
  BY <1>3 DEF JoinWorkers, TypeOK
<1>4. ASSUME NEW c \in Callers, NEW n \in 1 .. MaxOps, NEW t \in BOOLEAN,
             Dispatch(c, n, t)
      PROVE  TypeOK'
  <2>1. n \in Nat \ {0} /\ n \in 0 .. MaxOps
    BY BoundsAssumption
  <2>2. Stride(n) \in Nat \ {0} /\ (n + Stride(n) - 1) \div Stride(n) \in Nat
    BY <2>1, StrideIsPositive, RunsArePositive
  <2>3. job' \in Jobs
    BY <1>4, <2>1, <2>2 DEF Dispatch, Jobs, TypeOK
  <2>4. to_notify' \in Nat
    BY <1>4, <2>2 DEF Dispatch
  <2>5. calls' \in [Offsets -> Nat] /\ job_epoch' \in Nat
    BY <1>4 DEF Dispatch, TypeOK
  <2>6. caller' \in [Callers -> {"idle", "notify", "await", "asleep"}]
    BY <1>4 DEF Dispatch, TypeOK
  <2>. QED
    BY <1>4, <2>3, <2>4, <2>5, <2>6 DEF Dispatch, TypeOK
<1>5. ASSUME NEW c \in Callers, NotifyAll(c) PROVE TypeOK'
  BY <1>5 DEF NotifyAll, AllAwake, TypeOK, PoolStates
<1>6. ASSUME NEW c \in Callers, NotifyOne(c) PROVE TypeOK'
  <2>1. to_notify' \in Nat
    BY <1>6 DEF NotifyOne, NotifierOwes, TypeOK
  <2>2. pc' \in [Workers -> JobStates \cup PoolStates]
    BY <1>6 DEF NotifyOne, TypeOK, PoolStates
  <2>3. caller' \in [Callers -> {"idle", "notify", "await", "asleep"}]
    BY <1>6 DEF NotifyOne, TypeOK
  <2>. QED
    BY <1>6, <2>1, <2>2, <2>3 DEF NotifyOne, TypeOK
<1>7. ASSUME NEW c \in Callers, AwaitReturns(c) PROVE TypeOK'
  <2>1. outcome' \in Outcomes
    BY <1>7, OutcomeType DEF AwaitReturns
  <2>. QED
    BY <1>7, <2>1 DEF AwaitReturns, TypeOK
<1>8. ASSUME NEW c \in Callers, AwaitSleeps(c) PROVE TypeOK'
  BY <1>8 DEF AwaitSleeps, TypeOK
<1>9. CASE Misuse
  BY <1>9 DEF Misuse, TypeOK
<1>10. ASSUME NEW w \in Workers, WorkerExits(w) \/ WorkerSleeps(w)
       PROVE  TypeOK'
  BY <1>10 DEF WorkerExits, WorkerSleeps, TypeOK, PoolStates
<1>11. ASSUME NEW w \in Workers, WorkerJoins(w) PROVE TypeOK'
  <2>1. [job |-> job, run |-> NoRun] \in [job : Jobs, run : Runs]
    BY DEF TypeOK, NoRun, Runs
  <2>. QED
    BY <1>11, <2>1 DEF WorkerJoins, TypeOK, JobStates
<1>12. ASSUME NEW w \in Workers, TestCancelled(w) \/ SkipCancelledRun(w)
       PROVE  TypeOK'
  BY <1>12 DEF TestCancelled, SkipCancelledRun, TypeOK, JobStates
<1>13. ASSUME NEW w \in Workers, ClaimRun(w) PROVE TypeOK'
  <2>. DEFINE begin == next_offset
              end   == LeastOf({begin + local[w].job.stride, local[w].job.count})
              run   == [begin |-> begin, end |-> end, pos |-> begin, done |-> 0]
  <2>1. begin \in Nat /\ local[w].job.stride \in Nat /\ local[w].job.count \in Nat
    BY BoundsAssumption DEF TypeOK, Jobs
  <2>2. run \in Runs
    <3>. DEFINE ends == {begin + local[w].job.stride, local[w].job.count}
    <3>0. ends \in SUBSET Nat /\ ends # {}
      BY <2>1
    <3>1. end \in ends
      BY <3>0, LeastOfIsLeast
    <3>. QED
      BY <3>1, <2>1 DEF Runs
  <2>3. next_offset' \in Nat
    BY <1>13, <2>1 DEF ClaimRun, AfterClaim
  <2>4. local' \in [Workers -> [job : Jobs, run : Runs]]
    <3>1. local' = local \/ local' = [local EXCEPT ![w].run = run]
      BY <1>13 DEF ClaimRun
    <3>. QED
      BY <3>1, <2>2 DEF TypeOK
  <2>5. pc' \in [Workers -> JobStates \cup PoolStates]
    BY <1>13 DEF ClaimRun, TypeOK, JobStates
  <2>. QED
    BY <1>13, <2>3, <2>4, <2>5 DEF ClaimRun, TypeOK
<1>14. ASSUME NEW w \in Workers, BeginOperation(w) PROVE TypeOK'
  <2>. DEFINE pos == local[w].run.pos
  <2>1. calls' \in [Offsets -> Nat]
    <3>1. calls' = [calls EXCEPT ![pos] = calls[pos] + 1]
      BY <1>14 DEF BeginOperation
    <3>. HIDE DEF pos
    <3>2. CASE pos \in Offsets
      BY <3>1, <3>2 DEF TypeOK
    <3>3. CASE pos \notin Offsets
      BY <3>1, <3>3 DEF TypeOK
    <3>. QED
      BY <3>2, <3>3
  <2>. QED
    BY <1>14, <2>1 DEF BeginOperation, TypeOK, JobStates
<1>15. ASSUME NEW w \in Workers, NEW s \in Statuses, CallbackReturns(w, s)
       PROVE  TypeOK'
  <2>1. [epoch |-> local[w].job.epoch, status |-> s] \in Results
    BY DEF TypeOK, Jobs, Results
  <2>2. results' \in [Offsets -> Results]
    BY <1>15, <2>1 DEF CallbackReturns, TypeOK
  <2>3. /\ local[w].run.pos + 1 \in Nat /\ local[w].run.done + 1 \in Nat
        /\ local[w].run.begin \in Nat /\ local[w].run.end \in Nat
    BY DEF TypeOK, Runs
  <2>4. local' \in [Workers -> [job : Jobs, run : Runs]]
    BY <1>15, <2>3 DEF CallbackReturns, TypeOK, Runs
  <2>. QED
    BY <1>15, <2>2, <2>4 DEF CallbackReturns, TypeOK, JobStates
<1>16. ASSUME NEW w \in Workers, CallbackThrows(w) \/ RecordException(w)
       PROVE  TypeOK'
  BY <1>16 DEF CallbackThrows, RecordException, TypeOK, JobStates
<1>17. ASSUME NEW w \in Workers, PublishRun(w) PROVE TypeOK'
  <2>1. finished + local[w].run.done \in Nat
    BY DEF TypeOK, Runs
  <2>2. local' \in [Workers -> [job : Jobs, run : Runs]]
    BY <1>17 DEF PublishRun, TypeOK, NoRun, Runs
  <2>. QED
    BY <1>17, <2>1, <2>2 DEF PublishRun, TypeOK, JobStates
<1>18. ASSUME NEW w \in Workers, WorkerLeaves(w) PROVE TypeOK'
  <2>1. active_workers' \in Nat
    BY <1>18, LeaverIsCounted DEF WorkerLeaves
  <2>2. IdleLocal \in [job : Jobs, run : Runs]
    BY BoundsAssumption DEF IdleLocal, NoJob, NoRun, Jobs, Runs
  <2>3. local' \in [Workers -> [job : Jobs, run : Runs]]
    BY <1>18, <2>2 DEF WorkerLeaves, TypeOK
  <2>4. caller' \in [Callers -> {"idle", "notify", "await", "asleep"}]
    BY <1>18 DEF WorkerLeaves, TypeOK
  <2>. QED
    BY <1>18, <2>1, <2>3, <2>4 DEF WorkerLeaves, TypeOK, PoolStates
<1>19. CASE SpuriousWake
  BY <1>19 DEF SpuriousWake, TypeOK, PoolStates
<1>20. CASE UNCHANGED vars
  BY <1>20 DEF vars, TypeOK
<1>. QED
  BY <1>1, <1>2, <1>3, <1>4, <1>5, <1>6, <1>7, <1>8, <1>9, <1>10, <1>11,
     <1>12, <1>13, <1>14, <1>15, <1>16, <1>17, <1>18, <1>19, <1>20
  DEF Next, Step, OwnerStep, SpawnFails, Destroy, CallerStep, WorkerStep,
      Finished

-----------------------------------------------------------------------------
(* The steps that leave every worker on its side of the job boundary.      *)
SameJobs ==
  /\ InJob' = InJob
  /\ active_workers' = active_workers
  /\ \A w \in InJob : local'[w].job = local[w].job

\* Steps that leave what is held alone.
LEMMA SameJobsSteps ==
  ASSUME TypeOK, [Next]_vars,
         ~ \E w \in Workers : WorkerJoins(w) \/ WorkerLeaves(w)
  PROVE  SameJobs
<1>. USE DEF SameJobs, InJob, JobStates, TypeOK
<1>. USE DEF lifeVars, threadVars, callerVars, atomicVars, dispatchVars
<1>1. ASSUME NEW w \in Workers, SpawnWorker(w) PROVE SameJobs
  BY <1>1 DEF SpawnWorker
<1>2. CASE StopAndNotifyAll
  BY <1>2 DEF StopAndNotifyAll, AllAwake
<1>3. CASE JoinWorkers
  BY <1>3 DEF JoinWorkers
<1>4. ASSUME NEW c \in Callers, NEW n \in 1 .. MaxOps, NEW t \in BOOLEAN,
             Dispatch(c, n, t)
      PROVE  SameJobs
  BY <1>4 DEF Dispatch
<1>5. ASSUME NEW c \in Callers, NotifyAll(c) PROVE SameJobs
  BY <1>5 DEF NotifyAll, AllAwake
<1>6. ASSUME NEW c \in Callers, NotifyOne(c) PROVE SameJobs
  BY <1>6 DEF NotifyOne
<1>7. ASSUME NEW c \in Callers, AwaitReturns(c) \/ AwaitSleeps(c)
      PROVE  SameJobs
  BY <1>7 DEF AwaitReturns, AwaitSleeps
<1>8. CASE Misuse
  BY <1>8 DEF Misuse
<1>9. ASSUME NEW w \in Workers, WorkerExits(w) \/ WorkerSleeps(w)
      PROVE  SameJobs
  BY <1>9 DEF WorkerExits, WorkerSleeps
<1>10. ASSUME NEW w \in Workers, TestCancelled(w) \/ SkipCancelledRun(w)
       PROVE  SameJobs
  BY <1>10 DEF TestCancelled, SkipCancelledRun
<1>11. ASSUME NEW w \in Workers, ClaimRun(w) PROVE SameJobs
  <2>. DEFINE begin == next_offset
              end   == LeastOf({begin + local[w].job.stride, local[w].job.count})
              run   == [begin |-> begin, end |-> end, pos |-> begin, done |-> 0]
  <2>1. local' = local \/ local' = [local EXCEPT ![w].run = run]
    BY <1>11 DEF ClaimRun
  <2>. HIDE DEF run
  <2>2. \A v \in InJob : local'[v].job = local[v].job
    BY <2>1
  <2>. QED
    BY <1>11, <2>2 DEF ClaimRun
<1>12. ASSUME NEW w \in Workers, BeginOperation(w) PROVE SameJobs
  BY <1>12 DEF BeginOperation
<1>13. ASSUME NEW w \in Workers, NEW s \in Statuses, CallbackReturns(w, s)
       PROVE  SameJobs
  BY <1>13 DEF CallbackReturns
<1>14. ASSUME NEW w \in Workers, CallbackThrows(w) \/ RecordException(w)
       PROVE  SameJobs
  BY <1>14 DEF CallbackThrows, RecordException
<1>15. ASSUME NEW w \in Workers, PublishRun(w) PROVE SameJobs
  BY <1>15 DEF PublishRun
<1>16. CASE SpuriousWake
  BY <1>16 DEF SpuriousWake
<1>17. CASE UNCHANGED vars
  BY <1>17 DEF vars
<1>. QED
  BY <1>1, <1>2, <1>3, <1>4, <1>5, <1>6, <1>7, <1>8, <1>9, <1>10, <1>11,
     <1>12, <1>13, <1>14, <1>15, <1>16, <1>17
  DEF Next, Step, OwnerStep, SpawnFails, Destroy, CallerStep, WorkerStep,
      Finished

(* active_workers_ counts the workers that are in a job.                   *)
LEMMA CountStep ==
  ASSUME TypeOK, ActiveCount, [Next]_vars
  PROVE  ActiveCount'
<1>. USE DEF ActiveCount
<1>0. IsFiniteSet(InJob)
  BY WorkersAssumption, FS_Subset DEF InJob
<1>1. ASSUME NEW w \in Workers, WorkerJoins(w) PROVE ActiveCount'
  <2>1. w \notin InJob /\ InJob' = InJob \cup {w}
    BY <1>1 DEF WorkerJoins, InJob, JobStates, TypeOK
  <2>. QED
    BY <1>0, <1>1, <2>1, FS_AddElement DEF WorkerJoins
<1>2. ASSUME NEW w \in Workers, WorkerLeaves(w) PROVE ActiveCount'
  <2>1. w \in InJob /\ InJob' = InJob \ {w}
    BY <1>2 DEF WorkerLeaves, InJob, JobStates, TypeOK
  <2>. QED
    BY <1>0, <1>2, <2>1, FS_RemoveElement DEF WorkerLeaves
<1>. QED
  BY <1>1, <1>2, SameJobsSteps DEF SameJobs

(* A critical section of the dispatcher keeps the dispatch contract; no    *)
(* other step touches it, except that the last worker to leave and         *)
(* spurious wakeups let the sleeping dispatcher test its predicate again.  *)
LEMMA DispatchStep ==
  ASSUME TypeOK, DispatchInv, [Next]_vars
  PROVE  DispatchInv'
<1>. USE DEF DispatchInv, ActiveTogether, OneDispatch, NotifierOwes, TypeOK
<1>. USE DEF lifeVars, threadVars, callerVars, atomicVars, dispatchVars
<1>1. ASSUME NEW c \in Callers, NEW n \in 1 .. MaxOps, NEW t \in BOOLEAN,
             Dispatch(c, n, t)
      PROVE  DispatchInv'
  <2>1. n \in Nat \ {0}
    BY BoundsAssumption
  <2>2. Stride(n) \in Nat \ {0}
    BY <2>1, StrideIsPositive
  <2>3. (n + Stride(n) - 1) \div Stride(n) \in Nat \ {0}
    BY <2>1, <2>2, RunsArePositive
  <2>4. to_notify' > 0
    BY <1>1, <2>3 DEF Dispatch
  <2>5. \A d \in Callers : caller[d] = "idle"
    BY <1>1 DEF Dispatch
  <2>. QED
    BY <1>1, <2>4, <2>5 DEF Dispatch
<1>2. ASSUME NEW c \in Callers, NotifyAll(c) PROVE DispatchInv'
  BY <1>2 DEF NotifyAll
<1>3. ASSUME NEW c \in Callers, NotifyOne(c) PROVE DispatchInv'
  <2>1. to_notify' = to_notify - 1 /\ to_notify > 0
    BY <1>3 DEF NotifyOne
  <2>2. caller' = [caller EXCEPT ![c] = IF to_notify = 1 THEN "await" ELSE @]
    BY <1>3 DEF NotifyOne
  <2>3. UNCHANGED dispatchVars
    BY <1>3 DEF NotifyOne
  <2>4. OneDispatch' /\ ActiveTogether'
    BY <1>3, <2>2, <2>3 DEF NotifyOne
  <2>5. NotifierOwes'
    BY <1>3, <2>1, <2>2 DEF NotifyOne
  <2>. QED
    BY <2>4, <2>5
<1>4. ASSUME NEW c \in Callers, AwaitReturns(c) PROVE DispatchInv'
  BY <1>4 DEF AwaitReturns
<1>5. ASSUME NEW c \in Callers, AwaitSleeps(c) PROVE DispatchInv'
  BY <1>5 DEF AwaitSleeps
<1>6. ASSUME NEW w \in Workers, WorkerLeaves(w) PROVE DispatchInv'
  BY <1>6 DEF WorkerLeaves
<1>7. CASE SpuriousWake
  BY <1>7 DEF SpuriousWake
<1>8. ASSUME UNCHANGED <<caller, to_notify, job_active, dispatch_active>>
      PROVE  DispatchInv'
  BY <1>8
<1>9. ASSUME NEW w \in Workers, WorkerStep(w), ~WorkerLeaves(w)
      PROVE  UNCHANGED <<caller, to_notify, job_active, dispatch_active>>
  BY <1>9 DEF WorkerStep, WorkerExits, WorkerJoins, WorkerSleeps,
       TestCancelled, ClaimRun, BeginOperation, SkipCancelledRun,
       CallbackReturns, CallbackThrows, RecordException, PublishRun
<1>10. CASE OwnerStep \/ Misuse \/ UNCHANGED vars
  BY <1>8, <1>10 DEF OwnerStep, SpawnWorker, SpawnFails, Destroy,
       StopAndNotifyAll, JoinWorkers, Misuse, vars
<1>. QED
  BY <1>1, <1>2, <1>3, <1>4, <1>5, <1>6, <1>7, <1>8, <1>9, <1>10
  DEF Next, Step, CallerStep, Finished

(* A worker copies the callback only of the call in progress, and that     *)
(* call returns, or a next one begins, only when nobody is in a job.       *)
LEMMA CallbackStep ==
  ASSUME TypeOK, ActiveCount, DispatchInv, NoCallbackAfterReturn, [Next]_vars
  PROVE  NoCallbackAfterReturn'
<1>. USE DEF NoCallbackAfterReturn
<1>. USE DEF lifeVars, threadVars, callerVars, atomicVars, dispatchVars
<1>1. ASSUME NEW w \in Workers, WorkerJoins(w) PROVE NoCallbackAfterReturn'
  <2>1. InJob' = InJob \cup {w} /\ dispatch_active
    BY <1>1 DEF WorkerJoins, InJob, JobStates, TypeOK, DispatchInv,
                ActiveTogether
  <2>2. local'[w].job = job /\ \A v \in Workers \ {w} : local'[v] = local[v]
    BY <1>1 DEF WorkerJoins, TypeOK
  <2>3. UNCHANGED <<job, dispatch_active>>
    BY <1>1 DEF WorkerJoins
  <2>4. \A v \in InJob' : v = w \/ (v \in InJob /\ v \in Workers)
    BY <2>1 DEF InJob
  <2>. QED
    BY <2>1, <2>2, <2>3, <2>4
<1>2. ASSUME NEW w \in Workers, WorkerLeaves(w) PROVE NoCallbackAfterReturn'
  <2>1. \A v \in InJob' : v \in InJob /\ local'[v] = local[v]
    BY <1>2 DEF WorkerLeaves, InJob, JobStates, TypeOK
  <2>2. UNCHANGED <<job, dispatch_active>>
    BY <1>2 DEF WorkerLeaves
  <2>. QED
    BY <2>1, <2>2
<1>3. ASSUME NEW c \in Callers, NEW n \in 1 .. MaxOps, NEW t \in BOOLEAN,
             Dispatch(c, n, t)
      PROVE  NoCallbackAfterReturn'
  <2>1. InJob = {}
    BY <1>3 DEF Dispatch
  <2>2. InJob' = {}
    BY <1>3, <2>1 DEF Dispatch, InJob
  <2>. QED
    BY <2>2
<1>4. ASSUME NEW c \in Callers, AwaitReturns(c) PROVE NoCallbackAfterReturn'
  <2>1. InJob = {}
    BY <1>4, CountFacts DEF AwaitReturns, JobDone
  <2>2. InJob' = {}
    BY <1>4, <2>1 DEF AwaitReturns, InJob
  <2>. QED
    BY <2>2
<1>5. CASE SameJobs /\ UNCHANGED <<job, dispatch_active>>
  BY <1>5 DEF SameJobs
<1>6. ASSUME NEW w \in Workers, WorkerStep(w)
      PROVE  UNCHANGED <<job, dispatch_active>>
  BY <1>6 DEF WorkerStep, WorkerExits, WorkerJoins, WorkerSleeps,
       TestCancelled, ClaimRun, BeginOperation, SkipCancelledRun,
       CallbackReturns, CallbackThrows, RecordException, PublishRun,
       WorkerLeaves
<1>7. ASSUME NEW c \in Callers, NotifyAll(c) \/ NotifyOne(c) \/ AwaitSleeps(c)
      PROVE  UNCHANGED <<job, dispatch_active>>
  BY <1>7 DEF NotifyAll, NotifyOne, AwaitSleeps
<1>8. CASE OwnerStep \/ Misuse \/ SpuriousWake \/ UNCHANGED vars
  <2>1. UNCHANGED <<job, dispatch_active>>
    BY <1>8 DEF OwnerStep, SpawnWorker, SpawnFails, Destroy,
         StopAndNotifyAll, JoinWorkers, Misuse, SpuriousWake, vars
  <2>2. ASSUME NEW w \in Workers
        PROVE  ~WorkerJoins(w) /\ ~WorkerLeaves(w)
    BY <1>8 DEF OwnerStep, SpawnWorker, SpawnFails, Destroy,
         StopAndNotifyAll, JoinWorkers, Misuse, SpuriousWake, vars,
         WorkerJoins, WorkerLeaves, TypeOK
  <2>. QED
    BY <1>5, <2>1, <2>2, SameJobsSteps
<1>. QED
  BY <1>1, <1>2, <1>3, <1>4, <1>5, <1>6, <1>7, <1>8, SameJobsSteps
  DEF Next, Step, CallerStep, Finished

-----------------------------------------------------------------------------
\* The idle pool satisfies the invariant.
LEMMA InitInv == ASSUME Init PROVE PoolInv
<1>. USE DEF Init
<1>1. TypeOK
  <2>1. NoJob \in Jobs /\ NoRun \in Runs /\ DefaultResult \in Results
    BY BoundsAssumption DEF NoJob, Jobs, NoRun, Runs, DefaultResult, Results,
       Statuses
  <2>2. IdleLocal \in [job : Jobs, run : Runs]
    BY <2>1 DEF IdleLocal
  <2>. QED
    BY <2>1, <2>2 DEF TypeOK, PoolStates, Outcomes
<1>2. InJob = {}
  BY DEF InJob, JobStates
<1>3. ActiveCount
  BY <1>2, FS_EmptySet DEF ActiveCount
<1>4. DispatchInv
  BY DEF DispatchInv, ActiveTogether, OneDispatch, NotifierOwes
<1>. QED
  BY <1>1, <1>2, <1>3, <1>4 DEF PoolInv, NoCallbackAfterReturn

(* The inductive invariant of the pool.                                    *)
THEOREM PoolInvariant == Spec => []PoolInv
<1>1. PoolInv /\ [Next]_vars => PoolInv'
  <2>. SUFFICES ASSUME PoolInv, [Next]_vars PROVE PoolInv'
    OBVIOUS
  <2>1. TypeOK'
    BY TypeStep DEF PoolInv, DispatchInv
  <2>2. ActiveCount' /\ DispatchInv'
    BY CountStep, DispatchStep DEF PoolInv
  <2>3. NoCallbackAfterReturn'
    BY CallbackStep DEF PoolInv
  <2>. QED
    BY <2>1, <2>2, <2>3 DEF PoolInv
<1>. QED
  BY InitInv, <1>1, PTL DEF Spec

(* Every variable keeps its type.                                          *)
THEOREM TypeCorrect == Spec => []TypeOK
<1>1. PoolInv => TypeOK
  BY DEF PoolInv
<1>. QED
  BY PoolInvariant, <1>1, PTL

(* for_each_operation leaves no worker behind: whatever the number of      *)
(* workers, callers, operations and dispatches, a worker that holds the    *)
(* callback of a call does so while that call is in progress.              *)
THEOREM CallbacksJoined == Spec => []NoCallbackAfterReturn
<1>1. PoolInv => NoCallbackAfterReturn
  BY DEF PoolInv
<1>. QED
  BY PoolInvariant, <1>1, PTL

-----------------------------------------------------------------------------
(* The contract.  What next_offset_ has handed out is cut into runs that   *)
(* do not overlap; a worker's run is written up to its position and        *)
(* untouched after it; finished_operations_ counts what is written and in  *)
(* nobody's run.                                                           *)

RunStates == {"operation", "invoke", "record", "publish", "publish_and_leave"}

Holding(w) == pc[w] \in RunStates
Run(w)     == local[w].run
Range0     == 0 .. job.count - 1
Written(o) == results[o].epoch = job.epoch

(* A worker in state p with run r.                                         *)
RunOK(p, r) ==
  p \in RunStates =>
    /\ r.begin <= r.pos /\ r.pos <= r.end /\ r.begin < r.end
    /\ r.end <= job.count /\ r.end <= next_offset /\ r.done = r.pos - r.begin
    /\ p \in {"operation", "invoke", "record"} => r.pos < r.end
    /\ \A o \in r.begin .. r.pos - 1 : Written(o)
    /\ \A o \in r.pos .. r.end - 1 : ~Written(o)
    /\ \A o \in r.pos + 1 .. r.end - 1 : calls[o] = 0
    /\ p = "operation" => calls[r.pos] = 0
    /\ p \in {"invoke", "record"} => calls[r.pos] # 0

(* What no worker has claimed yet is untouched in this dispatch.           *)
Untouched ==
  \A o \in Range0 : o >= next_offset => calls[o] = 0 /\ ~Written(o)

(* Results are never of a later dispatch, and come from a callback.        *)
ResultsArePast ==
  /\ job.epoch = job_epoch
  /\ \A o \in Offsets : results[o].epoch <= job_epoch
  /\ \A o \in Range0 : Written(o) => calls[o] # 0

RunsOK == \A w \in Workers : RunOK(pc[w], Run(w))

Apart ==
  \A v, w \in Workers : v # w /\ Holding(v) /\ Holding(w) =>
    Run(v).end <= Run(w).begin \/ Run(w).end <= Run(v).begin

RunInv == ResultsArePast /\ Untouched /\ RunsOK /\ Apart

Owns(w, o) == Holding(w) /\ o \in Run(w).begin .. Run(w).end - 1

(* finished_operations_ counts the operations of published runs.           *)
Published == {o \in Range0 : Written(o) /\ \A w \in Workers : ~Owns(w, o)}
CountInv == finished = Cardinality(Published)

(* An operation that threw: begun, never written, and nobody's next one.   *)
Threw(o) ==
  /\ o \in Range0 /\ o < next_offset /\ calls[o] # 0 /\ ~Written(o)
  /\ \A w \in Workers : pc[w] \in {"operation", "invoke"} => Run(w).pos # o
CauseInv == exception => \E o \in Range0 : Threw(o)

ContractInv == PoolInv /\ RunInv /\ CountInv /\ CauseInv

-----------------------------------------------------------------------------
(* The steps that touch no run: everything but claiming, running and       *)
(* publishing one, and the dispatch.                                       *)
Quiet ==
  /\ UNCHANGED <<results, calls, next_offset, finished, job, job_epoch, exception>>
  /\ \A w \in Workers : Holding(w) \/ Holding(w)' =>
       pc'[w] = pc[w] /\ local'[w] = local[w]

RunStep(w) ==
  \/ ClaimRun(w) \/ BeginOperation(w) \/ SkipCancelledRun(w)
  \/ \E s \in Statuses : CallbackReturns(w, s)
  \/ CallbackThrows(w) \/ RecordException(w) \/ PublishRun(w)

(* Every step is quiet, a step of a run, or a dispatch.                    *)
LEMMA StepSorts ==
  ASSUME TypeOK, [Next]_vars
  PROVE  \/ Quiet
         \/ \E w \in Workers : RunStep(w)
         \/ \E c \in Callers, n \in 1 .. MaxOps, t \in BOOLEAN : Dispatch(c, n, t)
  <1> USE DEF Quiet, Holding, RunStates, TypeOK
  <1> USE DEF lifeVars, threadVars, callerVars, atomicVars, dispatchVars
  <1>1. ASSUME NEW w \in Workers, SpawnWorker(w) PROVE Quiet
    BY <1>1 DEF SpawnWorker
  <1>2. CASE StopAndNotifyAll
    BY <1>2 DEF StopAndNotifyAll, AllAwake
  <1>3. CASE JoinWorkers \/ Misuse
    BY <1>3 DEF JoinWorkers, Misuse
  <1>4. ASSUME NEW c \in Callers, NotifyAll(c) \/ NotifyOne(c) PROVE Quiet
    BY <1>4 DEF NotifyAll, NotifyOne, AllAwake
  <1>5. ASSUME NEW c \in Callers, AwaitReturns(c) \/ AwaitSleeps(c) PROVE Quiet
    BY <1>5 DEF AwaitReturns, AwaitSleeps
  <1>6. ASSUME NEW w \in Workers, WorkerExits(w) \/ WorkerSleeps(w) PROVE Quiet
    BY <1>6 DEF WorkerExits, WorkerSleeps
  <1>7. ASSUME NEW w \in Workers, WorkerJoins(w) PROVE Quiet
    BY <1>7 DEF WorkerJoins
  <1>8. ASSUME NEW w \in Workers, TestCancelled(w) PROVE Quiet
    BY <1>8 DEF TestCancelled
  <1>9. ASSUME NEW w \in Workers, WorkerLeaves(w) PROVE Quiet
    BY <1>9 DEF WorkerLeaves
  <1>10. CASE SpuriousWake
    BY <1>10 DEF SpuriousWake
  <1>11. CASE UNCHANGED vars
    BY <1>11 DEF vars
  <1> QED
    BY <1>1, <1>2, <1>3, <1>4, <1>5, <1>6, <1>7, <1>8, <1>9, <1>10, <1>11
    DEF Next, Step, OwnerStep, SpawnFails, Destroy, CallerStep, WorkerStep,
        RunStep, Finished

(* Facts about a worker in a run that the steps rely on.                   *)
LEMMA RunFacts ==
  ASSUME PoolInv, RunInv, NEW w \in Workers, Holding(w)
  PROVE  /\ Run(w) \in Runs /\ local[w].job = job /\ dispatch_active
         /\ RunOK(pc[w], Run(w))
         /\ job.count \in Nat /\ job.count <= MaxOps /\ job.epoch \in Nat
         /\ Run(w).end <= MaxOps
         /\ \A o \in Run(w).begin .. Run(w).end - 1 : o \in Offsets /\ o \in Range0
         /\ \A v \in Workers \ {w} : \A o \in Run(w).begin .. Run(w).end - 1 : ~Owns(v, o)
         /\ \A v \in Workers \ {w} : Holding(v) => Run(v) \in Runs
  <1>1. Run(w) \in Runs /\ \A v \in Workers : Run(v) \in Runs
    BY DEF PoolInv, TypeOK, Run
  <1>2. local[w].job = job /\ dispatch_active
    BY DEF PoolInv, NoCallbackAfterReturn, InJob, Holding, RunStates, JobStates
  <1>3. RunOK(pc[w], Run(w))
    BY DEF RunInv, RunsOK
  <1>4. job.count \in Nat /\ job.count <= MaxOps /\ job.epoch \in Nat
    BY BoundsAssumption DEF PoolInv, TypeOK, Jobs
  <1>5. /\ Run(w).end <= job.count
        /\ Run(w).begin \in Nat /\ Run(w).end \in Nat /\ Run(w).pos \in Nat
    BY <1>1, <1>3 DEF RunOK, Holding, Runs
  <1>6. Run(w).end <= MaxOps /\ MaxOps \in Nat
    BY <1>4, <1>5, BoundsAssumption
  <1>7. \A o \in Run(w).begin .. Run(w).end - 1 : o \in Offsets /\ o \in Range0
    BY <1>4, <1>5, <1>6 DEF Offsets, Range0
  <1>8. ASSUME NEW v \in Workers \ {w}, NEW o \in Run(w).begin .. Run(w).end - 1
        PROVE  ~Owns(v, o)
    <2>1. Holding(v) => Run(v).end <= Run(w).begin \/ Run(w).end <= Run(v).begin
      BY DEF RunInv, Apart
    <2>2. Run(v).begin \in Nat /\ Run(v).end \in Nat
      BY <1>1 DEF Runs
    <2> QED  BY <1>5, <2>1, <2>2 DEF Owns
  <1> QED  BY <1>1, <1>2, <1>3, <1>4, <1>6, <1>7, <1>8

-----------------------------------------------------------------------------
(* Runs under the steps.                                                   *)

(* What is written and begun is the same outside of one offset of w's run, *)
(* and nobody but w moves.                                                 *)
OnlyAt(w, p) ==
  /\ UNCHANGED <<job, job_epoch, next_offset>>
  /\ \A o \in Offsets : o # p => results'[o] = results[o] /\ calls'[o] = calls[o]
  /\ \A v \in Workers : v # w => pc'[v] = pc[v] /\ local'[v] = local[v]

(* A step at the position of w's run keeps the run of every other worker.  *)
LEMMA OthersKeepRuns ==
  ASSUME PoolInv, RunInv, NEW w \in Workers, Holding(w), Run(w).pos < Run(w).end,
         OnlyAt(w, Run(w).pos), NEW v \in Workers, v # w
  PROVE  RunOK(pc[v], Run(v))'
  <1> DEFINE p == Run(w).pos
  <1>1. RunOK(pc[v], Run(v))
    BY DEF RunInv, RunsOK
  <1>2. pc'[v] = pc[v] /\ Run(v)' = Run(v) /\ UNCHANGED <<job, next_offset>>
    BY DEF OnlyAt, Run
  <1>3. SUFFICES ASSUME Holding(v) PROVE RunOK(pc[v], Run(v))'
    BY <1>2 DEF RunOK, Holding
  <1>4. p \in Run(w).begin .. Run(w).end - 1 /\ ~Owns(v, p)
    <2>1. p \in Run(w).begin .. Run(w).end - 1
      BY RunFacts DEF RunOK, Holding, Runs
    <2> QED  BY <2>1, RunFacts
  <1>5. /\ Run(v) \in Runs /\ RunOK(pc[v], Run(v))
        /\ \A o \in Run(v).begin .. Run(v).end - 1 : o \in Offsets
    BY <1>3, RunFacts
  <1>6. \A o \in Run(v).begin .. Run(v).end - 1 : o # p
    BY <1>3, <1>4 DEF Owns
  <1>7. \A o \in Run(v).begin .. Run(v).end - 1 :
          results'[o] = results[o] /\ calls'[o] = calls[o]
    BY <1>5, <1>6 DEF OnlyAt
  <1>8. /\ Run(v).begin \in Nat /\ Run(v).pos \in Nat /\ Run(v).end \in Nat
        /\ Run(v).begin <= Run(v).pos /\ Run(v).pos <= Run(v).end
    BY <1>3, <1>5 DEF RunOK, Holding, Runs
  <1>9. /\ \A o \in Run(v).begin .. Run(v).pos - 1 : Written(o)' = Written(o)
        /\ \A o \in Run(v).pos .. Run(v).end - 1 : Written(o)' = Written(o) /\ calls'[o] = calls[o]
    BY <1>2, <1>7, <1>8 DEF Written
  <1> HIDE DEF p
  <1> QED  BY <1>1, <1>2, <1>8, <1>9 DEF RunOK

(* Steps that keep next_offset_, results and beginnings outside of one     *)
(* offset, and the bounds of the run they are in.                          *)
LEMMA OneRunChanges ==
  ASSUME PoolInv, RunInv, NEW w \in Workers, Holding(w), Run(w).pos < Run(w).end,
         OnlyAt(w, Run(w).pos),
         Holding(w)', Run(w)'.begin = Run(w).begin, Run(w)'.end = Run(w).end,
         RunOK(pc[w], Run(w))',
         results'[Run(w).pos].epoch \in {results[Run(w).pos].epoch, job.epoch},
         calls'[Run(w).pos] # 0 \/ UNCHANGED <<results, calls>>
  PROVE  RunInv'
  <1> DEFINE p == Run(w).pos
  <1>1. RunsOK'
    BY OthersKeepRuns DEF RunsOK
  <1>2. Apart'
    <2>1. \A v \in Workers : v # w => (Holding(v)' <=> Holding(v)) /\ Run(v)' = Run(v)
      BY DEF OnlyAt, Holding, Run
    <2> QED  BY <2>1 DEF Apart, RunInv
  <1>3. /\ p \in Offsets /\ p \in Range0 /\ p < next_offset /\ next_offset \in Nat
        /\ \A o \in Range0 : o \in Offsets
        /\ Range0' = Range0
    <2>1. p \in Run(w).begin .. Run(w).end - 1 /\ p < next_offset
      BY RunFacts DEF RunOK, Holding, Runs, PoolInv, TypeOK
    <2>2. \A o \in Range0 : o \in Offsets
      BY RunFacts, BoundsAssumption DEF Range0, Offsets
    <2>3. Range0' = Range0
      BY DEF Range0, OnlyAt
    <2> QED  BY <2>1, <2>2, <2>3, RunFacts DEF PoolInv, TypeOK
  <1>4. Untouched'
    <2> SUFFICES ASSUME NEW o \in Range0, o >= next_offset
                 PROVE  calls'[o] = 0 /\ ~Written(o)'
      <3>1. Range0' = Range0 /\ next_offset' = next_offset
        BY <1>3 DEF OnlyAt
      <3> QED  BY <3>1 DEF Untouched, Written
    <2>1. o # p /\ o \in Offsets
      BY <1>3 DEF Range0
    <2>2. results'[o] = results[o] /\ calls'[o] = calls[o] /\ UNCHANGED job
      BY <2>1 DEF OnlyAt
    <2>3. calls[o] = 0 /\ ~Written(o)
      BY DEF RunInv, Untouched
    <2> QED  BY <2>2, <2>3 DEF Written
  <1>5. ResultsArePast'
    BY <1>3 DEF ResultsArePast, RunInv, OnlyAt, Written, PoolInv, TypeOK
  <1> QED  BY <1>1, <1>2, <1>4, <1>5 DEF RunInv

(* A step that touches no run keeps them all.                              *)
LEMMA QuietKeepsRuns ==
  ASSUME PoolInv, RunInv, Quiet
  PROVE  RunInv'
  <1>1. \A w \in Workers : /\ Holding(w)' <=> Holding(w)
                           /\ Holding(w) => pc'[w] = pc[w] /\ Run(w)' = Run(w)
    BY DEF Quiet, Holding, Run
  <1>2. Range0' = Range0 /\ \A o : Written(o)' <=> Written(o)
    BY DEF Quiet, Range0, Written
  <1>3. RunsOK'
    <2> SUFFICES ASSUME NEW w \in Workers, Holding(w) PROVE RunOK(pc[w], Run(w))'
      BY <1>1 DEF RunsOK, RunOK, Holding
    <2>1. RunOK(pc[w], Run(w)) /\ pc'[w] = pc[w] /\ Run(w)' = Run(w)
      BY <1>1 DEF RunInv, RunsOK
    <2>2. UNCHANGED <<results, calls, next_offset, job>>
      BY DEF Quiet
    <2> QED  BY <1>2, <2>1, <2>2 DEF RunOK
  <1>4. Apart'
    BY <1>1 DEF Apart, RunInv
  <1>5. Untouched' /\ ResultsArePast'
    BY <1>2 DEF Untouched, ResultsArePast, RunInv, Quiet
  <1> QED  BY <1>3, <1>4, <1>5 DEF RunInv

(* Claiming: the new run begins where next_offset_ was, and everything     *)
(* handed out before ends there, so the new run is disjoint from the old.  *)
LEMMA ClaimKeepsRuns ==
  ASSUME PoolInv, RunInv, NEW w \in Workers, ClaimRun(w)
  PROVE  /\ RunInv' /\ UNCHANGED <<results, calls, job, job_epoch, finished, exception>>
         /\ next_offset \in Nat /\ next_offset' >= next_offset /\ next_offset' \in Nat
         /\ \A v \in Workers : v # w => pc'[v] = pc[v] /\ local'[v] = local[v]
         /\ ~Holding(w)
         /\ Holding(w)' => Run(w)'.begin = next_offset /\ Run(w)'.pos = next_offset
  <1> DEFINE b == next_offset
             e == LeastOf({b + local[w].job.stride, local[w].job.count})
  <1>1. local[w].job = job
    BY DEF PoolInv, NoCallbackAfterReturn, InJob, JobStates, ClaimRun
  <1>2. /\ b \in Nat /\ job.stride \in Nat \ {0} /\ job.count \in Nat /\ job.count <= MaxOps
        /\ MaxOps \in Nat /\ pc \in [Workers -> JobStates \cup PoolStates]
        /\ local \in [Workers -> [job : Jobs, run : Runs]]
    BY BoundsAssumption DEF PoolInv, TypeOK, Jobs
  <1>3. next_offset' = b + job.stride /\ next_offset' >= b /\ next_offset' \in Nat
    BY <1>1, <1>2 DEF ClaimRun, AfterClaim
  <1>4. /\ UNCHANGED <<results, calls, job, job_epoch, finished, exception>>
        /\ \A v \in Workers : v # w => pc'[v] = pc[v] /\ local'[v] = local[v]
        /\ ~Holding(w)
    BY <1>2 DEF ClaimRun, Holding, RunStates, dispatchVars
  <1>5. e \in {b + job.stride, job.count} /\ e <= b + job.stride /\ e <= job.count
    <2> DEFINE S == {b + job.stride, job.count}
    <2>1. S \in SUBSET Nat /\ S # {}
      BY <1>2
    <2>2. LeastOf(S) \in S /\ \A y \in S : LeastOf(S) <= y
      BY <2>1, LeastOfIsLeast
    <2> QED  BY <1>1, <2>2
  <1> HIDE DEF e
  <1>6. \/ ~Holding(w)'
        \/ /\ b < job.count /\ pc'[w] = "operation"
           /\ Run(w)' = [begin |-> b, end |-> e, pos |-> b, done |-> 0]
    <2>1. CASE b >= local[w].job.count
      BY <1>1, <1>2, <2>1 DEF ClaimRun, Holding, RunStates
    <2>2. CASE b < local[w].job.count
      <3>1. /\ pc' = [pc EXCEPT ![w] = "operation"]
            /\ local' = [local EXCEPT ![w].run = [begin |-> b, end |-> e, pos |-> b, done |-> 0]]
        BY <1>1, <1>2, <2>2 DEF ClaimRun, e
      <3> QED  BY <1>1, <1>2, <2>2, <3>1 DEF Run
    <2> QED  BY <1>1, <1>2, <2>1, <2>2
  <1>7. Range0' = Range0 /\ \A o : Written(o)' <=> Written(o)
    BY <1>4 DEF Range0, Written
  <1>8. \A v \in Workers : v # w => (Holding(v)' <=> Holding(v)) /\ Run(v)' = Run(v)
    BY <1>4 DEF Holding, Run
  <1>9. RunsOK'
    <2>1. ASSUME NEW v \in Workers, v # w PROVE RunOK(pc[v], Run(v))'
      <3>1. RunOK(pc[v], Run(v)) /\ pc'[v] = pc[v] /\ Run(v)' = Run(v)
        BY <1>4, <1>8, <2>1 DEF RunInv, RunsOK
      <3>2. Run(v) \in Runs
        BY <1>2 DEF Run
      <3>3. Run(v).end <= b => Run(v).end <= next_offset'
        BY <1>2, <1>3, <3>2 DEF Runs
      <3> QED  BY <1>4, <1>7, <3>1, <3>3 DEF RunOK
    <2>2. RunOK(pc[w], Run(w))'
      <3>1. CASE ~Holding(w)'
        BY <3>1 DEF RunOK, Holding
      <3>2. CASE /\ b < job.count /\ pc'[w] = "operation"
                 /\ Run(w)' = [begin |-> b, end |-> e, pos |-> b, done |-> 0]
        <4>1. b < e /\ e <= job.count /\ e <= next_offset' /\ e \in Nat
          BY <1>2, <1>3, <1>5, <3>2
        <4>2. \A o \in b .. e - 1 : o \in Range0 /\ o >= b
          BY <1>2, <4>1 DEF Range0
        <4>3. \A o \in b .. e - 1 : calls[o] = 0 /\ ~Written(o)
          BY <4>2 DEF RunInv, Untouched
        <4>4. b \in b .. e - 1
          BY <1>2, <4>1
        <4>5. \A o \in b + 1 .. e - 1 : o \in b .. e - 1
          BY <1>2, <4>1
        <4>6. \A o \in b .. b - 1 : FALSE
          BY <1>2
        <4> QED  BY <1>2, <1>4, <1>7, <3>2, <4>1, <4>3, <4>4, <4>5, <4>6 DEF RunOK
      <3> QED  BY <1>6, <3>1, <3>2
    <2> QED  BY <2>1, <2>2 DEF RunsOK
  <1>10. Apart'
    <2> SUFFICES ASSUME NEW u \in Workers, NEW v \in Workers, u # v, Holding(u)', Holding(v)'
                 PROVE  Run(u)'.end <= Run(v)'.begin \/ Run(v)'.end <= Run(u)'.begin
      BY DEF Apart
    <2>1. CASE u # w /\ v # w
      BY <1>8, <2>1 DEF RunInv, Apart
    <2>2. ASSUME NEW x \in Workers, x # w, Holding(x)' PROVE Run(x)'.end <= b
      BY <1>8, <2>2 DEF RunInv, RunsOK, RunOK, Holding
    <2>3. Holding(w)' => Run(w)'.begin = b
      BY <1>6
    <2> QED  BY <2>1, <2>2, <2>3
  <1>11. Untouched'
    <2> SUFFICES ASSUME NEW o \in Range0, o >= next_offset'
                 PROVE  calls[o] = 0 /\ ~Written(o)
      BY <1>4, <1>7 DEF Untouched
    <2>1. o >= b
      BY <1>2, <1>3 DEF Range0
    <2> QED  BY <2>1 DEF RunInv, Untouched
  <1>12. ResultsArePast'
    BY <1>4, <1>7 DEF ResultsArePast, RunInv
  <1>13. RunInv'
    BY <1>9, <1>10, <1>11, <1>12 DEF RunInv
  <1> QED  BY <1>2, <1>3, <1>4, <1>6, <1>13

(* The steps inside a run: a callback begins, returns or throws, and its   *)
(* exception is recorded; or the rest of a run is given up.                *)
InsideStep(w) ==
  \/ BeginOperation(w) \/ SkipCancelledRun(w)
  \/ \E s \in Statuses : CallbackReturns(w, s)
  \/ CallbackThrows(w) \/ RecordException(w)

(* A callback begins, is skipped, returns, throws or is recorded: only the *)
(* position of that one run is touched.                                    *)
LEMMA InsideKeepsRuns ==
  ASSUME PoolInv, RunInv, NEW w \in Workers, InsideStep(w)
  PROVE  /\ RunInv' /\ Holding(w) /\ Holding(w)' /\ OnlyAt(w, Run(w).pos)
         /\ Run(w).pos \in Run(w).begin .. Run(w).end - 1
         /\ Run(w)'.begin = Run(w).begin /\ Run(w)'.end = Run(w).end
         /\ UNCHANGED finished
  <1> DEFINE p == Run(w).pos
             r == Run(w)
  <1>1. /\ Holding(w) /\ pc[w] \in {"operation", "invoke", "record"}
    BY DEF InsideStep, BeginOperation, SkipCancelledRun, CallbackReturns, CallbackThrows,
           RecordException, Holding, RunStates
  <1>2. /\ r \in Runs /\ local[w].job = job /\ RunOK(pc[w], r)
        /\ r.begin \in Nat /\ p \in Nat /\ r.end \in Nat /\ r.done \in Nat
        /\ r.begin <= p /\ p < r.end
        /\ job.epoch \in Nat
    BY <1>1, RunFacts DEF Runs, RunOK, Holding
  <1>3. /\ p \in r.begin .. r.end - 1 /\ p \in Offsets
    BY <1>1, <1>2, RunFacts
  <1>4. /\ pc \in [Workers -> JobStates \cup PoolStates] /\ calls \in [Offsets -> Nat]
        /\ results \in [Offsets -> Results] /\ local \in [Workers -> [job : Jobs, run : Runs]]
    BY DEF PoolInv, TypeOK
  <1> USE DEF dispatchVars, atomicVars
  <1>5. CASE BeginOperation(w)
    <2>1. /\ pc' = [pc EXCEPT ![w] = "invoke"] /\ calls' = [calls EXCEPT ![p] = @ + 1]
          /\ UNCHANGED <<local, results, next_offset, finished, job, job_epoch>> /\ pc[w] = "operation"
      BY <1>5 DEF BeginOperation, Run
    <2>2. OnlyAt(w, p) /\ calls'[p] # 0 /\ Run(w)' = r /\ pc'[w] = "invoke"
      BY <1>2, <1>3, <1>4, <2>1 DEF OnlyAt, Run
    <2>3. RunOK(pc[w], Run(w))'
      <3>1. \A o \in r.begin .. r.end - 1 : Written(o)' <=> Written(o)
        BY <2>1 DEF Written
      <3>2. \A o \in p + 1 .. r.end - 1 : calls'[o] = calls[o]
        BY <1>2, <1>4, <2>1
      <3> HIDE DEF p, r
      <3> QED  BY <1>2, <2>1, <2>2, <3>1, <3>2 DEF RunOK, RunStates, p, r
    <2>4. Holding(w)' /\ results'[p] = results[p]
      BY <2>1, <2>2 DEF Holding, RunStates
    <2> QED  BY <1>1, <1>2, <1>3, <2>1, <2>2, <2>3, <2>4, OneRunChanges
  <1>6. CASE SkipCancelledRun(w) \/ CallbackThrows(w) \/ RecordException(w)
    <2>1. /\ UNCHANGED <<local, results, calls, next_offset, finished, job, job_epoch>>
          /\ \/ pc' = [pc EXCEPT ![w] = "publish_and_leave"]
             \/ pc' = [pc EXCEPT ![w] = "record"] /\ pc[w] = "invoke"
      BY <1>6 DEF SkipCancelledRun, CallbackThrows, RecordException
    <2>2. OnlyAt(w, p) /\ Run(w)' = r
      BY <1>4, <2>1 DEF OnlyAt, Run
    <2>3. pc'[w] = "publish_and_leave" \/ (pc'[w] = "record" /\ pc[w] = "invoke")
      BY <1>4, <2>1
    <2>4. RunOK(pc[w], Run(w))'
      <3>1. \A o : Written(o)' <=> Written(o)
        BY <2>1 DEF Written
      <3> HIDE DEF p, r
      <3> QED  BY <1>1, <1>2, <2>1, <2>2, <2>3, <3>1 DEF RunOK, RunStates, p, r
    <2>5. Holding(w)' /\ results'[p] = results[p]
      BY <2>1, <2>3 DEF Holding, RunStates
    <2> QED  BY <1>1, <1>2, <1>3, <2>1, <2>2, <2>4, <2>5, OneRunChanges
  <1>7. ASSUME NEW s \in Statuses, CallbackReturns(w, s)
        PROVE  RunInv' /\ Holding(w)' /\ OnlyAt(w, p) /\ Run(w)'.begin = r.begin
               /\ Run(w)'.end = r.end /\ UNCHANGED finished
    <2>1. /\ results' = [results EXCEPT ![p] = [epoch |-> job.epoch, status |-> s]]
          /\ local' = [local EXCEPT ![w].run.pos = p + 1, ![w].run.done = r.done + 1]
          /\ pc' = [pc EXCEPT ![w] = IF p + 1 = r.end THEN "publish" ELSE "operation"]
          /\ UNCHANGED <<calls, next_offset, finished, job, job_epoch>> /\ pc[w] = "invoke"
      BY <1>2, <1>7 DEF CallbackReturns, Run
    <2>2. OnlyAt(w, p)
      BY <1>4, <2>1 DEF OnlyAt
    <2>3. /\ Run(w)'.begin = r.begin /\ Run(w)'.end = r.end
          /\ Run(w)'.pos = p + 1 /\ Run(w)'.done = r.done + 1
      BY <1>4, <2>1 DEF Run, Runs
    <2>4. /\ \/ pc'[w] = "publish" /\ p + 1 = r.end
             \/ pc'[w] = "operation" /\ p + 1 # r.end
          /\ results'[p].epoch = job.epoch
      <3>1. pc'[w] = IF p + 1 = r.end THEN "publish" ELSE "operation"
        BY <1>4, <2>1
      <3>2. results'[p] = [epoch |-> job.epoch, status |-> s]
        BY <1>3, <1>4, <2>1
      <3>3. results'[p].epoch = job.epoch
        BY <3>2
      <3>4. CASE p + 1 = r.end
        BY <3>1, <3>3, <3>4
      <3>5. CASE p + 1 # r.end
        BY <3>1, <3>3, <3>5
      <3> QED  BY <3>4, <3>5
    <2>5. /\ \A o \in r.begin .. r.end - 1 : o \in Offsets
          /\ calls[p] # 0
      BY <1>1, <1>2, <2>1, RunFacts DEF RunOK, RunStates
    <2>6. /\ \A o \in r.begin .. p : results'[o].epoch = job.epoch
          /\ \A o \in p + 1 .. r.end - 1 : results'[o].epoch # job.epoch
      <3>1. \A o \in r.begin .. r.end - 1 : o # p => results'[o] = results[o]
        BY <2>1, <2>2, <2>5 DEF OnlyAt
      <3>2. \A o \in r.begin .. p : o = p \/ (o \in r.begin .. p - 1 /\ o \in r.begin .. r.end - 1 /\ o # p)
        BY <1>2
      <3>3. \A o \in p + 1 .. r.end - 1 : o \in p .. r.end - 1 /\ o \in r.begin .. r.end - 1 /\ o # p
        BY <1>2
      <3>4. /\ \A o \in r.begin .. p - 1 : results[o].epoch = job.epoch
            /\ \A o \in p .. r.end - 1 : results[o].epoch # job.epoch
        BY <1>1, <1>2 DEF RunOK, Holding, Written
      <3> HIDE DEF p, r
      <3> QED  BY <2>4, <3>1, <3>2, <3>3, <3>4
    <2>7. /\ \A o \in p + 1 .. r.end - 1 : calls[o] = 0
          /\ r.end <= job.count /\ r.end <= next_offset /\ r.done = p - r.begin
      BY <1>1, <1>2 DEF RunOK, Holding
    <2>8. RunOK(pc[w], Run(w))'
      <3>1. p + 1 - 1 = p /\ p + 1 \in Nat /\ p + 1 <= r.end /\ r.begin <= p + 1 /\ r.begin < r.end
            /\ r.done + 1 = (p + 1) - r.begin /\ (p + 1 # r.end => p + 1 < r.end /\ p + 1 \in p + 1 .. r.end - 1)
        BY <1>2, <2>7
      <3>2. \A o \in p + 1 + 1 .. r.end - 1 : o \in p + 1 .. r.end - 1
        BY <1>2
      <3>3. UNCHANGED <<calls, job, next_offset>>
        BY <2>1
      <3>4. pc'[w] = "publish" \/ (pc'[w] = "operation" /\ p + 1 < r.end /\ calls[p + 1] = 0)
        BY <2>4, <2>7, <3>1
      <3>5. /\ \A o \in Run(w)'.begin .. Run(w)'.pos - 1 : results'[o].epoch = job.epoch
            /\ \A o \in Run(w)'.pos .. Run(w)'.end - 1 : results'[o].epoch # job.epoch
            /\ \A o \in Run(w)'.pos + 1 .. Run(w)'.end - 1 : calls[o] = 0
        <4> HIDE DEF p, r
        <4>1. Run(w)'.pos - 1 = p /\ Run(w)'.pos = p + 1
          BY <1>2, <2>3
        <4> QED  BY <2>3, <2>6, <2>7, <3>2, <4>1
      <3> HIDE DEF p, r
      <3> QED  BY <2>3, <2>7, <3>1, <3>3, <3>4, <3>5 DEF RunOK, Written
    <2>9. Holding(w)'
      BY <2>4 DEF Holding, RunStates
    <2> QED  BY <1>1, <1>2, <1>3, <2>1, <2>2, <2>3, <2>4, <2>5, <2>8, <2>9, OneRunChanges
  <1> QED  BY <1>1, <1>3, <1>5, <1>6, <1>7 DEF InsideStep

(* A published run is nobody's any more.                                   *)
LEMMA PublishKeepsRuns ==
  ASSUME PoolInv, RunInv, NEW w \in Workers, PublishRun(w)
  PROVE  /\ RunInv' /\ Holding(w) /\ ~Holding(w)'
         /\ UNCHANGED <<results, calls, next_offset, job, job_epoch, exception>>
         /\ \A v \in Workers : v # w => pc'[v] = pc[v] /\ local'[v] = local[v]
         /\ finished' = finished + Run(w).done
  <1>1. /\ UNCHANGED <<results, calls, next_offset, job, job_epoch, exception>>
        /\ pc' = [pc EXCEPT ![w] = IF @ = "publish" THEN "loop" ELSE "leave"]
        /\ local' = [local EXCEPT ![w].run = NoRun]
        /\ pc \in [Workers -> JobStates \cup PoolStates]
        /\ local \in [Workers -> [job : Jobs, run : Runs]]
        /\ finished' = finished + Run(w).done /\ pc[w] \in {"publish", "publish_and_leave"}
    BY DEF PublishRun, dispatchVars, PoolInv, TypeOK, Run
  <1>2. /\ \A v \in Workers : v # w => pc'[v] = pc[v] /\ local'[v] = local[v]
        /\ ~Holding(w)' /\ Holding(w)
    BY <1>1 DEF Holding, RunStates
  <1>3. \A v \in Workers : Holding(v)' => Holding(v) /\ pc'[v] = pc[v] /\ Run(v)' = Run(v)
    BY <1>2 DEF Holding, Run
  <1>4. Range0' = Range0 /\ \A o : Written(o)' <=> Written(o)
    BY <1>1 DEF Range0, Written
  <1>5. RunsOK'
    <2> SUFFICES ASSUME NEW v \in Workers, Holding(v)' PROVE RunOK(pc[v], Run(v))'
      BY DEF RunsOK, RunOK, Holding
    <2>1. RunOK(pc[v], Run(v)) /\ pc'[v] = pc[v] /\ Run(v)' = Run(v)
      BY <1>3 DEF RunInv, RunsOK
    <2> QED  BY <1>1, <1>4, <2>1 DEF RunOK
  <1>6. Apart'
    BY <1>3 DEF Apart, RunInv
  <1>7. Untouched' /\ ResultsArePast'
    BY <1>1, <1>4 DEF Untouched, ResultsArePast, RunInv
  <1> QED  BY <1>1, <1>2, <1>5, <1>6, <1>7 DEF RunInv

(* A dispatch begins with nobody in a run and no result of its own.        *)
LEMMA DispatchStartsRuns ==
  ASSUME PoolInv, RunInv, NEW c \in Callers, NEW n \in 1 .. MaxOps, NEW t \in BOOLEAN,
         Dispatch(c, n, t)
  PROVE  /\ RunInv' /\ InJob = {} /\ \A w \in Workers : ~Holding(w)'
         /\ \A o \in Offsets : calls'[o] = 0 /\ ~Written(o)'
         /\ Range0' \subseteq Offsets /\ finished' = 0 /\ exception' = FALSE
  <1>1. /\ job'.epoch = job_epoch + 1 /\ job'.count = n /\ job_epoch' = job_epoch + 1
        /\ calls' = [o \in Offsets |-> 0] /\ finished' = 0 /\ exception' = FALSE
        /\ UNCHANGED <<results, pc, local>>
    BY DEF Dispatch, threadVars
  <1>2. InJob = {}
    BY DEF PoolInv, NoCallbackAfterReturn, Dispatch
  <1>3. \A w \in Workers : ~Holding(w)'
    BY <1>1, <1>2 DEF InJob, Holding, RunStates, JobStates
  <1>4. /\ n \in Nat /\ MaxOps \in Nat /\ job_epoch \in Nat
        /\ results \in [Offsets -> Results]
    BY BoundsAssumption DEF PoolInv, TypeOK
  <1>5. Range0' \subseteq Offsets
    BY <1>1, <1>4 DEF Range0, Offsets
  <1>6. \A o \in Offsets : calls'[o] = 0 /\ ~Written(o)'
    <2> SUFFICES ASSUME NEW o \in Offsets PROVE calls'[o] = 0 /\ results'[o].epoch # job'.epoch
      BY DEF Written
    <2>1. results[o].epoch <= job_epoch /\ results[o].epoch \in Nat
      BY <1>4 DEF RunInv, ResultsArePast, Results
    <2> QED  BY <1>1, <1>4, <2>1
  <1>7. RunsOK' /\ Apart'
    BY <1>3 DEF RunsOK, RunOK, Apart, Holding
  <1>8. Untouched'
    BY <1>5, <1>6 DEF Untouched
  <1>9. ResultsArePast'
    <2>1. \A o \in Offsets : results'[o].epoch <= job_epoch'
      BY <1>1, <1>4 DEF RunInv, ResultsArePast, Results
    <2> QED  BY <1>1, <1>5, <1>6, <2>1 DEF ResultsArePast
  <1> QED  BY <1>1, <1>2, <1>3, <1>5, <1>6, <1>7, <1>8, <1>9 DEF RunInv

(* Every step keeps the runs apart and in order.                           *)
LEMMA RunsStep ==
  ASSUME PoolInv, RunInv, [Next]_vars
  PROVE  RunInv'
  <1>1. TypeOK
    BY DEF PoolInv
  <1> QED
    BY <1>1, StepSorts, QuietKeepsRuns, ClaimKeepsRuns, InsideKeepsRuns, PublishKeepsRuns,
       DispatchStartsRuns
    DEF RunStep, InsideStep

-----------------------------------------------------------------------------
(* finished_operations_.                                                   *)
LEMMA PublishedIsFinite ==
  ASSUME PoolInv
  PROVE  IsFiniteSet(Range0) /\ IsFiniteSet(Published) /\ Cardinality(Range0) = job.count
         /\ job.count \in Nat
  <1>1. job.count \in Nat
    BY BoundsAssumption DEF PoolInv, TypeOK, Jobs
  <1>2. IsFiniteSet(Range0) /\ Cardinality(Range0) = job.count
    BY <1>1, FS_Interval DEF Range0
  <1>3. Published \in SUBSET Range0
    BY DEF Published
  <1> QED  BY <1>1, <1>2, <1>3, FS_Subset

(* A run that is published adds what was written of it.                    *)
LEMMA PublishCounts ==
  ASSUME PoolInv, RunInv, CountInv, NEW w \in Workers, PublishRun(w)
  PROVE  CountInv'
  <1> DEFINE r == Run(w)
             D == r.begin .. r.pos - 1
  <1>1. /\ Holding(w) /\ ~Holding(w)'
        /\ UNCHANGED <<results, job>>
        /\ \A v \in Workers : v # w => pc'[v] = pc[v] /\ local'[v] = local[v]
        /\ finished' = finished + r.done
    BY PublishKeepsRuns
  <1>2. /\ r.begin \in Nat /\ r.pos \in Nat /\ r.end \in Nat
        /\ r.begin <= r.pos /\ r.pos <= r.end /\ r.done = r.pos - r.begin
        /\ \A o \in D : Written(o)
        /\ \A o \in r.pos .. r.end - 1 : ~Written(o)
        /\ \A o \in r.begin .. r.end - 1 : o \in Range0
        /\ \A v \in Workers \ {w} : \A o \in r.begin .. r.end - 1 : ~Owns(v, o)
    BY <1>1, RunFacts DEF RunOK, Holding, Runs
  <1>3. \A o \in D : o \in r.begin .. r.end - 1
    BY <1>2
  <1>4. \A o \in r.begin .. r.end - 1 : o \in D \/ o \in r.pos .. r.end - 1
    BY <1>2
  <1>5. Range0' = Range0 /\ \A o : Written(o)' <=> Written(o)
    BY <1>1 DEF Range0, Written
  <1>6. /\ \A o : ~Owns(w, o)'
        /\ \A v \in Workers : v # w => \A o : Owns(v, o)' <=> Owns(v, o)
        /\ \A o : Owns(w, o) <=> o \in r.begin .. r.end - 1
    BY <1>1 DEF Owns, Holding, Run
  <1> HIDE DEF r, D
  <1>7. Published' = Published \cup D
    BY <1>2, <1>3, <1>4, <1>5, <1>6 DEF Published
  <1>8. Published \cap D = {}
    BY <1>3, <1>6 DEF Published
  <1>9. IsFiniteSet(D) /\ Cardinality(D) = r.done
    <2> DEFINE b == r.begin
               e == r.pos - 1
    <2>1. b \in Int /\ e \in Int /\ e - b + 1 = r.done /\ (b > e => r.done = 0)
      BY <1>2
    <2> HIDE DEF b, e
    <2>2. IsFiniteSet(b .. e) /\ Cardinality(b .. e) = IF b > e THEN 0 ELSE e - b + 1
      BY <2>1, FS_Interval
    <2> QED  BY <2>1, <2>2 DEF D, b, e
  <1>10. Cardinality(Published \cup D) = Cardinality(Published) + Cardinality(D) - 0
    BY <1>8, <1>9, PublishedIsFinite, FS_Union, FS_EmptySet
  <1>11. Cardinality(Published) \in Nat /\ r.done \in Nat
    BY <1>2, PublishedIsFinite, FS_CardinalityType
  <1> QED  BY <1>1, <1>7, <1>9, <1>10, <1>11 DEF CountInv

(* Every step keeps finished_operations_ equal to what was published:      *)
(* only a publication changes either.                                      *)
LEMMA CountsStep ==
  ASSUME PoolInv, RunInv, CountInv, [Next]_vars
  PROVE  CountInv'
  <1>1. CASE Quiet
    <2>1. \A v \in Workers : \A o : Owns(v, o)' <=> Owns(v, o)
      BY <1>1 DEF Quiet, Owns, Holding, Run
    <2>2. Range0' = Range0 /\ (\A o : Written(o)' <=> Written(o)) /\ finished' = finished
      BY <1>1 DEF Quiet, Range0, Written
    <2>3. Published' = Published
      BY <2>1, <2>2 DEF Published
    <2> QED  BY <2>2, <2>3 DEF CountInv
  <1>2. ASSUME NEW w \in Workers, ClaimRun(w) PROVE CountInv'
    <2>1. /\ UNCHANGED <<results, job, finished>> /\ next_offset \in Nat
          /\ \A v \in Workers : v # w => pc'[v] = pc[v] /\ local'[v] = local[v]
          /\ ~Holding(w)
          /\ Holding(w)' => Run(w)'.begin = next_offset
      BY <1>2, ClaimKeepsRuns
    <2>2. Range0' = Range0 /\ (\A o : Written(o)' <=> Written(o)) /\ finished' = finished
      BY <2>1 DEF Range0, Written
    <2>3. \A v \in Workers : v # w => \A o : Owns(v, o)' <=> Owns(v, o)
      BY <2>1 DEF Owns, Holding, Run
    <2>4. \A o : ~Owns(w, o)
      BY <2>1 DEF Owns
    <2>5. ASSUME NEW o \in Range0, Owns(w, o)' PROVE ~Written(o)
      <3>1. o >= next_offset
        BY <2>1, <2>5 DEF Owns, Range0
      <3> QED  BY <3>1 DEF RunInv, Untouched
    <2>6. Published' = Published
      BY <2>2, <2>3, <2>4, <2>5 DEF Published
    <2> QED  BY <2>2, <2>6 DEF CountInv
  <1>3. ASSUME NEW w \in Workers, InsideStep(w) PROVE CountInv'
    <2>1. PICK p : p = Run(w).pos
      OBVIOUS
    <2>2. /\ Holding(w) /\ Holding(w)' /\ OnlyAt(w, p)
          /\ p \in Run(w).begin .. Run(w).end - 1
          /\ Run(w)'.begin = Run(w).begin /\ Run(w)'.end = Run(w).end
          /\ finished' = finished
      BY <1>3, <2>1, InsideKeepsRuns
    <2>3. \A v \in Workers : \A o : Owns(v, o)' <=> Owns(v, o)
      BY <2>2 DEF Owns, OnlyAt, Holding, Run
    <2>4. Owns(w, p)
      BY <2>2 DEF Owns
    <2>5. Range0' = Range0 /\ Range0 \subseteq Offsets
      BY <2>2, PublishedIsFinite, BoundsAssumption DEF Range0, OnlyAt, Offsets, PoolInv, TypeOK, Jobs
    <2>6. \A o \in Range0 : o # p => (Written(o)' <=> Written(o))
      BY <2>2, <2>5 DEF OnlyAt, Written
    <2>7. Published' = Published
      BY <2>3, <2>4, <2>5, <2>6 DEF Published
    <2> QED  BY <2>2, <2>7 DEF CountInv
  <1>4. ASSUME NEW w \in Workers, PublishRun(w) PROVE CountInv'
    BY <1>4, PublishCounts
  <1>5. ASSUME NEW c \in Callers, NEW n \in 1 .. MaxOps, NEW t \in BOOLEAN, Dispatch(c, n, t)
        PROVE  CountInv'
    <2>1. /\ \A o \in Offsets : ~Written(o)'
          /\ Range0' \subseteq Offsets /\ finished' = 0
      BY <1>5, DispatchStartsRuns
    <2>2. Published' = {}
      BY <2>1 DEF Published
    <2> QED  BY <2>1, <2>2, FS_EmptySet DEF CountInv
  <1>6. TypeOK
    BY DEF PoolInv
  <1> QED  BY <1>1, <1>2, <1>3, <1>4, <1>5, <1>6, StepSorts DEF RunStep, InsideStep

(* With nobody in the job, finished_operations_ at the count means that    *)
(* every slot was written by this dispatch.                                *)
LEMMA AllWritten ==
  ASSUME PoolInv, CountInv, active_workers = 0, finished = job.count
  PROVE  \A o \in Range0 : Written(o)
  <1>1. Published \in SUBSET Range0
    BY DEF Published
  <1>2. Published = Range0
    BY <1>1, PublishedIsFinite, FS_Subset DEF CountInv
  <1> QED  BY <1>2 DEF Published

-----------------------------------------------------------------------------
(* exception_.                                                             *)
LEMMA CauseStep ==
  ASSUME PoolInv, RunInv, CauseInv, [Next]_vars
  PROVE  CauseInv'
  <1>0. RunInv' /\ TypeOK
    BY RunsStep DEF PoolInv
  <1>1. CASE Quiet
    <2>1. /\ Range0' = Range0 /\ (\A o : Written(o)' <=> Written(o))
          /\ UNCHANGED <<exception, next_offset, calls>>
      BY <1>1 DEF Quiet, Range0, Written
    <2>2. \A v \in Workers : pc'[v] \in {"operation", "invoke"} =>
            pc[v] \in {"operation", "invoke"} /\ Run(v)' = Run(v)
      BY <1>1 DEF Quiet, Holding, RunStates, Run
    <2>3. \A o \in Range0 : Threw(o) => Threw(o)'
      BY <2>1, <2>2 DEF Threw
    <2> QED  BY <2>1, <2>3 DEF CauseInv
  <1>2. ASSUME NEW w \in Workers, ClaimRun(w) PROVE CauseInv'
    <2>1. /\ UNCHANGED <<results, calls, job, exception>>
          /\ next_offset \in Nat /\ next_offset' >= next_offset /\ next_offset' \in Nat
          /\ \A v \in Workers : v # w => pc'[v] = pc[v] /\ local'[v] = local[v]
          /\ Holding(w)' => Run(w)'.pos = next_offset
      BY <1>2, ClaimKeepsRuns
    <2>2. Range0' = Range0 /\ \A o : Written(o)' <=> Written(o)
      BY <2>1 DEF Range0, Written
    <2>3. ASSUME NEW o \in Range0, Threw(o) PROVE Threw(o)'
      <3>1. o < next_offset /\ o < next_offset' /\ o # next_offset
        BY <2>1, <2>3 DEF Threw, Range0
      <3>2. ASSUME NEW v \in Workers, pc'[v] \in {"operation", "invoke"} PROVE Run(v)'.pos # o
        <4>1. CASE v = w
          BY <2>1, <3>1, <3>2, <4>1 DEF Holding, RunStates
        <4>2. CASE v # w
          BY <2>1, <2>3, <3>2, <4>2 DEF Threw, Run
        <4> QED  BY <4>1, <4>2
      <3> QED  BY <2>1, <2>2, <2>3, <3>1, <3>2 DEF Threw
    <2> QED  BY <2>1, <2>2, <2>3 DEF CauseInv
  <1>3. ASSUME NEW w \in Workers, PublishRun(w) PROVE CauseInv'
    <2>1. /\ UNCHANGED <<results, calls, next_offset, job, exception>>
          /\ \A v \in Workers : v # w => pc'[v] = pc[v] /\ local'[v] = local[v]
          /\ ~Holding(w)'
      BY <1>3, PublishKeepsRuns
    <2>2. Range0' = Range0 /\ \A o : Written(o)' <=> Written(o)
      BY <2>1 DEF Range0, Written
    <2>3. \A v \in Workers : pc'[v] \in {"operation", "invoke"} =>
            pc[v] \in {"operation", "invoke"} /\ Run(v)' = Run(v)
      BY <2>1 DEF Holding, RunStates, Run
    <2>4. \A o \in Range0 : Threw(o) => Threw(o)'
      BY <2>1, <2>2, <2>3 DEF Threw
    <2> QED  BY <2>1, <2>2, <2>4 DEF CauseInv
  <1>4. ASSUME NEW c \in Callers, NEW n \in 1 .. MaxOps, NEW t \in BOOLEAN, Dispatch(c, n, t)
        PROVE  CauseInv'
    BY <1>4, DispatchStartsRuns DEF CauseInv
  <1>5. ASSUME NEW w \in Workers, InsideStep(w) PROVE CauseInv'
    <2>1. PICK p : p = Run(w).pos
      OBVIOUS
    <2>2. /\ Holding(w) /\ OnlyAt(w, p) /\ p \in Run(w).begin .. Run(w).end - 1
      BY <1>5, <2>1, InsideKeepsRuns
    <2>3. /\ Range0' = Range0 /\ Range0 \subseteq Offsets /\ UNCHANGED next_offset
      BY <2>2, PublishedIsFinite, BoundsAssumption DEF Range0, OnlyAt, Offsets, PoolInv, TypeOK, Jobs
    <2>4. /\ p \in Range0 /\ p < next_offset
          /\ \A v \in Workers \ {w} : ~Owns(v, p)
      BY <2>2, RunFacts DEF RunOK, Holding, Runs, PoolInv, TypeOK
    <2>5. ASSUME NEW o \in Range0, Threw(o) PROVE Threw(o)'
      <3>1. calls'[o] # 0 /\ (Written(o)' <=> Written(o))
        <4>1. CASE o # p
          BY <2>2, <2>3, <2>5, <4>1 DEF OnlyAt, Written, Threw
        <4>2. CASE o = p
          <5>1. pc[w] \notin {"operation", "invoke"}
            BY <2>1, <2>5, <4>2 DEF Threw
          <5>2. UNCHANGED <<calls, results, job>>
            BY <1>5, <5>1 DEF InsideStep, BeginOperation, SkipCancelledRun, CallbackReturns,
                              CallbackThrows, RecordException, dispatchVars
          <5> QED  BY <2>5, <5>2 DEF Written, Threw
        <4> QED  BY <4>1, <4>2
      <3>2. ASSUME NEW v \in Workers, pc'[v] = "operation" PROVE Run(v)'.pos # o
        <4>1. RunOK(pc[v], Run(v))'
          BY <1>0 DEF RunInv, RunsOK
        <4>2. calls'[Run(v)'.pos] = 0
          BY <3>2, <4>1 DEF RunOK, RunStates
        <4> QED  BY <3>1, <4>2
      <3>3. ASSUME NEW v \in Workers, pc'[v] = "invoke" PROVE Run(v)'.pos # o
        <4>1. CASE v # w
          BY <2>2, <2>5, <3>3, <4>1 DEF OnlyAt, Threw, Run
        <4>2. CASE v = w
          <5>1. pc[w] = "operation" /\ local' = local
            BY <1>5, <1>0, <3>3, <4>2 DEF InsideStep, BeginOperation, SkipCancelledRun,
               CallbackReturns, CallbackThrows, RecordException, TypeOK
          <5> QED  BY <2>5, <4>2, <5>1 DEF Threw, Run
        <4> QED  BY <4>1, <4>2
      <3> QED  BY <2>3, <2>5, <3>1, <3>2, <3>3 DEF Threw
    <2>6. CASE UNCHANGED exception
      BY <2>3, <2>5, <2>6 DEF CauseInv
    <2>7. CASE RecordException(w)
      <3>1. /\ UNCHANGED <<results, calls, next_offset, job>> /\ pc[w] = "record"
            /\ pc'[w] = "publish_and_leave"
            /\ \A v \in Workers : v # w => pc'[v] = pc[v] /\ Run(v)' = Run(v)
        BY <1>0, <2>7 DEF RecordException, dispatchVars, atomicVars, TypeOK, Run
      <3>2. calls[p] # 0 /\ ~Written(p)
        <4>1. RunOK(pc[w], Run(w)) /\ Run(w) \in Runs
          BY <2>2, RunFacts
        <4>2. p \in Run(w).pos .. Run(w).end - 1
          BY <2>1, <2>2, <4>1 DEF Runs
        <4> QED  BY <2>1, <3>1, <4>1, <4>2 DEF RunOK, RunStates
      <3>3. ASSUME NEW v \in Workers, pc'[v] \in {"operation", "invoke"} PROVE Run(v)'.pos # p
        <4>1. v # w /\ pc[v] = pc'[v] /\ Run(v)' = Run(v) /\ Holding(v)
          BY <3>1, <3>3 DEF Holding, RunStates
        <4>2. Run(v).pos \in Run(v).begin .. Run(v).end - 1
          BY <3>3, <4>1, RunFacts DEF RunOK, Holding, Runs
        <4> QED  BY <2>4, <4>1, <4>2 DEF Owns
      <3>4. Threw(p)'
        BY <2>3, <2>4, <3>1, <3>2, <3>3 DEF Threw, Written
      <3> QED  BY <2>3, <2>4, <3>4 DEF CauseInv
    <2> QED
      BY <1>5, <2>6, <2>7 DEF InsideStep, BeginOperation, SkipCancelledRun, CallbackReturns,
                              CallbackThrows
  <1> QED  BY <1>0, <1>1, <1>2, <1>3, <1>4, <1>5, StepSorts DEF RunStep, InsideStep

-----------------------------------------------------------------------------
(* The inductive invariant of the contract.                                *)
LEMMA ContractStarts == Init => ContractInv
  <1> SUFFICES ASSUME Init PROVE ContractInv
    OBVIOUS
  <1>1. PoolInv
    BY InitInv
  <1>2. /\ job.count = 0 /\ job.epoch = 0 /\ job_epoch = 0 /\ exception = FALSE /\ finished = 0
        /\ \A o \in Offsets : results[o].epoch = 0
        /\ \A w \in Workers : ~Holding(w)
    BY DEF Init, NoJob, DefaultResult, Holding, RunStates
  <1>3. Range0 = {}
    BY <1>2 DEF Range0
  <1>4. RunInv
    BY <1>2, <1>3 DEF RunInv, ResultsArePast, Untouched, RunsOK, RunOK, Apart, Holding
  <1>5. Published = {}
    BY <1>3 DEF Published
  <1>6. CountInv /\ CauseInv
    BY <1>2, <1>5, FS_EmptySet DEF CountInv, CauseInv
  <1> QED  BY <1>1, <1>4, <1>6 DEF ContractInv

(* Runs do not overlap, finished_operations_ counts what was written, and  *)
(* an exception has a cause, along every behaviour.                        *)
THEOREM ContractInvariant == Spec => []ContractInv
  <1>1. ContractInv /\ [Next]_vars => ContractInv'
    <2> SUFFICES ASSUME ContractInv, [Next]_vars PROVE ContractInv'
      OBVIOUS
    <2>1. PoolInv /\ RunInv /\ CountInv /\ CauseInv
      BY DEF ContractInv
    <2>2. PoolInv'
      <3>1. TypeOK' /\ ActiveCount' /\ DispatchInv' /\ NoCallbackAfterReturn'
        BY <2>1, TypeStep, CountStep, DispatchStep, CallbackStep DEF PoolInv, DispatchInv
      <3> QED  BY <3>1 DEF PoolInv
    <2>3. RunInv' /\ CountInv' /\ CauseInv'
      BY <2>1, RunsStep, CountsStep, CauseStep
    <2> QED  BY <2>2, <2>3 DEF ContractInv
  <1> QED  BY ContractStarts, <1>1, PTL DEF Spec

(* When the predicate of done_cv_ lets a call without an exception go,     *)
(* every slot of results_ that it is about to scan was written by this     *)
(* very dispatch.                                                          *)
THEOREM ResultsAreOfThisCall == Spec => []NoStaleResultRead
  <1>1. ContractInv => NoStaleResultRead
    <2> SUFFICES ASSUME ContractInv, JobDone, ~exception, NEW o \in 0 .. job.count - 1
                 PROVE  results[o].epoch = job.epoch
      BY DEF NoStaleResultRead
    <2>1. active_workers = 0 /\ finished = job.count
      BY DEF JobDone
    <2> QED  BY <2>1, AllWritten DEF ContractInv, Range0, Written
  <1> QED  BY ContractInvariant, <1>1, PTL

-----------------------------------------------------------------------------
(* The refinement.                                                         *)
Invoking(o) == \E w \in Workers : pc[w] = "invoke" /\ local[w].run.pos = o

OpState(o) ==
  IF Invoking(o) THEN "running"
  ELSE IF calls[o] = 0 THEN "todo"
  ELSE IF results[o].epoch = job_epoch THEN results[o].status
  ELSE "threw"

Ops == [o \in Offsets |-> OpState(o)]

(* With nobody in a job no callback is in flight.                          *)
LEMMA JoinedWhenLeft ==
  ASSUME PoolInv, active_workers = 0
  PROVE  /\ \A o : ~Invoking(o)
         /\ \A o \in Offsets : Ops[o] # "running"
  <1>1. InJob = {}
    BY CountFacts DEF PoolInv
  <1>2. \A o : ~Invoking(o)
    BY <1>1 DEF InJob, JobStates, Invoking
  <1>3. \A o \in Offsets : results[o].status \in Statuses
    BY DEF PoolInv, TypeOK, Results
  <1> QED  BY <1>2, <1>3 DEF Ops, OpState, Statuses

(* The return of a call.                                                   *)
LEMMA MappedReturn ==
  ASSUME ContractInv, NEW c \in Callers, AwaitReturns(c)
  PROVE  Contract!Return
  <1>1. /\ PoolInv /\ RunInv /\ CountInv /\ CauseInv
        /\ caller[c] = "await" /\ active_workers = 0 /\ (exception \/ finished = job.count)
        /\ outcome' = SelectedOutcome /\ dispatch_active' = FALSE
        /\ UNCHANGED <<threadVars, calls, results, job, job_epoch>>
    BY DEF ContractInv, AwaitReturns, JobDone
  <1>2. dispatch_active
    BY <1>1 DEF PoolInv, DispatchInv, OneDispatch
  <1>3. /\ \A o : ~Invoking(o)
        /\ \A o \in Offsets : Ops[o] # "running"
    BY <1>1, JoinedWhenLeft
  <1>4. job.epoch = job_epoch /\ Range0 \subseteq Offsets
    BY <1>1, PublishedIsFinite, BoundsAssumption
    DEF RunInv, ResultsArePast, Range0, Offsets, PoolInv, TypeOK, Jobs
  <1>5. Contract!ReturnSuccess \/ Contract!ReturnFailure \/ Contract!ReturnException
    <2>1. CASE exception
      <3>1. PICK o \in Range0 : Threw(o)
        BY <1>1, <2>1 DEF CauseInv
      <3>2. Ops[o] = "threw"
        BY <1>3, <1>4, <3>1 DEF Ops, OpState, Threw, Written
      <3>3. outcome' = Contract!Exception
        BY <1>1, <2>1 DEF SelectedOutcome
      <3> QED  BY <3>1, <3>2, <3>3 DEF Contract!ReturnException, Ops, OpState, Invoking, Range0
    <2>2. CASE ~exception
      <3>1. \A o \in Range0 : Ops[o] = results[o].status
        <4>1. \A o \in Range0 : Written(o)
          BY <1>1, <2>2, AllWritten
        <4>2. \A o \in Range0 : calls[o] # 0
          BY <1>1, <4>1 DEF RunInv, ResultsArePast
        <4> QED  BY <1>3, <1>4, <4>1, <4>2 DEF Ops, OpState, Written
      <3>2. \A o \in Range0 : results[o].status \in {"Executed", "Failed"}
        BY <1>1, <1>4 DEF PoolInv, TypeOK, Results, Statuses
      <3>3. CASE FailedOffsets = {}
        <4>1. \A o \in Range0 : Ops[o] = "Executed"
          BY <3>1, <3>3 DEF FailedOffsets, Range0
        <4>2. outcome' = Contract!Success
          BY <1>1, <2>2, <3>3 DEF SelectedOutcome
        <4> QED  BY <4>1, <4>2 DEF Contract!ReturnSuccess, Ops, OpState, Invoking, Range0
      <3>4. CASE FailedOffsets # {}
        <4>1. FailedOffsets \subseteq Range0 /\ FailedOffsets \subseteq Nat
          BY PublishedIsFinite, <1>1 DEF FailedOffsets, Range0
        <4>2. /\ ReportedOffset \in FailedOffsets
              /\ \A y \in FailedOffsets : ReportedOffset <= y
          BY <3>4, <4>1, LeastOfIsLeast DEF ReportedOffset
        <4>3. Ops[ReportedOffset] = "Failed" /\ ReportedOffset \in Range0
          BY <3>1, <3>2, <4>1, <4>2 DEF FailedOffsets
        <4>4. ASSUME NEW q \in 0 .. ReportedOffset - 1 PROVE Ops[q] = "Executed"
          <5>1. q \in Range0 /\ q \notin FailedOffsets
            BY <1>1, <4>2, <4>3, PublishedIsFinite DEF Range0
          <5> QED  BY <3>1, <5>1 DEF FailedOffsets, Range0
        <4>5. outcome' = Contract!Failure(ReportedOffset)
          BY <1>1, <2>2, <3>4 DEF SelectedOutcome
        <4> HIDE DEF Contract!Failure
        <4> QED  BY <4>3, <4>4, <4>5 DEF Contract!ReturnFailure, Ops, OpState, Invoking, Range0
      <3> QED  BY <3>3, <3>4
    <2> QED  BY <2>1, <2>2
  <1>6. Contract!Joined
    BY <1>3 DEF Contract!Joined, Contract!Offsets, Offsets, Ops, OpState, Invoking
  <1>7. UNCHANGED <<job.count, Ops>>
    BY <1>1 DEF threadVars, Ops, OpState, Invoking
  <1> QED  BY <1>1, <1>2, <1>5, <1>6, <1>7 DEF Contract!Return, Ops, OpState, Invoking

(* The steps inside a run that a callback takes part in.                   *)
LEMMA MappedRun ==
  ASSUME ContractInv, NEW w \in Workers, InsideStep(w)
  PROVE  /\ UNCHANGED <<dispatch_active, job, job_epoch, outcome>>
         /\ \/ UNCHANGED Ops
            \/ \E o \in Offsets : Contract!Start(o)
            \/ \E o \in Offsets, s \in {"Executed", "Failed", "threw"} : Contract!Finish(o, s)
  <1>1. PoolInv /\ RunInv /\ job.epoch = job_epoch
    BY DEF ContractInv, RunInv, ResultsArePast
  <1>2. PICK p : p = local[w].run.pos
    OBVIOUS
  <1>3. /\ Holding(w) /\ OnlyAt(w, p) /\ p \in Run(w).begin .. Run(w).end - 1
    BY <1>1, <1>2, InsideKeepsRuns DEF Run
  <1>4. /\ p \in Offsets /\ p \in Range0 /\ dispatch_active /\ local[w].job = job
        /\ \A v \in Workers \ {w} : ~Owns(v, p)
        /\ RunOK(pc[w], Run(w)) /\ p = Run(w).pos /\ Run(w) \in Runs
    BY <1>1, <1>2, <1>3, RunFacts DEF Run
  <1>5. UNCHANGED <<dispatch_active, job, job_epoch, outcome>>
    BY DEF InsideStep, BeginOperation, SkipCancelledRun, CallbackReturns, CallbackThrows,
           RecordException, dispatchVars, callerVars
  <1>6. \A v \in Workers \ {w} : ~(pc[v] = "invoke" /\ local[v].run.pos = p)
    <2> SUFFICES ASSUME NEW v \in Workers \ {w}, pc[v] = "invoke", local[v].run.pos = p
                 PROVE  FALSE
      OBVIOUS
    <2>1. Holding(v)
      BY DEF Holding, RunStates
    <2>2. RunOK(pc[v], Run(v)) /\ Run(v) \in Runs
      BY <1>1, <2>1, RunFacts
    <2>3. Run(v).pos \in Run(v).begin .. Run(v).end - 1
      BY <2>2 DEF RunOK, RunStates, Runs
    <2> QED  BY <1>4, <2>1, <2>3 DEF Owns, Run
  <1>7. ~Written(p)
    <2>1. p \in Run(w).pos .. Run(w).end - 1
      BY <1>3, <1>4 DEF Runs
    <2> QED  BY <1>3, <1>4, <2>1 DEF RunOK, Holding
  <1>8. \A v \in Workers : v # w => pc'[v] = pc[v] /\ local'[v] = local[v]
    BY <1>3 DEF OnlyAt
  <1>9. ASSUME NEW o \in Offsets, o # p, ~(pc'[w] = "invoke" /\ local'[w].run.pos = o)
        PROVE  OpState(o)' = OpState(o)
    <2>1. results'[o] = results[o] /\ calls'[o] = calls[o] /\ job_epoch' = job_epoch
      BY <1>3, <1>9 DEF OnlyAt
    <2>2. Invoking(o)' <=> Invoking(o)
      BY <1>2, <1>8, <1>9 DEF Invoking
    <2> QED  BY <2>1, <2>2 DEF OpState
  <1>10. pc \in [Workers -> JobStates \cup PoolStates] /\ results \in [Offsets -> Results]
         /\ calls \in [Offsets -> Nat]
    BY <1>1 DEF PoolInv, TypeOK
  <1>11. CASE BeginOperation(w)
    <2>1. /\ pc[w] = "operation" /\ pc'[w] = "invoke" /\ local' = local
      BY <1>10, <1>11 DEF BeginOperation
    <2>2. Ops[p] = "todo"
      <3>1. calls[p] = 0
        BY <1>4, <2>1 DEF RunOK, RunStates
      <3>2. ~Invoking(p)
        BY <1>6, <2>1 DEF Invoking
      <3> QED  BY <1>4, <3>1, <3>2 DEF Ops, OpState
    <2>3. OpState(p)' = "running"
      BY <1>2, <2>1 DEF OpState, Invoking
    <2>4. Ops' = [Ops EXCEPT ![p] = "running"]
      <3>1. \A o \in Offsets : o # p => OpState(o)' = OpState(o)
        BY <1>2, <1>9, <2>1
      <3> QED  BY <1>4, <2>3, <3>1 DEF Ops
    <2>5. p < job.count
      BY <1>1, <1>4, PublishedIsFinite DEF Range0
    <2>6. Contract!Start(p)
      BY <1>4, <1>5, <2>2, <2>4, <2>5 DEF Contract!Start, Ops, OpState, Invoking
    <2> QED  BY <1>4, <1>5, <2>6
  <1>12. ASSUME pc[w] = "invoke", pc'[w] # "invoke", NEW s \in {"Executed", "Failed", "threw"},
                calls'[p] # 0,
                IF s = "threw" THEN results'[p].epoch # job_epoch
                               ELSE results'[p].epoch = job_epoch /\ results'[p].status = s
         PROVE  Contract!Finish(p, s)
    <2>1. Ops[p] = "running"
      BY <1>2, <1>4, <1>12 DEF Ops, OpState, Invoking
    <2>2. ~Invoking(p)'
      BY <1>6, <1>8, <1>12 DEF Invoking
    <2>3. OpState(p)' = s
      BY <1>5, <1>12, <2>2 DEF OpState
    <2>4. Ops' = [Ops EXCEPT ![p] = s]
      <3>1. \A o \in Offsets : o # p => OpState(o)' = OpState(o)
        BY <1>9, <1>12
      <3> QED  BY <1>4, <2>3, <3>1 DEF Ops
    <2> QED  BY <1>4, <1>5, <2>1, <2>4 DEF Contract!Finish, Ops, OpState, Invoking
  <1>13. ASSUME NEW s \in Statuses, CallbackReturns(w, s)
         PROVE  \E o \in Offsets, t \in {"Executed", "Failed", "threw"} : Contract!Finish(o, t)
    <2>1. /\ pc[w] = "invoke" /\ pc'[w] # "invoke" /\ calls' = calls
          /\ results' = [results EXCEPT ![p] = [epoch |-> job.epoch, status |-> s]]
      BY <1>2, <1>4, <1>10, <1>13 DEF CallbackReturns
    <2>2. /\ calls[p] # 0 /\ results'[p].epoch = job_epoch /\ results'[p].status = s
          /\ s \in {"Executed", "Failed", "threw"} /\ s # "threw"
      <3>1. calls[p] # 0
        BY <1>4, <2>1 DEF RunOK, RunStates
      <3>2. results'[p] = [epoch |-> job.epoch, status |-> s]
        BY <1>4, <1>10, <2>1
      <3> QED  BY <1>1, <3>1, <3>2 DEF Statuses
    <2>3. Contract!Finish(p, s)
      BY <1>12, <2>1, <2>2
    <2> QED  BY <1>4, <2>2, <2>3
  <1>14. CASE CallbackThrows(w)
    <2>1. /\ pc[w] = "invoke" /\ pc'[w] # "invoke" /\ UNCHANGED <<calls, results>>
      BY <1>10, <1>14 DEF CallbackThrows
    <2>2. calls[p] # 0
      BY <1>4, <2>1 DEF RunOK, RunStates
    <2>3. results'[p].epoch # job_epoch
      BY <1>1, <1>7, <2>1 DEF Written
    <2>4. Contract!Finish(p, "threw")
      BY <1>12, <2>1, <2>2, <2>3
    <2> QED  BY <1>4, <1>5, <2>4
  <1>15. CASE SkipCancelledRun(w) \/ RecordException(w)
    <2>1. /\ pc[w] # "invoke" /\ pc'[w] # "invoke" /\ UNCHANGED <<calls, results, local>>
      BY <1>10, <1>15 DEF SkipCancelledRun, RecordException
    <2>2. OpState(p)' = OpState(p)
      <3>1. Invoking(p)' <=> Invoking(p)
        BY <1>8, <2>1 DEF Invoking
      <3> QED  BY <1>5, <2>1, <3>1 DEF OpState
    <2>3. \A o \in Offsets : OpState(o)' = OpState(o)
      BY <1>9, <2>1, <2>2
    <2>4. Ops' = Ops
      BY <2>3 DEF Ops
    <2> QED  BY <1>5, <2>4
  <1> QED  BY <1>5, <1>11, <1>13, <1>14, <1>15 DEF InsideStep

(* Only a dispatch and a return touch what a call promises its caller.     *)
LEMMA CallBoundary ==
  ASSUME [Next]_vars
  PROVE  \/ UNCHANGED <<dispatch_active, outcome>>
         \/ \E c \in Callers : AwaitReturns(c)
         \/ \E c \in Callers, n \in 1 .. MaxOps, t \in BOOLEAN : Dispatch(c, n, t)
  <1> DEFINE Same == UNCHANGED <<dispatch_active, outcome>>
  <1> USE DEF callerVars, dispatchVars
  <1>1. ASSUME NEW w \in Workers, WorkerStep(w) PROVE Same
    <2>1. CASE WorkerExits(w) \/ WorkerJoins(w) \/ WorkerSleeps(w) \/ TestCancelled(w)
      BY <2>1 DEF WorkerExits, WorkerJoins, WorkerSleeps, TestCancelled
    <2>2. CASE ClaimRun(w) \/ BeginOperation(w) \/ SkipCancelledRun(w)
      BY <2>2 DEF ClaimRun, BeginOperation, SkipCancelledRun
    <2>3. CASE \E s \in Statuses : CallbackReturns(w, s)
      BY <2>3 DEF CallbackReturns
    <2>4. CASE CallbackThrows(w) \/ RecordException(w) \/ PublishRun(w) \/ WorkerLeaves(w)
      BY <2>4 DEF CallbackThrows, RecordException, PublishRun, WorkerLeaves
    <2> QED  BY <1>1, <2>1, <2>2, <2>3, <2>4 DEF WorkerStep
  <1>2. ASSUME NEW c \in Callers, NotifyAll(c) \/ NotifyOne(c) \/ AwaitSleeps(c) PROVE Same
    BY <1>2 DEF NotifyAll, NotifyOne, AwaitSleeps
  <1>3. CASE OwnerStep
    BY <1>3 DEF OwnerStep, SpawnWorker, SpawnFails, Destroy, StopAndNotifyAll, JoinWorkers
  <1>4. CASE SpuriousWake \/ Misuse
    BY <1>4 DEF SpuriousWake, Misuse
  <1>5. CASE UNCHANGED vars
    BY <1>5 DEF vars
  <1>6. Same \/ (\E c \in Callers : AwaitReturns(c))
             \/ (\E c \in Callers, n \in 1 .. MaxOps, t \in BOOLEAN : Dispatch(c, n, t))
    <2>1. ASSUME NEW c \in Callers, CallerStep(c) PROVE Same \/ AwaitReturns(c)
      BY <1>2, <2>1 DEF CallerStep
    <2>2. CASE Finished
      BY <1>5, <2>2 DEF Finished
    <2>3. CASE Step
      BY <1>1, <1>3, <1>4, <2>1, <2>3 DEF Step
    <2> QED  BY <1>5, <2>2, <2>3 DEF Next
  <1> QED  BY <1>6 DEF Same

(* Before the first dispatch.                                              *)
LEMMA MappedStart == Init => Contract!Init
  <1> SUFFICES ASSUME Init PROVE Contract!Init
    OBVIOUS
  <1>1. /\ dispatch_active = FALSE /\ job.count = 0 /\ outcome = Contract!Success
        /\ \A o \in Offsets : calls[o] = 0
        /\ \A w \in Workers : pc[w] = "unborn"
    BY DEF Init, NoJob
  <1>2. \A o \in Offsets : OpState(o) = "todo"
    BY <1>1 DEF OpState, Invoking
  <1>3. Ops = [o \in Offsets |-> "todo"]
    BY <1>2 DEF Ops
  <1> QED  BY <1>1, <1>3 DEF Contract!Init, Contract!Offsets, Offsets, Ops, OpState, Invoking

(* The beginning of a call: nobody is in a job, and every operation of the *)
(* new range is still to do.                                               *)
LEMMA MappedCall ==
  ASSUME ContractInv, NEW c \in Callers, NEW n \in 1 .. MaxOps, NEW t \in BOOLEAN,
         Dispatch(c, n, t)
  PROVE  Contract!Call(n)
  <1>1. PoolInv /\ RunInv
    BY DEF ContractInv
  <1>2. /\ ~dispatch_active /\ dispatch_active' = TRUE /\ job'.count = n
        /\ UNCHANGED <<outcome, pc, local>>
    BY DEF Dispatch, threadVars
  <1>3. /\ InJob = {} /\ \A o \in Offsets : calls'[o] = 0
    BY <1>1, DispatchStartsRuns
  <1>4. \A o : ~Invoking(o)'
    BY <1>2, <1>3 DEF InJob, JobStates, Invoking
  <1>5. \A o \in Offsets : OpState(o)' = "todo"
    BY <1>3, <1>4 DEF OpState
  <1>6. Ops' = [o \in Offsets |-> "todo"]
    BY <1>5 DEF Ops
  <1> QED  BY <1>2, <1>6 DEF Contract!Call, Contract!Offsets, Offsets, Ops, OpState, Invoking

(* The steps that no operation takes part in.                              *)
LEMMA MappedQuiet ==
  ASSUME ContractInv,
         \/ Quiet
         \/ \E w \in Workers : ClaimRun(w) \/ PublishRun(w)
  PROVE  UNCHANGED <<job, Ops>>
  <1>1. PoolInv /\ RunInv
    BY DEF ContractInv
  <1>2. /\ UNCHANGED <<job, job_epoch, results, calls>>
        /\ \A w \in Workers : \/ pc[w] # "invoke" /\ pc'[w] # "invoke"
                              \/ pc'[w] = pc[w] /\ local'[w] = local[w]
    <2>1. CASE Quiet
      BY <2>1 DEF Quiet, Holding, RunStates
    <2>2. ASSUME NEW w \in Workers, ClaimRun(w)
          PROVE  /\ UNCHANGED <<job, job_epoch, results, calls>>
                 /\ pc[w] # "invoke" /\ pc'[w] # "invoke"
                 /\ \A v \in Workers : v # w => pc'[v] = pc[v] /\ local'[v] = local[v]
      BY <1>1, <2>2, ClaimKeepsRuns DEF ClaimRun, PoolInv, TypeOK
    <2>3. ASSUME NEW w \in Workers, PublishRun(w)
          PROVE  /\ UNCHANGED <<job, job_epoch, results, calls>>
                 /\ pc[w] # "invoke" /\ pc'[w] # "invoke"
                 /\ \A v \in Workers : v # w => pc'[v] = pc[v] /\ local'[v] = local[v]
      BY <1>1, <2>3, PublishKeepsRuns DEF PublishRun, Holding, RunStates
    <2> QED  BY <2>1, <2>2, <2>3
  <1>3. \A o : Invoking(o)' <=> Invoking(o)
    BY <1>2 DEF Invoking
  <1>4. \A o \in Offsets : OpState(o)' = OpState(o)
    BY <1>2, <1>3 DEF OpState
  <1> QED  BY <1>2, <1>4 DEF Ops

(* Every step of the pool is one of the contract, or leaves it alone.      *)
LEMMA MappedNext ==
  ASSUME ContractInv, [Next]_vars
  PROVE  [Contract!Next]_(Contract!vars)
  <1>1. PoolInv /\ TypeOK
    BY DEF ContractInv, PoolInv
  <1>2. ASSUME NEW c \in Callers, AwaitReturns(c) PROVE Contract!Next
    BY <1>2, MappedReturn DEF Contract!Next
  <1>3. ASSUME NEW c \in Callers, NEW n \in 1 .. MaxOps, NEW t \in BOOLEAN, Dispatch(c, n, t)
        PROVE  Contract!Next
    BY <1>3, MappedCall DEF Contract!Next
  <1>4. ASSUME NEW w \in Workers, InsideStep(w) PROVE [Contract!Next]_(Contract!vars)
    <2>1. UNCHANGED <<dispatch_active, job, job_epoch, outcome>>
      BY <1>4, MappedRun
    <2>2. CASE UNCHANGED Ops
      BY <2>1, <2>2 DEF Contract!vars, Ops, OpState, Invoking
    <2>3. CASE \E o \in Offsets : Contract!Start(o)
      BY <2>3 DEF Contract!Next, Contract!Offsets, Offsets
    <2>4. CASE \E o \in Offsets, s \in {"Executed", "Failed", "threw"} : Contract!Finish(o, s)
      BY <2>4 DEF Contract!Next, Contract!Offsets, Offsets
    <2> QED  BY <1>4, <2>2, <2>3, <2>4, MappedRun
  <1>5. ASSUME UNCHANGED <<dispatch_active, outcome>>,
               Quiet \/ \E w \in Workers : ClaimRun(w) \/ PublishRun(w)
        PROVE  UNCHANGED Contract!vars
    <2>1. UNCHANGED <<job, Ops>>
      BY <1>5, MappedQuiet
    <2> QED  BY <1>5, <2>1 DEF Contract!vars, Ops, OpState, Invoking
  <1> HIDE DEF Contract!Next, Contract!vars
  <1>6. \/ Quiet \/ (\E w \in Workers : ClaimRun(w) \/ PublishRun(w))
        \/ (\E w \in Workers : InsideStep(w))
        \/ (\E c \in Callers, n \in 1 .. MaxOps, t \in BOOLEAN : Dispatch(c, n, t))
    BY <1>1, StepSorts DEF RunStep, InsideStep
  <1> QED  BY <1>2, <1>3, <1>4, <1>5, <1>6, CallBoundary

(* The worker pool keeps the contract of a phase executor: every operation *)
(* is begun at most once, all callbacks are over when a call returns, a    *)
(* failure that is returned is the first in plan order, and an exception   *)
(* comes from a callback that threw.                                       *)
THEOREM PoolKeepsContract == Spec => ImplementsContract
  <1> QED
    BY MappedStart, MappedNext, ContractInvariant, PTL
    DEF Spec, ImplementsContract, Contract!Spec
=============================================================================
