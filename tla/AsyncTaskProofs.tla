--------------------------- MODULE AsyncTaskProofs ---------------------------
(***************************************************************************)
(* Proofs about the resumable queue and the task that drives it, in every  *)
(* scene: the schedule's guarantees hold with the queue behind one of its  *)
(* tasks, the task stays armed, the flow accountant's books balance, and a *)
(* ticket's result settles once.                                           *)
(***************************************************************************)
EXTENDS AsyncTask, FiniteSetTheorems, SequenceTheorems, WellFoundedInduction, TLAPS

-----------------------------------------------------------------------------

(* A remainder is the only number below n that differs by a multiple of n. *)
LEMMA RemainderIsUnique ==
    ASSUME NEW n \in Nat \ {0}, NEW p \in Int, NEW q \in Int,
           NEW r \in 0..(n - 1), NEW s \in 0..(n - 1), n * p + r = n * q + s
    PROVE  r = s
  <1>1. n * (p - q) = s - r
    BY SMT
  <1>2. CASE p - q >= 1
    <2>1. n * (p - q) >= n
      BY <1>2, SMT
    <2> QED BY <1>1, <2>1, SMT
  <1>3. CASE q - p >= 1
    <2>1. n * (q - p) >= n
      BY <1>3, SMT
    <2>2. n * (q - p) = r - s
      BY SMT
    <2> QED BY <2>1, <2>2, SMT
  <1>4. CASE p = q
    BY <1>1, <1>4, SMT
  <1> QED BY <1>2, <1>3, <1>4, SMT

(* Counting one tick moves the remainder by one, or back to zero. *)
LEMMA NextRemainder ==
    ASSUME NEW n \in Nat \ {0}, NEW k \in Nat
    PROVE  (k + 1) % n = IF k % n = n - 1 THEN 0 ELSE (k % n) + 1
  <1> DEFINE q == k \div n
             r == k % n
             p == (k + 1) \div n
             s == (k + 1) % n
  <1>1. /\ r \in 0..(n - 1) /\ q \in Int /\ k = n * q + r
        /\ s \in 0..(n - 1) /\ p \in Int /\ k + 1 = n * p + s
    BY SMT
  <1> HIDE DEF q, r, p, s
  <1>2. CASE r = n - 1
    <2>1. n * (q + 1) + 0 = n * p + s
      BY <1>1, <1>2, SMT
    <2>2. q + 1 \in Int /\ 0 \in 0..(n - 1)
      BY <1>1, SMT
    <2>3. 0 = s
      BY <1>1, <2>1, <2>2, RemainderIsUnique
    <2> QED BY <1>2, <2>3 DEF r, s
  <1>3. CASE r # n - 1
    <2>1. n * q + (r + 1) = n * p + s
      BY <1>1, SMT
    <2>2. r + 1 \in 0..(n - 1)
      BY <1>1, <1>3, SMT
    <2>3. r + 1 = s
      BY <1>1, <2>1, <2>2, RemainderIsUnique
    <2> QED BY <1>3, <2>3 DEF r, s
  <1> QED BY <1>2, <1>3

(* The tick before k, modulo the width m of the counter, and back. *)
LEMMA PreviousTick ==
    ASSUME NEW m \in Nat \ {0}, NEW k \in 0..(m - 1)
    PROVE  /\ (k - 1) % m \in 0..(m - 1)
           /\ (((k - 1) % m) + 1) % m = k
           /\ (((k + 1) % m) - 1) % m = k
           /\ (k + 1) % m = IF k = m - 1 THEN 0 ELSE k + 1
  BY SMTT(30)

(* Counting a tick moves its remainder by one or back to zero, even when   *)
(* the counter wraps, because n divides its width m.                       *)
LEMMA RemainderWraps ==
    ASSUME NEW m \in Nat \ {0}, NEW n \in Nat \ {0}, m % n = 0, NEW k \in 0..(m - 1)
    PROVE  ((k + 1) % m) % n = IF k % n = n - 1 THEN 0 ELSE (k % n) + 1
  <1>1. (k + 1) % n = IF k % n = n - 1 THEN 0 ELSE (k % n) + 1
    <2>1. k \in Nat
      BY SMT
    <2> QED BY <2>1, NextRemainder
  <1>2. k % n \in 0..(n - 1) /\ 0 % n = 0
    BY SMT
  <1>3. CASE k = m - 1
    <2>1. (k + 1) % m = 0 /\ (k + 1) % n = 0
      BY <1>3, PreviousTick, SMT
    <2> QED BY <1>1, <1>2, <2>1, SMT
  <1>4. CASE k # m - 1
    <2>1. (k + 1) % m = k + 1
      BY <1>4, SMT
    <2> QED BY <1>1, <2>1
  <1> QED BY <1>3, <1>4

(* What one step of a countdown does to a task the tick had not reached. *)
LEMMA CountdownFollowsTick ==
    ASSUME TypeOK, NEW t \in todo, Kind[t] = "EveryN",
           ticks_until_due[t] = EveryN[t] - (TicksCounted(t) % EveryN[t])
    PROVE  Countdown(t) = EveryN[t] - (tick % EveryN[t])
  <1> DEFINE n == EveryN[t]
             k == (tick - 1) % TickModulus
  <1>1. t \in Tasks /\ n \in Nat \ {0} /\ TickModulus \in Nat \ {0} /\ TickModulus % n = 0
    BY ScheduleAssumption DEF TypeOK
  <1>2. tick \in 0..(TickModulus - 1)
    BY DEF TypeOK
  <1>3. k \in 0..(TickModulus - 1) /\ (k + 1) % TickModulus = tick
    BY <1>1, <1>2, SMTT(30)
  <1>4. ticks_until_due[t] = n - (k % n)
    BY DEF TicksCounted
  <1> HIDE DEF n, k
  <1>5. tick % n = IF k % n = n - 1 THEN 0 ELSE (k % n) + 1
    BY <1>1, <1>3, RemainderWraps
  <1>6. k % n \in 0..(n - 1)
    BY <1>1, <1>3, SMT
  <1>7. Countdown(t) = IF ticks_until_due[t] = 1 THEN n ELSE ticks_until_due[t] - 1
    BY DEF Countdown, Counted, n
  <1>8. Countdown(t) = n - (tick % n)
    BY <1>1, <1>4, <1>5, <1>6, <1>7, SMT
  <1> QED BY <1>8 DEF n

-----------------------------------------------------------------------------
(* A callback holds only bits its task subscribes to. *)
InHandIsWanted == running # Nobody => running.bits \subseteq Wanted(running.task)

(* The inductive invariant: CadenceIsLockstep and NoTriggerLost are        *)
(* inductive given the types, the latter with InHandIsWanted: what a       *)
(* returning callback leaves owed is what its task subscribes to.          *)
ScheduleInv == TypeOK /\ CadenceIsLockstep /\ NoTriggerLost /\ InHandIsWanted

(* The steps the lemmas below are about are those of Next and a request to *)
(* run any task, so that they also serve a module that drives this one.    *)
StepOrRequest == Next \/ \E t \in Tasks : RequestRun(t)

(* The initial states, whichever tasks are enabled. *)
QuietInit ==
    /\ tick = 0 /\ todo = {} /\ running = Nobody
    /\ pending = [t \in Tasks |-> {}]
    /\ run_requested = [t \in Tasks |-> FALSE]
    /\ in_progress = [t \in Tasks |-> FALSE]
    /\ enabled \in [Tasks -> BOOLEAN]
    /\ ticks_until_due = [t \in Tasks |-> IF Kind[t] = "EveryN" THEN EveryN[t] ELSE 0]
    /\ owed = [t \in Tasks |-> {}]
    /\ owed_run = [t \in Tasks |-> FALSE]
    /\ served = Nobody

(* No task has the number that stands for nobody.                          *)
LEMMA NobodyIsNoTask == -1 \notin Tasks
  BY ScheduleAssumption

(* The schedule starts with values of its types.                           *)
LEMMA TypeInit == QuietInit => TypeOK
  BY ScheduleAssumption DEF QuietInit, TypeOK, Calls, Nobody

(* A step of a countdown stays within its period. *)
LEMMA CountdownType ==
    ASSUME TypeOK, NEW t \in Tasks
    PROVE  /\ Countdown(t) \in Nat
           /\ Kind[t] = "EveryN" => Countdown(t) \in 1..EveryN[t]
  <1>1. ticks_until_due[t] \in Nat /\ EveryN[t] \in Nat \ {0}
        /\ (Kind[t] = "EveryN" => ticks_until_due[t] \in 1..EveryN[t])
    BY ScheduleAssumption DEF TypeOK
  <1>2. CASE Kind[t] # "EveryN"
    BY <1>1, <1>2 DEF Countdown
  <1>3. CASE Kind[t] = "EveryN"
    <2>1. Countdown(t) = IF ticks_until_due[t] = 1 THEN EveryN[t] ELSE ticks_until_due[t] - 1
      BY <1>3 DEF Countdown, Counted
    <2> QED BY <1>1, <1>3, <2>1, SMT
  <1> QED BY <1>2, <1>3

(* Type correctness is preserved by every action. *)
LEMMA TypeStep == TypeOK /\ [StepOrRequest]_vars => TypeOK'
  <1> SUFFICES ASSUME TypeOK, [StepOrRequest]_vars PROVE TypeOK'
    OBVIOUS
  <1>1. CASE BeginTick
    BY <1>1, ScheduleAssumption DEF BeginTick, TypeOK, record, Calls
  <1>2. ASSUME NEW bits \in (SUBSET DirtyBits) \union (SUBSET EventBits), Notify(bits) PROVE TypeOK'
    <2>1. pending' \in [Tasks -> SUBSET Bits]
      BY <1>2 DEF Notify, TypeOK, Merged, Bits
    <2>2. owed' \in [Tasks -> SUBSET Bits]
      BY <1>2 DEF Notify, TypeOK, Owing, Bits
    <2> QED BY <1>2, <2>1, <2>2 DEF Notify, TypeOK, Calls
  <1>3. ASSUME NEW t \in Tasks, RequestRun(t) PROVE TypeOK'
    BY <1>3 DEF RequestRun, TypeOK, Calls
  <1>4. ASSUME NEW t \in Toggled, NEW on \in BOOLEAN, SetEnabled(t, on) PROVE TypeOK'
    BY <1>4 DEF SetEnabled, TypeOK, Calls
  <1>5. ASSUME NEW t \in Tasks, PassOver(t) PROVE TypeOK'
    <2>1. /\ ticks_until_due' \in [Tasks -> Nat]
          /\ \A u \in Tasks : Kind[u] = "EveryN" => ticks_until_due'[u] \in 1..EveryN[u]
      BY <1>5, CountdownType DEF PassOver, TypeOK
    <2> QED BY <1>5, <2>1 DEF PassOver, TypeOK, Calls
  <1>6. ASSUME NEW t \in Tasks, StartTask(t) PROVE TypeOK'
    <2>1. /\ ticks_until_due' \in [Tasks -> Nat]
          /\ \A u \in Tasks : Kind[u] = "EveryN" => ticks_until_due'[u] \in 1..EveryN[u]
      BY <1>6, CountdownType DEF StartTask, TypeOK
    <2>2. running' \in Calls /\ pending' \in [Tasks -> SUBSET Bits]
      BY <1>6 DEF StartTask, TypeOK, Calls, Fired, Consumed
    <2> QED BY <1>6, <2>1, <2>2 DEF StartTask, TypeOK, Calls
  <1>7. ASSUME NEW t \in Tasks, NEW produced \in SUBSET Bits, NEW more_work \in BOOLEAN,
               FinishTask(t, produced, more_work)
        PROVE TypeOK'
    <2>1. pending' \in [Tasks -> SUBSET Bits]
      BY <1>7 DEF FinishTask, TypeOK, Merged
    <2>2. owed' \in [Tasks -> SUBSET Bits]
      BY <1>7 DEF FinishTask, TypeOK, Owing
    <2>3. in_progress' \in [Tasks -> BOOLEAN] /\ owed_run' \in [Tasks -> BOOLEAN]
      BY <1>7 DEF FinishTask, TypeOK
    <2> QED BY <1>7, <2>1, <2>2, <2>3 DEF FinishTask, TypeOK, Calls
  <1>8. ASSUME NEW t \in Tasks, ThrowTask(t) PROVE TypeOK'
    <2>1. /\ ticks_until_due' \in [Tasks -> Nat]
          /\ \A u \in Tasks : Kind[u] = "EveryN" => ticks_until_due'[u] \in 1..EveryN[u]
      BY <1>8, CountdownType DEF ThrowTask, AbortedCountdowns, TypeOK
    <2>2. running # Nobody /\ running.bits \in SUBSET Bits /\ running.requested \in BOOLEAN
      BY <1>8, NobodyIsNoTask DEF ThrowTask, TypeOK, Calls, Nobody
    <2>3. pending' \in [Tasks -> SUBSET Bits] /\ run_requested' \in [Tasks -> BOOLEAN]
      BY <1>8, <2>2 DEF ThrowTask, TypeOK, Restored
    <2> QED BY <1>8, <2>1, <2>3 DEF ThrowTask, TypeOK, Calls
  <1>9. CASE UNCHANGED vars
    BY <1>9 DEF vars, record, history, TypeOK
  <1> QED
    BY <1>1, <1>2, <1>3, <1>4, <1>5, <1>6, <1>7, <1>8, <1>9,
       ScheduleAssumption
    DEF StepOrRequest, Next, Finish

(* Lockstep is preserved: a countdown moves exactly when its task leaves   *)
(* todo, on a visit or with the rest of an abandoned tick.                 *)
LEMMA LockstepStep == TypeOK /\ CadenceIsLockstep /\ [StepOrRequest]_vars => CadenceIsLockstep'
  <1> SUFFICES ASSUME TypeOK, CadenceIsLockstep, [StepOrRequest]_vars,
                      NEW u \in Tasks, Kind[u] = "EveryN"
               PROVE  ticks_until_due'[u] = EveryN[u] - (TicksCounted(u)' % EveryN[u])
    BY DEF CadenceIsLockstep
  <1> USE DEF TicksCounted
  <1>1. ticks_until_due[u] = EveryN[u] - (TicksCounted(u) % EveryN[u])
    BY DEF CadenceIsLockstep
  <1>2. ASSUME u \in todo PROVE Countdown(u) = EveryN[u] - (tick % EveryN[u])
    BY <1>1, <1>2, CountdownFollowsTick
  <1>3. ticks_until_due \in [Tasks -> Nat] /\ todo \subseteq Tasks
    BY DEF TypeOK
  <1>4. CASE BeginTick
    <2>1. (tick' - 1) % TickModulus = tick
      BY <1>4, ScheduleAssumption, SMTT(30) DEF BeginTick, TypeOK
    <2>2. u \in todo' /\ u \notin todo /\ ticks_until_due' = ticks_until_due
      BY <1>4 DEF BeginTick, record
    <2> QED BY <1>1, <2>1, <2>2
  <1>5. ASSUME NEW t \in Tasks, PassOver(t) \/ StartTask(t)
        PROVE  ticks_until_due'[u] = EveryN[u] - (TicksCounted(u)' % EveryN[u])
    <2>1. /\ t \in todo /\ todo' = todo \ {t} /\ tick' = tick
          /\ ticks_until_due' = [ticks_until_due EXCEPT ![t] = Countdown(t)]
      BY <1>5 DEF PassOver, StartTask, IsNext
    <2>2. CASE u = t
      BY <1>2, <1>3, <2>1, <2>2
    <2>3. CASE u # t
      BY <1>1, <1>3, <2>1, <2>3
    <2> QED BY <2>2, <2>3
  <1>6. ASSUME NEW t \in Tasks, ThrowTask(t)
        PROVE  ticks_until_due'[u] = EveryN[u] - (TicksCounted(u)' % EveryN[u])
    <2>1. /\ todo' = {} /\ tick' = tick
          /\ ticks_until_due'[u] = IF u \in todo THEN Countdown(u) ELSE ticks_until_due[u]
      BY <1>6 DEF ThrowTask, AbortedCountdowns
    <2> QED BY <1>1, <1>2, <2>1
  <1>7. ASSUME UNCHANGED <<tick, todo, ticks_until_due>>
        PROVE  ticks_until_due'[u] = EveryN[u] - (TicksCounted(u)' % EveryN[u])
    BY <1>1, <1>7
  <1> QED
    BY <1>4, <1>5, <1>6, <1>7
    DEF StepOrRequest, Next, Finish, Notify, RequestRun, SetEnabled, FinishTask, vars, record, history

(* A running callback keeps holding what it was started with. *)
LEMMA InHandStep == TypeOK /\ InHandIsWanted /\ [StepOrRequest]_vars => InHandIsWanted'
  <1> SUFFICES ASSUME TypeOK, InHandIsWanted, [StepOrRequest]_vars PROVE InHandIsWanted'
    OBVIOUS
  <1>1. ASSUME NEW t \in Tasks, StartTask(t) PROVE InHandIsWanted'
    BY <1>1 DEF StartTask, InHandIsWanted, Fired, Wanted, Reaches
  <1>2. ASSUME running' = Nobody PROVE InHandIsWanted'
    BY <1>2 DEF InHandIsWanted
  <1>3. ASSUME running' = running PROVE InHandIsWanted'
    BY <1>3 DEF InHandIsWanted, Wanted, Reaches
  <1> QED
    BY <1>1, <1>2, <1>3
    DEF StepOrRequest, Next, Finish, Notify, RequestRun, SetEnabled, BeginTick, PassOver, FinishTask, ThrowTask,
        vars, record, history

(* NoTriggerLost for one task, to be shown of the next state. *)
Accounted(u) == /\ owed[u] = Fired(u) \union InHand(u)
                /\ owed_run[u] = (run_requested[u] \/ RequestInHand(u))

(* The trigger account is preserved, action by action. *)
LEMMA TriggerStep ==
    TypeOK /\ NoTriggerLost /\ InHandIsWanted /\ [StepOrRequest]_vars => NoTriggerLost'
  <1> SUFFICES ASSUME TypeOK, NoTriggerLost, InHandIsWanted, [StepOrRequest]_vars, NEW u \in Tasks
               PROVE  Accounted(u)'
    BY DEF NoTriggerLost, Accounted
  <1> USE DEF Accounted, InHand, RequestInHand
  <1>1. Accounted(u)
    BY DEF NoTriggerLost
  <1>2. /\ pending \in [Tasks -> SUBSET Bits] /\ owed \in [Tasks -> SUBSET Bits]
        /\ run_requested \in [Tasks -> BOOLEAN] /\ owed_run \in [Tasks -> BOOLEAN]
        /\ running \in Calls
    BY DEF TypeOK
  <1>3. Wanted(u) \subseteq Reaches(u)
    BY DEF Wanted
  <1>4. ASSUME NEW bits \in (SUBSET DirtyBits) \union (SUBSET EventBits), Notify(bits)
        PROVE  Accounted(u)'
    <2>1. /\ owed'[u] = owed[u] \union (bits \intersect Wanted(u))
          /\ pending'[u] = pending[u] \union (bits \intersect Reaches(u))
      BY <1>4 DEF Notify, Owing, Merged
    <2>2. Fired(u)' = pending'[u] \intersect Wanted(u)
      BY DEF Fired, Wanted, Reaches
    <2>3. Fired(u) = pending[u] \intersect Wanted(u)
      BY DEF Fired
    <2>4. Fired(u)' = Fired(u) \union (bits \intersect Wanted(u))
      BY <1>3, <2>1, <2>2, <2>3
    <2> QED BY <1>1, <1>4, <2>1, <2>4 DEF Notify
  <1>5. ASSUME NEW t \in Tasks, RequestRun(t) PROVE Accounted(u)'
    BY <1>1, <1>2, <1>5 DEF RequestRun, Fired, Wanted, Reaches
  <1>6. ASSUME NEW t \in Tasks, StartTask(t) PROVE Accounted(u)'
    <2>1. /\ running = Nobody
          /\ running' = [task |-> t, bits |-> Fired(t), requested |-> run_requested[t]]
          /\ pending' = [pending EXCEPT ![t] = @ \ Fired(t)]
          /\ run_requested' = [run_requested EXCEPT ![t] = FALSE]
          /\ owed' = owed /\ owed_run' = owed_run
      BY <1>6 DEF StartTask, IsNext, Consumed
    <2>2. InHand(u) = {} /\ RequestInHand(u) = FALSE
      BY <2>1, NobodyIsNoTask DEF Nobody
    <2>3. CASE u = t
      BY <1>1, <1>2, <2>1, <2>2, <2>3 DEF Fired, Wanted, Reaches
    <2>4. CASE u # t
      BY <1>1, <1>2, <2>1, <2>2, <2>4 DEF Fired, Wanted, Reaches
    <2> QED BY <2>3, <2>4
  <1>7. ASSUME NEW t \in Tasks, NEW produced \in SUBSET Bits, NEW more_work \in BOOLEAN,
               FinishTask(t, produced, more_work)
        PROVE  Accounted(u)'
    <2>1. /\ running.task = t /\ running # Nobody /\ running' = Nobody
          /\ pending'[u] = pending[u] \union (produced \intersect Reaches(u))
          /\ run_requested' = run_requested
          /\ owed'[u] = (IF u = t THEN owed[u] \ (running.bits \ pending[u]) ELSE owed[u])
                        \union (produced \intersect Wanted(u))
          /\ owed_run'[u] = IF u = t THEN run_requested[u] ELSE owed_run[u]
      BY <1>2, <1>7, NobodyIsNoTask DEF FinishTask, Merged, Owing, Nobody
    <2>2. InHand(u)' = {} /\ RequestInHand(u)' = FALSE
      BY <2>1, NobodyIsNoTask DEF Nobody
    <2>3. Fired(u)' = Fired(u) \union (produced \intersect Wanted(u))
      BY <1>3, <2>1 DEF Fired, Wanted, Reaches
    <2>4. CASE u = t
      <3>1. running.bits \subseteq Wanted(u)
        BY <2>1, <2>4 DEF InHandIsWanted
      <3>2. owed[u] \ (running.bits \ pending[u]) = Fired(u)
        BY <1>1, <2>1, <2>4, <3>1 DEF Fired
      <3> QED BY <1>2, <2>1, <2>2, <2>3, <2>4, <3>2
    <2>5. CASE u # t
      BY <1>1, <2>1, <2>2, <2>3, <2>5
    <2> QED BY <2>4, <2>5
  <1>8. ASSUME NEW t \in Tasks, ThrowTask(t) PROVE Accounted(u)'
    <2>1. /\ running.task = t /\ running # Nobody /\ running' = Nobody
          /\ pending' = [pending EXCEPT ![t] = @ \union running.bits]
          /\ run_requested' = [run_requested EXCEPT ![t] = @ \/ running.requested]
          /\ owed' = owed /\ owed_run' = owed_run
      BY <1>8, NobodyIsNoTask DEF ThrowTask, Restored, Nobody
    <2>2. InHand(u)' = {} /\ RequestInHand(u)' = FALSE
      BY <2>1, NobodyIsNoTask DEF Nobody
    <2>3. CASE u = t
      <3>1. running.bits \subseteq Wanted(u)
        BY <2>1, <2>3 DEF InHandIsWanted
      <3>2. Fired(u)' = Fired(u) \union running.bits
        BY <1>2, <2>1, <2>3, <3>1 DEF Fired, Wanted, Reaches
      <3>3. run_requested'[u] = (run_requested[u] \/ running.requested)
        BY <1>2, <2>1, <2>3
      <3> QED BY <1>1, <2>1, <2>2, <2>3, <3>2, <3>3
    <2>4. CASE u # t
      BY <1>1, <1>2, <2>1, <2>2, <2>4 DEF Fired, Wanted, Reaches
    <2> QED BY <2>3, <2>4
  <1>9. ASSUME UNCHANGED <<running, pending, run_requested, owed, owed_run>>
        PROVE  Accounted(u)'
    BY <1>1, <1>9 DEF Fired, Wanted, Reaches
  <1> QED
    BY <1>4, <1>5, <1>6, <1>7, <1>8, <1>9, ScheduleAssumption
    DEF StepOrRequest, Next, Finish, BeginTick, SetEnabled, PassOver, vars, record, history

(* The schedule starts in its invariant.                                   *)
LEMMA ScheduleStarts == QuietInit => ScheduleInv
  <1> SUFFICES ASSUME QuietInit PROVE ScheduleInv
    OBVIOUS
  <1>1. TypeOK
    BY TypeInit
  <1>2. CadenceIsLockstep
    <2> SUFFICES ASSUME NEW t \in Tasks, Kind[t] = "EveryN"
                 PROVE  ticks_until_due[t] = EveryN[t] - (TicksCounted(t) % EveryN[t])
      BY DEF CadenceIsLockstep
    <2>1. TicksCounted(t) = 0 /\ ticks_until_due[t] = EveryN[t] /\ EveryN[t] \in Nat \ {0}
      BY ScheduleAssumption DEF QuietInit, TicksCounted
    <2>2. 0 % EveryN[t] = 0
      BY <2>1, SMT
    <2> QED BY <2>1, <2>2
  <1>3. NoTriggerLost /\ InHandIsWanted
    BY NobodyIsNoTask
    DEF QuietInit, NoTriggerLost, InHandIsWanted, Fired, InHand, RequestInHand, Nobody
  <1> QED BY <1>1, <1>2, <1>3 DEF ScheduleInv

(* Every step and every request keeps the schedule invariant.              *)
LEMMA ScheduleKeeps == ScheduleInv /\ [StepOrRequest]_vars => ScheduleInv'
  BY TypeStep, LockstepStep, InHandStep, TriggerStep DEF ScheduleInv

(* The inductive invariant of the schedule holds throughout. *)
THEOREM ScheduleInvariant == Spec => []ScheduleInv
  <1>1. Init => ScheduleInv
    BY ScheduleStarts DEF Init, QuietInit
  <1>2. ScheduleInv /\ [Next]_vars => ScheduleInv'
    BY ScheduleKeeps DEF StepOrRequest
  <1> QED BY <1>1, <1>2, PTL DEF Spec

(* Every countdown is the one the tick counter determines, whatever is     *)
(* disabled, poked or cut short by a throw.                                *)
THEOREM CountdownsInLockstep == Spec => []CadenceIsLockstep
  <1>1. ScheduleInv => CadenceIsLockstep
    BY DEF ScheduleInv
  <1> QED BY <1>1, ScheduleInvariant, PTL

(* A raised trigger is pending or in the hands of its callback until a     *)
(* callback that took it has returned.                                     *)
THEOREM TriggersAccountedFor == Spec => []NoTriggerLost
  <1>1. ScheduleInv => NoTriggerLost
    BY DEF ScheduleInv
  <1> QED BY <1>1, ScheduleInvariant, PTL

-----------------------------------------------------------------------------
(* Induction up to a bound, over a set instead of a predicate.             *)
LEMMA LeastNumber ==
    ASSUME NEW T \in SUBSET Nat, T # {}
    PROVE  \E m \in T : \A k \in T : m <= k
  <1> DEFINE R == OpToRel(<, Nat)
  <1>1. IsWellFoundedOn(R, Nat)
    BY NatLessThanWellFounded
  <1>2. R = {ss \in Nat \X Nat : ss[1] < ss[2]}
    BY DEF OpToRel
  <1> HIDE DEF R
  <1>3. PICK m \in T : \A k \in T : ~(<<k, m>> \in R)
    BY <1>1, WFMin
  <1>4. \A k \in T : ~(k < m)
    BY <1>2, <1>3
  <1> QED BY <1>4

(* From 0 up to N, by the least counterexample. *)
LEMMA BoundedInduction ==
    ASSUME NEW N \in Nat, NEW S, 0 \in S, \A n \in 1 .. N : n - 1 \in S => n \in S
    PROVE  \A n \in 0 .. N : n \in S
  <1> DEFINE T == {n \in 0 .. N : n \notin S}
  <1>1. ASSUME T # {} PROVE FALSE
    <2>1. T \in SUBSET Nat
      OBVIOUS
    <2>2. PICK m \in T : \A k \in T : m <= k
      <3> HIDE DEF T
      <3> QED BY <1>1, <2>1, LeastNumber
    <2>3. m \in 1 .. N /\ m - 1 \in 0 .. N
      OBVIOUS
    <2>4. m - 1 \notin T
      <3> HIDE DEF T
      <3> QED BY <2>2, <2>3
    <2> QED BY <2>3, <2>4
  <1> QED BY <1>1

(* The total of a function over 1 .. n, as Waited accumulates it.          *)
Accumulates(f, g, N) == f[0] = 0 /\ \A n \in 1 .. N : f[n] = f[n - 1] + g[n]

(* Every sequence of terms has a total. *)
LEMMA TotalsExist ==
    ASSUME NEW N \in Nat, NEW g \in [1 .. N -> Nat]
    PROVE  \E f \in [0 .. N -> Nat] : Accumulates(f, g, N)
  <1> DEFINE Has(k) == \E f \in [0 .. k -> Nat] : Accumulates(f, g, k)
             S == {k \in 0 .. N : Has(k)}
  <1>1. Has(0)
    <2> DEFINE f == [n \in 0 .. 0 |-> 0]
    <2>1. f \in [0 .. 0 -> Nat] /\ Accumulates(f, g, 0)
      BY DEF Accumulates
    <2> QED BY <2>1
  <1>2. ASSUME NEW m \in 1 .. N, Has(m - 1) PROVE Has(m)
    <2>1. PICK f \in [0 .. m - 1 -> Nat] : Accumulates(f, g, m - 1)
      BY <1>2
    <2> DEFINE h == [n \in 0 .. m |-> IF n = m THEN f[m - 1] + g[m] ELSE f[n]]
    <2>2. h \in [0 .. m -> Nat]
      <3>1. f[m - 1] + g[m] \in Nat
        OBVIOUS
      <3>2. \A n \in 0 .. m : n # m => n \in 0 .. m - 1
        OBVIOUS
      <3> QED BY <3>1, <3>2
    <2>3. Accumulates(h, g, m)
      <3>1. h[0] = 0
        BY <2>1 DEF Accumulates
      <3>2. ASSUME NEW n \in 1 .. m PROVE h[n] = h[n - 1] + g[n]
        BY <2>1 DEF Accumulates
      <3> QED BY <3>1, <3>2 DEF Accumulates
    <2> HIDE DEF h
    <2> QED BY <2>2, <2>3
  <1>3. \A n \in 0 .. N : n \in S
    <2>1. 0 \in S /\ \A n \in 1 .. N : n - 1 \in S => n \in S
      <3> HIDE DEF Has
      <3> QED BY <1>1, <1>2
    <2> HIDE DEF S
    <2> QED BY <2>1, BoundedInduction
  <1> QED BY <1>3

(* What waits is the total of the ages of the pending slots. *)
Age(i) == IF IsPending(i) THEN flow.clock - slots[i].submitted ELSE 0
(* The wait is the last of the partial sums of the ages.                   *)
LEMMA WaitedIsTotal ==
    ASSUME QueueTypeOK, \A i \in DOMAIN slots : slots[i].submitted <= flow.clock
    PROVE  \E f \in [0 .. Len(slots) -> Nat] :
             Waited = f[Len(slots)] /\ Accumulates(f, [i \in 1 .. Len(slots) |-> Age(i)], Len(slots))
  <1> DEFINE N == Len(slots)
             g == [i \in 1 .. N |-> Age(i)]
             upTo[n \in 0 .. Len(slots)] ==
               IF n = 0 THEN 0
               ELSE upTo[n - 1] + IF IsPending(n) THEN flow.clock - slots[n].submitted
                                                  ELSE 0
  <1>1. slots \in Seq(Slot) /\ N \in Nat /\ DOMAIN slots = 1 .. N /\ flow.clock \in Nat
        /\ \A i \in 1 .. N : slots[i].submitted \in Nat
    <2>1. slots \in Seq(Slot) /\ flow \in FlowRecord
      BY DEF QueueTypeOK
    <2>2. N \in Nat /\ DOMAIN slots = 1 .. N /\ \A i \in 1 .. N : slots[i] \in Slot
      BY <2>1, LenProperties, ElementOfSeq
    <2> QED BY <2>1, <2>2 DEF FlowRecord, Slot
  <1>2. g \in [1 .. N -> Nat]
    <2> HIDE DEF N
    <2>1. ASSUME NEW i \in 1 .. N PROVE Age(i) \in Nat
      <3>1. slots[i].submitted \in Nat /\ slots[i].submitted <= flow.clock
        BY <1>1
      <3> QED BY <1>1, <3>1 DEF Age
    <2> QED BY <2>1
  <1>3. PICK f \in [0 .. N -> Nat] : Accumulates(f, g, N)
    <2> HIDE DEF g, N
    <2> QED BY <1>1, <1>2, TotalsExist
  <1>4. f = [n \in 0 .. N |-> IF n = 0 THEN 0
                              ELSE f[n - 1] + IF IsPending(n) THEN flow.clock - slots[n].submitted ELSE 0]
    <2>1. \A n \in 0 .. N : f[n] = IF n = 0 THEN 0
                              ELSE f[n - 1] + IF IsPending(n) THEN flow.clock - slots[n].submitted ELSE 0
      BY <1>1, <1>3 DEF Accumulates, Age
    <2> QED BY <2>1
  <1>5. upTo = [n \in 0 .. N |-> IF n = 0 THEN 0
                              ELSE upTo[n - 1] + IF IsPending(n) THEN flow.clock - slots[n].submitted ELSE 0]
    BY <1>4
  <1>6. Waited = upTo[N]
    BY DEF Waited
  <1> HIDE DEF upTo, g
  <1> DEFINE S == {n \in 0 .. N : upTo[n] = f[n]}
  <1>7. 0 \in S /\ \A n \in 1 .. N : n - 1 \in S => n \in S
    <2>1. upTo[0] = 0 /\ f[0] = 0
      BY <1>1, <1>4, <1>5
    <2>2. ASSUME NEW n \in 1 .. N, upTo[n - 1] = f[n - 1] PROVE upTo[n] = f[n]
      BY <1>1, <1>4, <1>5, <2>2
    <2> QED BY <1>1, <2>1, <2>2
  <1>8. \A n \in 0 .. N : n \in S
    <2> HIDE DEF S, N
    <2> QED BY <1>1, <1>7, BoundedInduction
  <1>9. Waited = f[N]
    BY <1>1, <1>6, <1>8
  <1> QED BY <1>3, <1>9 DEF g

(* The same, in this state and in the next one. *)
Dated == QueueTypeOK /\ \A i \in DOMAIN slots : slots[i].submitted <= flow.clock
Totalled ==
    \E f \in [0 .. Len(slots) -> Nat] :
        Waited = f[Len(slots)] /\ Accumulates(f, [i \in 1 .. Len(slots) |-> Age(i)], Len(slots))
(* The same as an implication, so that it can be primed. *)
LEMMA DatedIsTotalled == Dated => Totalled
  BY WaitedIsTotal DEF Dated, Totalled
(* The same after a step.                                                  *)
LEMMA DatedIsTotalledNext == Dated' => Totalled'
  BY DatedIsTotalled, PTL

(* What the type of the slots gives. *)
LEMMA SlotsTyped ==
    ASSUME QueueTypeOK
    PROVE  /\ slots \in Seq(Slot) /\ Len(slots) \in Nat /\ DOMAIN slots = 1 .. Len(slots)
           /\ \A i \in 1 .. Len(slots) : slots[i] \in Slot
           /\ flow.clock \in Nat
  <1>1. slots \in Seq(Slot) /\ flow \in FlowRecord
    BY DEF QueueTypeOK
  <1>2. Len(slots) \in Nat /\ DOMAIN slots = 1 .. Len(slots) /\ \A i \in 1 .. Len(slots) : slots[i] \in Slot
    BY <1>1, LenProperties, ElementOfSeq
  <1> QED BY <1>1, <1>2 DEF FlowRecord

(* Ages are numbers, in this state and in the next one. *)
LEMMA AgesAreNat == Dated => Len(slots) \in Nat /\ \A i \in 1 .. Len(slots) : Age(i) \in Nat
  <1> SUFFICES ASSUME Dated, NEW i \in 1 .. Len(slots) PROVE Len(slots) \in Nat /\ Age(i) \in Nat
    BY SlotsTyped DEF Dated
  <1>1. /\ Len(slots) \in Nat /\ flow.clock \in Nat
        /\ slots[i].submitted \in Nat /\ slots[i].submitted <= flow.clock
    BY SlotsTyped DEF Dated, Slot
  <1> QED BY <1>1 DEF Age
(* The same after a step.                                                  *)
LEMMA AgesAreNatNext == Dated' => (Len(slots) \in Nat /\ \A i \in 1 .. Len(slots) : Age(i) \in Nat)'
  BY AgesAreNat, PTL

(* The terms of one total exceed those of the other by d at the members of P. *)
Exceeds(k, g, P, d, N) ==
    /\ P \in SUBSET (1 .. N) /\ d \in Nat
    /\ \A n \in 1 .. N : k[n] = g[n] + IF n \in P THEN d ELSE 0
Totals(f, g, N) ==
    N \in Nat /\ g \in [1 .. N -> Nat] /\ f \in [0 .. N -> Nat] /\ Accumulates(f, g, N)

(* Two totals whose terms differ by d at the members of a set.             *)
LEMMA TotalsCompare ==
    ASSUME NEW N, NEW g, NEW k, NEW f, NEW h, NEW P, NEW d,
           Totals(f, g, N), Totals(h, k, N), Exceeds(k, g, P, d, N)
    PROVE  h[N] = f[N] + d * Cardinality(P)
  <1> USE DEF Exceeds, Totals
  <1> DEFINE Q(n) == P \cap (1 .. n)
             S == {n \in 0 .. N : h[n] = f[n] + d * Cardinality(Q(n))}
  <1>1. ASSUME NEW n \in 0 .. N PROVE IsFiniteSet(Q(n)) /\ Cardinality(Q(n)) \in Nat
    <2>1. IsFiniteSet(1 .. n)
      BY FS_Interval
    <2> QED BY <2>1, FS_Subset, FS_CardinalityType
  <1>2. 0 \in S
    <2>1. Q(0) = {} /\ Cardinality({}) = 0
      BY FS_EmptySet
    <2> QED BY <2>1 DEF Accumulates
  <1>3. ASSUME NEW n \in 1 .. N, n - 1 \in S PROVE n \in S
    <2>1. /\ h[n] = h[n - 1] + k[n] /\ f[n] = f[n - 1] + g[n]
          /\ k[n] = g[n] + IF n \in P THEN d ELSE 0
          /\ n - 1 \in 0 .. N
      BY DEF Accumulates
    <2>2. h[n - 1] = f[n - 1] + d * Cardinality(Q(n - 1))
      BY <1>3
    <2>3. IsFiniteSet(Q(n - 1)) /\ Cardinality(Q(n - 1)) \in Nat
      BY <1>1, <2>1
    <2>4. CASE n \in P
      <3>1. Q(n) = Q(n - 1) \cup {n} /\ n \notin Q(n - 1)
        BY <2>4
      <3>2. Cardinality(Q(n)) = Cardinality(Q(n - 1)) + 1
        BY <2>3, <3>1, FS_AddElement
      <3> DEFINE c == Cardinality(Q(n - 1))
      <3>3. c \in Nat /\ d * (c + 1) = d * c + d
        BY <2>3
      <3> HIDE DEF Q
      <3> QED BY <2>1, <2>2, <2>4, <3>2, <3>3
    <2>5. CASE n \notin P
      <3>1. Q(n) = Q(n - 1)
        BY <2>5
      <3> HIDE DEF Q
      <3> QED BY <2>1, <2>2, <2>3, <2>5, <3>1
    <2> QED BY <2>4, <2>5
  <1>4. \A n \in 0 .. N : n \in S
    <2> HIDE DEF S
    <2> QED BY <1>2, <1>3, BoundedInduction
  <1>5. Q(N) = P
    OBVIOUS
  <1> QED BY <1>4, <1>5

(* Two totals of the same terms agree. *)
LEMMA TotalsAreUnique ==
    ASSUME NEW N, NEW g, NEW f, NEW h, Totals(f, g, N), Totals(h, g, N)
    PROVE  h[N] = f[N]
  <1>1. Exceeds(g, g, {}, 0, N)
    BY DEF Exceeds, Totals
  <1>2. h[N] = f[N] + 0 * Cardinality({})
    BY <1>1, TotalsCompare
  <1>3. Cardinality({}) = 0 /\ f[N] \in Nat
    BY FS_EmptySet DEF Totals
  <1> QED BY <1>2, <1>3

(* How what waits changes when the ages of the slots do. *)
LEMMA WaitedChanges ==
    ASSUME Dated, Dated', Len(slots') = Len(slots),
           NEW P \in SUBSET (1 .. Len(slots)), NEW d \in Nat
    PROVE  /\ Waited \in Nat
           /\ (\A n \in 1 .. Len(slots) : Age(n)' = Age(n) + IF n \in P THEN d ELSE 0)
                => Waited' = Waited + d * Cardinality(P)
           /\ (\A n \in 1 .. Len(slots) : Age(n) = Age(n)' + IF n \in P THEN d ELSE 0)
                => Waited = Waited' + d * Cardinality(P)
  <1> DEFINE N == Len(slots)
             g == [i \in 1 .. N |-> Age(i)]
             k == [i \in 1 .. N |-> Age(i)']
  <1>1. N \in Nat /\ g \in [1 .. N -> Nat]
    BY AgesAreNat
  <1>2. k \in [1 .. N -> Nat]
    BY AgesAreNatNext
  <1>3. PICK f \in [0 .. N -> Nat] : Waited = f[N] /\ Accumulates(f, g, N)
    BY DatedIsTotalled DEF Totalled
  <1>4. PICK h \in [0 .. N -> Nat] : Waited' = h[N] /\ Accumulates(h, k, N)
    BY DatedIsTotalledNext DEF Totalled
  <1>5. (\A n \in 1 .. N : g[n] = Age(n) /\ k[n] = Age(n)') /\ P \in SUBSET (1 .. N)
    OBVIOUS
  <1> HIDE DEF N, g, k
  <1>t. Totals(f, g, N) /\ Totals(h, k, N)
    BY <1>1, <1>2, <1>3, <1>4 DEF Totals
  <1>6. ASSUME \A n \in 1 .. N : k[n] = g[n] + IF n \in P THEN d ELSE 0
        PROVE  h[N] = f[N] + d * Cardinality(P)
    <2>1. Exceeds(k, g, P, d, N)
      BY <1>5, <1>6 DEF Exceeds
    <2> QED BY <1>t, <2>1, TotalsCompare
  <1>7. ASSUME \A n \in 1 .. N : g[n] = k[n] + IF n \in P THEN d ELSE 0
        PROVE  f[N] = h[N] + d * Cardinality(P)
    <2>1. Exceeds(g, k, P, d, N)
      BY <1>5, <1>7 DEF Exceeds
    <2> QED BY <1>t, <2>1, TotalsCompare
  <1>8. f[N] \in Nat
    BY <1>1
  <1> QED BY <1>3, <1>4, <1>5, <1>6, <1>7, <1>8 DEF N

-----------------------------------------------------------------------------
(* The accountant's books, for so many pending and finished slots that have *)
(* waited so long together.                                                 *)
Books(f, outstanding, finished, waited) ==
    /\ f \in FlowRecord
    /\ AdmissionIdentity(f) /\ RetentionIdentity(f)
    /\ f.outstanding = outstanding
    /\ finished <= f.terminal["completed"]
    /\ f.inventory = f.residence + waited

(* The types of the fields. *)
LEMMA FlowFields ==
    ASSUME NEW f \in FlowRecord
    PROVE  /\ f.offered \in Nat /\ f.admitted \in Nat /\ f.rejected \in Nat
           /\ f.outstanding \in Nat /\ f.inventory \in Nat /\ f.residence \in Nat
           /\ f.clock \in Nat /\ f.terminal \in [Buckets -> Nat]
           /\ \A b \in {"completed", "negative", "stale", "dropped"} : f.terminal[b] \in Nat
  BY DEF FlowRecord, Buckets

(* An item leaves the outstanding set for one terminal bucket. *)
LEMMA BooksSettle ==
    ASSUME NEW f, NEW n \in Nat \ {0}, NEW fin \in Nat, NEW w \in Nat,
           Books(f, n, fin, w),
           NEW state \in {"ready", "negative", "stale"},
           NEW since \in Nat, since <= f.clock, NEW left \in Nat, w = left + (f.clock - since)
    PROVE  LET g == RecordLeft(AddTo(f, BucketOf(state)), since)
           IN  /\ Books(g, n - 1, IF state = "ready" THEN fin + 1 ELSE fin, left)
               /\ g.clock = f.clock /\ g.offered = f.offered
  <1> DEFINE b == BucketOf(state)
             h == AddTo(f, b)
             g == RecordLeft(h, since)
  <1>1. f \in FlowRecord /\ b \in Buckets /\ b \in {"completed", "negative", "stale"}
        /\ (b = "completed" <=> state = "ready")
    BY DEF Books, BucketOf, Buckets
  <1>2. /\ f.offered \in Nat /\ f.admitted \in Nat /\ f.rejected \in Nat
        /\ f.outstanding \in Nat /\ f.inventory \in Nat /\ f.residence \in Nat
        /\ f.clock \in Nat /\ f.terminal \in [Buckets -> Nat]
        /\ \A c \in {"completed", "negative", "stale", "dropped"} : f.terminal[c] \in Nat
    BY <1>1, FlowFields
  <1> HIDE DEF b
  <1> DEFINE term == [f.terminal EXCEPT ![b] = @ + 1]
  <1>3. h = [f EXCEPT !.terminal = term]
    BY <1>1 DEF AddTo, FlowRecord
  <1>4. term \in [Buckets -> Nat]
    BY <1>1, <1>2
  <1>5. /\ term["completed"] = f.terminal["completed"] + IF b = "completed" THEN 1 ELSE 0
        /\ term["negative"] = f.terminal["negative"] + IF b = "negative" THEN 1 ELSE 0
        /\ term["stale"] = f.terminal["stale"] + IF b = "stale" THEN 1 ELSE 0
        /\ term["dropped"] = f.terminal["dropped"]
    BY <1>1, <1>2 DEF Buckets
  <1> HIDE DEF term
  <1>6. /\ h.terminal = term /\ h.offered = f.offered /\ h.admitted = f.admitted
        /\ h.rejected = f.rejected /\ h.outstanding = f.outstanding
        /\ h.inventory = f.inventory /\ h.residence = f.residence /\ h.clock = f.clock
        /\ h \in FlowRecord
    BY <1>1, <1>3, <1>4 DEF FlowRecord
  <1> HIDE DEF h
  <1>7. f.outstanding = n /\ n > 0 /\ f.clock - since \in Nat
    BY <1>2 DEF Books
  <1>8. /\ g = [h EXCEPT !.outstanding = n - 1, !.residence = f.residence + (f.clock - since)]
        /\ n - 1 \in Nat /\ f.residence + (f.clock - since) \in Nat
    BY <1>2, <1>6, <1>7 DEF RecordLeft
  <1>9. /\ g.terminal = term /\ g.offered = f.offered /\ g.admitted = f.admitted
        /\ g.rejected = f.rejected /\ g.outstanding = n - 1
        /\ g.inventory = f.inventory /\ g.residence = f.residence + (f.clock - since)
        /\ g.clock = f.clock /\ g \in FlowRecord
    BY <1>6, <1>8 DEF FlowRecord
  <1> HIDE DEF g
  <1>10. /\ f.offered = f.admitted + f.rejected
         /\ f.admitted = f.terminal["completed"] + f.terminal["negative"]
                         + f.terminal["stale"] + f.terminal["dropped"] + f.outstanding
         /\ fin <= f.terminal["completed"] /\ f.inventory = f.residence + w
    BY DEF Books, AdmissionIdentity, RetentionIdentity, Terminal
  <1>11. Books(g, n - 1, IF state = "ready" THEN fin + 1 ELSE fin, left)
    <2>1. AdmissionIdentity(g)
      BY <1>9, <1>10 DEF AdmissionIdentity
    <2>2. term["completed"] + term["negative"] + term["stale"] + term["dropped"]
          = f.terminal["completed"] + f.terminal["negative"] + f.terminal["stale"] + f.terminal["dropped"] + 1
      <3>1. CASE b = "completed"
        <4>1. /\ term["completed"] = f.terminal["completed"] + 1
              /\ term["negative"] = f.terminal["negative"] + 0
              /\ term["stale"] = f.terminal["stale"] + 0
          BY <1>5, <3>1
        <4> QED BY <1>2, <1>5, <4>1
      <3>2. CASE b = "negative"
        BY <1>2, <1>5, <3>2
      <3>3. CASE b = "stale"
        BY <1>2, <1>5, <3>3
      <3> QED BY <1>1, <3>1, <3>2, <3>3
    <2>5. RetentionIdentity(g)
      BY <1>2, <1>7, <1>9, <1>10, <2>2 DEF RetentionIdentity, Terminal
    <2>3. (IF state = "ready" THEN fin + 1 ELSE fin) <= g.terminal["completed"]
      BY <1>1, <1>2, <1>5, <1>9, <1>10
    <2>4. g.inventory = g.residence + left
      BY <1>2, <1>7, <1>9, <1>10
    <2> QED BY <1>9, <2>1, <2>3, <2>4, <2>5 DEF Books
  <1> QED BY <1>9, <1>11 DEF g, h, b

(* A submission is admitted and stays outstanding. *)
LEMMA BooksAdmit ==
    ASSUME NEW f, NEW n \in Nat, NEW fin \in Nat, NEW w \in Nat, Books(f, n, fin, w)
    PROVE  LET g == RecordAdmitted([f EXCEPT !.offered = @ + 1])
           IN  /\ Books(g, n + 1, fin, w)
               /\ g.clock = f.clock /\ g.offered = f.offered + 1
  <1> DEFINE h == [f EXCEPT !.offered = @ + 1]
             g == RecordAdmitted(h)
  <1>1. f \in FlowRecord
    BY DEF Books
  <1>2. /\ f.offered \in Nat /\ f.admitted \in Nat /\ f.rejected \in Nat
        /\ f.outstanding \in Nat /\ f.inventory \in Nat /\ f.residence \in Nat
        /\ f.clock \in Nat /\ f.terminal \in [Buckets -> Nat]
        /\ \A c \in {"completed", "negative", "stale", "dropped"} : f.terminal[c] \in Nat
    BY <1>1, FlowFields
  <1>5. /\ f.offered + 1 \in Nat /\ f.admitted + 1 \in Nat /\ f.outstanding + 1 \in Nat
    BY <1>2
  <1>6. /\ h.offered = f.offered + 1 /\ h.admitted = f.admitted
        /\ h.rejected = f.rejected /\ h.outstanding = f.outstanding
        /\ h.terminal = f.terminal /\ h.inventory = f.inventory
        /\ h.residence = f.residence /\ h.clock = f.clock /\ h \in FlowRecord
    BY <1>1, <1>5 DEF FlowRecord
  <1> HIDE DEF h
  <1>7. g = [h EXCEPT !.admitted = f.admitted + 1, !.outstanding = f.outstanding + 1]
    BY <1>6 DEF RecordAdmitted
  <1>3. /\ g.offered = f.offered + 1 /\ g.admitted = f.admitted + 1
        /\ g.rejected = f.rejected /\ g.outstanding = f.outstanding + 1
        /\ g.terminal = f.terminal /\ g.inventory = f.inventory
        /\ g.residence = f.residence /\ g.clock = f.clock /\ g \in FlowRecord
    BY <1>5, <1>6, <1>7 DEF FlowRecord
  <1> HIDE DEF g
  <1>4. Books(g, n + 1, fin, w)
    <2>1. AdmissionIdentity(g)
      BY <1>2, <1>3 DEF Books, AdmissionIdentity
    <2>3. Terminal(g) = Terminal(f) /\ Terminal(f) \in Nat
      BY <1>2, <1>3 DEF Terminal
    <2>2. RetentionIdentity(g)
      BY <1>2, <1>3, <2>3 DEF Books, RetentionIdentity
    <2> QED BY <1>2, <1>3, <2>1, <2>2 DEF Books
  <1> QED BY <1>3, <1>4 DEF g, h

(* An immediate submission is admitted and completed at once. *)
LEMMA BooksImmediate ==
    ASSUME NEW f, NEW n \in Nat, NEW fin \in Nat, NEW w \in Nat, Books(f, n, fin, w)
    PROVE  LET g == AddTo([f EXCEPT !.offered = @ + 1, !.admitted = @ + 1], "completed")
           IN  /\ Books(g, n, fin + 1, w)
               /\ g.clock = f.clock /\ g.offered = f.offered + 1
  <1> DEFINE h == [f EXCEPT !.offered = @ + 1, !.admitted = @ + 1]
             g == AddTo(h, "completed")
  <1>1. f \in FlowRecord
    BY DEF Books
  <1>2. /\ f.offered \in Nat /\ f.admitted \in Nat /\ f.rejected \in Nat
        /\ f.outstanding \in Nat /\ f.inventory \in Nat /\ f.residence \in Nat
        /\ f.clock \in Nat /\ f.terminal \in [Buckets -> Nat]
        /\ \A c \in {"completed", "negative", "stale", "dropped"} : f.terminal[c] \in Nat
    BY <1>1, FlowFields
  <1>3. /\ h.offered = f.offered + 1 /\ h.admitted = f.admitted + 1
        /\ h.rejected = f.rejected /\ h.outstanding = f.outstanding
        /\ h.terminal = f.terminal /\ h.inventory = f.inventory
        /\ h.residence = f.residence /\ h.clock = f.clock /\ h \in FlowRecord
    <2>1. /\ f.offered + 1 \in Nat /\ f.admitted + 1 \in Nat
          /\ h = [f EXCEPT !.offered = f.offered + 1, !.admitted = f.admitted + 1]
      BY <1>1, <1>2
    <2> HIDE DEF h
    <2> QED BY <1>1, <2>1 DEF FlowRecord
  <1> HIDE DEF h
  <1> DEFINE term == [f.terminal EXCEPT !["completed"] = @ + 1]
  <1>4. /\ term \in [Buckets -> Nat] /\ term["completed"] = f.terminal["completed"] + 1
        /\ term["negative"] = f.terminal["negative"] /\ term["stale"] = f.terminal["stale"]
        /\ term["dropped"] = f.terminal["dropped"]
    BY <1>2 DEF Buckets
  <1>5. g = [h EXCEPT !.terminal = term]
    BY <1>3 DEF AddTo
  <1> HIDE DEF term
  <1>6. /\ g.terminal = term /\ g.offered = h.offered /\ g.admitted = h.admitted
        /\ g.rejected = h.rejected /\ g.outstanding = h.outstanding
        /\ g.inventory = h.inventory /\ g.residence = h.residence /\ g.clock = h.clock
        /\ g \in FlowRecord
    BY <1>3, <1>4, <1>5 DEF FlowRecord
  <1> HIDE DEF g
  <1>7. Books(g, n, fin + 1, w)
    <2>1. AdmissionIdentity(g) /\ RetentionIdentity(g)
      BY <1>2, <1>3, <1>4, <1>6 DEF Books, AdmissionIdentity, RetentionIdentity, Terminal
    <2>2. fin + 1 <= g.terminal["completed"] /\ g.outstanding = n /\ g.inventory = g.residence + w
      BY <1>2, <1>3, <1>4, <1>6 DEF Books
    <2> QED BY <1>6, <2>1, <2>2 DEF Books
  <1> QED BY <1>3, <1>6, <1>7 DEF g, h

(* A completed item moves to the stale bucket. *)
LEMMA BooksOutdate ==
    ASSUME NEW f, NEW n \in Nat, NEW fin \in Nat \ {0}, NEW w \in Nat, Books(f, n, fin, w)
    PROVE  LET g == AddTo([f EXCEPT !.terminal["completed"] =
                                        IF @ > 0 THEN @ - 1 ELSE @], "stale")
           IN  /\ Books(g, n, fin - 1, w)
               /\ g.clock = f.clock /\ g.offered = f.offered
  <1> DEFINE h == [f EXCEPT !.terminal["completed"] = IF @ > 0 THEN @ - 1 ELSE @]
             g == AddTo(h, "stale")
             less == [f.terminal EXCEPT !["completed"] = f.terminal["completed"] - 1]
             term == [less EXCEPT !["stale"] = @ + 1]
  <1>1. f \in FlowRecord /\ fin <= f.terminal["completed"]
    BY DEF Books
  <1>2. /\ f.offered \in Nat /\ f.admitted \in Nat /\ f.rejected \in Nat
        /\ f.outstanding \in Nat /\ f.inventory \in Nat /\ f.residence \in Nat
        /\ f.clock \in Nat /\ f.terminal \in [Buckets -> Nat]
        /\ \A c \in {"completed", "negative", "stale", "dropped"} : f.terminal[c] \in Nat
    BY <1>1, FlowFields
  <1>3. f.terminal["completed"] > 0 /\ f.terminal["completed"] - 1 \in Nat
    BY <1>1, <1>2
  <1>4. h = [f EXCEPT !.terminal = less] /\ less \in [Buckets -> Nat]
    <2>1. [f.terminal EXCEPT !["completed"] = IF @ > 0 THEN @ - 1 ELSE @] = less
      BY <1>2, <1>3
    <2>2. h = [f EXCEPT !.terminal = [f.terminal EXCEPT !["completed"] = IF @ > 0 THEN @ - 1 ELSE @]]
      BY <1>1 DEF FlowRecord
    <2>3. less \in [Buckets -> Nat]
      BY <1>2, <1>3
    <2>4. h = [f EXCEPT !.terminal = less]
      BY <2>1, <2>2
    <2> QED BY <2>3, <2>4
  <1>5. /\ less["completed"] = f.terminal["completed"] - 1
        /\ less["negative"] = f.terminal["negative"]
        /\ less["stale"] = f.terminal["stale"] /\ less["dropped"] = f.terminal["dropped"]
    BY <1>2 DEF Buckets
  <1> HIDE DEF h, less
  <1>6. /\ h.terminal = less /\ h.offered = f.offered /\ h.admitted = f.admitted
        /\ h.rejected = f.rejected /\ h.outstanding = f.outstanding
        /\ h.inventory = f.inventory /\ h.residence = f.residence /\ h.clock = f.clock
        /\ h \in FlowRecord
    BY <1>1, <1>4 DEF FlowRecord
  <1>7. g = [h EXCEPT !.terminal = term] /\ term \in [Buckets -> Nat]
    <2>1. term \in [Buckets -> Nat]
      BY <1>4 DEF Buckets
    <2>2. g = [h EXCEPT !.terminal = [h.terminal EXCEPT !["stale"] = @ + 1]]
      BY <1>6 DEF AddTo, FlowRecord
    <2> QED BY <1>6, <2>1, <2>2
  <1>8. /\ term["completed"] = f.terminal["completed"] - 1
        /\ term["negative"] = f.terminal["negative"]
        /\ term["stale"] = f.terminal["stale"] + 1 /\ term["dropped"] = f.terminal["dropped"]
    BY <1>4, <1>5 DEF Buckets
  <1> HIDE DEF term
  <1>9. /\ g.terminal = term /\ g.offered = f.offered /\ g.admitted = f.admitted
        /\ g.rejected = f.rejected /\ g.outstanding = f.outstanding
        /\ g.inventory = f.inventory /\ g.residence = f.residence /\ g.clock = f.clock
        /\ g \in FlowRecord
    BY <1>6, <1>7 DEF FlowRecord
  <1> HIDE DEF g
  <1>10. Books(g, n, fin - 1, w)
    <2>1. AdmissionIdentity(g)
      BY <1>9 DEF Books, AdmissionIdentity
    <2>2. Terminal(g) = Terminal(f)
      BY <1>2, <1>3, <1>8, <1>9 DEF Terminal
    <2>3. RetentionIdentity(g)
      BY <1>9, <2>2 DEF Books, RetentionIdentity
    <2>4. fin - 1 <= g.terminal["completed"]
      BY <1>1, <1>2, <1>8, <1>9
    <2> QED BY <1>9, <2>1, <2>3, <2>4 DEF Books
  <1> QED BY <1>9, <1>10 DEF g, h

(* Every pending item is dropped. *)
Dropped(f, n, w) ==
    [f EXCEPT !.terminal["dropped"] = @ + n,
              !.outstanding = IF @ > n THEN @ - n ELSE 0,
              !.residence = @ + w]

(* clear() books what it drops.                                            *)
LEMMA BooksClear ==
    ASSUME NEW f, NEW n \in Nat, NEW fin \in Nat, NEW w \in Nat, Books(f, n, fin, w)
    PROVE  /\ Books(Dropped(f, n, w), 0, 0, 0)
           /\ Dropped(f, n, w).clock = f.clock /\ Dropped(f, n, w).offered = f.offered
  <1> DEFINE term == [f.terminal EXCEPT !["dropped"] = @ + n]
             g == Dropped(f, n, w)
             h == [f EXCEPT !.terminal = term, !.outstanding = 0, !.residence = f.residence + w]
  <1>1. f \in FlowRecord /\ f.outstanding = n
    BY DEF Books
  <1>2. /\ f.offered \in Nat /\ f.admitted \in Nat /\ f.rejected \in Nat
        /\ f.outstanding \in Nat /\ f.inventory \in Nat /\ f.residence \in Nat
        /\ f.clock \in Nat /\ f.terminal \in [Buckets -> Nat]
        /\ \A c \in {"completed", "negative", "stale", "dropped"} : f.terminal[c] \in Nat
    BY <1>1, FlowFields
  <1>3. g = h
    <2>1. (IF f.outstanding > n THEN f.outstanding - n ELSE 0) = 0
      BY <1>1
    <2>2. g = [f EXCEPT !.terminal = term,
                        !.outstanding = IF f.outstanding > n THEN f.outstanding - n ELSE 0,
                        !.residence = f.residence + w]
      BY <1>1 DEF FlowRecord, Dropped
    <2>3. h = [f EXCEPT !.terminal = term, !.outstanding = 0, !.residence = f.residence + w]
      OBVIOUS
    <2> HIDE DEF g, h, term
    <2> QED BY <2>1, <2>2, <2>3
  <1>4. term \in [Buckets -> Nat] /\ f.residence + w \in Nat
    <2>1. f.terminal["dropped"] + n \in Nat /\ f.residence + w \in Nat
      BY <1>2
    <2>2. term = [f.terminal EXCEPT !["dropped"] = f.terminal["dropped"] + n]
      OBVIOUS
    <2>3. term \in [Buckets -> Nat]
      BY <1>2, <2>1, <2>2
    <2> QED BY <2>1, <2>3
  <1>5. /\ term["completed"] = f.terminal["completed"] /\ term["negative"] = f.terminal["negative"]
        /\ term["stale"] = f.terminal["stale"] /\ term["dropped"] = f.terminal["dropped"] + n
    BY <1>2 DEF Buckets
  <1> HIDE DEF term
  <1>6. /\ h.terminal = term /\ h.offered = f.offered /\ h.admitted = f.admitted
        /\ h.rejected = f.rejected /\ h.outstanding = 0
        /\ h.inventory = f.inventory /\ h.residence = f.residence + w /\ h.clock = f.clock
        /\ h \in FlowRecord
    BY <1>1, <1>4 DEF FlowRecord
  <1> HIDE DEF h, g
  <1>7. Books(h, 0, 0, 0)
    <2>1. AdmissionIdentity(h)
      BY <1>6 DEF Books, AdmissionIdentity
    <2>2. Terminal(h) = Terminal(f) + n /\ Terminal(f) \in Nat
      BY <1>2, <1>5, <1>6 DEF Terminal
    <2>3. RetentionIdentity(h)
      BY <1>1, <1>2, <1>6, <2>2 DEF Books, RetentionIdentity
    <2>4. 0 <= h.terminal["completed"] /\ h.inventory = h.residence + 0
      BY <1>2, <1>5, <1>6 DEF Books
    <2> QED BY <1>6, <2>1, <2>3, <2>4 DEF Books
  <1> QED BY <1>3, <1>6, <1>7 DEF g

(* The inventory is weighted by the ticks since the last observation. *)
LEMMA BooksObserve ==
    ASSUME NEW f, NEW n \in Nat, NEW fin \in Nat, NEW w \in Nat, Books(f, n, fin, w),
           NEW now \in Nat, now > f.clock
    PROVE  LET g == ObserveTick(f, now)
           IN  /\ Books(g, n, fin, w + (now - f.clock) * n)
               /\ g.clock = now /\ g.offered = f.offered
  <1> DEFINE g == ObserveTick(f, now)
             h == [f EXCEPT !.inventory = f.inventory + n * (now - f.clock), !.clock = now]
  <1>1. f \in FlowRecord /\ f.outstanding = n
    BY DEF Books
  <1>2. /\ f.offered \in Nat /\ f.admitted \in Nat /\ f.rejected \in Nat
        /\ f.outstanding \in Nat /\ f.inventory \in Nat /\ f.residence \in Nat
        /\ f.clock \in Nat /\ f.terminal \in [Buckets -> Nat]
        /\ \A c \in {"completed", "negative", "stale", "dropped"} : f.terminal[c] \in Nat
    BY <1>1, FlowFields
  <1>3. g = h
    BY <1>1 DEF ObserveTick
  <1>4. now - f.clock \in Nat
    BY <1>2
  <1> DEFINE k == now - f.clock
  <1>5. n * k \in Nat /\ k * n = n * k
    <2> HIDE DEF k
    <2> QED BY <1>4 DEF k
  <1>6. f.inventory + n * k \in Nat
    <2> DEFINE prod == n * k
    <2>1. prod \in Nat
      BY <1>5
    <2> HIDE DEF prod
    <2>2. f.inventory + prod \in Nat
      BY <1>2, <2>1
    <2> QED BY <2>2 DEF prod
  <1> HIDE DEF k
  <1>7. h = [f EXCEPT !.inventory = f.inventory + n * k, !.clock = now]
    BY DEF k
  <1> HIDE DEF h, g
  <1>8. /\ h.terminal = f.terminal /\ h.offered = f.offered /\ h.admitted = f.admitted
        /\ h.rejected = f.rejected /\ h.outstanding = n
        /\ h.inventory = f.inventory + n * k /\ h.residence = f.residence /\ h.clock = now
        /\ h \in FlowRecord
    BY <1>1, <1>6, <1>7 DEF FlowRecord
  <1>9. Books(h, n, fin, w + k * n)
    <2>1. AdmissionIdentity(h)
      BY <1>8 DEF Books, AdmissionIdentity
    <2>2. RetentionIdentity(h)
      BY <1>1, <1>8 DEF Books, RetentionIdentity, Terminal
    <2>3. fin <= h.terminal["completed"]
      BY <1>8 DEF Books
    <2>4. h.inventory = h.residence + (w + k * n)
      <3> DEFINE prod == k * n
      <3>1. prod \in Nat /\ h.inventory = f.inventory + prod
        BY <1>5, <1>8
      <3> HIDE DEF prod
      <3>2. h.inventory = h.residence + (w + prod)
        BY <1>2, <1>8, <3>1 DEF Books
      <3> QED BY <3>2 DEF prod
    <2> QED BY <1>8, <2>1, <2>2, <2>3, <2>4 DEF Books
  <1> QED BY <1>3, <1>8, <1>9 DEF g, k

-----------------------------------------------------------------------------
(* The inductive invariant of the books: what FlowConserved says, that no   *)
(* slot was submitted after the clock, and that every finished slot of this *)
(* generation is still in the completed bucket, from which marking it stale *)
(* will take it.                                                            *)
FinishedSlots == {i \in DOMAIN slots : slots[i].state \in {"immediate", "ready"}}
BooksInv == Dated /\ Books(flow, Cardinality(PendingSlots), Cardinality(FinishedSlots), Waited)

(* The pending and the finished slots can be counted. *)
LEMMA SlotSetsAreFinite ==
    ASSUME QueueTypeOK
    PROVE  /\ IsFiniteSet(PendingSlots) /\ Cardinality(PendingSlots) \in Nat
           /\ IsFiniteSet(FinishedSlots) /\ Cardinality(FinishedSlots) \in Nat
           /\ PendingSlots \in SUBSET (1 .. Len(slots))
  <1>1. Len(slots) \in Nat /\ DOMAIN slots = 1 .. Len(slots)
    BY SlotsTyped
  <1>2. IsFiniteSet(1 .. Len(slots))
    BY <1>1, FS_Interval
  <1>3. PendingSlots \in SUBSET (1 .. Len(slots)) /\ FinishedSlots \in SUBSET (1 .. Len(slots))
    BY <1>1 DEF PendingSlots, FinishedSlots
  <1> QED BY <1>2, <1>3, FS_Subset, FS_CardinalityType

(* What waits is a number. *)
LEMMA WaitedIsNat == Dated => Waited \in Nat
  <1> SUFFICES ASSUME Dated PROVE Waited \in Nat
    OBVIOUS
  <1>1. PICK f \in [0 .. Len(slots) -> Nat] : Waited = f[Len(slots)]
    BY DatedIsTotalled DEF Totalled
  <1> QED BY <1>1, SlotsTyped DEF Dated

(* The same after a step.                                                  *)
LEMMA WaitedIsNatNext == Dated' => (Waited \in Nat)'
  BY WaitedIsNat, PTL

(* What a change of one slot leaves alone. *)
LEMMA SlotUpdate ==
    ASSUME QueueTypeOK, NEW i \in DOMAIN slots, NEW slot \in Slot,
           slots' = [slots EXCEPT ![i] = slot]
    PROVE  /\ slots' \in Seq(Slot) /\ Len(slots') = Len(slots) /\ DOMAIN slots' = DOMAIN slots
           /\ \A n \in DOMAIN slots : slots'[n] = IF n = i THEN slot ELSE slots[n]
  <1>1. slots \in Seq(Slot) /\ DOMAIN slots = 1 .. Len(slots) /\ Len(slots) \in Nat
    BY SlotsTyped
  <1>2. /\ slots' \in Seq(Slot) /\ Len(slots') = Len(slots)
        /\ \A n \in 1 .. Len(slots) : slots'[n] = IF n = i THEN slot ELSE slots[n]
    BY <1>1, ExceptSeq
  <1>3. DOMAIN slots' = 1 .. Len(slots)
    BY <1>2, LenProperties
  <1> QED BY <1>1, <1>2, <1>3

(* A pending slot settles: a continuation reports an end, over-reports, or  *)
(* the client cancels it.                                                   *)
LEMMA SettlingKeepsBooks ==
    ASSUME BooksInv, NEW i \in PendingSlots, NEW slot \in Slot,
           slot.state \in {"ready", "negative", "stale"}, slot.submitted = slots[i].submitted,
           slots' = [slots EXCEPT ![i] = slot], flow' = AccountTerminal(flow, i, slot.state),
           pass' \in Pass, UNCHANGED <<generation, issued>>
    PROVE  BooksInv'
  <1>1. /\ QueueTypeOK /\ i \in DOMAIN slots /\ IsPending(i) /\ i \in 1 .. Len(slots)
        /\ slots[i].submitted \in Nat /\ slots[i].submitted <= flow.clock /\ flow.clock \in Nat
    BY SlotsTyped DEF BooksInv, Dated, PendingSlots, Slot
  <1>2. /\ slots' \in Seq(Slot) /\ Len(slots') = Len(slots) /\ DOMAIN slots' = DOMAIN slots
        /\ \A n \in DOMAIN slots : slots'[n] = IF n = i THEN slot ELSE slots[n]
    BY <1>1, SlotUpdate
  <1>3. PendingSlots' = PendingSlots \ {i}
    BY <1>1, <1>2 DEF PendingSlots, IsPending
  <1>4. FinishedSlots' = IF slot.state = "ready" THEN FinishedSlots \cup {i} ELSE FinishedSlots
    <2>1. \A n \in DOMAIN slots : n # i => slots'[n] = slots[n]
      BY <1>2
    <2>2. slots'[i] = slot /\ i \notin FinishedSlots
      BY <1>1, <1>2 DEF FinishedSlots, IsPending
    <2>3. CASE slot.state = "ready"
      BY <1>1, <1>2, <2>1, <2>2, <2>3 DEF FinishedSlots
    <2>4. CASE slot.state # "ready"
      <3>1. slot.state \notin {"immediate", "ready"}
        BY <2>4
      <3>2. \A n : n \in FinishedSlots' <=> n \in FinishedSlots
        BY <1>1, <1>2, <2>1, <2>2, <3>1 DEF FinishedSlots
      <3> QED BY <2>4, <3>2
    <2> QED BY <2>3, <2>4
  <1> DEFINE n == Cardinality(PendingSlots)
             fin == Cardinality(FinishedSlots)
             left == Waited'
  <1>5. /\ n \in Nat /\ fin \in Nat /\ n # 0
        /\ Cardinality(PendingSlots') = n - 1
        /\ Cardinality(FinishedSlots') = IF slot.state = "ready" THEN fin + 1 ELSE fin
    <2>1. IsFiniteSet(PendingSlots) /\ IsFiniteSet(FinishedSlots) /\ n \in Nat /\ fin \in Nat
      BY <1>1, SlotSetsAreFinite
    <2>2. n # 0
      BY <2>1, FS_EmptySet
    <2>3. Cardinality(PendingSlots') = n - 1
      BY <1>3, <2>1, FS_RemoveElement
    <2>4. i \notin FinishedSlots
      BY <1>1 DEF FinishedSlots, IsPending
    <2>5. Cardinality(FinishedSlots') = IF slot.state = "ready" THEN fin + 1 ELSE fin
      BY <1>4, <2>1, <2>4, FS_AddElement
    <2> QED BY <2>1, <2>2, <2>3, <2>5
  <1>6. flow' \in FlowRecord /\ flow'.clock = flow.clock
    <2>1. Waited \in Nat /\ Waited = Waited + 0
      BY WaitedIsNat DEF BooksInv
    <2>2. AddTo(flow, BucketOf(slot.state)) \in FlowRecord
          /\ AddTo(flow, BucketOf(slot.state)).clock = flow.clock
      <3>1. flow \in FlowRecord /\ BucketOf(slot.state) \in Buckets
        BY <1>1 DEF QueueTypeOK, BucketOf, Buckets
      <3>2. flow.terminal \in [Buckets -> Nat]
        BY <3>1, FlowFields
      <3> DEFINE b == BucketOf(slot.state)
                 term == [flow.terminal EXCEPT ![b] = @ + 1]
      <3>3. term \in [Buckets -> Nat]
        BY <3>1, <3>2
      <3>4. AddTo(flow, b) = [flow EXCEPT !.terminal = term]
        BY <3>1 DEF AddTo, FlowRecord
      <3> HIDE DEF term, b
      <3>5. AddTo(flow, b) \in FlowRecord /\ AddTo(flow, b).clock = flow.clock
        BY <3>1, <3>3, <3>4 DEF FlowRecord
      <3> QED BY <3>5 DEF b
    <2> DEFINE h == AddTo(flow, BucketOf(slot.state))
    <2>3. flow' = RecordLeft(h, slots[i].submitted)
      BY DEF AccountTerminal
    <2> HIDE DEF h
    <2>4. /\ h.outstanding \in Nat /\ h.residence \in Nat /\ h.clock = flow.clock /\ h \in FlowRecord
      BY <2>2, FlowFields DEF h
    <2>5. (IF h.outstanding > 0 THEN h.outstanding - 1 ELSE 0) \in Nat
          /\ h.residence + (h.clock - slots[i].submitted) \in Nat
      BY <1>1, <2>4
    <2>6. flow' = [h EXCEPT !.outstanding = IF h.outstanding > 0 THEN h.outstanding - 1 ELSE 0,
                            !.residence = h.residence + (h.clock - slots[i].submitted)]
      BY <2>3 DEF RecordLeft
    <2> QED BY <2>4, <2>5, <2>6 DEF FlowRecord
  <1>7. Dated'
    <2>1. QueueTypeOK'
      BY <1>1, <1>2, <1>6 DEF QueueTypeOK
    <2>2. \A m \in DOMAIN slots : slots[m].submitted <= flow.clock
      BY DEF BooksInv, Dated
    <2>3. \A m \in DOMAIN slots : slots'[m].submitted = slots[m].submitted
      BY <1>2
    <2>4. \A m \in DOMAIN slots' : slots'[m].submitted <= flow'.clock
      BY <1>2, <1>6, <2>2, <2>3
    <2> QED BY <2>1, <2>4 DEF Dated
  <1>8. Waited \in Nat /\ Waited' \in Nat
    BY <1>7, WaitedIsNat, WaitedIsNatNext DEF BooksInv
  <1> DEFINE d == flow.clock - slots[i].submitted
  <1>9. d \in Nat
    BY <1>1
  <1>10. Waited = left + d
    <2>1. {i} \in SUBSET (1 .. Len(slots)) /\ Cardinality({i}) = 1
      BY <1>1, FS_Singleton
    <2>2. \A m \in 1 .. Len(slots) : Age(m) = Age(m)' + IF m \in {i} THEN d ELSE 0
      <3> SUFFICES ASSUME NEW m \in 1 .. Len(slots)
                   PROVE  Age(m) = Age(m)' + IF m = i THEN d ELSE 0
        OBVIOUS
      <3>1. m \in DOMAIN slots /\ Age(m) \in Nat
        BY <1>1, AgesAreNat, SlotsTyped DEF BooksInv
      <3>2. CASE m = i
        <4>1. Age(m) = d
          BY <1>1, <3>2 DEF Age
        <4>2. slots'[m].state # "pending"
          BY <1>2, <3>1, <3>2
        <4>3. Age(m)' = 0
          BY <4>2 DEF Age, IsPending
        <4> HIDE DEF d
        <4> QED BY <1>9, <3>2, <4>1, <4>3
      <3>3. CASE m # i
        <4>1. slots'[m] = slots[m]
          BY <1>2, <3>1, <3>3
        <4>2. Age(m)' = Age(m)
          BY <1>6, <4>1 DEF Age, IsPending
        <4> QED BY <3>1, <3>3, <4>2
      <3> QED BY <3>2, <3>3
    <2> HIDE DEF d
    <2>3. Waited = Waited' + d * 1
      BY <1>2, <1>7, <1>9, <2>1, <2>2, WaitedChanges DEF BooksInv
    <2> QED BY <1>8, <1>9, <2>3
  <1>11. Books(flow', n - 1, IF slot.state = "ready" THEN fin + 1 ELSE fin, left)
    <2>1. Books(flow, n, fin, Waited)
      BY DEF BooksInv
    <2>2. flow' = RecordLeft(AddTo(flow, BucketOf(slot.state)), slots[i].submitted)
      BY DEF AccountTerminal
    <2>3. n \in Nat \ {0} /\ Waited \in Nat /\ left \in Nat
      BY <1>5, <1>8
    <2> HIDE DEF n, fin, left
    <2> QED BY <1>1, <1>5, <1>10, <2>1, <2>2, <2>3, BooksSettle DEF d
  <1> QED BY <1>5, <1>7, <1>11 DEF BooksInv

(* What waits does not change when no age does. *)
LEMMA WaitedStays ==
    ASSUME Dated, Dated', Len(slots') = Len(slots),
           \A n \in 1 .. Len(slots) : Age(n)' = Age(n)
    PROVE  Waited' = Waited
  <1>1. {} \in SUBSET (1 .. Len(slots)) /\ Cardinality({}) = 0
    BY FS_EmptySet
  <1>2. \A n \in 1 .. Len(slots) : Age(n)' = Age(n) + IF n \in {} THEN 0 ELSE 0
    BY AgesAreNat
  <1>3. Waited' = Waited + 0 * 0 /\ Waited \in Nat
    BY <1>1, <1>2, WaitedChanges
  <1> QED BY <1>3

(* A continuation reports Pending or throws: its slot stays where it is. *)
LEMMA RetryingKeepsBooks ==
    ASSUME BooksInv, NEW i \in PendingSlots, NEW slot \in Slot,
           slot.state = "pending", slot.submitted = slots[i].submitted,
           slots' = [slots EXCEPT ![i] = slot], flow' = flow,
           pass' \in Pass, UNCHANGED <<generation, issued>>
    PROVE  BooksInv'
  <1>1. /\ QueueTypeOK /\ i \in DOMAIN slots /\ IsPending(i)
        /\ DOMAIN slots = 1 .. Len(slots) /\ Len(slots) \in Nat
    BY SlotsTyped DEF BooksInv, Dated, PendingSlots
  <1>2. /\ slots' \in Seq(Slot) /\ Len(slots') = Len(slots) /\ DOMAIN slots' = DOMAIN slots
        /\ \A n \in DOMAIN slots : slots'[n] = IF n = i THEN slot ELSE slots[n]
    BY <1>1, SlotUpdate
  <1>3. \A n \in DOMAIN slots : /\ slots'[n].state = slots[n].state
                                /\ slots'[n].submitted = slots[n].submitted
    BY <1>1, <1>2 DEF IsPending
  <1>4. PendingSlots' = PendingSlots /\ FinishedSlots' = FinishedSlots
    BY <1>2, <1>3 DEF PendingSlots, FinishedSlots, IsPending
  <1>5. Dated'
    <2>1. QueueTypeOK'
      BY <1>1, <1>2 DEF QueueTypeOK
    <2>2. \A m \in DOMAIN slots' : slots'[m].submitted <= flow'.clock
      BY <1>2, <1>3 DEF BooksInv, Dated
    <2> QED BY <2>1, <2>2 DEF Dated
  <1>6. Waited' = Waited
    <2>1. \A m \in 1 .. Len(slots) : Age(m)' = Age(m)
      BY <1>1, <1>3 DEF Age, IsPending
    <2>2. Dated
      BY DEF BooksInv
    <2>3. Waited' = Waited
      BY <1>2, <1>5, <2>1, <2>2, WaitedStays
    <2> QED BY <2>3
  <1> QED BY <1>4, <1>5, <1>6 DEF BooksInv

(* A completed slot goes stale. *)
LEMMA OutdatingKeepsBooks ==
    ASSUME BooksInv, NEW t \in issued, NEW v \in Versions, MarkStaleIfVersion(t, v)
    PROVE  BooksInv'
  <1> DEFINE i == t.index
             slot == [slots[i] EXCEPT !.state = "stale"]
  <1>1. /\ QueueTypeOK /\ i \in DOMAIN slots /\ slots[i].state \in {"immediate", "ready"}
        /\ DOMAIN slots = 1 .. Len(slots) /\ Len(slots) \in Nat /\ slots[i] \in Slot
    BY SlotsTyped DEF BooksInv, Dated, MarkStaleIfVersion, Resolves
  <1>2. slot \in Slot /\ slot.state = "stale" /\ slot.submitted = slots[i].submitted
    BY <1>1 DEF Slot, Settled
  <1>3. slots' = [slots EXCEPT ![i] = slot]
    BY DEF MarkStaleIfVersion
  <1>4. /\ flow' = AddTo([flow EXCEPT !.terminal["completed"] =
                                          IF @ > 0 THEN @ - 1 ELSE @], "stale")
        /\ UNCHANGED <<generation, pass, issued>>
    BY DEF MarkStaleIfVersion
  <1> HIDE DEF slot, i
  <1>5. /\ slots' \in Seq(Slot) /\ Len(slots') = Len(slots) /\ DOMAIN slots' = DOMAIN slots
        /\ \A n \in DOMAIN slots : slots'[n] = IF n = i THEN slot ELSE slots[n]
    BY <1>1, <1>2, <1>3, SlotUpdate
  <1>6. PendingSlots' = PendingSlots
    BY <1>1, <1>2, <1>5 DEF PendingSlots, IsPending
  <1>7. FinishedSlots' = FinishedSlots \ {i} /\ i \in FinishedSlots
    BY <1>1, <1>2, <1>5 DEF FinishedSlots
  <1> DEFINE n == Cardinality(PendingSlots)
             fin == Cardinality(FinishedSlots)
  <1>8. n \in Nat /\ fin \in Nat \ {0} /\ Cardinality(FinishedSlots') = fin - 1
    BY <1>1, <1>7, SlotSetsAreFinite, FS_EmptySet, FS_RemoveElement
  <1>9. Waited \in Nat /\ Books(flow, n, fin, Waited)
    BY WaitedIsNat DEF BooksInv
  <1> HIDE DEF n, fin
  <1>10. Books(flow', n, fin - 1, Waited) /\ flow'.clock = flow.clock
    BY <1>4, <1>8, <1>9, BooksOutdate
  <1>11. Dated'
    <2>1. QueueTypeOK'
      BY <1>1, <1>4, <1>5, <1>10 DEF QueueTypeOK, Books
    <2>2. \A m \in DOMAIN slots' : slots'[m].submitted <= flow'.clock
      BY <1>2, <1>5, <1>10 DEF BooksInv, Dated
    <2> QED BY <2>1, <2>2 DEF Dated
  <1>12. Waited' = Waited
    <2>1. \A m \in 1 .. Len(slots) : Age(m)' = Age(m)
      <3> SUFFICES ASSUME NEW m \in DOMAIN slots PROVE Age(m)' = Age(m)
        BY <1>1
      <3>1. CASE m = i
        BY <1>1, <1>2, <1>5, <3>1 DEF Age, IsPending
      <3>2. CASE m # i
        BY <1>5, <1>10, <3>2 DEF Age, IsPending
      <3> QED BY <3>1, <3>2
    <2>2. Dated
      BY DEF BooksInv
    <2> QED BY <1>5, <1>11, <2>1, <2>2, WaitedStays
  <1> QED BY <1>6, <1>8, <1>10, <1>11, <1>12 DEF BooksInv, n

(* A submission: a slot of age zero at the end. *)
LEMMA WaitedAtTheEnd ==
    ASSUME Dated, Dated', Len(slots') = Len(slots) + 1,
           \A m \in 1 .. Len(slots) : Age(m)' = Age(m),
           \A m \in Nat : m = Len(slots) + 1 => Age(m)' = 0
    PROVE  Waited' = Waited
  <1> DEFINE N == Len(slots)
             g == [i \in 1 .. N |-> Age(i)]
             k == [i \in 1 .. N + 1 |-> Age(i)']
  <1>1. N \in Nat /\ g \in [1 .. N -> Nat]
    BY AgesAreNat
  <1>2. PICK f \in [0 .. N -> Nat] : Waited = f[N] /\ Accumulates(f, g, N)
    BY DatedIsTotalled DEF Totalled
  <1>3. PICK h \in [0 .. N + 1 -> Nat] : Waited' = h[N + 1] /\ Accumulates(h, k, N + 1)
    BY DatedIsTotalledNext DEF Totalled
  <1>4. (\A m \in 1 .. N : g[m] = Age(m)) /\ (\A m \in 1 .. N + 1 : k[m] = Age(m)')
    OBVIOUS
  <1>5. (\A m \in 1 .. N : k[m] = g[m]) /\ k[N + 1] = 0
    <2>1. \A m \in 1 .. N : m \in 1 .. N + 1 /\ Age(m)' = Age(m)
      BY <1>1
    <2>2. N + 1 \in 1 .. N + 1 /\ \A m \in Nat : m = N + 1 => Age(m)' = 0
      BY <1>1
    <2>3. ASSUME NEW m \in 1 .. N + 1, m = N + 1 PROVE k[m] = 0
      <3>1. k[m] = Age(m)' /\ m \in Nat
        BY <1>1, <1>4
      <3> QED BY <2>2, <2>3, <3>1
    <2> HIDE DEF N, g, k
    <2> QED BY <1>4, <2>1, <2>2, <2>3
  <1> HIDE DEF N, g, k
  <1>6. h[N + 1] = h[N] + k[N + 1] /\ h[N] \in Nat
    <2>1. N + 1 \in 1 .. N + 1 /\ (N + 1) - 1 = N /\ N \in 0 .. N + 1
      BY <1>1
    <2>2. h[N + 1] = h[(N + 1) - 1] + k[N + 1]
      BY <1>3, <2>1 DEF Accumulates
    <2> QED BY <1>3, <2>1, <2>2
  <1>7. PICK e \in [0 .. N -> Nat] : Accumulates(e, g, N) /\ e[N] = h[N]
    <2> DEFINE h0 == [m \in 0 .. N |-> h[m]]
    <2>1. h0 \in [0 .. N -> Nat] /\ h0[N] = h[N]
      BY <1>1, <1>3
    <2>2. Accumulates(h0, g, N)
      <3>1. h0[0] = 0
        BY <1>1, <1>3 DEF Accumulates
      <3>2. ASSUME NEW m \in 1 .. N PROVE h0[m] = h0[m - 1] + g[m]
        <4>1. m \in 1 .. N + 1 /\ m \in 0 .. N /\ m - 1 \in 0 .. N
          BY <1>1
        <4>2. h[m] = h[m - 1] + k[m] /\ k[m] = g[m]
          BY <1>3, <1>5, <4>1 DEF Accumulates
        <4> QED BY <4>1, <4>2
      <3> HIDE DEF h0
      <3> QED BY <3>1, <3>2 DEF Accumulates
    <2> HIDE DEF h0
    <2> QED BY <2>1, <2>2
  <1>8. Totals(f, g, N) /\ Totals(e, g, N)
    BY <1>1, <1>2, <1>7 DEF Totals
  <1>9. e[N] = f[N]
    BY <1>8, TotalsAreUnique
  <1> QED BY <1>1, <1>2, <1>3, <1>5, <1>6, <1>7, <1>9

(* What a new slot leaves alone. *)
LEMMA PushingSlots ==
    ASSUME QueueTypeOK, NEW slot \in Slot, slots' = Append(slots, slot)
    PROVE  /\ slots' \in Seq(Slot) /\ Len(slots') = Len(slots) + 1
           /\ DOMAIN slots' = DOMAIN slots \cup {Len(slots) + 1}
           /\ Len(slots) + 1 \notin DOMAIN slots
           /\ \A n \in DOMAIN slots : slots'[n] = slots[n]
           /\ slots'[Len(slots) + 1] = slot
  <1>1. slots \in Seq(Slot) /\ DOMAIN slots = 1 .. Len(slots) /\ Len(slots) \in Nat
    BY SlotsTyped
  <1>2. slots' \in Seq(Slot) /\ Len(slots') = Len(slots) + 1
    BY <1>1
  <1>3. DOMAIN slots' = 1 .. Len(slots) + 1
    BY <1>2, LenProperties
  <1>4. \A n \in 1 .. Len(slots) + 1 : slots'[n] = IF n = Len(slots) + 1 THEN slot ELSE slots[n]
    BY <1>1
  <1> QED BY <1>1, <1>2, <1>3, <1>4

(* Submit: one more pending slot, of age zero. *)
LEMMA SubmittingKeepsBooks ==
    ASSUME BooksInv, NEW r \in 0 .. MaxReplies, Submit(r)
    PROVE  BooksInv'
  <1> DEFINE slot == [id |-> flow.offered, state |-> "pending", version |-> AnyVersion,
                      submitted |-> flow.clock, replies |-> r]
             N == Len(slots)
             n == Cardinality(PendingSlots)
             fin == Cardinality(FinishedSlots)
  <1>1. /\ QueueTypeOK /\ flow \in FlowRecord /\ flow.offered \in Nat /\ flow.clock \in Nat
        /\ N \in Nat /\ DOMAIN slots = 1 .. N
    BY SlotsTyped, FlowFields DEF BooksInv, Dated, QueueTypeOK
  <1>2. /\ slots' = Append(slots, slot) /\ N < MaxSlots /\ pass = Idle
        /\ UNCHANGED <<generation, pass>>
        /\ flow' = RecordAdmitted([flow EXCEPT !.offered = @ + 1])
    BY DEF Submit, Push, Offered
  <1>3. slot \in Slot
    <2>1. AnyVersion \in Versions
      BY QueueAssumption DEF AnyVersion
    <2> QED BY <1>1, <2>1 DEF Slot
  <1>4. slot.state = "pending" /\ slot.submitted = flow.clock
    OBVIOUS
  <1> HIDE DEF slot
  <1>5. /\ slots' \in Seq(Slot) /\ Len(slots') = N + 1
        /\ DOMAIN slots' = DOMAIN slots \cup {N + 1} /\ N + 1 \notin DOMAIN slots
        /\ (\A m \in DOMAIN slots : slots'[m] = slots[m]) /\ slots'[N + 1] = slot
    BY <1>1, <1>2, <1>3, PushingSlots
  <1>6. PendingSlots' = PendingSlots \cup {N + 1} /\ FinishedSlots' = FinishedSlots
    BY <1>4, <1>5 DEF PendingSlots, FinishedSlots, IsPending
  <1>7. n \in Nat /\ fin \in Nat /\ Cardinality(PendingSlots') = n + 1
    <2>1. N + 1 \notin PendingSlots
      BY <1>5 DEF PendingSlots
    <2> QED BY <1>1, <1>6, <2>1, SlotSetsAreFinite, FS_AddElement
  <1>8. Waited \in Nat /\ Books(flow, n, fin, Waited)
    BY WaitedIsNat DEF BooksInv
  <1> HIDE DEF n, fin
  <1>9. Books(flow', n + 1, fin, Waited) /\ flow'.clock = flow.clock
    BY <1>2, <1>7, <1>8, BooksAdmit
  <1>10. Dated'
    <2>1. QueueTypeOK'
      <3>1. issued' \subseteq Ticket
        <4>1. [index |-> N + 1, generation |-> generation, id |-> slot.id] \in Ticket
          BY <1>1, <1>3, QueueAssumption DEF Ticket, Slot, QueueTypeOK
        <4>2. issued' = issued \cup {[index |-> N + 1, generation |-> generation, id |-> slot.id]}
          BY DEF Submit, Push, slot
        <4> QED BY <1>1, <4>1, <4>2 DEF QueueTypeOK
      <3>2. Len(slots') <= MaxSlots
        BY <1>1, <1>2, <1>5, QueueAssumption
      <3> QED BY <1>1, <1>2, <1>5, <1>9, <3>1, <3>2 DEF QueueTypeOK, Books
    <2>2. \A m \in DOMAIN slots' : slots'[m].submitted <= flow'.clock
      BY <1>1, <1>4, <1>5, <1>9 DEF BooksInv, Dated
    <2> QED BY <2>1, <2>2 DEF Dated
  <1>11. Waited' = Waited
    <2>1. \A m \in 1 .. N : Age(m)' = Age(m)
      BY <1>1, <1>5, <1>9 DEF Age, IsPending
    <2>2. ASSUME NEW m \in Nat, m = N + 1 PROVE Age(m)' = 0
      <3>1. slots'[m] = slot
        BY <1>5, <2>2
      <3>2. flow'.clock - slots'[m].submitted = 0
        BY <1>1, <1>4, <1>9, <3>1
      <3> QED BY <3>2 DEF Age
    <2>3. Dated
      BY DEF BooksInv
    <2> QED BY <1>5, <1>10, <2>1, <2>2, <2>3, WaitedAtTheEnd
  <1> QED BY <1>6, <1>7, <1>9, <1>10, <1>11 DEF BooksInv, fin

(* SubmitImmediate: one more finished slot, of no age. *)
LEMMA ImmediateKeepsBooks ==
    ASSUME BooksInv, NEW v \in Versions, SubmitImmediate(v)
    PROVE  BooksInv'
  <1> DEFINE slot == [id |-> flow.offered, state |-> "immediate", version |-> v,
                      submitted |-> 0, replies |-> 0]
             N == Len(slots)
             n == Cardinality(PendingSlots)
             fin == Cardinality(FinishedSlots)
  <1>1. /\ QueueTypeOK /\ flow \in FlowRecord /\ flow.offered \in Nat /\ flow.clock \in Nat
        /\ N \in Nat /\ DOMAIN slots = 1 .. N
    BY SlotsTyped, FlowFields DEF BooksInv, Dated, QueueTypeOK
  <1>2. /\ slots' = Append(slots, slot) /\ N < MaxSlots /\ pass = Idle
        /\ UNCHANGED <<generation, pass>>
        /\ flow' = AddTo([[flow EXCEPT !.offered = @ + 1] EXCEPT !.admitted = @ + 1], "completed")
    BY DEF SubmitImmediate, Push, Offered
  <1>3. slot \in Slot
    BY <1>1, QueueAssumption DEF Slot, Settled
  <1>4. slot.state = "immediate" /\ slot.submitted = 0
    OBVIOUS
  <1> HIDE DEF slot
  <1>5. /\ slots' \in Seq(Slot) /\ Len(slots') = N + 1
        /\ DOMAIN slots' = DOMAIN slots \cup {N + 1} /\ N + 1 \notin DOMAIN slots
        /\ (\A m \in DOMAIN slots : slots'[m] = slots[m]) /\ slots'[N + 1] = slot
    BY <1>1, <1>2, <1>3, PushingSlots
  <1>6. PendingSlots' = PendingSlots /\ FinishedSlots' = FinishedSlots \cup {N + 1}
    BY <1>4, <1>5 DEF PendingSlots, FinishedSlots, IsPending
  <1>7. n \in Nat /\ fin \in Nat /\ Cardinality(FinishedSlots') = fin + 1
    <2>1. N + 1 \notin FinishedSlots
      BY <1>5 DEF FinishedSlots
    <2> QED BY <1>1, <1>6, <2>1, SlotSetsAreFinite, FS_AddElement
  <1>8. Waited \in Nat /\ Books(flow, n, fin, Waited)
    BY WaitedIsNat DEF BooksInv
  <1> HIDE DEF n, fin
  <1>9. Books(flow', n, fin + 1, Waited) /\ flow'.clock = flow.clock
    <2>1. [[flow EXCEPT !.offered = @ + 1] EXCEPT !.admitted = @ + 1]
          = [flow EXCEPT !.offered = @ + 1, !.admitted = @ + 1]
      BY <1>1 DEF FlowRecord
    <2> QED BY <1>2, <1>7, <1>8, <2>1, BooksImmediate
  <1>10. Dated'
    <2>1. QueueTypeOK'
      <3>1. issued' \subseteq Ticket
        <4>1. [index |-> N + 1, generation |-> generation, id |-> slot.id] \in Ticket
          BY <1>1, <1>3, QueueAssumption DEF Ticket, Slot, QueueTypeOK
        <4>2. issued' = issued \cup {[index |-> N + 1, generation |-> generation, id |-> slot.id]}
          BY DEF SubmitImmediate, Push, slot
        <4> QED BY <1>1, <4>1, <4>2 DEF QueueTypeOK
      <3>2. Len(slots') <= MaxSlots
        BY <1>1, <1>2, <1>5, QueueAssumption
      <3> QED BY <1>1, <1>2, <1>5, <1>9, <3>1, <3>2 DEF QueueTypeOK, Books
    <2>2. \A m \in DOMAIN slots' : slots'[m].submitted <= flow'.clock
      BY <1>1, <1>4, <1>5, <1>9 DEF BooksInv, Dated
    <2> QED BY <2>1, <2>2 DEF Dated
  <1>11. Waited' = Waited
    <2>1. \A m \in 1 .. N : Age(m)' = Age(m)
      BY <1>1, <1>5, <1>9 DEF Age, IsPending
    <2>2. ASSUME NEW m \in Nat, m = N + 1 PROVE Age(m)' = 0
      <3>1. slots'[m] = slot
        BY <1>5, <2>2
      <3> QED BY <1>4, <3>1 DEF Age, IsPending
    <2>3. Dated
      BY DEF BooksInv
    <2> QED BY <1>5, <1>10, <2>1, <2>2, <2>3, WaitedAtTheEnd
  <1> QED BY <1>6, <1>7, <1>9, <1>10, <1>11 DEF BooksInv, n

(* Clear: nothing is pending, finished or waiting any more. *)
LEMMA ClearingKeepsBooks ==
    ASSUME BooksInv, Clear
    PROVE  BooksInv'
  <1> DEFINE n == Cardinality(PendingSlots)
             fin == Cardinality(FinishedSlots)
             w == Waited
  <1>1. /\ QueueTypeOK /\ flow \in FlowRecord /\ flow.clock \in Nat
        /\ n \in Nat /\ fin \in Nat /\ w \in Nat /\ Books(flow, n, fin, w)
    BY SlotsTyped, WaitedIsNat, SlotSetsAreFinite DEF BooksInv, Dated, QueueTypeOK
  <1>2. /\ slots' = <<>> /\ generation' = generation + 1 /\ generation < MaxGeneration
        /\ UNCHANGED <<pass, issued>>
        /\ flow' = [flow EXCEPT !.terminal["dropped"] = @ + n,
                                !.outstanding = IF @ > n THEN @ - n ELSE 0,
                                !.residence = @ + w]
    BY DEF Clear, DroppedAll
  <1>3. PendingSlots' = {} /\ FinishedSlots' = {}
    BY <1>2 DEF PendingSlots, FinishedSlots
  <1>4. Cardinality(PendingSlots') = 0 /\ Cardinality(FinishedSlots') = 0
    BY <1>3, FS_EmptySet
  <1> HIDE DEF n, fin, w
  <1>5. Books(flow', 0, 0, 0) /\ flow'.clock = flow.clock
    <2>1. flow' = Dropped(flow, n, w)
      BY <1>2 DEF Dropped
    <2> QED BY <1>1, <2>1, BooksClear
  <1>6. Dated'
    <2>1. QueueTypeOK'
      <3>1. slots' \in Seq(Slot) /\ Len(slots') <= MaxSlots
        BY <1>2, QueueAssumption, EmptySeq
      <3>2. generation' \in 1 .. MaxGeneration
        BY <1>1, <1>2, QueueAssumption DEF QueueTypeOK
      <3> QED BY <1>1, <1>2, <1>5, <3>1, <3>2 DEF QueueTypeOK, Books
    <2>2. DOMAIN slots' = {}
      BY <1>2
    <2> QED BY <2>1, <2>2 DEF Dated
  <1>7. Waited' = 0
    <2>1. PICK f \in [0 .. Len(slots') -> Nat] :
            /\ Waited' = f[Len(slots')]
            /\ Accumulates(f, [i \in 1 .. Len(slots') |-> Age(i)'], Len(slots'))
      BY <1>6, DatedIsTotalledNext DEF Totalled
    <2>2. Len(slots') = 0
      BY <1>2
    <2>3. f[0] = 0
      BY <2>1 DEF Accumulates
    <2> QED BY <2>1, <2>2, <2>3
  <1> QED BY <1>4, <1>5, <1>6, <1>7 DEF BooksInv

(* ObserveFlowTick: each pending slot ages by the ticks observed. *)
LEMMA ObservingKeepsBooks ==
    ASSUME BooksInv, ObserveFlowTick
    PROVE  BooksInv'
  <1> DEFINE n == Cardinality(PendingSlots)
             fin == Cardinality(FinishedSlots)
             w == Waited
  <1>1. /\ QueueTypeOK /\ flow \in FlowRecord /\ flow.clock \in Nat
        /\ Len(slots) \in Nat /\ DOMAIN slots = 1 .. Len(slots)
        /\ n \in Nat /\ fin \in Nat /\ w \in Nat /\ Books(flow, n, fin, w)
        /\ PendingSlots \in SUBSET (1 .. Len(slots))
        /\ \A m \in 1 .. Len(slots) : slots[m].submitted \in Nat /\ slots[m].submitted <= flow.clock
    BY SlotsTyped, WaitedIsNat, SlotSetsAreFinite DEF BooksInv, Dated, QueueTypeOK, Slot
  <1>2. PICK now \in flow.clock + 1 .. MaxTick : flow' = ObserveTick(flow, now)
    BY DEF ObserveFlowTick
  <1>3. UNCHANGED <<slots, generation, pass, issued>>
    BY DEF ObserveFlowTick
  <1>4. now \in Nat /\ now > flow.clock /\ now - flow.clock \in Nat
    BY <1>1, <1>2, QueueAssumption
  <1> DEFINE d == now - flow.clock
  <1> HIDE DEF n, fin, w
  <1>5. Books(flow', n, fin, w + d * n) /\ flow'.clock = now
    BY <1>1, <1>2, <1>4, BooksObserve
  <1>6. PendingSlots' = PendingSlots /\ FinishedSlots' = FinishedSlots /\ Len(slots') = Len(slots)
    BY <1>3 DEF PendingSlots, FinishedSlots, IsPending
  <1>7. Dated'
    <2>1. QueueTypeOK'
      BY <1>1, <1>3, <1>5 DEF QueueTypeOK, Books
    <2>2. \A m \in DOMAIN slots' : slots'[m].submitted <= flow'.clock
      BY <1>1, <1>3, <1>4, <1>5
    <2> QED BY <2>1, <2>2 DEF Dated
  <1>8. Waited' = Waited + d * Cardinality(PendingSlots)
    <2>1. \A m \in 1 .. Len(slots) : Age(m)' = Age(m) + IF m \in PendingSlots THEN d ELSE 0
      <3> SUFFICES ASSUME NEW m \in 1 .. Len(slots)
                   PROVE  Age(m)' = Age(m) + IF m \in PendingSlots THEN d ELSE 0
        OBVIOUS
      <3>1. m \in PendingSlots <=> IsPending(m)
        BY <1>1 DEF PendingSlots
      <3>2. IsPending(m)' <=> IsPending(m)
        BY <1>3 DEF IsPending
      <3> QED BY <1>1, <1>3, <1>4, <1>5, <3>1, <3>2 DEF Age
    <2>2. Dated
      BY DEF BooksInv
    <2> QED BY <1>1, <1>4, <1>6, <1>7, <2>1, <2>2, WaitedChanges
  <1> QED BY <1>5, <1>6, <1>7, <1>8 DEF BooksInv, n, fin, w

(* The pass begins or ends: the slots and the flow are left alone. *)
LEMMA PassKeepsBooks ==
    ASSUME BooksInv, UNCHANGED <<slots, flow, generation, issued>>, pass' \in Pass
    PROVE  BooksInv'
  <1>1. QueueTypeOK'
    BY DEF BooksInv, Dated, QueueTypeOK
  <1>2. Dated'
    BY <1>1 DEF BooksInv, Dated
  <1>3. PendingSlots' = PendingSlots /\ FinishedSlots' = FinishedSlots
    BY DEF PendingSlots, FinishedSlots, IsPending
  <1>4. Waited' = Waited
    <2>1. \A m \in 1 .. Len(slots) : Age(m)' = Age(m)
      BY DEF Age, IsPending
    <2>2. Dated /\ Len(slots') = Len(slots)
      BY DEF BooksInv
    <2> QED BY <1>2, <2>1, <2>2, WaitedStays
  <1> QED BY <1>2, <1>3, <1>4 DEF BooksInv

-----------------------------------------------------------------------------
(* The books are kept by every operation of the queue. *)
LEMMA BooksStep == BooksInv /\ [QueueNext]_queue_vars => BooksInv'
  <1> SUFFICES ASSUME BooksInv, [QueueNext]_queue_vars PROVE BooksInv'
    OBVIOUS
  <1>1. /\ QueueTypeOK /\ pass \in Pass /\ Idle \in Pass /\ generation \in 1 .. MaxGeneration
        /\ \A i \in DOMAIN slots : slots[i] \in Slot
    BY SlotsTyped DEF BooksInv, Dated, QueueTypeOK, Pass, Idle
  <1>2. /\ pass.cursor \in Nat /\ pass.remaining \in Nat /\ pass.invocations \in Nat
    BY <1>1 DEF Pass
  <1>3. ASSUME NEW b \in Budgets, BeginAdvance(b) PROVE BooksInv'
    <2>1. pass' \in Pass
      BY <1>3, QueueAssumption DEF BeginAdvance, Pass
    <2> QED BY <1>3, <2>1, PassKeepsBooks DEF BeginAdvance
  <1>4. CASE EndAdvance
    BY <1>1, <1>4, PassKeepsBooks DEF EndAdvance
  <1>5. ASSUME NEW i \in Upcoming PROVE i \in PendingSlots
    BY DEF Upcoming, PendingSlots
  <1>6. ASSUME NEW i \in DOMAIN slots, NEW items \in 0 .. pass.remaining, CanInvoke
        PROVE  PassAfter(i, items) \in Pass
    <2>1. i + 1 \in Nat /\ pass.remaining - items \in Nat /\ pass.invocations - 1 \in Nat
      BY <1>1, <1>2, <1>6, SlotsTyped DEF CanInvoke
    <2> QED BY <2>1 DEF PassAfter, Pass
  <1>7. ASSUME NEW i \in Upcoming, OverReport(i) PROVE BooksInv'
    <2> DEFINE slot == [slots[i] EXCEPT !.state = "negative"]
    <2>1. i \in PendingSlots /\ i \in DOMAIN slots
      BY <1>5 DEF PendingSlots
    <2>2. slot \in Slot /\ slot.state = "negative" /\ slot.submitted = slots[i].submitted
      BY <1>1, <2>1 DEF Slot, Settled
    <2>3. slots' = [slots EXCEPT ![i] = slot]
      BY <1>7 DEF OverReport
    <2>4. flow' = AccountTerminal(flow, i, slot.state)
      BY <1>7, <2>2 DEF OverReport
    <2>5. pass' \in Pass
      BY <1>2, <1>6, <1>7, <2>1 DEF OverReport
    <2>6. UNCHANGED <<generation, issued>>
      BY <1>7 DEF OverReport
    <2> HIDE DEF slot
    <2> QED BY <2>1, <2>2, <2>3, <2>4, <2>5, <2>6, SettlingKeepsBooks
  <1>8. ASSUME NEW i \in Upcoming, NEW items \in 0 .. pass.remaining, NEW v \in Versions,
               StepPending(i, items, v)
        PROVE  BooksInv'
    <2> DEFINE slot == [slots[i] EXCEPT !.version = v, !.replies = @ - 1]
    <2>1. i \in PendingSlots /\ i \in DOMAIN slots /\ slots[i].state = "pending"
      BY <1>5 DEF PendingSlots, IsPending
    <2>2. slot \in Slot /\ slot.state = "pending" /\ slot.submitted = slots[i].submitted
      <3>1. slots[i].replies - 1 \in 0 .. MaxReplies
        BY <1>1, <1>8, <2>1, QueueAssumption DEF StepPending, Slot
      <3> QED BY <1>1, <2>1, <3>1 DEF Slot, Settled
    <2>3. slots' = [slots EXCEPT ![i] = slot]
      BY <1>8 DEF StepPending
    <2>4. pass' \in Pass
      BY <1>6, <1>8, <2>1 DEF StepPending
    <2>5. UNCHANGED <<generation, issued, flow>>
      BY <1>8 DEF StepPending
    <2> HIDE DEF slot
    <2> QED BY <2>1, <2>2, <2>3, <2>4, <2>5, RetryingKeepsBooks
  <1>9. ASSUME NEW i \in Upcoming, NEW items \in 0 .. pass.remaining, NEW v \in Versions,
               NEW state \in {"ready", "negative", "stale"}, StepSettles(i, items, v, state)
        PROVE  BooksInv'
    <2> DEFINE slot == [slots[i] EXCEPT !.version = v, !.state = state]
    <2>1. i \in PendingSlots /\ i \in DOMAIN slots
      BY <1>5 DEF PendingSlots
    <2>2. slot \in Slot /\ slot.state = state /\ slot.submitted = slots[i].submitted
      BY <1>1, <2>1 DEF Slot, Settled
    <2>3. slots' = [slots EXCEPT ![i] = slot]
      BY <1>9 DEF StepSettles
    <2>4. flow' = AccountTerminal(flow, i, slot.state)
      BY <1>9, <2>2 DEF StepSettles
    <2>5. pass' \in Pass
      BY <1>6, <1>9, <2>1 DEF StepSettles
    <2>6. UNCHANGED <<generation, issued>>
      BY <1>9 DEF StepSettles
    <2> HIDE DEF slot
    <2> QED BY <2>1, <2>2, <2>3, <2>4, <2>5, <2>6, SettlingKeepsBooks
  <1>10. ASSUME NEW i \in Upcoming, StepThrows(i) PROVE BooksInv'
    <2> DEFINE slot == [slots[i] EXCEPT !.replies = @ - 1]
    <2>1. i \in PendingSlots /\ i \in DOMAIN slots /\ slots[i].state = "pending"
      BY <1>5 DEF PendingSlots, IsPending
    <2>2. slot \in Slot /\ slot.state = "pending" /\ slot.submitted = slots[i].submitted
      <3>1. slots[i].replies - 1 \in 0 .. MaxReplies
        BY <1>1, <1>10, <2>1, QueueAssumption DEF StepThrows, Slot
      <3> QED BY <1>1, <2>1, <3>1 DEF Slot
    <2>3. slots' = [slots EXCEPT ![i] = slot]
      BY <1>10 DEF StepThrows
    <2>4. pass' \in Pass /\ UNCHANGED <<generation, issued, flow>>
      BY <1>1, <1>10 DEF StepThrows
    <2> HIDE DEF slot
    <2> QED BY <2>1, <2>2, <2>3, <2>4, RetryingKeepsBooks
  <1>11. ASSUME NEW t \in issued, NEW state \in {"negative", "stale"}, SetTerminal(t, state)
         PROVE  BooksInv'
    <2> DEFINE i == t.index
               slot == [slots[i] EXCEPT !.state = state]
    <2>1. i \in PendingSlots /\ i \in DOMAIN slots
      BY <1>11 DEF SetTerminal, Resolves, PendingSlots
    <2>2. slot \in Slot /\ slot.state = state /\ slot.submitted = slots[i].submitted
      BY <1>1, <2>1 DEF Slot, Settled
    <2>3. slots' = [slots EXCEPT ![i] = slot]
      BY <1>11 DEF SetTerminal
    <2>4. flow' = AccountTerminal(flow, i, slot.state)
      BY <1>11, <2>2 DEF SetTerminal
    <2>5. pass' \in Pass /\ UNCHANGED <<generation, issued>>
      BY <1>1, <1>11 DEF SetTerminal
    <2>6. slot.state \in {"ready", "negative", "stale"}
      BY <2>2
    <2> HIDE DEF slot, i
    <2> QED BY <2>1, <2>2, <2>3, <2>4, <2>5, <2>6, SettlingKeepsBooks
  <1>12. CASE UNCHANGED queue_vars
    BY <1>1, <1>12, PassKeepsBooks DEF queue_vars
  <1> QED
    BY <1>3, <1>4, <1>7, <1>8, <1>9, <1>10, <1>11, <1>12, SubmittingKeepsBooks, ImmediateKeepsBooks,
       OutdatingKeepsBooks, ClearingKeepsBooks, ObservingKeepsBooks
    DEF QueueNext, Step, StepReturns

(* An empty queue has empty books. *)
LEMMA BooksInit == QueueInit => BooksInv
  <1> SUFFICES ASSUME QueueInit PROVE BooksInv
    OBVIOUS
  <1>1. slots = <<>> /\ flow = NoFlow /\ pass = Idle /\ issued = {} /\ generation = 1
    BY DEF QueueInit
  <1>2. NoFlow \in FlowRecord /\ NoFlow.clock = 0
    BY DEF NoFlow, FlowRecord
  <1>3. QueueTypeOK
    <2>1. slots \in Seq(Slot) /\ Len(slots) <= MaxSlots
      BY <1>1, QueueAssumption, EmptySeq
    <2> QED BY <1>1, <1>2, <2>1, QueueAssumption DEF QueueTypeOK, Pass, Idle
  <1>4. Dated
    BY <1>1, <1>3 DEF Dated
  <1>5. Waited = 0
    <2>1. PICK f \in [0 .. Len(slots) -> Nat] :
            /\ Waited = f[Len(slots)]
            /\ Accumulates(f, [i \in 1 .. Len(slots) |-> Age(i)], Len(slots))
      BY <1>4, DatedIsTotalled DEF Totalled
    <2>2. Len(slots) = 0 /\ f[0] = 0
      BY <1>1, <2>1 DEF Accumulates
    <2> QED BY <2>1, <2>2
  <1>6. Cardinality(PendingSlots) = 0 /\ Cardinality(FinishedSlots) = 0
    <2>1. PendingSlots = {} /\ FinishedSlots = {}
      BY <1>1 DEF PendingSlots, FinishedSlots
    <2> QED BY <2>1, FS_EmptySet
  <1>7. Books(NoFlow, 0, 0, 0)
    BY <1>2 DEF Books, NoFlow, AdmissionIdentity, RetentionIdentity, Terminal, Buckets
  <1> QED BY <1>1, <1>4, <1>5, <1>6, <1>7 DEF BooksInv

(* The inductive invariant implies what the runs check. *)
LEMMA BooksImplyConservation == BooksInv => FlowConserved
  BY DEF BooksInv, Books, Dated, FlowConserved, LittlesLaw

-----------------------------------------------------------------------------
(* The tickets in clients' hands: numbered below the next offer, none from  *)
(* a later generation, each of this generation naming a slot, and no two    *)
(* for one offer or one slot.                                               *)
TicketsAreDistinct ==
    /\ flow.offered <= MaxSubmissions
    /\ \A t \in issued :
         /\ t.id < flow.offered /\ t.generation <= generation
         /\ t.generation = generation => t.index \in DOMAIN slots
    /\ \A t, u \in issued :
         t.id = u.id \/ (t.index = u.index /\ t.generation = u.generation) => t = u
TicketInv == QueueTypeOK /\ TicketsAreDistinct

Result(t) == IF Resolves(t) THEN slots[t.index].state ELSE "retired"
Shown == [s \in 0 .. MaxSubmissions - 1 |-> Outcome(s)]

(* What a ticket shows. *)
Answers ==
    /\ \A t \in issued : /\ t.id \in 0 .. MaxSubmissions - 1
                         /\ Shown[t.id] = Result(t)
                         /\ Result(t) # "unissued"
    /\ \A s \in 0 .. MaxSubmissions - 1 :
         (\A t \in issued : t.id # s) => Shown[s] = "unissued"

(* Distinct tickets show the states of the slots they name. *)
LEMMA TicketsAnswer == TicketInv => Answers
  <1> SUFFICES ASSUME TicketInv PROVE Answers
    OBVIOUS
  <1>1. flow.offered \in Nat /\ MaxSubmissions \in Nat
    BY FlowFields, QueueAssumption DEF TicketInv, QueueTypeOK
  <1>2. ASSUME NEW t \in issued
        PROVE  /\ t.id \in 0 .. MaxSubmissions - 1
               /\ Shown[t.id] = Result(t) /\ Result(t) # "unissued"
    <2>1. t.id \in Nat /\ t.id < flow.offered
      BY DEF TicketInv, TicketsAreDistinct, QueueTypeOK, Ticket
    <2>2. t.id \in 0 .. MaxSubmissions - 1
      BY <1>1, <2>1 DEF TicketInv, TicketsAreDistinct
    <2> DEFINE u == CHOOSE u \in issued : u.id = t.id
    <2>3. u \in issued /\ u.id = t.id
      OBVIOUS
    <2>4. u = t
      <3> HIDE DEF u
      <3> QED BY <2>3 DEF TicketInv, TicketsAreDistinct
    <2>5. Outcome(t.id) = IF Resolves(u) THEN slots[u.index].state ELSE "retired"
      BY DEF Outcome
    <2>6. Outcome(t.id) = Result(t)
      <3> HIDE DEF u
      <3> QED BY <2>4, <2>5 DEF Result
    <2>7. Shown[t.id] = Outcome(t.id)
      BY <2>2 DEF Shown
    <2>8. Result(t) # "unissued"
      <3>1. CASE Resolves(t)
        <4>1. t.index \in DOMAIN slots
          BY <3>1 DEF Resolves
        <4>2. slots[t.index] \in Slot
          BY <4>1, SlotsTyped DEF TicketInv
        <4> QED BY <3>1, <4>2 DEF Slot, Settled, Result
      <3>2. CASE ~Resolves(t)
        BY <3>2 DEF Result
      <3> QED BY <3>1, <3>2
    <2> QED BY <2>2, <2>6, <2>7, <2>8
  <1>3. ASSUME NEW s \in 0 .. MaxSubmissions - 1, \A t \in issued : t.id # s
        PROVE  Shown[s] = "unissued"
    BY <1>3 DEF Shown, Outcome
  <1> QED BY <1>2, <1>3 DEF Answers
(* The same after a step.                                                  *)
LEMMA TicketsAnswerNext == TicketInv' => Answers'
  BY TicketsAnswer, PTL

(* Two tables of outcomes are compared entry by entry. *)
LEMMA ShownIsFunction ==
    /\ Shown = [s \in 0 .. MaxSubmissions - 1 |-> Shown[s]]
    /\ Shown' = [s \in 0 .. MaxSubmissions - 1 |-> Shown'[s]]
  BY DEF Shown

-----------------------------------------------------------------------------
(* A submission issues one ticket, and no other ticket shows a change. *)
LEMMA PushIssues ==
    ASSUME TicketInv, QueueTypeOK', NEW slot \in Slot, slot.id = flow.offered, Push(slot),
           flow'.offered = flow.offered + 1
    PROVE  /\ TicketInv'
           /\ flow.offered \in 0 .. MaxSubmissions - 1
           /\ Shown[flow.offered] = "unissued"
           /\ Shown' = [Shown EXCEPT ![flow.offered] = slot.state]
  <1> DEFINE N == Len(slots)
             o == flow.offered
  <1>n. PICK new : new = [index |-> N + 1, generation |-> generation, id |-> flow.offered]
    OBVIOUS
  <1>1. /\ QueueTypeOK /\ o \in Nat /\ N \in Nat /\ generation \in Nat
        /\ DOMAIN slots = 1 .. N /\ MaxSubmissions \in Nat
        /\ \A t \in issued : t.id \in Nat /\ t.index \in Nat /\ t.generation \in Nat
    BY SlotsTyped, FlowFields, QueueAssumption DEF TicketInv, QueueTypeOK, Ticket
  <1>2. /\ slots' = Append(slots, slot) /\ generation' = generation
        /\ issued' = issued \cup {new} /\ o < MaxSubmissions
    BY <1>n DEF Push
  <1>3. /\ DOMAIN slots' = DOMAIN slots \cup {N + 1} /\ N + 1 \notin DOMAIN slots
        /\ (\A m \in DOMAIN slots : slots'[m] = slots[m]) /\ slots'[N + 1] = slot
    BY <1>1, <1>2, PushingSlots
  <1>4. new.index = N + 1 /\ new.generation = generation /\ new.id = o
    BY <1>n
  <1>5. \A t \in issued : /\ t.id < o /\ t.generation <= generation
                          /\ t.generation = generation => t.index \in DOMAIN slots
    BY DEF TicketInv, TicketsAreDistinct
  <1>o. o \in 0 .. MaxSubmissions - 1
    BY <1>1, <1>2
  <1> HIDE DEF N, o
  <1>6. TicketsAreDistinct'
    <2>1. flow'.offered = o + 1 /\ o + 1 <= MaxSubmissions
      BY <1>1, <1>2 DEF o
    <2>2. ASSUME NEW t \in issued'
          PROVE  /\ t.id < flow'.offered /\ t.generation <= generation'
                 /\ t.generation = generation' => t.index \in DOMAIN slots'
      BY <1>1, <1>2, <1>3, <1>4, <1>5, <2>1
    <2>3. ASSUME NEW t \in issued', NEW u \in issued',
                 t.id = u.id \/ (t.index = u.index /\ t.generation = u.generation)
          PROVE  t = u
      <3>1. CASE t \in issued /\ u \in issued
        BY <2>3, <3>1 DEF TicketInv, TicketsAreDistinct
      <3>2. CASE t = new /\ u \in issued
        BY <1>1, <1>3, <1>4, <1>5, <2>3, <3>2
      <3>3. CASE t \in issued /\ u = new
        BY <1>1, <1>3, <1>4, <1>5, <2>3, <3>3
      <3> QED BY <1>2, <3>1, <3>2, <3>3
    <2> QED BY <2>1, <2>2, <2>3 DEF TicketsAreDistinct
  <1>7. TicketInv'
    BY <1>6 DEF TicketInv
  <1>8. Answers /\ Answers'
    BY <1>7, TicketsAnswer, TicketsAnswerNext
  <1>9. Shown[o] = "unissued"
    BY <1>1, <1>5, <1>8, <1>o DEF Answers
  <1>10. Shown'[o] = slot.state
    <2>1. new \in issued'
      BY <1>2
    <2>2. Shown'[o] = Result(new)'
      BY <1>4, <1>8, <2>1 DEF Answers
    <2>3. Resolves(new)'
      BY <1>2, <1>3, <1>4 DEF Resolves
    <2> QED BY <1>3, <1>4, <2>2, <2>3 DEF Result
  <1>11. ASSUME NEW s \in 0 .. MaxSubmissions - 1, s # o PROVE Shown'[s] = Shown[s]
    <2>1. CASE \E t \in issued : t.id = s
      <3>1. PICK t \in issued : t.id = s
        BY <2>1
      <3>2. t \in issued'
        BY <1>2
      <3>3. Shown[s] = Result(t) /\ Shown'[s] = Result(t)'
        BY <1>8, <3>1, <3>2 DEF Answers
      <3>4. Resolves(t)' <=> Resolves(t)
        BY <1>2, <1>3, <1>5 DEF Resolves
      <3>5. Resolves(t) => slots'[t.index] = slots[t.index]
        BY <1>3 DEF Resolves
      <3> QED BY <3>3, <3>4, <3>5 DEF Result
    <2>2. CASE \A t \in issued : t.id # s
      <3>1. \A t \in issued' : t.id # s
        BY <1>2, <1>4, <1>11, <2>2
      <3> QED BY <1>8, <2>2, <3>1 DEF Answers
    <2> QED BY <2>1, <2>2
  <1>12. Shown' = [Shown EXCEPT ![o] = slot.state]
    BY <1>10, <1>11, <1>o, ShownIsFunction
  <1> QED BY <1>7, <1>9, <1>12, <1>o DEF o

(* A slot changes its state: only the ticket that names it, if any, shows it. *)
LEMMA SlotChangeShows ==
    ASSUME TicketInv, QueueTypeOK', NEW i \in DOMAIN slots, NEW slot \in Slot,
           slots' = [slots EXCEPT ![i] = slot], UNCHANGED <<generation, issued>>,
           flow'.offered = flow.offered
    PROVE  /\ TicketInv'
           /\ slot.state = slots[i].state => Shown' = Shown
           /\ \/ Shown' = Shown
              \/ \E s \in 0 .. MaxSubmissions - 1 :
                   /\ Shown[s] = slots[i].state
                   /\ Shown' = [Shown EXCEPT ![s] = slot.state]
  <1>1. /\ DOMAIN slots' = DOMAIN slots
        /\ \A n \in DOMAIN slots : slots'[n] = IF n = i THEN slot ELSE slots[n]
    BY SlotUpdate DEF TicketInv
  <1>2. TicketInv'
    <2>1. TicketsAreDistinct
      BY DEF TicketInv
    <2>2. TicketsAreDistinct'
      BY <1>1, <2>1 DEF TicketsAreDistinct
    <2> QED BY <2>2 DEF TicketInv
  <1>3. Answers /\ Answers'
    BY <1>2, TicketsAnswer, TicketsAnswerNext
  <1>4. ASSUME NEW t \in issued
        PROVE  /\ Resolves(t)' <=> Resolves(t)
               /\ ~(Resolves(t) /\ t.index = i) => Shown'[t.id] = Shown[t.id]
               /\ Resolves(t) /\ t.index = i => /\ Shown[t.id] = slots[i].state
                                                /\ Shown'[t.id] = slot.state
    <2>1. Resolves(t)' <=> Resolves(t)
      BY <1>1 DEF Resolves
    <2>2. Shown[t.id] = Result(t) /\ Shown'[t.id] = Result(t)'
      BY <1>3 DEF Answers
    <2>3. Resolves(t) => t.index \in DOMAIN slots
      BY DEF Resolves
    <2> QED BY <1>1, <2>1, <2>2, <2>3 DEF Result
  <1>5. ASSUME NEW s \in 0 .. MaxSubmissions - 1, \A t \in issued : t.id = s => ~(Resolves(t) /\ t.index = i)
        PROVE  Shown'[s] = Shown[s]
    <2>1. CASE \E t \in issued : t.id = s
      BY <1>4, <1>5, <2>1
    <2>2. CASE \A t \in issued : t.id # s
      BY <1>3, <2>2 DEF Answers
    <2> QED BY <2>1, <2>2
  <1>6. CASE \A t \in issued : ~(Resolves(t) /\ t.index = i)
    <2>1. \A s \in 0 .. MaxSubmissions - 1 : Shown'[s] = Shown[s]
      BY <1>5, <1>6
    <2>2. Shown' = Shown
      BY <2>1, ShownIsFunction
    <2> QED BY <1>2, <2>2
  <1>7. CASE \E t \in issued : Resolves(t) /\ t.index = i
    <2>1. PICK t \in issued : Resolves(t) /\ t.index = i
      BY <1>7
    <2>2. /\ t.id \in 0 .. MaxSubmissions - 1
          /\ Shown[t.id] = slots[i].state /\ Shown'[t.id] = slot.state
      BY <1>3, <1>4, <2>1 DEF Answers
    <2>3. ASSUME NEW s \in 0 .. MaxSubmissions - 1, s # t.id PROVE Shown'[s] = Shown[s]
      <3>1. ASSUME NEW u \in issued, u.id = s PROVE ~(Resolves(u) /\ u.index = i)
        BY <2>1, <2>3, <3>1 DEF Resolves, TicketInv, TicketsAreDistinct
      <3> QED BY <1>5, <3>1
    <2>4. Shown' = [Shown EXCEPT ![t.id] = slot.state]
      BY <2>2, <2>3, ShownIsFunction
    <2>5. slot.state = slots[i].state => Shown' = Shown
      <3> SUFFICES ASSUME slot.state = slots[i].state PROVE Shown' = Shown
        OBVIOUS
      <3>1. \A s \in 0 .. MaxSubmissions - 1 : Shown'[s] = Shown[s]
        BY <2>2, <2>3
      <3> QED BY <3>1, ShownIsFunction
    <2> QED BY <1>2, <2>2, <2>4, <2>5
  <1> QED BY <1>6, <1>7

(* Clear retires every ticket issued so far. *)
LEMMA ClearRetires ==
    ASSUME TicketInv, QueueTypeOK', Clear, flow'.offered = flow.offered
    PROVE  /\ TicketInv'
           /\ Shown' = [s \in 0 .. MaxSubmissions - 1 |->
                          IF Shown[s] = "unissued" THEN "unissued" ELSE "retired"]
  <1>1. /\ generation \in Nat /\ generation' = generation + 1
        /\ issued' = issued /\ slots' = <<>>
        /\ \A t \in issued : t.generation \in Nat /\ t.generation <= generation
    BY QueueAssumption DEF Clear, TicketInv, QueueTypeOK, TicketsAreDistinct, Ticket
  <1>2. \A t \in issued : t.generation # generation' /\ t.generation <= generation'
    BY <1>1
  <1>3. TicketInv'
    <2>1. TicketsAreDistinct
      BY DEF TicketInv
    <2>2. TicketsAreDistinct'
      BY <1>1, <1>2, <2>1 DEF TicketsAreDistinct
    <2> QED BY <2>2 DEF TicketInv
  <1>4. Answers /\ Answers'
    BY <1>3, TicketsAnswer, TicketsAnswerNext
  <1>5. ASSUME NEW s \in 0 .. MaxSubmissions - 1
        PROVE  Shown'[s] = IF Shown[s] = "unissued" THEN "unissued" ELSE "retired"
    <2>1. CASE \E t \in issued : t.id = s
      <3>1. PICK t \in issued : t.id = s
        BY <2>1
      <3>2. Shown[s] # "unissued" /\ Shown'[s] = Result(t)'
        BY <1>1, <1>4, <3>1 DEF Answers
      <3>3. Result(t)' = "retired"
        BY <1>2 DEF Result, Resolves
      <3> QED BY <3>2, <3>3
    <2>2. CASE \A t \in issued : t.id # s
      BY <1>1, <1>4, <2>2 DEF Answers
    <2> QED BY <2>1, <2>2
  <1> QED BY <1>3, <1>5, ShownIsFunction

(* Steps that touch no slot show nothing. *)
LEMMA TicketsStay ==
    ASSUME TicketInv, QueueTypeOK', UNCHANGED <<slots, generation, issued>>, flow'.offered = flow.offered
    PROVE  TicketInv' /\ Shown' = Shown
  BY DEF TicketInv, TicketsAreDistinct, Shown, Outcome, Resolves

(* What the flow's operations do to the number of offers. *)
LEMMA OffersAreKept ==
    ASSUME QueueTypeOK
    PROVE  /\ \A i, state : AccountTerminal(flow, i, state).offered = flow.offered
           /\ \A now : ObserveTick(flow, now).offered = flow.offered
           /\ DroppedAll.offered = flow.offered
           /\ RecordAdmitted(Offered).offered = flow.offered + 1
           /\ AddTo([Offered EXCEPT !.admitted = @ + 1], "completed").offered = flow.offered + 1
           /\ AddTo([flow EXCEPT !.terminal["completed"] =
                                     IF @ > 0 THEN @ - 1 ELSE @], "stale").offered = flow.offered
  <1>1. flow \in FlowRecord
    BY DEF QueueTypeOK
  <1>3. \A i, state : AccountTerminal(flow, i, state).offered = flow.offered
    BY <1>1 DEF AccountTerminal, RecordLeft, AddTo, FlowRecord
  <1>4. \A now : ObserveTick(flow, now).offered = flow.offered
    BY <1>1 DEF ObserveTick, FlowRecord
  <1>5. DroppedAll.offered = flow.offered
    BY <1>1 DEF DroppedAll, FlowRecord
  <1>6. RecordAdmitted(Offered).offered = flow.offered + 1
    BY <1>1 DEF RecordAdmitted, Offered, FlowRecord
  <1>7. AddTo([Offered EXCEPT !.admitted = @ + 1], "completed").offered = flow.offered + 1
    BY <1>1 DEF AddTo, Offered, FlowRecord
  <1>8. AddTo([flow EXCEPT !.terminal["completed"] =
                                     IF @ > 0 THEN @ - 1 ELSE @], "stale").offered = flow.offered
    BY <1>1 DEF AddTo, FlowRecord
  <1> QED BY <1>3, <1>4, <1>5, <1>6, <1>7, <1>8

-----------------------------------------------------------------------------
(* Each operation of the queue is a step of the lifecycle, or shows nothing. *)
LifecycleMove == Shown' = Shown \/ Lifecycle!Next

(* A slot that settles is a Settle of the ticket that names it. *)
LEMMA SettlingShows ==
    ASSUME TicketInv, QueueTypeOK', NEW i \in PendingSlots, NEW state \in {"ready", "negative", "stale"},
           NEW slot \in Slot, slot.state = state, slots' = [slots EXCEPT ![i] = slot],
           flow' = AccountTerminal(flow, i, state), UNCHANGED <<generation, issued>>
    PROVE  TicketInv' /\ LifecycleMove
  <1>1. i \in DOMAIN slots /\ slots[i].state = "pending" /\ flow'.offered = flow.offered
    BY OffersAreKept DEF PendingSlots, IsPending, TicketInv
  <1>2. /\ TicketInv'
        /\ \/ Shown' = Shown
           \/ \E s \in 0 .. MaxSubmissions - 1 :
                /\ Shown[s] = slots[i].state
                /\ Shown' = [Shown EXCEPT ![s] = slot.state]
    BY <1>1, SlotChangeShows
  <1>3. ASSUME NEW s \in 0 .. MaxSubmissions - 1,
               Shown[s] = "pending", Shown' = [Shown EXCEPT ![s] = state]
        PROVE  Lifecycle!Next
    <2>1. Lifecycle!Settle(s)
      BY <1>3 DEF Lifecycle!Settle, Lifecycle!Negative, Shown
    <2> QED BY <2>1 DEF Lifecycle!Next
  <1> QED BY <1>1, <1>2, <1>3 DEF LifecycleMove

(* Operation by operation. *)
LEMMA LifecycleStep ==
    ASSUME TicketInv, QueueTypeOK', [QueueNext]_queue_vars
    PROVE  TicketInv' /\ LifecycleMove
  <1>0. /\ QueueTypeOK /\ flow \in FlowRecord /\ flow.offered \in Nat /\ flow.clock \in Nat
        /\ \A i \in DOMAIN slots : slots[i] \in Slot
    BY SlotsTyped, FlowFields DEF TicketInv, QueueTypeOK
  <1>1. ASSUME NEW slot \in Slot, slot.id = flow.offered, slot.state \in {"pending", "immediate"},
               Push(slot), flow'.offered = flow.offered + 1
        PROVE  TicketInv' /\ LifecycleMove
    <2>1. /\ TicketInv' /\ flow.offered \in 0 .. MaxSubmissions - 1
          /\ Shown[flow.offered] = "unissued"
          /\ Shown' = [Shown EXCEPT ![flow.offered] = slot.state]
      BY <1>1, PushIssues
    <2>2. Lifecycle!Issue(flow.offered)
      BY <1>1, <2>1 DEF Lifecycle!Issue, Shown
    <2>3. Lifecycle!Next
      BY <2>1, <2>2 DEF Lifecycle!Next
    <2> QED BY <2>1, <2>3 DEF LifecycleMove
  <1>2. ASSUME NEW r \in 0 .. MaxReplies, Submit(r) PROVE TicketInv' /\ LifecycleMove
    <2> DEFINE slot == [id |-> flow.offered, state |-> "pending", version |-> AnyVersion,
                        submitted |-> flow.clock, replies |-> r]
    <2>1. AnyVersion \in Versions
      BY QueueAssumption DEF AnyVersion
    <2>2. slot \in Slot /\ slot.id = flow.offered /\ slot.state = "pending"
      BY <1>0, <2>1 DEF Slot
    <2>3. Push(slot) /\ flow'.offered = flow.offered + 1
      BY <1>0, <1>2, OffersAreKept DEF Submit
    <2> HIDE DEF slot
    <2> QED BY <1>1, <2>2, <2>3
  <1>3. ASSUME NEW v \in Versions, SubmitImmediate(v) PROVE TicketInv' /\ LifecycleMove
    <2> DEFINE slot == [id |-> flow.offered, state |-> "immediate", version |-> v,
                        submitted |-> 0, replies |-> 0]
    <2>2. slot \in Slot /\ slot.id = flow.offered /\ slot.state = "immediate"
      BY <1>0, QueueAssumption DEF Slot, Settled
    <2>3. Push(slot) /\ flow'.offered = flow.offered + 1
      BY <1>0, <1>3, OffersAreKept DEF SubmitImmediate
    <2> HIDE DEF slot
    <2> QED BY <1>1, <2>2, <2>3
  <1>4. ASSUME UNCHANGED <<slots, generation, issued>>, flow'.offered = flow.offered
        PROVE  TicketInv' /\ LifecycleMove
    BY <1>4, TicketsStay DEF LifecycleMove
  <1>5. ASSUME NEW i \in Upcoming PROVE i \in PendingSlots /\ i \in DOMAIN slots /\ slots[i] \in Slot
    BY <1>0 DEF Upcoming, PendingSlots
  <1>6. ASSUME NEW i \in PendingSlots, NEW slot \in Slot, slot.state = "pending",
               slots' = [slots EXCEPT ![i] = slot], UNCHANGED <<generation, issued, flow>>
        PROVE  TicketInv' /\ LifecycleMove
    <2>1. i \in DOMAIN slots /\ slots[i].state = "pending"
      BY DEF PendingSlots, IsPending
    <2> QED BY <1>6, <2>1, SlotChangeShows DEF LifecycleMove
  <1>7. ASSUME NEW i \in Upcoming, OverReport(i) PROVE TicketInv' /\ LifecycleMove
    <2> DEFINE slot == [slots[i] EXCEPT !.state = "negative"]
    <2>1. slot \in Slot /\ slot.state = "negative"
      BY <1>5 DEF Slot, Settled
    <2>2. slots' = [slots EXCEPT ![i] = slot]
      BY <1>7 DEF OverReport
    <2>3. flow' = AccountTerminal(flow, i, "negative") /\ UNCHANGED <<generation, issued>>
      BY <1>7 DEF OverReport
    <2> HIDE DEF slot
    <2> QED BY <1>5, <2>1, <2>2, <2>3, SettlingShows
  <1>8. ASSUME NEW i \in Upcoming, NEW items, NEW v \in Versions, StepPending(i, items, v)
        PROVE  TicketInv' /\ LifecycleMove
    <2> DEFINE slot == [slots[i] EXCEPT !.version = v, !.replies = @ - 1]
    <2>1. slot \in Slot /\ slot.state = "pending"
      <3>1. slots[i].replies - 1 \in 0 .. MaxReplies /\ slots[i].state = "pending"
        BY <1>5, <1>8, QueueAssumption DEF StepPending, Slot, PendingSlots, IsPending
      <3> QED BY <1>5, <3>1 DEF Slot
    <2>2. slots' = [slots EXCEPT ![i] = slot] /\ UNCHANGED <<generation, issued, flow>>
      BY <1>8 DEF StepPending
    <2> HIDE DEF slot
    <2> QED BY <1>5, <1>6, <2>1, <2>2
  <1>9. ASSUME NEW i \in Upcoming, NEW items, NEW v \in Versions,
               NEW state \in {"ready", "negative", "stale"}, StepSettles(i, items, v, state)
        PROVE  TicketInv' /\ LifecycleMove
    <2> DEFINE slot == [slots[i] EXCEPT !.version = v, !.state = state]
    <2>1. slot \in Slot /\ slot.state = state
      BY <1>5 DEF Slot, Settled
    <2>2. slots' = [slots EXCEPT ![i] = slot]
      BY <1>9 DEF StepSettles
    <2>3. flow' = AccountTerminal(flow, i, state) /\ UNCHANGED <<generation, issued>>
      BY <1>9 DEF StepSettles
    <2> HIDE DEF slot
    <2> QED BY <1>5, <2>1, <2>2, <2>3, SettlingShows
  <1>10. ASSUME NEW i \in Upcoming, StepThrows(i) PROVE TicketInv' /\ LifecycleMove
    <2> DEFINE slot == [slots[i] EXCEPT !.replies = @ - 1]
    <2>1. slot \in Slot /\ slot.state = "pending"
      <3>1. slots[i].replies - 1 \in 0 .. MaxReplies /\ slots[i].state = "pending"
        BY <1>5, <1>10, QueueAssumption DEF StepThrows, Slot, PendingSlots, IsPending
      <3> QED BY <1>5, <3>1 DEF Slot
    <2>2. slots' = [slots EXCEPT ![i] = slot] /\ UNCHANGED <<generation, issued, flow>>
      BY <1>10 DEF StepThrows
    <2> HIDE DEF slot
    <2> QED BY <1>5, <1>6, <2>1, <2>2
  <1>11. ASSUME NEW t \in issued, NEW state \in {"negative", "stale"}, SetTerminal(t, state)
         PROVE  TicketInv' /\ LifecycleMove
    <2> DEFINE i == t.index
               slot == [slots[i] EXCEPT !.state = state]
    <2>1. i \in PendingSlots /\ slot \in Slot /\ slot.state = state
      BY <1>0, <1>11 DEF SetTerminal, Resolves, PendingSlots, Slot, Settled
    <2>2. slots' = [slots EXCEPT ![i] = slot]
      BY <1>11 DEF SetTerminal
    <2>3. flow' = AccountTerminal(flow, i, state) /\ UNCHANGED <<generation, issued>>
      BY <1>11 DEF SetTerminal
    <2>4. state \in {"ready", "negative", "stale"}
      OBVIOUS
    <2> HIDE DEF slot, i
    <2> QED BY <2>1, <2>2, <2>3, <2>4, SettlingShows
  <1>12. ASSUME NEW t \in issued, NEW v \in Versions, MarkStaleIfVersion(t, v)
         PROVE  TicketInv' /\ LifecycleMove
    <2> DEFINE i == t.index
               slot == [slots[i] EXCEPT !.state = "stale"]
    <2>1. /\ i \in DOMAIN slots /\ slots[i].state \in {"immediate", "ready"}
          /\ slot \in Slot /\ slot.state = "stale"
      BY <1>0, <1>12 DEF MarkStaleIfVersion, Resolves, Slot, Settled
    <2>2. slots' = [slots EXCEPT ![i] = slot]
      BY <1>12 DEF MarkStaleIfVersion
    <2>3. flow'.offered = flow.offered /\ UNCHANGED <<generation, issued>>
      BY <1>0, <1>12, OffersAreKept DEF MarkStaleIfVersion
    <2> HIDE DEF slot, i
    <2>4. /\ TicketInv'
          /\ \/ Shown' = Shown
             \/ \E s \in 0 .. MaxSubmissions - 1 :
                  /\ Shown[s] = slots[i].state
                  /\ Shown' = [Shown EXCEPT ![s] = slot.state]
      BY <2>1, <2>2, <2>3, SlotChangeShows
    <2>5. ASSUME NEW s \in 0 .. MaxSubmissions - 1, Shown[s] \in {"immediate", "ready"},
                 Shown' = [Shown EXCEPT ![s] = "stale"]
          PROVE  Lifecycle!Next
      <3>1. Lifecycle!Outdate(s)
        BY <2>5 DEF Lifecycle!Outdate, Lifecycle!Done, Shown
      <3> QED BY <3>1 DEF Lifecycle!Next
    <2> QED BY <2>1, <2>4, <2>5 DEF LifecycleMove
  <1>13. CASE Clear
    <2>1. flow'.offered = flow.offered
      BY <1>0, <1>13, OffersAreKept DEF Clear
    <2>2. /\ TicketInv'
          /\ Shown' = [s \in 0 .. MaxSubmissions - 1 |->
                         IF Shown[s] = "unissued" THEN "unissued" ELSE "retired"]
      BY <1>13, <2>1, ClearRetires
    <2>3. Lifecycle!RetireAll
      BY <2>2 DEF Lifecycle!RetireAll, Shown
    <2> QED BY <2>2, <2>3 DEF LifecycleMove, Lifecycle!Next
  <1>14. CASE ObserveFlowTick
    <2>1. flow'.offered = flow.offered
      BY <1>0, <1>14, OffersAreKept DEF ObserveFlowTick
    <2> QED BY <1>4, <1>14, <2>1 DEF ObserveFlowTick
  <1>15. ASSUME \/ \E b \in Budgets : BeginAdvance(b)
                \/ EndAdvance
                \/ UNCHANGED queue_vars
         PROVE  TicketInv' /\ LifecycleMove
    <2>1. UNCHANGED <<slots, generation, issued, flow>>
      BY <1>15 DEF BeginAdvance, EndAdvance, queue_vars
    <2> QED BY <1>4, <2>1
  <1> QED
    BY <1>2, <1>3, <1>7, <1>8, <1>9, <1>10, <1>11, <1>12, <1>13, <1>14, <1>15
    DEF QueueNext, Step, StepReturns

(* No ticket has been issued to begin with. *)
LEMMA LifecycleInit == QueueInit => TicketInv /\ Lifecycle!Init
  <1> SUFFICES ASSUME QueueInit PROVE TicketInv /\ Lifecycle!Init
    OBVIOUS
  <1>1. QueueTypeOK
    BY BooksInit DEF BooksInv, Dated
  <1>2. issued = {} /\ flow.offered = 0
    BY DEF QueueInit, NoFlow
  <1>3. TicketsAreDistinct
    BY <1>2, QueueAssumption DEF TicketsAreDistinct
  <1>4. Lifecycle!Init
    BY <1>2 DEF Lifecycle!Init, Outcome
  <1> QED BY <1>1, <1>3, <1>4 DEF TicketInv

-----------------------------------------------------------------------------
(* A step of a scene is a step of the queue and a step of the schedule, or  *)
(* leaves them alone.                                                       *)
LEMMA SceneIsQueue == [SceneNext]_all_vars => [QueueNext]_queue_vars
  <1> SUFFICES ASSUME [SceneNext]_all_vars PROVE [QueueNext]_queue_vars
    OBVIOUS
  <1>1. CASE AdapterNext
    <2>1. CASE SubmitWork
      BY <2>1 DEF SubmitWork, QueueNext
    <2>2. CASE ClientSettles
      BY <2>2 DEF ClientSettles, QueueNext
    <2>3. CASE Poke \/ OthersPass \/ RunReturns
      BY <2>3 DEF Poke, OthersPass, RunReturns
    <2>4. CASE RunBegins
      BY <2>4 DEF RunBegins, QueueNext
    <2>5. CASE RunContinues
      <3>1. AnyVersion \in Versions
        BY QueueAssumption DEF AnyVersion
      <3>2. StepReturns({AnyVersion}) => StepReturns(Versions)
        BY <3>1 DEF StepReturns
      <3> QED BY <2>5, <3>2 DEF RunContinues, QueueNext, Step
    <2>6. CASE RunThrows
      BY <2>6 DEF RunThrows, QueueNext, Step
    <2> QED BY <1>1, <2>1, <2>2, <2>3, <2>4, <2>5, <2>6 DEF AdapterNext, AdaptedTick
  <1>2. CASE UNCHANGED queue_vars
    BY <1>2
  <1> QED BY <1>1, <1>2 DEF SceneNext, all_vars

(* The schedule sees its own steps and requests to run the adapter. *)
LEMMA SceneIsSchedule == [SceneNext]_all_vars => [StepOrRequest]_vars
  <1> SUFFICES ASSUME [SceneNext]_all_vars PROVE [StepOrRequest]_vars
    OBVIOUS
  <1>1. CASE AdapterNext
    <2>1. CASE SubmitWork \/ ClientSettles \/ RunContinues
      BY <2>1 DEF SubmitWork, ClientSettles, ClientActs, RunContinues
    <2>2. CASE Poke
      BY <2>2, AdapterAssumption DEF Poke, StepOrRequest
    <2>3. CASE OthersPass
      BY <2>3 DEF OthersPass, StepOrRequest, Next
    <2>4. CASE RunBegins
      BY <2>4, AdapterAssumption DEF RunBegins, StepOrRequest, Next
    <2>5. CASE RunReturns
      <3>1. {} \in SUBSET Bits /\ MoreWork \in BOOLEAN
        BY DEF MoreWork
      <3> QED BY <2>5, <3>1, AdapterAssumption DEF RunReturns, StepOrRequest, Next, Finish
    <2>6. CASE RunThrows
      BY <2>6, AdapterAssumption DEF RunThrows, StepOrRequest, Next
    <2> QED BY <1>1, <2>1, <2>2, <2>3, <2>4, <2>5, <2>6 DEF AdapterNext, AdaptedTick
  <1>2. CASE UNCHANGED vars
    BY <1>2
  <1> QED BY <1>1, <1>2 DEF SceneNext, StepOrRequest, all_vars

-----------------------------------------------------------------------------
(* A run of the adapting task that throws has its trigger to give back: it  *)
(* was entered because the task was in progress or a run was requested.     *)
RunWasDue == Adapted /\ running.task = Adapter => in_progress[Adapter] \/ running.requested
ArmedInv == WorkStaysArmed /\ RunWasDue

(* Armed is kept by every operation behind the adapter. *)
LEMMA ArmedStep == TypeOK /\ QueueTypeOK /\ ArmedInv /\ [SceneNext]_all_vars => ArmedInv'
  <1> SUFFICES ASSUME TypeOK, QueueTypeOK, ArmedInv, [SceneNext]_all_vars, Adapted' PROVE ArmedInv'
    BY DEF ArmedInv, WorkStaysArmed, RunWasDue
  <1>1. /\ Adapter \in Tasks /\ Kind[Adapter] = "Background" /\ Adapted
        /\ in_progress \in [Tasks -> BOOLEAN] /\ run_requested \in [Tasks -> BOOLEAN]
    BY AdapterAssumption DEF TypeOK, SceneNext, all_vars, Adapted
  <1>2. /\ PendingSlots # {} =>
             in_progress[Adapter] \/ run_requested[Adapter] \/ running.task = Adapter \/ unpoked
        /\ running.task = Adapter => in_progress[Adapter] \/ running.requested
    BY <1>1 DEF ArmedInv, WorkStaysArmed, RunWasDue
  <1> DEFINE Armed == /\ PendingSlots' # {} =>
                           in_progress'[Adapter] \/ run_requested'[Adapter]
                             \/ running'.task = Adapter \/ unpoked'
                      /\ running'.task = Adapter => in_progress'[Adapter] \/ running'.requested
  <1>3. SUFFICES Armed
    BY DEF ArmedInv, WorkStaysArmed, RunWasDue
  <1>4. Nobody.task # Adapter
    BY <1>1, NobodyIsNoTask DEF Nobody
  <1>5. CASE SubmitWork
    BY <1>2, <1>5 DEF SubmitWork, ClientActs, vars, record
  <1>6. CASE ClientSettles
    <2>1. UNCHANGED <<running, run_requested, in_progress, unpoked>>
      BY <1>6 DEF ClientSettles, ClientActs, vars, record
    <2>2. PendingSlots' # {} => PendingSlots # {}
      <3>1. ASSUME NEW t \in issued, NEW s \in {"negative", "stale"}, SetTerminal(t, s)
            PROVE  PendingSlots # {}
        BY <3>1 DEF SetTerminal, Resolves, PendingSlots
      <3>2. CASE Clear
        BY <3>2 DEF Clear, PendingSlots
      <3> QED BY <1>6, <3>1, <3>2 DEF ClientSettles
    <2> QED BY <1>2, <2>1, <2>2
  <1>7. CASE Poke
    <2>1. /\ UNCHANGED <<running, in_progress>> /\ run_requested'[Adapter] = TRUE
      BY <1>1, <1>7 DEF Poke, RequestRun
    <2> QED BY <1>2, <2>1
  <1>8. CASE OthersPass
    <2>1. UNCHANGED <<running, run_requested, in_progress, unpoked, slots>>
      BY <1>8 DEF OthersPass, BeginTick, PassOver, record, queue_vars
    <2>2. PendingSlots' = PendingSlots
      BY <2>1 DEF PendingSlots, IsPending
    <2> QED BY <1>2, <2>1, <2>2
  <1>9. CASE RunBegins
    <2>1. /\ Due(Adapter) /\ in_progress' = in_progress
          /\ running' = [task |-> Adapter, bits |-> Fired(Adapter), requested |-> run_requested[Adapter]]
      BY <1>9 DEF RunBegins, StartTask
    <2>2. in_progress[Adapter] \/ run_requested[Adapter]
      BY <1>1, <2>1 DEF Due
    <2> QED BY <2>1, <2>2
  <1>10. CASE RunContinues
    <2>1. UNCHANGED <<running, run_requested, in_progress, unpoked>> /\ running.task = Adapter
      BY <1>10 DEF RunContinues, vars, record
    <2> QED BY <1>2, <2>1
  <1>11. CASE RunReturns
    <2>1. /\ running' = Nobody /\ UNCHANGED slots
          /\ in_progress'[Adapter] = (PendingSlots # {})
      BY <1>1, <1>11 DEF RunReturns, FinishTask, MoreWork, queue_vars
    <2>2. PendingSlots' = PendingSlots
      BY <2>1 DEF PendingSlots, IsPending
    <2> QED BY <1>4, <2>1, <2>2
  <1>12. CASE RunThrows
    <2>1. /\ running.task = Adapter /\ running' = Nobody /\ in_progress' = in_progress
          /\ run_requested' = [run_requested EXCEPT ![Adapter] = @ \/ running.requested]
      BY <1>12 DEF RunThrows, ThrowTask
    <2>2. run_requested'[Adapter] = (run_requested[Adapter] \/ running.requested)
      BY <1>1, <2>1
    <2> QED BY <1>2, <1>4, <2>1, <2>2
  <1>13. CASE UNCHANGED all_vars
    <2>1. UNCHANGED <<running, run_requested, in_progress, unpoked, slots>>
      BY <1>13 DEF all_vars, vars, record, queue_vars
    <2>2. PendingSlots' = PendingSlots
      BY <2>1 DEF PendingSlots, IsPending
    <2> QED BY <1>2, <2>1, <2>2
  <1>14. AdapterNext \/ UNCHANGED all_vars
    BY <1>1 DEF SceneNext, Adapted
  <1> HIDE DEF Armed
  <1> QED BY <1>5, <1>6, <1>7, <1>8, <1>9, <1>10, <1>11, <1>12, <1>13, <1>14 DEF AdapterNext, AdaptedTick

-----------------------------------------------------------------------------
(* The inductive invariant of every scene. *)
SceneInv == ScheduleInv /\ BooksInv /\ TicketInv /\ ArmedInv

(* Every scene starts within the invariant. *)
LEMMA SceneStarts == SceneInit => SceneInv /\ Lifecycle!Init
  <1> SUFFICES ASSUME SceneInit PROVE SceneInv /\ Lifecycle!Init
    OBVIOUS
  <1>1. QuietInit
    BY DEF SceneInit, Init, QuietInit
  <1>2. BooksInv /\ TicketInv /\ Lifecycle!Init
    BY BooksInit, LifecycleInit DEF SceneInit
  <1>3. ArmedInv
    <2>1. running = Nobody /\ slots = <<>>
      BY <1>1 DEF QuietInit, SceneInit, QueueInit
    <2>2. PendingSlots = {} /\ running.task # Adapter
      BY <2>1, NobodyIsNoTask, AdapterAssumption DEF PendingSlots, Nobody
    <2> QED BY <2>2 DEF ArmedInv, WorkStaysArmed, RunWasDue
  <1> QED BY <1>1, <1>2, <1>3, ScheduleStarts DEF SceneInv

(* Every step of a scene keeps the invariant and is one of the lifecycle. *)
LEMMA SceneStep == SceneInv /\ [SceneNext]_all_vars => SceneInv' /\ LifecycleMove
  <1> SUFFICES ASSUME SceneInv, [SceneNext]_all_vars PROVE SceneInv' /\ LifecycleMove
    OBVIOUS
  <1>1. [QueueNext]_queue_vars /\ [StepOrRequest]_vars
    BY SceneIsQueue, SceneIsSchedule
  <1>2. ScheduleInv'
    BY <1>1, ScheduleKeeps DEF SceneInv
  <1>3. BooksInv'
    BY <1>1, BooksStep DEF SceneInv
  <1>4. TicketInv' /\ LifecycleMove
    BY <1>1, <1>3, LifecycleStep DEF SceneInv, BooksInv, Dated
  <1>5. ArmedInv'
    BY ArmedStep DEF SceneInv, ScheduleInv, TicketInv
  <1> QED BY <1>2, <1>3, <1>4, <1>5 DEF SceneInv

(* Whatever is submitted, thrown, settled, cleared and passed over, in      *)
(* every scene.                                                             *)
THEOREM SceneInvariant == SceneSpec => []SceneInv
  BY SceneStarts, SceneStep, PTL DEF SceneSpec

(* The accountant's conservation identities, its outstanding count and      *)
(* Little's law hold at all times.                                          *)
THEOREM BooksBalance == SceneSpec => []FlowConserved
  <1>1. SceneInv => FlowConserved
    BY BooksImplyConservation DEF SceneInv
  <1> QED BY <1>1, SceneInvariant, PTL

(* The adapting task never disarms over pending work. *)
THEOREM TaskStaysArmed == SceneSpec => []WorkStaysArmed
  <1>1. SceneInv => WorkStaysArmed
    BY DEF SceneInv, ArmedInv
  <1> QED BY <1>1, SceneInvariant, PTL

(* The schedule keeps its countdowns and its triggers with the queue behind *)
(* one of its tasks and a client that requests runs of it.                  *)
THEOREM CadencesKeptInScenes == SceneSpec => []CadenceIsLockstep
  <1>1. SceneInv => CadenceIsLockstep
    BY DEF SceneInv, ScheduleInv
  <1> QED BY <1>1, SceneInvariant, PTL

(* No trigger of the schedule is lost or invented there either.             *)
THEOREM TriggersKeptInScenes == SceneSpec => []NoTriggerLost
  <1>1. SceneInv => NoTriggerLost
    BY DEF SceneInv, ScheduleInv
  <1> QED BY <1>1, SceneInvariant, PTL

(* A ticket's result settles once and a retired ticket answers for nothing: *)
(* the queue implements the lifecycle it promises.                          *)
THEOREM ResultsSettleOnce == SceneSpec => ImplementsLifecycle
  <1>1. SceneInv /\ [SceneNext]_all_vars
          => [Lifecycle!Next]_[s \in 0 .. MaxSubmissions - 1 |-> Outcome(s)]
    BY SceneStep DEF LifecycleMove, Shown
  <1>2. SceneInit => Lifecycle!Init
    BY SceneStarts
  <1> QED BY <1>1, <1>2, SceneInvariant, PTL DEF SceneSpec, ImplementsLifecycle, Lifecycle!Spec
=============================================================================
