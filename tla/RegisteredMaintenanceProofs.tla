--------------------- MODULE RegisteredMaintenanceProofs ---------------------
(***************************************************************************)
(* Proofs about the registered scheduler, for any registry, queue, backend *)
(* and set of producers: accepted work is kept until a run of it begins,   *)
(* and neither Idle nor release is granted while anything is retained.     *)
(* And about the chunk adapter over it, for any chunks, slots, callbacks   *)
(* and residency: marked work is owed until it is read, and a current      *)
(* product is what its callback would read.                                *)
(***************************************************************************)
EXTENDS ChunkMaintenance, FiniteSetTheorems, SequenceTheorems, TLAPS

-----------------------------------------------------------------------------
(* The inductive invariant.                                                *)
Inside == {p \in Producers : calls[p] # Away}

(* in_flight_schedules_ counts the producers inside try_schedule, each with *)
(* a slot that cannot be released under it.                                *)
CallsAreCounted ==
  /\ IsFiniteSet(Inside) /\ in_flight = Cardinality(Inside)
  /\ \A p \in Inside : sealed /\ calls[p].slot \in Live
  /\ \A p \in Producers \ Inside : calls[p].at = "away"

(* The synchronous backend retains nothing but frames, below a producer's  *)
(* call; the others run one task at a time, inside a drain.                *)
FramesHaveAnOwner ==
  /\ Synchronous => /\ Pending = {} /\ ~Queued
                    /\ stack # <<>> => Caller # {}
  /\ \A i \in DOMAIN stack : stack[i].active \/ stack[i].repeats > 0
  /\ ~Synchronous => /\ \A i \in DOMAIN stack : stack[i].repeats = 0
                     /\ stack # <<>> => drain.at = "draining"

NothingBeforeSeal ==
  ~sealed => /\ stack = <<>> /\ Pending = {}
             /\ drain.at = "none" /\ idle = {}

(* A producer whose offer was taken, or is running, and that has still to  *)
(* count the activity.                                                     *)
Caught ==
  \E p \in Producers : \/ calls[p].at = "running"
                       \/ calls[p].at = "offered" /\ Invalidates(calls[p].result)
Vouched == Retained = {} \/ Caught

(* The epochs for which somebody has seen, or will claim, that the         *)
(* scheduler was empty: as long as the epoch is the current one, what is   *)
(* retained now has a producer that has still to advance it.               *)
Late == drain.at \in {"draining", "done", "closing"}
Vouching == idle \cup {e \in {drain.activity} : Late /\ drain.quiet}
EvidenceHolds ==
  /\ drain.at # "none" => sealed /\ idle = {} /\ drain.activity <= activity
  /\ \A e \in idle : e <= activity
  /\ activity \in Vouching => Vouched

HandlesAreUnique ==
  \A h \in handles :
    /\ h.generation <= slots[h.slot].generation
    /\ h.generation = slots[h.slot].generation => slots[h.slot].target = h.task

MaintenanceInv ==
  /\ MaintenanceTypeOK /\ AcceptedWorkIsKept
  /\ CallsAreCounted /\ FramesHaveAnOwner /\ NothingBeforeSeal
  /\ EvidenceHolds /\ HandlesAreUnique
  /\ Retained \subseteq Live

-----------------------------------------------------------------------------
(* What the operations on queues and frames do to the slots they hold.     *)
LEMMA SameRetained ==
  ASSUME UNCHANGED <<backend, stack>>
  PROVE  /\ Synchronous' = Synchronous /\ Queued' = Queued /\ Pending' = Pending
         /\ Framed' = Framed /\ Running' = Running /\ Retained' = Retained
  BY DEF Synchronous, Queued, Pending, Framed, Running, Retained

(* Frames are a function of the stack.                                     *)
LEMMA SameFrames ==
  ASSUME stack' = stack
  PROVE  Framed' = Framed /\ Running' = Running
  BY DEF Framed, Running

(* What is pending is a function of the backend.                           *)
LEMMA SamePending ==
  ASSUME backend' = backend
  PROVE  Synchronous' = Synchronous /\ Queued' = Queued /\ Pending' = Pending
  BY DEF Synchronous, Queued, Pending

(* An empty queue holds nothing.                                           *)
LEMMA EmptyToSet == ToSet(<<>>) = {}
  BY DEF ToSet

(* Released and the claim of a word move bits between its two halves. *)
LEMMA ReleasedKeeps ==
  ASSUME MaintenanceTypeOK, backend' = Released(backend)
  PROVE  /\ Pending' = Pending /\ backend'.claimed = {}
         /\ backend'.kind = backend.kind /\ backend'.queue = backend.queue
         /\ (Pending = {} /\ ~Queued => ~Queued')
         /\ backend' \in [kind : Kinds, queue : Seq(Slots), word : SUBSET Slots, claimed : SUBSET Slots]
  BY DEF MaintenanceTypeOK, Released, Pending, Queued

(* Claiming a dirty word moves its bits, and loses none.                   *)
LEMMA ClaimKeeps ==
  ASSUME MaintenanceTypeOK, backend.claimed = {},
         backend' = [backend EXCEPT !.claimed = backend.word, !.word = {}]
  PROVE  /\ Pending' = Pending /\ backend'.kind = backend.kind
         /\ backend' \in [kind : Kinds, queue : Seq(Slots), word : SUBSET Slots, claimed : SUBSET Slots]
  BY DEF MaintenanceTypeOK, Pending

(* An offer adds its slot to what is pending, unless it is refused. *)
LEMMA OfferKeeps ==
  ASSUME MaintenanceTypeOK, NEW s \in Slots, backend' = Offered(backend, s)
  PROVE  /\ Pending \subseteq Pending' /\ Pending' \subseteq Pending \cup {s}
         /\ Accepts(backend, s) => s \in Pending'
         /\ ~Accepts(backend, s) => backend' = backend
         /\ backend'.kind = backend.kind /\ backend'.claimed = backend.claimed
         /\ backend' \in [kind : Kinds, queue : Seq(Slots), word : SUBSET Slots, claimed : SUBSET Slots]
  <1>1. CASE backend.kind = "dirty"
    BY <1>1 DEF MaintenanceTypeOK, Offered, Accepts, Pending
  <1>2. CASE backend.kind # "dirty" /\ (~Accepts(backend, s) \/ Coalesces(backend, s))
    BY <1>2 DEF MaintenanceTypeOK, Offered, Accepts, Coalesces, Pending
  <1>3. CASE backend.kind # "dirty" /\ Accepts(backend, s) /\ ~Coalesces(backend, s)
    <2>1. backend' = [backend EXCEPT !.queue = Append(backend.queue, s)]
      BY <1>3 DEF Offered
    <2>2. backend.queue \in Seq(Slots) /\ backend'.queue = Append(backend.queue, s)
      BY <2>1 DEF MaintenanceTypeOK
    <2>3. ToSet(Append(backend.queue, s)) = ToSet(backend.queue) \cup {s}
      BY <2>2, AppendProperties DEF ToSet
    <2>4. /\ backend'.kind = backend.kind /\ backend'.word = backend.word
          /\ backend'.claimed = backend.claimed
          /\ backend' \in [kind : Kinds, queue : Seq(Slots), word : SUBSET Slots, claimed : SUBSET Slots]
      <3>1. Append(backend.queue, s) \in Seq(Slots)
        BY <2>2, AppendProperties
      <3> QED BY <2>1, <3>1 DEF MaintenanceTypeOK
    <2>5. Pending' = Pending \cup {s}
      BY <2>2, <2>3, <2>4 DEF Pending
    <2> QED BY <1>3, <2>4, <2>5
  <1> QED BY <1>1, <1>2, <1>3

(* What is taken to run was pending, and nothing else ceases to be. *)
LEMMA TakenKeeps ==
  ASSUME MaintenanceTypeOK, NEW s \in NextToRun, backend' = Taken(s)
  PROVE  /\ s \in Pending /\ s \in Slots
         /\ Pending \subseteq Pending' \cup {s} /\ Pending' \subseteq Pending
         /\ backend'.kind = backend.kind
         /\ backend' \in [kind : Kinds, queue : Seq(Slots), word : SUBSET Slots, claimed : SUBSET Slots]
  <1>1. CASE backend.kind = "dirty"
    BY <1>1 DEF MaintenanceTypeOK, NextToRun, Taken, Pending
  <1>2. CASE backend.kind # "dirty"
    <2> DEFINE q == backend.queue
    <2>1. q \in Seq(Slots) /\ q # <<>> /\ s = Head(q)
      BY <1>2 DEF MaintenanceTypeOK, NextToRun
    <2>2. /\ Tail(q) \in Seq(Slots) /\ Len(Tail(q)) = Len(q) - 1 /\ Len(q) \in Nat \ {0}
          /\ \A i \in 1 .. Len(Tail(q)) : Tail(q)[i] = q[i + 1]
          /\ Head(q) = q[1] /\ q[1] \in Slots
      BY <2>1, HeadTailProperties, LenProperties, ElementOfSeq
    <2>3. s \in ToSet(q) /\ ToSet(Tail(q)) \subseteq ToSet(q)
      BY <2>1, <2>2, SMT DEF ToSet
    <2>4. ToSet(q) \subseteq ToSet(Tail(q)) \cup {s}
      <3> SUFFICES ASSUME NEW i \in 1 .. Len(q), i # 1 PROVE q[i] \in ToSet(Tail(q))
        BY <2>1, <2>2 DEF ToSet
      <3> DEFINE j == i - 1
      <3>1. j \in 1 .. Len(Tail(q)) /\ i = j + 1
        BY <2>2
      <3>2. Tail(q)[j] = q[i] /\ j \in DOMAIN Tail(q)
        BY <2>2, <3>1, LenProperties
      <3> QED BY <3>2 DEF ToSet
    <2>5. backend' = [backend EXCEPT !.queue = Tail(q)]
      BY <1>2 DEF Taken
    <2> QED BY <2>1, <2>2, <2>3, <2>4, <2>5 DEF MaintenanceTypeOK, Pending
  <1> QED BY <1>1, <1>2

(* Frames: one is pushed, the top one is replaced or popped.               *)
LEMMA FramePushed ==
  ASSUME MaintenanceTypeOK, NEW f \in FrameRecord, stack' = Append(stack, f)
  PROVE  /\ stack' \in Seq(FrameRecord) /\ stack' # <<>>
         /\ Framed' = Framed \cup (IF f.repeats > 0 THEN {f.slot} ELSE {})
         /\ Running' = Running \cup (IF f.active THEN {f.slot} ELSE {})
         /\ \A i \in DOMAIN stack' : (i \in DOMAIN stack /\ stack'[i] = stack[i]) \/ stack'[i] = f
  <1>1. /\ stack \in Seq(FrameRecord) /\ stack' \in Seq(FrameRecord) /\ stack' # <<>>
        /\ DOMAIN stack = 1 .. Len(stack) /\ DOMAIN stack' = 1 .. Len(stack) + 1 /\ Len(stack) \in Nat
        /\ stack'[Len(stack) + 1] = f /\ \A i \in 1 .. Len(stack) : stack'[i] = stack[i]
    BY AppendProperties, LenProperties DEF MaintenanceTypeOK
  <1>2. Framed' = Framed \cup (IF f.repeats > 0 THEN {f.slot} ELSE {})
    BY <1>1 DEF Framed
  <1>3. Running' = Running \cup (IF f.active THEN {f.slot} ELSE {})
    BY <1>1 DEF Running
  <1> QED BY <1>1, <1>2, <1>3

(* Replacing the top frame changes the frames of its slot only.            *)
LEMMA TopReplaced ==
  ASSUME MaintenanceTypeOK, stack # <<>>, NEW f \in FrameRecord, f.slot = Top.slot, stack' = WithTop(f)
  PROVE  /\ stack' \in Seq(FrameRecord) /\ stack' # <<>> /\ Top.slot \in Slots
         /\ Framed \subseteq Framed' \cup {Top.slot}
         /\ Framed' \subseteq Framed \cup (IF f.repeats > 0 THEN {Top.slot} ELSE {})
         /\ f.repeats = Top.repeats => Framed' = Framed
         /\ Running' \subseteq Running \cup (IF f.active THEN {Top.slot} ELSE {})
         /\ \A i \in DOMAIN stack' : (i \in DOMAIN stack /\ stack'[i] = stack[i]) \/ stack'[i] = f
  <1> DEFINE n == Len(stack)
  <1>1. /\ stack \in Seq(FrameRecord) /\ n \in 1 .. n /\ DOMAIN stack = 1 .. n
        /\ Top = stack[n] /\ Top \in FrameRecord
    BY LenProperties, EmptySeq, ElementOfSeq DEF MaintenanceTypeOK, Top, Last
  <1>2. /\ stack' \in Seq(FrameRecord) /\ stack' # <<>> /\ DOMAIN stack' = 1 .. n /\ stack'[n] = f
        /\ \A i \in 1 .. n : i # n => stack'[i] = stack[i]
    BY <1>1, ExceptSeq, LenProperties DEF WithTop
  <1>3. Framed \subseteq Framed' \cup {Top.slot} /\ (f.repeats = Top.repeats => Framed' = Framed)
        /\ Framed' \subseteq Framed \cup (IF f.repeats > 0 THEN {Top.slot} ELSE {})
    BY <1>1, <1>2 DEF Framed
  <1>4. Running' \subseteq Running \cup (IF f.active THEN {Top.slot} ELSE {})
    <2> SUFFICES ASSUME NEW i \in 1 .. n, stack'[i].active
                 PROVE  stack'[i].slot \in Running \cup (IF f.active THEN {Top.slot} ELSE {})
      BY <1>2 DEF Running
    <2>1. CASE i = n
      BY <1>2, <2>1
    <2>2. CASE i # n
      BY <1>1, <1>2, <2>2 DEF Running
    <2> QED BY <2>1, <2>2
  <1> QED BY <1>1, <1>2, <1>3, <1>4 DEF FrameRecord

(* Popping the top frame gives up what that frame repeats, and nothing     *)
(* else.                                                                   *)
LEMMA TopPopped ==
  ASSUME MaintenanceTypeOK, stack # <<>>, stack' = Front(stack)
  PROVE  /\ stack' \in Seq(FrameRecord) /\ Len(stack') = Len(stack) - 1 /\ Top.slot \in Slots
         /\ Framed' \subseteq Framed /\ Framed \subseteq Framed' \cup (IF Top.repeats > 0 THEN {Top.slot} ELSE {})
         /\ Running' \subseteq Running
         /\ \A i \in DOMAIN stack' : i \in DOMAIN stack /\ stack'[i] = stack[i]
  <1> DEFINE n == Len(stack)
  <1>1. /\ stack \in Seq(FrameRecord) /\ n \in Nat /\ n >= 1 /\ DOMAIN stack = 1 .. n
        /\ Top = stack[n] /\ Top \in FrameRecord
    BY LenProperties, EmptySeq, ElementOfSeq DEF MaintenanceTypeOK, Top, Last
  <1>2. /\ stack' \in Seq(FrameRecord) /\ DOMAIN stack' = 1 .. n - 1 /\ Len(stack') = n - 1
        /\ \A i \in 1 .. n - 1 : stack'[i] = stack[i]
    BY <1>1, SubSeqProperties, LenProperties DEF Front
  <1>3. Framed' \subseteq Framed /\ Framed \subseteq Framed' \cup (IF Top.repeats > 0 THEN {Top.slot} ELSE {})
    BY <1>1, <1>2 DEF Framed
  <1>4. Running' \subseteq Running
    BY <1>1, <1>2 DEF Running
  <1> QED BY <1>1, <1>2, <1>3, <1>4 DEF FrameRecord

(* A request adds a frame for its slot, or a repeat to the one it has. *)
LEMMA RequestKeeps ==
  ASSUME MaintenanceTypeOK, NEW s \in Slots, stack' = Requested(s)
  PROVE  /\ stack' \in Seq(FrameRecord) /\ stack' # <<>>
         /\ Framed' = Framed \cup {s} /\ Running' = Running
         /\ \A i \in DOMAIN stack' : stack'[i].repeats > 0 \/ (i \in DOMAIN stack /\ stack'[i] = stack[i])
  <1>1. CASE FrameOf(s) = {}
    <2>1. Frame(s) \in FrameRecord /\ Frame(s).repeats = 1 /\ ~Frame(s).active /\ Frame(s).slot = s
      BY DEF Frame, FrameRecord
    <2>2. stack' = Append(stack, Frame(s))
      BY <1>1 DEF Requested
    <2>3. Framed' = Framed \cup {s} /\ Running' = Running
      <3> DEFINE f == Frame(s)
      <3>1. f \in FrameRecord /\ f.repeats = 1 /\ ~f.active /\ f.slot = s /\ stack' = Append(stack, f)
        BY <2>1, <2>2
      <3> HIDE DEF f
      <3>2. /\ Framed' = Framed \cup (IF f.repeats > 0 THEN {f.slot} ELSE {})
            /\ Running' = Running \cup (IF f.active THEN {f.slot} ELSE {})
        BY <3>1, FramePushed
      <3> QED BY <3>1, <3>2
    <2>4. /\ stack' \in Seq(FrameRecord) /\ stack' # <<>>
          /\ \A i \in DOMAIN stack' : (i \in DOMAIN stack /\ stack'[i] = stack[i]) \/ stack'[i] = Frame(s)
      BY <2>1, <2>2, FramePushed
    <2> QED BY <2>1, <2>3, <2>4
  <1>2. CASE FrameOf(s) # {}
    <2> DEFINE n == Len(stack)
               F(i) == IF i \in FrameOf(s) THEN [stack[i] EXCEPT !.repeats = @ + 1] ELSE stack[i]
    <2>1. stack \in Seq(FrameRecord) /\ n \in Nat /\ DOMAIN stack = 1 .. n
          /\ \A i \in 1 .. n : stack[i] \in FrameRecord
      BY LenProperties, ElementOfSeq DEF MaintenanceTypeOK
    <2>2. stack' = [i \in 1 .. n |-> F(i)]
      BY <1>2, <2>1 DEF Requested
    <2>3. ASSUME NEW i \in 1 .. n
          PROVE  /\ stack'[i] = F(i) /\ F(i) \in FrameRecord /\ F(i).slot = stack[i].slot /\ F(i).active = stack[i].active
                 /\ i \in FrameOf(s) => F(i).repeats > 0
                 /\ i \notin FrameOf(s) => F(i) = stack[i]
      BY <2>1, <2>2 DEF FrameRecord
    <2>4. DOMAIN stack' = 1 .. n /\ stack' \in Seq(FrameRecord)
      BY <2>1, <2>2, <2>3, IsASeq
    <2> HIDE DEF F
    <2>5. FrameOf(s) = {i \in 1 .. n : stack[i].slot = s}
      BY <2>1 DEF FrameOf
    <2>6. Framed' = Framed \cup {s}
      BY <1>2, <2>1, <2>3, <2>4, <2>5 DEF Framed
    <2>7. Running' = Running
      BY <2>1, <2>3, <2>4 DEF Running
    <2>8. stack' # <<>>
      BY <1>2, <2>1, <2>4 DEF FrameOf
    <2> QED BY <2>1, <2>3, <2>4, <2>6, <2>7, <2>8
  <1> QED BY <1>1, <1>2

(* An empty stack and an untouched queue retain nothing. *)
LEMMA NoFrames ==
  ASSUME stack = <<>>
  PROVE  Framed = {} /\ Running = {}
  BY DEF Framed, Running

(* With no frame, no entry and no claimed bit, nothing is retained.        *)
LEMMA NothingRetained ==
  ASSUME stack = <<>>, ~Queued, backend.claimed = {}
  PROVE  Retained = {}
  BY NoFrames, EmptyToSet DEF Queued, Pending, Retained

(* The top frame, when there is one. *)
LEMMA TopFrame ==
  ASSUME MaintenanceTypeOK, stack # <<>>
  PROVE  /\ Len(stack) \in Nat \ {0} /\ DOMAIN stack = 1 .. Len(stack)
         /\ Top = stack[Len(stack)] /\ Top \in FrameRecord
  BY LenProperties, EmptySeq, ElementOfSeq DEF MaintenanceTypeOK, Top, Last

-----------------------------------------------------------------------------
(* What the actions that move work do to it.                               *)
LEMMA OfferMoves ==
  ASSUME MaintenanceInv, NEW p \in Producers, Offer(p)
  PROVE  /\ calls[p].slot \in Live /\ Synchronous' = Synchronous
         /\ backend' \in [kind : Kinds, queue : Seq(Slots), word : SUBSET Slots, claimed : SUBSET Slots]
         /\ backend'.claimed = backend.claimed
         /\ stack' \in Seq(FrameRecord) /\ calls' \in [Producers -> Call]
         /\ owed' \subseteq Slots /\ owed' \subseteq Pending' \cup Framed'
         /\ Retained' \subseteq Retained \cup {calls[p].slot}
         /\ calls'[p].at # "entered" /\ calls'[p].slot = calls[p].slot
         /\ \A q \in Producers : q # p => calls'[q] = calls[q]
         /\ Synchronous => calls'[p].at = "running" /\ UNCHANGED backend
         /\ ~Synchronous => UNCHANGED stack /\ calls'[p].at = "offered"
         /\ (Vouched => Vouched') /\ calls'[p] # Away
         /\ \A i \in DOMAIN stack' : stack'[i].repeats > 0 \/ (i \in DOMAIN stack /\ stack'[i] = stack[i])
  <1> DEFINE s == calls[p].slot
  <1>1. MaintenanceTypeOK /\ owed \subseteq Pending \cup Framed /\ calls[p].at = "entered"
    BY DEF MaintenanceInv, AcceptedWorkIsKept, Offer
  <1>2. s \in Live /\ s \in Slots
    BY <1>1 DEF MaintenanceInv, CallsAreCounted, Inside, Live, Away
  <1>3. calls \in [Producers -> Call] /\ owed \subseteq Slots
    BY <1>1 DEF MaintenanceTypeOK
  <1>4. CASE Synchronous
    <2>1. stack' = Requested(s) /\ owed' = owed \cup {s} /\ backend' = backend
          /\ calls' = [calls EXCEPT ![p].at = "running"]
      BY <1>4 DEF Offer
    <2>2. /\ stack' \in Seq(FrameRecord) /\ Framed' = Framed \cup {s} /\ Running' = Running
          /\ \A i \in DOMAIN stack' : stack'[i].repeats > 0 \/ (i \in DOMAIN stack /\ stack'[i] = stack[i])
      BY <1>1, <1>2, <2>1, RequestKeeps
    <2>3. Pending' = Pending /\ Synchronous' = Synchronous
      BY <2>1, SamePending
    <2>4. /\ calls' \in [Producers -> Call] /\ calls'[p].at = "running" /\ calls'[p].slot = s
          /\ \A q \in Producers : q # p => calls'[q] = calls[q]
      BY <1>3, <2>1 DEF Call
    <2>5. Vouched' /\ calls'[p] # Away
      BY <2>4 DEF Vouched, Caught, Away
    <2>6. Retained' \subseteq Retained \cup {s} /\ owed' \subseteq Pending' \cup Framed'
      BY <1>1, <2>1, <2>2, <2>3 DEF Retained
    <2>7. backend \in [kind : Kinds, queue : Seq(Slots), word : SUBSET Slots, claimed : SUBSET Slots]
      BY <1>1 DEF MaintenanceTypeOK
    <2> QED BY <1>2, <1>3, <1>4, <2>1, <2>2, <2>3, <2>4, <2>5, <2>6, <2>7
  <1>5. CASE ~Synchronous
    <2> DEFINE result == IF Accepts(backend, s) THEN "Accepted" ELSE "CapacityExhausted"
    <2>1. /\ backend' = Offered(backend, s) /\ stack' = stack
          /\ owed' = IF Accepts(backend, s) THEN owed \cup {s} ELSE owed
          /\ calls' = [calls EXCEPT ![p].at = "offered", ![p].result = result]
      BY <1>5 DEF Offer
    <2>2. /\ Pending \subseteq Pending' /\ Pending' \subseteq Pending \cup {s}
          /\ Accepts(backend, s) => s \in Pending'
          /\ ~Accepts(backend, s) => backend' = backend
          /\ backend'.kind = backend.kind /\ backend'.claimed = backend.claimed
          /\ backend' \in [kind : Kinds, queue : Seq(Slots), word : SUBSET Slots, claimed : SUBSET Slots]
      BY <1>1, <1>2, <2>1, OfferKeeps
    <2>3. Framed' = Framed /\ Running' = Running
      BY <2>1, SameFrames
    <2>4. /\ calls' \in [Producers -> Call] /\ calls'[p].at = "offered" /\ calls'[p].slot = s
          /\ calls'[p].result = result
          /\ \A q \in Producers : q # p => calls'[q] = calls[q]
      BY <1>3, <2>1 DEF Call
    <2>5. Retained' \subseteq Retained \cup {s} /\ owed' \subseteq Pending' \cup Framed'
      BY <1>1, <2>1, <2>2, <2>3 DEF Retained
    <2>6. Vouched => Vouched'
      <3>1. CASE Accepts(backend, s)
        BY <2>4, <3>1 DEF Vouched, Caught, Invalidates
      <3>2. CASE ~Accepts(backend, s)
        <4>1. Retained' = Retained
          BY <2>1, <2>2, <3>2, SameRetained
        <4>2. Caught => Caught'
          BY <1>1, <2>4 DEF Caught
        <4> QED BY <4>1, <4>2 DEF Vouched
      <3> QED BY <3>1, <3>2
    <2>7. calls'[p] # Away /\ Synchronous' = Synchronous
      BY <2>2, <2>4 DEF Away, Synchronous
    <2>8. stack \in Seq(FrameRecord) /\ owed' \subseteq Slots
      BY <1>1, <1>2, <1>3, <2>1 DEF MaintenanceTypeOK
    <2> QED BY <1>2, <1>5, <2>1, <2>2, <2>4, <2>5, <2>6, <2>7, <2>8
  <1> QED BY <1>4, <1>5

-----------------------------------------------------------------------------
(* What every step does for the work that is retained: none is lost, each  *)
(* frame has an owner, no released slot holds any, and whoever vouched for *)
(* the present epoch still does.                                           *)
KeepsWork ==
  /\ AcceptedWorkIsKept' /\ FramesHaveAnOwner' /\ (Retained \subseteq Live)'
  /\ activity' >= activity
  /\ activity' = activity /\ Vouched => Vouched'

(* try_schedule, at the offer to the backend.                              *)
LEMMA OfferKeepsWork ==
  ASSUME MaintenanceInv, NEW p \in Producers, Offer(p)
  PROVE  KeepsWork
  <1>1. /\ MaintenanceTypeOK /\ (drain.at # "draining" => backend.claimed = {}) /\ Retained \subseteq Live
        /\ FramesHaveAnOwner
    BY DEF MaintenanceInv, AcceptedWorkIsKept
  <1>2. UNCHANGED <<slots, handles, sealed, in_flight, activity, idle, drain>>
    BY DEF Offer
  <1>3. Live' = Live
    BY <1>2 DEF Live
  <1>4. (Retained \subseteq Live)'
    BY <1>1, <1>3, OfferMoves
  <1>5. MaintenanceTypeOK' /\ activity' >= activity
    BY <1>1, <1>2, OfferMoves DEF MaintenanceTypeOK
  <1>6. AcceptedWorkIsKept'
    BY <1>1, <1>2, <1>5, OfferMoves DEF AcceptedWorkIsKept
  <1>7. FramesHaveAnOwner'
    <2>1. CASE Synchronous
      <3>1. Pending' = Pending /\ Queued' = Queued /\ Synchronous' /\ p \in Caller'
        BY <2>1, OfferMoves, SamePending DEF Caller
      <3>2. \A i \in DOMAIN stack' : stack'[i].active \/ stack'[i].repeats > 0
        BY <1>1, OfferMoves DEF FramesHaveAnOwner
      <3> QED BY <1>1, <2>1, <3>1, <3>2 DEF FramesHaveAnOwner
    <2>2. CASE ~Synchronous
      BY <1>1, <1>2, <2>2, OfferMoves DEF FramesHaveAnOwner
    <2> QED BY <2>1, <2>2
  <1> QED BY <1>4, <1>5, <1>6, <1>7, OfferMoves DEF KeepsWork

(* A running continuation that schedules a task.                           *)
LEMMA NestedOfferKeepsWork ==
  ASSUME MaintenanceInv, NEW s \in Live, NestedOffer(s)
  PROVE  KeepsWork
  <1>1. /\ MaintenanceTypeOK /\ owed \subseteq Pending \cup Framed /\ FramesHaveAnOwner
        /\ (drain.at # "draining" => backend.claimed = {}) /\ Retained \subseteq Live
    BY DEF MaintenanceInv, AcceptedWorkIsKept
  <1>2. /\ UNCHANGED <<slots, handles, sealed, calls, in_flight, drain>>
        /\ stack # <<>> /\ Top.active
    BY DEF NestedOffer, Underway
  <1>3. Live' = Live /\ Caller' = Caller /\ (Caught <=> Caught') /\ s \in Slots
    BY <1>2 DEF Live, Caller, Caught
  <1>4. activity \in Nat /\ idle \subseteq Nat /\ owed \subseteq Slots
    BY <1>1 DEF MaintenanceTypeOK
  <1>5. CASE Synchronous
    <2>1. /\ stack' = Requested(s) /\ owed' = owed \cup {s} /\ backend' = backend
          /\ activity' = IF FrameOf(s) = {} THEN activity ELSE activity + 1
          /\ idle' = IF FrameOf(s) = {} THEN idle ELSE {}
      BY <1>5 DEF NestedOffer
    <2>2. /\ stack' \in Seq(FrameRecord) /\ Framed' = Framed \cup {s} /\ Running' = Running
          /\ \A i \in DOMAIN stack' : stack'[i].repeats > 0 \/ (i \in DOMAIN stack /\ stack'[i] = stack[i])
      BY <1>1, <1>3, <2>1, RequestKeeps
    <2>3. Pending' = Pending /\ Synchronous' = Synchronous /\ Queued' = Queued
      BY <2>1, SamePending
    <2>4. Caught'
      BY <1>1, <1>2, <1>3, <1>5 DEF FramesHaveAnOwner, Caller, Caught
    <2>5. MaintenanceTypeOK'
      BY <1>1, <1>2, <1>3, <1>4, <2>1, <2>2 DEF MaintenanceTypeOK
    <2>6. AcceptedWorkIsKept'
      BY <1>1, <1>2, <2>1, <2>2, <2>3, <2>5 DEF AcceptedWorkIsKept
    <2>7. (Retained \subseteq Live)'
      BY <1>1, <1>3, <2>2, <2>3 DEF Retained
    <2>8. FramesHaveAnOwner'
      <3>1. \A i \in DOMAIN stack' : stack'[i].active \/ stack'[i].repeats > 0
        BY <1>1, <2>2 DEF FramesHaveAnOwner
      <3> QED BY <1>1, <1>2, <1>3, <1>5, <2>3, <3>1 DEF FramesHaveAnOwner
    <2> QED BY <1>4, <2>1, <2>4, <2>6, <2>7, <2>8 DEF KeepsWork, Vouched
  <1>6. CASE ~Synchronous
    <2> DEFINE f == [Top EXCEPT !.scheduled = @ \/ Accepts(backend, s)]
    <2>1. /\ backend' = Offered(backend, s) /\ stack' = WithTop(f)
          /\ owed' = IF Accepts(backend, s) THEN owed \cup {s} ELSE owed
          /\ activity' = IF Accepts(backend, s) THEN activity + 1 ELSE activity
          /\ idle' = IF Accepts(backend, s) THEN {} ELSE idle
      BY <1>6 DEF NestedOffer
    <2>2. /\ Pending \subseteq Pending' /\ Pending' \subseteq Pending \cup {s}
          /\ Accepts(backend, s) => s \in Pending'
          /\ ~Accepts(backend, s) => backend' = backend
          /\ backend'.kind = backend.kind /\ backend'.claimed = backend.claimed
          /\ backend' \in [kind : Kinds, queue : Seq(Slots), word : SUBSET Slots, claimed : SUBSET Slots]
      BY <1>1, <1>3, <2>1, OfferKeeps
    <2>3. /\ f \in FrameRecord /\ f.slot = Top.slot /\ f.repeats = Top.repeats /\ f.active
          /\ Top.slot \in Running /\ Top.repeats = 0 /\ Accepts(backend, s) \in BOOLEAN
      <3>1. /\ Top \in FrameRecord /\ Len(stack) \in DOMAIN stack /\ Top = stack[Len(stack)]
        BY <1>1, <1>2, TopFrame
      <3>2. Accepts(backend, s) \in BOOLEAN
        BY DEF Accepts, Coalesces
      <3>3. f.slot = Top.slot /\ f.repeats = Top.repeats /\ f.active = Top.active
        BY <3>1 DEF FrameRecord
      <3>4. f \in FrameRecord
        BY <3>1, <3>2 DEF FrameRecord
      <3>5. Top.slot \in Running /\ Top.repeats = 0
        BY <1>1, <1>2, <1>6, <3>1 DEF Running, FramesHaveAnOwner
      <3> QED BY <1>2, <3>2, <3>3, <3>4, <3>5
    <2> HIDE DEF f
    <2>4. /\ stack' \in Seq(FrameRecord) /\ Framed' = Framed /\ Running' \subseteq Running
          /\ \A i \in DOMAIN stack' : (i \in DOMAIN stack /\ stack'[i] = stack[i]) \/ stack'[i] = f
      BY <1>1, <1>2, <2>1, <2>3, TopReplaced
    <2>5. Synchronous' = Synchronous
      BY <2>2 DEF Synchronous
    <2>6. MaintenanceTypeOK'
      <3>1. activity' \in Nat /\ idle' \subseteq Nat
        <4>1. CASE Accepts(backend, s)
          BY <1>4, <2>1, <4>1
        <4>2. CASE ~Accepts(backend, s)
          BY <1>4, <2>1, <4>2
        <4> QED BY <4>1, <4>2
      <3>2. owed' \subseteq Slots
        BY <1>3, <1>4, <2>1
      <3>3. stack' \in Seq(FrameRecord)
        BY <2>4
      <3>4. backend' \in [kind : Kinds, queue : Seq(Slots), word : SUBSET Slots, claimed : SUBSET Slots]
        BY <2>2
      <3> QED BY <1>1, <1>2, <3>1, <3>2, <3>3, <3>4 DEF MaintenanceTypeOK
    <2>7. AcceptedWorkIsKept'
      BY <1>1, <1>2, <2>1, <2>2, <2>4, <2>6 DEF AcceptedWorkIsKept
    <2>8. (Retained \subseteq Live)'
      BY <1>1, <1>3, <2>2, <2>4 DEF Retained
    <2>9. FramesHaveAnOwner'
      <3>1. \A i \in DOMAIN stack' : stack'[i].repeats = 0 /\ stack'[i].active
        BY <1>1, <1>6, <2>3, <2>4 DEF FramesHaveAnOwner
      <3> QED BY <1>1, <1>2, <1>6, <2>5, <3>1 DEF FramesHaveAnOwner
    <2>10. ~Accepts(backend, s) => Retained' \subseteq Retained
      BY <2>2, <2>4, SamePending DEF Retained
    <2> QED BY <1>3, <1>4, <2>1, <2>7, <2>8, <2>9, <2>10 DEF KeepsWork, Vouched
  <1> QED BY <1>5, <1>6

(* A drain takes its next task.                                            *)
LEMMA RunBeginsKeepsWork ==
  ASSUME MaintenanceInv, NEW s \in Slots, RunBegins(s)
  PROVE  KeepsWork
  <1> DEFINE f == [Frame(s) EXCEPT !.repeats = 0, !.active = TRUE]
  <1>1. /\ MaintenanceTypeOK /\ owed \subseteq Pending \cup Framed /\ FramesHaveAnOwner
        /\ Retained \subseteq Live /\ activity \in Nat /\ owed \subseteq Slots
    BY DEF MaintenanceInv, AcceptedWorkIsKept, MaintenanceTypeOK
  <1>2. /\ UNCHANGED <<slots, handles, sealed, calls, in_flight, activity, idle, drain>>
        /\ s \in NextToRun /\ backend' = Taken(s) /\ stack = <<>> /\ stack' = <<f>>
        /\ owed' = owed \ {s} /\ drain.at = "draining"
    BY DEF RunBegins
  <1>3. /\ s \in Pending
        /\ Pending \subseteq Pending' \cup {s} /\ Pending' \subseteq Pending
        /\ backend'.kind = backend.kind
        /\ backend' \in [kind : Kinds, queue : Seq(Slots), word : SUBSET Slots, claimed : SUBSET Slots]
    BY <1>1, <1>2, TakenKeeps
  <1>4. f \in FrameRecord /\ f.repeats = 0 /\ f.active /\ f.slot = s
    BY DEF Frame, FrameRecord
  <1> HIDE DEF f
  <1>5. Framed' = {} /\ Running' = {s} /\ stack' \in Seq(FrameRecord)
    BY <1>2, <1>4 DEF Framed, Running
  <1>6. Framed = {} /\ Running = {}
    BY <1>2, NoFrames
  <1>7. Live' = Live /\ (Caught <=> Caught') /\ Synchronous' = Synchronous
    BY <1>2, <1>3 DEF Live, Caught, Synchronous
  <1>8. Retained' \subseteq Retained
    BY <1>3, <1>5 DEF Retained
  <1>9. MaintenanceTypeOK'
    BY <1>1, <1>2, <1>3, <1>5 DEF MaintenanceTypeOK
  <1>10. AcceptedWorkIsKept'
    BY <1>1, <1>2, <1>3, <1>6, <1>9 DEF AcceptedWorkIsKept
  <1>11. ~Synchronous
    BY <1>1, <1>3 DEF FramesHaveAnOwner
  <1>12. FramesHaveAnOwner'
    BY <1>2, <1>4, <1>7, <1>11 DEF FramesHaveAnOwner
  <1> QED BY <1>1, <1>2, <1>7, <1>8, <1>10, <1>12 DEF KeepsWork, Vouched

(* Claim, and the end of a drain that has nothing more to run or to spend. *)
LEMMA DrainKeepsWork ==
  ASSUME MaintenanceInv, Claim \/ DrainCompletes
  PROVE  KeepsWork
  <1>1. /\ MaintenanceTypeOK /\ owed \subseteq Pending \cup Framed /\ FramesHaveAnOwner
        /\ Retained \subseteq Live /\ activity \in Nat
    BY DEF MaintenanceInv, AcceptedWorkIsKept, MaintenanceTypeOK
  <1>2. /\ UNCHANGED <<slots, handles, sealed, stack, calls, in_flight, activity, idle, owed>>
        /\ stack = <<>> /\ drain.at = "draining"
    BY DEF Claim, DrainCompletes
  <1>3. /\ Pending' = Pending /\ backend'.kind = backend.kind
        /\ backend' \in [kind : Kinds, queue : Seq(Slots), word : SUBSET Slots, claimed : SUBSET Slots]
        /\ backend'.claimed = {} \/ Claim
        /\ Synchronous /\ Pending = {} /\ ~Queued => ~Queued'
    <2>1. CASE Claim
      <3>1. /\ backend.claimed = {} /\ backend' = [backend EXCEPT !.claimed = backend.word, !.word = {}]
            /\ ~Synchronous
        BY <2>1 DEF Claim, Synchronous
      <3> QED BY <1>1, <2>1, <3>1, ClaimKeeps
    <2>2. CASE DrainCompletes
      BY <1>1, <2>2, ReleasedKeeps DEF DrainCompletes
    <2> QED BY <2>1, <2>2
  <1>4. drain' \in DrainRecord /\ (Claim => drain' = drain)
    BY <1>1 DEF MaintenanceTypeOK, DrainRecord, Claim, DrainCompletes
  <1>5. /\ Framed' = Framed /\ Running' = Running /\ Live' = Live /\ (Caught <=> Caught')
        /\ Synchronous' = Synchronous
    BY <1>2, <1>3, SameFrames DEF Live, Caught, Synchronous
  <1>6. Retained' = Retained
    BY <1>3, <1>5 DEF Retained
  <1>7. MaintenanceTypeOK'
    BY <1>1, <1>2, <1>3, <1>4 DEF MaintenanceTypeOK
  <1>8. AcceptedWorkIsKept'
    BY <1>1, <1>2, <1>3, <1>4, <1>5, <1>7 DEF AcceptedWorkIsKept
  <1>9. FramesHaveAnOwner'
    BY <1>1, <1>2, <1>3, <1>5 DEF FramesHaveAnOwner
  <1> QED BY <1>1, <1>2, <1>5, <1>6, <1>8, <1>9 DEF KeepsWork, Vouched

(* A synchronous frame begins another pass.                                *)
LEMMA FrameRunsKeepsWork ==
  ASSUME MaintenanceInv, FrameRuns
  PROVE  KeepsWork
  <1> DEFINE f == [Top EXCEPT !.repeats = @ - 1, !.active = TRUE]
  <1>1. /\ MaintenanceTypeOK /\ owed \subseteq Pending \cup Framed /\ FramesHaveAnOwner
        /\ (drain.at # "draining" => backend.claimed = {})
        /\ Retained \subseteq Live /\ activity \in Nat /\ owed \subseteq Slots
    BY DEF MaintenanceInv, AcceptedWorkIsKept, MaintenanceTypeOK
  <1>2. /\ UNCHANGED <<slots, handles, sealed, backend, calls, in_flight, activity, idle, drain>>
        /\ Synchronous /\ stack # <<>> /\ ~Top.active /\ stack' = WithTop(f)
        /\ owed' = owed \ {Top.slot}
    BY DEF FrameRuns
  <1>3. Top \in FrameRecord /\ Top.repeats > 0 /\ Top.slot \in Framed
    BY <1>1, <1>2, TopFrame DEF FramesHaveAnOwner, Framed
  <1>4. f \in FrameRecord /\ f.slot = Top.slot /\ f.active
    <2>1. Top.repeats \in Nat /\ Top.repeats - 1 \in Nat
      BY <1>3 DEF FrameRecord
    <2> DEFINE left == Top.repeats - 1
    <2>2. f = [Top EXCEPT !.repeats = left, !.active = TRUE] /\ left \in Nat
      BY <2>1
    <2> HIDE DEF f, left
    <2> QED BY <1>3, <2>2 DEF FrameRecord
  <1> HIDE DEF f
  <1>5. /\ stack' \in Seq(FrameRecord)
        /\ Framed \subseteq Framed' \cup {Top.slot} /\ Framed' \subseteq Framed \cup {Top.slot}
        /\ Running' \subseteq Running \cup {Top.slot}
        /\ \A i \in DOMAIN stack' : (i \in DOMAIN stack /\ stack'[i] = stack[i]) \/ stack'[i] = f
    BY <1>1, <1>2, <1>4, TopReplaced
  <1>6. /\ Pending' = Pending /\ Synchronous' = Synchronous /\ Queued' = Queued
        /\ Live' = Live /\ (Caught <=> Caught') /\ Caller' = Caller
    BY <1>2, SamePending DEF Live, Caught, Caller
  <1>7. Retained' \subseteq Retained
    BY <1>3, <1>5, <1>6 DEF Retained
  <1>8. MaintenanceTypeOK'
    BY <1>1, <1>2, <1>5 DEF MaintenanceTypeOK
  <1>9. AcceptedWorkIsKept'
    BY <1>1, <1>2, <1>5, <1>6, <1>8 DEF AcceptedWorkIsKept
  <1>10. FramesHaveAnOwner'
    <2>1. \A i \in DOMAIN stack' : stack'[i].active \/ stack'[i].repeats > 0
      BY <1>1, <1>4, <1>5 DEF FramesHaveAnOwner
    <2> QED BY <1>1, <1>2, <1>6, <2>1 DEF FramesHaveAnOwner
  <1> QED BY <1>1, <1>2, <1>6, <1>7, <1>9, <1>10 DEF KeepsWork, Vouched

(* A run that a drain began returns.                                       *)
LEMMA DrainedEndsKeepsWork ==
  ASSUME MaintenanceInv, NEW units \in {0, 1}, DrainedEnds(units)
  PROVE  KeepsWork
  <1>1. /\ MaintenanceTypeOK /\ owed \subseteq Pending \cup Framed /\ FramesHaveAnOwner
        /\ Retained \subseteq Live /\ activity \in Nat /\ drain \in DrainRecord
    BY DEF MaintenanceInv, AcceptedWorkIsKept, MaintenanceTypeOK
  <1>2. /\ UNCHANGED <<slots, handles, sealed, calls, in_flight, activity, idle, owed>>
        /\ ~Synchronous /\ stack # <<>> /\ stack' = <<>>
        /\ backend' = IF Stalls(units) THEN Released(backend) ELSE backend
        /\ drain' = IF Stalls(units) THEN [drain EXCEPT !.at = "done", !.completed = FALSE]
                    ELSE [drain EXCEPT !.budget = IF @ = Unbounded THEN @ ELSE @ - units]
    BY DEF DrainedEnds, Underway
  <1>3. /\ Pending' = Pending /\ backend'.kind = backend.kind
        /\ backend' \in [kind : Kinds, queue : Seq(Slots), word : SUBSET Slots, claimed : SUBSET Slots]
        /\ Stalls(units) => backend'.claimed = {}
    <2>1. CASE Stalls(units)
      BY <1>1, <1>2, <2>1, ReleasedKeeps
    <2>2. CASE ~Stalls(units)
      BY <1>1, <1>2, <2>2, SamePending DEF MaintenanceTypeOK
    <2> QED BY <2>1, <2>2
  <1>4. drain' \in DrainRecord /\ (~Stalls(units) => drain'.at = drain.at)
    <2>1. CASE Stalls(units)
      BY <1>1, <1>2, <2>1 DEF DrainRecord
    <2>2. CASE ~Stalls(units)
      <3> DEFINE left == IF drain.budget = Unbounded THEN Unbounded ELSE drain.budget - units
      <3>1. drain' = [drain EXCEPT !.budget = left]
        BY <1>2, <2>2
      <3>2. left \in Int
        BY <1>1 DEF DrainRecord, Unbounded
      <3> HIDE DEF left
      <3> QED BY <1>1, <2>2, <3>1, <3>2 DEF DrainRecord
    <2> QED BY <2>1, <2>2
  <1>5. Framed = {} /\ drain.at = "draining"
    BY <1>1, <1>2 DEF Framed, FramesHaveAnOwner
  <1>6. /\ Framed' = {} /\ Running' = {} /\ Live' = Live /\ (Caught <=> Caught')
        /\ Synchronous' = Synchronous
    BY <1>2, <1>3 DEF Framed, Running, Live, Caught, Synchronous
  <1>7. Retained' \subseteq Retained
    BY <1>3, <1>6 DEF Retained
  <1>8. MaintenanceTypeOK'
    BY <1>1, <1>2, <1>3, <1>4 DEF MaintenanceTypeOK
  <1>9. AcceptedWorkIsKept'
    BY <1>1, <1>2, <1>3, <1>4, <1>5, <1>6, <1>8 DEF AcceptedWorkIsKept
  <1>10. FramesHaveAnOwner'
    BY <1>2, <1>6 DEF FramesHaveAnOwner
  <1> QED BY <1>1, <1>2, <1>6, <1>7, <1>9, <1>10 DEF KeepsWork, Vouched

(* A run that a producer began returns.                                    *)
LEMMA FrameEndsKeepsWork ==
  ASSUME MaintenanceInv, NEW units \in {0, 1}, FrameEnds(units)
  PROVE  KeepsWork
  <1> DEFINE abandoned == Top.repeats > 0 /\ units = 0
             returns == Top.repeats = 0 \/ abandoned
             outermost == returns /\ Len(stack) = 1
             f == [Top EXCEPT !.active = FALSE]
  <1>1. /\ MaintenanceTypeOK /\ owed \subseteq Pending \cup Framed /\ FramesHaveAnOwner
        /\ (drain.at # "draining" => backend.claimed = {})
        /\ Retained \subseteq Live /\ activity \in Nat /\ idle \subseteq Nat /\ owed \subseteq Slots
        /\ calls \in [Producers -> Call]
    BY DEF MaintenanceInv, AcceptedWorkIsKept, MaintenanceTypeOK
  <1>2. /\ UNCHANGED <<slots, handles, sealed, backend, in_flight, drain>>
        /\ Synchronous /\ stack # <<>> /\ Top.active
        /\ stack' = IF returns THEN Front(stack) ELSE WithTop(f)
        /\ owed' = IF abandoned THEN owed \ {Top.slot} ELSE owed
        /\ activity' = IF returns /\ ~outermost THEN activity + 1 ELSE activity
        /\ idle' = IF returns /\ ~outermost THEN {} ELSE idle
    BY DEF FrameEnds, Underway
  <1>3. calls' = IF outermost
                 THEN [p \in Producers |->
                         IF p \in Caller
                         THEN [calls[p] EXCEPT !.at = "offered",
                                 !.result = IF abandoned THEN "Stalled" ELSE "Accepted"]
                         ELSE calls[p]]
                 ELSE calls
    BY DEF FrameEnds
  <1>4. /\ Len(stack) \in Nat \ {0} /\ DOMAIN stack = 1 .. Len(stack)
        /\ Top \in FrameRecord /\ Top.repeats \in Nat /\ Top.slot \in Slots
    BY <1>1, <1>2, TopFrame DEF FrameRecord
  <1>5. f \in FrameRecord /\ f.slot = Top.slot /\ f.repeats = Top.repeats /\ ~f.active
    BY <1>4 DEF FrameRecord
  <1>6. /\ stack' \in Seq(FrameRecord) /\ Framed' \subseteq Framed /\ Running' \subseteq Running
        /\ Framed \subseteq Framed' \cup (IF abandoned THEN {Top.slot} ELSE {})
        /\ \A i \in DOMAIN stack' : stack'[i].active \/ stack'[i].repeats > 0
        /\ outermost => stack' = <<>>
    <2>1. CASE returns
      <3>1. /\ stack' \in Seq(FrameRecord) /\ Len(stack') = Len(stack) - 1
            /\ Framed' \subseteq Framed /\ Framed \subseteq Framed' \cup (IF Top.repeats > 0 THEN {Top.slot} ELSE {})
            /\ Running' \subseteq Running
            /\ \A i \in DOMAIN stack' : i \in DOMAIN stack /\ stack'[i] = stack[i]
        BY <1>1, <1>2, <2>1, TopPopped
      <3>2. outermost => stack' = <<>>
        BY <3>1, EmptySeq
      <3>3. \A i \in DOMAIN stack' : stack'[i].active \/ stack'[i].repeats > 0
        BY <1>1, <3>1 DEF FramesHaveAnOwner
      <3>4. Top.repeats > 0 => abandoned
        BY <1>4, <2>1
      <3> QED BY <3>1, <3>2, <3>3, <3>4
    <2>2. CASE ~returns
      <3> HIDE DEF f
      <3>1. /\ stack' \in Seq(FrameRecord) /\ Framed' = Framed
            /\ Running' \subseteq Running \cup (IF f.active THEN {Top.slot} ELSE {})
            /\ \A i \in DOMAIN stack' : (i \in DOMAIN stack /\ stack'[i] = stack[i]) \/ stack'[i] = f
        BY <1>1, <1>2, <1>5, <2>2, TopReplaced
      <3>2. f.repeats > 0
        BY <1>4, <1>5, <2>2
      <3>3. \A i \in DOMAIN stack' : stack'[i].active \/ stack'[i].repeats > 0
        BY <1>1, <3>1, <3>2 DEF FramesHaveAnOwner
      <3> QED BY <1>5, <2>2, <3>1, <3>3
    <2> QED BY <2>1, <2>2
  <1>7. calls' \in [Producers -> Call]
    BY <1>1, <1>3 DEF Call
  <1>8. Caught' /\ (~outermost => Caller' = Caller /\ Caller # {})
    <2>1. PICK p \in Producers : calls[p].at = "running"
      BY <1>1, <1>2 DEF FramesHaveAnOwner, Caller
    <2>2. CASE outermost
      <3>1. calls'[p].at = "offered" /\ calls'[p].result \in {"Stalled", "Accepted"}
        BY <1>1, <1>3, <2>1, <2>2 DEF Caller, Call
      <3> QED BY <2>2, <3>1 DEF Caught, Invalidates
    <2>3. CASE ~outermost
      BY <1>3, <2>1, <2>3 DEF Caught, Caller
    <2> QED BY <2>2, <2>3
  <1> HIDE DEF abandoned, returns, outermost, f
  <1>9. /\ Pending' = Pending /\ Synchronous' = Synchronous /\ Queued' = Queued /\ Live' = Live
    BY <1>2, SamePending DEF Live
  <1>10. (Retained \subseteq Live)'
    BY <1>1, <1>6, <1>9 DEF Retained
  <1>11. MaintenanceTypeOK'
    <2>1. activity' \in Nat /\ idle' \subseteq Nat
      <3>1. CASE returns /\ ~outermost
        BY <1>1, <1>2, <3>1
      <3>2. CASE ~(returns /\ ~outermost)
        BY <1>1, <1>2, <3>2
      <3> QED BY <3>1, <3>2
    <2>2. owed' \subseteq Slots
      BY <1>1, <1>2
    <2>3. stack' \in Seq(FrameRecord)
      BY <1>6
    <2> QED BY <1>1, <1>2, <1>7, <2>1, <2>2, <2>3 DEF MaintenanceTypeOK
  <1>12. owed' \subseteq Pending' \cup Framed'
    BY <1>1, <1>2, <1>6, <1>9
  <1>13. AcceptedWorkIsKept'
    BY <1>1, <1>2, <1>11, <1>12 DEF AcceptedWorkIsKept
  <1>14. FramesHaveAnOwner'
    BY <1>1, <1>2, <1>6, <1>8, <1>9 DEF FramesHaveAnOwner
  <1>15. activity' >= activity
    BY <1>1, <1>2
  <1> QED BY <1>8, <1>10, <1>13, <1>14, <1>15 DEF KeepsWork, Vouched

(* A run throws out of its frames.                                         *)
LEMMA RunThrowsKeepsWork ==
  ASSUME MaintenanceInv, RunThrows
  PROVE  KeepsWork
  <1> DEFINE nested == IF Synchronous THEN Len(stack) - 1 ELSE 0
  <1>1. /\ MaintenanceTypeOK /\ owed \subseteq Pending \cup Framed /\ FramesHaveAnOwner
        /\ Retained \subseteq Live /\ activity \in Nat /\ idle \subseteq Nat /\ owed \subseteq Slots
        /\ calls \in [Producers -> Call] /\ drain \in DrainRecord
    BY DEF MaintenanceInv, AcceptedWorkIsKept, MaintenanceTypeOK
  <1>2. /\ UNCHANGED <<slots, handles, sealed, in_flight>>
        /\ stack # <<>> /\ stack' = <<>> /\ owed' = owed \ Framed /\ backend' = Released(backend)
        /\ drain' = IF Synchronous THEN drain ELSE NoDrain
        /\ activity' = activity + nested /\ idle' = IF nested > 0 THEN {} ELSE idle
    BY DEF RunThrows, Underway
  <1>3. calls' = [p \in Producers |->
                    IF p \in Caller THEN [calls[p] EXCEPT !.at = "offered", !.result = "Thrown"] ELSE calls[p]]
    BY DEF RunThrows
  <1>4. nested \in Nat
    BY <1>1, <1>2, TopFrame
  <1> HIDE DEF nested
  <1>5. /\ Pending' = Pending /\ backend'.claimed = {} /\ backend'.kind = backend.kind
        /\ (Pending = {} /\ ~Queued => ~Queued')
        /\ backend' \in [kind : Kinds, queue : Seq(Slots), word : SUBSET Slots, claimed : SUBSET Slots]
    BY <1>1, <1>2, ReleasedKeeps
  <1>6. /\ Framed' = {} /\ Running' = {} /\ Live' = Live /\ Synchronous' = Synchronous
    BY <1>2, <1>5 DEF Framed, Running, Live, Synchronous
  <1>7. calls' \in [Producers -> Call]
    BY <1>1, <1>3 DEF Call
  <1>8. Caught => Caught'
    <2> SUFFICES ASSUME NEW p \in Producers,
                        calls[p].at = "running" \/ (calls[p].at = "offered" /\ Invalidates(calls[p].result))
                 PROVE  Caught'
      BY DEF Caught
    <2>1. CASE calls[p].at = "running"
      <3>1. calls'[p].at = "offered" /\ calls'[p].result = "Thrown"
        BY <1>1, <1>3, <2>1 DEF Caller, Call
      <3> QED BY <3>1 DEF Caught, Invalidates
    <2>2. CASE calls[p].at # "running"
      <3>1. calls'[p] = calls[p]
        BY <1>3, <2>2 DEF Caller
      <3> QED BY <2>2, <3>1 DEF Caught
    <2> QED BY <2>1, <2>2
  <1>9. Retained' \subseteq Retained
    BY <1>5, <1>6 DEF Retained
  <1>10. MaintenanceTypeOK'
    <2>1. activity' \in Nat /\ owed' \subseteq Slots
      BY <1>1, <1>2, <1>4
    <2>4. idle' \subseteq Nat
      <3>1. CASE nested > 0
        BY <1>2, <3>1
      <3>2. CASE ~(nested > 0)
        BY <1>1, <1>2, <3>2
      <3> QED BY <3>1, <3>2
    <2>2. drain' \in DrainRecord
      BY <1>1, <1>2 DEF DrainRecord, NoDrain
    <2>3. stack' \in Seq(FrameRecord)
      BY <1>2
    <2> QED BY <1>1, <1>2, <1>5, <1>7, <2>1, <2>2, <2>3, <2>4 DEF MaintenanceTypeOK
  <1>11. AcceptedWorkIsKept'
    BY <1>1, <1>2, <1>5, <1>6, <1>10 DEF AcceptedWorkIsKept
  <1>12. FramesHaveAnOwner'
    BY <1>1, <1>2, <1>5, <1>6 DEF FramesHaveAnOwner
  <1>13. activity' >= activity
    BY <1>1, <1>2, <1>4
  <1> QED BY <1>1, <1>6, <1>8, <1>9, <1>11, <1>12, <1>13 DEF KeepsWork, Vouched

-----------------------------------------------------------------------------
(* The actions that leave queues and frames as they are.                   *)
LEMMA QuietKeepsWork ==
  ASSUME MaintenanceInv, MaintenanceTypeOK', UNCHANGED <<backend, stack, owed>>,
         (Retained \subseteq Live)', Caller' = Caller, activity' >= activity,
         drain' = drain \/ drain.at # "draining",
         activity' = activity /\ Caught => Caught'
  PROVE  KeepsWork
  <1>1. /\ owed \subseteq Pending \cup Framed /\ FramesHaveAnOwner
        /\ (drain.at # "draining" => backend.claimed = {})
    BY DEF MaintenanceInv, AcceptedWorkIsKept
  <1>2. /\ Synchronous' = Synchronous /\ Queued' = Queued /\ Pending' = Pending
        /\ Framed' = Framed /\ Retained' = Retained
    BY SameRetained
  <1>3. AcceptedWorkIsKept'
    BY <1>1, <1>2 DEF AcceptedWorkIsKept
  <1>4. FramesHaveAnOwner'
    BY <1>1, <1>2 DEF FramesHaveAnOwner
  <1> QED BY <1>2, <1>3, <1>4 DEF KeepsWork, Vouched

(* Nothing is retained when a slot may be released: once the scheduler is  *)
(* sealed by the evidence of a drain, before because nothing was offered.  *)
LEMMA EvidenceIsEnough ==
  ASSUME MaintenanceInv, activity \in idle, Returned
  PROVE  Retained = {}
  <1>1. ~Caught
    BY DEF Returned, Caught, Away
  <1> QED BY <1>1 DEF MaintenanceInv, EvidenceHolds, Vouching, Vouched

(* release that is granted finds nothing retained and no producer inside.  *)
LEMMA ReleaseFindsNothing ==
  ASSUME MaintenanceInv, NEW h \in handles, TryRelease(h)
  PROVE  Retained = {} /\ Inside = {}
  <1>1. Returned /\ Inside = {} /\ (sealed => activity \in idle)
    BY DEF TryRelease, Exclusive, Returned, Inside, MayRelease
  <1>2. CASE sealed
    BY <1>1, <1>2, EvidenceIsEnough
  <1>3. CASE ~sealed
    BY <1>1, <1>3, NoFrames DEF MaintenanceInv, NothingBeforeSeal, Retained
  <1> QED BY <1>1, <1>2, <1>3

(* Registration, sealing and release.                                      *)
LEMMA SetupKeepsWork ==
  ASSUME MaintenanceInv,
         (\E t \in Tasks : RegisterTask(t)) \/ Seal \/ (\E h \in handles : TryRelease(h))
  PROVE  KeepsWork /\ HandlesAreUnique'
  <1> USE MaintenanceAssumption
  <1>1. /\ MaintenanceTypeOK /\ Retained \subseteq Live /\ HandlesAreUnique
        /\ slots \in [Slots -> [target : Tasks \cup {NoTask}, generation : Nat \ {0}]]
        /\ handles \subseteq [slot : Slots, generation : Nat \ {0}, task : Tasks]
        /\ activity \in Nat
    BY DEF MaintenanceInv, AcceptedWorkIsKept, MaintenanceTypeOK
  <1>2. /\ UNCHANGED <<backend, stack, calls, in_flight, activity, idle, drain, owed>>
        /\ sealed' \in BOOLEAN
    BY <1>1 DEF RegisterTask, Seal, TryRelease, MaintenanceTypeOK
  <1>3. Caller' = Caller /\ (Caught => Caught') /\ Retained' = Retained
    BY <1>2, SameRetained DEF Caller, Caught
  <1>4. /\ slots' \in [Slots -> [target : Tasks \cup {NoTask}, generation : Nat \ {0}]]
        /\ handles' \subseteq [slot : Slots, generation : Nat \ {0}, task : Tasks]
        /\ (Retained \subseteq Live)' /\ HandlesAreUnique'
    <2>1. ASSUME NEW t \in Tasks, RegisterTask(t)
          PROVE  <1>4!:
      <3>1. PICK s \in Slots \ Live :
              /\ slots' = [slots EXCEPT ![s].target = t]
              /\ handles' = handles \cup {[slot |-> s, generation |-> slots[s].generation, task |-> t]}
        BY <2>1 DEF RegisterTask, FirstFree
      <3>2. /\ slots' \in [Slots -> [target : Tasks \cup {NoTask}, generation : Nat \ {0}]]
            /\ handles' \subseteq [slot : Slots, generation : Nat \ {0}, task : Tasks]
            /\ \A r \in Slots : slots'[r].generation = slots[r].generation
            /\ \A r \in Slots : r # s => slots'[r].target = slots[r].target
            /\ slots'[s].target = t /\ slots[s].target = NoTask
        BY <1>1, <3>1 DEF Live
      <3>3. Live \subseteq Live'
        BY <1>1, <3>2 DEF Live, NoTask
      <3>4. HandlesAreUnique'
        <4> SUFFICES ASSUME NEW h \in handles'
                     PROVE  /\ h.generation <= slots'[h.slot].generation
                            /\ h.generation = slots'[h.slot].generation => slots'[h.slot].target = h.task
          BY DEF HandlesAreUnique
        <4>1. CASE h \in handles
          <5>1. /\ h.slot \in Slots /\ h.task \in Tasks
                /\ h.generation <= slots[h.slot].generation
                /\ h.generation = slots[h.slot].generation => slots[h.slot].target = h.task
            BY <1>1, <4>1 DEF HandlesAreUnique
          <5> QED BY <3>2, <5>1 DEF NoTask
        <4>2. CASE h = [slot |-> s, generation |-> slots[s].generation, task |-> t]
          <5>1. slots[s].generation \in Nat
            BY <1>1
          <5> QED BY <3>2, <4>2, <5>1
        <4> QED BY <3>1, <4>1, <4>2
      <3> QED BY <1>1, <1>3, <3>2, <3>3, <3>4
    <2>2. CASE Seal
      BY <1>1, <1>3, <2>2 DEF Seal, Live, HandlesAreUnique
    <2>3. ASSUME NEW h \in handles, TryRelease(h)
          PROVE  <1>4!:
      <3>1. /\ h.slot \in Slots /\ handles' = handles
            /\ slots' = [slots EXCEPT ![h.slot] = [target |-> NoTask, generation |-> @.generation + 1]]
        BY <1>1, <2>3 DEF TryRelease
      <3>2. /\ slots' \in [Slots -> [target : Tasks \cup {NoTask}, generation : Nat \ {0}]]
            /\ slots'[h.slot].generation = slots[h.slot].generation + 1
            /\ \A r \in Slots : r # h.slot => slots'[r] = slots[r]
            /\ slots[h.slot].generation \in Nat
        BY <1>1, <3>1
      <3>3. HandlesAreUnique'
        <4> SUFFICES ASSUME NEW g \in handles
                     PROVE  /\ g.generation <= slots'[g.slot].generation
                            /\ g.generation = slots'[g.slot].generation => slots'[g.slot].target = g.task
          BY <3>1 DEF HandlesAreUnique
        <4>1. /\ g.slot \in Slots /\ g.generation \in Nat
              /\ g.generation <= slots[g.slot].generation
              /\ g.generation = slots[g.slot].generation => slots[g.slot].target = g.task
          BY <1>1 DEF HandlesAreUnique
        <4> QED BY <3>2, <4>1
      <3>4. Retained = {}
        BY <2>3, ReleaseFindsNothing
      <3> QED BY <1>1, <1>3, <3>1, <3>2, <3>3, <3>4
    <2> QED BY <2>1, <2>2, <2>3
  <1>5. MaintenanceTypeOK'
    BY <1>1, <1>2, <1>4 DEF MaintenanceTypeOK
  <1> QED BY <1>1, <1>2, <1>3, <1>4, <1>5, QuietKeepsWork

(* A producer enters, counts its offer, or leaves. *)
LEMMA ProducerKeepsWork ==
  ASSUME MaintenanceInv, NEW p \in Producers,
         (\E h \in handles : Enter(p, h)) \/ Count(p) \/ Leave(p)
  PROVE  KeepsWork
  <1>1. /\ MaintenanceTypeOK /\ Retained \subseteq Live
        /\ calls \in [Producers -> Call] /\ in_flight \in Nat /\ activity \in Nat /\ idle \subseteq Nat
        /\ handles \subseteq [slot : Slots, generation : Nat \ {0}, task : Tasks]
    BY DEF MaintenanceInv, AcceptedWorkIsKept, MaintenanceTypeOK
  <1>2. UNCHANGED <<slots, handles, sealed, backend, stack, drain, owed>>
    BY DEF Enter, Count, Leave
  <1>3. Live' = Live /\ Retained' = Retained
    BY <1>2, SameRetained DEF Live
  <1>4. /\ calls' \in [Producers -> Call] /\ in_flight' \in Nat /\ activity' \in Nat /\ idle' \subseteq Nat
        /\ Caller' = Caller /\ activity' >= activity
        /\ activity' = activity /\ Caught => Caught'
    <2>1. ASSUME NEW h \in handles, Enter(p, h)
          PROVE  <1>4!:
      <3>1. /\ calls' = [calls EXCEPT ![p] = [at |-> "entered", slot |-> h.slot, result |-> "none"]]
            /\ in_flight' = in_flight + 1 /\ UNCHANGED <<activity, idle>>
            /\ calls[p].at = "away" /\ h.slot \in 0 .. Capacity
        BY <1>1, <2>1 DEF Enter, Away, Slots
      <3>2. calls' \in [Producers -> Call] /\ calls'[p].at = "entered"
        BY <1>1, <3>1 DEF Call
      <3>3. \A q \in Producers : q # p => calls'[q] = calls[q]
        BY <1>1, <3>1
      <3>4. Caller' = Caller /\ (Caught => Caught')
        BY <3>1, <3>2, <3>3 DEF Caller, Caught
      <3> QED BY <1>1, <3>1, <3>2, <3>4
    <2>2. CASE Count(p)
      <3>1. /\ calls' = [calls EXCEPT ![p].at = "counted"] /\ calls[p].at = "offered"
            /\ activity' = IF Invalidates(calls[p].result) THEN activity + 1 ELSE activity
            /\ UNCHANGED <<in_flight, idle>>
        BY <2>2 DEF Count
      <3>2. calls' \in [Producers -> Call] /\ calls'[p].at = "counted"
            /\ \A q \in Producers : q # p => calls'[q] = calls[q]
        BY <1>1, <3>1 DEF Call
      <3>3. Caller' = Caller
        BY <3>1, <3>2 DEF Caller
      <3>4. CASE Invalidates(calls[p].result)
        BY <1>1, <3>1, <3>2, <3>3, <3>4
      <3>5. CASE ~Invalidates(calls[p].result)
        <4>1. Caught => Caught'
          BY <3>1, <3>2, <3>5 DEF Caught
        <4> QED BY <1>1, <3>1, <3>2, <3>3, <3>5, <4>1
      <3> QED BY <3>4, <3>5
    <2>3. CASE Leave(p)
      <3>1. /\ calls' = [calls EXCEPT ![p] = Away] /\ calls[p].at = "counted"
            /\ in_flight' = in_flight - 1 /\ UNCHANGED activity
            /\ idle' = IF Invalidates(calls[p].result) THEN {} ELSE idle
        BY <2>3 DEF Leave
      <3>2. calls' \in [Producers -> Call] /\ calls'[p].at = "away"
            /\ \A q \in Producers : q # p => calls'[q] = calls[q]
        <4>1. Away \in Call /\ Away.at = "away"
          BY MaintenanceAssumption DEF Away, Call
        <4> QED BY <1>1, <3>1, <4>1
      <3>3. Caller' = Caller /\ (Caught => Caught')
        BY <3>1, <3>2 DEF Caller, Caught
      <3>4. p \in Inside /\ IsFiniteSet(Inside) /\ in_flight = Cardinality(Inside)
        BY <3>1 DEF Inside, Away, MaintenanceInv, CallsAreCounted
      <3>5. in_flight # 0
        BY <3>4, FS_EmptySet
      <3>6. idle' \subseteq Nat
        <4>1. CASE Invalidates(calls[p].result)
          BY <3>1, <4>1
        <4>2. CASE ~Invalidates(calls[p].result)
          BY <1>1, <3>1, <4>2
        <4> QED BY <4>1, <4>2
      <3> QED BY <1>1, <3>1, <3>2, <3>3, <3>5, <3>6
    <2> QED BY <2>1, <2>2, <2>3
  <1>5. MaintenanceTypeOK'
    BY <1>1, <1>2, <1>4 DEF MaintenanceTypeOK
  <1> QED BY <1>1, <1>2, <1>3, <1>4, <1>5, QuietKeepsWork

(* A drain begins, reads, or concludes. *)
LEMMA DrainReadsKeepWork ==
  ASSUME MaintenanceInv,
         \/ \E b \in DrainBudgets \cup {Unbounded} : BeginDrain(b)
         \/ ReadInFlight \/ ReadPending \/ ReadLeft \/ Conclude
  PROVE  KeepsWork
  <1>1. /\ MaintenanceTypeOK /\ Retained \subseteq Live
        /\ drain \in DrainRecord /\ activity \in Nat /\ idle \subseteq Nat
    BY DEF MaintenanceInv, AcceptedWorkIsKept, MaintenanceTypeOK
  <1>2. /\ UNCHANGED <<slots, handles, sealed, backend, stack, calls, in_flight, activity, owed>>
        /\ drain.at # "draining"
    BY DEF BeginDrain, ReadInFlight, ReadPending, ReadLeft, Conclude
  <1>3. Live' = Live /\ Retained' = Retained /\ Caller' = Caller /\ (Caught => Caught')
    BY <1>2, SameRetained DEF Live, Caller, Caught
  <1>4. NoDrain \in DrainRecord
    BY DEF NoDrain, DrainRecord
  <1>5. drain' \in DrainRecord
    <2>1. ASSUME NEW b \in DrainBudgets \cup {Unbounded}, BeginDrain(b)
          PROVE  drain' \in DrainRecord
      <3>1. b \in Int /\ drain' = [NoDrain EXCEPT !.at = "counting", !.activity = activity, !.budget = b]
        <4>1. b \in DrainBudgets \/ b = -1
          BY DEF Unbounded
        <4>2. b \in Int
          BY <4>1, MaintenanceAssumption
        <4> QED BY <2>1, <4>2 DEF BeginDrain
      <3> QED BY <1>1, <1>4, <3>1 DEF DrainRecord
    <2>2. CASE ReadInFlight
      BY <1>1, <2>2 DEF ReadInFlight, DrainRecord
    <2>3. CASE ReadPending
      <3>1. (drain.quiet /\ ~HasPending) \in BOOLEAN
        OBVIOUS
      <3> QED BY <1>1, <2>3, <3>1 DEF ReadPending, DrainRecord
    <2>4. CASE ReadLeft
      <3>1. HasPending \in BOOLEAN
        BY DEF HasPending, Queued
      <3> QED BY <1>1, <2>4, <3>1 DEF ReadLeft, DrainRecord
    <2>5. CASE Conclude
      BY <1>4, <2>5 DEF Conclude
    <2> QED BY <2>1, <2>2, <2>3, <2>4, <2>5
  <1>6. idle' \subseteq Nat
    <2>1. idle' \in {{}, {activity}, idle}
      BY DEF BeginDrain, ReadInFlight, ReadPending, ReadLeft, Conclude
    <2> QED BY <1>1, <2>1
  <1>7. MaintenanceTypeOK'
    BY <1>1, <1>2, <1>5, <1>6 DEF MaintenanceTypeOK
  <1> QED BY <1>1, <1>2, <1>3, <1>7, QuietKeepsWork

(* The steps of the scheduler in any number: the invariant does not need   *)
(* the bound on activity, and the adapter's steps are among these.         *)
MaintenanceStep ==
  \/ \E t \in Tasks : RegisterTask(t)
  \/ Seal
  \/ \E h \in handles : TryRelease(h)
  \/ \E p \in Producers : ProducerSteps(p)
  \/ \E b \in DrainBudgets \cup {Unbounded} : BeginDrain(b)
  \/ DrainSteps
  \/ \E h \in handles, p \in Producers : Enter(p, h)
  \/ \E s \in Live : NestedOffer(s)
  \/ \E units \in {0, 1} : RunEnds(units)
  \/ RunThrows

(* Every step keeps what was accepted.                                     *)
LEMMA StepKeepsWork ==
  ASSUME MaintenanceInv, MaintenanceStep
  PROVE  KeepsWork
  <1>1. CASE (\E t \in Tasks : RegisterTask(t)) \/ Seal \/ (\E h \in handles : TryRelease(h))
    BY <1>1, SetupKeepsWork
  <1>2. CASE \E p \in Producers : ProducerSteps(p)
    BY <1>2, OfferKeepsWork, ProducerKeepsWork DEF ProducerSteps
  <1>3. CASE \/ \E b \in DrainBudgets \cup {Unbounded} : BeginDrain(b)
             \/ ReadInFlight \/ ReadPending \/ ReadLeft \/ Conclude
    BY <1>3, DrainReadsKeepWork
  <1>4. CASE Claim \/ DrainCompletes
    BY <1>4, DrainKeepsWork
  <1>5. CASE \E s \in Slots : RunBegins(s)
    BY <1>5, RunBeginsKeepsWork
  <1>6. CASE FrameRuns
    BY <1>6, FrameRunsKeepsWork
  <1>7. CASE \E h \in handles, p \in Producers : Enter(p, h)
    BY <1>7, ProducerKeepsWork
  <1>8. CASE \E s \in Live : NestedOffer(s)
    BY <1>8, NestedOfferKeepsWork
  <1>9. CASE \E units \in {0, 1} : RunEnds(units)
    BY <1>9, DrainedEndsKeepsWork, FrameEndsKeepsWork DEF RunEnds
  <1>10. CASE RunThrows
    BY <1>10, RunThrowsKeepsWork
  <1> QED BY <1>1, <1>2, <1>3, <1>4, <1>5, <1>6, <1>7, <1>8, <1>9, <1>10 DEF MaintenanceStep, DrainSteps

-----------------------------------------------------------------------------
(* The other parts of the invariant.                                       *)

(* A step that neither brings a producer in nor lets one out. *)
LEMMA SameCount ==
  ASSUME MaintenanceInv, in_flight' = in_flight, sealed => sealed',
         \A p \in Producers :
           \/ calls'[p] = calls[p]
           \/ calls[p] # Away /\ calls'[p] # Away /\ calls'[p].slot = calls[p].slot,
         \A p \in Inside : calls[p].slot \in Live'
  PROVE  CallsAreCounted'
  <1>1. CallsAreCounted
    BY DEF MaintenanceInv
  <1>2. Inside' = Inside
    BY DEF Inside
  <1>3. \A p \in Inside : calls'[p].slot = calls[p].slot
    BY DEF Inside
  <1>4. \A p \in Producers \ Inside : calls'[p] = calls[p]
    BY DEF Inside
  <1> QED BY <1>1, <1>2, <1>3, <1>4 DEF CallsAreCounted

(* A producer enters try_schedule.                                         *)
LEMMA EnterCounts ==
  ASSUME MaintenanceInv, NEW p \in Producers, NEW h \in handles, Enter(p, h)
  PROVE  CallsAreCounted'
  <1>1. /\ CallsAreCounted /\ calls \in [Producers -> Call]
        /\ h.slot \in Slots
    BY DEF MaintenanceInv, MaintenanceTypeOK
  <1> DEFINE entered == [at |-> "entered", slot |-> h.slot, result |-> "none"]
  <1>2. /\ sealed /\ calls[p] = Away /\ slots[h.slot].target # NoTask
        /\ in_flight' = in_flight + 1 /\ calls' = [calls EXCEPT ![p] = entered]
        /\ UNCHANGED <<slots, sealed>>
    BY DEF Enter, Resolves
  <1>3. entered # Away /\ entered.slot = h.slot
    BY DEF Away
  <1> HIDE DEF entered
  <1>4. calls'[p] = entered /\ \A q \in Producers : q # p => calls'[q] = calls[q]
    BY <1>1, <1>2
  <1>5. Inside' = Inside \cup {p} /\ p \notin Inside
    BY <1>2, <1>3, <1>4 DEF Inside
  <1>6. IsFiniteSet(Inside') /\ Cardinality(Inside') = Cardinality(Inside) + 1
    BY <1>1, <1>5, FS_AddElement DEF CallsAreCounted
  <1>7. Live' = Live /\ h.slot \in Live
    BY <1>1, <1>2 DEF Live
  <1>8. \A q \in Inside' : calls'[q].slot \in Live
    <2> SUFFICES ASSUME NEW q \in Inside \cup {p} PROVE calls'[q].slot \in Live
      BY <1>5
    <2>1. CASE q = p
      BY <1>3, <1>4, <1>7, <2>1
    <2>2. CASE q # p
      <3>1. q \in Inside /\ q \in Producers
        BY <2>2 DEF Inside
      <3> QED BY <1>1, <1>4, <2>2, <3>1 DEF CallsAreCounted
    <2> QED BY <2>1, <2>2
  <1>9. \A q \in Producers \ Inside' : calls'[q].at = "away"
    BY <1>1, <1>4, <1>5 DEF CallsAreCounted
  <1> QED BY <1>1, <1>2, <1>6, <1>7, <1>8, <1>9 DEF CallsAreCounted

(* A producer leaves try_schedule.                                         *)
LEMMA LeaveCounts ==
  ASSUME MaintenanceInv, NEW p \in Producers, Leave(p)
  PROVE  CallsAreCounted'
  <1>1. CallsAreCounted /\ calls \in [Producers -> Call]
    BY DEF MaintenanceInv, MaintenanceTypeOK
  <1>2. /\ calls[p].at = "counted" /\ in_flight' = in_flight - 1 /\ calls' = [calls EXCEPT ![p] = Away]
        /\ UNCHANGED <<slots, sealed>>
    BY DEF Leave
  <1>3. calls'[p] = Away /\ \A q \in Producers : q # p => calls'[q] = calls[q]
    BY <1>1, <1>2
  <1>4. Inside' = Inside \ {p} /\ p \in Inside
    BY <1>2, <1>3 DEF Inside, Away
  <1>5. IsFiniteSet(Inside') /\ Cardinality(Inside') = Cardinality(Inside) - 1
    BY <1>1, <1>4, FS_RemoveElement DEF CallsAreCounted
  <1>6. Live' = Live /\ \A q \in Inside' : calls'[q].slot \in Live
    BY <1>1, <1>2, <1>3, <1>4 DEF Live, CallsAreCounted
  <1>7. \A q \in Producers \ Inside' : calls'[q].at = "away"
    BY <1>1, <1>3, <1>4 DEF CallsAreCounted, Away
  <1> QED BY <1>1, <1>2, <1>4, <1>5, <1>6, <1>7 DEF CallsAreCounted

(* Every step counts the producers inside.                                 *)
LEMMA StepCounts ==
  ASSUME MaintenanceInv, MaintenanceStep
  PROVE  CallsAreCounted'
  <1>1. /\ calls \in [Producers -> Call] /\ slots \in [Slots -> [target : Tasks \cup {NoTask}, generation : Nat \ {0}]]
        /\ \A p \in Inside : calls[p].slot \in Live
    BY DEF MaintenanceInv, MaintenanceTypeOK, CallsAreCounted
  <1>2. CASE \E t \in Tasks : RegisterTask(t)
    <2>1. PICK t \in Tasks, s \in Slots \ Live : slots' = [slots EXCEPT ![s].target = t]
      BY <1>2 DEF RegisterTask, FirstFree
    <2>2. Live \subseteq Live'
      BY <1>1, <2>1 DEF Live
    <2>3. UNCHANGED <<sealed, calls, in_flight>>
      BY <1>2 DEF RegisterTask
    <2> QED BY <1>1, <2>2, <2>3, SameCount
  <1>3. CASE \E h \in handles : TryRelease(h)
    <2>1. Inside = {}
      BY <1>3, ReleaseFindsNothing
    <2>2. UNCHANGED <<sealed, calls, in_flight>>
      BY <1>3 DEF TryRelease
    <2> QED BY <2>1, <2>2, SameCount
  <1>4. CASE \E h \in handles, p \in Producers : Enter(p, h)
    BY <1>4, EnterCounts
  <1>5. CASE \E p \in Producers : Leave(p)
    BY <1>5, LeaveCounts
  <1>6. ASSUME NEW p \in Producers, Offer(p) \/ Count(p) PROVE CallsAreCounted'
    <2>1. CASE Offer(p)
      <3>1. /\ calls'[p].slot = calls[p].slot /\ calls'[p] # Away
            /\ \A q \in Producers : q # p => calls'[q] = calls[q]
        BY <2>1, OfferMoves
      <3>2. UNCHANGED <<slots, sealed, in_flight>> /\ calls[p].at = "entered"
        BY <2>1 DEF Offer
      <3> QED BY <1>1, <3>1, <3>2, SameCount DEF Live, Away
    <2>2. CASE Count(p)
      <3>1. /\ UNCHANGED <<slots, sealed, in_flight>> /\ calls[p].at = "offered"
            /\ calls' = [calls EXCEPT ![p].at = "counted"]
        BY <2>2 DEF Count
      <3>2. /\ calls'[p].slot = calls[p].slot /\ calls'[p].at = "counted"
            /\ \A q \in Producers : q # p => calls'[q] = calls[q]
        BY <1>1, <3>1 DEF Call
      <3> QED BY <1>1, <3>1, <3>2, SameCount DEF Live, Away
    <2> QED BY <1>6, <2>1, <2>2
  <1>7. CASE (\E units \in {0, 1} : FrameEnds(units)) \/ RunThrows
    <2>1. UNCHANGED <<slots, sealed, in_flight>>
      BY <1>7 DEF FrameEnds, RunThrows
    <2>2. ASSUME NEW p \in Producers
          PROVE  \/ calls'[p] = calls[p]
                 \/ calls[p] # Away /\ calls'[p] # Away /\ calls'[p].slot = calls[p].slot
      <3>1. CASE p \notin Caller \/ calls' = calls
        BY <1>1, <1>7, <3>1 DEF FrameEnds, RunThrows
      <3>2. CASE p \in Caller /\ calls' # calls
        <4>1. PICK result \in {"Stalled", "Accepted", "Thrown"} :
                calls'[p] = [calls[p] EXCEPT !.at = "offered", !.result = result]
          <5>1. ASSUME NEW units \in {0, 1}, FrameEnds(units)
                PROVE  \E result \in {"Stalled", "Accepted", "Thrown"} :
                         calls'[p] = [calls[p] EXCEPT !.at = "offered", !.result = result]
            <6> DEFINE abandoned == Top.repeats > 0 /\ units = 0
                       result == IF abandoned THEN "Stalled" ELSE "Accepted"
            <6>1. calls' = [q \in Producers |->
                              IF q \in Caller THEN [calls[q] EXCEPT !.at = "offered", !.result = result]
                              ELSE calls[q]]
              BY <3>2, <5>1 DEF FrameEnds
            <6>2. result \in {"Stalled", "Accepted", "Thrown"}
              OBVIOUS
            <6> HIDE DEF result
            <6> QED BY <3>2, <6>1, <6>2
          <5>2. CASE RunThrows
            <6>1. calls' = [q \in Producers |->
                              IF q \in Caller THEN [calls[q] EXCEPT !.at = "offered", !.result = "Thrown"]
                              ELSE calls[q]]
              BY <5>2 DEF RunThrows
            <6> QED BY <3>2, <6>1
          <5> QED BY <1>7, <5>1, <5>2
        <4>2. calls[p] \in Call /\ calls[p].at = "running"
          BY <1>1, <3>2 DEF Caller
        <4>3. calls'[p].at = "offered" /\ calls'[p].slot = calls[p].slot
          BY <4>1, <4>2 DEF Call
        <4> QED BY <4>2, <4>3 DEF Away
      <3> QED BY <3>1, <3>2
    <2> QED BY <1>1, <2>1, <2>2, SameCount DEF Live
  <1>8. CASE UNCHANGED <<slots, calls, in_flight>> /\ (sealed => sealed')
    BY <1>1, <1>8, SameCount DEF Live
  <1>9. CASE \/ Seal \/ \E b \in DrainBudgets \cup {Unbounded} : BeginDrain(b)
             \/ DrainSteps \/ (\E s \in Live : NestedOffer(s)) \/ \E units \in {0, 1} : DrainedEnds(units)
    <2>1. UNCHANGED <<slots, calls, in_flight>> /\ (sealed => sealed')
      <3>1. Seal => UNCHANGED <<slots, calls, in_flight>> /\ sealed'
        BY DEF Seal
      <3>2. ASSUME NEW b, BeginDrain(b) PROVE UNCHANGED <<slots, calls, in_flight, sealed>>
        BY <3>2 DEF BeginDrain
      <3>3. ReadInFlight \/ ReadPending \/ ReadLeft => UNCHANGED <<slots, calls, in_flight, sealed>>
        BY DEF ReadInFlight, ReadPending, ReadLeft
      <3>4. Claim \/ DrainCompletes => UNCHANGED <<slots, calls, in_flight, sealed>>
        BY DEF Claim, DrainCompletes
      <3>5. Conclude \/ FrameRuns => UNCHANGED <<slots, calls, in_flight, sealed>>
        BY DEF Conclude, FrameRuns
      <3>6. ASSUME NEW s, RunBegins(s) \/ NestedOffer(s) PROVE UNCHANGED <<slots, calls, in_flight, sealed>>
        BY <3>6 DEF RunBegins, NestedOffer
      <3>7. ASSUME NEW units, DrainedEnds(units) PROVE UNCHANGED <<slots, calls, in_flight, sealed>>
        BY <3>7 DEF DrainedEnds
      <3> QED BY <1>9, <3>1, <3>2, <3>3, <3>4, <3>5, <3>6, <3>7 DEF DrainSteps
    <2> QED BY <1>8, <2>1
  <1> QED BY <1>2, <1>3, <1>4, <1>5, <1>6, <1>7, <1>9 DEF MaintenanceStep, ProducerSteps, RunEnds

(* Before Seal there is nothing but setup. *)
LEMMA WorkNeedsSeal ==
  ASSUME MaintenanceInv, MaintenanceStep
  PROVE  NothingBeforeSeal'
  <1>1. /\ (stack # <<>> => sealed) /\ (drain.at # "none" => sealed)
        /\ \A p \in Producers : calls[p].at # "away" => sealed
        /\ NothingBeforeSeal
    BY DEF MaintenanceInv, NothingBeforeSeal, CallsAreCounted
  <1>2. CASE sealed
    <2>1. sealed'
      <3>1. CASE DrainSteps
        BY <1>2, <3>1 DEF DrainSteps, ReadInFlight, ReadPending, Claim, RunBegins, DrainCompletes, ReadLeft,
                          Conclude, FrameRuns
      <3>2. CASE ~DrainSteps
        BY <1>2, <3>2 DEF MaintenanceStep, RegisterTask, Seal, TryRelease, ProducerSteps, Offer, Count, Leave,
                          BeginDrain, Enter, NestedOffer, RunEnds, DrainedEnds, FrameEnds, RunThrows
      <3> QED BY <3>1, <3>2
    <2> QED BY <2>1 DEF NothingBeforeSeal
  <1>3. CASE ~sealed
    <2>1. (\E t \in Tasks : RegisterTask(t)) \/ Seal \/ (\E h \in handles : TryRelease(h))
      <3>1. ~DrainSteps
        BY <1>1, <1>3 DEF DrainSteps, ReadInFlight, ReadPending, Claim, RunBegins, DrainCompletes, ReadLeft,
                          Conclude, FrameRuns
      <3>2. ~(\E p \in Producers : ProducerSteps(p))
        BY <1>1, <1>3 DEF ProducerSteps, Offer, Count, Leave
      <3>3. /\ ~(\E s \in Live : NestedOffer(s)) /\ ~(\E units \in {0, 1} : RunEnds(units)) /\ ~RunThrows
        BY <1>1, <1>3 DEF NestedOffer, RunEnds, DrainedEnds, FrameEnds, RunThrows, Underway
      <3>4. /\ ~(\E b \in DrainBudgets \cup {Unbounded} : BeginDrain(b))
            /\ ~(\E h \in handles, p \in Producers : Enter(p, h))
        BY <1>3 DEF BeginDrain, Enter
      <3> QED BY <3>1, <3>2, <3>3, <3>4 DEF MaintenanceStep
    <2>2. UNCHANGED <<stack, backend, drain, idle>>
      BY <2>1 DEF RegisterTask, Seal, TryRelease
    <2>3. Pending' = Pending
      BY <2>2, SamePending
    <2> QED BY <1>1, <1>3, <2>2, <2>3 DEF NothingBeforeSeal
  <1> QED BY <1>2, <1>3

(* A step that vouches for no epoch that was not vouched for before. *)
LEMMA SameEvidence ==
  ASSUME MaintenanceInv, KeepsWork, MaintenanceTypeOK', sealed => sealed', idle' \subseteq idle,
         \/ drain'.at = "none"
         \/ drain.at # "none" /\ drain'.activity = drain.activity /\ (Late' /\ drain'.quiet => Late /\ drain.quiet)
  PROVE  EvidenceHolds'
  <1>1. /\ EvidenceHolds /\ activity \in Nat /\ activity' \in Nat /\ activity' >= activity
        /\ idle \subseteq Nat /\ drain \in DrainRecord
    BY DEF MaintenanceInv, AcceptedWorkIsKept, MaintenanceTypeOK, KeepsWork
  <1>2. drain.activity \in Nat
    BY <1>1 DEF DrainRecord
  <1>3. drain'.at # "none" => sealed' /\ idle' = {} /\ drain'.activity <= activity'
    BY <1>1, <1>2 DEF EvidenceHolds
  <1>4. \A e \in idle' : e <= activity'
    BY <1>1 DEF EvidenceHolds
  <1>5. Vouching' \subseteq Vouching
    BY DEF Vouching, Late
  <1>6. \A e \in Vouching : e \in Nat /\ e <= activity
    BY <1>1, <1>2 DEF Vouching, EvidenceHolds, Late
  <1>7. ASSUME activity' \in Vouching' PROVE Vouched'
    <2>1. activity' = activity
      BY <1>1, <1>5, <1>6, <1>7
    <2> QED BY <1>1, <1>5, <1>7, <2>1 DEF EvidenceHolds, KeepsWork
  <1> QED BY <1>3, <1>4, <1>7 DEF EvidenceHolds

(* A drain that begins vouches for nothing; one that has found the backend *)
(* empty vouches for the epoch it began in; Idle hands that on.            *)
LEMMA BeginDrainEvidence ==
  ASSUME MaintenanceInv, NEW b \in DrainBudgets \cup {Unbounded}, BeginDrain(b)
  PROVE  EvidenceHolds'
  <1>1. /\ sealed' = sealed /\ sealed /\ idle' = {} /\ activity' = activity
        /\ drain'.at = "counting" /\ drain'.activity = activity
    BY DEF BeginDrain, NoDrain
  <1>2. activity \in Nat
    BY DEF MaintenanceInv, MaintenanceTypeOK
  <1> QED BY <1>1, <1>2 DEF EvidenceHolds, Vouching, Late

(* The drain looks for pending work after it read the activity.            *)
LEMMA ReadPendingEvidence ==
  ASSUME MaintenanceInv, ReadPending
  PROVE  EvidenceHolds'
  <1>1. /\ EvidenceHolds /\ FramesHaveAnOwner /\ backend.claimed = {} /\ drain \in DrainRecord
        /\ drain.at = "looking"
    BY DEF MaintenanceInv, AcceptedWorkIsKept, MaintenanceTypeOK, ReadPending
  <1>2. /\ UNCHANGED <<sealed, activity, idle, backend, stack>> /\ drain'.activity = drain.activity
        /\ drain'.quiet => ~HasPending
        /\ Synchronous => stack = <<>>
    BY <1>1 DEF ReadPending, DrainRecord
  <1>3. Retained' = Retained
    BY <1>2, SameRetained
  <1>4. drain'.quiet => Retained = {}
    BY <1>1, <1>2, NothingRetained DEF HasPending, FramesHaveAnOwner
  <1>5. sealed' /\ idle' = {} /\ drain'.activity <= activity'
    BY <1>1, <1>2 DEF EvidenceHolds
  <1>6. activity' \in Vouching' => Vouched'
    BY <1>3, <1>4, <1>5 DEF Vouching, Vouched
  <1> QED BY <1>5, <1>6 DEF EvidenceHolds

(* An idle token of the current activity is evidence.                      *)
LEMMA IdleIsEvident ==
  ASSUME MaintenanceInv, drain.at = "closing", DrainResult = "Idle"
  PROVE  activity \in Vouching /\ Vouched /\ Returned /\ Retained = {}
  <1>1. ConcludesIdle
    BY DEF DrainResult
  <1>2. activity \in Vouching /\ in_flight = 0
    BY <1>1 DEF ConcludesIdle, Vouching, Late
  <1>3. Vouched
    BY <1>2 DEF MaintenanceInv, EvidenceHolds
  <1>4. Inside = {}
    BY <1>2, FS_EmptySet DEF MaintenanceInv, CallsAreCounted
  <1>5. Returned /\ ~Caught
    BY <1>4 DEF Inside, Returned, Caught, Away
  <1> QED BY <1>2, <1>3, <1>5 DEF Vouched

(* The drain concludes.                                                    *)
LEMMA ConcludeEvidence ==
  ASSUME MaintenanceInv, KeepsWork, Conclude
  PROVE  EvidenceHolds'
  <1>1. /\ idle' = IF DrainResult = "Idle" THEN {activity} ELSE idle
        /\ drain.at = "closing" /\ drain' = NoDrain /\ UNCHANGED <<sealed, activity>>
    BY DEF Conclude
  <1>2. activity \in Nat /\ idle = {} /\ drain'.at = "none" /\ Vouching' = idle'
    BY <1>1 DEF MaintenanceInv, MaintenanceTypeOK, EvidenceHolds, NoDrain, Vouching, Late
  <1>3. CASE DrainResult = "Idle"
    <2>1. Vouched'
      BY <1>1, <1>3, IdleIsEvident DEF KeepsWork
    <2> QED BY <1>1, <1>2, <1>3, <2>1 DEF EvidenceHolds
  <1>4. CASE DrainResult # "Idle"
    BY <1>1, <1>2, <1>4 DEF EvidenceHolds
  <1> QED BY <1>3, <1>4

(* Every step keeps the evidence sound.                                    *)
LEMMA StepEvidence ==
  ASSUME MaintenanceInv, MaintenanceStep, KeepsWork, MaintenanceTypeOK'
  PROVE  EvidenceHolds'
  <1>1. CASE UNCHANGED <<sealed, drain, idle>>
    BY <1>1, SameEvidence DEF Late
  <1>2. CASE (\E t \in Tasks : RegisterTask(t)) \/ Seal \/ (\E h \in handles : TryRelease(h))
    <2>1. UNCHANGED <<drain, idle>> /\ (sealed => sealed')
      <3>1. ASSUME NEW t, RegisterTask(t) PROVE UNCHANGED <<drain, idle, sealed>>
        BY <3>1 DEF RegisterTask
      <3>2. ASSUME NEW h, TryRelease(h) PROVE UNCHANGED <<drain, idle, sealed>>
        BY <3>2 DEF TryRelease
      <3>3. Seal => UNCHANGED <<drain, idle>> /\ sealed'
        BY DEF Seal
      <3> QED BY <1>2, <3>1, <3>2, <3>3
    <2> QED BY <2>1, SameEvidence DEF Late
  <1>3. ASSUME NEW p \in Producers, ProducerSteps(p) PROVE EvidenceHolds'
    <2>1. UNCHANGED <<sealed, drain>> /\ idle' \subseteq idle
      BY <1>3 DEF ProducerSteps, Offer, Count, Leave
    <2> QED BY <2>1, SameEvidence DEF Late
  <1>4. CASE \E h \in handles, p \in Producers : Enter(p, h)
    BY <1>1, <1>4 DEF Enter
  <1>5. CASE \E b \in DrainBudgets \cup {Unbounded} : BeginDrain(b)
    BY <1>5, BeginDrainEvidence
  <1>6. CASE DrainSteps
    <2>1. CASE ReadInFlight
      <3>1. drain'.at = "looking" /\ drain.at # "none" /\ drain'.activity = drain.activity /\ UNCHANGED <<sealed, idle>>
        BY <2>1 DEF ReadInFlight, MaintenanceInv, MaintenanceTypeOK, DrainRecord
      <3> QED BY <3>1, SameEvidence DEF Late
    <2>2. CASE ReadPending
      BY <2>2, ReadPendingEvidence
    <2>3. CASE Claim \/ FrameRuns
      BY <1>1, <2>3 DEF Claim, FrameRuns
    <2>4. ASSUME NEW s \in Slots, RunBegins(s) PROVE EvidenceHolds'
      BY <1>1, <2>4 DEF RunBegins
    <2>5. CASE DrainCompletes
      <3>1. /\ drain.at = "draining" /\ drain'.activity = drain.activity /\ drain'.quiet = drain.quiet
            /\ UNCHANGED <<sealed, idle>>
        BY <2>5 DEF DrainCompletes, MaintenanceInv, MaintenanceTypeOK, DrainRecord
      <3> QED BY <3>1, SameEvidence DEF Late
    <2>6. CASE ReadLeft
      <3>1. /\ drain.at = "done" /\ drain'.activity = drain.activity /\ drain'.quiet = drain.quiet
            /\ UNCHANGED <<sealed, idle>>
        BY <2>6 DEF ReadLeft, MaintenanceInv, MaintenanceTypeOK, DrainRecord
      <3> QED BY <3>1, SameEvidence DEF Late
    <2>7. CASE Conclude
      BY <2>7, ConcludeEvidence
    <2> QED BY <1>6, <2>1, <2>2, <2>3, <2>4, <2>5, <2>6, <2>7 DEF DrainSteps
  <1>7. ASSUME NEW s \in Live, NestedOffer(s) PROVE EvidenceHolds'
    <2>1. UNCHANGED <<sealed, drain>> /\ idle' \subseteq idle
      BY <1>7 DEF NestedOffer
    <2> QED BY <2>1, SameEvidence DEF Late
  <1>8. ASSUME NEW units \in {0, 1}, FrameEnds(units) PROVE EvidenceHolds'
    <2>1. UNCHANGED <<sealed, drain>> /\ idle' \subseteq idle
      BY <1>8 DEF FrameEnds
    <2> QED BY <2>1, SameEvidence DEF Late
  <1>9. ASSUME NEW units \in {0, 1}, DrainedEnds(units) PROVE EvidenceHolds'
    <2>1. UNCHANGED <<sealed, idle>> /\ drain.at = "draining"
      BY <1>9 DEF DrainedEnds, Underway, MaintenanceInv, FramesHaveAnOwner
    <2>2. drain \in DrainRecord /\ drain'.activity = drain.activity /\ drain'.quiet = drain.quiet
      BY <1>9 DEF DrainedEnds, MaintenanceInv, MaintenanceTypeOK, DrainRecord
    <2> QED BY <2>1, <2>2, SameEvidence DEF Late
  <1>10. CASE RunThrows
    <2>1. sealed' = sealed /\ idle' \subseteq idle /\ (drain' = drain \/ drain'.at = "none")
      BY <1>10 DEF RunThrows, NoDrain
    <2>2. CASE drain' = drain
      BY <2>1, <2>2, SameEvidence DEF Late
    <2>3. CASE drain'.at = "none"
      BY <2>1, <2>3, SameEvidence
    <2> QED BY <2>1, <2>2, <2>3
  <1> QED BY <1>2, <1>3, <1>4, <1>5, <1>6, <1>7, <1>8, <1>9, <1>10 DEF MaintenanceStep, RunEnds

(* Every step keeps the handles unique.                                    *)
LEMMA StepUnique ==
  ASSUME MaintenanceInv, MaintenanceStep
  PROVE  HandlesAreUnique'
  <1>1. CASE (\E t \in Tasks : RegisterTask(t)) \/ Seal \/ (\E h \in handles : TryRelease(h))
    BY <1>1, SetupKeepsWork
  <1>2. CASE UNCHANGED <<slots, handles>>
    BY <1>2 DEF MaintenanceInv, HandlesAreUnique
  <1>3. CASE (\E p \in Producers : ProducerSteps(p)) \/ \E h \in handles, p \in Producers : Enter(p, h)
    <2>1. UNCHANGED <<slots, handles>>
      BY <1>3 DEF ProducerSteps, Offer, Count, Leave, Enter
    <2> QED BY <1>2, <2>1
  <1>4. CASE DrainSteps
    <2>1. UNCHANGED <<slots, handles>>
      BY <1>4 DEF DrainSteps, ReadInFlight, ReadPending, Claim, RunBegins, DrainCompletes, ReadLeft, Conclude,
                  FrameRuns
    <2> QED BY <1>2, <2>1
  <1>5. CASE \/ \E b \in DrainBudgets \cup {Unbounded} : BeginDrain(b)
             \/ \E s \in Live : NestedOffer(s)
             \/ \E units \in {0, 1} : RunEnds(units)
             \/ RunThrows
    <2>1. UNCHANGED <<slots, handles>>
      BY <1>5 DEF BeginDrain, NestedOffer, RunEnds, DrainedEnds, FrameEnds, RunThrows
    <2> QED BY <1>2, <2>1
  <1> QED BY <1>1, <1>3, <1>4, <1>5 DEF MaintenanceStep

-----------------------------------------------------------------------------
(* The invariant holds before anything is registered.                      *)
LEMMA InitiallyNothing ==
  ASSUME MaintenanceInit
  PROVE  MaintenanceInv
  <1>1. MaintenanceTypeOK
    <2>1. Capacity \in Nat
      BY MaintenanceAssumption
    <2>2. calls \in [Producers -> Call]
      BY <2>1 DEF MaintenanceInit, Away, Call
    <2>3. backend \in [kind : Kinds, queue : Seq(Slots), word : SUBSET Slots, claimed : SUBSET Slots]
      BY DEF MaintenanceInit
    <2>4. drain \in DrainRecord
      BY DEF MaintenanceInit, NoDrain, DrainRecord
    <2>5. slots \in [Slots -> [target : Tasks \cup {NoTask}, generation : Nat \ {0}]]
      BY DEF MaintenanceInit
    <2>6. /\ handles = {} /\ sealed \in BOOLEAN /\ stack \in Seq(FrameRecord)
          /\ in_flight \in Nat /\ activity \in Nat /\ idle = {} /\ owed = {}
      <3>1. /\ handles = {} /\ sealed = FALSE /\ stack = <<>>
            /\ in_flight = 0 /\ activity = 0 /\ idle = {} /\ owed = {}
        BY DEF MaintenanceInit
      <3>2. stack \in Seq(FrameRecord)
        BY <3>1
      <3>3. sealed \in BOOLEAN
        BY <3>1
      <3> QED BY <3>1, <3>2, <3>3
    <2> QED BY <2>2, <2>3, <2>4, <2>5, <2>6 DEF MaintenanceTypeOK
  <1>2. Pending = {} /\ ~Queued /\ stack = <<>> /\ backend.claimed = {}
    BY EmptyToSet DEF MaintenanceInit, Pending, Queued
  <1>3. Framed = {} /\ Running = {} /\ Retained = {}
    BY <1>2, NoFrames DEF Retained
  <1>4. Inside = {}
    BY DEF MaintenanceInit, Inside
  <1>5. CallsAreCounted
    BY <1>4, FS_EmptySet DEF CallsAreCounted, MaintenanceInit, Away
  <1>6. EvidenceHolds /\ NothingBeforeSeal
    BY <1>2, <1>3 DEF EvidenceHolds, NothingBeforeSeal, MaintenanceInit, NoDrain, Vouched
  <1> QED BY <1>1, <1>2, <1>3, <1>5, <1>6 DEF MaintenanceInv, MaintenanceInit, AcceptedWorkIsKept,
             FramesHaveAnOwner, HandlesAreUnique

(* A stuttering step keeps the invariant.                                  *)
LEMMA Stuttering ==
  ASSUME MaintenanceInv, UNCHANGED maintenance_vars
  PROVE  MaintenanceInv'
  <1>1. UNCHANGED <<slots, handles, sealed, backend, stack, calls, in_flight, activity, idle, drain, owed>>
    BY DEF maintenance_vars, scheduler_vars
  <1>2. /\ Synchronous' = Synchronous /\ Queued' = Queued /\ Pending' = Pending
        /\ Framed' = Framed /\ Retained' = Retained
    BY <1>1, SameRetained
  <1>3. /\ Live' = Live /\ Inside' = Inside /\ Caller' = Caller /\ (Caught <=> Caught')
        /\ Vouching' = Vouching
    BY <1>1 DEF Live, Inside, Caller, Caught, Vouching, Late
  <1>4. MaintenanceTypeOK'
    BY <1>1 DEF MaintenanceInv, MaintenanceTypeOK
  <1>5. AcceptedWorkIsKept'
    BY <1>1, <1>2, <1>4 DEF MaintenanceInv, AcceptedWorkIsKept
  <1>6. CallsAreCounted' /\ FramesHaveAnOwner' /\ NothingBeforeSeal'
    BY <1>1, <1>2, <1>3 DEF MaintenanceInv, CallsAreCounted, FramesHaveAnOwner, NothingBeforeSeal
  <1>7. EvidenceHolds' /\ HandlesAreUnique' /\ (Retained \subseteq Live)'
    BY <1>1, <1>2, <1>3 DEF MaintenanceInv, EvidenceHolds, HandlesAreUnique, Vouched
  <1> QED BY <1>4, <1>5, <1>6, <1>7 DEF MaintenanceInv

(* Every step of the scheduler keeps its invariant.                        *)
LEMMA StepIsSound ==
  ASSUME MaintenanceInv, MaintenanceStep
  PROVE  MaintenanceInv'
  <1>1. KeepsWork
    BY StepKeepsWork
  <1>2. MaintenanceTypeOK'
    BY <1>1 DEF KeepsWork, AcceptedWorkIsKept
  <1>3. CallsAreCounted' /\ NothingBeforeSeal' /\ HandlesAreUnique'
    BY StepCounts, WorkNeedsSeal, StepUnique
  <1>4. EvidenceHolds'
    BY <1>1, <1>2, StepEvidence
  <1> QED BY <1>1, <1>2, <1>3, <1>4 DEF KeepsWork, MaintenanceInv

(* MaintenanceInv holds in every reachable state. *)
THEOREM MaintenanceInvariant == MaintenanceSpec => []MaintenanceInv
  <1>1. MaintenanceInit => MaintenanceInv
    BY InitiallyNothing
  <1>2. MaintenanceNext => MaintenanceStep
    BY DEF MaintenanceNext, MaintenanceStep
  <1>3. MaintenanceInv /\ [MaintenanceNext]_maintenance_vars => MaintenanceInv'
    BY <1>2, StepIsSound, Stuttering
  <1> QED BY <1>1, <1>3, PTL DEF MaintenanceSpec

(* Accepted work is retained until a run of it begins, whatever the        *)
(* backend, the overlap of producers with a drain, the budgets and the     *)
(* throws (registered_maintenance.h:22-31, :94-98).                        *)
THEOREM NothingAcceptedIsLost == MaintenanceSpec => []AcceptedWorkIsKept
  <1>1. MaintenanceInv => AcceptedWorkIsKept
    BY DEF MaintenanceInv
  <1> QED BY <1>1, MaintenanceInvariant, PTL

(* Idle, and the evidence it leaves, are not given while work is retained  *)
(* or a producer is inside try_schedule.                                   *)
LEMMA EvidenceIsSafe ==
  ASSUME MaintenanceInv
  PROVE  ReleaseCancelsNothing
  <1>1. Retained \subseteq Live
    BY DEF MaintenanceInv
  <1>2. drain.at = "closing" /\ DrainResult = "Idle" => Retained = {} /\ Returned
    BY IdleIsEvident
  <1>3. activity \in idle /\ Returned => Retained = {}
    BY EvidenceIsEnough
  <1>4. \A h \in handles : Resolves(h) => slots[h.slot].target = h.task
    BY DEF MaintenanceInv, HandlesAreUnique, Resolves
  <1> QED BY <1>1, <1>2, <1>3, <1>4 DEF ReleaseCancelsNothing

(* Whatever overlaps a drain, releasing a slot cancels no work             *)
(* (registered_maintenance.h:606-635).                                     *)
THEOREM ReleaseIsSafe == MaintenanceSpec => []ReleaseCancelsNothing
  <1> QED BY EvidenceIsSafe, MaintenanceInvariant, PTL

-----------------------------------------------------------------------------
(* The adapter: its inductive invariant.                                   *)
Box == [lo : Nat, end : Nat]
MetaRecord == [content_version : Nat, topology_version : Nat, dirty : SUBSET Owned,
               active : SUBSET {}, bounds : Box]
WorldRecord == [kind : {"dense", "sparse"}, slot_of : [SparseKeys -> Slots \cup {NoSlot}],
                generation : [Slots -> Nat], clock : Nat, meta : [Slots -> MetaRecord]]
Token == [key : SparseKeys \cup {NoKey}, version : Nat, generation : Nat]
CellRecord == [key : SparseKeys \cup {NoKey}, generation : Nat, bound : BOOLEAN, built : BOOLEAN,
               debt : BOOLEAN, token : Token, product : (Nat \X Nat) \cup {<<>>}]
OpRecord == [name : {"none", "offer", "run_some", "before", "after", "flush", "finalize"},
             slot : 0 .. Capacity, claimed : BOOLEAN, todo : SUBSET Slots, offered : BOOLEAN,
             result : {"none", "Idle", "Drained", "BudgetExhausted", "Stalled"}]
Observation == [mask : SUBSET Owned, bounds : Box, content_version : Nat, generation : Nat]
BodyRecord == [phase : {"rebuilding", "rebuilt", "stale", "done"}, observed : Observation, units : {0, 1}]

AdapterTypeOK ==
  /\ world \in WorldRecord /\ cells \in [Slots -> CellRecord]
  /\ ready \in BOOLEAN /\ released \in BOOLEAN
  /\ op \in OpRecord /\ bodies \in Seq(BodyRecord)
  /\ told \subseteq Slots /\ unread \subseteq Slots

(* Residency intervals are numbered by a clock, and a chunk has one slot.  *)
ResidencyIsUnique ==
  /\ \A s \in Slots : world.generation[s] <= world.clock /\ cells[s].token.generation <= world.clock
  /\ \A j, k \in ResidentKeys : world.slot_of[j] = world.slot_of[k] => j = k

(* One thread calls: an offer or a drain is part of the adapter call in    *)
(* progress, and only a released adapter has given up its slots.           *)
CallsAreNested ==
  /\ sealed
  /\ \A p \in Producers : p # Main => calls[p] = Away
  /\ calls[Main] = Away <=> op.slot = NoSlot
  /\ op.slot # NoSlot => calls[Main].slot = op.slot /\ op.name \in {"offer", "before", "after"}
  /\ drain.at # "none" <=> op.name \in {"run_some", "flush"}
  /\ ready \/ released => op = NoCall
  /\ released => stack = <<>>
  /\ ~released => \A s \in Slots : slots[s].target # NoTask /\ HandleOf(s) \in handles

(* A slot has one frame; the frames below the top one have begun, and each *)
(* that has begun has its run_slot.                                        *)
FramesHaveBodies ==
  /\ \A i, j \in DOMAIN stack : stack[i].slot = stack[j].slot => i = j
  /\ \A i \in DOMAIN stack : i < Len(stack) => stack[i].active
  /\ ~Synchronous /\ stack # <<>> => Len(stack) = 1 /\ Top.active
  /\ Synchronous /\ stack # <<>> => stack[1].slot = op.slot
  /\ stack = <<>> => bodies = <<>>
  /\ stack # <<>> => Len(bodies) = IF Top.active THEN Len(stack) ELSE Len(stack) - 1

(* The product was read in this residency interval, at this version or a   *)
(* later one.                                                              *)
ReadSince(s, generation, version) ==
  \E v \in version .. world.meta[s].content_version : cells[s].product = <<generation, v>>

Settled(s) == cells[s].bound /\ BindingCurrent(s)

(* What a run_slot knows of its slot.  Marks that came after it looked     *)
(* make its observation an old one, or leave a repeat of its frame.        *)
BodyHolds(s, body) ==
  /\ cells[s].bound => body.units = 1
  /\ body.phase \in {"rebuilding", "rebuilt"} =>
       Settled(s) /\ body.observed.content_version <= world.meta[s].content_version
  /\ body.phase = "rebuilt" =>
       /\ ReadSince(s, world.generation[s], body.observed.content_version)
       /\ s \in unread => body.observed.content_version < world.meta[s].content_version
  /\ Synchronous /\ body.phase # "rebuilding" /\ s \in unread => s \in Framed
BodiesHold == \A i \in DOMAIN bodies : BodyHolds(stack[i].slot, bodies[i])

(* A token of the present residency interval names a version that the      *)
(* product has.                                                            *)
ProductsHold ==
  \A s \in Slots : cells[s].built /\ cells[s].token.generation = world.generation[s] =>
    ReadSince(s, cells[s].token.generation, cells[s].token.version)

(* What is yet to be read has a run ahead of it, a debt, or a caller who   *)
(* was or will be told.                                                    *)
Ahead == {stack[i].slot : i \in {j \in DOMAIN bodies : bodies[j].phase = "rebuilding"}}
Refused == calls[Main].result \in {"CapacityExhausted", "Stalled", "Thrown"}
Offering == {s \in {op.slot} : calls[Main].at = "entered" \/ Refused}
Awaited == Pending \cup Framed \cup Indebted \cup told \cup Ahead \cup Offering
UnreadIsAwaited ==
  /\ \A s \in unread : world.meta[s].dirty = Owned /\ Settled(s)
  /\ unread \subseteq Awaited
  /\ calls[Main].at \in {"offered", "counted"} /\ calls[Main].result = "Accepted" /\ op.slot \in unread
       => op.slot \in Pending

(* Idle, kept from the drain to the end of the call.                       *)
IdleIsTrue ==
  /\ ready => Retained = {} /\ Indebted = {}
  /\ op.name \in {"finalize", "after"} /\ op.result = "Idle" /\ ~op.offered =>
       Retained = {} /\ op.slot = NoSlot

AdapterInv ==
  /\ AdapterTypeOK /\ ResidencyIsUnique /\ CallsAreNested /\ FramesHaveBodies
  /\ BodiesHold /\ ProductsHold /\ UnreadIsAwaited /\ IdleIsTrue

ChunkInv ==
  /\ scene \in {"scheduler", "adapter"} /\ MaintenanceInv
  /\ scene = "adapter" => AdapterInv

-----------------------------------------------------------------------------
(* What the types say of slots and cells.                                  *)
LEMMA AdapterTypes ==
  ASSUME AdapterTypeOK
  PROVE  /\ Capacity \in Nat \ {0} /\ Slots \subseteq Nat \ {0} /\ Main \in Producers /\ Slots \subseteq SparseKeys
         /\ world \in WorldRecord /\ world.slot_of \in [SparseKeys -> Slots \cup {NoSlot}]
         /\ world.generation \in [Slots -> Nat] /\ world.clock \in Nat /\ world.meta \in [Slots -> MetaRecord]
         /\ \A s \in Slots : /\ cells[s] \in CellRecord /\ world.meta[s] \in MetaRecord
                             /\ world.generation[s] \in Nat /\ world.meta[s].content_version \in Nat
                             /\ world.meta[s].dirty \subseteq Owned
                             /\ cells[s].token \in Token /\ s # NoSlot
         /\ op \in OpRecord /\ op.slot \in 0 .. Capacity /\ (op.slot # NoSlot => op.slot \in Slots)
         /\ op.todo \subseteq Slots
  <1>1. Capacity \in Nat \ {0} /\ Main \in Producers /\ Slots \subseteq SparseKeys
    BY MaintenanceAssumption, AdapterAssumption
  <1>2. Slots \subseteq Nat \ {0} /\ \A s \in Slots : s # NoSlot
    BY <1>1 DEF Slots, NoSlot
  <1>3. /\ world.slot_of \in [SparseKeys -> Slots \cup {NoSlot}]
        /\ world.generation \in [Slots -> Nat] /\ world.clock \in Nat /\ world.meta \in [Slots -> MetaRecord]
    BY DEF AdapterTypeOK, WorldRecord
  <1>4. \A s \in Slots : world.meta[s].content_version \in Nat /\ world.meta[s].dirty \subseteq Owned
    BY <1>3 DEF MetaRecord
  <1>5. \A s \in Slots : cells[s] \in CellRecord /\ cells[s].token \in Token
    BY DEF AdapterTypeOK, CellRecord
  <1>6. op.slot \in 0 .. Capacity /\ op.todo \subseteq Slots
    BY DEF AdapterTypeOK, OpRecord
  <1>7. op.slot # NoSlot => op.slot \in Slots
    BY <1>1, <1>6 DEF Slots, NoSlot
  <1> QED BY <1>1, <1>2, <1>3, <1>4, <1>5, <1>6, <1>7 DEF AdapterTypeOK

(* Frames need a call in progress: an offer to the synchronous backend, or *)
(* a drain.                                                                *)
LEMMA FramesNeedACall ==
  ASSUME MaintenanceInv, AdapterInv, stack # <<>>
  PROVE  /\ ~released /\ ~ready /\ op # NoCall
         /\ Synchronous => /\ op.slot # NoSlot /\ op.name \in {"offer", "before", "after"}
                           /\ calls[Main].at = "running" /\ Caller = {Main} /\ drain.at = "none"
         /\ ~Synchronous => /\ op.slot = NoSlot /\ op.name \in {"run_some", "flush"} /\ drain.at = "draining"
                            /\ calls[Main] = Away /\ Caller = {}
  <1>1. CallsAreNested /\ FramesHaveBodies /\ FramesHaveAnOwner /\ MaintenanceTypeOK
    BY DEF AdapterInv, MaintenanceInv
  <1>2. ~released
    BY <1>1 DEF CallsAreNested
  <1>3. \A p \in Producers : p # Main => calls[p].at # "running"
    BY <1>1 DEF CallsAreNested, Away
  <1>4. CASE Synchronous
    <2>1. Caller = {Main} /\ calls[Main].at = "running"
      BY <1>1, <1>3, <1>4 DEF FramesHaveAnOwner, Caller
    <2>2. calls[Main] # Away
      BY <2>1 DEF Away
    <2>3. op.slot # NoSlot /\ op.name \in {"offer", "before", "after"}
      BY <1>1, <2>2 DEF CallsAreNested
    <2>4. drain.at = "none" /\ op # NoCall
      BY <1>1, <2>3 DEF CallsAreNested, NoCall
    <2> QED BY <1>1, <1>2, <1>4, <2>1, <2>3, <2>4 DEF CallsAreNested
  <1>5. CASE ~Synchronous
    <2>1. drain.at = "draining"
      BY <1>1, <1>5 DEF FramesHaveAnOwner
    <2>2. op.name \in {"run_some", "flush"}
      BY <1>1, <2>1 DEF CallsAreNested
    <2>3. op.slot = NoSlot /\ calls[Main] = Away /\ op # NoCall
      BY <1>1, <2>2 DEF CallsAreNested, NoCall
    <2>4. Caller = {}
      BY <1>3, <2>3 DEF Caller, Away
    <2> QED BY <1>1, <1>2, <1>5, <2>1, <2>2, <2>3, <2>4 DEF CallsAreNested
  <1> QED BY <1>4, <1>5

(* Between two calls, and within one that is about to offer or to drain,   *)
(* nothing runs.                                                           *)
LEMMA NothingRuns ==
  ASSUME MaintenanceInv, AdapterInv, BetweenCalls \/ (op.slot = NoSlot /\ op.name \notin {"run_some", "flush"})
  PROVE  /\ stack = <<>> /\ bodies = <<>> /\ calls[Main] = Away /\ drain.at = "none" /\ op.slot = NoSlot
         /\ Framed = {} /\ Running = {} /\ Ahead = {} /\ Offering = {} /\ Returned
  <1>1. CallsAreNested /\ FramesHaveBodies
    BY DEF AdapterInv
  <1>2. op.slot = NoSlot /\ op.name \notin {"run_some", "flush"}
    BY DEF BetweenCalls, NoCall
  <1>3. stack = <<>>
    BY <1>2, FramesNeedACall
  <1>4. bodies = <<>> /\ calls[Main] = Away /\ drain.at = "none"
    BY <1>1, <1>2, <1>3 DEF FramesHaveBodies, CallsAreNested
  <1>5. Framed = {} /\ Running = {}
    BY <1>3, NoFrames
  <1>6. Ahead = {}
    BY <1>4 DEF Ahead
  <1>7. Offering = {}
    BY <1>4 DEF Offering, Refused, Away
  <1>8. Returned
    BY <1>1, <1>4 DEF Returned, CallsAreNested
  <1> QED BY <1>2, <1>3, <1>4, <1>5, <1>6, <1>7, <1>8

(* While the adapter keeps its slots its handles resolve.                  *)
LEMMA SlotsAreHeld ==
  ASSUME MaintenanceInv, AdapterInv, ~released, NEW s \in Slots
  PROVE  s \in Live /\ HandleOf(s) \in handles
  BY DEF AdapterInv, CallsAreNested, Live

(* Each of the adapter's calls to its scheduler is a step of the scheduler *)
(* (chunk_maintenance.h:508-556).                                          *)
LEMMA CallsAreSteps ==
  ASSUME MaintenanceInv, AdapterInv, AdapterNext, ~AdapterReleases
  PROVE  MaintenanceStep \/ UNCHANGED maintenance_vars
  <1>0. Main \in Producers
    BY AdapterAssumption
  <1>1. ASSUME NEW s \in Slots, ~released, Enter(Main, HandleOf(s)) PROVE MaintenanceStep
    <2>1. HandleOf(s) \in handles
      BY <1>1, SlotsAreHeld
    <2> QED BY <1>0, <1>1, <2>1 DEF MaintenanceStep
  <1>2. ASSUME NEW s \in Slots, NestedOffer(s) PROVE MaintenanceStep
    <2>1. stack # <<>>
      BY <1>2 DEF NestedOffer, Underway
    <2>2. s \in Live
      BY <2>1, FramesNeedACall, SlotsAreHeld
    <2> QED BY <1>2, <2>2 DEF MaintenanceStep
  <1>3. ASSUME NEW k \in SparseKeys, AdapterCalls(k) PROVE MaintenanceStep \/ UNCHANGED maintenance_vars
    <2>1. CASE MarkDirty(k)
      BY <1>1, <2>1 DEF MarkDirty, BetweenCalls, OfferSlot, BoundSlots
    <2>2. CASE Retry(k)
      BY <1>1, <2>2 DEF Retry, BetweenCalls, OfferSlot, BoundSlots
    <2>3. CASE OtherOwnerMarks(k) \/ EnsureResident(k) \/ Evict(k) \/ LoadAround(k)
      BY <2>3 DEF OtherOwnerMarks, EnsureResident, Evict, LoadAround
    <2> QED BY <1>3, <2>1, <2>2, <2>3 DEF AdapterCalls
  <1>4. ASSUME NEW k \in SparseKeys, CallbackMarks(k) PROVE MaintenanceStep
    BY <1>2, <1>4 DEF CallbackMarks, NestedSchedule, BoundSlots
  <1>5. ASSUME NEW b \in DrainBudgets, RunSome(b) PROVE MaintenanceStep
    BY <1>5 DEF RunSome, MaintenanceStep
  <1>6. CASE OfferProceeds
    BY <1>0, <1>6 DEF OfferProceeds, MaintenanceStep, ProducerSteps
  <1>7. CASE OfferReturns
    BY <1>0, <1>7 DEF OfferReturns, MaintenanceStep, ProducerSteps
  <1>8. CASE Flush \/ Finalize \/ CallbackReads \/ CallbackReturns \/ Reconcile
    BY <1>8 DEF Flush, Finalize, CallbackReads, CallbackReturns, Reconcile
  <1>9. CASE Reoffer
    <2>1. ~released
      BY <1>9 DEF Reoffer, AdapterInv, CallsAreNested, NoCall
    <2>2. PICK s \in op.todo \cap Indebted : OfferSlot(s, [op EXCEPT !.offered = op.name = "after"])
      BY <1>9 DEF Reoffer
    <2> QED BY <1>1, <2>1, <2>2 DEF OfferSlot, Indebted
  <1>10. CASE FlushDrains
    BY <1>10 DEF FlushDrains, MaintenanceStep
  <1>11. CASE DrainProceeds
    BY <1>11 DEF DrainProceeds, MaintenanceStep, DrainSteps
  <1>12. CASE DrainReturns
    BY <1>12 DEF DrainReturns, MaintenanceStep, DrainSteps
  <1>13. CASE RunBeginsSlot
    BY <1>13 DEF RunBeginsSlot, MaintenanceStep, DrainSteps
  <1>14. CASE FollowUp
    <2>1. stack # <<>> /\ NestedOffer(Top.slot)
      BY <1>14 DEF FollowUp, AtBody, Underway, NestedSchedule
    <2>2. Top.slot \in Slots
      BY <2>1, TopFrame DEF MaintenanceInv, FrameRecord
    <2> QED BY <1>2, <2>1, <2>2
  <1>15. CASE CallbackThrows
    BY <1>15 DEF CallbackThrows, MaintenanceStep
  <1>16. CASE RunReturns
    <2>1. Body.units \in {0, 1}
      <3>1. bodies \in Seq(BodyRecord) /\ FramesHaveBodies /\ MaintenanceTypeOK
        BY DEF AdapterInv, AdapterTypeOK, MaintenanceInv
      <3>2. stack # <<>> /\ Top.active
        BY <1>16 DEF RunReturns, AtBody, Underway
      <3>3. Len(bodies) = Len(stack) /\ Len(stack) \in Nat \ {0}
        BY <3>1, <3>2, TopFrame DEF FramesHaveBodies
      <3>4. Body \in BodyRecord
        BY <3>1, <3>3 DEF Body, Last
      <3> QED BY <3>4 DEF BodyRecord
    <2> QED BY <1>16, <2>1 DEF RunReturns, MaintenanceStep
  <1> QED BY <1>3, <1>4, <1>5, <1>6, <1>7, <1>8, <1>9, <1>10, <1>11, <1>12, <1>13, <1>14, <1>15, <1>16 DEF AdapterNext

(* The adapter gives up its slots only when the scheduler retains nothing, *)
(* so the release of all of them at once cancels no work.                  *)
LEMMA ReleaseFindsNoWork ==
  ASSUME MaintenanceInv, AdapterInv, AdapterReleases
  PROVE  MaintenanceInv'
  <1>1. /\ UNCHANGED <<handles, sealed, backend, stack, calls, in_flight, activity, idle, drain, owed>>
        /\ slots' = [s \in Slots |-> [target |-> NoTask, generation |-> slots[s].generation + 1]]
        /\ BetweenCalls /\ ready
    BY DEF AdapterReleases
  <1>2. /\ Synchronous' = Synchronous /\ Queued' = Queued /\ Pending' = Pending
        /\ Framed' = Framed /\ Retained' = Retained
    BY <1>1, SameRetained
  <1>3. /\ Inside' = Inside /\ Caller' = Caller /\ (Caught <=> Caught') /\ Vouching' = Vouching
    BY <1>1 DEF Inside, Caller, Caught, Vouching, Late
  <1>4. Retained = {} /\ Inside = {}
    BY <1>1, NothingRuns DEF AdapterInv, IdleIsTrue, Returned, Inside
  <1>5. /\ MaintenanceTypeOK
        /\ slots \in [Slots -> [target : Tasks \cup {NoTask}, generation : Nat \ {0}]]
    BY DEF MaintenanceInv, MaintenanceTypeOK
  <1>6. /\ slots' \in [Slots -> [target : Tasks \cup {NoTask}, generation : Nat \ {0}]]
        /\ \A s \in Slots : slots'[s].generation = slots[s].generation + 1
    BY <1>1, <1>5
  <1>7. MaintenanceTypeOK'
    BY <1>1, <1>5, <1>6 DEF MaintenanceTypeOK
  <1>8. AcceptedWorkIsKept'
    BY <1>1, <1>2, <1>7 DEF MaintenanceInv, AcceptedWorkIsKept
  <1>9. CallsAreCounted' /\ FramesHaveAnOwner' /\ NothingBeforeSeal'
    BY <1>1, <1>2, <1>3, <1>4 DEF MaintenanceInv, CallsAreCounted, FramesHaveAnOwner, NothingBeforeSeal
  <1>10. EvidenceHolds' /\ (Retained \subseteq Live)'
    BY <1>1, <1>2, <1>3, <1>4 DEF MaintenanceInv, EvidenceHolds, Vouched
  <1>11. HandlesAreUnique'
    <2>1. ASSUME NEW h \in handles PROVE h.generation < slots'[h.slot].generation
      <3>1. h.slot \in Slots /\ h.generation \in Nat /\ h.generation <= slots[h.slot].generation
        BY <1>5 DEF MaintenanceInv, MaintenanceTypeOK, HandlesAreUnique
      <3> QED BY <1>5, <1>6, <3>1
    <2>2. ASSUME NEW h \in handles
          PROVE  /\ h.generation <= slots'[h.slot].generation /\ h.generation # slots'[h.slot].generation
      <3>1. h.slot \in Slots /\ h.generation \in Nat
        BY <1>5 DEF MaintenanceTypeOK
      <3> QED BY <1>6, <2>1, <3>1
    <2> QED BY <1>1, <2>2 DEF HandlesAreUnique
  <1> QED BY <1>7, <1>8, <1>9, <1>10, <1>11 DEF MaintenanceInv

(* So the scheduler keeps its invariant below the adapter.                 *)
LEMMA SchedulerBelow ==
  ASSUME MaintenanceInv, AdapterInv, AdapterNext
  PROVE  MaintenanceInv'
  BY CallsAreSteps, ReleaseFindsNoWork, StepIsSound, Stuttering

-----------------------------------------------------------------------------
(* What the operations on cells and metadata change.                       *)

(* Debts may change without anything else of a cell.                       *)
LEMMA DebtOnly ==
  ASSUME AdapterTypeOK, NEW s \in Slots, NEW debt \in BOOLEAN, cells' = [cells EXCEPT ![s].debt = debt]
  PROVE  /\ cells' \in [Slots -> CellRecord]
         /\ \A r \in Slots : /\ cells'[r].key = cells[r].key /\ cells'[r].generation = cells[r].generation
                             /\ cells'[r].bound = cells[r].bound /\ cells'[r].built = cells[r].built
                             /\ cells'[r].token = cells[r].token /\ cells'[r].product = cells[r].product
                             /\ r # s => cells'[r].debt = cells[r].debt
         /\ cells'[s].debt = debt
  <1>1. cells \in [Slots -> CellRecord] /\ cells[s] \in CellRecord
    BY DEF AdapterTypeOK
  <1> DEFINE cell == [cells[s] EXCEPT !.debt = debt]
  <1>2. /\ cell \in CellRecord /\ cell.debt = debt
        /\ cell.key = cells[s].key /\ cell.generation = cells[s].generation
        /\ cell.bound = cells[s].bound /\ cell.built = cells[s].built
        /\ cell.token = cells[s].token /\ cell.product = cells[s].product
    BY <1>1 DEF CellRecord
  <1>3. cells' = [cells EXCEPT ![s] = cell]
    OBVIOUS
  <1> HIDE DEF cell
  <1>4. cells' \in [Slots -> CellRecord] /\ cells'[s] = cell /\ \A r \in Slots : r # s => cells'[r] = cells[r]
    BY <1>1, <1>2, <1>3
  <1> QED BY <1>2, <1>4

(* Metadata of one slot changes, and nothing else of the world.            *)
LEMMA MetaOnly ==
  ASSUME AdapterTypeOK, NEW s \in Slots, NEW m \in MetaRecord, world' = [world EXCEPT !.meta[s] = m]
  PROVE  /\ world' \in WorldRecord /\ world'.kind = world.kind
         /\ world'.slot_of = world.slot_of /\ world'.generation = world.generation /\ world'.clock = world.clock
         /\ world'.meta[s] = m /\ \A r \in Slots : r # s => world'.meta[r] = world.meta[r]
  <1>1. world \in WorldRecord /\ world.meta \in [Slots -> MetaRecord]
    BY AdapterTypes
  <1> DEFINE metas == [world.meta EXCEPT ![s] = m]
  <1>2. metas \in [Slots -> MetaRecord] /\ metas[s] = m /\ \A r \in Slots : r # s => metas[r] = world.meta[r]
    BY <1>1
  <1>3. world' = [world EXCEPT !.meta = metas]
    OBVIOUS
  <1> HIDE DEF metas
  <1>4. /\ world' \in WorldRecord /\ world'.kind = world.kind /\ world'.slot_of = world.slot_of
        /\ world'.generation = world.generation /\ world'.clock = world.clock /\ world'.meta = metas
    BY <1>1, <1>2, <1>3 DEF WorldRecord
  <1> QED BY <1>2, <1>4

(* mark_dirty sets the owned bits and counts the content version up.       *)
LEMMA MarkEffect ==
  ASSUME NEW m \in MetaRecord
  PROVE  /\ Meta!MarkDirty(m, Owned, Meta!TileBox(0)) \in MetaRecord
         /\ Meta!MarkDirty(m, Owned, Meta!TileBox(0)).dirty = Owned
         /\ Meta!MarkDirty(m, Owned, Meta!TileBox(0)).content_version = m.content_version + 1
  <1> DEFINE box == Meta!DirtyBounds(m, Owned, Meta!TileBox(0))
             marked == [m EXCEPT !.bounds = box, !.dirty = m.dirty \cup Owned, !.content_version = Meta!NextVersion(m)]
  <1>1. Owned # {} /\ m.bounds \in Box /\ m.dirty \subseteq Owned /\ m.content_version \in Nat
    BY DEF Owned, MetaRecord
  <1>2. Meta!MarkDirty(m, Owned, Meta!TileBox(0)) = marked
    BY <1>1 DEF Meta!MarkDirty
  <1>3. box \in Box
    BY <1>1 DEF Meta!DirtyBounds, Meta!TileBox, Meta!UnionBox, Box
  <1>4. Meta!NextVersion(m) = m.content_version + 1
    BY DEF Meta!NextVersion
  <1> HIDE DEF box
  <1>5. m.dirty \cup Owned = Owned
    BY <1>1
  <1>6. marked = [m EXCEPT !.bounds = box, !.dirty = Owned, !.content_version = m.content_version + 1]
    BY <1>4, <1>5
  <1> HIDE DEF marked
  <1>7. Owned \in SUBSET Owned /\ m.content_version + 1 \in Nat
    BY <1>1
  <1>8. marked \in MetaRecord /\ marked.dirty = Owned /\ marked.content_version = m.content_version + 1
    BY <1>3, <1>6, <1>7 DEF MetaRecord
  <1> QED BY <1>2, <1>8

(* A content change of another owner counts the version up and leaves the  *)
(* bits.                                                                   *)
LEMMA ChangeEffect ==
  ASSUME NEW m \in MetaRecord
  PROVE  /\ Meta!MarkContentChanged(m) \in MetaRecord
         /\ Meta!MarkContentChanged(m).dirty = m.dirty
         /\ Meta!MarkContentChanged(m).content_version = m.content_version + 1
  BY DEF Meta!MarkContentChanged, Meta!NextVersion, MetaRecord

(* Neither residency nor products change; versions only grow, and bits set *)
(* stay set.                                                               *)
Mild ==
  /\ world' \in WorldRecord /\ cells' \in [Slots -> CellRecord]
  /\ world'.slot_of = world.slot_of /\ world'.generation = world.generation /\ world'.clock = world.clock
  /\ \A s \in Slots :
       /\ world.meta[s].content_version <= world'.meta[s].content_version
       /\ world.meta[s].dirty = Owned => world'.meta[s].dirty = Owned
       /\ cells'[s].key = cells[s].key /\ cells'[s].generation = cells[s].generation
       /\ cells'[s].bound = cells[s].bound /\ cells'[s].built = cells[s].built
       /\ cells'[s].token = cells[s].token /\ cells'[s].product = cells[s].product

(* The world's part of a mild step.                                        *)
LEMMA MarksAreMild ==
  ASSUME AdapterTypeOK, NEW s \in Slots, Marked(s) \/ Changed(s) \/ world' = world
  PROVE  /\ world' \in WorldRecord
         /\ world'.slot_of = world.slot_of /\ world'.generation = world.generation /\ world'.clock = world.clock
         /\ \A r \in Slots : /\ world.meta[r].content_version <= world'.meta[r].content_version
                             /\ world.meta[r].dirty = Owned => world'.meta[r].dirty = Owned
         /\ Marked(s) => /\ world'.meta[s].dirty = Owned
                         /\ world'.meta[s].content_version = world.meta[s].content_version + 1
  <1>1. /\ world \in WorldRecord
        /\ \A r \in Slots : world.meta[r] \in MetaRecord /\ world.meta[r].content_version \in Nat
    BY AdapterTypes
  <1>2. CASE Marked(s)
    <2> DEFINE m == Meta!MarkDirty(world.meta[s], Owned, Meta!TileBox(0))
    <2>1. world' = [world EXCEPT !.meta[s] = m]
      BY <1>2 DEF Marked
    <2>2. m \in MetaRecord /\ m.dirty = Owned /\ m.content_version = world.meta[s].content_version + 1
      BY <1>1, MarkEffect
    <2> HIDE DEF m
    <2>3. /\ world' \in WorldRecord
          /\ world'.slot_of = world.slot_of /\ world'.generation = world.generation /\ world'.clock = world.clock
          /\ world'.meta[s] = m /\ \A r \in Slots : r # s => world'.meta[r] = world.meta[r]
      BY <2>1, <2>2, MetaOnly
    <2>4. world.meta[s].content_version <= m.content_version
      BY <1>1, <2>2
    <2>5. \A r \in Slots : world.meta[r].content_version <= world'.meta[r].content_version
      BY <1>1, <2>3, <2>4
    <2> QED BY <2>2, <2>3, <2>5
  <1>3. CASE Changed(s)
    <2> DEFINE m == Meta!MarkContentChanged(world.meta[s])
    <2>1. world' = [world EXCEPT !.meta[s] = m]
      BY <1>3 DEF Changed
    <2>2. m \in MetaRecord /\ m.dirty = world.meta[s].dirty /\ m.content_version = world.meta[s].content_version + 1
      BY <1>1, ChangeEffect
    <2> HIDE DEF m
    <2>3. /\ world' \in WorldRecord
          /\ world'.slot_of = world.slot_of /\ world'.generation = world.generation /\ world'.clock = world.clock
          /\ world'.meta[s] = m /\ \A r \in Slots : r # s => world'.meta[r] = world.meta[r]
      BY <2>1, <2>2, MetaOnly
    <2>4. world.meta[s].content_version <= m.content_version
      BY <1>1, <2>2
    <2>5. \A r \in Slots : /\ world.meta[r].content_version <= world'.meta[r].content_version
                           /\ world.meta[r].dirty = Owned => world'.meta[r].dirty = Owned
      BY <1>1, <2>2, <2>3, <2>4
    <2> QED BY <1>2, <2>3, <2>5
  <1>4. CASE world' = world
    BY <1>1, <1>2, <1>4
  <1> QED BY <1>2, <1>3, <1>4

(* A step that touches only the metadata by marks, and only the debt of a  *)
(* cell, is mild.                                                          *)
LEMMA MarkAndDebtAreMild ==
  ASSUME AdapterTypeOK, NEW s \in Slots, Marked(s) \/ Changed(s) \/ world' = world,
         cells' = cells \/ \E debt \in BOOLEAN : cells' = [cells EXCEPT ![s].debt = debt]
  PROVE  Mild
  <1>1. cells' \in [Slots -> CellRecord]
        /\ \A r \in Slots : /\ cells'[r].key = cells[r].key /\ cells'[r].generation = cells[r].generation
                            /\ cells'[r].bound = cells[r].bound /\ cells'[r].built = cells[r].built
                            /\ cells'[r].token = cells[r].token /\ cells'[r].product = cells[r].product
    <2>1. CASE cells' = cells
      BY <2>1 DEF AdapterTypeOK
    <2>2. CASE \E debt \in BOOLEAN : cells' = [cells EXCEPT ![s].debt = debt]
      BY <2>2, DebtOnly
    <2> QED BY <2>1, <2>2
  <1> QED BY <1>1, MarksAreMild DEF Mild

(* The steps of the adapter that neither bind slots nor build products.    *)
MildStep ==
  \/ \E k \in SparseKeys : MarkDirty(k) \/ Retry(k) \/ OtherOwnerMarks(k) \/ CallbackMarks(k)
  \/ \E b \in DrainBudgets : RunSome(b)
  \/ OfferProceeds \/ OfferReturns \/ Flush \/ Reoffer \/ FlushDrains \/ DrainProceeds \/ DrainReturns
  \/ Finalize \/ RunBeginsSlot \/ FollowUp \/ CallbackThrows \/ RunReturns \/ AdapterReleases

(* Offers, drains and the runs of callbacks, up to what a callback reads.  *)
LEMMA MildSteps ==
  ASSUME MaintenanceInv, AdapterInv, MildStep
  PROVE  Mild
  <1>0. AdapterTypeOK /\ Capacity \in Slots
    BY AdapterTypes DEF AdapterInv, Slots
  <1>1. \A s \in Slots : cells[s].debt \in BOOLEAN
    BY <1>0 DEF AdapterTypeOK, CellRecord
  <1>2. CASE UNCHANGED <<world, cells>>
    BY <1>0, <1>2, MarkAndDebtAreMild
  <1>3. ASSUME NEW s \in Slots, NEW call, OfferSlot(s, call), Marked(s) \/ world' = world PROVE Mild
    BY <1>0, <1>3, MarkAndDebtAreMild DEF OfferSlot
  <1>4. ASSUME NEW s \in Slots, NEW debt \in BOOLEAN, NestedSchedule(s, debt), Marked(s) \/ world' = world PROVE Mild
    <2>1. \E d \in BOOLEAN : cells' = [cells EXCEPT ![s].debt = d]
      BY <1>4 DEF NestedSchedule
    <2> QED BY <1>0, <1>4, <2>1, MarkAndDebtAreMild
  <1>5. ASSUME NEW k \in SparseKeys, MarkDirty(k) \/ Retry(k) PROVE Mild
    BY <1>3, <1>5 DEF MarkDirty, Retry, BoundSlots
  <1>6. ASSUME NEW k \in SparseKeys, OtherOwnerMarks(k) PROVE Mild
    <2>1. world.slot_of[k] \in Slots /\ Changed(world.slot_of[k]) /\ cells' = cells
      BY <1>0, <1>6, AdapterTypes DEF OtherOwnerMarks, ResidentKeys
    <2> QED BY <1>0, <2>1, MarkAndDebtAreMild
  <1>7. ASSUME NEW k \in SparseKeys, CallbackMarks(k) PROVE Mild
    BY <1>1, <1>4, <1>7 DEF CallbackMarks, BoundSlots
  <1>8. CASE Reoffer
    <2>1. PICK s \in op.todo \cap Indebted : OfferSlot(s, [op EXCEPT !.offered = op.name = "after"]) /\ world' = world
      BY <1>8 DEF Reoffer
    <2> QED BY <1>3, <2>1 DEF Indebted
  <1>9. CASE OfferReturns
    <2>1. PICK d : cells' = [cells EXCEPT ![op.slot].debt = d] /\ d \in BOOLEAN
      <3>1. CASE op.slot \in Slots
        BY <1>1, <1>9, <3>1 DEF OfferReturns
      <3>2. CASE op.slot \notin Slots
        <4>1. calls[Main].at = "away"
          BY <1>0, <3>2, AdapterTypes DEF AdapterInv, CallsAreNested, Away
        <4> QED BY <1>9, <4>1 DEF OfferReturns, Leave
      <3> QED BY <3>1, <3>2
    <2>2. op.slot \in Slots \/ cells' = cells
      BY <1>0, <2>1 DEF AdapterTypeOK
    <2>3. world' = world
      BY <1>9 DEF OfferReturns
    <2> QED BY <1>0, <1>2, <2>1, <2>2, <2>3, MarkAndDebtAreMild
  <1>10. CASE RunBeginsSlot
    <2>1. ASSUME NEW s \in Slots, SlotBegins(s) PROVE Mild
      BY <1>0, <2>1, MarkAndDebtAreMild DEF SlotBegins
    <2>2. FrameRuns => Top.slot \in Slots
      BY TopFrame DEF FrameRuns, MaintenanceInv, FrameRecord
    <2> QED BY <1>10, <2>1, <2>2 DEF RunBeginsSlot
  <1>11. CASE FollowUp
    <2>1. Top.slot \in Slots
      BY <1>11, TopFrame DEF FollowUp, AtBody, Underway, MaintenanceInv, FrameRecord
    <2>2. NestedSchedule(Top.slot, TRUE) /\ world' = world
      BY <1>11 DEF FollowUp
    <2> QED BY <1>4, <2>1, <2>2
  <1>12. CASE \E b \in DrainBudgets : RunSome(b)
    BY <1>2, <1>12 DEF RunSome
  <1>13. CASE OfferProceeds \/ Flush \/ FlushDrains \/ DrainProceeds \/ DrainReturns \/ Finalize \/ CallbackThrows
              \/ RunReturns \/ AdapterReleases
    BY <1>2, <1>13 DEF OfferProceeds, Flush, FlushDrains, DrainProceeds, DrainReturns, Finalize, CallbackThrows,
                       RunReturns, AdapterReleases, adapter_vars
  <1> QED BY <1>5, <1>6, <1>7, <1>8, <1>9, <1>10, <1>11, <1>12, <1>13 DEF MildStep

(* A mild step binds nothing, and a product that was read since some       *)
(* version still was.                                                      *)
LEMMA MildKeeps ==
  ASSUME AdapterTypeOK, Mild
  PROVE  /\ ResidentKeys' = ResidentKeys
         /\ \A s \in Slots : /\ Settled(s)' <=> Settled(s)
                             /\ BindingCurrent(s)' <=> BindingCurrent(s)
         /\ ResidencyIsUnique => ResidencyIsUnique'
         /\ \A s \in Slots, g \in Nat, v \in Nat : ReadSince(s, g, v) => ReadSince(s, g, v)'
         /\ ProductsHold => ProductsHold'
  <1>1. ResidentKeys' = ResidentKeys
    BY DEF Mild, ResidentKeys
  <1>2. \A s \in Slots : (BindingCurrent(s)' <=> BindingCurrent(s)) /\ (Settled(s)' <=> Settled(s))
    BY <1>1 DEF Mild, BindingCurrent, Settled
  <1>3. ResidencyIsUnique => ResidencyIsUnique'
    BY <1>1 DEF Mild, ResidencyIsUnique
  <1>4. /\ \A s \in Slots : /\ world.meta[s].content_version \in Nat /\ world'.meta[s].content_version \in Nat
                            /\ world.generation[s] \in Nat
                            /\ cells[s].token.generation \in Nat /\ cells[s].token.version \in Nat
    BY AdapterTypes DEF Mild, WorldRecord, MetaRecord, Token
  <1>5. ASSUME NEW s \in Slots, NEW g \in Nat, NEW v \in Nat, ReadSince(s, g, v) PROVE ReadSince(s, g, v)'
    <2>1. PICK w \in v .. world.meta[s].content_version : cells[s].product = <<g, w>>
      BY <1>5 DEF ReadSince
    <2>2. w \in v .. world'.meta[s].content_version
      BY <1>4, <2>1 DEF Mild
    <2>3. cells'[s].product = <<g, w>>
      BY <2>1 DEF Mild
    <2> QED BY <2>2, <2>3 DEF ReadSince
  <1>6. ProductsHold => ProductsHold'
    <2>1. ASSUME ProductsHold, NEW s \in Slots, cells'[s].built, cells'[s].token.generation = world'.generation[s]
          PROVE  ReadSince(s, cells[s].token.generation, cells[s].token.version)'
      <3>1. /\ cells[s].built /\ cells[s].token.generation = world.generation[s]
            /\ cells'[s].token = cells[s].token
        BY <2>1 DEF Mild
      <3> DEFINE g == cells[s].token.generation
                 v == cells[s].token.version
      <3>2. ReadSince(s, g, v) /\ g \in Nat /\ v \in Nat
        BY <1>4, <2>1, <3>1 DEF ProductsHold
      <3>3. \E w \in v .. world'.meta[s].content_version : cells'[s].product = <<g, w>>
        BY <1>5, <3>2 DEF ReadSince
      <3>4. cells'[s].token.generation = g /\ cells'[s].token.version = v
        BY <3>1
      <3> QED BY <3>3, <3>4 DEF ReadSince
    <2> QED BY <2>1 DEF ProductsHold
  <1> QED BY <1>1, <1>2, <1>3, <1>5, <1>6

-----------------------------------------------------------------------------
(* The run_slot on top.                                                    *)

(* The run in progress has its frame, its body and a slot of its own.      *)
LEMMA TopBody ==
  ASSUME MaintenanceInv, AdapterInv, NEW phase, AtBody(phase)
  PROVE  /\ stack # <<>> /\ Underway /\ Top.active /\ Top.slot \in Slots /\ Top = stack[Len(stack)]
         /\ Len(stack) \in Nat \ {0} /\ Len(bodies) = Len(stack) /\ DOMAIN bodies = 1 .. Len(stack)
         /\ DOMAIN stack = 1 .. Len(stack) /\ Len(stack) \in DOMAIN stack
         /\ Body = bodies[Len(stack)] /\ Body \in BodyRecord /\ Body.phase = phase
         /\ BodyHolds(Top.slot, Body)
         /\ \A i \in 1 .. Len(stack) : /\ bodies[i] \in BodyRecord /\ stack[i].slot \in Slots /\ stack[i].active
                                       /\ i # Len(stack) => stack[i].slot # Top.slot
  <1>1. /\ bodies \in Seq(BodyRecord) /\ FramesHaveBodies /\ MaintenanceTypeOK /\ BodiesHold
        /\ stack \in Seq(FrameRecord)
    BY DEF AdapterInv, AdapterTypeOK, MaintenanceInv, MaintenanceTypeOK
  <1>2. Underway /\ stack # <<>> /\ Top.active /\ Body.phase = phase
    BY DEF AtBody, Underway
  <1>3. /\ Len(stack) \in Nat \ {0} /\ DOMAIN stack = 1 .. Len(stack) /\ Top = stack[Len(stack)] /\ Top \in FrameRecord
    BY <1>1, <1>2, TopFrame
  <1>4. Len(bodies) = Len(stack)
    BY <1>1, <1>2 DEF FramesHaveBodies
  <1>5. DOMAIN bodies = 1 .. Len(stack) /\ Body = bodies[Len(stack)] /\ Len(stack) \in DOMAIN bodies
    BY <1>1, <1>3, <1>4 DEF Body, Last
  <1>6. \A i \in 1 .. Len(stack) : bodies[i] \in BodyRecord /\ stack[i] \in FrameRecord
    BY <1>1, <1>3, <1>5
  <1>7. \A i \in 1 .. Len(stack) : stack[i].slot \in Slots
    BY <1>6 DEF FrameRecord
  <1>8. \A i \in 1 .. Len(stack) : i = Len(stack) \/ i < Len(stack)
    <2>1. Len(stack) \in Nat
      BY <1>3
    <2>2. \A n \in Nat : \A i \in 1 .. n : i = n \/ i < n
      OBVIOUS
    <2> QED BY <2>1, <2>2
  <1>9. \A i \in 1 .. Len(stack) : stack[i].active /\ (i # Len(stack) => stack[i].slot # Top.slot)
    BY <1>1, <1>2, <1>3, <1>8 DEF FramesHaveBodies
  <1>10. BodyHolds(Top.slot, Body)
    BY <1>1, <1>3, <1>5 DEF BodiesHold
  <1> QED BY <1>2, <1>3, <1>4, <1>5, <1>6, <1>7, <1>9, <1>10

(* What it learns is kept in its own body.                                 *)
LEMMA BodyChanges ==
  ASSUME MaintenanceInv, AdapterInv, NEW phase, AtBody(phase), NEW body \in BodyRecord, WithBody(body)
  PROVE  /\ bodies' \in Seq(BodyRecord) /\ Len(bodies') = Len(bodies) /\ DOMAIN bodies' = DOMAIN bodies
         /\ bodies'[Len(stack)] = body
         /\ \A i \in DOMAIN bodies : i # Len(stack) => bodies'[i] = bodies[i]
  <1>1. /\ bodies \in Seq(BodyRecord) /\ Len(bodies) \in Nat \ {0} /\ Len(stack) = Len(bodies)
    BY TopBody DEF AdapterInv, AdapterTypeOK
  <1>2. bodies' = Append(SubSeq(bodies, 1, Len(bodies) - 1), body)
    BY DEF WithBody, Front
  <1> DEFINE front == SubSeq(bodies, 1, Len(bodies) - 1)
  <1>3. front \in Seq(BodyRecord) /\ Len(front) = Len(bodies) - 1 /\ \A i \in 1 .. Len(bodies) - 1 : front[i] = bodies[i]
    BY <1>1
  <1> HIDE DEF front
  <1>4. /\ bodies' \in Seq(BodyRecord) /\ Len(bodies') = Len(bodies) /\ bodies'[Len(bodies)] = body
        /\ \A i \in 1 .. Len(bodies) - 1 : bodies'[i] = bodies[i]
    BY <1>1, <1>2, <1>3 DEF front
  <1>5. DOMAIN bodies' = 1 .. Len(bodies) /\ DOMAIN bodies = 1 .. Len(bodies)
    BY <1>1, <1>4
  <1> QED BY <1>1, <1>4, <1>5

(* When it returns the others keep theirs.                                 *)
LEMMA BodyGoes ==
  ASSUME MaintenanceInv, AdapterInv, NEW phase, AtBody(phase), bodies' = Front(bodies)
  PROVE  /\ bodies' \in Seq(BodyRecord) /\ Len(bodies') = Len(bodies) - 1 /\ DOMAIN bodies' = 1 .. Len(stack) - 1
         /\ \A i \in DOMAIN bodies' : bodies'[i] = bodies[i] /\ i \in DOMAIN bodies /\ i # Len(stack)
  <1>1. /\ bodies \in Seq(BodyRecord) /\ Len(bodies) \in Nat \ {0} /\ Len(stack) = Len(bodies)
        /\ DOMAIN bodies = 1 .. Len(stack)
    BY TopBody DEF AdapterInv, AdapterTypeOK
  <1>2. bodies' = SubSeq(bodies, 1, Len(bodies) - 1)
    BY DEF Front
  <1>3. /\ bodies' \in Seq(BodyRecord) /\ Len(bodies') = Len(bodies) - 1
        /\ \A i \in 1 .. Len(bodies) - 1 : bodies'[i] = bodies[i]
    BY <1>1, <1>2
  <1>4. DOMAIN bodies' = 1 .. Len(stack) - 1
    BY <1>1, <1>3
  <1> QED BY <1>1, <1>3, <1>4

(* The bodies of mild steps: the slots below keep theirs, and what a mark  *)
(* adds to unread is a later version or a repeat.                          *)
LEMMA BodyStays ==
  ASSUME AdapterTypeOK, Mild, NEW s \in Slots, NEW body \in BodyRecord, BodyHolds(s, body),
         s \in unread' => s \in unread \/ world.meta[s].content_version < world'.meta[s].content_version,
         Synchronous' /\ s \in unread' /\ s \notin Framed' => Synchronous /\ s \in unread /\ s \notin Framed
  PROVE  BodyHolds(s, body)'
  <1>1. /\ (Settled(s)' <=> Settled(s)) /\ cells'[s].bound = cells[s].bound
        /\ world'.generation = world.generation
        /\ world.meta[s].content_version <= world'.meta[s].content_version
    BY MildKeeps DEF Mild
  <1>2. /\ world.meta[s].content_version \in Nat /\ world'.meta[s].content_version \in Nat
        /\ world.generation[s] \in Nat /\ body.observed.content_version \in Nat
    BY AdapterTypes DEF Mild, WorldRecord, MetaRecord, BodyRecord, Observation
  <1> DEFINE v == body.observed.content_version
             g == world.generation[s]
  <1>3. ReadSince(s, g, v) => \E w \in v .. world'.meta[s].content_version : cells'[s].product = <<g, w>>
    BY <1>2, MildKeeps DEF ReadSince
  <1>4. body.phase = "rebuilt" => ReadSince(s, g, v) /\ v <= world.meta[s].content_version
                                  /\ (s \in unread => v < world.meta[s].content_version)
    BY DEF BodyHolds
  <1> HIDE DEF v, g
  <1>5. body.phase = "rebuilt" => \E w \in v .. world'.meta[s].content_version : cells'[s].product = <<g, w>>
    BY <1>3, <1>4
  <1>6. body.phase = "rebuilt" => (s \in unread' => v < world'.meta[s].content_version)
    <2>1. v \in Nat
      BY <1>2 DEF v
    <2> QED BY <1>1, <1>2, <1>4, <2>1
  <1>7. body.phase \in {"rebuilding", "rebuilt"} => Settled(s)' /\ v <= world'.meta[s].content_version
    <2>1. body.phase \in {"rebuilding", "rebuilt"} => Settled(s) /\ v <= world.meta[s].content_version
      BY DEF BodyHolds, v
    <2>2. v \in Nat
      BY <1>2 DEF v
    <2> QED BY <1>1, <1>2, <2>1, <2>2
  <1>8. /\ cells'[s].bound => body.units = 1
        /\ Synchronous' /\ body.phase # "rebuilding" /\ s \in unread' => s \in Framed'
    BY <1>1 DEF BodyHolds
  <1>9. ReadSince(s, g, v)' <=> \E w \in v .. world'.meta[s].content_version : cells'[s].product = <<g, w>>
    BY <1>1 DEF ReadSince, g, v
  <1>10. world'.generation[s] = g
    BY <1>1 DEF g
  <1>11. body.phase = "rebuilt" =>
           \E w \in body.observed.content_version .. world'.meta[s].content_version :
              cells'[s].product = <<world'.generation[s], w>>
    BY <1>5, <1>10 DEF v
  <1> QED BY <1>6, <1>7, <1>8, <1>11 DEF BodyHolds, ReadSince, v

-----------------------------------------------------------------------------
(* The steps that are not mild.                                            *)

(* The callback reads the chunk: the product is what it has now.           *)
LEMMA ReadEffect ==
  ASSUME MaintenanceInv, AdapterInv, CallbackReads
  PROVE  /\ cells' \in [Slots -> CellRecord] /\ Top.slot \in Slots /\ world' = world
         /\ cells'[Top.slot].product = Content(Top.slot)
         /\ \A r \in Slots : r # Top.slot => cells'[r] = cells[r]
         /\ \A r \in Slots : /\ cells'[r].key = cells[r].key /\ cells'[r].generation = cells[r].generation
                             /\ cells'[r].bound = cells[r].bound /\ cells'[r].built = cells[r].built
                             /\ cells'[r].token = cells[r].token /\ cells'[r].debt = cells[r].debt
  <1> DEFINE s == Top.slot
             content == Content(s)
             cell == [cells[s] EXCEPT !.product = content]
  <1>1. AtBody("rebuilding") /\ world' = world /\ cells' = [cells EXCEPT ![s] = cell]
    BY DEF CallbackReads
  <1>2. s \in Slots
    BY <1>1, TopBody
  <1>3. content \in Nat \X Nat
    BY <1>2, AdapterTypes DEF AdapterInv, Content
  <1> HIDE DEF content, s
  <1>4. cells \in [Slots -> CellRecord] /\ cells[s] \in CellRecord
    BY <1>2 DEF AdapterInv, AdapterTypeOK
  <1>5. /\ cell \in CellRecord /\ cell.product = content
        /\ cell.key = cells[s].key /\ cell.generation = cells[s].generation
        /\ cell.bound = cells[s].bound /\ cell.built = cells[s].built
        /\ cell.token = cells[s].token /\ cell.debt = cells[s].debt
    BY <1>3, <1>4 DEF CellRecord
  <1> HIDE DEF cell
  <1>6. cells' \in [Slots -> CellRecord] /\ cells'[s] = cell /\ \A r \in Slots : r # s => cells'[r] = cells[r]
    BY <1>1, <1>2, <1>4, <1>5
  <1>7. cells'[s].product = content
    BY <1>5, <1>6
  <1>8. \A r \in Slots : /\ cells'[r].key = cells[r].key /\ cells'[r].generation = cells[r].generation
                         /\ cells'[r].bound = cells[r].bound /\ cells'[r].built = cells[r].built
                         /\ cells'[r].token = cells[r].token /\ cells'[r].debt = cells[r].debt
    BY <1>5, <1>6
  <1> QED BY <1>1, <1>2, <1>6, <1>7, <1>8 DEF s, content

(* An observation that is still current clears what it saw; another clears *)
(* nothing.                                                                *)
LEMMA ClearEffect ==
  ASSUME NEW m \in MetaRecord, NEW observed \in Observation, NEW generation
  PROVE  /\ Meta!ClearDirtyObserved(m, observed, generation) \in MetaRecord
         /\ Meta!ClearDirtyObserved(m, observed, generation).content_version = m.content_version
         /\ ~Meta!StillCurrent(m, observed, generation) => Meta!ClearDirtyObserved(m, observed, generation) = m
  <1> DEFINE box == IF m.dirty \subseteq observed.mask THEN Meta!NoBox ELSE m.bounds
             rest == m.dirty \ observed.mask
             cleared == [m EXCEPT !.dirty = rest, !.bounds = box]
  <1>1. m.dirty \subseteq Owned /\ m.bounds \in Box
    BY DEF MetaRecord
  <1>2. box \in Box /\ rest \in SUBSET Owned
    BY <1>1 DEF Box, Meta!NoBox
  <1>3. \/ Meta!ClearDirtyObserved(m, observed, generation) = m
        \/ /\ Meta!StillCurrent(m, observed, generation)
           /\ Meta!ClearDirtyObserved(m, observed, generation) = cleared
    BY DEF Meta!ClearDirtyObserved, Meta!ClearDirty
  <1>4. ~Meta!StillCurrent(m, observed, generation) => Meta!ClearDirtyObserved(m, observed, generation) = m
    BY DEF Meta!ClearDirtyObserved
  <1> HIDE DEF box, rest
  <1>5. cleared \in MetaRecord /\ cleared.content_version = m.content_version
    BY <1>2 DEF MetaRecord
  <1> QED BY <1>3, <1>4, <1>5

(* The callback returns: the token names the version it observed first.    *)
LEMMA ReturnEffect ==
  ASSUME MaintenanceInv, AdapterInv, CallbackReturns
  PROVE  /\ cells' \in [Slots -> CellRecord] /\ world' \in WorldRecord /\ Top.slot \in Slots
         /\ world'.slot_of = world.slot_of /\ world'.generation = world.generation /\ world'.clock = world.clock
         /\ \A r \in Slots : /\ world'.meta[r].content_version = world.meta[r].content_version
                             /\ r # Top.slot => world'.meta[r] = world.meta[r] /\ cells'[r] = cells[r]
                             /\ cells'[r].key = cells[r].key /\ cells'[r].generation = cells[r].generation
                             /\ cells'[r].bound = cells[r].bound /\ cells'[r].product = cells[r].product
         /\ cells'[Top.slot].built
         /\ cells'[Top.slot].token.version = Body.observed.content_version
         /\ cells'[Top.slot].token.generation = cells[Top.slot].generation
         /\ \/ UNCHANGED told /\ cells'[Top.slot].debt = cells[Top.slot].debt /\ world'.meta[Top.slot] = world.meta[Top.slot]
               /\ WithBody([Body EXCEPT !.phase = "stale"])
            \/ /\ world.meta[Top.slot].content_version = Body.observed.content_version /\ ~cells'[Top.slot].debt
               /\ told' = told \ {Top.slot} /\ WithBody([Body EXCEPT !.phase = "done"])
  <1> DEFINE s == Top.slot
             observed == Body.observed
             cleared == Meta!StillCurrent(world.meta[s], observed, world.generation[s])
             debt == cells[s].debt /\ ~cleared
             token == [key |-> cells[s].key, version |-> observed.content_version, generation |-> cells[s].generation]
             cell == [cells[s] EXCEPT !.built = TRUE, !.debt = debt, !.token = token]
             m == Meta!ClearDirtyObserved(world.meta[s], observed, world.generation[s])
  <1>1. /\ AtBody("rebuilt")
        /\ cells' = [cells EXCEPT ![s].built = TRUE, ![s].debt = @ /\ ~cleared, ![s].token = token]
        /\ world' = [world EXCEPT !.meta[s] = m]
        /\ WithBody([Body EXCEPT !.phase = IF cleared THEN "done" ELSE "stale"])
        /\ told' = IF cleared THEN told \ {s} ELSE told
    BY DEF CallbackReturns, Observed
  <1>2. s \in Slots /\ Body \in BodyRecord
    BY <1>1, TopBody
  <1>3. /\ cells \in [Slots -> CellRecord] /\ cells[s] \in CellRecord /\ world.meta[s] \in MetaRecord
        /\ AdapterTypeOK
    BY <1>2, AdapterTypes DEF AdapterInv, AdapterTypeOK
  <1>4. observed \in Observation
    BY <1>2 DEF BodyRecord
  <1>5. observed.content_version \in Nat
    BY <1>4 DEF Observation
  <1>6. token \in Token /\ token.version = observed.content_version /\ token.generation = cells[s].generation
    BY <1>3, <1>5 DEF Token, CellRecord
  <1>7. debt \in BOOLEAN /\ (cleared => ~debt) /\ (~cleared => debt = cells[s].debt)
    BY <1>3 DEF CellRecord
  <1>8. cells' = [cells EXCEPT ![s] = cell]
    BY <1>1, <1>2, <1>3
  <1>9. /\ m \in MetaRecord /\ m.content_version = world.meta[s].content_version
        /\ ~cleared => m = world.meta[s]
    BY <1>3, <1>4, ClearEffect
  <1>10. cleared => world.meta[s].content_version = observed.content_version
    BY DEF Meta!StillCurrent
  <1> HIDE DEF s, observed, cleared, debt, token, m
  <1>11. /\ cell \in CellRecord /\ cell.built /\ cell.debt = debt /\ cell.token = token
         /\ cell.key = cells[s].key /\ cell.generation = cells[s].generation
         /\ cell.bound = cells[s].bound /\ cell.product = cells[s].product
    BY <1>3, <1>6, <1>7 DEF CellRecord
  <1> HIDE DEF cell
  <1>12. cells' \in [Slots -> CellRecord] /\ cells'[s] = cell /\ \A r \in Slots : r # s => cells'[r] = cells[r]
    BY <1>2, <1>3, <1>8, <1>11
  <1>13. /\ world' \in WorldRecord
         /\ world'.slot_of = world.slot_of /\ world'.generation = world.generation /\ world'.clock = world.clock
         /\ world'.meta[s] = m /\ \A r \in Slots : r # s => world'.meta[r] = world.meta[r]
    BY <1>1, <1>2, <1>3, <1>9, MetaOnly
  <1>14. \A r \in Slots : /\ world'.meta[r].content_version = world.meta[r].content_version
                          /\ r # s => world'.meta[r] = world.meta[r] /\ cells'[r] = cells[r]
                          /\ cells'[r].key = cells[r].key /\ cells'[r].generation = cells[r].generation
                          /\ cells'[r].bound = cells[r].bound /\ cells'[r].product = cells[r].product
    BY <1>9, <1>11, <1>12, <1>13
  <1>15. /\ cells'[s].built /\ cells'[s].token.version = observed.content_version
         /\ cells'[s].token.generation = cells[s].generation
    BY <1>6, <1>11, <1>12
  <1>16. CASE cleared
    <2>1. WithBody([Body EXCEPT !.phase = "done"]) /\ told' = told \ {s}
      BY <1>1, <1>16
    <2>2. ~cells'[s].debt /\ world.meta[s].content_version = observed.content_version
      BY <1>7, <1>10, <1>11, <1>12, <1>16
    <2> QED BY <1>2, <1>12, <1>13, <1>14, <1>15, <2>1, <2>2 DEF s, observed
  <1>17. CASE ~cleared
    <2>1. WithBody([Body EXCEPT !.phase = "stale"]) /\ told' = told
      BY <1>1, <1>17
    <2>2. cells'[s].debt = cells[s].debt /\ world'.meta[s] = world.meta[s]
      BY <1>7, <1>9, <1>11, <1>12, <1>13, <1>17
    <2> QED BY <1>2, <1>12, <1>13, <1>14, <1>15, <2>1, <2>2 DEF s, observed
  <1> QED BY <1>16, <1>17

-----------------------------------------------------------------------------
(* Residency.                                                              *)

(* bind_slot names a chunk and an interval, and keeps what was built only  *)
(* for the same ones; unbind_slot forgets both.                            *)
LEMMA BindEffect ==
  ASSUME NEW cell \in CellRecord, NEW k \in SparseKeys, NEW g \in Nat
  PROVE  /\ BoundTo(cell, k, g) \in CellRecord /\ BoundTo(cell, k, g).bound
         /\ BoundTo(cell, k, g).key = k /\ BoundTo(cell, k, g).generation = g
         /\ BoundTo(cell, k, g).token = cell.token /\ BoundTo(cell, k, g).product = cell.product
         /\ BoundTo(cell, k, g).built => cell.built /\ cell.bound
         /\ BoundTo(cell, k, g).debt => cell.debt
  <1> DEFINE same == cell.bound /\ cell.key = k /\ cell.generation = g
             built == cell.built /\ same
             debt == cell.debt /\ same
  <1>1. cell.bound \in BOOLEAN /\ cell.built \in BOOLEAN /\ cell.debt \in BOOLEAN
    BY DEF CellRecord
  <1>2. /\ built \in BOOLEAN /\ debt \in BOOLEAN
        /\ built => cell.built /\ cell.bound
        /\ debt => cell.debt
    BY <1>1
  <1>3. BoundTo(cell, k, g) = [cell EXCEPT !.built = built, !.debt = debt, !.bound = TRUE, !.key = k, !.generation = g]
    BY DEF BoundTo
  <1> HIDE DEF built, debt
  <1> QED BY <1>2, <1>3 DEF CellRecord

(* An unbound slot has nothing built and no debt, but keeps its product.   *)
LEMMA UnbindEffect ==
  ASSUME NEW cell \in CellRecord
  PROVE  /\ Emptied(cell) \in CellRecord
         /\ ~Emptied(cell).bound /\ ~Emptied(cell).built /\ ~Emptied(cell).debt
         /\ Emptied(cell).token = cell.token /\ Emptied(cell).product = cell.product
  BY DEF Emptied, CellRecord

(* Chunks move in or out of one slot: the others keep theirs, and what the *)
(* slot gets is a new interval.                                            *)
Moved(s) ==
  /\ world' \in WorldRecord /\ world.clock <= world'.clock
  /\ \A r \in Slots : r # s =>
       /\ world'.generation[r] = world.generation[r] /\ world'.meta[r] = world.meta[r]
       /\ \A j \in SparseKeys : world'.slot_of[j] = r <=> world.slot_of[j] = r
  /\ \A i, j \in SparseKeys : world'.slot_of[i] = s /\ world'.slot_of[j] = s => i = j
  /\ world'.generation[s] <= world'.clock
  /\ \/ world'.generation[s] = world.generation[s] /\ world'.meta[s] = world.meta[s]
     \/ world.clock < world'.generation[s]

(* Its cell at most loses what was built.                                  *)
CellMoved(s) ==
  /\ cells' \in [Slots -> CellRecord]
  /\ \A r \in Slots : r # s => cells'[r] = cells[r]
  /\ cells'[s].token = cells[s].token /\ cells'[s].product = cells[s].product
  /\ cells'[s].built => cells[s].built
  /\ cells'[s].debt => cells[s].debt

(* Materialization takes the slot away from the chunk that had it.         *)
LEMMA MaterializeMoves ==
  ASSUME AdapterTypeOK, NEW k \in SparseKeys \ ResidentKeys, NEW s \in Slots, world' = Materialized(k, s)
  PROVE  Moved(s) /\ world'.clock = world.clock + 1 /\ world'.kind = world.kind
  <1> DEFINE slot_of == [j \in SparseKeys |-> IF j = k THEN s
                                              ELSE IF world.slot_of[j] = s THEN NoSlot ELSE world.slot_of[j]]
             generation == [world.generation EXCEPT ![s] = world.clock + 1]
             meta == [world.meta EXCEPT ![s] = Meta!FreshMeta]
             clock == world.clock + 1
  <1>1. /\ world \in WorldRecord /\ world.slot_of \in [SparseKeys -> Slots \cup {NoSlot}]
        /\ world.generation \in [Slots -> Nat] /\ world.clock \in Nat /\ world.meta \in [Slots -> MetaRecord]
        /\ s # NoSlot
    BY AdapterTypes
  <1>2. world' = [world EXCEPT !.slot_of = slot_of, !.clock = clock, !.generation = generation, !.meta = meta]
    BY DEF Materialized
  <1>3. slot_of \in [SparseKeys -> Slots \cup {NoSlot}]
    BY <1>1
  <1>4. /\ \A r \in Slots : r # s => \A j \in SparseKeys : slot_of[j] = r <=> world.slot_of[j] = r
        /\ \A i, j \in SparseKeys : slot_of[i] = s /\ slot_of[j] = s => i = j
    <2>1. world.slot_of[k] = NoSlot
      BY <1>1 DEF ResidentKeys
    <2>2. \A r \in Slots : r # NoSlot
      BY AdapterTypes
    <2>3. \A j \in SparseKeys : /\ j = k => slot_of[j] = s
                                /\ j # k /\ world.slot_of[j] = s => slot_of[j] = NoSlot
                                /\ j # k /\ world.slot_of[j] # s => slot_of[j] = world.slot_of[j]
      OBVIOUS
    <2> HIDE DEF slot_of
    <2>4. \A j \in SparseKeys : slot_of[j] = s => j = k
      BY <1>1, <2>3
    <2>5. ASSUME NEW r \in Slots, r # s, NEW j \in SparseKeys PROVE slot_of[j] = r <=> world.slot_of[j] = r
      BY <2>1, <2>2, <2>3, <2>5
    <2> QED BY <2>4, <2>5
  <1>5. generation \in [Slots -> Nat] /\ generation[s] = clock /\ \A r \in Slots : r # s => generation[r] = world.generation[r]
    BY <1>1
  <1>6. Meta!FreshMeta \in MetaRecord
    BY DEF Meta!FreshMeta, Meta!NoBox, MetaRecord, Box
  <1>7. meta \in [Slots -> MetaRecord] /\ \A r \in Slots : r # s => meta[r] = world.meta[r]
    BY <1>1, <1>6
  <1>8. clock \in Nat /\ world.clock < clock /\ world.clock <= clock /\ clock <= clock
    BY <1>1
  <1> HIDE DEF slot_of, generation, meta, clock
  <1>9. /\ world' \in WorldRecord /\ world'.slot_of = slot_of /\ world'.generation = generation
        /\ world'.meta = meta /\ world'.clock = clock /\ world'.kind = world.kind
    BY <1>1, <1>2, <1>3, <1>5, <1>7, <1>8 DEF WorldRecord
  <1> QED BY <1>4, <1>5, <1>7, <1>8, <1>9 DEF Moved, clock

(* Eviction leaves the slot without a chunk.                               *)
LEMMA EvictMoves ==
  ASSUME AdapterTypeOK, ResidencyIsUnique, NEW k \in ResidentKeys, world' = Evicted(k)
  PROVE  world.slot_of[k] \in Slots /\ Moved(world.slot_of[k])
  <1> DEFINE s == world.slot_of[k]
             slot_of == [world.slot_of EXCEPT ![k] = NoSlot]
  <1>1. /\ world \in WorldRecord /\ world.slot_of \in [SparseKeys -> Slots \cup {NoSlot}]
        /\ world.generation \in [Slots -> Nat] /\ world.clock \in Nat
        /\ \A r \in Slots : r # NoSlot
    BY AdapterTypes
  <1>2. k \in SparseKeys /\ s \in Slots
    BY <1>1 DEF ResidentKeys
  <1>3. world' = [world EXCEPT !.slot_of = slot_of]
    BY DEF Evicted
  <1>4. slot_of \in [SparseKeys -> Slots \cup {NoSlot}] /\ slot_of[k] = NoSlot
        /\ \A j \in SparseKeys : j # k => slot_of[j] = world.slot_of[j]
    BY <1>1, <1>2
  <1> HIDE DEF slot_of
  <1>5. /\ world' \in WorldRecord /\ world'.slot_of = slot_of /\ world'.generation = world.generation
        /\ world'.meta = world.meta /\ world'.clock = world.clock
    BY <1>1, <1>3, <1>4 DEF WorldRecord
  <1>6. \A j \in SparseKeys : slot_of[j] # s
    BY <1>1, <1>2, <1>4 DEF ResidencyIsUnique, ResidentKeys
  <1>7. ASSUME NEW r \in Slots, r # s, NEW j \in SparseKeys PROVE slot_of[j] = r <=> world.slot_of[j] = r
    BY <1>1, <1>2, <1>4, <1>7
  <1>8. world.generation[s] <= world.clock /\ world.clock <= world.clock
    BY <1>1, <1>2 DEF ResidencyIsUnique
  <1> QED BY <1>2, <1>5, <1>6, <1>7, <1>8 DEF Moved

(* The other slots keep their binding and their product, the one that      *)
(* moved has no token of its new interval.                                 *)
LEMMA MovedKeeps ==
  ASSUME AdapterTypeOK, ResidencyIsUnique, ProductsHold, NEW s \in Slots, Moved(s), CellMoved(s)
  PROVE  /\ ResidencyIsUnique' /\ ProductsHold'
         /\ \A r \in Slots : r # s => (Settled(r) => Settled(r)')
  <1>1. /\ world'.slot_of \in [SparseKeys -> Slots \cup {NoSlot}] /\ world.slot_of \in [SparseKeys -> Slots \cup {NoSlot}]
        /\ \A r \in Slots : /\ world'.generation[r] \in Nat /\ world.generation[r] \in Nat
                             /\ cells[r].token.generation \in Nat /\ cells'[r].token = cells[r].token
                             /\ cells'[r].product = cells[r].product /\ (cells'[r].built => cells[r].built)
                             /\ r # NoSlot
        /\ world.clock \in Nat /\ world'.clock \in Nat
    BY AdapterTypes DEF Moved, CellMoved, WorldRecord, Token
  <1>2. ASSUME NEW r \in Slots PROVE world'.generation[r] <= world'.clock /\ cells'[r].token.generation <= world'.clock
    <2>1. world.generation[r] <= world.clock /\ cells[r].token.generation <= world.clock
      BY DEF ResidencyIsUnique
    <2>2. world.clock <= world'.clock /\ world'.generation[s] <= world'.clock
          /\ (r # s => world'.generation[r] = world.generation[r])
      BY DEF Moved
    <2> QED BY <1>1, <2>1, <2>2
  <1>3. ASSUME NEW i \in ResidentKeys', NEW j \in ResidentKeys', world'.slot_of[i] = world'.slot_of[j] PROVE i = j
    <2>1. i \in SparseKeys /\ j \in SparseKeys /\ world'.slot_of[i] \in Slots
      BY <1>1, <1>3 DEF ResidentKeys
    <2>2. CASE world'.slot_of[i] = s
      BY <1>3, <2>1, <2>2 DEF Moved
    <2>3. CASE world'.slot_of[i] # s
      <3>1. world.slot_of[i] = world'.slot_of[i] /\ world.slot_of[j] = world'.slot_of[i]
        BY <1>3, <2>1, <2>3 DEF Moved
      <3>2. i \in ResidentKeys /\ j \in ResidentKeys
        BY <1>1, <2>1, <3>1 DEF ResidentKeys
      <3> QED BY <3>1, <3>2 DEF ResidencyIsUnique
    <2> QED BY <2>2, <2>3
  <1>4. ResidencyIsUnique'
    BY <1>2, <1>3 DEF ResidencyIsUnique
  <1>5. ASSUME NEW r \in Slots, cells'[r].built, cells'[r].token.generation = world'.generation[r]
        PROVE  ReadSince(r, cells[r].token.generation, cells[r].token.version)'
    <2>1. world'.generation[r] = world.generation[r] /\ world'.meta[r] = world.meta[r]
      <3>1. cells[r].token.generation <= world.clock
        BY DEF ResidencyIsUnique
      <3>2. ~(world.clock < world'.generation[r])
        BY <1>1, <1>5, <3>1
      <3> QED BY <3>2 DEF Moved
    <2>2. cells[r].token.generation = world.generation[r] /\ cells[r].built
      BY <1>1, <1>5, <2>1
    <2>3. \E v \in cells[r].token.version .. world.meta[r].content_version :
             cells[r].product = <<cells[r].token.generation, v>>
      BY <2>2 DEF ProductsHold, ReadSince
    <2>4. \E v \in cells[r].token.version .. world'.meta[r].content_version :
             cells'[r].product = <<cells[r].token.generation, v>>
      BY <1>1, <2>1, <2>3
    <2> QED BY <1>1, <2>4 DEF ReadSince
  <1>6. ProductsHold'
    <2>1. ASSUME NEW r \in Slots, cells'[r].built, cells'[r].token.generation = world'.generation[r]
          PROVE  \E v \in cells'[r].token.version .. world'.meta[r].content_version :
                    cells'[r].product = <<cells'[r].token.generation, v>>
      <3>1. cells'[r].token = cells[r].token
        BY <1>1
      <3> QED BY <1>1, <1>5, <2>1, <3>1 DEF ReadSince
    <2> QED BY <2>1 DEF ProductsHold, ReadSince
  <1>7. ASSUME NEW r \in Slots, r # s, Settled(r) PROVE Settled(r)'
    <2>1. cells'[r] = cells[r]
      BY <1>7 DEF CellMoved
    <2>2. cells[r].key \in SparseKeys /\ world.slot_of[cells[r].key] = r /\ world.generation[r] = cells[r].generation
      BY <1>7 DEF Settled, BindingCurrent, ResidentKeys
    <2>3. world'.slot_of[cells[r].key] = r /\ world'.generation[r] = cells[r].generation
      BY <1>7, <2>2 DEF Moved
    <2> QED BY <1>1, <1>7, <2>1, <2>2, <2>3 DEF Settled, BindingCurrent, ResidentKeys
  <1> QED BY <1>4, <1>6, <1>7

-----------------------------------------------------------------------------
(* The residency boundary.                                                 *)

(* Calls and frames are as they were.                                      *)
LEMMA SameCalls ==
  ASSUME CallsAreNested, FramesHaveBodies, UNCHANGED <<maintenance_vars, ready, released, op, bodies>>
  PROVE  /\ CallsAreNested' /\ FramesHaveBodies' /\ Retained' = Retained /\ Synchronous' = Synchronous
         /\ Framed' = Framed /\ Pending' = Pending /\ Ahead' = Ahead /\ Offering' = Offering
  <1>1. UNCHANGED <<slots, handles, sealed, backend, stack, calls, in_flight, activity, idle, drain, owed>>
        /\ UNCHANGED <<ready, released, op, bodies>>
    BY DEF maintenance_vars, scheduler_vars
  <1>2. /\ Synchronous' = Synchronous /\ Pending' = Pending /\ Framed' = Framed /\ Retained' = Retained
    BY <1>1, SameRetained
  <1>3. Ahead' = Ahead /\ Offering' = Offering
    BY <1>1 DEF Ahead, Offering, Refused
  <1>4. CallsAreNested'
    BY <1>1 DEF CallsAreNested, HandleOf
  <1>5. FramesHaveBodies'
    BY <1>1, <1>2 DEF FramesHaveBodies, Top
  <1> QED BY <1>2, <1>3, <1>4, <1>5

(* A boundary is open only over an adapter that retains nothing and owes   *)
(* nothing.                                                                *)
LEMMA BoundaryFacts ==
  ASSUME MaintenanceInv, AdapterInv, Boundary
  PROVE  /\ Retained = {} /\ Indebted = {} /\ bodies = <<>> /\ stack = <<>> /\ op = NoCall /\ calls[Main] = Away
         /\ unread \subseteq told
  <1>1. Retained = {} /\ Indebted = {}
    BY DEF Boundary, AdapterInv, IdleIsTrue
  <1>2. BetweenCalls /\ op = NoCall
    BY DEF Boundary, BetweenCalls
  <1>3. bodies = <<>> /\ stack = <<>> /\ calls[Main] = Away /\ Ahead = {} /\ Offering = {}
    BY <1>2, NothingRuns
  <1>4. Pending = {} /\ Framed = {}
    BY <1>1 DEF Retained
  <1>5. unread \subseteq told
    BY <1>1, <1>3, <1>4 DEF AdapterInv, UnreadIsAwaited, Awaited
  <1> QED BY <1>1, <1>2, <1>3, <1>5

(* What a boundary operation may do: bind slots anew, forgetting what was  *)
(* built for the slots that changed.                                       *)
LEMMA BoundaryKeeps ==
  ASSUME MaintenanceInv, AdapterInv, Boundary, UNCHANGED <<maintenance_vars, ready, released, op, bodies>>,
         world' \in WorldRecord, cells' \in [Slots -> CellRecord], told' \subseteq Slots, unread' \subseteq told',
         ResidencyIsUnique', ProductsHold',
         \A s \in Slots : cells'[s].debt => cells[s].debt,
         \A s \in unread' : world'.meta[s].dirty = Owned /\ Settled(s)'
  PROVE  AdapterInv'
  <1>1. /\ Retained = {} /\ Indebted = {} /\ bodies = <<>> /\ stack = <<>> /\ op = NoCall /\ calls[Main] = Away
    BY BoundaryFacts
  <1>2. AdapterTypeOK'
    BY DEF AdapterInv, AdapterTypeOK
  <1>3. CallsAreNested' /\ FramesHaveBodies' /\ Retained' = Retained
    BY SameCalls DEF AdapterInv
  <1>4. BodiesHold'
    BY <1>1 DEF BodiesHold
  <1>5. calls' = calls
    BY DEF maintenance_vars, scheduler_vars
  <1>6. UnreadIsAwaited'
    BY <1>1, <1>5 DEF UnreadIsAwaited, Awaited, Away
  <1>7. IdleIsTrue'
    BY <1>1, <1>3 DEF IdleIsTrue, Indebted, NoCall
  <1> QED BY <1>2, <1>3, <1>4, <1>6, <1>7 DEF AdapterInv

(* ensure_resident, evict and an archive load move chunks in or out of one *)
(* slot, or bind again what is resident.                                   *)
LEMMA TransitionMoves ==
  ASSUME MaintenanceInv, AdapterInv, NEW k \in SparseKeys, EnsureResident(k) \/ Evict(k) \/ LoadAround(k)
  PROVE  /\ Boundary /\ UNCHANGED <<maintenance_vars, ready, released, op, bodies>>
         /\ \E s \in Slots : /\ Moved(s) /\ CellMoved(s)
                             /\ \/ told' = told \ {s} /\ unread' = unread \ {s}
                                \/ UNCHANGED <<world, told, unread>> /\ Settled(s)'
  <1>0. /\ AdapterTypeOK /\ ResidencyIsUnique /\ world.slot_of \in [SparseKeys -> Slots \cup {NoSlot}]
        /\ cells \in [Slots -> CellRecord] /\ world.generation \in [Slots -> Nat] /\ world.clock \in Nat
        /\ \A s \in Slots : s # NoSlot
    BY AdapterTypes DEF AdapterInv, AdapterTypeOK
  <1>1. Boundary /\ UNCHANGED <<maintenance_vars, ready, released, op, bodies>>
    BY DEF EnsureResident, Evict, LoadAround
  <1>2. ASSUME NEW s \in Slots, cells' = cells PROVE CellMoved(s)
    BY <1>0, <1>2 DEF CellMoved
  <1>3. ASSUME NEW s \in Slots, NEW g \in Nat, cells' = [cells EXCEPT ![s] = BoundTo(@, k, g)]
        PROVE  CellMoved(s) /\ cells'[s].bound /\ cells'[s].key = k /\ cells'[s].generation = g
    <2> DEFINE cell == BoundTo(cells[s], k, g)
    <2>1. /\ cell \in CellRecord /\ cell.bound /\ cell.key = k /\ cell.generation = g
          /\ cell.token = cells[s].token /\ cell.product = cells[s].product
          /\ cell.built => cells[s].built
          /\ cell.debt => cells[s].debt
      BY <1>0, BindEffect
    <2>2. cells' = [cells EXCEPT ![s] = cell]
      BY <1>3
    <2> HIDE DEF cell
    <2>3. cells' \in [Slots -> CellRecord] /\ cells'[s] = cell /\ \A r \in Slots : r # s => cells'[r] = cells[r]
      BY <1>0, <2>1, <2>2
    <2> QED BY <2>1, <2>3 DEF CellMoved
  <1>4. ASSUME NEW s \in Slots, cells' = [cells EXCEPT ![s] = Emptied(@)] PROVE CellMoved(s)
    <2> DEFINE cell == Emptied(cells[s])
    <2>1. /\ cell \in CellRecord /\ cell.token = cells[s].token /\ cell.product = cells[s].product
          /\ ~cell.built /\ ~cell.debt
      BY <1>0, UnbindEffect
    <2>2. cells' = [cells EXCEPT ![s] = cell]
      BY <1>4
    <2> HIDE DEF cell
    <2>3. cells' \in [Slots -> CellRecord] /\ cells'[s] = cell /\ \A r \in Slots : r # s => cells'[r] = cells[r]
      BY <1>0, <2>1, <2>2
    <2> QED BY <2>1, <2>3 DEF CellMoved
  <1>5. CASE EnsureResident(k)
    <2>1. PICK s \in Slots :
            \/ /\ MayMaterialize(k, s)
               /\ world' = Materialized(k, s)
               /\ cells' = [cells EXCEPT ![s] = BoundTo(@, k, world.clock + 1)]
               /\ told' = told \ {s} /\ unread' = unread \ {s}
            \/ /\ s = world.slot_of[k]
               /\ cells' = [cells EXCEPT ![s] = BoundTo(@, k, world.generation[s])]
               /\ UNCHANGED <<world, told, unread>>
      BY <1>5 DEF EnsureResident
    <2>2. CASE MayMaterialize(k, s) /\ world' = Materialized(k, s)
               /\ cells' = [cells EXCEPT ![s] = BoundTo(@, k, world.clock + 1)]
               /\ told' = told \ {s} /\ unread' = unread \ {s}
      <3>1. Moved(s)
        BY <1>0, <2>2, MaterializeMoves DEF MayMaterialize
      <3>2. world.clock + 1 \in Nat /\ cells' = [cells EXCEPT ![s] = BoundTo(@, k, world.clock + 1)]
        BY <1>0, <2>2
      <3>3. CellMoved(s)
        BY <1>3, <3>2
      <3> QED BY <1>1, <2>2, <3>1, <3>3
    <2>3. CASE s = world.slot_of[k] /\ cells' = [cells EXCEPT ![s] = BoundTo(@, k, world.generation[s])]
               /\ UNCHANGED <<world, told, unread>>
      <3>1. CellMoved(s) /\ cells'[s].bound /\ cells'[s].key = k /\ cells'[s].generation = world.generation[s]
        BY <1>0, <1>3, <2>3
      <3>2. Settled(s)'
        BY <1>0, <2>3, <3>1 DEF Settled, BindingCurrent, ResidentKeys
      <3>3. world' \in WorldRecord /\ world.clock <= world'.clock /\ world'.generation[s] <= world'.clock
        BY <1>0, <2>3 DEF AdapterTypeOK, ResidencyIsUnique
      <3>4. \A i, j \in SparseKeys : world'.slot_of[i] = s /\ world'.slot_of[j] = s => i = j
        BY <1>0, <2>3 DEF ResidencyIsUnique, ResidentKeys
      <3>5. Moved(s)
        BY <2>3, <3>3, <3>4 DEF Moved
      <3> QED BY <1>1, <2>3, <3>1, <3>2, <3>5
    <2> QED BY <2>1, <2>2, <2>3
  <1>6. CASE Evict(k)
    <2> DEFINE s == world.slot_of[k]
    <2>1. /\ k \in ResidentKeys /\ world' = Evicted(k) /\ cells' = [cells EXCEPT ![s] = Emptied(@)]
          /\ told' = told \ {s} /\ unread' = unread \ {s}
      BY <1>6 DEF Evict
    <2>2. s \in Slots /\ Moved(s)
      BY <1>0, <2>1, EvictMoves
    <2>3. CellMoved(s)
      BY <1>4, <2>1, <2>2
    <2> QED BY <1>1, <2>1, <2>2, <2>3
  <1>7. CASE LoadAround(k)
    <2>1. cells' = cells
      BY <1>7 DEF LoadAround
    <2>2. ASSUME NEW s \in Slots, MayMaterialize(k, s), world' = Materialized(k, s) PROVE Moved(s)
      BY <1>0, <2>2, MaterializeMoves DEF MayMaterialize
    <2>3. ASSUME k \in ResidentKeys, world' = Evicted(k) PROVE world.slot_of[k] \in Slots /\ Moved(world.slot_of[k])
      BY <1>0, <2>3, EvictMoves
    <2> QED BY <1>1, <1>2, <1>7, <2>1, <2>2, <2>3 DEF LoadAround
  <1> QED BY <1>5, <1>6, <1>7

(* A transition keeps the invariant: what is unread is unread of a chunk   *)
(* that is still bound (chunk_maintenance.h:341-412).                      *)
LEMMA TransitionKeeps ==
  ASSUME MaintenanceInv, AdapterInv, NEW k \in SparseKeys, EnsureResident(k) \/ Evict(k) \/ LoadAround(k)
  PROVE  AdapterInv'
  <1>1. Boundary /\ UNCHANGED <<maintenance_vars, ready, released, op, bodies>>
    BY TransitionMoves
  <1>2. PICK s \in Slots : /\ Moved(s) /\ CellMoved(s)
                           /\ \/ told' = told \ {s} /\ unread' = unread \ {s}
                              \/ UNCHANGED <<world, told, unread>> /\ Settled(s)'
    BY TransitionMoves
  <1>3. /\ AdapterTypeOK /\ ResidencyIsUnique /\ ProductsHold /\ told \subseteq Slots
        /\ \A r \in unread : world.meta[r].dirty = Owned /\ Settled(r) /\ r \in Slots
    BY DEF AdapterInv, AdapterTypeOK, UnreadIsAwaited
  <1>4. /\ ResidencyIsUnique' /\ ProductsHold'
        /\ \A r \in Slots : r # s => (Settled(r) => Settled(r)')
    BY <1>2, <1>3, MovedKeeps
  <1>5. unread \subseteq told
    BY <1>1, BoundaryFacts
  <1>6. told' \subseteq Slots /\ unread' \subseteq told'
    BY <1>2, <1>3, <1>5
  <1>7. ASSUME NEW r \in unread' PROVE world'.meta[r].dirty = Owned /\ Settled(r)'
    <2>1. r \in unread
      BY <1>2, <1>7
    <2>2. CASE r # s
      BY <1>2, <1>3, <1>4, <2>1, <2>2 DEF Moved
    <2>3. CASE r = s
      BY <1>2, <1>3, <1>7, <2>1, <2>3
    <2> QED BY <2>2, <2>3
  <1>8. world' \in WorldRecord /\ cells' \in [Slots -> CellRecord] /\ \A r \in Slots : cells'[r].debt => cells[r].debt
    BY <1>2 DEF Moved, CellMoved
  <1> QED BY <1>1, <1>4, <1>6, <1>7, <1>8, BoundaryKeeps

(* Reconciliation forgets every product and binds what is resident.        *)
LEMMA ReconcileKeeps ==
  ASSUME MaintenanceInv, AdapterInv, Reconcile
  PROVE  AdapterInv'
  <1>1. /\ Boundary /\ UNCHANGED <<maintenance_vars, world, ready, released, op, bodies, told, unread>>
        /\ cells' = [s \in Slots |-> IF KeyOf(s) = {} THEN Emptied(cells[s])
                       ELSE BoundTo(Emptied(cells[s]), CHOOSE k \in KeyOf(s) : TRUE, world.generation[s])]
    BY DEF Reconcile
  <1>2. /\ AdapterTypeOK /\ ResidencyIsUnique /\ cells \in [Slots -> CellRecord] /\ world.generation \in [Slots -> Nat]
        /\ \A s \in Slots : s # NoSlot /\ world.generation[s] <= world.clock /\ cells[s].token.generation <= world.clock
    BY AdapterTypes DEF AdapterInv, AdapterTypeOK, ResidencyIsUnique
  <1>3. ASSUME NEW s \in Slots
        PROVE  /\ cells'[s] \in CellRecord /\ ~cells'[s].built /\ ~cells'[s].debt /\ cells'[s].token = cells[s].token
               /\ KeyOf(s) # {} => Settled(s)'
    <2> DEFINE empty == Emptied(cells[s])
               k == CHOOSE k \in KeyOf(s) : TRUE
               cell == BoundTo(empty, k, world.generation[s])
    <2>1. /\ empty \in CellRecord /\ ~empty.bound /\ ~empty.built /\ ~empty.debt /\ empty.token = cells[s].token
      BY <1>2, UnbindEffect
    <2>2. cells'[s] = IF KeyOf(s) = {} THEN empty ELSE cell
      BY <1>1
    <2>3. CASE KeyOf(s) = {}
      BY <2>1, <2>2, <2>3
    <2>4. CASE KeyOf(s) # {}
      <3>1. k \in KeyOf(s)
        BY <2>4
      <3> HIDE DEF empty, k
      <3>2. k \in SparseKeys /\ k \in ResidentKeys /\ world.slot_of[k] = s
        BY <3>1 DEF KeyOf, ResidentKeys
      <3>3. world.generation[s] \in Nat
        BY <1>2
      <3>4. /\ cell \in CellRecord /\ cell.bound /\ cell.key = k /\ cell.generation = world.generation[s]
            /\ cell.token = empty.token /\ (cell.built => empty.built) /\ (cell.debt => empty.debt)
        BY <2>1, <3>2, <3>3, BindEffect
      <3>5. cells'[s] = cell
        BY <2>2, <2>4
      <3> HIDE DEF cell
      <3>6. Settled(s)'
        BY <1>1, <3>2, <3>4, <3>5 DEF Settled, BindingCurrent, ResidentKeys
      <3> QED BY <2>1, <3>4, <3>5, <3>6
    <2> QED BY <2>3, <2>4
  <1>4. cells' \in [Slots -> CellRecord]
    <2>1. cells' = [s \in Slots |-> cells'[s]]
      BY <1>1
    <2> QED BY <1>3, <2>1
  <1>5. world' \in WorldRecord /\ told' \subseteq Slots /\ unread' \subseteq told'
    BY <1>1, BoundaryFacts DEF AdapterInv, AdapterTypeOK
  <1>6. ProductsHold'
    BY <1>3 DEF ProductsHold
  <1>7. ResidencyIsUnique'
    BY <1>1, <1>2, <1>3 DEF ResidencyIsUnique, ResidentKeys
  <1>8. ASSUME NEW s \in unread' PROVE world'.meta[s].dirty = Owned /\ Settled(s)'
    <2>1. s \in unread /\ s \in Slots /\ world.meta[s].dirty = Owned /\ Settled(s)
      BY <1>1, <1>8 DEF AdapterInv, UnreadIsAwaited, AdapterTypeOK
    <2>2. KeyOf(s) # {}
      BY <2>1 DEF Settled, BindingCurrent, KeyOf
    <2> QED BY <1>1, <1>3, <2>1, <2>2
  <1>9. UNCHANGED <<maintenance_vars, ready, released, op, bodies>>
    BY <1>1
  <1> QED BY <1>1, <1>3, <1>4, <1>5, <1>6, <1>7, <1>8, <1>9, BoundaryKeeps

-----------------------------------------------------------------------------
(* What a callback reads, and what its return publishes.                   *)

(* The frames stay while a body changes.                                   *)
LEMMA SameFrameCalls ==
  ASSUME CallsAreNested, FramesHaveBodies, stack # <<>>, Len(bodies') = Len(bodies),
         UNCHANGED <<maintenance_vars, ready, released, op>>
  PROVE  /\ CallsAreNested' /\ FramesHaveBodies' /\ Retained' = Retained /\ Synchronous' = Synchronous
         /\ Framed' = Framed /\ Pending' = Pending /\ Offering' = Offering
         /\ UNCHANGED <<stack, calls, op>>
  <1>1. UNCHANGED <<slots, handles, sealed, backend, stack, calls, in_flight, activity, idle, drain, owed>>
        /\ UNCHANGED <<ready, released, op>>
    BY DEF maintenance_vars, scheduler_vars
  <1>2. /\ Synchronous' = Synchronous /\ Pending' = Pending /\ Framed' = Framed /\ Retained' = Retained
    BY <1>1, SameRetained
  <1>3. Offering' = Offering
    BY <1>1 DEF Offering, Refused
  <1>4. CallsAreNested'
    BY <1>1 DEF CallsAreNested, HandleOf
  <1>5. FramesHaveBodies'
    BY <1>1, <1>2 DEF FramesHaveBodies, Top
  <1> QED BY <1>1, <1>2, <1>3, <1>4, <1>5

(* The bodies of other slots do not notice.                                *)
LEMMA OtherBodies ==
  ASSUME NEW r \in Slots, NEW body, BodyHolds(r, body),
         world'.slot_of = world.slot_of, world'.generation = world.generation, world'.meta[r] = world.meta[r],
         cells'[r] = cells[r], r \in unread' => r \in unread, Synchronous' = Synchronous, Framed' = Framed
  PROVE  BodyHolds(r, body)'
  <1>1. Settled(r)' <=> Settled(r)
    BY DEF Settled, BindingCurrent, ResidentKeys
  <1> QED BY <1>1 DEF BodyHolds, ReadSince

(* It is enough to know each body by its slot.                             *)
LEMMA BodiesHoldNext ==
  ASSUME \A i \in DOMAIN bodies' : \A s, body : s = stack'[i].slot /\ body = bodies'[i] => BodyHolds(s, body)'
  PROVE  BodiesHold'
  <1>1. ASSUME NEW i \in DOMAIN bodies' PROVE BodyHolds(stack[i].slot, bodies[i])'
    <2>1. PICK s : s = stack'[i].slot
      OBVIOUS
    <2>2. PICK body : body = bodies'[i]
      OBVIOUS
    <2>3. BodyHolds(s, body)'
      BY <1>1, <2>1, <2>2
    <2> QED BY <2>1, <2>2, <2>3 DEF BodyHolds, ReadSince, Settled, BindingCurrent
  <1> QED BY <1>1 DEF BodiesHold

(* Ahead is a matter of phases.                                            *)
LEMMA SameAhead ==
  ASSUME UNCHANGED stack, DOMAIN bodies' = DOMAIN bodies, NEW n,
         \A i \in DOMAIN bodies : i # n => bodies'[i] = bodies[i]
  PROVE  Ahead \subseteq Ahead' \cup {stack[n].slot}
         /\ (bodies[n].phase # "rebuilding" => Ahead \subseteq Ahead')
  <1>1. ASSUME NEW i \in DOMAIN bodies, bodies[i].phase = "rebuilding", i # n PROVE stack[i].slot \in Ahead'
    <2>1. i \in DOMAIN bodies' /\ bodies'[i].phase = "rebuilding" /\ stack'[i] = stack[i]
      BY <1>1
    <2> QED BY <2>1 DEF Ahead
  <1>2. ASSUME NEW s \in Ahead PROVE \E i \in DOMAIN bodies : bodies[i].phase = "rebuilding" /\ s = stack[i].slot
    BY DEF Ahead
  <1> QED BY <1>1, <1>2

(* The callback reads its chunk.                                           *)
LEMMA ReadKeeps ==
  ASSUME MaintenanceInv, AdapterInv, CallbackReads
  PROVE  AdapterInv'
  <1>a. AtBody("rebuilding")
    BY DEF CallbackReads
  <1>b. PICK s \in Slots, n \in Nat : s = Top.slot /\ n = Len(stack)
    BY <1>a, TopBody
  <1>c. PICK body : body = [Body EXCEPT !.phase = "rebuilt"]
    OBVIOUS
  <1>1. /\ AtBody("rebuilding") /\ UNCHANGED <<maintenance_vars, world, ready, released, op, told, marks>>
        /\ unread' = unread \ {s} /\ WithBody(body)
    BY <1>b, <1>c DEF CallbackReads
  <1>2. /\ stack # <<>> /\ s \in Slots /\ s = stack[n].slot /\ n \in DOMAIN bodies /\ DOMAIN bodies = 1 .. n
        /\ Body = bodies[n] /\ Body \in BodyRecord /\ Body.phase = "rebuilding" /\ BodyHolds(s, Body)
        /\ \A i \in DOMAIN bodies : /\ bodies[i] \in BodyRecord /\ stack[i].slot \in Slots
                                    /\ i # n => stack[i].slot # s
    BY <1>1, <1>b, TopBody
  <1>3. body \in BodyRecord /\ body.phase = "rebuilt" /\ body.observed = Body.observed /\ body.units = Body.units
    BY <1>2, <1>c DEF BodyRecord
  <1>4. /\ bodies' \in Seq(BodyRecord) /\ Len(bodies') = Len(bodies) /\ DOMAIN bodies' = DOMAIN bodies
        /\ bodies'[n] = body /\ \A i \in DOMAIN bodies : i # n => bodies'[i] = bodies[i]
    BY <1>1, <1>3, <1>b, BodyChanges
  <1>5. /\ cells' \in [Slots -> CellRecord] /\ world' = world /\ cells'[s].product = Content(s)
        /\ \A r \in Slots : r # s => cells'[r] = cells[r]
        /\ \A r \in Slots : /\ cells'[r].key = cells[r].key /\ cells'[r].generation = cells[r].generation
                            /\ cells'[r].bound = cells[r].bound /\ cells'[r].built = cells[r].built
                            /\ cells'[r].token = cells[r].token /\ cells'[r].debt = cells[r].debt
    BY <1>b, ReadEffect
  <1>6. AdapterTypeOK'
    BY <1>1, <1>4, <1>5 DEF AdapterInv, AdapterTypeOK
  <1>7. /\ CallsAreNested' /\ FramesHaveBodies' /\ Retained' = Retained /\ Synchronous' = Synchronous
        /\ Framed' = Framed /\ Pending' = Pending /\ Offering' = Offering
        /\ UNCHANGED <<stack, calls, op>>
    BY <1>1, <1>2, <1>4, SameFrameCalls DEF AdapterInv
  <1>8. ResidencyIsUnique'
    BY <1>5 DEF AdapterInv, ResidencyIsUnique, ResidentKeys
  <1>9. /\ \A r \in Slots : Settled(r)' <=> Settled(r)
        /\ world.meta[s].content_version \in Nat /\ Body.observed.content_version \in Nat
        /\ \A r \in Slots : cells[r].token.version \in Nat
    <2>1. \A r \in Slots : Settled(r)' <=> Settled(r)
      BY <1>5 DEF Settled, BindingCurrent, ResidentKeys
    <2>2. world.meta[s].content_version \in Nat /\ \A r \in Slots : cells[r].token.version \in Nat
      BY <1>2, AdapterTypes DEF AdapterInv, Token
    <2> QED BY <1>2, <2>1, <2>2 DEF BodyRecord, Observation
  <1>10. ASSUME NEW v \in Nat, v <= world.meta[s].content_version
         PROVE  \E w \in v .. world'.meta[s].content_version : cells'[s].product = <<world'.generation[s], w>>
    <2>1. world.meta[s].content_version \in v .. world.meta[s].content_version
      BY <1>9, <1>10
    <2> QED BY <1>5, <2>1 DEF Content
  <1>11. BodiesHold'
    <2>1. ASSUME NEW i \in DOMAIN bodies, i # n, NEW r, NEW b, r = stack'[i].slot, b = bodies'[i]
          PROVE  BodyHolds(r, b)'
      <3>1. r = stack[i].slot /\ b = bodies[i]
        BY <1>4, <1>7, <2>1
      <3>2. r \in Slots /\ r # s /\ BodyHolds(r, b)
        BY <1>2, <2>1, <3>1 DEF AdapterInv, BodiesHold
      <3>3. r \in unread' => r \in unread
        BY <1>1
      <3>4. cells'[r] = cells[r] /\ world'.meta[r] = world.meta[r] /\ world'.generation = world.generation
            /\ world'.slot_of = world.slot_of
        BY <1>5, <3>2
      <3> QED BY <1>7, <3>2, <3>3, <3>4, OtherBodies
    <2>2. BodyHolds(s, body)'
      <3>2. /\ cells[s].bound => body.units = 1
            /\ Settled(s) /\ body.observed.content_version <= world.meta[s].content_version
        BY <1>2, <1>3 DEF BodyHolds
      <3>3. \E w \in body.observed.content_version .. world'.meta[s].content_version :
              cells'[s].product = <<world'.generation[s], w>>
        BY <1>3, <1>9, <1>10, <3>2
      <3>4. s \notin unread' /\ (Settled(s)' <=> Settled(s)) /\ cells'[s].bound = cells[s].bound
        BY <1>1, <1>2, <1>5, <1>9
      <3> QED BY <1>3, <1>5, <3>2, <3>3, <3>4 DEF BodyHolds, ReadSince
    <2>3. \A i \in DOMAIN bodies' : \A r, b : r = stack'[i].slot /\ b = bodies'[i] => BodyHolds(r, b)'
      <3>1. stack'[n].slot = s /\ bodies'[n] = body
        BY <1>2, <1>4, <1>7
      <3> QED BY <1>4, <2>1, <2>2, <3>1
    <2> QED BY <2>3, BodiesHoldNext
  <1>12. ProductsHold'
    <2>1. ASSUME NEW r \in Slots, cells'[r].built, cells'[r].token.generation = world'.generation[r]
          PROVE  \E v \in cells'[r].token.version .. world'.meta[r].content_version :
                    cells'[r].product = <<cells'[r].token.generation, v>>
      <3>1. \E v \in cells[r].token.version .. world.meta[r].content_version :
               cells[r].product = <<cells[r].token.generation, v>>
        BY <1>5, <2>1 DEF AdapterInv, ProductsHold, ReadSince
      <3>2. CASE r # s
        BY <1>5, <2>1, <3>1, <3>2
      <3>3. CASE r = s
        <4>1. cells[s].token.version <= world.meta[s].content_version /\ cells[s].token.version \in Nat
          <5>1. PICK v \in cells[s].token.version .. world.meta[s].content_version : TRUE
            BY <3>1, <3>3
          <5> QED BY <1>2, <1>9, <5>1
        <4>2. \E w \in cells[s].token.version .. world'.meta[s].content_version : cells'[s].product = <<world'.generation[s], w>>
          BY <1>10, <4>1
        <4> QED BY <1>2, <1>5, <2>1, <3>3, <4>2
      <3> QED BY <3>2, <3>3
    <2> QED BY <2>1 DEF ProductsHold, ReadSince
  <1>13. UnreadIsAwaited'
    <2>1. Ahead \subseteq Ahead' \cup {s}
      BY <1>2, <1>4, <1>7, SameAhead
    <2>2. Indebted' = Indebted
      BY <1>5 DEF Indebted
    <2>3. unread' \subseteq Awaited'
      BY <1>1, <1>7, <2>1, <2>2 DEF AdapterInv, UnreadIsAwaited, Awaited
    <2>4. \A r \in unread' : world'.meta[r].dirty = Owned /\ Settled(r)'
      BY <1>1, <1>5, <1>9 DEF AdapterInv, UnreadIsAwaited, AdapterTypeOK
    <2>5. calls'[Main].at \in {"offered", "counted"} /\ calls'[Main].result = "Accepted" /\ op'.slot \in unread'
            => op'.slot \in Pending'
      BY <1>1, <1>7 DEF AdapterInv, UnreadIsAwaited
    <2> QED BY <2>3, <2>4, <2>5 DEF UnreadIsAwaited
  <1>14. IdleIsTrue'
    <2>1. ~ready'
      BY <1>1, <1>2, FramesNeedACall
    <2> QED BY <1>7, <2>1 DEF AdapterInv, IdleIsTrue
  <1> QED BY <1>6, <1>7, <1>8, <1>11, <1>12, <1>13, <1>14 DEF AdapterInv

(* The callback returns: the product is published under the version that   *)
(* was observed before it was read (chunk_maintenance.h:605-626).          *)
LEMMA ReturnKeeps ==
  ASSUME MaintenanceInv, AdapterInv, CallbackReturns
  PROVE  AdapterInv'
  <1>a. AtBody("rebuilt")
    BY DEF CallbackReturns
  <1>b. PICK s \in Slots, n \in Nat : s = Top.slot /\ n = Len(stack)
    BY <1>a, TopBody
  <1>c. PICK observed : observed = Body.observed
    OBVIOUS
  <1>1. AtBody("rebuilt") /\ UNCHANGED <<maintenance_vars, ready, released, op, unread, marks>>
    BY DEF CallbackReturns
  <1>2. /\ stack # <<>> /\ s \in Slots /\ s = stack[n].slot /\ n \in DOMAIN bodies /\ DOMAIN bodies = 1 .. n
        /\ Body = bodies[n] /\ Body \in BodyRecord /\ Body.phase = "rebuilt" /\ BodyHolds(s, Body)
        /\ \A i \in DOMAIN bodies : /\ bodies[i] \in BodyRecord /\ stack[i].slot \in Slots
                                    /\ i # n => stack[i].slot # s
    BY <1>1, <1>b, TopBody
  <1>3. /\ cells' \in [Slots -> CellRecord] /\ world' \in WorldRecord
        /\ world'.slot_of = world.slot_of /\ world'.generation = world.generation /\ world'.clock = world.clock
        /\ \A r \in Slots : /\ world'.meta[r].content_version = world.meta[r].content_version
                            /\ r # s => world'.meta[r] = world.meta[r] /\ cells'[r] = cells[r]
                            /\ cells'[r].key = cells[r].key /\ cells'[r].generation = cells[r].generation
                            /\ cells'[r].bound = cells[r].bound /\ cells'[r].product = cells[r].product
        /\ cells'[s].token.version = observed.content_version
        /\ cells'[s].token.generation = cells[s].generation
    BY <1>b, <1>c, ReturnEffect
  <1>4. \/ UNCHANGED told /\ cells'[s].debt = cells[s].debt /\ world'.meta[s] = world.meta[s]
           /\ WithBody([Body EXCEPT !.phase = "stale"])
        \/ /\ world.meta[s].content_version = observed.content_version /\ ~cells'[s].debt
           /\ told' = told \ {s} /\ WithBody([Body EXCEPT !.phase = "done"])
    BY <1>b, <1>c, ReturnEffect
  <1>5. PICK body \in BodyRecord : /\ WithBody(body) /\ body.phase \in {"stale", "done"}
                                   /\ body.observed = observed /\ body.units = Body.units
    <2>1. \A phase \in {"stale", "done"} :
             /\ [Body EXCEPT !.phase = phase] \in BodyRecord /\ [Body EXCEPT !.phase = phase].phase = phase
             /\ [Body EXCEPT !.phase = phase].observed = observed /\ [Body EXCEPT !.phase = phase].units = Body.units
      BY <1>2, <1>b, <1>c DEF BodyRecord
    <2> QED BY <1>4, <2>1
  <1>6. /\ bodies' \in Seq(BodyRecord) /\ Len(bodies') = Len(bodies) /\ DOMAIN bodies' = DOMAIN bodies
        /\ bodies'[n] = body /\ \A i \in DOMAIN bodies : i # n => bodies'[i] = bodies[i]
    BY <1>1, <1>5, <1>b, BodyChanges
  <1>7. \/ UNCHANGED told /\ cells'[s].debt = cells[s].debt /\ world'.meta[s] = world.meta[s]
        \/ /\ world.meta[s].content_version = observed.content_version /\ ~cells'[s].debt
           /\ told' = told \ {s}
    BY <1>4
  <1>8. AdapterTypeOK'
    BY <1>1, <1>3, <1>6, <1>7 DEF AdapterInv, AdapterTypeOK
  <1>9. /\ CallsAreNested' /\ FramesHaveBodies' /\ Retained' = Retained /\ Synchronous' = Synchronous
        /\ Framed' = Framed /\ Pending' = Pending /\ Offering' = Offering
        /\ UNCHANGED <<stack, calls, op>>
    BY <1>1, <1>2, <1>6, SameFrameCalls DEF AdapterInv
  <1>10. /\ Settled(s) /\ ReadSince(s, world.generation[s], observed.content_version)
         /\ s \in unread => observed.content_version < world.meta[s].content_version
         /\ cells[s].bound => body.units = 1
         /\ Synchronous /\ s \in unread => s \in Framed
    BY <1>2, <1>5, <1>b, <1>c DEF BodyHolds
  <1>11. cells[s].generation = world.generation[s] /\ cells'[s].token.generation = world.generation[s]
    BY <1>3, <1>10 DEF Settled, BindingCurrent
  <1>12. \A r \in Slots : Settled(r)' <=> Settled(r)
    BY <1>3 DEF Settled, BindingCurrent, ResidentKeys
  <1>13. ResidencyIsUnique'
    <2>1. \A r \in Slots : world.generation[r] <= world.clock /\ cells[r].token.generation <= world.clock
      BY DEF AdapterInv, ResidencyIsUnique
    <2>2. \A r \in Slots : cells'[r].token.generation <= world'.clock
      BY <1>2, <1>3, <1>11, <2>1
    <2> QED BY <1>3, <2>1, <2>2 DEF AdapterInv, ResidencyIsUnique, ResidentKeys
  <1>14. BodiesHold'
    <2>1. ASSUME NEW i \in DOMAIN bodies, i # n, NEW r, NEW b, r = stack'[i].slot, b = bodies'[i]
          PROVE  BodyHolds(r, b)'
      <3>1. r = stack[i].slot /\ b = bodies[i]
        BY <1>6, <1>9, <2>1
      <3>2. r \in Slots /\ r # s /\ BodyHolds(r, b)
        BY <1>2, <2>1, <3>1 DEF AdapterInv, BodiesHold
      <3>3. r \in unread' => r \in unread
        BY <1>1
      <3>4. cells'[r] = cells[r] /\ world'.meta[r] = world.meta[r] /\ world'.generation = world.generation
            /\ world'.slot_of = world.slot_of
        BY <1>3, <3>2
      <3> QED BY <1>9, <3>2, <3>3, <3>4, OtherBodies
    <2>2. BodyHolds(s, body)'
      <3>2. /\ cells'[s].bound => body.units = 1
            /\ Synchronous' /\ s \in unread' => s \in Framed'
        BY <1>1, <1>2, <1>3, <1>9, <1>10
      <3> QED BY <1>5, <3>2 DEF BodyHolds
    <2>3. \A i \in DOMAIN bodies' : \A r, b : r = stack'[i].slot /\ b = bodies'[i] => BodyHolds(r, b)'
      <3>1. stack'[n].slot = s /\ bodies'[n] = body
        BY <1>2, <1>6, <1>9
      <3> QED BY <1>6, <2>1, <2>2, <3>1
    <2> QED BY <2>3, BodiesHoldNext
  <1>15. ProductsHold'
    <2>1. ASSUME NEW r \in Slots, cells'[r].built, cells'[r].token.generation = world'.generation[r]
          PROVE  \E v \in cells'[r].token.version .. world'.meta[r].content_version :
                    cells'[r].product = <<cells'[r].token.generation, v>>
      <3>1. CASE r # s
        <4>1. cells'[r] = cells[r] /\ world'.meta[r] = world.meta[r] /\ world'.generation[r] = world.generation[r]
          BY <1>3, <3>1
        <4> QED BY <2>1, <4>1 DEF AdapterInv, ProductsHold, ReadSince
      <3>2. CASE r = s
        <4>1. PICK v \in observed.content_version .. world.meta[s].content_version :
                cells[s].product = <<world.generation[s], v>>
          BY <1>10 DEF ReadSince
        <4> QED BY <1>2, <1>3, <1>11, <3>2, <4>1
      <3> QED BY <3>1, <3>2
    <2> QED BY <2>1 DEF ProductsHold, ReadSince
  <1>16. UnreadIsAwaited'
    <2>1. Ahead \subseteq Ahead'
      BY <1>2, <1>6, <1>9, SameAhead
    <2>2. s \in unread => UNCHANGED told /\ cells'[s].debt = cells[s].debt /\ world'.meta[s] = world.meta[s]
      <3>1. s \in unread => observed.content_version # world.meta[s].content_version
        <4>1. world.meta[s].content_version \in Nat
          BY <1>2, AdapterTypes DEF AdapterInv
        <4>2. observed.content_version \in Nat
          BY <1>2, <1>b, <1>c DEF BodyRecord, Observation
        <4> QED BY <1>10, <4>1, <4>2
      <3> QED BY <1>7, <3>1
    <2>3. \A r \in unread : /\ r \in Indebted => r \in Indebted'
                            /\ r \in told => r \in told'
      BY <1>3, <1>7, <2>2 DEF Indebted
    <2>4. unread' \subseteq Awaited'
      BY <1>1, <1>9, <2>1, <2>3 DEF AdapterInv, UnreadIsAwaited, Awaited
    <2>5. \A r \in unread' : world'.meta[r].dirty = Owned /\ Settled(r)'
      BY <1>1, <1>3, <1>12, <2>2 DEF AdapterInv, UnreadIsAwaited, AdapterTypeOK
    <2>6. calls'[Main].at \in {"offered", "counted"} /\ calls'[Main].result = "Accepted" /\ op'.slot \in unread'
            => op'.slot \in Pending'
      BY <1>1, <1>9 DEF AdapterInv, UnreadIsAwaited
    <2> QED BY <2>4, <2>5, <2>6 DEF UnreadIsAwaited
  <1>17. IdleIsTrue'
    <2>1. ~ready'
      BY <1>1, <1>2, FramesNeedACall
    <2> QED BY <1>9, <2>1 DEF AdapterInv, IdleIsTrue
  <1> QED BY <1>8, <1>9, <1>13, <1>14, <1>15, <1>16, <1>17 DEF AdapterInv

-----------------------------------------------------------------------------
(* Offers and drains, around the runs.                                     *)

(* A mild step marks at most the slots it names: what was unread and      *)
(* settled still is.                                                       *)
LEMMA StillSettled ==
  ASSUME AdapterInv, Mild, unread' \subseteq Slots,
         \A s \in unread' \ unread : world'.meta[s].dirty = Owned /\ Settled(s)
  PROVE  \A s \in unread' : world'.meta[s].dirty = Owned /\ Settled(s)'
  <1>1. ASSUME NEW s \in unread' PROVE world'.meta[s].dirty = Owned /\ Settled(s)
    <2>1. CASE s \in unread
      BY <2>1 DEF AdapterInv, UnreadIsAwaited, Mild
    <2> QED BY <1>1, <2>1
  <1> QED BY <1>1, MildKeeps DEF AdapterInv

(* Inside try_schedule there is a call of the adapter, for a slot.         *)
LEMMA InsideAnOffer ==
  ASSUME MaintenanceInv, AdapterInv, calls[Main].at # "away"
  PROVE  /\ op.slot \in Slots /\ calls[Main].slot = op.slot /\ op.name \in {"offer", "before", "after"}
         /\ ~ready /\ ~released /\ drain.at = "none" /\ calls[Main] # Away
         /\ ~(op.name \in {"finalize", "after"} /\ op.result = "Idle" /\ ~op.offered)
         /\ calls[Main].at # "running" => stack = <<>> /\ bodies = <<>> /\ Framed = {} /\ Ahead = {}
  <1>1. calls[Main] # Away
    BY DEF Away
  <1>2. op.slot # NoSlot
    BY <1>1 DEF AdapterInv, CallsAreNested
  <1>3. op.slot \in Slots
    BY <1>2, AdapterTypes DEF AdapterInv
  <1>4. /\ calls[Main].slot = op.slot /\ op.name \in {"offer", "before", "after"} /\ ~ready /\ ~released
        /\ drain.at = "none"
    BY <1>2 DEF AdapterInv, CallsAreNested, NoCall
  <1>5. ~(op.name \in {"finalize", "after"} /\ op.result = "Idle" /\ ~op.offered)
    BY <1>2 DEF AdapterInv, IdleIsTrue
  <1>6. ASSUME calls[Main].at # "running" PROVE stack = <<>> /\ bodies = <<>> /\ Framed = {} /\ Ahead = {}
    <2>1. stack = <<>>
      BY <1>4, <1>6, FramesNeedACall
    <2>2. bodies = <<>>
      BY <2>1 DEF AdapterInv, FramesHaveBodies
    <2> QED BY <2>1, <2>2, NoFrames DEF Ahead
  <1> QED BY <1>1, <1>3, <1>4, <1>5, <1>6

(* With no frames there is nothing to know of bodies.                      *)
LEMMA NoBodies ==
  ASSUME stack' = <<>>, bodies' = <<>>
  PROVE  FramesHaveBodies' /\ BodiesHold' /\ Ahead' = {} /\ Framed' = {}
  <1>1. FramesHaveBodies'
    BY DEF FramesHaveBodies
  <1>2. BodiesHold' /\ Ahead' = {}
    BY DEF BodiesHold, Ahead
  <1>3. Framed' = {}
    BY DEF Framed
  <1> QED BY <1>1, <1>2, <1>3

(* schedule_slot claims the debt of a slot and enters try_schedule: while  *)
(* the offer is under way its caller will be told what becomes of it.      *)
LEMMA OfferSlotKeeps ==
  ASSUME MaintenanceInv, AdapterInv, Mild, ~released, NEW s \in Slots, NEW call \in OpRecord, OfferSlot(s, call),
         BetweenCalls \/ (op.slot = NoSlot /\ op.name \notin {"run_some", "flush"}),
         call.name \in {"offer", "before", "after"}, call.name = "after" => call.offered,
         unread' \subseteq unread \cup {s}, s \in unread' \ unread => world'.meta[s].dirty = Owned /\ Settled(s),
         UNCHANGED <<released, bodies, told>>
  PROVE  AdapterInv'
  <1>1. /\ Enter(Main, HandleOf(s)) /\ ready' = FALSE
        /\ op' = [call EXCEPT !.slot = s, !.claimed = cells[s].debt]
        /\ cells' = [cells EXCEPT ![s].debt = FALSE]
    BY DEF OfferSlot
  <1>2. /\ calls' = [calls EXCEPT ![Main] = [at |-> "entered", slot |-> s, result |-> "none"]]
        /\ UNCHANGED <<slots, handles, sealed, backend, stack, drain>>
    BY <1>1 DEF Enter, HandleOf
  <1>3. /\ stack = <<>> /\ bodies = <<>> /\ Framed = {} /\ Ahead = {} /\ Offering = {} /\ drain.at = "none"
    BY NothingRuns
  <1>4. /\ AdapterTypeOK /\ CallsAreNested /\ Main \in Producers /\ calls \in [Producers -> Call]
        /\ s # NoSlot /\ s \in 0 .. Capacity /\ cells[s].debt \in BOOLEAN
    BY AdapterTypes DEF AdapterInv, MaintenanceInv, MaintenanceTypeOK, Slots, CellRecord
  <1>5. /\ op' \in OpRecord /\ op'.slot = s /\ op'.name = call.name /\ op'.offered = call.offered
    BY <1>1, <1>4 DEF OpRecord
  <1>6. /\ calls'[Main] = [at |-> "entered", slot |-> s, result |-> "none"]
        /\ \A p \in Producers : p # Main => calls'[p] = calls[p]
    BY <1>2, <1>4
  <1>7. unread' \subseteq Slots
    BY DEF AdapterInv, AdapterTypeOK
  <1>8. AdapterTypeOK'
    BY <1>1, <1>5, <1>7 DEF Mild, AdapterInv, AdapterTypeOK
  <1>9. CallsAreNested'
    <2>1. calls'[Main] # Away
      BY <1>6 DEF Away
    <2>2. \A r \in Slots : slots'[r].target # NoTask /\ HandleOf(r)' \in handles'
      BY <1>2, <1>4 DEF CallsAreNested, HandleOf
    <2> QED BY <1>1, <1>2, <1>3, <1>4, <1>5, <1>6, <2>1, <2>2 DEF CallsAreNested
  <1>10. FramesHaveBodies' /\ BodiesHold' /\ Ahead' = {} /\ Framed' = {}
    BY <1>2, <1>3, NoBodies
  <1>11. UnreadIsAwaited'
    <2>1. Pending' = Pending
      BY <1>2, SamePending
    <2>2. s \in Offering'
      BY <1>5, <1>6 DEF Offering
    <2>3. Indebted \subseteq Indebted' \cup {s}
      <3>1. \A r \in Slots : r # s => cells'[r].debt = cells[r].debt
        BY <1>1, <1>4, DebtOnly
      <3> QED BY <3>1 DEF Indebted
    <2>4. unread' \subseteq Awaited'
      BY <1>3, <2>1, <2>2, <2>3 DEF AdapterInv, UnreadIsAwaited, Awaited
    <2>5. \A r \in unread' : world'.meta[r].dirty = Owned /\ Settled(r)'
      <3>1. \A r \in unread' \ unread : world'.meta[r].dirty = Owned /\ Settled(r)
        OBVIOUS
      <3> QED BY <1>7, <3>1, StillSettled
    <2> QED BY <1>6, <2>4, <2>5 DEF UnreadIsAwaited
  <1>12. IdleIsTrue'
    BY <1>1, <1>5 DEF IdleIsTrue
  <1> QED BY <1>4, <1>8, <1>9, <1>10, <1>11, <1>12, MildKeeps DEF AdapterInv

(* No call is a call like others.                                          *)
LEMMA NoCallTyped == NoCall \in OpRecord
  <1>1. 0 \in 0 .. Capacity
    BY MaintenanceAssumption
  <1>2. NoSlot \in 0 .. Capacity /\ {} \subseteq Slots
    BY <1>1 DEF NoSlot
  <1> QED BY <1>2 DEF NoCall, OpRecord

(* mark_dirty, schedule_retry and the retries of a flush.                  *)
LEMMA OfferingKeeps ==
  ASSUME MaintenanceInv, AdapterInv, (\E k \in SparseKeys : MarkDirty(k) \/ Retry(k)) \/ Reoffer
  PROVE  AdapterInv'
  <1>1. Mild
    BY MildSteps DEF MildStep
  <1>2. [NoCall EXCEPT !.name = "offer"] \in OpRecord
    BY NoCallTyped DEF OpRecord
  <1>3. [NoCall EXCEPT !.name = "offer"].name = "offer"
    BY DEF NoCall
  <1>4. ASSUME NEW k \in SparseKeys, MarkDirty(k) PROVE AdapterInv'
    <2>1. PICK s \in BoundSlots(k) : Marked(s) /\ OfferSlot(s, [NoCall EXCEPT !.name = "offer"])
      BY <1>4 DEF MarkDirty
    <2>2. /\ s \in Slots /\ Settled(s)
      <3>2. s # NoSlot /\ s \in Slots /\ s = world.slot_of[k]
        BY <2>1, AdapterTypes DEF BoundSlots, AdapterInv
      <3> QED BY <2>1, <3>2 DEF BoundSlots, Settled, BindingCurrent, ResidentKeys
    <2>3. /\ BetweenCalls /\ ~released /\ UNCHANGED <<released, bodies, told>> /\ unread' = unread \cup {s}
      BY <1>4, <2>1 DEF MarkDirty, BetweenCalls, Marked
    <2>4. world'.meta[s].dirty = Owned
      BY <2>1, <2>2, MarksAreMild DEF AdapterInv
    <2> QED BY <1>1, <1>2, <1>3, <2>1, <2>2, <2>3, <2>4, OfferSlotKeeps
  <1>5. ASSUME NEW k \in SparseKeys, Retry(k) PROVE AdapterInv'
    <2>1. PICK s \in BoundSlots(k) : OfferSlot(s, [NoCall EXCEPT !.name = "offer"])
      BY <1>5 DEF Retry
    <2>2. s \in Slots
      BY DEF BoundSlots
    <2>3. BetweenCalls /\ ~released /\ UNCHANGED <<released, bodies, told, unread>>
      BY <1>5 DEF Retry, BetweenCalls
    <2> QED BY <1>1, <1>2, <1>3, <2>1, <2>2, <2>3, OfferSlotKeeps
  <1>6. CASE Reoffer
    <2> DEFINE call == [op EXCEPT !.offered = op.name = "after"]
    <2>1. PICK s \in op.todo \cap Indebted : OfferSlot(s, call)
      BY <1>6 DEF Reoffer
    <2>2. /\ op.name \in {"before", "after"} /\ op.slot = NoSlot /\ UNCHANGED <<released, bodies, told, unread>>
      BY <1>6 DEF Reoffer
    <2>3. s \in Slots /\ ~released
      BY <2>2 DEF Indebted, AdapterInv, CallsAreNested, NoCall
    <2>4. call \in OpRecord /\ call.name = op.name /\ (call.name = "after" => call.offered)
      BY <2>2 DEF AdapterInv, AdapterTypeOK, OpRecord
    <2> HIDE DEF call
    <2> QED BY <1>1, <2>1, <2>2, <2>3, <2>4, OfferSlotKeeps
  <1> QED BY <1>4, <1>5, <1>6

(* Another owner of the chunk changes its content.                         *)
LEMMA OtherOwnerKeeps ==
  ASSUME MaintenanceInv, AdapterInv, NEW k \in SparseKeys, OtherOwnerMarks(k)
  PROVE  AdapterInv'
  <1>1. /\ BetweenCalls /\ UNCHANGED <<maintenance_vars, ready, released, op, bodies>>
        /\ UNCHANGED <<cells, told, unread>>
    BY DEF OtherOwnerMarks
  <1>2. Mild
    BY MildSteps DEF MildStep
  <1>3. stack = <<>> /\ bodies = <<>> /\ UNCHANGED <<stack, calls, op>>
    BY <1>1, NothingRuns DEF maintenance_vars, scheduler_vars
  <1>4. AdapterTypeOK'
    BY <1>1, <1>2 DEF Mild, AdapterInv, AdapterTypeOK
  <1>5. /\ CallsAreNested' /\ FramesHaveBodies' /\ Retained' = Retained
        /\ Framed' = Framed /\ Pending' = Pending /\ Ahead' = Ahead /\ Offering' = Offering
    BY <1>1, SameCalls DEF AdapterInv
  <1>6. BodiesHold'
    BY <1>1, <1>3, NoBodies
  <1>7. Indebted' = Indebted /\ unread' \subseteq Slots
    BY <1>1 DEF Indebted, AdapterInv, AdapterTypeOK
  <1>8. UnreadIsAwaited'
    <2>1. \A s \in unread' : world'.meta[s].dirty = Owned /\ Settled(s)'
      <3>1. \A s \in unread' \ unread : world'.meta[s].dirty = Owned /\ Settled(s)
        BY <1>1
      <3> QED BY <1>2, <1>7, <3>1, StillSettled
    <2>2. unread' \subseteq Awaited'
      BY <1>1, <1>5, <1>7 DEF AdapterInv, UnreadIsAwaited, Awaited
    <2> QED BY <1>1, <1>3, <1>5, <2>1, <2>2 DEF AdapterInv, UnreadIsAwaited
  <1>9. IdleIsTrue'
    BY <1>1, <1>5, <1>7 DEF AdapterInv, IdleIsTrue
  <1> QED BY <1>2, <1>4, <1>5, <1>6, <1>8, <1>9, MildKeeps DEF AdapterInv

(* A step that leaves the world, the cells, the marks and what is retained *)
(* as they are.                                                            *)
LEMMA SameMarks ==
  ASSUME AdapterInv, UNCHANGED <<world, cells, told, unread>>, Pending \subseteq Pending', Framed \subseteq Framed',
         Ahead \subseteq Ahead', Offering \subseteq Offering'
  PROVE  /\ Mild /\ unread' \subseteq Awaited' /\ Indebted' = Indebted
         /\ \A s \in unread' : world'.meta[s].dirty = Owned /\ Settled(s)'
         /\ ResidencyIsUnique' /\ ProductsHold'
  <1>1. Mild
    <2>1. \E s : s \in Slots
      BY MaintenanceAssumption DEF Slots
    <2> QED BY <2>1, MarkAndDebtAreMild DEF AdapterInv
  <1>2. Indebted' = Indebted /\ unread' \subseteq Slots
    BY DEF Indebted, AdapterInv, AdapterTypeOK
  <1>3. unread' \subseteq Awaited'
    BY <1>2 DEF AdapterInv, UnreadIsAwaited, Awaited
  <1>4. \A s \in unread' : world'.meta[s].dirty = Owned /\ Settled(s)'
    BY <1>1, <1>2, StillSettled
  <1> QED BY <1>1, <1>2, <1>3, <1>4, MildKeeps DEF AdapterInv

(* try_schedule: what the backend takes is pending or runs, and what it    *)
(* refuses its caller is told.                                             *)
LEMMA OfferProceedsKeeps ==
  ASSUME MaintenanceInv, AdapterInv, OfferProceeds
  PROVE  AdapterInv'
  <1>0. UNCHANGED <<world, cells, ready, released, op, bodies, told, unread>>
    BY DEF OfferProceeds, adapter_vars
  <1>1. /\ Main \in Producers /\ calls \in [Producers -> Call] /\ MaintenanceTypeOK
    BY AdapterAssumption DEF MaintenanceInv, MaintenanceTypeOK
  <1>2. calls[Main].at \in {"entered", "offered"}
    BY DEF OfferProceeds, Offer, Count
  <1>3. /\ op.slot \in Slots /\ calls[Main].slot = op.slot /\ op.name \in {"offer", "before", "after"}
        /\ ~ready /\ ~released /\ drain.at = "none" /\ calls[Main] # Away
        /\ ~(op.name \in {"finalize", "after"} /\ op.result = "Idle" /\ ~op.offered)
        /\ stack = <<>> /\ bodies = <<>> /\ Framed = {} /\ Ahead = {}
    BY <1>2, InsideAnOffer
  <1>4. AdapterTypeOK'
    BY <1>0 DEF AdapterInv, AdapterTypeOK
  <1>5. IdleIsTrue'
    BY <1>0, <1>3 DEF IdleIsTrue
  <1>6. ASSUME UNCHANGED <<slots, handles, sealed, drain>>, calls'[Main] # Away, calls'[Main].slot = calls[Main].slot,
               \A p \in Producers : p # Main => calls'[p] = calls[p]
        PROVE  CallsAreNested'
    BY <1>0, <1>3, <1>6 DEF AdapterInv, CallsAreNested, HandleOf
  <1>7. CASE Offer(Main)
    <2> DEFINE s == op.slot
    <2>1. /\ UNCHANGED <<slots, handles, sealed, drain>> /\ calls[Main].at = "entered"
      BY <1>7 DEF Offer
    <2>2. /\ calls'[Main].slot = calls[Main].slot /\ calls'[Main] # Away
          /\ \A p \in Producers : p # Main => calls'[p] = calls[p]
          /\ Synchronous' = Synchronous
      BY <1>1, <1>7, OfferMoves
    <2>3. CallsAreNested'
      BY <1>6, <2>1, <2>2
    <2>4. CASE Synchronous
      <3>1. /\ stack' = Requested(s) /\ UNCHANGED backend /\ calls' = [calls EXCEPT ![Main].at = "running"]
        BY <1>3, <1>7, <2>4 DEF Offer
      <3>2. calls'[Main].at = "running"
        BY <1>1, <3>1 DEF Call
      <3>3. FrameOf(s) = {} /\ stack' = Append(<<>>, Frame(s))
        BY <1>3, <3>1 DEF FrameOf, Requested
      <3>4. /\ Len(stack') = 1 /\ stack'[1] = Frame(s) /\ DOMAIN stack' = {1} /\ stack' # <<>>
            /\ Last(stack') = Frame(s)
        BY <3>3 DEF Last
      <3>5. FramesHaveBodies'
        <4>1. Top' = Frame(s) /\ Frame(s).active = FALSE /\ Frame(s).slot = s
          BY <3>4 DEF Top, Frame
        <4>2. Len(bodies') = 0 /\ bodies' = <<>> /\ op'.slot = s
          BY <1>0, <1>3
        <4> QED BY <2>2, <2>4, <3>4, <4>1, <4>2 DEF FramesHaveBodies
      <3>6. BodiesHold' /\ Ahead' = {}
        BY <1>0, <1>3 DEF BodiesHold, Ahead
      <3>7. s \in Framed' /\ Pending' = Pending
        BY <1>1, <1>3, <3>1, RequestKeeps, SamePending
      <3>8. unread' \subseteq Awaited' /\ \A r \in unread' : world'.meta[r].dirty = Owned /\ Settled(r)'
        <4>1. unread \subseteq Pending \cup Indebted \cup told \cup {s}
          BY <1>3 DEF AdapterInv, UnreadIsAwaited, Awaited, Offering
        <4>2. Indebted' = Indebted /\ Mild /\ unread' \subseteq Slots
          <5>1. Mild
            BY MildSteps DEF MildStep
          <5> QED BY <1>0, <5>1 DEF Indebted, AdapterInv, AdapterTypeOK
        <4>3. unread' \subseteq Awaited'
          BY <1>0, <3>7, <4>1, <4>2 DEF Awaited
        <4> QED BY <1>0, <4>2, <4>3, StillSettled
      <3>9. UnreadIsAwaited'
        BY <3>2, <3>8 DEF UnreadIsAwaited
      <3>10. Mild
        BY MildSteps DEF MildStep
      <3> QED BY <1>4, <1>5, <2>3, <3>5, <3>6, <3>9, <3>10, MildKeeps DEF AdapterInv
    <2>5. CASE ~Synchronous
      <3> DEFINE accepted == Accepts(backend, s)
      <3>1. /\ backend' = Offered(backend, s) /\ UNCHANGED stack
            /\ calls' = [calls EXCEPT ![Main].at = "offered",
                           ![Main].result = IF accepted THEN "Accepted" ELSE "CapacityExhausted"]
        BY <1>3, <1>7, <2>5 DEF Offer
      <3>2. calls'[Main].at = "offered" /\ calls'[Main].result = IF accepted THEN "Accepted" ELSE "CapacityExhausted"
        BY <1>1, <3>1 DEF Call
      <3>3. Pending \subseteq Pending' /\ (accepted => s \in Pending')
        BY <1>1, <1>3, <3>1, OfferKeeps
      <3> HIDE DEF accepted
      <3>4. FramesHaveBodies' /\ BodiesHold' /\ Ahead' = {} /\ Framed' = {}
        BY <1>0, <1>3, <3>1, NoBodies
      <3>5. ~accepted => s \in Offering'
        BY <1>0, <3>2 DEF Offering, Refused
      <3>6. unread' \subseteq Awaited' /\ \A r \in unread' : world'.meta[r].dirty = Owned /\ Settled(r)'
        <4>1. unread \subseteq Pending \cup Indebted \cup told \cup {s}
          BY <1>3 DEF AdapterInv, UnreadIsAwaited, Awaited, Offering
        <4>2. Indebted' = Indebted /\ Mild /\ unread' \subseteq Slots
          <5>1. Mild
            BY MildSteps DEF MildStep
          <5> QED BY <1>0, <5>1 DEF Indebted, AdapterInv, AdapterTypeOK
        <4>3. unread' \subseteq Awaited'
          BY <1>0, <3>3, <3>5, <4>1, <4>2 DEF Awaited
        <4> QED BY <1>0, <4>2, <4>3, StillSettled
      <3>7. UnreadIsAwaited'
        BY <1>0, <3>2, <3>3, <3>6 DEF UnreadIsAwaited
      <3>8. Mild
        BY MildSteps DEF MildStep
      <3> QED BY <1>4, <1>5, <2>3, <3>4, <3>7, <3>8, MildKeeps DEF AdapterInv
    <2> QED BY <2>4, <2>5
  <1>8. CASE Count(Main)
    <2>1. /\ UNCHANGED <<slots, handles, sealed, backend, stack, drain>> /\ calls[Main].at = "offered"
          /\ calls' = [calls EXCEPT ![Main].at = "counted"]
      BY <1>8 DEF Count
    <2>2. /\ calls'[Main].at = "counted" /\ calls'[Main].slot = calls[Main].slot
          /\ calls'[Main].result = calls[Main].result
          /\ \A p \in Producers : p # Main => calls'[p] = calls[p]
      BY <1>1, <2>1 DEF Call
    <2>3. CallsAreNested'
      BY <1>6, <2>1, <2>2 DEF Away
    <2>4. FramesHaveBodies' /\ BodiesHold' /\ Ahead' = {} /\ Framed' = {}
      BY <1>0, <1>3, <2>1, NoBodies
    <2>5. Pending' = Pending /\ Offering \subseteq Offering'
      BY <1>0, <2>1, <2>2, SamePending DEF Offering, Refused
    <2>6. /\ unread' \subseteq Awaited' /\ \A s \in unread' : world'.meta[s].dirty = Owned /\ Settled(s)'
          /\ ResidencyIsUnique' /\ ProductsHold'
      BY <1>0, <1>3, <2>4, <2>5, SameMarks
    <2>7. UnreadIsAwaited'
      BY <1>0, <2>1, <2>2, <2>5, <2>6 DEF AdapterInv, UnreadIsAwaited
    <2> QED BY <1>4, <1>5, <2>3, <2>4, <2>6, <2>7 DEF AdapterInv
  <1> QED BY <1>7, <1>8 DEF OfferProceeds

(* The offer returns: what was accepted is pending, or has been run; the   *)
(* caller learns of anything else (chunk_maintenance.h:508-517).           *)
LEMMA OfferReturnsKeeps ==
  ASSUME MaintenanceInv, AdapterInv, OfferReturns
  PROVE  AdapterInv'
  <1> DEFINE result == calls[Main].result
  <1>1. /\ Leave(Main) /\ UNCHANGED <<world, ready, released, bodies, unread>>
        /\ cells' = [cells EXCEPT ![op.slot].debt = @ \/ (op.claimed /\ result \in {"CapacityExhausted", "Stalled"})]
        /\ told' = (IF result = "Accepted" THEN told \ {op.slot} ELSE told \cup {op.slot})
        /\ op' = (IF op.name = "offer" \/ result = "Thrown" THEN NoCall
                  ELSE [op EXCEPT !.slot = NoSlot, !.todo = @ \ 1 .. op.slot])
    BY DEF OfferReturns
  <1>2. /\ calls[Main].at = "counted" /\ calls' = [calls EXCEPT ![Main] = Away]
        /\ UNCHANGED <<slots, handles, sealed, backend, stack, drain>>
    BY <1>1 DEF Leave
  <1>3. /\ Main \in Producers /\ calls \in [Producers -> Call] /\ AdapterTypeOK /\ told \subseteq Slots /\ unread \subseteq Slots
    BY AdapterAssumption DEF MaintenanceInv, MaintenanceTypeOK, AdapterInv, AdapterTypeOK
  <1>4. /\ op.slot \in Slots /\ calls[Main].slot = op.slot /\ op.name \in {"offer", "before", "after"}
        /\ ~ready /\ ~released /\ drain.at = "none"
        /\ ~(op.name \in {"finalize", "after"} /\ op.result = "Idle" /\ ~op.offered)
        /\ stack = <<>> /\ bodies = <<>> /\ Framed = {} /\ Ahead = {}
    BY <1>2, InsideAnOffer
  <1>5. /\ calls'[Main] = Away /\ \A p \in Producers : p # Main => calls'[p] = calls[p]
    BY <1>2, <1>3
  <1>6. PICK s \in Slots : s = op.slot
    BY <1>4
  <1>7. Mild /\ \A r \in Slots : cells[r].debt => cells'[r].debt
    <2>1. Mild
      BY MildSteps DEF MildStep
    <2> DEFINE debt == cells[s].debt \/ (op.claimed /\ result \in {"CapacityExhausted", "Stalled"})
    <2>2. cells' = [cells EXCEPT ![s].debt = debt] /\ debt \in BOOLEAN
      <3>1. cells[s].debt \in BOOLEAN
        BY <1>3 DEF AdapterTypeOK, CellRecord
      <3> QED BY <1>1, <1>6, <3>1
    <2>3. cells[s].debt => debt
      OBVIOUS
    <2> HIDE DEF debt
    <2>4. /\ cells'[s].debt = debt /\ \A r \in Slots : r # s => cells'[r].debt = cells[r].debt
      BY <1>3, <2>2, DebtOnly
    <2> QED BY <2>1, <2>3, <2>4
  <1> HIDE DEF result
  <1>8. /\ op' \in OpRecord /\ op'.slot = NoSlot /\ (op' = NoCall \/ op'.name \in {"before", "after"})
        /\ op' # NoCall => op'.name = op.name /\ op'.result = op.result /\ op'.offered = op.offered
    <2>1. CASE op' = NoCall
      BY <2>1, NoCallTyped DEF NoCall
    <2>2. CASE op' # NoCall
      <3>1. op' = [op EXCEPT !.slot = NoSlot, !.todo = op.todo \ 1 .. op.slot] /\ op.name # "offer"
        BY <1>1, <2>2
      <3>2. op \in OpRecord /\ op.todo \ 1 .. op.slot \subseteq Slots /\ NoSlot \in 0 .. Capacity
        <4>1. op \in OpRecord /\ op.todo \subseteq Slots
          BY <1>3, AdapterTypes
        <4>2. NoSlot \in 0 .. Capacity
          BY MaintenanceAssumption DEF NoSlot
        <4> QED BY <4>1, <4>2
      <3> DEFINE todo == op.todo \ 1 .. op.slot
      <3> HIDE DEF todo
      <3>3. op' = [op EXCEPT !.slot = NoSlot, !.todo = todo] /\ todo \subseteq Slots
        BY <3>1, <3>2 DEF todo
      <3>4. /\ op' \in OpRecord /\ op'.slot = NoSlot /\ op'.name = op.name /\ op'.result = op.result
            /\ op'.offered = op.offered
        BY <3>2, <3>3 DEF OpRecord
      <3> QED BY <1>4, <3>1, <3>4
    <2> QED BY <2>1, <2>2
  <1>9. AdapterTypeOK'
    <2>1. told' \subseteq Slots
      BY <1>1, <1>3, <1>4
    <2> QED BY <1>1, <1>3, <1>7, <1>8, <2>1 DEF Mild, AdapterTypeOK
  <1>10. CallsAreNested'
    <2>1. op'.name \notin {"run_some", "flush"}
      BY <1>8 DEF NoCall
    <2>2. CallsAreNested
      BY DEF AdapterInv
    <2>3. ~ready' /\ ~released' /\ drain'.at = "none"
      BY <1>1, <1>2, <1>4
    <2>4. sealed' /\ \A p \in Producers : p # Main => calls'[p] = Away
      BY <1>2, <1>5, <2>2 DEF CallsAreNested
    <2>5. \A r \in Slots : slots'[r].target # NoTask /\ HandleOf(r)' \in handles'
      BY <1>2, <1>4, <2>2 DEF CallsAreNested, HandleOf
    <2> QED BY <1>5, <1>8, <2>1, <2>3, <2>4, <2>5 DEF CallsAreNested
  <1>11. FramesHaveBodies' /\ BodiesHold' /\ Ahead' = {} /\ Framed' = {}
    BY <1>1, <1>2, <1>4, NoBodies
  <1>12. UnreadIsAwaited'
    <2>1. Pending' = Pending
      BY <1>2, SamePending
    <2>2. Indebted \subseteq Indebted'
      BY <1>7 DEF Indebted
    <2>3. unread \subseteq Pending \cup Indebted \cup told \cup {s}
      BY <1>4, <1>6 DEF AdapterInv, UnreadIsAwaited, Awaited, Offering
    <2>4. result = "Accepted" /\ s \in unread => s \in Pending
      BY <1>2, <1>6 DEF AdapterInv, UnreadIsAwaited, result
    <2>5. unread' \subseteq Awaited'
      <3>1. \A r \in unread : r # s => r \in Pending \cup Indebted' \cup told'
        BY <1>1, <1>6, <2>2, <2>3
      <3>2. s \in unread => s \in Pending \cup told'
        BY <1>1, <1>6, <2>4
      <3> QED BY <1>1, <2>1, <3>1, <3>2 DEF Awaited
    <2>6. \A r \in unread' : world'.meta[r].dirty = Owned /\ Settled(r)'
      BY <1>1, <1>3, <1>7, StillSettled
    <2> QED BY <1>5, <2>5, <2>6 DEF UnreadIsAwaited, Away
  <1>13. IdleIsTrue'
    <2>1. ~(op'.name \in {"finalize", "after"} /\ op'.result = "Idle" /\ ~op'.offered)
      BY <1>4, <1>8 DEF NoCall
    <2> QED BY <1>1, <1>4, <2>1 DEF IdleIsTrue
  <1> QED BY <1>3, <1>7, <1>9, <1>10, <1>11, <1>12, <1>13, MildKeeps DEF AdapterInv

(* run_some and flush begin: a drain, or the retries before it.            *)
LEMMA CallBegins ==
  ASSUME MaintenanceInv, AdapterInv, UNCHANGED <<world, cells, released, bodies, told, unread>>, ~released, ready' = FALSE,
         BetweenCalls \/ (op.slot = NoSlot /\ op.name \notin {"run_some", "flush"}),
         op' \in OpRecord, op'.slot = NoSlot,
         \/ UNCHANGED maintenance_vars /\ op'.name = "before"
         \/ (\E b \in DrainBudgets \cup {Unbounded} : BeginDrain(b)) /\ op'.name \in {"run_some", "flush"}
  PROVE  AdapterInv'
  <1>1. /\ stack = <<>> /\ bodies = <<>> /\ calls[Main] = Away /\ drain.at = "none"
        /\ Framed = {} /\ Ahead = {} /\ Offering = {}
    BY NothingRuns
  <1>2. UNCHANGED <<slots, handles, sealed, backend, stack, calls>>
    BY DEF maintenance_vars, scheduler_vars, BeginDrain
  <1>3. drain'.at # "none" <=> op'.name \in {"run_some", "flush"}
    <2>1. CASE UNCHANGED maintenance_vars /\ op'.name = "before"
      BY <1>1, <2>1 DEF maintenance_vars, scheduler_vars
    <2>2. CASE (\E b \in DrainBudgets \cup {Unbounded} : BeginDrain(b)) /\ op'.name \in {"run_some", "flush"}
      BY <2>2 DEF BeginDrain, NoDrain
    <2> QED BY <2>1, <2>2
  <1>4. op'.name # "finalize" /\ op'.name # "after"
    <2>1. CASE UNCHANGED maintenance_vars /\ op'.name = "before"
      BY <2>1
    <2>2. CASE (\E b \in DrainBudgets \cup {Unbounded} : BeginDrain(b)) /\ op'.name \in {"run_some", "flush"}
      BY <2>2
    <2> QED BY <2>1, <2>2
  <1>5. AdapterTypeOK'
    BY DEF AdapterInv, AdapterTypeOK
  <1>6. CallsAreNested'
    BY <1>1, <1>2, <1>3 DEF AdapterInv, CallsAreNested, HandleOf
  <1>7. FramesHaveBodies' /\ BodiesHold' /\ Ahead' = {} /\ Framed' = {}
    BY <1>1, <1>2, NoBodies
  <1>8. Pending' = Pending
    BY <1>2, SamePending
  <1>9. /\ unread' \subseteq Awaited' /\ \A s \in unread' : world'.meta[s].dirty = Owned /\ Settled(s)'
        /\ ResidencyIsUnique' /\ ProductsHold'
    BY <1>1, <1>7, <1>8, SameMarks
  <1>10. UnreadIsAwaited'
    BY <1>1, <1>2, <1>9 DEF UnreadIsAwaited, Away
  <1>11. IdleIsTrue'
    BY <1>4 DEF IdleIsTrue
  <1> QED BY <1>5, <1>6, <1>7, <1>9, <1>10, <1>11 DEF AdapterInv

(* run_some, flush, and the drain of a flush.                              *)
LEMMA CallsBegin ==
  ASSUME MaintenanceInv, AdapterInv, (\E b \in DrainBudgets : RunSome(b)) \/ Flush \/ FlushDrains
  PROVE  AdapterInv'
  <1>1. /\ [NoCall EXCEPT !.name = "run_some"] \in OpRecord /\ [NoCall EXCEPT !.name = "flush"] \in OpRecord
        /\ [NoCall EXCEPT !.name = "before", !.todo = Slots] \in OpRecord
    BY NoCallTyped DEF OpRecord
  <1>0. /\ [NoCall EXCEPT !.name = "run_some"].slot = NoSlot /\ [NoCall EXCEPT !.name = "run_some"].name = "run_some"
        /\ [NoCall EXCEPT !.name = "flush"].slot = NoSlot /\ [NoCall EXCEPT !.name = "flush"].name = "flush"
        /\ [NoCall EXCEPT !.name = "before", !.todo = Slots].slot = NoSlot
        /\ [NoCall EXCEPT !.name = "before", !.todo = Slots].name = "before"
    BY DEF NoCall
  <1>2. CASE \E b \in DrainBudgets : RunSome(b)
    <2>1. PICK b \in DrainBudgets : RunSome(b)
      BY <1>2
    <2>2. /\ BetweenCalls /\ BeginDrain(b) /\ ready' = FALSE /\ op' = [NoCall EXCEPT !.name = "run_some"]
          /\ UNCHANGED <<world, cells, released, bodies, told, unread>>
      BY <2>1 DEF RunSome
    <2>3. op' \in OpRecord /\ op'.slot = NoSlot /\ op'.name = "run_some"
      BY <1>0, <1>1, <2>2
    <2>4. ~released
      BY <2>2 DEF BetweenCalls
    <2> QED BY <2>2, <2>3, <2>4, CallBegins
  <1>3. CASE Flush
    <2>1. /\ BetweenCalls /\ ready' = FALSE /\ op' = [NoCall EXCEPT !.name = "before", !.todo = Slots]
          /\ UNCHANGED <<world, cells, released, bodies, told, unread>> /\ UNCHANGED maintenance_vars
      BY <1>3 DEF Flush
    <2>2. op' \in OpRecord /\ op'.slot = NoSlot /\ op'.name = "before"
      BY <1>0, <1>1, <2>1
    <2>3. ~released
      BY <2>1 DEF BetweenCalls
    <2> QED BY <2>1, <2>2, <2>3, CallBegins
  <1>4. CASE FlushDrains
    <2>1. /\ op.name = "before" /\ op.slot = NoSlot /\ BeginDrain(Unbounded) /\ op' = [NoCall EXCEPT !.name = "flush"]
          /\ UNCHANGED <<world, cells, ready, released, bodies, told, unread>>
      BY <1>4 DEF FlushDrains
    <2>2. op' \in OpRecord /\ op'.slot = NoSlot /\ op'.name = "flush"
      BY <1>0, <1>1, <2>1
    <2>3. ~released /\ ready' = FALSE
      <3>1. ~released /\ ~ready /\ ready \in BOOLEAN
        BY <2>1 DEF AdapterInv, CallsAreNested, NoCall, AdapterTypeOK
      <3> QED BY <2>1, <3>1
    <2> QED BY <2>1, <2>2, <2>3, CallBegins
  <1> QED BY <1>2, <1>3, <1>4

(* The steps of a drain between its runs lose nothing that is pending.     *)
LEMMA DrainProceedsKeeps ==
  ASSUME MaintenanceInv, AdapterInv, DrainProceeds
  PROVE  AdapterInv'
  <1>0. UNCHANGED <<world, cells, ready, released, op, bodies, told, unread>> /\ MaintenanceTypeOK
    BY DEF DrainProceeds, adapter_vars, MaintenanceInv
  <1>1. /\ UNCHANGED <<slots, handles, sealed, stack, calls>>
        /\ drain.at # "none" /\ drain'.at # "none" /\ Pending' = Pending /\ Synchronous' = Synchronous
    <2>1. CASE ReadInFlight \/ ReadPending \/ ReadLeft
      <3>1. UNCHANGED <<slots, handles, sealed, stack, calls, backend>> /\ drain.at # "none"
        BY <2>1 DEF ReadInFlight, ReadPending, ReadLeft
      <3>2. drain'.at # "none"
        BY <1>0, <2>1 DEF ReadInFlight, ReadPending, ReadLeft, MaintenanceTypeOK, DrainRecord
      <3> QED BY <3>1, <3>2, SamePending
    <2>2. CASE Claim
      <3>1. /\ UNCHANGED <<slots, handles, sealed, stack, calls, drain>> /\ drain.at # "none" /\ backend.claimed = {}
            /\ backend' = [backend EXCEPT !.claimed = backend.word, !.word = {}]
        BY <2>2 DEF Claim
      <3>2. Pending' = Pending /\ backend'.kind = backend.kind
        BY <1>0, <3>1, ClaimKeeps
      <3> QED BY <3>1, <3>2 DEF Synchronous
    <2>3. CASE DrainCompletes
      <3>1. /\ UNCHANGED <<slots, handles, sealed, stack, calls>> /\ drain.at # "none"
            /\ backend' = Released(backend) /\ drain' = [drain EXCEPT !.at = "done"]
        BY <2>3 DEF DrainCompletes
      <3>2. Pending' = Pending /\ backend'.kind = backend.kind
        BY <1>0, <3>1, ReleasedKeeps
      <3>3. drain'.at = "done"
        BY <1>0, <3>1 DEF MaintenanceTypeOK, DrainRecord
      <3> QED BY <3>1, <3>2, <3>3 DEF Synchronous
    <2> QED BY <2>1, <2>2, <2>3 DEF DrainProceeds
  <1>2. op.name \in {"run_some", "flush"} /\ ~ready
    BY <1>1 DEF AdapterInv, CallsAreNested, NoCall
  <1>3. AdapterTypeOK'
    BY <1>0 DEF AdapterInv, AdapterTypeOK
  <1>4. CallsAreNested'
    BY <1>0, <1>1, <1>2 DEF AdapterInv, CallsAreNested, HandleOf
  <1>5. FramesHaveBodies'
    BY <1>0, <1>1 DEF AdapterInv, FramesHaveBodies, Top
  <1>6. Framed' = Framed /\ Ahead' = Ahead /\ Offering' = Offering
    BY <1>0, <1>1, SameFrames DEF Ahead, Offering, Refused
  <1>7. BodiesHold'
    BY <1>0, <1>1, <1>6 DEF AdapterInv, BodiesHold, BodyHolds, Settled, BindingCurrent, ResidentKeys, ReadSince
  <1>8. /\ unread' \subseteq Awaited' /\ \A s \in unread' : world'.meta[s].dirty = Owned /\ Settled(s)'
        /\ ResidencyIsUnique' /\ ProductsHold'
    BY <1>0, <1>1, <1>6, SameMarks
  <1>9. UnreadIsAwaited'
    BY <1>0, <1>1, <1>8 DEF AdapterInv, UnreadIsAwaited
  <1>10. IdleIsTrue'
    BY <1>0, <1>2 DEF IdleIsTrue
  <1> QED BY <1>3, <1>4, <1>5, <1>7, <1>8, <1>9, <1>10 DEF AdapterInv

(* The drain returns: its Idle is that of a scheduler that retains nothing. *)
LEMMA DrainReturnsKeeps ==
  ASSUME MaintenanceInv, AdapterInv, DrainReturns
  PROVE  AdapterInv'
  <1> DEFINE name == IF op.name = "flush" THEN "after" ELSE "finalize"
             todo == IF op.name = "flush" THEN Slots ELSE {}
  <1>1. /\ Conclude /\ op' = [op EXCEPT !.name = name, !.todo = todo, !.result = DrainResult]
        /\ UNCHANGED <<world, cells, ready, released, bodies, told, unread>>
    BY DEF DrainReturns
  <1>2. /\ drain.at = "closing" /\ drain' = NoDrain
        /\ UNCHANGED <<slots, handles, sealed, backend, stack, calls>>
    BY <1>1 DEF Conclude
  <1>3. /\ op.name \in {"run_some", "flush"} /\ ~ready /\ ~released /\ op \in OpRecord
    BY <1>2 DEF AdapterInv, CallsAreNested, NoCall, AdapterTypeOK
  <1>4. op.slot = NoSlot /\ calls[Main] = Away
    BY <1>3 DEF AdapterInv, CallsAreNested
  <1>5. name \in {"finalize", "after"} /\ todo \in SUBSET Slots /\ DrainResult \in {"Idle", "Drained", "BudgetExhausted", "Stalled"}
    BY DEF DrainResult
  <1> HIDE DEF name, todo
  <1>6. op' \in OpRecord /\ op'.name = name /\ op'.result = DrainResult /\ op'.slot = NoSlot
    BY <1>1, <1>3, <1>4, <1>5 DEF OpRecord
  <1>7. AdapterTypeOK'
    BY <1>1, <1>6 DEF AdapterInv, AdapterTypeOK
  <1>8. CallsAreNested'
    <2>1. drain'.at = "none"
      BY <1>2 DEF NoDrain
    <2> QED BY <1>1, <1>2, <1>3, <1>4, <1>5, <1>6, <2>1 DEF AdapterInv, CallsAreNested, HandleOf
  <1>9. FramesHaveBodies'
    <2>1. Synchronous => stack = <<>>
      BY <1>4, FramesNeedACall
    <2> QED BY <1>1, <1>2, <2>1, SamePending DEF AdapterInv, FramesHaveBodies, Top
  <1>10. Framed' = Framed /\ Ahead' = Ahead /\ Offering = {} /\ Pending' = Pending /\ Retained' = Retained /\ Synchronous' = Synchronous
    BY <1>1, <1>2, <1>4, SameFrames, SamePending, SameRetained DEF Ahead, Offering, Refused, Away
  <1>11. BodiesHold'
    BY <1>1, <1>2, <1>10 DEF AdapterInv, BodiesHold, BodyHolds, Settled, BindingCurrent, ResidentKeys, ReadSince
  <1>12. /\ unread' \subseteq Awaited' /\ \A s \in unread' : world'.meta[s].dirty = Owned /\ Settled(s)'
         /\ ResidencyIsUnique' /\ ProductsHold'
    BY <1>1, <1>2, <1>10, SameMarks
  <1>13. UnreadIsAwaited'
    BY <1>2, <1>4, <1>12 DEF UnreadIsAwaited, Away
  <1>14. IdleIsTrue'
    <2>1. DrainResult = "Idle" => Retained = {}
      BY <1>2, IdleIsEvident
    <2> QED BY <1>1, <1>3, <1>6, <1>10, <2>1 DEF IdleIsTrue
  <1> QED BY <1>7, <1>8, <1>9, <1>11, <1>12, <1>13, <1>14 DEF AdapterInv

(* finalize_drain opens the boundary over an Idle scheduler and no debt.   *)
LEMMA FinalizeKeeps ==
  ASSUME MaintenanceInv, AdapterInv, Finalize
  PROVE  AdapterInv'
  <1>1. /\ op.name = "finalize" \/ (op.name = "after" /\ op.slot = NoSlot)
        /\ ready' = (op.result = "Idle" /\ ~op.offered /\ Indebted = {}) /\ op' = NoCall
        /\ UNCHANGED <<maintenance_vars, world, cells, released, bodies, told, unread>>
    BY DEF Finalize
  <1>2. UNCHANGED <<slots, handles, sealed, backend, stack, calls, drain>>
    BY <1>1 DEF maintenance_vars, scheduler_vars
  <1>3. op.slot = NoSlot /\ ~released
    BY <1>1 DEF AdapterInv, CallsAreNested, NoCall
  <1>4. /\ stack = <<>> /\ bodies = <<>> /\ calls[Main] = Away /\ drain.at = "none"
        /\ Framed = {} /\ Ahead = {} /\ Offering = {}
    BY <1>1, <1>3, NothingRuns
  <1>5. ready' => Retained = {} /\ Indebted = {}
    BY <1>1 DEF AdapterInv, IdleIsTrue
  <1>6. AdapterTypeOK'
    BY <1>1, NoCallTyped DEF AdapterInv, AdapterTypeOK
  <1>7. CallsAreNested'
    BY <1>1, <1>2, <1>3, <1>4 DEF AdapterInv, CallsAreNested, HandleOf, NoCall
  <1>8. FramesHaveBodies' /\ BodiesHold' /\ Ahead' = {} /\ Framed' = {}
    BY <1>1, <1>2, <1>4, NoBodies
  <1>9. Pending' = Pending /\ Retained' = Retained
    BY <1>2, SameRetained
  <1>10. /\ unread' \subseteq Awaited' /\ \A s \in unread' : world'.meta[s].dirty = Owned /\ Settled(s)'
         /\ ResidencyIsUnique' /\ ProductsHold' /\ Indebted' = Indebted
    BY <1>1, <1>4, <1>8, <1>9, SameMarks
  <1>11. UnreadIsAwaited'
    BY <1>2, <1>4, <1>10 DEF UnreadIsAwaited, Away
  <1>12. IdleIsTrue'
    BY <1>1, <1>5, <1>9, <1>10 DEF IdleIsTrue, NoCall
  <1> QED BY <1>6, <1>7, <1>8, <1>10, <1>11, <1>12 DEF AdapterInv

(* The adapter releases its slots.                                         *)
LEMMA ReleaseKeeps ==
  ASSUME MaintenanceInv, AdapterInv, AdapterReleases
  PROVE  AdapterInv'
  <1>1. /\ BetweenCalls /\ released' = TRUE /\ ready' = FALSE
        /\ UNCHANGED <<handles, sealed, backend, stack, calls, drain>>
        /\ UNCHANGED <<world, cells, op, bodies, told, unread>>
    BY DEF AdapterReleases
  <1>2. op = NoCall
    BY <1>1 DEF BetweenCalls
  <1>3. /\ stack = <<>> /\ bodies = <<>> /\ calls[Main] = Away /\ drain.at = "none" /\ op.slot = NoSlot
        /\ Framed = {} /\ Ahead = {} /\ Offering = {}
    BY <1>1, NothingRuns
  <1>4. AdapterTypeOK'
    BY <1>1 DEF AdapterInv, AdapterTypeOK
  <1>5. CallsAreNested'
    BY <1>1, <1>2, <1>3 DEF AdapterInv, CallsAreNested
  <1>6. FramesHaveBodies' /\ BodiesHold' /\ Ahead' = {} /\ Framed' = {}
    BY <1>1, <1>3, NoBodies
  <1>7. Pending' = Pending
    BY <1>1, SamePending
  <1>8. /\ unread' \subseteq Awaited' /\ \A s \in unread' : world'.meta[s].dirty = Owned /\ Settled(s)'
        /\ ResidencyIsUnique' /\ ProductsHold'
    BY <1>1, <1>3, <1>6, <1>7, SameMarks
  <1>9. UnreadIsAwaited'
    BY <1>1, <1>3, <1>8 DEF UnreadIsAwaited, Away
  <1>10. IdleIsTrue'
    BY <1>1, <1>2 DEF IdleIsTrue, NoCall
  <1> QED BY <1>4, <1>5, <1>6, <1>8, <1>9, <1>10 DEF AdapterInv

-----------------------------------------------------------------------------
(* The runs themselves: they begin, their callbacks mark, offer and throw, *)
(* and they return.                                                        *)

(* run_slot looks at its slot: one that is unread has a callback ahead of  *)
(* it (chunk_maintenance.h:597-611).                                       *)
LEMMA SlotBeginsEffect ==
  ASSUME AdapterInv, NEW s \in Slots, SlotBegins(s)
  PROVE  /\ \E body \in BodyRecord :
              /\ bodies' = Append(bodies, body) /\ (cells[s].bound => body.units = 1)
              /\ body.phase = "rebuilding" \/ (body.phase = "done" /\ s \notin unread)
              /\ body.phase = "rebuilding" =>
                   Settled(s) /\ body.observed.content_version = world.meta[s].content_version
         /\ cells' = cells \/ (s \notin unread /\ cells' = [cells EXCEPT ![s].debt = FALSE])
         /\ UNCHANGED <<world, ready, released, op, told, unread>>
  <1> DEFINE observed == Meta!ObserveDirty(world.meta[s], Owned, world.generation[s])
             runs == cells[s].bound /\ BindingCurrent(s)
             clean == runs /\ NothingToDo(s, observed)
             phase == IF runs /\ ~clean THEN "rebuilding" ELSE "done"
             units == IF cells[s].bound THEN 1 ELSE 0
             body == [phase |-> phase, observed |-> observed, units |-> units]
  <1>1. /\ bodies' = Append(bodies, body) /\ cells' = (IF clean THEN [cells EXCEPT ![s].debt = FALSE] ELSE cells)
        /\ UNCHANGED <<world, ready, released, op, told, unread>>
    BY DEF SlotBegins
  <1>2. /\ world.meta[s] \in MetaRecord /\ world.generation[s] \in Nat
    BY AdapterTypes DEF AdapterInv
  <1>3. /\ observed \in Observation /\ observed.content_version = world.meta[s].content_version
        /\ observed.mask = world.meta[s].dirty \cap Owned
    BY <1>2 DEF Meta!ObserveDirty, Observation, MetaRecord
  <1>4. s \in unread => runs /\ observed.mask # {}
    BY <1>3 DEF AdapterInv, UnreadIsAwaited, Settled, Owned
  <1> HIDE DEF observed
  <1>5. s \in unread => ~clean /\ phase = "rebuilding"
    BY <1>4 DEF NothingToDo
  <1>6. runs <=> Settled(s)
    BY DEF Settled
  <1> HIDE DEF clean, runs
  <1>7. phase \in {"rebuilding", "done"} /\ (phase = "rebuilding" => Settled(s))
    BY <1>6
  <1>8. units \in {0, 1} /\ (cells[s].bound => units = 1)
    OBVIOUS
  <1> HIDE DEF phase, units
  <1>9. body \in BodyRecord /\ body.phase = phase /\ body.units = units /\ body.observed = observed
    BY <1>3, <1>7, <1>8 DEF BodyRecord
  <1> HIDE DEF body
  <1>10. body.phase = "rebuilding" \/ (body.phase = "done" /\ s \notin unread)
    BY <1>5, <1>7, <1>9
  <1>11. cells' = cells \/ (s \notin unread /\ cells' = [cells EXCEPT ![s].debt = FALSE])
    BY <1>1, <1>5
  <1> QED BY <1>1, <1>3, <1>7, <1>8, <1>9, <1>10, <1>11

(* The run on top of the frames begins.                                    *)
LEMMA BeginsKeeps ==
  ASSUME MaintenanceInv, AdapterInv, Mild, NEW s \in Slots, SlotBegins(s), NEW n \in Nat \ {0},
         UNCHANGED <<slots, handles, sealed, calls, drain>>, Synchronous' = Synchronous, ~ready, ~released,
         Len(bodies) = n - 1, DOMAIN stack' = 1 .. n, stack'[n].slot = s,
         \A i \in 1 .. n - 1 : stack'[i].slot = stack[i].slot /\ stack[i].slot # s /\ stack[i].slot \in Slots,
         Pending \subseteq Pending' \cup {s}, Framed \subseteq Framed' \cup {s}, Len(bodies') = n => FramesHaveBodies',
         calls[Main].at \notin {"offered", "counted"}, op.name \notin {"finalize", "after"} \/ op.slot # NoSlot
  PROVE  AdapterInv'
  <1>1. UNCHANGED <<world, ready, released, op, told, unread>>
    BY SlotBeginsEffect
  <1>2. PICK body \in BodyRecord :
              /\ bodies' = Append(bodies, body) /\ (cells[s].bound => body.units = 1)
              /\ body.phase = "rebuilding" \/ (body.phase = "done" /\ s \notin unread)
              /\ body.phase = "rebuilding" =>
                   Settled(s) /\ body.observed.content_version = world.meta[s].content_version
    BY SlotBeginsEffect
  <1>3. AdapterTypeOK /\ bodies \in Seq(BodyRecord)
    BY DEF AdapterInv, AdapterTypeOK
  <1>4. /\ bodies' \in Seq(BodyRecord) /\ Len(bodies') = n /\ DOMAIN bodies' = 1 .. n /\ bodies'[n] = body
        /\ DOMAIN bodies = 1 .. n - 1 /\ \A i \in 1 .. n - 1 : bodies'[i] = bodies[i]
    BY <1>2, <1>3
  <1>5. AdapterTypeOK'
    BY <1>1, <1>4 DEF Mild, AdapterInv, AdapterTypeOK
  <1>6. CallsAreNested'
    BY <1>1 DEF AdapterInv, CallsAreNested, HandleOf
  <1>7. FramesHaveBodies'
    BY <1>4
  <1>8. \A r \in Slots : Settled(r)' <=> Settled(r)
    BY <1>3, MildKeeps
  <1>9. BodiesHold'
    <2>1. ASSUME NEW i \in 1 .. n - 1, NEW r, NEW b, r = stack'[i].slot, b = bodies'[i]
          PROVE  BodyHolds(r, b)'
      <3>1. r = stack[i].slot /\ b = bodies[i] /\ r \in Slots /\ r # s /\ b \in BodyRecord
        BY <1>3, <1>4, <2>1, ElementOfSeq
      <3>2. BodyHolds(r, b)
        BY <1>4, <3>1 DEF AdapterInv, BodiesHold
      <3>3. r \in unread' => r \in unread
        BY <1>1
      <3>4. r \notin Framed' => r \notin Framed
        BY <3>1
      <3> QED BY <1>1, <1>3, <3>1, <3>2, <3>4, BodyStays
    <2>2. BodyHolds(s, body)'
      <3>1. /\ cells'[s].bound = cells[s].bound /\ world' = world /\ unread' = unread
            /\ world.meta[s].content_version \in Nat
        BY <1>1, <1>3, AdapterTypes DEF Mild
      <3>2. body.phase = "rebuilding" =>
              Settled(s)' /\ body.observed.content_version <= world'.meta[s].content_version
        BY <1>2, <1>8, <3>1
      <3> QED BY <1>2, <3>1, <3>2 DEF BodyHolds
    <2>3. \A i \in DOMAIN bodies' : \A r, b : r = stack'[i].slot /\ b = bodies'[i] => BodyHolds(r, b)'
      <3>1. \A i \in DOMAIN bodies' : i = n \/ i \in 1 .. n - 1
        BY <1>4
      <3> QED BY <1>4, <2>1, <2>2, <3>1
    <2> QED BY <2>3, BodiesHoldNext
  <1>10. UnreadIsAwaited'
    <2>1. Ahead \subseteq Ahead'
      <3>1. ASSUME NEW i \in DOMAIN bodies, bodies[i].phase = "rebuilding" PROVE stack[i].slot \in Ahead'
        <4>1. i \in DOMAIN bodies' /\ bodies'[i].phase = "rebuilding" /\ stack'[i].slot = stack[i].slot
          BY <1>4, <3>1
        <4> QED BY <4>1 DEF Ahead
      <3> QED BY <3>1 DEF Ahead
    <2>2. s \in unread => s \in Ahead'
      <3>1. s \in unread => n \in DOMAIN bodies' /\ bodies'[n].phase = "rebuilding" /\ stack'[n].slot = s
        BY <1>2, <1>4
      <3> QED BY <3>1 DEF Ahead
    <2>3. Offering' = Offering
      BY <1>1 DEF Offering, Refused
    <2>4. \A r \in unread : r \in Indebted => r \in Indebted'
      <3>1. cells' = cells \/ (s \notin unread /\ cells' = [cells EXCEPT ![s].debt = FALSE])
        BY SlotBeginsEffect
      <3>2. \A r \in unread : cells'[r].debt = cells[r].debt
        <4>1. CASE cells' = cells
          BY <4>1
        <4>2. CASE s \notin unread /\ cells' = [cells EXCEPT ![s].debt = FALSE]
          <5>1. \A r \in Slots : r # s => cells'[r].debt = cells[r].debt
            BY <1>3, <4>2, DebtOnly
          <5> QED BY <1>3, <4>2, <5>1 DEF AdapterTypeOK
        <4> QED BY <3>1, <4>1, <4>2
      <3> QED BY <3>2 DEF Indebted
    <2>5. unread' \subseteq Awaited'
      BY <1>1, <2>1, <2>2, <2>3, <2>4 DEF AdapterInv, UnreadIsAwaited, Awaited
    <2>6. \A r \in unread' : world'.meta[r].dirty = Owned /\ Settled(r)'
      <3>1. unread' \subseteq Slots /\ \A r \in unread' \ unread : world'.meta[r].dirty = Owned /\ Settled(r)
        BY <1>1, <1>3 DEF AdapterTypeOK
      <3> QED BY <3>1, StillSettled
    <2> QED BY <2>5, <2>6 DEF UnreadIsAwaited
  <1>11. IdleIsTrue'
    BY <1>1 DEF AdapterInv, IdleIsTrue
  <1> QED BY <1>3, <1>5, <1>6, <1>7, <1>9, <1>10, <1>11, MildKeeps DEF AdapterInv

(* A run begins, from the queue or in the frame of a request.              *)
LEMMA RunBeginsKeeps ==
  ASSUME MaintenanceInv, AdapterInv, RunBeginsSlot
  PROVE  AdapterInv'
  <1>0. Mild /\ MaintenanceTypeOK
    BY MildSteps DEF MildStep, MaintenanceInv
  <1>1. ASSUME NEW s \in Slots, RunBegins(s), SlotBegins(s) PROVE AdapterInv'
    <2> DEFINE f == [Frame(s) EXCEPT !.repeats = 0, !.active = TRUE]
    <2>1. /\ drain.at = "draining" /\ stack = <<>> /\ s \in NextToRun /\ backend' = Taken(s) /\ stack' = <<f>>
          /\ UNCHANGED <<slots, handles, sealed, calls, drain>>
      BY <1>1 DEF RunBegins
    <2>2. f.slot = s /\ f.active
      BY DEF Frame
    <2> HIDE DEF f
    <2>3. DOMAIN stack' = 1 .. 1 /\ stack'[1] = f /\ stack' # <<>> /\ Len(stack') = 1 /\ Last(stack') = f
      BY <2>1 DEF Last
    <2>4. Pending \subseteq Pending' \cup {s} /\ backend'.kind = backend.kind
      BY <1>0, <2>1, TakenKeeps
    <2>5. Framed = {} /\ bodies = <<>>
      BY <2>1, NoFrames DEF AdapterInv, FramesHaveBodies
    <2>6. op.name \in {"run_some", "flush"} /\ ~ready /\ ~released /\ calls[Main] = Away
      BY <2>1 DEF AdapterInv, CallsAreNested, NoCall
    <2>7. ~Synchronous
      <3>1. Synchronous => Pending = {}
        BY DEF MaintenanceInv, FramesHaveAnOwner
      <3> QED BY <1>0, <2>1, <3>1, TakenKeeps
    <2>8. Len(bodies') = 1 => FramesHaveBodies'
      <3>1. Top' = f /\ ~Synchronous'
        BY <2>3, <2>4, <2>7 DEF Top, Synchronous
      <3> QED BY <2>2, <2>3, <3>1 DEF FramesHaveBodies
    <2>9. PICK n \in Nat \ {0} : n = 1
      OBVIOUS
    <2>10. /\ Synchronous' = Synchronous /\ calls[Main].at \notin {"offered", "counted"} /\ Len(bodies) = n - 1
           /\ DOMAIN stack' = 1 .. n /\ stack'[n].slot = s /\ op.name \notin {"finalize", "after"}
      BY <2>2, <2>3, <2>4, <2>5, <2>6, <2>9 DEF Synchronous, Away
    <2>11. \A i \in 1 .. n - 1 : stack'[i].slot = stack[i].slot /\ stack[i].slot # s /\ stack[i].slot \in Slots
      BY <2>9
    <2>12. Len(bodies') = n => FramesHaveBodies'
      BY <2>8, <2>9
    <2>13. Pending \subseteq Pending' \cup {s} /\ Framed \subseteq Framed' \cup {s}
      BY <2>4, <2>5
    <2> QED BY <1>0, <1>1, <2>1, <2>6, <2>10, <2>11, <2>12, <2>13, BeginsKeeps
  <1>2. CASE FrameRuns /\ SlotBegins(Top.slot)
    <2> DEFINE f == [Top EXCEPT !.repeats = @ - 1, !.active = TRUE]
    <2>1. /\ Synchronous /\ stack # <<>> /\ ~Top.active /\ stack' = WithTop(f)
          /\ UNCHANGED <<slots, handles, sealed, backend, calls, drain>>
      BY <1>2 DEF FrameRuns
    <2>2. /\ Len(stack) \in Nat \ {0} /\ DOMAIN stack = 1 .. Len(stack)
          /\ Top = stack[Len(stack)] /\ Top \in FrameRecord
      BY <1>0, <2>1, TopFrame
    <2>3. PICK n \in Nat \ {0} : n = Len(stack)
      BY <2>2
    <2>4. PICK s \in Slots : s = Top.slot
      BY <2>2 DEF FrameRecord
    <2>5. f \in FrameRecord /\ f.slot = s /\ f.active
      <3>1. Top.repeats \in Nat \ {0}
        <4>1. Len(stack) \in DOMAIN stack
          BY <2>2
        <4>2. Top.active \/ Top.repeats > 0
          BY <2>2, <4>1 DEF MaintenanceInv, FramesHaveAnOwner
        <4> QED BY <2>1, <2>2, <4>2 DEF FrameRecord
      <3>2. PICK frame \in FrameRecord : frame = Top
        BY <2>2
      <3>3. PICK m \in Nat : m = frame.repeats - 1
        BY <3>1, <3>2
      <3>4. f = [frame EXCEPT !.repeats = m, !.active = TRUE]
        BY <3>2, <3>3
      <3>5. f \in FrameRecord /\ f.slot = frame.slot /\ f.active
        BY <3>4 DEF FrameRecord
      <3> QED BY <2>4, <3>2, <3>5
    <2> HIDE DEF f
    <2>6. Framed \subseteq Framed' \cup {s} /\ stack' # <<>> /\ stack' \in Seq(FrameRecord)
      BY <1>0, <2>1, <2>4, <2>5, TopReplaced
    <2>7. /\ stack' = [stack EXCEPT ![n] = f] /\ DOMAIN stack' = 1 .. n /\ stack'[n] = f
          /\ \A i \in 1 .. n - 1 : stack'[i] = stack[i]
      <3>1. stack \in [1 .. n -> FrameRecord]
        BY <1>0, <2>3 DEF MaintenanceTypeOK
      <3>2. stack' = [stack EXCEPT ![n] = f] /\ n \in 1 .. n
        BY <2>1, <2>3 DEF WithTop
      <3> QED BY <3>1, <3>2
    <2>8. Len(stack') = n /\ Top' = f
      <3>1. Len(stack') = n
        BY <2>3, <2>6, <2>7, LenProperties
      <3> QED BY <2>7, <3>1 DEF Top, Last
    <2>9. FramesHaveBodies /\ \A i \in 1 .. n : stack[i].slot \in Slots
      <3>1. \A i \in 1 .. n : stack[i] \in FrameRecord
        BY <1>0, <2>3, ElementOfSeq DEF MaintenanceTypeOK
      <3> QED BY <3>1 DEF AdapterInv, FrameRecord
    <2>10. /\ Len(bodies) = n - 1 /\ stack[1].slot = op.slot
           /\ \A i, j \in 1 .. n : stack[i].slot = stack[j].slot => i = j
           /\ \A i \in 1 .. n : i < n => stack[i].active
      BY <2>1, <2>2, <2>3, <2>9 DEF FramesHaveBodies
    <2>11. \A i \in 1 .. n : stack'[i].slot = stack[i].slot
      <3>1. \A i \in 1 .. n : i = n \/ i \in 1 .. n - 1
        BY <2>3
      <3> QED BY <2>2, <2>3, <2>4, <2>5, <2>7, <3>1
    <2>12. op.slot # NoSlot /\ ~ready /\ ~released /\ calls[Main].at = "running"
      BY <2>1, FramesNeedACall
    <2>13. UNCHANGED op
      BY <1>2, <2>4, SlotBeginsEffect
    <2>14. Synchronous' = Synchronous /\ Pending' = Pending
      BY <2>1, SamePending
    <2>15. Len(bodies') = n => FramesHaveBodies'
      <3>1. 1 \in 1 .. n
        BY <2>3
      <3>2. stack'[1].slot = op'.slot
        BY <2>10, <2>11, <2>13, <3>1
      <3>3. \A i, j \in 1 .. n : stack'[i].slot = stack'[j].slot => i = j
        BY <2>10, <2>11
      <3>4. \A i \in 1 .. n : i < n => stack'[i].active
        <4>1. \A i \in 1 .. n : i < n => i \in 1 .. n - 1
          BY <2>3
        <4> QED BY <2>7, <2>10, <4>1
      <3> QED BY <2>1, <2>5, <2>6, <2>7, <2>8, <2>14, <3>2, <3>3, <3>4 DEF FramesHaveBodies
    <2>16. \A i \in 1 .. n - 1 : stack'[i].slot = stack[i].slot /\ stack[i].slot # s /\ stack[i].slot \in Slots
      <3>1. \A i \in 1 .. n - 1 : i \in 1 .. n /\ i # n
        BY <2>3
      <3>2. n \in 1 .. n /\ stack[n].slot = s
        BY <2>2, <2>3, <2>4
      <3> QED BY <2>9, <2>10, <2>11, <3>1, <3>2
    <2>17. stack'[n].slot = s /\ SlotBegins(s)
      BY <1>2, <2>4, <2>5, <2>7
    <2>18. calls[Main].at \notin {"offered", "counted"}
      BY <2>12
    <2> QED BY <1>0, <2>1, <2>6, <2>7, <2>10, <2>12, <2>14, <2>15, <2>16, <2>17, <2>18, BeginsKeeps
  <1> QED BY <1>1, <1>2 DEF RunBeginsSlot

(* A slot that is offered again from within a run: its frame repeats, a    *)
(* frame is pushed, or the queue takes it                                  *)
LEMMA NestedEffect ==
  ASSUME MaintenanceInv, AdapterInv, NEW phase, AtBody(phase), NEW s \in Slots, NestedOffer(s),
         NEW n \in Nat \ {0}, n = Len(stack)
  PROVE  /\ UNCHANGED <<slots, handles, sealed, calls, drain>> /\ Synchronous' = Synchronous
         /\ Pending \subseteq Pending' /\ Framed \subseteq Framed'
         /\ \A i \in 1 .. n : stack'[i].slot = stack[i].slot
         /\ Synchronous \/ Accepts(backend, s) => s \in Framed' \cup Pending'
         /\ Synchronous => s \in Framed'
         /\ op' = op /\ Len(bodies') = n => FramesHaveBodies'
  <1>0. MaintenanceTypeOK
    BY DEF MaintenanceInv
  <1>1. /\ stack # <<>> /\ Top = stack[n] /\ DOMAIN stack = 1 .. n /\ stack \in [1 .. n -> FrameRecord]
        /\ \A i \in 1 .. n : stack[i].slot \in Slots /\ stack[i].active
    BY <1>0, TopBody DEF MaintenanceTypeOK
  <1>2. UNCHANGED <<slots, handles, sealed, calls, drain>>
    BY DEF NestedOffer
  <1>3. /\ \A i, j \in 1 .. n : stack[i].slot = stack[j].slot => i = j
        /\ Synchronous => stack[1].slot = op.slot
        /\ ~Synchronous => n = 1
    BY <1>1 DEF AdapterInv, FramesHaveBodies
  <1>4. 1 \in 1 .. n /\ n \in 1 .. n
    OBVIOUS
  <1>5. CASE Synchronous
    <2>1. /\ stack' = Requested(s) /\ UNCHANGED backend
      BY <1>5 DEF NestedOffer
    <2>2. Synchronous' = Synchronous /\ Pending' = Pending
      BY <2>1, SamePending
    <2>3. Framed' = Framed \cup {s} /\ stack' # <<>> /\ stack' \in Seq(FrameRecord)
      BY <1>0, <2>1, RequestKeeps
    <2>4. CASE FrameOf(s) = {}
      <3>1. stack' = Append(stack, Frame(s)) /\ stack \in Seq(FrameRecord)
        BY <1>0, <2>1, <2>4 DEF Requested, MaintenanceTypeOK
      <3>2. Frame(s).slot = s /\ Frame(s).active = FALSE
        BY DEF Frame
      <3>3. /\ Len(stack') = n + 1 /\ DOMAIN stack' = 1 .. n + 1 /\ stack'[n + 1] = Frame(s)
            /\ \A i \in 1 .. n : stack'[i] = stack[i]
        BY <1>1, <3>1
      <3>4. Top' = Frame(s)
        BY <3>3 DEF Top, Last
      <3>5. \A i \in 1 .. n : stack[i].slot # s
        BY <1>1, <2>4 DEF FrameOf
      <3>6. \A i \in 1 .. n + 1 : i \in 1 .. n \/ i = n + 1
        OBVIOUS
      <3>7. \A i, j \in 1 .. n + 1 : stack'[i].slot = stack'[j].slot => i = j
        BY <1>3, <3>2, <3>3, <3>5, <3>6
      <3>8. \A i \in 1 .. n + 1 : i < n + 1 => stack'[i].active
        BY <1>1, <3>3, <3>6
      <3>9. op' = op => stack'[1].slot = op'.slot
        BY <1>3, <1>4, <1>5, <3>3
      <3>10. op' = op /\ Len(bodies') = n => FramesHaveBodies'
        BY <1>5, <2>2, <2>3, <3>2, <3>3, <3>4, <3>7, <3>8, <3>9 DEF FramesHaveBodies
      <3> QED BY <1>2, <2>2, <2>3, <3>3, <3>10
    <2>5. CASE FrameOf(s) # {}
      <3> DEFINE F(i) == IF i \in FrameOf(s) THEN [stack[i] EXCEPT !.repeats = @ + 1] ELSE stack[i]
      <3>1. stack' = [i \in 1 .. n |-> F(i)]
        BY <1>1, <2>1, <2>5 DEF Requested
      <3>2. \A i \in 1 .. n : F(i).slot = stack[i].slot /\ F(i).active = stack[i].active
        BY <1>1 DEF FrameRecord
      <3> HIDE DEF F
      <3>3. /\ DOMAIN stack' = 1 .. n
            /\ \A i \in 1 .. n : stack'[i].slot = stack[i].slot /\ stack'[i].active = stack[i].active
        BY <3>1, <3>2
      <3>4. Len(stack') = n
        BY <2>3, <3>3, LenProperties
      <3>5. Top' = stack'[n]
        BY <3>4 DEF Top, Last
      <3>6. Top'.active
        BY <1>1, <1>4, <3>3, <3>5
      <3>7. op' = op /\ Len(bodies') = n => FramesHaveBodies'
        <4>1. \A i, j \in 1 .. n : stack'[i].slot = stack'[j].slot => i = j
          BY <1>3, <3>3
        <4>2. op' = op => stack'[1].slot = op'.slot
          BY <1>3, <1>4, <1>5, <3>3
        <4>3. \A i \in 1 .. n : stack'[i].active
          BY <1>1, <3>3
        <4> QED BY <1>5, <2>2, <2>3, <3>3, <3>4, <3>6, <4>1, <4>2, <4>3 DEF FramesHaveBodies
      <3> QED BY <1>2, <2>2, <2>3, <3>3, <3>7
    <2> QED BY <2>4, <2>5
  <1>6. CASE ~Synchronous
    <2> DEFINE f == [Top EXCEPT !.scheduled = @ \/ Accepts(backend, s)]
    <2>1. stack' = WithTop(f) /\ backend' = Offered(backend, s)
      BY <1>6 DEF NestedOffer
    <2>2. /\ Pending \subseteq Pending' /\ (Accepts(backend, s) => s \in Pending') /\ backend'.kind = backend.kind
      BY <1>0, <2>1, OfferKeeps
    <2>3. /\ f \in FrameRecord /\ f.slot = Top.slot /\ f.repeats = Top.repeats /\ f.active
      <3>1. Top \in FrameRecord /\ Top.active
        BY <1>1, <1>4
      <3>2. PICK b \in BOOLEAN : b = (Top.scheduled \/ Accepts(backend, s))
        OBVIOUS
      <3>3. f = [Top EXCEPT !.scheduled = b]
        BY <3>2
      <3> QED BY <3>1, <3>3 DEF FrameRecord
    <2> HIDE DEF f
    <2>4. Framed' = Framed /\ stack' # <<>> /\ stack' \in Seq(FrameRecord)
      BY <1>0, <1>1, <2>1, <2>3, TopReplaced
    <2>5. DOMAIN stack' = 1 .. n /\ stack'[n] = f /\ n = 1
      BY <1>1, <1>3, <1>4, <1>6, <2>1 DEF WithTop
    <2>6. Len(stack') = n
      BY <2>4, <2>5, LenProperties
    <2>7. Top' = f
      BY <2>5, <2>6 DEF Top, Last
    <2>8. \A i \in 1 .. n : stack'[i].slot = stack[i].slot
      BY <1>1, <2>3, <2>5
    <2>9. ~Synchronous' /\ Synchronous' = Synchronous
      BY <1>6, <2>2 DEF Synchronous
    <2>10. Len(bodies') = n => FramesHaveBodies'
      BY <2>3, <2>4, <2>5, <2>6, <2>7, <2>9 DEF FramesHaveBodies
    <2> QED BY <1>2, <1>6, <2>2, <2>4, <2>8, <2>9, <2>10
  <1> QED BY <1>5, <1>6

(* What schedule_slot keeps when it is called from within a run.           *)
LEMMA NestedKeeps ==
  ASSUME MaintenanceInv, AdapterInv, Mild, NEW phase, AtBody(phase), NEW s \in Slots, NestedOffer(s),
         ready' = FALSE, UNCHANGED <<released, op>>,
         bodies' \in Seq(BodyRecord), Len(bodies') = Len(bodies), BodiesHold', Ahead \subseteq Ahead',
         unread' \subseteq unread \cup {s}, told' \subseteq Slots, told \subseteq told' \cup {s},
         Indebted \subseteq Indebted' \cup {s}, s \in Pending' \cup Framed' \cup Indebted' \cup told',
         s \in unread' \ unread => world'.meta[s].dirty = Owned /\ Settled(s)
  PROVE  AdapterInv'
  <1>1. PICK n \in Nat \ {0} : n = Len(stack)
    BY TopBody
  <1>2. Len(bodies) = n /\ stack # <<>>
    BY <1>1, TopBody
  <1>3. /\ UNCHANGED <<slots, handles, sealed, calls, drain>> /\ Synchronous' = Synchronous
        /\ Pending \subseteq Pending' /\ Framed \subseteq Framed' /\ FramesHaveBodies'
    BY <1>1, <1>2, NestedEffect
  <1>4. /\ ~released /\ ~ready /\ op # NoCall /\ calls[Main].at \notin {"offered", "counted"}
        /\ op.name \in {"run_some", "flush"} \/ op.slot # NoSlot
    BY <1>2, FramesNeedACall DEF Away
  <1>5. unread' \subseteq Slots /\ AdapterTypeOK'
    BY DEF Mild, AdapterInv, AdapterTypeOK
  <1>6. CallsAreNested'
    BY <1>3, <1>4 DEF AdapterInv, CallsAreNested, HandleOf
  <1>7. UnreadIsAwaited'
    <2>1. Offering' = Offering
      BY <1>3 DEF Offering, Refused
    <2>2. unread' \subseteq Awaited'
      BY <1>3, <2>1 DEF AdapterInv, UnreadIsAwaited, Awaited
    <2>3. \A r \in unread' : world'.meta[r].dirty = Owned /\ Settled(r)'
      <3>1. \A r \in unread' \ unread : world'.meta[r].dirty = Owned /\ Settled(r)
        OBVIOUS
      <3> QED BY <1>5, <3>1, StillSettled
    <2> QED BY <1>3, <1>4, <2>2, <2>3 DEF UnreadIsAwaited
  <1>8. IdleIsTrue'
    BY <1>4 DEF AdapterInv, IdleIsTrue
  <1> QED BY <1>3, <1>5, <1>6, <1>7, <1>8, MildKeeps DEF AdapterInv

(* The debt that schedule_slot leaves.                                     *)
LEMMA NestedDebt ==
  ASSUME AdapterTypeOK, NEW s \in Slots, NEW debt \in BOOLEAN, NestedSchedule(s, debt)
  PROVE  /\ NestedOffer(s) /\ ready' = FALSE
         /\ \A r \in Slots : r # s => cells'[r].debt = cells[r].debt
         /\ Indebted \subseteq Indebted' \cup {s}
         /\ debt => s \in Indebted' \/ Synchronous \/ Accepts(backend, s)
  <1>1. PICK d \in BOOLEAN : d = (~(Synchronous \/ Accepts(backend, s)) /\ debt)
    OBVIOUS
  <1>2. NestedOffer(s) /\ ready' = FALSE /\ cells' = [cells EXCEPT ![s].debt = d]
    BY <1>1 DEF NestedSchedule
  <1>3. cells'[s].debt = d /\ \A r \in Slots : r # s => cells'[r].debt = cells[r].debt
    BY <1>2, DebtOnly
  <1> QED BY <1>1, <1>2, <1>3 DEF Indebted

(* A callback marks a chunk, perhaps its own.                              *)
LEMMA CallbackMarksKeeps ==
  ASSUME MaintenanceInv, AdapterInv, NEW k \in SparseKeys, CallbackMarks(k)
  PROVE  AdapterInv'
  <1>0. Mild /\ AdapterTypeOK /\ \A r \in Slots : cells[r].debt \in BOOLEAN
    <2>1. AdapterTypeOK
      BY DEF AdapterInv
    <2>2. \A r \in Slots : cells[r] \in CellRecord
      BY <2>1 DEF AdapterTypeOK
    <2> QED BY <2>1, <2>2, MildSteps DEF MildStep, CellRecord
  <1>1. PICK phase \in {"rebuilding", "rebuilt"} : AtBody(phase)
    BY DEF CallbackMarks
  <1>2. PICK s \in BoundSlots(k) :
          /\ Marked(s) /\ NestedSchedule(s, cells[s].debt)
          /\ told' = IF Synchronous \/ Accepts(backend, s) THEN told \ {s} ELSE told \cup {s}
    BY DEF CallbackMarks
  <1>3. UNCHANGED <<released, op, bodies>>
    BY DEF CallbackMarks
  <1>4. s \in Slots /\ Settled(s)
    <2>1. s # NoSlot /\ s \in Slots /\ s = world.slot_of[k]
      BY <1>0, <1>2, AdapterTypes DEF BoundSlots
    <2> QED BY <1>2, <2>1 DEF BoundSlots, Settled, BindingCurrent, ResidentKeys
  <1>5. /\ unread' = unread \cup {s} /\ world'.meta[s].dirty = Owned
        /\ world'.meta[s].content_version = world.meta[s].content_version + 1
    BY <1>0, <1>2, <1>4, MarksAreMild DEF Marked
  <1>6. NestedOffer(s) /\ ready' = FALSE /\ Indebted \subseteq Indebted' \cup {s}
    BY <1>0, <1>2, <1>4, NestedDebt
  <1>7. PICK n \in Nat \ {0} : n = Len(stack)
    BY <1>1, TopBody
  <1>8. /\ DOMAIN bodies = 1 .. n
        /\ \A i \in 1 .. n : bodies[i] \in BodyRecord /\ stack[i].slot \in Slots
    BY <1>1, <1>7, TopBody
  <1>9. /\ Synchronous' = Synchronous /\ Pending \subseteq Pending' /\ Framed \subseteq Framed'
        /\ \A i \in 1 .. n : stack'[i].slot = stack[i].slot
        /\ Synchronous \/ Accepts(backend, s) => s \in Framed' \cup Pending'
        /\ Synchronous => s \in Framed'
    BY <1>1, <1>4, <1>6, <1>7, NestedEffect
  <1>10. BodiesHold'
    <2>1. ASSUME NEW i \in DOMAIN bodies', NEW r, NEW b, r = stack'[i].slot, b = bodies'[i]
          PROVE  BodyHolds(r, b)'
      <3>1. i \in 1 .. n /\ r = stack[i].slot /\ b = bodies[i] /\ r \in Slots /\ b \in BodyRecord
        BY <1>3, <1>8, <1>9, <2>1
      <3>2. BodyHolds(r, b)
        BY <1>8, <3>1 DEF AdapterInv, BodiesHold
      <3>3. r \in unread' => r \in unread \/ world.meta[r].content_version < world'.meta[r].content_version
        <4>1. world.meta[s].content_version \in Nat
          BY <1>0, <1>4, AdapterTypes
        <4> QED BY <1>5, <4>1
      <3>4. Synchronous' /\ r \in unread' /\ r \notin Framed' => Synchronous /\ r \in unread /\ r \notin Framed
        BY <1>5, <1>9
      <3> QED BY <1>0, <3>1, <3>2, <3>3, <3>4, BodyStays
    <2> QED BY <2>1, BodiesHoldNext
  <1>11. Ahead \subseteq Ahead'
    <2>1. ASSUME NEW i \in DOMAIN bodies, bodies[i].phase = "rebuilding" PROVE stack[i].slot \in Ahead'
      <3>1. i \in DOMAIN bodies' /\ bodies'[i].phase = "rebuilding" /\ stack'[i].slot = stack[i].slot
        BY <1>3, <1>8, <1>9, <2>1
      <3> QED BY <3>1 DEF Ahead
    <2> QED BY <2>1 DEF Ahead
  <1>12. /\ told' \subseteq Slots /\ told \subseteq told' \cup {s}
         /\ s \in Pending' \cup Framed' \cup Indebted' \cup told'
    <2>1. CASE Synchronous \/ Accepts(backend, s)
      BY <1>0, <1>2, <1>9, <2>1 DEF AdapterTypeOK
    <2>2. CASE ~(Synchronous \/ Accepts(backend, s))
      BY <1>0, <1>2, <1>4, <2>2 DEF AdapterTypeOK
    <2> QED BY <2>1, <2>2
  <1>13. bodies' \in Seq(BodyRecord) /\ Len(bodies') = Len(bodies)
    BY <1>0, <1>3 DEF AdapterTypeOK
  <1> QED BY <1>0, <1>1, <1>3, <1>4, <1>5, <1>6, <1>10, <1>11, <1>12, <1>13, NestedKeeps

(* The follow-up of a run whose marks were not cleared: it is scheduled,   *)
(* or becomes a debt (chunk_maintenance.h:623-629).                        *)
LEMMA FollowUpKeeps ==
  ASSUME MaintenanceInv, AdapterInv, FollowUp
  PROVE  AdapterInv'
  <1>0. Mild /\ AdapterTypeOK
    BY MildSteps DEF MildStep, AdapterInv
  <1>1. AtBody("stale") /\ UNCHANGED <<world, released, op, told, unread>>
    BY DEF FollowUp
  <1>2. PICK s \in Slots : s = Top.slot
    BY <1>1, TopBody
  <1>3. PICK n \in Nat \ {0} : n = Len(stack)
    BY <1>1, TopBody
  <1>4. PICK body : body = [Body EXCEPT !.phase = "done"]
    OBVIOUS
  <1>5. /\ s = stack[n].slot /\ n \in DOMAIN bodies /\ DOMAIN bodies = 1 .. n /\ Len(bodies) = n
        /\ Body = bodies[n] /\ Body \in BodyRecord /\ Body.phase = "stale" /\ BodyHolds(s, Body)
        /\ \A i \in 1 .. n : /\ bodies[i] \in BodyRecord /\ stack[i].slot \in Slots
                             /\ i # n => stack[i].slot # s
    BY <1>1, <1>2, <1>3, TopBody
  <1>6. NestedSchedule(s, TRUE) /\ WithBody(body)
    BY <1>2, <1>4 DEF FollowUp
  <1>7. /\ NestedOffer(s) /\ ready' = FALSE /\ Indebted \subseteq Indebted' \cup {s}
        /\ s \in Indebted' \/ Synchronous \/ Accepts(backend, s)
    BY <1>0, <1>6, NestedDebt
  <1>8. body \in BodyRecord /\ body.phase = "done" /\ body.units = Body.units
    BY <1>4, <1>5 DEF BodyRecord
  <1>9. /\ bodies' \in Seq(BodyRecord) /\ Len(bodies') = Len(bodies) /\ DOMAIN bodies' = 1 .. n
        /\ bodies'[n] = body /\ \A i \in 1 .. n : i # n => bodies'[i] = bodies[i]
    BY <1>1, <1>3, <1>5, <1>6, <1>8, BodyChanges
  <1>10. /\ Synchronous' = Synchronous /\ Pending \subseteq Pending' /\ Framed \subseteq Framed'
         /\ \A i \in 1 .. n : stack'[i].slot = stack[i].slot
         /\ Synchronous \/ Accepts(backend, s) => s \in Framed' \cup Pending'
         /\ Synchronous => s \in Framed'
    BY <1>1, <1>3, <1>7, NestedEffect
  <1>11. BodiesHold'
    <2>1. ASSUME NEW i \in 1 .. n, i # n, NEW r, NEW b, r = stack'[i].slot, b = bodies'[i]
          PROVE  BodyHolds(r, b)'
      <3>1. r = stack[i].slot /\ b = bodies[i] /\ r \in Slots /\ b \in BodyRecord
        BY <1>5, <1>9, <1>10, <2>1
      <3>2. BodyHolds(r, b)
        BY <1>5, <3>1 DEF AdapterInv, BodiesHold
      <3>3. r \in unread' => r \in unread
        BY <1>1
      <3>4. Synchronous' /\ r \in unread' /\ r \notin Framed' => Synchronous /\ r \in unread /\ r \notin Framed
        BY <1>1, <1>10
      <3> QED BY <1>0, <3>1, <3>2, <3>3, <3>4, BodyStays
    <2>2. BodyHolds(s, body)'
      <3>1. cells'[s].bound = cells[s].bound /\ (Synchronous' => s \in Framed')
        BY <1>0, <1>10 DEF Mild
      <3> QED BY <1>5, <1>8, <3>1 DEF BodyHolds
    <2>3. \A i \in DOMAIN bodies' : \A r, b : r = stack'[i].slot /\ b = bodies'[i] => BodyHolds(r, b)'
      <3>1. stack'[n].slot = s /\ bodies'[n] = body
        BY <1>5, <1>9, <1>10
      <3> QED BY <1>9, <2>1, <2>2, <3>1
    <2> QED BY <2>3, BodiesHoldNext
  <1>12. Ahead \subseteq Ahead'
    <2>1. ASSUME NEW i \in DOMAIN bodies, bodies[i].phase = "rebuilding" PROVE stack[i].slot \in Ahead'
      <3>1. i # n
        BY <1>5, <2>1
      <3>2. i \in DOMAIN bodies' /\ bodies'[i].phase = "rebuilding" /\ stack'[i].slot = stack[i].slot
        BY <1>5, <1>9, <1>10, <2>1, <3>1
      <3> QED BY <3>2 DEF Ahead
    <2> QED BY <2>1 DEF Ahead
  <1>13. told' \subseteq Slots /\ s \in Pending' \cup Framed' \cup Indebted' \cup told'
    BY <1>0, <1>1, <1>7, <1>10 DEF AdapterTypeOK
  <1> QED BY <1>0, <1>1, <1>7, <1>9, <1>11, <1>12, <1>13, NestedKeeps

(* The callback throws: whoever calls is told of every frame that goes     *)
(* with it, and the word is restored (chunk_maintenance.h:97-102).        *)
LEMMA CallbackThrowsKeeps ==
  ASSUME MaintenanceInv, AdapterInv, CallbackThrows
  PROVE  AdapterInv'
  <1>0. Mild /\ AdapterTypeOK /\ MaintenanceTypeOK
    BY MildSteps DEF MildStep, AdapterInv, MaintenanceInv
  <1>1. /\ RunThrows /\ bodies' = <<>> /\ told' = told \cup Framed \cup Running
        /\ unread' = unread \cup {s \in {Top.slot} : world.meta[s].dirty # {}}
        /\ op' = (IF Synchronous THEN op ELSE NoCall)
        /\ UNCHANGED <<world, cells, ready, released>>
    BY DEF CallbackThrows
  <1>2. PICK phase \in {"rebuilding", "rebuilt"} : AtBody(phase)
    BY DEF CallbackThrows
  <1>3. PICK s \in Slots : s = Top.slot
    BY <1>2, TopBody
  <1>4. PICK n \in Nat \ {0} : n = Len(stack)
    BY <1>2, TopBody
  <1>5. /\ stack # <<>> /\ s = stack[n].slot /\ n \in DOMAIN bodies /\ DOMAIN bodies = 1 .. n /\ DOMAIN stack = 1 .. n
        /\ Settled(s) /\ \A i \in 1 .. n : stack[i].active /\ stack[i].slot \in Slots
    <2>1. Body.phase = phase /\ BodyHolds(Top.slot, Body)
      BY <1>2, TopBody
    <2>2. Settled(s)
      BY <1>2, <1>3, <2>1 DEF BodyHolds
    <2> QED BY <1>2, <1>3, <1>4, <2>2, TopBody
  <1>6. /\ stack' = <<>> /\ backend' = Released(backend) /\ drain' = (IF Synchronous THEN drain ELSE NoDrain)
        /\ calls' = [p \in Producers |->
                       IF p \in Caller THEN [calls[p] EXCEPT !.at = "offered", !.result = "Thrown"] ELSE calls[p]]
        /\ UNCHANGED <<slots, handles, sealed>>
    BY <1>1 DEF RunThrows
  <1>7. Pending' = Pending /\ backend'.kind = backend.kind
    BY <1>0, <1>6, ReleasedKeeps
  <1>8. /\ Framed \subseteq Slots /\ Running \subseteq Slots /\ s \in Running /\ Ahead \subseteq Running
    <2>1. /\ Framed = {stack[i].slot : i \in {j \in 1 .. n : stack[j].repeats > 0}}
          /\ Running = {stack[i].slot : i \in {j \in 1 .. n : stack[j].active}}
          /\ Ahead = {stack[i].slot : i \in {j \in 1 .. n : bodies[j].phase = "rebuilding"}}
      BY <1>5 DEF Framed, Running, Ahead
    <2>2. n \in 1 .. n
      OBVIOUS
    <2> QED BY <1>5, <2>1, <2>2
  <1>9. AdapterTypeOK'
    BY <1>0, <1>1, <1>3, <1>8, NoCallTyped DEF AdapterTypeOK
  <1>10. ~released /\ ~ready /\ op # NoCall
    BY <1>5, FramesNeedACall
  <1>11. FramesHaveBodies' /\ BodiesHold' /\ Ahead' = {} /\ Framed' = {}
    BY <1>1, <1>6, NoBodies
  <1>12. /\ \A r \in unread' : world'.meta[r].dirty = Owned /\ Settled(r)'
         /\ unread \subseteq unread' /\ unread' \subseteq unread \cup {s}
    <2>1. \A r \in unread' \ unread : r = s /\ world.meta[s].dirty # {}
      BY <1>1, <1>3
    <2>2. world.meta[s].dirty \subseteq Owned
      BY <1>0, AdapterTypes
    <2>3. unread' \subseteq Slots /\ \A r \in unread' \ unread : world'.meta[r].dirty = Owned /\ Settled(r)
      BY <1>1, <1>5, <1>9, <2>1, <2>2 DEF Owned, AdapterTypeOK
    <2> QED BY <1>0, <1>1, <2>1, <2>3, StillSettled
  <1>13. Indebted' = Indebted /\ unread \subseteq Pending \cup Framed \cup Indebted \cup told \cup Ahead \cup Offering
    BY <1>1 DEF Indebted, AdapterInv, UnreadIsAwaited, Awaited
  <1>14. CASE Synchronous
    <2>1. /\ op.slot # NoSlot /\ op.name \in {"offer", "before", "after"}
          /\ calls[Main].at = "running" /\ Caller = {Main} /\ drain.at = "none" /\ op' = op /\ drain' = drain
      BY <1>1, <1>5, <1>6, <1>14, FramesNeedACall
    <2>2. /\ calls'[Main].at = "offered" /\ calls'[Main].result = "Thrown" /\ calls'[Main].slot = calls[Main].slot
          /\ \A p \in Producers : p # Main => calls'[p] = calls[p]
      <3>1. Main \in Producers /\ calls[Main] \in Call
        BY <1>0, AdapterAssumption DEF MaintenanceTypeOK
      <3>2. /\ calls'[Main] = [calls[Main] EXCEPT !.at = "offered", !.result = "Thrown"]
            /\ \A p \in Producers : p # Main => calls'[p] = calls[p]
        BY <1>6, <2>1, <3>1
      <3> QED BY <3>1, <3>2 DEF Call
    <2>3. CallsAreNested'
      <3>1. calls'[Main] # Away
        BY <2>2 DEF Away
      <3> QED BY <1>1, <1>6, <1>10, <2>1, <2>2, <3>1 DEF AdapterInv, CallsAreNested, HandleOf
    <2>4. Offering \subseteq Offering'
      BY <2>1, <2>2 DEF Offering, Refused
    <2>5. UnreadIsAwaited'
      <3>1. unread' \subseteq Awaited'
        BY <1>1, <1>7, <1>8, <1>12, <1>13, <2>4 DEF Awaited
      <3> QED BY <1>12, <2>2, <3>1 DEF UnreadIsAwaited
    <2>6. IdleIsTrue'
      BY <1>1, <1>10, <2>1 DEF AdapterInv, IdleIsTrue
    <2> QED BY <1>0, <1>9, <1>11, <2>3, <2>5, <2>6, MildKeeps DEF AdapterInv
  <1>15. CASE ~Synchronous
    <2>1. /\ op.slot = NoSlot /\ calls[Main] = Away /\ Caller = {} /\ op' = NoCall /\ drain' = NoDrain
      BY <1>1, <1>5, <1>6, <1>15, FramesNeedACall
    <2>2. \A p \in Producers : calls'[p] = calls[p]
      BY <1>6, <2>1
    <2>3. Main \in Producers /\ calls'[Main] = Away
      BY <2>1, <2>2, AdapterAssumption
    <2>4. CallsAreNested'
      BY <1>1, <1>6, <1>10, <2>1, <2>2, <2>3 DEF AdapterInv, CallsAreNested, HandleOf, NoCall, NoDrain
    <2>5. Offering = {}
      BY <2>1 DEF Offering, Refused, Away
    <2>6. UnreadIsAwaited'
      <3>1. unread' \subseteq Awaited'
        BY <1>1, <1>7, <1>8, <1>12, <1>13, <2>5 DEF Awaited
      <3> QED BY <1>12, <2>3, <3>1 DEF UnreadIsAwaited, Away
    <2>7. IdleIsTrue'
      BY <1>1, <1>10, <2>1 DEF IdleIsTrue, NoCall
    <2> QED BY <1>0, <1>9, <1>11, <2>4, <2>6, <2>7, MildKeeps DEF AdapterInv
  <1> QED BY <1>14, <1>15

(* A run returns: the frame goes, or is to be entered again.               *)
LEMMA RunReturnsKeeps ==
  ASSUME MaintenanceInv, AdapterInv, RunReturns
  PROVE  AdapterInv'
  <1>0. Mild /\ AdapterTypeOK /\ MaintenanceTypeOK
    BY MildSteps DEF MildStep, AdapterInv, MaintenanceInv
  <1>1. /\ AtBody("done") /\ RunEnds(Body.units) /\ bodies' = Front(bodies)
        /\ UNCHANGED <<world, cells, ready, released, op, told, unread>>
    BY DEF RunReturns
  <1>2. PICK s \in Slots : s = Top.slot
    BY <1>1, TopBody
  <1>3. PICK n \in Nat \ {0} : n = Len(stack)
    BY <1>1, TopBody
  <1>4. PICK units \in {0, 1} : units = Body.units
    BY <1>1, TopBody DEF BodyRecord
  <1>5. /\ stack # <<>> /\ Top = stack[n] /\ s = stack[n].slot /\ n \in DOMAIN bodies /\ DOMAIN bodies = 1 .. n
        /\ Len(bodies) = n /\ DOMAIN stack = 1 .. n /\ Top.active
        /\ Body = bodies[n] /\ Body.phase = "done" /\ BodyHolds(s, Body)
        /\ \A i \in 1 .. n : /\ bodies[i] \in BodyRecord /\ stack[i].slot \in Slots /\ stack[i].active
                             /\ i # n => stack[i].slot # s
    BY <1>1, <1>2, <1>3, TopBody
  <1>6. s \in unread => units = 1 /\ (Synchronous => s \in Framed)
    <2>1. s \in unread => cells[s].bound
      BY DEF AdapterInv, UnreadIsAwaited, Settled
    <2> QED BY <1>4, <1>5, <2>1 DEF BodyHolds
  <1>7. /\ bodies' \in Seq(BodyRecord) /\ Len(bodies') = n - 1 /\ DOMAIN bodies' = 1 .. n - 1
        /\ \A i \in DOMAIN bodies' : bodies'[i] = bodies[i] /\ i \in 1 .. n /\ i # n
    BY <1>1, <1>3, <1>5, BodyGoes
  <1>8. AdapterTypeOK'
    BY <1>0, <1>1, <1>7 DEF AdapterTypeOK
  <1>9. ~released /\ ~ready /\ op # NoCall /\ (op.slot # NoSlot \/ op.name \in {"run_some", "flush"})
    BY <1>5, FramesNeedACall
  <1>10. IdleIsTrue'
    BY <1>1, <1>9 DEF AdapterInv, IdleIsTrue
  <1>11. ASSUME Synchronous' = Synchronous, \A i \in 1 .. n - 1 : stack'[i].slot = stack[i].slot,
                Framed \subseteq Framed' \cup {s}
         PROVE  BodiesHold' /\ Ahead \subseteq Ahead'
    <2>1. ASSUME NEW i \in DOMAIN bodies', NEW r, NEW b, r = stack'[i].slot, b = bodies'[i]
          PROVE  BodyHolds(r, b)'
      <3>1. /\ i \in 1 .. n /\ i # n /\ r = stack[i].slot /\ b = bodies[i] /\ r \in Slots /\ b \in BodyRecord
            /\ r # s
        BY <1>5, <1>7, <1>11, <2>1
      <3>2. BodyHolds(r, b)
        BY <1>5, <3>1 DEF AdapterInv, BodiesHold
      <3>3. r \in unread' => r \in unread
        BY <1>1
      <3>4. Synchronous' /\ r \in unread' /\ r \notin Framed' => Synchronous /\ r \in unread /\ r \notin Framed
        BY <1>1, <1>11, <3>1
      <3> QED BY <1>0, <3>1, <3>2, <3>3, <3>4, BodyStays
    <2>2. ASSUME NEW i \in DOMAIN bodies, bodies[i].phase = "rebuilding" PROVE stack[i].slot \in Ahead'
      <3>1. i \in 1 .. n - 1
        BY <1>5, <2>2
      <3>2. i \in DOMAIN bodies' /\ bodies'[i].phase = "rebuilding" /\ stack'[i].slot = stack[i].slot
        BY <1>7, <1>11, <2>2, <3>1
      <3> QED BY <3>2 DEF Ahead
    <2>3. BodiesHold'
      BY <2>1, BodiesHoldNext
    <2>4. Ahead \subseteq Ahead'
      BY <2>2 DEF Ahead
    <2> QED BY <2>3, <2>4
  <1>12. /\ \A r \in unread' : world'.meta[r].dirty = Owned /\ Settled(r)'
         /\ Indebted' = Indebted
         /\ unread \subseteq Pending \cup Framed \cup Indebted \cup told \cup Ahead \cup Offering
    <2>1. unread' \subseteq Slots /\ \A r \in unread' \ unread : world'.meta[r].dirty = Owned /\ Settled(r)
      BY <1>0, <1>1 DEF AdapterTypeOK
    <2> QED BY <1>0, <1>1, <2>1, StillSettled DEF Indebted, AdapterInv, UnreadIsAwaited, Awaited
  <1>13. CASE DrainedEnds(units)
    <2>1. /\ ~Synchronous /\ stack' = <<>> /\ UNCHANGED <<slots, handles, sealed, calls>>
          /\ backend' = (IF Stalls(units) THEN Released(backend) ELSE backend)
          /\ drain' = (IF Stalls(units) THEN [drain EXCEPT !.at = "done", !.completed = FALSE]
                       ELSE [drain EXCEPT !.budget = IF @ = Unbounded THEN @ ELSE @ - units])
      BY <1>13 DEF DrainedEnds
    <2>2. Pending' = Pending /\ Synchronous' = Synchronous
      <3>1. CASE Stalls(units)
        BY <1>0, <2>1, <3>1, ReleasedKeeps DEF Synchronous
      <3>2. CASE ~Stalls(units)
        BY <2>1, <3>2, SamePending
      <3> QED BY <3>1, <3>2
    <2>3. /\ drain.at = "draining" /\ drain'.at # "none" /\ calls[Main] = Away /\ op.name \in {"run_some", "flush"}
          /\ op.slot = NoSlot
      <3>1. /\ drain.at = "draining" /\ calls[Main] = Away /\ op.name \in {"run_some", "flush"} /\ op.slot = NoSlot
        BY <1>5, <2>1, FramesNeedACall
      <3>2. drain'.at # "none"
        BY <1>0, <2>1, <3>1 DEF MaintenanceTypeOK, DrainRecord
      <3> QED BY <3>1, <3>2
    <2>4. n = 1
      BY <1>3, <1>5, <2>1 DEF AdapterInv, FramesHaveBodies
    <2>5. bodies' = <<>>
      BY <1>7, <2>4, EmptySeq
    <2>6. FramesHaveBodies' /\ BodiesHold' /\ Ahead' = {} /\ Framed' = {}
      BY <2>1, <2>5, NoBodies
    <2>7. Framed = {} /\ Ahead = {} /\ Offering = {}
      <3>1. \A i \in 1 .. n : i = n
        BY <2>4
      <3>2. stack[n].repeats = 0
        BY <1>5, <2>1 DEF MaintenanceInv, FramesHaveAnOwner
      <3>3. Framed = {} /\ Ahead = {}
        BY <1>5, <3>1, <3>2 DEF Framed, Ahead
      <3> QED BY <2>3, <3>3 DEF Offering, Refused, Away
    <2>8. CallsAreNested'
      BY <1>1, <1>9, <2>1, <2>3 DEF AdapterInv, CallsAreNested, HandleOf
    <2>9. UnreadIsAwaited'
      <3>1. unread' \subseteq Awaited'
        BY <1>1, <1>12, <2>2, <2>7 DEF Awaited
      <3> QED BY <1>12, <2>1, <2>3, <3>1 DEF UnreadIsAwaited, Away
    <2> QED BY <1>0, <1>8, <1>10, <2>6, <2>8, <2>9, MildKeeps DEF AdapterInv
  <1>14. CASE FrameEnds(units)
    <2> DEFINE abandoned == Top.repeats > 0 /\ units = 0
               returns == Top.repeats = 0 \/ abandoned
               outermost == returns /\ Len(stack) = 1
               f == [Top EXCEPT !.active = FALSE]
    <2>1. /\ Synchronous /\ UNCHANGED <<slots, handles, sealed, backend, drain>>
          /\ stack' = (IF returns THEN Front(stack) ELSE WithTop(f))
          /\ calls' = (IF outermost
                       THEN [p \in Producers |->
                               IF p \in Caller
                               THEN [calls[p] EXCEPT !.at = "offered",
                                       !.result = IF abandoned THEN "Stalled" ELSE "Accepted"]
                               ELSE calls[p]]
                       ELSE calls)
      BY <1>14 DEF FrameEnds
    <2>2. /\ op.slot # NoSlot /\ op.name \in {"offer", "before", "after"}
          /\ calls[Main].at = "running" /\ Caller = {Main} /\ drain.at = "none"
      BY <1>5, <2>1, FramesNeedACall
    <2>3. Pending' = Pending /\ Synchronous' = Synchronous
      BY <2>1, SamePending
    <2>4. Top \in FrameRecord /\ Top.repeats \in Nat
      BY <1>0, <1>5, TopFrame DEF FrameRecord
    <2>5. f \in FrameRecord /\ f.slot = Top.slot /\ f.repeats = Top.repeats /\ f.active = FALSE
      BY <2>4 DEF FrameRecord
    <2>6. s \in unread => ~abandoned /\ s \in Framed /\ ~outermost
      <3>1. s \in unread => ~abandoned /\ s \in Framed
        <4>1. s \in unread => ~abandoned
          BY <1>6
        <4>2. s \in unread => s \in Framed
          BY <1>6, <2>1
        <4> QED BY <4>1, <4>2
      <3>2. n = 1 /\ Top.repeats = 0 => s \notin Framed
        <4>1. n = 1 => \A i \in 1 .. n : i = n
          OBVIOUS
        <4> QED BY <1>5, <4>1 DEF Framed
      <3> QED BY <1>3, <3>1, <3>2
    <2> HIDE DEF f
    <2>7. /\ stack' \in Seq(FrameRecord) /\ \A i \in 1 .. n - 1 : stack'[i] = stack[i]
          /\ Framed \subseteq Framed' \cup {s} /\ (s \in unread => s \in Framed')
          /\ FramesHaveBodies'
      <3>0. /\ \A i, j \in 1 .. n : stack[i].slot = stack[j].slot => i = j
            /\ stack[1].slot = op.slot
        BY <1>5, <2>1 DEF AdapterInv, FramesHaveBodies
      <3>1. CASE returns
        <4>1. stack' = Front(stack)
          BY <2>1, <3>1
        <4>2. /\ stack' \in Seq(FrameRecord) /\ Len(stack') = n - 1
              /\ Framed \subseteq Framed' \cup (IF Top.repeats > 0 THEN {Top.slot} ELSE {})
              /\ \A i \in DOMAIN stack' : i \in DOMAIN stack /\ stack'[i] = stack[i]
          BY <1>0, <1>3, <1>5, <4>1, TopPopped
        <4>3. DOMAIN stack' = 1 .. n - 1
          BY <4>2, LenProperties
        <4>4. s \in unread => s \in Framed'
          BY <1>2, <2>4, <2>6, <3>1, <4>2
        <4>5. FramesHaveBodies'
          <5>1. CASE n = 1
            <6>1. stack' = <<>> /\ bodies' = <<>>
              BY <1>7, <4>2, <5>1, EmptySeq
            <6> QED BY <6>1, NoBodies
          <5>2. CASE n # 1
            <6>1. n - 1 \in Nat \ {0} /\ n - 1 \in 1 .. n - 1 /\ 1 \in 1 .. n - 1
              BY <5>2
            <6>2. Top' = stack[n - 1] /\ stack[n - 1].active /\ stack' # <<>>
              <7>1. Top' = stack'[n - 1]
                BY <4>2 DEF Top, Last
              <7>2. stack'[n - 1] = stack[n - 1] /\ n - 1 \in 1 .. n
                BY <1>5, <4>2, <4>3, <6>1
              <7>3. stack' # <<>>
                BY <4>2, <6>1, EmptySeq
              <7> QED BY <1>5, <7>1, <7>2, <7>3
            <6>3. /\ \A i, j \in 1 .. n - 1 : stack'[i].slot = stack'[j].slot => i = j
                  /\ \A i \in 1 .. n - 1 : stack'[i].active
                  /\ stack'[1].slot = op'.slot
              BY <1>1, <1>5, <3>0, <4>2, <4>3, <6>1
            <6> QED BY <1>7, <2>1, <2>3, <4>2, <4>3, <6>2, <6>3 DEF FramesHaveBodies
          <5> QED BY <5>1, <5>2
        <4>6. Framed \subseteq Framed' \cup {s}
          BY <1>2, <4>2
        <4>7. \A i \in 1 .. n - 1 : stack'[i] = stack[i]
          BY <4>2, <4>3
        <4> QED BY <4>2, <4>4, <4>5, <4>6, <4>7
      <3>2. CASE ~returns
        <4>1. stack' = WithTop(f)
          BY <2>1, <3>2
        <4>2. /\ stack' \in Seq(FrameRecord) /\ stack' # <<>> /\ Framed' = Framed
          BY <1>0, <1>5, <2>5, <4>1, TopReplaced
        <4>3. DOMAIN stack' = 1 .. n /\ stack'[n] = f /\ \A i \in 1 .. n - 1 : stack'[i] = stack[i]
          <5>1. stack' = [stack EXCEPT ![n] = f] /\ stack \in [1 .. n -> FrameRecord] /\ n \in 1 .. n
            BY <1>0, <1>3, <4>1 DEF WithTop, MaintenanceTypeOK
          <5> QED BY <5>1
        <4>4. Len(stack') = n /\ Top' = f
          <5>1. Len(stack') = n
            BY <4>2, <4>3, LenProperties
          <5> QED BY <4>3, <5>1 DEF Top, Last
        <4>5. \A i \in 1 .. n : stack'[i].slot = stack[i].slot /\ (i < n => stack'[i].active)
          <5>1. \A i \in 1 .. n : i = n \/ i \in 1 .. n - 1
            OBVIOUS
          <5> QED BY <1>5, <2>5, <4>3, <5>1
        <4>6. FramesHaveBodies'
          <5>1. /\ \A i, j \in 1 .. n : stack'[i].slot = stack'[j].slot => i = j
                /\ stack'[1].slot = op'.slot
            BY <1>1, <3>0, <4>5
          <5> QED BY <1>7, <2>1, <2>3, <2>5, <4>2, <4>3, <4>4, <4>5, <5>1 DEF FramesHaveBodies
        <4> QED BY <2>6, <4>2, <4>3, <4>6
      <3> QED BY <3>1, <3>2
    <2>8. BodiesHold' /\ Ahead \subseteq Ahead'
      BY <1>11, <2>3, <2>7
    <2>9. Main \in Producers /\ calls[Main] \in Call /\ calls[Main].slot = op.slot
      BY <1>0, <2>2, AdapterAssumption DEF MaintenanceTypeOK, AdapterInv, CallsAreNested
    <2>10. \/ ~outermost /\ calls' = calls
           \/ /\ outermost /\ calls'[Main].at = "offered" /\ calls'[Main].slot = calls[Main].slot
              /\ calls'[Main].result = IF abandoned THEN "Stalled" ELSE "Accepted"
              /\ \A p \in Producers : p # Main => calls'[p] = calls[p]
      <3>1. CASE outermost
        <4> DEFINE result == IF abandoned THEN "Stalled" ELSE "Accepted"
        <4>1. result \in {"Stalled", "Accepted"}
          OBVIOUS
        <4>2. /\ calls'[Main] = [calls[Main] EXCEPT !.at = "offered", !.result = result]
              /\ \A p \in Producers : p # Main => calls'[p] = calls[p]
          BY <2>1, <2>2, <2>9, <3>1
        <4> HIDE DEF result
        <4>3. calls'[Main].at = "offered" /\ calls'[Main].slot = calls[Main].slot /\ calls'[Main].result = result
          BY <2>9, <4>2 DEF Call
        <4> QED BY <3>1, <4>2, <4>3 DEF result
      <3>2. CASE ~outermost
        BY <2>1, <3>2
      <3> QED BY <3>1, <3>2
    <2> HIDE DEF abandoned, returns, outermost
    <2>11. CallsAreNested'
      <3>1. calls'[Main] # Away /\ calls'[Main].slot = op.slot /\ \A p \in Producers : p # Main => calls'[p] = calls[p]
        BY <2>2, <2>9, <2>10 DEF Away
      <3> QED BY <1>1, <1>9, <2>1, <2>2, <3>1 DEF AdapterInv, CallsAreNested, HandleOf
    <2>12. outermost => Framed \subseteq {s} /\ Ahead = {} /\ s = op.slot
      <3>1. outermost => n = 1
        BY <1>3 DEF outermost
      <3>2. n = 1 => \A i \in 1 .. n : i = n
        OBVIOUS
      <3>3. n = 1 => stack[n].slot = op.slot
        BY <1>5, <2>1 DEF AdapterInv, FramesHaveBodies
      <3> QED BY <1>5, <3>1, <3>2, <3>3 DEF Framed, Ahead
    <2>13. UnreadIsAwaited'
      <3>1. \A r \in unread : r \in Offering => r \in Offering'
        <4>1. CASE outermost
          BY <2>6, <2>12, <4>1 DEF Offering
        <4>2. CASE ~outermost
          BY <1>1, <2>10, <4>2 DEF Offering, Refused
        <4> QED BY <4>1, <4>2
      <3>2. unread' \subseteq Awaited'
        BY <1>1, <1>12, <2>3, <2>7, <2>8, <3>1 DEF Awaited
      <3>3. ~(calls'[Main].at \in {"offered", "counted"} /\ op'.slot \in unread')
        BY <1>1, <2>2, <2>6, <2>10, <2>12
      <3> QED BY <1>12, <3>2, <3>3 DEF UnreadIsAwaited
    <2> QED BY <1>0, <1>8, <1>10, <2>7, <2>8, <2>11, <2>13, MildKeeps DEF AdapterInv
  <1> QED BY <1>1, <1>4, <1>13, <1>14 DEF RunEnds

-----------------------------------------------------------------------------
(* The adapter as constructed, and what a stuttering step keeps.           *)

(* The cells of the constructor: each slot bound to the chunk that         *)
(* occupies it, nothing built.                                             *)
LEMMA BoundCellsEffect ==
  ASSUME world \in WorldRecord, cells = BoundCells
  PROVE  /\ cells \in [Slots -> CellRecord]
         /\ \A s \in Slots : ~cells[s].built /\ ~cells[s].debt /\ cells[s].token.generation = 0
  <1>1. Unbound \in CellRecord /\ ~Unbound.built /\ ~Unbound.debt /\ Unbound.token.generation = 0
    BY DEF Unbound, CellRecord, Token, NoKey
  <1>2. ASSUME NEW s \in Slots PROVE cells[s] \in CellRecord /\ ~cells[s].built /\ ~cells[s].debt /\ cells[s].token.generation = 0
    <2>1. CASE KeyOf(s) = {}
      <3>1. cells[s] = Unbound
        BY <2>1 DEF BoundCells
      <3> QED BY <1>1, <3>1
    <2>2. CASE KeyOf(s) # {}
      <3>1. PICK k : k = CHOOSE j \in KeyOf(s) : TRUE
        OBVIOUS
      <3>2. k \in SparseKeys
        BY <2>2, <3>1 DEF KeyOf, ResidentKeys
      <3>3. PICK g \in Nat : g = world.generation[s]
        BY DEF WorldRecord
      <3>4. cells[s] = BoundTo(Unbound, k, g)
        BY <2>2, <3>1, <3>3 DEF BoundCells
      <3>5. cells[s] \in CellRecord /\ cells[s].token.generation = 0
        BY <1>1, <3>2, <3>4, BindEffect
      <3>6. ~cells[s].built /\ ~cells[s].debt
        BY <1>1, <3>4 DEF BoundTo, Unbound
      <3> QED BY <3>5, <3>6
    <2> QED BY <2>1, <2>2
  <1>3. cells = [s \in Slots |-> cells[s]]
    BY DEF BoundCells
  <1> QED BY <1>2, <1>3

(* The adapter starts with sealed tasks, bound slots and nothing marked.   *)
LEMMA AdapterStarts ==
  ASSUME AdapterInit
  PROVE  MaintenanceInv /\ AdapterInv
  <1> USE MaintenanceAssumption
  <1>0. Capacity \in Nat \ {0} /\ Slots \subseteq Nat \ {0} /\ Main \in Producers /\ Slots \subseteq SparseKeys
        /\ "none" \notin Tasks
    BY AdapterAssumption DEF Slots
  <1>1. /\ ready = FALSE /\ released = FALSE /\ op = NoCall /\ bodies = <<>> /\ told = {} /\ unread = {}
        /\ cells = BoundCells /\ sealed = TRUE /\ stack = <<>> /\ calls = [p \in Producers |-> Away]
        /\ in_flight = 0 /\ activity = 0 /\ idle = {} /\ drain = NoDrain /\ owed = {}
    BY DEF AdapterInit
  <1>2. PICK kind \in {"dense", "sparse"} :
          world = [kind |-> kind,
                   slot_of |-> [k \in SparseKeys |-> IF k \in Slots THEN k ELSE NoSlot],
                   generation |-> [s \in Slots |-> IF kind = "dense" THEN 0 ELSE s],
                   clock |-> Capacity,
                   meta |-> [s \in Slots |-> Meta!FreshMeta]]
    BY DEF AdapterInit
  <1>3. PICK task \in [Slots -> Tasks] :
       /\ \A a, b \in Slots : task[a] = task[b] => a = b
       /\ slots = [s \in Slots |-> [target |-> task[s], generation |-> 1]]
       /\ handles = {[slot |-> s, generation |-> 1, task |-> task[s]] : s \in Slots}
    BY DEF AdapterInit
  <1>4. PICK bkind \in Kinds : backend = [kind |-> bkind, queue |-> <<>>, word |-> {}, claimed |-> {}]
    BY DEF AdapterInit
  <1>5. \A s \in Slots : task[s] \in Tasks /\ task[s] # NoTask /\ slots[s] = [target |-> task[s], generation |-> 1]
    BY <1>0, <1>3 DEF NoTask
  <1>6. MaintenanceTypeOK
    <2>1. calls \in [Producers -> Call]
      BY <1>0, <1>1 DEF Away, Call
    <2>2. backend \in [kind : Kinds, queue : Seq(Slots), word : SUBSET Slots, claimed : SUBSET Slots]
      BY <1>4
    <2>3. drain \in DrainRecord
      BY <1>1 DEF NoDrain, DrainRecord
    <2>4. slots \in [Slots -> [target : Tasks \cup {NoTask}, generation : Nat \ {0}]]
      BY <1>3, <1>5
    <2>5. handles \subseteq [slot : Slots, generation : Nat \ {0}, task : Tasks]
      BY <1>3, <1>5
    <2>6. /\ sealed \in BOOLEAN /\ stack \in Seq(FrameRecord)
          /\ in_flight \in Nat /\ activity \in Nat /\ idle \subseteq Nat /\ owed \subseteq Slots
      <3>1. stack \in Seq(FrameRecord)
        BY <1>1
      <3>2. sealed \in BOOLEAN
        BY <1>1
      <3> QED BY <1>1, <3>1, <3>2
    <2> QED BY <2>1, <2>2, <2>3, <2>4, <2>5, <2>6 DEF MaintenanceTypeOK
  <1>7. Pending = {} /\ ~Queued /\ backend.claimed = {}
    BY <1>4, EmptyToSet DEF Pending, Queued
  <1>8. Framed = {} /\ Running = {} /\ Retained = {}
    BY <1>1, <1>7, NoFrames DEF Retained
  <1>9. Inside = {}
    BY <1>1 DEF Inside
  <1>10. CallsAreCounted
    BY <1>1, <1>9, FS_EmptySet DEF CallsAreCounted, Away
  <1>11. EvidenceHolds /\ NothingBeforeSeal /\ AcceptedWorkIsKept /\ FramesHaveAnOwner
    BY <1>1, <1>6, <1>7, <1>8 DEF EvidenceHolds, NothingBeforeSeal, NoDrain, Vouched, AcceptedWorkIsKept, FramesHaveAnOwner
  <1>12. HandlesAreUnique
    BY <1>3, <1>5 DEF HandlesAreUnique
  <1>13. MaintenanceInv
    BY <1>6, <1>8, <1>10, <1>11, <1>12 DEF MaintenanceInv
  <1>14. world \in WorldRecord
    <2>1. Meta!FreshMeta \in MetaRecord
      BY DEF Meta!FreshMeta, Meta!NoBox, MetaRecord, Box
    <2>2. [k \in SparseKeys |-> IF k \in Slots THEN k ELSE NoSlot] \in [SparseKeys -> Slots \cup {NoSlot}]
      OBVIOUS
    <2>3. [s \in Slots |-> IF kind = "dense" THEN 0 ELSE s] \in [Slots -> Nat]
      BY <1>0
    <2>4. [s \in Slots |-> Meta!FreshMeta] \in [Slots -> MetaRecord]
      BY <2>1
    <2> QED BY <1>0, <1>2, <2>2, <2>3, <2>4 DEF WorldRecord
  <1>15. /\ cells \in [Slots -> CellRecord]
         /\ \A s \in Slots : ~cells[s].built /\ ~cells[s].debt /\ cells[s].token.generation = 0
    BY <1>1, <1>14, BoundCellsEffect
  <1>16. AdapterTypeOK
    <2>1. ready \in BOOLEAN /\ released \in BOOLEAN
      BY <1>1
    <2>2. op \in OpRecord /\ bodies \in Seq(BodyRecord) /\ told \subseteq Slots /\ unread \subseteq Slots
      BY <1>1, NoCallTyped
    <2> QED BY <1>14, <1>15, <2>1, <2>2 DEF AdapterTypeOK
  <1>17. ResidencyIsUnique
    <2>1. /\ world.clock = Capacity
          /\ \A s \in Slots : world.generation[s] = IF kind = "dense" THEN 0 ELSE s
          /\ \A k \in SparseKeys : world.slot_of[k] = IF k \in Slots THEN k ELSE NoSlot
      BY <1>2
    <2>2. \A s \in Slots : s \in Nat /\ s <= Capacity
      BY DEF Slots
    <2>3. \A s \in Slots : world.generation[s] <= world.clock /\ cells[s].token.generation <= world.clock
      BY <1>0, <1>15, <2>1, <2>2
    <2>4. \A k \in ResidentKeys : k \in SparseKeys /\ world.slot_of[k] = k
      BY <2>1 DEF ResidentKeys
    <2> QED BY <2>3, <2>4 DEF ResidencyIsUnique
  <1>18. CallsAreNested
    <2>1. \A s \in Slots : slots[s].target # NoTask /\ HandleOf(s) \in handles
      BY <1>3, <1>5 DEF HandleOf
    <2> QED BY <1>0, <1>1, <2>1 DEF CallsAreNested, NoCall, NoDrain
  <1>19. FramesHaveBodies /\ BodiesHold /\ ProductsHold
    BY <1>1, <1>15 DEF FramesHaveBodies, BodiesHold, ProductsHold
  <1>20. UnreadIsAwaited /\ IdleIsTrue
    BY <1>1 DEF UnreadIsAwaited, IdleIsTrue, NoCall
  <1> QED BY <1>13, <1>16, <1>17, <1>18, <1>19, <1>20 DEF AdapterInv

(* A step that changes nothing keeps the adapter's invariant.              *)
LEMMA AdapterStutters ==
  ASSUME AdapterInv, UNCHANGED maintenance_vars, UNCHANGED adapter_vars
  PROVE  AdapterInv'
  <1>1. UNCHANGED <<world, cells, ready, released, op, bodies, told, unread>>
    BY DEF adapter_vars
  <1>2. /\ CallsAreNested' /\ FramesHaveBodies' /\ Retained' = Retained /\ Synchronous' = Synchronous
        /\ Framed' = Framed /\ Pending' = Pending /\ Ahead' = Ahead /\ Offering' = Offering
        /\ UNCHANGED <<stack, calls>>
    BY <1>1, SameCalls DEF AdapterInv, maintenance_vars, scheduler_vars
  <1>3. AdapterTypeOK'
    BY <1>1 DEF AdapterInv, AdapterTypeOK
  <1>4. BodiesHold'
    BY <1>1, <1>2 DEF AdapterInv, BodiesHold, BodyHolds, Settled, BindingCurrent, ResidentKeys, ReadSince
  <1>5. /\ unread' \subseteq Awaited' /\ \A s \in unread' : world'.meta[s].dirty = Owned /\ Settled(s)'
        /\ ResidencyIsUnique' /\ ProductsHold' /\ Indebted' = Indebted
    BY <1>1, <1>2, SameMarks
  <1>6. UnreadIsAwaited'
    BY <1>1, <1>2, <1>5 DEF AdapterInv, UnreadIsAwaited
  <1>7. IdleIsTrue'
    BY <1>1, <1>2, <1>5 DEF AdapterInv, IdleIsTrue
  <1> QED BY <1>2, <1>3, <1>4, <1>5, <1>6, <1>7 DEF AdapterInv

(* Every step of the adapter keeps its invariant.                          *)
LEMMA AdapterSteps ==
  ASSUME MaintenanceInv, AdapterInv, AdapterNext
  PROVE  AdapterInv'
  <1>1. CASE \E k \in SparseKeys : AdapterCalls(k) \/ CallbackMarks(k)
    <2>1. PICK k \in SparseKeys : AdapterCalls(k) \/ CallbackMarks(k)
      BY <1>1
    <2>2. CASE MarkDirty(k) \/ Retry(k)
      BY <2>2, OfferingKeeps
    <2>3. CASE OtherOwnerMarks(k)
      BY <2>3, OtherOwnerKeeps
    <2>4. CASE EnsureResident(k) \/ Evict(k) \/ LoadAround(k)
      BY <2>4, TransitionKeeps
    <2>5. CASE CallbackMarks(k)
      BY <2>5, CallbackMarksKeeps
    <2> QED BY <2>1, <2>2, <2>3, <2>4, <2>5 DEF AdapterCalls
  <1>2. CASE (\E b \in DrainBudgets : RunSome(b)) \/ Flush \/ FlushDrains
    BY <1>2, CallsBegin
  <1>3. CASE OfferProceeds \/ OfferReturns \/ Reoffer
    BY <1>3, OfferProceedsKeeps, OfferReturnsKeeps, OfferingKeeps
  <1>4. CASE DrainProceeds \/ DrainReturns \/ Finalize
    BY <1>4, DrainProceedsKeeps, DrainReturnsKeeps, FinalizeKeeps
  <1>5. CASE RunBeginsSlot \/ CallbackReads \/ CallbackReturns \/ FollowUp \/ CallbackThrows \/ RunReturns
    BY <1>5, RunBeginsKeeps, ReadKeeps, ReturnKeeps, FollowUpKeeps, CallbackThrowsKeeps, RunReturnsKeeps
  <1>6. CASE Reconcile \/ AdapterReleases
    BY <1>6, ReconcileKeeps, ReleaseKeeps
  <1> QED BY <1>1, <1>2, <1>3, <1>4, <1>5, <1>6 DEF AdapterNext

-----------------------------------------------------------------------------
(* The invariant of the adapter over its scheduler, from its construction  *)
(* to its release.                                                         *)
THEOREM ChunkInvariant == ChunkSpec => []ChunkInv
  <1>1. ChunkInit => ChunkInv
    BY InitiallyNothing, AdapterStarts DEF ChunkInit, ChunkInv
  <1>2. ChunkInv /\ ChunkNext => ChunkInv'
    <2>1. ASSUME ChunkInv, scene = "scheduler", MaintenanceNext PROVE MaintenanceInv'
      BY <2>1, StepIsSound DEF ChunkInv, MaintenanceNext, MaintenanceStep
    <2>2. ASSUME ChunkInv, scene = "adapter", AdapterNext PROVE MaintenanceInv' /\ AdapterInv'
      BY <2>2, SchedulerBelow, AdapterSteps DEF ChunkInv
    <2> QED BY <2>1, <2>2 DEF ChunkInv, ChunkNext
  <1>3. ChunkInv /\ UNCHANGED chunk_vars => ChunkInv'
    <2> SUFFICES ASSUME ChunkInv, UNCHANGED chunk_vars PROVE ChunkInv'
      OBVIOUS
    <2>1. UNCHANGED maintenance_vars /\ UNCHANGED adapter_vars /\ scene' = scene
      BY DEF chunk_vars
    <2> QED BY <2>1, Stuttering, AdapterStutters DEF ChunkInv
  <1> QED BY <1>1, <1>2, <1>3, PTL DEF ChunkSpec

(* A run_slot that is to call its callback has begun, so its slot runs.    *)
LEMMA AheadIsRunning ==
  ASSUME MaintenanceInv, AdapterInv
  PROVE  Ahead \subseteq Running
  <1>1. ASSUME NEW i \in DOMAIN bodies, bodies[i].phase = "rebuilding" PROVE stack[i].slot \in Running
    <2>1. FramesHaveBodies /\ bodies \in Seq(BodyRecord) /\ MaintenanceTypeOK
      BY DEF AdapterInv, AdapterTypeOK, MaintenanceInv
    <2>2. stack # <<>>
      BY <1>1, <2>1 DEF FramesHaveBodies
    <2>3. /\ Len(stack) \in Nat \ {0} /\ DOMAIN stack = 1 .. Len(stack) /\ Top = stack[Len(stack)]
      BY <2>1, <2>2, TopFrame
    <2>4. /\ Len(bodies) = (IF Top.active THEN Len(stack) ELSE Len(stack) - 1)
          /\ \A j \in DOMAIN stack : j < Len(stack) => stack[j].active
      BY <2>1, <2>2 DEF FramesHaveBodies
    <2>5. i \in 1 .. Len(bodies)
      BY <1>1, <2>1
    <2>6. i \in DOMAIN stack /\ stack[i].active
      <3>1. CASE Top.active
        BY <2>3, <2>4, <2>5, <3>1
      <3>2. CASE ~Top.active
        BY <2>3, <2>4, <2>5, <3>2
      <3> QED BY <3>1, <3>2
    <2> QED BY <2>6 DEF Running
  <1> QED BY <1>1 DEF Ahead

(* A chunk marked since its product was read has a run ahead of it, a debt *)
(* or a caller that was told, and nothing the backend accepted is lost     *)
(* below: through repeats, refusals, throws, exhausted budgets, marks made *)
(* by the rebuild itself and residency transitions                         *)
(* (chunk_maintenance.h:103-120, registered_maintenance.h:22-31).          *)
THEOREM NothingMarkedIsForgotten == ChunkSpec => []NoWorkIsForgotten
  <1>1. ASSUME ChunkInv PROVE NoWorkIsForgotten
    <2>1. AcceptedWorkIsKept
      BY <1>1 DEF ChunkInv, MaintenanceInv
    <2>2. ASSUME scene = "adapter" PROVE MarkedWorkIsOwed
      <3>1. MaintenanceInv /\ AdapterInv
        BY <1>1, <2>2 DEF ChunkInv
      <3>2. Ahead \subseteq Running /\ Offering \subseteq {op.slot}
        BY <3>1, AheadIsRunning DEF Offering
      <3>3. unread \subseteq Retained \cup Indebted \cup told \cup {op.slot}
        BY <3>1, <3>2 DEF AdapterInv, UnreadIsAwaited, Awaited, Retained
      <3>4. ready => Retained = {} /\ Indebted = {}
        BY <3>1 DEF AdapterInv, IdleIsTrue
      <3> QED BY <3>3, <3>4 DEF MarkedWorkIsOwed
    <2> QED BY <2>1, <2>2 DEF NoWorkIsForgotten, MarkedWorkIsOwed
  <1> QED BY <1>1, ChunkInvariant, PTL

(* A product the adapter calls Current is what its callback would read of  *)
(* the chunk now, in this residency interval and at this version, although *)
(* callbacks mark what they rebuild, other owners move the version and     *)
(* slots change chunks (chunk_maintenance.h:97-120).                       *)
THEOREM CurrentProductsAreTrue == ChunkSpec => []ProductsAreTruthful
  <1>1. ASSUME ChunkInv PROVE ProductsAreTruthful
    <2>1. ASSUME scene = "adapter", NEW k \in SparseKeys, ProductCurrent(k)
          PROVE  cells[world.slot_of[k]].product = Content(world.slot_of[k])
      <3>1. AdapterInv
        BY <1>1, <2>1 DEF ChunkInv
      <3>2. PICK s \in BoundSlots(k) : cells[s].built /\ TokenCurrent(s)
        BY <2>1 DEF ProductCurrent
      <3>3. s \in Slots /\ s = world.slot_of[k]
        BY <3>2 DEF BoundSlots
      <3>4. /\ cells[s].token.generation = world.generation[s]
            /\ cells[s].token.version = world.meta[s].content_version
        BY <3>2 DEF TokenCurrent, BindingCurrent
      <3>5. PICK v \in cells[s].token.version .. world.meta[s].content_version :
              cells[s].product = <<cells[s].token.generation, v>>
        BY <3>1, <3>2, <3>3, <3>4 DEF AdapterInv, ProductsHold, ReadSince
      <3>6. world.meta[s].content_version \in Nat
        BY <3>1, <3>3, AdapterTypes DEF AdapterInv
      <3>7. v = world.meta[s].content_version
        BY <3>4, <3>5, <3>6
      <3> QED BY <3>3, <3>4, <3>5, <3>7 DEF Content
    <2> QED BY <2>1 DEF ProductsAreTruthful
  <1> QED BY <1>1, ChunkInvariant, PTL

(* Idle and release are as safe above the adapter, whose own release asks  *)
(* the scheduler for the same evidence (chunk_maintenance.h:415-437).      *)
THEOREM AdapterReleaseIsSafe == ChunkSpec => []ReleaseCancelsNothing
  <1>1. ChunkInv => ReleaseCancelsNothing
    BY EvidenceIsSafe DEF ChunkInv
  <1> QED BY <1>1, ChunkInvariant, PTL
=============================================================================
