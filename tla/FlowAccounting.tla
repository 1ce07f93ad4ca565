--------------------------- MODULE FlowAccounting ---------------------------
(***************************************************************************)
(* diagnostics/diagnostics.h: the accountant a bounded flow may carry.     *)
(* FlowCounters and the observation clock are one record; the flow updates *)
(* it at its own transitions.  Cancelled, superseded and failed items share *)
(* one bucket here.  Work units, the high-water mark, the oldest age and   *)
(* coalesced offers take no part in the identities and are left out.       *)
(***************************************************************************)
EXTENDS Integers

Buckets == {"completed", "negative", "stale", "dropped"}

NoFlow == [offered |-> 0, admitted |-> 0, rejected |-> 0,
           terminal |-> [b \in Buckets |-> 0], outstanding |-> 0,
           inventory |-> 0, residence |-> 0, clock |-> 0]

FlowRecord == [offered : Nat, admitted : Nat, rejected : Nat,
               terminal : [Buckets -> Nat], outstanding : Nat,
               inventory : Nat, residence : Nat, clock : Nat]

\* observe_tick: weights the inventory by the ticks since the last observation.
ObserveTick(f, tick) ==
    IF tick > f.clock
    THEN [f EXCEPT !.inventory = @ + f.outstanding * (tick - f.clock),
                   !.clock = tick]
    ELSE f

RecordAdmitted(f) == [f EXCEPT !.admitted = @ + 1, !.outstanding = @ + 1]

\* record_left_outstanding and the residence of an item stamped `since`
RecordLeft(f, since) ==
    [f EXCEPT !.outstanding = IF @ > 0 THEN @ - 1 ELSE 0,
              !.residence = @ + (f.clock - since)]

AddTo(f, bucket) == [f EXCEPT !.terminal[bucket] = @ + 1]

Terminal(f) ==
    f.terminal["completed"] + f.terminal["negative"]
    + f.terminal["stale"] + f.terminal["dropped"]

AdmissionIdentity(f) == f.offered = f.admitted + f.rejected
RetentionIdentity(f) == f.admitted = Terminal(f) + f.outstanding
=============================================================================
