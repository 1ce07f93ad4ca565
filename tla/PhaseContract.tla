---------------------------- MODULE PhaseContract ----------------------------
(***************************************************************************)
(* What every phase executor promises (ops/phase_executor.h, "Phase        *)
(* executor contract"): a call receives a contiguous range of planned      *)
(* operations, invokes the callback on each of them at most once, and      *)
(* returns only when no callback is in flight any more.  An exceptional    *)
(* return needs a callback that threw; a failing return names the first    *)
(* failing operation in plan order; a clean return means that every        *)
(* operation ran.                                                          *)
(*                                                                         *)
(* The model is independent of threads, so that the serial executor, the   *)
(* scoped-thread executor and the worker pool can all be shown to          *)
(* implement it.                                                           *)
(***************************************************************************)
EXTENDS Integers

CONSTANT MaxOps            \* the largest range a call can pass

Offsets == 0 .. MaxOps - 1

OpStates == {"todo", "running", "Executed", "Failed", "threw"}

(* What a call returns: nothing yet, success, an exception, or the offset  *)
(* of the failing operation that is reported.                              *)
Success    == [kind |-> "Success"]
Exception  == [kind |-> "Exception"]
Failure(o) == [kind |-> "Failure", offset |-> o]

VARIABLES
  in_call,     \* a for_each_operation call is in progress
  count,       \* the number of operations of the current or last call
  op,          \* op[o]: the state of the operation at offset o
  outcome      \* what the last finished call returned

vars == <<in_call, count, op, outcome>>

Init ==
  /\ in_call = FALSE
  /\ count = 0
  /\ op = [o \in Offsets |-> "todo"]
  /\ outcome = Success

(* A call begins; no call is in progress.                                  *)
Call(n) ==
  /\ ~in_call
  /\ in_call' = TRUE
  /\ count' = n
  /\ op' = [o \in Offsets |-> "todo"]
  /\ UNCHANGED outcome

(* A callback starts on an operation of the range that was never started.  *)
Start(o) ==
  /\ in_call
  /\ o < count
  /\ op[o] = "todo"
  /\ op' = [op EXCEPT ![o] = "running"]
  /\ UNCHANGED <<in_call, count, outcome>>

(* A callback that is in flight returns or throws.                         *)
Finish(o, s) ==
  /\ in_call
  /\ op[o] = "running"
  /\ op' = [op EXCEPT ![o] = s]
  /\ UNCHANGED <<in_call, count, outcome>>

Joined == \A o \in Offsets : op[o] # "running"

ReturnSuccess ==
  /\ \A o \in 0 .. count - 1 : op[o] = "Executed"
  /\ outcome' = Success

ReturnFailure ==
  \E o \in 0 .. count - 1 :
    /\ op[o] = "Failed"
    /\ \A p \in 0 .. o - 1 : op[p] = "Executed"
    /\ outcome' = Failure(o)

ReturnException ==
  /\ \E o \in 0 .. count - 1 : op[o] = "threw"
  /\ outcome' = Exception

Return ==
  /\ in_call
  /\ Joined
  /\ ReturnSuccess \/ ReturnFailure \/ ReturnException
  /\ in_call' = FALSE
  /\ UNCHANGED <<count, op>>

Next ==
  \/ \E n \in 1 .. MaxOps : Call(n)
  \/ \E o \in Offsets : Start(o)
  \/ \E o \in Offsets, s \in {"Executed", "Failed", "threw"} : Finish(o, s)
  \/ Return

Spec == Init /\ [][Next]_vars
=============================================================================
