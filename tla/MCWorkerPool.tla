---------------------------- MODULE MCWorkerPool ----------------------------
(* Two workers and one caller, who is in a second call's place too: a call   *)
(* from another thread differs from one of its own only when it overlaps,    *)
(* and then ends the process, as a call from a callback does.  A phase has   *)
(* one operation, fewer than workers, or four, in runs of two: only          *)
(* Dispatch, which no fairness is assumed of, is cut by the constraint.      *)
EXTENDS WorkerPool

JobSizes == job.count \in {0, 1, 4}
=============================================================================
