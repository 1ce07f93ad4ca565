---------------------------- MODULE MCMaintenance ----------------------------
(* Two producers and two tasks; a queue of one entry, so that every second *)
(* offer is refused; sparse worlds of three chunks over two slots.  In     *)
(* other behaviours nothing is maintained and a query of MCPathSearch is   *)
(* answered: the two share no state.                                       *)
EXTENDS ChunkMaintenance, MCPathSearch, TLC

VARIABLE part       \* "maintenance" or "search"

Idle ==
  /\ scene = "scheduler" /\ MaintenanceInit /\ Nothing
  /\ backend.kind = "immediate"
NoSearch ==
  /\ query = <<>> /\ phase = "none" /\ frontier = <<>>
  /\ result = Failed("NotComputed") /\ truth = <<>>

(* The owner of the tasks may leave them alone. *)
Rested == UNCHANGED chunk_vars

MCInit ==
  \/ part = "maintenance" /\ ChunkInit /\ NoSearch
  \/ part = "search" /\ Idle /\ SearchInit
MCNext ==
  /\ UNCHANGED part
  /\ \/ part = "maintenance" /\ (ChunkNext \/ Rested) /\ UNCHANGED search_vars
     \/ part = "search" /\ SearchNext /\ UNCHANGED chunk_vars
MCSpec == MCInit /\ [][MCNext]_<<chunk_vars, search_vars, part>>

Symmetry == Permutations(Tasks)
(* Of an adapter's epochs it only matters which are the current one.       *)
Epochs ==
  IF scene = "scheduler" THEN <<activity, idle, drain>>
  ELSE <<activity \in idle, drain.activity = activity, [drain EXCEPT !.activity = 0]>>
View ==
  <<slots, handles, sealed, backend, stack, calls, in_flight, Epochs, owed, scene, adapter_vars,
    search_vars, part>>
=============================================================================
