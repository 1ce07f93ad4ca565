----------------------------- MODULE MCAsyncTask ----------------------------
(* One task of each cadence, with periodic tasks on both sides of the ones  *)
(* that throw; task 7 is registered last but runs in an early phase.  Task  *)
(* 3, the Background one, adapts the queue: two slots per generation and    *)
(* two generations.                                                         *)
EXTENDS AsyncTask

CONSTANTS d, e

MCTasks == 1..7
MCKind == <<"OnDirty", "EveryN", "Background", "OnEvent", "EveryN", "Manual", "EveryTick">>
MCPhase == <<1, 1, 2, 3, 3, 4, 2>>
MCEveryN == <<1, 3, 1, 1, 3, 1, 1>>
MCSubscribed == <<{d}, {}, {}, {e}, {}, {}, {}>>
==================================================
