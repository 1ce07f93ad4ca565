-------------------------- MODULE ResultLifecycle ---------------------------
(***************************************************************************)
(* What a client of the resumable work queue is promised about a ticket:   *)
(* one submission, one result, settled at most once, except that a         *)
(* finished result may later be declared stale; and once retired, a ticket *)
(* answers for nothing ever again.                                         *)
(***************************************************************************)
CONSTANT Submissions

VARIABLE outcome   \* what each submission's ticket shows

Done      == {"immediate", "ready"}
Negative  == {"negative", "stale"}   \* failed, cancelled or superseded
Outcomes  == {"unissued", "pending", "retired"} \cup Done \cup Negative

TypeOK == outcome \in [Submissions -> Outcomes]

Init == outcome = [s \in Submissions |-> "unissued"]

Issue(s) ==
    /\ outcome[s] = "unissued"
    /\ \E o \in {"pending", "immediate"} :
          outcome' = [outcome EXCEPT ![s] = o]

Settle(s) ==
    /\ outcome[s] = "pending"
    /\ \E o \in {"ready"} \cup Negative :
          outcome' = [outcome EXCEPT ![s] = o]

Outdate(s) ==
    /\ outcome[s] \in Done
    /\ outcome' = [outcome EXCEPT ![s] = "stale"]

\* Tickets are retired together.
RetireAll ==
    outcome' = [s \in Submissions |->
                  IF outcome[s] = "unissued" THEN "unissued" ELSE "retired"]

Next == \/ \E s \in Submissions : Issue(s) \/ Settle(s) \/ Outdate(s)
        \/ RetireAll

Spec == Init /\ [][Next]_outcome
=============================================================================
