---------------------------- MODULE JointMovement ----------------------------
(***************************************************************************)
(* sim/joint_movement.h: which moves of one round are admitted together.   *)
(* A round is a sequence, in span order, with one entry per agent: where   *)
(* it stands and wants to go, the verdict the movement validation gives    *)
(* its next step ("Inactive" without one), whether the wanted tile is      *)
(* reserved, and the ticks it has been blocked.  Admission ends in a       *)
(* sequence of outcomes: "Inactive", "Admitted" or the failure recorded;   *)
(* "Pending" is the state of a move not yet decided.                       *)
(***************************************************************************)
EXTENDS Integers, Sequences, FiniteSets

CONSTANT DeadlockTicks   \* JointMoveOptions::deadlock_ticks

ASSUME DeadlockTicksAssumption == DeadlockTicks \in Nat

\* The same sequence, written so that TLC evaluates its elements once.
Once(seq) == seq \o <<>>

SwapPolicies == {"Forbid", "Permit", "PermitOnDeadlock"}

Claimed(round, state) ==
    {round[i].to : i \in {k \in DOMAIN round : state[k] = "Admitted"}}

FirstClaim(round, i) ==
    \A k \in 1 .. i - 1 :
        round[k].verdict = "Moved" => round[k].to # round[i].to

\* Phases 1 and 2: free destinations go to the first agent in span order, and
\* a reservation is not lost behind a vacating occupant.
Validated(round) ==
    Once([i \in DOMAIN round |->
        CASE round[i].verdict = "Moved" ->
                IF FirstClaim(round, i) THEN "Admitted" ELSE "Occupied"
          [] round[i].verdict = "Occupied" ->
                IF round[i].reserved THEN "Reserved" ELSE "Pending"
          [] OTHER -> round[i].verdict])

Occupants(round, tile) == {i \in DOMAIN round : round[i].at = tile}

\* Phase 3, one agent: a tile an admitted mover vacates is granted once.
Chained(round, state, i) ==
    IF /\ state[i] = "Pending"
       /\ \E k \in Occupants(round, round[i].to) : state[k] = "Admitted"
    THEN [state EXCEPT ![i] = IF round[i].to \in Claimed(round, state)
                              THEN "Occupied" ELSE "Admitted"]
    ELSE state

\* Mutant: the passes stop after the first
MutOnePass(round) ==
    LET n == Len(round)
        upTo[k \in 0 .. n] ==
            IF k = 0 THEN Validated(round) ELSE Chained(round, upTo[k - 1], k)
    IN  upTo[n]

\* Every pass in span order that changes anything settles an agent, so as
\* many passes as there are agents reach the fixpoint.
Drained(round) ==
    LET n == Len(round)
        upTo[k \in 0 .. n * n] ==
            IF k = 0 THEN Validated(round)
            ELSE Chained(round, upTo[k - 1], ((k - 1) % n) + 1)
    IN  upTo[n * n]

\* Phase 4: the wants-cycle through i among the pending moves, or {}.
CycleOf(round, state, i) ==
    LET walk[k \in 0 .. Len(round)] ==
            IF k = 0 THEN {i}
            ELSE {m \in UNION {Occupants(round, round[j].to) : j \in walk[k - 1]} :
                      state[m] = "Pending"}
    IN  IF \E k \in 1 .. Len(round) : i \in walk[k]
        THEN UNION {walk[k] : k \in DOMAIN walk} ELSE {}

\* Mutant: a pair counts as a rotation
MutPairsRotate(round, cycle, policy) == Cardinality(cycle) >= 2

CycleAdmitted(round, cycle, policy) ==
    \/ Cardinality(cycle) >= 3
    \/ policy = "Permit"
    \/ /\ policy = "PermitOnDeadlock"
       /\ \A i \in cycle : round[i].retries >= DeadlockTicks

\* Cycles are disjoint and refill what they vacate, so each is decided by
\* itself; what still waits then waits for an occupied tile.
Admission(round, policy) ==
    LET drained == Drained(round)
    IN  Once([i \in DOMAIN round |->
            LET cycle == CycleOf(round, drained, i) IN
            CASE drained[i] # "Pending" -> drained[i]
              [] drained[i] = "Pending" /\ cycle = {} -> "Occupied"
              [] OTHER -> IF CycleAdmitted(round, cycle, policy)
                          THEN "Admitted" ELSE "Occupied"])
=============================================================================
