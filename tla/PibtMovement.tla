----------------------------- MODULE PibtMovement -----------------------------
(***************************************************************************)
(* sim/pibt_movement.h: one decision pass of priority inheritance with     *)
(* backtracking.  A pass is a sequence, in span order, with one entry per  *)
(* agent: where it stands, whether its goal is live, whether its own tile  *)
(* is impassable, its candidate tiles by preference (its own among them),  *)
(* the ticks it has been blocked, and its adaptive priority.  The machine  *)
(* keeps the tile each agent desires, the tiles claimed, how far each      *)
(* agent has got in its candidates and the stack of agents that lent their *)
(* turn to a peer; Decided is the configuration it ends in.                *)
(***************************************************************************)
EXTENDS JointMovement

\* Decision order: priority first, then span order.
Before(pass, i, j) ==
    \/ pass[i].elapsed > pass[j].elapsed
    \/ pass[i].elapsed = pass[j].elapsed /\ i < j

Undecided(m) == {i \in DOMAIN m.state : m.state[i] = "undecided"}

Undeciding(pass) ==
    [desired |-> Once([i \in DOMAIN pass |-> pass[i].at]),
     state   |-> Once([i \in DOMAIN pass |-> "undecided"]),
     next    |-> Once([i \in DOMAIN pass |-> 1]),
     claimed |-> {}, stack |-> <<>>, placed |-> FALSE]

\* An agent is settled on what it desires.
Settled(m, i, placed) == [m EXCEPT !.state[i] = "decided", !.placed = placed]

\* The agent on top of the stack hands the turn back.
Popped(m) == [m EXCEPT !.stack = SubSeq(@, 1, Len(@) - 1)]

\* start_deciding: whoever cannot be vacated claims its tile and fails the
\* agent that lent it the turn.
Started(pass, m, i) ==
    IF pass[i].active /\ ~pass[i].stuck
    THEN [m EXCEPT !.state[i] = "deciding", !.stack = Append(@, i)]
    ELSE Settled([m EXCEPT !.claimed = @ \union {pass[i].at}], i, FALSE)

\* The next agent in decision order; one without a live goal does not decide.
Turned(pass, m) ==
    LET i == CHOOSE k \in Undecided(m) :
                 \A j \in Undecided(m) \ {k} : Before(pass, k, j)
    IN  IF pass[i].active THEN Started(pass, m, i) ELSE Settled(m, i, FALSE)

\* The peer that inherited the turn has decided.  Where it failed its claim
\* stays and the next candidate is tried.
Resumed(pass, m, i) ==
    IF m.placed THEN Popped(Settled(m, i, TRUE))
    ELSE [m EXCEPT !.desired[i] = pass[i].at, !.next[i] = @ + 1,
                   !.state[i] = "deciding"]

SwapDenied(pass, m, i, tile, policy) ==
    /\ tile # pass[i].at
    /\ \E k \in Occupants(pass, tile) :
          /\ m.desired[k] = pass[i].at
          /\ policy # "Permit"
          /\ policy = "PermitOnDeadlock" =>
                pass[i].retries < DeadlockTicks \/ pass[k].retries < DeadlockTicks

\* One candidate of the agent on top of the stack.
Tried(pass, m, i, policy) ==
    LET tile  == pass[i].options[m.next[i]]
        peers == {k \in Occupants(pass, tile) :
                      tile # pass[i].at /\ m.state[k] = "undecided"}
        taken == [m EXCEPT !.claimed = @ \union {tile}, !.desired[i] = tile]
    IN  IF tile \in m.claimed \/ SwapDenied(pass, m, i, tile, policy)
        THEN [m EXCEPT !.next[i] = @ + 1]
        ELSE IF peers = {} THEN Popped(Settled(taken, i, TRUE))
        ELSE Started(pass, [taken EXCEPT !.state[i] = "waiting"],
                     CHOOSE k \in peers : TRUE)

\* No candidate is left: the agent keeps its tile, so that no chain enters it.
Exhausting(pass, m, i) ==
    Popped(Settled([m EXCEPT !.claimed = @ \union {pass[i].at},
                             !.desired[i] = pass[i].at], i, FALSE))

Deciding(pass, m, policy) ==
    IF m.stack = <<>>
    THEN IF Undecided(m) = {} THEN m ELSE Turned(pass, m)
    ELSE LET i == m.stack[Len(m.stack)] IN
         CASE m.state[i] = "waiting"              -> Resumed(pass, m, i)
           [] m.state[i] = "deciding"
              /\ m.next[i] > Len(pass[i].options) -> Exhausting(pass, m, i)
           [] OTHER                               -> Tried(pass, m, i, policy)

\* Every agent starts once and takes at most two steps for a candidate.
MostSteps(pass) ==
    LET upTo[k \in 0 .. Len(pass)] ==
            IF k = 0 THEN 0 ELSE upTo[k - 1] + 2 * Len(pass[k].options) + 2
    IN  upTo[Len(pass)]

\* The tiles desired once nobody is left to decide.
Decided(pass, policy) ==
    LET upTo[k \in 0 .. MostSteps(pass)] ==
            IF k = 0 THEN Undeciding(pass)
            ELSE Deciding(pass, upTo[k - 1], policy)
    IN  upTo[MostSteps(pass)].desired
=============================================================================
