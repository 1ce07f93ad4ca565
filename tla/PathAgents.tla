------------------------------ MODULE PathAgents ------------------------------
(***************************************************************************)
(* sim/path_agent.h, sim/path_agent_tick.h and sim/movement.h: a span of   *)
(* path agents, their retained routes, and the tick drivers that plan and  *)
(* then move them: agent by agent, jointly, or by PIBT decisions.  A       *)
(* search is modelled by its answer: any simple route over open tiles, or  *)
(* that there is none.                                                     *)
(* A goal lives exactly while the phase is not Idle, so has_goal is not a  *)
(* field.  The caller sets and clears goals through the tick state, edits  *)
(* terrain (with or without the mark_pathing_dirty the contract asks for), *)
(* reserves tiles and occupies free tiles with things that are no agents.  *)
(***************************************************************************)
EXTENDS PibtMovement, FlowAccounting

CONSTANTS Tiles,        \* the tiles of the world
          NoTile,       \* the goal of an idle agent
          Neighbors,    \* the regular transitions between them
          Starts,       \* where the agents begin, in span order
          FirstGoals,   \* the goals set before the first tick, per agent
          MaxRetries,   \* PathAgentTickOptions::max_blocked_retries
          StepBudgets,  \* the values of max_steps the caller ticks with
          Oracles,      \* the rankings the caller gives PIBT: for every goal,
                        \* the tiles in order of preference
          ElapsedLimit, \* the value at which PibtPriorities::elapsed saturates
          GoalTiles,    \* the goals the caller sets later
          EditTiles,    \* the tiles the caller edits, reserves or occupies
          MaxEdits      \* bound on the caller's edits, goals included

ASSUME PathAgentsAssumption ==
    /\ IsFiniteSet(Tiles) /\ NoTile \notin Tiles
    /\ Neighbors \in [Tiles -> SUBSET Tiles]
    /\ \A t \in Tiles : t \notin Neighbors[t]
    /\ Starts \in Seq(Tiles)
    /\ \A i, j \in DOMAIN Starts : Starts[i] = Starts[j] => i = j
    /\ FirstGoals \subseteq [DOMAIN Starts -> Tiles \union {NoTile}]
    /\ GoalTiles \subseteq Tiles /\ EditTiles \subseteq Tiles
    /\ MaxRetries \in Nat /\ MaxEdits \in Nat /\ StepBudgets \subseteq Nat
    /\ ElapsedLimit \in Nat \ {0}
    /\ \A oracle \in Oracles : oracle \in [Tiles -> Seq(Tiles)]

VARIABLES
    agents,         \* PathAgentState, in span order
    routes,         \* PathAgentRoutes: the retained route of each agent
    elapsed,        \* PibtPriorities::elapsed, of each agent
    pathing_dirty,  \* PathAgentTickState::pathing_dirty
    walls,          \* impassable tiles
    occupied,       \* the occupancy field
    reserved,       \* the reservation field
    flow,           \* the attached FlowAccounting
    obstacles,      \* occupied by something that is no agent
    unmarked,       \* terrain was edited without a mark since the last All pass
    edits,          \* edits the caller made
    ticked          \* what the last step was, when it was a tick

vars == <<agents, routes, elapsed, pathing_dirty, walls, occupied, reserved, flow,
          obstacles, unmarked, edits, ticked>>

Agents == DOMAIN Starts
Phases == {"Idle", "NeedsPath", "Following", "Blocked", "Unreachable"}
Results == {"none", "Found", "NoPath"}
ExhaustionPolicies == {"RemainBlocked", "MarkUnreachable"}

IdleAgent(tile) == [position |-> tile, goal |-> NoTile, index |-> 1,
                    last |-> "none", phase |-> "Idle", retries |-> 0]

Drivers == {"each", "joint", "pibt"}
NoTick == [driver |-> "none", swaps |-> "Forbid", steps |-> 0, searched |-> {}]

Outstanding(agent) == agent.phase \notin {"Idle", "Unreachable"}
HasNextStep(i, agent) ==
    agent.phase # "Idle" /\ agent.last = "Found" /\ agent.index < Len(routes[i])

SimpleRoutes ==
    {r \in UNION {[1 .. n -> Tiles] : n \in 1 .. Cardinality(Tiles)} :
        /\ \A j, k \in DOMAIN r : r[j] = r[k] => j = k
        /\ \A k \in 1 .. Len(r) - 1 : r[k + 1] \in Neighbors[r[k]]}

RoutesOver == [ends \in Tiles \X Tiles |->
                  {r \in SimpleRoutes : r[1] = ends[1] /\ r[Len(r)] = ends[2]}]

RoutesBetween(from, to, blocked) ==
    {r \in RoutesOver[<<from, to>>] : \A k \in DOMAIN r : r[k] \notin blocked}

TypeOK ==
    /\ agents \in [Agents -> [position : Tiles, goal : Tiles \union {NoTile},
                              index : Nat, last : Results, phase : Phases,
                              retries : 0 .. MaxRetries]]
    /\ routes \in [Agents -> SimpleRoutes \union {<<>>}]
    /\ elapsed \in [Agents -> 0 .. ElapsedLimit]
    /\ pathing_dirty \in BOOLEAN /\ unmarked \in BOOLEAN
    /\ walls \subseteq Tiles /\ occupied \subseteq Tiles
    /\ reserved \subseteq Tiles /\ obstacles \subseteq Tiles
    /\ flow \in FlowRecord /\ edits \in 0 .. MaxEdits
    /\ \A i \in Agents : agents[i].phase = "Idle" <=> agents[i].goal = NoTile

\* set_path_agent_goal
ArmedAgent(agent, goal) ==
    [IdleAgent(agent.position) EXCEPT !.goal = goal, !.phase = "NeedsPath"]

\* The span before its first tick: some agents have been given goals.
Init ==
    /\ \E goals \in FirstGoals :
          LET armed == {i \in Agents : goals[i] # NoTile} IN
          /\ agents = Once([i \in Agents |->
                IF i \in armed THEN ArmedAgent(IdleAgent(Starts[i]), goals[i])
                ELSE IdleAgent(Starts[i])])
          /\ flow = [NoFlow EXCEPT !.offered = Cardinality(armed),
                !.admitted = Cardinality(armed), !.outstanding = Cardinality(armed)]
    /\ routes = Once([i \in Agents |-> <<>>])
    /\ elapsed = Once([i \in Agents |-> 0])
    /\ pathing_dirty = TRUE /\ unmarked = FALSE
    /\ occupied = {Starts[i] : i \in Agents}
    /\ walls = {} /\ reserved = {} /\ obstacles = {}
    /\ edits = 0 /\ ticked = NoTick
------------------------------------------------------------------------------
\* The caller between ticks.

Edit == edits < MaxEdits /\ edits' = edits + 1 /\ ticked' = NoTick

\* n lifecycles end in the same bucket
LeaveOutstanding(f, bucket, n) ==
    [f EXCEPT !.terminal[bucket] = @ + n,
              !.outstanding = IF @ > n THEN @ - n ELSE 0]

\* Mutant: a goal that already failed is superseded once more
MutTerminalSuperseded(i) ==
    IF agents[i].phase # "Idle" THEN LeaveOutstanding(flow, "dropped", 1) ELSE flow

Armed(i) == IF Outstanding(agents[i])
            THEN LeaveOutstanding(flow, "dropped", 1) ELSE flow

SetGoal(i, goal) ==
    /\ Edit
    /\ agents' = [agents EXCEPT ![i] = ArmedAgent(@, goal)]
    /\ flow' = RecordAdmitted([Armed(i) EXCEPT !.offered = @ + 1])
    /\ UNCHANGED <<routes, elapsed, pathing_dirty, walls, occupied, reserved, obstacles,
                   unmarked>>

ClearGoal(i) ==
    /\ Edit
    /\ agents[i].phase # "Idle"
    /\ agents' = [agents EXCEPT ![i] = IdleAgent(@.position)]
    /\ flow' = Armed(i)
    /\ UNCHANGED <<routes, elapsed, pathing_dirty, walls, occupied, reserved, obstacles,
                   unmarked>>

EditTerrain(t, mark) ==
    /\ Edit
    /\ walls' = IF t \in walls THEN walls \ {t} ELSE walls \union {t}
    /\ pathing_dirty' = (pathing_dirty \/ mark)
    /\ unmarked' = (unmarked \/ ~mark)
    /\ UNCHANGED <<agents, routes, elapsed, occupied, reserved, flow, obstacles>>

ToggleReservation(t) ==
    /\ Edit
    /\ reserved' = IF t \in reserved THEN reserved \ {t} ELSE reserved \union {t}
    /\ UNCHANGED <<agents, routes, elapsed, pathing_dirty, walls, occupied, flow,
                   obstacles, unmarked>>

ToggleObstacle(t) ==
    /\ Edit
    /\ \/ /\ t \notin occupied
          /\ occupied' = occupied \union {t}
          /\ obstacles' = obstacles \union {t}
       \/ /\ t \in obstacles
          /\ occupied' = occupied \ {t}
          /\ obstacles' = obstacles \ {t}
    /\ UNCHANGED <<agents, routes, elapsed, pathing_dirty, walls, reserved, flow, unmarked>>
------------------------------------------------------------------------------
\* Planning.  prepare_path_agent_processing: a blocked agent spends a retry on
\* every tick that may move it, until its budget is gone.

Exhausted(agent, steps) ==
    agent.phase = "Blocked" /\ steps > 0 /\ agent.retries >= MaxRetries

Retries(agent, steps) ==
    agent.phase = "Blocked" /\ steps > 0 /\ agent.retries < MaxRetries

Prepared(agent, steps, policy) ==
    CASE Retries(agent, steps) -> [agent EXCEPT !.retries = @ + 1]
      [] Exhausted(agent, steps) /\ policy = "MarkUnreachable" ->
            [agent EXCEPT !.phase = "Unreachable", !.last = "none"]
      [] OTHER -> agent

AllPrepared(steps, policy) ==
    Once([i \in Agents |-> Prepared(agents[i], steps, policy)])

GivenUp(steps, policy) ==
    IF policy = "MarkUnreachable"
    THEN {i \in Agents : Exhausted(agents[i], steps)} ELSE {}

NeedsProcessing(steps) ==
    \E i \in Agents :
        \/ agents[i].phase = "NeedsPath"
        \/ Retries(agents[i], steps) /\ agents[i].last # "Found"

KeepsRoute(agent) ==
    agent.phase = "Following" \/ (agent.phase = "Blocked" /\ agent.last = "Found")

\* Mutant: a world change replans only those without a plan
MutDirtyStaysScoped(prepared) == {i \in Agents : ~KeepsRoute(prepared[i])}

\* The agents a pass over prepared agents looks at, in its scope: everyone
\* after a world change, otherwise those that cannot advance without a plan.
InScope(prepared) ==
    {i \in Agents : pathing_dirty \/ ~KeepsRoute(prepared[i])}

AtGoal(agent) == Outstanding(agent) /\ agent.position = agent.goal

\* What a search may answer; <<>> stands for every negative status.
Answers(agent) ==
    LET found == RoutesBetween(agent.position, agent.goal, walls)
    IN  IF found = {} THEN {<<>>} ELSE found

AnsweredNext(given, answers) == {Append(s, r) : s \in given, r \in answers}

\* One answer for each agent, in span order; <<>> for those not submitted.
AllAnswers(prepared, submitted) ==
    LET upTo[n \in 0 .. Len(Starts)] ==
            IF n = 0 THEN {<<>>}
            ELSE AnsweredNext(upTo[n - 1],
                     IF n \in submitted THEN Answers(prepared[n]) ELSE {<<>>})
    IN  upTo[Len(Starts)]

Answered(agent, route) ==
    IF route # <<>>
    THEN [agent EXCEPT !.index = 1, !.last = "Found", !.phase = "Following",
                       !.retries = IF agent.phase = "Blocked" THEN @ ELSE 0]
    ELSE [agent EXCEPT !.index = 1, !.last = "NoPath", !.phase = "Blocked"]

\* submit_path_agents, then apply_path_agent_results, over prepared agents
Planned(prepared, scope, submitted, answers) ==
    Once([i \in Agents |->
        CASE i \in submitted -> Answered(prepared[i], answers[i])
          [] i \in scope /\ AtGoal(prepared[i]) -> IdleAgent(prepared[i].position)
          [] i \in scope /\ ~Outstanding(prepared[i]) ->
                [prepared[i] EXCEPT !.index = 1]
          [] OTHER -> prepared[i]])

\* The planning half that the tick drivers share, one result for every way the
\* searches may be answered: the agents and the fields they are about to move
\* over.
Plans(steps, exhaustion) ==
    LET prepared  == AllPrepared(steps, exhaustion)
        process   == pathing_dirty \/ NeedsProcessing(steps)
        scope     == IF process THEN InScope(prepared) ELSE {}
        submitted == {i \in scope : Outstanding(prepared[i]) /\ ~AtGoal(prepared[i])}
        arrived   == {i \in scope : AtGoal(prepared[i])}
    IN  {[agents   |-> Planned(prepared, scope, submitted, answers),
          routes   |-> Once([i \in Agents |-> IF i \in submitted THEN answers[i]
                                              ELSE routes[i]]),
          occupied |-> occupied,
          reserved |-> reserved,
          elapsed  |-> elapsed,
          halted   |-> FALSE,
          searched |-> submitted,
          flow     |-> LeaveOutstanding(
                           LeaveOutstanding(flow, "dropped",
                                Cardinality(GivenUp(steps, exhaustion))),
                           "completed", Cardinality(arrived))] :
            answers \in AllAnswers(prepared, submitted)}
------------------------------------------------------------------------------
\* Movement over such a state s.

NextTile(s, i) == s.routes[i][s.agents[i].index + 1]

WantsToMove(s, i) ==
    /\ s.agents[i].phase # "Idle" /\ s.agents[i].last = "Found"
    /\ s.agents[i].index < Len(s.routes[i])

\* validate_movement_intent
Verdict(s, from, to) ==
    IF from \in walls \/ to \in walls   THEN "Impassable"
    ELSE IF to \notin Neighbors[from]    THEN "NotAdjacent"
    ELSE IF to \in s.occupied            THEN "Occupied"
    ELSE IF to \in s.reserved            THEN "Reserved"
    ELSE "Moved"

\* Occupancy and reservations are retried on the retained step; other
\* transient failures drop the result; a structural one ends the lifecycle.
AfterFailure(s, i, status) ==
    IF status = "NotAdjacent"
    THEN [s EXCEPT !.agents[i].phase = "Unreachable", !.agents[i].last = "none",
                   !.flow = LeaveOutstanding(@, "dropped", 1)]
    ELSE [s EXCEPT !.agents[i].phase = "Blocked",
                   !.agents[i].last = IF status \in {"Occupied", "Reserved"}
                                      THEN @ ELSE "none"]

Advanced(agent, to) ==
    [agent EXCEPT !.position = to, !.index = @ + 1, !.phase = "Following",
                  !.retries = 0]

AfterMove(s, i) ==
    LET to == NextTile(s, i)
    IN  IF to = s.agents[i].goal
        THEN [s EXCEPT !.agents[i] = [IdleAgent(to) EXCEPT !.last = "Found"],
                       !.flow = LeaveOutstanding(@, "completed", 1)]
        ELSE [s EXCEPT !.agents[i] = Advanced(@, to)]

\* commit_movement_intent
Vacate(s, tiles) == [s EXCEPT !.occupied = @ \ tiles]
Enter(s, tiles) == [s EXCEPT !.occupied = @ \union tiles, !.reserved = @ \ tiles]

Stepped(s, i) ==
    LET from == s.agents[i].position
        to   == NextTile(s, i)
        verdict == Verdict(s, from, to)
    IN  IF ~WantsToMove(s, i) THEN s
        ELSE IF verdict # "Moved" THEN AfterFailure(s, i, verdict)
        ELSE AfterMove(Enter(Vacate(s, {from}), {to}), i)

\* advance_path_agents_with_movement: each agent takes its steps in span
\* order.  A refused step changes nothing that could let the next one pass.
SteppedEach(s, steps) ==
    LET upTo[k \in 0 .. Len(Starts) * steps] ==
            IF k = 0 THEN s ELSE Stepped(upTo[k - 1], ((k - 1) \div steps) + 1)
    IN  upTo[Len(Starts) * steps]

RoundOf(s) ==
    Once([i \in Agents |->
        LET from == s.agents[i].position IN
        IF WantsToMove(s, i)
        THEN [at |-> from, to |-> NextTile(s, i), retries |-> s.agents[i].retries,
              verdict |-> Verdict(s, from, NextTile(s, i)),
              reserved |-> NextTile(s, i) \in s.reserved]
        ELSE [at |-> from, to |-> from, retries |-> s.agents[i].retries,
              verdict |-> "Inactive", reserved |-> FALSE]])

\* Phase 5: every source clears before any destination is set.
Applied(s, outcome) ==
    LET admitted == {i \in Agents : outcome[i] = "Admitted"}
        moved == Enter(Vacate(s, {s.agents[i].position : i \in admitted}),
                       {NextTile(s, i) : i \in admitted})
        upTo[i \in 0 .. Len(Starts)] ==
            IF i = 0 THEN moved
            ELSE CASE outcome[i] = "Inactive" -> upTo[i - 1]
                   [] outcome[i] = "Admitted" -> AfterMove(upTo[i - 1], i)
                   [] OTHER -> AfterFailure(upTo[i - 1], i, outcome[i])
    IN  upTo[Len(Starts)]

\* advance_path_agents_with_joint_movement; a round without motion repeats
\* itself, so stopping after it is the same as going on.
SteppedJointly(s, steps, policy) ==
    LET upTo[k \in 0 .. steps] ==
            IF k = 0 THEN s
            ELSE Applied(upTo[k - 1], Admission(RoundOf(upTo[k - 1]), policy))
    IN  upTo[steps]

------------------------------------------------------------------------------
\* PIBT movement.

\* Mutant: an agent without a live goal keeps its priority
MutPriorityKept(s, i) ==
    IF s.elapsed[i] = ElapsedLimit \/ ~Outstanding(s.agents[i])
    THEN s.elapsed[i] ELSE s.elapsed[i] + 1

\* Adaptive priorities: ticks spent with a live goal, saturating.
Aged(s, i) ==
    IF ~Outstanding(s.agents[i])         THEN 0
    ELSE IF s.elapsed[i] = ElapsedLimit  THEN ElapsedLimit
    ELSE s.elapsed[i] + 1

\* The elements of seq that are in set, in order.
Among(seq, set) ==
    LET kept[k \in 0 .. Len(seq)] ==
            IF k = 0 THEN <<>>
            ELSE IF seq[k] \in set THEN Append(kept[k - 1], seq[k]) ELSE kept[k - 1]
    IN  kept[Len(seq)]

\* An agent's own tile and the legal neighbours nobody forbids, held by a peer
\* or by nobody, as the caller ranks them.
Candidates(s, i, oracle) ==
    LET at   == s.agents[i].position
        free == {t \in Neighbors[at] \ (walls \union s.reserved) :
                    t \in s.occupied => \E k \in Agents : s.agents[k].position = t}
    IN  Among(oracle[s.agents[i].goal], free \union {at})

PassOf(s, oracle) ==
    Once([i \in Agents |->
        [at      |-> s.agents[i].position,
         active  |-> Outstanding(s.agents[i]),
         stuck   |-> s.agents[i].position \in walls,
         options |-> IF Outstanding(s.agents[i]) THEN Candidates(s, i, oracle)
                     ELSE <<>>,
         retries |-> s.agents[i].retries,
         elapsed |-> s.elapsed[i]]])

\* A step along the retained route keeps it; any other drops the result, so
\* that the agent is planned for again.
Displaced(s, i, to) ==
    LET agent == s.agents[i]
        onRoute == /\ agent.index < Len(s.routes[i])
                   /\ s.routes[i][agent.index + 1] = to
    IN  CASE to = agent.goal ->
                [s EXCEPT !.agents[i] = [IdleAgent(to) EXCEPT !.last = "Found"],
                          !.flow = LeaveOutstanding(@, "completed", 1),
                          !.elapsed[i] = 0]
          [] to # agent.goal /\ onRoute ->
                [s EXCEPT !.agents[i] = Advanced(@, to)]
          [] OTHER ->
                [s EXCEPT !.agents[i] = [@ EXCEPT !.position = to, !.last = "none",
                                            !.phase = "Blocked", !.retries = 0]]

\* Phase 5: the configuration applies as a set.
Configured(s, pass, desired) ==
    LET movers == {i \in Agents : desired[i] # pass[i].at}
        moved  == Enter(Vacate(s, {pass[i].at : i \in movers}),
                        {desired[i] : i \in movers})
        upTo[i \in 0 .. Len(Starts)] ==
            IF i = 0 THEN [moved EXCEPT !.halted = (movers = {})]
            ELSE CASE i \in movers -> Displaced(upTo[i - 1], i, desired[i])
                   [] i \notin movers /\ pass[i].active ->
                         AfterFailure(upTo[i - 1], i,
                             IF pass[i].stuck THEN "Impassable" ELSE "Occupied")
                   [] OTHER -> upTo[i - 1]
    IN  upTo[Len(Starts)]

\* advance_path_agents_with_pibt; a pass that moves nobody ends the call.
PibtPass(s, oracle, policy) ==
    LET aged == [s EXCEPT !.elapsed = Once([i \in Agents |-> Aged(s, i)])]
        pass == PassOf(aged, oracle)
    IN  Configured(aged, pass, Decided(pass, policy))

SteppedByPibt(s, steps, oracle, policy) ==
    LET upTo[k \in 0 .. steps] ==
            IF k = 0 THEN s
            ELSE IF upTo[k - 1].halted THEN upTo[k - 1]
            ELSE PibtPass(upTo[k - 1], oracle, policy)
    IN  upTo[steps]
------------------------------------------------------------------------------
Commit(s, driver, swaps, steps) ==
    /\ agents' = s.agents /\ routes' = s.routes /\ elapsed' = s.elapsed
    /\ occupied' = s.occupied /\ reserved' = s.reserved /\ flow' = s.flow
    /\ pathing_dirty' = FALSE
    /\ unmarked' = (unmarked /\ ~pathing_dirty)
    /\ ticked' = [driver |-> driver, swaps |-> swaps, steps |-> steps,
                   searched |-> s.searched]
    /\ UNCHANGED <<walls, obstacles, edits>>

\* The policy the caller chose matters once somebody is exhausted.
Choices(steps) ==
    IF \E i \in Agents : Exhausted(agents[i], steps)
    THEN ExhaustionPolicies ELSE {"RemainBlocked"}

TickWithMovement ==
    \E steps \in StepBudgets : \E exhaustion \in Choices(steps) :
        \E s \in Plans(steps, exhaustion) :
            Commit(SteppedEach(s, steps), "each", "Forbid", steps)

\* With max_steps 0 the three drivers plan and move nobody.
TickWithJointMovement ==
    \E steps \in StepBudgets \ {0} : \E exhaustion \in Choices(steps) :
        \E s \in Plans(steps, exhaustion), swaps \in SwapPolicies :
            Commit(SteppedJointly(s, steps, swaps), "joint", swaps, steps)

TickWithPibt ==
    \E steps \in StepBudgets \ {0} : \E exhaustion \in Choices(steps) :
        \E s \in Plans(steps, exhaustion), oracle \in Oracles, swaps \in SwapPolicies :
            Commit(SteppedByPibt(s, steps, oracle, swaps), "pibt", swaps, steps)

Next ==
    \/ \E i \in Agents, t \in GoalTiles : SetGoal(i, t)
    \/ \E i \in Agents : ClearGoal(i)
    \/ \E t \in EditTiles, mark \in BOOLEAN : EditTerrain(t, mark)
    \/ \E t \in EditTiles : ToggleReservation(t) \/ ToggleObstacle(t)
    \/ TickWithMovement \/ TickWithJointMovement \/ TickWithPibt

Spec == Init /\ [][Next]_vars
------------------------------------------------------------------------------
Positions == {agents[i].position : i \in Agents}
Wanted(i) == routes[i][agents[i].index + 1]
Waits(i) == agents[i].phase = "Blocked" /\ HasNextStep(i, agents[i])

\* No two agents ever stand on one tile, and the occupancy field is set
\* exactly where an agent or an obstacle stands, whichever driver moves them.
\* (commit_movement_intent; joint_movement.h, phase 5.)
OneAgentPerTile ==
    /\ TypeOK
    /\ \A i, j \in Agents : agents[i].position = agents[j].position => i = j
    /\ Positions \intersect obstacles = {}
    /\ occupied = Positions \union obstacles

\* Every goal is accounted for once: through supersession, cancellation,
\* arrival in planning or in movement, and exhaustion, the accountant's
\* outstanding count is the number of live goals. (FlowCounters,
\* retention_identity_holds.)
GoalsConserved ==
    /\ RetentionIdentity(flow)
    /\ flow.outstanding = Cardinality({i \in Agents : Outstanding(agents[i])})

\* A retained route is the agent's own: its cursor is where the agent stands
\* and it ends at the goal, although a scoped pass replans others only.  As
\* long as terrain edits are marked, after the tick it still avoids every
\* wall, and a negative answer is still true. (path_agent.h, PathSubmitScope.)
PlansAreCurrent ==
    \A i \in Agents : Outstanding(agents[i]) =>
        /\ agents[i].last = "Found" =>
              /\ routes[i][agents[i].index] = agents[i].position
              /\ routes[i][Len(routes[i])] = agents[i].goal
        /\ ~pathing_dirty /\ ~unmarked =>
              /\ agents[i].last = "Found" =>
                    \A k \in agents[i].index .. Len(routes[i]) : routes[i][k] \notin walls
              /\ agents[i].last = "NoPath" =>
                    RoutesBetween(agents[i].position, agents[i].goal, walls) = {}

NobodyWaitsForNothing ==
    /\ \A i \in Agents : Waits(i) => Wanted(i) \in occupied \union reserved
    /\ \A ring \in SUBSET {i \in Agents : Waits(i)} :
          Cardinality(ring) >= 3 =>
              \/ {Wanted(i) : i \in ring} # {agents[i].position : i \in ring}
              \/ \E i, j \in ring : /\ Wanted(i) = agents[j].position
                                    /\ Wanted(j) = agents[i].position
              \/ \E i \in ring : Wanted(i) \in reserved

\* A joint round leaves nobody waiting for nothing: no blocked agent faces a
\* free tile, and no three or more wait around a ring for each other's
\* unreserved tiles; two that face each other are left to the swap policy.
\* (joint_movement.h, phases 3 and 4.)
QueuesDrain ==
    [][ticked'.driver = "joint"
          => NobodyWaitsForNothing']_vars

Swapped(i, j) ==
    /\ i # j
    /\ agents'[i].position = agents[j].position
    /\ agents'[j].position = agents[i].position

\* Ticks an agent has been refused since it last moved, this one's retry included
Streak(agent) == agent.retries + IF agent.phase = "Blocked" THEN 1 ELSE 0

\* A tick moves nobody onto a wall or a reserved tile and never pushes an agent
\* whose goal has ended, by priority inheritance either; and two agents trade
\* places in one round only as the swap policy says. (SwapPolicy; the rules of
\* start_deciding in pibt_movement.h.)
MovesObeyRules ==
    [][ticked'.driver # "none" =>
        /\ \A i \in Agents : agents'[i].position # agents[i].position =>
              /\ agents'[i].position \notin walls \union reserved
              /\ Outstanding(agents[i])
        /\ ticked'.steps = 1 => \A i, j \in Agents : Swapped(i, j) =>
              \/ ticked'.swaps = "Permit"
              \/ /\ ticked'.swaps = "PermitOnDeadlock"
                 /\ \A k \in {i, j} : Streak(agents[k]) >= DeadlockTicks
      ]_vars

\* What the documentation says of the default policy: an agent whose budget is
\* spent is left "without further automatic path processing" until the world
\* changes or its goal does. (docs/architecture/simulation.md, RemainBlocked.)
ExhaustedAgentsSleep ==
    [][\A i \in Agents :
        (/\ agents[i].phase = "Blocked" /\ agents[i].retries >= MaxRetries
         /\ ~pathing_dirty /\ ~unmarked) => i \notin ticked'.searched]_vars
=============================================================================
