# tess in TLA+

tess is a header-only C++20 library for deterministic simulations on 2D and 3D
grid worlds: chunked storage, queued operations with a planner and executors, a
tick schedule, path search with its caches and region graph, path agents with
several movement tiers, maintenance of derived data, and a delta stream for
renderers. This directory holds TLA+ models of the parts of it that carry state
across operations, the TLC configurations that check them, and TLAPS proofs of
their main invariants and of three refinements. Paths below are relative to `src/include/tess/` unless
they start with `src/` or `docs/`.

To check one run: `tlc -workers 2 -config MCAsyncTask.cfg MCAsyncTask`. To check
one proof module: `tlapm AutoExecProofs.tla`. `PROJECT.json` lists the runs, the
mutant that shows each property can fail, the source lines of every
definition, the hazards and the theorems.

Contents: 1 the system, 2 the modules and the code, 3 the runs, 4 fairness,
5 findings, 6 proofs, 7 what is only model-checked, 8 what is not modelled,
9 the plan.


## 1. The system

### Components, their state and what is hard about them

| Component | State | Operations | What is hard | What makes it correct |
|---|---|---|---|---|
| Worker pool (`ops/phase_executor.h`) | a job and its epoch under a mutex, two condition variables, `next_offset_`, `cancelled_`, `finished_`, the result slots | construct, `execute_phase`, destroy; the worker loop | interleavings of caller and workers, lost and spurious wakeups, exceptions beside running callbacks, thread creation that fails half way | a call joins its callbacks, runs each operation at most once (exactly once on success), reports the first failure of its own dispatch, and returns |
| Sparse world (`storage/sparse_world.h`) | chunk directory, intrusive LRU list, two swap-removed arrays, free list, generations, metadata columns | materialize, touch, evict, handles, marks, observations | five structures that one operation must repair together; reuse of slots under stale handles and observations | the structures agree, eviction takes the least recently used chunk, no handle or observation is accepted for a chunk it did not see |
| Chunk metadata (`storage/chunk_meta.h`) | dirty masks and bounds, content and topology versions | mark, clear, observe, clear-if-unchanged | clearing by an observer while another marks | nobody's mark is cleared unseen; bounds cover marks |
| Chunk directory (`storage/sparse_world.h`) | direct array, or open addressing | reset, find, insert, erase | backward-shift deletion across the wrap | lookups agree with the map |
| Delta frames (`sim/delta_frame.h`) | pending records, coalescing slots, poison flags, version chain; the consumer's presentation | record, collect, baseline, publish, clear, reserve, move, apply | missed frames, overflow, moved collectors, coalescing across barriers | a consumer that accepts a frame ends up showing the world, or what it lacks is still on its way |
| Resumable work queue (`ops/async_work.h`) | slots behind generation-stamped tickets; flow counters | submit, advance, settle, retire, clear | continuations that throw or over-report in the middle of a pass; late answers | every item ends in one bucket; tickets name one item for ever |
| Tick schedule (`sim/schedule.h`) | per task: triggers, request, countdown, enabled | dispatch a tick, notify, request, enable | throwing callbacks, bits raised during a run, disabled tasks | cadences stay on the tick, triggers are served and neither lost nor invented |
| Planner, result channel and auto-exec task (`ops/queued.h`, `ops/result_channel.h`, `sim/auto_exec.h`) | a batch, a plan in phases, per-operation answer slots, dirty masks | enqueue, run, drain with follow-ups | concurrency within a phase, throwing kernels, domains that depend on dirty bits | phases equal serial execution, every write is marked, every operation is answered truthfully |
| Path agents and movement tiers (`sim/path_agent.h`, `path_agent_tick.h`, `movement.h`, `joint_movement.h`, `pibt_movement.h`) | agents, retained routes, adaptive priorities, occupancy and reservation fields, flow counters | goals, planning passes, three movement drivers, terrain edits | simultaneous moves, stale routes in scoped passes, retries racing exhaustion, inherited turns and backtracking | one agent per tile, every goal accounted for, plans current, queues drain, swaps only by policy |
| Path search (`path/`, `topology/transition_model.h`) | per query: two stacks or a heap, labels, distance fields | unit and weighted A*, goal-rooted floods, batches that share a field | shortcuts, two-band frontiers, overflow and missing chunks beside a dead end | a route found is legal and cheapest, a failure is a proof |
| Caches and the path runtime (`path/route_cache.h`, `field_product_cache.h`, `portal_*.h`, `path_runtime.h`) | entries keyed by class and chunk versions, budgets, tickets and results of a batch | look up, store, evict, refresh; a pass over a batch | staleness, entries that outlive edits, passes that throw half way | what is served or replays is what a fresh computation would say, up to the staleness the mode allows |
| Region graph (`topology/`, `path/precheck.h`) | regions and portals per chunk, stamps | full and incremental builds, reachability, precheck | edits that renumber regions under the neighbors' portals, residency changes, a provider with state | a graph that reports fresh equals a full build; a verdict of unreachable is true |
| Maintenance (`maintenance/`, `experimental/`) | a registry of tasks with handles, four backends, one product per chunk slot | register, offer, drain, release; bind, mark, run | producers that overlap a drain, nested offers, throws, budgets, chunks that come and go | accepted work is run, retained or reported; Idle and release are given only when nothing is retained; a product called current is |
| Persistence, ECS and GPU adapters, diagnostics panels | encodings, mirrors, devices | - | outside the library's own state | - |

### How the components interact

- The application calls everything; there is no event loop of the library's own.
  Concurrency enters at two places: `execute_phase` of the worker pool, which the
  planner's plans are run with, and `try_schedule` of the registered
  maintenance scheduler, which producers call beside a drain. Everything else is
  single-threaded and externally synchronised.
- A **schedule** tick calls task callbacks. One of them may be an
  **auto-exec task**, which asks the **planner** for phases, runs each phase on an
  **executor** (serial, scoped threads, or the **worker pool**), merges the
  produced dirty masks into the **world** at the phase barrier, and drains the
  **result channel** through a hook that may enqueue new operations. Another may be
  an async-work task that advances a **resumable queue**.
- Dirty marks and content versions on chunks are the shared state between writers
  and consumers: the **delta collector** turns marks into records and clears
  them, dirty domains of queued operations and the **chunk maintenance adapter**
  read them, route caches, field products, portal segments and the **region
  graph** compare versions.
- The **path runtime** binds its three caches to a movement class, asks the
  region graph which requests need no search, and gives what is left to the
  searches. Path agents submit to it and apply its answers.
- **Path agents** commit movement into the occupancy and reservation fields of
  the world, mark chunks dirty and report flow; ECS adapters mirror the commits.

### Where the hazards are

The hazards of `PROJECT.json` name the line where each bites and the properties
that would catch it. The two without one say why.


## 2. The modules and the code

A module without `MC` in its name is a component; an `MC` module gives its
constants values and adds what only the instance needs (symmetry, views,
scenes); `*Proofs` modules hold theorems. Several components share a run through a
variable `scene` (or `part`): a behaviour is about one of them and leaves the
others alone, so that a run covers each without their product.

### Worker pool: `WorkerPool`, `PhaseContract`

`WorkerPool` models `WorkerPoolPhaseExecutor` thread by thread. A critical
section of `mutex_` is one action; every atomic access outside it is one action;
`condition_variable::wait` is a release with a sleep and a wake-up, spurious
wake-ups included; `notify_one` wakes one sleeper if there is one. A callback
is three steps (claim, invoke, return or throw), so that a call can be seen
returning around it. Construction creates one thread at a time and any creation
may fail; destruction may come whenever no call is in progress, and the misuse
that the code answers with a fail-fast (a second dispatch or a nested one during a
call) ends the process. `job`, `job_epoch`, `next_offset`, `cancelled`, `finished`,
`active_workers`, `results` are the members of the same names; `pc` and `local`
are a thread's place and its locals.

`PhaseContract` is what any phase executor promises: between `Call` and `Return`
each operation starts at most once; success needs all of them executed, failure
names the first failed offset of this call, an exception comes from a callback of this
call; nothing runs when it has returned. `ImplementsContract` maps the pool's
results, in the current epoch, to the contract's operation states.

### Storage: `ChunkMeta`, `SparseWorld`, `ResidentSet`, `ChunkDirectory`

`ChunkMeta` has the metadata helpers as operators on one chunk's record.
`SparseWorld` keeps every structure of the sparse world as a variable and one
action per public operation (materialize with eviction, touch, evict, marks,
clears, observations). Its directory is the partial map; `ChunkDirectory`
models the two representations of that map, with an arbitrary hash: a probe is the first
bucket round the table that is free or holds the key, and the loop of `erase` is a recursive function
of the buckets it has looked at. `ResidentSet`
is the abstract residency policy, a least-recently-used set with generations that are never
repeated; `ImplementsResidentSet` is the refinement.

### Delta stream: `DeltaFrame`

The collector, the world it observes and one consumer. Chunk records and entity
records are the two halves; the poison flags (`needs_baseline`,
`moved_from`, `pending_truncated`, `baseline_pending`) decide what
`publish` says. A published frame may be applied or missed; the consumer can
restart. The history variables are the consumer's stale chunks and its picture
of the entities. `MovesWithBaselinePending` admits the one call order of
finding 1.

### Schedule and resumable work: `Schedule`, `ResumableQueue`, `AsyncTask`, `ResultLifecycle`, `FlowAccounting`

`Schedule` has one action per task outcome in a tick: passed over, started,
finished, thrown. Owner calls (notify, request, enable) come between ticks or from
the body of the running task, as the code allows. `owed`, `owed_run` and `served`
are history.

In `ResumableQueue`, `advance()` is a pass with a cursor and a remaining budget;
each continuation's reply is one step, so throws and over-reports fall between
slots. `FlowAccounting` holds the counters of `diagnostics/diagnostics.h` with
their retention identity and tick-weighted inventory; `PathAgents` uses it too.
`ResultLifecycle` is the life of one ticket, and `ImplementsLifecycle` says that
every ticket a client can hold follows it.

`AsyncTask` composes the two: `sim/async_work_task.h` makes a pass of the queue the
callback of a Background task, which stays in progress while the queue has
pending work. Its scenes are a schedule whose tasks do what `Schedule` allows, the queue
behind task `Adapter`, and a queue that its owner advances.

### Queued operations: `QueuedPlan`, `AutoExec`

`QueuedPlan` is the planner as pure operators: validation, expansion of domains,
rejection of hazards, grouping into phases. `AutoExec` runs a plan. A chunk is the
sequence of the operations that wrote it and a visit is a read followed by a
write, so that two operations on one chunk in one phase would lose an update visibly.
Phases on the pool start operations as `PhaseContract` allows, which is the
interface between this module and `WorkerPool`. `MCSparseWorld` gives it chunks and templates.

### Agents: `JointMovement`, `PibtMovement`, `PathAgents`

`JointMovement` is the admission of one joint round as pure operators:
claims in span order, chains to a fixpoint, rotations, swap policies.
`PibtMovement` is one decision pass of the PIBT tier: the explicit stack of
agents that lent their turn, claims, tentative desires, backtracking. `PathAgents`
holds the agents, their retained routes and priorities, and one action per tick driver, each of
them the whole handler: retry budget and exhaustion, the scope of the planning pass,
submission, the answers applied, movement, accounting. A search answers with any simple
route over passable tiles, or with none when there is none. The tick's
`max_steps` rounds are part of the action. The application's steps are goals,
cancellations, terrain edits with and without the required mark, reservations
and obstacles; the PIBT ranking is any order of preference per goal that the
configuration names.

### Search: `Grid`, `TransitionModel`, `DistanceFields`, `PathSearch`

`Grid` is the static shape of a world and the reference for what searches must
return: walks enumerated one by one. `TransitionModel` gives the steps a movement
class may take out of or into a tile (faces, hex and diagonal steps with their corner
rules, provider edges), their prices and what is unknown because a chunk is not
resident. `DistanceFields` has the goal-rooted floods, the bucket flood that may stop early
and the reader that descends a field. `PathSearch` is one query from its
validation through the shortcuts to the pops of the open list, one pop per step;
it also puts a query in a batch that shares a field by goal, or to a field in a
box. The history variable `truth` holds the least costs by relaxation. The searches share a run with
the maintenance models (`MCMaintenance`).

### Caches: `GridWorld`, `RouteCache`, `FieldProducts`, `PortalRoutes`, `PathRuntime`

`GridWorld` is the always-resident world as searches see it: terrain, and content
versions that an edit bumps. The three caches are one module each, over that world,
with their lookups, stores, retirement, eviction and binding as actions.
`PathRuntime` is a batch of requests with tickets, and the unit and the weighted
pass that answer it out of the caches, stage by stage, with a throw at the stages
`ThrowStages` names. `PathRuntime` also puts a scene of each cache alone on one world.

### Topology: `RegionGraph`

Local regions, portals, stamps, full and incremental builds (with exceptions from
the provider in between), reachability, coarse paths and the precheck. `MCSparseWorld`
instantiates it over a building of four storeys with stairs and a gate.

### Maintenance: `RegisteredMaintenance`, `ChunkMaintenance`

`RegisteredMaintenance` is the scheduler of `experimental/registered_maintenance.h`
over the four backends of `experimental/maintenance.h`: setup, offers from
producer threads (one atomic or critical section per step), drains with budgets,
frames of nested runs, throws and stalls, Idle evidence, release. `ChunkMaintenance`
is the adapter over it: one product per chunk slot of a dense or sparse world, rebuilt
when owned dirty bits say so, with marks during a rebuild, debts, rebinding and
external loads. A product is what the callback read: the content of a chunk in
one of its residency intervals.


## 3. The runs

Twelve runs, of which five expect a violation (section 5).

| Run | Bounds | What it shows |
|---|---|---|
| `worker_pool` | 2 workers, 1 caller, 2 dispatches of 1 or 4 operations in strides of 2 (`RunsPerWorker` 1; 4 in the source) | no callback outlives its call, no result of an earlier dispatch is read, the pool implements `PhaseContract`; every call returns, shutdown and failed construction join every worker |
| `sparse_world` | world: 3 slots, 4 keys, 4 materializations, 3 metadata edits of one key, 1 observer; directory: 4 keys, up to 4 buckets, every hash; graph: 16 tiles in 4 chunks, 3 changes, two classes; auto-exec task: 2 chunks, 5 kinds of operation, 4 operations, 1 throw, the pool from 2 operations on | the structures agree and the list is the order of use, accepted observations are fresh, handles never revive, refinement of `ResidentSet`; directory lookups agree with the map; a fresh graph equals a full build and the precheck rules out no route; phases equal serial execution, writes leave marks, no operation is lost, answers are true |
| `delta_frames` | 3 chunks and room for 3 records, versions to 5; 1 entity, 2 tiles and room for 2 records, versions to 3 | a synchronised consumer's stale chunks are dirty or pending; no transition is lost or reordered by coalescing; a moved-from collector's empty frame is refused |
| `schedule` | 7 tasks of every cadence, two that throw, ticks modulo 3; 2 queue slots per generation, 2 generations, 3 submissions (2 behind the adapter), budgets 1 and 2, one Pending reply or throw per continuation | countdowns stay in lockstep, triggers are neither lost nor invented and are served, the adapter stays armed; every item is counted once, inventory is residence, tickets follow `ResultLifecycle`, pending work settles |
| `path_agents` | 3 agents on a triangle with a tail, 4 sets of first goals, 1 edit, 0 to 2 steps per tick, 1 retry, 2 rankings, priorities saturating at 2 | occupancy is exact, goals are conserved, plans are current, joint rounds drain, moves obey the rules, whichever driver runs which tick |
| `path_caches` | 3 by 2 tiles of one chunk each, whose middle column is edited; routes: 2 edits, epochs to 2, caps 1 and 3; products and portals: 1 edit, budgets for 1 and 2 entries, 0 and 2 segments; portals on three grounds, with no waypoint or one; runtime: 2 passes in 7 policies, batches of 1 and 3 requests, 1 edit, 1 clear, a throw at stage 3 | indexes and budgets agree with the entries; what is served, replays or is published is legal and priced as a fresh computation would price it, up to the staleness the mode allows; a replayed failure is what building again would report, but for finding 5 |
| `maintenance` | 2 tasks, 2 producers, a queue of 1, drains of 1 or unbounded, 3 handles, 2 accepted offers before the last ones begin; adapter: 3 chunks over 2 slots, 2 marks, 1 transition; searches: a field of 5 by 3 tiles of one chunk each, all 512 closings of the three inner columns for the unit search; for prices, six transition models over the chosen columns, dense and sparse, both missing-chunk policies, starts and goals in a missing chunk, sealed off from the rest or not; alone, in a group, or of a field in a box | accepted and marked work is run, retained, owed or reported; release cancels nothing; products called current are; a found route is legal and cheapest, a failure is a proof, an endpoint is blamed for what it is (but for finding 4), a closed tile is final and the two stacks hold exactly f and f + 2 |
| `delta_moved_baseline` | 2 chunks, moves while a baseline is pending | finding 1 |
| `exhausted_sleep` | the world of `path_agents` | finding 2 |
| `diagonal_route` | the portal scene of `path_caches`, one class with clear diagonals | finding 3 |
| `grouped_start` | the searches of `maintenance` | finding 4 |
| `replayed_failure` | the portal scene of `path_caches` | finding 5 |

Why the bounds are enough to be interesting: the pool needs two workers for every
race of its job loops; four operations in strides of two leave each worker a run
of its own, one operation leaves a worker without any; two dispatches let a worker
that wakes late meet a call that is not its own. A second caller differs from the first
only when the calls overlap, which ends the process. Three slots are the least in which
a list has an inner node and a swap-removal moves somebody else; four keys make
eviction necessary. Four keys in four buckets wrap and collide in every way a
cluster of three can. Three chunks in three records overflow on the second
collection of one frame. Seven tasks put a counted task on either side of one that throws;
the third submission to the queue is one that finds both slots used. The
triangle is the smallest graph with a rotation and alternative routes; with the
tail it has a queue, a dead end and a head-on pair. In the portal scene an edit may close or open the goal and
the tile that the lower way leads through, one ground has the goal closed from the start and one leaves the start no
way out but that tile, and the waypoint makes a second leg.
The search field is the smallest whose
inner columns can hide the goal from both sides, and `Infinite` (24) lies two expensive
steps away, so that prices saturate as at 2^32 - 1. In the cache runs a chunk is a single tile,
so that a detour depends on other chunks than the route it replaces; one edit
invalidates, two close and reopen. In `maintenance` a queue of one refuses
every second offer, and two producers are what Idle's double look has to exclude.

Some bounds are constraints on an order rather than on a count. Under
`EditsEndEarly` (`sparse_world`) a behaviour with edits makes one materialization
less than a behaviour without. `OneHalf` (`delta_frames`) keeps chunk
and entity records apart; the theorems of section 6 do not. Runtime edits and clears come
between passes, because a pass is one call of a single-threaded object.

Symmetry is declared only for sets whose members no definition tells apart, and
not in runs that check liveness. Three components share no state with anything in the run they are in: the region graph and
the auto-exec task in `sparse_world`, the searches in `maintenance`. A behaviour is about one of them,
so nothing is lost by not taking products. Two runs have views. `path_agents` leaves
out `ticked`, which is written in every step and read only by action properties of
that step. `maintenance` keeps of the adapter's epochs only which of them are current,
since the code compares them for equality alone.

`CHECK_DEADLOCK FALSE` appears in `schedule` and in the runs of `MCPathCaches`, where the bounds on
items, edits and passes let the application simply stop. In `maintenance` the owner and the producers may stop at
any point (`Rested`), so there a deadlock is one of a search; in `sparse_world` the application may
leave the auto-exec task only between its runs, so a run stuck half way is a deadlock.


## 4. Fairness

- `worker_pool` (`FairSpec`): weak fairness of every worker's and caller's
  step and of the joining destructor. It is what an operating system scheduler
  gives a runnable thread; a sleeping thread is not runnable until notified or
  woken spuriously, and spurious wake-ups are not assumed to happen. No call has to be
  made and nothing has to be destroyed.
- `schedule` (`SceneLiveSpec`): ticks go on, a tick visits its tasks, a pass
  that has begun goes on, and callbacks that do not throw return (weak). A task whose call
  may throw is not assumed to throw every time (strong fairness of an ordinary
  return), because a task that always throws blocks everything behind it and the
  code promises nothing else. In the queue's own scene the owner calls `advance` with a positive
  budget again and again (strong, because other owner calls may be interleaved):
  the code leaves that duty to its owner. Replies other than a settling one are bounded, since a
  continuation may refuse for ever.

The fairness conditions are conjunctions over the scenes, each condition naming
the scene it is about; a scene never changes, so the others hold vacuously.


## 5. Findings

1. **A moved-from collector can publish an applicable empty baseline**
   (`delta_moved_baseline`; `sim/delta_frame.h:543`). The defaulted move copies
   `baseline_pending_` and empties the record vectors. The source's next frame is
   then a baseline, not truncated, without records: every consumer adopts its
   version and repaints nothing. The comment at `sim/delta_frame.h:312-315`
   promises a truncated frame. The other delta run excludes that call order by
   `MovesWithBaselinePending = FALSE`; the chunk theorems name it as their proviso,
   the entity theorems hold without it.
2. **Exhausted agents do not sleep** (`exhausted_sleep`; `sim/path_agent.h:238`).
   An agent left `Blocked` with its retries spent and no retained route is
   searched for again whenever any other agent causes a pass, although
   `docs/architecture/simulation.md:498-499` says it is left "without further
   automatic path processing".
3. **A cached diagonal route outlives the corner it cuts** (`diagonal_route`;
   `path/path.h:1907`). Weighted route products and portal segments remember the
   chunks of their path only, while a diagonal step also reads its corner tiles.
   After an edit closes a corner in another chunk, the product still replays an
   illegal step; `docs/tdd/lattice-and-transition-model.md:950` says that such an
   edit invalidates it.

4. **A group answers for a start it cannot see** (`grouped_start`;
   `path/detail/weighted_batch.h:671`). When the flood of a group of weighted requests
   answers `Found`, each member gets what the field's reader says, and that is `InvalidStart`
   for a start in a missing chunk (`:317-326`), also under `ReportIndeterminate`, where the same
   request alone is answered `Indeterminate` (`path/detail/astar.h:800-812`). The comment at
   `weighted_batch.h:675-678` says that grouping cannot weaken or strengthen a per-request
   status. `AnswersAreExact` requires the status that the request earns by itself, and excepts this case
   alone (`StartIsUnread`).
5. **A failure of a later leg outlives the legs before it** (`replayed_failure`;
   `path/path.h:1972`). A route over waypoints that fails with `InvalidGoal` on a later leg remembers
   the chunks of that leg's endpoints only. After an edit has closed the way of an earlier leg the
   product still replays `InvalidGoal`, where building again reports `NoPath`. The
   comment at `:1970-1971` claims the contract of single routes, by which "a replayed failure must be
   invalidated by any edit that could change the answer" (`:1913-1914`). `ReplaysAreTrue` compares
   every other replayed failure with what building again would report.

Observations without a run of their own, met while the definitions were translated:

- A route cache that flips to scoped mode, or is used first with
  `invalidate_unit_route_cache_on_world_change` off, has no baseline of versions
  (`path/route_cache.h:224-232`, `:262-290`), so entries stored then survive the first refresh after an
  edit, contrary to `route_cache.h:18-21`.
- With `max_steps` 2, PIBT can move an agent off its route and back in one call and leave it
  `Following` without a result (`sim/pibt_movement.h:576-590`);
  `docs/architecture/simulation.md:394` describes `Following` as walking a `Found` route.
  `PlansAreCurrent` speaks of agents whose last result is `Found`.
- On a dense world a tile opened since a field was built makes
  `distance_field_path` say `NoPath` from the stale field, where `path/path.h:2168-2171`
  promises `NotComputed`.
- A field product that an appending store moved from keeps its status `Found`
  without goals, and can be stored again (`field_product_cache.h` says "left EMPTY").
- Route and segment products do not record the `cost_scale` they were priced with.
- `StairTransitions` reads the chunks of its foot's face neighbors
  (`topology/transition_provider.h:198-249`) although its comment says that it reads its own only.
- The dirty-word backend serves the lowest task first, so under a small budget a low
  task that offers itself again can starve a higher one.
- After `reconcile_residency` the products of clean chunks become Unavailable, and
  a `retry()` of one is accepted and rebuilds nothing (`experimental/chunk_maintenance.h`, `run_slot`).


## 6. Proofs

TLAPS proves the following for every value of the constants that satisfies the
modules' named assumptions. Each theorem `Spec => []P` rests on an inductive
invariant, which TLC checked on an instance before it was proved.

**`WorkerPoolProofs`.** `PoolInvariant`, `TypeCorrect` and `CallbacksJoined` (no worker
holds the callback of a call that has returned). `NoCallbackAfterReturn` alone is
not inductive: that the caller may return only when `active_workers = 0` helps only
if `active_workers` counts the workers in a job, and a worker's copy of the job
must be the current one as long as the call lasts. `PoolInv` adds both, together
with the exclusion of a second dispatch. The proof assumes a finite set of workers.

`ContractInvariant` goes on from there to what the atomics do: the runs handed out by
`next_offset_` do not overlap, a worker's run is written up to its position and
untouched after it, `finished_operations_` is the number of written operations in nobody's
run, and a recorded exception has an operation that threw. From it
follow `ResultsAreOfThisCall` (a call that returns without an exception reads only results
of its own dispatch) and `PoolKeepsContract`, the refinement of `PhaseContract`,
one lemma per group of actions: the claim is a stutter, the invocation a `Begin`, the
record an `End`, and the critical section that releases the caller is its `Return`.

**`SparseWorldProofs`.** `WorldInv` is `StorageInv` (each sequence lists its slots
once; the intrusive list is linked both ways along `order`; positions point back; free and held
slots partition the slots; the directory is a bijection onto the held ones) with
`MetaInv` (generations come from the clock and are never repeated; what an
observer saw is not ahead of its chunk). `StorageInvariant`,
`ObservationsAreFresh` and `HandlesStayRefused` follow. `WorldRefinesResidentSet` reads the order of slots as the
order of keys: an eviction takes the head of the list, which is
the least recently used key, and only when every slot is held.
`PositionsAssumption` (`Positions \subseteq Nat`) is the only assumption beyond the shapes of the constants.

`DirectoryInvariant` and `DirectoryIsExact` are about the directory, for any finite key space,
capacity and hash. `DirectoryAgrees` alone is not inductive: that lookups are right now does not say that they are
right once a bucket is emptied. `TableOK` adds that the occupied buckets hold each entry once and that
every bucket between an entry's home and the entry is occupied; that the table has more buckets than the
capacity (`TableIsLarger`) leaves a free one for a probe to end at. The loop of `erase` has an invariant of its own
(`Shifting`): the table is right but for the hole, and no entry that was looked at lies behind the hole as
seen from its home, so the hole may be emptied when the loop meets a free bucket.

**`DeltaFrameProofs`.** The chunk half: `ChunkInvariant`, `NoUpdateLost` and
`MovedFromRefused`, for any number of chunks and any capacities, provided that no
collector is moved while a baseline is pending; for the last there must be a
chunk. `StaleChunksAreCovered` speaks of the present only. What makes it inductive is where a
frame in flight can lead: it ends at the current version, an untruncated
baseline carries every chunk, and the frame that is live carries what its consumer lacks.
The entity half: `EntityInvariant` and `NoTransitionLost`, without the proviso. Coalescing
in place is sound because an open slot points at the last record of its
entity since the barrier (`SlotsPoint`) and last records end where the entities are
(`RecordsAreCurrent`); a record is dropped only when there is no room, which lasts as long as
the memory of it (`pending_truncated`).

**`AsyncTaskProofs`.** The schedule alone: `ScheduleInvariant`, and from it `CountdownsInLockstep` and
`TriggersAccountedFor`, for every set of tasks, periods, subscriptions and throwing
callbacks. The countdown of a task that has yet to be visited lags by one tick,
so lockstep is stated over `TicksCounted`; its arithmetic is in
`CountdownFollowsTick` and the remainder lemmas. What is owed to a task (raised since it
last finished work on it) equals what is pending or in the hand of its running callback. The assumptions ask that every
task's period divides `TickModulus`, the modulus at which the model wraps the tick counter.
The scenes: `SceneInvariant`: the schedule's invariant, the books', the tickets' and the
armed task's, in every scene. `BooksBalance` proves `FlowConserved` with its
form of Little's law: the tick-weighted inventory equals residence plus what
still waits. It sums over slots, so the totals are recursive functions over
naturals, and their lemmas are proved from the least counterexample
(`LeastNumber`, `BoundedInduction`), because the library's induction
theorems cannot be instantiated here. `TaskStaysArmed`, `CadencesKeptInScenes` and `TriggersKeptInScenes` are the
schedule's guarantees with a queue behind a task; `ResultsSettleOnce` is the refinement of
`ResultLifecycle` for every ticket a client can hold.

**`RegisteredMaintenanceProofs`.** `MaintenanceInvariant`, `NothingAcceptedIsLost`, `ReleaseIsSafe`, for any
registry, backend and set of producers. `in_flight_schedules_` counts the
producers inside `try_schedule` (`CallsAreCounted`); frames have an owner
(`FramesHaveAnOwner`); and whoever concludes Idle has looked at the backend
after a moment without producers, so that one who came in since must have moved the
activity counter (`Vouching`, `Vouched`, `Caught`). Handles are unique because
generations only grow.

`ChunkInvariant`, and from it `NothingMarkedIsForgotten`, `CurrentProductsAreTrue` and
`AdapterReleaseIsSafe`, say the same of the adapter's scenes and of what the adapter adds, for
any chunks, slots, owned bits and residency transitions. The adapter is one of the
scheduler's clients, so each of its actions is a scheduler step or leaves the scheduler alone
(`CallsAreSteps`, `SchedulerBelow`; `MaintenanceStep` is the scheduler's next-state relation without the bound on
`activity`), and `MaintenanceInv` comes for free. `AdapterInv` says the rest:

- a slot has one chunk and residency intervals are never reused (`ResidencyIsUnique`);
- an offer or a drain in progress belongs to the adapter call in progress (`CallsAreNested`), and
  frames and their `run_slot`s are paired (`FramesHaveBodies`);
- a `run_slot` that will publish read its slot in this residency, at the version it
  observed or later, and a mark that came after it looked has made that version an old one (`BodiesHold`);
- a token of this residency names a version the product has (`ProductsHold`), which
  makes a product Current only when it is exact;
- what is unread is pending, framed, in debt, about to be read, being offered, or its
  caller was told (`UnreadIsAwaited`), and evidence of Idle leaves nothing of these (`IdleIsTrue`).

`MarkedWorkIsOwed` and `ProductsAreTruthful` alone are not inductive: neither says what a
rebuild in progress has seen, which is what decides between a mark before and a
mark during the callback. Actions that only advance versions or set dirty bits keep the
invariant for one reason (`Mild`, `MildKeeps`), and so do those that give a slot to another
residency (`Moved`, `MovedKeeps`).

**`AutoExecProofs`.** `AutoExecInvariant`, and from it the four properties of the run,
`PhasesEqualSerial`, `WritesAreMarked`, `OperationsAreKept` and `AnswersHold`, for any chunks,
operation templates, executor and number of throws. `AutoExecInv` has eight parts: the
batch carries fresh ascending ids; the plan is what `PlanOperations` makes of
the batch; earlier phases have executed and later ones have not begun; slots mirror that
progress; an operation is unsettled while the batch owns it or the drain has not reached it; every
write is marked or its writer recorded; an operation that wrote is in the run or
answered; and a chunk whose writers up to the n-th are just the finished ones holds what
serial execution of the first n operations leaves in it. Why phases may run in any
order inside: the writers of one chunk conflict, so `PhaseOf` puts them in different
phases, in plan order (`WritersAreOrdered`). Plan, phases and serial execution are recursive
functions; that they are well defined on the naturals they are used for is shown
from the least counterexample (`IterationExists`, `PhasesExist`).


**`PathAgentsProofs`.** `PathAgentsAreSound`, and from it `AgentsStandApart`,
`GoalsAreConserved`, `PlansStayCurrent` and the action property `MovesAreLegal`, for any finite world,
span, ranking, policy, budget and number of steps per tick. A tick is one action that
plans and then moves in rounds, so the argument has two levels. Between
ticks `PathAgentsInv` holds: an agent and its retained route agree
(`FitsRoute`: the cursor stands where the agent does, the route ends at the goal, and what is left
of it avoids the walls while terrain is marked), everybody is placed on a tile of its own
(`PlacedAt`), and the accountant counts the live goals (`CountedIn`). `PlansAreCurrent`
alone is not inductive: nothing in it keeps the cursor within the route, and an agent that
was given up must not come back with an old result. Inside
a tick the same facts are kept of the state being worked on (`Sound`), and `Reaches` records what the tick has done so
far: who moved had a live goal and entered neither wall nor reservation. Each driver
keeps both through every round:

- agent by agent, one validated step at a time (`EachSound`);
- jointly (`AppliedSound`), because `AdmissionSafe` gives each admitted move a tile of its own, free or
  vacated by another admitted move. Phases 1 to 3 keep `Settles`, whose point is that two
  admitted moves never face each other; so whatever exchange there is comes from phase 4, where
  the cycle through an agent visits each member once (`CycleFacts`);
- by PIBT (`PibtPassSound`), because `DecidedSafe` says the same of desires. The machine's
  invariant (`MachineInv`) says that two binding desires coincide only while the waiting agent on top
  is being told that its peer found no place (`Apart`), that only the agent which lent its turn desires the
  tile of an agent on the stack (`Lent`), and that a desire is claimed, or is the own tile of an agent without a live
  goal, reached when everybody with one had decided (`Backed`). `DecidingEnds`
  shows that it stops: every step lowers the sum of what each agent has left to try, and `MostSteps` is that
  sum at the start.

Moves that apply as a set keep everybody apart for one reason, stated once for both drivers
(`ExchangePlaces`, `SpanFold`). Simple routes, answers, sums and the drivers' loops are recursive
functions; the first part of the module unfolds each of them.

**`PathProofs`, route cache.** `RouteCacheInvariant`, and from it `RoutesServedAreTrue`, for any
grid, movement class, provider edges, requests, edits and caps. The reference `PathsVia` enumerates paths
by a fold; they are shown to be the walks without a repeated tile (`PathsAreSimpleWalks`), so that a
suffix of a route is a route (`SuffixIsRoute`) and a suffix of a shortest one is shortest
(`SuffixIsShortest`, by cutting the loops out of a shorter walk). `RouteInv` says of each entry what entitles
the cache to serve it: in exact mode under the present baseline, or in scoped mode in the present epoch without
dependencies, it is fresh (`FreshWhile`); otherwise its dependencies name every chunk of its path, and it is
open while their versions stand (`LegalWhile`), and shortest unless some tile was opened. `ServedRoutesAreTrue` alone
is about the last answer and says nothing of what the cache may answer next. Edits
keep it because they advance the version of the edited chunk and none ever
goes back.

**`PathProofs`, search.** `SearchInvariant`, and from it `ClosedTilesAreFinal`, for any grid,
transition models (lattice, steps, costs, provider edges), field, residency, query and prices that
`SearchAssumption` and `TransitionAssumption` admit: what `astar_path` and `weighted_astar_path` close they
have reached at the least cost, a route that a search finds costs the least, and a search that exhausts its
frontier had no route to find. Three lines of argument meet:

- The heuristic never falls by more than a step costs, whichever the lattice and whichever the
  provider edge (`ProbeIsGood`), and over faces at unit cost each step changes it by exactly one
  (`OverFaces`). This is where `Straight <= Oblique <= 2 * Straight` is needed (10 and 14 in the code).
- `truth`, the history variable, is computed by rounds of relaxation; the rounds are as many as the tiles, every
  round settles one more of them (`RoundSettles`), so it solves the equations of least costs and
  every other solution lies above it (`RoundsAreLeast`).
- `Explored` says of a frontier that no label is below `truth`, that out of a closed
  tile every step has been tried, that each label of an open tile has an entry, and that nothing was closed beyond
  the entries that are left. While the goal is open, the labels that are final, continued by what
  must come out of the entries, solve the same equations; hence a least entry that is
  current carries the least cost (`OpenTilesCost`, `LiveCloses`). For two stacks `Bands` adds that
  they hold f and f + 2, which needs a consistent heuristic and a swap only when the first is empty.

`ClosedIsFinal` alone is not inductive: it says nothing of the entries. A tile whose f was cut off at the largest
cost is outside its promise (those tie in the heap, as in the code, where sums saturate at
`uint32` max), but neither a goal that was found nor a search that was exhausted is. That no f of
a unit search over faces is cut off is the last part of `SearchAssumption`: tiles and extents together stay within the
largest cost. The shortcuts that answer a unit query without a frontier, the batches and the fields are
not in these two theorems; `AnswersAreExact` stays with TLC.


## 7. What is only model-checked

- Liveness (`EveryCallReturns`, `ShutdownCompletes`, `PendingSettles`,
  `TriggersServed`): the proof system has no rule for fairness or ENABLED here.
- `AnswersAreExact`: the shortcuts, the paths traced back and the answers read out of fields, compared with a
  reference that enumerates walks. Of the search itself the least costs are proved (section 6).
- What field products, portal routes and the runtime over the caches serve (`ProductsAreExact`, `ReplaysAreTrue`,
  `PassesAnswerTruly`), and the books of the three caches (`BooksAgree`).
- `QueuesDrain`: that a joint round leaves nobody waiting for a free tile, nor three or more around
  an unreserved ring, is a statement about the fixpoint of phase 3 and about
  every ring in the round. The proofs cover the safety of what is admitted, not that all that could be is.
- `RegionGraph` (`GraphsAreTrue`): its builds are floods over an arbitrary building, compared with a full build.


## 8. What is not modelled

- **Compile-time and pure code**: shape arithmetic beyond `Grid`, keys, boxes,
  spans, queries, block kernels, spatial assignment. No state, and well covered by tests.
- **The scheduler's tick** (`sim/scheduler.h`), fixed-step time, the event stream, the replan
  queue and blocked recovery, the navigation facade: compositions of
  what is here, or small state of their own; on the plan.
- **Scoped-thread executor**: its threads live inside one call, under the same contract.
- **Page contents, values, names, wording**: no property speaks of them.
- **Adapters, GPU, persistence, panels**: I/O around the library's state.
- Within modelled parts, the notes of `PROJECT.json` say what is left out: per-tile delta
  records, payload views and budgets of queued operations, version guards of
  movement intents, drivers without movement, `RouteAttachmentRanking`, hash tables and
  arenas of the caches, hex seams of the region graph in an instance.


## 9. The plan

In this order.

1. **Proofs**: the joint fixpoint behind `QueuesDrain`; the field-product, portal and runtime
   invariants over an abstract search.
2. **Agents**: `PathAgentReplanQueue` (`sim/path_agent_tick.h:318-486`) and
   `BlockedAgentRecoverySchedule` as further actions of `PathAgents`, with "a queued
   agent is replanned once and never for a superseded goal".
3. **Composition of a tick**: `sim/scheduler.h` (a plan that fails part way must
   still cause agents to replan and deltas to be collected), `sim/time.h`
   (saturating accumulation at a small width), `sim/event_stream.h`.
4. **Persistence** as staged acceptance; the scoped-thread executor as a second
   implementation of `PhaseContract`.
