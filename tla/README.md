# A TLA+ verification of Captain Who's agent runtime

Captain Who is a desktop host for AI agents. An Electron process starts a Rust
server; the server runs conversations ("turns") against model providers, lets a
running agent create child agents and hand them tasks, asks the user for
approvals, and keeps everything in one SQLite database. This project models the
part of it where interleavings, crashes and stops meet: the life of a *wake* (a
durable request to run a child agent), from the task that created it to the
result that wakes its parent; the dispatcher that runs wakes and shuts down with
them; the dispatcher of client requests, which has to keep them in order while
they change what they are about; and the two concurrency primitives the server
is built on, the admission coordinator and the executor of blocking work.

Paths below are relative to `src/crates/`; `core/src/storage` and
`core-server/src/application` are abbreviated to `storage` and `application`.

## 1. Inventory

| Component | State it keeps | Operations | What is hard, what makes it correct |
|---|---|---|---|
| Agent graph and wakes (`storage/agent_graph_repository/{wakes,wake_commands,wake_resolution,settlement}.rs`) | wake rows: status, claim token, lease, owner run, source | enqueue, claim next dispatchable, renew, recover, resolve the execution and terminal fences, settle, interrupt, satisfy by message | two claimers, late owners after a lease expired, crash between two transactions; turns of an agent are serial, a result reaches the parent once, an admitted turn is never run again |
| Agent tree stop (`.../tree_cancellation.rs`) | stop rows per covered run | begin a stop, guard scheduling, settle covered wakes | commits in any order with spawns, completions and settlements; a stopped tree stays stopped |
| Agent dispatcher (`application/agent_dispatcher.rs`) | worker registry, concurrency gate, scan generations, quiescence | scan, claim, run a worker per wake, renew, observe, settle, shut down | observations are stale after an await; workers die; shutdown while recovery commits |
| Wake execution fences (`application/agent/wake_execution_fence.rs`) | refused claims, running segments | refuse, renew guard, prune | a refused segment must not leave a renewed, unowned claim |
| Turn execution (`application/agent/turn_executor/*`, `storage/service/conversations/turn_writes.rs`) | trace and run rows, in-memory runtimes | admit a turn, launch a segment, commit the terminal trace | the model runs between admission and settlement with external effects |
| Pending actions (`storage/service/pending_actions/*`, `application/agent/action_execution/*`) | pending action rows | store, approve, execute, continue, finish | a second segment of the same turn, under a claim that may have moved |
| Agent mailbox (`storage/agent_graph_repository/mailbox.rs`, `storage/agent_delivery_repository.rs`) | messages, message leases, receipts | deliver, lease, acknowledge, project | duplicated and lost deliveries |
| Agent wait (`application/agent_wait.rs`) | waiters of in-flight tool calls | wait, wake, time out | a timeout races the message |
| Child agents (`storage/service/child_agents.rs`) | nodes, conversations, snapshots | spawn, follow up | capacity limits against concurrent spawns |
| Keyed admission (`application/agent/keyed_admission.rs`) | queue, held conversations, global flag, owners | lock globally or by conversations, drop a guard | lost wakeups, starvation of the global fence |
| Blocking executor (`application/blocking_executor.rs`) | queue, job and byte budget, workers | reserve, reserve a pair, resize, submit, close, shut down | capacity freed between test and wait, workers that leave too early, hold and wait |
| RPC transport (`core-server/src/transport/*`, `application/agent/rpc_resources.rs`) | admitted requests, their scopes, lanes with fair workers, outbound queue | admit, look up a scope, wait for predecessors, run, answer, shut down | a scope is stale as soon as it is looked up; clashing requests run in order, control requests pass preparing turns, everything is answered once |
| Turn preparation registry (`application/agent/preparing.rs`) | preparing turns, deleted scopes | register, cancel, mark committing, fence a deletion, release | cancellation and deletion race the commit of a turn |
| Command sessions (`application/agent/command_sessions*`) | process sessions, settlement queue | start, poll, settle | settlement races exit and cancellation |
| Automations (`application/automation/*`, `storage/automation_repository/*`) | automations, runs, leases | admit, recover, settle | missed and doubled runs |
| Human interaction, steering, workflow scheduler, checkpoints, compaction | questions, guidance, checkpoints | suspend and resume turns | second instances of the approval protocol |
| SQLite service (`storage/execution.rs`, `commit_notifications.rs`) | the database | one `BEGIN IMMEDIATE` transaction per operation | assumed atomic, serial and durable |
| MCP client (`mcp-client/src`) | connections, invocations | connect, call, retire | generations of a connection |
| Electron host (`src/main`) | processes, windows | supervise, present | presentation and I/O |

The components interact through the database and three in-memory channels: a
commit notification wakes the dispatcher, the fence registry connects a segment
with the worker that renews its claim, and a cancellation token connects the
stop of a tree with running segments. A worker never keeps a transaction open
while it waits; everything it read may be out of date when it writes, and the
claim token is what it is checked against.

`PROJECT.json` lists the components with their status, and the hazards with the
line at which each one bites and the properties that cover it.

## 2. Modules

| Module | Models |
|---|---|
| `AgentWakes` | wakes, claims, leases, recovery, stop, settlement, the segments and approvals of a turn |
| `MCAgentWakes` | trees of two agents for TLC |
| `AgentWakes_proofs` | inductive invariant and six theorems about `AgentWakes`, one that it implements `AgentTasks` |
| `AgentWakes_claims` | claims, settlements and traces: seven theorems about `AgentWakes` |
| `AgentWakes_stop` | the stop of a tree and what leases outlive: three theorems about `AgentWakes` |
| `AgentTasks` | the abstract specification: what a task of an agent goes through |
| `Dispatcher` | the process side of the dispatcher: gate, manager, workers, registry, quiescence, shutdown |
| `MCDispatcher` | the dispatcher for TLC |
| `Dispatcher_proofs` | inductive invariants and six theorems about `Dispatcher` |
| `RpcDispatch` | the dispatcher of client requests, scopes, lanes, preparing turns |
| `RpcDispatch_proofs` | inductive invariant and five theorems about `RpcDispatch` |
| `RpcDispatch_order` | the order of clashing requests and the way of control requests: three theorems about `RpcDispatch` |
| `MCRpcDispatch` | a tree, a free conversation and a project for TLC |
| `KeyedAdmission` | the admission coordinator, checked as it stands |
| `KeyedAdmission_proofs` | inductive invariant and three theorems about `KeyedAdmission` |
| `BlockingExecutor` | one blocking executor, checked as it stands |
| `BlockingExecutor_proofs` | inductive invariant and seven theorems about `BlockingExecutor` |

### AgentWakes

The durable part of the state is one entry per wake: `status`, the `agent`, the
`cause` (the child's wake whose result created it), the claim `token`, the
remaining lease (`ttl`), the `trace` of its turn, the pending `action`, and
whether its run is covered by a stop (`stopped`). The volatile part is what a
crash loses: `owners` (dispatcher workers with the phase they are in and the
claim they hold), `segments` (runtimes of a turn) and `refused` (the fence
registry).

Every storage operation is one action, because the code runs it in one
`BEGIN IMMEDIATE` transaction. What the server does between two transactions is
the interleaving. A worker's phase holds what it last *observed*, so that it
acts on stale observations as the code does: `saw_pending`, for instance, is a
worker that read a pending approval and has yet to mark the wake.

Correspondence worth knowing when reading the actions:

- Spawning a child and following up on one are one action, `Schedule`; both are
  guarded only by the stop row of the scheduling run. Model choice, templates and
  limits are not modelled.
- Claiming uses the fair claim of the dispatcher. The per-agent claim and the
  generic transition API have no callers outside tests.
- `ResumeContinuation` joins resolving the claim and the transition to running:
  both check the same token, and a wake already running is not moved.
- An interrupt of an admitted turn acts through its runtime, as a cancelled
  `CommitTerminalTrace` or `ControlTerminalTrace`.
- The trace opens in the transaction that admits the turn, so recovery's plan
  "fail before the runtime started" finds no wake to apply to.
- Time is a countdown per lease. `Tick` runs it down only where no live worker
  would have renewed it; a worker that is late although alive is a `Stall`, which
  counts as a fault, as does a crash of the host and a failed worker.

### AgentTasks and the refinement

`AgentTasks` has no claims, leases, workers, approvals, crashes or recoveries. A
task is pending, executing, and then reported, interrupted or dropped; it begins
at most once, alone among the tasks of its agent; reporting it creates the
parent's task in the same step, unless the user stopped it. `taskOf` in
`AgentWakes` maps a queued or claimed wake to a pending task, a running or
waiting one to an executing task, and the settled statuses to how the task ended;
`agent`, `cause` and `stopped` map to themselves. Most actions of `AgentWakes`
map to a stutter: this is the statement that leases, rebinding and recoveries are
invisible to the agents.

### Dispatcher

`AgentWakes` says what the transactions do; `Dispatcher` says when the process
makes them. A wake is only queued or held by a claim, and a turn is named by the
claim that started it, so that a recovery, which binds a turn to a new claim
while the old worker may still run, is two claims on one turn. An action is one
critical section, one transaction or one call of the executor.

- The gate's `active` is derived from who holds a clone of each turn's permit
  (`holders`) and `reserved` from a claim in flight: the code's counters move
  exactly when the last clone is dropped.
- `work_generation` only matters by having changed during a scan: `moved`.
- Leases are not timed here. A wake may expire whenever its worker is gone or
  could have stalled (`MayExpire`).
- A turn commits a wake (`CommitWake`) and notifies the dispatcher in a later
  step (`NotifyCommitted`); `QuiescentMeansSettled` is about that gap.
- `shutdown` reads the clock and `preparing`, then `scan_in_progress`, in two
  steps; the interrupts of one sweep are one step. A manager whose claim failed
  runs its own cancellation (`FailedManagerCancels`).
- Left out: the replay of undispatched interrupts, the interrupt of one agent,
  the counters of the report, the release of a permit while a turn waits for an
  answer of the user.

### RpcDispatch

Every admitted request is a task. `Observe` and `Order` are the two loops of
`execute_job` over the earlier requests; a step goes on until it has to wait, for
a published scope or for a completion. `ScopeOf` is `rpc_resource_scope` on eleven
requests that reach each of its scopes; handlers change what it reads
(`project`, `existing`, `run`, `frozen`), which is how a scope gets stale. A
lane's fair execution is the code's: roots in a queue, one worker per root,
the root served last goes to the back. `drive` loops until nothing can be granted;
`Drive` grants once, which is the same because each call follows one new waiter or
one released worker (`LanesAreFair` says that nothing is left to grant, and is
proved).

`InOrder` judges a clash by what two requests are about at that moment. A
cancellation whose run is over is about nothing: its handler finds no
conversation for the run and returns. This matters from five requests on. A turn
on a conversation that does not exist yet is cancelled, the next turn creates the
conversation in a project, and a second cancellation of the first run may then
run beside the deletion of that project.

Completion and the release of the worker are one step, as are the call and
the return of `shutdown`. Byte permits, artifact tasks, probes and access tokens
are left out. A failed handler is an `Effect` that changes nothing.

`Quiet` stands in for fairness: it holds when no task or handler can move but for
turns that stay in their preparation. Every step of a task brings it nearer to
its end, so the two properties that assume `Quiet` say what the dispatcher
arrives at once it has run as far as it can.

### KeyedAdmission

An action is one critical section of the registry's mutex, or the notification
after it. The queue is kept as the set of waiters ahead of each waiter: `ready`
only asks which conflicting requests are earlier. A nested request panics before
it changes anything and is not an action.

### BlockingExecutor

An action is one critical section of the state mutex. Since every operation
notifies *after* it released the mutex, `owed` records what each actor has yet
to send; other actors run in between. A client stands for a task that holds at
most one reservation or one pair, which is how turns use the executor. A refused
`submit` drops its reservation: `allow_reserved` never becomes true again, so the
test and the drop are one step. Results and the test-only cancellation of
queued jobs are left out. `HoldsNothing` says that a client asks only when it
has nothing in this executor, as the callers in `turn_executor/launch.rs` and
`action_continuation.rs` do.

## 3. What the runs check

| Run | Instance | Shows |
|---|---|---|
| `wakes` | chain root, a1, a2; 3 wakes of which 2 scheduled, 2 claims each, 1 fault; 1.2 million states | an agent never has two active wakes; an open trace always has its admitted wake; a child's result wakes its parent once and none is lost; a claim has one worker; without faults a stop covers everything; an admitted wake never returns to the queue; the whole implements `AgentTasks` |
| `approvals` | the chain, both agents ask for approval, 2 wakes, 3 claims, a lease of 2 ticks, 1 fault; 1.25 million states | a settled status agrees with the trace; one runtime per turn; terminal rows never change; a stopped run does not complete; recovery replaces a claim only when its lease has run out |
| `settles` | two siblings competing, 2 wakes, 4 claims, 1 fault; 244,000 states | every wake is settled in the end |
| `settles_approval` | the chain with an approving child; 86,000 states | also when segments are refused and owners are lost around an approval |
| `stop_stale_runtime` | the chain, 2 wakes, 1 fault | a counterexample, see section 6 |
| `admission` | 3 threads, 2 conversations; 3,920 states | guards exclude each other, the registry is exact, no wakeup is lost, everybody is admitted |
| `executor` | 2 clients, 2 workers, 3 jobs, 3 bytes, sizes 1 and 2; 2.1 million states | counters are exact and within limits; no job is stranded or waits beside a sleeping worker; a returned shutdown is quiet; no notification is lost |
| `executor_live` | 1 worker, capacity for one pair; 111,000 states | `shutdown_submitted` returns whatever clients do; waiting turns do not block each other |
| `dispatcher` | 2 agents, 2 claims, 1 root turn, up to 2 recovered turns, limit 1; 4.0 million states up to symmetry | no turn starts beyond the limit; a quiescent dispatcher has nothing left to claim; a returned shutdown left no claim and no start in flight, and asked every running turn to stop |
| `dispatcher_live` | 1 agent, 1 claim, 1 root, 1 recovered turn; 35,000 states | shutdown returns, however long turns run and approvals wait |
| `shutdown_approval` | 1 agent, 1 claim | a counterexample, see section 6 |
| `rpc` | 3 requests of a menu of 11, 2 workers per lane, 1 failed lookup; 4.1 million states | clashing requests run in the order of admission whatever moved in between; lanes are fair; grants and cancellations reach preparing turns; everything is answered, once, before shutdown returns |

Bounds. Two agents give a parent and a child, the shortest tree in which a result
wakes somebody, and two siblings that compete for the dispatcher. Two scheduled
wakes make a second task of a busy agent; the third is the parent's result wake.
Two to four claims allow a recovery and a recovery of the recovered claim, one
fault a crash at every point. The admission's three threads are a holder, a
waiter and one that may overtake; two conversations allow disjoint, overlapping
and nested sets. The executor's limits are below what two pairs need, so that
jobs and bytes each run out first in some behaviours. The dispatcher's limit of
one makes two recovered turns exceed it and a root and a child compete; its
second claim is the recovery of a turn whose first worker is still there. Three
requests are one that changes ownership, one whose scope that changes, and one
that waits for both or must not; the control lane admits one request, so that
rejection happens. The tree gives scopes with several conversations, the free
conversation one that is created, moved and deleted.

Fairness. In `AgentWakes`, the dispatcher's loop recovers and claims on every
scan, a worker goes on until it settled or was refused, requests of a runtime
end by their time limits, and clocks advance; nothing is assumed of users, of
agents that schedule, or of faults. In `KeyedAdmission`, a woken thread gets the
mutex and a guard is dropped (guards are RAII values of bounded preparations);
nobody is obliged to ask. In `BlockingExecutor`, threads run and jobs end; that
clients use their reservations is an assumption only of `EveryWaiterRetries`,
which names it. That property says a waiting client attempts again, not that it
succeeds: `notify_waiters` keeps no order, and a pair may lose every race
against single reservations. In `Dispatcher`, the manager, shutdown and the
blocking jobs they wait for are scheduled and the deadline passes; nothing is
assumed of turns, approvals or observers.

Each property is paired with a mutant in `PROJECT.json`: a definition changed as
a plausible mistake in the code would change it, under which TLC finds the
property violated.

## 4. What is proved

`AgentWakes_proofs`, for every tree, lease and bound, from `TreeAssumption` and
`BoundAssumption`:

- `TypeCorrect`, `SerialTurns`, `NoOrphanedTurn`, `ResultsDeliveredOnce`,
  `NoTurnReplayed`.

These lean on facts about the rows that no single property states. An open trace
has its wake only because a wake that is queued or claimed has no open trace and
one that leaves the admitted statuses closes its trace (`ClaimedAndTraced`); a
result's wake is unique only because rows are created in order and unused rows
are blank (`Existing`). The invariant `IInv` joins both with `TypeOK` and the three
state properties. The proof
first shows what each *kind* of row change preserves (nothing changed, moved
within the admitted statuses, ended before admission, settled, enqueued), then
matches every action with its kind, one lemma per group of actions (`OwnerStepInv`,
`SegmentStepInv`, `WakeStepInv`, `AgentStepInv`), and joins them in `NextInv`.

`AgentWakes_claims`, under the same assumptions, from `IInv` and an invariant
about what owners, segments and traces know of their wake:

- `ClaimsAreExclusive`, `ModelRunsOnce`, `SettlementIsTruthful`,
  `NothingIsRewritten`, `StopForbidsCompletion`, `LiveClaimsAreSafe`.

`ClaimHasOneOwner` holds because no token is known to anybody before its
transaction issued it (`ClaimsAreIssued`), and a claim or a recovery takes the
next one. `OneRuntimePerTurn` needs the life of a turn (`TurnInv`): between
admission and launch the turn is its worker's alone (`LaunchIsPending`), a segment
exists only for an admitted turn that does not wait on an action
(`SegmentsRunTurns`), so that the next segment starts only once the last is gone.
`OutcomePreserved` is itself part of the invariant `CInv`. The action properties
follow from the relation `RowMoves`, which holds all that a step may do to a row
and is shown once for every action.

`AgentWakes_stop`, under the same assumptions:

- `TreeStaysStopped`: `StopCoversTree`, that a stop covers the tree as long as no
  fault happened.
- `LeasesOutliveTurns`: without a fault, no lease of a wake that is active and not
  stopped runs out, and everyone who acts for it acts under its current claim.

A descendant can be started late only by a segment whose wake the stop did not
find, which takes a wake settled under a running segment, which takes a recovered
lease. The second theorem rules this out and is part of the invariant `SInv`
that the first one needs.

Last in `AgentWakes_proofs`, under the same assumptions:

- `Refinement`: `Spec => ImplementsTasks`.

The proof goes by the effect of a step on the rows, not by the action: a step
that changes no row or moves one within the same abstract place is a stutter, one
that admits a wake begins its task (with `SerialTurns` for "alone"), one that
settles it reports, interrupts or withdraws, and the stop is `StopAll`. It uses
`IInv` for the row that a settlement creates: it must be blank.

`Dispatcher_proofs`, for any agents, claims, roots and limit, from `Sizes`:

- `ShutdownIsQuiet`: when shutdown has read no preparation and no scan, none of
  either begins any more. The invariant (`IInv`) says that a claim is only in
  flight during a scan (`ClaimsAreScans`), that every start in flight is in
  `preparing` (`PreparationsAreKnown`), that the flag has been set
  (`FlagIsSet`), and that none is left once shutdown read `preparing` empty after
  its deadline, has returned, or the manager is gone (`NoneStarting`).
- `QuiescenceIsReal`: `idle` is only true after a scan that saw the queue empty
  with no generation change, and what is queued later is announced
  (`EmptyUntilNotified`); a worker that still settles is in the manager's set
  (`WorkersAreJoined`), which was empty (`IdleAfterScans`).
- `DispatcherTyped`, `SweepsReachEveryTurn`, `GateHolds`, from `DInv`.

`DInv` adds to the two invariants how claims, wakes, turns and registry entries
refer to each other. A sweep reaches a turn only through the registry entry of its
agent, and another worker of the same agent may overwrite that entry. It does not
while the turn has never waited: such a turn is bound to its wake
(`LiveTurnsAreBound`), a new worker registers only while it owns the wake and
agrees with it about the turn (`OwnersAgree`), and no two wakes share a claim or
a turn (`WakesAreApart`). So the entry of a live turn is that of its worker, with
its run once it is handed over (`RunsArePublished`); from the first sweep on it
was asked, or asks itself when its start returns (`SweptTurnsWereAsked`). A
shutdown that returns without a sweep has a manager that joined everybody
(`GoneWithoutWorkers`). For the gate, a turn in progress is counted by a permit
that only its end releases (`PermitsAreHeld`), and while a claim is in flight or a
turn is prepared the gate is within its limit (`SlotsAreReserved`); turns adopted
after a restart may exceed it, which is why the theorem is about steps. `Sizes`
says that the names used for "nothing" and for the service's permit are not
claims or entries.

`BlockingExecutor_proofs`, for any clients, workers, capacities and sizes, from
the named assumptions of `BlockingExecutor`:

- `ExecutorTyped`, `BudgetStaysExact`, `NoJobWaitsForASleeper`,
  `WorkIsNotStranded`, `ShutdownIsQuiet`, `NoWakeupIsLost`: every invariant the
  run checks.

The invariant `EInv` counts. The counters of the state mutex are cardinalities of
the jobs that are held, queued and running (`Counted`, `JobsAreHeld`); the byte
budget is the number of cells of the live reservations (`HeldBytes`, a set of
pairs, so that no sum has to be unfolded). A wakeup is not lost because a client
or a worker only sleeps when its test was false and whoever changes the test owes
a notification until it is sent; `RefusalStands` is that argument for the
clients, `NoIdleWorkerWhileJobsWait` for the workers. Closing is monotone
(`ClosesInOrder`).

`KeyedAdmission_proofs`, for any sets of threads and conversations, with no
assumption:

- `AdmissionIsExclusive`, `RegistryIsExact`, `NoLostWakeup`.

Exclusion and the exact registry need each other: a guard is granted by looking
at the registry, and dropping one may remove its keys only because nobody else
holds them. For lost wakeups the invariant keeps what a sleeper knew
(`StillBlocked`): unless a drop has yet to notify, its own test is still false. A
grant is the interesting case. It removes the new holder from the queue of a
sleeper that may have waited for it, and `GuardBlocks` shows that the guard then
blocks the sleeper instead; this needs that nobody asks for an empty set of
conversations, which `lock_conversations` asserts.

`RpcDispatch_proofs`, for any conversations, trees, projects, menus of requests and
sizes of the lanes, from `Sizes`:

- `RpcTyped`, `EveryAnswerPrecedesReturn`, `LanesStayFair`, `NothingWaitsInACircle`.

The invariant `RInv` says, besides the types, that a task waits for earlier
requests only and that an answered predecessor has published its scope
(`TasksWaitBackwards`), how answers are counted (`AnswersAreCounted`), that a lane
holds exactly the tasks past their ordering (`LaneHoldsItsTasks`) and that it is
settled: nothing could be granted (`LaneIsSettled`). The lanes are the hard part:
the lemmas about `GrantOne` show that a settled lane with one new waiter or one
worker less in use is settled by one grant, because that grant either fills the
last worker or takes the only root that became free. For circular waits, take the
least unanswered request: its predecessors have answered, so it has nothing to
wait for but a worker, and a worker that a settled lane does not give it is held
by a request that can move.

`RpcDispatch_order`, from the same assumptions:

- `RequestsRunInOrder`: `InOrder`.
- `ControlIsNotTrapped`: `ControlReachesPreparation`.
- `OrderInvariance`: the invariant `OInv` behind both, inductive together with `RInv`.

`InOrder` compares what two requests touch now, while the dispatcher compares scopes
that were looked up earlier, one of them perhaps long ago. So the invariant has to
say why a published scope is still true. `ScopesAreFresh` does: the scope names
the keys of everything the request touches at this moment, or the first pass has
yet to stop at a request that ran and overlaps it, which makes the task look again. A
handler can only make a scope stale by writing to what the scope names; but then
the two overlap, and the handler's request is either earlier and still ahead of the
task's pass, or later and could not have started. The second half of that needs
`PassesHold`: what a task has passed over it never has to wait for later. A
cancellation is fresh only as long as its run is registered, which is why the
registry of turns is in the invariant: the owner of a preparing conversation is
in its handler, a named run registered earlier, and a run that is over never comes
back (`RunsHaveOwners`, `RunsAreNamed`). Deletions take a whole tree, so a tree's
conversations have to be in one project (`TreesStayTogether`).

`InOrder` then follows: a handler has been let by every earlier request that is not
answered, so their scopes do not overlap or the request may overtake; two fresh
scopes of clashing requests overlap (`ClashOverlaps`). For
`ControlReachesPreparation`, `ControlsPass` says that without a shutdown or a failed
lookup a grant never waits on a turn and a cancellation never on the turn it cancels;
a task whose predecessors it may all pass gets to its worker, and no
control handler is among the turns that linger.

Only model-checked: all liveness properties, which with ENABLED are outside the
proof system's reach, and the two properties that the code violates.

## 5. Observations

- A wake settled as `outcome_unknown` may have a completed trace: the approval of
  its turn was stored without the fence, approved under the next claim, and the
  turn completed after the settlement was decided. `OutcomePreserved` allows
  exactly this.
- A repeated stop of the same run only reinforces the stop row; it does not sweep
  the tree again. New wakes cannot appear through covered runs, so this loses
  nothing without faults.

- If shutdown is requested between the manager's check of the flag
  (`agent_dispatcher.rs:1670`) and its `select!` (1674) while no worker is left,
  every branch is disabled and `select!` panics. The task ends as it was about to;
  shutdown reports a manager error in place of a report (`Select` to
  "panicked").
- The registry of running turns is keyed by agent and written without comparing
  claims (2000-2012). A worker that stalled between its claim and its
  registration for longer than its lease would overwrite the entry of its
  successor, which shutdown would then not see. The model excludes the stall
  (`MayExpire`): a spawned worker takes its first step within its lease.

## 6. Disagreements with comments

`tree_cancellation.rs:203` says of the scheduling guard that "both commit orders"
are safe: "scheduling first is caught by the subsequent stop sweep, while stop
first is rejected here before any message, node, Conversation, or Wake is
inserted." The guard looks for a stop row of the exact run. The stop writes rows
for wakes that are running or waiting for approval when it commits. If a worker
falls behind its lease, recovery settles the wake as `outcome_unknown` while the
old runtime is still alive; the user's stop then covers no row of that run, and
until its in-memory cancellation takes effect the runtime can schedule a child in
the stopped tree. `stop_stale_runtime` shows the sequence; `StopCoversTree` shows
that it takes a stalled or lost worker.

`agent_dispatcher.rs:1364` says of shutdown: "Waiting approvals remain durable
and are never guessed cancelled." The sweep spares a run whose registry entry says
`waiting_for_approval`. Its worker sets that after observing the wait; a turn that
stored its pending action since is still interrupted, and the interrupt cancels
pending actions. `shutdown_approval` shows a turn that starts to wait right
before the sweep.

## 7. Not modelled, and the plan

Most of the repository's lines are outside these models, for reasons that differ:

- Tools, document and image processing, provider protocols, prompts, the
  renderer (the larger part of the code): transformations of data and I/O with
  no shared state that interleaves; a model would repeat the code.
- The ways SQLite could fail, framing and writing of responses, byte budgets of
  the lanes, calendar arithmetic of schedules.
- Protocols that repeat one that is modelled: automations claim, lease and settle
  as wakes do; questions to the user suspend a turn as approvals do; command
  sessions settle through a queue of their own.
- Archive and disable of nodes, cancelling a tree's wakes for deletion, context
  compaction.

Next, in this order:

1. `AgentMailbox`: message leases, delivery receipts, satisfied wakes and
   `agent_wait`, composed with the wake a message belongs to.
2. `PendingActions`: several actions per turn, predecessors, execution claims and
   startup reconciliation.
3. `Automations` and `CommandSessions`, as second implementations of an abstract
   claim-and-settle specification.

## 8. Running it

    tlc -config MCAgentWakes.cfg MCAgentWakes
    tlc -config MCKeyedAdmission.cfg KeyedAdmission
    tlc -config MCBlockingExecutor.cfg BlockingExecutor
    tlc -config MCDispatcher.cfg MCDispatcher
    tlc -config MCRpcDispatch.cfg MCRpcDispatch
    tlapm AgentWakes_proofs.tla
    tlapm AgentWakes_claims.tla
    tlapm AgentWakes_stop.tla
    tlapm BlockingExecutor_proofs.tla
    tlapm Dispatcher_proofs.tla
    tlapm KeyedAdmission_proofs.tla
    tlapm RpcDispatch_proofs.tla
    tlapm RpcDispatch_order.tla

The largest runs take two to three minutes on two cores, each proof
module some minutes.
