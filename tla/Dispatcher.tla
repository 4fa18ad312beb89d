----------------------------- MODULE Dispatcher -----------------------------
(***************************************************************************)
(* The process side of the agent dispatcher: the gate that bounds          *)
(* concurrent turns, the manager that scans the durable queue, the worker  *)
(* it spawns for every claimed or recovered wake, the registry through     *)
(* which shutdown finds live runs, and shutdown itself.                    *)
(*                                                                         *)
(* AgentWakes holds what the transactions do to wakes.  Here a wake is     *)
(* queued, or held by the claim owner[a] with the admitted turn turn[a].   *)
(* A turn is named by the claim that started it; a recovery binds the same *)
(* turn to a new claim while the old worker may still run.                 *)
(***************************************************************************)
EXTENDS Integers, FiniteSets, FiniteSetsExt

CONSTANTS
  Agents,
  Claims,      \* claim tokens: one worker each, used again once it is gone
  Roots,       \* public root turns
  MaxRecovered,\* turns an earlier process left in progress, at most
  Limit,       \* AgentTurnConcurrencyGate.limit
  None

RunningDispatch == [claim : Claims, run : Claims \cup {None}, waiting : BOOLEAN]

ASSUME Sizes ==
  /\ IsFiniteSet(Agents) /\ IsFiniteSet(Claims) /\ IsFiniteSet(Roots)
  /\ Limit \in Nat \ {0}
  /\ MaxRecovered \in Nat
  /\ Claims \cap Roots = {} /\ None \notin Claims \cup Roots \cup Agents
  /\ None \notin RunningDispatch /\ "service" \notin Claims

VARIABLES
  queued, owner, turn,          \* durable wakes
  mpc, sawEmpty, workers,       \* the manager, durable_queue_empty, its JoinSet
  scanning, idle, moved,        \* quiescence; moved: work_generation changed
                                \* during the scan in progress
  preparing, running,           \* shared.preparing, shared.running
  wpc, wagent, wturn, reported, \* each worker; reported: waiting_already_reported
  run, asked,                   \* turns; asked: those in progress told to stop
  holders,                      \* who holds a clone of each turn's permit
  owes,                         \* turns that committed a wake, not yet notified
  flag,                         \* shutdown_requested
  spc, late, hold               \* shutdown(); cancellation_deadline has passed

durable  == <<queued, owner, turn>>
manager  == <<mpc, sawEmpty, workers>>
scan     == <<scanning, idle, moved>>
registry == <<preparing, running>>
worker   == <<wpc, wagent, wturn, reported>>
turns    == <<run, asked, holders, owes>>
shutdown == <<spc, late, hold>>
vars     == <<durable, manager, scan, registry, worker, turns, flag, shutdown>>

Turns == Claims \cup Roots
Service == "service"          \* AgentService.active_turn_permits

TypeOK ==
  /\ queued \subseteq Agents
  /\ owner \in [Agents -> Claims \cup {None}]
  /\ turn \in [Agents -> Claims \cup {None}]
  /\ mpc \in {"begin", "recover", "claim", "claiming", "finish", "check",
              "select", "parked", "joining", "failed", "cancelled", "ended",
              "panicked", "aborted", "claim_lost"}
  /\ workers \subseteq Claims
  /\ sawEmpty \in BOOLEAN /\ scanning \in BOOLEAN /\ idle \in BOOLEAN
  /\ moved \in BOOLEAN /\ flag \in BOOLEAN
  /\ preparing \subseteq Claims
  /\ running \in [Agents -> RunningDispatch \cup {None}]
  /\ wpc \in [Claims -> {"free", "spawned", "job", "starting", "started",
                         "handover", "observing", "observer",
                         "unknown", "settled", "leaving", "finished"}]
  /\ wagent \in [Claims -> Agents \cup {None}]
  /\ wturn \in [Claims -> Claims \cup {None}]
  /\ reported \subseteq Claims
  /\ run \in [Claims -> {"none", "live", "waiting", "resumed", "terminal"}]
  /\ asked \subseteq Claims
  /\ holders \in [Turns -> SUBSET (Claims \cup {Service})]
  /\ owes \subseteq Turns
  /\ spc \in {"none", "grace", "sweep", "swept", "decide", "returned"}
  /\ late \in BOOLEAN /\ hold \in BOOLEAN

\* The wakes an earlier process left behind wait for an approval, and their
\* permits were adopted, above any limit, when AgentService was restored.
Init ==
  /\ queued = {}
  /\ owner \in [Agents -> Claims \cup {None}]
  /\ \A a, b \in Agents : owner[a] = owner[b] => a = b \/ owner[a] = None
  /\ Cardinality({a \in Agents : owner[a] # None}) <= MaxRecovered
  /\ turn = owner
  /\ mpc = "begin" /\ sawEmpty = FALSE /\ workers = {}
  /\ scanning = FALSE /\ idle = FALSE /\ moved = FALSE
  /\ preparing = {} /\ running = [a \in Agents |-> None]
  /\ wpc = [c \in Claims |-> "free"]
  /\ wagent = [c \in Claims |-> None]
  /\ wturn = [c \in Claims |-> None]
  /\ reported = {}
  /\ run = [c \in Claims |-> IF \E a \in Agents : turn[a] = c THEN "waiting" ELSE "none"]
  /\ asked = {}
  /\ holders = [t \in Turns |-> IF \E a \in Agents : turn[a] = t
                             THEN {Service} ELSE {}]
  /\ owes = {}
  /\ flag = FALSE
  /\ spc = "none" /\ late = FALSE /\ hold = FALSE

-----------------------------------------------------------------------------
\* The gate

\* A slot is returned when the last clone of its permit is dropped.
active   == Cardinality({t \in Turns : holders[t] # {}})
reserved == IF mpc = "claiming" THEN 1 ELSE 0

\* Mutant: a reservation for a claim in flight is not counted.
HasCapacityIgnoringReserved == active < Limit

\* try_acquire, try_reserve_for_dispatch
HasCapacity == active + reserved < Limit

Executing(t) == IF t \in Roots THEN holders[t] # {}
                ELSE run[t] \in {"live", "resumed"}

\* notify_dispatcher_work_available
NotifyWork == moved' = scanning /\ idle' = FALSE /\ UNCHANGED scanning

\* A claim that nothing refers to any more.
Free(c) ==
  /\ wpc[c] = "free" /\ c \notin workers /\ holders[c] = {}
  /\ \A a \in Agents : c \notin {owner[a], turn[a]}
  /\ \A d \in Claims : wturn[d] # c

\* Names for the new claim on a recovered wake: also the wake's own, once the
\* worker that had it is gone.
FreeFor(a) ==
  LET own == {c \in {owner[a], turn[a]} \ {None} : wpc[c] = "free" /\ c \notin workers}
  IN  own \cup {c \in Claims : Free(c)}

Dispatchable == {a \in queued : owner[a] = None}

-----------------------------------------------------------------------------
\* run_agent_dispatcher_loop

BeginScan ==
  /\ mpc = "begin"
  /\ mpc' = IF flag THEN "claim" ELSE "recover"
  /\ sawEmpty' = FALSE
  /\ scanning' = TRUE /\ idle' = FALSE /\ moved' = FALSE
  /\ UNCHANGED <<durable, workers, registry, worker, turns, flag, shutdown>>

\* A wake whose lease may be dead: its worker is gone or stalled.  A worker that
\* was spawned under a new lease takes its first step before that lease ends.
MayExpire(a) ==
  owner[a] # None /\ wpc[owner[a]] \notin {"spawned", "observer", "unknown"}

\* recover_orphaned_wakes: the wakes of the agents in expired have a dead lease.
\* A claim without a turn returns to the queue, an admitted turn gets a new
\* claim and a worker.
Recover ==
  /\ mpc = "recover"
  /\ mpc' = "claim"
  /\ \E expired \in SUBSET {a \in Agents : MayExpire(a)} :
       LET rebound == {a \in expired : turn[a] # None} IN
       \E claim \in [rebound -> Claims] :
         /\ \A a \in rebound : claim[a] \in FreeFor(a)
         /\ \A a, b \in rebound : claim[a] = claim[b] => a = b
         /\ queued' = queued \cup (expired \ rebound)
         /\ owner' = [a \in Agents |-> IF a \in rebound THEN claim[a]
                                       ELSE IF a \in expired THEN None ELSE owner[a]]
         /\ LET new == {claim[a] : a \in rebound}
                at(c) == CHOOSE a \in rebound : claim[a] = c
            IN
            /\ workers' = workers \cup new
            /\ wpc' = [c \in Claims |->
                 IF c \notin new THEN wpc[c]
                 ELSE IF run[turn[at(c)]] \in {"waiting", "terminal"} THEN "observer"
                 ELSE "unknown"]
            /\ wagent' = [c \in Claims |-> IF c \in new THEN at(c) ELSE wagent[c]]
            /\ wturn' = [c \in Claims |-> IF c \in new THEN turn[at(c)] ELSE wturn[c]]
  /\ UNCHANGED <<turn, sawEmpty, scan, registry, reported, turns, flag, shutdown>>

\* The claim loop reserves a slot of the gate before it claims.
ReserveForDispatch ==
  /\ mpc = "claim"
  /\ ~flag
  /\ HasCapacity
  /\ mpc' = "claiming"
  /\ UNCHANGED <<durable, sawEmpty, workers, scan, registry, worker, turns, flag,
                 shutdown>>

\* It ends: shutdown, no slot, or no capacity to prepare a turn.
StopClaiming ==
  /\ mpc = "claim"
  /\ mpc' = "finish"
  /\ UNCHANGED <<durable, sawEmpty, workers, scan, registry, worker, turns, flag,
                 shutdown>>

\* claim_next_dispatchable finds nothing, or the candidate is not ready.
NothingClaimed ==
  /\ mpc = "claiming"
  /\ sawEmpty' = (Dispatchable = {})
  /\ mpc' = "finish"
  /\ UNCHANGED <<durable, workers, scan, registry, worker, turns, flag, shutdown>>

ClaimFails ==
  /\ mpc = "claiming"
  /\ mpc' = "failed"
  /\ flag' = TRUE
  /\ UNCHANGED <<durable, sawEmpty, workers, scan, registry, worker, turns, shutdown>>

Claim(a, c) ==
  /\ mpc = "claiming"
  /\ a \in Dispatchable /\ Free(c)
  /\ mpc' = "claim"
  /\ queued' \in {queued, queued \ {a}}         \* more wakes may be queued
  /\ owner' = [owner EXCEPT ![a] = c]
  /\ holders' = [holders EXCEPT ![c] = {c}]
  /\ run' = [run EXCEPT ![c] = "none"]
  /\ preparing' = preparing \cup {c}
  /\ workers' = workers \cup {c}
  /\ wpc' = [wpc EXCEPT ![c] = "spawned"]
  /\ wagent' = [wagent EXCEPT ![c] = a]
  /\ wturn' = [wturn EXCEPT ![c] = c]
  /\ UNCHANGED <<turn, sawEmpty, scan, running, reported, asked, owes, flag, shutdown>>

\* Mutant: finish_dispatcher_scan does not compare the generation.
FinishScanAnyGeneration ==
  /\ mpc = "finish"
  /\ mpc' = "check"
  /\ scanning' = FALSE /\ moved' = FALSE /\ sawEmpty' = FALSE
  /\ idle' = (sawEmpty /\ workers = {} /\ \A a \in Agents : running[a] = None)
  /\ UNCHANGED <<durable, workers, registry, worker, turns, flag, shutdown>>

FinishScan ==
  /\ mpc = "finish"
  /\ mpc' = "check"
  /\ scanning' = FALSE /\ moved' = FALSE /\ sawEmpty' = FALSE
  /\ idle' = (/\ sawEmpty /\ workers = {} /\ ~moved
              /\ \A a \in Agents : running[a] = None)
  /\ UNCHANGED <<durable, workers, registry, worker, turns, flag, shutdown>>

CheckShutdown ==
  /\ mpc = "check"
  /\ mpc' = IF flag /\ workers = {} THEN "ended" ELSE "select"
  /\ UNCHANGED <<durable, sawEmpty, workers, scan, registry, worker, turns, flag,
                 shutdown>>

\* select! evaluates every precondition first; with no branch left it panics.
Select ==
  /\ mpc = "select"
  /\ mpc' = IF ~flag THEN "parked" ELSE IF workers # {} THEN "joining" ELSE "panicked"
  /\ UNCHANGED <<durable, sawEmpty, workers, scan, registry, worker, turns, flag,
                 shutdown>>

\* work_available, the gate or the idle timer ends the select.
Wake ==
  /\ mpc = "parked"
  /\ mpc' = "begin"
  /\ UNCHANGED <<durable, sawEmpty, workers, scan, registry, worker, turns, flag,
                 shutdown>>

\* join_next; a failed manager reaps too while it waits for preparations.
Join(c) ==
  /\ mpc \in {"parked", "joining", "failed"}
  /\ c \in workers /\ wpc[c] = "finished"
  /\ workers' = workers \ {c}
  /\ wpc' = [wpc EXCEPT ![c] = "free"]
  /\ mpc' = IF mpc = "failed" THEN mpc ELSE "begin"
  /\ UNCHANGED <<durable, sawEmpty, scan, registry, wagent, wturn, reported, turns,
                 flag, shutdown>>

\* executor.interrupt: a run that is over is not affected.
Ask(runs) ==
  asked' = asked \cup {t \in runs : run[t] \in {"live", "resumed", "waiting"}}

\* The runs an interrupt is requested of: published and not known to wait.
Interruptible ==
  {running[a].run : a \in {b \in Agents : /\ running[b] # None
                                          /\ running[b].run # None
                                          /\ ~running[b].waiting}}

FailedManagerCancels ==
  /\ mpc = "failed"
  /\ preparing = {}
  /\ Ask(Interruptible)
  /\ mpc' = "cancelled"
  /\ UNCHANGED <<durable, sawEmpty, workers, scan, registry, worker, run, holders,
                 owes, flag, shutdown>>

\* Aborted workers are dropped with their guards and permits; a preparation job
\* that was submitted keeps its own clone and runs on.
DropWorkers ==
  LET gone == {c \in workers : wpc[c] \notin {"job", "starting"}} IN
  /\ workers' = {}
  /\ preparing' = preparing \ workers
  /\ running' = [a \in Agents |->
       IF running[a] # None /\ running[a].claim \in workers THEN None ELSE running[a]]
  /\ wpc' = [c \in Claims |-> IF c \in gone THEN "free" ELSE wpc[c]]
  /\ reported' = reported \ gone
  /\ holders' = [t \in Turns |-> holders[t] \ gone]
  /\ wagent' = [c \in Claims |-> IF c \in gone THEN None ELSE wagent[c]]
  /\ wturn' = [c \in Claims |-> IF c \in gone THEN None ELSE wturn[c]]

FailedManagerEnds ==
  /\ mpc = "cancelled"
  /\ DropWorkers
  /\ mpc' = "ended"
  /\ scanning' = FALSE /\ moved' = FALSE
  /\ UNCHANGED <<durable, sawEmpty, idle, run, asked, owes, flag, shutdown>>

AbortedManagerDrops ==
  /\ mpc \in {"aborted", "claim_lost"} /\ workers # {}
  /\ DropWorkers
  /\ UNCHANGED <<durable, mpc, sawEmpty, scan, run, asked, owes, flag, shutdown>>

-----------------------------------------------------------------------------
\* Workers: run_claimed_wake, run_recovered_wake, observe_and_settle

Goto(c, place) == wpc' = [wpc EXCEPT ![c] = place]

\* Mutant: the registry is keyed by the agent twice.
RegisterByAgent(c, r, waits) ==
  running' = [running EXCEPT ![wagent[c]] =
                [claim |-> wagent[c], run |-> r, waiting |-> waits]]

Register(c, r, waits) ==
  running' = [running EXCEPT ![wagent[c]] = [claim |-> c, run |-> r, waiting |-> waits]]

DropPermit(c) == holders' = [t \in Turns |-> holders[t] \ {c}]

\* RunningDispatchGuard::drop removes the entry of its own claim only.
DropRunningGuard(c) ==
  running' = [a \in Agents |->
    IF running[a] # None /\ running[a].claim = c THEN None ELSE running[a]]

\* The worker returns; a job whose worker was aborted has nobody to return to.
Return(c) ==
  /\ Goto(c, IF c \in workers THEN "finished" ELSE "free")
  /\ reported' = reported \ {c}
  /\ wagent' = [wagent EXCEPT ![c] = None]
  /\ wturn' = [wturn EXCEPT ![c] = None]

\* An error return: the wake stays claimed for recovery.
Abandon(c) ==
  /\ DropRunningGuard(c)
  /\ preparing' = preparing \ {c}
  /\ DropPermit(c)
  /\ NotifyWork
  /\ Return(c)
  /\ UNCHANGED <<durable, manager, flag, shutdown>>

\* settle() finishes the wake of its claim; the result may wake the parent.
Settle(c) ==
  /\ owner[wagent[c]] = c
  /\ owner' = [owner EXCEPT ![wagent[c]] = None]
  /\ turn' = [turn EXCEPT ![wagent[c]] = None]
  /\ \E parent \in SUBSET (Agents \ {wagent[c]}) :
       Cardinality(parent) <= 1 /\ queued' = queued \cup parent

BeginPreparation(c) ==
  /\ wpc[c] = "spawned"
  /\ Register(c, None, FALSE)
  /\ Goto(c, "job")
  /\ UNCHANGED <<durable, manager, scan, preparing, wagent, wturn, reported, turns,
                 flag, shutdown>>

\* The preparation job sees shutdown, or that the lease is lost.
RefuseStart(c) ==
  /\ wpc[c] = "job"
  /\ Abandon(c)
  /\ UNCHANGED <<run, asked, owes>>

Start(c) ==
  /\ wpc[c] = "job"
  /\ ~flag
  /\ Goto(c, "starting")
  /\ UNCHANGED <<durable, manager, scan, registry, wagent, wturn, reported, turns,
                 flag, shutdown>>

\* executor.start admits the turn and keeps a clone of the permit.
StartSucceeds(c) ==
  /\ wpc[c] = "starting"
  /\ owner[wagent[c]] = c
  /\ turn' = [turn EXCEPT ![wagent[c]] = c]
  /\ run' = [run EXCEPT ![c] = "live"]
  /\ holders' = [holders EXCEPT ![c] = @ \cup {Service}]
  /\ Goto(c, "started")
  /\ UNCHANGED <<queued, owner, manager, scan, registry, wagent, wturn, reported,
                 asked, owes, flag, shutdown>>

\* start() fails: the wake is settled as failed if the claim still owns it.
StartFails(c) ==
  /\ wpc[c] = "starting"
  /\ \/ /\ Settle(c)
        /\ Goto(c, "settled")
        /\ UNCHANGED <<manager, scan, registry, wagent, wturn, reported, holders,
                       flag, shutdown>>
     \/ owner[wagent[c]] # c /\ Abandon(c)
  /\ UNCHANGED <<run, asked, owes>>

\* running.run_id = Some(..)
PublishRun(c) ==
  running' = [a \in Agents |->
    IF running[a] # None /\ running[a].claim = c
      THEN [running[a] EXCEPT !.run = c] ELSE running[a]]

\* Mutant: a start that raced shutdown is left to shutdown's own sweeps.
StartedQuietly(c) ==
  /\ wpc[c] = "started"
  /\ PublishRun(c)
  /\ Goto(c, "handover")
  /\ UNCHANGED <<durable, manager, scan, preparing, wagent, wturn, reported, turns,
                 flag, shutdown>>

\* The run is published; a start that raced shutdown is interrupted by its own
\* worker.
Started(c) ==
  /\ wpc[c] = "started"
  /\ PublishRun(c)
  /\ Ask(IF flag THEN {c} ELSE {})
  /\ Goto(c, "handover")
  /\ UNCHANGED <<durable, manager, scan, preparing, wagent, wturn, reported, run,
                 holders, owes, flag, shutdown>>

\* Mutant: the preparing guard lives as long as the worker.
HandoverAtReturn(c) ==
  /\ wpc[c] = "handover"
  /\ Goto(c, "observing")
  /\ UNCHANGED <<durable, manager, scan, registry, wagent, wturn, reported, turns,
                 flag, shutdown>>

\* drop(preparing)
Handover(c) ==
  /\ wpc[c] = "handover"
  /\ preparing' = preparing \ {c}
  /\ Goto(c, "observing")
  /\ UNCHANGED <<durable, manager, scan, running, wagent, wturn, reported, turns,
                 flag, shutdown>>

\* The lease failed: the exact run is interrupted and the worker gives up.
LoseLease(c) ==
  /\ wpc[c] \in {"started", "observing"}
  /\ Ask({wturn[c]})
  /\ Abandon(c)
  /\ UNCHANGED <<run, owes>>

\* Observing or a storage call failed.
ObservationFails(c) ==
  /\ wpc[c] = "observing"
  /\ Abandon(c)
  /\ UNCHANGED <<run, asked, owes>>

\* The registry entry of the observed run, whichever claim it is under.
SetWaiting(c, waits) ==
  /\ reported' = IF waits THEN reported \cup {c} ELSE reported \ {c}
  /\ running' = [a \in Agents |->
       IF a = wagent[c] /\ running[a] # None /\ running[a].run = wturn[c]
         THEN [running[a] EXCEPT !.waiting = waits] ELSE running[a]]

ObserveWaiting(c) ==
  /\ wpc[c] = "observing" /\ c \notin reported
  /\ run[wturn[c]] = "waiting"
  /\ SetWaiting(c, TRUE)
  /\ UNCHANGED <<durable, manager, scan, preparing, wpc, wagent, wturn, turns, flag,
                 shutdown>>

\* mark_waiting_for_approval answers that the tree was stopped.
ObserveStopped(c) ==
  /\ wpc[c] = "observing" /\ c \notin reported
  /\ run[wturn[c]] = "waiting"
  /\ Settle(c)
  /\ run' = [run EXCEPT ![wturn[c]] = "terminal"]
  /\ asked' = asked \ {wturn[c]}
  /\ Goto(c, "settled")
  /\ UNCHANGED <<manager, scan, registry, wagent, wturn, reported, holders, owes,
                 flag, shutdown>>

ObserveResumed(c) ==
  /\ wpc[c] = "observing" /\ c \in reported
  /\ run[wturn[c]] = "resumed"
  /\ SetWaiting(c, FALSE)
  /\ UNCHANGED <<durable, manager, scan, preparing, wpc, wagent, wturn, turns, flag,
                 shutdown>>

ObserveTerminal(c) ==
  /\ wpc[c] = "observing"
  /\ run[wturn[c]] = "terminal"
  /\ \/ /\ Settle(c)
        /\ Goto(c, "settled")
        /\ UNCHANGED <<manager, scan, registry, wagent, wturn, reported, holders,
                       flag, shutdown>>
     \/ owner[wagent[c]] # c /\ Abandon(c)
  /\ UNCHANGED <<run, asked, owes>>

\* notify_dispatcher_work_available, then the permit goes with observe_and_settle.
NotifySettled(c) ==
  /\ wpc[c] = "settled"
  /\ NotifyWork
  /\ DropPermit(c)
  /\ Goto(c, "leaving")
  /\ UNCHANGED <<durable, manager, registry, wagent, wturn, reported, run, asked,
                 owes, flag, shutdown>>

Leave(c) ==
  /\ wpc[c] = "leaving"
  /\ DropRunningGuard(c)
  /\ preparing' = preparing \ {c}
  /\ NotifyWork
  /\ Return(c)
  /\ UNCHANGED <<durable, manager, turns, flag, shutdown>>

\* AgentWakeRecoveryAction::Observe, with a clone of the adopted permit if there
\* is one.
ObserveRecovered(c) ==
  /\ wpc[c] = "observer"
  /\ LET t == wturn[c] IN
     /\ holders' = [holders EXCEPT ![t] = IF Service \in @ THEN @ \cup {c} ELSE @]
     /\ Register(c, t, run[t] = "waiting")
     /\ reported' = IF run[t] = "waiting" THEN reported \cup {c} ELSE reported
  /\ Goto(c, "observing")
  /\ UNCHANGED <<durable, manager, scan, preparing, wagent, wturn, run, asked, owes,
                 flag, shutdown>>

\* FailBeforeRuntime, OutcomeUnknown, TreeStopped: settled without a replay, the
\* turn retired from AgentService.  Nobody is notified but the manager, by join.
SettleWithoutReplay(c) ==
  /\ wpc[c] \in {"unknown", "observer"}
  /\ \/ /\ Settle(c)
        /\ run' = [run EXCEPT ![wturn[c]] = "terminal"]
        /\ asked' = asked \ {wturn[c]}
        /\ holders' = [holders EXCEPT ![wturn[c]] = @ \ {Service}]
     \/ owner[wagent[c]] # c /\ UNCHANGED <<durable, run, asked, holders>>
  /\ Return(c)
  /\ UNCHANGED <<manager, scan, registry, owes, flag, shutdown>>

-----------------------------------------------------------------------------
\* Turns, as AgentService runs them

\* try_acquire by a public root turn; its wakes come from its tool calls.  The
\* host stops accepting turns before it shuts the dispatcher down.
RootStarts(r) ==
  /\ r \in Roots /\ holders[r] = {}
  /\ spc = "none"
  /\ HasCapacity
  /\ holders' = [holders EXCEPT ![r] = {Service}]
  /\ UNCHANGED <<durable, manager, scan, registry, worker, run, asked, owes, flag,
                 shutdown>>

CommitWake(t, a) ==
  /\ Executing(t) /\ t \notin owes
  /\ queued' = queued \cup {a}
  /\ owes' = owes \cup {t}
  /\ UNCHANGED <<owner, turn, manager, scan, registry, worker, run, asked, holders,
                 flag, shutdown>>

NotifyCommitted(t) ==
  /\ t \in owes
  /\ owes' = owes \ {t}
  /\ NotifyWork
  /\ UNCHANGED <<durable, manager, registry, worker, run, asked, holders, flag,
                 shutdown>>

RootEnds(r) ==
  /\ r \in Roots /\ holders[r] # {} /\ r \notin owes
  /\ holders' = [holders EXCEPT ![r] = {}]
  /\ UNCHANGED <<durable, manager, scan, registry, worker, run, asked, owes, flag,
                 shutdown>>

\* A child turn asks for an approval, gets it, or ends.
TurnMoves(t, to) ==
  /\ t \in Claims /\ t \notin owes
  /\ \/ run[t] \in {"live", "resumed"} /\ to \in {"waiting", "terminal"}
     \/ run[t] = "waiting" /\ to \in {"resumed", "terminal"}
  /\ run' = [run EXCEPT ![t] = to]
  /\ asked' = IF to = "terminal" THEN asked \ {t} ELSE asked
  /\ UNCHANGED <<durable, manager, scan, registry, worker, holders, owes, flag,
                 shutdown>>

\* release_turn_concurrency_permit once the turn is terminal
ServiceReleases(t) ==
  /\ t \in Claims /\ run[t] = "terminal" /\ Service \in holders[t]
  /\ holders' = [holders EXCEPT ![t] = @ \ {Service}]
  /\ UNCHANGED <<durable, manager, scan, registry, worker, run, asked, owes, flag,
                 shutdown>>

-----------------------------------------------------------------------------
\* AgentDispatcher::shutdown

Gone == mpc \in {"ended", "panicked"}

RequestShutdown ==
  /\ spc = "none"
  /\ flag' = TRUE
  /\ spc' = "grace"
  /\ UNCHANGED <<durable, manager, scan, registry, worker, turns, late, hold>>

\* The manager finishes within the grace period, or after a sweep.
ManagerJoined ==
  /\ spc \in {"grace", "swept"} /\ Gone
  /\ spc' = "returned"
  /\ UNCHANGED <<durable, manager, scan, registry, worker, turns, flag, late, hold>>

GraceExpires ==
  /\ spc = "grace" /\ ~Gone
  /\ spc' = "sweep"
  /\ UNCHANGED <<durable, manager, scan, registry, worker, turns, flag, late, hold>>

Sweep ==
  /\ spc = "sweep"
  /\ Ask(Interruptible)
  /\ spc' = "swept"
  /\ UNCHANGED <<durable, manager, scan, registry, worker, run, holders, owes, flag,
                 late, hold>>

DeadlinePasses ==
  /\ spc \in {"sweep", "swept", "decide"} /\ ~late
  /\ late' = TRUE
  /\ UNCHANGED <<durable, manager, scan, registry, worker, turns, flag, spc, hold>>

\* The clock and preparing are read before scan_in_progress.
ReadPreparing ==
  /\ spc = "swept" /\ ~Gone
  /\ hold' = (~late \/ preparing # {})
  /\ spc' = "decide"
  /\ UNCHANGED <<durable, manager, scan, registry, worker, turns, flag, late>>

Abort == mpc' = IF Gone THEN mpc ELSE IF mpc = "claiming" THEN "claim_lost" ELSE "aborted"

\* Mutant: a scan in progress does not keep shutdown.
DecideDuringScan ==
  /\ spc = "decide"
  /\ hold' = FALSE
  /\ IF hold THEN spc' = "sweep" /\ UNCHANGED mpc ELSE spc' = "returned" /\ Abort
  /\ UNCHANGED <<durable, sawEmpty, workers, scan, registry, worker, turns, flag,
                 late>>

Decide ==
  /\ spc = "decide"
  /\ hold' = FALSE
  /\ IF hold \/ scanning THEN spc' = "sweep" /\ UNCHANGED mpc
                         ELSE spc' = "returned" /\ Abort
  /\ UNCHANGED <<durable, sawEmpty, workers, scan, registry, worker, turns, flag,
                 late>>

-----------------------------------------------------------------------------
ManagerStep ==
  \/ BeginScan \/ Recover \/ ReserveForDispatch \/ StopClaiming
  \/ NothingClaimed \/ ClaimFails
  \/ \E a \in Agents, c \in Claims : Claim(a, c)
  \/ FinishScan \/ CheckShutdown \/ Select \/ Wake
  \/ \E c \in Claims : Join(c)
  \/ FailedManagerCancels \/ FailedManagerEnds \/ AbortedManagerDrops

WorkerStep(c) ==
  \/ BeginPreparation(c) \/ RefuseStart(c) \/ Start(c)
  \/ StartSucceeds(c) \/ StartFails(c) \/ Started(c) \/ Handover(c)
  \/ LoseLease(c) \/ ObservationFails(c)
  \/ ObserveWaiting(c) \/ ObserveStopped(c) \/ ObserveResumed(c)
  \/ ObserveTerminal(c) \/ NotifySettled(c) \/ Leave(c)
  \/ ObserveRecovered(c) \/ SettleWithoutReplay(c)

TurnStep ==
  \/ \E r \in Roots : RootStarts(r) \/ RootEnds(r)
  \/ \E t \in Turns : NotifyCommitted(t) \/ \E a \in Agents : CommitWake(t, a)
  \/ \E t \in Claims : \/ ServiceReleases(t)
                       \/ \E to \in {"waiting", "resumed", "terminal"} : TurnMoves(t, to)

ShutdownStep ==
  \/ RequestShutdown \/ ManagerJoined \/ GraceExpires \/ Sweep
  \/ DeadlinePasses \/ ReadPreparing \/ Decide

Next ==
  \/ ManagerStep
  \/ \E c \in Claims : WorkerStep(c)
  \/ TurnStep
  \/ ShutdownStep

Spec == Init /\ [][Next]_vars

\* The runtime schedules the manager, shutdown and the blocking jobs it waits
\* for; the deadline passes.  Nothing is assumed of turns.
FairSpec ==
  /\ Spec
  /\ WF_vars(ManagerStep)
  /\ WF_vars(ShutdownStep /\ spc # "none") /\ WF_vars(DeadlinePasses)
  /\ \A c \in Claims : WF_vars(WorkerStep(c) /\ wpc[c] # "observing")

-----------------------------------------------------------------------------
\* Properties

\* The turns in progress, roots and children, executing or waiting.
InProgress == {t \in Claims : run[t] \in {"live", "waiting", "resumed"}}
              \cup {r \in Roots : holders[r] # {}}

\* However claims, roots and settlements interleave, no turn starts beyond the
\* limit of the gate, above which only turns found by a restart may be.
NoTurnBeyondLimit ==
  [][Cardinality(InProgress') > Cardinality(InProgress)
       => Cardinality(InProgress') <= Limit]_vars

\* When wait_until_turns_settled returns, no wake that a finished turn or a
\* settlement committed is left for the dispatcher to claim.
QuiescentMeansSettled ==
  /\ ~scanning /\ idle /\ active = 0 /\ \A a \in Agents : running[a] = None
  => workers = {} /\ (owes = {} => Dispatchable = {})

\* After shutdown returned no claim and no executor.start is in flight whose
\* result nobody would take over.
ShutdownLeavesNothingInFlight ==
  spc = "returned" => /\ mpc # "claim_lost"
                      /\ \A c \in Claims : wpc[c] # "starting"

\* When shutdown or a failed manager gives its observers up, every turn they
\* still observe was asked to stop, unless it waits or waited for an approval.
UnfinishedTurnsWereAsked ==
  spc = "returned" \/ mpc = "cancelled" =>
    \A c \in workers : wpc[c] = "observing" /\ run[wturn[c]] = "live"
                         => wturn[c] \in asked

\* shutdown returns, however long turns run and approvals wait.
ShutdownReturns == spc # "none" ~> spc = "returned"

\* shutdown() promises that waiting approvals remain durable and are never
\* guessed cancelled: no interrupt it requests reaches a turn that waits.
ShutdownSparesApprovals ==
  [][Sweep => \A t \in asked' \ asked : run[t] # "waiting"]_vars
=============================================================================
