-------------------------- MODULE Dispatcher_proofs --------------------------
(***************************************************************************)
(* Proofs of the safety properties of the dispatcher, for any number of    *)
(* agents, claims and root turns and any limit.                            *)
(*                                                                         *)
(* Shutdown leaves nothing in flight (IInv): a preparation is in flight    *)
(* only while its claim is in preparing, none starts once                  *)
(* shutdown_requested is set, and a manager that is gone has either joined *)
(* its workers or waited for preparing to empty.  Quiescence is real       *)
(* (QInv).  Sweeps reach every turn and the gate holds (DInv): both need   *)
(* which turn each worker, wake, registry entry and permit stands for.     *)
(***************************************************************************)
EXTENDS Dispatcher, FiniteSetTheorems, TLAPS

Starting == {c \in Claims : wpc[c] = "starting"}

\* The flag is never taken back, and everybody who gives up has set it.
FlagIsSet ==
  /\ flag \in BOOLEAN
  /\ spc # "none" => flag
  /\ mpc \in {"failed", "cancelled", "ended", "panicked", "aborted", "claim_lost"} => flag

\* A preparation is registered in preparing from its claim to its handover.
PreparationsAreKnown ==
  \A c \in Claims :
    /\ wpc[c] \in {"spawned", "starting"} => c \in preparing /\ c \in workers
    /\ wpc[c] = "job" => (c \in preparing /\ c \in workers) \/ flag

\* Those who rely on the absence of preparations are right to.
NoneStarting ==
  \/ mpc \in {"cancelled", "ended", "panicked", "aborted", "claim_lost"}
  \/ spc = "returned"
  \/ spc = "decide" /\ ~hold
  => Starting = {}

\* A claim is in flight only during a scan.
ClaimsAreScans ==
  /\ mpc \in {"recover", "claim", "claiming", "finish"} => scanning
  /\ mpc # "claim_lost"

Places ==
  {"free", "spawned", "job", "starting", "started", "handover", "observing",
   "observer", "unknown", "settled", "leaving", "finished"}

IInv ==
  /\ wpc \in [Claims -> Places]
  /\ FlagIsSet /\ PreparationsAreKnown /\ NoneStarting /\ ClaimsAreScans

\* Whoever may still settle a wake is in the JoinSet.
WorkersAreJoined == \A c \in Claims : wpc[c] \notin {"free", "job"} => c \in workers

\* An idle queue was seen by a scan that is over, with every worker joined.
IdleAfterScans ==
  /\ idle => workers = {}
  /\ idle => mpc \notin {"recover", "claim", "claiming", "finish", "failed", "cancelled"}
  /\ sawEmpty => mpc = "finish"

\* What was seen empty, and has not been notified of since, is empty but for
\* wakes whose notification is still owed.
EmptyUntilNotified ==
  /\ idle \/ (mpc = "finish" /\ sawEmpty /\ ~moved)
  /\ workers = {} /\ owes = {}
  => Dispatchable = {}

QInv == WorkersAreJoined /\ IdleAfterScans /\ EmptyUntilNotified

\* The tuples of variables, and the parts of the invariant, are read everywhere.
USE DEF durable, manager, scan, registry, worker, turns, shutdown
USE DEF IInv, FlagIsSet, PreparationsAreKnown, NoneStarting,
        ClaimsAreScans, Starting, Places

\* The manager keeps the invariant: it gives up only after joining its workers
\* or after preparing emptied under the flag.
LEMMA ManagerKeeps ==
  ASSUME IInv, ManagerStep
  PROVE  IInv'
<1>1. CASE BeginScan
  BY <1>1 DEF BeginScan
<1>2. CASE Recover
  BY <1>2 DEF Recover
<1>3. CASE ReserveForDispatch
  BY <1>3 DEF ReserveForDispatch
<1>4. CASE StopClaiming
  BY <1>4 DEF StopClaiming
<1>5. CASE NothingClaimed
  BY <1>5 DEF NothingClaimed
<1>6. CASE ClaimFails
  BY <1>6 DEF ClaimFails
<1>7. CASE FinishScan
  BY <1>7 DEF FinishScan
<1>8. CASE CheckShutdown
  BY <1>8 DEF CheckShutdown
<1>9. CASE Select
  BY <1>9 DEF Select
<1>10. CASE Wake
  BY <1>10 DEF Wake
<1>11. CASE FailedManagerCancels
  BY <1>11 DEF FailedManagerCancels
<1>12. CASE FailedManagerEnds
  BY <1>12 DEF FailedManagerEnds, DropWorkers
<1>13. CASE AbortedManagerDrops
  BY <1>13 DEF AbortedManagerDrops, DropWorkers
<1>14. ASSUME NEW a \in Agents, NEW c \in Claims, Claim(a, c)
  PROVE  IInv'
  BY <1>14 DEF Claim
<1>15. ASSUME NEW c \in Claims, Join(c)
  PROVE  IInv'
  BY <1>15 DEF Join
<1>16. QED
  BY <1>1, <1>2, <1>3, <1>4, <1>5, <1>6, <1>7, <1>8, <1>9, <1>10,
     <1>11, <1>12, <1>13, <1>14, <1>15 DEF ManagerStep

\* A worker keeps it: it starts only before the flag, from a registered job.
LEMMA WorkerKeeps ==
  ASSUME IInv, NEW c \in Claims, WorkerStep(c)
  PROVE  IInv'
<1>1. CASE BeginPreparation(c)
  BY <1>1 DEF BeginPreparation, Goto
<1>2. CASE RefuseStart(c)
  BY <1>2 DEF RefuseStart, Abandon, Return, Goto, NotifyWork
<1>3. CASE Start(c)
  BY <1>3 DEF Start, Goto
<1>4. CASE StartSucceeds(c)
  BY <1>4 DEF StartSucceeds, Goto
<1>5. CASE StartFails(c)
  BY <1>5 DEF StartFails, Abandon, Return, Goto, NotifyWork
<1>6. CASE Started(c)
  BY <1>6 DEF Started, Goto
<1>7. CASE Handover(c)
  BY <1>7 DEF Handover, Goto
<1>8. CASE LoseLease(c)
  BY <1>8 DEF LoseLease, Abandon, Return, Goto, NotifyWork
<1>9. CASE ObservationFails(c)
  BY <1>9 DEF ObservationFails, Abandon, Return, Goto, NotifyWork
<1>10. CASE ObserveWaiting(c)
  BY <1>10 DEF ObserveWaiting
<1>11. CASE ObserveStopped(c)
  BY <1>11 DEF ObserveStopped, Goto
<1>12. CASE ObserveResumed(c)
  BY <1>12 DEF ObserveResumed
<1>13. CASE ObserveTerminal(c)
  BY <1>13 DEF ObserveTerminal, Abandon, Return, Goto, NotifyWork
<1>14. CASE NotifySettled(c)
  BY <1>14 DEF NotifySettled, Goto, NotifyWork
<1>15. CASE Leave(c)
  BY <1>15 DEF Leave, Return, Goto, NotifyWork
<1>16. CASE ObserveRecovered(c)
  BY <1>16 DEF ObserveRecovered, Goto
<1>17. CASE SettleWithoutReplay(c)
  BY <1>17 DEF SettleWithoutReplay, Return, Goto
<1>18. QED
  BY <1>1, <1>2, <1>3, <1>4, <1>5, <1>6, <1>7, <1>8, <1>9, <1>10,
     <1>11, <1>12, <1>13, <1>14, <1>15, <1>16, <1>17 DEF WorkerStep

\* Turns touch none of it.
LEMMA TurnKeeps ==
  ASSUME IInv, TurnStep
  PROVE  IInv'
<1>1. UNCHANGED <<mpc, workers, scanning, preparing, wpc, flag, spc, hold>>
  BY DEF TurnStep, RootStarts, RootEnds, NotifyCommitted, CommitWake, ServiceReleases,
         TurnMoves, NotifyWork
<1>2. QED
  BY <1>1

\* Shutdown keeps it: it reads preparing first and scan_in_progress second.
LEMMA ShutdownKeeps ==
  ASSUME IInv, ShutdownStep
  PROVE  IInv'
<1>1. CASE RequestShutdown
  BY <1>1 DEF RequestShutdown
<1>2. CASE ManagerJoined
  BY <1>2 DEF ManagerJoined, Gone
<1>3. CASE GraceExpires
  BY <1>3 DEF GraceExpires, Gone
<1>4. CASE Sweep
  BY <1>4 DEF Sweep
<1>5. CASE DeadlinePasses
  BY <1>5 DEF DeadlinePasses
<1>6. CASE ReadPreparing
  BY <1>6 DEF ReadPreparing, Gone
<1>7. CASE Decide
  BY <1>7 DEF Decide, Abort, Gone
<1>8. QED
  BY <1>1, <1>2, <1>3, <1>4, <1>5, <1>6, <1>7 DEF ShutdownStep

\* Shutdown returns, on every path and in every interleaving, only when no claim
\* and no executor.start is in flight.
THEOREM ShutdownIsQuiet == Spec => []ShutdownLeavesNothingInFlight
<1>1. Init => IInv
  <2>1. Init => /\ mpc = "begin" /\ spc = "none" /\ flag = FALSE
                /\ wpc = [c \in Claims |-> "free"]
    BY DEF Init
  <2>2. QED
    BY <2>1
<1>2. IInv /\ [Next]_vars => IInv'
  <2>1. CASE UNCHANGED vars
    BY <2>1 DEF vars
  <2>2. QED
    BY <2>1, ManagerKeeps, WorkerKeeps, TurnKeeps, ShutdownKeeps DEF Next
<1>3. IInv => ShutdownLeavesNothingInFlight
  BY DEF ShutdownLeavesNothingInFlight
<1>4. QED
  BY <1>1, <1>2, <1>3, PTL DEF Spec

-----------------------------------------------------------------------------
USE DEF QInv, WorkersAreJoined, IdleAfterScans, EmptyUntilNotified, Dispatchable

\* The manager keeps it: a scan reports an empty queue only if no notification
\* came since it began, and joins a worker only between scans.
LEMMA ManagerKeepsQ ==
  ASSUME IInv, QInv, ManagerStep
  PROVE  QInv'
<1>1. CASE BeginScan
  BY <1>1 DEF BeginScan
<1>2. CASE Recover
  BY <1>2 DEF Recover
<1>3. CASE ReserveForDispatch
  BY <1>3 DEF ReserveForDispatch
<1>4. CASE StopClaiming
  BY <1>4 DEF StopClaiming
<1>5. CASE NothingClaimed
  BY <1>5 DEF NothingClaimed
<1>6. CASE ClaimFails
  BY <1>6 DEF ClaimFails
<1>7. CASE FinishScan
  BY <1>7 DEF FinishScan
<1>8. CASE CheckShutdown
  BY <1>8 DEF CheckShutdown
<1>9. CASE Select
  BY <1>9 DEF Select
<1>10. CASE Wake
  BY <1>10 DEF Wake
<1>11. CASE FailedManagerCancels
  BY <1>11 DEF FailedManagerCancels
<1>12. CASE FailedManagerEnds
  BY <1>12 DEF FailedManagerEnds, DropWorkers
<1>13. CASE AbortedManagerDrops
  BY <1>13 DEF AbortedManagerDrops, DropWorkers
<1>14. ASSUME NEW a \in Agents, NEW c \in Claims, Claim(a, c)
  PROVE  QInv'
  BY <1>14 DEF Claim
<1>15. ASSUME NEW c \in Claims, Join(c)
  PROVE  QInv'
  BY <1>15 DEF Join
<1>16. QED
  BY <1>1, <1>2, <1>3, <1>4, <1>5, <1>6, <1>7, <1>8, <1>9, <1>10,
     <1>11, <1>12, <1>13, <1>14, <1>15 DEF ManagerStep

\* A worker keeps it: while it can settle, the JoinSet is not empty.
LEMMA WorkerKeepsQ ==
  ASSUME IInv, QInv, NEW c \in Claims, WorkerStep(c)
  PROVE  QInv'
<1>1. CASE BeginPreparation(c)
  BY <1>1 DEF BeginPreparation, Goto
<1>2. CASE RefuseStart(c)
  BY <1>2 DEF RefuseStart, Abandon, Return, Goto, NotifyWork
<1>3. CASE Start(c)
  BY <1>3 DEF Start, Goto
<1>4. CASE StartSucceeds(c)
  BY <1>4 DEF StartSucceeds, Goto
<1>5. CASE StartFails(c)
  BY <1>5 DEF StartFails, Abandon, Return, Goto, NotifyWork
<1>6. CASE Started(c)
  BY <1>6 DEF Started, Goto
<1>7. CASE Handover(c)
  BY <1>7 DEF Handover, Goto
<1>8. CASE LoseLease(c)
  BY <1>8 DEF LoseLease, Abandon, Return, Goto, NotifyWork
<1>9. CASE ObservationFails(c)
  BY <1>9 DEF ObservationFails, Abandon, Return, Goto, NotifyWork
<1>10. CASE ObserveWaiting(c)
  BY <1>10 DEF ObserveWaiting
<1>11. CASE ObserveStopped(c)
  BY <1>11 DEF ObserveStopped, Goto
<1>12. CASE ObserveResumed(c)
  BY <1>12 DEF ObserveResumed
<1>13. CASE ObserveTerminal(c)
  BY <1>13 DEF ObserveTerminal, Abandon, Return, Goto, NotifyWork
<1>14. CASE NotifySettled(c)
  BY <1>14 DEF NotifySettled, Goto, NotifyWork
<1>15. CASE Leave(c)
  BY <1>15 DEF Leave, Return, Goto, NotifyWork
<1>16. CASE ObserveRecovered(c)
  BY <1>16 DEF ObserveRecovered, Goto
<1>17. CASE SettleWithoutReplay(c)
  BY <1>17 DEF SettleWithoutReplay, Return, Goto
<1>18. QED
  BY <1>1, <1>2, <1>3, <1>4, <1>5, <1>6, <1>7, <1>8, <1>9, <1>10,
     <1>11, <1>12, <1>13, <1>14, <1>15, <1>16, <1>17 DEF WorkerStep

\* A turn owes the notification from its commit on.
LEMMA TurnKeepsQ ==
  ASSUME IInv, QInv, TurnStep
  PROVE  QInv'
<1>1. ASSUME NEW t \in Turns, NEW a \in Agents, CommitWake(t, a)
      PROVE  QInv'
  BY <1>1 DEF CommitWake
<1>2. ASSUME NEW t \in Turns, NotifyCommitted(t)
      PROVE  QInv'
  BY <1>2 DEF NotifyCommitted, NotifyWork
<1>3. ASSUME \/ \E r \in Roots : RootStarts(r) \/ RootEnds(r)
             \/ \E t \in Claims : ServiceReleases(t) \/ \E to : TurnMoves(t, to)
      PROVE  QInv'
  <2>1. UNCHANGED <<queued, owner, manager, scan, wpc, owes>>
    BY <1>3 DEF RootStarts, RootEnds, ServiceReleases, TurnMoves
  <2>2. QED
    BY <2>1
<1>4. QED
  BY <1>1, <1>2, <1>3 DEF TurnStep

\* Shutdown touches the manager only outside scans.
LEMMA ShutdownKeepsQ ==
  ASSUME IInv, QInv, ShutdownStep
  PROVE  QInv'
<1>1. CASE RequestShutdown
  BY <1>1 DEF RequestShutdown
<1>2. CASE ManagerJoined
  BY <1>2 DEF ManagerJoined, Gone
<1>3. CASE GraceExpires
  BY <1>3 DEF GraceExpires, Gone
<1>4. CASE Sweep
  BY <1>4 DEF Sweep
<1>5. CASE DeadlinePasses
  BY <1>5 DEF DeadlinePasses
<1>6. CASE ReadPreparing
  BY <1>6 DEF ReadPreparing, Gone
<1>7. CASE Decide
  BY <1>7 DEF Decide, Abort, Gone
<1>8. QED
  BY <1>1, <1>2, <1>3, <1>4, <1>5, <1>6, <1>7 DEF ShutdownStep

\* What wait_until_turns_settled waits for: once it may return, every worker was
\* joined and no wake is left to claim that its committer has notified.
THEOREM QuiescenceIsReal == Spec => []QuiescentMeansSettled
<1>1. Init => IInv /\ QInv
  <2>1. Init => /\ mpc = "begin" /\ spc = "none" /\ flag = FALSE /\ idle = FALSE
                /\ sawEmpty = FALSE /\ wpc = [c \in Claims |-> "free"]
    BY DEF Init
  <2>2. QED
    BY <2>1
<1>2. IInv /\ QInv /\ [Next]_vars => (IInv /\ QInv)'
  <2>1. CASE UNCHANGED vars
    BY <2>1 DEF vars
  <2>2. QED
    BY <2>1, ManagerKeeps, WorkerKeeps, TurnKeeps, ShutdownKeeps, ManagerKeepsQ,
       WorkerKeepsQ, TurnKeepsQ, ShutdownKeepsQ DEF Next
<1>3. QInv => QuiescentMeansSettled
  BY DEF QuiescentMeansSettled
<1>4. QED
  BY <1>1, <1>2, <1>3, PTL DEF Spec

-----------------------------------------------------------------------------
\* Which turn each worker, wake and registry entry stands for

Preparing == {"spawned", "job", "starting"}
Bearing   == {"started", "handover", "observing", "observer", "unknown"}
Watching  == {"started", "handover", "observing"}

\* A worker knows its agent and its turn; one that prepares a turn is alone with it.
WorkersAreBound ==
  \A c \in Claims :
    /\ wpc[c] \notin {"free", "finished"} => wagent[c] \in Agents /\ wturn[c] \in Claims
    /\ wpc[c] \in Preparing \cup {"started", "handover"} => wturn[c] = c
    /\ wpc[c] \in Preparing => /\ \A d \in Claims : wturn[d] = c => d = c
                               /\ \A a \in Agents : turn[a] # c

\* No two wakes share a claim or a turn, and a wake without a claim has no turn.
WakesAreApart ==
  /\ \A a, b \in Agents :
       /\ owner[a] = owner[b] /\ owner[a] # None => a = b
       /\ turn[a] = turn[b] /\ turn[a] # None => a = b
       /\ owner[a] = turn[b] /\ owner[a] # None => a = b
  /\ \A a \in Agents : owner[a] = None => turn[a] = None

\* A worker that owns its wake agrees with it about the turn.
OwnersAgree ==
  \A c \in Claims :
    /\ \A a \in Agents : owner[a] = c /\ wpc[c] \in Preparing \cup Bearing => wagent[c] = a
    /\ wpc[c] \in {"spawned", "observer", "unknown"} => owner[wagent[c]] = c
    /\ wpc[c] \in Preparing /\ owner[wagent[c]] = c => turn[wagent[c]] = None
    /\ wpc[c] \in Bearing /\ owner[wagent[c]] = c => turn[wagent[c]] = wturn[c]

\* A turn that has never waited is bound to its wake for as long as it is
\* watched, and only the worker that started it watches it.
LiveTurnsAreBound ==
  \A c \in Claims :
    /\ wpc[c] \in Watching /\ run[wturn[c]] = "live" => turn[wagent[c]] = wturn[c]
    /\ wpc[c] = "observer" => run[wturn[c]] # "live"

Entry(c, r) == [claim |-> c, run |-> r, waiting |-> FALSE]

\* The registry entry of a turn that has never waited is that of its worker.
RunsArePublished ==
  \A c \in Claims :
    /\ \/ wpc[c] = "job" /\ ~flag
       \/ wpc[c] = "starting"
       => (owner[wagent[c]] = c => running[wagent[c]] = Entry(c, None))
    /\ wpc[c] = "started" /\ run[wturn[c]] = "live" => running[wagent[c]] = Entry(c, None)
    /\ wpc[c] \in {"handover", "observing"} /\ run[wturn[c]] = "live" =>
         running[wagent[c]] = Entry(c, wturn[c])

\* From a sweep on, every turn that is watched was asked to stop or will be.
SweptTurnsWereAsked ==
  spc \in {"swept", "decide", "returned"} \/ mpc = "cancelled" =>
    \A c \in Claims : wpc[c] \in {"handover", "observing"} /\ run[wturn[c]] = "live"
                        => wturn[c] \in asked

\* A manager that is gone has no worker.
GoneWithoutWorkers == Gone => workers = {}

\* A turn in progress holds its permit, and so does one being prepared.
PermitsAreHeld ==
  /\ \A t \in Claims : run[t] \in {"live", "waiting", "resumed"} => Service \in holders[t]
  /\ \A c \in Claims : wpc[c] \in Preparing => c \in holders[c]

\* A slot is reserved within the limit, and a turn is prepared within it.
SlotsAreReserved ==
  /\ mpc = "claiming" => active < Limit
  /\ (\E c \in Claims : wpc[c] \in Preparing) => active <= Limit

DInv ==
  /\ TypeOK /\ IInv /\ QInv
  /\ WorkersAreBound /\ WakesAreApart /\ OwnersAgree /\ LiveTurnsAreBound
  /\ RunsArePublished /\ SweptTurnsWereAsked /\ GoneWithoutWorkers
  /\ PermitsAreHeld /\ SlotsAreReserved

HIDE DEF IInv, FlagIsSet, PreparationsAreKnown, NoneStarting, ClaimsAreScans, Starting, Places
HIDE DEF QInv, WorkersAreJoined, IdleAfterScans, EmptyUntilNotified, Dispatchable
USE Sizes

\* What a settlement writes.
LEMMA SettleTypes ==
  ASSUME TypeOK, NEW c \in Claims, wagent[c] \in Agents, Settle(c)
  PROVE  /\ queued' \subseteq Agents
         /\ owner' \in [Agents -> Claims \cup {None}] /\ turn' \in [Agents -> Claims \cup {None}]
BY DEF Settle, TypeOK

\* What a registry entry is.
LEMMA RegisterTypes ==
  ASSUME TypeOK, NEW c \in Claims, wagent[c] \in Agents, NEW r \in Claims \cup {None},
         NEW waits \in BOOLEAN, Register(c, r, waits)
  PROVE  running' \in [Agents -> RunningDispatch \cup {None}]
<1>1. [claim |-> c, run |-> r, waiting |-> waits] \in RunningDispatch
  BY DEF RunningDispatch
<1>2. QED BY <1>1 DEF Register, TypeOK

\* An entry keeps its type when its run or its waiting flag is set.
LEMMA EntryTypes ==
  ASSUME TypeOK, NEW a \in Agents, running[a] # None
  PROVE  /\ \A c \in Claims : [running[a] EXCEPT !.run = c] \in RunningDispatch
         /\ \A w \in BOOLEAN : [running[a] EXCEPT !.waiting = w] \in RunningDispatch
<1>1. running[a] \in RunningDispatch
  BY DEF TypeOK
<1>2. QED BY <1>1 DEF RunningDispatch

\* What a notification writes.
LEMMA NotifyTypes ==
  ASSUME TypeOK, NotifyWork
  PROVE  moved' \in BOOLEAN /\ idle' \in BOOLEAN /\ scanning' \in BOOLEAN
BY DEF NotifyWork, TypeOK

\* What a worker that returns writes.
LEMMA ReturnTypes ==
  ASSUME TypeOK, NEW c \in Claims, Return(c)
  PROVE  /\ wpc' \in [Claims -> Places] /\ reported' \subseteq Claims
         /\ wagent' \in [Claims -> Agents \cup {None}] /\ wturn' \in [Claims -> Claims \cup {None}]
BY DEF Return, Goto, TypeOK, Places

\* What an error return writes.
LEMMA AbandonTypes ==
  ASSUME TypeOK, NEW c \in Claims, Abandon(c), UNCHANGED <<run, owes>>, asked' \subseteq Claims
  PROVE  TypeOK'
<1>1. holders' \in [Turns -> SUBSET (Claims \cup {Service})]
  BY DEF Abandon, DropPermit, TypeOK
<1>2. running' \in [Agents -> RunningDispatch \cup {None}]
  BY DEF Abandon, DropRunningGuard, TypeOK
<1>3. /\ moved' \in BOOLEAN /\ idle' \in BOOLEAN /\ scanning' \in BOOLEAN
      /\ wpc' \in [Claims -> Places] /\ reported' \subseteq Claims
      /\ wagent' \in [Claims -> Agents \cup {None}] /\ wturn' \in [Claims -> Claims \cup {None}]
  BY NotifyTypes, ReturnTypes DEF Abandon
<1>4. UNCHANGED <<durable, manager, flag, shutdown>> /\ preparing' \subseteq Claims
  BY DEF Abandon, TypeOK
<1>5. QED BY <1>1, <1>2, <1>3, <1>4 DEF TypeOK, Places

\* A worker's step keeps the types.
LEMMA WorkerTypes ==
  ASSUME TypeOK, WorkersAreBound, NEW c \in Claims, WorkerStep(c)
  PROVE  TypeOK'
<1>1. wpc[c] \notin {"free", "finished"}
  BY DEF WorkerStep, BeginPreparation, RefuseStart, Start, StartSucceeds, StartFails, Started,
         Handover, LoseLease, ObservationFails, ObserveWaiting, ObserveStopped, ObserveResumed,
         ObserveTerminal, NotifySettled, Leave, ObserveRecovered, SettleWithoutReplay
<1>2. wagent[c] \in Agents /\ wturn[c] \in Claims
  BY <1>1 DEF WorkersAreBound
<1>3. CASE BeginPreparation(c)
  <2>1. running' \in [Agents -> RunningDispatch \cup {None}]
    BY <1>2, <1>3, RegisterTypes DEF BeginPreparation
  <2>2. QED BY <1>3, <2>1 DEF BeginPreparation, Goto, TypeOK
<1>4. CASE RefuseStart(c) \/ ObservationFails(c)
  BY <1>4, AbandonTypes DEF RefuseStart, ObservationFails, TypeOK
<1>5. CASE Start(c) \/ Handover(c)
  BY <1>5 DEF Start, Handover, Goto, TypeOK
<1>6. CASE StartSucceeds(c)
  <2>1. holders' \in [Turns -> SUBSET (Claims \cup {Service})]
    BY <1>6 DEF StartSucceeds, TypeOK
  <2>2. QED BY <1>2, <1>6, <2>1 DEF StartSucceeds, Goto, TypeOK
<1>7. CASE StartFails(c) \/ ObserveTerminal(c)
  <2>1. CASE Settle(c) /\ Goto(c, "settled") /\ UNCHANGED <<manager, scan, registry, wagent,
               wturn, reported, holders, flag, shutdown, run, asked, owes>>
    <3>1. /\ queued' \subseteq Agents
          /\ owner' \in [Agents -> Claims \cup {None}] /\ turn' \in [Agents -> Claims \cup {None}]
      BY <1>2, <2>1, SettleTypes
    <3>2. wpc' = [wpc EXCEPT ![c] = "settled"]
      BY <2>1 DEF Goto
    <3>3. QED BY <2>1, <3>1, <3>2 DEF TypeOK
  <2>2. CASE Abandon(c) /\ UNCHANGED <<run, asked, owes>>
    BY <2>2, AbandonTypes DEF TypeOK
  <2>3. QED BY <1>7, <2>1, <2>2 DEF StartFails, ObserveTerminal
<1>8. CASE Started(c)
  <2>1. running' \in [Agents -> RunningDispatch \cup {None}]
    BY <1>8, EntryTypes DEF Started, PublishRun, TypeOK
  <2>2. QED BY <1>8, <2>1 DEF Started, Ask, Goto, TypeOK
<1>9. CASE LoseLease(c)
  <2>1. asked' \subseteq Claims
    BY <1>2, <1>9 DEF LoseLease, Ask, TypeOK
  <2>2. QED BY <1>9, <2>1, AbandonTypes DEF LoseLease
<1>10. CASE ObserveWaiting(c) \/ ObserveResumed(c)
  <2>1. PICK waits \in BOOLEAN : SetWaiting(c, waits)
    BY <1>10 DEF ObserveWaiting, ObserveResumed
  <2>2. running' \in [Agents -> RunningDispatch \cup {None}] /\ reported' \subseteq Claims
    <3>1. \A a \in Agents : running[a] # None =>
            [running[a] EXCEPT !.waiting = waits] \in RunningDispatch
      BY EntryTypes
    <3>2. QED BY <2>1, <3>1 DEF SetWaiting, TypeOK
  <2>3. UNCHANGED <<durable, manager, scan, preparing, wpc, wagent, wturn, turns, flag, shutdown>>
    BY <1>10 DEF ObserveWaiting, ObserveResumed
  <2>4. QED BY <2>2, <2>3 DEF TypeOK
<1>11. CASE ObserveStopped(c)
  <2>1. /\ queued' \subseteq Agents
        /\ owner' \in [Agents -> Claims \cup {None}] /\ turn' \in [Agents -> Claims \cup {None}]
    BY <1>2, <1>11, SettleTypes DEF ObserveStopped
  <2>2. /\ run' \in [Claims -> {"none", "live", "waiting", "resumed", "terminal"}]
        /\ asked' \subseteq Claims /\ wpc' \in [Claims -> Places]
        /\ UNCHANGED <<manager, scan, registry, wagent, wturn, reported, holders, owes, flag,
                       shutdown>>
    BY <1>11 DEF ObserveStopped, Goto, TypeOK, Places
  <2>3. QED BY <2>1, <2>2 DEF TypeOK, Places
<1>12. CASE NotifySettled(c)
  <2>1. moved' \in BOOLEAN /\ idle' \in BOOLEAN /\ scanning' \in BOOLEAN
    BY <1>12, NotifyTypes DEF NotifySettled
  <2>2. /\ holders' \in [Turns -> SUBSET (Claims \cup {Service})] /\ wpc' \in [Claims -> Places]
        /\ UNCHANGED <<durable, manager, registry, wagent, wturn, reported, run, asked, owes, flag,
                       shutdown>>
    BY <1>12 DEF NotifySettled, DropPermit, Goto, TypeOK, Places
  <2>3. QED BY <2>1, <2>2 DEF TypeOK, Places
<1>13. CASE Leave(c)
  <2>1. running' \in [Agents -> RunningDispatch \cup {None}]
    BY <1>13 DEF Leave, DropRunningGuard, TypeOK
  <2>2. /\ moved' \in BOOLEAN /\ idle' \in BOOLEAN /\ scanning' \in BOOLEAN
        /\ wpc' \in [Claims -> Places] /\ reported' \subseteq Claims
        /\ wagent' \in [Claims -> Agents \cup {None}] /\ wturn' \in [Claims -> Claims \cup {None}]
    BY <1>13, NotifyTypes, ReturnTypes DEF Leave
  <2>3. UNCHANGED <<durable, manager, turns, flag, shutdown>> /\ preparing' \subseteq Claims
    BY <1>13 DEF Leave, TypeOK
  <2>4. QED BY <2>1, <2>2, <2>3 DEF TypeOK, Places
<1>14. CASE ObserveRecovered(c)
  <2>1. running' \in [Agents -> RunningDispatch \cup {None}]
    BY <1>2, <1>14, RegisterTypes DEF ObserveRecovered
  <2>2. holders' \in [Turns -> SUBSET (Claims \cup {Service})]
    BY <1>14 DEF ObserveRecovered, TypeOK
  <2>3. QED BY <1>14, <2>1, <2>2 DEF ObserveRecovered, Goto, TypeOK
<1>15. CASE SettleWithoutReplay(c)
  <2>1. holders' \in [Turns -> SUBSET (Claims \cup {Service})]
    BY <1>15 DEF SettleWithoutReplay, TypeOK
  <2>2. /\ queued' \subseteq Agents
        /\ owner' \in [Agents -> Claims \cup {None}] /\ turn' \in [Agents -> Claims \cup {None}]
    BY <1>2, <1>15, SettleTypes DEF SettleWithoutReplay, TypeOK
  <2>3. QED BY <1>15, <2>1, <2>2 DEF SettleWithoutReplay, Return, Goto, TypeOK
<1>16. QED BY <1>3, <1>4, <1>5, <1>6, <1>7, <1>8, <1>9, <1>10, <1>11, <1>12, <1>13, <1>14, <1>15
           DEF WorkerStep

\* What losing its workers does to the manager's state.
LEMMA DropTypes ==
  ASSUME TypeOK, DropWorkers
  PROVE  /\ workers' \subseteq Claims /\ preparing' \subseteq Claims /\ reported' \subseteq Claims
         /\ running' \in [Agents -> RunningDispatch \cup {None}]
         /\ wpc' \in [Claims -> Places]
         /\ wagent' \in [Claims -> Agents \cup {None}] /\ wturn' \in [Claims -> Claims \cup {None}]
         /\ holders' \in [Turns -> SUBSET (Claims \cup {Service})]
BY DEF DropWorkers, TypeOK, Places

\* The runs that may be interrupted are turns of claims.
LEMMA InterruptibleTypes ==
  ASSUME TypeOK
  PROVE  Interruptible \subseteq Claims
BY DEF TypeOK, Interruptible, RunningDispatch

\* What a recovery does, row by row: each wake with a turn gets a fresh claim and
\* a worker, which watches the turn only if it waits or is over.
Rebound(expired) == {a \in expired : turn[a] # None}

Rebinds(expired, claim) ==
  /\ \A a \in Rebound(expired) : claim[a] \in FreeFor(a)
  /\ \A a, b \in Rebound(expired) : claim[a] = claim[b] => a = b
  /\ queued' = queued \cup (expired \ Rebound(expired))
  /\ owner' = [a \in Agents |-> IF a \in Rebound(expired) THEN claim[a]
                                ELSE IF a \in expired THEN None ELSE owner[a]]
  /\ workers' = workers \cup {claim[a] : a \in Rebound(expired)}
  /\ \A a \in Rebound(expired) :
       /\ wagent'[claim[a]] = a /\ wturn'[claim[a]] = turn[a]
       /\ wpc'[claim[a]] = IF run[turn[a]] \in {"waiting", "terminal"}
                             THEN "observer" ELSE "unknown"
  /\ \A c \in Claims : (\A a \in Rebound(expired) : claim[a] # c) =>
       wpc'[c] = wpc[c] /\ wagent'[c] = wagent[c] /\ wturn'[c] = wturn[c]
  /\ wpc' = [c \in Claims |-> wpc'[c]] /\ wagent' = [c \in Claims |-> wagent'[c]]
  /\ wturn' = [c \in Claims |-> wturn'[c]]

\* Recover is such a step.
LEMMA RecoverRebinds ==
  ASSUME Recover
  PROVE  \E expired \in SUBSET {a \in Agents : MayExpire(a)} :
           \E claim \in [Rebound(expired) -> Claims] : Rebinds(expired, claim)
<1>1. PICK expired \in SUBSET {a \in Agents : MayExpire(a)} :
        \E claim \in [{a \in expired : turn[a] # None} -> Claims] :
          /\ \A a \in {a \in expired : turn[a] # None} : claim[a] \in FreeFor(a)
          /\ \A a, b \in {a \in expired : turn[a] # None} : claim[a] = claim[b] => a = b
          /\ queued' = queued \cup (expired \ {a \in expired : turn[a] # None})
          /\ owner' = [a \in Agents |-> IF a \in {x \in expired : turn[x] # None} THEN claim[a]
                                        ELSE IF a \in expired THEN None ELSE owner[a]]
          /\ workers' = workers \cup {claim[a] : a \in {x \in expired : turn[x] # None}}
          /\ wpc' = [c \in Claims |->
               IF c \notin {claim[a] : a \in {x \in expired : turn[x] # None}} THEN wpc[c]
               ELSE IF run[turn[CHOOSE a \in {x \in expired : turn[x] # None} : claim[a] = c]]
                         \in {"waiting", "terminal"} THEN "observer"
               ELSE "unknown"]
          /\ wagent' = [c \in Claims |->
               IF c \in {claim[a] : a \in {x \in expired : turn[x] # None}}
                 THEN CHOOSE a \in {x \in expired : turn[x] # None} : claim[a] = c ELSE wagent[c]]
          /\ wturn' = [c \in Claims |->
               IF c \in {claim[a] : a \in {x \in expired : turn[x] # None}}
                 THEN turn[CHOOSE a \in {x \in expired : turn[x] # None} : claim[a] = c]
                 ELSE wturn[c]]
  BY Zenon DEF Recover
<1> DEFINE R == Rebound(expired)
<1>2. PICK claim \in [R -> Claims] :
        /\ \A a \in R : claim[a] \in FreeFor(a)
        /\ \A a, b \in R : claim[a] = claim[b] => a = b
        /\ queued' = queued \cup (expired \ R)
        /\ owner' = [a \in Agents |-> IF a \in R THEN claim[a]
                                      ELSE IF a \in expired THEN None ELSE owner[a]]
        /\ workers' = workers \cup {claim[a] : a \in R}
        /\ wpc' = [c \in Claims |->
             IF c \notin {claim[a] : a \in R} THEN wpc[c]
             ELSE IF run[turn[CHOOSE a \in R : claim[a] = c]] \in {"waiting", "terminal"}
               THEN "observer" ELSE "unknown"]
        /\ wagent' = [c \in Claims |-> IF c \in {claim[a] : a \in R}
                                         THEN CHOOSE a \in R : claim[a] = c ELSE wagent[c]]
        /\ wturn' = [c \in Claims |-> IF c \in {claim[a] : a \in R}
                                        THEN turn[CHOOSE a \in R : claim[a] = c] ELSE wturn[c]]
  BY <1>1, Zenon DEF Rebound
<1>3. ASSUME NEW a \in R
      PROVE  /\ (CHOOSE b \in R : claim[b] = claim[a]) = a
             /\ claim[a] \in Claims /\ claim[a] \in {claim[b] : b \in R}
  <2>1. (CHOOSE b \in R : claim[b] = claim[a]) \in R
        /\ claim[CHOOSE b \in R : claim[b] = claim[a]] = claim[a]
    OBVIOUS
  <2>2. QED BY <1>2, <2>1
<1>4. ASSUME NEW a \in R
      PROVE  /\ wagent'[claim[a]] = a /\ wturn'[claim[a]] = turn[a]
             /\ wpc'[claim[a]] = IF run[turn[a]] \in {"waiting", "terminal"}
                                   THEN "observer" ELSE "unknown"
  BY <1>2, <1>3
<1>5. ASSUME NEW c \in Claims, \A a \in R : claim[a] # c
      PROVE  wpc'[c] = wpc[c] /\ wagent'[c] = wagent[c] /\ wturn'[c] = wturn[c]
  BY <1>2, <1>5
<1>6. /\ wpc' = [c \in Claims |-> wpc'[c]] /\ wagent' = [c \in Claims |-> wagent'[c]]
      /\ wturn' = [c \in Claims |-> wturn'[c]]
  BY <1>2
<1>7. Rebinds(expired, claim)
  BY <1>2, <1>4, <1>5, <1>6 DEF Rebinds
<1>8. QED BY <1>7

\* A manager's step keeps the types.
LEMMA ManagerTypes ==
  ASSUME TypeOK, ManagerStep
  PROVE  TypeOK'
<1>1. CASE \/ BeginScan \/ ReserveForDispatch \/ StopClaiming \/ NothingClaimed \/ ClaimFails
           \/ FinishScan \/ CheckShutdown \/ Select \/ Wake
  <2>1. /\ sawEmpty' \in BOOLEAN /\ scanning' \in BOOLEAN /\ idle' \in BOOLEAN /\ moved' \in BOOLEAN
        /\ flag' \in BOOLEAN
    BY <1>1 DEF BeginScan, ReserveForDispatch, StopClaiming, NothingClaimed, ClaimFails, FinishScan,
                CheckShutdown, Select, Wake, TypeOK
  <2>2. /\ UNCHANGED <<durable, workers, registry, worker, turns, shutdown>>
        /\ mpc' \in {"begin", "recover", "claim", "claiming", "finish", "check", "select", "parked",
                     "joining", "failed", "ended", "panicked"}
    BY <1>1 DEF BeginScan, ReserveForDispatch, StopClaiming, NothingClaimed, ClaimFails, FinishScan,
                CheckShutdown, Select, Wake
  <2>3. QED BY <2>1, <2>2 DEF TypeOK
<1>2. CASE Recover
  <2>0. PICK expired \in SUBSET {a \in Agents : MayExpire(a)} :
          \E claim \in [Rebound(expired) -> Claims] : Rebinds(expired, claim)
    BY <1>2, RecoverRebinds
  <2>1. PICK claim \in [Rebound(expired) -> Claims] : Rebinds(expired, claim)
    BY <2>0
  <2>2. queued' \subseteq Agents /\ workers' \subseteq Claims
    BY <2>1 DEF Rebinds, Rebound, TypeOK
  <2>3. owner' \in [Agents -> Claims \cup {None}]
    BY <2>1 DEF Rebinds, Rebound, TypeOK
  <2>4. /\ wpc' \in [Claims -> Places] /\ wagent' \in [Claims -> Agents \cup {None}]
        /\ wturn' \in [Claims -> Claims \cup {None}]
    <3>1. ASSUME NEW c \in Claims
          PROVE  /\ wpc'[c] \in Places /\ wagent'[c] \in Agents \cup {None}
                 /\ wturn'[c] \in Claims \cup {None}
      <4>1. CASE \E a \in Rebound(expired) : claim[a] = c
        BY <2>1, <4>1 DEF Rebinds, Rebound, TypeOK, Places
      <4>2. CASE \A a \in Rebound(expired) : claim[a] # c
        BY <2>1, <4>2 DEF Rebinds, TypeOK, Places
      <4>3. QED BY <4>1, <4>2
    <3>2. /\ wpc' = [c \in Claims |-> wpc'[c]] /\ wagent' = [c \in Claims |-> wagent'[c]]
          /\ wturn' = [c \in Claims |-> wturn'[c]]
      BY <2>1 DEF Rebinds
    <3>3. QED BY <3>1, <3>2
  <2>5. QED BY <1>2, <2>2, <2>3, <2>4 DEF Recover, TypeOK, Places
<1>3. ASSUME NEW a \in Agents, NEW c \in Claims, Claim(a, c)
      PROVE  TypeOK'
  <2>1. holders' \in [Turns -> SUBSET (Claims \cup {Service})]
    BY <1>3 DEF Claim, TypeOK
  <2>2. QED BY <1>3, <2>1 DEF Claim, TypeOK
<1>4. ASSUME NEW c \in Claims, Join(c)
      PROVE  TypeOK'
  BY <1>4 DEF Join, TypeOK
<1>5. CASE FailedManagerCancels
  BY <1>5, InterruptibleTypes DEF FailedManagerCancels, Ask, TypeOK
<1>6. CASE FailedManagerEnds \/ AbortedManagerDrops
  <2>1. /\ workers' \subseteq Claims /\ preparing' \subseteq Claims /\ reported' \subseteq Claims
        /\ running' \in [Agents -> RunningDispatch \cup {None}] /\ wpc' \in [Claims -> Places]
        /\ wagent' \in [Claims -> Agents \cup {None}] /\ wturn' \in [Claims -> Claims \cup {None}]
        /\ holders' \in [Turns -> SUBSET (Claims \cup {Service})]
    BY <1>6, DropTypes DEF FailedManagerEnds, AbortedManagerDrops
  <2>2. /\ UNCHANGED <<durable, sawEmpty, idle, run, asked, owes, flag, shutdown>>
        /\ mpc' \in {mpc, "ended"} /\ moved' \in BOOLEAN /\ scanning' \in BOOLEAN
    BY <1>6 DEF FailedManagerEnds, AbortedManagerDrops, TypeOK
  <2>3. QED BY <2>1, <2>2 DEF TypeOK, Places
<1>7. QED BY <1>1, <1>2, <1>3, <1>4, <1>5, <1>6 DEF ManagerStep

\* So do the steps of turns and of shutdown.
LEMMA OtherTypes ==
  ASSUME TypeOK, TurnStep \/ ShutdownStep
  PROVE  TypeOK'
<1>1. CASE TurnStep
  <2>1. holders' \in [Turns -> SUBSET (Claims \cup {Service})]
    BY <1>1 DEF TurnStep, RootStarts, RootEnds, NotifyCommitted, CommitWake, ServiceReleases,
                TurnMoves, TypeOK
  <2>2. owes' \subseteq Turns /\ queued' \subseteq Agents /\ asked' \subseteq Claims
    BY <1>1 DEF TurnStep, RootStarts, RootEnds, NotifyCommitted, CommitWake, ServiceReleases,
                TurnMoves, TypeOK
  <2>3. run' \in [Claims -> {"none", "live", "waiting", "resumed", "terminal"}]
    BY <1>1 DEF TurnStep, RootStarts, RootEnds, NotifyCommitted, CommitWake, ServiceReleases,
                TurnMoves, TypeOK
  <2>4. moved' \in BOOLEAN /\ idle' \in BOOLEAN /\ scanning' \in BOOLEAN
    BY <1>1 DEF TurnStep, RootStarts, RootEnds, NotifyCommitted, CommitWake, ServiceReleases,
                TurnMoves, NotifyWork, TypeOK
  <2>5. UNCHANGED <<owner, turn, manager, registry, worker, flag, shutdown>>
    BY <1>1 DEF TurnStep, RootStarts, RootEnds, NotifyCommitted, CommitWake, ServiceReleases,
                TurnMoves
  <2>6. QED BY <2>1, <2>2, <2>3, <2>4, <2>5 DEF TypeOK
<1>2. CASE ShutdownStep
  <2>1. asked' \subseteq Claims
    BY <1>2, InterruptibleTypes DEF ShutdownStep, RequestShutdown, ManagerJoined, GraceExpires,
         Sweep, DeadlinePasses, ReadPreparing, Decide, Ask, TypeOK
  <2>2. flag' \in BOOLEAN /\ late' \in BOOLEAN /\ hold' \in BOOLEAN
    BY <1>2 DEF ShutdownStep, RequestShutdown, ManagerJoined, GraceExpires, Sweep, DeadlinePasses,
                ReadPreparing, Decide, TypeOK
  <2>3. /\ spc' \in {"none", "grace", "sweep", "swept", "decide", "returned"}
        /\ mpc' \in {mpc, "aborted", "claim_lost"}
        /\ UNCHANGED <<durable, sawEmpty, workers, scan, registry, worker, run, holders, owes>>
    BY <1>2 DEF ShutdownStep, RequestShutdown, ManagerJoined, GraceExpires, Sweep, DeadlinePasses,
                ReadPreparing, Decide, Abort, TypeOK
  <2>4. QED BY <2>1, <2>2, <2>3 DEF TypeOK
<1>3. QED BY <1>1, <1>2

-----------------------------------------------------------------------------
\* Workers, wakes and turns stay bound to each other.
Bound == WorkersAreBound /\ WakesAreApart /\ OwnersAgree /\ LiveTurnsAreBound

\* A worker's step keeps the bindings.
LEMMA WorkerBinds ==
  ASSUME TypeOK, Bound, NEW c \in Claims, WorkerStep(c)
  PROVE  Bound'
<1> USE DEF Bound, TypeOK, Preparing, Bearing, Watching
<1>1. CASE BeginPreparation(c) \/ Start(c) \/ Started(c) \/ Handover(c)
  <2>1. PICK p \in {"job", "starting", "handover", "observing"} :
          /\ wpc' = [wpc EXCEPT ![c] = p]
          /\ p \in Preparing => wpc[c] \in Preparing
          /\ p = "handover" => wpc[c] = "started"
          /\ p = "observing" => wpc[c] = "handover"
    BY <1>1 DEF BeginPreparation, Start, Started, Handover, Goto
  <2>2. UNCHANGED <<owner, turn, wagent, wturn, run>>
    BY <1>1 DEF BeginPreparation, Start, Started, Handover
  <2>3. QED BY <2>1, <2>2 DEF WorkersAreBound, WakesAreApart, OwnersAgree, LiveTurnsAreBound
<1>2. CASE ObserveWaiting(c) \/ ObserveResumed(c)
  BY <1>2 DEF ObserveWaiting, ObserveResumed, SetWaiting, WorkersAreBound, WakesAreApart,
              OwnersAgree, LiveTurnsAreBound
<1>3. CASE RefuseStart(c) \/ LoseLease(c) \/ ObservationFails(c) \/ Leave(c)
  BY <1>3 DEF RefuseStart, LoseLease, ObservationFails, Leave, Abandon, Return, Goto,
              WorkersAreBound, WakesAreApart, OwnersAgree, LiveTurnsAreBound
<1>4. CASE StartSucceeds(c)
  BY <1>4 DEF StartSucceeds, Goto, WorkersAreBound, WakesAreApart, OwnersAgree, LiveTurnsAreBound
<1>5. CASE StartFails(c)
  BY <1>5 DEF StartFails, Settle, Abandon, Return, Goto, WorkersAreBound, WakesAreApart,
              OwnersAgree, LiveTurnsAreBound
<1>6. CASE ObserveStopped(c)
  BY <1>6 DEF ObserveStopped, Settle, Goto, WorkersAreBound, WakesAreApart, OwnersAgree,
              LiveTurnsAreBound
<1>7. CASE ObserveTerminal(c)
  BY <1>7 DEF ObserveTerminal, Settle, Abandon, Return, Goto, WorkersAreBound, WakesAreApart,
              OwnersAgree, LiveTurnsAreBound
<1>8. CASE NotifySettled(c) \/ ObserveRecovered(c)
  BY <1>8 DEF NotifySettled, ObserveRecovered, Goto, WorkersAreBound, WakesAreApart, OwnersAgree,
              LiveTurnsAreBound
<1>9. CASE SettleWithoutReplay(c)
  BY <1>9 DEF SettleWithoutReplay, Settle, Return, Goto, WorkersAreBound, WakesAreApart,
              OwnersAgree, LiveTurnsAreBound
<1>10. QED BY <1>1, <1>2, <1>3, <1>4, <1>5, <1>6, <1>7, <1>8, <1>9 DEF WorkerStep

\* So does a step of a turn or of shutdown.
LEMMA OthersBind ==
  ASSUME TypeOK, Bound, TurnStep \/ ShutdownStep
  PROVE  Bound'
<1>1. CASE ShutdownStep
  <2>1. UNCHANGED <<owner, turn, wpc, wagent, wturn, run>>
    BY <1>1 DEF ShutdownStep, RequestShutdown, ManagerJoined, GraceExpires, Sweep, DeadlinePasses,
                ReadPreparing, Decide
  <2>2. QED BY <2>1 DEF Bound, WorkersAreBound, WakesAreApart, OwnersAgree, LiveTurnsAreBound
<1>2. CASE TurnStep
  <2>1. /\ UNCHANGED <<owner, turn, wpc, wagent, wturn>>
        /\ \A t \in Claims : run'[t] = "live" => run[t] = "live"
    BY <1>2 DEF TurnStep, RootStarts, RootEnds, NotifyCommitted, CommitWake, ServiceReleases,
                TurnMoves, TypeOK
  <2>2. QED BY <2>1 DEF Bound, TypeOK, WorkersAreBound, WakesAreApart, OwnersAgree,
                        LiveTurnsAreBound, Watching
<1>3. QED BY <1>1, <1>2

\* And a step of the manager: a claim or a recovery takes a name nothing refers to.
LEMMA ManagerBinds ==
  ASSUME TypeOK, Bound, ManagerStep
  PROVE  Bound'
<1> USE DEF Bound, TypeOK, Preparing, Bearing, Watching
<1>1. CASE \/ BeginScan \/ ReserveForDispatch \/ StopClaiming \/ NothingClaimed \/ ClaimFails
           \/ FinishScan \/ CheckShutdown \/ Select \/ Wake \/ FailedManagerCancels
  <2>1. UNCHANGED <<owner, turn, wpc, wagent, wturn, run>>
    BY <1>1 DEF BeginScan, ReserveForDispatch, StopClaiming, NothingClaimed, ClaimFails, FinishScan,
                CheckShutdown, Select, Wake, FailedManagerCancels
  <2>2. QED BY <2>1 DEF WorkersAreBound, WakesAreApart, OwnersAgree, LiveTurnsAreBound
<1>2. ASSUME NEW c \in Claims, Join(c)
      PROVE  Bound'
  BY <1>2 DEF Join, WorkersAreBound, WakesAreApart, OwnersAgree, LiveTurnsAreBound
<1>3. CASE FailedManagerEnds \/ AbortedManagerDrops
  BY <1>3 DEF FailedManagerEnds, AbortedManagerDrops, DropWorkers, WorkersAreBound, WakesAreApart,
              OwnersAgree, LiveTurnsAreBound
<1>4. ASSUME NEW a \in Agents, NEW c \in Claims, Claim(a, c)
      PROVE  Bound'
  BY <1>4 DEF Claim, Free, Dispatchable, WorkersAreBound, WakesAreApart, OwnersAgree,
              LiveTurnsAreBound
<1>5. CASE Recover
  <2>0. PICK expired \in SUBSET {a \in Agents : MayExpire(a)} :
          \E claim \in [Rebound(expired) -> Claims] : Rebinds(expired, claim)
    BY <1>5, RecoverRebinds
  <2>1. PICK claim \in [Rebound(expired) -> Claims] : Rebinds(expired, claim)
    BY <2>0
  <2>2. UNCHANGED <<turn, run>>
    BY <1>5 DEF Recover
  <2> DEFINE R == Rebound(expired)
  <2>3. /\ R \subseteq Agents
        /\ \A a \in R : /\ claim[a] \in Claims /\ turn[a] \in Claims /\ wpc[claim[a]] = "free"
                         /\ owner'[a] = claim[a] /\ MayExpire(a)
                         /\ \A b \in Agents : claim[a] = owner[b] \/ claim[a] = turn[b] => b = a
    BY <2>1 DEF Rebinds, Rebound, FreeFor, Free, MayExpire, WakesAreApart
  <2>4. \A a \in Agents \ R : /\ owner'[a] \in {owner[a], None}
                              /\ owner'[a] = None => turn[a] = None
                              /\ owner'[a] # owner[a] => MayExpire(a)
    BY <2>1 DEF Rebinds, Rebound, WakesAreApart
  <2>5. WakesAreApart'
    <3> HIDE DEF R
    <3>1. ASSUME NEW a \in Agents, NEW b \in Agents, owner'[a] # None
          PROVE  (owner'[a] = owner'[b] => a = b) /\ (owner'[a] = turn[b] => a = b)
      <4>1. CASE a \in R /\ b \in R
        <5>1. owner'[a] = claim[a] /\ owner'[b] = claim[b]
          BY <2>3, <4>1
        <5>2. claim[a] = turn[b] => b = a
          BY <2>3, <4>1
        <5>3. claim[a] = claim[b] => a = b
          BY <2>1, <4>1 DEF Rebinds, R
        <5>4. QED BY <5>1, <5>2, <5>3
      <4>2. CASE a \in R /\ b \notin R
        BY <2>3, <2>4, <3>1, <4>2
      <4>3. CASE a \notin R /\ b \in R
        BY <2>3, <2>4, <3>1, <4>3 DEF WakesAreApart
      <4>4. CASE a \notin R /\ b \notin R
        BY <2>4, <3>1, <4>4 DEF WakesAreApart
      <4>5. QED BY <4>1, <4>2, <4>3, <4>4
    <3>2. \A a \in Agents : owner'[a] = None => turn[a] = None
      BY <2>3, <2>4
    <3>3. QED BY <2>2, <3>1, <3>2 DEF WakesAreApart
  <2>6. ASSUME NEW c \in Claims
        PROVE  \/ wpc'[c] = wpc[c] /\ wagent'[c] = wagent[c] /\ wturn'[c] = wturn[c]
                    /\ \A a \in R : claim[a] # c
               \/ \E a \in R : /\ claim[a] = c /\ wagent'[c] = a /\ wturn'[c] = turn[a]
                               /\ wpc'[c] \in {"observer", "unknown"}
                               /\ wpc'[c] = "observer" => run[turn[a]] # "live"
    BY <2>1 DEF Rebinds
  <2> HIDE DEF R
  <2>7. WorkersAreBound'
    BY <2>2, <2>3, <2>6 DEF WorkersAreBound
  <2>8. OwnersAgree'
    <3>1. ASSUME NEW c \in Claims, wpc'[c] = wpc[c], wagent'[c] = wagent[c], wturn'[c] = wturn[c],
                 \A a \in R : claim[a] # c
          PROVE  /\ \A a \in Agents : owner'[a] = c => owner[a] = c
                 /\ wpc[c] \in {"spawned", "observer", "unknown"} => owner'[wagent[c]] = c
      <4>1. \A a \in Agents : owner'[a] = c => owner[a] = c
        BY <2>3, <2>4, <3>1
      <4>2. ASSUME wpc[c] \in {"spawned", "observer", "unknown"}
            PROVE  owner'[wagent[c]] = c
        <5>1. wagent[c] \in Agents /\ owner[wagent[c]] = c
          BY <4>2 DEF OwnersAgree, WorkersAreBound
        <5>2. ~MayExpire(wagent[c])
          BY <4>2, <5>1 DEF MayExpire
        <5>3. QED BY <2>3, <2>4, <5>1, <5>2
      <4>3. QED BY <4>1, <4>2
    <3>2. ASSUME NEW c \in Claims, NEW a \in R, claim[a] = c, wagent'[c] = a, wturn'[c] = turn[a],
                 wpc'[c] \in {"observer", "unknown"}
          PROVE  owner'[a] = c /\ \A b \in Agents : owner'[b] = c => b = a
      BY <2>3, <2>5, <3>2 DEF WakesAreApart
    <3>3. ASSUME NEW c \in Claims
          PROVE  /\ \A a \in Agents : owner'[a] = c /\ wpc'[c] \in Preparing \cup Bearing
                                        => wagent'[c] = a
                 /\ wpc'[c] \in {"spawned", "observer", "unknown"} => owner'[wagent'[c]] = c
                 /\ wpc'[c] \in Preparing /\ owner'[wagent'[c]] = c => turn[wagent'[c]] = None
                 /\ wpc'[c] \in Bearing /\ owner'[wagent'[c]] = c
                      => turn[wagent'[c]] = wturn'[c]
      <4>1. CASE \E a \in R : /\ claim[a] = c /\ wagent'[c] = a /\ wturn'[c] = turn[a]
                              /\ wpc'[c] \in {"observer", "unknown"}
        BY <3>2, <4>1
      <4>2. CASE wpc'[c] = wpc[c] /\ wagent'[c] = wagent[c] /\ wturn'[c] = wturn[c]
                   /\ \A a \in R : claim[a] # c
        BY <3>1, <4>2 DEF OwnersAgree, WorkersAreBound
      <4>3. QED BY <2>6, <4>1, <4>2
    <3>4. QED BY <2>2, <3>3 DEF OwnersAgree
  <2>9. LiveTurnsAreBound'
    BY <2>2, <2>3, <2>6 DEF LiveTurnsAreBound, WorkersAreBound
  <2>10. QED BY <2>5, <2>7, <2>8, <2>9
<1>6. QED BY <1>1, <1>2, <1>3, <1>4, <1>5 DEF ManagerStep

-----------------------------------------------------------------------------
\* The registry names every turn that shutdown must reach.

\* What a notification and an error return leave of the registry and of the workers.
LEMMA AbandonedEntries ==
  ASSUME TypeOK, Bound, RunsArePublished, NEW c \in Claims, DropRunningGuard(c), Return(c),
         UNCHANGED <<owner, run, flag>>
  PROVE  RunsArePublished'
<1> USE DEF Bound, TypeOK
<1>1. ASSUME NEW d \in Claims, d # c
      PROVE  wpc'[d] = wpc[d] /\ wagent'[d] = wagent[d] /\ wturn'[d] = wturn[d]
  BY <1>1 DEF Return, Goto
<1>2. wpc'[c] \in {"free", "finished"}
  BY DEF Return, Goto
<1>3. ASSUME NEW a \in Agents, NEW d \in Claims, d # c, NEW r, running[a] = Entry(d, r)
      PROVE  running'[a] = running[a]
  <2>1. running[a].claim = d
    BY <1>3 DEF Entry
  <2>2. QED BY <1>3, <2>1 DEF DropRunningGuard
<1>4. ASSUME NEW d \in Claims, d # c, wpc[d] \notin {"free", "finished"}
      PROVE  wagent[d] \in Agents
  BY <1>4 DEF WorkersAreBound
<1>5. QED BY <1>1, <1>2, <1>3, <1>4 DEF RunsArePublished

\* A worker's step keeps the published entries.
LEMMA WorkerPublishes ==
  ASSUME TypeOK, IInv, Bound, RunsArePublished, NEW c \in Claims, WorkerStep(c)
  PROVE  RunsArePublished'
<1> USE DEF Bound, TypeOK
<1>0. ASSUME NEW d \in Claims, wpc[d] \notin {"free", "finished"}
      PROVE  wagent[d] \in Agents /\ wturn[d] \in Claims
  BY <1>0 DEF WorkersAreBound
<1>1. CASE BeginPreparation(c)
  <2>1. /\ running'[wagent[c]] = Entry(c, None) /\ wpc'[c] = "job"
        /\ \A a \in Agents \ {wagent[c]} : running'[a] = running[a]
        /\ \A d \in Claims \ {c} : wpc'[d] = wpc[d]
        /\ UNCHANGED <<owner, wagent, wturn, run, flag>>
    BY <1>0, <1>1 DEF BeginPreparation, Register, Goto, Entry
  <2>2. owner[wagent[c]] = c /\ turn[wagent[c]] = None
    BY <1>0, <1>1 DEF BeginPreparation, OwnersAgree, Preparing
  <2>3. ASSUME NEW d \in Claims \ {c}, wagent[d] = wagent[c]
        PROVE  /\ owner[wagent[d]] # d
               /\ wpc[d] \in Watching /\ wturn[d] \in Claims => run[wturn[d]] # "live"
    BY <2>2, <2>3 DEF LiveTurnsAreBound
  <2>4. ASSUME NEW d \in Claims \ {c}, wpc[d] \in Watching \cup {"job", "starting"}
        PROVE  \/ wagent[d] = wagent[c]
               \/ wagent[d] \in Agents \ {wagent[c]} /\ running'[wagent[d]] = running[wagent[d]]
    BY <1>0, <2>1, <2>4 DEF Watching
  <2>5. QED BY <1>0, <2>1, <2>3, <2>4 DEF RunsArePublished, Watching
<1>2. CASE RefuseStart(c) \/ LoseLease(c) \/ ObservationFails(c)
  BY <1>2, AbandonedEntries DEF RefuseStart, LoseLease, ObservationFails, Abandon
<1>3. CASE Leave(c)
  BY <1>3, AbandonedEntries DEF Leave
<1>4. CASE Start(c) \/ Handover(c) \/ NotifySettled(c)
  BY <1>0, <1>4 DEF Start, Handover, NotifySettled, Goto, RunsArePublished
<1>5. CASE StartSucceeds(c)
  BY <1>0, <1>5 DEF StartSucceeds, Goto, RunsArePublished, WorkersAreBound, Preparing
<1>6. CASE StartFails(c) \/ ObserveTerminal(c)
  <2>1. CASE Abandon(c) /\ UNCHANGED <<run, asked, owes>>
    BY <2>1, AbandonedEntries DEF Abandon
  <2>2. CASE Settle(c) /\ Goto(c, "settled")
             /\ UNCHANGED <<registry, wagent, wturn, flag, run>>
    <3>1. \A d \in Claims, a \in Agents : owner'[a] = d => owner[a] = d
      BY <2>2, <1>0 DEF Settle
    <3>2. QED BY <1>0, <2>2, <3>1 DEF Goto, RunsArePublished
  <2>3. QED BY <1>6, <2>1, <2>2 DEF StartFails, ObserveTerminal
<1>7. CASE Started(c)
  <2>1. ASSUME NEW a \in Agents, NEW d \in Claims, d # c, NEW r, running[a] = Entry(d, r)
        PROVE  running'[a] = running[a]
    <3>1. running[a].claim = d
      BY <2>1 DEF Entry
    <3>2. QED BY <1>7, <2>1, <3>1 DEF Started, PublishRun
  <2>2. wturn[c] = c /\ wpc'[c] = "handover"
    BY <1>7 DEF Started, Goto, WorkersAreBound, Preparing
  <2>3. ASSUME run[c] = "live"
        PROVE  running'[wagent[c]] = Entry(c, c)
    <3>1. running[wagent[c]] = [claim |-> c, run |-> None, waiting |-> FALSE]
      BY <1>7, <2>2, <2>3 DEF Started, RunsArePublished, Entry
    <3>2. running[wagent[c]] # None
      <4>1. [claim |-> c, run |-> None, waiting |-> FALSE] \in RunningDispatch
        BY DEF RunningDispatch
      <4>2. QED BY <3>1, <4>1
    <3>3. running[wagent[c]].claim = c
      BY <3>1
    <3>4. wagent[c] \in Agents
      BY <1>0, <1>7 DEF Started
    <3>5. running'[wagent[c]] = [running[wagent[c]] EXCEPT !.run = c]
      BY <1>7, <3>2, <3>3, <3>4 DEF Started, PublishRun
    <3>6. ASSUME NEW w, NEW r \in RunningDispatch, r = [claim |-> c, run |-> None, waiting |-> w]
          PROVE  [r EXCEPT !.run = c] = [claim |-> c, run |-> c, waiting |-> w]
      BY ONLY <3>6, c \in Claims DEF RunningDispatch
    <3>7. running[wagent[c]] \in RunningDispatch
      BY <3>1 DEF RunningDispatch
    <3>8. QED BY <3>1, <3>5, <3>6, <3>7 DEF Entry
  <2>4. \A d \in Claims \ {c} : wpc'[d] = wpc[d]
    BY <1>7 DEF Started, Goto
  <2>5. UNCHANGED <<owner, wagent, wturn, run, flag>>
    BY <1>7 DEF Started
  <2>6. QED BY <1>0, <2>1, <2>2, <2>3, <2>4, <2>5 DEF RunsArePublished
<1>8. CASE ObserveWaiting(c) \/ ObserveResumed(c)
  BY <1>0, <1>8 DEF ObserveWaiting, ObserveResumed, SetWaiting, RunsArePublished, Entry
<1>9. CASE ObserveStopped(c)
  <2>1. \A d \in Claims, a \in Agents : owner'[a] = d => owner[a] = d
    BY <1>0, <1>9 DEF ObserveStopped, Settle
  <2>2. QED BY <1>0, <1>9, <2>1 DEF ObserveStopped, Goto, RunsArePublished
<1>10. CASE ObserveRecovered(c)
  BY <1>0, <1>10 DEF ObserveRecovered, Register, Goto, Entry, RunsArePublished, WorkersAreBound,
        WakesAreApart, OwnersAgree, LiveTurnsAreBound, Preparing, Bearing, Watching
<1>11. CASE SettleWithoutReplay(c)
  <2>1. \A d \in Claims, a \in Agents : owner'[a] = d => owner[a] = d
    BY <1>0, <1>11 DEF SettleWithoutReplay, Settle
  <2>2. \A t \in Claims : run'[t] = "live" => run[t] = "live"
    BY <1>11 DEF SettleWithoutReplay
  <2>3. QED BY <1>0, <1>11, <2>1, <2>2 DEF SettleWithoutReplay, Return, Goto, RunsArePublished
<1>12. QED BY <1>1, <1>2, <1>3, <1>4, <1>5, <1>6, <1>7, <1>8, <1>9, <1>10, <1>11 DEF WorkerStep

\* So does a step of a turn or of shutdown.
LEMMA OthersPublish ==
  ASSUME TypeOK, Bound, RunsArePublished, TurnStep \/ ShutdownStep
  PROVE  RunsArePublished'
<1>1. /\ UNCHANGED <<owner, wpc, wagent, wturn, running>>
      /\ flag => flag'
      /\ \A t \in Claims : run'[t] = "live" => run[t] = "live"
  BY DEF TurnStep, RootStarts, RootEnds, NotifyCommitted, CommitWake, ServiceReleases, TurnMoves,
         ShutdownStep, RequestShutdown, ManagerJoined, GraceExpires, Sweep, DeadlinePasses,
         ReadPreparing, Decide, TypeOK
<1>2. QED BY <1>1 DEF Bound, TypeOK, RunsArePublished, WorkersAreBound

\* And a step of the manager: workers are dropped only once the flag is set and no
\* preparation is in flight.
LEMMA ManagerPublishes ==
  ASSUME TypeOK, IInv, QInv, Bound, RunsArePublished, ManagerStep
  PROVE  RunsArePublished'
<1> USE DEF Bound, TypeOK
<1>0. ASSUME NEW d \in Claims, wpc[d] \notin {"free", "finished"}
      PROVE  wagent[d] \in Agents /\ wturn[d] \in Claims
  BY <1>0 DEF WorkersAreBound
<1>1. CASE \/ BeginScan \/ ReserveForDispatch \/ StopClaiming \/ NothingClaimed \/ ClaimFails
           \/ FinishScan \/ CheckShutdown \/ Select \/ Wake \/ FailedManagerCancels
  <2>1. UNCHANGED <<owner, wpc, wagent, wturn, run, running>> /\ (flag => flag')
    BY <1>1 DEF BeginScan, ReserveForDispatch, StopClaiming, NothingClaimed, ClaimFails, FinishScan,
                CheckShutdown, Select, Wake, FailedManagerCancels
  <2>2. QED BY <2>1 DEF RunsArePublished
<1>2. ASSUME NEW c \in Claims, Join(c)
      PROVE  RunsArePublished'
  BY <1>0, <1>2 DEF Join, RunsArePublished
<1>3. CASE FailedManagerEnds \/ AbortedManagerDrops
  <2>1. flag' /\ \A d \in Claims : wpc[d] # "starting"
    BY <1>3 DEF FailedManagerEnds, AbortedManagerDrops, IInv, FlagIsSet, NoneStarting, Starting
  <2>2. \A d \in Claims : wpc'[d] \in {"free", "job"}
    <3>1. \A d \in Claims : wpc'[d] = IF d \in workers /\ wpc[d] \notin {"job", "starting"}
                                        THEN "free" ELSE wpc[d]
      BY <1>3 DEF FailedManagerEnds, AbortedManagerDrops, DropWorkers
    <3>2. \A d \in Claims : wpc[d] \in {"free", "job"} \/ d \in workers
      BY DEF QInv, WorkersAreJoined
    <3>3. QED BY <2>1, <3>1, <3>2
  <2>3. QED BY <2>1, <2>2 DEF RunsArePublished
<1>4. ASSUME NEW a \in Agents, NEW c \in Claims, Claim(a, c)
      PROVE  RunsArePublished'
  BY <1>0, <1>4 DEF Claim, Free, Dispatchable, RunsArePublished
<1>5. CASE Recover
  <2>0. PICK expired \in SUBSET {a \in Agents : MayExpire(a)} :
          \E claim \in [Rebound(expired) -> Claims] : Rebinds(expired, claim)
    BY <1>5, RecoverRebinds
  <2>1. PICK claim \in [Rebound(expired) -> Claims] : Rebinds(expired, claim)
    BY <2>0
  <2>2. UNCHANGED <<run, running, flag>>
    BY <1>5 DEF Recover
  <2>3. ASSUME NEW c \in Claims, wpc'[c] \notin {"observer", "unknown"}
        PROVE  /\ wpc'[c] = wpc[c] /\ wagent'[c] = wagent[c] /\ wturn'[c] = wturn[c]
               /\ \A a \in Agents : owner'[a] = c => owner[a] = c
    BY <2>1, <2>3 DEF Rebinds
  <2>4. QED BY <1>0, <2>2, <2>3 DEF RunsArePublished
<1>6. QED BY <1>1, <1>2, <1>3, <1>4, <1>5 DEF ManagerStep

\* A manager that is gone has joined or dropped its workers, whatever runs next.
LEMMA GoneStays ==
  ASSUME TypeOK, GoneWithoutWorkers, Next
  PROVE  GoneWithoutWorkers'
<1>1. CASE ManagerStep
  BY <1>1 DEF ManagerStep, BeginScan, Recover, ReserveForDispatch, StopClaiming, NothingClaimed,
       ClaimFails, Claim, FinishScan, CheckShutdown, Select, Wake, Join, FailedManagerCancels,
       FailedManagerEnds, AbortedManagerDrops, DropWorkers, GoneWithoutWorkers, Gone
<1>2. ASSUME NEW c \in Claims, WorkerStep(c)
      PROVE  UNCHANGED <<mpc, workers>>
  BY <1>2 DEF WorkerStep, BeginPreparation, RefuseStart, Start, StartSucceeds, StartFails, Started,
       Handover, LoseLease, ObservationFails, ObserveWaiting, ObserveStopped, ObserveResumed,
       ObserveTerminal, NotifySettled, Leave, ObserveRecovered, SettleWithoutReplay, Abandon
<1>3. CASE TurnStep
  BY <1>3 DEF TurnStep, RootStarts, RootEnds, NotifyCommitted, CommitWake, ServiceReleases,
       TurnMoves, GoneWithoutWorkers, Gone
<1>4. CASE ShutdownStep
  BY <1>4 DEF ShutdownStep, RequestShutdown, ManagerJoined, GraceExpires, Sweep, DeadlinePasses,
       ReadPreparing, Decide, Abort, GoneWithoutWorkers, Gone
<1>5. QED BY <1>1, <1>2, <1>3, <1>4 DEF Next, GoneWithoutWorkers, Gone

\* The interrupts of a sweep reach every turn that is watched and never waited.
LEMMA AskReaches ==
  ASSUME TypeOK, Bound, RunsArePublished, Ask(Interruptible), NEW c \in Claims,
         wpc[c] \in {"handover", "observing"}, run[wturn[c]] = "live"
  PROVE  wturn[c] \in asked'
<1>1. wagent[c] \in Agents /\ wturn[c] \in Claims
  BY DEF Bound, WorkersAreBound
<1>2. running[wagent[c]] = [claim |-> c, run |-> wturn[c], waiting |-> FALSE]
  BY DEF RunsArePublished, Entry
<1>3. [claim |-> c, run |-> wturn[c], waiting |-> FALSE] \in RunningDispatch
  BY <1>1 DEF RunningDispatch
<1>4. /\ running[wagent[c]] # None /\ running[wagent[c]].run = wturn[c]
      /\ wturn[c] # None /\ ~running[wagent[c]].waiting
  <2>1. running[wagent[c]] # None /\ wturn[c] # None
    BY <1>1, <1>2, <1>3
  <2>2. running[wagent[c]].run = wturn[c]
    BY ONLY <1>2
  <2>3. running[wagent[c]].waiting = FALSE
    BY ONLY <1>2
  <2>4. QED BY <2>1, <2>2, <2>3
<1>5. wturn[c] \in Interruptible
  BY <1>1, <1>4 DEF Interruptible
<1>6. QED BY <1>5 DEF Ask

\* A worker's step keeps the sweep's promise: a start that comes later asks its own turn.
LEMMA WorkerKeepsAsked ==
  ASSUME TypeOK, IInv, Bound, SweptTurnsWereAsked, NEW c \in Claims, WorkerStep(c)
  PROVE  SweptTurnsWereAsked'
<1> USE DEF TypeOK, Bound
<1>0. UNCHANGED <<spc, mpc>>
  BY DEF WorkerStep, BeginPreparation, RefuseStart, Start, StartSucceeds, StartFails, Started,
       Handover, LoseLease, ObservationFails, ObserveWaiting, ObserveStopped, ObserveResumed,
       ObserveTerminal, NotifySettled, Leave, ObserveRecovered, SettleWithoutReplay, Abandon
<1>1. ASSUME NEW d \in Claims, wpc[d] \in {"handover", "observing"}
      PROVE  wturn[d] \in Claims
  BY <1>1 DEF WorkersAreBound
<1>2. CASE Started(c)
  <2>1. wturn[c] = c /\ flag => c \in asked' \/ run[c] # "live"
    BY <1>2 DEF Started, Ask
  <2>2. spc \in {"swept", "decide", "returned"} \/ mpc = "cancelled" => flag
    BY DEF IInv, FlagIsSet
  <2>3. wturn[c] = c
    BY <1>2 DEF Started, WorkersAreBound
  <2>4. QED BY <1>0, <1>1, <1>2, <2>1, <2>2, <2>3 DEF Started, Ask, Goto, SweptTurnsWereAsked
<1>3. CASE StartSucceeds(c)
  <2>1. ASSUME NEW d \in Claims, wpc'[d] \in {"handover", "observing"}
        PROVE  /\ wpc[d] = wpc'[d] /\ d # c /\ wturn'[d] = wturn[d] /\ wturn[d] # c
    BY <1>3, <2>1 DEF StartSucceeds, Goto, WorkersAreBound, Preparing
  <2>2. \A t \in Claims \ {c} : run'[t] = run[t]
    BY <1>3 DEF StartSucceeds
  <2>3. QED BY <1>0, <1>1, <1>3, <2>1, <2>2 DEF StartSucceeds, SweptTurnsWereAsked
<1>4. CASE ObserveRecovered(c)
  BY <1>0, <1>1, <1>4 DEF ObserveRecovered, Goto, SweptTurnsWereAsked, LiveTurnsAreBound
<1>5. CASE ~(Started(c) \/ StartSucceeds(c) \/ ObserveRecovered(c))
  <2>1. ASSUME NEW d \in Claims, wpc'[d] \in {"handover", "observing"}
        PROVE  wpc[d] \in {"handover", "observing"} /\ wturn'[d] = wturn[d]
    BY <1>5, <2>1 DEF WorkerStep, BeginPreparation, RefuseStart, Start, StartFails, Handover,
         LoseLease, ObservationFails, ObserveWaiting, ObserveStopped, ObserveResumed,
         ObserveTerminal, NotifySettled, Leave, SettleWithoutReplay, SetWaiting, Abandon, Return,
         Goto
  <2>2. ASSUME NEW t \in Claims, run'[t] = "live"
        PROVE  run[t] = "live" /\ (t \in asked => t \in asked')
    BY <1>5, <2>2 DEF WorkerStep, BeginPreparation, RefuseStart, Start, StartFails, Handover,
         LoseLease, ObservationFails, ObserveWaiting, ObserveStopped, ObserveResumed,
         ObserveTerminal, NotifySettled, Leave, SettleWithoutReplay, SetWaiting, Abandon, Return,
         Goto, Ask
  <2>3. QED BY <1>0, <1>1, <2>1, <2>2 DEF SweptTurnsWereAsked
<1>6. QED BY <1>2, <1>3, <1>4, <1>5

\* A manager's step keeps it: nobody else's turn is forgotten, and a failed manager
\* asks as a sweep does.
LEMMA ManagerKeepsAsked ==
  ASSUME TypeOK, Bound, RunsArePublished, SweptTurnsWereAsked, ManagerStep
  PROVE  SweptTurnsWereAsked'
<1> USE DEF TypeOK
<1>1. CASE FailedManagerCancels
  <2>1. Ask(Interruptible) /\ UNCHANGED <<wpc, wturn, run>>
    BY <1>1 DEF FailedManagerCancels
  <2>2. \A c \in Claims : wpc[c] \in {"handover", "observing"} /\ run[wturn[c]] = "live"
                            => wturn[c] \in asked'
    BY <2>1, AskReaches
  <2>3. QED BY <2>1, <2>2 DEF SweptTurnsWereAsked
<1>2. CASE Recover
  <2>0. PICK expired \in SUBSET {a \in Agents : MayExpire(a)} :
          \E claim \in [Rebound(expired) -> Claims] : Rebinds(expired, claim)
    BY <1>2, RecoverRebinds
  <2>1. PICK claim \in [Rebound(expired) -> Claims] : Rebinds(expired, claim)
    BY <2>0
  <2>2. ASSUME NEW c \in Claims, wpc'[c] \notin {"observer", "unknown"}
        PROVE  wpc'[c] = wpc[c] /\ wturn'[c] = wturn[c]
    BY <2>1, <2>2 DEF Rebinds
  <2>3. UNCHANGED <<spc, asked, run>> /\ mpc' = "claim"
    BY <1>2 DEF Recover
  <2>4. QED BY <2>2, <2>3 DEF SweptTurnsWereAsked
<1>3. ASSUME NEW a \in Agents, NEW c \in Claims, Claim(a, c)
      PROVE  SweptTurnsWereAsked'
  <2>1. \A d \in Claims : wpc'[d] \in {"handover", "observing"} =>
          wpc'[d] = wpc[d] /\ wturn'[d] = wturn[d] /\ wturn[d] \in Claims
    BY <1>3 DEF Claim, Bound, WorkersAreBound
  <2>2. \A t \in Claims : run'[t] = "live" => run[t] = "live"
    BY <1>3 DEF Claim
  <2>3. UNCHANGED <<spc, asked>> /\ mpc' = "claim"
    BY <1>3 DEF Claim
  <2>4. QED BY <2>1, <2>2, <2>3 DEF SweptTurnsWereAsked
<1>4. ASSUME NEW c \in Claims, Join(c)
      PROVE  SweptTurnsWereAsked'
  BY <1>4 DEF Join, SweptTurnsWereAsked
<1>5. CASE FailedManagerEnds \/ AbortedManagerDrops
  <2>1. \A d \in Claims : wpc'[d] \in {"handover", "observing"} =>
          wpc'[d] = wpc[d] /\ wturn'[d] = wturn[d]
    BY <1>5 DEF FailedManagerEnds, AbortedManagerDrops, DropWorkers
  <2>2. UNCHANGED <<spc, asked, run>> /\ mpc' \in {mpc, "ended"}
    BY <1>5 DEF FailedManagerEnds, AbortedManagerDrops
  <2>3. QED BY <2>1, <2>2 DEF SweptTurnsWereAsked
<1>6. CASE \/ BeginScan \/ ReserveForDispatch \/ StopClaiming \/ NothingClaimed \/ ClaimFails
           \/ FinishScan \/ CheckShutdown \/ Select \/ Wake
  <2>1. UNCHANGED <<wpc, wturn, run, asked, spc>> /\ (mpc' = "cancelled" => mpc = "cancelled")
    BY <1>6 DEF BeginScan, ReserveForDispatch, StopClaiming, NothingClaimed, ClaimFails, FinishScan,
                CheckShutdown, Select, Wake
  <2>2. QED BY <2>1 DEF SweptTurnsWereAsked
<1>7. QED BY <1>1, <1>2, <1>3, <1>4, <1>5, <1>6 DEF ManagerStep

\* So do the steps of turns and of shutdown: a shutdown that returns without a sweep
\* has no worker left.
LEMMA OthersKeepAsked ==
  ASSUME TypeOK, QInv, Bound, RunsArePublished, GoneWithoutWorkers, SweptTurnsWereAsked,
         TurnStep \/ ShutdownStep
  PROVE  SweptTurnsWereAsked'
<1> USE DEF TypeOK
<1>1. CASE TurnStep
  <2>1. UNCHANGED <<mpc, spc, wpc, wturn>>
    BY <1>1 DEF TurnStep, RootStarts, RootEnds, NotifyCommitted, CommitWake, ServiceReleases,
                TurnMoves
  <2>2. \A t \in Claims : run'[t] = "live" => run[t] = "live" /\ (t \in asked => t \in asked')
    BY <1>1 DEF TurnStep, RootStarts, RootEnds, NotifyCommitted, CommitWake, ServiceReleases,
                TurnMoves
  <2>3. \A d \in Claims : wpc[d] \in {"handover", "observing"} => wturn[d] \in Claims
    BY DEF Bound, WorkersAreBound
  <2>4. QED BY <2>1, <2>2, <2>3 DEF SweptTurnsWereAsked
<1>2. CASE Sweep
  <2>1. Ask(Interruptible) /\ UNCHANGED <<wpc, wturn, run>>
    BY <1>2 DEF Sweep
  <2>2. \A c \in Claims : wpc[c] \in {"handover", "observing"} /\ run[wturn[c]] = "live"
                            => wturn[c] \in asked'
    BY <2>1, AskReaches
  <2>3. QED BY <2>1, <2>2 DEF SweptTurnsWereAsked
<1>3. CASE ManagerJoined
  <2>1. \A c \in Claims : wpc[c] \in {"free", "job"}
    BY <1>3 DEF ManagerJoined, GoneWithoutWorkers, QInv, WorkersAreJoined
  <2>2. QED BY <1>3, <2>1 DEF ManagerJoined, SweptTurnsWereAsked
<1>4. CASE RequestShutdown \/ GraceExpires \/ DeadlinePasses \/ ReadPreparing \/ Decide
  <2>1. UNCHANGED <<wpc, wturn, run, asked>>
    BY <1>4 DEF RequestShutdown, GraceExpires, DeadlinePasses, ReadPreparing, Decide
  <2>2. /\ spc' \in {"swept", "decide", "returned"} => spc \in {"swept", "decide", "returned"}
        /\ mpc' = "cancelled" => mpc = "cancelled"
    BY <1>4 DEF RequestShutdown, GraceExpires, DeadlinePasses, ReadPreparing, Decide, Abort
  <2>3. QED BY <2>1, <2>2 DEF SweptTurnsWereAsked
<1>5. QED BY <1>1, <1>2, <1>3, <1>4 DEF ShutdownStep

-----------------------------------------------------------------------------
\* The gate bounds the turns in progress.
Held == {t \in Turns : holders[t] # {}}

\* The gate counts a finite set of turns.
LEMMA HeldIsFinite ==
  /\ IsFiniteSet(Turns) /\ IsFiniteSet(Held)
  /\ active = Cardinality(Held) /\ active \in Nat
<1>1. IsFiniteSet(Turns)
  BY FS_Union DEF Turns
<1>2. IsFiniteSet(Held) /\ Cardinality(Held) \in Nat
  BY <1>1, FS_Subset, FS_CardinalityType DEF Held
<1>3. QED BY <1>1, <1>2 DEF active, Held

\* After a step in which no turn was given its first permit, the gate counts no more.
LEMMA GateShrinks ==
  ASSUME Held' \subseteq Held
  PROVE  active' \in Nat /\ active' <= active
<1>1. IsFiniteSet(Held) /\ active = Cardinality(Held)
  BY HeldIsFinite
<1>2. IsFiniteSet(Held') /\ Cardinality(Held') <= Cardinality(Held) /\ Cardinality(Held') \in Nat
  BY <1>1, FS_Subset, FS_CardinalityType
<1>3. active' = Cardinality(Held')
  BY DEF active, Held
<1>4. QED BY <1>1, <1>2, <1>3

\* A first permit takes one slot.
LEMMA GateGrows ==
  ASSUME NEW t, Held' = Held \cup {t}
  PROVE  active' \in Nat /\ active' <= active + 1
<1>1. IsFiniteSet(Held) /\ active = Cardinality(Held) /\ active \in Nat
  BY HeldIsFinite
<1>2. Cardinality(Held \cup {t}) = IF t \in Held THEN Cardinality(Held) ELSE Cardinality(Held) + 1
  BY <1>1, FS_AddElement
<1>3. active' = Cardinality(Held')
  BY DEF active, Held
<1>4. QED BY <1>1, <1>2, <1>3

\* Nobody but a claim and a root turn takes a first permit, and only a claim prepares.
Grows == (\E r \in Roots : RootStarts(r)) \/ (\E a \in Agents, c \in Claims : Claim(a, c))

Shrinks ==
  /\ Held' \subseteq Held
  /\ \A c \in Claims : wpc'[c] \in Preparing => wpc[c] \in Preparing

\* A worker's step takes no slot.
LEMMA WorkerShrinks ==
  ASSUME TypeOK, PermitsAreHeld, NEW c \in Claims, WorkerStep(c)
  PROVE  Shrinks
<1>1. ASSUME NEW d \in Claims, wpc'[d] \in Preparing
      PROVE  wpc[d] \in Preparing
  BY <1>1 DEF WorkerStep, BeginPreparation, RefuseStart, Start, StartSucceeds, StartFails, Started,
       Handover, LoseLease, ObservationFails, ObserveWaiting, ObserveStopped, ObserveResumed,
       ObserveTerminal, NotifySettled, Leave, ObserveRecovered, SettleWithoutReplay, Abandon, Return,
       Goto, Preparing, TypeOK
<1>2. CASE StartSucceeds(c)
  <2>1. c \in Held
    BY <1>2 DEF StartSucceeds, PermitsAreHeld, Preparing, Held, Turns
  <2>2. Held' \subseteq Held
    BY <1>2, <2>1 DEF StartSucceeds, Held, TypeOK
  <2>3. QED BY <1>1, <2>2 DEF Shrinks
<1>3. CASE ~StartSucceeds(c)
  <2>1. ASSUME NEW t \in Turns, holders'[t] # {}
        PROVE  holders[t] # {}
    <3>1. CASE \/ BeginPreparation(c) \/ Start(c) \/ Started(c) \/ Handover(c) \/ Leave(c)
               \/ ObserveWaiting(c) \/ ObserveStopped(c) \/ ObserveResumed(c)
      BY <2>1, <3>1 DEF BeginPreparation, Start, Started, Handover, Leave, ObserveWaiting,
         ObserveStopped, ObserveResumed
    <3>2. CASE \/ RefuseStart(c) \/ StartFails(c) \/ LoseLease(c) \/ ObservationFails(c)
               \/ ObserveTerminal(c) \/ NotifySettled(c)
      <4>1. DropPermit(c) \/ UNCHANGED holders
        BY <3>2 DEF RefuseStart, StartFails, LoseLease, ObservationFails, ObserveTerminal,
           NotifySettled, Abandon
      <4>2. QED BY <2>1, <4>1 DEF DropPermit
    <3>3. CASE ObserveRecovered(c) \/ SettleWithoutReplay(c)
      BY <2>1, <3>3 DEF ObserveRecovered, SettleWithoutReplay, TypeOK
    <3>4. QED BY <1>3, <3>1, <3>2, <3>3 DEF WorkerStep
  <2>2. Held' \subseteq Held
    BY <2>1 DEF Held
  <2>3. QED BY <1>1, <2>2 DEF Shrinks
<1>4. QED BY <1>2, <1>3

\* Nor does a step of the manager that is not a claim.
LEMMA ManagerShrinks ==
  ASSUME TypeOK, ManagerStep, ~Grows
  PROVE  Shrinks
<1>1. CASE FailedManagerEnds \/ AbortedManagerDrops
  <2>1. \A t \in Turns : holders'[t] \subseteq holders[t]
    BY <1>1 DEF FailedManagerEnds, AbortedManagerDrops, DropWorkers, TypeOK
  <2>2. \A c \in Claims : wpc'[c] \in Preparing => wpc[c] \in Preparing
    BY <1>1 DEF FailedManagerEnds, AbortedManagerDrops, DropWorkers, Preparing, TypeOK
  <2>3. QED BY <2>1, <2>2 DEF Shrinks, Held
<1>2. CASE Recover
  <2>0. PICK expired \in SUBSET {a \in Agents : MayExpire(a)} :
          \E claim \in [Rebound(expired) -> Claims] : Rebinds(expired, claim)
    BY <1>2, RecoverRebinds
  <2>1. PICK claim \in [Rebound(expired) -> Claims] : Rebinds(expired, claim)
    BY <2>0
  <2>2. ASSUME NEW c \in Claims, wpc'[c] \notin {"observer", "unknown"}
        PROVE  wpc'[c] = wpc[c]
    BY <2>1, <2>2 DEF Rebinds
  <2>3. UNCHANGED holders
    BY <1>2 DEF Recover
  <2>4. QED BY <2>2, <2>3 DEF Shrinks, Held, Preparing
<1>3. CASE \/ BeginScan \/ ReserveForDispatch \/ StopClaiming \/ NothingClaimed \/ ClaimFails
           \/ FinishScan \/ CheckShutdown \/ Select \/ Wake \/ FailedManagerCancels
           \/ \E c \in Claims : Join(c)
  <2>1. UNCHANGED holders /\ \A c \in Claims : wpc'[c] \in Preparing => wpc[c] \in Preparing
    BY <1>3 DEF BeginScan, ReserveForDispatch, StopClaiming, NothingClaimed, ClaimFails, FinishScan,
                CheckShutdown, Select, Wake, FailedManagerCancels, Join, Preparing, TypeOK
  <2>2. QED BY <2>1 DEF Shrinks, Held
<1>4. QED BY <1>1, <1>2, <1>3 DEF ManagerStep, Grows

\* Nor a step of a turn or of shutdown, but for the start of a root turn.
LEMMA OthersShrink ==
  ASSUME TypeOK, TurnStep \/ ShutdownStep, ~Grows
  PROVE  Shrinks
<1>1. CASE TurnStep
  <2>1. \A t \in Turns : holders'[t] \subseteq holders[t]
    BY <1>1 DEF TurnStep, Grows, RootEnds, NotifyCommitted, CommitWake, ServiceReleases,
                TurnMoves, TypeOK
  <2>2. UNCHANGED wpc
    BY <1>1 DEF TurnStep, RootStarts, RootEnds, NotifyCommitted, CommitWake, ServiceReleases,
                TurnMoves
  <2>3. QED BY <2>1, <2>2 DEF Shrinks, Held
<1>2. CASE ShutdownStep
  BY <1>2 DEF ShutdownStep, RequestShutdown, ManagerJoined, GraceExpires, Sweep, DeadlinePasses,
              ReadPreparing, Decide, Shrinks, Held
<1>3. QED BY <1>1, <1>2

\* Every step keeps the reservations within the limit.
LEMMA SlotsStay ==
  ASSUME TypeOK, PermitsAreHeld, SlotsAreReserved, Next
  PROVE  SlotsAreReserved'
<1>0. active \in Nat /\ Limit \in Nat
  BY HeldIsFinite
<1>1. ASSUME NEW r \in Roots, RootStarts(r)
      PROVE  SlotsAreReserved'
  <2>1. Held' = Held \cup {r}
    BY <1>1 DEF RootStarts, Held, Turns, TypeOK
  <2>2. active' \in Nat /\ active' <= active + 1
    BY <2>1, GateGrows
  <2>3. active + (IF mpc = "claiming" THEN 1 ELSE 0) < Limit /\ UNCHANGED <<mpc, wpc>>
    BY <1>1 DEF RootStarts, HasCapacity, reserved
  <2>4. QED BY <1>0, <2>2, <2>3 DEF SlotsAreReserved
<1>2. ASSUME NEW a \in Agents, NEW c \in Claims, Claim(a, c)
      PROVE  SlotsAreReserved'
  <2>1. Held' = Held \cup {c}
    BY <1>2 DEF Claim, Held, Turns, TypeOK
  <2>2. active' \in Nat /\ active' <= active + 1
    BY <2>1, GateGrows
  <2>3. active < Limit /\ mpc' = "claim"
    BY <1>2 DEF Claim, SlotsAreReserved
  <2>4. QED BY <1>0, <2>2, <2>3 DEF SlotsAreReserved
<1>3. CASE ~Grows
  <2>1. Shrinks
    BY <1>3, WorkerShrinks, ManagerShrinks, OthersShrink DEF Next
  <2>2. active' \in Nat /\ active' <= active
    BY <2>1, GateShrinks DEF Shrinks
  <2>3. mpc' = "claiming" => active < Limit
    <3>1. CASE ReserveForDispatch
      BY <1>0, <3>1 DEF ReserveForDispatch, HasCapacity, reserved
    <3>2. CASE ManagerStep /\ ~ReserveForDispatch
      <4>1. mpc' = "claiming" => mpc = "claiming"
        BY <1>3, <3>2 DEF ManagerStep, Grows, BeginScan, Recover, StopClaiming, NothingClaimed,
             ClaimFails, FinishScan, CheckShutdown, Select, Wake, Join, FailedManagerCancels,
             FailedManagerEnds, AbortedManagerDrops
      <4>2. QED BY <4>1 DEF SlotsAreReserved
    <3>3. ASSUME NEW c \in Claims, WorkerStep(c)
          PROVE  UNCHANGED mpc
      BY <3>3 DEF WorkerStep, BeginPreparation, RefuseStart, Start, StartSucceeds, StartFails,
           Started, Handover, LoseLease, ObservationFails, ObserveWaiting, ObserveStopped,
           ObserveResumed, ObserveTerminal, NotifySettled, Leave, ObserveRecovered,
           SettleWithoutReplay, Abandon
    <3>4. CASE TurnStep
      BY <3>4 DEF TurnStep, RootStarts, RootEnds, NotifyCommitted, CommitWake, ServiceReleases,
           TurnMoves, SlotsAreReserved
    <3>5. CASE ShutdownStep
      BY <3>5 DEF ShutdownStep, RequestShutdown, ManagerJoined, GraceExpires, Sweep,
           DeadlinePasses, ReadPreparing, Decide, Abort, SlotsAreReserved
    <3>6. QED BY <3>1, <3>2, <3>3, <3>4, <3>5 DEF Next, SlotsAreReserved
  <2>4. QED BY <1>0, <2>1, <2>2, <2>3 DEF Shrinks, SlotsAreReserved
<1>4. QED BY <1>1, <1>2, <1>3 DEF Grows

\* A worker's step keeps the permits of the others.
LEMMA WorkerHolds ==
  ASSUME TypeOK, PermitsAreHeld, WorkersAreBound, NEW c \in Claims, WorkerStep(c)
  PROVE  PermitsAreHeld'
<1> USE DEF TypeOK, Turns, Service
<1>1. CASE \/ BeginPreparation(c) \/ Start(c) \/ Started(c) \/ Handover(c) \/ Leave(c)
           \/ ObserveWaiting(c) \/ ObserveResumed(c)
  <2>1. UNCHANGED <<run, holders>>
    BY <1>1 DEF BeginPreparation, Start, Started, Handover, Leave, ObserveWaiting, ObserveResumed
  <2>2. QED BY <2>1, WorkerShrinks DEF PermitsAreHeld, Shrinks
<1>2. CASE \/ RefuseStart(c) \/ StartFails(c) \/ LoseLease(c) \/ ObservationFails(c)
           \/ ObserveTerminal(c) \/ NotifySettled(c)
  <2>1. UNCHANGED run /\ wpc'[c] \notin Preparing
    BY <1>2 DEF RefuseStart, StartFails, LoseLease, ObservationFails, ObserveTerminal,
         NotifySettled, Abandon, Return, Goto, Preparing
  <2>2. DropPermit(c) \/ UNCHANGED holders
    BY <1>2 DEF RefuseStart, StartFails, LoseLease, ObservationFails, ObserveTerminal,
         NotifySettled, Abandon
  <2>3. \A t \in Turns : \A h \in holders[t] : h # c => h \in holders'[t]
    BY <2>2 DEF DropPermit
  <2>4. QED BY <2>1, <2>3, WorkerShrinks DEF PermitsAreHeld, Shrinks
<1>3. CASE StartSucceeds(c)
  <2>1. /\ \A t \in Turns : holders[t] \subseteq holders'[t]
        /\ Service \in holders'[c] /\ \A t \in Claims \ {c} : run'[t] = run[t]
    BY <1>3 DEF StartSucceeds
  <2>2. QED BY <2>1, WorkerShrinks DEF PermitsAreHeld, Shrinks
<1>4. CASE ObserveRecovered(c)
  <2>1. UNCHANGED run /\ \A t \in Turns : holders[t] \subseteq holders'[t]
    BY <1>4 DEF ObserveRecovered
  <2>2. QED BY <2>1, WorkerShrinks DEF PermitsAreHeld, Shrinks
<1>5. CASE ObserveStopped(c)
  <2>1. UNCHANGED holders /\ \A t \in Claims : run'[t] \in {run[t], "terminal"}
    BY <1>5 DEF ObserveStopped
  <2>2. QED BY <2>1, WorkerShrinks DEF PermitsAreHeld, Shrinks
<1>6. CASE SettleWithoutReplay(c)
  <2>1. /\ \A t \in Claims : \/ run'[t] = run[t] /\ (Service \in holders[t] => Service \in holders'[t])
                             \/ run'[t] = "terminal"
        /\ \A t \in Turns : \A h \in holders[t] : h # Service => h \in holders'[t]
    BY <1>6 DEF SettleWithoutReplay, WorkersAreBound
  <2>2. QED BY <2>1, WorkerShrinks DEF PermitsAreHeld, Shrinks
<1>7. QED BY <1>1, <1>2, <1>3, <1>4, <1>5, <1>6 DEF WorkerStep

\* So does every other step: a slot comes back only from a turn that is over.
LEMMA OthersHold ==
  ASSUME TypeOK, PermitsAreHeld, ManagerStep \/ TurnStep \/ ShutdownStep
  PROVE  PermitsAreHeld'
<1> USE DEF TypeOK, Turns, Service
<1>1. ASSUME NEW a \in Agents, NEW c \in Claims, Claim(a, c)
      PROVE  PermitsAreHeld'
  BY <1>1 DEF Claim, Free, PermitsAreHeld, Preparing
<1>2. ASSUME NEW r \in Roots, RootStarts(r)
      PROVE  PermitsAreHeld'
  BY <1>2 DEF RootStarts, PermitsAreHeld
<1>3. CASE ~Grows
  <2>1. \A c \in Claims : wpc'[c] \in Preparing => wpc[c] \in Preparing
    BY <1>3, ManagerShrinks, OthersShrink DEF Shrinks
  <2>2. CASE FailedManagerEnds \/ AbortedManagerDrops
    <3>1. UNCHANGED run /\ \A t \in Turns : \A h \in holders[t] : h \notin Claims => h \in holders'[t]
      BY <2>2 DEF FailedManagerEnds, AbortedManagerDrops, DropWorkers
    <3>2. \A c \in Claims : wpc'[c] \in Preparing /\ c \in holders[c] => c \in holders'[c]
      BY <2>2 DEF FailedManagerEnds, AbortedManagerDrops, DropWorkers, Preparing
    <3>3. QED BY <2>1, <3>1, <3>2 DEF PermitsAreHeld
  <2>3. CASE ManagerStep /\ ~(FailedManagerEnds \/ AbortedManagerDrops)
    <3>1. UNCHANGED <<run, holders>>
      BY <1>3, <2>3 DEF Grows, ManagerStep, BeginScan, Recover, ReserveForDispatch, StopClaiming,
           NothingClaimed, ClaimFails, FinishScan, CheckShutdown, Select, Wake, Join,
           FailedManagerCancels
    <3>2. QED BY <2>1, <3>1 DEF PermitsAreHeld
  <2>4. CASE ShutdownStep
    <3>1. UNCHANGED <<run, holders>>
      BY <2>4 DEF ShutdownStep, RequestShutdown, ManagerJoined, GraceExpires, Sweep,
           DeadlinePasses, ReadPreparing, Decide
    <3>2. QED BY <2>1, <3>1 DEF PermitsAreHeld
  <2>5. CASE TurnStep
    <3>1. \A t \in Claims : /\ run'[t] \in {"live", "waiting", "resumed"} =>
                                 run[t] \in {"live", "waiting", "resumed"}
                            /\ Service \in holders[t] /\ run[t] \in {"live", "waiting", "resumed"}
                                 => Service \in holders'[t]
                            /\ \A h \in holders[t] : h # Service => h \in holders'[t]
      BY <1>3, <2>5 DEF TurnStep, Grows, RootEnds, NotifyCommitted, CommitWake, ServiceReleases,
           TurnMoves
    <3>2. QED BY <2>1, <3>1 DEF PermitsAreHeld
  <2>6. QED BY <2>2, <2>3, <2>4, <2>5
<1>4. QED BY <1>1, <1>2, <1>3 DEF Grows

\* DInv holds at the start.
LEMMA DispatcherStarts == Init => DInv
<1> SUFFICES ASSUME Init PROVE DInv
  OBVIOUS
<1>1. TypeOK
  <2>1. /\ owner \in [Agents -> Claims \cup {None}] /\ turn = owner
        /\ run = [c \in Claims |-> IF \E a \in Agents : turn[a] = c THEN "waiting" ELSE "none"]
        /\ holders = [t \in Turns |-> IF \E a \in Agents : turn[a] = t THEN {Service} ELSE {}]
    BY DEF Init
  <2>2. run \in [Claims -> {"none", "live", "waiting", "resumed", "terminal"}]
        /\ holders \in [Turns -> SUBSET (Claims \cup {Service})]
    BY <2>1
  <2>3. /\ queued = {} /\ mpc = "begin" /\ sawEmpty = FALSE /\ workers = {} /\ scanning = FALSE
        /\ idle = FALSE /\ moved = FALSE /\ preparing = {} /\ running = [a \in Agents |-> None]
        /\ wpc = [c \in Claims |-> "free"] /\ wagent = [c \in Claims |-> None]
        /\ wturn = [c \in Claims |-> None] /\ reported = {} /\ asked = {} /\ owes = {}
        /\ flag = FALSE /\ spc = "none" /\ late = FALSE /\ hold = FALSE
    BY DEF Init
  <2>4. sawEmpty \in BOOLEAN /\ scanning \in BOOLEAN /\ idle \in BOOLEAN /\ moved \in BOOLEAN
        /\ flag \in BOOLEAN /\ late \in BOOLEAN /\ hold \in BOOLEAN
    BY <2>3
  <2>5. QED BY <2>1, <2>2, <2>3, <2>4 DEF TypeOK
<1>2. /\ mpc = "begin" /\ spc = "none" /\ flag = FALSE /\ idle = FALSE /\ sawEmpty = FALSE
      /\ \A c \in Claims : wpc[c] = "free" /\ wturn[c] = None
      /\ wpc = [c \in Claims |-> "free"]
      /\ owner \in [Agents -> Claims \cup {None}] /\ turn = owner
      /\ \A a, b \in Agents : owner[a] = owner[b] => a = b \/ owner[a] = None
  BY DEF Init
<1>3. IInv /\ QInv
  BY <1>2 DEF IInv, FlagIsSet, PreparationsAreKnown, NoneStarting, ClaimsAreScans, Starting, Places,
       QInv, WorkersAreJoined, IdleAfterScans, EmptyUntilNotified
<1>4. WorkersAreBound /\ WakesAreApart /\ OwnersAgree /\ LiveTurnsAreBound
  BY <1>2 DEF WorkersAreBound, WakesAreApart, OwnersAgree, LiveTurnsAreBound, Preparing, Bearing,
       Watching
<1>5. RunsArePublished /\ SweptTurnsWereAsked /\ GoneWithoutWorkers
  BY <1>2 DEF RunsArePublished, SweptTurnsWereAsked, GoneWithoutWorkers, Gone
<1>6. PermitsAreHeld /\ SlotsAreReserved
  <2>1. \A t \in Claims : run[t] \in {"live", "waiting", "resumed"} => Service \in holders[t]
    BY DEF Init, Turns
  <2>2. QED BY <1>2, <2>1 DEF PermitsAreHeld, SlotsAreReserved, Preparing
<1>7. QED BY <1>1, <1>3, <1>4, <1>5, <1>6 DEF DInv

\* DInv is kept by every step.
LEMMA DispatcherKeeps == DInv /\ [Next]_vars => DInv'
<1>1. ASSUME DInv, Next
      PROVE  DInv'
  <2>1. /\ TypeOK /\ IInv /\ QInv /\ Bound /\ WorkersAreBound /\ RunsArePublished
        /\ SweptTurnsWereAsked /\ GoneWithoutWorkers /\ PermitsAreHeld /\ SlotsAreReserved
    BY <1>1 DEF DInv, Bound
  <2>2. TypeOK'
    BY <1>1, <2>1, WorkerTypes, ManagerTypes, OtherTypes DEF Next
  <2>3. IInv' /\ QInv'
    BY <1>1, <2>1, ManagerKeeps, WorkerKeeps, TurnKeeps, ShutdownKeeps, ManagerKeepsQ, WorkerKeepsQ,
       TurnKeepsQ, ShutdownKeepsQ DEF Next
  <2>4. Bound'
    BY <1>1, <2>1, WorkerBinds, ManagerBinds, OthersBind DEF Next
  <2>5. RunsArePublished'
    BY <1>1, <2>1, WorkerPublishes, ManagerPublishes, OthersPublish DEF Next
  <2>6. SweptTurnsWereAsked' /\ GoneWithoutWorkers'
    BY <1>1, <2>1, WorkerKeepsAsked, ManagerKeepsAsked, OthersKeepAsked, GoneStays DEF Next
  <2>7. PermitsAreHeld' /\ SlotsAreReserved'
    BY <1>1, <2>1, WorkerHolds, OthersHold, SlotsStay DEF Next
  <2>8. QED BY <2>2, <2>3, <2>4, <2>5, <2>6, <2>7 DEF DInv, Bound
<1>2. ASSUME DInv, UNCHANGED vars
      PROVE  DInv'
  BY <1>2 DEF vars, DInv, TypeOK, IInv, FlagIsSet, PreparationsAreKnown, NoneStarting,
       ClaimsAreScans, Starting, QInv, WorkersAreJoined, IdleAfterScans, EmptyUntilNotified,
       Dispatchable, WorkersAreBound, WakesAreApart, OwnersAgree, LiveTurnsAreBound,
       RunsArePublished, SweptTurnsWereAsked, GoneWithoutWorkers, Gone, PermitsAreHeld,
       SlotsAreReserved, active
<1>3. QED BY <1>1, <1>2

\* The inductive invariant of the dispatcher: types, the shutdown and the quiescence
\* invariants, the bindings, the registry and the permits.
THEOREM DispatcherInvariance == Spec => []DInv
BY DispatcherStarts, DispatcherKeeps, PTL DEF Spec

\* Every variable of the dispatcher keeps its type.
THEOREM DispatcherTyped == Spec => []TypeOK
<1>1. DInv => TypeOK
  BY DEF DInv
<1>2. QED BY <1>1, DispatcherInvariance, PTL

\* When shutdown has returned, or a failed manager gives its workers up, every turn
\* that a worker still observes and that never waited for an approval was asked to
\* stop: it started before the sweep and was registered, or it asked itself.
THEOREM SweepsReachEveryTurn == Spec => []UnfinishedTurnsWereAsked
<1>1. DInv => UnfinishedTurnsWereAsked
  BY DEF DInv, TypeOK, SweptTurnsWereAsked, UnfinishedTurnsWereAsked
<1>2. QED BY <1>1, DispatcherInvariance, PTL

\* No step of any actor starts a turn beyond the limit of the gate: a root turn takes
\* a free slot that no claim has reserved, and the turn of a claim was counted from the
\* claim on.
THEOREM GateHolds == Spec => NoTurnBeyondLimit
<1>1. ASSUME DInv, DInv', [Next]_vars
      PROVE  [Cardinality(InProgress') > Cardinality(InProgress)
                => Cardinality(InProgress') <= Limit]_vars
  <2>0. TypeOK /\ PermitsAreHeld /\ SlotsAreReserved /\ TypeOK' /\ PermitsAreHeld'
    BY <1>1 DEF DInv
  <2>1. SUFFICES ASSUME Next
                 PROVE  Cardinality(InProgress') > Cardinality(InProgress)
                          => Cardinality(InProgress') <= Limit
    BY <1>1
  <2>2. InProgress \subseteq Turns /\ InProgress' \subseteq Held'
    BY <2>0 DEF InProgress, Held, Turns, PermitsAreHeld
  <2>3. IsFiniteSet(InProgress) /\ Cardinality(InProgress) \in Nat
    BY <2>2, HeldIsFinite, FS_Subset, FS_CardinalityType
  <2>4. ASSUME active' \in Nat, active' <= Limit
        PROVE  Cardinality(InProgress') <= Limit
    <3>1. Held' \subseteq Turns
      BY DEF Held
    <3>2. IsFiniteSet(Held')
      BY <3>1, HeldIsFinite, FS_Subset
    <3>3. Cardinality(InProgress') <= Cardinality(Held') /\ Cardinality(InProgress') \in Nat
      BY <2>2, <3>2, FS_Subset, FS_CardinalityType
    <3>4. active' = Cardinality(Held')
      BY DEF active, Held
    <3>5. QED BY <2>4, <3>3, <3>4
  <2>5. ASSUME InProgress' \subseteq InProgress
        PROVE  ~(Cardinality(InProgress') > Cardinality(InProgress))
    <3>1. Cardinality(InProgress') <= Cardinality(InProgress) /\ Cardinality(InProgress') \in Nat
      BY <2>3, <2>5, FS_Subset, FS_CardinalityType
    <3>2. QED BY <2>3, <3>1
  <2>6. ASSUME NEW r \in Roots, RootStarts(r)
        PROVE  Cardinality(InProgress') <= Limit
    <3>1. Held' = Held \cup {r}
      <4>1. TypeOK
        BY <2>0
      <4>2. QED BY <2>6, <4>1 DEF RootStarts, Held, Turns, TypeOK
    <3>2. active' \in Nat /\ active' <= active + 1
      BY <3>1, GateGrows
    <3>3. active + reserved < Limit /\ reserved \in {0, 1} /\ active \in Nat
      BY <2>6, HeldIsFinite DEF RootStarts, HasCapacity, reserved
    <3>4. active' <= Limit
      BY <3>2, <3>3
    <3>5. QED BY <2>4, <3>2, <3>4
  <2>7. ASSUME NEW c \in Claims, StartSucceeds(c)
        PROVE  Cardinality(InProgress') <= Limit
    <3>1. active <= Limit
      BY <2>0, <2>7 DEF StartSucceeds, SlotsAreReserved, Preparing
    <3>2. Shrinks
      BY <2>0, <2>7, WorkerShrinks DEF WorkerStep
    <3>3. active' \in Nat /\ active' <= active /\ active \in Nat
      BY <3>2, GateShrinks, HeldIsFinite DEF Shrinks
    <3>4. active' <= Limit
      BY <3>1, <3>3
    <3>5. QED BY <2>4, <3>3, <3>4
  <2>8. ASSUME NEW c \in Claims, WorkerStep(c), ~StartSucceeds(c)
        PROVE  InProgress' \subseteq InProgress
    <3>1. \A t \in Claims : run'[t] = run[t] \/ run'[t] = "terminal"
      BY <2>0, <2>8 DEF WorkerStep, BeginPreparation, RefuseStart, Start, StartFails, Started,
         Handover, LoseLease, ObservationFails, ObserveWaiting, ObserveStopped, ObserveResumed,
         ObserveTerminal, NotifySettled, Leave, ObserveRecovered, SettleWithoutReplay, TypeOK
    <3>2. Held' \subseteq Held
      BY <2>0, <2>8, WorkerShrinks DEF Shrinks
    <3>3. QED BY <3>1, <3>2 DEF InProgress, Held, Turns
  <2>9. ASSUME ManagerStep, ~\E r \in Roots : RootStarts(r)
        PROVE  InProgress' \subseteq InProgress
    <3>0. TypeOK
      BY <2>0
    <3>1. ASSUME NEW a \in Agents, NEW c \in Claims, Claim(a, c)
          PROVE  InProgress' \subseteq InProgress
      <4>1. /\ \A t \in Claims : run'[t] = run[t] \/ run'[t] = "none"
            /\ \A r \in Roots : holders'[r] = holders[r]
        BY <3>0, <3>1 DEF Claim, TypeOK, Turns
      <4>2. QED BY <4>1 DEF InProgress
    <3>2. CASE ~Grows
      <4>1. UNCHANGED run
        BY <2>9, <3>2 DEF ManagerStep, Grows, BeginScan, Recover, ReserveForDispatch, StopClaiming,
           NothingClaimed, ClaimFails, FinishScan, CheckShutdown, Select, Wake, Join,
           FailedManagerCancels, FailedManagerEnds, AbortedManagerDrops
      <4>2. Held' \subseteq Held
        BY <2>9, <3>0, <3>2, ManagerShrinks DEF Shrinks
      <4>3. QED BY <4>1, <4>2 DEF InProgress, Held, Turns
    <3>3. QED BY <2>9, <3>1, <3>2 DEF Grows
  <2>10. ASSUME TurnStep \/ ShutdownStep, ~\E r \in Roots : RootStarts(r)
         PROVE  InProgress' \subseteq InProgress
    <3>1. \A t \in Claims : run'[t] \in {"live", "waiting", "resumed"} =>
                              run[t] \in {"live", "waiting", "resumed"}
      BY <2>0, <2>10 DEF TurnStep, RootEnds, NotifyCommitted, CommitWake, ServiceReleases,
         TurnMoves, ShutdownStep, RequestShutdown, ManagerJoined, GraceExpires, Sweep,
         DeadlinePasses, ReadPreparing, Decide, TypeOK
    <3>2. \A r \in Roots : holders'[r] # {} => holders[r] # {}
      BY <2>0, <2>10 DEF TurnStep, RootEnds, NotifyCommitted, CommitWake, ServiceReleases,
         TurnMoves, ShutdownStep, RequestShutdown, ManagerJoined, GraceExpires, Sweep,
         DeadlinePasses, ReadPreparing, Decide, TypeOK, Turns
    <3>3. QED BY <3>1, <3>2 DEF InProgress
  <2>11. QED BY <2>1, <2>5, <2>6, <2>7, <2>8, <2>9, <2>10 DEF Next
<1>2. QED BY <1>1, DispatcherInvariance, PTL DEF Spec, NoTurnBeyondLimit
=============================================================================
