-------------------------- MODULE AgentWakes_claims --------------------------
(***************************************************************************)
(* The claims, the runtime segments and the outcomes of AgentWakes, for    *)
(* every tree, lease and bound: who may act for a wake, how many segments  *)
(* a turn has, what a settlement reports and what the user's stop covers.  *)
(*                                                                         *)
(* The rows of AgentWakes_proofs are not enough here.  These theorems need *)
(* what the rows have to do with the memory of the processes: with the     *)
(* workers' phases, the segments and the refused claims.                   *)
(***************************************************************************)
EXTENDS AgentWakes_proofs

USE BoundAssumption, TreeAssumption

-----------------------------------------------------------------------------
(* The inductive invariants.                                               *)

\* No token is known to anybody before its transaction issued it.
ClaimsAreIssued ==
  /\ \A w \in Wakes : token[w] <= issued[w]
  /\ \A o \in owners : o.token <= issued[o.wake]
  /\ \A s \in segments : s.token <= issued[s.wake]
  /\ \A r \in refused : r[2] <= issued[r[1]]

\* A worker that still holds the claim it is starting has not been overtaken.
StartHoldsClaim ==
  \A o \in owners :
    o.phase = "start" /\ o.token = token[o.wake] => status[o.wake] \notin Admitted

ClaimInv == ClaimsAreIssued /\ ClaimHasOneOwner /\ StartHoldsClaim

\* A turn has at most one segment, fenced or not.
OneSegmentPerTurn ==
  \A s, t \in segments : s.wake = t.wake => s = t

\* A segment's turn was admitted and does not wait on an action, and the turn of
\* a segment that runs the model is open until its wake leaves it.
SegmentsRunTurns ==
  \A s \in segments :
    /\ trace[s.wake] # "none"
    /\ action[s.wake] \in {"none", "continuing"}
    /\ status[s.wake] # "waiting_for_approval"
    /\ s.phase = "runtime" /\ status[s.wake] \in Admitted =>
         trace[s.wake] = "in_progress"

TurnsAreTraced ==
  \A w \in Wakes :
    /\ status[w] \in Admitted => trace[w] # "none"
    /\ trace[w] = "none" => action[w] = "none"

\* Between admission and launch the turn is the worker's alone: nothing but a
\* settlement of the wake can close it.
LaunchIsPending ==
  \A o \in owners : o.phase = "admitted" =>
    /\ action[o.wake] = "none"
    /\ trace[o.wake] # "none"
    /\ status[o.wake] \in Admitted =>
         status[o.wake] = "running" /\ trace[o.wake] = "in_progress"
    /\ \A s \in segments : s.wake # o.wake
    /\ \A p \in owners : p.phase = "admitted" /\ p.wake = o.wake => p = o

TurnInv ==
  /\ OneSegmentPerTurn
  /\ SegmentsRunTurns
  /\ TurnsAreTraced
  /\ LaunchIsPending

-----------------------------------------------------------------------------
(* What a step does to the workers, and the claims it keeps.               *)

\* A worker moves on under its claim.
OwnerMoves(o, p) ==
  /\ p.wake = o.wake /\ p.token = o.token /\ p.phase # o.phase
  /\ p.phase # "start"
  /\ owners' = (owners \ {o}) \cup {p}

\* Workers only leave or move on.
OwnersKept ==
  \/ owners' \subseteq owners
  \/ \E o \in owners, p \in Owners : OwnerMoves(o, p)

\* Move is such a step.
LEMMA MoveKeeps ==
  ASSUME TypeOK, NEW o \in owners, NEW phase \in Phases \ {"start"},
         NEW expected \in Admitted \cup {"none"}, o.phase # phase,
         Move(o, phase, expected)
  PROVE  \E p \in Owners : OwnerMoves(o, p) /\ p.phase = phase /\ p.expected = expected
<1>. DEFINE p == [o EXCEPT !.phase = phase, !.expected = expected]
<1>1. o \in Owners
  BY DEF TypeOK
<1>2. /\ p \in Owners /\ p.wake = o.wake /\ p.token = o.token
      /\ p.phase = phase /\ p.expected = expected
  BY <1>1 DEF Owners
<1>3. owners' = (owners \ {o}) \cup {p}
  BY DEF Move
<1>. HIDE DEF p
<1>. QED  BY <1>2, <1>3 DEF OwnerMoves

\* A step that issues no token keeps the claims: its segments and refusals come
\* from claims that exist, and it admits a wake only through its holder.
LEMMA ClaimsKept ==
  ASSUME IInv, ClaimInv, UNCHANGED <<token, issued>>, OwnersKept,
         \A s \in segments' :
           \/ s.token = token[s.wake] /\ s.wake \in Wakes
           \/ \E t \in segments \cup owners : t.wake = s.wake /\ t.token = s.token,
         \A r \in refused' :
           r \in refused \/ \E s \in segments : r = <<s.wake, s.token>>,
         \A w \in Wakes : status'[w] \in Admitted =>
           \/ status[w] \in Admitted
           \/ \E o \in owners \ owners' : o.wake = w /\ o.token = token[w]
  PROVE  ClaimInv'
<1>. USE DEF ClaimInv
<1>1. \A p \in owners' : \E o \in owners :
        o.wake = p.wake /\ o.token = p.token /\ (p.phase = "start" => p = o)
  BY DEF OwnersKept, OwnerMoves
<1>2. ClaimsAreIssued'
  BY <1>1 DEF ClaimsAreIssued
<1>3. ClaimHasOneOwner'
  BY DEF OwnersKept, OwnerMoves, ClaimHasOneOwner
<1>4. StartHoldsClaim'
  <2>. SUFFICES ASSUME NEW p \in owners', p.phase = "start", p.token = token[p.wake],
                       status'[p.wake] \in Admitted
                PROVE  FALSE
    BY DEF StartHoldsClaim
  <2>1. p \in owners /\ p.wake \in Wakes
    BY <1>1 DEF IInv, TypeOK, Owners
  <2>. QED  BY <2>1 DEF StartHoldsClaim, ClaimHasOneOwner
<1>. QED  BY <1>2, <1>3, <1>4

-----------------------------------------------------------------------------
(* What a step does to one wake's row and trace.                           *)

\* Before admission a wake is inserted, claimed, requeued or withdrawn.
MovesUnadmitted(w) ==
  /\ status[w] \in {"absent", "queued", "claimed"}
  /\ status'[w] \in {"queued", "claimed", "cancelled", "satisfied"}
  /\ trace'[w] = trace[w]

OpensTurn(w) ==
  /\ status[w] = "claimed" /\ status'[w] = "running"
  /\ trace'[w] = "in_progress"

MovesAdmitted(w) ==
  /\ status[w] \in Admitted /\ status'[w] \in Admitted
  /\ status'[w] = "waiting_for_approval" =>
       action[w] = "pending" /\ action'[w] = "pending"
  /\ trace'[w] = trace[w]

\* The trace closes first: no segment of the turn is left, no worker is about to
\* launch one, and the user's stop was respected.
ClosesTurn(w) ==
  /\ status[w] \in Admitted /\ status'[w] = status[w]
  /\ trace[w] = "in_progress" /\ trace'[w] \in TerminalTraces
  /\ w \in stopped => trace'[w] # "completed"
  /\ \A s \in segments' : s.wake # w
  /\ \A o \in owners : o.wake = w => o.phase # "admitted"

\* What a settlement may report, given the trace it reads.
Reports(t, outcome) ==
  /\ outcome = "completed" => t = "completed"
  /\ outcome = "failed" => t \in {"none", "in_progress", "failed"}
  /\ outcome = "interrupted" => t \in {"in_progress", "cancelled"}
  /\ outcome = "outcome_unknown" => t # "none"

Settles(w) ==
  /\ status[w] \in Active /\ status'[w] \in Settled
  /\ trace'[w] = TerminalizedTrace(trace[w], status'[w])
  /\ Reports(trace[w], status'[w])

RowMoves(w) ==
  \/ status'[w] = status[w] /\ trace'[w] = trace[w]
  \/ MovesUnadmitted(w)
  \/ OpensTurn(w)
  \/ MovesAdmitted(w)
  \/ ClosesTurn(w)
  \/ Settles(w)

\* A settlement changes its own row, and inserts one unless the run is stopped.
LEMMA FinishRows ==
  ASSUME IInv, NEW w \in Wakes, NEW outcome \in Settled, FinishAgentTurn(w, outcome)
  PROVE  /\ status[w] \in Active /\ status'[w] = outcome
         /\ trace'[w] = TerminalizedTrace(trace[w], outcome)
         /\ \A x \in Wakes \ {w} :
              /\ trace'[x] = trace[x] /\ ttl'[x] = ttl[x]
              /\ \/ status'[x] = status[x]
                 \/ status[x] = "absent" /\ status'[x] = "queued" /\ w \notin stopped
<1>. USE DEF IInv, TypeOK
<1>1. status[w] \in Active
  BY DEF FinishAgentTurn, CanTransitionTo, Active, Settled
<1>2. /\ trace'[w] = TerminalizedTrace(trace[w], outcome)
      /\ \A x \in Wakes \ {w} : trace'[x] = trace[x] /\ ttl'[x] = ttl[x]
  BY DEF FinishAgentTurn
<1>3. CASE ~WakesParent(w, outcome)
  BY <1>1, <1>2, <1>3 DEF FinishAgentTurn
<1>4. CASE WakesParent(w, outcome)
  <2>. DEFINE n == created + 1
  <2>1. EnqueueWake(Parent[agent[w]], w, [status EXCEPT ![w] = outcome])
    BY <1>4 DEF FinishAgentTurn
  <2>2. n \in Wakes /\ n > created /\ w <= created
    BY <1>1, <2>1 DEF EnqueueWake, Wakes, Existing, Active
  <2>3. n # w /\ status[n] = "absent"
    BY <2>2 DEF Existing, Wakes
  <2>4. \A x \in Wakes : status'[x] = IF x = n THEN "queued"
                                      ELSE IF x = w THEN outcome ELSE status[x]
    BY <2>1 DEF EnqueueWake
  <2>. HIDE DEF n
  <2>. QED  BY <1>1, <1>2, <1>4, <2>2, <2>3, <2>4 DEF WakesParent
<1>. QED  BY <1>3, <1>4

\* So a settlement is a row step of every wake, if it reports what it may.
LEMMA FinishMoves ==
  ASSUME IInv, NEW w \in Wakes, NEW outcome \in Settled, FinishAgentTurn(w, outcome),
         Reports(trace[w], outcome), NEW x \in Wakes
  PROVE  RowMoves(x)
<1>1. CASE x = w
  BY <1>1, FinishRows DEF RowMoves, Settles
<1>2. CASE x # w
  BY <1>2, FinishRows DEF RowMoves, MovesUnadmitted
<1>. QED  BY <1>1, <1>2

\* A worker's step.
LEMMA OwnerRows ==
  ASSUME IInv, ClaimInv, TurnInv, NEW o \in owners, OwnerStep(o), NEW x \in Wakes
  PROVE  RowMoves(x)
<1>. USE DEF IInv, TypeOK
<1>0. o \in Owners /\ o.wake \in Wakes
  BY DEF Owners
<1>1. CASE UNCHANGED <<status, trace>>
  BY <1>1 DEF RowMoves
<1>2. CASE \/ RenewLease(o) \/ LaunchSegment(o) \/ ObservePendingApproval(o)
           \/ ObserveRunningAfterApproval(o) \/ OwnerRefused(o) \/ OwnerFails(o)
  BY <1>1, <1>2 DEF RenewLease, LaunchSegment, ObservePendingApproval,
       ObserveRunningAfterApproval, OwnerRefused, OwnerFails, durable
<1>3. CASE AdmitTurn(o)
  BY <1>0, <1>3 DEF AdmitTurn, RowMoves, OpensTurn
<1>4. CASE MarkWaitingForApproval(o)
  BY <1>0, <1>4 DEF MarkWaitingForApproval, RowMoves, MovesAdmitted, Admitted
<1>5. CASE SettleStartFailure(o)
  <2>1. FinishAgentTurn(o.wake, "failed") /\ "failed" \in Settled
    BY <1>5 DEF SettleStartFailure, SettleOwned, Settled
  <2>2. CASE o.phase = "start"
    <3>1. status[o.wake] = "claimed"
      BY <1>5, <2>2 DEF SettleStartFailure, SettleOwned, Holds, ClaimInv,
           StartHoldsClaim, Admitted
    <3>2. Reports(trace[o.wake], "failed")
      BY <1>0, <3>1 DEF Reports, ClaimedAndTraced
    <3>. QED  BY <1>0, <2>1, <3>2, FinishMoves
  <2>3. CASE o.phase = "admitted"
    <3>1. trace[o.wake] \in {"none", "in_progress"}
      BY <1>0, <1>5, <2>3 DEF SettleStartFailure, TurnInv, LaunchIsPending,
           ClaimedAndTraced, Admitted
    <3>2. Reports(trace[o.wake], "failed")
      BY <3>1 DEF Reports
    <3>. QED  BY <1>0, <2>1, <3>2, FinishMoves
  <2>. QED  BY <1>5, <2>2, <2>3 DEF SettleStartFailure
<1>6. CASE SettleObserved(o)
  <2>. DEFINE e == OutcomeOf(trace[o.wake])
  <2>1. FinishAgentTurn(o.wake, e) /\ e \in Settled /\ Reports(trace[o.wake], e)
    BY <1>6 DEF SettleObserved, SettleOwned, Settled, OutcomeOf, Reports, TerminalTraces
  <2>. HIDE DEF e
  <2>. QED  BY <1>0, <2>1, FinishMoves
<1>7. CASE SettleOutcomeUnknown(o)
  <2>1. FinishAgentTurn(o.wake, "outcome_unknown") /\ "outcome_unknown" \in Settled
    BY <1>7 DEF SettleOutcomeUnknown, SettleOwned, Settled
  <2>2. status[o.wake] \in Admitted
    <3>1. o.expected \in Admitted \cup {"none"} /\ status[o.wake] = o.expected
      BY <1>0, <1>7 DEF SettleOutcomeUnknown, SettleOwned, Owners
    <3>2. status[o.wake] # "none"
      BY <1>0 DEF Statuses, Active, Terminal, Settled
    <3>. QED  BY <3>1, <3>2
  <2>3. Reports(trace[o.wake], "outcome_unknown")
    BY <1>0, <2>2 DEF Reports, TurnInv, TurnsAreTraced
  <2>. QED  BY <1>0, <2>1, <2>3, FinishMoves
<1>8. CASE SettleTreeStopped(o)
  <2>1. CASE StopSettles(o.wake, o.token, o.expected) /\ FinishAgentTurn(o.wake, "interrupted")
    <3>1. Reports(trace[o.wake], "interrupted") /\ "interrupted" \in Settled
      BY <2>1 DEF StopSettles, Reports, Settled
    <3>. QED  BY <1>0, <2>1, <3>1, FinishMoves
  <2>. QED  BY <1>1, <1>8, <2>1 DEF SettleTreeStopped
<1>. QED  BY <1>2, <1>3, <1>4, <1>5, <1>6, <1>7, <1>8 DEF OwnerStep, OwnerProgress

\* A segment's step: it commits the trace of its own turn and is gone.
LEMMA SegmentRows ==
  ASSUME IInv, TurnInv, NEW s \in segments, SegmentStep(s), NEW x \in Wakes
  PROVE  RowMoves(x)
<1>. USE DEF IInv, TypeOK
<1>0. s.wake \in Wakes
  BY DEF Segments
<1>1. CASE StartRuntime(s) \/ StageWaitingUsage(s) \/ StorePendingAction(s) \/ SegmentRefused(s)
  BY <1>1 DEF StartRuntime, StageWaitingUsage, StorePendingAction, SegmentRefused,
       RowMoves, durable
<1>2. ASSUME NEW t \in TerminalTraces, CommitTerminalTrace(s, t)
      PROVE  RowMoves(x)
  <2>1. \A r \in segments' : r.wake # s.wake
    BY <1>2 DEF CommitTerminalTrace, TurnInv, OneSegmentPerTurn
  <2>2. /\ status[s.wake] \in Admitted /\ trace[s.wake] = "in_progress"
        /\ s.wake \in stopped => t # "completed"
        /\ status' = status /\ trace' = [trace EXCEPT ![s.wake] = t]
    BY <1>2 DEF CommitTerminalTrace, TerminalFence
  <2>3. \A o \in owners : o.wake = s.wake => o.phase # "admitted"
    BY DEF TurnInv, LaunchIsPending
  <2>. QED  BY <1>0, <2>1, <2>2, <2>3 DEF RowMoves, ClosesTurn
<1>3. ASSUME NEW w \in Wakes, SatisfyBySourceMessage(s, w)
      PROVE  RowMoves(x)
  BY <1>3 DEF SatisfyBySourceMessage, RowMoves, MovesUnadmitted
<1>. QED  BY <1>1, <1>2, <1>3 DEF SegmentStep, SegmentProgress

\* A step of the dispatcher's scan, of an approval or of time.
LEMMA WakeRows ==
  ASSUME IInv, TurnInv, NEW w \in Wakes, WakeStep(w), NEW x \in Wakes
  PROVE  RowMoves(x)
<1>. USE DEF IInv, TypeOK
<1>1. CASE ClaimNextDispatchable(w)
  BY <1>1 DEF ClaimNextDispatchable, Dispatchable, RowMoves, MovesUnadmitted
<1>2. CASE CancelStoppedWake(w)
  <2>1. Reports(trace[w], "interrupted") /\ "interrupted" \in Settled
    BY <1>2 DEF CancelStoppedWake, StopSettles, Reports, Settled
  <2>. QED  BY <1>2, <2>1, FinishMoves DEF CancelStoppedWake
<1>3. ASSUME NEW t \in {"failed", "cancelled"}, ControlTerminalTrace(w, t)
      PROVE  RowMoves(x)
  <2>1. \A s \in segments' : s.wake # w
    BY <1>3 DEF ControlTerminalTrace, TurnInv, SegmentsRunTurns
  <2>2. /\ trace[w] = "in_progress" /\ status[w] \in Admitted
        /\ status' = status /\ trace' = [trace EXCEPT ![w] = t]
    BY <1>3 DEF ControlTerminalTrace, OpenTraceIsOwned
  <2>3. \A o \in owners : o.wake = w => o.phase # "admitted"
    BY <1>3 DEF ControlTerminalTrace, TurnInv, LaunchIsPending
  <2>. QED  BY <2>1, <2>2, <2>3 DEF RowMoves, ClosesTurn, TerminalTraces
<1>4. CASE FinishPendingAction(w) \/ ApprovePendingAction(w) \/ Tick(w) \/ Stall(w)
  BY <1>4 DEF FinishPendingAction, ApprovePendingAction, Tick, Stall, TimePasses, RowMoves
<1>5. CASE ApproveSkillScript(w) \/ ResumeContinuation(w)
  BY <1>5 DEF ApproveSkillScript, ResumeContinuation, RowMoves, MovesAdmitted, Admitted
<1>. QED  BY <1>1, <1>2, <1>3, <1>4, <1>5 DEF WakeStep

\* Every step moves every wake along its row.
LEMMA StepRows ==
  ASSUME IInv, ClaimInv, TurnInv, [Next]_vars, NEW x \in Wakes
  PROVE  RowMoves(x)
<1>. USE DEF IInv, TypeOK
<1>1. ASSUME NEW a \in Agents, AgentStep(a) PROVE RowMoves(x)
  <2>1. CASE Schedule(a)
    <3>1. EnqueueWake(a, 0, status) /\ trace' = trace
      BY <2>1 DEF Schedule
    <3>2. created + 1 \in Wakes /\ status[created + 1] = "absent"
      BY <3>1 DEF EnqueueWake, Wakes, Existing
    <3>. QED  BY <3>1, <3>2 DEF EnqueueWake, RowMoves, MovesUnadmitted
  <2>2. CASE InterruptAgentExecution(a)
    BY <2>2 DEF InterruptAgentExecution, InterruptTarget, RowMoves, MovesUnadmitted
  <2>. QED  BY <1>1, <2>1, <2>2 DEF AgentStep
<1>2. CASE BeginAgentTreeRunStop
  BY <1>2 DEF BeginAgentTreeRunStop, RowMoves, MovesUnadmitted
<1>3. CASE RecoverAgentWakes
  BY <1>3 DEF RecoverAgentWakes, Requeued, RowMoves, MovesUnadmitted
<1>4. CASE \/ BeginRootTurn \/ FinishRootTurn \/ ReconcileExecutionFences \/ HostCrash
           \/ UNCHANGED vars
  BY <1>4 DEF BeginRootTurn, FinishRootTurn, ReconcileExecutionFences, HostCrash,
       vars, durable, RowMoves
<1>. QED  BY <1>1, <1>2, <1>3, <1>4, OwnerRows, SegmentRows, WakeRows DEF Next

-----------------------------------------------------------------------------
(* The claims are kept.                                                    *)

\* A step that does not admit a turn brings no wake into execution.
LEMMA NobodyAdmitted ==
  ASSUME NEW x \in Wakes, RowMoves(x), status[x] # "claimed" \/ status'[x] # "running",
         status'[x] \in Admitted
  PROVE  status[x] \in Admitted
  BY DEF RowMoves, MovesUnadmitted, OpensTurn, MovesAdmitted, ClosesTurn, Settles,
         Admitted, Settled

\* A worker's step.
LEMMA OwnerClaims ==
  ASSUME IInv, ClaimInv, TurnInv, NEW o \in owners, OwnerStep(o)
  PROVE  ClaimInv'
<1>. USE DEF IInv, TypeOK
<1>0. o \in Owners /\ o.wake \in Wakes
  BY DEF Owners
<1>1. UNCHANGED <<token, issued>>
  BY DEF OwnerStep, OwnerProgress, RenewLease, AdmitTurn, LaunchSegment,
       SettleStartFailure, SettleObserved, ObservePendingApproval,
       ObserveRunningAfterApproval, MarkWaitingForApproval, SettleOutcomeUnknown,
       SettleTreeStopped, OwnerRefused, OwnerFails, durable
<1>2. refused' = refused
  BY DEF OwnerStep, OwnerProgress, RenewLease, AdmitTurn, LaunchSegment,
       SettleStartFailure, SettleObserved, ObservePendingApproval,
       ObserveRunningAfterApproval, MarkWaitingForApproval, SettleOutcomeUnknown,
       SettleTreeStopped, OwnerRefused, OwnerFails
<1>3. OwnersKept
  <2>1. CASE owners' \subseteq owners
    BY <2>1 DEF OwnersKept
  <2>2. ASSUME NEW phase \in Phases \ {"start"}, NEW expected \in Admitted \cup {"none"},
               o.phase # phase, Move(o, phase, expected)
        PROVE  OwnersKept
    BY <2>2, MoveKeeps DEF OwnersKept
  <2>3. CASE AdmitTurn(o) \/ LaunchSegment(o)
    BY <2>2, <2>3 DEF AdmitTurn, LaunchSegment, Phases
  <2>4. CASE ObservePendingApproval(o) \/ ObserveRunningAfterApproval(o)
    BY <2>2, <2>4 DEF ObservePendingApproval, ObserveRunningAfterApproval, Phases
  <2>5. CASE MarkWaitingForApproval(o)
    BY <2>2, <2>5 DEF MarkWaitingForApproval, Phases, Admitted
  <2>6. CASE SettleTreeStopped(o)
    <3>1. o.expected \in Admitted \cup {"none"}
      BY <1>0 DEF Owners
    <3>2. CASE \E phase \in {"waiting", "observe"} : Move(o, phase, "none")
      BY <2>2, <2>6, <3>2 DEF SettleTreeStopped, Phases
    <3>3. CASE o.phase = "tree_stopped" /\ Move(o, "outcome_unknown", o.expected)
      BY <2>2, <3>1, <3>3 DEF Phases
    <3>4. CASE owners' = owners \ {o}
      BY <2>1, <3>4
    <3>. QED  BY <2>6, <3>2, <3>3, <3>4 DEF SettleTreeStopped
  <2>7. CASE \/ RenewLease(o) \/ SettleStartFailure(o) \/ SettleObserved(o)
             \/ SettleOutcomeUnknown(o) \/ OwnerRefused(o) \/ OwnerFails(o)
    BY <2>1, <2>7 DEF RenewLease, SettleStartFailure, SettleObserved,
         SettleOutcomeUnknown, OwnerRefused, OwnerFails
  <2>. QED  BY <2>3, <2>4, <2>5, <2>6, <2>7 DEF OwnerStep, OwnerProgress
<1>4. \A s \in segments' :
        \E t \in segments \cup owners : t.wake = s.wake /\ t.token = s.token
  <2>1. CASE LaunchSegment(o)
    BY <2>1 DEF LaunchSegment
  <2>2. CASE segments' = segments
    BY <2>2
  <2>. QED  BY <2>1, <2>2 DEF OwnerStep, OwnerProgress, RenewLease, AdmitTurn,
         SettleStartFailure, SettleObserved, ObservePendingApproval,
         ObserveRunningAfterApproval, MarkWaitingForApproval, SettleOutcomeUnknown,
         SettleTreeStopped, OwnerRefused, OwnerFails
<1>5. \A w \in Wakes : status'[w] \in Admitted =>
        \/ status[w] \in Admitted
        \/ \E p \in owners \ owners' : p.wake = w /\ p.token = token[w]
  <2>1. CASE AdmitTurn(o)
    <3>1. o \notin owners'
      BY <1>0, <2>1 DEF AdmitTurn, Move, Owners
    <3>2. o.token = token[o.wake]
      BY <2>1 DEF AdmitTurn, Holds
    <3>. QED  BY <1>0, <2>1, <3>1, <3>2 DEF AdmitTurn
  <2>2. CASE ~AdmitTurn(o)
    <3>. SUFFICES ASSUME NEW w \in Wakes, status[w] = "claimed" PROVE status'[w] # "running"
      BY OwnerRows, NobodyAdmitted
    <3>1. ASSUME NEW x \in Wakes, NEW outcome \in Settled, FinishAgentTurn(x, outcome)
          PROVE  status'[w] # "running"
      BY <3>1, FinishRows DEF Settled
    <3>2. CASE SettleStartFailure(o)
      BY <1>0, <3>1, <3>2 DEF SettleStartFailure, SettleOwned, Settled
    <3>3. CASE SettleObserved(o)
      <4>1. OutcomeOf(trace[o.wake]) \in Settled
        BY DEF OutcomeOf, Settled
      <4>. QED  BY <1>0, <3>1, <3>3, <4>1 DEF SettleObserved, SettleOwned
    <3>4. CASE SettleOutcomeUnknown(o)
      BY <1>0, <3>1, <3>4 DEF SettleOutcomeUnknown, SettleOwned, Settled
    <3>5. CASE SettleTreeStopped(o)
      BY <1>0, <3>1, <3>5 DEF SettleTreeStopped, Settled
    <3>6. CASE MarkWaitingForApproval(o)
      BY <1>0, <3>6 DEF MarkWaitingForApproval
    <3>. QED  BY <2>2, <3>2, <3>3, <3>4, <3>5, <3>6
                 DEF OwnerStep, OwnerProgress, RenewLease, LaunchSegment,
                     ObservePendingApproval, ObserveRunningAfterApproval,
                     OwnerRefused, OwnerFails, durable
  <2>. QED  BY <2>1, <2>2
<1>. QED  BY <1>1, <1>2, <1>3, <1>4, <1>5, ClaimsKept

\* The dispatcher's scan issues the next token.
LEMMA ClaimIssues ==
  ASSUME IInv, ClaimInv, NEW w \in Wakes, ClaimNextDispatchable(w)
  PROVE  ClaimInv'
<1>. USE DEF IInv, TypeOK, ClaimInv
<1>. DEFINE q == [wake |-> w, token |-> issued[w] + 1, phase |-> "start",
                  expected |-> "none"]
<1>1. /\ owners' = owners \cup {q} /\ segments' = segments /\ refused' = refused
      /\ status' = [status EXCEPT ![w] = "claimed"]
      /\ issued' = [issued EXCEPT ![w] = issued[w] + 1]
      /\ token' = [token EXCEPT ![w] = issued[w] + 1]
  BY DEF ClaimNextDispatchable
<1>2. q.wake = w /\ q.token = issued[w] + 1
  OBVIOUS
<1>3. \A x \in Wakes : issued[x] \in Nat /\ issued'[x] \in Nat /\ issued[x] <= issued'[x]
  BY <1>1
<1>4. /\ \A o \in owners : o.wake \in Wakes /\ o.token \in Nat
      /\ \A s \in segments : s.wake \in Wakes /\ s.token \in Nat
      /\ \A r \in refused : r[1] \in Wakes /\ r[2] \in Nat
  BY DEF Owners, Segments, Tokens
<1>. HIDE DEF q
<1>5. ClaimsAreIssued'
  BY <1>1, <1>2, <1>3, <1>4 DEF ClaimsAreIssued
<1>6. \A o \in owners : o.wake = w => o.token # issued[w] + 1
  BY <1>3, <1>4 DEF ClaimsAreIssued
<1>7. ClaimHasOneOwner'
  BY <1>1, <1>2, <1>6 DEF ClaimHasOneOwner
<1>8. StartHoldsClaim'
  BY <1>1, <1>2, <1>4, <1>6 DEF StartHoldsClaim, Admitted
<1>. QED  BY <1>5, <1>7, <1>8

\* Recovery issues a token to the worker it appoints for each admitted wake.
LEMMA RecoveryIssues ==
  ASSUME IInv, ClaimInv, RecoverAgentWakes
  PROVE  ClaimInv'
<1>. USE DEF IInv, TypeOK, ClaimInv
<1>. DEFINE R == {w \in Wakes : Expired(w) /\ ~Requeued(w)}
<1>1. /\ \A w \in Wakes : issued'[w] = IF w \in R THEN issued[w] + 1 ELSE issued[w]
      /\ \A w \in Wakes : token'[w] = IF Requeued(w) THEN 0
                                      ELSE IF w \in R THEN issued[w] + 1 ELSE token[w]
      /\ \A w \in Wakes : status'[w] = IF Requeued(w) THEN "queued" ELSE status[w]
      /\ owners' = owners \cup {RecoveredOwner(w) : w \in R}
      /\ segments' = segments /\ refused' = refused
  BY DEF RecoverAgentWakes
<1>2. \A w \in Wakes : /\ RecoveredOwner(w).wake = w
                       /\ RecoveredOwner(w).token = issued[w] + 1
                       /\ RecoveredOwner(w).phase # "start"
  BY DEF RecoveredOwner, RecoveryPhase
<1>3. \A x \in Wakes : issued[x] \in Nat /\ issued'[x] \in Nat /\ issued[x] <= issued'[x]
  BY <1>1
<1>4. /\ \A o \in owners : o.wake \in Wakes /\ o.token \in Nat
      /\ \A s \in segments : s.wake \in Wakes /\ s.token \in Nat
      /\ \A r \in refused : r[1] \in Wakes /\ r[2] \in Nat
  BY DEF Owners, Segments, Tokens
<1>5. \A o \in owners : o.token # issued[o.wake] + 1
  BY <1>3, <1>4 DEF ClaimsAreIssued
<1>6. \A p \in owners' : p \in owners \/ \E w \in R : p = RecoveredOwner(w)
  BY <1>1
<1>7. ClaimsAreIssued'
  <2>1. \A w \in Wakes : token'[w] <= issued'[w]
    BY <1>1, <1>3 DEF ClaimsAreIssued
  <2>2. \A p \in owners' : p.token <= issued'[p.wake]
    BY <1>1, <1>2, <1>3, <1>4, <1>6 DEF ClaimsAreIssued
  <2>3. /\ \A s \in segments' : s.token <= issued'[s.wake]
        /\ \A r \in refused' : r[2] <= issued'[r[1]]
    BY <1>1, <1>3, <1>4 DEF ClaimsAreIssued
  <2>. QED  BY <2>1, <2>2, <2>3 DEF ClaimsAreIssued
<1>8. ClaimHasOneOwner'
  BY <1>2, <1>5, <1>6 DEF ClaimHasOneOwner
<1>9. StartHoldsClaim'
  <2>. SUFFICES ASSUME NEW p \in owners', p.phase = "start", p.token = token'[p.wake],
                       status'[p.wake] \in Admitted
                PROVE  FALSE
    BY DEF StartHoldsClaim
  <2>1. p \in owners
    BY <1>2, <1>6
  <2>2. ~Requeued(p.wake) /\ p.wake \notin R
    BY <1>1, <1>4, <1>5, <2>1 DEF Admitted
  <2>. QED  BY <1>1, <1>4, <2>1, <2>2 DEF StartHoldsClaim
<1>. QED  BY <1>7, <1>8, <1>9

\* Every step keeps the claims.
LEMMA StepClaims ==
  ASSUME IInv, ClaimInv, TurnInv, [Next]_vars
  PROVE  ClaimInv'
<1>. USE DEF IInv, TypeOK
<1>1. ASSUME UNCHANGED <<token, issued>>, owners' \subseteq owners,
             \A s \in segments' :
               \/ s.token = token[s.wake] /\ s.wake \in Wakes
               \/ \E t \in segments \cup owners : t.wake = s.wake /\ t.token = s.token,
             \A r \in refused' :
               r \in refused \/ \E s \in segments : r = <<s.wake, s.token>>,
             \A w \in Wakes : status[w] = "claimed" => status'[w] # "running"
      PROVE  ClaimInv'
  BY <1>1, StepRows, NobodyAdmitted, ClaimsKept DEF OwnersKept
<1>2. ASSUME UNCHANGED <<token, issued, owners>>, segments' \subseteq segments,
             refused' \subseteq refused,
             \A w \in Wakes : status[w] = "claimed" => status'[w] # "running"
      PROVE  ClaimInv'
  BY <1>1, <1>2
<1>3. ASSUME NEW s \in segments, SegmentStep(s) PROVE ClaimInv'
  <2>0. s \in Segments /\ s.wake \in Wakes
    BY DEF Segments
  <2>1. CASE SegmentRefused(s)
    BY <1>1, <2>1 DEF SegmentRefused, durable
  <2>2. ASSUME NEW phase, segments' = (segments \ {s}) \cup {[s EXCEPT !.phase = phase]},
               UNCHANGED <<durable, owners, refused>>
        PROVE  ClaimInv'
    <3>1. [s EXCEPT !.phase = phase].wake = s.wake /\ [s EXCEPT !.phase = phase].token = s.token
      BY <2>0 DEF Segments
    <3>. QED  BY <1>1, <2>2, <3>1 DEF durable
  <2>3. CASE StartRuntime(s) \/ StageWaitingUsage(s)
    BY <2>2, <2>3 DEF StartRuntime, StageWaitingUsage
  <2>4. CASE StorePendingAction(s) \/ \E t \in TerminalTraces : CommitTerminalTrace(s, t)
    BY <1>2, <2>4 DEF StorePendingAction, CommitTerminalTrace
  <2>5. ASSUME NEW w \in Wakes, SatisfyBySourceMessage(s, w)
        PROVE  ClaimInv'
    BY <1>2, <2>5 DEF SatisfyBySourceMessage
  <2>. QED  BY <1>3, <2>1, <2>3, <2>4, <2>5 DEF SegmentStep, SegmentProgress
<1>4. ASSUME NEW w \in Wakes, WakeStep(w) PROVE ClaimInv'
  <2>1. CASE ResumeContinuation(w)
    BY <1>1, <2>1 DEF ResumeContinuation, Admitted
  <2>2. CASE CancelStoppedWake(w)
    <3>1. FinishAgentTurn(w, "interrupted") /\ "interrupted" \in Settled
      BY <2>2 DEF CancelStoppedWake, Settled
    <3>2. \A x \in Wakes : status[x] = "claimed" => status'[x] # "running"
      BY <3>1, FinishRows
    <3>. QED  BY <1>2, <2>2, <3>2 DEF CancelStoppedWake
  <2>3. CASE ApproveSkillScript(w)
    BY <1>2, <2>3 DEF ApproveSkillScript, Admitted
  <2>4. CASE \/ \E t \in {"failed", "cancelled"} : ControlTerminalTrace(w, t)
             \/ FinishPendingAction(w) \/ ApprovePendingAction(w) \/ Tick(w) \/ Stall(w)
    BY <1>2, <2>4 DEF ControlTerminalTrace, FinishPendingAction, ApprovePendingAction,
         Tick, Stall, TimePasses
  <2>. QED  BY <1>4, <2>1, <2>2, <2>3, <2>4, ClaimIssues DEF WakeStep
<1>5. ASSUME NEW a \in Agents, AgentStep(a) PROVE ClaimInv'
  <2>1. CASE Schedule(a)
    BY <1>2, <2>1 DEF Schedule, EnqueueWake
  <2>2. CASE InterruptAgentExecution(a)
    BY <1>2, <2>2 DEF InterruptAgentExecution, InterruptTarget
  <2>. QED  BY <1>5, <2>1, <2>2 DEF AgentStep
<1>6. CASE BeginAgentTreeRunStop
  BY <1>2, <1>6 DEF BeginAgentTreeRunStop
<1>7. CASE HostCrash
  BY <1>1, <1>7 DEF HostCrash, durable
<1>8. CASE BeginRootTurn \/ FinishRootTurn \/ ReconcileExecutionFences \/ UNCHANGED vars
  BY <1>2, <1>8 DEF BeginRootTurn, FinishRootTurn, ReconcileExecutionFences, vars, durable
<1>. QED  BY <1>3, <1>4, <1>5, <1>6, <1>7, <1>8, OwnerClaims, RecoveryIssues DEF Next

-----------------------------------------------------------------------------
(* The turns are kept.                                                     *)

\* A step that starts no segment and stores no action, and admits nobody.
LEMMA TurnsKept ==
  ASSUME IInv, ClaimInv, TurnInv, [Next]_vars,
         \A p \in owners' : p.phase = "admitted" => p \in owners,
         segments' \subseteq segments,
         \A w \in Wakes : \/ action'[w] = action[w]
                          \/ action'[w] = "none"
                          \/ action[w] \in {"pending", "approved"}
  PROVE  TurnInv'
<1>. USE DEF IInv, TypeOK, TurnInv
<1>0. /\ \A s \in segments' : s \in segments /\ s.wake \in Wakes
      /\ \A o \in owners : o.wake \in Wakes
  BY DEF Segments, Owners
<1>1. \A w \in Wakes : trace[w] # "none" => trace'[w] # "none"
  BY TraceKept
<1>2. \A w \in Wakes : trace[w] # "none" => status[w] \notin {"absent", "queued", "claimed"}
  BY DEF ClaimedAndTraced
<1>3. \A w \in Wakes : status'[w] = "waiting_for_approval" =>
        status[w] = "waiting_for_approval" \/ action[w] = "pending"
  BY StepRows DEF RowMoves, MovesUnadmitted, OpensTurn, MovesAdmitted, ClosesTurn,
       Settles, Settled
<1>4. \A w \in Wakes : trace[w] # "none" /\ status'[w] \in Admitted =>
        /\ status[w] \in Admitted
        /\ trace'[w] = trace[w] \/ ClosesTurn(w)
  BY <1>2, StepRows DEF RowMoves, MovesUnadmitted, OpensTurn, MovesAdmitted,
       ClosesTurn, Settles, Settled, Admitted
<1>5. OneSegmentPerTurn'
  BY DEF OneSegmentPerTurn
<1>6. SegmentsRunTurns'
  <2>. SUFFICES ASSUME NEW s \in segments'
                PROVE  /\ trace'[s.wake] # "none"
                       /\ action'[s.wake] \in {"none", "continuing"}
                       /\ status'[s.wake] # "waiting_for_approval"
                       /\ s.phase = "runtime" /\ status'[s.wake] \in Admitted =>
                            trace'[s.wake] = "in_progress"
    BY DEF SegmentsRunTurns
  <2>1. s \in segments /\ s.wake \in Wakes
    BY <1>0
  <2>2. trace[s.wake] # "none" /\ action[s.wake] \in {"none", "continuing"}
    BY <2>1 DEF SegmentsRunTurns
  <2>. QED  BY <1>1, <1>3, <1>4, <2>1, <2>2 DEF SegmentsRunTurns, ClosesTurn
<1>7. TurnsAreTraced'
  <2>1. \A w \in Wakes : status'[w] \in Admitted => trace'[w] # "none"
    BY <1>1, StepRows DEF TurnsAreTraced, RowMoves, MovesUnadmitted, OpensTurn,
         MovesAdmitted, ClosesTurn, Settles, Settled, Admitted
  <2>2. \A w \in Wakes : trace'[w] = "none" => action'[w] = "none"
    BY <1>1 DEF TurnsAreTraced
  <2>. QED  BY <2>1, <2>2 DEF TurnsAreTraced
<1>8. LaunchIsPending'
  <2>. SUFFICES ASSUME NEW o \in owners', o.phase = "admitted"
                PROVE  /\ action'[o.wake] = "none"
                       /\ trace'[o.wake] # "none"
                       /\ status'[o.wake] \in Admitted =>
                            status'[o.wake] = "running" /\ trace'[o.wake] = "in_progress"
                       /\ \A s \in segments' : s.wake # o.wake
                       /\ \A p \in owners' : p.phase = "admitted" /\ p.wake = o.wake => p = o
    BY DEF LaunchIsPending
  <2>1. o \in owners /\ o.wake \in Wakes
    BY <1>0
  <2>2. action[o.wake] = "none" /\ trace[o.wake] # "none"
    BY <2>1 DEF LaunchIsPending
  <2>3. status'[o.wake] # "waiting_for_approval" \/ status[o.wake] = "waiting_for_approval"
    BY <1>3, <2>1, <2>2
  <2>4. action'[o.wake] = "none"
    BY <2>1, <2>2
  <2>5. status'[o.wake] \in Admitted =>
          status'[o.wake] = "running" /\ trace'[o.wake] = "in_progress"
    BY <1>4, <2>1, <2>2, <2>3 DEF LaunchIsPending, ClosesTurn, Admitted
  <2>. QED  BY <1>1, <2>1, <2>2, <2>4, <2>5 DEF LaunchIsPending
<1>. QED  BY <1>5, <1>6, <1>7, <1>8

\* Admission: the turn is new, so that nothing of it exists yet.
LEMMA AdmissionTurns ==
  ASSUME IInv, TurnInv, NEW o \in owners, AdmitTurn(o)
  PROVE  TurnInv'
<1>. USE DEF IInv, TypeOK, TurnInv
<1>. DEFINE w == o.wake
<1>0. w \in Wakes /\ o \in Owners
  BY DEF Owners
<1>1. PICK p \in Owners : OwnerMoves(o, p) /\ p.phase = "admitted"
  BY MoveKeeps DEF AdmitTurn, Phases
<1>2. /\ status[w] = "claimed" /\ trace[w] = "none" /\ action[w] = "none"
      /\ \A x \in Wakes : status'[x] = IF x = w THEN "running" ELSE status[x]
      /\ \A x \in Wakes : trace'[x] = IF x = w THEN "in_progress" ELSE trace[x]
      /\ UNCHANGED <<action, segments>>
  BY <1>0 DEF AdmitTurn, ClaimedAndTraced, TurnsAreTraced
<1>3. \A s \in segments : s.wake \in Wakes /\ s.wake # w
  BY <1>2 DEF Segments, SegmentsRunTurns
<1>4. \A q \in owners : q.wake \in Wakes /\ (q.phase = "admitted" => q.wake # w)
  BY <1>2 DEF Owners, LaunchIsPending
<1>5. /\ \A q \in owners' : q = p \/ q \in owners
      /\ p.wake = w
  BY <1>1 DEF OwnerMoves
<1>. HIDE DEF w
<1>6. OneSegmentPerTurn' /\ SegmentsRunTurns'
  BY <1>2, <1>3 DEF OneSegmentPerTurn, SegmentsRunTurns
<1>7. TurnsAreTraced'
  BY <1>0, <1>2 DEF TurnsAreTraced
<1>8. LaunchIsPending'
  BY <1>0, <1>1, <1>2, <1>3, <1>4, <1>5 DEF LaunchIsPending
<1>. QED  BY <1>6, <1>7, <1>8

\* Launch: the worker hands the turn to its first segment.
LEMMA LaunchTurns ==
  ASSUME IInv, TurnInv, NEW o \in owners, LaunchSegment(o)
  PROVE  TurnInv'
<1>. USE DEF IInv, TypeOK, TurnInv
<1>. DEFINE w == o.wake
            seg == [wake |-> w, token |-> o.token, phase |-> "prepared"]
<1>0. w \in Wakes /\ o \in Owners
  BY DEF Owners
<1>1. PICK p \in Owners : OwnerMoves(o, p) /\ p.phase = "observe"
  BY MoveKeeps DEF LaunchSegment, Phases
<1>2. /\ action[w] = "none" /\ trace[w] # "none"
      /\ status[w] # "waiting_for_approval"
      /\ \A s \in segments : s.wake # w
      /\ \A q \in owners : q.phase = "admitted" /\ q.wake = w => q = o
  BY DEF LaunchSegment, LaunchIsPending, Admitted
<1>3. /\ UNCHANGED <<status, trace, action>>
      /\ segments' = segments \cup {seg}
  BY DEF LaunchSegment, durable
<1>4. seg.wake = w /\ seg.phase = "prepared"
  OBVIOUS
<1>5. \A q \in owners' : q.phase = "admitted" => q \in owners /\ q.wake # w
  BY <1>1, <1>2 DEF OwnerMoves
<1>. HIDE DEF w, seg
<1>6. OneSegmentPerTurn'
  BY <1>2, <1>3, <1>4 DEF OneSegmentPerTurn
<1>7. SegmentsRunTurns'
  BY <1>2, <1>3, <1>4 DEF SegmentsRunTurns
<1>8. TurnsAreTraced'
  BY <1>3 DEF TurnsAreTraced
<1>9. LaunchIsPending'
  BY <1>3, <1>4, <1>5 DEF LaunchIsPending
<1>. QED  BY <1>6, <1>7, <1>8, <1>9

\* A segment starts the model behind its fence, or begins to ask.
LEMMA SegmentTurns ==
  ASSUME IInv, TurnInv, NEW s \in segments, StartRuntime(s) \/ StageWaitingUsage(s)
  PROVE  TurnInv'
<1>. USE DEF IInv, TypeOK, TurnInv
<1>1. PICK t \in Segments : /\ t.wake = s.wake
                            /\ t.phase = "runtime" => trace[s.wake] = "in_progress"
                            /\ segments' = (segments \ {s}) \cup {t}
  <2>1. s \in Segments
    OBVIOUS
  <2>2. CASE StartRuntime(s)
    <3>. DEFINE t == [s EXCEPT !.phase = "runtime"]
    <3>1. t \in Segments /\ t.wake = s.wake
      BY <2>1 DEF Segments
    <3>. QED  BY <2>2, <3>1 DEF StartRuntime, ExecutionFence
  <2>3. CASE StageWaitingUsage(s)
    <3>. DEFINE t == [s EXCEPT !.phase = "asking"]
    <3>1. t \in Segments /\ t.wake = s.wake
      BY <2>1 DEF Segments
    <3>. QED  BY <2>3, <3>1 DEF StageWaitingUsage
  <2>. QED  BY <2>2, <2>3
<1>2. UNCHANGED <<status, trace, action, owners>>
  BY DEF StartRuntime, StageWaitingUsage, durable
<1>3. OneSegmentPerTurn'
  BY <1>1 DEF OneSegmentPerTurn
<1>4. SegmentsRunTurns'
  BY <1>1, <1>2 DEF SegmentsRunTurns
<1>5. TurnsAreTraced' /\ LaunchIsPending'
  BY <1>1, <1>2 DEF TurnsAreTraced, LaunchIsPending
<1>. QED  BY <1>3, <1>4, <1>5

\* The pending row replaces the turn's only segment.
LEMMA StoreTurns ==
  ASSUME IInv, TurnInv, NEW s \in segments, StorePendingAction(s)
  PROVE  TurnInv'
<1>. USE DEF IInv, TypeOK, TurnInv
<1>1. /\ s.wake \in Wakes /\ segments' = segments \ {s}
      /\ UNCHANGED <<status, trace, owners>>
      /\ \A x \in Wakes : action'[x] = IF x = s.wake THEN "pending" ELSE action[x]
  BY DEF StorePendingAction, Segments
<1>2. \A t \in segments' : t \in segments /\ t.wake \in Wakes /\ t.wake # s.wake
  BY <1>1 DEF OneSegmentPerTurn, Segments
<1>3. \A o \in owners : o.wake \in Wakes /\ (o.phase = "admitted" => o.wake # s.wake)
  BY DEF Owners, LaunchIsPending
<1>4. OneSegmentPerTurn' /\ SegmentsRunTurns'
  BY <1>1, <1>2 DEF OneSegmentPerTurn, SegmentsRunTurns
<1>5. TurnsAreTraced'
  BY <1>1 DEF TurnsAreTraced, SegmentsRunTurns
<1>6. LaunchIsPending'
  BY <1>1, <1>2, <1>3 DEF LaunchIsPending
<1>. QED  BY <1>4, <1>5, <1>6

\* A continuation consumes the executing action and is the turn's only segment.
LEMMA ResumeTurns ==
  ASSUME IInv, TurnInv, NEW w \in Wakes, ResumeContinuation(w)
  PROVE  TurnInv'
<1>. USE DEF IInv, TypeOK, TurnInv
<1>. DEFINE seg == [wake |-> w, token |-> token[w], phase |-> "prepared"]
<1>1. /\ action[w] = "executing" /\ status[w] \in Admitted
      /\ \A x \in Wakes : action'[x] = IF x = w THEN "continuing" ELSE action[x]
      /\ \A x \in Wakes : status'[x] = IF x = w THEN "running" ELSE status[x]
      /\ segments' = segments \cup {seg} /\ UNCHANGED <<trace, owners>>
  BY DEF ResumeContinuation
<1>2. \A s \in segments : s.wake \in Wakes /\ s.wake # w
  BY <1>1 DEF Segments, SegmentsRunTurns
<1>3. \A o \in owners : o.wake \in Wakes /\ (o.phase = "admitted" => o.wake # w)
  BY <1>1 DEF Owners, LaunchIsPending
<1>4. seg.wake = w /\ seg.phase = "prepared"
  OBVIOUS
<1>. HIDE DEF seg
<1>5. OneSegmentPerTurn'
  BY <1>1, <1>2, <1>4 DEF OneSegmentPerTurn
<1>6. SegmentsRunTurns'
  BY <1>1, <1>2, <1>4 DEF SegmentsRunTurns, TurnsAreTraced
<1>7. TurnsAreTraced'
  BY <1>1 DEF TurnsAreTraced
<1>8. LaunchIsPending'
  BY <1>1, <1>2, <1>3, <1>4 DEF LaunchIsPending
<1>. QED  BY <1>5, <1>6, <1>7, <1>8

\* Every step keeps the turns.
LEMMA StepTurns ==
  ASSUME IInv, ClaimInv, TurnInv, [Next]_vars
  PROVE  TurnInv'
<1>. USE DEF IInv, TypeOK
<1>1. ASSUME owners' \subseteq owners, segments' \subseteq segments,
             \A w \in Wakes : \/ action'[w] = action[w]
                              \/ action'[w] = "none"
                              \/ action[w] \in {"pending", "approved"}
      PROVE  TurnInv'
  BY <1>1, TurnsKept
<1>2. ASSUME NEW o \in owners, OwnerStep(o) PROVE TurnInv'
  <2>1. ASSUME NEW phase \in Phases \ {"start", "admitted"},
               NEW expected \in Admitted \cup {"none"}, o.phase # phase,
               Move(o, phase, expected), UNCHANGED <<action, segments>>
        PROVE  TurnInv'
    <3>1. \A p \in owners' : p.phase = "admitted" => p \in owners
      BY <2>1, MoveKeeps DEF OwnerMoves
    <3>. QED  BY <2>1, <3>1, TurnsKept
  <2>2. CASE ObservePendingApproval(o) \/ ObserveRunningAfterApproval(o)
    BY <2>1, <2>2 DEF ObservePendingApproval, ObserveRunningAfterApproval, Phases, durable
  <2>3. CASE MarkWaitingForApproval(o)
    BY <2>1, <2>3 DEF MarkWaitingForApproval, Phases, Admitted
  <2>4. CASE SettleTreeStopped(o)
    <3>1. o.expected \in Admitted \cup {"none"}
      BY DEF Owners
    <3>2. CASE \E phase \in {"waiting", "observe"} : Move(o, phase, "none")
      BY <2>1, <2>4, <3>2 DEF SettleTreeStopped, Phases
    <3>3. CASE o.phase = "tree_stopped" /\ Move(o, "outcome_unknown", o.expected)
      BY <2>1, <2>4, <3>1, <3>3 DEF SettleTreeStopped, Phases
    <3>4. CASE owners' = owners \ {o}
      BY <1>1, <2>4, <3>4 DEF SettleTreeStopped
    <3>. QED  BY <2>4, <3>2, <3>3, <3>4 DEF SettleTreeStopped
  <2>5. CASE \/ RenewLease(o) \/ SettleStartFailure(o) \/ SettleObserved(o)
             \/ SettleOutcomeUnknown(o) \/ OwnerRefused(o) \/ OwnerFails(o)
    BY <1>1, <2>5 DEF RenewLease, SettleStartFailure, SettleObserved,
         SettleOutcomeUnknown, OwnerRefused, OwnerFails, durable
  <2>. QED  BY <1>2, <2>2, <2>3, <2>4, <2>5, AdmissionTurns, LaunchTurns
               DEF OwnerStep, OwnerProgress
<1>3. ASSUME NEW s \in segments, SegmentStep(s) PROVE TurnInv'
  <2>1. CASE \/ \E t \in TerminalTraces : CommitTerminalTrace(s, t)
             \/ SegmentRefused(s) \/ \E w \in Wakes : SatisfyBySourceMessage(s, w)
    BY <1>1, <2>1 DEF CommitTerminalTrace, SegmentRefused, SatisfyBySourceMessage, durable
  <2>. QED  BY <1>3, <2>1, SegmentTurns, StoreTurns DEF SegmentStep, SegmentProgress
<1>4. ASSUME NEW w \in Wakes, WakeStep(w) PROVE TurnInv'
  <2>1. CASE ClaimNextDispatchable(w)
    <3>1. \A p \in owners' : p.phase = "admitted" => p \in owners
      BY <2>1 DEF ClaimNextDispatchable
    <3>. QED  BY <2>1, <3>1, TurnsKept DEF ClaimNextDispatchable
  <2>2. CASE FinishPendingAction(w) \/ ApprovePendingAction(w) \/ ApproveSkillScript(w)
    BY <1>1, <2>2 DEF FinishPendingAction, ApprovePendingAction, ApproveSkillScript
  <2>3. CASE \/ \E t \in {"failed", "cancelled"} : ControlTerminalTrace(w, t)
             \/ CancelStoppedWake(w) \/ Tick(w) \/ Stall(w)
    BY <1>1, <2>3 DEF ControlTerminalTrace, CancelStoppedWake, Tick, Stall, TimePasses
  <2>. QED  BY <1>4, <2>1, <2>2, <2>3, ResumeTurns DEF WakeStep
<1>5. ASSUME NEW a \in Agents, AgentStep(a) PROVE TurnInv'
  BY <1>1, <1>5 DEF AgentStep, Schedule, InterruptAgentExecution
<1>6. CASE RecoverAgentWakes
  <2>1. \A w \in Wakes : RecoveredOwner(w).phase # "admitted"
    BY DEF RecoveredOwner, RecoveryPhase
  <2>2. \A p \in owners' : p \in owners \/ \E w \in Wakes : p = RecoveredOwner(w)
    BY <1>6 DEF RecoverAgentWakes
  <2>. QED  BY <1>6, <2>1, <2>2, TurnsKept DEF RecoverAgentWakes
<1>7. CASE \/ BeginRootTurn \/ FinishRootTurn \/ BeginAgentTreeRunStop
           \/ ReconcileExecutionFences \/ HostCrash \/ UNCHANGED vars
  BY <1>1, <1>7 DEF BeginRootTurn, FinishRootTurn, BeginAgentTreeRunStop,
       ReconcileExecutionFences, HostCrash, vars, durable
<1>. QED  BY <1>2, <1>3, <1>4, <1>5, <1>6, <1>7 DEF Next

-----------------------------------------------------------------------------
(* The theorems.                                                           *)

CInv ==
  /\ IInv
  /\ ClaimInv
  /\ TurnInv
  /\ OutcomePreserved

\* A settlement reports the trace, and neither changes afterwards.
LEMMA StepOutcomes ==
  ASSUME CInv, [Next]_vars
  PROVE  OutcomePreserved'
<1>. SUFFICES ASSUME NEW w \in Wakes
              PROVE  /\ status'[w] = "completed" => trace'[w] = "completed"
                     /\ status'[w] = "failed" => trace'[w] \in {"none", "failed"}
                     /\ status'[w] = "interrupted" => trace'[w] = "cancelled"
                     /\ status'[w] = "outcome_unknown" => trace'[w] \in TerminalTraces
                     /\ status'[w] \in {"cancelled", "satisfied"} => trace'[w] = "none"
  BY DEF OutcomePreserved
<1>. USE DEF CInv, OutcomePreserved
<1>1. trace[w] \in Traces /\ RowMoves(w)
  BY StepRows DEF IInv, TypeOK
<1>2. CASE status'[w] = status[w] /\ trace'[w] = trace[w]
  BY <1>2
<1>3. CASE MovesUnadmitted(w)
  BY <1>3 DEF MovesUnadmitted, IInv, ClaimedAndTraced
<1>4. CASE OpensTurn(w) \/ MovesAdmitted(w) \/ ClosesTurn(w)
  BY <1>4 DEF OpensTurn, MovesAdmitted, ClosesTurn, Admitted
<1>5. CASE Settles(w)
  BY <1>1, <1>5 DEF Settles, Reports, TerminalizedTrace, Settled, Traces, TerminalTraces
<1>. QED  BY <1>1, <1>2, <1>3, <1>4, <1>5 DEF RowMoves

\* The claims, the turns and the outcomes hold of every reachable state.
THEOREM ClaimInvariance == Spec => []CInv
<1>1. Init => CInv
  <2>1. Init => ClaimInv
    BY DEF Init, ClaimInv, ClaimsAreIssued, ClaimHasOneOwner, StartHoldsClaim
  <2>2. Init => TurnInv
    BY DEF Init, TurnInv, OneSegmentPerTurn, SegmentsRunTurns, TurnsAreTraced,
         LaunchIsPending, Admitted
  <2>3. Init => OutcomePreserved
    BY DEF Init, OutcomePreserved
  <2>. QED  BY <2>1, <2>2, <2>3, InitInv DEF CInv
<1>2. CInv /\ [Next]_vars => CInv'
  BY NextInv, StepClaims, StepTurns, StepOutcomes DEF CInv
<1>. QED  BY <1>1, <1>2, PTL DEF Spec

\* No two dispatcher workers ever act for one wake under one claim token,
\* although tokens are issued by scans and by recovery and outlive both.
THEOREM ClaimsAreExclusive == Spec => []ClaimHasOneOwner
<1>1. CInv => ClaimHasOneOwner
  BY DEF CInv, ClaimInv
<1>. QED  BY <1>1, ClaimInvariance, PTL

\* Admission, approvals that continue a turn, expired claims and crashes never
\* leave a turn with two segments that pass the execution fence.
THEOREM ModelRunsOnce == Spec => []OneRuntimePerTurn
<1>1. CInv => OneRuntimePerTurn
  BY DEF CInv, TurnInv, OneSegmentPerTurn, OneRuntimePerTurn
<1>. QED  BY <1>1, ClaimInvariance, PTL

\* Whichever worker settles a wake, and however late, the status it writes is
\* the outcome that the turn's trace recorded.
THEOREM SettlementIsTruthful == Spec => []OutcomePreserved
<1>1. CInv => OutcomePreserved
  BY DEF CInv
<1>. QED  BY <1>1, ClaimInvariance, PTL

\* No transaction rewrites a settled wake or a closed trace.
THEOREM NothingIsRewritten == Spec => TerminalIsFinal
<1>. DEFINE Final == \A w \in Wakes :
              /\ status[w] \in Terminal => status'[w] = status[w]
              /\ trace[w] \in TerminalTraces => trace'[w] = trace[w]
<1>1. CInv /\ [Next]_vars => Final
  <2>. SUFFICES ASSUME CInv, [Next]_vars, NEW w \in Wakes
                PROVE  /\ status[w] \in Terminal => status'[w] = status[w]
                       /\ trace[w] \in TerminalTraces => trace'[w] = trace[w]
    OBVIOUS
  <2>1. RowMoves(w)
    BY StepRows DEF CInv
  <2>2. status[w] = "claimed" => trace[w] = "none"
    BY DEF CInv, IInv, ClaimedAndTraced
  <2>. QED  BY <2>1, <2>2 DEF RowMoves, MovesUnadmitted, OpensTurn, MovesAdmitted,
         ClosesTurn, Settles, TerminalizedTrace, Terminal, Settled, Active, Admitted,
         TerminalTraces
<1>2. CInv /\ [Next]_vars => [Final]_vars
  BY <1>1
<1>. QED  BY <1>2, ClaimInvariance, PTL DEF Spec, TerminalIsFinal

\* A turn that the user's stop found open is not completed any more, neither by
\* its own late commit nor by a worker that settles it.
THEOREM StopForbidsCompletion == Spec => StoppedNeverCompletes
<1>. DEFINE Never == \A w \in stopped : trace[w] = "in_progress" =>
              trace'[w] # "completed" /\ status'[w] # "completed"
<1>1. CInv /\ [Next]_vars => Never
  <2>. SUFFICES ASSUME CInv, [Next]_vars, NEW w \in stopped, trace[w] = "in_progress"
                PROVE  trace'[w] # "completed" /\ status'[w] # "completed"
    OBVIOUS
  <2>1. w \in Wakes
    BY DEF CInv, IInv, TypeOK
  <2>2. RowMoves(w)
    BY <2>1, StepRows DEF CInv
  <2>3. status[w] \in Admitted
    BY <2>1 DEF CInv, IInv, OpenTraceIsOwned
  <2>. QED  BY <2>2, <2>3 DEF RowMoves, MovesUnadmitted, OpensTurn, MovesAdmitted,
         ClosesTurn, Settles, Reports, TerminalizedTrace, Admitted
<1>2. CInv /\ [Next]_vars => [Never]_vars
  BY <1>1
<1>. QED  BY <1>2, ClaimInvariance, PTL DEF Spec, StoppedNeverCompletes

\* A token changes only when a queued wake is claimed or an expired lease is
\* recovered.
LEMMA TokenKept ==
  ASSUME IInv, [Next]_vars, NEW w \in Wakes, status[w] \in Active, LeaseLive(w)
  PROVE  token'[w] = token[w]
<1>. USE DEF IInv, TypeOK
<1>1. ASSUME NEW x \in Wakes, ClaimNextDispatchable(x) PROVE token'[w] = token[w]
  BY <1>1 DEF ClaimNextDispatchable, Dispatchable, Active
<1>2. CASE RecoverAgentWakes
  BY <1>2 DEF RecoverAgentWakes, Requeued, Expired
<1>3. ASSUME NEW o \in owners, OwnerStep(o) PROVE token'[w] = token[w]
  BY <1>3 DEF OwnerStep, OwnerProgress, RenewLease, AdmitTurn, LaunchSegment,
       SettleStartFailure, SettleObserved, ObservePendingApproval,
       ObserveRunningAfterApproval, MarkWaitingForApproval, SettleOutcomeUnknown,
       SettleTreeStopped, OwnerRefused, OwnerFails, durable
<1>4. ASSUME NEW s \in segments, SegmentStep(s) PROVE token'[w] = token[w]
  BY <1>4 DEF SegmentStep, SegmentProgress, StartRuntime, StageWaitingUsage,
       StorePendingAction, CommitTerminalTrace, SegmentRefused, SatisfyBySourceMessage,
       durable
<1>5. ASSUME NEW x \in Wakes, WakeStep(x), ~ClaimNextDispatchable(x)
      PROVE  token'[w] = token[w]
  BY <1>5 DEF WakeStep, CancelStoppedWake, ControlTerminalTrace, FinishPendingAction,
       ApprovePendingAction, ApproveSkillScript, ResumeContinuation, Tick, Stall, TimePasses
<1>6. ASSUME NEW a \in Agents, AgentStep(a) PROVE token'[w] = token[w]
  BY <1>6 DEF AgentStep, Schedule, InterruptAgentExecution
<1>7. CASE \/ BeginRootTurn \/ FinishRootTurn \/ BeginAgentTreeRunStop
           \/ ReconcileExecutionFences \/ HostCrash \/ UNCHANGED vars
  BY <1>7 DEF BeginRootTurn, FinishRootTurn, BeginAgentTreeRunStop,
       ReconcileExecutionFences, HostCrash, vars, durable
<1>. QED  BY <1>1, <1>2, <1>3, <1>4, <1>5, <1>6, <1>7 DEF Next

\* As long as its lease is live a claim cannot be taken over, neither by another
\* dispatcher's scan nor by recovery.
THEOREM LiveClaimsAreSafe == Spec => LiveClaimNotStolen
<1>. DEFINE Safe == \A w \in Wakes : status[w] \in Active /\ LeaseLive(w) =>
              token'[w] = token[w]
<1>1. IInv /\ [Next]_vars => [Safe]_vars
  BY TokenKept
<1>. QED  BY <1>1, Invariance, PTL DEF Spec, LiveClaimNotStolen

=============================================================================
